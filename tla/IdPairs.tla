------------------------------- MODULE IdPairs -------------------------------
(***************************************************************************)
(* idmap_pro: a group and a user who speaks in it have a pair of numbers   *)
(* of their own, kept in the same bucket as the rows of IdMap, and         *)
(* Autobind (Processor/Processor.go), which moves user, group and pair to  *)
(* the numbers QQ knows them by, read from the address of a picture.       *)
(*                                                                         *)
(* Each message has a goroutine, and each call of idmap is a transaction:  *)
(* handlers come between one another's calls, and the process may stop     *)
(* there.  StoreID's fast path answers what its transaction would, so a    *)
(* handler's call of it is one step.  Group messages only.                 *)
(***************************************************************************)
EXTENDS IdMap

CONSTANTS
    Groups, Users,  \* the IDs of groups, and those of users in them
    Number,         \* the number QQ knows each of them by
    PairTargets,    \* pairs of numbers that administrators bind pairs to
    Handlers        \* goroutines of ProcessGroupMessage

Pairs == Groups \X Users
NoPair == <<>>
NoKeys == <<>>      \* the empty map

ASSUME IdPairsAssumption ==
    /\ HashMode     \* the program ends if idmap_pro is set without hash_id
    /\ Groups \cup Users \subseteq Remedied
    /\ Groups \cap Users = {}
    /\ Number \in [Groups \cup Users -> Rows]
    /\ PairTargets \subseteq Rows \X Rows

VARIABLES
    pairRow,        \* the numbers stored under each "group:user"
    rowPair,        \* the IDs stored under each "number:number"
    handler,        \* what each handler is doing
    taken           \* history: who lost a number to somebody else, not by Autobind

pairs == <<pairRow, rowPair>>
pvars == <<vars, pairs, handler, taken>>

(* The numbers of an ID are its 9-digit hash and the one QQ knows it by;    *)
(* IDs that QQ knows by the same number count as one.                       *)
Members == Groups \cup Users
Same == [i \in Members |-> {j \in Members : Number[j] = Number[i]}]
Own == [i \in Members |-> UNION {{HashRow[j][9], Number[j]} : j \in Same[i]}]

StrangersAt(i, map) == {r \in Own[i] : map[r] \notin Same[i] \cup {NoId}}

Resting == [at |-> "idle", pair |-> NoPair, rows |-> NoPair]

PairsInit ==
    /\ Init
    /\ pairRow = NoKeys /\ rowPair = NoKeys
    /\ handler = [h \in Handlers |-> Resting]
    /\ taken = {i \in Members : StrangersAt(i, rev) # {}}

-----------------------------------------------------------------------------
(* StoreIDPro: a new pair gets the 9-digit hashes of both IDs, whatever     *)
(* either number or both together already stand for.                        *)
Put(map, key, value) ==
    [k \in DOMAIN map \cup {key} |-> IF k = key THEN value ELSE map[k]]

HashPair(p) == <<HashRow[p[1]][9], HashRow[p[2]][9]>>

StoreIDPro(p) ==
    IF p \in DOMAIN pairRow THEN UNCHANGED pairs
    ELSE /\ pairRow' = Put(pairRow, p, HashPair(p))
         /\ rowPair' = Put(rowPair, HashPair(p), p)

CanMovePairOntoTaken(old, new) == old \in DOMAIN rowPair

CanMovePair(old, new) == old \in DOMAIN rowPair /\ new \notin DOMAIN rowPair

UpdateVirtualValuePro(old, new) ==
    IF ~CanMovePair(old, new) THEN UNCHANGED pairs
    ELSE /\ pairRow' = [pairRow EXCEPT ![rowPair[old]] = new]
         /\ rowPair' = Put(Restrict(rowPair, DOMAIN rowPair \ {old}), new, rowPair[old])

-----------------------------------------------------------------------------
(* A handler.                                                               *)

Step(h, from, to) ==
    /\ up /\ handler[h].at = from
    /\ handler' = [handler EXCEPT ![h].at = to]

Ended(h) == handler' = [handler EXCEPT ![h] = Resting]

Receive(h, p) ==
    /\ up /\ handler[h].at = "idle"
    /\ StoreIDPro(p)
    /\ handler' = [handler EXCEPT ![h] = [Resting EXCEPT !.at = "group", !.pair = p]]
    /\ UNCHANGED vars

(* The single rows, for lookups that name only the group or only the user.  *)
StoreOne(h, i, from, to) ==
    /\ Step(h, from, to)
    /\ Store(i)
    /\ UNCHANGED <<call, up, pairs>>

StoreSingle(h) ==
    \/ StoreOne(h, handler[h].pair[1], "group", "user")
    \/ StoreOne(h, handler[h].pair[2], "user", "remedyUser")

Remedy(i) ==
    \/ SimplifiedStoreID(i)
    \/ \A d \in {9, 10} : rev[HashRow[i][d]] # NoId /\ UNCHANGED vars

RemedyUser(h) ==
    /\ Step(h, "remedyUser", "remedyGroup")
    /\ Remedy(handler[h].pair[2])
    /\ UNCHANGED pairs

(* After the group, a message with a picture goes on to Autobind.           *)
RemedyGroup(h) ==
    /\ handler[h].at = "remedyGroup"
    /\ Remedy(handler[h].pair[1])
    /\ Step(h, "remedyGroup", "bindGroup") \/ Ended(h)
    /\ UNCHANGED pairs

(* Autobind stores the IDs again, and gives up if that fails.               *)
Unstorable(i) == ~Good(fwd[i]) /\ NewRow(i) = NoRow

StoreOrEnd(h, i, from, to) ==
    /\ handler[h].at = from
    /\ \/ ~Unstorable(i) /\ StoreOne(h, i, from, to)
       \/ Unstorable(i) /\ up /\ Ended(h) /\ UNCHANGED <<vars, pairs>>

BindStores(h) ==
    \/ StoreOrEnd(h, handler[h].pair[1], "bindGroup", "bindUser")
    \/ StoreOrEnd(h, handler[h].pair[2], "bindUser", "bindPair")

Numbers(p) == <<Number[p[1]], Number[p[2]]>>

(* What is still to be moved decides where it begins.                       *)
ReadPair(h) ==
    /\ up /\ handler[h].at = "bindPair"
    /\ StoreIDPro(handler[h].pair)
    /\ LET p == handler[h].pair
           rows == pairRow'[p]
       IN  handler' = [handler EXCEPT ![h].rows = rows,
                ![h].at = IF rows[2] # Number[p[2]] THEN "moveUser"
                          ELSE IF rows[1] # Number[p[1]] THEN "moveGroup"
                          ELSE "bound"]
    /\ UNCHANGED vars

AlreadyBound(h) ==
    /\ up /\ handler[h].at = "bound"
    /\ Ended(h)
    /\ UNCHANGED <<vars, pairs>>

CanMove(old, new) == rev[old] # NoId /\ rev[new] = NoId /\ new \notin Violate

MoveOrNot(old, new) ==
    \/ UpdateVirtualValue(old, new)
    \/ ~CanMove(old, new) /\ UNCHANGED vars

(* With both to be moved, updateMappings leaves the group alone when the    *)
(* user could not be.                                                       *)
MoveUser(h) ==
    LET p == handler[h].pair
        rows == handler[h].rows
    IN  /\ Step(h, "moveUser",
                IF rows[1] # Number[p[1]] /\ CanMove(rows[2], Number[p[2]])
                THEN "moveGroup" ELSE "movePair")
        /\ MoveOrNot(rows[2], Number[p[2]])
        /\ UNCHANGED pairs

MoveGroupToUser(h) ==
    /\ Step(h, "moveGroup", "movePair")
    /\ MoveOrNot(handler[h].rows[1], Number[handler[h].pair[2]])
    /\ UNCHANGED pairs

MoveGroup(h) ==
    /\ Step(h, "moveGroup", "movePair")
    /\ MoveOrNot(handler[h].rows[1], Number[handler[h].pair[1]])
    /\ UNCHANGED pairs

MovePair(h) ==
    /\ up /\ handler[h].at = "movePair"
    /\ UpdateVirtualValuePro(handler[h].rows, Numbers(handler[h].pair))
    /\ Ended(h)
    /\ UNCHANGED vars

-----------------------------------------------------------------------------
(* An administrator moves a pair over HTTP (server/getIDHandler.go).  From  *)
(* then on nothing is promised to who is in the pair, nor to those whose    *)
(* numbers it was given.                                                    *)
BindPair ==
    /\ up
    /\ \E old \in DOMAIN rowPair, new \in PairTargets :
        /\ CanMovePair(old, new)
        /\ UpdateVirtualValuePro(old, new)
        /\ taken' = taken \cup {i \in Members :
               \E k \in {1, 2} : rowPair[old][k] \in Same[i] \/ new[k] \in Own[i]}
    /\ UNCHANGED <<vars, handler>>

(* What IdMap does otherwise; a stop ends the handlers, and DeleteBucket    *)
(* deletes the pairs with the rows.                                         *)
BindOne ==
    /\ \E old \in Rows, new \in BindTargets : UpdateVirtualValue(old, new)
    /\ UNCHANGED <<pairs, handler>>

StopAll ==
    /\ Stop
    /\ handler' = [h \in Handlers |-> Resting]
    /\ UNCHANGED pairs

StartAgain == (Start \/ Clean) /\ UNCHANGED <<pairs, handler>>

ClearAll ==
    /\ Clear
    /\ pairRow' = NoKeys /\ rowPair' = NoKeys
    /\ taken' = {}
    /\ UNCHANGED handler

(* Autobind's moves blame nobody.  Any other step that gives one of an ID's *)
(* numbers to a stranger is noted: a hash of another ID, the end of a       *)
(* search, a bind.                                                          *)
Autobind(h) == MoveUser(h) \/ MoveGroup(h) \/ MovePair(h)

Resolve(h) ==
    \/ \E p \in Pairs : Receive(h, p)
    \/ StoreSingle(h) \/ RemedyUser(h) \/ RemedyGroup(h)
    \/ BindStores(h) \/ ReadPair(h) \/ AlreadyBound(h)

NoteLosers ==
    taken' = taken \cup {i \in Members : \E r \in StrangersAt(i, rev') : rev'[r] # rev[r]}

PairsNext ==
    \/ BindPair \/ ClearAll
    \/ (\E h \in Handlers : Autobind(h)) /\ UNCHANGED taken
    \/ ((\E h \in Handlers : Resolve(h)) \/ BindOne \/ StopAll \/ StartAgain) /\ NoteLosers

PairsSpec == PairsInit /\ [][PairsNext]_pvars

-----------------------------------------------------------------------------
(* An application that answers to a pair of numbers reaches the group and   *)
(* the user that have it now.  Only one thing can take a pair its numbers:  *)
(* StoreIDPro, for another pair with the same hashes, whose reverse key it  *)
(* writes unchecked; no move does, by hand or by Autobind.                  *)
LostToHashOnly ==
    /\ \A k \in DOMAIN rowPair : rowPair[k] \in DOMAIN pairRow /\ pairRow[rowPair[k]] = k
    /\ \A p \in DOMAIN pairRow :
        \/ pairRow[p] \in DOMAIN rowPair /\ rowPair[pairRow[p]] = p
        \/ \E q \in DOMAIN pairRow \ {p} : HashPair(q) = pairRow[p]

(* A number out of a pair, used alone, reaches nobody else than it does in  *)
(* the pair, however the three transactions of Autobind meet other handlers,*)
(* stops and binds: Autobind gives an ID's number to nobody else, nor a     *)
(* number to a pair that was another's.  It cannot make good what was lost  *)
(* before: an ID is excepted whose hash or number went to a stranger, whose *)
(* pair was bound by hand, or whose numbers are also those of another.      *)
Apart == {i \in Members : \A l \in Members \ Same[i] : Own[i] \cap Own[l] = {}}

AloneMeansSame ==
    \A p \in DOMAIN pairRow, k \in {1, 2} :
        p[k] \in Apart \ taken => rev[pairRow[p][k]] \in Same[p[k]] \cup {NoId}

(* Once Autobind has moved a pair to the numbers QQ knows it by, each of    *)
(* them is good alone, when the other parameter is missing.                 *)
AloneResolves ==
    \A p \in DOMAIN pairRow : pairRow[p] = Numbers(p) =>
        \A k \in {1, 2} : rev[pairRow[p][k]] # NoId
=============================================================================
