---------------------------- MODULE IdPairsProofs -----------------------------
(***************************************************************************)
(* Proofs about the pairs of idmap_pro, for any groups, users, hashes,     *)
(* numbers, binds and handlers.                                            *)
(***************************************************************************)
EXTENDS IdPairs, IdMapProofs

(* Each handler works on a pair of IDs.                                     *)
HandlersOnPairs ==
    /\ handler = [h \in Handlers |-> handler[h]]
    /\ \A h \in Handlers : handler[h].at # "idle" => handler[h].pair \in Pairs

PairsInv == HandlersOnPairs /\ DOMAIN pairRow \subseteq Pairs /\ LostToHashOnly

(* Where a pair may be moved to.                                            *)
Targets == PairTargets \cup {Numbers(p) : p \in Pairs}

-----------------------------------------------------------------------------
(* The two transactions.                                                    *)

LEMMA StoreIDProKeeps ==
    ASSUME LostToHashOnly, NEW p \in Pairs, StoreIDPro(p)
    PROVE  LostToHashOnly'
<1>1. CASE p \in DOMAIN pairRow
  BY <1>1 DEF StoreIDPro, LostToHashOnly, pairs, HashPair
<1>2. CASE p \notin DOMAIN pairRow
  <2> DEFINE k == HashPair(p)
  <2>1. /\ DOMAIN pairRow' = DOMAIN pairRow \cup {p}
        /\ pairRow'[p] = k
        /\ \A q \in DOMAIN pairRow : pairRow'[q] = pairRow[q]
    BY <1>2 DEF StoreIDPro, Put
  <2>2. /\ DOMAIN rowPair' = DOMAIN rowPair \cup {k}
        /\ rowPair'[k] = p
        /\ \A r \in DOMAIN rowPair : r # k => rowPair'[r] = rowPair[r]
    BY <1>2 DEF StoreIDPro, Put
  <2>3. k = HashPair(p)
    OBVIOUS
  <2> HIDE DEF k
  <2>4. ASSUME NEW r \in DOMAIN rowPair'
        PROVE  rowPair'[r] \in DOMAIN pairRow' /\ pairRow'[rowPair'[r]] = r
    <3>1. CASE r = k
      BY <3>1, <2>1, <2>2
    <3>2. CASE r # k
      BY <3>2, <1>2, <2>1, <2>2 DEF LostToHashOnly
    <3> QED  BY <3>1, <3>2
  <2>5. ASSUME NEW q \in DOMAIN pairRow'
        PROVE  \/ pairRow'[q] \in DOMAIN rowPair' /\ rowPair'[pairRow'[q]] = q
               \/ \E x \in DOMAIN pairRow' \ {q} : HashPair(x) = pairRow'[q]
    <3>1. CASE q = p
      BY <3>1, <2>1, <2>2
    <3>2. CASE q # p /\ pairRow[q] = k
      BY <3>2, <2>1, <2>3
    <3>3. CASE q # p /\ pairRow[q] # k
      BY <3>3, <2>1, <2>2 DEF LostToHashOnly
    <3> QED  BY <3>1, <3>2, <3>3
  <2> QED  BY <2>4, <2>5 DEF LostToHashOnly, HashPair
<1> QED  BY <1>1, <1>2

LEMMA UpdateVirtualValueProKeeps ==
    ASSUME LostToHashOnly, NEW old, NEW new, UpdateVirtualValuePro(old, new)
    PROVE  LostToHashOnly' /\ DOMAIN pairRow' = DOMAIN pairRow
<1>1. CASE UNCHANGED pairs
  BY <1>1 DEF LostToHashOnly, pairs, HashPair
<1>2. CASE CanMovePair(old, new)
  <2> DEFINE p == rowPair[old]
  <2>1. old \in DOMAIN rowPair /\ new \notin DOMAIN rowPair /\ p \in DOMAIN pairRow
        /\ pairRow[p] = old
    BY <1>2 DEF CanMovePair, LostToHashOnly
  <2>2. /\ DOMAIN pairRow' = DOMAIN pairRow
        /\ pairRow'[p] = new
        /\ \A q \in DOMAIN pairRow : q # p => pairRow'[q] = pairRow[q]
    BY <1>2, <2>1 DEF UpdateVirtualValuePro
  <2>3. /\ DOMAIN rowPair' = (DOMAIN rowPair \ {old}) \cup {new}
        /\ rowPair'[new] = p
        /\ \A r \in DOMAIN rowPair \ {old} : rowPair'[r] = rowPair[r]
    BY <1>2, <2>1 DEF UpdateVirtualValuePro, Put, Restrict
  <2>4. p = rowPair[old]
    OBVIOUS
  <2> HIDE DEF p
  <2>5. \A r \in DOMAIN rowPair \ {old} : rowPair[r] # p
    BY <2>1 DEF LostToHashOnly
  <2>6. ASSUME NEW r \in DOMAIN rowPair'
        PROVE  rowPair'[r] \in DOMAIN pairRow' /\ pairRow'[rowPair'[r]] = r
    <3>1. CASE r = new
      BY <3>1, <2>1, <2>2, <2>3
    <3>2. CASE r # new
      BY <3>2, <2>2, <2>3, <2>5 DEF LostToHashOnly
    <3> QED  BY <3>1, <3>2
  <2>7. ASSUME NEW q \in DOMAIN pairRow'
        PROVE  \/ pairRow'[q] \in DOMAIN rowPair' /\ rowPair'[pairRow'[q]] = q
               \/ \E x \in DOMAIN pairRow' \ {q} : HashPair(x) = pairRow'[q]
    <3>1. CASE q = p
      BY <3>1, <2>1, <2>2, <2>3
    <3>2. CASE q # p /\ \E x \in DOMAIN pairRow \ {q} : HashPair(x) = pairRow[q]
      BY <3>2, <2>2
    <3>3. CASE q # p /\ pairRow[q] \in DOMAIN rowPair /\ rowPair[pairRow[q]] = q
      BY <3>3, <2>1, <2>2, <2>3, <2>4
    <3> QED  BY <2>2, <3>1, <3>2, <3>3 DEF LostToHashOnly
  <2> QED  BY <2>2, <2>6, <2>7 DEF LostToHashOnly, HashPair
<1> QED  BY <1>1, <1>2 DEF UpdateVirtualValuePro

-----------------------------------------------------------------------------
(* A handler that goes on keeps its pair; one that ends has none.           *)
LEMMA HandlerGoesOn ==
    ASSUME HandlersOnPairs, NEW h \in Handlers,
           \/ Ended(h)
           \/ \E to : handler' = [handler EXCEPT ![h].at = to] /\ handler[h].at # "idle"
           \/ \E new : /\ handler' = [handler EXCEPT ![h] = new]
                       /\ new.pair \in Pairs
    PROVE  HandlersOnPairs'
<1>1. CASE Ended(h)
  BY <1>1 DEF Ended, HandlersOnPairs, Resting
<1>2. CASE \E to : handler' = [handler EXCEPT ![h].at = to] /\ handler[h].at # "idle"
  <2>1. PICK to : handler' = [handler EXCEPT ![h].at = to] /\ handler[h].at # "idle"
    BY <1>2
  <2> QED  BY <2>1 DEF HandlersOnPairs
<1>3. CASE \E new : handler' = [handler EXCEPT ![h] = new] /\ new.pair \in Pairs
  <2>1. PICK new : handler' = [handler EXCEPT ![h] = new] /\ new.pair \in Pairs
    BY <1>3
  <2> QED  BY <2>1 DEF HandlersOnPairs
<1> QED  BY <1>1, <1>2, <1>3

LEMMA NextOnPairs ==
    ASSUME HandlersOnPairs, [PairsNext]_pvars
    PROVE  HandlersOnPairs'
<1>1. ASSUME NEW h \in Handlers, NEW p \in Pairs, Receive(h, p)
      PROVE  HandlersOnPairs'
  <2>1. [Resting EXCEPT !.at = "group", !.pair = p].pair \in Pairs
    BY DEF Resting
  <2> QED  BY <1>1, <2>1, HandlerGoesOn DEF Receive
<1>2. ASSUME NEW h \in Handlers,
             Ended(h) \/ \E from, to : Step(h, from, to) /\ from # "idle"
      PROVE  HandlersOnPairs'
  BY <1>2, HandlerGoesOn DEF Step
<1>3. ASSUME NEW h \in Handlers,
             \/ StoreSingle(h) \/ RemedyUser(h) \/ RemedyGroup(h) \/ BindStores(h)
             \/ AlreadyBound(h) \/ MoveUser(h) \/ MoveGroup(h) \/ MovePair(h)
      PROVE  Ended(h) \/ \E from, to : Step(h, from, to) /\ from # "idle"
  BY <1>3 DEF StoreSingle, StoreOne, RemedyUser, RemedyGroup, BindStores, StoreOrEnd,
              AlreadyBound, MoveUser, MoveGroup, MovePair
<1>4. ASSUME NEW h \in Handlers, ReadPair(h)
      PROVE  HandlersOnPairs'
  <2>1. \E rows, at : handler' = [handler EXCEPT ![h].rows = rows, ![h].at = at]
    BY <1>4 DEF ReadPair
  <2>2. handler[h].pair \in Pairs
    BY <1>4 DEF ReadPair, HandlersOnPairs
  <2> QED  BY <2>1, <2>2 DEF HandlersOnPairs
<1>5. CASE UNCHANGED handler
  BY <1>5 DEF HandlersOnPairs
<1>6. CASE StopAll
  BY <1>6 DEF StopAll, HandlersOnPairs, Resting
<1>7. CASE BindPair \/ ClearAll \/ BindOne \/ StartAgain \/ UNCHANGED pvars
  BY <1>5, <1>7 DEF BindPair, ClearAll, BindOne, StartAgain, pvars
<1>8. CASE \E h \in Handlers : Resolve(h) \/ Autobind(h)
  BY <1>1, <1>2, <1>3, <1>4, <1>8 DEF Resolve, Autobind
<1> QED  BY <1>6, <1>7, <1>8 DEF PairsNext

(* What a step may do to the pairs.                                         *)
LEMMA PairsChange ==
    ASSUME HandlersOnPairs, [PairsNext]_pvars
    PROVE  \/ UNCHANGED pairs
           \/ \E p \in Pairs : StoreIDPro(p)
           \/ \E old, new : new \in Targets /\ UpdateVirtualValuePro(old, new)
           \/ pairRow' = NoKeys /\ rowPair' = NoKeys
<1>1. ASSUME NEW h \in Handlers,
             \/ StoreSingle(h) \/ RemedyUser(h) \/ RemedyGroup(h) \/ BindStores(h)
             \/ AlreadyBound(h) \/ MoveUser(h) \/ MoveGroup(h)
      PROVE  UNCHANGED pairs
  BY <1>1 DEF StoreSingle, StoreOne, RemedyUser, RemedyGroup, BindStores, StoreOrEnd,
              AlreadyBound, MoveUser, MoveGroup
<1>2. ASSUME NEW h \in Handlers, (\E p \in Pairs : Receive(h, p)) \/ ReadPair(h)
      PROVE  \E p \in Pairs : StoreIDPro(p)
  BY <1>2 DEF Receive, ReadPair, HandlersOnPairs
<1>3. ASSUME NEW h \in Handlers, MovePair(h)
      PROVE  \E old, new : new \in Targets /\ UpdateVirtualValuePro(old, new)
  <2>1. Numbers(handler[h].pair) \in Targets
    BY <1>3 DEF MovePair, HandlersOnPairs, Targets
  <2> QED  BY <1>3, <2>1 DEF MovePair
<1>4. CASE BindPair
  BY <1>4 DEF BindPair, Targets
<1>5. CASE BindOne \/ StopAll \/ StartAgain \/ UNCHANGED pvars
  BY <1>5 DEF BindOne, StopAll, StartAgain, pvars
<1>6. CASE ClearAll
  BY <1>6 DEF ClearAll
<1>7. CASE \E h \in Handlers : Resolve(h) \/ Autobind(h)
  BY <1>1, <1>2, <1>3, <1>7 DEF Resolve, Autobind
<1> QED  BY <1>4, <1>5, <1>6, <1>7 DEF PairsNext

LEMMA InitPairs == PairsInit => PairsInv
  BY DEF PairsInit, PairsInv, HandlersOnPairs, LostToHashOnly, NoKeys, Resting

LEMMA NextPairs ==
    ASSUME PairsInv, [PairsNext]_pvars
    PROVE  PairsInv'
<1>1. CASE UNCHANGED pairs
  BY <1>1, NextOnPairs DEF PairsInv, LostToHashOnly, pairs, HashPair
<1>2. CASE \E p \in Pairs : StoreIDPro(p)
  <2>1. DOMAIN pairRow' \subseteq Pairs
    BY <1>2 DEF PairsInv, StoreIDPro, Put, pairs
  <2> QED  BY <1>2, <2>1, NextOnPairs, StoreIDProKeeps DEF PairsInv
<1>3. CASE \E old, new : new \in Targets /\ UpdateVirtualValuePro(old, new)
  BY <1>3, NextOnPairs, UpdateVirtualValueProKeeps DEF PairsInv
<1>4. CASE pairRow' = NoKeys /\ rowPair' = NoKeys
  BY <1>4, NextOnPairs DEF PairsInv, LostToHashOnly, NoKeys
<1> QED  BY <1>1, <1>2, <1>3, <1>4, PairsChange DEF PairsInv

(* Whatever the hashes are, whatever administrators bind and handlers do,   *)
(* and wherever the program stops: a pair of numbers that leads somewhere   *)
(* leads to the pair that has it, and a pair whose numbers lead elsewhere   *)
(* lost them to the creation of another with these hashes.                  *)
THEOREM SpecLostToHashOnly == PairsSpec => []LostToHashOnly
<1>1. PairsInv /\ [PairsNext]_pvars => PairsInv'
  BY NextPairs
<1>2. PairsInv => LostToHashOnly
  BY DEF PairsInv
<1> QED  BY <1>1, <1>2, InitPairs, PTL DEF PairsSpec
-----------------------------------------------------------------------------
(* Each handler has its range and rests while the program does not run.     *)
Resolving == {"group", "user", "remedyUser", "remedyGroup", "bindGroup", "bindUser", "bindPair"}

Moving(h) == handler[h].at \in {"moveUser", "moveGroup", "movePair"}

HandlersInv ==
    /\ handler \in [Handlers ->
           [at : {"idle", "bound", "moveUser", "moveGroup", "movePair"} \cup Resolving,
            pair : Pairs \cup {NoPair}, rows : (Rows \X Rows) \cup {NoPair}]]
    /\ \A h \in Handlers : Moving(h) => handler[h].rows \in Rows \X Rows
    /\ ~up => \A h \in Handlers : handler[h].at = "idle"

(* Pairs are stored with two rows.                                          *)
PairRowsInv ==
    /\ DOMAIN pairRow \subseteq Pairs
    /\ \A p \in DOMAIN pairRow : pairRow[p] \in Rows \X Rows

TypedInv == IInv /\ HandlersOnPairs /\ PairRowsInv /\ HandlersInv

-----------------------------------------------------------------------------
(* The ranges of what the assumptions speak of.                             *)
LEMMA RowsFacts ==
    /\ HashMode /\ NoId \notin Ids
    /\ Members \subseteq Remedied /\ Remedied \subseteq Ids
    /\ \A i \in Ids, d \in Digits : HashRow[i][d] \in Rows
    /\ \A i \in Members : Number[i] \in Rows
    /\ BindTargets \subseteq Rows /\ PairTargets \subseteq Rows \X Rows
    /\ 9 \in Digits /\ 10 \in Digits
BY IdMapAssumption, IdPairsAssumption DEF Digits, Members

LEMMA NumbersInRange ==
    /\ \A p \in Pairs : p[1] \in Members /\ p[2] \in Members
    /\ \A p \in Pairs : HashPair(p) \in Rows \X Rows /\ Numbers(p) \in Rows \X Rows
    /\ Targets \subseteq Rows \X Rows
<1>1. \A p \in Pairs : p[1] \in Members /\ p[2] \in Members
  BY DEF Pairs, Members
<1>2. \A p \in Pairs : HashPair(p) \in Rows \X Rows /\ Numbers(p) \in Rows \X Rows
  BY <1>1, RowsFacts DEF HashPair, Numbers
<1> QED  BY <1>1, <1>2, RowsFacts DEF Targets

LEMMA NextPairRows ==
    ASSUME HandlersOnPairs, PairRowsInv, [PairsNext]_pvars
    PROVE  PairRowsInv'
<1>1. CASE UNCHANGED pairs
  BY <1>1 DEF PairRowsInv, pairs
<1>2. CASE \E p \in Pairs : StoreIDPro(p)
  BY <1>2, NumbersInRange DEF StoreIDPro, Put, PairRowsInv, pairs
<1>3. CASE \E old, new : new \in Targets /\ UpdateVirtualValuePro(old, new)
  <2>1. PICK old, new : new \in Targets /\ UpdateVirtualValuePro(old, new)
    BY <1>3
  <2>2. DOMAIN pairRow' = DOMAIN pairRow /\ \A p \in DOMAIN pairRow : pairRow'[p] \in {pairRow[p], new}
    BY <2>1 DEF UpdateVirtualValuePro, pairs
  <2> QED  BY <2>1, <2>2, NumbersInRange DEF PairRowsInv
<1>4. CASE pairRow' = NoKeys
  BY <1>4 DEF PairRowsInv, NoKeys
<1> QED  BY <1>1, <1>2, <1>3, <1>4, PairsChange

(* It goes on to another step of resolving, or rests.                       *)
LEMMA HandlerResolves ==
    ASSUME HandlersInv, up, UNCHANGED up, NEW h \in Handlers,
           Ended(h) \/ \E from, to : Step(h, from, to) /\ to \in Resolving
    PROVE  HandlersInv'
<1>1. CASE Ended(h)
  BY <1>1 DEF Ended, Resting, HandlersInv, Moving
<1>2. CASE \E from, to : Step(h, from, to) /\ to \in Resolving
  BY <1>2 DEF Step, HandlersInv, Moving, Resolving
<1> QED  BY <1>1, <1>2

(* While moving, it keeps the pair and the numbers it read.                 *)
LEMMA HandlerMovesOn ==
    ASSUME HandlersInv, UNCHANGED up, NEW h \in Handlers, Moving(h),
           NEW from, NEW to \in {"moveGroup", "movePair"}, Step(h, from, to)
    PROVE  HandlersInv'
BY DEF Step, HandlersInv, Moving

(* StoreIDPro puts a new pair at its hashes.                                *)
LEMMA StoreIDProPlaces ==
    ASSUME NEW p \in Pairs, StoreIDPro(p)
    PROVE  /\ p \in DOMAIN pairRow'
           /\ DOMAIN pairRow \subseteq DOMAIN pairRow'
           /\ \A q \in DOMAIN pairRow' :
                  \/ q \in DOMAIN pairRow /\ pairRow'[q] = pairRow[q]
                  \/ q \notin DOMAIN pairRow /\ pairRow'[q] = HashPair(q)
BY DEF StoreIDPro, Put, pairs

LEMMA ReceiveSafe ==
    ASSUME HandlersInv, NEW h \in Handlers, NEW p \in Pairs, Receive(h, p)
    PROVE  HandlersInv'
<1>1. /\ handler' = [handler EXCEPT ![h] = [Resting EXCEPT !.at = "group", !.pair = p]]
      /\ up /\ UNCHANGED up /\ StoreIDPro(p)
  BY DEF Receive, vars
<1> DEFINE new == [Resting EXCEPT !.at = "group", !.pair = p]
           Range1 == [at : {"idle", "bound", "moveUser", "moveGroup", "movePair"} \cup Resolving,
                      pair : Pairs \cup {NoPair}, rows : (Rows \X Rows) \cup {NoPair}]
<1>2. new \in Range1 /\ new.at = "group"
  <2>1. Resting \in Range1
    BY DEF Resting
  <2> QED  BY <2>1 DEF Resolving
<1>3. HandlersInv'
  <2> HIDE DEF new
  <2>1. handler \in [Handlers -> Range1]
    BY DEF HandlersInv
  <2>2. handler' \in [Handlers -> Range1]
    <3> HIDE DEF Range1
    <3> QED  BY <1>1, <1>2, <2>1 DEF new
  <2>3. \A k \in Handlers : Moving(k)' => Moving(k) /\ handler'[k] = handler[k]
    BY <1>1, <1>2, <2>1 DEF Moving, new
  <2> QED  BY <1>1, <2>2, <2>3 DEF HandlersInv
<1> QED  BY <1>3

LEMMA ReadPairSafe ==
    ASSUME HandlersOnPairs, PairRowsInv', HandlersInv, NEW h \in Handlers, ReadPair(h)
    PROVE  HandlersInv'
<1> DEFINE p == handler[h].pair
           rows == pairRow'[p]
<1>1. up /\ UNCHANGED up /\ p \in Pairs /\ StoreIDPro(p)
  BY DEF ReadPair, vars, HandlersOnPairs
<1>2. p \in DOMAIN pairRow' /\ rows \in Rows \X Rows
  <2>1. p \in DOMAIN pairRow'
    BY <1>1, StoreIDProPlaces
  <2> QED  BY <2>1 DEF PairRowsInv
<1>3. PICK at \in {"moveUser", "moveGroup", "bound"} :
        /\ handler' = [handler EXCEPT ![h].rows = rows, ![h].at = at]
        /\ at # "bound" => rows[1] # Number[p[1]] \/ rows[2] # Number[p[2]]
  BY DEF ReadPair
<1>4. /\ handler'[h].pair = p /\ handler'[h].rows = rows /\ handler'[h].at = at
      /\ \A k \in Handlers : k # h => handler'[k] = handler[k]
  BY <1>3 DEF HandlersInv
<1>5. HandlersInv'
  <2> HIDE DEF rows
  <2> DEFINE Range1 == [at : {"idle", "bound", "moveUser", "moveGroup", "movePair"} \cup Resolving,
                        pair : Pairs \cup {NoPair}, rows : (Rows \X Rows) \cup {NoPair}]
  <2>1. handler' \in [Handlers -> Range1]
    <3>1. handler \in [Handlers -> Range1]
      BY DEF HandlersInv
    <3>2. PICK r \in Rows \X Rows : r = rows
      BY <1>2
    <3>3. [handler[h] EXCEPT !.rows = r, !.at = at] \in Range1
      <4> DEFINE At1 == {"idle", "bound", "moveUser", "moveGroup", "movePair"} \cup Resolving
                 Pair1 == Pairs \cup {NoPair}
                 Rows1 == (Rows \X Rows) \cup {NoPair}
      <4>1. at \in At1 /\ r \in Rows1
        OBVIOUS
      <4>2. handler[h] \in [at : At1, pair : Pair1, rows : Rows1]
        BY <3>1
      <4> HIDE DEF At1, Pair1, Rows1
      <4>3. [handler[h] EXCEPT !.rows = r, !.at = at] \in [at : At1, pair : Pair1, rows : Rows1]
        BY <4>1, <4>2
      <4> QED  BY <4>3 DEF At1, Pair1, Rows1
    <3>4. handler' = [handler EXCEPT ![h] = [handler[h] EXCEPT !.rows = r, !.at = at]]
      BY <1>3, <3>1, <3>2
    <3> HIDE DEF Range1
    <3> QED  BY <3>1, <3>3, <3>4
  <2>2. \A k \in Handlers : Moving(k)' => handler'[k].rows \in Rows \X Rows
    <3>1. ASSUME NEW k \in Handlers, k # h, Moving(k)'
          PROVE  handler'[k].rows \in Rows \X Rows
      BY <3>1, <1>4 DEF HandlersInv, Moving
    <3> QED  BY <3>1, <1>2, <1>4
  <2> QED  BY <1>1, <2>1, <2>2 DEF HandlersInv
<1> QED  BY <1>5

LEMMA MovePairSafe ==
    ASSUME HandlersInv, NEW h \in Handlers, MovePair(h)
    PROVE  HandlersInv'
BY DEF MovePair, vars, Ended, Resting, HandlersInv, Moving

LEMMA NextHandlers ==
    ASSUME TypedInv, [PairsNext]_pvars
    PROVE  HandlersInv'
<1> USE DEF TypedInv
<1>1. CASE UNCHANGED handler /\ (~up' => ~up)
  BY <1>1 DEF HandlersInv, Moving
<1>2. ASSUME NEW i, Remedy(i) \/ \E old, new : MoveOrNot(old, new)
      PROVE  UNCHANGED up
  BY <1>2 DEF Remedy, SimplifiedStoreID, MoveOrNot, UpdateVirtualValue, vars
<1>3. ASSUME NEW h \in Handlers,
             \/ StoreSingle(h) \/ RemedyUser(h) \/ RemedyGroup(h)
             \/ BindStores(h) \/ AlreadyBound(h)
      PROVE  HandlersInv'
  <2>1. up
    BY <1>3 DEF StoreSingle, RemedyUser, RemedyGroup, BindStores, AlreadyBound,
                StoreOne, StoreOrEnd, Step, HandlersInv
  <2>2. UNCHANGED <<up, pairs>>
    BY <1>3, <1>2 DEF StoreSingle, RemedyUser, RemedyGroup, BindStores, AlreadyBound,
                      StoreOne, StoreOrEnd, vars
  <2>3. Ended(h) \/ \E from, to : Step(h, from, to) /\ to \in Resolving
    BY <1>3 DEF StoreSingle, RemedyUser, RemedyGroup, BindStores, AlreadyBound,
                StoreOne, StoreOrEnd, Resolving
  <2> QED  BY <2>1, <2>2, <2>3, HandlerResolves
<1>4. ASSUME NEW h \in Handlers, MoveUser(h) \/ MoveGroup(h)
      PROVE  HandlersInv'
  <2>1. PICK from \in {"moveUser", "moveGroup"}, to \in {"moveGroup", "movePair"} :
          Step(h, from, to)
    BY <1>4 DEF MoveUser, MoveGroup
  <2>2. UNCHANGED <<up, pairs>>
    BY <1>4, <1>2 DEF MoveUser, MoveGroup
  <2>3. Moving(h)
    BY <2>1 DEF Moving, Step
  <2> QED  BY <2>1, <2>2, <2>3, HandlerMovesOn
<1>5. ASSUME NEW h \in Handlers, ReadPair(h)
      PROVE  HandlersInv'
  BY <1>5, ReadPairSafe, NextPairRows
<1>6. CASE \E h \in Handlers : Resolve(h) \/ Autobind(h)
  BY <1>3, <1>4, <1>5, <1>6, ReceiveSafe, MovePairSafe DEF Resolve, Autobind
<1>7. CASE StopAll
  <2>1. handler' = [h \in Handlers |-> Resting]
    BY <1>7 DEF StopAll
  <2>2. \A h \in Handlers : handler'[h].at = "idle" /\ ~Moving(h)'
    BY <2>1 DEF Resting, Moving
  <2>3. Resting \in [at : {"idle", "bound", "moveUser", "moveGroup", "movePair"} \cup Resolving,
                      pair : Pairs \cup {NoPair}, rows : (Rows \X Rows) \cup {NoPair}]
    BY DEF Resting
  <2> QED  BY <2>1, <2>2, <2>3 DEF HandlersInv
<1>8. CASE BindPair \/ ClearAll \/ BindOne \/ StartAgain \/ UNCHANGED pvars
  BY <1>1, <1>8 DEF BindPair, ClearAll, BindOne, StartAgain, UpdateVirtualValue,
                    Start, Clean, Clear, pvars, vars
<1> QED  BY <1>6, <1>7, <1>8 DEF PairsNext

(* What a step may do to the rows: a transaction of IdMap, with the numbers *)
(* that QQ knows IDs by as further rows to be moved to.                     *)
RowsStep ==
    \/ UNCHANGED vars
    \/ \E i \in Ids : Store(i) /\ UNCHANGED <<call, up>>
    \/ \E i \in Ids : SimplifiedStoreID(i)
    \/ \E old, new \in Rows : UpdateVirtualValue(old, new)
    \/ Stop \/ Start \/ Clear \/ Clean

LEMMA NextRows ==
    ASSUME TypedInv, [PairsNext]_pvars
    PROVE  RowsStep
<1> USE DEF TypedInv
<1>1. ASSUME NEW h \in Handlers, handler[h].at # "idle", NEW k \in {1, 2}
      PROVE  /\ handler[h].pair[k] \in Members
             /\ handler[h].pair[k] \in Ids /\ Number[handler[h].pair[k]] \in Rows
             /\ Moving(h) => handler[h].rows[k] \in Rows
  <2>1. handler[h].pair \in Pairs
    BY <1>1 DEF HandlersOnPairs
  <2>2. handler[h].pair[k] \in Members
    BY <2>1, NumbersInRange
  <2>3. Moving(h) => handler[h].rows \in Rows \X Rows
    BY DEF HandlersInv
  <2> QED  BY <2>2, <2>3, RowsFacts
<1>2. ASSUME NEW h \in Handlers, StoreSingle(h) \/ BindStores(h)
      PROVE  RowsStep
  <2>1. PICK i \in {handler[h].pair[1], handler[h].pair[2]} :
          UNCHANGED vars \/ (Store(i) /\ UNCHANGED <<call, up>>)
    <3>1. PICK i \in {handler[h].pair[1], handler[h].pair[2]} :
            \E from, to : StoreOne(h, i, from, to) \/ StoreOrEnd(h, i, from, to)
      BY <1>2 DEF StoreSingle, BindStores
    <3> QED  BY <3>1 DEF StoreOne, StoreOrEnd
  <2>2. handler[h].at # "idle"
    BY <1>2 DEF StoreSingle, BindStores, StoreOne, StoreOrEnd, Step
  <2>3. i \in Ids
    BY <1>1, <2>2
  <2> QED  BY <2>1, <2>3 DEF RowsStep
<1>3. ASSUME NEW h \in Handlers, RemedyUser(h) \/ RemedyGroup(h)
      PROVE  RowsStep
  <2>1. PICK k \in {1, 2} : Remedy(handler[h].pair[k])
    BY <1>3 DEF RemedyUser, RemedyGroup
  <2>2. handler[h].at # "idle"
    BY <1>3 DEF RemedyUser, RemedyGroup, Step
  <2> QED  BY <1>1, <2>1, <2>2 DEF RowsStep, Remedy
<1>4. ASSUME NEW h \in Handlers, MoveUser(h) \/ MoveGroup(h)
      PROVE  RowsStep
  <2>1. PICK k \in {1, 2} : MoveOrNot(handler[h].rows[k], Number[handler[h].pair[k]])
    BY <1>4 DEF MoveUser, MoveGroup
  <2>2. handler[h].at # "idle" /\ Moving(h)
    BY <1>4 DEF MoveUser, MoveGroup, Step, Moving
  <2> QED  BY <1>1, <2>1, <2>2 DEF RowsStep, MoveOrNot
<1>5. ASSUME NEW h \in Handlers,
             \/ \E p \in Pairs : Receive(h, p)
             \/ ReadPair(h) \/ AlreadyBound(h) \/ MovePair(h)
      PROVE  UNCHANGED vars
  BY <1>5 DEF Receive, ReadPair, AlreadyBound, MovePair
<1>6. CASE \E h \in Handlers : Resolve(h) \/ Autobind(h)
  BY <1>2, <1>3, <1>4, <1>5, <1>6 DEF Resolve, Autobind, RowsStep
<1>7. CASE BindOne
  BY <1>7, RowsFacts DEF BindOne, RowsStep
<1>8. CASE StopAll \/ StartAgain \/ ClearAll \/ BindPair \/ UNCHANGED pvars
  BY <1>8 DEF StopAll, StartAgain, ClearAll, BindPair, RowsStep, pvars
<1> QED  BY <1>6, <1>7, <1>8 DEF PairsNext

LEMMA RowsStepKeeps ==
    ASSUME IInv, RowsStep
    PROVE  IInv' /\ Kept
<1>1. ASSUME NEW i \in Ids, Store(i), UNCHANGED <<call, up>>
      PROVE  IInv' /\ Kept
  <2>1. CallType' /\ up' \in BOOLEAN
    BY <1>1 DEF CallType, IInv, TypeOK
  <2> QED  BY <1>1, <2>1, StoreStep, StoreKept
<1>2. ASSUME NEW old \in Rows, NEW new \in Rows, UpdateVirtualValue(old, new)
      PROVE  IInv' /\ Kept
  BY <1>2, MoveStep, MoveKept
<1>3. CASE UNCHANGED vars \/ Stop \/ Start \/ Clear \/ Clean \/ \E i \in Ids : SimplifiedStoreID(i)
  <2>1. [Next]_vars
    BY <1>3 DEF Next
  <2> QED  BY <2>1, NextIInv, NextKept
<1> QED  BY <1>1, <1>2, <1>3 DEF RowsStep

LEMMA InitTyped == PairsInit => TypedInv
<1> SUFFICES ASSUME PairsInit PROVE TypedInv
  OBVIOUS
<1>1. IInv /\ HandlersOnPairs /\ up
  BY InitIInv, InitPairs DEF PairsInit, PairsInv, Init
<1>2. PairRowsInv
  BY DEF PairsInit, PairRowsInv, NoKeys
<1>3. HandlersInv
  <2>1. handler = [h \in Handlers |-> Resting]
    BY DEF PairsInit
  <2>2. \A h \in Handlers : handler[h].at = "idle" /\ ~Moving(h)
    BY <2>1 DEF Resting, Moving
  <2>3. Resting \in [at : {"idle", "bound", "moveUser", "moveGroup", "movePair"} \cup Resolving,
                      pair : Pairs \cup {NoPair}, rows : (Rows \X Rows) \cup {NoPair}]
    BY DEF Resting
  <2> QED  BY <2>1, <2>2, <2>3, <1>1 DEF HandlersInv
<1> QED  BY <1>1, <1>2, <1>3 DEF TypedInv

LEMMA SpecTypedInv == PairsSpec => []TypedInv
<1>1. TypedInv /\ [PairsNext]_pvars => TypedInv'
  <2> SUFFICES ASSUME TypedInv, [PairsNext]_pvars PROVE TypedInv'
    OBVIOUS
  <2>1. IInv'
    BY NextRows, RowsStepKeeps DEF TypedInv
  <2> QED  BY <2>1, NextHandlers, NextOnPairs, NextPairRows DEF TypedInv
<1> QED  BY <1>1, InitTyped, PTL DEF PairsSpec

(* With handlers, pairs and Autobind beside them, the two directions of the *)
(* rows agree, whatever the hashes are: a row stored for an ID leads back   *)
(* to it, and of an ID that moved nothing is left behind.                   *)
THEOREM SpecPairsRowsAgree == PairsSpec => [](TypeOK /\ ForwardHasReverse /\ NothingLeftBehind)
<1>1. TypedInv => TypeOK /\ ForwardHasReverse /\ NothingLeftBehind
  BY DEF TypedInv, IInv
<1> QED  BY <1>1, SpecTypedInv, PTL

(* Nor does any step of theirs make an occupied row lead to another ID.     *)
THEOREM SpecPairsNoOverwrite == PairsSpec => NoOverwrite
<1>1. TypedInv /\ [PairsNext]_pvars => [Kept]_vars
  BY NextRows, RowsStepKeeps DEF TypedInv
<1> QED  BY <1>1, SpecTypedInv, PTL DEF PairsSpec, NoOverwrite, Kept
-----------------------------------------------------------------------------
(* An ID's numbers, and who holds them, as long as no stranger was given    *)
(* one: on its row, in its pairs, and in the hands of a handler that moves. *)
RowsAt(i) == \A r \in Own[i] : rev[r] \in Same[i] \cup {NoId}

PairAt(i) == \A p \in DOMAIN pairRow, k \in {1, 2} :
    p[k] \in Same[i] <=> pairRow[p][k] \in Own[i]

HandAt(i) == \A h \in Handlers, k \in {1, 2} :
    Moving(h) => (handler[h].pair[k] \in Same[i] <=> handler[h].rows[k] \in Own[i])

AloneInv == \A i \in Apart \ taken : RowsAt(i) /\ PairAt(i) /\ HandAt(i)

(* An ID apart shares no hash and no number with a stranger.                *)
LEMMA OwnFacts ==
    ASSUME NEW i \in Apart
    PROVE  /\ i \in Members /\ i \in Same[i] /\ Own[i] \subseteq Rows
           /\ \A j \in Members :
                  /\ HashRow[j][9] \in Own[i] <=> j \in Same[i]
                  /\ Number[j] \in Own[i] <=> j \in Same[i]
<1>1. i \in Members /\ i \in Same[i]
  BY DEF Apart, Same
<1>2. \A l \in Members : Own[l] = UNION {{HashRow[j][9], Number[j]} : j \in Same[l]}
  BY DEF Own
<1>3. \A l \in Members : l \in Same[l] /\ Same[l] \subseteq Members
  BY DEF Same
<1>4. \A l \in Members : \A j \in Same[l] : HashRow[j][9] \in Own[l] /\ Number[j] \in Own[l]
  BY <1>2
<1>5. Own[i] \subseteq Rows
  BY <1>1, <1>2, <1>3, RowsFacts
<1>6. ASSUME NEW j \in Members, j \notin Same[i]
      PROVE  HashRow[j][9] \notin Own[i] /\ Number[j] \notin Own[i]
  <2>1. Own[i] \cap Own[j] = {}
    BY <1>6 DEF Apart
  <2> QED  BY <2>1, <1>3, <1>4
<1> QED  BY <1>1, <1>4, <1>5, <1>6

LEMMA PairNumbers ==
    ASSUME NEW i \in Apart, NEW p \in Pairs, NEW k \in {1, 2}
    PROVE  /\ HashPair(p)[k] \in Own[i] <=> p[k] \in Same[i]
           /\ Numbers(p)[k] \in Own[i] <=> p[k] \in Same[i]
<1>1. p[k] \in Members
  BY NumbersInRange
<1>2. HashPair(p)[k] = HashRow[p[k]][9] /\ Numbers(p)[k] = Number[p[k]]
  BY DEF HashPair, Numbers
<1> QED  BY <1>1, <1>2, OwnFacts

(* A handler that moved one row moved it among the same.                    *)
LEMMA MoveAmongSame ==
    ASSUME TypedInv, NEW i \in Apart, RowsAt(i), HandAt(i),
           NEW h \in Handlers, Moving(h), NEW k \in {1, 2},
           MoveOrNot(handler[h].rows[k], Number[handler[h].pair[k]])
    PROVE  RowsAt(i)'
<1> DEFINE old == handler[h].rows[k]
           new == Number[handler[h].pair[k]]
<1>1. CASE UNCHANGED vars
  BY <1>1 DEF RowsAt, vars, db
<1>2. CASE UpdateVirtualValue(old, new)
  <2>1. handler[h].pair[k] \in Members
    BY NumbersInRange DEF TypedInv, HandlersOnPairs, Moving
  <2>2. new \in Own[i] => old \in Own[i]
    BY <2>1, OwnFacts DEF HandAt
  <2>3. old \in Rows /\ new \in Rows
    BY <2>1, RowsFacts DEF TypedInv, HandlersInv
  <2> HIDE DEF old, new
  <2>4. rev' = [rev EXCEPT ![old] = NoId, ![new] = rev[old]]
    BY <1>2 DEF UpdateVirtualValue, Move
  <2>5. rev \in [Rows -> Ids \cup {NoId}] /\ Own[i] \subseteq Rows
    BY OwnFacts DEF TypedInv, IInv, TypeOK
  <2>6. ASSUME NEW r \in Own[i]
        PROVE  rev'[r] \in Same[i] \cup {NoId}
    <3>1. CASE r = new
      BY <3>1, <2>2, <2>3, <2>4, <2>5 DEF RowsAt
    <3>2. CASE r # new
      BY <3>2, <2>3, <2>4, <2>5 DEF RowsAt
    <3> QED  BY <3>1, <3>2
  <2> QED  BY <2>6 DEF RowsAt
<1> QED  BY <1>1, <1>2 DEF MoveOrNot

-----------------------------------------------------------------------------
(* One ID's part of the invariant through a step: its rows...               *)
LEMMA NextRowsAt ==
    ASSUME TypedInv, AloneInv, [PairsNext]_pvars, NEW i \in Apart, i \notin taken'
    PROVE  RowsAt(i)'
<1>1. i \in Members /\ Own[i] \subseteq Rows
  BY OwnFacts
<1>2. CASE ClearAll
  BY <1>1, <1>2 DEF ClearAll, Clear, RowsAt
<1>3. ASSUME i \notin taken PROVE RowsAt(i) /\ HandAt(i)
  BY <1>3 DEF AloneInv
<1>4. CASE NoteLosers
  <2>1. i \notin taken /\ \A r \in StrangersAt(i, rev') : rev'[r] = rev[r]
    BY <1>1, <1>4 DEF NoteLosers
  <2>2. ASSUME NEW r \in Own[i], rev'[r] \notin Same[i] \cup {NoId}
        PROVE  FALSE
    <3>1. r \in StrangersAt(i, rev')
      BY <2>2 DEF StrangersAt
    <3> QED  BY <1>3, <2>1, <2>2, <3>1 DEF RowsAt
  <2> QED  BY <2>2 DEF RowsAt
<1>5. CASE BindPair \/ UNCHANGED pvars
  <2>1. i \notin taken /\ UNCHANGED vars
    BY <1>5 DEF BindPair, pvars
  <2> QED  BY <1>3, <2>1 DEF RowsAt, vars, db
<1>6. ASSUME NEW h \in Handlers, Autobind(h), UNCHANGED taken
      PROVE  RowsAt(i)'
  <2>1. CASE MovePair(h)
    BY <1>3, <1>6, <2>1 DEF MovePair, RowsAt, vars, db
  <2>2. CASE MoveUser(h) \/ MoveGroup(h)
    <3>1. PICK k \in {1, 2} : MoveOrNot(handler[h].rows[k], Number[handler[h].pair[k]])
      BY <2>2 DEF MoveUser, MoveGroup
    <3>2. Moving(h)
      BY <2>2 DEF MoveUser, MoveGroup, Step, Moving
    <3> QED  BY <1>3, <1>6, <3>1, <3>2, MoveAmongSame
  <2> QED  BY <1>6, <2>1, <2>2 DEF Autobind
<1> QED  BY <1>2, <1>4, <1>5, <1>6 DEF PairsNext

(* ...its pairs...                                                          *)
LEMMA MovePairAt ==
    ASSUME LostToHashOnly, NEW i \in Apart, PairAt(i), NEW old, NEW new,
           UpdateVirtualValuePro(old, new),
           old \in DOMAIN rowPair => \A k \in {1, 2} :
               rowPair[old][k] \in Same[i] <=> new[k] \in Own[i]
    PROVE  PairAt(i)'
<1>1. CASE UNCHANGED pairs
  BY <1>1 DEF PairAt, pairs
<1>2. CASE CanMovePair(old, new)
  <2>1. PICK x \in DOMAIN pairRow : x = rowPair[old]
    BY <1>2 DEF CanMovePair, LostToHashOnly
  <2>2. pairRow' = [pairRow EXCEPT ![x] = new]
    BY <1>2, <2>1 DEF UpdateVirtualValuePro
  <2>3. \A k \in {1, 2} : x[k] \in Same[i] <=> new[k] \in Own[i]
    BY <1>2, <2>1 DEF CanMovePair
  <2>4. ASSUME NEW p \in DOMAIN pairRow', NEW k \in {1, 2}
        PROVE  p[k] \in Same[i] <=> pairRow'[p][k] \in Own[i]
    <3>1. CASE p = x
      BY <3>1, <2>2, <2>3
    <3>2. CASE p # x
      BY <3>2, <2>2 DEF PairAt
    <3> QED  BY <3>1, <3>2
  <2> QED  BY <2>4 DEF PairAt
<1> QED  BY <1>1, <1>2 DEF UpdateVirtualValuePro

LEMMA StorePairAt ==
    ASSUME PairRowsInv, NEW i \in Apart, PairAt(i), NEW p \in Pairs, StoreIDPro(p)
    PROVE  PairAt(i)'
<1>1. ASSUME NEW q \in DOMAIN pairRow', NEW k \in {1, 2}
      PROVE  q[k] \in Same[i] <=> pairRow'[q][k] \in Own[i]
  <2>1. CASE q \in DOMAIN pairRow
    BY <2>1, StoreIDProPlaces DEF PairAt
  <2>2. CASE q \notin DOMAIN pairRow
    <3>1. q = p /\ pairRow'[q] = HashPair(q)
      BY <2>2, StoreIDProPlaces DEF StoreIDPro, Put, pairs
    <3> QED  BY <3>1, PairNumbers
  <2> QED  BY <2>1, <2>2
<1> QED  BY <1>1 DEF PairAt

LEMMA NextPairAt ==
    ASSUME TypedInv, PairsInv, AloneInv, [PairsNext]_pvars, NEW i \in Apart, i \notin taken'
    PROVE  PairAt(i)'
<1>1. CASE ClearAll
  BY <1>1 DEF ClearAll, PairAt, NoKeys
<1>2. CASE ~ClearAll
  <2>1. i \notin taken
    BY <1>2 DEF PairsNext, NoteLosers, BindPair, pvars
  <2>2. PairAt(i) /\ HandAt(i) /\ LostToHashOnly /\ PairRowsInv
    BY <2>1 DEF AloneInv, PairsInv, TypedInv
  <2>3. CASE UNCHANGED pairs
    BY <2>2, <2>3 DEF PairAt, pairs
  <2>4. CASE \E p \in Pairs : StoreIDPro(p)
    BY <2>2, <2>4, StorePairAt
  <2>5. CASE BindPair
    <3>1. PICK old \in DOMAIN rowPair, new \in PairTargets :
            /\ UpdateVirtualValuePro(old, new)
            /\ taken' = taken \cup {j \in Members :
                   \E k \in {1, 2} : rowPair[old][k] \in Same[j] \/ new[k] \in Own[j]}
      BY <2>5 DEF BindPair
    <3>2. \A k \in {1, 2} : rowPair[old][k] \notin Same[i] /\ new[k] \notin Own[i]
      BY <3>1, OwnFacts
    <3> QED  BY <2>2, <3>1, <3>2, MovePairAt
  <2>6. ASSUME NEW h \in Handlers, MovePair(h)
        PROVE  PairAt(i)'
    <3> DEFINE q == handler[h].pair
               old == handler[h].rows
    <3>1. Moving(h) /\ q \in Pairs /\ UpdateVirtualValuePro(old, Numbers(q))
      BY <2>6 DEF MovePair, Moving, TypedInv, HandlersOnPairs
    <3> HIDE DEF q, old
    <3>2. ASSUME old \in DOMAIN rowPair, NEW k \in {1, 2}
          PROVE  rowPair[old][k] \in Same[i] <=> Numbers(q)[k] \in Own[i]
      <4>1. rowPair[old] \in DOMAIN pairRow /\ pairRow[rowPair[old]] = old
        BY <2>2, <3>2 DEF LostToHashOnly
      <4>2. rowPair[old][k] \in Same[i] <=> old[k] \in Own[i]
        BY <2>2, <4>1 DEF PairAt
      <4>3. q[k] \in Same[i] <=> old[k] \in Own[i]
        BY <2>2, <3>1 DEF HandAt, q, old
      <4> QED  BY <3>1, <4>2, <4>3, PairNumbers
    <3> QED  BY <2>2, <3>1, <3>2, MovePairAt
  <2>7. ASSUME NEW h \in Handlers, Resolve(h) \/ MoveUser(h) \/ MoveGroup(h)
        PROVE  UNCHANGED pairs \/ \E p \in Pairs : StoreIDPro(p)
    <3>1. CASE (\E p \in Pairs : Receive(h, p)) \/ ReadPair(h)
      BY <3>1 DEF Receive, ReadPair, TypedInv, HandlersOnPairs
    <3>2. CASE ~((\E p \in Pairs : Receive(h, p)) \/ ReadPair(h))
      BY <2>7, <3>2 DEF Resolve, StoreSingle, StoreOne, RemedyUser, RemedyGroup, BindStores,
                        StoreOrEnd, AlreadyBound, MoveUser, MoveGroup
    <3> QED  BY <3>1, <3>2
  <2>8. CASE BindOne \/ StopAll \/ StartAgain \/ UNCHANGED pvars
    BY <2>3, <2>8 DEF BindOne, StopAll, StartAgain, pvars
  <2> QED  BY <1>2, <2>3, <2>4, <2>5, <2>6, <2>7, <2>8 DEF PairsNext, Autobind
<1> QED  BY <1>1, <1>2

(* ...and what handlers hold.                                               *)
LEMMA NextHandAt ==
    ASSUME TypedInv, AloneInv, [PairsNext]_pvars,
           NEW i \in Apart, i \notin taken', PairAt(i)'
    PROVE  HandAt(i)'
<1> DEFINE Keeps(h) == Moving(h)' =>
        /\ Moving(h)
        /\ handler'[h].pair = handler[h].pair /\ handler'[h].rows = handler[h].rows
<1>1. CASE ClearAll
  <2>1. \A h \in Handlers : ~Moving(h)'
    BY <1>1 DEF ClearAll, Clear, TypedInv, HandlersInv, Moving
  <2> QED  BY <2>1 DEF HandAt
<1>2. ASSUME ~ClearAll, \A h \in Handlers : Keeps(h)
      PROVE  HandAt(i)'
  <2>1. i \notin taken
    BY <1>2 DEF PairsNext, NoteLosers, BindPair, pvars
  <2>2. HandAt(i)
    BY <2>1 DEF AloneInv
  <2> QED  BY <1>2, <2>2 DEF HandAt
<1>3. CASE StopAll
  <2>1. \A h \in Handlers : Keeps(h)
    BY <1>3 DEF StopAll, Resting, Moving
  <2>2. ~ClearAll
    BY <1>3 DEF StopAll, Stop, ClearAll, Clear
  <2> QED  BY <1>2, <2>1, <2>2
<1>4. CASE UNCHANGED handler /\ ~ClearAll
  <2>1. \A h \in Handlers : Keeps(h)
    BY <1>4 DEF Moving
  <2> QED  BY <1>2, <1>4, <2>1
<1>5. ASSUME NEW h \in Handlers, Resolve(h) \/ Autobind(h)
      PROVE  HandAt(i)'
  <2>1. up /\ ~ClearAll
    BY <1>5 DEF Resolve, Autobind, Receive, StoreSingle, StoreOne, RemedyUser, RemedyGroup,
                BindStores, StoreOrEnd, ReadPair, AlreadyBound, MoveUser, MoveGroup, MovePair,
                Step, TypedInv, HandlersInv, ClearAll, Clear
  <2>2. \E new : handler' = [handler EXCEPT ![h] = new]
    BY <1>5 DEF Resolve, Autobind, Receive, StoreSingle, StoreOne, RemedyUser, RemedyGroup,
                BindStores, StoreOrEnd, ReadPair, AlreadyBound, MoveUser, MoveGroup, MovePair,
                Step, Ended
  <2>3. \A g \in Handlers : g # h => handler'[g] = handler[g]
    BY <2>2 DEF TypedInv, HandlersInv
  <2>4. \A g \in Handlers : g # h => Keeps(g)
    BY <2>3 DEF Moving
  <2>5. CASE ReadPair(h)
    <3> DEFINE p == handler[h].pair
    <3>1. p \in Pairs /\ StoreIDPro(p)
      BY <2>5 DEF ReadPair, TypedInv, HandlersOnPairs
    <3>2. p \in DOMAIN pairRow'
      BY <3>1, StoreIDProPlaces
    <3>3. handler'[h].pair = p /\ handler'[h].rows = pairRow'[p]
      BY <2>5 DEF ReadPair, TypedInv, HandlersInv
    <3> HIDE DEF p
    <3>4. \A k \in {1, 2} : handler'[h].pair[k] \in Same[i] <=> handler'[h].rows[k] \in Own[i]
      BY <3>2, <3>3 DEF PairAt
    <3>5. HandAt(i)
      <4>1. i \notin taken
        BY <2>1 DEF PairsNext, NoteLosers, BindPair, pvars
      <4> QED  BY <4>1 DEF AloneInv
    <3> QED  BY <2>4, <3>4, <3>5 DEF HandAt
  <2>6. CASE ~ReadPair(h)
    <3>1. Keeps(h)
      <4>1. CASE \E p \in Pairs : Receive(h, p)
        BY <4>1 DEF Receive, Moving, TypedInv, HandlersInv, Resting
      <4>2. CASE Ended(h)
        BY <4>2 DEF Ended, Moving, TypedInv, HandlersInv, Resting
      <4>3. CASE \E from, to : Step(h, from, to) /\ (to \in Resolving \/ from \in {"moveUser", "moveGroup"})
        BY <4>3 DEF Step, Moving, TypedInv, HandlersInv, Resolving
      <4>4. CASE StoreSingle(h) \/ RemedyUser(h) \/ RemedyGroup(h)
                 \/ BindStores(h) \/ AlreadyBound(h)
        <5>1. Ended(h) \/ \E from, to : Step(h, from, to) /\ to \in Resolving
          BY <4>4 DEF StoreSingle, RemedyUser, RemedyGroup, BindStores, AlreadyBound,
                      StoreOne, StoreOrEnd, Resolving
        <5> QED  BY <4>2, <4>3, <5>1
      <4>5. CASE MoveUser(h) \/ MoveGroup(h) \/ MovePair(h)
        <5>1. Ended(h) \/ \E from, to : Step(h, from, to) /\ from \in {"moveUser", "moveGroup"}
          BY <4>5 DEF MoveUser, MoveGroup, MovePair
        <5> QED  BY <4>2, <4>3, <5>1
      <4> QED  BY <1>5, <2>6, <4>1, <4>4, <4>5 DEF Resolve, Autobind
    <3> QED  BY <1>2, <2>1, <2>4, <3>1
  <2> QED  BY <2>5, <2>6
<1>6. CASE BindPair \/ BindOne \/ StartAgain \/ UNCHANGED pvars
  BY <1>1, <1>4, <1>6 DEF BindPair, BindOne, StartAgain, pvars
<1> QED  BY <1>1, <1>3, <1>5, <1>6 DEF PairsNext

LEMMA InitAlone == PairsInit => AloneInv
<1> SUFFICES ASSUME PairsInit, NEW i \in Apart \ taken
             PROVE  RowsAt(i) /\ PairAt(i) /\ HandAt(i)
  BY DEF AloneInv
<1>1. i \in Members /\ StrangersAt(i, rev) = {}
  BY OwnFacts DEF PairsInit
<1>2. RowsAt(i)
  BY <1>1 DEF StrangersAt, RowsAt
<1> QED  BY <1>2 DEF PairsInit, NoKeys, Resting, PairAt, HandAt, Moving

(* However handlers, their three moves, stops and binds meet: a number out  *)
(* of a pair, used alone, reaches nobody else than it does in the pair, for *)
(* every ID none of whose numbers went to a stranger before.                *)
THEOREM SpecAloneMeansSame == PairsSpec => []AloneMeansSame
<1>1. PairsInit => PairsInv /\ AloneInv
  BY InitPairs, InitAlone
<1>2. TypedInv /\ PairsInv /\ AloneInv /\ [PairsNext]_pvars => PairsInv' /\ AloneInv'
  <2> SUFFICES ASSUME TypedInv, PairsInv, AloneInv, [PairsNext]_pvars
               PROVE  PairsInv' /\ AloneInv'
    OBVIOUS
  <2>1. ASSUME NEW i \in Apart, i \notin taken'
        PROVE  RowsAt(i)' /\ PairAt(i)' /\ HandAt(i)'
    BY <2>1, NextRowsAt, NextPairAt, NextHandAt
  <2> QED  BY <2>1, NextPairs DEF AloneInv
<1>3. TypedInv /\ AloneInv => AloneMeansSame
  <2> SUFFICES ASSUME TypedInv, AloneInv, NEW p \in DOMAIN pairRow, NEW k \in {1, 2},
                      p[k] \in Apart \ taken
               PROVE  rev[pairRow[p][k]] \in Same[p[k]] \cup {NoId}
    BY DEF AloneMeansSame
  <2>1. PICK i \in Apart \ taken : i = p[k]
    OBVIOUS
  <2>2. RowsAt(i) /\ PairAt(i) /\ i \in Same[i]
    BY OwnFacts DEF AloneInv
  <2>3. pairRow[p][k] \in Own[i]
    BY <2>1, <2>2 DEF PairAt
  <2> QED  BY <2>1, <2>2, <2>3 DEF RowsAt
<1> QED  BY <1>1, <1>2, <1>3, SpecTypedInv, PTL DEF PairsSpec
=============================================================================
