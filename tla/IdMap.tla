-------------------------------- MODULE IdMap --------------------------------
(***************************************************************************)
(* The virtual-ID map of idmap/service.go: the "ids" bucket of idmap.db,   *)
(* in which a platform ID has a row (its virtual ID) under the ID itself   *)
(* and the row has the ID under "row-<n>".  bbolt runs one writing         *)
(* transaction at a time, each a step here; a reader sees a snapshot.      *)
(*                                                                         *)
(* The goroutines that call it, the process that stops between two of      *)
(* their steps, and the -delids and -cleanids runs in between are actors.  *)
(***************************************************************************)
EXTENDS Integers, FiniteSetsExt, Functions

CONSTANTS
    Ids,            \* platform IDs (not empty, none of them a reserved key)
    NoId,           \* no such key
    Temporary,      \* the IDs isTemporaryEventID recognises
    Remedied,       \* the IDs SimplifiedStoreID is called with
    MaxRow,         \* the largest int64
    Violate,        \* the rows IsViolateID rejects
    HashMode,       \* hash_id
    HashRow,        \* GenerateRowID: the row of an ID at a number of digits
    BindTargets,    \* rows that administrators bind IDs to
    LegacyCounter,  \* an older clean-up may have lowered or lost the counter
    Callers         \* goroutines that use the map

NoRow == -1
Rows == 0..MaxRow
Digits == 9..18

ASSUME IdMapAssumption ==
    /\ NoId \notin Ids
    /\ Temporary \subseteq Ids /\ Remedied \subseteq Ids
    /\ MaxRow \in Nat \ {0}
    /\ Violate \subseteq Rows \ {0}
    /\ HashMode \in BOOLEAN /\ LegacyCounter \in BOOLEAN
    /\ HashRow \in [Ids -> [Digits -> Rows]]
    /\ BindTargets \subseteq Rows

VARIABLES
    fwd,            \* the row stored under each ID
    rev,            \* the ID stored under each "row-<n>"
    counter,        \* currentRow
    call,           \* what each caller is doing
    given,          \* the IDs each row was handed out for, ever
    up              \* the bot is running

db == <<fwd, rev, counter>>
vars == <<db, call, given, up>>

Idle == [pc |-> "idle", id |-> NoId]

(* Every variable in its range.                                             *)
TypeOK ==
    /\ fwd \in [Ids -> Rows \cup {NoRow}]
    /\ rev \in [Rows -> Ids \cup {NoId}]
    /\ counter \in Rows \cup {NoRow}
    /\ call \in [Callers -> [pc : {"idle", "store", "update"}, id : Ids \cup {NoId}]]
    /\ \A c \in Callers : call[c].pc # "idle" => call[c].id \in Ids
    /\ given \in [Rows -> SUBSET Ids]
    /\ up \in BOOLEAN

(* A file left by this or an earlier version, which knew no rejected rows:  *)
(* its rows were handed out, and unless an old clean-up touched it the      *)
(* counter has passed all those it allocated.                               *)
Init ==
    /\ fwd \in [Ids -> Rows \cup {NoRow}]
    /\ \A i, j \in Ids : fwd[i] = fwd[j] /\ fwd[i] # NoRow => i = j
    /\ rev = [r \in Rows |-> IF \E i \in Ids : fwd[i] = r
                             THEN CHOOSE i \in Ids : fwd[i] = r ELSE NoId]
    /\ counter \in Rows \cup {NoRow}
    /\ HashMode \/ LegacyCounter \/ \A i \in Ids : fwd[i] <= counter
    /\ call = [c \in Callers |-> Idle]
    /\ given = [r \in Rows |-> {rev[r]} \ {NoId}]
    /\ up = TRUE

-----------------------------------------------------------------------------
(* Choosing a row.                                                          *)

Free(map, from) ==
    {r \in Rows : from <= r /\ r < MaxRow /\ r \notin Violate /\ map[r] = NoId}

NextAvailableUnbounded(candidate) == IF candidate <= 0 THEN NoRow ELSE candidate

(* nextAvailableVirtualID: the first free row, or an error.                 *)
NextAvailable(candidate) ==
    IF candidate <= 0 \/ Free(rev, candidate) = {} THEN NoRow
    ELSE Min(Free(rev, candidate))

HashedRowShort(i) == HashRow[i][9]

(* A rejected hash is the start of a search for a free row; a taken one is  *)
(* tried again with one more digit, up to 18.                               *)
HashedRow(i) ==
    LET usable == {d \in Digits : HashRow[i][d] \in Violate \/ rev[HashRow[i][d]] = NoId}
        row == HashRow[i][Min(usable)]
    IN  IF usable = {} THEN NoRow
        ELSE IF row \in Violate THEN NextAvailable(row) ELSE row

CountedRow == NextAvailable(IF counter = NoRow THEN 1 ELSE counter + 1)

NewRow(i) == IF HashMode THEN HashedRow(i) ELSE CountedRow

-----------------------------------------------------------------------------
(* StoreID.  The read-only fast path answers when the stored row is good;   *)
(* the transaction that follows otherwise looks again.                      *)

Answer(i, row) == given' = [given EXCEPT ![row] = @ \cup {i}]

Done(c) == call' = [call EXCEPT ![c] = Idle]

Good(row) == row # NoRow /\ row \notin Violate

StoreRead(c, i) ==
    /\ up
    /\ \/ call[c].pc = "idle"
       \/ call[c].pc = "store" /\ call[c].id = i
    /\ IF Good(fwd[i])
       THEN Done(c) /\ Answer(i, fwd[i])
       ELSE call' = [call EXCEPT ![c] = [pc |-> "update", id |-> i]] /\ UNCHANGED given
    /\ UNCHANGED <<db, up>>

(* Drop the reverse key of a rejected row, then write counter, row and      *)
(* reverse key.                                                             *)
Assign(i, row) ==
    /\ counter' = IF HashMode THEN counter ELSE row
    /\ fwd' = [fwd EXCEPT ![i] = row]
    /\ rev' = [r \in Rows |-> IF r = row THEN i
                              ELSE IF r = fwd[i] /\ rev[r] = i THEN NoId
                              ELSE rev[r]]

StoreUnchecked(i) ==
    IF NewRow(i) = NoRow THEN UNCHANGED <<db, given>>
    ELSE Assign(i, NewRow(i)) /\ Answer(i, NewRow(i))

Store(i) ==
    CASE Good(fwd[i]) -> UNCHANGED db /\ Answer(i, fwd[i])
      [] ~Good(fwd[i]) /\ NewRow(i) = NoRow -> UNCHANGED <<db, given>>
      [] OTHER -> Assign(i, NewRow(i)) /\ Answer(i, NewRow(i))

StoreUpdate(c) ==
    /\ up /\ call[c].pc = "update"
    /\ Store(call[c].id)
    /\ Done(c)
    /\ UNCHANGED up

(* RetrieveRowByID and RetrieveRealValue go on to StoreID when the row they *)
(* were asked about is rejected, RetrieveVirtualValue when the one it found *)
(* is.  Otherwise these queries change nothing.                             *)
LookUpRow(c, r) ==
    /\ up /\ call[c].pc = "idle"
    /\ rev[r] # NoId /\ r \in Violate
    /\ call' = [call EXCEPT ![c] = [pc |-> "store", id |-> rev[r]]]
    /\ UNCHANGED <<db, given, up>>

LookUpId(c, i) ==
    /\ up /\ call[c].pc = "idle"
    /\ fwd[i] \in Violate
    /\ call' = [call EXCEPT ![c] = [pc |-> "store", id |-> i]]
    /\ UNCHANGED <<db, given, up>>

(* SimplifiedStoreID writes the reverse key alone, at 9 digits or at 10.    *)
SimplifiedStoreID(i) ==
    /\ up /\ i \in Remedied
    /\ LET free == {d \in {9, 10} : rev[HashRow[i][d]] = NoId}
       IN  free # {} /\ rev' = [rev EXCEPT ![HashRow[i][Min(free)]] = i]
    /\ UNCHANGED <<fwd, counter, call, given, up>>

MoveOntoTaken(old, new) ==
    /\ new # old
    /\ fwd' = [fwd EXCEPT ![rev[old]] = new]
    /\ rev' = [rev EXCEPT ![old] = NoId, ![new] = rev[old]]

MoveKeepingOld(old, new) ==
    /\ rev[new] = NoId
    /\ fwd' = [fwd EXCEPT ![rev[old]] = new]
    /\ rev' = [rev EXCEPT ![new] = rev[old]]

(* UpdateVirtualValue moves the ID of one row to another that is free.      *)
Move(old, new) ==
    /\ rev[new] = NoId
    /\ fwd' = [fwd EXCEPT ![rev[old]] = new]
    /\ rev' = [rev EXCEPT ![old] = NoId, ![new] = rev[old]]

UpdateVirtualValue(old, new) ==
    /\ up /\ new \notin Violate
    /\ rev[old] # NoId
    /\ Move(old, new)
    /\ UNCHANGED <<counter, call, given, up>>

-----------------------------------------------------------------------------
(* The process ends, at any point; the offline modes run on the same file.  *)

Stop ==
    /\ up
    /\ up' = FALSE
    /\ call' = [c \in Callers |-> Idle]
    /\ UNCHANGED <<db, given>>

Start ==
    /\ ~up
    /\ up' = TRUE
    /\ UNCHANGED <<db, call, given>>

(* DeleteBucket("ids"): every virtual ID is void and numbering starts over. *)
Clear ==
    /\ ~up
    /\ fwd' = [i \in Ids |-> NoRow] /\ rev' = [r \in Rows |-> NoId]
    /\ counter' = NoRow
    /\ given' = [r \in Rows |-> {}]
    /\ UNCHANGED <<call, up>>

Paired(i) == fwd[i] \in Rows /\ rev[fwd[i]] = i

HighestKeptRow ==
    Max({0, counter} \cup {fwd[i] : i \in {j \in Ids \ Temporary : Paired(j)}})

(* The counter, or the highest row that belongs to an ID if that is higher, *)
(* temporary IDs included: they are counted before they are deleted.        *)
HighestRow == Max({0, counter} \cup {fwd[i] : i \in {j \in Ids : Paired(j)}})

ToRemap == {i \in Ids \ Temporary : Paired(i) /\ fwd[i] \in Violate}

(* cleanBucket, one transaction: IDs on rejected rows get the next free     *)
(* rows above the highest, in key order; temporary IDs and every row of     *)
(* theirs are deleted; the counter is repaired.  It fails when the rows run *)
(* out, and changes nothing.                                                *)
Clean ==
    /\ ~up
    /\ LET free == Free(rev, HighestRow + 1)
       IN  \E new \in [ToRemap -> free] :
            /\ IsInjective(new)
            /\ \A i \in ToRemap : \A r \in free : r < new[i] => r \in Range(new)
            /\ fwd' = [i \in Ids |-> IF i \in Temporary THEN NoRow
                                     ELSE IF i \in ToRemap THEN new[i] ELSE fwd[i]]
            /\ rev' = [r \in Rows |->
                    IF r \in Range(new) THEN CHOOSE i \in ToRemap : new[i] = r
                    ELSE IF rev[r] \in Temporary \/ \E i \in ToRemap : fwd[i] = r THEN NoId
                    ELSE rev[r]]
            /\ counter' = IF HashMode /\ counter = NoRow THEN NoRow
                          ELSE Max({HighestRow} \cup Range(new))
    /\ UNCHANGED <<call, given, up>>

-----------------------------------------------------------------------------
Next ==
    \/ \E c \in Callers, i \in Ids : StoreRead(c, i) \/ LookUpId(c, i)
    \/ \E c \in Callers : StoreUpdate(c)
    \/ \E c \in Callers, r \in Rows : LookUpRow(c, r)
    \/ \E i \in Ids : SimplifiedStoreID(i)
    \/ \E old \in Rows, new \in BindTargets : UpdateVirtualValue(old, new)
    \/ Stop \/ Start \/ Clear \/ Clean

Spec == Init /\ [][Next]_vars

-----------------------------------------------------------------------------
(* The two directions of the map agree: whatever row an ID is stored with,  *)
(* an application that sends to that row reaches that ID and no other.      *)
ForwardHasReverse == \A i \in Ids : fwd[i] # NoRow => rev[fwd[i]] = i

(* No row is left behind: once an ID has moved, none of its old rows still  *)
(* leads to it.  IDs that SimplifiedStoreID also stores are excepted: it    *)
(* gives them rows that are not recorded under the ID.                      *)
NothingLeftBehind == \A r \in Rows :
    rev[r] \notin Remedied \cup {NoId} => fwd[rev[r]] = r

(* A row handed out for an ID never leads to another one afterwards, however*)
(* many restarts and clean-ups later.  The rows an administrator chose, and *)
(* those SimplifiedStoreID computes, are outside what the counter protects. *)
Protected ==
    Rows \ (BindTargets \cup {HashRow[i][d] : i \in Remedied, d \in {9, 10}})

RowMeansId == \A r \in Protected : rev[r] # NoId => given[r] \subseteq {rev[r]}

(* A step never makes an occupied row lead to another ID: it can only free  *)
(* it, for a later step to use.                                             *)
NoOverwrite == [][\A r \in Rows : rev[r] # NoId => rev'[r] \in {rev[r], NoId}]_vars

(* While the bot runs, an ID keeps the row it has unless that row is        *)
(* rejected or an administrator binds it elsewhere: callers that store it at*)
(* the same time cannot move it.                                            *)
StableRow == [][up => \A i \in Ids :
    Good(fwd[i]) => fwd'[i] = fwd[i] \/ fwd'[i] \in BindTargets]_vars
=============================================================================
