----------------------------- MODULE IdMapProofs ------------------------------
(***************************************************************************)
(* Proofs about the virtual-ID map, for any IDs, rows, hashes, rejected    *)
(* rows and callers.                                                       *)
(***************************************************************************)
EXTENDS IdMap, FiniteSetTheorems, WellFoundedInduction, TLAPS

(* While nothing is hashed and the counter was never lowered, it has passed *)
(* every protected row that is in use or was ever handed out.               *)
CounterAhead == \A r \in Protected :
    rev[r] # NoId \/ given[r] # {} => r <= counter

IInv == TypeOK /\ ForwardHasReverse /\ NothingLeftBehind

(* What the counter's way of numbering adds to it.                          *)
CountedInv == CounterAhead /\ RowMeansId

-----------------------------------------------------------------------------
(* Min of a set of natural numbers is one of them, the least: the intervals *)
(* 0..y are ordered by inclusion, which is well-founded.                    *)
LEMMA LeastRow ==
    ASSUME NEW S, S \subseteq Nat, S # {}
    PROVE  Min(S) \in S /\ \A y \in S : Min(S) <= y
<1> DEFINE T == {0..y : y \in S}
<1>0. \A y \in S : 0..y \in SUBSET Nat /\ IsFiniteSet(0..y)
  <2> TAKE y \in S
  <2>1. y \in Int
    OBVIOUS
  <2> QED  BY <2>1, FS_Interval
<1>1. T \subseteq FiniteSubsetsOf(Nat) /\ T # {}
  BY <1>0, Zenon DEF FiniteSubsetsOf
<1>2. PICK t \in T : \A s \in T : ~(<<s, t>> \in StrictSubsetOrdering(Nat))
  <2> HIDE DEF T
  <2> QED  BY <1>1, FS_StrictSubsetOrderingWellFounded, WFMin, Zenon
<1>3. PICK x \in S : t = 0..x
  OBVIOUS
<1>4. \A y \in S : x <= y
  <2> SUFFICES ASSUME NEW y \in S, y < x PROVE FALSE
    BY x \in Nat, S \subseteq Nat
  <2>1. 0..y \subseteq 0..x /\ 0..y # 0..x
    BY x \in Nat, y \in Nat, x \in 0..x, x \notin 0..y
  <2>2. <<0..y, 0..x>> \in StrictSubsetOrdering(Nat)
    BY <2>1, <1>1 DEF StrictSubsetOrdering
  <2> QED  BY <1>2, <1>3, <2>2
<1> QED  BY <1>4 DEF Min

(* The greatest row.                                                        *)

LEMMA GreatestRow ==
    ASSUME NEW S, S \subseteq Rows \cup {NoRow}, S # {}
    PROVE  Max(S) \in S /\ \A y \in S : y <= Max(S)
<1> DEFINE T == {MaxRow - y : y \in S}
<1>0. \A y \in S : y \in Int /\ MaxRow - y \in Nat
  BY IdMapAssumption DEF Rows, NoRow
<1>1. T \subseteq Nat /\ T # {}
  BY <1>0
<1>2. Min(T) \in T /\ \A t \in T : Min(T) <= t
  <2> HIDE DEF T
  <2> QED  BY <1>1, LeastRow
<1>3. PICK x \in S : Min(T) = MaxRow - x
  BY <1>2
<1>4. \A y \in S : y <= x
  <2> TAKE y \in S
  <2>1. MaxRow - x <= MaxRow - y
    <3>1. MaxRow - y \in T
      OBVIOUS
    <3> HIDE DEF T
    <3> QED  BY <1>2, <1>3, <3>1
  <2> QED  BY <2>1, <1>0, IdMapAssumption
<1> QED  BY <1>4, IdMapAssumption DEF Max, Rows, NoRow

-----------------------------------------------------------------------------
(* A chosen row is free and not rejected; a counted one is above the counter.*)

LEMMA NextAvailableFree ==
    ASSUME TypeOK, NEW c \in Int, NextAvailable(c) # NoRow
    PROVE  /\ NextAvailable(c) \in Rows \ Violate
           /\ rev[NextAvailable(c)] = NoId
           /\ c <= NextAvailable(c)
<1>1. Free(rev, c) \subseteq Nat /\ Free(rev, c) # {}
  BY IdMapAssumption DEF Free, NextAvailable, Rows
<1>2. NextAvailable(c) = Min(Free(rev, c))
  BY DEF NextAvailable
<1>3. Min(Free(rev, c)) \in Free(rev, c)
  BY <1>1, LeastRow
<1> QED  BY <1>2, <1>3 DEF Free

LEMMA NewRowFree ==
    ASSUME TypeOK, NEW i \in Ids, NewRow(i) # NoRow
    PROVE  /\ NewRow(i) \in Rows \ Violate
           /\ rev[NewRow(i)] = NoId
           /\ ~HashMode => counter < NewRow(i)
<1>1. CASE ~HashMode
  <2> DEFINE from == IF counter = NoRow THEN 1 ELSE counter + 1
  <2>1. from \in Int /\ counter < from
    BY IdMapAssumption DEF TypeOK, Rows, NoRow
  <2>2. NewRow(i) = NextAvailable(from)
    BY <1>1 DEF NewRow, CountedRow
  <2>3. NewRow(i) \in Rows \ Violate /\ rev[NewRow(i)] = NoId /\ from <= NewRow(i)
    <3> HIDE DEF from
    <3> QED  BY <2>1, <2>2, NextAvailableFree
  <2> HIDE DEF from
  <2> QED  BY <2>1, <2>3, IdMapAssumption DEF TypeOK, Rows, NoRow
<1>2. CASE HashMode
  <2> DEFINE usable == {d \in Digits : HashRow[i][d] \in Violate \/ rev[HashRow[i][d]] = NoId}
             row == HashRow[i][Min(usable)]
  <2>1. NewRow(i) = HashedRow(i) /\ usable # {}
    BY <1>2 DEF NewRow, HashedRow
  <2>2. Min(usable) \in usable
    BY <2>1, LeastRow, usable \subseteq Nat DEF Digits
  <2>3. row \in Rows /\ (row \in Violate \/ rev[row] = NoId)
    BY <2>2, IdMapAssumption
  <2>4. NewRow(i) = IF row \in Violate THEN NextAvailable(row) ELSE row
    BY <2>1 DEF HashedRow
  <2> HIDE DEF usable, row
  <2>5. CASE row \in Violate
    BY <2>3, <2>4, <2>5, <1>2, NextAvailableFree, IdMapAssumption DEF Rows
  <2>6. CASE row \notin Violate
    BY <2>3, <2>4, <2>6, <1>2
  <2> QED  BY <2>5, <2>6
<1> QED  BY <1>1, <1>2

-----------------------------------------------------------------------------
(* The invariant, action by action.                                         *)

LEMMA InitIInv == Init => IInv
<1> SUFFICES ASSUME Init PROVE IInv
  OBVIOUS
<1>1. \A i \in Ids : fwd[i] # NoRow => rev[fwd[i]] = i
  <2> TAKE i \in Ids
  <2> HAVE fwd[i] # NoRow
  <2>1. fwd[i] \in Rows /\ rev[fwd[i]] = CHOOSE j \in Ids : fwd[j] = fwd[i]
    BY DEF Init
  <2> QED  BY <2>1 DEF Init
<1>2. \A r \in Rows : rev[r] # NoId => rev[r] \in Ids /\ fwd[rev[r]] = r
  BY DEF Init
<1>3. TypeOK
  <2>1. rev \in [Rows -> Ids \cup {NoId}]
    BY <1>2 DEF Init
  <2>2. given \in [Rows -> SUBSET Ids]
    BY <2>1 DEF Init
  <2> QED  BY <2>1, <2>2 DEF Init, TypeOK, Idle
<1> QED  BY <1>1, <1>2, <1>3 DEF IInv, ForwardHasReverse, NothingLeftBehind

(* Writing a free row for an ID without a good one.                         *)
LEMMA AssignStep ==
    ASSUME IInv, NEW i \in Ids, NEW row \in Rows, rev[row] = NoId,
           ~Good(fwd[i]), Assign(i, row)
    PROVE  /\ fwd' \in [Ids -> Rows \cup {NoRow}]
           /\ rev' \in [Rows -> Ids \cup {NoId}]
           /\ counter' \in Rows \cup {NoRow}
           /\ ForwardHasReverse' /\ NothingLeftBehind'
<1> USE IdMapAssumption
<1>1. fwd' \in [Ids -> Rows \cup {NoRow}] /\ rev' \in [Rows -> Ids \cup {NoId}]
  BY DEF Assign, IInv, TypeOK
<1>2. counter' \in Rows \cup {NoRow}
  BY DEF Assign, IInv, TypeOK
<1>3. ForwardHasReverse'
  <2> SUFFICES ASSUME NEW j \in Ids, fwd'[j] # NoRow PROVE rev'[fwd'[j]] = j
    BY DEF ForwardHasReverse
  <2>1. CASE j = i
    BY <2>1 DEF Assign, IInv, TypeOK
  <2>2. CASE j # i
    <3>1. fwd'[j] = fwd[j] /\ fwd[j] \in Rows /\ rev[fwd[j]] = j
      BY <2>2 DEF Assign, IInv, TypeOK, ForwardHasReverse
    <3>2. fwd[j] # row
      BY <3>1
    <3> QED  BY <3>1, <3>2, <2>2 DEF Assign
  <2> QED  BY <2>1, <2>2
<1>4. NothingLeftBehind'
  <2> SUFFICES ASSUME NEW r \in Rows, rev'[r] \notin Remedied \cup {NoId}
               PROVE  fwd'[rev'[r]] = r
    BY DEF NothingLeftBehind
  <2>1. CASE r = row
    BY <2>1 DEF Assign, IInv, TypeOK
  <2>2. CASE r # row
    <3>1. rev'[r] = rev[r] /\ ~(r = fwd[i] /\ rev[r] = i)
      BY <2>2 DEF Assign
    <3>2. fwd[rev[r]] = r /\ rev[r] \in Ids
      BY <3>1 DEF IInv, TypeOK, NothingLeftBehind
    <3> QED  BY <3>1, <3>2 DEF Assign, IInv, TypeOK
  <2> QED  BY <2>1, <2>2
<1> QED  BY <1>1, <1>2, <1>3, <1>4

LEMMA AnswerType ==
    ASSUME TypeOK, NEW i \in Ids, NEW row \in Rows, Answer(i, row)
    PROVE  given' \in [Rows -> SUBSET Ids]
BY DEF Answer, TypeOK

CallType == /\ call \in [Callers -> [pc : {"idle", "store", "update"}, id : Ids \cup {NoId}]]
            /\ \A c \in Callers : call[c].pc # "idle" => call[c].id \in Ids

LEMMA DoneType ==
    ASSUME TypeOK, NEW c \in Callers, Done(c)
    PROVE  CallType'
BY DEF Done, TypeOK, Idle, CallType

LEMMA BusyType ==
    ASSUME TypeOK, NEW c \in Callers, NEW i \in Ids, NEW pc \in {"store", "update"},
           call' = [call EXCEPT ![c] = [pc |-> pc, id |-> i]]
    PROVE  CallType'
BY DEF TypeOK, CallType

(* The invariant depends on what is answered and on the callers only by type.*)
LEMMA DbKept ==
    ASSUME IInv, UNCHANGED db, CallType', given' \in [Rows -> SUBSET Ids], up' \in BOOLEAN
    PROVE  IInv'
BY DEF IInv, db, TypeOK, CallType, ForwardHasReverse, NothingLeftBehind

LEMMA StoreReadStep ==
    ASSUME IInv, NEW c \in Callers, NEW i \in Ids, StoreRead(c, i)
    PROVE  IInv'
<1>1. UNCHANGED db /\ up' \in BOOLEAN
  BY DEF StoreRead, IInv, TypeOK
<1>2. CASE Good(fwd[i])
  <2>1. Done(c) /\ Answer(i, fwd[i]) /\ fwd[i] \in Rows
    BY <1>2 DEF StoreRead, Good, IInv, TypeOK
  <2> QED  BY <2>1, <1>1, DoneType, AnswerType, DbKept DEF IInv
<1>3. CASE ~Good(fwd[i])
  <2>1. call' = [call EXCEPT ![c] = [pc |-> "update", id |-> i]] /\ given' = given
    BY <1>3 DEF StoreRead
  <2> QED  BY <2>1, <1>1, BusyType, DbKept DEF IInv, TypeOK
<1> QED  BY <1>2, <1>3

LEMMA LookUpStep ==
    ASSUME IInv, NEW c \in Callers,
           \/ \E r \in Rows : LookUpRow(c, r)
           \/ \E i \in Ids : LookUpId(c, i)
    PROVE  IInv'
<1>1. UNCHANGED db /\ up' \in BOOLEAN /\ given' \in [Rows -> SUBSET Ids]
  BY DEF LookUpRow, LookUpId, IInv, TypeOK
<1>2. PICK i \in Ids : call' = [call EXCEPT ![c] = [pc |-> "store", id |-> i]]
  BY DEF LookUpRow, LookUpId, IInv, TypeOK
<1> QED  BY <1>1, <1>2, BusyType, DbKept DEF IInv

LEMMA StoreStep ==
    ASSUME IInv, NEW i \in Ids, Store(i), up' \in BOOLEAN, CallType'
    PROVE  IInv'
<1>2. CASE UNCHANGED db /\ given' \in [Rows -> SUBSET Ids]
  BY <1>2, DbKept
<1>3. CASE Good(fwd[i])
  <2>1. UNCHANGED db /\ Answer(i, fwd[i]) /\ fwd[i] \in Rows
    BY <1>3 DEF Store, Good, IInv, TypeOK
  <2> QED  BY <2>1, <1>2, AnswerType DEF IInv
<1>4. CASE ~Good(fwd[i]) /\ NewRow(i) = NoRow
  BY <1>2, <1>4 DEF Store, IInv, TypeOK
<1>5. CASE ~Good(fwd[i]) /\ NewRow(i) # NoRow
  <2>1. Assign(i, NewRow(i)) /\ Answer(i, NewRow(i))
    BY <1>5 DEF Store
  <2>2. NewRow(i) \in Rows /\ rev[NewRow(i)] = NoId
    BY <1>5, NewRowFree DEF IInv
  <2>3. given' \in [Rows -> SUBSET Ids]
    BY <2>1, <2>2, AnswerType DEF IInv
  <2>4. /\ fwd' \in [Ids -> Rows \cup {NoRow}] /\ rev' \in [Rows -> Ids \cup {NoId}]
        /\ counter' \in Rows \cup {NoRow} /\ ForwardHasReverse' /\ NothingLeftBehind'
    BY <1>5, <2>1, <2>2, AssignStep
  <2> QED  BY <2>3, <2>4 DEF IInv, TypeOK, CallType
<1> QED  BY <1>3, <1>4, <1>5

LEMMA StoreUpdateStep ==
    ASSUME IInv, NEW c \in Callers, StoreUpdate(c)
    PROVE  IInv'
<1>1. PICK i \in Ids : Store(i)
  BY DEF StoreUpdate, IInv, TypeOK
<1>2. up' \in BOOLEAN /\ CallType'
  BY DoneType DEF StoreUpdate, IInv, TypeOK
<1> QED  BY <1>1, <1>2, StoreStep

LEMMA SimplifiedStep ==
    ASSUME IInv, NEW i \in Ids, SimplifiedStoreID(i)
    PROVE  IInv'
<1> DEFINE free == {d \in {9, 10} : rev[HashRow[i][d]] = NoId}
           row == HashRow[i][Min(free)]
<1>1. i \in Remedied /\ free # {} /\ rev' = [rev EXCEPT ![row] = i]
  BY DEF SimplifiedStoreID
<1>2. UNCHANGED <<fwd, counter, call, given, up>>
  BY DEF SimplifiedStoreID
<1>3. row \in Rows /\ rev[row] = NoId
  <2>1. Min(free) \in free
    BY <1>1, LeastRow, free \subseteq Nat
  <2> QED  BY <2>1, IdMapAssumption DEF Digits
<1> HIDE DEF free, row
<1> QED  BY <1>1, <1>2, <1>3, IdMapAssumption
         DEF IInv, TypeOK, ForwardHasReverse, NothingLeftBehind

LEMMA MoveStep ==
    ASSUME IInv, NEW old \in Rows, NEW new \in Rows, UpdateVirtualValue(old, new)
    PROVE  IInv'
<1> DEFINE i == rev[old]
<1>1. /\ i \in Ids /\ new \in Rows /\ rev[new] = NoId /\ old # new
      /\ fwd' = [fwd EXCEPT ![i] = new]
      /\ rev' = [rev EXCEPT ![old] = NoId, ![new] = i]
      /\ UNCHANGED <<counter, call, given, up>>
  BY IdMapAssumption DEF UpdateVirtualValue, Move, IInv, TypeOK
<1>2. TypeOK'
  BY <1>1, IdMapAssumption DEF IInv, TypeOK
<1>3. ForwardHasReverse'
  <2> SUFFICES ASSUME NEW j \in Ids, fwd'[j] # NoRow PROVE rev'[fwd'[j]] = j
    BY DEF ForwardHasReverse
  <2>1. CASE j = i
    BY <1>1, <2>1 DEF IInv, TypeOK
  <2>2. CASE j # i
    <3>1. fwd'[j] = fwd[j] /\ fwd[j] \in Rows /\ rev[fwd[j]] = j
      BY <1>1, <2>2 DEF IInv, TypeOK, ForwardHasReverse
    <3>2. fwd[j] # new /\ fwd[j] # old
      BY <1>1, <3>1, <2>2, IdMapAssumption
    <3> QED  BY <1>1, <3>1, <3>2 DEF IInv, TypeOK
  <2> QED  BY <2>1, <2>2
<1>4. NothingLeftBehind'
  <2> SUFFICES ASSUME NEW r \in Rows, rev'[r] \notin Remedied \cup {NoId}
               PROVE  fwd'[rev'[r]] = r
    BY DEF NothingLeftBehind
  <2>1. CASE r = new
    BY <1>1, <2>1 DEF IInv, TypeOK
  <2>2. CASE r # new
    <3>1. r # old /\ rev'[r] = rev[r]
      BY <1>1, <2>2 DEF IInv, TypeOK
    <3>2. fwd[rev[r]] = r /\ rev[r] \in Ids
      BY <3>1 DEF IInv, TypeOK, NothingLeftBehind
    <3>3. rev[r] # i
      BY <1>1, <3>1, <3>2 DEF IInv, NothingLeftBehind
    <3> QED  BY <1>1, <3>1, <3>2, <3>3 DEF IInv, TypeOK
  <2> QED  BY <2>1, <2>2
<1> QED  BY <1>2, <1>3, <1>4 DEF IInv

(* What the rows chosen by a clean-up satisfy.                              *)
Remapping(new) ==
    /\ new \in [ToRemap -> Free(rev, HighestRow + 1)]
    /\ IsInjective(new)
    /\ fwd' = [i \in Ids |-> IF i \in Temporary THEN NoRow
                             ELSE IF i \in ToRemap THEN new[i] ELSE fwd[i]]
    /\ rev' = [r \in Rows |->
            IF r \in Range(new) THEN CHOOSE i \in ToRemap : new[i] = r
            ELSE IF rev[r] \in Temporary \/ \E i \in ToRemap : fwd[i] = r THEN NoId
            ELSE rev[r]]
    /\ counter' = IF HashMode /\ counter = NoRow THEN NoRow
                  ELSE Max({HighestRow} \cup Range(new))

LEMMA HighestRowBound ==
    ASSUME TypeOK
    PROVE  /\ HighestRow \in Rows /\ counter <= HighestRow
           /\ \A i \in Ids : Paired(i) => fwd[i] <= HighestRow
<1> DEFINE S == {0, counter} \cup {fwd[i] : i \in {j \in Ids : Paired(j)}}
<1>1. S \subseteq Rows \cup {NoRow} /\ S # {} /\ 0 \in S /\ counter \in S
      /\ \A i \in Ids : Paired(i) => fwd[i] \in S
  BY IdMapAssumption DEF TypeOK, Paired, Rows
<1> HIDE DEF S
<1>2. Max(S) \in S /\ \A y \in S : y <= Max(S)
  BY <1>1, GreatestRow
<1>3. HighestRow = Max(S)
  BY DEF HighestRow, S
<1>4. HighestRow \in Rows \cup {NoRow} /\ 0 <= HighestRow /\ counter <= HighestRow
      /\ \A i \in Ids : Paired(i) => fwd[i] <= HighestRow
  BY <1>1, <1>2, <1>3
<1> QED  BY <1>4, IdMapAssumption DEF Rows, NoRow

LEMMA RemappedRows ==
    ASSUME IInv, NEW new, Remapping(new)
    PROVE  /\ Range(new) \subseteq Rows \ Violate
           /\ \A r \in Range(new) : rev[r] = NoId /\ counter < r
           /\ \A i \in ToRemap : new[i] \in Range(new) /\ rev'[new[i]] = i
           /\ counter' \in Rows \cup {NoRow}
           /\ ~HashMode => /\ counter <= counter' /\ HighestRow <= counter'
                           /\ \A r \in Range(new) : r <= counter'
<1> USE IdMapAssumption
<1>1. HighestRow \in Rows /\ counter <= HighestRow /\ counter \in Rows \cup {NoRow}
  BY HighestRowBound DEF IInv, TypeOK
<1>2. \A r \in Range(new) : r \in Free(rev, HighestRow + 1)
  BY DEF Remapping, Range
<1>3. \A r \in Range(new) : r \in Rows \ Violate /\ rev[r] = NoId /\ counter < r /\ HighestRow < r
  BY <1>1, <1>2 DEF Free, Rows, NoRow
<1>4. \A i \in ToRemap : new[i] \in Range(new) /\ rev'[new[i]] = i
  <2> TAKE i \in ToRemap
  <2>1. new[i] \in Range(new) /\ new[i] \in Rows
    BY <1>3 DEF Remapping, Range
  <2>2. \A j \in ToRemap : new[j] = new[i] => j = i
    BY DEF Remapping, IsInjective
  <2> QED  BY <2>1, <2>2 DEF Remapping
<1> DEFINE S == {HighestRow} \cup Range(new)
<1>5. Max(S) \in S /\ \A y \in S : y <= Max(S)
  BY <1>1, <1>3, GreatestRow
<1>6. counter' = (IF HashMode /\ counter = NoRow THEN NoRow ELSE Max(S))
  BY DEF Remapping
<1>7. Max(S) \in Rows
  BY <1>1, <1>3, <1>5
<1>8. ~HashMode => /\ counter <= counter' /\ HighestRow <= counter'
                   /\ \A r \in Range(new) : r <= counter'
  <2>1. HighestRow <= Max(S) /\ \A r \in Range(new) : r <= Max(S)
    BY <1>5
  <2> HIDE DEF S
  <2> QED  BY <1>1, <1>6, <1>7, <2>1 DEF Rows, NoRow
<1> HIDE DEF S
<1> QED  BY <1>3, <1>4, <1>6, <1>7, <1>8 DEF Rows, NoRow

LEMMA CleanStep ==
    ASSUME IInv, Clean
    PROVE  IInv'
<1> USE IdMapAssumption
<1>1. PICK new : Remapping(new)
  BY DEF Clean, Remapping
<1>2. UNCHANGED <<call, given, up>>
  BY DEF Clean
<1>3. /\ Range(new) \subseteq Rows \ Violate
      /\ \A r \in Range(new) : rev[r] = NoId
      /\ \A i \in ToRemap : new[i] \in Range(new) /\ rev'[new[i]] = i
      /\ counter' \in Rows \cup {NoRow}
  BY <1>1, RemappedRows
<1>4. \A r \in Range(new) : \E i \in ToRemap : new[i] = r
  BY <1>1 DEF Remapping, Range
<1>5. \A i \in ToRemap : i \in Ids \ Temporary /\ fwd[i] \in Rows /\ rev[fwd[i]] = i
  BY DEF ToRemap, Paired
<1>6. TypeOK'
  <2>1. fwd' \in [Ids -> Rows \cup {NoRow}]
    BY <1>1, <1>3, <1>5 DEF Remapping, IInv, TypeOK
  <2>2. rev' \in [Rows -> Ids \cup {NoId}]
    <3> SUFFICES ASSUME NEW r \in Rows PROVE rev'[r] \in Ids \cup {NoId}
      BY <1>1 DEF Remapping
    <3>1. CASE r \in Range(new)
      BY <1>3, <1>4, <1>5, <3>1
    <3>2. CASE r \notin Range(new)
      BY <1>1, <3>2 DEF Remapping, IInv, TypeOK
    <3> QED  BY <3>1, <3>2
  <2> QED  BY <1>2, <1>3, <2>1, <2>2 DEF IInv, TypeOK
<1>7. ForwardHasReverse'
  <2> SUFFICES ASSUME NEW j \in Ids, fwd'[j] # NoRow PROVE rev'[fwd'[j]] = j
    BY DEF ForwardHasReverse
  <2>1. CASE j \in ToRemap
    BY <1>1, <1>3, <1>5, <2>1 DEF Remapping
  <2>2. CASE j \notin ToRemap
    <3>1. j \notin Temporary /\ fwd'[j] = fwd[j] /\ fwd[j] \in Rows /\ rev[fwd[j]] = j
      BY <1>1, <2>2 DEF Remapping, IInv, TypeOK, ForwardHasReverse
    <3>2. fwd[j] \notin Range(new) /\ \A i \in ToRemap : fwd[i] # fwd[j]
      BY <1>3, <1>5, <2>2, <3>1
    <3> QED  BY <1>1, <3>1, <3>2 DEF Remapping
  <2> QED  BY <2>1, <2>2
<1>8. NothingLeftBehind'
  <2> SUFFICES ASSUME NEW r \in Rows, rev'[r] \notin Remedied \cup {NoId}
               PROVE  fwd'[rev'[r]] = r
    BY DEF NothingLeftBehind
  <2>1. CASE r \in Range(new)
    BY <1>1, <1>3, <1>4, <1>5, <2>1 DEF Remapping
  <2>2. CASE r \notin Range(new)
    <3>1. rev'[r] = rev[r] /\ rev[r] \notin Temporary /\ \A i \in ToRemap : fwd[i] # r
      BY <1>1, <2>2 DEF Remapping
    <3>2. fwd[rev[r]] = r /\ rev[r] \in Ids
      BY <3>1 DEF IInv, TypeOK, NothingLeftBehind
    <3> QED  BY <1>1, <3>1, <3>2 DEF Remapping
  <2> QED  BY <2>1, <2>2
<1> QED  BY <1>6, <1>7, <1>8 DEF IInv

LEMMA NextIInv == IInv /\ [Next]_vars => IInv'
<1> SUFFICES ASSUME IInv, [Next]_vars PROVE IInv'
  OBVIOUS
<1>1. CASE \E c \in Callers, i \in Ids : StoreRead(c, i) \/ LookUpId(c, i)
  BY <1>1, StoreReadStep, LookUpStep
<1>2. CASE \E c \in Callers : StoreUpdate(c)
  BY <1>2, StoreUpdateStep
<1>3. CASE \E c \in Callers, r \in Rows : LookUpRow(c, r)
  BY <1>3, LookUpStep
<1>4. CASE \E i \in Ids : SimplifiedStoreID(i)
  BY <1>4, SimplifiedStep
<1>5. CASE \E old \in Rows, new \in BindTargets : UpdateVirtualValue(old, new)
  BY <1>5, MoveStep, IdMapAssumption
<1>6. CASE Stop \/ Start \/ UNCHANGED vars
  <2>1. UNCHANGED db /\ given' = given /\ up' \in BOOLEAN
    BY <1>6 DEF Stop, Start, vars, IInv, TypeOK
  <2>2. call' = [c \in Callers |-> Idle] \/ call' = call
    BY <1>6 DEF Stop, Start, vars
  <2>3. CallType'
    BY <2>2 DEF Idle, CallType, IInv, TypeOK
  <2> QED  BY <2>1, <2>3, DbKept DEF IInv, TypeOK
<1>7. CASE Clear
  BY <1>7 DEF Clear, IInv, TypeOK, ForwardHasReverse, NothingLeftBehind
<1>8. CASE Clean
  BY <1>8, CleanStep
<1> QED  BY <1>1, <1>2, <1>3, <1>4, <1>5, <1>6, <1>7, <1>8 DEF Next

THEOREM SpecIInv == Spec => []IInv
BY InitIInv, NextIInv, PTL DEF Spec

(* Every variable stays in its range.                                       *)
THEOREM SpecTypeOK == Spec => []TypeOK
<1>1. IInv => TypeOK
  BY DEF IInv
<1> QED  BY <1>1, SpecIInv, PTL

(* A row stored for an ID always leads back to it.                          *)
THEOREM SpecForwardHasReverse == Spec => []ForwardHasReverse
<1>1. IInv => ForwardHasReverse
  BY DEF IInv
<1> QED  BY <1>1, SpecIInv, PTL

(* An ID that moved leaves no row behind that still leads to it.            *)
THEOREM SpecNothingLeftBehind == Spec => []NothingLeftBehind
<1>1. IInv => NothingLeftBehind
  BY DEF IInv
<1> QED  BY <1>1, SpecIInv, PTL

-----------------------------------------------------------------------------
(* No step makes an occupied row lead to another ID.                        *)

Kept == \A r \in Rows : rev[r] # NoId => rev'[r] \in {rev[r], NoId}

LEMMA StoreKept ==
    ASSUME IInv, NEW i \in Ids, Store(i)
    PROVE  Kept
<1>1. CASE UNCHANGED rev
  BY <1>1 DEF Kept
<1>2. CASE Good(fwd[i]) \/ NewRow(i) = NoRow
  BY <1>1, <1>2 DEF Store, db
<1>3. CASE ~Good(fwd[i]) /\ NewRow(i) # NoRow
  <2>1. rev[NewRow(i)] = NoId
    BY <1>3, NewRowFree DEF IInv
  <2>2. Assign(i, NewRow(i))
    BY <1>3 DEF Store
  <2> QED  BY <2>1, <2>2 DEF Assign, Kept
<1> QED  BY <1>2, <1>3

LEMMA MoveKept ==
    ASSUME IInv, NEW old \in Rows, NEW new \in Rows, UpdateVirtualValue(old, new)
    PROVE  Kept
BY DEF UpdateVirtualValue, Move, IInv, TypeOK, Kept

LEMMA NextKept == IInv /\ [Next]_vars => Kept
<1> SUFFICES ASSUME IInv, [Next]_vars, NEW r \in Rows, rev[r] # NoId
             PROVE  rev'[r] \in {rev[r], NoId}
  BY DEF Kept
<1>1. CASE UNCHANGED rev
  BY <1>1
<1>2. ASSUME NEW c \in Callers, NEW i \in Ids, StoreRead(c, i) \/ LookUpId(c, i)
      PROVE  UNCHANGED rev
  BY <1>2 DEF StoreRead, LookUpId, db
<1>3. ASSUME NEW c \in Callers, StoreUpdate(c)
      PROVE  rev'[r] \in {rev[r], NoId}
  <2>1. PICK i \in Ids : Store(i)
    BY <1>3 DEF StoreUpdate, IInv, TypeOK
  <2> QED  BY <2>1, StoreKept DEF Kept
<1>4. ASSUME NEW c \in Callers, NEW q \in Rows, LookUpRow(c, q)
      PROVE  UNCHANGED rev
  BY <1>4 DEF LookUpRow, db
<1>5. ASSUME NEW i \in Ids, SimplifiedStoreID(i)
      PROVE  rev'[r] \in {rev[r], NoId}
  <2> DEFINE free == {d \in {9, 10} : rev[HashRow[i][d]] = NoId}
  <2>1. free # {} /\ rev' = [rev EXCEPT ![HashRow[i][Min(free)]] = i]
    BY <1>5 DEF SimplifiedStoreID
  <2>2. Min(free) \in free
    BY <2>1, LeastRow, free \subseteq Nat
  <2>3. HashRow[i][Min(free)] # r
    BY <2>2
  <2> HIDE DEF free
  <2> QED  BY <2>1, <2>3 DEF IInv, TypeOK
<1>6. ASSUME NEW old \in Rows, NEW new \in BindTargets, UpdateVirtualValue(old, new)
      PROVE  rev'[r] \in {rev[r], NoId}
  BY <1>6, MoveKept, IdMapAssumption DEF Kept
<1>7. CASE Stop \/ Start \/ UNCHANGED vars
  BY <1>7 DEF Stop, Start, vars, db
<1>8. CASE Clear
  BY <1>8 DEF Clear
<1>9. CASE Clean
  <2>1. PICK new : Remapping(new)
    BY <1>9 DEF Clean, Remapping
  <2>2. r \notin Range(new)
    BY <2>1, RemappedRows
  <2> QED  BY <2>1, <2>2 DEF Remapping
<1> QED  BY <1>1, <1>2, <1>3, <1>4, <1>5, <1>6, <1>7, <1>8, <1>9 DEF Next

(* An occupied row can be freed by a step, never taken over.                *)
THEOREM SpecNoOverwrite == Spec => NoOverwrite
<1>1. IInv /\ [Next]_vars => [Kept]_vars
  BY NextKept
<1> QED  BY <1>1, SpecIInv, PTL DEF Spec, NoOverwrite, Kept

-----------------------------------------------------------------------------
(* When rows are counted, a row stands for one ID for ever.                 *)

LEMMA InitCounted == ~HashMode /\ ~LegacyCounter /\ Init => CountedInv
<1> SUFFICES ASSUME ~HashMode, ~LegacyCounter, Init PROVE CountedInv
  OBVIOUS
<1>1. ASSUME NEW r \in Rows, rev[r] # NoId \/ given[r] # {}
      PROVE  rev[r] # NoId /\ r <= counter
  <2>1. rev[r] # NoId /\ rev[r] = CHOOSE i \in Ids : fwd[i] = r
    BY <1>1 DEF Init
  <2>2. \E i \in Ids : fwd[i] = r
    BY <2>1 DEF Init
  <2> QED  BY <2>1, <2>2 DEF Init
<1> QED  BY <1>1 DEF Init, CountedInv, CounterAhead, RowMeansId, Protected

(* Handing out the row an ID has.                                           *)
LEMMA AnswerCounted ==
    ASSUME IInv, CountedInv, NEW i \in Ids, Good(fwd[i]), UNCHANGED db, Answer(i, fwd[i])
    PROVE  CountedInv'
<1>1. fwd[i] \in Rows /\ rev[fwd[i]] = i /\ i # NoId
  BY IdMapAssumption DEF Good, IInv, TypeOK, ForwardHasReverse
<1>2. \A r \in Rows : given'[r] = IF r = fwd[i] THEN given[r] \cup {i} ELSE given[r]
  BY <1>1 DEF Answer, IInv, TypeOK
<1>3. ASSUME NEW r \in Protected
      PROVE  /\ rev'[r] # NoId \/ given'[r] # {} => r <= counter'
             /\ rev'[r] # NoId => given'[r] \subseteq {rev'[r]}
  <2>1. r \in Rows /\ rev' = rev /\ counter' = counter
    BY DEF Protected, db
  <2>2. CASE r = fwd[i]
    BY <1>1, <1>2, <2>1, <2>2 DEF CountedInv, CounterAhead, RowMeansId
  <2>3. CASE r # fwd[i]
    BY <1>2, <2>1, <2>3 DEF CountedInv, CounterAhead, RowMeansId
  <2> QED  BY <2>2, <2>3
<1> QED  BY <1>3 DEF CountedInv, CounterAhead, RowMeansId, Protected

LEMMA AssignCounted ==
    ASSUME ~HashMode, IInv, CountedInv, NEW i \in Ids, NewRow(i) # NoRow,
           Assign(i, NewRow(i)), Answer(i, NewRow(i))
    PROVE  CountedInv'
<1> DEFINE row == NewRow(i)
<1>1. row \in Rows /\ counter < row /\ counter' = row /\ i # NoId
  BY NewRowFree, IdMapAssumption DEF Assign, IInv
<1>2. \A r \in Rows : given'[r] = IF r = row THEN given[r] \cup {i} ELSE given[r]
  BY <1>1 DEF Answer, IInv, TypeOK
<1>3. \A r \in Rows : rev'[r] = IF r = row THEN i
                                ELSE IF r = fwd[i] /\ rev[r] = i THEN NoId ELSE rev[r]
  BY DEF Assign
<1> HIDE DEF row
<1>4. counter \in Int /\ \A r \in Rows : r \in Int
  BY IdMapAssumption DEF IInv, TypeOK, Rows, NoRow
<1>5. row \in Protected => given[row] = {}
  BY <1>1, <1>4 DEF CountedInv, CounterAhead
<1>6. ASSUME NEW r \in Protected
      PROVE  /\ rev'[r] # NoId \/ given'[r] # {} => r <= counter'
             /\ rev'[r] # NoId => given'[r] \subseteq {rev'[r]}
  <2>1. r \in Rows /\ r \in Int
    BY <1>4 DEF Protected
  <2>2. CASE r = row
    <3>1. given'[r] = {i} /\ rev'[r] = i
      BY <1>1, <1>2, <1>3, <1>5, <2>1, <2>2
    <3>2. r <= counter'
      BY <1>1, <2>1, <2>2
    <3> QED  BY <3>1, <3>2
  <2>3. CASE r # row
    <3>1. given'[r] = given[r] /\ rev'[r] \in {rev[r], NoId}
      BY <1>2, <1>3, <2>1, <2>3
    <3>2. rev'[r] # NoId \/ given'[r] # {} => r <= counter
      BY <3>1 DEF CountedInv, CounterAhead
    <3>3. r <= counter => r <= counter'
      BY <1>1, <1>4, <2>1
    <3>4. rev'[r] # NoId => given'[r] \subseteq {rev'[r]}
      BY <3>1 DEF CountedInv, RowMeansId
    <3> QED  BY <3>2, <3>3, <3>4
  <2> QED  BY <2>2, <2>3
<1> QED  BY <1>6 DEF CountedInv, CounterAhead, RowMeansId, Protected

(* SimplifiedStoreID stays off the protected rows.                          *)
LEMMA SimplifiedElsewhere ==
    ASSUME TypeOK, NEW i \in Ids, SimplifiedStoreID(i)
    PROVE  \A r \in Protected : rev'[r] = rev[r]
<1> DEFINE free == {d \in {9, 10} : rev[HashRow[i][d]] = NoId}
<1>1. i \in Remedied /\ free # {} /\ rev' = [rev EXCEPT ![HashRow[i][Min(free)]] = i]
  BY DEF SimplifiedStoreID
<1>2. PICK d \in {9, 10} : d = Min(free)
  BY <1>1, LeastRow, free \subseteq Nat
<1> HIDE DEF free
<1>3. HashRow[i][d] \in {HashRow[j][e] : j \in Remedied, e \in {9, 10}}
  BY <1>1
<1>4. HashRow[i][d] \notin Protected /\ Protected \subseteq Rows
  BY <1>3 DEF Protected
<1> QED  BY <1>1, <1>2, <1>4 DEF TypeOK

LEMMA NextCounted ==
    ASSUME ~HashMode, IInv, CountedInv, [Next]_vars
    PROVE  CountedInv'
<1> USE DEF CountedInv, CounterAhead, RowMeansId
<1>1. CASE UNCHANGED <<rev, counter, given>>
  BY <1>1 DEF Protected
<1>2. ASSUME NEW c \in Callers, NEW i \in Ids, StoreRead(c, i) \/ LookUpId(c, i)
      PROVE  CountedInv'
  <2>1. CASE UNCHANGED <<rev, counter, given>>
    BY <1>1, <2>1
  <2>2. CASE Good(fwd[i]) /\ StoreRead(c, i)
    BY <2>2, AnswerCounted DEF StoreRead
  <2> QED  BY <1>2, <2>1, <2>2 DEF StoreRead, LookUpId, db
<1>3. ASSUME NEW c \in Callers, StoreUpdate(c)
      PROVE  CountedInv'
  <2> DEFINE i == call[c].id
  <2>1. i \in Ids /\ Store(i)
    BY <1>3 DEF StoreUpdate, IInv, TypeOK
  <2>2. CASE Good(fwd[i])
    BY <2>1, <2>2, AnswerCounted DEF Store
  <2>3. CASE ~Good(fwd[i]) /\ NewRow(i) = NoRow
    BY <1>1, <2>1, <2>3 DEF Store, db
  <2>4. CASE ~Good(fwd[i]) /\ NewRow(i) # NoRow
    <3>1. Assign(i, NewRow(i)) /\ Answer(i, NewRow(i))
      BY <2>1, <2>4 DEF Store
    <3> HIDE DEF i
    <3> QED  BY <2>1, <2>4, <3>1, AssignCounted
  <2> QED  BY <2>2, <2>3, <2>4
<1>4. ASSUME NEW c \in Callers, NEW r \in Rows, LookUpRow(c, r)
      PROVE  CountedInv'
  BY <1>1, <1>4 DEF LookUpRow, db
<1>5. ASSUME NEW i \in Ids, SimplifiedStoreID(i)
      PROVE  CountedInv'
  <2>1. UNCHANGED <<counter, given>>
    BY <1>5 DEF SimplifiedStoreID
  <2>2. \A r \in Protected : r \in Rows /\ rev'[r] = rev[r]
    BY <1>5, SimplifiedElsewhere DEF Protected, IInv
  <2> QED  BY <2>1, <2>2 DEF Protected
<1>6. ASSUME NEW old \in Rows, NEW new \in BindTargets, UpdateVirtualValue(old, new)
      PROVE  CountedInv'
  <2>0. new \notin Protected /\ new \in Rows /\ Protected \subseteq Rows
    BY IdMapAssumption DEF Protected
  <2>1. \A r \in Protected : rev'[r] \in {rev[r], NoId}
    BY <1>6, <2>0 DEF UpdateVirtualValue, Move, IInv, TypeOK
  <2>2. UNCHANGED <<counter, given>>
    BY <1>6 DEF UpdateVirtualValue
  <2>3. \A r \in Protected : rev'[r] # NoId => rev[r] # NoId /\ rev'[r] = rev[r]
    BY <2>1
  <2> QED  BY <2>2, <2>3 DEF Protected
<1>7. CASE Stop \/ Start \/ UNCHANGED vars
  BY <1>1, <1>7 DEF Stop, Start, vars, db
<1>8. CASE Clear
  BY <1>8 DEF Clear, Protected
<1>9. CASE Clean
  <2>1. PICK new : Remapping(new)
    BY <1>9 DEF Clean, Remapping
  <2>2. /\ \A r \in Range(new) : counter < r /\ r <= counter' /\ r \in Int
        /\ counter <= counter' /\ counter \in Int /\ counter' \in Int
    BY <2>1, RemappedRows, IdMapAssumption DEF Rows, NoRow, IInv, TypeOK
  <2>3. UNCHANGED given
    BY <1>9 DEF Clean
  <2>4. \A r \in Protected : r \in Rows /\ r \in Int
    BY DEF Protected, Rows
  <2>5. \A r \in Range(new) : r \in Protected => given[r] = {}
    BY <2>2
  <2>6. \A r \in Rows : r \notin Range(new) => rev'[r] \in {rev[r], NoId}
    BY <2>1 DEF Remapping
  <2> QED  BY <2>2, <2>3, <2>4, <2>5, <2>6 DEF Protected
<1> QED  BY <1>2, <1>3, <1>4, <1>5, <1>6, <1>7, <1>8, <1>9 DEF Next

-----------------------------------------------------------------------------
(* The same from a file whose counter an old clean-up lowered.  Rows in use *)
(* may be above the counter then, and only those given up must be below it, *)
(* or be rejected.  A bind would give up a row above it.                    *)

FreedBelow == \A r \in Protected :
    rev[r] = NoId /\ given[r] # {} => r \in Violate \/ r <= counter

Owned == \A r \in Protected : rev[r] # NoId => fwd[rev[r]] = r

LoweredInv == FreedBelow /\ Owned /\ RowMeansId

LEMMA InitLowered == Init => LoweredInv
<1> SUFFICES ASSUME Init, NEW r \in Rows
             PROVE  /\ rev[r] = NoId => given[r] = {}
                    /\ rev[r] # NoId => fwd[rev[r]] = r /\ given[r] \subseteq {rev[r]}
  BY DEF LoweredInv, FreedBelow, Owned, RowMeansId, Protected
<1>1. rev[r] # NoId => fwd[rev[r]] = r
  BY DEF Init
<1>2. given[r] = {rev[r]} \ {NoId}
  BY DEF Init
<1> QED  BY <1>1, <1>2

LEMMA AnswerLowered ==
    ASSUME IInv, LoweredInv, NEW i \in Ids, Good(fwd[i]), UNCHANGED db, Answer(i, fwd[i])
    PROVE  LoweredInv'
<1>1. fwd[i] \in Rows /\ rev[fwd[i]] = i /\ i # NoId /\ UNCHANGED <<fwd, rev, counter>>
  BY IdMapAssumption DEF Good, IInv, TypeOK, ForwardHasReverse, db
<1>2. \A r \in Rows : given'[r] = IF r = fwd[i] THEN given[r] \cup {i} ELSE given[r]
  BY <1>1 DEF Answer, IInv, TypeOK
<1>3. Protected \subseteq Rows
  BY DEF Protected
<1>4. \A r \in Protected : rev[r] = NoId => given'[r] = given[r]
  BY <1>1, <1>2, <1>3
<1>5. \A r \in Protected : rev[r] # NoId => given'[r] \subseteq {rev[r]}
  BY <1>1, <1>2, <1>3 DEF LoweredInv, RowMeansId
<1> QED  BY <1>1, <1>4, <1>5 DEF LoweredInv, FreedBelow, Owned, RowMeansId, Protected

LEMMA AssignLowered ==
    ASSUME ~HashMode, IInv, LoweredInv, NEW i \in Ids, ~Good(fwd[i]), NewRow(i) # NoRow,
           Assign(i, NewRow(i)), Answer(i, NewRow(i))
    PROVE  LoweredInv'
<1> DEFINE row == NewRow(i)
<1>1. /\ row \in Rows \ Violate /\ rev[row] = NoId /\ counter < row /\ counter' = row /\ i # NoId
      /\ fwd' = [fwd EXCEPT ![i] = row]
  BY NewRowFree, IdMapAssumption DEF Assign, IInv
<1>2. \A r \in Rows : given'[r] = IF r = row THEN given[r] \cup {i} ELSE given[r]
  BY <1>1 DEF Answer, IInv, TypeOK
<1>3. \A r \in Rows : rev'[r] = IF r = row THEN i
                                ELSE IF r = fwd[i] /\ rev[r] = i THEN NoId ELSE rev[r]
  BY DEF Assign
<1>4. fwd \in [Ids -> Rows \cup {NoRow}] /\ rev \in [Rows -> Ids \cup {NoId}]
  BY DEF IInv, TypeOK
<1> HIDE DEF row
<1>5. counter \in Int /\ row \in Int /\ \A r \in Rows : r \in Int
  BY <1>1, IdMapAssumption DEF IInv, TypeOK, Rows, NoRow
<1>6. ASSUME NEW r \in Protected
      PROVE  /\ rev'[r] = NoId /\ given'[r] # {} => r \in Violate \/ r <= counter'
             /\ rev'[r] # NoId => fwd'[rev'[r]] = r /\ given'[r] \subseteq {rev'[r]}
  <2>1. r \in Rows /\ r \in Int
    BY <1>5 DEF Protected
  <2>2. CASE r = row
    <3>1. given[r] = {}
      BY <1>1, <1>5, <2>1, <2>2 DEF LoweredInv, FreedBelow
    <3>2. given'[r] = {i} /\ rev'[r] = i /\ fwd'[i] = r
      BY <1>1, <1>2, <1>3, <1>4, <2>1, <2>2, <3>1
    <3> QED  BY <1>1, <3>2
  <2>3. CASE r # row /\ r = fwd[i] /\ rev[r] = i
    <3>1. r \in Violate /\ rev'[r] = NoId
      BY <1>3, <2>1, <2>3, IdMapAssumption DEF Good, Rows, NoRow
    <3> QED  BY <3>1
  <2>4. CASE r # row /\ ~(r = fwd[i] /\ rev[r] = i)
    <3>1. given'[r] = given[r] /\ rev'[r] = rev[r]
      BY <1>2, <1>3, <2>1, <2>4
    <3>2. r <= counter => r <= counter'
      BY <1>1, <1>5, <2>1
    <3>3. rev[r] # NoId => rev[r] # i /\ rev[r] \in Ids /\ fwd[rev[r]] = r
      BY <1>4, <2>1, <2>4 DEF LoweredInv, Owned
    <3>4. rev[r] # NoId => fwd'[rev[r]] = r
      BY <1>1, <1>4, <3>3
    <3> QED  BY <3>1, <3>2, <3>4 DEF LoweredInv, FreedBelow, RowMeansId
  <2> QED  BY <2>2, <2>3, <2>4
<1> QED  BY <1>6 DEF LoweredInv, FreedBelow, Owned, RowMeansId, Protected

LEMMA CleanLowered ==
    ASSUME ~HashMode, IInv, LoweredInv, Clean
    PROVE  LoweredInv'
<1>1. PICK new : Remapping(new)
  BY DEF Clean, Remapping
<1>2. /\ \A r \in Range(new) : r \in Rows \ Violate /\ rev[r] = NoId /\ counter < r
      /\ \A i \in ToRemap : new[i] \in Range(new) /\ rev'[new[i]] = i
      /\ counter <= counter' /\ HighestRow <= counter'
      /\ counter \in Rows \cup {NoRow} /\ counter' \in Rows \cup {NoRow} /\ HighestRow \in Rows
      /\ \A i \in Ids : Paired(i) => fwd[i] <= HighestRow
  BY <1>1, RemappedRows, HighestRowBound DEF IInv, TypeOK
<1>3. UNCHANGED given
  BY DEF Clean
<1>4. /\ fwd' = [i \in Ids |-> IF i \in Temporary THEN NoRow
                              ELSE IF i \in ToRemap THEN new[i] ELSE fwd[i]]
      /\ \A r \in Rows : r \notin Range(new) => rev'[r] =
            IF rev[r] \in Temporary \/ \E i \in ToRemap : fwd[i] = r THEN NoId ELSE rev[r]
  BY <1>1 DEF Remapping
<1>5. \A r \in Range(new) : \E i \in ToRemap : new[i] = r
  BY <1>1 DEF Remapping, Range
<1>6. \A i \in ToRemap : i \in Ids \ Temporary /\ fwd[i] \in Violate /\ i # NoId
  BY IdMapAssumption DEF ToRemap
<1>7. counter \in Int /\ counter' \in Int /\ HighestRow \in Int /\ \A r \in Rows : r \in Int
  BY <1>2, IdMapAssumption DEF Rows, NoRow
<1>8. fwd \in [Ids -> Rows \cup {NoRow}] /\ rev \in [Rows -> Ids \cup {NoId}]
  BY DEF IInv, TypeOK
<1>9. ASSUME NEW r \in Protected
      PROVE  /\ rev'[r] = NoId /\ given'[r] # {} => r \in Violate \/ r <= counter'
             /\ rev'[r] # NoId => fwd'[rev'[r]] = r /\ given'[r] \subseteq {rev'[r]}
  <2>1. r \in Rows /\ r \in Int
    BY <1>7 DEF Protected
  <2>2. CASE r \in Range(new)
    <3>1. PICK i \in ToRemap : new[i] = r
      BY <1>5, <2>2
    <3>2. rev'[r] = i /\ fwd'[i] = r
      BY <1>2, <1>4, <1>6, <3>1
    <3>3. given[r] = {}
      BY <1>2, <1>7, <2>1, <2>2 DEF LoweredInv, FreedBelow
    <3> QED  BY <1>3, <1>6, <3>2, <3>3
  <2>3. CASE r \notin Range(new) /\ rev[r] = NoId
    <3>1. rev'[r] = NoId
      BY <1>4, <2>1, <2>3
    <3>2. r <= counter => r <= counter'
      BY <1>2, <1>7, <2>1
    <3> QED  BY <1>3, <2>3, <3>1, <3>2 DEF LoweredInv, FreedBelow
  <2>4. CASE r \notin Range(new) /\ rev[r] # NoId
    <3>1. rev[r] \in Ids /\ fwd[rev[r]] = r /\ given[r] \subseteq {rev[r]}
      BY <1>8, <2>1, <2>4 DEF LoweredInv, Owned, RowMeansId
    <3>2. r <= counter'
      <4>1. Paired(rev[r])
        BY <2>1, <3>1 DEF Paired
      <4>2. r <= HighestRow
        BY <1>2, <3>1, <4>1
      <4> QED  BY <1>2, <1>7, <2>1, <4>2
    <3>3. rev'[r] # NoId => rev'[r] = rev[r] /\ rev[r] \notin Temporary /\ rev[r] \notin ToRemap
      BY <1>4, <2>1, <2>4, <3>1
    <3>4. rev'[r] # NoId => fwd'[rev[r]] = r
      BY <1>4, <3>1, <3>3
    <3> QED  BY <1>3, <3>1, <3>2, <3>3, <3>4
  <2> QED  BY <2>2, <2>3, <2>4
<1> QED  BY <1>9 DEF LoweredInv, FreedBelow, Owned, RowMeansId, Protected

LEMMA NextLowered ==
    ASSUME ~HashMode, BindTargets = {}, IInv, LoweredInv, [Next]_vars
    PROVE  LoweredInv'
<1>1. CASE UNCHANGED <<fwd, rev, counter, given>>
  BY <1>1 DEF LoweredInv, FreedBelow, Owned, RowMeansId, Protected
<1>2. ASSUME NEW c \in Callers, NEW i \in Ids, StoreRead(c, i) \/ LookUpId(c, i)
      PROVE  LoweredInv'
  BY <1>1, <1>2, AnswerLowered DEF StoreRead, LookUpId, db
<1>3. ASSUME NEW c \in Callers, StoreUpdate(c)
      PROVE  LoweredInv'
  <2>1. PICK i \in Ids : Store(i)
    BY <1>3 DEF StoreUpdate, IInv, TypeOK
  <2>2. CASE Good(fwd[i])
    BY <2>1, <2>2, AnswerLowered DEF Store
  <2>3. CASE ~Good(fwd[i]) /\ NewRow(i) = NoRow
    BY <1>1, <2>1, <2>3 DEF Store, db
  <2>4. CASE ~Good(fwd[i]) /\ NewRow(i) # NoRow
    <3>1. Assign(i, NewRow(i)) /\ Answer(i, NewRow(i))
      BY <2>1, <2>4 DEF Store
    <3> QED  BY <2>4, <3>1, AssignLowered
  <2> QED  BY <2>2, <2>3, <2>4
<1>4. ASSUME NEW i \in Ids, SimplifiedStoreID(i)
      PROVE  LoweredInv'
  <2>1. UNCHANGED <<fwd, counter, given>>
    BY <1>4 DEF SimplifiedStoreID
  <2>2. \A r \in Protected : rev'[r] = rev[r]
    BY <1>4, SimplifiedElsewhere DEF IInv
  <2> QED  BY <2>1, <2>2 DEF LoweredInv, FreedBelow, Owned, RowMeansId, Protected
<1>5. CASE Stop \/ Start \/ UNCHANGED vars \/ \E c \in Callers, r \in Rows : LookUpRow(c, r)
  BY <1>1, <1>5 DEF Stop, Start, LookUpRow, vars, db
<1>6. CASE Clear
  BY <1>6 DEF Clear, LoweredInv, FreedBelow, Owned, RowMeansId, Protected
<1> QED  BY <1>2, <1>3, <1>4, <1>5, <1>6, CleanLowered DEF Next

(* As long as rows are counted, a row that was handed out never leads to    *)
(* another ID, through races, restarts and clean-ups.  If an old clean-up   *)
(* has lowered the counter, only without binds: the row an ID is moved away *)
(* from would be found again.                                               *)
THEOREM SpecRowMeansId ==
    ASSUME ~HashMode, ~LegacyCounter \/ BindTargets = {}
    PROVE  Spec => []RowMeansId
<1>1. CASE ~LegacyCounter
  <2>1. Init => CountedInv
    BY <1>1, InitCounted
  <2>2. IInv /\ CountedInv /\ [Next]_vars => CountedInv'
    BY NextCounted
  <2>3. CountedInv => RowMeansId
    BY DEF CountedInv
  <2> QED  BY <2>1, <2>2, <2>3, SpecIInv, PTL DEF Spec
<1>2. CASE BindTargets = {}
  <2>1. IInv /\ LoweredInv /\ [Next]_vars => LoweredInv'
    BY <1>2, NextLowered
  <2>2. LoweredInv => RowMeansId
    BY DEF LoweredInv
  <2> QED  BY <2>1, <2>2, InitLowered, SpecIInv, PTL DEF Spec
<1> QED  BY <1>1, <1>2

(* While the bot runs, only a bind moves an ID off a row that is not        *)
(* rejected: storing it again, alone or by many callers at once, does not.  *)
THEOREM SpecStableRow == Spec => StableRow
<1> DEFINE Stable == up => \A i \in Ids :
                        Good(fwd[i]) => fwd'[i] = fwd[i] \/ fwd'[i] \in BindTargets
<1>1. ASSUME IInv, [Next]_vars PROVE [Stable]_vars
  <2>1. CASE UNCHANGED fwd
    BY <2>1
  <2>2. ASSUME NEW c \in Callers, StoreUpdate(c) PROVE Stable
    <3> DEFINE i == call[c].id
    <3>1. Store(i)
      BY <2>2 DEF StoreUpdate
    <3>2. CASE UNCHANGED db
      BY <2>1, <3>2 DEF db
    <3>3. CASE ~Good(fwd[i]) /\ Assign(i, NewRow(i))
      BY <3>3 DEF Assign, IInv, TypeOK
    <3> QED  BY <3>1, <3>2, <3>3 DEF Store
  <2>3. ASSUME NEW old \in Rows, NEW new \in BindTargets, UpdateVirtualValue(old, new)
        PROVE  Stable
    BY <2>3 DEF UpdateVirtualValue, Move, IInv, TypeOK
  <2>4. CASE Start \/ Clear \/ Clean
    BY <2>4 DEF Start, Clear, Clean
  <2> QED  BY <1>1, <2>1, <2>2, <2>3, <2>4
           DEF Next, StoreRead, LookUpId, LookUpRow, SimplifiedStoreID, Stop, db, vars
<1> QED  BY <1>1, SpecIInv, PTL DEF Spec, StableRow
=============================================================================
