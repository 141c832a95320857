--------------------------- MODULE MessageIdsProofs ---------------------------
(***************************************************************************)
(* Short message IDs, for any number of messages, any hash and any time.   *)
(* On disk (MsgCache) the two directions stay inverse and, with counted    *)
(* rows, a short ID never points at a second message, through restarts and *)
(* clearings: that rests on the counter, which no row in use or ever       *)
(* handed out exceeds.  In memory (MemoryIds) the two maps stay inverse,   *)
(* and a short ID means its message until it expires: that needs that the  *)
(* entry of an ID that was promised is still there, with the expiry it was *)
(* promised.                                                               *)
(***************************************************************************)
EXTENDS MsgCache, MemoryIds, FiniteSetTheorems, WellFoundedInduction, TLAPS

(* No row has been used or handed out beyond the counter.                   *)
CounterAhead == \A r \in Rows : rev[r] # NoMsg \/ shown[r] # {} => r <= counter

IInv == TypeOK /\ CacheIsInverse

(* What counting rows adds to it.                                           *)
CountedInv == CounterAhead /\ ShortIdMeansMsg

-----------------------------------------------------------------------------
(* Min of a set of natural numbers is one of them, the least: the intervals *)
(* 0..y are ordered by inclusion, which is well-founded.                    *)
LEMMA LeastRow ==
    ASSUME NEW S, S \subseteq Nat, S # {}
    PROVE  Min(S) \in S /\ \A y \in S : Min(S) <= y
<1> DEFINE T == {0..y : y \in S}
<1>0. \A y \in S : 0..y \in SUBSET Nat /\ IsFiniteSet(0..y)
  <2> TAKE y \in S
  <2>1. y \in Int
    OBVIOUS
  <2> QED  BY <2>1, FS_Interval
<1>1. T \subseteq FiniteSubsetsOf(Nat) /\ T # {}
  BY <1>0, Zenon DEF FiniteSubsetsOf
<1>2. PICK t \in T : \A s \in T : ~(<<s, t>> \in StrictSubsetOrdering(Nat))
  <2> HIDE DEF T
  <2> QED  BY <1>1, FS_StrictSubsetOrderingWellFounded, WFMin, Zenon
<1>3. PICK x \in S : t = 0..x
  OBVIOUS
<1>4. \A y \in S : x <= y
  <2> SUFFICES ASSUME NEW y \in S, y < x PROVE FALSE
    BY x \in Nat, S \subseteq Nat
  <2>1. 0..y \subseteq 0..x /\ 0..y # 0..x
    BY x \in Nat, y \in Nat, x \in 0..x, x \notin 0..y
  <2>2. <<0..y, 0..x>> \in StrictSubsetOrdering(Nat)
    BY <2>1, <1>1 DEF StrictSubsetOrdering
  <2> QED  BY <1>2, <1>3, <2>2
<1> QED  BY <1>4 DEF Min

(* The row for a new message is free and, if counted, beyond the counter.   *)
LEMMA NewRowFact ==
    ASSUME IInv, NEW m \in MsgIds, NewRow(m) # NoRow
    PROVE  /\ NewRow(m) \in Rows
           /\ rev[NewRow(m)] = NoMsg
           /\ ~HashMode => counter < NewRow(m)
<1>0. counter \in Rows \cup {NoRow} /\ rev \in [Rows -> MsgIds \cup {NoMsg}]
  BY DEF IInv, TypeOK
<1>1. CASE HashMode
  <2> DEFINE usable == {d \in Digits : rev[HashRow[m][d]] = NoMsg}
  <2>1. usable # {} /\ NewRow(m) = HashRow[m][Min(usable)]
    BY <1>1 DEF NewRow, HashedRow
  <2>2. usable \subseteq Nat
    BY DEF Digits
  <2>3. Min(usable) \in usable
    BY <2>1, <2>2, LeastRow
  <2> QED  BY <1>1, <2>1, <2>3, MessageIdsAssumption
<1>2. CASE ~HashMode
  <2> DEFINE first == IF counter = NoRow THEN 1 ELSE counter + 1
  <2>1. Free(first) # {} /\ NewRow(m) = Min(Free(first))
    BY <1>2 DEF NewRow, CountedRow
  <2>2. Free(first) \subseteq Nat
    BY DEF Free, Rows
  <2>3. Min(Free(first)) \in Free(first)
    BY <2>1, <2>2, LeastRow
  <2>4. counter < first /\ first \in Int /\ counter \in Int
    BY <1>0, MessageIdsAssumption DEF Rows, NoRow
  <2>5. NewRow(m) \in Rows /\ first <= NewRow(m) /\ rev[NewRow(m)] = NoMsg
    BY <2>1, <2>3 DEF Free
  <2>6. NewRow(m) \in Int
    BY <2>5 DEF Rows
  <2> QED  BY <2>4, <2>5, <2>6
<1> QED  BY <1>1, <1>2

LEMMA InitIInv == Init => IInv /\ CountedInv
<1> SUFFICES ASSUME Init  PROVE IInv /\ CountedInv
  OBVIOUS
<1>1. TypeOK
  BY DEF Init, TypeOK
<1>2. CacheIsInverse
  BY DEF Init, CacheIsInverse
<1>3. \A r \in Rows : rev[r] = NoMsg /\ shown[r] = {}
  BY DEF Init
<1>4. CountedInv
  BY <1>3 DEF CountedInv, CounterAhead, ShortIdMeansMsg
<1> QED  BY <1>1, <1>2, <1>4 DEF IInv

-----------------------------------------------------------------------------
(* A message already in the cache is shown its row again.                   *)
LEMMA ShowPreserves ==
    ASSUME IInv, NEW m \in MsgIds, fwd[m] # NoRow, Show(m, fwd[m]),
           UNCHANGED <<fwd, rev, counter>>, call' \in [Callers -> MsgIds \cup {NoMsg}]
    PROVE  IInv' /\ (CountedInv => CountedInv')
<1>1. /\ fwd[m] \in Rows /\ rev[fwd[m]] = m /\ m # NoMsg
      /\ shown \in [Rows -> SUBSET MsgIds]
      /\ shown' = [shown EXCEPT ![fwd[m]] = @ \cup {m}]
  BY MessageIdsAssumption DEF IInv, TypeOK, CacheIsInverse, Show
<1>2. IInv'
  BY <1>1 DEF IInv, TypeOK, CacheIsInverse
<1>3. ASSUME CountedInv  PROVE CountedInv'
  <2>1. CounterAhead'
    BY <1>1, <1>3 DEF CountedInv, CounterAhead
  <2>2. \A r \in Rows : shown'[r] \cup ({rev'[r]} \ {NoMsg}) = shown[r] \cup ({rev[r]} \ {NoMsg})
    BY <1>1
  <2>3. ShortIdMeansMsg'
    BY <2>2, <1>3 DEF CountedInv, ShortIdMeansMsg
  <2> QED  BY <2>1, <2>3 DEF CountedInv
<1> QED  BY <1>2, <1>3

(* A new message gets a row nothing was ever shown for.                     *)
LEMMA AssignPreserves ==
    ASSUME IInv, NEW m \in MsgIds, fwd[m] = NoRow, NewRow(m) # NoRow,
           Assign(m, NewRow(m)), Show(m, NewRow(m)),
           call' \in [Callers -> MsgIds \cup {NoMsg}]
    PROVE  IInv' /\ (~HashMode /\ CountedInv => CountedInv')
<1> DEFINE row == NewRow(m)
<1>0. /\ fwd \in [MsgIds -> Rows \cup {NoRow}]
      /\ rev \in [Rows -> MsgIds \cup {NoMsg}]
      /\ counter \in Rows \cup {NoRow}
      /\ shown \in [Rows -> SUBSET MsgIds]
      /\ NoMsg \notin MsgIds /\ NoRow \notin Rows
  BY MessageIdsAssumption DEF IInv, TypeOK, NoRow, Rows
<1>1. row \in Rows /\ rev[row] = NoMsg /\ (~HashMode => counter < row)
  BY NewRowFact
<1>2. /\ counter' = IF HashMode THEN counter ELSE row
      /\ fwd' = [fwd EXCEPT ![m] = row]
      /\ rev' = [rev EXCEPT ![row] = m]
      /\ shown' = [shown EXCEPT ![row] = @ \cup {m}]
  BY DEF Assign, Show
<1> HIDE DEF row
<1>3. TypeOK'
  BY <1>0, <1>1, <1>2 DEF TypeOK
<1>4. CacheIsInverse'
  <2>1. ASSUME NEW n \in MsgIds, fwd'[n] # NoRow  PROVE rev'[fwd'[n]] = n
    <3>1. CASE n = m
      BY <3>1, <1>0, <1>1, <1>2
    <3>2. CASE n # m
      <4>1. fwd[n] \in Rows /\ rev[fwd[n]] = n /\ fwd'[n] = fwd[n]
        BY <2>1, <3>2, <1>0, <1>2 DEF IInv, CacheIsInverse
      <4> QED  BY <4>1, <1>0, <1>1, <1>2
    <3> QED  BY <3>1, <3>2
  <2>2. ASSUME NEW r \in Rows, rev'[r] # NoMsg  PROVE fwd'[rev'[r]] = r
    BY <2>2, <1>0, <1>1, <1>2 DEF IInv, CacheIsInverse
  <2> QED  BY <2>1, <2>2 DEF CacheIsInverse
<1>5. ASSUME ~HashMode, CountedInv  PROVE CountedInv'
  <2>1. counter' = row /\ counter < row /\ counter \in Int /\ \A r \in Rows : r \in Int
    BY <1>5, <1>0, <1>1, <1>2 DEF Rows, NoRow
  <2>2. \A r \in Rows : rev[r] # NoMsg \/ shown[r] # {} => r <= counter
    BY <1>5 DEF CountedInv, CounterAhead
  <2>3. shown[row] = {}
    BY <2>1, <2>2, <1>1
  <2>4. CounterAhead'
    <3> SUFFICES ASSUME NEW r \in Rows, rev'[r] # NoMsg \/ shown'[r] # {}
                 PROVE  r <= row
      BY <2>1 DEF CounterAhead
    <3>1. CASE r = row
      BY <3>1, <2>1
    <3>2. CASE r # row
      BY <3>2, <2>1, <2>2, <1>0, <1>2
    <3> QED  BY <3>1, <3>2
  <2>5. \A r \in Rows : r # row => shown'[r] = shown[r] /\ rev'[r] = rev[r]
    BY <1>0, <1>2
  <2>6. shown'[row] = {m} /\ rev'[row] = m
    BY <2>3, <1>0, <1>1, <1>2
  <2>7. ShortIdMeansMsg'
    BY <2>5, <2>6, <1>5 DEF CountedInv, ShortIdMeansMsg
  <2> QED  BY <2>4, <2>7 DEF CountedInv
<1> QED  BY <1>3, <1>4, <1>5 DEF IInv

(* Every step preserves the invariant.                                      *)
LEMMA StepPreserves ==
    ASSUME IInv, [Next]_vars
    PROVE  IInv' /\ (~HashMode /\ CountedInv => CountedInv')
<1>0. /\ call \in [Callers -> MsgIds \cup {NoMsg}]
      /\ shown \in [Rows -> SUBSET MsgIds]
  BY DEF IInv, TypeOK
<1>1. ASSUME NEW c \in Callers, NEW m \in MsgIds, StoreRead(c, m)
      PROVE  IInv' /\ (~HashMode /\ CountedInv => CountedInv')
  <2>1. CASE fwd[m] # NoRow
    BY <1>0, <1>1, <2>1, ShowPreserves DEF StoreRead
  <2>2. CASE fwd[m] = NoRow
    <3>1. UNCHANGED <<fwd, rev, counter, shown>> /\ call' \in [Callers -> MsgIds \cup {NoMsg}]
      BY <1>0, <1>1, <2>2 DEF StoreRead
    <3> QED  BY <3>1 DEF IInv, TypeOK, CacheIsInverse, CountedInv, CounterAhead, ShortIdMeansMsg
  <2> QED  BY <2>1, <2>2
<1>2. ASSUME NEW c \in Callers, StoreUpdate(c)
      PROVE  IInv' /\ (~HashMode /\ CountedInv => CountedInv')
  <2> DEFINE m == call[c]
  <2>1. m \in MsgIds /\ Store(m) /\ call' \in [Callers -> MsgIds \cup {NoMsg}]
    BY <1>0, <1>2 DEF StoreUpdate
  <2>2. CASE fwd[m] # NoRow
    <3>1. UNCHANGED <<fwd, rev, counter>> /\ Show(m, fwd[m])
      BY <2>1, <2>2 DEF Store
    <3> QED  BY <3>1, <2>1, <2>2, ShowPreserves
  <2>3. CASE fwd[m] = NoRow /\ NewRow(m) = NoRow
    <3>1. UNCHANGED <<fwd, rev, counter, shown>>
      BY <2>1, <2>3 DEF Store
    <3> QED  BY <3>1, <2>1 DEF IInv, TypeOK, CacheIsInverse, CountedInv, CounterAhead, ShortIdMeansMsg
  <2>4. CASE fwd[m] = NoRow /\ NewRow(m) # NoRow
    <3>1. Assign(m, NewRow(m)) /\ Show(m, NewRow(m))
      BY <2>1, <2>4 DEF Store
    <3> QED  BY <3>1, <2>1, <2>4, AssignPreserves
  <2> QED  BY <2>2, <2>3, <2>4
<1>3. CASE Stop
  BY <1>3 DEF Stop, IInv, TypeOK, CacheIsInverse, CountedInv, CounterAhead, ShortIdMeansMsg
<1>4. CASE ClearBucket
  <2>1. /\ fwd' = [n \in MsgIds |-> NoRow] /\ rev' = [r \in Rows |-> NoMsg]
        /\ call' = [c \in Callers |-> NoMsg] /\ UNCHANGED <<counter, shown>>
    BY <1>4 DEF ClearBucket, Wipe
  <2>2. IInv'
    BY <2>1 DEF IInv, TypeOK, CacheIsInverse
  <2>3. CounterAhead => CounterAhead'
    BY <2>1 DEF CounterAhead
  <2>4. ShortIdMeansMsg => ShortIdMeansMsg'
    BY <2>1 DEF ShortIdMeansMsg
  <2> QED  BY <2>2, <2>3, <2>4 DEF CountedInv
<1>5. CASE UNCHANGED vars
  BY <1>5 DEF vars, IInv, TypeOK, CacheIsInverse, CountedInv, CounterAhead, ShortIdMeansMsg
<1> QED  BY <1>1, <1>2, <1>3, <1>4, <1>5 DEF Next

LEMMA SpecIInv == Spec => []IInv
<1>1. IInv /\ [Next]_vars => IInv'
  BY StepPreserves
<1> QED  BY InitIInv, <1>1, PTL DEF Spec

-----------------------------------------------------------------------------
(* Every variable of the cache keeps its range.                             *)
THEOREM SpecTypeOK == Spec => []TypeOK
<1>1. IInv => TypeOK
  BY DEF IInv
<1> QED  BY SpecIInv, <1>1, PTL

(* The two directions of the cache agree, whatever the callers interleave   *)
(* and wherever the process stops.                                          *)
THEOREM SpecCacheIsInverse == Spec => []CacheIsInverse
<1>1. IInv => CacheIsInverse
  BY DEF IInv
<1> QED  BY SpecIInv, <1>1, PTL

(* With counted rows a short ID handed out for a message never points at    *)
(* another one, also after the bucket was cleared.                          *)
THEOREM SpecShortIdMeansMsg ==
    ASSUME HashMode = FALSE
    PROVE  Spec => []ShortIdMeansMsg
<1> DEFINE Inv == IInv /\ CountedInv
<1>1. Init => Inv
  BY InitIInv
<1>2. Inv /\ [Next]_vars => Inv'
  BY StepPreserves
<1>3. Inv => ShortIdMeansMsg
  BY DEF CountedInv
<1> QED  BY <1>1, <1>2, <1>3, PTL DEF Spec

-----------------------------------------------------------------------------
(* The entry that keeps each promise.                                       *)
PromiseHeld ==
    \A m \in MsgIds : now < promised[m].until =>
        /\ promised[m].row \in Rows
        /\ byRow[promised[m].row] = [id |-> m, expiresAt |-> promised[m].until]

MemoryInv == MemoryTypeOK /\ MapsAreInverse /\ PromiseHeld

(* No row is -1, and an entry is not the missing one.                       *)
LEMMA RowsFact == NoRow \notin Rows
BY DEF NoRow, Rows

LEMMA EntryFact == NoEntry \notin Entry
BY MessageIdsAssumption DEF NoEntry, Entry

(* StoreCacheInMemory chooses a row that is free, or none.                  *)
LEMMA RowInMemoryFact ==
    ASSUME NEW m \in MsgIds
    PROVE  \/ RowInMemory(m) = NoRow
           \/ RowInMemory(m) \in Rows /\ FreeInMemory(m, RowInMemory(m))
<1> DEFINE usable == {d \in Digits : FreeInMemory(m, HashRow[m][d])}
<1>1. CASE usable = {}
  BY <1>1 DEF RowInMemory
<1>2. CASE usable # {}
  <2>1. Min(usable) \in usable
    <3>1. usable \subseteq Nat
      BY DEF Digits
    <3> QED  BY <3>1, <1>2, LeastRow
  <2>2. RowInMemory(m) = HashRow[m][Min(usable)]
    BY <1>2 DEF RowInMemory
  <2>3. Min(usable) \in Digits /\ FreeInMemory(m, HashRow[m][Min(usable)])
    BY <2>1
  <2>4. HashRow[m][Min(usable)] \in Rows
    BY <2>3, MessageIdsAssumption
  <2> QED  BY <2>2, <2>3, <2>4
<1> QED  BY <1>1, <1>2

-----------------------------------------------------------------------------
(* Every variable keeps its range.                                          *)
LEMMA InitMemoryInv == MemoryInit => MemoryInv
BY MessageIdsAssumption, RowsFact
   DEF MemoryInit, MemoryInv, MemoryTypeOK, MapsAreInverse, PromiseHeld, Exists, NoEntry, Entry, Rows, NoRow

(* A message that is stored again has no promise left.                      *)
LEMMA NoPromise ==
    ASSUME MemoryInv, NEW m \in MsgIds, ~Known(m)
    PROVE  ~(now < promised[m].until)
<1> SUFFICES ASSUME now < promised[m].until  PROVE FALSE
  OBVIOUS
<1> DEFINE r == promised[m].row
<1>1. r \in Rows /\ byRow[r] = [id |-> m, expiresAt |-> promised[m].until]
  BY DEF MemoryInv, PromiseHeld
<1>2. Exists(r) /\ byRow[r].id = m
  BY <1>1, MessageIdsAssumption DEF Exists, NoEntry
<1>3. byID[m] = r
  BY <1>1, <1>2 DEF MemoryInv, MapsAreInverse
<1>4. Fresh(r)
  BY <1>1, <1>2 DEF Fresh
<1> QED  BY <1>1, <1>2, <1>3, <1>4, RowsFact DEF Known

(* Storing preserves the invariant.                                         *)
LEMMA StoreInMemoryPreserves ==
    ASSUME MemoryInv, NEW m \in MsgIds, StoreCacheInMemory(m)
    PROVE  MemoryInv'
<1> DEFINE row == RowInMemory(m)
<1>0. /\ byID \in [MsgIds -> Rows \cup {NoRow}]
      /\ byRow \in [Rows -> Entry \cup {NoEntry}]
      /\ now \in Nat /\ now' = now
      /\ promised \in [MsgIds -> [row : Rows \cup {NoRow}, until : Nat]]
      /\ NoMsg \notin MsgIds /\ TTL \in Nat /\ now + TTL \in Nat
  BY MessageIdsAssumption DEF MemoryInv, MemoryTypeOK, StoreCacheInMemory
<1>1. row = NoRow \/ (row \in Rows /\ FreeInMemory(m, row))
  BY RowInMemoryFact
<1>2. /\ byID' = [n \in MsgIds |->
           IF n = m THEN row ELSE IF row # NoRow /\ n = byRow[row].id THEN NoRow ELSE byID[n]]
      /\ byRow' = [r \in Rows |->
           CASE r = row -> [id |-> m, expiresAt |-> now + TTL]
             [] r # row /\ r = byID[m] -> NoEntry
             [] OTHER -> byRow[r]]
  BY DEF StoreCacheInMemory, StoredAt
<1>3. promised' = IF row = NoRow THEN promised
                  ELSE [promised EXCEPT ![m] = [row |-> row, until |-> now + TTL]]
  BY DEF StoreCacheInMemory
<1>4. \A r \in Rows : byRow'[r] = IF r = row THEN [id |-> m, expiresAt |-> now + TTL]
                                  ELSE IF r = byID[m] THEN NoEntry ELSE byRow[r]
  BY <1>2, <1>0
<1>5. \A n \in MsgIds : byID[n] # NoRow => byID[n] \in Rows /\ byRow[byID[n]].id = n
  BY <1>0 DEF MemoryInv, MapsAreInverse
<1>6. \A r \in Rows : byRow[r] # NoEntry => byRow[r].id \in MsgIds /\ byID[byRow[r].id] = r
  BY <1>0, EntryFact DEF MemoryInv, MapsAreInverse, Exists, Entry
<1>7. MemoryTypeOK'
  <2>1. byID' \in [MsgIds -> Rows \cup {NoRow}]
    BY <1>0, <1>1, <1>2
  <2>2. byRow' \in [Rows -> Entry \cup {NoEntry}]
    <3>1. \A r \in Rows : byRow'[r] \in Entry \cup {NoEntry}
      BY <1>0, <1>4 DEF Entry
    <3>2. byRow' = [r \in Rows |-> byRow'[r]]
      BY <1>2, <1>4
    <3> QED  BY <3>1, <3>2
  <2>3. promised' \in [MsgIds -> [row : Rows \cup {NoRow}, until : Nat]]
    BY <1>0, <1>1, <1>3
  <2> QED  BY <2>1, <2>2, <2>3, <1>0 DEF MemoryTypeOK
<1>8. MapsAreInverse'
  <2>1. ASSUME NEW n \in MsgIds, byID'[n] # NoRow  PROVE byRow'[byID'[n]].id = n
    <3>1. CASE n = m
      BY <2>1, <3>1, <1>1, <1>2, <1>4
    <3>2. CASE n # m
      <4>1. byID'[n] = byID[n] /\ byID[n] \in Rows /\ byRow[byID[n]].id = n
        BY <2>1, <3>2, <1>2, <1>5
      <4>2. byID[n] # row
        BY <4>1, <2>1, <3>2, <1>2, RowsFact
      <4>3. byID[n] # byID[m]
        BY <4>1, <3>2, <1>5, RowsFact
      <4> QED  BY <4>1, <4>2, <4>3, <1>4
    <3> QED  BY <3>1, <3>2
  <2>2. ASSUME NEW r \in Rows, byRow'[r] # NoEntry  PROVE byID'[byRow'[r].id] = r
    <3>1. CASE r = row
      BY <3>1, <1>2, <1>4
    <3>2. CASE r # row
      <4>1. byRow'[r] = byRow[r] /\ r # byID[m] /\ byRow[r] # NoEntry
        BY <2>2, <3>2, <1>4
      <4>2. byRow[r].id \in MsgIds /\ byID[byRow[r].id] = r
        BY <4>1, <1>6
      <4>3. byRow[r].id # m
        BY <4>1, <4>2
      <4>4. row # NoRow => byRow[r].id # byRow[row].id
        <5> SUFFICES ASSUME row # NoRow, byRow[r].id = byRow[row].id  PROVE FALSE
          OBVIOUS
        <5>1. row \in Rows /\ byRow[row] # NoEntry
          BY <1>1, <4>2, <1>0 DEF NoEntry
        <5> QED  BY <5>1, <4>2, <1>6, <3>2
      <4> QED  BY <4>1, <4>2, <4>3, <4>4, <1>2
    <3> QED  BY <3>1, <3>2
  <2> QED  BY <2>1, <2>2 DEF MapsAreInverse, Exists
<1>9. PromiseHeld'
  <2> SUFFICES ASSUME NEW n \in MsgIds, now < promised'[n].until
               PROVE  /\ promised'[n].row \in Rows
                      /\ byRow'[promised'[n].row] = [id |-> n, expiresAt |-> promised'[n].until]
    BY <1>0 DEF PromiseHeld
  <2>1. CASE n = m
    <3>1. ~(now < promised[m].until)
      BY NoPromise DEF StoreCacheInMemory
    <3>2. row # NoRow
      BY <2>1, <3>1, <1>3
    <3>3. promised'[n] = [row |-> row, until |-> now + TTL]
      BY <2>1, <3>2, <1>3, <1>0
    <3> QED  BY <2>1, <3>2, <3>3, <1>1, <1>4
  <2>2. CASE n # m
    <3> DEFINE r == promised[n].row
    <3>1. promised'[n] = promised[n]
      BY <2>2, <1>3, <1>0
    <3>2. r \in Rows /\ byRow[r] = [id |-> n, expiresAt |-> promised[n].until]
      BY <3>1, <1>0 DEF MemoryInv, PromiseHeld
    <3>3. Fresh(r)
      BY <3>1, <3>2, <1>0 DEF Fresh, Exists, NoEntry
    <3>4. byID[m] # r
      BY <3>2, <2>2, <1>5, RowsFact
    <3>5. row # r
      BY <1>1, <3>3, <3>4, <3>2, RowsFact DEF FreeInMemory
    <3> QED  BY <3>1, <3>2, <3>4, <3>5, <1>4
  <2> QED  BY <2>1, <2>2
<1> QED  BY <1>7, <1>8, <1>9 DEF MemoryInv

(* Deleting what has expired breaks no promise, since those are fresh.      *)
LEMMA DeletedPreserves ==
    ASSUME MemoryInv, NEW expired \in SUBSET Rows, Deleted(expired),
           \A r \in expired : ~Fresh(r)
    PROVE  MemoryInv'
<1>0. /\ byID \in [MsgIds -> Rows \cup {NoRow}]
      /\ byRow \in [Rows -> Entry \cup {NoEntry}]
      /\ UNCHANGED <<now, promised>>
      /\ \A r \in Rows : byRow'[r] = IF r \in expired THEN NoEntry ELSE byRow[r]
      /\ \A m \in MsgIds : byID'[m] = IF byID[m] \in expired THEN NoRow ELSE byID[m]
  BY DEF MemoryInv, MemoryTypeOK, Deleted
<1>1. MemoryTypeOK'
  <2>1. byID' \in [MsgIds -> Rows \cup {NoRow}]
    BY <1>0 DEF Deleted
  <2>2. byRow' \in [Rows -> Entry \cup {NoEntry}]
    BY <1>0 DEF Deleted
  <2> QED  BY <2>1, <2>2, <1>0 DEF MemoryInv, MemoryTypeOK
<1>2. MapsAreInverse'
  <2>1. ASSUME NEW m \in MsgIds, byID'[m] # NoRow  PROVE byRow'[byID'[m]].id = m
    BY <2>1, <1>0 DEF MemoryInv, MapsAreInverse
  <2>2. ASSUME NEW r \in Rows, byRow'[r] # NoEntry  PROVE byID'[byRow'[r].id] = r
    <3>1. r \notin expired /\ byRow'[r] = byRow[r]
      BY <2>2, <1>0
    <3>2. byRow[r].id \in MsgIds
      BY <2>2, <3>1, <1>0, EntryFact DEF Entry
    <3> QED  BY <2>2, <3>1, <3>2, <1>0 DEF MemoryInv, MapsAreInverse, Exists
  <2> QED  BY <2>1, <2>2 DEF MapsAreInverse, Exists
<1>3. PromiseHeld'
  <2> SUFFICES ASSUME NEW m \in MsgIds, now < promised[m].until
               PROVE  /\ promised[m].row \in Rows
                      /\ byRow'[promised[m].row] = [id |-> m, expiresAt |-> promised[m].until]
    BY <1>0 DEF PromiseHeld
  <2>1. /\ promised[m].row \in Rows
        /\ byRow[promised[m].row] = [id |-> m, expiresAt |-> promised[m].until]
    BY DEF MemoryInv, PromiseHeld
  <2>2. Fresh(promised[m].row)
    BY <2>1, MessageIdsAssumption DEF Fresh, Exists, NoEntry
  <2> QED  BY <2>1, <2>2, <1>0
<1> QED  BY <1>1, <1>2, <1>3 DEF MemoryInv

(* The strengthened invariant is inductive.                                 *)
LEMMA NextMemoryInv == MemoryInv /\ [MemoryNext]_memoryVars => MemoryInv'
<1> SUFFICES ASSUME MemoryInv, [MemoryNext]_memoryVars  PROVE MemoryInv'
  OBVIOUS
<1>1. ASSUME NEW m \in MsgIds, StoreCacheInMemory(m)  PROVE MemoryInv'
  BY <1>1, StoreInMemoryPreserves
<1>2. ASSUME NEW r \in Rows, LookUp(r)  PROVE MemoryInv'
  BY <1>2, DeletedPreserves DEF LookUp
<1>3. ASSUME Sweep  PROVE MemoryInv'
  <2> DEFINE expired == {r \in Rows : Exists(r) /\ ~Fresh(r)}
  <2>1. expired \in SUBSET Rows /\ Deleted(expired) /\ \A r \in expired : ~Fresh(r)
    BY <1>3 DEF Sweep
  <2> QED  BY <2>1, DeletedPreserves
<1>4. ASSUME Tick  PROVE MemoryInv'
  <2>1. now \in Nat /\ now' = now + 1 /\ UNCHANGED <<byID, byRow, promised>>
    BY <1>4 DEF Tick, MemoryInv, MemoryTypeOK
  <2>2. MemoryTypeOK'
    BY <2>1 DEF MemoryInv, MemoryTypeOK
  <2>3. MapsAreInverse'
    BY <2>1 DEF MemoryInv, MapsAreInverse, Exists
  <2>4. \A m \in MsgIds : now' < promised'[m].until => now < promised[m].until
    BY <2>1 DEF MemoryInv, MemoryTypeOK
  <2>5. PromiseHeld'
    BY <2>1, <2>4 DEF MemoryInv, PromiseHeld
  <2> QED  BY <2>2, <2>3, <2>5 DEF MemoryInv
<1>5. ASSUME UNCHANGED memoryVars  PROVE MemoryInv'
  BY <1>5 DEF memoryVars, MemoryInv, MemoryTypeOK, MapsAreInverse, PromiseHeld, Exists
<1> QED  BY <1>1, <1>2, <1>3, <1>4, <1>5 DEF MemoryNext

LEMMA SpecMemoryInv == MemorySpec => []MemoryInv
BY InitMemoryInv, NextMemoryInv, PTL DEF MemorySpec

-----------------------------------------------------------------------------
(* Every variable keeps its range, for any hash, number of messages and     *)
(* time to live.                                                            *)
THEOREM SpecMemoryTypeOK == MemorySpec => []MemoryTypeOK
<1>1. MemoryInv => MemoryTypeOK
  BY DEF MemoryInv
<1> QED  BY SpecMemoryInv, <1>1, PTL

(* The two maps of StoreCacheInMemory are inverse after any stores, lookups *)
(* and sweeps.                                                              *)
THEOREM SpecMapsAreInverse == MemorySpec => []MapsAreInverse
<1>1. MemoryInv => MapsAreInverse
  BY DEF MemoryInv
<1> QED  BY SpecMemoryInv, <1>1, PTL

(* A short ID means its message until it expires.                           *)
THEOREM SpecKeptUntilExpiry == MemorySpec => []KeptUntilExpiry
<1>1. ASSUME MemoryInv, NEW m \in MsgIds, now < promised[m].until
      PROVE  byRow[promised[m].row].id = m
  <2>1. byRow[promised[m].row] = [id |-> m, expiresAt |-> promised[m].until]
    BY <1>1 DEF MemoryInv, PromiseHeld
  <2> QED  BY <2>1
<1>2. MemoryInv => KeptUntilExpiry
  BY <1>1 DEF KeptUntilExpiry
<1> QED  BY SpecMemoryInv, <1>2, PTL
=============================================================================
