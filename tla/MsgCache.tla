------------------------------- MODULE MsgCache -------------------------------
(***************************************************************************)
(* The message cache of idmap/service.go: the "cache" bucket, which gives  *)
(* every platform message ID a short ID for the application.  Unlike the   *)
(* "ids" bucket it rejects no row, and clearing it keeps its counter.      *)
(***************************************************************************)
EXTENDS MessageIds, FiniteSetsExt

CONSTANTS
    HashMode,   \* hash_id
    Callers     \* goroutines that use the cache

ASSUME MsgCacheAssumption == HashMode \in BOOLEAN

VARIABLES
    fwd, rev,       \* the row of each message, the message of each "row-<n>"
    counter,        \* currentRow
    call,           \* the message each caller is storing, past the fast path
    shown           \* the messages each short ID was handed out for, ever

vars == <<fwd, rev, counter, call, shown>>

(* Every variable in its range.                                             *)
TypeOK ==
    /\ fwd \in [MsgIds -> Rows \cup {NoRow}]
    /\ rev \in [Rows -> MsgIds \cup {NoMsg}]
    /\ counter \in Rows \cup {NoRow}
    /\ call \in [Callers -> MsgIds \cup {NoMsg}]
    /\ shown \in [Rows -> SUBSET MsgIds]

Init ==
    /\ fwd = [m \in MsgIds |-> NoRow]
    /\ rev = [r \in Rows |-> NoMsg]
    /\ counter = NoRow
    /\ call = [c \in Callers |-> NoMsg]
    /\ shown = [r \in Rows |-> {}]

-----------------------------------------------------------------------------
Free(from) == {r \in Rows : from <= r /\ rev[r] = NoMsg}

CountedRow ==
    LET free == Free(IF counter = NoRow THEN 1 ELSE counter + 1)
    IN  IF free = {} THEN NoRow ELSE Min(free)

HashedRow(m) ==
    LET usable == {d \in Digits : rev[HashRow[m][d]] = NoMsg}
    IN  IF usable = {} THEN NoRow ELSE HashRow[m][Min(usable)]

NewRow(m) == IF HashMode THEN HashedRow(m) ELSE CountedRow

Show(m, row) == shown' = [shown EXCEPT ![row] = @ \cup {m}]

(* StoreCache: the read-only fast path...                                   *)
StoreRead(c, m) ==
    /\ call[c] = NoMsg
    /\ IF fwd[m] # NoRow THEN Show(m, fwd[m]) /\ UNCHANGED call
       ELSE call' = [call EXCEPT ![c] = m] /\ UNCHANGED shown
    /\ UNCHANGED <<fwd, rev, counter>>

(* ...and the transaction, which looks again before it assigns a row.       *)
Assign(m, row) ==
    /\ counter' = IF HashMode THEN counter ELSE row
    /\ fwd' = [fwd EXCEPT ![m] = row]
    /\ rev' = [rev EXCEPT ![row] = m]

StoreUnchecked(m) ==
    IF NewRow(m) = NoRow THEN UNCHANGED <<fwd, rev, counter, shown>>
    ELSE Assign(m, NewRow(m)) /\ Show(m, NewRow(m))

Store(m) ==
    CASE fwd[m] # NoRow -> UNCHANGED <<fwd, rev, counter>> /\ Show(m, fwd[m])
      [] fwd[m] = NoRow /\ NewRow(m) = NoRow -> UNCHANGED <<fwd, rev, counter, shown>>
      [] OTHER -> Assign(m, NewRow(m)) /\ Show(m, NewRow(m))

StoreUpdate(c) ==
    /\ call[c] # NoMsg
    /\ Store(call[c])
    /\ call' = [call EXCEPT ![c] = NoMsg]

(* The process ends, and clearBucket may run before the next one (-delcache)*)
Stop ==
    /\ call' = [c \in Callers |-> NoMsg]
    /\ UNCHANGED <<fwd, rev, counter, shown>>

Wipe == fwd' = [m \in MsgIds |-> NoRow] /\ rev' = [r \in Rows |-> NoMsg]

ClearBucketFully ==
    /\ Wipe
    /\ counter' = NoRow
    /\ call' = [c \in Callers |-> NoMsg]
    /\ UNCHANGED shown

ClearBucket ==
    /\ Wipe
    /\ call' = [c \in Callers |-> NoMsg]
    /\ UNCHANGED <<counter, shown>>

Next ==
    \/ \E c \in Callers, m \in MsgIds : StoreRead(c, m)
    \/ \E c \in Callers : StoreUpdate(c)
    \/ Stop \/ ClearBucket

Spec == Init /\ [][Next]_vars

-----------------------------------------------------------------------------
(* A short ID handed out for a message never points at another one, through *)
(* restarts and clearings (service.go:104-105).                             *)
ShortIdMeansMsg == \A r \in Rows :
    \A m1, m2 \in shown[r] \cup ({rev[r]} \ {NoMsg}) : m1 = m2

(* The two directions of the cache agree.                                   *)
CacheIsInverse ==
    /\ \A m \in MsgIds : fwd[m] # NoRow => rev[fwd[m]] = m
    /\ \A r \in Rows : rev[r] # NoMsg => fwd[rev[r]] = r
=============================================================================
