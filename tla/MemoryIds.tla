------------------------------ MODULE MemoryIds ------------------------------
(***************************************************************************)
(* Short message IDs kept in memory, from echo/echo.go: two maps under one *)
(* lock, whose entries expire.  An expired entry stays until it is looked  *)
(* up, replaced or swept.  Event IDs are kept here in any case, message    *)
(* IDs with memory_msgid; otherwise they are those of MsgCache.            *)
(***************************************************************************)
EXTENDS MessageIds, FiniteSetsExt

CONSTANT MaxTime    \* bound: the time that passes

VARIABLES
    byID,       \* the row of each message
    byRow,      \* the message of each row and when it expires
    now,
    promised    \* history: the row each message was last given, and until when

memoryVars == <<byID, byRow, now, promised>>

NoEntry == [id |-> NoMsg, expiresAt |-> 0]
Entry == [id : MsgIds, expiresAt : Nat]

MemoryInit ==
    /\ byID = [m \in MsgIds |-> NoRow]
    /\ byRow = [r \in Rows |-> NoEntry]
    /\ now = 0
    /\ promised = [m \in MsgIds |-> [row |-> NoRow, until |-> 0]]

Exists(r) == byRow[r] # NoEntry
Fresh(r) == Exists(r) /\ byRow[r].expiresAt > now

-----------------------------------------------------------------------------
(* StoreCacheInMemory                                                       *)

Known(m) == byID[m] # NoRow /\ Fresh(byID[m]) /\ byRow[byID[m]].id = m

FreeAny(m, r) == r > 0

\* The old row of the message, whose entry has expired, is free again.
FreeInMemory(m, r) == r > 0 /\ (~Fresh(r) \/ r = byID[m])

RowInMemory(m) ==
    LET usable == {d \in Digits : FreeInMemory(m, HashRow[m][d])}
    IN  IF usable = {} THEN NoRow ELSE HashRow[m][Min(usable)]

StoredKeepingOther(m, row) ==
    /\ byID' = [byID EXCEPT ![m] = row]
    /\ byRow' = [r \in Rows |->
           CASE r = row -> [id |-> m, expiresAt |-> now + TTL]
             [] r # row /\ r = byID[m] -> NoEntry
             [] OTHER -> byRow[r]]

\* What is left of the maps once the message's own old entry is deleted, and
\* the expired entry of its new row.
StoredAt(m, row) ==
    /\ byID' = [n \in MsgIds |->
           IF n = m THEN row ELSE IF row # NoRow /\ n = byRow[row].id THEN NoRow ELSE byID[n]]
    /\ byRow' = [r \in Rows |->
           CASE r = row -> [id |-> m, expiresAt |-> now + TTL]
             [] r # row /\ r = byID[m] -> NoEntry
             [] OTHER -> byRow[r]]

StoreCacheInMemory(m) ==
    /\ ~Known(m)
    /\ StoredAt(m, RowInMemory(m))
    /\ promised' = IF RowInMemory(m) = NoRow THEN promised
                   ELSE [promised EXCEPT ![m] = [row |-> RowInMemory(m), until |-> now + TTL]]
    /\ UNCHANGED now

-----------------------------------------------------------------------------
(* GetCacheIDFromMemoryByRowID and the sweep delete what has expired.       *)

Deleted(expired) ==
    /\ byRow' = [r \in Rows |-> IF r \in expired THEN NoEntry ELSE byRow[r]]
    /\ byID' = [m \in MsgIds |-> IF byID[m] \in expired THEN NoRow ELSE byID[m]]
    /\ UNCHANGED <<now, promised>>

LookUp(r) == Exists(r) /\ ~Fresh(r) /\ Deleted({r})

Sweep == Deleted({r \in Rows : Exists(r) /\ ~Fresh(r)})

Tick == now < MaxTime /\ now' = now + 1 /\ UNCHANGED <<byID, byRow, promised>>

MemoryNext ==
    \/ \E m \in MsgIds : StoreCacheInMemory(m)
    \/ \E r \in Rows : LookUp(r)
    \/ Sweep
    \/ Tick

MemorySpec == MemoryInit /\ [][MemoryNext]_memoryVars

-----------------------------------------------------------------------------
(* Every variable in its range.                                             *)
MemoryTypeOK ==
    /\ byID \in [MsgIds -> Rows \cup {NoRow}]
    /\ byRow \in [Rows -> Entry \cup {NoEntry}]
    /\ now \in Nat
    /\ promised \in [MsgIds -> [row : Rows \cup {NoRow}, until : Nat]]

(* The two maps stay inverse through expiry, reuse and sweeps.              *)
MapsAreInverse ==
    /\ \A m \in MsgIds : byID[m] # NoRow => byRow[byID[m]].id = m
    /\ \A r \in Rows : Exists(r) => byID[byRow[r].id] = r

(* A short ID the application was given means the same message until it     *)
(* expires, whatever other messages hash to the same row.                   *)
KeptUntilExpiry ==
    \A m \in MsgIds : now < promised[m].until => byRow[promised[m].row].id = m
=============================================================================
