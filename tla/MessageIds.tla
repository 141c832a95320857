----------------------------- MODULE MessageIds ------------------------------
(***************************************************************************)
(* Platform message IDs and the numbers that stand for them: what the      *)
(* cache on disk (MsgCache) and the one in memory (MemoryIds) share.       *)
(***************************************************************************)
EXTENDS Integers

CONSTANTS
    MsgIds,     \* platform message IDs
    NoMsg,      \* no such key
    MaxRow,     \* the largest int64
    HashRow,    \* GenerateRowID: the row of an ID at a number of digits
    TTL         \* messageIDCacheTTL, in units of time

NoRow == -1
Rows == 0 .. MaxRow
Digits == 9 .. 18

ASSUME MessageIdsAssumption ==
    /\ NoMsg \notin MsgIds
    /\ MaxRow \in Nat \ {0}
    /\ HashRow \in [MsgIds -> [Digits -> Rows]]
    /\ TTL \in Nat \ {0}
=============================================================================
