-------------------------------- MODULE MCEcho --------------------------------
(***************************************************************************)
(* What echo/echo.go keeps in memory and MsgCache on disk, for TLC: with   *)
(* memory_msgid the short message IDs are those of MemoryIds, without it   *)
(* those of MsgCache; beside them there is the stack of refused messages.  *)
(* They share no state: each behaviour is one of a single part.            *)
(* Four actions at once make each way of disturbing a loop happen: two to  *)
(* fill the stack, one that loops and one that comes between.              *)
(***************************************************************************)
EXTENDS MsgCache, MemoryIds, ResendStack

CONSTANTS m1, m2, m3

VARIABLE part

\* m1 and m2 collide at 9 digits, m3 with m2 at 10.
MCHashRow == [m \in {m1, m2, m3} |-> [d \in 9..18 |->
    IF d = 9 THEN (IF m = m3 THEN 3 ELSE 1)
    ELSE IF d = 10 THEN (IF m = m1 THEN 3 ELSE 2)
    ELSE IF d = 11 THEN 0 ELSE 4]]

all == <<part, vars, memoryVars, resendVars>>

MCInit ==
    /\ part \in {"disk", "memory", "resend"}
    /\ Init /\ MemoryInit /\ ResendInit

MCNext ==
    /\ UNCHANGED part
    /\ \/ part = "disk" /\ Next /\ UNCHANGED <<memoryVars, resendVars>>
       \/ part = "memory" /\ MemoryNext /\ UNCHANGED <<vars, resendVars>>
       \/ part = "resend" /\ ResendNext /\ UNCHANGED <<vars, memoryVars>>

MCSpec == MCInit /\ [][MCNext]_all
=============================================================================
