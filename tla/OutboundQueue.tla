---------------------------- MODULE OutboundQueue ----------------------------
(***************************************************************************)
(* What a reverse WebSocket client promises the rest of the program: the   *)
(* messages accepted by SendMessage form one first-in first-out queue that *)
(* survives reconnections.  A message leaves the queue only at its head:   *)
(* it has been written to a connection or, when disable_error_chan is set, *)
(* it has been given up after a failed write.                              *)
(***************************************************************************)
EXTENDS Naturals, Sequences

CONSTANT DropOnError    \* disable_error_chan

VARIABLES
    pending,    \* accepted messages not yet written, oldest first
    sent,       \* messages written to a connection, in order
    accepted    \* number of messages accepted; message m is the m-th one

vars == <<pending, sent, accepted>>

Init ==
    /\ pending = <<1>>      \* the lifecycle event of the first connection
    /\ sent = <<>>
    /\ accepted = 1

Accept ==
    /\ accepted' = accepted + 1
    /\ pending' = Append(pending, accepted')
    /\ UNCHANGED sent

Write ==
    /\ pending # <<>>
    /\ sent' = Append(sent, Head(pending))
    /\ pending' = Tail(pending)
    /\ UNCHANGED accepted

GiveUp ==
    /\ DropOnError
    /\ pending # <<>>
    /\ pending' = Tail(pending)
    /\ UNCHANGED <<sent, accepted>>

Next == Accept \/ Write \/ GiveUp

Spec == Init /\ [][Next]_vars
=============================================================================
