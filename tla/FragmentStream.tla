---------------------------- MODULE FragmentStream ----------------------------
(***************************************************************************)
(* What a streamed private message is to the platform: the fragments it    *)
(* holds for a message are numbered 0, 1, 2, ... in the order in which     *)
(* they arrived, without a gap and without a repetition.                   *)
(***************************************************************************)
EXTENDS Naturals, Sequences

CONSTANT Messages   \* the platform messages that are answered by a stream

VARIABLE fragments  \* the numbers of a stream's fragments, as they arrived

Init == fragments = [m \in Messages |-> <<>>]

Arrive(m) == fragments' = [fragments EXCEPT ![m] = Append(@, Len(@))]

Next == \E m \in Messages : Arrive(m)

Spec == Init /\ [][Next]_fragments
=============================================================================
