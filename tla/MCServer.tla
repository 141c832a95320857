------------------------------- MODULE MCServer -------------------------------
(***************************************************************************)
(* The two servers of server/ for TLC: the webhook, where w1 and w2        *)
(* deliver the same interaction and w3 another, and the forward WebSocket  *)
(* server with the broadcast.  They share no state, and each behaviour is  *)
(* one of a single server.                                                 *)
(***************************************************************************)
EXTENDS InteractionWait, Broadcast

CONSTANTS w1, w2, w3, i1, i2, r1

VARIABLE server

MCOf == [w \in {w1, w2, w3} |-> IF w = w3 THEN i2 ELSE i1]

all == <<server, vars, forwardVars>>

MCInit == server \in {"webhook", "forward"} /\ Init /\ ForwardInit

MCNext ==
    /\ UNCHANGED server
    /\ \/ server = "webhook" /\ Next /\ UNCHANGED forwardVars
       \/ server = "forward" /\ ForwardNext /\ UNCHANGED vars

ForwardStep == server = "forward" /\ BroadcastStep
ForwardSend(s) == server = "forward" /\ SendStep(s)

MCSpec ==
    /\ MCInit /\ [][MCNext]_all
    /\ Fairness
    /\ WF_forwardVars(ForwardStep)
    /\ \A s \in Positions : WF_forwardVars(ForwardSend(s))
=============================================================================
