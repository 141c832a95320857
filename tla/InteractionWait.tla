--------------------------- MODULE InteractionWait ---------------------------
(***************************************************************************)
(* Answering a button press in webhook mode (server/webhook.go with        *)
(* interactionwait/interactionwait.go).  The platform posts an interaction *)
(* and waits for the HTTP response.  The handler registers a slot for it,  *)
(* hands the event on, and answers with the code that the application      *)
(* provides in time through TryFill, or else with a fallback code.  When   *)
(* there is no slot, the application's code is PUT to the platform.        *)
(*                                                                         *)
(* A code is named by the API call that provides it.  The platform may     *)
(* deliver one interaction more than once: Of says what a request is about.*)
(***************************************************************************)
EXTENDS Naturals, FiniteSets

CONSTANTS
    Requests,       \* deliveries to the webhook, one HTTP request each
    Interactions,   \* interaction IDs
    Of,             \* the interaction each request is about
    Calls,          \* API calls of the application that carry a code
    NoRequest,      \* no slot
    NoCall,         \* no code
    QueueCap        \* capacity of WebhookHandler.messageQueue

ASSUME InteractionAssumption ==
    /\ Of \in [Requests -> Interactions]
    /\ NoRequest \notin Requests /\ NoCall \notin Calls
    /\ "fallback" \notin Calls
    /\ QueueCap \in Nat \ {0}

VARIABLES
    pending,        \* the request whose slot is registered for an interaction
    request,        \* control point of each webhook request
    slot,           \* the code in the channel of each request's slot
    answer,         \* the code in each response: a call, or "fallback"
    event,          \* where the event of each request is
    call, taken     \* control point of each TryFill, the slot it took

vars == <<pending, request, slot, answer, event, call, taken>>

(* TryFill found a slot for the call.                                       *)
Took(a) == call[a] \in {"took", "filled"}

(* Every variable in its range; a code is only sent into a slot there is.   *)
TypeOK ==
    /\ pending \in [Interactions -> Requests \cup {NoRequest}]
    /\ request \in [Requests -> {"off", "wait", "expired", "owed", "answered"}]
    /\ slot \in [Requests -> Calls \cup {NoCall}]
    /\ answer \in [Requests -> Calls \cup {NoCall, "fallback"}]
    /\ event \in [Requests -> {"off", "sending", "queued", "dropped", "handled"}]
    /\ call \in [Calls -> {"idle", "took", "filled", "put"}]
    /\ taken \in [Calls -> Requests \cup {NoRequest}]
    /\ \A a \in Calls : Took(a) => taken[a] \in Requests

Init ==
    /\ pending = [i \in Interactions |-> NoRequest]
    /\ request = [w \in Requests |-> "off"]
    /\ slot = [w \in Requests |-> NoCall]
    /\ answer = [w \in Requests |-> NoCall]
    /\ event = [w \in Requests |-> "off"]
    /\ call = [a \in Calls |-> "idle"]
    /\ taken = [a \in Calls |-> NoRequest]

-----------------------------------------------------------------------------
(* The webhook request, with webhook_resp_wait_ms > 0.                      *)

(* Register replaces whatever slot the interaction had, and a goroutine is  *)
(* started to hand the event on.                                            *)
Receive(w) ==
    /\ request[w] = "off"
    /\ pending' = [pending EXCEPT ![Of[w]] = w]
    /\ request' = [request EXCEPT ![w] = "wait"]
    /\ event' = [event EXCEPT ![w] = "sending"]
    /\ UNCHANGED <<slot, answer, call, taken>>

Respond(w, code) ==
    /\ answer' = [answer EXCEPT ![w] = code]
    /\ request' = [request EXCEPT ![w] = "answered"]

(* The code arrives in the channel before the timer fires...                *)
TakeCode(w) ==
    /\ request[w] = "wait" /\ slot[w] # NoCall
    /\ Respond(w, slot[w])
    /\ slot' = [slot EXCEPT ![w] = NoCall]
    /\ UNCHANGED <<pending, event, call, taken>>

(* ...or the timer fires: select may choose it even if a code is there too. *)
Expire(w) ==
    /\ request[w] = "wait"
    /\ request' = [request EXCEPT ![w] = "expired"]
    /\ UNCHANGED <<pending, slot, answer, event, call, taken>>

UnregisterBlind(w) ==
    /\ request[w] = "expired"
    /\ pending' = IF pending[Of[w]] = w THEN [pending EXCEPT ![Of[w]] = NoRequest]
                  ELSE pending
    /\ Respond(w, "fallback")
    /\ UNCHANGED <<slot, event, call, taken>>

UnregisterLate(w) ==
    /\ request[w] = "expired"
    /\ IF pending[Of[w]] = w THEN Respond(w, "fallback")
       ELSE request' = [request EXCEPT ![w] = "owed"] /\ UNCHANGED answer
    /\ UNCHANGED <<pending, slot, event, call, taken>>

(* After the timeout the request removes its slot itself.  If the slot is   *)
(* not there any more, somebody is taken to be sending a code, and the      *)
(* request waits for it without a limit.                                    *)
Unregister(w) ==
    /\ request[w] = "expired"
    /\ IF pending[Of[w]] = w
       THEN /\ pending' = [pending EXCEPT ![Of[w]] = NoRequest]
            /\ Respond(w, "fallback")
       ELSE /\ request' = [request EXCEPT ![w] = "owed"]
            /\ UNCHANGED <<pending, answer>>
    /\ UNCHANGED <<slot, event, call, taken>>

TakeOwed(w) ==
    /\ request[w] = "owed" /\ slot[w] # NoCall
    /\ Respond(w, slot[w])
    /\ slot' = [slot EXCEPT ![w] = NoCall]
    /\ UNCHANGED <<pending, event, call, taken>>

-----------------------------------------------------------------------------
(* The event: a goroutine of its own queues it or, when the queue is full,  *)
(* drops it; the consumer starts a goroutine for each, so their order is    *)
(* not kept.                                                                *)

Full == Cardinality({w \in Requests : event[w] = "queued"}) >= QueueCap

Enqueue(w) ==
    /\ event[w] = "sending"
    /\ event' = [event EXCEPT ![w] = IF Full THEN "dropped" ELSE "queued"]
    /\ UNCHANGED <<pending, request, slot, answer, call, taken>>

Handle(w) ==
    /\ event[w] = "queued"
    /\ event' = [event EXCEPT ![w] = "handled"]
    /\ UNCHANGED <<pending, request, slot, answer, call, taken>>

-----------------------------------------------------------------------------
(* TryFill, called by put_interaction, send_group_msg and send_private_msg: *)
(* take the slot under the lock, then send the code into its channel.       *)

TryFillKeeping(a, i) ==
    /\ call[a] = "idle"
    /\ \E w \in Requests : Of[w] = i /\ event[w] = "handled"
    /\ taken' = [taken EXCEPT ![a] = pending[i]]
    /\ call' = [call EXCEPT ![a] = IF pending[i] = NoRequest THEN "put" ELSE "took"]
    /\ UNCHANGED <<pending, request, slot, answer, event>>

TryFillUnchecked(a, i) ==
    /\ call[a] = "idle"
    /\ \E w \in Requests : Of[w] = i /\ event[w] = "handled"
    /\ taken' = [taken EXCEPT ![a] = pending[i]]
    /\ call' = [call EXCEPT ![a] = "took"]
    /\ pending' = [pending EXCEPT ![i] = NoRequest]
    /\ UNCHANGED <<request, slot, answer, event>>

TryFill(a, i) ==
    /\ call[a] = "idle"
    /\ \E w \in Requests : Of[w] = i /\ event[w] = "handled"
    /\ taken' = [taken EXCEPT ![a] = pending[i]]
    /\ call' = [call EXCEPT ![a] = IF pending[i] = NoRequest THEN "put" ELSE "took"]
    /\ pending' = [pending EXCEPT ![i] = NoRequest]
    /\ UNCHANGED <<request, slot, answer, event>>

SendCodeUnbuffered(a) ==
    /\ call[a] = "took"
    /\ slot' = IF request[taken[a]] = "expired" THEN slot
               ELSE [slot EXCEPT ![taken[a]] = a]
    /\ call' = [call EXCEPT ![a] = "filled"]
    /\ UNCHANGED <<pending, request, answer, event, taken>>

SendCode(a) ==
    /\ call[a] = "took"
    /\ slot[taken[a]] = NoCall          \* the channel holds one code
    /\ slot' = [slot EXCEPT ![taken[a]] = a]
    /\ call' = [call EXCEPT ![a] = "filled"]
    /\ UNCHANGED <<pending, request, answer, event, taken>>

-----------------------------------------------------------------------------
Request(w) == TakeCode(w) \/ Expire(w) \/ Unregister(w) \/ TakeOwed(w)

Next ==
    \/ \E w \in Requests : Receive(w) \/ Request(w) \/ Enqueue(w) \/ Handle(w)
    \/ \E a \in Calls : SendCode(a) \/ \E i \in Interactions : TryFill(a, i)

Spec == Init /\ [][Next]_vars

(* The timer fires, and goroutines of the program that can run do.  Nothing *)
(* is assumed of the platform or of the application.                        *)
Fairness ==
    /\ \A w \in Requests : WF_vars(Request(w)) /\ WF_vars(Enqueue(w)) /\ WF_vars(Handle(w))
    /\ \A a \in Calls : WF_vars(SendCode(a))

FairSpec == Spec /\ Fairness

-----------------------------------------------------------------------------
(* When TryFill says true the platform is answered with that very code      *)
(* (interactionwait.go:85-86): the caller skips its PUT.                    *)
PromiseKept == \A a \in Calls :
    call[a] = "filled" => answer[taken[a]] \in {a, NoCall}

(* A slot that TryFill took is empty and its request still waits for it, so *)
(* the send neither blocks nor goes where nobody reads.                     *)
TakenIsAwaited == \A a \in Calls : call[a] = "took" =>
    /\ slot[taken[a]] = NoCall
    /\ request[taken[a]] \in {"wait", "expired", "owed"}

(* Once a request is answered its slot is gone from the map (:36).          *)
SlotRemoved == \A w \in Requests :
    request[w] = "answered" => pending[Of[w]] # w

(* A request is answered, unless another delivery of its interaction        *)
(* registered too.                                                          *)
Again(w) == \E v \in Requests : v # w /\ Of[v] = Of[w] /\ request[v] # "off"

AnsweredOnce == \A w \in Requests :
    request[w] = "wait" ~> request[w] = "answered" \/ Again(w)
=============================================================================
