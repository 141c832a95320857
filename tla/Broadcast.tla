------------------------------ MODULE Broadcast ------------------------------
(***************************************************************************)
(* The applications connected to the WebSocket server and an event sent to *)
(* all of them, from server/wsserver.go and Processor/Processor.go.  Every *)
(* connection has a handler that appends itself to p.WsServerClients and   *)
(* removes itself when its connection ends; BroadcastMessageToAll iterates *)
(* over the list and sends from one goroutine per application.  Nothing    *)
(* locks the list.  The reverse clients are a list that never changes.     *)
(***************************************************************************)
EXTENDS Naturals, Sequences, FiniteSets

CONSTANTS
    MaxApps,    \* bound: connections of applications, in order of opening
    MaxBreaks,  \* bound: connections that end
    Reverse     \* the configured reverse clients (see WsClient)

ASSUME BroadcastAssumption ==
    /\ MaxApps \in Nat /\ MaxBreaks \in Nat
    /\ IsFiniteSet(Reverse) /\ Reverse \cap (1 .. MaxApps) = {}

VARIABLES
    arrays,     \* the arrays behind the list
    list,       \* p.WsServerClients
    app,        \* the handler of each connection
    broadcast,  \* the local state of BroadcastMessageToAll
    sender,     \* its goroutines, in the order of their go statements
    errors,     \* how many errors wait in errorCh
    overlap,    \* history: two changes of the list overlapped
    during,     \* history: how the list changed during the broadcast
    audience    \* history: who was in the list when the broadcast read it

history == <<overlap, during, audience>>
forwardVars == <<arrays, list, app, broadcast, sender, errors, history>>

Apps == 1 .. MaxApps
NoApp == 0

Slice == INSTANCE GoSlice WITH Elements <- Apps, Zero <- NoApp

AppState == [at : {"out", "storing", "in", "broken", "found", "cutting", "gone"},
             next : Slice!Header, pos : Nat]
BroadcastState == [at : {"new", "sized", "spawn", "wait", "done"},
               capacity : Nat, view : Slice!Header, i : Nat, downtime : BOOLEAN]
SenderState == [to : Apps \cup Reverse, at : {"sending", "failed", "sent", "reported"}]

Handler(at) == [at |-> at, next |-> Slice!Empty, pos |-> 0]

ForwardInit ==
    /\ arrays = Slice!NoArrays
    /\ list = Slice!Empty
    /\ app = [a \in Apps |-> Handler("out")]
    /\ broadcast = [at |-> "new", capacity |-> 0, view |-> Slice!Empty, i |-> 0,
                    downtime |-> FALSE]
    /\ sender = <<>>
    /\ errors = 0
    /\ overlap = FALSE
    /\ during = {}
    /\ audience = {}

-----------------------------------------------------------------------------
(* wsHandler: the list is read, changed in its array and written back in    *)
(* separate steps.                                                          *)

Listed(a) == app[a].at \in {"in", "broken", "found"}
Ended(a) == app[a].at \notin {"out", "storing", "in"}
Changing(a) == app[a].at \in {"storing", "found", "cutting"}
BeginChange == overlap' = (overlap \/ \E a \in Apps : Changing(a))
ListChanges(how) ==
    during' = during \cup (IF broadcast.at \in {"sized", "spawn", "wait"} THEN {how} ELSE {})

\* bound: no connection opens or ends after the last sender started
Followed == broadcast.at \notin {"wait", "done"}

Connect(a) ==
    /\ app[a].at = "out"
    /\ Followed
    /\ \A b \in Apps : b < a => app[b].at # "out"
    /\ arrays' = Slice!ArraysAfterAppend(arrays, list, a)
    /\ app' = [app EXCEPT ![a].at = "storing",
                          ![a].next = Slice!HeaderAfterAppend(arrays, list)]
    /\ BeginChange
    /\ UNCHANGED <<list, broadcast, sender, errors, during, audience>>

StoreAppended(a) ==
    /\ app[a].at = "storing"
    /\ list' = app[a].next
    /\ app' = [app EXCEPT ![a] = Handler("in")]
    /\ ListChanges("append")
    /\ UNCHANGED <<arrays, broadcast, sender, errors, overlap, audience>>

Break(a) ==
    /\ app[a].at = "in"
    /\ Followed
    /\ Cardinality({b \in Apps : Ended(b)}) < MaxBreaks
    /\ app' = [app EXCEPT ![a].at = "broken"]
    /\ UNCHANGED <<arrays, list, broadcast, sender, errors, history>>

PositionsOf(a) == {i \in 1 .. list.len : Slice!Get(arrays, list, i) = a}
First(S) == CHOOSE i \in S : \A j \in S : i <= j

\* ReadMessage failed: the connection is closed and the list searched.
FindSelf(a) ==
    /\ app[a].at = "broken"
    /\ app' = IF PositionsOf(a) = {}
              THEN [app EXCEPT ![a] = Handler("gone")]
              ELSE [app EXCEPT ![a].at = "found", ![a].pos = First(PositionsOf(a))]
    /\ BeginChange
    /\ UNCHANGED <<arrays, list, broadcast, sender, errors, during, audience>>

\* The list is read again; a position beyond its end panics (recovered by gin).
CutSelf(a) ==
    /\ app[a].at = "found"
    /\ IF app[a].pos <= list.len
       THEN /\ arrays' = Slice!ArraysAfterRemove(arrays, list, app[a].pos)
            /\ app' = [app EXCEPT ![a].at = "cutting", ![a].pos = 0,
                                  ![a].next = Slice!HeaderAfterRemove(list)]
            /\ ListChanges("cut")
       ELSE /\ app' = [app EXCEPT ![a] = Handler("gone")]
            /\ UNCHANGED <<arrays, during>>
    /\ UNCHANGED <<list, broadcast, sender, errors, overlap, audience>>

StoreCutAsIs(a) ==
    /\ app[a].at = "cutting"
    /\ app' = [app EXCEPT ![a] = Handler("gone")]
    /\ ListChanges("cut")
    /\ UNCHANGED <<list, arrays, broadcast, sender, errors, overlap, audience>>

StoreCut(a) ==
    /\ app[a].at = "cutting"
    /\ list' = app[a].next
    /\ app' = [app EXCEPT ![a] = Handler("gone")]
    /\ ListChanges("cut")
    /\ UNCHANGED <<arrays, broadcast, sender, errors, overlap, audience>>

-----------------------------------------------------------------------------
(* BroadcastMessageToAll                                                    *)

Spawned(to) == [to |-> to, at |-> "sending"]

CapacityServersOnly == list.len
Capacity == list.len + Cardinality(Reverse)

\* The channel is sized, and the reverse clients are sent to.
StartBroadcast ==
    /\ broadcast.at = "new"
    /\ broadcast' = [broadcast EXCEPT !.at = "sized", !.capacity = Capacity]
    /\ \E order \in [1 .. Cardinality(Reverse) -> Reverse] :
         /\ \A c \in Reverse : \E i \in DOMAIN order : order[i] = c
         /\ sender' = [i \in DOMAIN order |-> Spawned(order[i])]
    /\ during' = IF \E a \in Apps : app[a].at = "cutting" THEN {"cut"} ELSE {}
    /\ UNCHANGED <<arrays, list, app, errors, overlap, audience>>

TakeList ==
    /\ broadcast.at = "sized"
    /\ broadcast' = [broadcast EXCEPT !.at = "spawn", !.view = list, !.i = 1]
    /\ audience' = {a \in Apps : Listed(a)}
    /\ UNCHANGED <<arrays, list, app, sender, errors, overlap, during>>

SpawnSender ==
    /\ broadcast.at = "spawn"
    /\ broadcast.i <= broadcast.view.len
    /\ sender' = Append(sender, Spawned(Slice!Get(arrays, broadcast.view, broadcast.i)))
    /\ broadcast' = [broadcast EXCEPT !.i = @ + 1]
    /\ UNCHANGED <<arrays, list, app, errors, history>>

AllSpawnedShort ==
    /\ broadcast.at = "spawn"
    /\ broadcast.i >= broadcast.view.len
    /\ broadcast' = [broadcast EXCEPT !.at = "wait"]
    /\ UNCHANGED <<arrays, list, app, sender, errors, history>>

AllSpawned ==
    /\ broadcast.at = "spawn"
    /\ broadcast.i > broadcast.view.len
    /\ broadcast' = [broadcast EXCEPT !.at = "wait"]
    /\ UNCHANGED <<arrays, list, app, sender, errors, history>>

\* Only a connection in good order is sure to take a broadcast.
Sound(to) == to \in Apps /\ app[to].at = "in"
Closed(to) == to \in Apps /\ app[to].at \in {"found", "cutting", "gone"}

SendOk(s) ==
    /\ sender[s].at = "sending"
    /\ ~Closed(sender[s].to)
    /\ sender' = [sender EXCEPT ![s].at = "sent"]
    /\ UNCHANGED <<arrays, list, app, broadcast, errors, history>>

SendFails(s) ==
    /\ sender[s].at = "sending"
    /\ ~Sound(sender[s].to)
    /\ sender' = [sender EXCEPT ![s].at = "failed"]
    /\ UNCHANGED <<arrays, list, app, broadcast, errors, history>>

\* The send into errorCh waits while the channel is full.
Report(s) ==
    /\ sender[s].at = "failed"
    /\ errors < broadcast.capacity
    /\ errors' = errors + 1
    /\ sender' = [sender EXCEPT ![s].at = "reported"]
    /\ UNCHANGED <<arrays, list, app, broadcast, history>>

Finished(s) == sender[s].at \in {"sent", "reported"}

AllFailedServersOnly == errors = list.len
AllFailed == errors = Cardinality(Reverse) + list.len

EndBroadcast ==
    /\ broadcast.at = "wait"
    /\ \A s \in DOMAIN sender : Finished(s)
    /\ broadcast' = [broadcast EXCEPT !.at = "done", !.downtime = AllFailed]
    /\ errors' = 0
    /\ UNCHANGED <<arrays, list, app, sender, history>>

-----------------------------------------------------------------------------
HandlerNext ==
    \E a \in Apps :
        Connect(a) \/ StoreAppended(a) \/ Break(a) \/ FindSelf(a) \/ CutSelf(a) \/ StoreCut(a)

BroadcastStep == StartBroadcast \/ TakeList \/ SpawnSender \/ AllSpawned \/ EndBroadcast

SendStep(s) == s \in DOMAIN sender /\ (SendOk(s) \/ SendFails(s) \/ Report(s))

Positions == 1 .. (MaxApps + Cardinality(Reverse))

ForwardNext ==
    \/ HandlerNext
    \/ BroadcastStep
    \/ \E s \in DOMAIN sender : SendStep(s)

\* The event's goroutine and its senders run; a write to a connection ends.
ForwardSpec ==
    /\ ForwardInit
    /\ [][ForwardNext]_forwardVars
    /\ WF_forwardVars(BroadcastStep)
    /\ \A s \in Positions : WF_forwardVars(SendStep(s))
-----------------------------------------------------------------------------
(* Every variable has its range; what a goroutine sends to is a connection, *)
(* never the zero that fills spare capacity.                                *)
ForwardTypeOK ==
    /\ arrays \in Seq(Slice!Array)
    /\ list \in Slice!Header
    /\ app \in [Apps -> AppState]
    /\ broadcast \in BroadcastState
    /\ sender \in Seq(SenderState)
    /\ errors \in 0 .. broadcast.capacity
    /\ overlap \in BOOLEAN
    /\ during \subseteq {"append", "cut"}
    /\ audience \subseteq Apps

(* As long as no two changes of the list overlapped, it holds, each once,   *)
(* the connections whose handler runs, though appends and removals share    *)
(* arrays; that is what the missing lock has to be lucky for.               *)
ListIsConnections ==
    ~overlap /\ (\A a \in Apps : ~Changing(a)) =>
        LET held == Slice!Contents(arrays, list) IN
        /\ \A i, j \in DOMAIN held : held[i] = held[j] => i = j
        /\ {held[i] : i \in DOMAIN held} = {a \in Apps : Listed(a)}

(* An event goes once to every connection in the list when the broadcast    *)
(* read it, and to no other, unless a removal shifts the array meanwhile;   *)
(* connections that arrive meanwhile disturb nothing.                       *)
EachAppOnce ==
    ~overlap /\ "cut" \notin during /\ broadcast.at \in {"wait", "done"} =>
        \A a \in Apps :
            Cardinality({s \in DOMAIN sender : sender[s].to = a}) =
                IF a \in audience THEN 1 ELSE 0

(* The users are told of a downtime exactly if nobody took the event, as    *)
(* long as the list did not change during the broadcast.                    *)
NobodyTook == \A s \in DOMAIN sender : sender[s].at # "sent"

DowntimeIfNobody ==
    broadcast.at = "done" /\ during = {} => (broadcast.downtime <=> NobodyTook)

(* A broadcast ends, unless a connection arrived between the sizing of the  *)
(* channel and the reading of the list or changes of the list overlapped:   *)
(* every sender that fails finds room for its error, and Wait returns.      *)
BroadcastEnds ==
    (broadcast.at = "spawn" /\ broadcast.i = 1 /\ ~overlap /\ "append" \notin during)
        ~> broadcast.at = "done"
=============================================================================
