------------------------------- MODULE Session -------------------------------
(***************************************************************************)
(* One shard's session with the QQ gateway: the session manager            *)
(* (botgo/sessions/local, or botgo/sessions/multi when shard_num > 1) and  *)
(* the client of each connection (botgo/websocket/client).                 *)
(*                                                                         *)
(* A session waits in the shard's channel; newConnect takes it, connects,  *)
(* resumes it or identifies anew, listens until the connection is lost,    *)
(* and puts the session back.  Two goroutines serve the connection: the    *)
(* reader queues events, and the listener notes their numbers in the       *)
(* client's session while newConnect may already be clearing or copying it.*)
(*                                                                         *)
(* A connection is served by a slot that is used again once its goroutines *)
(* have ended.  The gateway numbers the events of a session from 1, the    *)
(* READY, so the queue of a connection is the interval (taken, sent].      *)
(***************************************************************************)
EXTENDS Naturals, Sequences, FiniteSets

CONSTANTS
    Manager,        \* "local" or "multi"
    Slots,          \* connections whose goroutines are alive at one time
    Sessions,       \* session IDs the gateway gives out
    NoSession,      \* no ID: Session.ID is empty
    MaxSeq,         \* bound on the events of a session
    QueueCap        \* capacity of Client.messageQueue

ASSUME SessionAssumption ==
    /\ Manager \in {"local", "multi"}
    /\ NoSession \notin Sessions
    /\ MaxSeq \in Nat /\ QueueCap \in Nat

VARIABLES
    up,             \* the process runs
    channel,        \* sessions in sessionChan
    owner,          \* control point of the newConnect of each slot
    passed,         \* its parameter
    session,        \* the client's session, shared with the listener
    copy,           \* the ID newConnect has read for its copy of it
    lost,           \* the first error in the client's closeChan
    reader, listener,
    gateway,        \* the session the gateway serves on the connection
    sent, taken,    \* the last event the reader queued, the listener took
    handled,        \* events handed to their handlers, by session
    given           \* session IDs given out

connection == <<reader, listener, gateway, sent, taken, given>>
vars == <<up, channel, owner, passed, session, copy, lost, connection, handled>>

Stored == [id : Sessions \cup {NoSession}, seq : 0 .. MaxSeq]
Fresh == [id |-> NoSession, seq |-> 0]
Causes == {"resume", "clear", "banned"}

(* Every variable in its range; the queue of a connection within its bounds.*)
TypeOK ==
    /\ up \in BOOLEAN
    /\ channel \in Seq(Stored)
    /\ owner \in [Slots -> {"off", "connect", "auth", "listen", "clearId",
                            "clearSeq", "panic", "copyId", "copySeq"}]
    /\ passed \in [Slots -> Stored]
    /\ session \in [Slots -> Stored]
    /\ copy \in [Slots -> Sessions \cup {NoSession}]
    /\ lost \in [Slots -> Causes \cup {"no"}]
    /\ reader \in [Slots -> BOOLEAN]
    /\ listener \in [Slots -> {"off", "on", "ready"}]
    /\ gateway \in [Slots -> Sessions \cup {NoSession}]
    /\ sent \in [Slots -> 0 .. MaxSeq] /\ taken \in [Slots -> 0 .. MaxSeq]
    /\ handled \in [Sessions -> SUBSET (1 .. MaxSeq)]
    /\ given \in SUBSET Sessions
    /\ \A k \in Slots : taken[k] <= sent[k] /\ sent[k] <= taken[k] + QueueCap

Init ==
    /\ up = TRUE
    /\ channel = <<Fresh>>
    /\ owner = [k \in Slots |-> "off"]
    /\ passed = [k \in Slots |-> Fresh]
    /\ session = [k \in Slots |-> Fresh]
    /\ copy = [k \in Slots |-> NoSession]
    /\ lost = [k \in Slots |-> "no"]
    /\ reader = [k \in Slots |-> FALSE]
    /\ listener = [k \in Slots |-> "off"]
    /\ gateway = [k \in Slots |-> NoSession]
    /\ sent = [k \in Slots |-> 0]
    /\ taken = [k \in Slots |-> 0]
    /\ handled = [s \in Sessions |-> {}]
    /\ given = {}

-----------------------------------------------------------------------------
(* newConnect and the loop that starts it.                                  *)

Goto(k, point) == owner' = [owner EXCEPT ![k] = point]

(* newConnect returns: its variables, and what closeChan holds, are gone.   *)
End(k) ==
    /\ Goto(k, "off")
    /\ passed' = [passed EXCEPT ![k] = Fresh]
    /\ session' = [session EXCEPT ![k] = Fresh]
    /\ copy' = [copy EXCEPT ![k] = NoSession]
    /\ lost' = [lost EXCEPT ![k] = "no"]

(* l.sessionChan <- s: the channel of a shard has room for one session.     *)
PutBack(k, s) ==
    /\ channel = <<>>
    /\ channel' = <<s>>
    /\ End(k)

Idle(k) == owner[k] = "off" /\ ~reader[k] /\ listener[k] = "off"

Start(k) ==
    /\ channel # <<>> /\ Idle(k) /\ k = CHOOSE j \in Slots : Idle(j)
    /\ Manager = "multi" => \A j \in Slots : owner[j] = "off"
    /\ channel' = Tail(channel)
    /\ passed' = [passed EXCEPT ![k] = Head(channel)]
    /\ session' = [session EXCEPT ![k] = Head(channel)]
    /\ Goto(k, "connect")
    /\ gateway' = [gateway EXCEPT ![k] = NoSession]
    /\ sent' = [sent EXCEPT ![k] = 0]
    /\ taken' = [taken EXCEPT ![k] = 0]
    /\ UNCHANGED <<up, copy, lost, reader, listener, handled, given>>

ConnectFails(k) ==
    /\ owner[k] = "connect"
    /\ PutBack(k, passed[k])
    /\ UNCHANGED <<up, connection, handled>>

ConnectOk(k) ==
    /\ owner[k] = "connect"
    /\ Goto(k, "auth")
    /\ UNCHANGED <<up, channel, passed, session, copy, lost, connection, handled>>

AuthFailsSilently(k) ==
    /\ owner[k] = "auth"
    /\ End(k) /\ UNCHANGED channel
    /\ UNCHANGED <<up, connection, handled>>

(* Resume or Identify could not be written: the local manager identifies    *)
(* anew next time, the other returns.  Neither closes the connection.       *)
AuthFails(k) ==
    /\ owner[k] = "auth"
    /\ IF Manager = "local" THEN PutBack(k, Fresh) ELSE End(k) /\ UNCHANGED channel
    /\ UNCHANGED <<up, connection, handled>>

(* Listening starts the reader and the listener.                            *)
AuthOk(k) ==
    /\ owner[k] = "auth"
    /\ Goto(k, "listen")
    /\ reader' = [reader EXCEPT ![k] = TRUE]
    /\ listener' = [listener EXCEPT ![k] = "on"]
    /\ UNCHANGED <<up, channel, passed, session, copy, lost, gateway, sent, taken, handled, given>>

(* Listening returns the first error and closes the connection.             *)
Return(k) ==
    /\ owner[k] = "listen" /\ lost[k] # "no"
    /\ Goto(k, CASE lost[k] = "clear" -> "clearId"
                 [] lost[k] = "banned" -> "panic"
                 [] OTHER -> "copyId")
    /\ UNCHANGED <<up, channel, passed, session, copy, lost, connection, handled>>

ClearId(k) ==
    /\ owner[k] = "clearId"
    /\ session' = [session EXCEPT ![k].id = NoSession]
    /\ Goto(k, "clearSeq")
    /\ UNCHANGED <<up, channel, passed, copy, lost, connection, handled>>

ClearSeq(k) ==
    /\ owner[k] = "clearSeq"
    /\ session' = [session EXCEPT ![k].seq = 0]
    /\ Goto(k, "copyId")
    /\ UNCHANGED <<up, channel, passed, copy, lost, connection, handled>>

(* panic(msg): the deferred recover of the local manager puts the session   *)
(* back; the other has none, and the program ends.                          *)
Panic(k) ==
    /\ owner[k] = "panic"
    /\ IF Manager = "local" THEN PutBack(k, passed[k]) /\ UNCHANGED up
       ELSE up' = FALSE /\ End(k) /\ UNCHANGED channel
    /\ UNCHANGED <<connection, handled>>

(* l.sessionChan <- *currentSession reads the fields in turn, without a     *)
(* lock.                                                                    *)
CopyId(k) ==
    /\ owner[k] = "copyId"
    /\ copy' = [copy EXCEPT ![k] = session[k].id]
    /\ Goto(k, "copySeq")
    /\ UNCHANGED <<up, channel, passed, session, lost, connection, handled>>

CopySeq(k) ==
    /\ owner[k] = "copySeq"
    /\ PutBack(k, [id |-> copy[k], seq |-> session[k].seq])
    /\ UNCHANGED <<up, connection, handled>>

-----------------------------------------------------------------------------
(* The gateway and the reader, readMessageToQueue.                          *)

(* The gateway accepts a Resume, or an Identify with a new session.  The    *)
(* request carries what newConnect was passed.                              *)
Accept(k) ==
    /\ owner[k] = "listen" /\ reader[k] /\ gateway[k] = NoSession
    /\ IF passed[k].id = NoSession
       THEN /\ \E s \in Sessions \ given :
                    gateway' = [gateway EXCEPT ![k] = s] /\ given' = given \cup {s}
            /\ UNCHANGED <<sent, taken>>
       ELSE /\ gateway' = [gateway EXCEPT ![k] = passed[k].id]
            /\ sent' = [sent EXCEPT ![k] = passed[k].seq]
            /\ taken' = [taken EXCEPT ![k] = passed[k].seq]
            /\ UNCHANGED given
    /\ UNCHANGED <<up, channel, owner, passed, session, copy, lost, reader, listener, handled>>

Queue(k) ==
    /\ gateway[k] # NoSession /\ sent[k] < MaxSeq
    /\ sent' = [sent EXCEPT ![k] = @ + 1]

ReadUnbounded(k) ==
    /\ owner[k] = "listen" /\ reader[k] /\ Queue(k)
    /\ UNCHANGED <<up, channel, owner, passed, session, copy, lost, reader, listener, gateway, taken, handled, given>>

(* An event is queued, while there is room.                                 *)
Read(k) ==
    /\ owner[k] = "listen" /\ reader[k] /\ Queue(k)
    /\ sent[k] < taken[k] + QueueCap
    /\ UNCHANGED <<up, channel, owner, passed, session, copy, lost, reader, listener, gateway, taken, handled, given>>

(* closeChan <- err: only the first error that Listening can take counts.   *)
Report(k, cause) == lost' =
    [lost EXCEPT ![k] = IF @ = "no" /\ owner[k] = "listen" THEN cause ELSE @]

(* Reconnect or InvalidSession arrives: the reader goes on.                 *)
Interrupt(k) ==
    /\ owner[k] = "listen" /\ reader[k] /\ lost[k] = "no"
    /\ \E cause \in {"resume", "clear"} : Report(k, cause)
    /\ UNCHANGED <<up, channel, owner, passed, session, copy, connection, handled>>

(* A heartbeat cannot be written.                                           *)
HeartbeatFails(k) ==
    /\ owner[k] = "listen" /\ lost[k] = "no"
    /\ Report(k, "resume")
    /\ UNCHANGED <<up, channel, owner, passed, session, copy, connection, handled>>

ReadFailsSilently(k) ==
    /\ reader[k]
    /\ reader' = [reader EXCEPT ![k] = FALSE]
    /\ UNCHANGED <<up, channel, owner, passed, session, copy, lost, listener, gateway, sent, taken, handled, given>>

(* The connection was closed by either side, with a code that allows to     *)
(* resume (4009, or none), forbids to identify (4914, 4915) or neither.     *)
ReadFails(k) ==
    /\ reader[k]
    /\ reader' = [reader EXCEPT ![k] = FALSE]
    /\ \E cause \in Causes : Report(k, cause)
    /\ UNCHANGED <<up, channel, owner, passed, session, copy, listener, gateway, sent, taken, handled, given>>

-----------------------------------------------------------------------------
(* The listener, listenMessageAndHandle.                                    *)

(* What the listener notes once newConnect has returned, nobody reads.      *)
Note(k, s) == session' = [session EXCEPT ![k] = IF owner[k] = "off" THEN @ ELSE s]

TakeReadyFirst(k) ==
    /\ listener[k] = "on" /\ taken[k] < sent[k]
    /\ LET n == taken[k] + 1 IN
        /\ taken' = [taken EXCEPT ![k] = n]
        /\ Note(k, IF n = 1 THEN [session[k] EXCEPT !.id = gateway[k]]
                   ELSE [session[k] EXCEPT !.seq = n])
        /\ handled' = [handled EXCEPT ![gateway[k]] = @ \cup {n}]
    /\ UNCHANGED <<up, channel, owner, passed, copy, lost, reader, listener, gateway, sent, given>>

(* saveSeq, and the event goes to a goroutine of its own, or is the READY.  *)
Take(k) ==
    /\ listener[k] = "on" /\ taken[k] < sent[k]
    /\ LET n == taken[k] + 1 IN
        /\ taken' = [taken EXCEPT ![k] = n]
        /\ Note(k, [session[k] EXCEPT !.seq = n])
        /\ handled' = [handled EXCEPT ![gateway[k]] = @ \cup {n}]
        /\ listener' = [listener EXCEPT ![k] = IF n = 1 THEN "ready" ELSE "on"]
    /\ UNCHANGED <<up, channel, owner, passed, copy, lost, reader, gateway, sent, given>>

(* readyHandler notes the ID...                                             *)
Ready(k) ==
    /\ listener[k] = "ready"
    /\ Note(k, [session[k] EXCEPT !.id = gateway[k]])
    /\ listener' = [listener EXCEPT ![k] = "on"]
    /\ UNCHANGED <<up, channel, owner, passed, copy, lost, reader, gateway, sent, taken, handled, given>>

(* ...and may then panic, on a READY without a shard: what is queued stays. *)
ReadyPanics(k) ==
    /\ listener[k] = "ready"
    /\ Note(k, [session[k] EXCEPT !.id = gateway[k]])
    /\ listener' = [listener EXCEPT ![k] = "off"]
    /\ Report(k, "resume")
    /\ UNCHANGED <<up, channel, owner, passed, copy, reader, gateway, sent, taken, handled, given>>

(* The reader has closed the queue, and it is empty.                        *)
ListenerEnds(k) ==
    /\ listener[k] = "on" /\ ~reader[k] /\ taken[k] = sent[k]
    /\ listener' = [listener EXCEPT ![k] = "off"]
    /\ gateway' = [gateway EXCEPT ![k] = NoSession]
    /\ sent' = [sent EXCEPT ![k] = 0]
    /\ taken' = [taken EXCEPT ![k] = 0]
    /\ UNCHANGED <<up, channel, owner, passed, session, copy, lost, reader, handled, given>>

-----------------------------------------------------------------------------
Connecting(k) == ConnectFails(k) \/ ConnectOk(k)
Authenticating(k) == AuthFails(k) \/ AuthOk(k)
PuttingBack(k) ==
    Return(k) \/ ClearId(k) \/ ClearSeq(k) \/ Panic(k) \/ CopyId(k) \/ CopySeq(k)
NewConnect(k) == Connecting(k) \/ Authenticating(k) \/ PuttingBack(k)
Reader(k) == Read(k) \/ Interrupt(k) \/ ReadFails(k)
Listener(k) == Take(k) \/ Ready(k) \/ ReadyPanics(k) \/ ListenerEnds(k)

Next == up /\ \E k \in Slots :
    \/ Start(k) \/ NewConnect(k) \/ HeartbeatFails(k)
    \/ Accept(k) \/ Reader(k) \/ Listener(k)

Spec == Init /\ [][Next]_vars

(* Goroutines that can run do; the reader of a closed connection fails.     *)
(* Dialling and writing end, one way or the other.                          *)
FairSpec ==
    /\ Spec
    /\ \A k \in Slots :
        /\ WF_vars(up /\ Start(k)) /\ WF_vars(up /\ NewConnect(k))
        /\ WF_vars(up /\ Listener(k))
        /\ WF_vars(up /\ owner[k] # "listen" /\ ReadFails(k))

-----------------------------------------------------------------------------
(* The shard has one session, in the channel or with one newConnect: it is  *)
(* neither lost nor served twice, whatever fails (local.go:95-98), and its  *)
(* channel always has room.                                                 *)
OneOwner == up =>
    Len(channel) + Cardinality({k \in Slots : owner[k] # "off"}) = 1

(* "the events of the old connection go on by a resume" (client.go:263): a  *)
(* session that is to be resumed skips no event that was not handled.       *)
NoEventSkipped == \A i \in 1 .. Len(channel) :
    channel[i].id # NoSession => 1 .. channel[i].seq \subseteq handled[channel[i].id]

(* A connection that is lost is replaced.                                   *)
LossIsRetried == \A k \in Slots :
    owner[k] = "listen" /\ ~reader[k] ~> \E j \in Slots : owner[j] = "connect"

(* shard_num shards are connected "to handle messages"                      *)
(* (config_template.go:21): while the program runs, its shard is connected  *)
(* to, or soon will be.                                                     *)
KeepsConnecting ==
    []<>(~up \/ \E k \in Slots : owner[k] \in {"connect", "auth", "listen"})
=============================================================================
