------------------------------- MODULE WsClient -------------------------------
(***************************************************************************)
(* The reverse WebSocket client of wsclient/ws.go: one WebSocketClient and *)
(* every goroutine that works on it.                                       *)
(*                                                                         *)
(* Connections are numbered in the order they are opened; the writer, the  *)
(* reader and the heartbeat started for connection g are "the writer of g" *)
(* and so on.  A Reconnect goroutine is named by who started it, the       *)
(* writer or the reader of a connection: each of them starts at most one.  *)
(* Messages are numbered in the order SendMessage appends them.            *)
(***************************************************************************)
EXTENDS Integers, Sequences

CONSTANTS
    Senders,        \* goroutines of the program that call SendMessage
    MaxConn,        \* bound: connections the client opens in a behaviour
    MaxMsg,         \* bound: once this many are accepted, senders stop
    ReconnectTimes, \* reconnect_times: < 0 never, 0 for ever, > 0 a limit
    DropOnError     \* disable_error_chan

ASSUME WsAssumption ==
    /\ MaxConn \in Nat \ {0}
    /\ MaxMsg \in Nat
    /\ ReconnectTimes \in Int
    /\ DropOnError \in BOOLEAN

Conns == 1..MaxConn
Starters == {"writer", "reader"} \X Conns
MaxRetries == IF ReconnectTimes > 0 THEN ReconnectTimes + 1 ELSE 0

VARIABLES
    queue,          \* writeQueue
    notify,         \* writeNotify holds its one token
    accepted,       \* messages appended so far
    sent,           \* messages for which WriteMessage returned nil, in order
    closing,        \* Close: "open", "signalled" (closeCh closed), "closed"
    reconnecting,   \* isReconnecting
    conn,           \* client.conn: the newest connection dialed
    gen,            \* whose client.cancel and client.writerDone are installed
    link,           \* state of each connection
    cancelled,      \* the context of each connection is cancelled
    writer, hold,   \* control point of each writer, the message it took (or 0)
    reader, heart,  \* control point of each reader and heartbeat
    sender,         \* control point of each SendMessage caller
    rc, retries     \* control point and retryCount of each Reconnect

queueVars == <<queue, notify, accepted, sent>>
clientVars == <<closing, reconnecting, conn, gen, link, cancelled>>
rcVars == <<rc, retries>>
vars == <<queueVars, clientVars, writer, hold, reader, heart, sender, rcVars>>

LinkState == {"none", "up", "gone", "restart", "closed"}
WriterPc == {"off", "top", "take", "park", "write", "failed", "trigger", "done"}
ReaderPc == {"off", "read", "sleep", "trigger", "done"}
SenderPc == {"idle", "wake"}
HeartPc == {"off", "run", "wake", "done"}
RcPc == {"none", "start", "join", "dial", "life", "wake", "install", "exit", "ended"}

QueueTypeOK ==
    /\ queue \in Seq(Nat) /\ sent \in Seq(Nat)
    /\ notify \in BOOLEAN /\ accepted \in Nat
    /\ hold \in [Conns -> Nat]

ClientTypeOK ==
    /\ closing \in {"open", "signalled", "closed"}
    /\ reconnecting \in BOOLEAN
    /\ conn \in Conns /\ gen \in Conns
    /\ link \in [Conns -> LinkState]
    /\ cancelled \in [Conns -> BOOLEAN]

ControlTypeOK ==
    /\ writer \in [Conns -> WriterPc]
    /\ reader \in [Conns -> ReaderPc]
    /\ heart \in [Conns -> HeartPc]
    /\ sender \in [Senders -> SenderPc]
    /\ rc \in [Starters -> RcPc]
    /\ retries \in [Starters -> 0..MaxRetries]

(* Every variable in its range; a Reconnect under a positive limit counts   *)
(* at most one failed dial beyond it.                                       *)
TypeOK == QueueTypeOK /\ ClientTypeOK /\ ControlTypeOK

(* NewWebSocketClient has dialed the first connection, queued the lifecycle *)
(* event with SendMessage and started the three goroutines.                 *)
Init ==
    /\ queue = <<1>> /\ notify = TRUE /\ accepted = 1
    /\ sent = <<>>
    /\ closing = "open" /\ reconnecting = FALSE
    /\ conn = 1 /\ gen = 1
    /\ link = [g \in Conns |-> IF g = 1 THEN "up" ELSE "none"]
    /\ cancelled = [g \in Conns |-> FALSE]
    /\ writer = [g \in Conns |-> IF g = 1 THEN "top" ELSE "off"]
    /\ hold = [g \in Conns |-> 0]
    /\ reader = [g \in Conns |-> IF g = 1 THEN "read" ELSE "off"]
    /\ heart = [g \in Conns |-> IF g = 1 THEN "run" ELSE "off"]
    /\ sender = [s \in Senders |-> "idle"]
    /\ rc = [r \in Starters |-> "none"]
    /\ retries = [r \in Starters |-> 0]

-----------------------------------------------------------------------------
(* SendMessage is two steps: append under writeQueueMu, then a send on      *)
(* writeNotify that does not block.                                         *)

AppendMessage ==
    /\ accepted' = accepted + 1
    /\ queue' = Append(queue, accepted')
    /\ UNCHANGED <<notify, sent>>

NoWake == UNCHANGED queueVars

Wake ==
    /\ notify' = TRUE
    /\ UNCHANGED <<queue, accepted, sent>>

SendAppend(s) ==
    /\ sender[s] = "idle" /\ accepted < MaxMsg
    /\ AppendMessage
    /\ sender' = [sender EXCEPT ![s] = "wake"]
    /\ UNCHANGED <<clientVars, writer, hold, reader, heart, rcVars>>

SendWake(s) ==
    /\ sender[s] = "wake"
    /\ Wake
    /\ sender' = [sender EXCEPT ![s] = "idle"]
    /\ UNCHANGED <<clientVars, writer, hold, reader, heart, rcVars>>

(* The heartbeat sends through SendMessage each interval until its context  *)
(* is cancelled; closeCh does not stop it.                                  *)
HeartBeat(g) ==
    /\ heart[g] = "run" /\ accepted < MaxMsg
    /\ AppendMessage
    /\ heart' = [heart EXCEPT ![g] = "wake"]
    /\ UNCHANGED <<clientVars, writer, hold, reader, sender, rcVars>>

HeartWake(g) ==
    /\ heart[g] = "wake"
    /\ Wake
    /\ heart' = [heart EXCEPT ![g] = "run"]
    /\ UNCHANGED <<clientVars, writer, hold, reader, sender, rcVars>>

HeartStop(g) ==
    /\ heart[g] = "run" /\ cancelled[g]
    /\ heart' = [heart EXCEPT ![g] = "done"]
    /\ UNCHANGED <<queueVars, clientVars, writer, hold, reader, sender, rcVars>>

-----------------------------------------------------------------------------
(* The atomic CompareAndSwap(false, true) that guards "go Reconnect()".     *)

TryReconnectBlind(r) ==
    /\ reconnecting' = TRUE
    /\ rc' = [rc EXCEPT ![r] = "start"]
    /\ UNCHANGED retries

TryReconnect(r) ==
    /\ reconnecting' = TRUE
    /\ rc' = IF reconnecting THEN rc ELSE [rc EXCEPT ![r] = "start"]
    /\ UNCHANGED retries

-----------------------------------------------------------------------------
(* startWriter                                                              *)

StoppedByClose(g) == closing # "open"

Stopped(g) == cancelled[g] \/ closing # "open"

Goto(g, l) == writer' = [writer EXCEPT ![g] = l]

WriterTop(g) ==
    /\ writer[g] = "top"
    /\ Goto(g, IF Stopped(g) THEN "done" ELSE "take")
    /\ UNCHANGED <<queueVars, clientVars, hold, reader, heart, sender, rcVars>>

WriterTake(g) ==
    /\ writer[g] = "take"
    /\ \/ /\ queue = <<>>
          /\ Goto(g, "park")
          /\ UNCHANGED <<queue, hold>>
       \/ /\ queue # <<>>
          /\ Goto(g, "write")
          /\ hold' = [hold EXCEPT ![g] = Head(queue)]
          /\ queue' = Tail(queue)
    /\ UNCHANGED <<notify, accepted, sent, clientVars, reader, heart, sender, rcVars>>

WriterPark(g) ==
    /\ writer[g] = "park"
    /\ \/ /\ notify
          /\ notify' = FALSE
          /\ Goto(g, "top")
       \/ /\ Stopped(g)
          /\ Goto(g, "done")
          /\ UNCHANGED notify
    /\ UNCHANGED <<queue, accepted, sent, clientVars, hold, reader, heart, sender, rcVars>>

(* WriteMessage returns nil: the message is in the socket's buffer.  That   *)
(* can happen after the application is gone, as long as no close frame has  *)
(* been read and the connection is not closed here: the message is gone.    *)
WriteOk(g) ==
    /\ writer[g] = "write"
    /\ \/ link[g] \in {"up", "gone"}
       \/ link[g] = "restart" /\ reader[g] = "read"
    /\ sent' = Append(sent, hold[g])
    /\ hold' = [hold EXCEPT ![g] = 0]
    /\ Goto(g, "top")
    /\ UNCHANGED <<queue, notify, accepted, clientVars, reader, heart, sender, rcVars>>

(* WriteMessage fails: the connection is dead, or the 30 s deadline passed  *)
(* on a live one whose application does not read.                           *)
WriteFail(g) ==
    /\ writer[g] = "write"
    /\ Goto(g, "failed")
    /\ UNCHANGED <<queueVars, clientVars, hold, reader, heart, sender, rcVars>>

PushBackAtTail(g) ==
    /\ writer[g] = "failed"
    /\ queue' = IF DropOnError THEN queue ELSE Append(queue, hold[g])
    /\ hold' = [hold EXCEPT ![g] = 0]
    /\ Goto(g, "trigger")
    /\ UNCHANGED <<notify, accepted, sent, clientVars, reader, heart, sender, rcVars>>

PushBack(g) ==
    /\ writer[g] = "failed"
    /\ queue' = IF DropOnError THEN queue ELSE <<hold[g]>> \o queue
    /\ hold' = [hold EXCEPT ![g] = 0]
    /\ Goto(g, "trigger")
    /\ UNCHANGED <<notify, accepted, sent, clientVars, reader, heart, sender, rcVars>>

WriterTrigger(g) ==
    /\ writer[g] = "trigger"
    /\ TryReconnect(<<"writer", g>>)
    /\ Goto(g, "done")
    /\ UNCHANGED <<queueVars, closing, conn, gen, link, cancelled, hold, reader, heart, sender>>

-----------------------------------------------------------------------------
(* handleIncomingMessages.  Actions it receives are handled by goroutines   *)
(* of their own, which are among the Senders.                               *)

ReaderError(g) ==
    /\ reader[g] = "read" /\ link[g] # "up"
    /\ cancelled' = [cancelled EXCEPT ![g] = TRUE]
    /\ reader' = [reader EXCEPT ![g] = IF link[g] = "restart" THEN "sleep" ELSE "trigger"]
    /\ UNCHANGED <<queueVars, closing, reconnecting, conn, gen, link, writer, hold, heart, sender, rcVars>>

ReaderWakeUp(g) ==      \* the 5 s after close code 1012 are over
    /\ reader[g] = "sleep"
    /\ reader' = [reader EXCEPT ![g] = "trigger"]
    /\ UNCHANGED <<queueVars, clientVars, writer, hold, heart, sender, rcVars>>

ReaderTrigger(g) ==
    /\ reader[g] = "trigger"
    /\ TryReconnect(<<"reader", g>>)
    /\ reader' = [reader EXCEPT ![g] = "done"]
    /\ UNCHANGED <<queueVars, closing, conn, gen, link, cancelled, writer, hold, heart, sender>>

-----------------------------------------------------------------------------
(* Reconnect                                                                *)

RcGoto(r, l) == rc' = [rc EXCEPT ![r] = l]

RcStopNoCancel(r) ==
    /\ rc[r] = "start"
    /\ link' = [link EXCEPT ![conn] = "closed"]
    /\ RcGoto(r, "join")
    /\ UNCHANGED <<queueVars, closing, reconnecting, conn, gen, cancelled, writer, hold, reader, heart, sender, retries>>

RcStop(r) ==            \* client.cancel(); client.conn.Close()
    /\ rc[r] = "start"
    /\ cancelled' = [cancelled EXCEPT ![gen] = TRUE]
    /\ link' = [link EXCEPT ![conn] = "closed"]
    /\ RcGoto(r, "join")
    /\ UNCHANGED <<queueVars, closing, reconnecting, conn, gen, writer, hold, reader, heart, sender, retries>>

RcJoinNoWait(r) ==
    /\ rc[r] = "join"
    /\ RcGoto(r, IF ReconnectTimes < 0 THEN "exit" ELSE "dial")
    /\ UNCHANGED <<queueVars, clientVars, writer, hold, reader, heart, sender, retries>>

RcJoin(r) ==            \* <-client.writerDone
    /\ rc[r] = "join" /\ writer[gen] = "done"
    /\ RcGoto(r, IF ReconnectTimes < 0 THEN "exit" ELSE "dial")
    /\ UNCHANGED <<queueVars, clientVars, writer, hold, reader, heart, sender, retries>>

RcDialFailLate(r) ==
    /\ rc[r] = "dial"
    /\ IF ReconnectTimes > 0
       THEN /\ retries' = [retries EXCEPT ![r] = @ + 1]
            /\ RcGoto(r, IF retries[r] > ReconnectTimes THEN "exit" ELSE "dial")
       ELSE UNCHANGED <<retries, rc>>
    /\ UNCHANGED <<queueVars, clientVars, writer, hold, reader, heart, sender>>

(* retryCount matters only under a positive limit and is not counted       *)
(* otherwise.                                                              *)
RcDialFail(r) ==
    /\ rc[r] = "dial"
    /\ IF ReconnectTimes > 0
       THEN /\ retries' = [retries EXCEPT ![r] = @ + 1]
            /\ RcGoto(r, IF retries[r] + 1 > ReconnectTimes THEN "exit" ELSE "dial")
       ELSE UNCHANGED <<retries, rc>>
    /\ UNCHANGED <<queueVars, clientVars, writer, hold, reader, heart, sender>>

RcDialOk(r) ==          \* client.conn = conn
    /\ rc[r] = "dial" /\ conn < MaxConn
    /\ conn' = conn + 1
    /\ link' = [link EXCEPT ![conn + 1] = "up"]
    /\ RcGoto(r, "life")
    /\ UNCHANGED <<queueVars, closing, reconnecting, gen, cancelled, writer, hold, reader, heart, sender, retries>>

RcLifecycle(r) ==
    /\ rc[r] = "life"
    /\ AppendMessage
    /\ RcGoto(r, "wake")
    /\ UNCHANGED <<clientVars, writer, hold, reader, heart, sender, retries>>

RcWake(r) ==
    /\ rc[r] = "wake"
    /\ Wake
    /\ RcGoto(r, "install")
    /\ UNCHANGED <<clientVars, writer, hold, reader, heart, sender, retries>>

(* A new context and writerDone, then the three goroutines of the new      *)
(* connection.  isReconnecting is still set: its reset is deferred.        *)
RcInstall(r) ==
    /\ rc[r] = "install"
    /\ gen' = conn
    /\ Goto(conn, "top")
    /\ reader' = [reader EXCEPT ![conn] = "read"]
    /\ heart' = [heart EXCEPT ![conn] = "run"]
    /\ RcGoto(r, "exit")
    /\ UNCHANGED <<queueVars, closing, reconnecting, conn, link, cancelled, hold, sender, retries>>

RcExit(r) ==            \* defer client.isReconnecting.Store(false)
    /\ rc[r] = "exit"
    /\ reconnecting' = FALSE
    /\ RcGoto(r, "ended")
    /\ UNCHANGED <<queueVars, closing, conn, gen, link, cancelled, writer, hold, reader, heart, sender, retries>>

Reconnect(r) ==
    \/ RcStop(r) \/ RcJoin(r) \/ RcDialFail(r) \/ RcDialOk(r)
    \/ RcLifecycle(r) \/ RcWake(r) \/ RcInstall(r) \/ RcExit(r)

-----------------------------------------------------------------------------
(* Close, called once when the program shuts down, and the application.     *)

CloseSignal ==          \* close(client.closeCh)
    /\ closing = "open"
    /\ closing' = "signalled"
    /\ UNCHANGED <<queueVars, reconnecting, conn, gen, link, cancelled, writer, hold, reader, heart, sender, rcVars>>

CloseConn ==            \* client.conn.Close()
    /\ closing = "signalled"
    /\ closing' = "closed"
    /\ link' = [link EXCEPT ![conn] = "closed"]
    /\ UNCHANGED <<queueVars, reconnecting, conn, gen, cancelled, writer, hold, reader, heart, sender, rcVars>>

PeerGone(g) ==          \* the application crashes, or restarts with code 1012
    /\ link[g] = "up"
    /\ \E how \in {"gone", "restart"} : link' = [link EXCEPT ![g] = how]
    /\ UNCHANGED <<queueVars, closing, reconnecting, conn, gen, cancelled, writer, hold, reader, heart, sender, rcVars>>

-----------------------------------------------------------------------------
Writer(g) ==
    \/ WriterTop(g) \/ WriterTake(g) \/ WriterPark(g)
    \/ WriteOk(g) \/ WriteFail(g) \/ PushBack(g) \/ WriterTrigger(g)

Reader(g) == ReaderError(g) \/ ReaderWakeUp(g) \/ ReaderTrigger(g)

Heart(g) == HeartBeat(g) \/ HeartWake(g) \/ HeartStop(g)

Sender(s) == SendAppend(s) \/ SendWake(s)

Next ==
    \/ \E s \in Senders : Sender(s)
    \/ \E g \in Conns : Writer(g) \/ Reader(g) \/ Heart(g) \/ PeerGone(g)
    \/ \E r \in Starters : Reconnect(r)
    \/ CloseSignal \/ CloseConn

Spec == Init /\ [][Next]_vars

(* Every goroutine that can take a step takes it: the Go scheduler is fair, *)
(* a write ends within its 30 s deadline, a dial within its 45 s handshake  *)
(* timeout.  Nothing is assumed of the application, of Close or of callers. *)
Fairness ==
    /\ \A s \in Senders : WF_vars(SendWake(s))
    /\ \A g \in Conns : WF_vars(Writer(g)) /\ WF_vars(Reader(g))
    /\ \A g \in Conns : WF_vars(HeartWake(g)) /\ WF_vars(HeartStop(g))
    /\ \A r \in Starters : WF_vars(Reconnect(r))

FairSpec == Spec /\ Fairness

-----------------------------------------------------------------------------
(* Properties                                                               *)

Active(r) == rc[r] \notin {"none", "ended"}
LiveWriter(g) == writer[g] \notin {"off", "done"}

(* isReconnecting: no two Reconnect goroutines ever run at the same time,   *)
(* although both the writer and the reader of a connection start one.       *)
OneReconnect == \A r, s \in Starters : Active(r) /\ Active(s) => r = s

(* Joining writerDone before a new writer is started leaves at most one     *)
(* live writer, so no two goroutines write to a connection or take from and *)
(* push back to the queue at the same time.                                 *)
OneWriter == \A g, h \in Conns : LiveWriter(g) /\ LiveWriter(h) => g = h

(* writeNotify holds one token for any number of messages, and a stopped    *)
(* writer may have taken it: still, no writer stays parked while a message  *)
(* waits and nobody is about to signal it.                                  *)
AboutToWake ==
    \/ \E s \in Senders : sender[s] = "wake"
    \/ \E g \in Conns : heart[g] = "wake"
    \/ \E r \in Starters : rc[r] = "wake"

NoLostWakeUp ==
    (\E g \in Conns : writer[g] = "park") /\ queue # <<>> => notify \/ AboutToWake

(* Once a connection has been replaced, its context is cancelled, so its    *)
(* heartbeat stops and does not add to the heartbeat of the new one.        *)
ReplacedIsCancelled == \A g \in Conns : g < gen => cancelled[g]

(* The message the live writer holds comes before those still queued.       *)
Held == LET W == {g \in Conns : hold[g] # 0}
        IN  IF W = {} THEN <<>> ELSE <<hold[CHOOSE g \in W : TRUE]>>

(* The client is one FIFO queue across all its connections: a failed write  *)
(* puts the message back before every later one, and none is dropped unless *)
(* disable_error_chan is set.                                               *)
FIFO == INSTANCE OutboundQueue WITH pending <- Held \o queue

FIFOSpec == FIFO!Spec

(* Reconnect always gets past <-client.writerDone and, under a limit on the *)
(* number of attempts, always ends: before a next one starts (OneReconnect) *)
(* none is left.                                                            *)
ReconnectEnds == (\E r \in Starters : Active(r)) ~> (\A r \in Starters : ~Active(r))

(* While some writer stays alive, what is queued gets written.              *)
QueueDrains == (queue # <<>>) ~> (queue = <<>> \/ \A g \in Conns : ~LiveWriter(g))

(* With reconnect_times = 0 the client never gives up: before Close, some   *)
(* goroutine is always there to notice the loss of the connection or to     *)
(* repair it.                                                               *)
NeverStranded ==
    ReconnectTimes = 0 /\ closing = "open" =>
        \/ \E r \in Starters : Active(r)
        \/ \E g \in Conns : LiveWriter(g) \/ reader[g] \in {"read", "sleep", "trigger"}
=============================================================================
