---------------------------- MODULE WsClientProofs ----------------------------
(***************************************************************************)
(* Proofs about the reverse WebSocket client, for every set of senders,    *)
(* every number of connections and messages and every configuration.       *)
(***************************************************************************)
EXTENDS WsClient, SequenceTheorems, TLAPS

(* The compare-and-swap is held by whoever runs Reconnect.                  *)
LockHeld == \A r \in Starters : Active(r) => reconnecting

(* Before its Reconnect is started a writer or reader has not ended, so     *)
(* each of them starts Reconnect at most once.                              *)
StartsOnce ==
    \A r \in Starters :
        (IF r[1] = "writer" THEN writer[r[2]] ELSE reader[r[2]]) # "done"
            => rc[r] = "none"

(* client.conn is one ahead of client.cancel and client.writerDone exactly  *)
(* while a Reconnect has dialed and not yet installed its connection.       *)
Dialed == {"life", "wake", "install"}

ConnAhead ==
    /\ gen <= conn
    /\ \A r \in Starters : rc[r] \in Dialed => conn = gen + 1
    /\ (\A r \in Starters : rc[r] \notin Dialed) => conn = gen
    /\ \A g \in Conns : g > gen => writer[g] = "off" /\ reader[g] = "off"

(* Only the writer of the installed connection can be alive, and it has     *)
(* ended once Reconnect is past the join.                                   *)
WriterJoined ==
    /\ \A g \in Conns : LiveWriter(g) => g = gen
    /\ \A r \in Starters : rc[r] \in {"dial"} \cup Dialed => writer[gen] = "done"

(* Reconnect cancels the installed connection before it replaces it.        *)
CancelFirst ==
    /\ ReplacedIsCancelled
    /\ \A r \in Starters : rc[r] \in {"join", "dial"} \cup Dialed => cancelled[gen]

(* A Reconnect that still dials is within its limit.                        *)
RetriesLeft ==
    \A r \in Starters : rc[r] \in {"none", "start", "join", "dial"} =>
        retries[r] <= (IF ReconnectTimes > 0 THEN ReconnectTimes ELSE 0)

IInv ==
    /\ TypeOK /\ LockHeld /\ OneReconnect /\ StartsOnce
    /\ ConnAhead /\ WriterJoined /\ CancelFirst /\ RetriesLeft

-----------------------------------------------------------------------------
USE DEF queueVars, clientVars, rcVars, Conns, Starters, Active, LiveWriter, Dialed

(* A step that changes none of what the strengthening speaks of preserves it. *)
Quiet == UNCHANGED <<rc, retries, reconnecting, writer, reader, conn, gen, cancelled>>

Strengthening ==
    /\ LockHeld /\ OneReconnect /\ StartsOnce
    /\ ConnAhead /\ WriterJoined /\ CancelFirst /\ RetriesLeft

LEMMA QuietStep == Strengthening /\ Quiet => Strengthening'
BY DEF Strengthening, Quiet, LockHeld, OneReconnect, StartsOnce, ConnAhead,
       WriterJoined, CancelFirst, ReplacedIsCancelled, RetriesLeft

(* Init establishes the inductive invariant.                                *)
LEMMA InitIInv == Init => IInv
<1> SUFFICES ASSUME Init PROVE IInv
  OBVIOUS
<1>1. TypeOK
  <2>1. QueueTypeOK
    BY DEF Init, QueueTypeOK
  <2>2. ClientTypeOK
    <3>1. 1 \in Conns
      BY WsAssumption
    <3>2. link \in [Conns -> LinkState] /\ cancelled \in [Conns -> BOOLEAN]
      BY DEF Init, LinkState
    <3> QED BY <3>1, <3>2 DEF Init, ClientTypeOK
  <2>3. ControlTypeOK
    BY WsAssumption DEF Init, ControlTypeOK, WriterPc, ReaderPc, SenderPc, HeartPc, RcPc, MaxRetries
  <2> QED BY <2>1, <2>2, <2>3 DEF TypeOK
<1>2. LockHeld /\ OneReconnect /\ StartsOnce /\ RetriesLeft
  BY WsAssumption DEF Init, LockHeld, OneReconnect, StartsOnce, RetriesLeft
<1>3. ConnAhead /\ WriterJoined /\ CancelFirst
  BY WsAssumption DEF Init, ConnAhead, WriterJoined, CancelFirst, ReplacedIsCancelled
<1> QED
  BY <1>1, <1>2, <1>3 DEF IInv

(* Every step preserves the types.                                          *)
LEMMA TypeStep == IInv /\ [Next]_vars => TypeOK'
<1> SUFFICES ASSUME IInv, [Next]_vars PROVE TypeOK'
  OBVIOUS
<1> QueueTypeOK /\ ClientTypeOK /\ ControlTypeOK /\ RetriesLeft
  BY DEF IInv, TypeOK
<1> USE WsAssumption
<1>1. ASSUME NEW s \in Senders, SendAppend(s) PROVE TypeOK'
  <2>1. QueueTypeOK'
    BY <1>1 DEF QueueTypeOK, SendAppend, AppendMessage
  <2>2. ClientTypeOK'
    BY <1>1 DEF ClientTypeOK, LinkState, SendAppend, AppendMessage
  <2>3. ControlTypeOK'
    BY <1>1 DEF ControlTypeOK, WriterPc, ReaderPc, SenderPc, HeartPc, RcPc, SendAppend, AppendMessage
  <2> QED BY <2>1, <2>2, <2>3 DEF TypeOK
<1>2. ASSUME NEW s \in Senders, SendWake(s) PROVE TypeOK'
  <2>1. QueueTypeOK'
    BY <1>2 DEF QueueTypeOK, SendWake, Wake
  <2>2. ClientTypeOK'
    BY <1>2 DEF ClientTypeOK, LinkState, SendWake, Wake
  <2>3. ControlTypeOK'
    BY <1>2 DEF ControlTypeOK, WriterPc, ReaderPc, SenderPc, HeartPc, RcPc, SendWake, Wake
  <2> QED BY <2>1, <2>2, <2>3 DEF TypeOK
<1>3. ASSUME NEW g \in Conns, HeartBeat(g) PROVE TypeOK'
  <2>1. QueueTypeOK'
    BY <1>3 DEF QueueTypeOK, HeartBeat, AppendMessage
  <2>2. ClientTypeOK'
    BY <1>3 DEF ClientTypeOK, LinkState, HeartBeat, AppendMessage
  <2>3. ControlTypeOK'
    BY <1>3 DEF ControlTypeOK, WriterPc, ReaderPc, SenderPc, HeartPc, RcPc, HeartBeat, AppendMessage
  <2> QED BY <2>1, <2>2, <2>3 DEF TypeOK
<1>4. ASSUME NEW g \in Conns, HeartWake(g) PROVE TypeOK'
  <2>1. QueueTypeOK'
    BY <1>4 DEF QueueTypeOK, HeartWake, Wake
  <2>2. ClientTypeOK'
    BY <1>4 DEF ClientTypeOK, LinkState, HeartWake, Wake
  <2>3. ControlTypeOK'
    BY <1>4 DEF ControlTypeOK, WriterPc, ReaderPc, SenderPc, HeartPc, RcPc, HeartWake, Wake
  <2> QED BY <2>1, <2>2, <2>3 DEF TypeOK
<1>5. ASSUME NEW g \in Conns, HeartStop(g) PROVE TypeOK'
  <2>1. QueueTypeOK'
    BY <1>5 DEF QueueTypeOK, HeartStop
  <2>2. ClientTypeOK'
    BY <1>5 DEF ClientTypeOK, LinkState, HeartStop
  <2>3. ControlTypeOK'
    BY <1>5 DEF ControlTypeOK, WriterPc, ReaderPc, SenderPc, HeartPc, RcPc, HeartStop
  <2> QED BY <2>1, <2>2, <2>3 DEF TypeOK
<1>6. ASSUME NEW g \in Conns, WriterTop(g) PROVE TypeOK'
  <2>1. QueueTypeOK'
    BY <1>6 DEF QueueTypeOK, WriterTop, Goto, Stopped
  <2>2. ClientTypeOK'
    BY <1>6 DEF ClientTypeOK, LinkState, WriterTop, Goto, Stopped
  <2>3. ControlTypeOK'
    BY <1>6 DEF ControlTypeOK, WriterPc, ReaderPc, SenderPc, HeartPc, RcPc, WriterTop, Goto, Stopped
  <2> QED BY <2>1, <2>2, <2>3 DEF TypeOK
<1>7. ASSUME NEW g \in Conns, WriterTake(g) PROVE TypeOK'
  <2>1. QueueTypeOK'
    <3>1. CASE queue = <<>>
      BY <1>7, <3>1 DEF QueueTypeOK, WriterTake
    <3>2. CASE queue # <<>>
      <4>1. Head(queue) \in Nat /\ Tail(queue) \in Seq(Nat)
        BY <3>2 DEF QueueTypeOK
      <4> QED BY <1>7, <3>2, <4>1 DEF QueueTypeOK, WriterTake
    <3> QED BY <3>1, <3>2
  <2>2. ClientTypeOK'
    BY <1>7 DEF ClientTypeOK, LinkState, WriterTake, Goto
  <2>3. ControlTypeOK'
    BY <1>7 DEF ControlTypeOK, WriterPc, ReaderPc, SenderPc, HeartPc, RcPc, WriterTake, Goto
  <2> QED BY <2>1, <2>2, <2>3 DEF TypeOK
<1>8. ASSUME NEW g \in Conns, WriterPark(g) PROVE TypeOK'
  <2>1. QueueTypeOK'
    BY <1>8 DEF QueueTypeOK, WriterPark, Goto, Stopped
  <2>2. ClientTypeOK'
    BY <1>8 DEF ClientTypeOK, LinkState, WriterPark, Goto, Stopped
  <2>3. ControlTypeOK'
    BY <1>8 DEF ControlTypeOK, WriterPc, ReaderPc, SenderPc, HeartPc, RcPc, WriterPark, Goto, Stopped
  <2> QED BY <2>1, <2>2, <2>3 DEF TypeOK
<1>9. ASSUME NEW g \in Conns, WriteOk(g) PROVE TypeOK'
  <2>1. QueueTypeOK'
    <3>1. hold[g] \in Nat
      BY DEF QueueTypeOK
    <3>2. sent' \in Seq(Nat)
      BY <1>9, <3>1 DEF QueueTypeOK, WriteOk
    <3> QED BY <1>9, <3>2 DEF QueueTypeOK, WriteOk
  <2>2. ClientTypeOK'
    BY <1>9 DEF ClientTypeOK, LinkState, WriteOk, Goto
  <2>3. ControlTypeOK'
    BY <1>9 DEF ControlTypeOK, WriterPc, ReaderPc, SenderPc, HeartPc, RcPc, WriteOk, Goto
  <2> QED BY <2>1, <2>2, <2>3 DEF TypeOK
<1>10. ASSUME NEW g \in Conns, WriteFail(g) PROVE TypeOK'
  <2>1. QueueTypeOK'
    BY <1>10 DEF QueueTypeOK, WriteFail, Goto
  <2>2. ClientTypeOK'
    BY <1>10 DEF ClientTypeOK, LinkState, WriteFail, Goto
  <2>3. ControlTypeOK'
    BY <1>10 DEF ControlTypeOK, WriterPc, ReaderPc, SenderPc, HeartPc, RcPc, WriteFail, Goto
  <2> QED BY <2>1, <2>2, <2>3 DEF TypeOK
<1>11. ASSUME NEW g \in Conns, PushBack(g) PROVE TypeOK'
  <2>1. QueueTypeOK'
    BY <1>11 DEF QueueTypeOK, PushBack, Goto
  <2>2. ClientTypeOK'
    BY <1>11 DEF ClientTypeOK, LinkState, PushBack, Goto
  <2>3. ControlTypeOK'
    BY <1>11 DEF ControlTypeOK, WriterPc, ReaderPc, SenderPc, HeartPc, RcPc, PushBack, Goto
  <2> QED BY <2>1, <2>2, <2>3 DEF TypeOK
<1>12. ASSUME NEW g \in Conns, WriterTrigger(g) PROVE TypeOK'
  <2>1. QueueTypeOK'
    BY <1>12 DEF QueueTypeOK, WriterTrigger, Goto, TryReconnect
  <2>2. ClientTypeOK'
    BY <1>12 DEF ClientTypeOK, LinkState, WriterTrigger, Goto, TryReconnect
  <2>3. ControlTypeOK'
    BY <1>12 DEF ControlTypeOK, WriterPc, ReaderPc, SenderPc, HeartPc, RcPc, WriterTrigger, Goto, TryReconnect
  <2> QED BY <2>1, <2>2, <2>3 DEF TypeOK
<1>13. ASSUME NEW g \in Conns, ReaderError(g) PROVE TypeOK'
  <2>1. QueueTypeOK'
    BY <1>13 DEF QueueTypeOK, ReaderError
  <2>2. ClientTypeOK'
    BY <1>13 DEF ClientTypeOK, LinkState, ReaderError
  <2>3. ControlTypeOK'
    BY <1>13 DEF ControlTypeOK, WriterPc, ReaderPc, SenderPc, HeartPc, RcPc, ReaderError
  <2> QED BY <2>1, <2>2, <2>3 DEF TypeOK
<1>14. ASSUME NEW g \in Conns, ReaderWakeUp(g) PROVE TypeOK'
  <2>1. QueueTypeOK'
    BY <1>14 DEF QueueTypeOK, ReaderWakeUp
  <2>2. ClientTypeOK'
    BY <1>14 DEF ClientTypeOK, LinkState, ReaderWakeUp
  <2>3. ControlTypeOK'
    BY <1>14 DEF ControlTypeOK, WriterPc, ReaderPc, SenderPc, HeartPc, RcPc, ReaderWakeUp
  <2> QED BY <2>1, <2>2, <2>3 DEF TypeOK
<1>15. ASSUME NEW g \in Conns, ReaderTrigger(g) PROVE TypeOK'
  <2>1. QueueTypeOK'
    BY <1>15 DEF QueueTypeOK, ReaderTrigger, TryReconnect
  <2>2. ClientTypeOK'
    BY <1>15 DEF ClientTypeOK, LinkState, ReaderTrigger, TryReconnect
  <2>3. ControlTypeOK'
    BY <1>15 DEF ControlTypeOK, WriterPc, ReaderPc, SenderPc, HeartPc, RcPc, ReaderTrigger, TryReconnect
  <2> QED BY <2>1, <2>2, <2>3 DEF TypeOK
<1>16. ASSUME NEW g \in Conns, PeerGone(g) PROVE TypeOK'
  <2>1. QueueTypeOK'
    BY <1>16 DEF QueueTypeOK, PeerGone
  <2>2. ClientTypeOK'
    BY <1>16 DEF ClientTypeOK, LinkState, PeerGone
  <2>3. ControlTypeOK'
    BY <1>16 DEF ControlTypeOK, WriterPc, ReaderPc, SenderPc, HeartPc, RcPc, PeerGone
  <2> QED BY <2>1, <2>2, <2>3 DEF TypeOK
<1>17. ASSUME NEW r \in Starters, RcStop(r) PROVE TypeOK'
  <2>1. QueueTypeOK'
    BY <1>17 DEF QueueTypeOK, RcStop, RcGoto
  <2>2. ClientTypeOK'
    BY <1>17 DEF ClientTypeOK, LinkState, RcStop, RcGoto
  <2>3. ControlTypeOK'
    BY <1>17 DEF ControlTypeOK, WriterPc, ReaderPc, SenderPc, HeartPc, RcPc, RcStop, RcGoto
  <2> QED BY <2>1, <2>2, <2>3 DEF TypeOK
<1>18. ASSUME NEW r \in Starters, RcJoin(r) PROVE TypeOK'
  <2>1. QueueTypeOK'
    BY <1>18 DEF QueueTypeOK, RcJoin, RcGoto
  <2>2. ClientTypeOK'
    BY <1>18 DEF ClientTypeOK, LinkState, RcJoin, RcGoto
  <2>3. ControlTypeOK'
    BY <1>18 DEF ControlTypeOK, WriterPc, ReaderPc, SenderPc, HeartPc, RcPc, RcJoin, RcGoto
  <2> QED BY <2>1, <2>2, <2>3 DEF TypeOK
<1>19. ASSUME NEW r \in Starters, RcDialFail(r) PROVE TypeOK'
  <2>1. QueueTypeOK'
    BY <1>19 DEF QueueTypeOK, RcDialFail, RcGoto
  <2>2. ClientTypeOK'
    BY <1>19 DEF ClientTypeOK, LinkState, RcDialFail, RcGoto
  <2>3. ControlTypeOK'
    <3>1. retries[r] + 1 \in 0..MaxRetries \/ ~(ReconnectTimes > 0)
      BY <1>19 DEF ControlTypeOK, RetriesLeft, RcDialFail, MaxRetries
    <3> QED BY <1>19, <3>1 DEF ControlTypeOK, RcDialFail, RcGoto, RcPc
  <2> QED BY <2>1, <2>2, <2>3 DEF TypeOK
<1>20. ASSUME NEW r \in Starters, RcDialOk(r) PROVE TypeOK'
  <2>1. QueueTypeOK'
    BY <1>20 DEF QueueTypeOK, RcDialOk, RcGoto
  <2>2. ClientTypeOK'
    BY <1>20 DEF ClientTypeOK, LinkState, RcDialOk, RcGoto
  <2>3. ControlTypeOK'
    BY <1>20 DEF ControlTypeOK, WriterPc, ReaderPc, SenderPc, HeartPc, RcPc, RcDialOk, RcGoto
  <2> QED BY <2>1, <2>2, <2>3 DEF TypeOK
<1>21. ASSUME NEW r \in Starters, RcLifecycle(r) PROVE TypeOK'
  <2>1. QueueTypeOK'
    BY <1>21 DEF QueueTypeOK, RcLifecycle, AppendMessage, RcGoto
  <2>2. ClientTypeOK'
    BY <1>21 DEF ClientTypeOK, LinkState, RcLifecycle, AppendMessage, RcGoto
  <2>3. ControlTypeOK'
    BY <1>21 DEF ControlTypeOK, WriterPc, ReaderPc, SenderPc, HeartPc, RcPc, RcLifecycle, AppendMessage, RcGoto
  <2> QED BY <2>1, <2>2, <2>3 DEF TypeOK
<1>22. ASSUME NEW r \in Starters, RcWake(r) PROVE TypeOK'
  <2>1. QueueTypeOK'
    BY <1>22 DEF QueueTypeOK, RcWake, Wake, RcGoto
  <2>2. ClientTypeOK'
    BY <1>22 DEF ClientTypeOK, LinkState, RcWake, Wake, RcGoto
  <2>3. ControlTypeOK'
    BY <1>22 DEF ControlTypeOK, WriterPc, ReaderPc, SenderPc, HeartPc, RcPc, RcWake, Wake, RcGoto
  <2> QED BY <2>1, <2>2, <2>3 DEF TypeOK
<1>23. ASSUME NEW r \in Starters, RcInstall(r) PROVE TypeOK'
  <2>1. QueueTypeOK'
    BY <1>23 DEF QueueTypeOK, RcInstall, Goto, RcGoto
  <2>2. ClientTypeOK'
    BY <1>23 DEF ClientTypeOK, LinkState, RcInstall, Goto, RcGoto
  <2>3. ControlTypeOK'
    BY <1>23 DEF ControlTypeOK, WriterPc, ReaderPc, SenderPc, HeartPc, RcPc, RcInstall, Goto, RcGoto
  <2> QED BY <2>1, <2>2, <2>3 DEF TypeOK
<1>24. ASSUME NEW r \in Starters, RcExit(r) PROVE TypeOK'
  <2>1. QueueTypeOK'
    BY <1>24 DEF QueueTypeOK, RcExit, RcGoto
  <2>2. ClientTypeOK'
    BY <1>24 DEF ClientTypeOK, LinkState, RcExit, RcGoto
  <2>3. ControlTypeOK'
    BY <1>24 DEF ControlTypeOK, WriterPc, ReaderPc, SenderPc, HeartPc, RcPc, RcExit, RcGoto
  <2> QED BY <2>1, <2>2, <2>3 DEF TypeOK
<1>25. ASSUME CloseSignal PROVE TypeOK'
  BY <1>25 DEF TypeOK, CloseSignal, QueueTypeOK, ClientTypeOK, ControlTypeOK, LinkState, WriterPc, ReaderPc, SenderPc, HeartPc, RcPc, MaxRetries
<1>26. ASSUME CloseConn PROVE TypeOK'
  BY <1>26 DEF TypeOK, CloseConn, QueueTypeOK, ClientTypeOK, ControlTypeOK, LinkState, WriterPc, ReaderPc, SenderPc, HeartPc, RcPc, MaxRetries
<1>27. ASSUME UNCHANGED vars PROVE TypeOK'
  BY <1>27 DEF TypeOK, vars, QueueTypeOK, ClientTypeOK, ControlTypeOK, LinkState, WriterPc, ReaderPc, SenderPc, HeartPc, RcPc, MaxRetries
<1> QED
  BY <1>1, <1>2, <1>3, <1>4, <1>5, <1>6, <1>7, <1>8, <1>9, <1>10, <1>11, <1>12, <1>13, <1>14, <1>15, <1>16, <1>17, <1>18, <1>19, <1>20, <1>21, <1>22, <1>23, <1>24, <1>25, <1>26, <1>27
     DEF Next, Sender, Writer, Reader, Heart, Reconnect

LEMMA WriterTopStep == ASSUME IInv, NEW g \in Conns, WriterTop(g) PROVE Strengthening'
<1> USE WsAssumption DEF IInv, TypeOK, ClientTypeOK, ControlTypeOK
<1>1. LockHeld' /\ OneReconnect' /\ RetriesLeft'
  BY DEF LockHeld, OneReconnect, RetriesLeft, WriterTop, Goto, Stopped
<1>2. StartsOnce'
  BY DEF StartsOnce, WriterTop, Goto, Stopped
<1>3. ConnAhead'
  BY DEF ConnAhead, WriterTop, Goto, Stopped
<1>4. WriterJoined'
  BY DEF WriterJoined, WriterTop, Goto, Stopped
<1>5. CancelFirst'
  BY DEF CancelFirst, ReplacedIsCancelled, WriterTop, Goto, Stopped
<1> QED BY <1>1, <1>2, <1>3, <1>4, <1>5 DEF Strengthening

LEMMA WriterTakeStep == ASSUME IInv, NEW g \in Conns, WriterTake(g) PROVE Strengthening'
<1> USE WsAssumption DEF IInv, TypeOK, ClientTypeOK, ControlTypeOK
<1>1. LockHeld' /\ OneReconnect' /\ RetriesLeft'
  BY DEF LockHeld, OneReconnect, RetriesLeft, WriterTake, Goto
<1>2. StartsOnce'
  BY DEF StartsOnce, WriterTake, Goto
<1>3. ConnAhead'
  BY DEF ConnAhead, WriterTake, Goto
<1>4. WriterJoined'
  BY DEF WriterJoined, WriterTake, Goto
<1>5. CancelFirst'
  BY DEF CancelFirst, ReplacedIsCancelled, WriterTake, Goto
<1> QED BY <1>1, <1>2, <1>3, <1>4, <1>5 DEF Strengthening

LEMMA WriterParkStep == ASSUME IInv, NEW g \in Conns, WriterPark(g) PROVE Strengthening'
<1> USE WsAssumption DEF IInv, TypeOK, ClientTypeOK, ControlTypeOK
<1>1. LockHeld' /\ OneReconnect' /\ RetriesLeft'
  BY DEF LockHeld, OneReconnect, RetriesLeft, WriterPark, Goto, Stopped
<1>2. StartsOnce'
  BY DEF StartsOnce, WriterPark, Goto, Stopped
<1>3. ConnAhead'
  BY DEF ConnAhead, WriterPark, Goto, Stopped
<1>4. WriterJoined'
  BY DEF WriterJoined, WriterPark, Goto, Stopped
<1>5. CancelFirst'
  BY DEF CancelFirst, ReplacedIsCancelled, WriterPark, Goto, Stopped
<1> QED BY <1>1, <1>2, <1>3, <1>4, <1>5 DEF Strengthening

LEMMA WriteOkStep == ASSUME IInv, NEW g \in Conns, WriteOk(g) PROVE Strengthening'
<1> USE WsAssumption DEF IInv, TypeOK, ClientTypeOK, ControlTypeOK
<1>1. LockHeld' /\ OneReconnect' /\ RetriesLeft'
  BY DEF LockHeld, OneReconnect, RetriesLeft, WriteOk, Goto
<1>2. StartsOnce'
  BY DEF StartsOnce, WriteOk, Goto
<1>3. ConnAhead'
  BY DEF ConnAhead, WriteOk, Goto
<1>4. WriterJoined'
  BY DEF WriterJoined, WriteOk, Goto
<1>5. CancelFirst'
  BY DEF CancelFirst, ReplacedIsCancelled, WriteOk, Goto
<1> QED BY <1>1, <1>2, <1>3, <1>4, <1>5 DEF Strengthening

LEMMA WriteFailStep == ASSUME IInv, NEW g \in Conns, WriteFail(g) PROVE Strengthening'
<1> USE WsAssumption DEF IInv, TypeOK, ClientTypeOK, ControlTypeOK
<1>1. LockHeld' /\ OneReconnect' /\ RetriesLeft'
  BY DEF LockHeld, OneReconnect, RetriesLeft, WriteFail, Goto
<1>2. StartsOnce'
  BY DEF StartsOnce, WriteFail, Goto
<1>3. ConnAhead'
  BY DEF ConnAhead, WriteFail, Goto
<1>4. WriterJoined'
  BY DEF WriterJoined, WriteFail, Goto
<1>5. CancelFirst'
  BY DEF CancelFirst, ReplacedIsCancelled, WriteFail, Goto
<1> QED BY <1>1, <1>2, <1>3, <1>4, <1>5 DEF Strengthening

LEMMA PushBackStep == ASSUME IInv, NEW g \in Conns, PushBack(g) PROVE Strengthening'
<1> USE WsAssumption DEF IInv, TypeOK, ClientTypeOK, ControlTypeOK
<1>1. LockHeld' /\ OneReconnect' /\ RetriesLeft'
  BY DEF LockHeld, OneReconnect, RetriesLeft, PushBack, Goto
<1>2. StartsOnce'
  BY DEF StartsOnce, PushBack, Goto
<1>3. ConnAhead'
  BY DEF ConnAhead, PushBack, Goto
<1>4. WriterJoined'
  BY DEF WriterJoined, PushBack, Goto
<1>5. CancelFirst'
  BY DEF CancelFirst, ReplacedIsCancelled, PushBack, Goto
<1> QED BY <1>1, <1>2, <1>3, <1>4, <1>5 DEF Strengthening

LEMMA ReaderErrorStep == ASSUME IInv, NEW g \in Conns, ReaderError(g) PROVE Strengthening'
<1> USE WsAssumption DEF IInv, TypeOK, ClientTypeOK, ControlTypeOK
<1>1. LockHeld' /\ OneReconnect' /\ RetriesLeft'
  BY DEF LockHeld, OneReconnect, RetriesLeft, ReaderError
<1>2. StartsOnce'
  BY DEF StartsOnce, ReaderError
<1>3. ConnAhead'
  BY DEF ConnAhead, ReaderError
<1>4. WriterJoined'
  BY DEF WriterJoined, ReaderError
<1>5. CancelFirst'
  BY DEF CancelFirst, ReplacedIsCancelled, ReaderError
<1> QED BY <1>1, <1>2, <1>3, <1>4, <1>5 DEF Strengthening

LEMMA ReaderWakeUpStep == ASSUME IInv, NEW g \in Conns, ReaderWakeUp(g) PROVE Strengthening'
<1> USE WsAssumption DEF IInv, TypeOK, ClientTypeOK, ControlTypeOK
<1>1. LockHeld' /\ OneReconnect' /\ RetriesLeft'
  BY DEF LockHeld, OneReconnect, RetriesLeft, ReaderWakeUp
<1>2. StartsOnce'
  BY DEF StartsOnce, ReaderWakeUp
<1>3. ConnAhead'
  BY DEF ConnAhead, ReaderWakeUp
<1>4. WriterJoined'
  BY DEF WriterJoined, ReaderWakeUp
<1>5. CancelFirst'
  BY DEF CancelFirst, ReplacedIsCancelled, ReaderWakeUp
<1> QED BY <1>1, <1>2, <1>3, <1>4, <1>5 DEF Strengthening

LEMMA RcStopStep == ASSUME IInv, NEW r \in Starters, RcStop(r) PROVE Strengthening'
<1> USE WsAssumption DEF IInv, TypeOK, ClientTypeOK, ControlTypeOK
<1>1. LockHeld' /\ OneReconnect'
  BY DEF LockHeld, OneReconnect, RcStop, RcGoto
<1>2. RetriesLeft'
  BY DEF RetriesLeft, MaxRetries, RcStop, RcGoto
<1>3. StartsOnce'
  BY DEF StartsOnce, RcStop, RcGoto
<1>4. ConnAhead'
  BY DEF ConnAhead, OneReconnect, LockHeld, RcStop, RcGoto
<1>5. WriterJoined'
  BY DEF WriterJoined, ConnAhead, OneReconnect, RcStop, RcGoto
<1>6. CancelFirst'
  BY DEF CancelFirst, ReplacedIsCancelled, ConnAhead, WriterJoined, OneReconnect, RcStop, RcGoto
<1> QED BY <1>1, <1>2, <1>3, <1>4, <1>5, <1>6 DEF Strengthening

LEMMA RcJoinStep == ASSUME IInv, NEW r \in Starters, RcJoin(r) PROVE Strengthening'
<1> USE WsAssumption DEF IInv, TypeOK, ClientTypeOK, ControlTypeOK
<1>1. LockHeld' /\ OneReconnect'
  BY DEF LockHeld, OneReconnect, RcJoin, RcGoto
<1>2. RetriesLeft'
  BY DEF RetriesLeft, MaxRetries, RcJoin, RcGoto
<1>3. StartsOnce'
  BY DEF StartsOnce, RcJoin, RcGoto
<1>4. ConnAhead'
  BY DEF ConnAhead, OneReconnect, LockHeld, RcJoin, RcGoto
<1>5. WriterJoined'
  BY DEF WriterJoined, ConnAhead, OneReconnect, RcJoin, RcGoto
<1>6. CancelFirst'
  BY DEF CancelFirst, ReplacedIsCancelled, ConnAhead, WriterJoined, OneReconnect, RcJoin, RcGoto
<1> QED BY <1>1, <1>2, <1>3, <1>4, <1>5, <1>6 DEF Strengthening

LEMMA RcDialFailStep == ASSUME IInv, NEW r \in Starters, RcDialFail(r) PROVE Strengthening'
<1> USE WsAssumption DEF IInv, TypeOK, ClientTypeOK, ControlTypeOK
<1>1. LockHeld' /\ OneReconnect'
  BY DEF LockHeld, OneReconnect, RcDialFail, RcGoto
<1>2. RetriesLeft'
  BY DEF RetriesLeft, MaxRetries, RcDialFail, RcGoto
<1>3. StartsOnce'
  BY DEF StartsOnce, RcDialFail, RcGoto
<1>4. ConnAhead'
  BY DEF ConnAhead, OneReconnect, LockHeld, RcDialFail, RcGoto
<1>5. WriterJoined'
  BY DEF WriterJoined, ConnAhead, OneReconnect, RcDialFail, RcGoto
<1>6. CancelFirst'
  BY DEF CancelFirst, ReplacedIsCancelled, ConnAhead, WriterJoined, OneReconnect, RcDialFail, RcGoto
<1> QED BY <1>1, <1>2, <1>3, <1>4, <1>5, <1>6 DEF Strengthening

LEMMA RcDialOkStep == ASSUME IInv, NEW r \in Starters, RcDialOk(r) PROVE Strengthening'
<1> USE WsAssumption DEF IInv, TypeOK, ClientTypeOK, ControlTypeOK
<1>1. LockHeld' /\ OneReconnect'
  BY DEF LockHeld, OneReconnect, RcDialOk, RcGoto
<1>2. RetriesLeft'
  BY DEF RetriesLeft, MaxRetries, RcDialOk, RcGoto
<1>3. StartsOnce'
  BY DEF StartsOnce, RcDialOk, RcGoto
<1>4. ConnAhead'
  <2>1. \A q \in Starters : rc[q] \notin Dialed
    BY DEF OneReconnect, RcDialOk
  <2>2. conn = gen
    BY <2>1 DEF ConnAhead
  <2>3. rc'[r] = "life" /\ conn' = gen' + 1
    BY <2>2 DEF RcDialOk, RcGoto
  <2> QED BY <2>2, <2>3 DEF ConnAhead, RcDialOk
<1>5. WriterJoined'
  BY DEF WriterJoined, ConnAhead, OneReconnect, RcDialOk, RcGoto
<1>6. CancelFirst'
  BY DEF CancelFirst, ReplacedIsCancelled, ConnAhead, WriterJoined, OneReconnect, RcDialOk, RcGoto
<1> QED BY <1>1, <1>2, <1>3, <1>4, <1>5, <1>6 DEF Strengthening

LEMMA RcLifecycleStep == ASSUME IInv, NEW r \in Starters, RcLifecycle(r) PROVE Strengthening'
<1> USE WsAssumption DEF IInv, TypeOK, ClientTypeOK, ControlTypeOK
<1>1. LockHeld' /\ OneReconnect'
  BY DEF LockHeld, OneReconnect, RcLifecycle, AppendMessage, RcGoto
<1>2. RetriesLeft'
  BY DEF RetriesLeft, MaxRetries, RcLifecycle, AppendMessage, RcGoto
<1>3. StartsOnce'
  BY DEF StartsOnce, RcLifecycle, AppendMessage, RcGoto
<1>4. ConnAhead'
  BY DEF ConnAhead, OneReconnect, LockHeld, RcLifecycle, AppendMessage, RcGoto
<1>5. WriterJoined'
  BY DEF WriterJoined, ConnAhead, OneReconnect, RcLifecycle, AppendMessage, RcGoto
<1>6. CancelFirst'
  BY DEF CancelFirst, ReplacedIsCancelled, ConnAhead, WriterJoined, OneReconnect, RcLifecycle, AppendMessage, RcGoto
<1> QED BY <1>1, <1>2, <1>3, <1>4, <1>5, <1>6 DEF Strengthening

LEMMA RcWakeStep == ASSUME IInv, NEW r \in Starters, RcWake(r) PROVE Strengthening'
<1> USE WsAssumption DEF IInv, TypeOK, ClientTypeOK, ControlTypeOK
<1>1. LockHeld' /\ OneReconnect'
  BY DEF LockHeld, OneReconnect, RcWake, Wake, RcGoto
<1>2. RetriesLeft'
  BY DEF RetriesLeft, MaxRetries, RcWake, Wake, RcGoto
<1>3. StartsOnce'
  BY DEF StartsOnce, RcWake, Wake, RcGoto
<1>4. ConnAhead'
  BY DEF ConnAhead, OneReconnect, LockHeld, RcWake, Wake, RcGoto
<1>5. WriterJoined'
  BY DEF WriterJoined, ConnAhead, OneReconnect, RcWake, Wake, RcGoto
<1>6. CancelFirst'
  BY DEF CancelFirst, ReplacedIsCancelled, ConnAhead, WriterJoined, OneReconnect, RcWake, Wake, RcGoto
<1> QED BY <1>1, <1>2, <1>3, <1>4, <1>5, <1>6 DEF Strengthening

LEMMA RcExitStep == ASSUME IInv, NEW r \in Starters, RcExit(r) PROVE Strengthening'
<1> USE WsAssumption DEF IInv, TypeOK, ClientTypeOK, ControlTypeOK
<1>1. LockHeld' /\ OneReconnect'
  BY DEF LockHeld, OneReconnect, RcExit, RcGoto
<1>2. RetriesLeft'
  BY DEF RetriesLeft, MaxRetries, RcExit, RcGoto
<1>3. StartsOnce'
  BY DEF StartsOnce, RcExit, RcGoto
<1>4. ConnAhead'
  BY DEF ConnAhead, OneReconnect, LockHeld, RcExit, RcGoto
<1>5. WriterJoined'
  BY DEF WriterJoined, ConnAhead, OneReconnect, RcExit, RcGoto
<1>6. CancelFirst'
  BY DEF CancelFirst, ReplacedIsCancelled, ConnAhead, WriterJoined, OneReconnect, RcExit, RcGoto
<1> QED BY <1>1, <1>2, <1>3, <1>4, <1>5, <1>6 DEF Strengthening

LEMMA RcInstallStep == ASSUME IInv, NEW r \in Starters, RcInstall(r) PROVE Strengthening'
<1> USE WsAssumption DEF IInv, TypeOK, ClientTypeOK, ControlTypeOK
<1>1. /\ conn = gen + 1 /\ gen' = conn /\ conn' = conn
      /\ writer[conn] = "off" /\ reader[conn] = "off"
  BY DEF ConnAhead, RcInstall
<1>2. \A q \in Starters : q # r => ~Active(q)
  BY DEF OneReconnect, RcInstall
<1>3. /\ rc'[r] = "exit"
      /\ \A q \in Starters : q # r => rc'[q] = rc[q]
      /\ UNCHANGED <<reconnecting, cancelled, retries>>
  BY DEF RcInstall, RcGoto
<1>4. /\ \A g \in Conns : g # conn => writer'[g] = writer[g] /\ reader'[g] = reader[g]
      /\ writer'[conn] = "top" /\ reader'[conn] = "read"
  BY DEF RcInstall, Goto
<1>5. LockHeld' /\ OneReconnect' /\ RetriesLeft'
  <2>1. reconnecting
    BY DEF LockHeld, RcInstall
  <2>2. \A q \in Starters : q # r => rc'[q] \in {"none", "ended"}
    BY <1>2, <1>3
  <2>3. LockHeld' /\ OneReconnect'
    BY <1>3, <2>1, <2>2 DEF LockHeld, OneReconnect
  <2>4. RetriesLeft'
    BY <1>3 DEF RetriesLeft
  <2> QED BY <2>3, <2>4
<1>6. StartsOnce'
  <2> SUFFICES ASSUME NEW q \in Starters,
                      (IF q[1] = "writer" THEN writer'[q[2]] ELSE reader'[q[2]]) # "done"
               PROVE  rc'[q] = "none"
    BY DEF StartsOnce
  <2>1. q[2] \in Conns
    OBVIOUS
  <2>2. (IF q[1] = "writer" THEN writer[q[2]] ELSE reader[q[2]]) # "done"
    BY <1>1, <1>4, <2>1
  <2>3. rc[q] = "none"
    BY <2>2 DEF StartsOnce
  <2>4. q # r
    BY <2>3 DEF RcInstall
  <2> QED BY <1>3, <2>3, <2>4
<1>7. ConnAhead'
  <2>1. \A q \in Starters : rc'[q] \notin Dialed
    BY <1>2, <1>3
  <2>2. \A g \in Conns : g > gen' => writer'[g] = "off" /\ reader'[g] = "off"
    BY <1>1, <1>4 DEF ConnAhead
  <2> QED BY <1>1, <2>1, <2>2 DEF ConnAhead
<1>8. WriterJoined'
  <2>1. writer[gen] = "done"
    BY DEF WriterJoined, RcInstall
  <2>2. \A q \in Starters : rc'[q] \notin {"dial"} \cup Dialed
    BY <1>2, <1>3
  <2> QED BY <1>1, <1>4, <2>1, <2>2 DEF WriterJoined
<1>9. CancelFirst'
  <2>1. cancelled[gen]
    BY DEF CancelFirst, RcInstall
  <2>2. \A q \in Starters : rc'[q] \notin {"join", "dial"} \cup Dialed
    BY <1>2, <1>3
  <2>3. \A g \in Conns : g < gen' => cancelled'[g]
    <3>1. ReplacedIsCancelled
      BY DEF CancelFirst
    <3>2. \A g \in Conns : g < gen' => g < gen \/ g = gen
      BY <1>1
    <3> QED BY <1>3, <2>1, <3>1, <3>2 DEF ReplacedIsCancelled
  <2> QED BY <2>2, <2>3 DEF CancelFirst, ReplacedIsCancelled
<1> QED BY <1>5, <1>6, <1>7, <1>8, <1>9 DEF Strengthening

LEMMA WriterTriggerStep == ASSUME IInv, NEW g \in Conns, WriterTrigger(g) PROVE Strengthening'
<1> DEFINE w == <<"writer", g>>
<1> USE WsAssumption DEF IInv, TypeOK, ClientTypeOK, ControlTypeOK
<1>1. w \in Starters /\ w[1] = "writer" /\ w[2] = g
  OBVIOUS
<1>2. \A r \in Starters : r[1] = "writer" /\ r[2] = g => r = w
  OBVIOUS
<1>3. /\ \A r \in Starters \ {w} : rc'[r] = rc[r]
      /\ rc'[w] = (IF reconnecting THEN rc[w] ELSE "start")
      /\ reconnecting'
      /\ UNCHANGED retries
  BY <1>1 DEF WriterTrigger, Goto, TryReconnect
<1>4. ~reconnecting => \A r \in Starters : ~Active(r)
  BY DEF LockHeld
<1>5. rc[w] = "none"
  BY <1>1 DEF StartsOnce, WriterTrigger
<1> HIDE DEF w
<1>6. LockHeld' /\ OneReconnect'
  <2>1. CASE reconnecting
    <3>1. \A r \in Starters : rc'[r] = rc[r]
      BY <1>1, <1>3, <2>1
    <3> QED BY <1>3, <3>1 DEF LockHeld, OneReconnect
  <2>2. CASE ~reconnecting
    <3>1. \A r \in Starters : r # w => rc'[r] \in {"none", "ended"}
      BY <1>3, <1>4, <2>2
    <3> QED BY <1>1, <1>3, <3>1 DEF LockHeld, OneReconnect
  <2> QED BY <2>1, <2>2
<1>7. RetriesLeft'
  BY <1>1, <1>3, <1>5 DEF RetriesLeft
<1>8. StartsOnce'
  BY <1>1, <1>2, <1>3 DEF StartsOnce, WriterTrigger, Goto
<1>9. ConnAhead'
  BY <1>1, <1>3, <1>5 DEF ConnAhead, WriterTrigger, Goto
<1>10. WriterJoined'
  BY <1>1, <1>3, <1>5 DEF WriterJoined, WriterTrigger, Goto
<1>11. CancelFirst'
  BY <1>1, <1>3, <1>5 DEF CancelFirst, ReplacedIsCancelled, WriterTrigger
<1> QED BY <1>6, <1>7, <1>8, <1>9, <1>10, <1>11 DEF Strengthening

LEMMA ReaderTriggerStep == ASSUME IInv, NEW g \in Conns, ReaderTrigger(g) PROVE Strengthening'
<1> DEFINE w == <<"reader", g>>
<1> USE WsAssumption DEF IInv, TypeOK, ClientTypeOK, ControlTypeOK
<1>1. w \in Starters /\ w[1] = "reader" /\ w[2] = g
  OBVIOUS
<1>2. \A r \in Starters : r[1] = "reader" /\ r[2] = g => r = w
  OBVIOUS
<1>3. /\ \A r \in Starters \ {w} : rc'[r] = rc[r]
      /\ rc'[w] = (IF reconnecting THEN rc[w] ELSE "start")
      /\ reconnecting'
      /\ UNCHANGED retries
  BY <1>1 DEF ReaderTrigger, TryReconnect
<1>4. ~reconnecting => \A r \in Starters : ~Active(r)
  BY DEF LockHeld
<1>5. rc[w] = "none"
  BY <1>1 DEF StartsOnce, ReaderTrigger
<1> HIDE DEF w
<1>6. LockHeld' /\ OneReconnect'
  <2>1. CASE reconnecting
    <3>1. \A r \in Starters : rc'[r] = rc[r]
      BY <1>1, <1>3, <2>1
    <3> QED BY <1>3, <3>1 DEF LockHeld, OneReconnect
  <2>2. CASE ~reconnecting
    <3>1. \A r \in Starters : r # w => rc'[r] \in {"none", "ended"}
      BY <1>3, <1>4, <2>2
    <3> QED BY <1>1, <1>3, <3>1 DEF LockHeld, OneReconnect
  <2> QED BY <2>1, <2>2
<1>7. RetriesLeft'
  BY <1>1, <1>3, <1>5 DEF RetriesLeft
<1>8. StartsOnce'
  BY <1>1, <1>2, <1>3 DEF StartsOnce, ReaderTrigger, Goto
<1>9. ConnAhead'
  BY <1>1, <1>3, <1>5 DEF ConnAhead, ReaderTrigger, Goto
<1>10. WriterJoined'
  BY <1>1, <1>3, <1>5 DEF WriterJoined, ReaderTrigger, Goto
<1>11. CancelFirst'
  BY <1>1, <1>3, <1>5 DEF CancelFirst, ReplacedIsCancelled, ReaderTrigger
<1> QED BY <1>6, <1>7, <1>8, <1>9, <1>10, <1>11 DEF Strengthening

(* The inductive step: every action preserves the inductive invariant.      *)
LEMMA NextIInv == IInv /\ [Next]_vars => IInv'
<1> SUFFICES ASSUME IInv, [Next]_vars PROVE Strengthening'
  BY TypeStep DEF IInv, Strengthening
<1>1. ASSUME NEW s \in Senders, Sender(s) PROVE Strengthening'
  <2>1. Quiet
    BY <1>1 DEF Quiet, Sender, SendAppend, SendWake
  <2> QED BY <2>1, QuietStep DEF IInv, Strengthening
<1>2. ASSUME NEW g \in Conns, Writer(g) PROVE Strengthening'
  BY <1>2, WriterTopStep, WriterTakeStep, WriterParkStep, WriteOkStep,
     WriteFailStep, PushBackStep, WriterTriggerStep DEF Writer
<1>3. ASSUME NEW g \in Conns, Reader(g) PROVE Strengthening'
  BY <1>3, ReaderErrorStep, ReaderWakeUpStep, ReaderTriggerStep DEF Reader
<1>4. ASSUME NEW g \in Conns, Heart(g) \/ PeerGone(g) PROVE Strengthening'
  <2>1. Quiet
    BY <1>4 DEF Quiet, Heart, HeartBeat, HeartWake, HeartStop, PeerGone
  <2> QED BY <2>1, QuietStep DEF IInv, Strengthening
<1>5. ASSUME NEW r \in Starters, Reconnect(r) PROVE Strengthening'
  BY <1>5, RcStopStep, RcJoinStep, RcDialFailStep, RcDialOkStep,
     RcLifecycleStep, RcWakeStep, RcInstallStep, RcExitStep DEF Reconnect
<1>6. ASSUME CloseSignal \/ CloseConn \/ UNCHANGED vars PROVE Strengthening'
  <2>1. Quiet
    BY <1>6 DEF Quiet, CloseSignal, CloseConn, vars
  <2> QED BY <2>1, QuietStep DEF IInv, Strengthening
<1> QED BY <1>1, <1>2, <1>3, <1>4, <1>5, <1>6 DEF Next

THEOREM SpecIInv == Spec => []IInv
BY InitIInv, NextIInv, PTL DEF Spec

(* Every variable of the client keeps its type, and no Reconnect dials more *)
(* often than reconnect_times allows.                                       *)
THEOREM SpecTypeOK == Spec => []TypeOK
<1>1. IInv => TypeOK
  BY DEF IInv
<1> QED BY <1>1, SpecIInv, PTL

(* isReconnecting lets no two Reconnect goroutines run at the same time.    *)
THEOREM SpecOneReconnect == Spec => []OneReconnect
<1>1. IInv => OneReconnect
  BY DEF IInv
<1> QED BY <1>1, SpecIInv, PTL

(* At most one writer is alive across all connections of the client.        *)
THEOREM SpecOneWriter == Spec => []OneWriter
<1>1. IInv => OneWriter
  BY DEF IInv, WriterJoined, OneWriter
<1> QED BY <1>1, SpecIInv, PTL

(* The context of every replaced connection is cancelled.                   *)
THEOREM SpecReplacedIsCancelled == Spec => []ReplacedIsCancelled
<1>1. IInv => ReplacedIsCancelled
  BY DEF IInv, CancelFirst
<1> QED BY <1>1, SpecIInv, PTL

-----------------------------------------------------------------------------
(* No lost wake-up.  Only one writer can be parked, and whoever appends a   *)
(* message or takes the token leaves a signal behind.                       *)

LEMMA InitNoLostWakeUp == Init => NoLostWakeUp
BY DEF Init, NoLostWakeUp

(* Whoever is about to wake the writer does so before it does anything else.*)
LEMMA StillAboutToWake ==
    ASSUME AboutToWake,
           \A s \in Senders : sender[s] = "wake" => sender'[s] = "wake",
           \A g \in Conns : heart[g] = "wake" => heart'[g] = "wake",
           \A r \in Starters : rc[r] = "wake" => rc'[r] = "wake"
    PROVE  AboutToWake'
BY DEF AboutToWake

(* A step that parks nobody, adds nothing to the queue, keeps the token and *)
(* ends no waker.                                                           *)
LEMMA WakeUpKept ==
    ASSUME NoLostWakeUp,
           \A g \in Conns : writer'[g] = "park" => writer[g] = "park",
           UNCHANGED <<queue, notify, sender, heart>>,
           \A r \in Starters : rc[r] = "wake" => rc'[r] = "wake"
    PROVE  NoLostWakeUp'
<1> SUFFICES ASSUME \E g \in Conns : writer[g] = "park", queue # <<>>, ~notify
             PROVE  AboutToWake'
  BY DEF NoLostWakeUp
<1>1. AboutToWake
  BY DEF NoLostWakeUp
<1> QED  BY <1>1, StillAboutToWake

LEMMA WriterWakeUp ==
    ASSUME IInv, NoLostWakeUp, NEW g \in Conns, Writer(g)
    PROVE  NoLostWakeUp'
<1> USE DEF IInv, TypeOK, ControlTypeOK
<1>0. \A h \in Conns : h # g => writer[h] # "park" \/ writer[g] \in {"off", "done"}
  BY DEF WriterJoined
<1>1. CASE WriterTop(g) \/ WriteOk(g) \/ WriteFail(g)
  BY <1>1, WakeUpKept DEF WriterTop, WriteOk, WriteFail, Goto
<1>2. CASE WriterTake(g)
  <2>1. CASE queue = <<>>
    BY <1>2, <2>1 DEF WriterTake, NoLostWakeUp
  <2>2. CASE queue # <<>>
    <3>1. \A h \in Conns : writer'[h] # "park"
      BY <1>0, <1>2, <2>2 DEF WriterTake, Goto
    <3> QED  BY <3>1 DEF NoLostWakeUp
  <2> QED  BY <2>1, <2>2
<1>3. CASE WriterPark(g) \/ PushBack(g)
  <2>1. \A h \in Conns : writer'[h] # "park"
    BY <1>0, <1>3 DEF WriterPark, PushBack, Goto
  <2> QED  BY <2>1 DEF NoLostWakeUp
<1>4. CASE WriterTrigger(g)
  <2>1. rc[<<"writer", g>>] = "none"
    BY <1>4 DEF WriterTrigger, StartsOnce
  <2>2. \A r \in Starters : rc[r] = "wake" => rc'[r] = "wake"
    BY <1>4, <2>1 DEF WriterTrigger, TryReconnect
  <2> QED  BY <1>4, <2>2, WakeUpKept DEF WriterTrigger, Goto
<1> QED  BY <1>1, <1>2, <1>3, <1>4 DEF Writer

LEMMA RestWakeUp ==
    ASSUME IInv, NoLostWakeUp,
           \/ \E s \in Senders : Sender(s)
           \/ \E g \in Conns : Reader(g) \/ Heart(g) \/ PeerGone(g)
           \/ \E r \in Starters : Reconnect(r)
           \/ CloseSignal \/ CloseConn \/ UNCHANGED vars
    PROVE  NoLostWakeUp'
<1> USE DEF IInv, TypeOK, ControlTypeOK
<1>1. ASSUME NEW s \in Senders, SendAppend(s) PROVE NoLostWakeUp'
  BY <1>1 DEF SendAppend, NoLostWakeUp, AboutToWake
<1>2. ASSUME notify' PROVE NoLostWakeUp'
  BY <1>2 DEF NoLostWakeUp
<1>3. ASSUME NEW s \in Senders, SendWake(s) PROVE NoLostWakeUp'
  BY <1>2, <1>3 DEF SendWake, Wake
<1>4. ASSUME NEW g \in Conns, Heart(g) PROVE NoLostWakeUp'
  <2>1. CASE HeartBeat(g)
    BY <2>1 DEF HeartBeat, NoLostWakeUp, AboutToWake
  <2>2. CASE HeartWake(g)
    BY <1>2, <2>2 DEF HeartWake, Wake
  <2>3. CASE HeartStop(g)
    <3>1. AboutToWake => AboutToWake'
      BY <2>3 DEF HeartStop, AboutToWake
    <3> QED  BY <2>3, <3>1 DEF HeartStop, NoLostWakeUp
  <2> QED  BY <1>4, <2>1, <2>2, <2>3 DEF Heart
<1>5. ASSUME NEW g \in Conns, Reader(g) \/ PeerGone(g) PROVE NoLostWakeUp'
  <2>1. CASE ReaderTrigger(g)
    <3>1. rc[<<"reader", g>>] = "none"
      BY <2>1 DEF ReaderTrigger, StartsOnce
    <3>2. \A r \in Starters : rc[r] = "wake" => rc'[r] = "wake"
      BY <2>1, <3>1 DEF ReaderTrigger, TryReconnect
    <3> QED  BY <2>1, <3>2, WakeUpKept DEF ReaderTrigger
  <2>2. CASE ReaderError(g) \/ ReaderWakeUp(g) \/ PeerGone(g)
    BY <2>2, WakeUpKept DEF ReaderError, ReaderWakeUp, PeerGone
  <2> QED  BY <1>5, <2>1, <2>2 DEF Reader
<1>6. ASSUME NEW r \in Starters, Reconnect(r) PROVE NoLostWakeUp'
  <2>1. CASE RcStop(r) \/ RcJoin(r) \/ RcDialFail(r) \/ RcDialOk(r) \/ RcExit(r)
    <3>1. \A t \in Starters : rc[t] = "wake" => rc'[t] = "wake"
      BY <2>1 DEF RcStop, RcJoin, RcDialFail, RcDialOk, RcExit, RcGoto
    <3>2. UNCHANGED <<queue, notify, sender, heart, writer>>
      BY <2>1 DEF RcStop, RcJoin, RcDialFail, RcDialOk, RcExit
    <3> QED  BY <3>1, <3>2, WakeUpKept
  <2>2. CASE RcLifecycle(r)
    BY <2>2 DEF RcLifecycle, RcGoto, NoLostWakeUp, AboutToWake
  <2>3. CASE RcWake(r)
    BY <1>2, <2>3 DEF RcWake, Wake
  <2>4. CASE RcInstall(r)
    <3>1. \A h \in Conns : writer[h] # "park"
      BY <2>4 DEF RcInstall, WriterJoined
    <3>2. \A h \in Conns : writer'[h] # "park"
      BY <2>4, <3>1 DEF RcInstall, Goto
    <3> QED  BY <3>2 DEF NoLostWakeUp
  <2> QED  BY <1>6, <2>1, <2>2, <2>3, <2>4 DEF Reconnect
<1>7. CASE CloseSignal \/ CloseConn \/ UNCHANGED vars
  <2>1. UNCHANGED <<queue, notify, sender, heart, writer, rc>>
    BY <1>7 DEF CloseSignal, CloseConn, vars
  <2> QED  BY <2>1, WakeUpKept
<1> QED  BY <1>1, <1>3, <1>4, <1>5, <1>6, <1>7 DEF Sender

(* One token for any number of messages: still no writer sleeps while a     *)
(* message waits and nobody is about to signal it.                          *)
THEOREM SpecNoLostWakeUp == Spec => []NoLostWakeUp
<1>1. IInv /\ NoLostWakeUp /\ [Next]_vars => NoLostWakeUp'
  BY WriterWakeUp, RestWakeUp DEF Next
<1> QED  BY <1>1, InitNoLostWakeUp, SpecIInv, PTL DEF Spec

-----------------------------------------------------------------------------
(* The refinement of OutboundQueue.  A message is held exactly between being*)
(* taken and being written or put back, and by one writer at most.          *)

HoldsInHand == \A g \in Conns : hold[g] # 0 <=> writer[g] \in {"write", "failed"}

Numbered == \A i \in 1..Len(queue) : queue[i] # 0

HoldInv == HoldsInHand /\ Numbered

LEMMA HeldByOne ==
    ASSUME IInv, HoldInv, NEW g \in Conns, LiveWriter(g)
    PROVE  Held = IF hold[g] # 0 THEN <<hold[g]>> ELSE <<>>
<1> DEFINE W == {h \in Conns : hold[h] # 0}
<1>1. \A h \in W : h = g
  BY DEF IInv, WriterJoined, HoldInv, HoldsInHand
<1>2. CASE hold[g] # 0
  <2>1. W = {g} /\ (CHOOSE h \in W : TRUE) = g
    BY <1>1, <1>2
  <2> QED  BY <1>2, <2>1 DEF Held
<1>3. CASE hold[g] = 0
  <2>1. W = {}
    BY <1>1, <1>3
  <2> QED  BY <1>3, <2>1 DEF Held
<1> QED  BY <1>2, <1>3

(* The same after a step that leaves at most g with a message.              *)
LEMMA HeldAfter ==
    ASSUME NEW g \in Conns, \A h \in Conns : h # g => hold'[h] = 0
    PROVE  Held' = IF hold'[g] # 0 THEN <<hold'[g]>> ELSE <<>>
<1> DEFINE W == {h \in Conns : hold'[h] # 0}
<1>1. CASE hold'[g] # 0
  <2>1. W = {g} /\ (CHOOSE h \in W : TRUE) = g
    BY <1>1
  <2> QED  BY <1>1, <2>1 DEF Held
<1>2. CASE hold'[g] = 0
  <2>1. W = {}
    BY <1>2
  <2> QED  BY <1>2, <2>1 DEF Held
<1> QED  BY <1>1, <1>2

LEMMA HeldIsSeq ==
    ASSUME QueueTypeOK
    PROVE  Held \in Seq(Nat)
<1> DEFINE W == {h \in Conns : hold[h] # 0}
<1>1. CASE W = {}
  BY <1>1 DEF Held
<1>2. CASE W # {}
  <2>1. (CHOOSE h \in W : TRUE) \in Conns
    BY <1>2
  <2>2. hold[CHOOSE h \in W : TRUE] \in Nat
    BY <2>1 DEF QueueTypeOK
  <2>3. Held = <<hold[CHOOSE h \in W : TRUE]>>
    BY <1>2 DEF Held
  <2> HIDE DEF W
  <2> QED  BY <2>2, <2>3
<1> QED  BY <1>1, <1>2

(* A step of anybody but a writer leaves what is held, and appends a message*)
(* or nothing.                                                              *)
LEMMA AppendMaps ==
    ASSUME IInv, HoldInv, AppendMessage, UNCHANGED hold
    PROVE  Numbered' /\ FIFO!Accept
<1>0. QueueTypeOK /\ QueueTypeOK'
  BY DEF IInv, TypeOK, QueueTypeOK, AppendMessage
<1>1. accepted' = accepted + 1 /\ queue' = Append(queue, accepted') /\ UNCHANGED sent
  BY DEF AppendMessage
<1>2. accepted' \in Nat \ {0} /\ queue \in Seq(Nat)
  BY <1>0, <1>1 DEF QueueTypeOK
<1>3. Numbered'
  BY <1>1, <1>2 DEF HoldInv, Numbered
<1>4. Held' = Held
  BY DEF Held
<1>5. Held \in Seq(Nat)
  BY <1>0, HeldIsSeq
<1>6. Held \o Append(queue, accepted') = Append(Held \o queue, accepted')
  <2>1. Append(queue, accepted') = queue \o <<accepted'>>
    BY <1>2, AppendIsConcat
  <2>2. Append(Held \o queue, accepted') = (Held \o queue) \o <<accepted'>>
    BY <1>2, <1>5, ConcatProperties, AppendIsConcat
  <2>3. <<accepted'>> \in Seq(Nat)
    BY <1>2
  <2> QED  BY <1>2, <1>5, <2>1, <2>2, <2>3, ConcatAssociative
<1> QED  BY <1>1, <1>3, <1>4, <1>6 DEF FIFO!Accept

LEMMA StutterMaps ==
    ASSUME HoldInv, UNCHANGED <<queue, hold, sent, accepted>>
    PROVE  Numbered' /\ UNCHANGED FIFO!vars
BY DEF HoldInv, Numbered, Held, FIFO!vars

(* A message put back before the others.                                    *)
LEMMA Prepended ==
    ASSUME NEW m \in Nat, NEW q \in Seq(Nat)
    PROVE  /\ <<>> \o (<<m>> \o q) = <<m>> \o q
           /\ m # 0 /\ (\A i \in 1..Len(q) : q[i] # 0) =>
                  \A i \in 1..Len(<<m>> \o q) : (<<m>> \o q)[i] # 0
<1>1. <<m>> \in Seq(Nat) /\ Len(<<m>>) = 1 /\ <<m>>[1] = m
  OBVIOUS
<1>2. <<m>> \o q \in Seq(Nat) /\ Len(<<m>> \o q) = 1 + Len(q) /\ Len(q) \in Nat
  BY <1>1, ConcatProperties
<1>3. \A i \in 1..Len(<<m>> \o q) :
        (<<m>> \o q)[i] = IF i <= 1 THEN <<m>>[i] ELSE q[i - 1]
  BY <1>1, <1>2, ConcatProperties
<1>4. <<>> \o (<<m>> \o q) = <<m>> \o q
  BY <1>2, ConcatEmptySeq
<1>5. ASSUME m # 0, \A i \in 1..Len(q) : q[i] # 0, NEW i \in 1..Len(<<m>> \o q)
      PROVE  (<<m>> \o q)[i] # 0
  <2>1. CASE i = 1
    BY <2>1, <1>1, <1>3, <1>5
  <2>2. CASE i # 1
    <3>1. i - 1 \in 1..Len(q) /\ ~(i <= 1)
      BY <2>2, <1>2, <1>5
    <3> QED  BY <3>1, <1>3, <1>5
  <2> QED  BY <2>1, <2>2
<1> QED  BY <1>4, <1>5

LEMMA WriterMaps ==
    ASSUME IInv, HoldInv, NEW g \in Conns, Writer(g)
    PROVE  HoldInv' /\ [FIFO!Next]_FIFO!vars
<1> USE DEF HoldInv
<1>0. QueueTypeOK /\ ControlTypeOK
  BY DEF IInv, TypeOK
<1>1. CASE WriterTop(g) \/ WriterPark(g) \/ WriteFail(g) \/ WriterTrigger(g)
  <2>1. UNCHANGED <<queue, hold, sent, accepted>>
    BY <1>1 DEF WriterTop, WriterPark, WriteFail, WriterTrigger
  <2>2. HoldsInHand'
    BY <1>0, <1>1 DEF HoldsInHand, WriterTop, WriterPark, WriteFail, WriterTrigger, Goto, ControlTypeOK
  <2> QED  BY <2>1, <2>2, StutterMaps
<1>2. CASE WriterTake(g) /\ queue = <<>>
  <2>1. UNCHANGED <<queue, hold, sent, accepted>>
    BY <1>2 DEF WriterTake
  <2>2. HoldsInHand'
    BY <1>0, <1>2 DEF HoldsInHand, WriterTake, Goto, ControlTypeOK
  <2> QED  BY <2>1, <2>2, StutterMaps
<1>3. ASSUME writer[g] \notin {"off", "done"}
      PROVE  \A h \in Conns : h # g => hold[h] = 0
  BY <1>3 DEF IInv, WriterJoined, HoldsInHand
<1>4. CASE WriterTake(g) /\ queue # <<>>
  <2>1. /\ writer[g] = "take" /\ hold' = [hold EXCEPT ![g] = Head(queue)]
        /\ queue' = Tail(queue) /\ UNCHANGED <<sent, accepted>>
        /\ writer' = [writer EXCEPT ![g] = "write"]
    BY <1>4 DEF WriterTake, Goto
  <2>2. queue \in Seq(Nat) /\ Head(queue) \in Nat /\ Tail(queue) \in Seq(Nat)
        /\ Head(queue) # 0 /\ Numbered'
    BY <1>0, <1>4, <2>1 DEF QueueTypeOK, Numbered
  <2>3. hold'[g] = Head(queue) /\ \A h \in Conns : h # g => hold'[h] = 0
    BY <1>0, <1>3, <2>1 DEF QueueTypeOK
  <2>4. Held = <<>>
    BY <1>3, <2>1, HeldByOne DEF HoldsInHand
  <2>5. Held' = <<Head(queue)>>
    BY <2>2, <2>3, HeldAfter
  <2>6. <<Head(queue)>> \o Tail(queue) = queue
    BY <1>4, <2>2
  <2>7. <<>> \o queue = queue
    BY <2>2
  <2>8. UNCHANGED FIFO!vars
    BY <2>1, <2>4, <2>5, <2>6, <2>7 DEF FIFO!vars
  <2>9. HoldsInHand'
    BY <1>0, <2>1, <2>2, <2>3 DEF HoldsInHand, ControlTypeOK, QueueTypeOK
  <2> QED  BY <2>2, <2>8, <2>9
<1>5. ASSUME writer[g] \in {"write", "failed"}
      PROVE  /\ Held = <<hold[g]>> /\ hold[g] \in Nat /\ queue \in Seq(Nat)
             /\ Held \o queue # <<>>
             /\ Head(Held \o queue) = hold[g] /\ Tail(Held \o queue) = queue
  <2>1. Held = <<hold[g]>> /\ hold[g] \in Nat /\ queue \in Seq(Nat)
    BY <1>0, <1>5, HeldByOne DEF HoldsInHand, QueueTypeOK
  <2>2. <<hold[g]>> \o queue # <<>> /\ Head(<<hold[g]>> \o queue) = hold[g]
    BY <2>1
  <2>3. Tail(<<hold[g]>> \o queue) = queue
    BY <2>1
  <2> QED  BY <2>1, <2>2, <2>3
<1>6. ASSUME hold' = [hold EXCEPT ![g] = 0], writer[g] \notin {"off", "done"}
      PROVE  Held' = <<>>
  <2>1. \A h \in Conns : hold'[h] = 0
    BY <1>0, <1>3, <1>6 DEF QueueTypeOK
  <2> QED  BY <2>1, HeldAfter
<1>7. CASE WriteOk(g)
  <2>1. /\ writer[g] = "write" /\ sent' = Append(sent, hold[g])
        /\ hold' = [hold EXCEPT ![g] = 0] /\ UNCHANGED <<queue, accepted>>
        /\ writer' = [writer EXCEPT ![g] = "top"]
    BY <1>7 DEF WriteOk, Goto
  <2>2. Held' \o queue' = queue
    BY <1>5, <1>6, <2>1
  <2>3. FIFO!Write
    BY <1>5, <2>1, <2>2 DEF FIFO!Write
  <2>4. HoldsInHand'
    BY <1>0, <2>1 DEF HoldsInHand, ControlTypeOK, QueueTypeOK
  <2> QED  BY <2>1, <2>3, <2>4 DEF Numbered, FIFO!Next
<1>8. CASE PushBack(g)
  <2>1. /\ writer[g] = "failed" /\ hold' = [hold EXCEPT ![g] = 0]
        /\ queue' = IF DropOnError THEN queue ELSE <<hold[g]>> \o queue
        /\ UNCHANGED <<sent, accepted>>
        /\ writer' = [writer EXCEPT ![g] = "trigger"]
    BY <1>8 DEF PushBack, Goto
  <2>2. HoldsInHand'
    BY <1>0, <2>1 DEF HoldsInHand, ControlTypeOK, QueueTypeOK
  <2>3. CASE DropOnError
    <3>1. Held' \o queue' = queue
      BY <1>5, <1>6, <2>1, <2>3
    <3>2. FIFO!GiveUp
      BY <1>5, <2>1, <2>3, <3>1 DEF FIFO!GiveUp
    <3> QED  BY <2>1, <2>2, <2>3, <3>2 DEF Numbered, FIFO!Next
  <2>4. CASE ~DropOnError
    <3>1. queue' = <<hold[g]>> \o queue /\ Held \o queue = queue'
      BY <1>5, <2>1, <2>4
    <3>2. Held' \o queue' = queue'
      <4>1. Held' = <<>>
        BY <1>6, <2>1
      <4> QED  BY <1>5, <2>1, <3>1, <4>1, Prepended
    <3>3. UNCHANGED FIFO!vars
      BY <2>1, <3>1, <3>2 DEF FIFO!vars
    <3>4. hold[g] # 0
      BY <2>1 DEF HoldsInHand
    <3>5. Numbered'
      <4>1. hold[g] \in Nat \ {0} /\ queue \in Seq(Nat) /\ \A i \in 1..Len(queue) : queue[i] # 0
        BY <1>5, <2>1, <3>4 DEF Numbered
      <4>2. \A i \in 1..Len(<<hold[g]>> \o queue) : (<<hold[g]>> \o queue)[i] # 0
        BY <4>1, Prepended
      <4> QED  BY <3>1, <4>2 DEF Numbered
    <3> QED  BY <2>2, <3>3, <3>5
  <2> QED  BY <2>3, <2>4 , WsAssumption
<1> QED  BY <1>1, <1>2, <1>4, <1>7, <1>8 DEF Writer

LEMMA NextMaps ==
    ASSUME IInv, HoldInv, [Next]_vars
    PROVE  HoldInv' /\ [FIFO!Next]_FIFO!vars
<1>1. ASSUME UNCHANGED <<writer, hold>>, AppendMessage
      PROVE  HoldInv' /\ [FIFO!Next]_FIFO!vars
  BY <1>1, AppendMaps DEF HoldInv, HoldsInHand, FIFO!Next
<1>2. ASSUME UNCHANGED <<writer, hold, queue, sent, accepted>>
      PROVE  HoldInv' /\ [FIFO!Next]_FIFO!vars
  BY <1>2, StutterMaps DEF HoldInv, HoldsInHand
<1>3. ASSUME NEW s \in Senders, Sender(s)
      PROVE  HoldInv' /\ [FIFO!Next]_FIFO!vars
  BY <1>1, <1>2, <1>3 DEF Sender, SendAppend, SendWake, Wake
<1>4. ASSUME NEW g \in Conns, Reader(g)
      PROVE  HoldInv' /\ [FIFO!Next]_FIFO!vars
  BY <1>2, <1>4 DEF Reader, ReaderError, ReaderWakeUp, ReaderTrigger
<1>5. ASSUME NEW g \in Conns, Heart(g) \/ PeerGone(g)
      PROVE  HoldInv' /\ [FIFO!Next]_FIFO!vars
  BY <1>1, <1>2, <1>5 DEF Heart, HeartBeat, HeartWake, HeartStop, Wake, PeerGone
<1>6. ASSUME NEW r \in Starters, Reconnect(r)
      PROVE  HoldInv' /\ [FIFO!Next]_FIFO!vars
  <2>1. CASE RcLifecycle(r)
    BY <1>1, <2>1 DEF RcLifecycle
  <2>2. CASE RcInstall(r)
    <3>1. UNCHANGED <<hold, queue, sent, accepted>>
      BY <2>2 DEF RcInstall
    <3>2. rc[r] = "install" /\ writer' = [writer EXCEPT ![conn] = "top"]
      BY <2>2 DEF RcInstall, Goto
    <3>3. conn \in Conns /\ writer[conn] = "off" /\ writer \in [Conns -> WriterPc]
      BY <3>2 DEF IInv, TypeOK, ClientTypeOK, ControlTypeOK, ConnAhead
    <3>4. HoldsInHand'
      BY <3>1, <3>2, <3>3 DEF HoldInv, HoldsInHand
    <3> QED  BY <3>1, <3>4, StutterMaps DEF HoldInv
  <2>3. CASE RcStop(r) \/ RcJoin(r) \/ RcDialFail(r) \/ RcDialOk(r)
    BY <1>2, <2>3 DEF RcStop, RcJoin, RcDialFail, RcDialOk
  <2>4. CASE RcWake(r) \/ RcExit(r)
    BY <1>2, <2>4 DEF RcWake, Wake, RcExit
  <2> QED  BY <1>6, <2>1, <2>2, <2>3, <2>4 DEF Reconnect
<1>7. CASE CloseSignal \/ CloseConn \/ UNCHANGED vars
  BY <1>2, <1>7 DEF CloseSignal, CloseConn, vars
<1> QED  BY <1>3, <1>4, <1>5, <1>6, <1>7, WriterMaps DEF Next

LEMMA InitMaps == Init => HoldInv /\ FIFO!Init
<1> SUFFICES ASSUME Init PROVE HoldInv /\ FIFO!Init
  OBVIOUS
<1>1. HoldInv
  BY DEF Init, HoldInv, HoldsInHand, Numbered
<1>2. Held = <<>>
  BY DEF Init, Held
<1>3. Held \o queue = <<1>>
  BY <1>2 DEF Init
<1> QED  BY <1>1, <1>3 DEF Init, FIFO!Init

(* The client is one first-in first-out queue across all its connections:   *)
(* every step of it is a step of OutboundQueue or changes nothing of it.    *)
THEOREM SpecFIFO == Spec => FIFOSpec
BY InitMaps, NextMaps, SpecIInv, PTL DEF Spec, FIFOSpec, FIFO!Spec
=============================================================================
