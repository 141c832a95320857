---------------------------- MODULE SessionProofs ----------------------------
(***************************************************************************)
(* Proofs about the sessions of a shard, for any number of connections,    *)
(* sessions and events.                                                    *)
(***************************************************************************)
EXTENDS Session, FiniteSetTheorems, TLAPS

(* The owner of the session.                                                *)
AtMostOne ==
    /\ Len(channel) <= 1
    /\ channel # <<>> => \A k \in Slots : owner[k] = "off"
    /\ \A j, k \in Slots : owner[j] # "off" /\ owner[k] # "off" => j = k

AtLeastOne == Manager = "local" /\ up =>
    channel # <<>> \/ \E k \in Slots : owner[k] # "off"

(* What newConnect and its connection know of each other.                   *)
OffIsFresh == \A k \in Slots :
    owner[k] = "off" => session[k] = Fresh /\ passed[k] = Fresh

NotYetServed == \A k \in Slots :
    /\ owner[k] \in {"connect", "auth"} =>
           ~reader[k] /\ listener[k] = "off" /\ gateway[k] = NoSession
    /\ \/ owner[k] \in {"connect", "auth"}
       \/ owner[k] = "listen" /\ reader[k] /\ gateway[k] = NoSession
       => session[k] = passed[k]
    /\ gateway[k] = NoSession => sent[k] = 0 /\ taken[k] = 0

(* The client notes no other session than the gateway's, and before its     *)
(* READY no number beyond it.                                               *)
NotesGateway == \A k \in Slots : gateway[k] # NoSession =>
    /\ session[k].id \in {NoSession, gateway[k]}
    /\ owner[k] = "copySeq" => copy[k] \in {NoSession, gateway[k]}

ReadyIsFirst == \A k \in Slots : listener[k] = "ready" =>
    gateway[k] # NoSession /\ taken[k] = 1 /\ session[k].seq <= 1

(* A session that skips no event.                                           *)
Whole(h, id, seq) == id # NoSession => 1 .. seq \subseteq h[id]

AllWhole ==
    /\ \A i \in 1 .. Len(channel) : Whole(handled, channel[i].id, channel[i].seq)
    /\ \A k \in Slots :
        /\ Whole(handled, passed[k].id, passed[k].seq)
        /\ Whole(handled, session[k].id, session[k].seq)
        /\ owner[k] = "copySeq" => Whole(handled, copy[k], session[k].seq)
        /\ Whole(handled, gateway[k], taken[k])

OwnerInv == AtMostOne /\ AtLeastOne
ServedInv == OffIsFresh /\ NotYetServed /\ NotesGateway /\ ReadyIsFirst
IInv == TypeOK /\ OwnerInv /\ ServedInv /\ AllWhole

-----------------------------------------------------------------------------
USE SessionAssumption

LEMMA InitIInv == Init => IInv
<1> SUFFICES ASSUME Init PROVE IInv
  OBVIOUS
<1> USE DEF Init
<1>1. Fresh \in Stored /\ channel \in Seq(Stored)
  BY DEF Fresh, Stored
<1>2. TypeOK
  BY <1>1 DEF TypeOK
<1>3. OwnerInv
  BY DEF OwnerInv, AtMostOne, AtLeastOne
<1>4. ServedInv
  BY DEF ServedInv, OffIsFresh, NotYetServed, NotesGateway, ReadyIsFirst, Fresh
<1>5. AllWhole
  BY DEF AllWhole, Whole, Fresh
<1> QED  BY <1>2, <1>3, <1>4, <1>5 DEF IInv

(* Stored sessions: their fields, and what an update of one leaves.         *)
LEMMA StoredFacts ==
    /\ Fresh \in Stored
    /\ \A i \in Sessions \cup {NoSession}, n \in 0 .. MaxSeq : [id |-> i, seq |-> n] \in Stored
    /\ \A s \in Stored :
        /\ s.id \in Sessions \cup {NoSession} /\ s.seq \in 0 .. MaxSeq
        /\ \A i \in Sessions \cup {NoSession} :
            [s EXCEPT !.id = i] \in Stored /\ [s EXCEPT !.id = i].id = i
            /\ [s EXCEPT !.id = i].seq = s.seq
        /\ \A n \in 0 .. MaxSeq :
            [s EXCEPT !.seq = n] \in Stored /\ [s EXCEPT !.seq = n].seq = n
            /\ [s EXCEPT !.seq = n].id = s.id
BY DEF Stored, Fresh

(* The channel of one session.                                              *)
LEMMA ChannelFacts ==
    ASSUME channel \in Seq(Stored)
    PROVE  /\ channel # <<>> =>
                /\ Len(channel) >= 1 /\ Head(channel) = channel[1]
                /\ Head(channel) \in Stored /\ Tail(channel) \in Seq(Stored)
                /\ Len(Tail(channel)) = Len(channel) - 1
           /\ \A s \in Stored : <<s>> \in Seq(Stored) /\ Len(<<s>>) = 1 /\ <<s>>[1] = s
           /\ Len(channel) = 0 <=> channel = <<>>
OBVIOUS

LEMMA TypeStep ==
    ASSUME TypeOK, NotYetServed, [Next]_vars
    PROVE  TypeOK'
<1> USE DEF TypeOK
<1>1. ASSUME NEW k \in Slots, Start(k) PROVE TypeOK'
  BY <1>1, ChannelFacts DEF Start, Goto
<1>2. ASSUME NEW k \in Slots, ConnectFails(k) PROVE TypeOK'
  BY <1>2, StoredFacts, ChannelFacts DEF ConnectFails, PutBack, End, Goto, connection
<1>3. ASSUME NEW k \in Slots, ConnectOk(k) PROVE TypeOK'
  BY <1>3 DEF ConnectOk, Goto, connection
<1>4. ASSUME NEW k \in Slots, AuthFails(k) PROVE TypeOK'
  <2>1. channel' \in Seq(Stored)
    <3>1. channel' = <<Fresh>> \/ channel' = channel
      BY <1>4 DEF AuthFails, PutBack
    <3>2. <<Fresh>> \in Seq(Stored)
      BY StoredFacts, ChannelFacts
    <3> QED  BY <3>1, <3>2
  <2>2. End(k) /\ UNCHANGED <<up, connection, handled>>
    BY <1>4 DEF AuthFails, PutBack
  <2> QED  BY <2>1, <2>2, StoredFacts DEF End, Goto, connection
<1>5. ASSUME NEW k \in Slots, AuthOk(k) PROVE TypeOK'
  BY <1>5 DEF AuthOk, Goto
<1>6. ASSUME NEW k \in Slots, Return(k) PROVE TypeOK'
  BY <1>6 DEF Return, Goto, connection
<1>7. ASSUME NEW k \in Slots, ClearId(k) PROVE TypeOK'
  <2>1. session' = [session EXCEPT ![k] = [session[k] EXCEPT !.id = NoSession]]
    BY <1>7 DEF ClearId
  <2>2. session' \in [Slots -> Stored]
    BY <2>1, StoredFacts
  <2> QED  BY <1>7, <2>2 DEF ClearId, Goto, connection
<1>8. ASSUME NEW k \in Slots, ClearSeq(k) PROVE TypeOK'
  <2>1. session' = [session EXCEPT ![k] = [session[k] EXCEPT !.seq = 0]]
    BY <1>8 DEF ClearSeq
  <2>2. [session[k] EXCEPT !.seq = 0] \in Stored
    <3>1. 0 \in 0 .. MaxSeq
      OBVIOUS
    <3> QED  BY <3>1, StoredFacts
  <2>3. session' \in [Slots -> Stored]
    BY <2>1, <2>2
  <2> QED  BY <1>8, <2>3 DEF ClearSeq, Goto, connection
<1>9. ASSUME NEW k \in Slots, CopyId(k) PROVE TypeOK'
  BY <1>9, StoredFacts DEF CopyId, Goto, connection
<1>10. ASSUME NEW k \in Slots, Panic(k) PROVE TypeOK'
  <2>1. channel' \in Seq(Stored) /\ up' \in BOOLEAN
    <3>1. /\ channel' = <<passed[k]>> \/ channel' = channel
          /\ up' = FALSE \/ up' = up
      BY <1>10 DEF Panic, PutBack
    <3>2. <<passed[k]>> \in Seq(Stored)
      BY ChannelFacts
    <3> QED  BY <3>1, <3>2
  <2>2. End(k) /\ UNCHANGED <<connection, handled>>
    BY <1>10 DEF Panic, PutBack
  <2> QED  BY <2>1, <2>2, StoredFacts DEF End, Goto, connection
<1>11. ASSUME NEW k \in Slots, CopySeq(k) PROVE TypeOK'
  BY <1>11, StoredFacts, ChannelFacts DEF CopySeq, PutBack, End, Goto, connection
<1>12. ASSUME NEW k \in Slots, Accept(k) PROVE TypeOK'
  <2>1. passed[k].id \in Sessions \cup {NoSession} /\ passed[k].seq \in 0 .. MaxSeq
    BY StoredFacts
  <2>2. CASE passed[k].id = NoSession
    <3>1. PICK s \in Sessions \ given :
            gateway' = [gateway EXCEPT ![k] = s] /\ given' = given \cup {s}
      BY <1>12, <2>2 DEF Accept
    <3> QED  BY <1>12, <2>2, <3>1 DEF Accept
  <2>3. CASE passed[k].id # NoSession
    <3> DEFINE q == passed[k].seq
    <3>1. /\ gateway' = [gateway EXCEPT ![k] = passed[k].id]
          /\ sent' = [sent EXCEPT ![k] = q] /\ taken' = [taken EXCEPT ![k] = q]
          /\ UNCHANGED <<up, channel, owner, passed, session, copy, lost, reader,
                         listener, handled, given>>
      BY <1>12, <2>3 DEF Accept
    <3> HIDE DEF q
    <3>2. q \in 0 .. MaxSeq
      BY <2>1 DEF q
    <3>3. \A j \in Slots : taken'[j] <= sent'[j] /\ sent'[j] <= taken'[j] + QueueCap
      BY <3>1, <3>2
    <3> QED  BY <2>1, <3>1, <3>2, <3>3
  <2> QED  BY <2>2, <2>3
<1>13. ASSUME NEW k \in Slots, Read(k) PROVE TypeOK'
  BY <1>13 DEF Read, Queue
<1>14. ASSUME NEW k \in Slots, Interrupt(k) \/ HeartbeatFails(k) PROVE TypeOK'
  BY <1>14 DEF Interrupt, HeartbeatFails, Report, Causes, connection
<1>15. ASSUME NEW k \in Slots, ReadFails(k) PROVE TypeOK'
  BY <1>15 DEF ReadFails, Report, Causes
<1>16. ASSUME NEW k \in Slots, Take(k) PROVE TypeOK'
  <2> DEFINE n == taken[k] + 1
  <2>1. gateway[k] \in Sessions /\ n \in 1 .. MaxSeq /\ n <= sent[k]
    BY <1>16 DEF Take, NotYetServed
  <2>2. session' \in [Slots -> Stored]
    BY <1>16, <2>1, StoredFacts DEF Take, Note
  <2>3. handled' \in [Sessions -> SUBSET (1 .. MaxSeq)]
    BY <1>16, <2>1 DEF Take
  <2>4. taken' = [taken EXCEPT ![k] = n]
    BY <1>16 DEF Take
  <2>5. \A j \in Slots : taken'[j] <= sent[j] /\ sent[j] <= taken'[j] + QueueCap
    BY <2>1, <2>4
  <2>6. listener' \in [Slots -> {"off", "on", "ready"}] /\ taken' \in [Slots -> 0 .. MaxSeq]
    BY <1>16, <2>1, <2>4 DEF Take
  <2> QED  BY <1>16, <2>2, <2>3, <2>5, <2>6 DEF Take
<1>17. ASSUME NEW k \in Slots, Ready(k) \/ ReadyPanics(k) PROVE TypeOK'
  <2>1. session' \in [Slots -> Stored]
    <3>1. Note(k, [session[k] EXCEPT !.id = gateway[k]])
      BY <1>17 DEF Ready, ReadyPanics
    <3>2. [session[k] EXCEPT !.id = gateway[k]] \in Stored
      BY StoredFacts
    <3> QED  BY <3>1, <3>2 DEF Note
  <2> QED  BY <1>17, <2>1 DEF Ready, ReadyPanics, Report, Causes
<1>18. ASSUME NEW k \in Slots, ListenerEnds(k) PROVE TypeOK'
  BY <1>18 DEF ListenerEnds
<1>19. CASE UNCHANGED vars
  BY <1>19 DEF vars, connection
<1>20. ASSUME NEW k \in Slots, NewConnect(k) PROVE TypeOK'
  BY <1>2, <1>3, <1>4, <1>5, <1>6, <1>7, <1>8, <1>9, <1>10, <1>11, <1>20
     DEF NewConnect, Connecting, Authenticating, PuttingBack
<1> QED
  BY <1>1, <1>12, <1>13, <1>14, <1>15, <1>16, <1>17, <1>18, <1>19, <1>20
     DEF Next, Reader, Listener

-----------------------------------------------------------------------------
(* The owner of the session: it moves between the channel and newConnect.   *)

(* newConnect goes on: the same one is active.                              *)
LEMMA OwnerStays ==
    ASSUME TypeOK, OwnerInv, NEW k \in Slots, owner[k] # "off", NEW point, point # "off",
           Goto(k, point), UNCHANGED <<up, channel>>
    PROVE  OwnerInv'
BY DEF TypeOK, OwnerInv, AtMostOne, AtLeastOne, Goto

(* newConnect ends and puts the session back.                               *)
LEMMA OwnerPutsBack ==
    ASSUME TypeOK, OwnerInv, NEW k \in Slots, owner[k] # "off", NEW s \in Stored,
           PutBack(k, s), UNCHANGED up
    PROVE  OwnerInv'
<1>1. channel' = <<s>> /\ Len(channel') = 1 /\ channel' # <<>>
  BY DEF PutBack
<1>2. \A j \in Slots : owner'[j] = "off"
  BY DEF TypeOK, OwnerInv, AtMostOne, PutBack, End, Goto
<1> QED  BY <1>1, <1>2 DEF OwnerInv, AtMostOne, AtLeastOne

(* The other manager's newConnect ends without it, or the program ends.     *)
LEMMA OwnerLoses ==
    ASSUME TypeOK, OwnerInv, NEW k \in Slots, owner[k] # "off",
           Manager # "local", End(k), UNCHANGED channel
    PROVE  OwnerInv'
BY DEF TypeOK, OwnerInv, AtMostOne, AtLeastOne, End, Goto

LEMMA OwnerStep ==
    ASSUME TypeOK, OwnerInv, [Next]_vars
    PROVE  OwnerInv'
<1>1. ASSUME NEW k \in Slots, Start(k) PROVE OwnerInv'
  <2>1. channel # <<>> /\ Len(channel) = 1 /\ channel' = <<>> /\ Len(channel') = 0
    BY <1>1, ChannelFacts DEF Start, TypeOK, OwnerInv, AtMostOne
  <2>2. \A j \in Slots : owner'[j] # "off" <=> j = k
    BY <1>1, <2>1 DEF Start, Goto, TypeOK, OwnerInv, AtMostOne
  <2> QED  BY <2>1, <2>2 DEF OwnerInv, AtMostOne, AtLeastOne
<1>2. ASSUME NEW k \in Slots, ConnectFails(k) \/ CopySeq(k) PROVE OwnerInv'
  <2>1. owner[k] # "off" /\ UNCHANGED up
    BY <1>2 DEF ConnectFails, CopySeq
  <2>2. \E s \in Stored : PutBack(k, s)
    BY <1>2, StoredFacts DEF ConnectFails, CopySeq, TypeOK
  <2> QED  BY <2>1, <2>2, OwnerPutsBack
<1>3. ASSUME NEW k \in Slots, ConnectOk(k) \/ AuthOk(k) PROVE OwnerInv'
  BY <1>3, OwnerStays DEF ConnectOk, AuthOk
<1>4. ASSUME NEW k \in Slots, Return(k) PROVE OwnerInv'
  <2> DEFINE p == CASE lost[k] = "clear" -> "clearId"
                    [] lost[k] = "banned" -> "panic"
                    [] OTHER -> "copyId"
  <2>1. p # "off"
    OBVIOUS
  <2>2. owner[k] # "off" /\ Goto(k, p) /\ UNCHANGED <<up, channel>>
    BY <1>4 DEF Return
  <2> QED  BY <2>1, <2>2, OwnerStays
<1>5. ASSUME NEW k \in Slots, ClearId(k) \/ ClearSeq(k) \/ CopyId(k) PROVE OwnerInv'
  BY <1>5, OwnerStays DEF ClearId, ClearSeq, CopyId
<1>6. ASSUME NEW k \in Slots, AuthFails(k) PROVE OwnerInv'
  BY <1>6, StoredFacts, OwnerPutsBack, OwnerLoses DEF AuthFails
<1>7. ASSUME NEW k \in Slots, Panic(k) PROVE OwnerInv'
  <2>1. passed[k] \in Stored
    BY DEF TypeOK
  <2> QED  BY <1>7, <2>1, OwnerPutsBack, OwnerLoses DEF Panic
<1>8. CASE UNCHANGED <<up, channel, owner>>
  BY <1>8 DEF OwnerInv, AtMostOne, AtLeastOne
<1>9. ASSUME NEW k \in Slots, NewConnect(k) PROVE OwnerInv'
  BY <1>2, <1>3, <1>4, <1>5, <1>6, <1>7, <1>9
     DEF NewConnect, Connecting, Authenticating, PuttingBack
<1>10. ASSUME NEW k \in Slots, HeartbeatFails(k) \/ Accept(k) \/ Reader(k) \/ Listener(k)
       PROVE  UNCHANGED <<up, channel, owner>>
  BY <1>10 DEF HeartbeatFails, Accept, Reader, Read, Interrupt, ReadFails,
     Listener, Take, Ready, ReadyPanics, ListenerEnds
<1>11. CASE UNCHANGED vars
  BY <1>8, <1>11 DEF vars
<1> QED  BY <1>1, <1>8, <1>9, <1>10, <1>11 DEF Next


-----------------------------------------------------------------------------
(* What newConnect and its connection know of each other, and that no       *)
(* session skips an event: together, action by action.                      *)

Inv2 == ServedInv /\ AllWhole

(* newConnect ends: nothing of it is left but its connection.               *)
LEMMA EndStep ==
    ASSUME TypeOK, Inv2, NEW k \in Slots, End(k), UNCHANGED <<connection, handled>>,
           \A i \in 1 .. Len(channel') : Whole(handled, channel'[i].id, channel'[i].seq)
    PROVE  Inv2'
<1> USE DEF TypeOK, Inv2, ServedInv, End, Goto, connection
<1>1. Fresh.id = NoSession /\ Fresh.seq = 0
  BY DEF Fresh
<1>2. OffIsFresh'
  BY DEF OffIsFresh
<1>3. NotYetServed'
  BY DEF NotYetServed
<1>4. NotesGateway'
  BY <1>1 DEF NotesGateway
<1>5. ReadyIsFirst'
  BY <1>1 DEF ReadyIsFirst
<1>6. AllWhole'
  BY <1>1 DEF AllWhole, Whole
<1> QED  BY <1>2, <1>3, <1>4, <1>5, <1>6

LEMMA PutBackStep ==
    ASSUME TypeOK, Inv2, NEW k \in Slots, NEW s \in Stored, Whole(handled, s.id, s.seq),
           PutBack(k, s), UNCHANGED <<connection, handled>>
    PROVE  Inv2'
<1>1. End(k) /\ channel' = <<s>>
  BY DEF PutBack
<1>2. \A i \in 1 .. Len(channel') : i = 1 /\ channel'[i] = s
  BY <1>1
<1>3. handled' = handled
  OBVIOUS
<1>4. \A i \in 1 .. Len(channel') : Whole(handled, channel'[i].id, channel'[i].seq)
  BY <1>2
<1> QED  BY <1>1, <1>3, <1>4, EndStep

LEMMA StartStep ==
    ASSUME TypeOK, Inv2, NEW k \in Slots, Start(k)
    PROVE  Inv2'
<1> USE DEF TypeOK, Inv2, ServedInv, Start, Goto, Idle
<1>1. Whole(handled, Head(channel).id, Head(channel).seq)
  BY ChannelFacts DEF AllWhole
<1>2. \A i \in 1 .. Len(channel') : channel'[i] = channel[i + 1] /\ i + 1 \in 1 .. Len(channel)
  BY ChannelFacts
<1>3. OffIsFresh'
  BY DEF OffIsFresh
<1>4. NotYetServed'
  BY DEF NotYetServed
<1>5. NotesGateway' /\ ReadyIsFirst'
  BY DEF NotesGateway, ReadyIsFirst
<1>6. \A i \in 1 .. Len(channel') : Whole(handled', channel'[i].id, channel'[i].seq)
  BY <1>2 DEF AllWhole
<1>7. \A j \in Slots : j # k =>
        /\ UNCHANGED <<passed[j], session[j], copy[j], owner[j], gateway[j], taken[j]>>
  OBVIOUS
<1>8. /\ passed'[k] = Head(channel) /\ session'[k] = Head(channel)
      /\ owner'[k] = "connect" /\ gateway'[k] = NoSession
  OBVIOUS
<1>9. AllWhole'
  <2>1. handled' = handled
    OBVIOUS
  <2>2. Whole(handled, gateway'[k], taken'[k]) /\ owner'[k] # "copySeq"
    BY <1>8 DEF Whole
  <2>3. ASSUME NEW j \in Slots
        PROVE  /\ Whole(handled, passed'[j].id, passed'[j].seq)
               /\ Whole(handled, session'[j].id, session'[j].seq)
               /\ owner'[j] = "copySeq" => Whole(handled, copy'[j], session'[j].seq)
               /\ Whole(handled, gateway'[j], taken'[j])
    <3>1. CASE j = k
      BY <1>1, <1>8, <2>2, <3>1
    <3>2. CASE j # k
      BY <1>7, <3>2 DEF AllWhole
    <3> QED  BY <3>1, <3>2
  <2> QED  BY <1>6, <2>1, <2>3 DEF AllWhole
<1> QED  BY <1>3, <1>4, <1>5, <1>9

(* The steps of newConnect between its start and its end.                   *)
LEMMA GoOnStep ==
    ASSUME TypeOK, Inv2, NEW k \in Slots,
           ConnectOk(k) \/ AuthOk(k) \/ Return(k) \/ CopyId(k)
    PROVE  Inv2'
<1> USE DEF TypeOK, Inv2, ServedInv, Goto, connection
<1>1. OffIsFresh'
  BY DEF OffIsFresh, ConnectOk, AuthOk, Return, CopyId
<1>2. NotYetServed'
  BY DEF NotYetServed, ConnectOk, AuthOk, Return, CopyId
<1>3. NotesGateway'
  BY DEF NotesGateway, ConnectOk, AuthOk, Return, CopyId
<1>4. ReadyIsFirst'
  BY DEF ReadyIsFirst, ConnectOk, AuthOk, Return, CopyId
<1>5. AllWhole'
  BY DEF AllWhole, Whole, ConnectOk, AuthOk, Return, CopyId
<1> QED  BY <1>1, <1>2, <1>3, <1>4, <1>5

LEMMA ClearStep ==
    ASSUME TypeOK, Inv2, NEW k \in Slots, ClearId(k) \/ ClearSeq(k)
    PROVE  Inv2'
<1> USE DEF TypeOK, Inv2, ServedInv
<1>1. /\ owner[k] \in {"clearId", "clearSeq"} /\ owner'[k] \in {"clearSeq", "copyId"}
      /\ \A j \in Slots : j # k => owner'[j] = owner[j]
      /\ UNCHANGED <<up, channel, passed, copy, lost, reader, listener, gateway,
                     sent, taken, handled>>
  BY DEF ClearId, ClearSeq, Goto, connection
<1>2. \E s \in Stored :
        /\ session' = [session EXCEPT ![k] = s]
        /\ \/ s.id = NoSession /\ s.seq = session[k].seq
           \/ s.id = session[k].id /\ s.seq = 0
  <2>1. CASE ClearId(k)
    <3> DEFINE s == [session[k] EXCEPT !.id = NoSession]
    <3>1. s \in Stored /\ s.id = NoSession /\ s.seq = session[k].seq
      BY StoredFacts
    <3>2. session' = [session EXCEPT ![k] = s]
      BY <2>1 DEF ClearId
    <3> QED  BY <3>1, <3>2
  <2>2. CASE ClearSeq(k)
    <3> DEFINE s == [session[k] EXCEPT !.seq = 0]
    <3>1. 0 \in 0 .. MaxSeq
      OBVIOUS
    <3>2. s \in Stored /\ s.id = session[k].id /\ s.seq = 0
      <4>1. \A n \in 0 .. MaxSeq : LET t == [session[k] EXCEPT !.seq = n] IN
                t \in Stored /\ t.id = session[k].id /\ t.seq = n
        BY StoredFacts
      <4> QED  BY <3>1, <4>1
    <3>3. session' = [session EXCEPT ![k] = s]
      BY <2>2 DEF ClearSeq
    <3> QED  BY <3>2, <3>3
  <2> QED  BY <2>1, <2>2
<1>3. PICK s \in Stored :
        /\ session' = [session EXCEPT ![k] = s]
        /\ s.id = NoSession \/ s.id = session[k].id
        /\ s.seq = 0 \/ s.seq = session[k].seq
  BY <1>2
<1>4. OffIsFresh'
  BY <1>1, <1>3 DEF OffIsFresh
<1>5. NotYetServed'
  BY <1>1, <1>3 DEF NotYetServed
<1>6. NotesGateway'
  BY <1>1, <1>3 DEF NotesGateway
<1>7. ReadyIsFirst'
  BY <1>1, <1>3 DEF ReadyIsFirst
<1>8. Whole(handled, s.id, s.seq)
  BY <1>3 DEF AllWhole, Whole
<1>9. AllWhole'
  BY <1>1, <1>3, <1>8 DEF AllWhole
<1> QED  BY <1>4, <1>5, <1>6, <1>7, <1>9

LEMMA AcceptStep ==
    ASSUME TypeOK, Inv2, NEW k \in Slots, Accept(k)
    PROVE  Inv2'
<1> USE DEF TypeOK, Inv2, ServedInv
<1>1. session[k] = passed[k] /\ owner[k] = "listen" /\ gateway[k] = NoSession /\ taken[k] = 0
  BY DEF Accept, NotYetServed
<1>2. PICK g \in Sessions, q \in 0 .. MaxSeq :
        /\ gateway' = [gateway EXCEPT ![k] = g]
        /\ sent' = [sent EXCEPT ![k] = q] /\ taken' = [taken EXCEPT ![k] = q]
        /\ passed[k].id \in {NoSession, g}
        /\ q = 0 \/ (passed[k].id = g /\ q = passed[k].seq)
  <2>1. CASE passed[k].id = NoSession
    <3>1. /\ sent' = [sent EXCEPT ![k] = 0] /\ taken' = [taken EXCEPT ![k] = 0]
          /\ 0 \in 0 .. MaxSeq
      BY <1>1, <2>1 DEF Accept, NotYetServed
    <3> QED  BY <2>1, <3>1 DEF Accept
  <2>2. CASE passed[k].id # NoSession
    BY <2>2, StoredFacts DEF Accept
  <2> QED  BY <2>1, <2>2
<1>3. UNCHANGED <<up, channel, owner, passed, session, copy, lost, reader, listener, handled>>
  BY DEF Accept
<1>4. OffIsFresh' /\ NotYetServed'
  BY <1>1, <1>2, <1>3 DEF OffIsFresh, NotYetServed
<1>5. NotesGateway' /\ ReadyIsFirst'
  BY <1>1, <1>2, <1>3 DEF NotesGateway, ReadyIsFirst
<1>6. AllWhole'
  BY <1>1, <1>2, <1>3 DEF AllWhole, Whole
<1> QED  BY <1>4, <1>5, <1>6

LEMMA ReaderStep ==
    ASSUME TypeOK, Inv2, NEW k \in Slots, HeartbeatFails(k) \/ Reader(k)
    PROVE  Inv2'
<1> USE DEF TypeOK, Inv2, ServedInv
<1>1. /\ UNCHANGED <<up, channel, owner, passed, session, copy, listener, gateway, taken, handled>>
      /\ \A j \in Slots : reader'[j] => reader[j]
      /\ \A j \in Slots : sent'[j] = sent[j] \/ gateway[j] # NoSession
  BY DEF HeartbeatFails, Reader, Read, Queue, Interrupt, ReadFails, connection
<1>2. OffIsFresh' /\ NotYetServed'
  BY <1>1 DEF OffIsFresh, NotYetServed
<1>3. NotesGateway' /\ ReadyIsFirst'
  BY <1>1 DEF NotesGateway, ReadyIsFirst
<1>4. AllWhole'
  BY <1>1 DEF AllWhole, Whole
<1> QED  BY <1>2, <1>3, <1>4


(* The listener takes an event: the client notes its number, which is that  *)
(* of the gateway's session, or 1, or of no session.                        *)
LEMMA TakeStep ==
    ASSUME TypeOK, Inv2, NEW k \in Slots, Take(k)
    PROVE  Inv2'
<1> DEFINE n == taken[k] + 1
           s == IF owner[k] = "off" THEN session[k] ELSE [session[k] EXCEPT !.seq = n]
<1> USE DEF TypeOK, Inv2, ServedInv
<1>1. gateway[k] \in Sessions /\ n \in 1 .. MaxSeq
  BY DEF Take, NotYetServed
<1>2. s.id = session[k].id /\ s.seq = (IF owner[k] = "off" THEN session[k].seq ELSE n)
  BY <1>1, StoredFacts
<1>3. /\ session' = [session EXCEPT ![k] = s]
      /\ taken' = [taken EXCEPT ![k] = n]
      /\ handled' = [handled EXCEPT ![gateway[k]] = @ \cup {n}]
      /\ listener' = [listener EXCEPT ![k] = IF n = 1 THEN "ready" ELSE "on"]
      /\ UNCHANGED <<up, channel, owner, passed, copy, lost, reader, gateway, sent>>
  BY DEF Take, Note
<1>4. owner[k] = "off" => s.id = NoSession /\ s.seq = 0
  BY <1>2 DEF OffIsFresh, Fresh
<1>5. owner[k] \notin {"connect", "auth"}
  BY DEF Take, NotYetServed
<1> HIDE DEF n, s
<1>6. OffIsFresh'
  BY <1>3 DEF OffIsFresh, s
<1>7. NotYetServed'
  BY <1>1, <1>3, <1>5 DEF NotYetServed
<1>8. NotesGateway'
  BY <1>2, <1>3 DEF NotesGateway
<1>9. ReadyIsFirst'
  BY <1>1, <1>2, <1>3, <1>4 DEF ReadyIsFirst
<1>10. \A i \in Sessions : handled[i] \subseteq handled'[i]
  BY <1>1, <1>3
<1>11. 1 .. n \subseteq handled'[gateway[k]]
  <2>1. 1 .. taken[k] \subseteq handled[gateway[k]]
    BY <1>1 DEF AllWhole, Whole
  <2>2. 1 .. n = 1 .. taken[k] \cup {n}
    BY DEF n
  <2> QED  BY <1>1, <1>3, <2>1, <2>2
<1>12. \A i \in Sessions \cup {NoSession}, q \in Nat : Whole(handled, i, q) => Whole(handled', i, q)
  BY <1>10 DEF Whole
<1>13. \A i \in {NoSession, gateway[k]} : Whole(handled', i, n)
  BY <1>3, <1>11 DEF Whole
<1>14. \A i \in 1 .. Len(channel') : Whole(handled', channel'[i].id, channel'[i].seq)
  <2> SUFFICES ASSUME NEW i \in 1 .. Len(channel)
               PROVE  Whole(handled', channel[i].id, channel[i].seq)
    BY <1>3
  <2>1. channel[i] \in Stored
    OBVIOUS
  <2>2. Whole(handled, channel[i].id, channel[i].seq)
    BY DEF AllWhole
  <2>3. channel[i].id \in Sessions \cup {NoSession} /\ channel[i].seq \in Nat
    BY <2>1, StoredFacts
  <2> QED  BY <1>12, <2>2, <2>3
<1>15. ASSUME NEW j \in Slots
       PROVE  /\ Whole(handled', passed'[j].id, passed'[j].seq)
              /\ Whole(handled', session'[j].id, session'[j].seq)
              /\ owner'[j] = "copySeq" => Whole(handled', copy'[j], session'[j].seq)
              /\ Whole(handled', gateway'[j], taken'[j])
  <2>1. /\ passed[j].id \in Sessions \cup {NoSession} /\ passed[j].seq \in Nat
        /\ session[j].id \in Sessions \cup {NoSession} /\ session[j].seq \in Nat
        /\ copy[j] \in Sessions \cup {NoSession}
        /\ gateway[j] \in Sessions \cup {NoSession} /\ taken[j] \in Nat
    BY StoredFacts
  <2>2. /\ Whole(handled, passed[j].id, passed[j].seq) /\ Whole(handled, session[j].id, session[j].seq)
        /\ owner[j] = "copySeq" => Whole(handled, copy[j], session[j].seq)
        /\ Whole(handled, gateway[j], taken[j])
    BY DEF AllWhole
  <2>3. CASE j # k
    BY <1>3, <1>12, <2>1, <2>2, <2>3
  <2>4. CASE j = k
    <3>1. Whole(handled', passed'[j].id, passed'[j].seq)
      BY <1>3, <1>12, <2>1, <2>2
    <3>2. Whole(handled', session'[j].id, session'[j].seq)
      <4>1. s.id \in {NoSession, gateway[k]}
        BY <1>1, <1>2 DEF NotesGateway
      <4>2. CASE owner[k] = "off"
        BY <1>3, <1>4, <2>4, <4>2 DEF Whole
      <4>3. CASE owner[k] # "off"
        BY <1>2, <1>3, <1>13, <2>4, <4>1, <4>3
      <4> QED  BY <4>2, <4>3
    <3>3. owner'[j] = "copySeq" => Whole(handled', copy'[j], session'[j].seq)
      <4> SUFFICES ASSUME owner[k] = "copySeq" PROVE Whole(handled', copy[k], n)
        BY <1>2, <1>3, <2>4
      <4>1. copy[k] \in {NoSession, gateway[k]}
        BY <1>1 DEF NotesGateway
      <4> QED  BY <1>13, <4>1
    <3>4. Whole(handled', gateway'[j], taken'[j])
      BY <1>3, <1>13, <2>4
    <3> QED  BY <3>1, <3>2, <3>3, <3>4
  <2> QED  BY <2>3, <2>4
<1>16. AllWhole'
  BY <1>14, <1>15 DEF AllWhole
<1> QED  BY <1>6, <1>7, <1>8, <1>9, <1>16

LEMMA ReadyStep ==
    ASSUME TypeOK, Inv2, NEW k \in Slots, Ready(k) \/ ReadyPanics(k)
    PROVE  Inv2'
<1> DEFINE s == IF owner[k] = "off" THEN session[k]
                ELSE [session[k] EXCEPT !.id = gateway[k]]
<1> USE DEF TypeOK, Inv2, ServedInv
<1>1. /\ gateway[k] # NoSession /\ taken[k] = 1 /\ session[k].seq <= 1
      /\ listener[k] = "ready" /\ owner[k] \notin {"connect", "auth"}
  BY DEF Ready, ReadyPanics, ReadyIsFirst, NotYetServed
<1>2. s.seq = session[k].seq /\ s.id = (IF owner[k] = "off" THEN session[k].id ELSE gateway[k])
  BY StoredFacts
<1>3. /\ session' = [session EXCEPT ![k] = s] /\ listener'[k] # "ready"
      /\ \A j \in Slots : j # k => listener'[j] = listener[j]
      /\ UNCHANGED <<up, channel, owner, passed, copy, reader, gateway, sent, taken, handled>>
  BY DEF Ready, ReadyPanics, Note
<1>4. session[k].seq \in Nat /\ (owner[k] = "off" => s = session[k])
  BY StoredFacts
<1> HIDE DEF s
<1>5. OffIsFresh' /\ NotYetServed'
  BY <1>1, <1>3, <1>4 DEF OffIsFresh, NotYetServed
<1>6. NotesGateway'
  BY <1>1, <1>2, <1>3 DEF NotesGateway
<1>7. ReadyIsFirst'
  BY <1>3 DEF ReadyIsFirst
<1>8. Whole(handled, s.id, s.seq)
  <2>1. CASE owner[k] = "off"
    BY <1>4, <2>1 DEF AllWhole
  <2>2. CASE owner[k] # "off"
    <3>1. 1 .. s.seq \subseteq 1 .. 1
      BY <1>1, <1>2, <1>4
    <3>2. 1 .. 1 \subseteq handled[gateway[k]]
      BY <1>1 DEF AllWhole, Whole
    <3> QED  BY <1>2, <2>2, <3>1, <3>2 DEF Whole
  <2> QED  BY <2>1, <2>2
<1>9. AllWhole'
  BY <1>2, <1>3, <1>8 DEF AllWhole, Whole
<1> QED  BY <1>5, <1>6, <1>7, <1>9

LEMMA ListenerEndsStep ==
    ASSUME TypeOK, Inv2, NEW k \in Slots, ListenerEnds(k)
    PROVE  Inv2'
<1> USE DEF TypeOK, Inv2, ServedInv, ListenerEnds
<1>1. OffIsFresh' /\ NotYetServed'
  BY DEF OffIsFresh, NotYetServed
<1>2. NotesGateway' /\ ReadyIsFirst'
  BY DEF NotesGateway, ReadyIsFirst
<1>3. AllWhole'
  BY DEF AllWhole, Whole
<1> QED  BY <1>1, <1>2, <1>3

-----------------------------------------------------------------------------
LEMMA NextInv2 ==
    ASSUME TypeOK, TypeOK', Inv2, [Next]_vars
    PROVE  Inv2'
<1>1. ASSUME NEW k \in Slots, ConnectFails(k) PROVE Inv2'
  <2>1. passed[k] \in Stored /\ Whole(handled, passed[k].id, passed[k].seq)
    BY DEF TypeOK, Inv2, AllWhole
  <2> QED  BY <1>1, <2>1, PutBackStep DEF ConnectFails
<1>2. ASSUME NEW k \in Slots, AuthFails(k) \/ Panic(k) PROVE Inv2'
  <2>1. \A s \in {Fresh, passed[k]} : s \in Stored /\ Whole(handled, s.id, s.seq)
    BY StoredFacts DEF TypeOK, Inv2, AllWhole, Whole, Fresh
  <2>2. UNCHANGED <<connection, handled>>
    BY <1>2 DEF AuthFails, Panic
  <2>3. CASE \E s \in {Fresh, passed[k]} : PutBack(k, s)
    BY <2>1, <2>2, <2>3, PutBackStep
  <2>4. CASE End(k) /\ UNCHANGED channel
    <3>1. \A i \in 1 .. Len(channel') : Whole(handled, channel'[i].id, channel'[i].seq)
      BY <2>4 DEF Inv2, AllWhole
    <3> QED  BY <2>2, <2>4, <3>1, EndStep
  <2> QED  BY <1>2, <2>3, <2>4 DEF AuthFails, Panic
<1>3. ASSUME NEW k \in Slots, CopySeq(k) PROVE Inv2'
  <2> DEFINE s == [id |-> copy[k], seq |-> session[k].seq]
  <2>1. s \in Stored /\ Whole(handled, s.id, s.seq)
    BY <1>3, StoredFacts DEF CopySeq, TypeOK, Inv2, AllWhole
  <2> QED  BY <1>3, <2>1, PutBackStep DEF CopySeq
<1>4. ASSUME NEW k \in Slots, NewConnect(k) PROVE Inv2'
  BY <1>1, <1>2, <1>3, <1>4, GoOnStep, ClearStep
     DEF NewConnect, Connecting, Authenticating, PuttingBack
<1>5. ASSUME NEW k \in Slots, Listener(k) PROVE Inv2'
  BY <1>5, TakeStep, ReadyStep, ListenerEndsStep DEF Listener
<1>6. CASE UNCHANGED vars
  BY <1>6 DEF vars, connection, Inv2, ServedInv, OffIsFresh, NotYetServed,
     NotesGateway, ReadyIsFirst, AllWhole, Whole
<1> QED  BY <1>4, <1>5, <1>6, StartStep, AcceptStep, ReaderStep DEF Next

LEMMA NextIInv == IInv /\ [Next]_vars => IInv'
BY TypeStep, OwnerStep, NextInv2 DEF IInv, Inv2, ServedInv

THEOREM SpecIInv == Spec => []IInv
BY InitIInv, NextIInv, PTL DEF Spec

(* Every variable stays in its range, and each queue within its capacity.   *)
THEOREM SpecTypeOK == Spec => []TypeOK
<1>1. IInv => TypeOK
  BY DEF IInv
<1> QED  BY <1>1, SpecIInv, PTL

(* The local manager neither loses a session nor serves it twice.           *)
THEOREM SpecOneOwner == ASSUME Manager = "local" PROVE Spec => []OneOwner
<1>1. IInv => OneOwner
  <2> DEFINE Active == {k \in Slots : owner[k] # "off"}
  <2> SUFFICES ASSUME IInv, up
               PROVE  Len(channel) + Cardinality(Active) = 1
    BY DEF OneOwner
  <2> USE DEF IInv, TypeOK, OwnerInv, AtMostOne, AtLeastOne
  <2>1. CASE channel = <<>>
    <3>1. PICK k \in Slots : owner[k] # "off"
      BY <2>1
    <3>2. Active = {k}
      BY <3>1
    <3>3. Cardinality({k}) = 1
      BY FS_Singleton
    <3>4. Len(channel) = 0
      BY <2>1
    <3> HIDE DEF Active, IInv, TypeOK, OwnerInv, AtMostOne, AtLeastOne
    <3> QED  BY <3>2, <3>3, <3>4
  <2>2. CASE channel # <<>>
    <3>1. Len(channel) = 1
      BY <2>2, ChannelFacts
    <3>2. Active = {}
      BY <2>2
    <3>3. Cardinality({}) = 0
      BY FS_EmptySet
    <3> HIDE DEF Active, IInv, TypeOK, OwnerInv, AtMostOne, AtLeastOne
    <3> QED  BY <3>1, <3>2, <3>3
  <2> QED  BY <2>1, <2>2
<1> QED  BY <1>1, SpecIInv, PTL

(* Whatever is lost, cleared and copied in between, a session that is       *)
(* resumed skips no event.                                                  *)
THEOREM SpecNoEventSkipped == Spec => []NoEventSkipped
<1>1. IInv => NoEventSkipped
  BY DEF IInv, AllWhole, Whole, NoEventSkipped
<1> QED  BY <1>1, SpecIInv, PTL

=============================================================================
