-------------------------- MODULE PrivateStreamProofs --------------------------
(***************************************************************************)
(* For any number of messages, calls, replies and tries: an application    *)
(* that awaits each call gets a stream without a gap and leaves no ID of a *)
(* stream behind, calls in flight have different indices until a stream is *)
(* cleared, a private reply is delivered at most once, numbers are fresh,  *)
(* and replies stay below the numbers of fragments.                        *)
(***************************************************************************)
EXTENDS PrivateStream, FiniteSetTheorems, TLAPS

(* The steps one streaming call can take.                                   *)
CallStep(c) ==
    \/ \E m \in Messages, final \in BOOLEAN : Begin(c, m, final)
    \/ TakeIndex(c) \/ Posted(c) \/ PostRefused(c) \/ PostAnswerLost(c)
    \/ RollBack(c) \/ UpdateRelatedID(c) \/ ClearStreamState(c)

(* The steps one ordinary reply can take.                                   *)
ReplyStep(r) ==
    \/ \E m \in Messages, picture \in BOOLEAN : GetSeq(r, m, picture)
    \/ AddUploadSeq(r) \/ UploadFails(r) \/ GetSeqAgain(r) \/ AddSeq(r)
    \/ ReplyPosted(r) \/ ReplyRefused(r) \/ ReplyTimesOut(r)

(* Next is a step of a call, of a reply or of the ticker.                   *)
LEMMA NextCases ==
    Next <=> (\E c \in Calls : CallStep(c)) \/ (\E r \in Replies : ReplyStep(r)) \/ CleanupSeq
BY DEF Next, StreamNext, ReplyNext, CallStep, ReplyStep

(* Replies and the ticker leave streams alone.                              *)
LEMMA ReplyStepFrame ==
    ASSUME NEW r \in Replies, ReplyStep(r)
    PROVE  UNCHANGED <<stream, held>>
BY DEF ReplyStep, GetSeq, Get, AddUploadSeq, UploadFails, GetSeqAgain, AddSeq,
       ReplyPosted, ReplyRefused, ReplyTimesOut, TakeReply, platform

(* A call leaves replies and their numbers alone.                           *)
LEMMA CallStepFrame ==
    ASSUME NEW c \in Calls, CallStep(c)
    PROVE  UNCHANGED <<ordinary, numbers, delivered>>
BY DEF CallStep, Begin, TakeIndex, Posted, PostRefused, PostAnswerLost, RollBack,
       UpdateRelatedID, ClearStreamState, TakeFragment, platform

-----------------------------------------------------------------------------
(* Ranges.                                                                  *)

StreamTypeOK ==
    /\ index \in [Messages -> Nat \cup {Absent}]
    /\ related \in [Messages -> Nat]
    /\ cleared \in [Messages -> BOOLEAN]
    /\ overtaken \in [Messages -> BOOLEAN]
    /\ call \in [Calls -> CallState]
    /\ \A c \in Calls : call[c].at \in {"post", "failed", "update", "clear"} => call[c].index \in Nat
    /\ held \in [Messages -> Seq(Fragment)]

ReplyTypeOK ==
    /\ seq \in [Messages -> Nat]
    /\ reply \in [Replies -> ReplyState]
    /\ numbers \in [Messages -> SUBSET Nat]
    /\ delivered \in [Replies -> Nat]
    /\ mixed \subseteq Messages

LEMMA AnyMessageType == AnyMessage \in Messages
BY PrivateStreamAssumption DEF AnyMessage

LEMMA NoCallType ==
    ASSUME NEW at \in {"new", "done"}
    PROVE  NoCall(at) \in CallState /\ NoCall(at).at = at
BY AnyMessageType DEF NoCall, CallState, NoStream, Absent

(* A fragment that the platform takes is one more at the end.               *)
LEMMA TakeFragmentType ==
    ASSUME StreamTypeOK, NEW c \in Calls, call[c].at = "post", TakeFragment(c)
    PROVE  /\ call[c].msg \in Messages /\ call[c].index \in Nat
           /\ StreamId(call[c].msg, call[c].id) \in Nat
           /\ held' \in [Messages -> Seq(Fragment)]
<1> DEFINE m == call[c].msg
<1>1. m \in Messages /\ call[c].index \in Nat /\ call[c].id \in Nat /\ held[m] \in Seq(Fragment)
  BY DEF StreamTypeOK, CallState
<1>2. StreamId(m, call[c].id) \in Nat
  BY <1>1 DEF StreamId
<1>3. [index |-> call[c].index, id |-> StreamId(m, call[c].id)] \in Fragment
  BY <1>1, <1>2 DEF Fragment
<1>4. Append(held[m], [index |-> call[c].index, id |-> StreamId(m, call[c].id)]) \in Seq(Fragment)
  BY <1>1, <1>3
<1>5. held' = [held EXCEPT ![m] = Append(@, [index |-> call[c].index, id |-> StreamId(m, call[c].id)])]
  BY DEF TakeFragment
<1>6. held' \in [Messages -> Seq(Fragment)]
  BY <1>1, <1>4, <1>5 DEF StreamTypeOK
<1> QED  BY <1>1, <1>2, <1>6

LEMMA InitType == Init => StreamTypeOK /\ ReplyTypeOK
<1> SUFFICES ASSUME Init  PROVE StreamTypeOK /\ ReplyTypeOK
  OBVIOUS
<1>1. /\ call = [c \in Calls |-> NoCall("new")]
      /\ reply = [r \in Replies |->
             [at |-> "new", msg |-> AnyMessage, picture |-> FALSE, number |-> 0, tries |-> 0]]
  BY DEF Init
<1>2. NoCall("new") \in CallState /\ NoCall("new").at = "new"
  BY NoCallType
<1>3. call \in [Calls -> CallState] /\ \A c \in Calls : call[c].at = "new"
  BY <1>1, <1>2
<1>4. reply \in [Replies -> ReplyState]
  BY <1>1, AnyMessageType DEF ReplyState
<1>5. held \in [Messages -> Seq(Fragment)]
  BY DEF Init
<1>6. StreamTypeOK
  BY <1>3, <1>5 DEF Init, StreamTypeOK, Absent, NoStream
<1>7. ReplyTypeOK
  BY <1>4 DEF Init, ReplyTypeOK
<1> QED  BY <1>6, <1>7

LEMMA CallStepType ==
    ASSUME StreamTypeOK, NEW c \in Calls, CallStep(c)
    PROVE  StreamTypeOK'
<1>0. /\ call[c] \in CallState /\ call[c].msg \in Messages /\ call[c].id \in Nat
      /\ index[call[c].msg] \in Nat \cup {Absent}
  BY DEF StreamTypeOK, CallState
<1>1. ASSUME NEW m \in Messages, NEW final \in BOOLEAN, Begin(c, m, final)  PROVE StreamTypeOK'
  <2> DEFINE new == [at |-> "take", msg |-> m, final |-> final, id |-> related[m], index |-> Absent]
  <2>1. new \in CallState
    BY DEF CallState, StreamTypeOK, Absent
  <2>2. call' = [call EXCEPT ![c] = new] /\ UNCHANGED <<index, related, cleared, held>>
    BY <1>1 DEF Begin, platform
  <2>3. overtaken' \in [Messages -> BOOLEAN]
    BY <1>1 DEF Begin, StreamTypeOK
  <2>4. new.at = "take"
    OBVIOUS
  <2> HIDE DEF new
  <2> QED  BY <2>1, <2>2, <2>3, <2>4 DEF StreamTypeOK
<1>2. CASE TakeIndex(c)
  <2> DEFINE i == index[call[c].msg] + 1
  <2>1. i \in Nat
    BY <1>0 DEF Absent
  <2>2. index' = [index EXCEPT ![call[c].msg] = i] /\ index' \in [Messages -> Nat \cup {Absent}]
    BY <1>0, <1>2, <2>1 DEF TakeIndex, StreamTypeOK
  <2>3. index'[call[c].msg] = i
    BY <1>0, <2>2 DEF StreamTypeOK
  <2>4. call' = [call EXCEPT ![c].at = "post", ![c].index = index'[call[c].msg]]
    BY <1>2 DEF TakeIndex
  <2>5. call' = [call EXCEPT ![c].at = "post", ![c].index = i]
    BY <2>3, <2>4
  <2>6. UNCHANGED <<related, cleared, overtaken, held>>
    BY <1>2 DEF TakeIndex, history, platform
  <2> HIDE DEF i
  <2>7. call \in [Calls -> CallState]
    BY DEF StreamTypeOK
  <2>8. call' \in [Calls -> CallState]
    <3> DEFINE one == [call EXCEPT ![c].at = "post"]
    <3>1. one \in [Calls -> CallState]
      BY <1>0, <2>7 DEF CallState
    <3>2. [one[c] EXCEPT !.index = i] \in CallState
      <4> HIDE DEF one
      <4>1. one[c] \in CallState
        BY <3>1
      <4> QED  BY <2>1, <4>1 DEF CallState
    <3>3. call' = [one EXCEPT ![c].index = i]
      BY <2>5
    <3>4. call' = [one EXCEPT ![c] = [one[c] EXCEPT !.index = i]]
      BY <3>3
    <3> HIDE DEF one
    <3> QED  BY <3>1, <3>2, <3>4
  <2>9. \A d \in Calls : call'[d].at \in {"post", "failed", "update", "clear"} => call'[d].index \in Nat
    <3>1. call'[c].index = i
      BY <2>5, <2>7 DEF CallState
    <3>2. \A d \in Calls \ {c} : call'[d] = call[d]
      BY <2>5, <2>7
    <3> QED  BY <2>1, <3>1, <3>2 DEF StreamTypeOK
  <2> QED  BY <2>2, <2>6, <2>8, <2>9 DEF StreamTypeOK
<1>3. CASE Posted(c)
  <2>1. call[c].at = "post" /\ TakeFragment(c) /\ UNCHANGED <<index, related, cleared, overtaken>>
    BY <1>3 DEF Posted, history
  <2>2. call' = [call EXCEPT ![c].at = "update", ![c].id = StreamId(call[c].msg, call[c].id)]
    BY <1>3 DEF Posted
  <2> QED  BY <1>0, <2>1, <2>2, TakeFragmentType DEF StreamTypeOK, CallState
<1>4. CASE PostRefused(c)
  BY <1>0, <1>4 DEF PostRefused, Goto, StreamTypeOK, CallState, history, platform
<1>5. CASE PostAnswerLost(c)
  <2>1. call[c].at = "post" /\ TakeFragment(c) /\ UNCHANGED <<index, related, cleared, overtaken>>
    BY <1>5 DEF PostAnswerLost, history
  <2>2. call' = [call EXCEPT ![c].at = "failed"]
    BY <1>5 DEF PostAnswerLost, Goto
  <2> QED  BY <1>0, <2>1, <2>2, TakeFragmentType DEF StreamTypeOK, CallState
<1>6. CASE RollBack(c)
  <2>1. call' = [call EXCEPT ![c] = NoCall("done")] /\ call[c].at = "failed"
        /\ UNCHANGED <<related, cleared, overtaken, held>>
    BY <1>6 DEF RollBack, Return, history, platform
  <2>2. NoCall("done") \in CallState /\ NoCall("done").at = "done"
    BY NoCallType
  <2>3. index' \in [Messages -> Nat \cup {Absent}]
    BY <1>0, <1>6, <2>1 DEF RollBack, StreamTypeOK, Absent
  <2> QED  BY <2>1, <2>2, <2>3 DEF StreamTypeOK
<1>7. CASE UpdateRelatedID(c)
  <2>1. NoCall("done") \in CallState /\ NoCall("done").at = "done"
    BY NoCallType
  <2>2. \/ call' = [call EXCEPT ![c].at = "clear"]
        \/ call' = [call EXCEPT ![c] = NoCall("done")]
    BY <1>7 DEF UpdateRelatedID, Goto, Return
  <2>3. /\ call[c].at = "update"
        /\ related' = [related EXCEPT ![call[c].msg] = call[c].id]
        /\ UNCHANGED <<index, cleared, overtaken, held>>
    BY <1>7 DEF UpdateRelatedID, history, platform
  <2>4. PICK new \in CallState :
            /\ call' = [call EXCEPT ![c] = new]
            /\ new.at \in {"clear", "done"}
            /\ new.at = "clear" => new.index = call[c].index
    <3>1. CASE call' = [call EXCEPT ![c].at = "clear"]
      <4>1. [call[c] EXCEPT !.at = "clear"] \in CallState
        BY <1>0 DEF CallState
      <4>2. call' = [call EXCEPT ![c] = [call[c] EXCEPT !.at = "clear"]]
        BY <3>1 DEF StreamTypeOK
      <4>3. /\ [call[c] EXCEPT !.at = "clear"].at = "clear"
            /\ [call[c] EXCEPT !.at = "clear"].index = call[c].index
        BY <1>0 DEF CallState
      <4> QED  BY <4>1, <4>2, <4>3
    <3>2. CASE call' = [call EXCEPT ![c] = NoCall("done")]
      BY <2>1, <3>2
    <3> QED  BY <2>2, <3>1, <3>2
  <2>5. call' \in [Calls -> CallState]
    BY <2>4 DEF StreamTypeOK
  <2>6. \A d \in Calls : call'[d].at \in {"post", "failed", "update", "clear"} => call'[d].index \in Nat
    BY <2>3, <2>4 DEF StreamTypeOK
  <2> QED  BY <1>0, <2>3, <2>5, <2>6 DEF StreamTypeOK
<1>8. CASE ClearStreamState(c)
  <2>1. NoCall("done") \in CallState /\ NoCall("done").at = "done"
    BY NoCallType
  <2>2. /\ call' = [call EXCEPT ![c] = NoCall("done")]
        /\ index' = [index EXCEPT ![call[c].msg] = Absent]
        /\ related' = [related EXCEPT ![call[c].msg] = NoStream]
        /\ cleared' = [cleared EXCEPT ![call[c].msg] = TRUE]
        /\ UNCHANGED <<overtaken, held>>
    BY <1>8 DEF ClearStreamState, Return, platform
  <2> QED  BY <1>0, <2>1, <2>2 DEF StreamTypeOK, NoStream
<1> QED  BY <1>1, <1>2, <1>3, <1>4, <1>5, <1>6, <1>7, <1>8 DEF CallStep

LEMMA ReplyStepType ==
    ASSUME ReplyTypeOK, NEW r \in Replies, ReplyStep(r)
    PROVE  ReplyTypeOK'
<1>0. /\ reply[r] \in ReplyState /\ reply[r].msg \in Messages
      /\ reply[r].number \in Nat /\ reply[r].tries \in Nat
      /\ numbers \in [Messages -> SUBSET Nat] /\ delivered \in [Replies -> Nat]
      /\ seq \in [Messages -> Nat] /\ reply \in [Replies -> ReplyState]
  BY DEF ReplyTypeOK, ReplyState
<1>1. \A m \in Messages : \A at \in {"addUpload", "add"} : \A picture \in BOOLEAN :
          Get(r, m, at, picture) => ReplyTypeOK'
  <2> SUFFICES ASSUME NEW m \in Messages, NEW at \in {"addUpload", "add"}, NEW picture \in BOOLEAN,
                      Get(r, m, at, picture)
               PROVE  ReplyTypeOK'
    OBVIOUS
  <2>1. reply' \in [Replies -> ReplyState]
    BY <1>0 DEF Get, ReplyState
  <2>2. mixed' \subseteq Messages
    BY DEF Get, ReplyTypeOK
  <2> QED  BY <2>1, <2>2, <1>0 DEF Get, ReplyTypeOK, platform
<1>2. ASSUME NEW m \in Messages, NEW picture \in BOOLEAN, GetSeq(r, m, picture)  PROVE ReplyTypeOK'
  BY <1>1, <1>2 DEF GetSeq
<1>3. CASE GetSeqAgain(r)
  <2>1. reply[r].picture \in BOOLEAN /\ Get(r, reply[r].msg, "add", reply[r].picture)
    BY <1>0, <1>3 DEF GetSeqAgain, ReplyState
  <2> QED  BY <2>1, <1>0, <1>1
<1>4. CASE AddUploadSeq(r)
  BY <1>0, <1>4 DEF AddUploadSeq, ReplyTypeOK, ReplyState, platform
<1>5. CASE UploadFails(r)
  BY <1>0, <1>5 DEF UploadFails, ReplyTypeOK, ReplyState, platform
<1>6. CASE AddSeq(r)
  <2> DEFINE new == [reply[r] EXCEPT !.at = "post", !.picture = FALSE, !.number = Number(r)]
  <2>1. Number(r) \in Nat
    BY <1>0 DEF Number
  <2>2. new \in ReplyState
    BY <1>0, <2>1 DEF ReplyState
  <2>3. reply' = [reply EXCEPT ![r] = new]
    BY <1>0, <1>6 DEF AddSeq
  <2>4. reply' \in [Replies -> ReplyState]
    BY <1>0, <2>2, <2>3
  <2>5. seq' \in [Messages -> Nat]
    BY <1>0, <1>6 DEF AddSeq
  <2> QED  BY <1>0, <1>6, <2>4, <2>5 DEF AddSeq, ReplyTypeOK, platform
<1>7. TakeReply(r) => numbers' \in [Messages -> SUBSET Nat] /\ delivered' \in [Replies -> Nat]
  BY <1>0 DEF TakeReply
<1>8. CASE ReplyPosted(r)
  BY <1>0, <1>7, <1>8 DEF ReplyPosted, ReplyTypeOK, ReplyState
<1>9. CASE ReplyRefused(r)
  BY <1>0, <1>9 DEF ReplyRefused, ReplyTypeOK, ReplyState, platform
<1>10. CASE ReplyTimesOut(r)
  <2>1. Retry(r) \in ReplyState /\ [reply[r] EXCEPT !.at = "done"] \in ReplyState
    <3>1. \A at \in {"retry", "post", "done"}, n \in Nat :
              /\ [reply[r] EXCEPT !.tries = n, !.at = at] \in ReplyState
              /\ [reply[r] EXCEPT !.at = at] \in ReplyState
      BY <1>0 DEF ReplyState
    <3>2. reply[r].tries + 1 \in Nat
      BY <1>0
    <3>3. CASE reply[r].msg \in GroupMessages
      <4>1. Retry(r) = [reply[r] EXCEPT !.tries = reply[r].tries + 1, !.at = "retry"]
        BY <3>3 DEF Retry
      <4> QED  BY <3>1, <3>2, <4>1
    <3>4. CASE reply[r].msg \notin GroupMessages
      <4>1. Retry(r) = [reply[r] EXCEPT !.tries = reply[r].tries + 1, !.at = "post"]
        BY <3>4 DEF Retry
      <4> QED  BY <3>1, <3>2, <4>1
    <3> QED  BY <3>3, <3>4
  <2>2. reply' \in [Replies -> ReplyState]
    BY <1>0, <1>10, <2>1 DEF ReplyTimesOut
  <2>3. numbers' \in [Messages -> SUBSET Nat] /\ delivered' \in [Replies -> Nat]
    BY <1>0, <1>7, <1>10 DEF ReplyTimesOut, platform
  <2> QED  BY <2>2, <2>3, <1>10, <1>0 DEF ReplyTimesOut, ReplyTypeOK
<1> QED  BY <1>2, <1>3, <1>4, <1>5, <1>6, <1>8, <1>9, <1>10 DEF ReplyStep

(* Both ranges are kept by every step.                                      *)
LEMMA NextType ==
    ASSUME StreamTypeOK, ReplyTypeOK, [Next]_vars
    PROVE  StreamTypeOK' /\ ReplyTypeOK'
<1>1. ASSUME NEW c \in Calls, CallStep(c)  PROVE StreamTypeOK' /\ ReplyTypeOK'
  <2>1. ReplyTypeOK'
    BY <1>1, CallStepFrame DEF ordinary, ReplyTypeOK
  <2> QED  BY <2>1, <1>1, CallStepType
<1>2. ASSUME NEW r \in Replies, ReplyStep(r)  PROVE StreamTypeOK' /\ ReplyTypeOK'
  <2>1. StreamTypeOK'
    BY <1>2, ReplyStepFrame DEF stream, history, StreamTypeOK
  <2> QED  BY <2>1, <1>2, ReplyStepType
<1>3. CASE CleanupSeq
  BY <1>3 DEF CleanupSeq, StreamTypeOK, ReplyTypeOK, stream, history, platform
<1>4. CASE UNCHANGED vars
  BY <1>4 DEF vars, StreamTypeOK, ReplyTypeOK, stream, ordinary, history, platform
<1> QED  BY <1>1, <1>2, <1>3, <1>4, NextCases

(* Every variable keeps its range, for any number of messages and calls.    *)
THEOREM SpecTypeOK == Spec => []TypeOK
<1>1. StreamTypeOK /\ ReplyTypeOK => TypeOK
  BY DEF StreamTypeOK, ReplyTypeOK, TypeOK
<1> QED  BY InitType, NextType, <1>1, PTL DEF Spec

-----------------------------------------------------------------------------
(* What each step of a call does to the indices, to the platform and to     *)
(* the calls.                                                               *)

Others(c) == \A d \in Calls \ {c} : call'[d] = call[d]

LEMMA BeginEffect ==
    ASSUME StreamTypeOK, NEW c \in Calls, NEW m \in Messages, NEW final \in BOOLEAN,
           Begin(c, m, final)
    PROVE  /\ Others(c) /\ UNCHANGED <<index, cleared, held>>
           /\ call'[c].at = "take" /\ call'[c].msg = m
           /\ m \in Patient => \A d \in Calls : ~Unanswered(d, m)
BY DEF Begin, Others, StreamTypeOK, platform

LEMMA TakeIndexEffect ==
    ASSUME StreamTypeOK, NEW c \in Calls, TakeIndex(c)
    PROVE  /\ Others(c) /\ UNCHANGED <<cleared, held>>
           /\ call[c].at = "take" /\ call'[c].at = "post" /\ call'[c].msg = call[c].msg
           /\ call'[c].index = index[call[c].msg] + 1
           /\ index' = [index EXCEPT ![call[c].msg] = @ + 1]
<1>0. call[c] \in CallState /\ call[c].msg \in Messages /\ call \in [Calls -> CallState]
      /\ index \in [Messages -> Nat \cup {Absent}]
  BY DEF StreamTypeOK, CallState
<1>1. call[c].at = "take" /\ UNCHANGED <<cleared, held>>
      /\ index' = [index EXCEPT ![call[c].msg] = @ + 1]
      /\ call' = [call EXCEPT ![c].at = "post", ![c].index = index'[call[c].msg]]
  BY DEF TakeIndex, history, platform
<1>2. index'[call[c].msg] = index[call[c].msg] + 1
  BY <1>0, <1>1
<1>3. Others(c)
  BY <1>0, <1>1 DEF Others
<1>4. /\ call'[c].at = "post" /\ call'[c].msg = call[c].msg
      /\ call'[c].index = index'[call[c].msg]
  BY <1>0, <1>1 DEF CallState
<1> QED  BY <1>1, <1>2, <1>3, <1>4

(* After the request only the platform and the call itself changed; the     *)
(* platform has the fragment, or the call failed.                           *)
LEMMA PostEffect ==
    ASSUME StreamTypeOK, NEW c \in Calls,
           Posted(c) \/ PostRefused(c) \/ PostAnswerLost(c)
    PROVE  /\ Others(c) /\ UNCHANGED <<index, cleared>>
           /\ call[c].at = "post" /\ call'[c].at \in {"update", "failed"}
           /\ call'[c].msg = call[c].msg /\ call'[c].index = call[c].index
           /\ \/ held' = held /\ call'[c].at = "failed"
              \/ TakeFragment(c)
<1>0. call[c] \in CallState /\ call \in [Calls -> CallState]
  BY DEF StreamTypeOK
<1>1. CASE Posted(c)
  BY <1>0, <1>1 DEF Posted, Others, CallState, history
<1>2. CASE PostRefused(c)
  BY <1>0, <1>2 DEF PostRefused, Goto, Others, CallState, history, platform
<1>3. CASE PostAnswerLost(c)
  BY <1>0, <1>3 DEF PostAnswerLost, Goto, Others, CallState, history
<1> QED  BY <1>1, <1>2, <1>3

LEMMA RollBackEffect ==
    ASSUME StreamTypeOK, NEW c \in Calls, RollBack(c)
    PROVE  /\ Others(c) /\ UNCHANGED <<cleared, held>>
           /\ call[c].at = "failed" /\ call'[c].at = "done"
           /\ index' = [index EXCEPT ![call[c].msg] =
                            IF @ = call[c].index THEN @ - 1 ELSE @]
BY NoCallType DEF RollBack, Return, Others, StreamTypeOK, history, platform

LEMMA UpdateEffect ==
    ASSUME StreamTypeOK, NEW c \in Calls, UpdateRelatedID(c)
    PROVE  /\ Others(c) /\ UNCHANGED <<index, cleared, held>>
           /\ call[c].at = "update" /\ call'[c].at \in {"clear", "done"}
           /\ call'[c].at = "clear" => call'[c].msg = call[c].msg
<1>0. call[c] \in CallState /\ call \in [Calls -> CallState]
  BY DEF StreamTypeOK
<1>1. call[c].at = "update" /\ UNCHANGED <<index, cleared, held>>
  BY DEF UpdateRelatedID, history, platform
<1>2. CASE Goto(c, "clear")
  BY <1>0, <1>1, <1>2 DEF Goto, Others, CallState
<1>3. CASE Return(c)
  BY <1>0, <1>1, <1>3, NoCallType DEF Return, Others
<1> QED  BY <1>2, <1>3 DEF UpdateRelatedID

LEMMA ClearEffect ==
    ASSUME StreamTypeOK, NEW c \in Calls, ClearStreamState(c)
    PROVE  /\ Others(c) /\ UNCHANGED held
           /\ call[c].at = "clear" /\ call'[c].at = "done"
           /\ index' = [index EXCEPT ![call[c].msg] = Absent]
           /\ cleared' = [cleared EXCEPT ![call[c].msg] = TRUE]
BY NoCallType DEF ClearStreamState, Return, Others, StreamTypeOK, platform

-----------------------------------------------------------------------------
(* Until a message's stream is cleared, a call in flight has an index that  *)
(* was taken and not given back: none is above the last one taken.  That is *)
(* why the next index taken is a new one, and why at most the call with the *)
(* highest index gives it back.                                             *)
TakenInv ==
    \A c \in Calls :
        InFlight(c) /\ ~cleared[call[c].msg] => call[c].index <= index[call[c].msg]

DistinctInv == InFlightDistinct /\ TakenInv

LEMMA DistinctInit == Init => DistinctInv
BY DEF Init, DistinctInv, InFlightDistinct, TakenInv, InFlight, NoCall

LEMMA DistinctCallStep ==
    ASSUME StreamTypeOK, StreamTypeOK', DistinctInv, NEW c \in Calls, CallStep(c)
    PROVE  DistinctInv'
<1> USE DEF DistinctInv
<1>0. /\ call[c].msg \in Messages
      /\ \A d \in Calls : /\ call[d].msg \in Messages
                          /\ call'[d].msg \in Messages
                          /\ InFlight(d) => call[d].index \in Nat
                          /\ InFlight(d)' => call'[d].index \in Nat
      /\ index \in [Messages -> Nat \cup {Absent}]
      /\ cleared \in [Messages -> BOOLEAN]
  BY DEF StreamTypeOK, CallState, InFlight
<1>1. \A m \in Messages : index[m] \in Int
  BY <1>0 DEF Absent
<1>2. ASSUME Others(c), ~InFlight(c)', cleared' = cleared,
             \A d \in Calls \ {c} : InFlight(d) /\ ~cleared[call[d].msg]
                 => call[d].index <= index'[call[d].msg]
      PROVE  DistinctInv'
  BY <1>2 DEF Others, InFlightDistinct, TakenInv, InFlight
<1>3. ASSUME NEW m \in Messages, NEW final \in BOOLEAN, Begin(c, m, final)  PROVE DistinctInv'
  <2>1. ~InFlight(c)'
    BY <1>3, BeginEffect DEF InFlight
  <2> QED  BY <2>1, <1>2, <1>3, BeginEffect DEF TakenInv
<1>4. CASE TakeIndex(c)
  <2> DEFINE m == call[c].msg
  <2>1. /\ Others(c) /\ cleared' = cleared /\ call'[c].msg = m /\ call'[c].at = "post"
        /\ call'[c].index = index[m] + 1 /\ index' = [index EXCEPT ![m] = @ + 1]
    BY <1>4, TakeIndexEffect
  <2>2. \A d \in Calls : InFlight(d)' /\ ~cleared[call'[d].msg]
            => call'[d].index <= index'[call'[d].msg]
    BY <1>0, <1>1, <2>1 DEF Others, TakenInv, InFlight
  <2>3. \A d \in Calls \ {c} : InFlight(d)' /\ ~cleared[m] /\ call'[d].msg = m
            => call'[d].index # call'[c].index
    <3> SUFFICES ASSUME NEW d \in Calls \ {c}, InFlight(d)', ~cleared[m], call'[d].msg = m
                 PROVE  call'[d].index # call'[c].index
      OBVIOUS
    <3>1. call'[d] = call[d] /\ InFlight(d)
      BY <2>1 DEF Others, InFlight
    <3>2. call[d].index <= index[m] /\ call[d].index \in Nat /\ index[m] \in Int
      BY <1>0, <1>1, <3>1 DEF TakenInv
    <3> QED  BY <2>1, <3>1, <3>2
  <2>4. TakenInv'
    BY <2>1, <2>2 DEF TakenInv
  <2>5. InFlightDistinct'
    BY <2>1, <2>3 DEF Others, InFlightDistinct, InFlight
  <2> QED  BY <2>4, <2>5
<1>5. CASE Posted(c) \/ PostRefused(c) \/ PostAnswerLost(c)
  <2>1. /\ Others(c) /\ UNCHANGED <<index, cleared>> /\ InFlight(c)
        /\ call'[c].msg = call[c].msg /\ call'[c].index = call[c].index
    BY <1>5, PostEffect DEF InFlight
  <2>2. \A d \in Calls : /\ call'[d].msg = call[d].msg /\ call'[d].index = call[d].index
                         /\ InFlight(d)' => InFlight(d)
    BY <2>1 DEF Others, InFlight
  <2> QED  BY <2>1, <2>2 DEF InFlightDistinct, TakenInv
<1>6. CASE RollBack(c)
  <2> DEFINE m == call[c].msg
  <2>1. /\ Others(c) /\ cleared' = cleared /\ InFlight(c) /\ ~InFlight(c)'
        /\ index' = [index EXCEPT ![m] = IF @ = call[c].index THEN @ - 1 ELSE @]
    BY <1>6, RollBackEffect DEF InFlight
  <2>2. ASSUME NEW d \in Calls \ {c}, InFlight(d), ~cleared[call[d].msg]
        PROVE  call[d].index <= index'[call[d].msg]
    <3>1. call[d].index <= index[call[d].msg] /\ call[d].index \in Nat
          /\ index[call[d].msg] \in Int
      BY <2>2, <1>0, <1>1 DEF TakenInv
    <3>2. CASE call[d].msg = m
      <4>1. call[d].index # call[c].index
        BY <2>1, <2>2, <3>2 DEF InFlightDistinct
      <4>2. index'[m] = IF index[m] = call[c].index THEN index[m] - 1 ELSE index[m]
        BY <1>0, <2>1
      <4> QED  BY <3>1, <3>2, <4>1, <4>2
    <3>3. CASE call[d].msg # m
      BY <1>0, <2>1, <3>1, <3>3
    <3> QED  BY <3>2, <3>3
  <2> QED  BY <1>2, <2>1, <2>2
<1>7. CASE UpdateRelatedID(c)
  <2>1. ~InFlight(c)'
    BY <1>7, UpdateEffect DEF InFlight
  <2> QED  BY <2>1, <1>2, <1>7, UpdateEffect DEF TakenInv
<1>8. CASE ClearStreamState(c)
  <2> DEFINE m == call[c].msg
  <2>1. /\ Others(c) /\ ~InFlight(c)'
        /\ index' = [index EXCEPT ![m] = Absent]
        /\ cleared' = [cleared EXCEPT ![m] = TRUE]
    BY <1>8, ClearEffect DEF InFlight
  <2>2. \A d \in Calls : InFlight(d)' =>
            /\ d # c /\ call'[d] = call[d] /\ InFlight(d)
            /\ ~cleared'[call[d].msg] => ~cleared[call[d].msg] /\ call[d].msg # m
    BY <1>0, <2>1 DEF Others, InFlight
  <2> QED  BY <1>0, <2>1, <2>2 DEF InFlightDistinct, TakenInv
<1> QED  BY <1>3, <1>4, <1>5, <1>6, <1>7, <1>8 DEF CallStep

LEMMA DistinctNext ==
    ASSUME StreamTypeOK, StreamTypeOK', DistinctInv, [Next]_vars
    PROVE  DistinctInv'
<1>1. CASE UNCHANGED stream
  BY <1>1 DEF stream, history, DistinctInv, InFlightDistinct, TakenInv, InFlight
<1>2. (\E r \in Replies : ReplyStep(r)) \/ CleanupSeq \/ UNCHANGED vars => UNCHANGED stream
  BY ReplyStepFrame DEF CleanupSeq, vars
<1> QED  BY <1>1, <1>2, DistinctCallStep, NextCases

(* Until a stream of the message was cleared, no two calls in flight have   *)
(* the same index: rollbackIndex lowers the index only for the call that    *)
(* took the last one.                                                       *)
THEOREM SpecInFlightDistinct == Spec => []InFlightDistinct
<1>1. Spec => []StreamTypeOK
  BY InitType, NextType, PTL DEF Spec
<1>2. DistinctInv => InFlightDistinct
  BY DEF DistinctInv
<1> QED  BY <1>1, <1>2, DistinctInit, DistinctNext, PTL DEF Spec

-----------------------------------------------------------------------------
(* An application that awaits each call has at most one that is not yet     *)
(* answered.  The fragments of its message are 0, 1, 2, ...; the last index *)
(* taken and not given back is of a fragment that the platform has, unless  *)
(* that one call is in flight: then it is the next one at most.             *)
GapFree(m) == \A i \in DOMAIN held[m] : held[m][i].index = i - 1

OneCall(m) == \A c, d \in Calls : Unanswered(c, m) /\ Unanswered(d, m) => c = d

Behind(m) ==
    /\ (\A c \in Calls : InFlight(c) => call[c].msg # m) => index[m] <= Len(held[m]) - 1
    /\ \A c \in Calls : InFlight(c) /\ call[c].msg = m =>
           call[c].index <= Len(held[m]) /\ index[m] \in {call[c].index, Absent}

StreamInv == \A m \in Patient : GapFree(m) /\ OneCall(m) /\ Behind(m)

LEMMA StreamInit == Init => StreamInv
<1> SUFFICES ASSUME Init, NEW m \in Patient  PROVE GapFree(m) /\ OneCall(m) /\ Behind(m)
  BY DEF StreamInv
<1>1. m \in Messages
  BY PrivateStreamAssumption
<1>2. index[m] = -1 /\ held[m] = << >> /\ \A c \in Calls : call[c].at = "new"
  BY <1>1 DEF Init, Absent, NoCall
<1>3. GapFree(m)
  BY <1>2 DEF GapFree
<1> QED  BY <1>2, <1>3 DEF OneCall, Behind, InFlight, Unanswered, InCall

(* The platform takes only the fragment that comes next.                    *)
LEMMA TakesNext ==
    ASSUME StreamTypeOK, StreamInv, NEW c \in Calls, call[c].at = "post",
           call[c].msg \in Patient, TakeFragment(c)
    PROVE  call[c].index = Len(held[call[c].msg])
<1> DEFINE m == call[c].msg
<1>1. /\ m \in Messages /\ call[c].index \in Nat /\ held[m] \in Seq(Fragment)
      /\ GapFree(m) /\ call[c].index <= Len(held[m]) /\ Reserved \in Nat
  BY PrivateStreamAssumption DEF StreamTypeOK, CallState, StreamInv, Behind, InFlight
<1>2. \A i \in DOMAIN held[m] : FragmentNumber(call[c].index) # FragmentNumber(held[m][i].index)
  BY DEF TakeFragment, SeenNumbers
<1>3. \A i \in 1 .. Len(held[m]) : call[c].index # i - 1
  <2> SUFFICES ASSUME NEW i \in 1 .. Len(held[m])  PROVE call[c].index # i - 1
    OBVIOUS
  <2>1. i \in DOMAIN held[m]
    BY <1>1
  <2>2. call[c].index + Reserved # held[m][i].index + Reserved
    BY <1>2, <2>1 DEF FragmentNumber
  <2>3. held[m][i].index = i - 1
    BY <1>1, <2>1 DEF GapFree
  <2> QED  BY <2>2, <2>3
<1>4. ASSUME call[c].index # Len(held[m])  PROVE FALSE
  <2>1. call[c].index + 1 \in 1 .. Len(held[m])
    BY <1>1, <1>4
  <2> QED  BY <1>1, <1>3, <2>1
<1> QED  BY <1>4

(* It then has one fragment more of that message and nothing else changed.  *)
LEMMA TakeEffect ==
    ASSUME StreamTypeOK, NEW c \in Calls, call[c].at = "post", TakeFragment(c)
    PROVE  \E f \in Fragment :
               /\ f.index = call[c].index
               /\ held' = [held EXCEPT ![call[c].msg] = Append(@, f)]
<1> DEFINE f == [index |-> call[c].index, id |-> StreamId(call[c].msg, call[c].id)]
<1>1. f \in Fragment
  BY TakeFragmentType DEF Fragment
<1>2. held' = [held EXCEPT ![call[c].msg] = Append(@, f)]
  BY DEF TakeFragment
<1> QED  BY <1>1, <1>2

(* A step of a call leaves every other message alone.                       *)
LEMMA StreamInvStep ==
    ASSUME StreamTypeOK, StreamTypeOK', StreamInv, NEW c \in Calls, CallStep(c),
           NEW m \in Patient
    PROVE  (GapFree(m) /\ OneCall(m) /\ Behind(m))'
<1>0. /\ m \in Messages /\ GapFree(m) /\ OneCall(m) /\ Behind(m)
      /\ held[m] \in Seq(Fragment) /\ Len(held[m]) \in Nat
      /\ index[m] \in Int
      /\ call[c].msg \in Messages
      /\ \A d \in Calls : InFlight(d) => call[d].index \in Nat
      /\ index \in [Messages -> Nat \cup {Absent}]
      /\ held \in [Messages -> Seq(Fragment)]
  <2>1. m \in Messages /\ GapFree(m) /\ OneCall(m) /\ Behind(m)
    BY PrivateStreamAssumption DEF StreamInv
  <2>2. index \in [Messages -> Nat \cup {Absent}] /\ held \in [Messages -> Seq(Fragment)]
    BY DEF StreamTypeOK
  <2>3. call[c].msg \in Messages
    BY DEF StreamTypeOK, CallState
  <2>4. \A d \in Calls : InFlight(d) => call[d].index \in Nat
    BY DEF StreamTypeOK, InFlight
  <2>5. held[m] \in Seq(Fragment)
    BY <2>1, <2>2
  <2>6. Len(held[m]) \in Nat
    BY <2>5
  <2>7. index[m] \in Int
    BY <2>1, <2>2 DEF Absent
  <2> QED  BY <2>1, <2>2, <2>3, <2>4, <2>5, <2>6, <2>7
<1> USE DEF Others, InFlight, Unanswered, InCall
<1>1. ASSUME NEW n \in Messages, NEW final \in BOOLEAN, Begin(c, n, final)
      PROVE  (GapFree(m) /\ OneCall(m) /\ Behind(m))'
  <2>1. /\ Others(c) /\ UNCHANGED <<index, cleared, held>>
        /\ call'[c].at = "take" /\ call'[c].msg = n
        /\ n \in Patient => \A d \in Calls : ~Unanswered(d, n)
    BY <1>1, BeginEffect
  <2>2. \A d \in Calls : Unanswered(d, m)' => (d # c /\ Unanswered(d, m)) \/ (n = m /\ d = c)
    BY <2>1
  <2>3. OneCall(m)'
    <3>1. CASE n = m
      <4>1. \A d \in Calls : ~Unanswered(d, m)
        BY <2>1, <3>1
      <4> QED  BY <2>2, <4>1 DEF OneCall
    <3>2. CASE n # m
      BY <1>0, <2>2, <3>2 DEF OneCall
    <3> QED  BY <3>1, <3>2
  <2>5. call[c].at = "new"
    BY <1>1 DEF Begin
  <2>6. Behind(m)'
    BY <1>0, <2>1, <2>5 DEF Behind
  <2> QED  BY <1>0, <2>1, <2>3, <2>6 DEF GapFree
<1>2. CASE TakeIndex(c)
  <2>1. /\ Others(c) /\ UNCHANGED <<cleared, held>>
        /\ call[c].at = "take" /\ call'[c].at = "post" /\ call'[c].msg = call[c].msg
        /\ call'[c].index = index[call[c].msg] + 1
        /\ index' = [index EXCEPT ![call[c].msg] = @ + 1]
    BY <1>2, TakeIndexEffect
  <2>2. OneCall(m)'
    <3>1. \A d \in Calls : Unanswered(d, m)' => Unanswered(d, m)
      BY <2>1
    <3> QED  BY <1>0, <3>1 DEF OneCall
  <2>3. CASE call[c].msg = m
    <3>1. \A d \in Calls \ {c} : InFlight(d) => call[d].msg # m
      BY <1>0, <2>1, <2>3 DEF OneCall
    <3>2. index[m] <= Len(held[m]) - 1
      BY <1>0, <2>1, <3>1 DEF Behind
    <3>3. call'[c].index = index'[m] /\ call'[c].index <= Len(held'[m])
      BY <1>0, <2>1, <2>3, <3>2
    <3>4. Behind(m)'
      BY <2>1, <2>3, <3>1, <3>3 DEF Behind
    <3> QED  BY <1>0, <2>1, <2>2, <3>4 DEF GapFree
  <2>4. CASE call[c].msg # m
    <3>1. index'[m] = index[m]
      BY <1>0, <2>1, <2>4
    <3>2. Behind(m)'
      BY <1>0, <2>1, <2>4, <3>1 DEF Behind
    <3> QED  BY <1>0, <2>1, <2>2, <3>2 DEF GapFree
  <2> QED  BY <2>3, <2>4
<1>3. CASE Posted(c) \/ PostRefused(c) \/ PostAnswerLost(c)
  <2>1. /\ Others(c) /\ UNCHANGED <<index, cleared>>
        /\ call[c].at = "post" /\ call'[c].at \in {"update", "failed"}
        /\ call'[c].msg = call[c].msg /\ call'[c].index = call[c].index
        /\ \/ held' = held /\ call'[c].at = "failed"
           \/ TakeFragment(c)
    BY <1>3, PostEffect
  <2>2. OneCall(m)'
    BY <1>0, <2>1 DEF OneCall
  <2>3. CASE held' = held /\ call'[c].at = "failed"
    <3>1. Behind(m)'
      BY <1>0, <2>1, <2>3 DEF Behind
    <3> QED  BY <1>0, <2>2, <2>3, <3>1 DEF GapFree
  <2>4. CASE TakeFragment(c)
    <3>1. PICK f \in Fragment : f.index = call[c].index
              /\ held' = [held EXCEPT ![call[c].msg] = Append(@, f)]
      BY <2>1, <2>4, TakeEffect
    <3>2. CASE call[c].msg # m
      <4>1. held'[m] = held[m]
        BY <1>0, <3>1, <3>2
      <4>2. Behind(m)'
        BY <1>0, <2>1, <3>2, <4>1 DEF Behind
      <4> QED  BY <1>0, <2>2, <4>1, <4>2 DEF GapFree
    <3>3. CASE call[c].msg = m
      <4>1. call[c].index = Len(held[m])
        BY <2>1, <2>4, <3>3, TakesNext
      <4>2. held'[m] = Append(held[m], f)
        BY <1>0, <3>1, <3>3
      <4>3. Len(held'[m]) = Len(held[m]) + 1
        BY <1>0, <4>2
      <4>4. GapFree(m)'
        BY <1>0, <3>1, <4>1, <4>2 DEF GapFree
      <4>5. \A d \in Calls : InFlight(d)' /\ call'[d].msg = m => d = c
        BY <1>0, <2>1, <3>3 DEF OneCall
      <4>6. index[m] \in {call[c].index, Absent}
        BY <1>0, <2>1, <3>3 DEF Behind
      <4>7. Behind(m)'
        BY <1>0, <2>1, <3>3, <4>1, <4>3, <4>5, <4>6 DEF Behind, Absent
      <4> QED  BY <2>2, <4>4, <4>7
    <3> QED  BY <3>2, <3>3
  <2> QED  BY <2>1, <2>3, <2>4
<1>4. CASE RollBack(c)
  <2>1. /\ Others(c) /\ UNCHANGED <<cleared, held>>
        /\ call[c].at = "failed" /\ call'[c].at = "done"
        /\ index' = [index EXCEPT ![call[c].msg] = IF @ = call[c].index THEN @ - 1 ELSE @]
    BY <1>4, RollBackEffect
  <2>2. OneCall(m)'
    BY <1>0, <2>1 DEF OneCall
  <2>3. CASE call[c].msg # m
    <3>1. index'[m] = index[m]
      BY <1>0, <2>1, <2>3
    <3>2. Behind(m)'
      BY <1>0, <2>1, <2>3, <3>1 DEF Behind
    <3> QED  BY <1>0, <2>1, <2>2, <3>2 DEF GapFree
  <2>4. CASE call[c].msg = m
    <3>1. \A d \in Calls : InFlight(d)' => call'[d].msg # m
      BY <1>0, <2>1, <2>4 DEF OneCall
    <3>2. call[c].index <= Len(held[m]) /\ index[m] \in {call[c].index, Absent}
          /\ call[c].index \in Nat
      BY <1>0, <2>1, <2>4 DEF Behind
    <3>3. index'[m] = IF index[m] = call[c].index THEN index[m] - 1 ELSE index[m]
      BY <1>0, <2>1, <2>4
    <3>4. index'[m] <= Len(held'[m]) - 1
      BY <1>0, <2>1, <3>2, <3>3 DEF Absent
    <3>5. Behind(m)'
      BY <3>1, <3>4 DEF Behind
    <3> QED  BY <1>0, <2>1, <2>2, <3>5 DEF GapFree
  <2> QED  BY <2>3, <2>4
<1>5. CASE UpdateRelatedID(c)
  <2>1. /\ Others(c) /\ UNCHANGED <<index, cleared, held>>
        /\ call[c].at = "update" /\ call'[c].at \in {"clear", "done"}
    BY <1>5, UpdateEffect
  <2>2. OneCall(m)'
    BY <1>0, <2>1 DEF OneCall
  <2>3. Behind(m)'
    BY <1>0, <2>1 DEF Behind
  <2> QED  BY <1>0, <2>1, <2>2, <2>3 DEF GapFree
<1>6. CASE ClearStreamState(c)
  <2>1. /\ Others(c) /\ UNCHANGED held
        /\ call[c].at = "clear" /\ call'[c].at = "done"
        /\ index' = [index EXCEPT ![call[c].msg] = Absent]
    BY <1>6, ClearEffect
  <2>2. OneCall(m)'
    BY <1>0, <2>1 DEF OneCall
  <2>3. index'[m] \in {index[m], Absent}
    BY <1>0, <2>1
  <2>4. \A d \in Calls : InFlight(d)' <=> InFlight(d)
    BY <2>1
  <2>5. \A d \in Calls : InFlight(d) => call'[d] = call[d]
    BY <2>1
  <2>6. Behind(m)'
    <3>1. CASE index'[m] = index[m]
      BY <1>0, <2>1, <2>4, <2>5, <3>1 DEF Behind
    <3>2. CASE index'[m] = Absent
      <4>1. index'[m] <= Len(held[m]) - 1
        BY <1>0, <3>2 DEF Absent
      <4>2. \A d \in Calls : InFlight(d) /\ call[d].msg = m => call[d].index <= Len(held[m])
        BY <1>0 DEF Behind
      <4> QED  BY <2>1, <2>4, <2>5, <3>2, <4>1, <4>2 DEF Behind
    <3> QED  BY <2>3, <3>1, <3>2
  <2> QED  BY <1>0, <2>1, <2>2, <2>6 DEF GapFree
<1> QED  BY <1>1, <1>2, <1>3, <1>4, <1>5, <1>6 DEF CallStep

LEMMA StreamNextInv ==
    ASSUME StreamTypeOK, StreamTypeOK', StreamInv, [Next]_vars
    PROVE  StreamInv'
<1>1. CASE UNCHANGED <<stream, held>>
  BY <1>1 DEF stream, history, StreamInv, GapFree, OneCall, Behind, InFlight, Unanswered, InCall
<1>2. (\E r \in Replies : ReplyStep(r)) \/ CleanupSeq \/ UNCHANGED vars => UNCHANGED <<stream, held>>
  BY ReplyStepFrame DEF CleanupSeq, vars, platform
<1>3. ASSUME NEW c \in Calls, CallStep(c)  PROVE StreamInv'
  BY <1>3, StreamInvStep DEF StreamInv
<1> QED  BY <1>1, <1>2, <1>3, NextCases

-----------------------------------------------------------------------------
(* The platform's fragments as FragmentStream sees them.                    *)
Indices(s) == [i \in DOMAIN s |-> s[i].index]

LEMMA IndicesEmpty == Indices(<< >>) = << >>
BY DEF Indices

LEMMA IndicesAppend ==
    ASSUME NEW s \in Seq(Fragment), NEW f \in Fragment, f.index = Len(s)
    PROVE  Indices(Append(s, f)) = Append(Indices(s), Len(Indices(s)))
<1>1. Indices(s) \in Seq(Nat) /\ Len(Indices(s)) = Len(s)
  <2>1. DOMAIN s = 1 .. Len(s) /\ Len(s) \in Nat /\ \A i \in 1 .. Len(s) : s[i] \in Fragment
    OBVIOUS
  <2>2. \A i \in 1 .. Len(s) : s[i].index \in Nat
    BY <2>1 DEF Fragment
  <2>3. Indices(s) = [i \in 1 .. Len(s) |-> s[i].index]
    BY <2>1 DEF Indices
  <2> QED  BY <2>1, <2>2, <2>3
<1>2. DOMAIN Append(s, f) = 1 .. Len(s) + 1
      /\ DOMAIN Append(Indices(s), Len(s)) = 1 .. Len(s) + 1
  BY <1>1
<1>3. \A i \in 1 .. Len(s) + 1 : Indices(Append(s, f))[i] = Append(Indices(s), Len(s))[i]
  BY <1>1, <1>2 DEF Indices
<1>4. /\ Indices(Append(s, f)) = [i \in 1 .. Len(s) + 1 |-> Indices(Append(s, f))[i]]
      /\ Append(Indices(s), Len(s)) = [i \in 1 .. Len(s) + 1 |-> Append(Indices(s), Len(s))[i]]
  BY <1>1, <1>2 DEF Indices
<1> QED  BY <1>1, <1>3, <1>4

LEMMA RefinesInit == Init => Stream!Init
<1> SUFFICES ASSUME Init  PROVE Fragments = [m \in Patient |-> << >>]
  BY DEF Stream!Init
<1>1. \A m \in Patient : held[m] = << >>
  BY PrivateStreamAssumption DEF Init
<1> QED  BY <1>1, IndicesEmpty DEF Fragments, Indices

(* A fragment that arrives is the next one of FragmentStream; every other   *)
(* step is invisible there.                                                 *)
LEMMA RefinesNext ==
    ASSUME StreamTypeOK, StreamInv, [Next]_vars
    PROVE  [Stream!Next]_Fragments
<1>1. CASE UNCHANGED held
  BY <1>1 DEF Fragments
<1>2. (\E r \in Replies : ReplyStep(r)) \/ CleanupSeq \/ UNCHANGED vars => UNCHANGED held
  BY ReplyStepFrame DEF CleanupSeq, vars, platform
<1>3. ASSUME NEW c \in Calls, CallStep(c), held' # held
      PROVE  call[c].at = "post" /\ TakeFragment(c)
  BY <1>3, BeginEffect, TakeIndexEffect, PostEffect, RollBackEffect, UpdateEffect, ClearEffect
     DEF CallStep
<1>4. ASSUME NEW c \in Calls, call[c].at = "post", TakeFragment(c)
      PROVE  [Stream!Next]_Fragments
  <2> DEFINE m == call[c].msg
  <2>1. PICK f \in Fragment : f.index = call[c].index
            /\ held' = [held EXCEPT ![m] = Append(@, f)]
    BY <1>4, TakeEffect
  <2>2. m \in Messages /\ held \in [Messages -> Seq(Fragment)] /\ Patient \subseteq Messages
    BY PrivateStreamAssumption DEF StreamTypeOK, CallState
  <2>3. Fragments = [n \in Patient |-> Indices(held[n])]
        /\ Fragments' = [n \in Patient |-> Indices(held'[n])]
    BY DEF Fragments, Indices
  <2>4. CASE m \notin Patient
    <3>1. \A n \in Patient : held'[n] = held[n]
      BY <2>1, <2>2, <2>4
    <3> QED  BY <2>3, <3>1
  <2>5. CASE m \in Patient
    <3>1. f.index = Len(held[m])
      BY <1>4, <2>1, <2>5, TakesNext
    <3>2. Indices(held'[m]) = Append(Indices(held[m]), Len(Indices(held[m])))
      BY <2>1, <2>2, <3>1, IndicesAppend
    <3>3. \A n \in Patient \ {m} : held'[n] = held[n]
      BY <2>1, <2>2
    <3>4. Fragments' = [Fragments EXCEPT ![m] = Append(@, Len(@))]
      BY <2>3, <2>5, <3>2, <3>3
    <3> QED  BY <2>5, <3>4 DEF Stream!Next, Stream!Arrive
  <2> QED  BY <2>4, <2>5
<1> QED  BY <1>1, <1>2, <1>3, <1>4, NextCases

(* To an application that awaits each call a stream arrives without a gap   *)
(* and without a repetition: the calls of HandleSendPrivateMsgSSE, with     *)
(* their indices, rollbacks and clearings, implement FragmentStream.        *)
THEOREM SpecContiguous == Spec => ContiguousSpec
<1>1. Spec => []StreamTypeOK
  BY InitType, NextType, PTL DEF Spec
<1>2. Init => StreamInv /\ Stream!Init
  BY StreamInit, RefinesInit
<1>3. StreamTypeOK /\ StreamTypeOK' /\ StreamInv /\ [Next]_vars
          => StreamInv' /\ [Stream!Next]_Fragments
  BY StreamNextInv, RefinesNext
<1> QED  BY <1>1, <1>2, <1>3, PTL DEF Spec, ContiguousSpec, Stream!Spec

-----------------------------------------------------------------------------
(* What makes private replies be delivered once: until its number is taken  *)
(* a reply was not sent; all tries then carry that number, and the platform *)
(* remembers it with the message once it took the reply.                    *)
OnceInv ==
    \A r \in Replies :
        /\ reply[r].at \in {"new", "addUpload", "upload"} => delivered[r] = 0
        /\ reply[r].msg \notin GroupMessages =>
              /\ reply[r].at # "retry"
              /\ delivered[r] <= 1
              /\ reply[r].at = "add" => delivered[r] = 0
              /\ reply[r].at = "post" /\ delivered[r] # 0
                     => reply[r].number \in numbers[reply[r].msg]

LEMMA OnceStep ==
    ASSUME ReplyTypeOK, OnceInv, NEW r \in Replies, ReplyStep(r)
    PROVE  OnceInv'
<1>0. /\ reply \in [Replies -> ReplyState] /\ reply[r] \in ReplyState
      /\ reply[r].msg \in Messages
      /\ \A q \in Replies : reply[q].msg \in Messages
      /\ delivered \in [Replies -> Nat] /\ numbers \in [Messages -> SUBSET Nat]
  BY DEF ReplyTypeOK, ReplyState
<1> DEFINE Alone == \A q \in Replies \ {r} : reply'[q] = reply[q] /\ delivered'[q] = delivered[q]
           Mine == /\ reply'[r].at \in {"new", "addUpload", "upload"} => delivered'[r] = 0
                   /\ reply'[r].msg \notin GroupMessages =>
                         /\ reply'[r].at # "retry"
                         /\ delivered'[r] <= 1
                         /\ reply'[r].at = "add" => delivered'[r] = 0
                         /\ reply'[r].at = "post" /\ delivered'[r] # 0
                                => reply'[r].number \in numbers'[reply'[r].msg]
<1>1. ASSUME Alone, Mine, \A m \in Messages : numbers[m] \subseteq numbers'[m]
      PROVE  OnceInv'
  BY <1>0, <1>1 DEF OnceInv
<1>2. CASE (\E m \in Messages, picture \in BOOLEAN : GetSeq(r, m, picture)) \/ GetSeqAgain(r)
  <2>1. UNCHANGED <<delivered, numbers>>
    BY <1>2 DEF GetSeq, GetSeqAgain, Get, platform
  <2>2. Alone
    BY <1>0, <1>2, <2>1 DEF GetSeq, GetSeqAgain, Get
  <2>3. CASE \E m \in Messages, picture \in BOOLEAN : GetSeq(r, m, picture)
    <3>1. reply[r].at = "new" /\ reply'[r].at \in {"addUpload", "add"}
      BY <1>0, <2>3 DEF GetSeq, Get, ReplyState
    <3>2. delivered'[r] = 0
      BY <2>1, <3>1 DEF OnceInv
    <3>3. Mine
      BY <3>1, <3>2
    <3> QED  BY <1>1, <2>1, <2>2, <3>3
  <2>4. CASE GetSeqAgain(r)
    <3>1. reply[r].at \in {"upload", "retry"} /\ reply'[r].at = "add"
          /\ reply'[r].msg = reply[r].msg
      BY <1>0, <2>4 DEF GetSeqAgain, Get, ReplyState
    <3>2. reply[r].msg \notin GroupMessages => delivered'[r] = 0
      BY <2>1, <3>1 DEF OnceInv
    <3>3. Mine
      BY <3>1, <3>2
    <3> QED  BY <1>1, <2>1, <2>2, <3>3
  <2> QED  BY <1>2, <2>3, <2>4
<1>3. CASE AddUploadSeq(r)
  <2>1. /\ UNCHANGED <<delivered, numbers>> /\ Alone
        /\ reply[r].at = "addUpload" /\ reply'[r].at = "upload"
    BY <1>0, <1>3 DEF AddUploadSeq, platform, ReplyState
  <2>2. Mine
    BY <2>1 DEF OnceInv
  <2> QED  BY <1>1, <2>1, <2>2
<1>4. CASE UploadFails(r) \/ ReplyRefused(r)
  <2>1. /\ UNCHANGED <<delivered, numbers>> /\ Alone
        /\ reply'[r].at = "done" /\ reply'[r].msg = reply[r].msg
    BY <1>0, <1>4 DEF UploadFails, ReplyRefused, platform, ReplyState
  <2>2. Mine
    BY <2>1 DEF OnceInv
  <2> QED  BY <1>1, <2>1, <2>2
<1>5. CASE AddSeq(r)
  <2>1. /\ UNCHANGED <<delivered, numbers>> /\ Alone
        /\ reply[r].at = "add" /\ reply'[r].at = "post" /\ reply'[r].msg = reply[r].msg
    BY <1>0, <1>5 DEF AddSeq, platform, ReplyState
  <2>2. Mine
    BY <2>1 DEF OnceInv
  <2> QED  BY <1>1, <2>1, <2>2
<1>6. TakeReply(r) =>
        /\ reply[r].number \notin numbers[reply[r].msg]
        /\ numbers' = [numbers EXCEPT ![reply[r].msg] = @ \cup {reply[r].number}]
        /\ delivered' = [delivered EXCEPT ![r] = @ + 1]
  BY DEF TakeReply, SeenNumbers
<1>7. ASSUME TakeReply(r), reply[r].at = "post"
      PROVE  /\ \A q \in Replies \ {r} : delivered'[q] = delivered[q]
             /\ \A m \in Messages : numbers[m] \subseteq numbers'[m]
             /\ reply[r].number \in numbers'[reply[r].msg]
             /\ reply[r].msg \notin GroupMessages => delivered'[r] = 1
  BY <1>0, <1>6, <1>7 DEF OnceInv
<1>8. CASE ReplyPosted(r)
  <2>1. /\ reply[r].at = "post" /\ TakeReply(r)
        /\ reply'[r].at = "done" /\ reply'[r].msg = reply[r].msg
        /\ \A q \in Replies \ {r} : reply'[q] = reply[q]
    BY <1>0, <1>8 DEF ReplyPosted, ReplyState
  <2> QED  BY <1>1, <1>7, <2>1
<1>9. CASE ReplyTimesOut(r)
  <2>1. reply[r].at = "post" /\ (TakeReply(r) \/ UNCHANGED platform)
    BY <1>9 DEF ReplyTimesOut
  <2>2. /\ \A q \in Replies \ {r} : reply'[q] = reply[q]
        /\ reply'[r] = IF reply[r].tries + 1 < MaxTries THEN Retry(r)
                       ELSE [reply[r] EXCEPT !.at = "done"]
    BY <1>0, <1>9 DEF ReplyTimesOut
  <2>3. /\ Retry(r).msg = reply[r].msg /\ Retry(r).number = reply[r].number
        /\ Retry(r).at = IF reply[r].msg \in GroupMessages THEN "retry" ELSE "post"
    BY <1>0 DEF Retry, ReplyState
  <2>4. /\ reply'[r].msg = reply[r].msg /\ reply'[r].number = reply[r].number
        /\ reply'[r].at \in {"done", IF reply[r].msg \in GroupMessages THEN "retry" ELSE "post"}
    <3>1. [reply[r] EXCEPT !.at = "done"].msg = reply[r].msg
          /\ [reply[r] EXCEPT !.at = "done"].number = reply[r].number
          /\ [reply[r] EXCEPT !.at = "done"].at = "done"
      BY <1>0 DEF ReplyState
    <3> QED  BY <2>2, <2>3, <3>1
  <2>5. CASE TakeReply(r)
    BY <1>1, <1>7, <2>1, <2>2, <2>4, <2>5
  <2>6. CASE UNCHANGED platform
    <3>1. UNCHANGED <<delivered, numbers>>
      BY <2>6 DEF platform
    <3>2. Mine
      BY <2>1, <2>4, <3>1 DEF OnceInv
    <3> QED  BY <1>1, <2>2, <3>1, <3>2
  <2> QED  BY <2>1, <2>5, <2>6
<1> QED  BY <1>2, <1>3, <1>4, <1>5, <1>8, <1>9 DEF ReplyStep

LEMMA OnceNext ==
    ASSUME ReplyTypeOK, OnceInv, [Next]_vars
    PROVE  OnceInv'
<1>1. ASSUME NEW c \in Calls, CallStep(c)  PROVE OnceInv'
  BY <1>1, CallStepFrame DEF ordinary, OnceInv
<1>2. CASE CleanupSeq \/ UNCHANGED vars
  BY <1>2 DEF CleanupSeq, vars, ordinary, platform, OnceInv
<1> QED  BY <1>1, <1>2, OnceStep, NextCases

(* A private reply is delivered at most once, however often a timeout made  *)
(* it be sent: postC2CMessageWithRetry keeps its number.                    *)
THEOREM SpecReplyDeliveredOnce == Spec => []ReplyDeliveredOnce
<1>1. Spec => []ReplyTypeOK
  <2>1. Spec => [](StreamTypeOK /\ ReplyTypeOK)
    BY InitType, NextType, PTL DEF Spec
  <2> QED  BY <2>1, PTL
<1>2. Init => OnceInv
  BY DEF Init, OnceInv
<1>3. OnceInv => ReplyDeliveredOnce
  BY DEF OnceInv, ReplyDeliveredOnce
<1> QED  BY <1>1, <1>2, <1>3, OnceNext, PTL DEF Spec

-----------------------------------------------------------------------------
(* What keeps a stream's ID and index together while no call was overtaken: *)
(* a patient application then has one call at a time, also one that still   *)
(* has to clear; if there is an ID before an index is taken, the index      *)
(* taken is not the first, and giving it back leaves one.                   *)
Keeps(m) == related[m] # NoStream => index[m] # Absent

KeptWith(c, m) ==
    /\ call[c].at = "take" => Keeps(m)
    /\ InFlight(c) => index[m] = call[c].index /\ (related[m] # NoStream => index[m] # 0)
    /\ call[c].at \in {"update", "clear"} => index[m] # Absent

KeptInv ==
    \A m \in Patient : ~overtaken[m] =>
        /\ \A c, d \in Calls : InCall(c, m) /\ InCall(d, m) => c = d
        /\ (\A c \in Calls : ~InCall(c, m)) => Keeps(m)
        /\ \A c \in Calls : InCall(c, m) => KeptWith(c, m)

LEMMA KeptInit == Init => KeptInv
BY PrivateStreamAssumption DEF Init, KeptInv, InCall, NoCall, Keeps

LEMMA KeptCallStep ==
    ASSUME StreamTypeOK, KeptInv, NEW c \in Calls, CallStep(c)
    PROVE  KeptInv'
<1>0. /\ call[c] \in CallState /\ call[c].msg \in Messages
      /\ \A d \in Calls : call[d].msg \in Messages
      /\ InFlight(c) => call[c].index \in Nat
      /\ index \in [Messages -> Nat \cup {Absent}]
      /\ related \in [Messages -> Nat] /\ overtaken \in [Messages -> BOOLEAN]
      /\ call \in [Calls -> CallState]
  BY DEF StreamTypeOK, CallState, InFlight
<1>p. \A m \in Patient : m \in Messages
  BY PrivateStreamAssumption
\* A step of the call that already is the only one of its message.
<1>1. ASSUME NEW n \in Messages, n = call[c].msg, InCall(c, n), Others(c),
             overtaken' = overtaken,
             \A m \in Messages \ {n} : index'[m] = index[m] /\ related'[m] = related[m],
             call'[c].at = "done" \/ call'[c].msg = n,
             n \in Patient /\ KeptWith(c, n) =>
                 IF InCall(c, n)' THEN KeptWith(c, n)' ELSE Keeps(n)'
      PROVE  KeptInv'
  <2> SUFFICES ASSUME NEW m \in Patient, ~overtaken[m]
               PROVE  /\ \A d, e \in Calls : InCall(d, m)' /\ InCall(e, m)' => d = e
                      /\ (\A d \in Calls : ~InCall(d, m)') => Keeps(m)'
                      /\ \A d \in Calls : InCall(d, m)' => KeptWith(d, m)'
    BY <1>1 DEF KeptInv
  <2>1. \A d \in Calls \ {c} : (InCall(d, m)' <=> InCall(d, m)) /\ call'[d] = call[d]
    BY <1>1 DEF Others, InCall
  <2>2. CASE m = n
    <3>1. \A d \in Calls \ {c} : ~InCall(d, m)'
      BY <1>1, <2>1, <2>2 DEF KeptInv
    <3>2. KeptWith(c, m)
      BY <1>1, <2>2 DEF KeptInv
    <3> QED  BY <1>1, <2>2, <3>1, <3>2
  <2>3. CASE m # n
    <3>1. ~InCall(c, m) /\ ~InCall(c, m)'
      BY <1>1, <2>3 DEF InCall
    <3>2. index'[m] = index[m] /\ related'[m] = related[m]
      BY <1>1, <1>p, <2>3
    <3>3. Keeps(m)' <=> Keeps(m)
      BY <3>2 DEF Keeps
    <3>4. \A d \in Calls \ {c} : KeptWith(d, m)' <=> KeptWith(d, m)
      BY <2>1, <3>2, <3>3 DEF KeptWith, InFlight
    <3> QED  BY <2>1, <3>1, <3>3, <3>4 DEF KeptInv
  <2> QED  BY <2>2, <2>3
<1>2. ASSUME NEW n \in Messages, NEW final \in BOOLEAN, Begin(c, n, final)  PROVE KeptInv'
  <2>1. /\ Others(c) /\ call[c].at = "new" /\ call'[c].at = "take" /\ call'[c].msg = n
        /\ UNCHANGED <<index, related>>
        /\ n \in Patient => \A d \in Calls : ~Unanswered(d, n)
    BY <1>2, BeginEffect DEF Begin
  <2>2. /\ \A m \in Messages \ {n} : overtaken'[m] = overtaken[m]
        /\ ~overtaken'[n] => /\ ~overtaken[n]
                             /\ \A d \in Calls : call[d].msg = n => call[d].at # "clear"
    BY <1>0, <1>2 DEF Begin
  <2> SUFFICES ASSUME NEW m \in Patient, ~overtaken'[m]
               PROVE  /\ \A d, e \in Calls : InCall(d, m)' /\ InCall(e, m)' => d = e
                      /\ (\A d \in Calls : ~InCall(d, m)') => Keeps(m)'
                      /\ \A d \in Calls : InCall(d, m)' => KeptWith(d, m)'
    BY DEF KeptInv
  <2>3. \A d \in Calls \ {c} : (InCall(d, m)' <=> InCall(d, m)) /\ call'[d] = call[d]
    BY <2>1 DEF Others, InCall
  <2>4. Keeps(m)' <=> Keeps(m)
    BY <2>1 DEF Keeps
  <2>5. ~overtaken[m] /\ ~InCall(c, m)
    BY <1>p, <2>1, <2>2 DEF InCall
  <2>6. CASE m = n
    <3>1. \A d \in Calls : ~InCall(d, m)
      BY <2>1, <2>2, <2>6 DEF InCall, Unanswered
    <3>2. Keeps(m)
      BY <2>5, <3>1 DEF KeptInv
    <3>3. KeptWith(c, m)'
      BY <2>1, <2>4, <3>2 DEF KeptWith, InFlight
    <3> QED  BY <2>3, <2>4, <3>1, <3>2, <3>3
  <2>7. CASE m # n
    <3>1. ~InCall(c, m)'
      BY <2>1, <2>7 DEF InCall
    <3>2. \A d \in Calls \ {c} : KeptWith(d, m)' <=> KeptWith(d, m)
      BY <2>1, <2>3, <2>4 DEF KeptWith, InFlight
    <3> QED  BY <2>3, <2>4, <2>5, <3>1, <3>2 DEF KeptInv
  <2> QED  BY <2>6, <2>7
<1> PICK n \in Messages : n = call[c].msg
  BY <1>0
<1>3. CASE TakeIndex(c)
  <2>1. /\ Others(c) /\ call[c].at = "take" /\ call'[c].at = "post" /\ call'[c].msg = n
        /\ call'[c].index = index[n] + 1 /\ index' = [index EXCEPT ![n] = @ + 1]
        /\ UNCHANGED <<related, overtaken>>
    BY <1>3, TakeIndexEffect DEF TakeIndex, history
  <2>2. InCall(c, n)
    BY <2>1 DEF InCall
  <2>3. index'[n] = index[n] + 1 /\ index[n] \in Nat \cup {Absent}
    BY <1>0, <2>1
  <2>4. KeptWith(c, n) => KeptWith(c, n)'
    BY <2>1, <2>3 DEF KeptWith, Keeps, InFlight, Absent
  <2>5. InCall(c, n)'
    BY <2>1 DEF InCall
  <2> QED  BY <1>0, <1>1, <2>1, <2>2, <2>4, <2>5
<1>4. CASE Posted(c) \/ PostRefused(c) \/ PostAnswerLost(c)
  <2>1. /\ Others(c) /\ call[c].at = "post" /\ call'[c].at \in {"update", "failed"}
        /\ call'[c].msg = n /\ call'[c].index = call[c].index
        /\ UNCHANGED <<index, related, overtaken>>
    BY <1>4, PostEffect DEF Posted, PostRefused, PostAnswerLost, history
  <2>2. InCall(c, n) /\ InCall(c, n)' /\ InFlight(c)
    BY <2>1 DEF InCall, InFlight
  <2>3. KeptWith(c, n) => KeptWith(c, n)'
    BY <1>0, <2>1, <2>2 DEF KeptWith, InFlight, Absent
  <2> QED  BY <1>0, <1>1, <2>1, <2>2, <2>3
<1>5. CASE RollBack(c)
  <2>1. /\ Others(c) /\ call[c].at = "failed" /\ call'[c].at = "done"
        /\ index' = [index EXCEPT ![n] = IF @ = call[c].index THEN @ - 1 ELSE @]
        /\ UNCHANGED <<related, overtaken>>
    BY <1>5, RollBackEffect DEF RollBack, history
  <2>2. InCall(c, n) /\ ~InCall(c, n)' /\ InFlight(c)
    BY <2>1 DEF InCall, InFlight
  <2>3. KeptWith(c, n) => Keeps(n)'
    <3>1. index'[n] = IF index[n] = call[c].index THEN index[n] - 1 ELSE index[n]
      BY <1>0, <2>1
    <3> QED  BY <1>0, <2>1, <2>2, <3>1 DEF KeptWith, Keeps, Absent
  <2> QED  BY <1>0, <1>1, <2>1, <2>2, <2>3
<1>6. CASE UpdateRelatedID(c)
  <2>1. /\ Others(c) /\ call[c].at = "update" /\ call'[c].at \in {"clear", "done"}
        /\ call'[c].at = "clear" => call'[c].msg = n
        /\ related' = [related EXCEPT ![n] = call[c].id]
        /\ UNCHANGED <<index, overtaken>>
    BY <1>6, UpdateEffect DEF UpdateRelatedID, history
  <2>2. InCall(c, n) /\ (InCall(c, n)' => call'[c].at = "clear")
    BY <2>1 DEF InCall
  <2>3. KeptWith(c, n) => Keeps(n)' /\ (InCall(c, n)' => KeptWith(c, n)')
    BY <2>1, <2>2 DEF KeptWith, Keeps, InFlight
  <2> QED  BY <1>0, <1>1, <2>1, <2>2, <2>3
<1>7. CASE ClearStreamState(c)
  <2>1. /\ Others(c) /\ call[c].at = "clear" /\ call'[c].at = "done"
        /\ index' = [index EXCEPT ![n] = Absent]
        /\ related' = [related EXCEPT ![n] = NoStream]
        /\ overtaken' = overtaken
    BY <1>7, ClearEffect DEF ClearStreamState
  <2>2. InCall(c, n) /\ ~InCall(c, n)'
    BY <2>1 DEF InCall
  <2>3. Keeps(n)'
    BY <1>0, <2>1 DEF Keeps
  <2> QED  BY <1>0, <1>1, <2>1, <2>2, <2>3
<1> QED  BY <1>2, <1>3, <1>4, <1>5, <1>6, <1>7 DEF CallStep

LEMMA KeptNext ==
    ASSUME StreamTypeOK, KeptInv, [Next]_vars
    PROVE  KeptInv'
<1>1. CASE UNCHANGED stream
  BY <1>1 DEF stream, history, KeptInv, KeptWith, Keeps, InCall, InFlight
<1>2. (\E r \in Replies : ReplyStep(r)) \/ CleanupSeq \/ UNCHANGED vars => UNCHANGED stream
  BY ReplyStepFrame DEF CleanupSeq, vars
<1> QED  BY <1>1, <1>2, KeptCallStep, NextCases

(* A stream that was cleared leaves no ID behind for the next one, to an    *)
(* application that awaits each call and was not early: rollbackIndex,      *)
(* UpdateRelatedID and clearStreamState keep the two maps together.         *)
THEOREM SpecNoIdWithoutIndex == Spec => []NoIdWithoutIndex
<1>1. Spec => []StreamTypeOK
  BY InitType, NextType, PTL DEF Spec
<1>2. KeptInv => NoIdWithoutIndex
  BY DEF KeptInv, NoIdWithoutIndex, Keeps
<1> QED  BY <1>1, <1>2, KeptInit, KeptNext, PTL DEF Spec

-----------------------------------------------------------------------------
(* What keeps a number fresh as long as one reply at a time takes numbers   *)
(* of a message: none that was used is above the counter, a text takes one  *)
(* above it, and what a picture reads after its upload is the number that   *)
(* it took for the upload and nobody sent.                                  *)
Unused(m, x) ==
    /\ x \notin numbers[m]
    /\ \A q \in Replies : reply[q].at = "post" /\ reply[q].msg = m => reply[q].number # x

NumberedWell(r, m) ==
    /\ reply[r].at \in {"post", "retry"} => ~reply[r].picture
    /\ reply[r].at \in {"addUpload", "add"} => reply[r].number = seq[m]
    /\ reply[r].at \in {"upload", "add"} /\ reply[r].picture => Unused(m, seq[m])
    /\ reply[r].at = "post" => reply[r].number <= seq[m]
    /\ reply[r].at = "post" /\ (reply[r].tries = 0 \/ m \in GroupMessages)
           => reply[r].number \notin numbers[m]

FreshAt(m) ==
    /\ \A q, r \in Replies :
           Numbering(q) /\ Numbering(r) /\ reply[q].msg = m /\ reply[r].msg = m => q = r
    /\ \A x \in numbers[m] : x <= seq[m]
    /\ \A r \in Replies : reply[r].msg = m => NumberedWell(r, m)
    /\ \A q, r \in Replies :
           /\ q # r /\ reply[q].at = "post" /\ reply[r].at = "post"
           /\ reply[q].msg = m /\ reply[r].msg = m
           => reply[q].number # reply[r].number

FreshInv == \A m \in Messages : m \notin mixed => FreshAt(m)

LEMMA FreshInit == Init => FreshInv
<1> SUFFICES ASSUME Init, NEW m \in Messages  PROVE FreshAt(m)
  BY DEF FreshInv
<1>1. \A r \in Replies : reply[r].at = "new" /\ ~Numbering(r)
  BY DEF Init, Numbering
<1>2. numbers[m] = {}
  BY DEF Init
<1> QED  BY <1>1, <1>2 DEF FreshAt, NumberedWell

(* A step of a reply changes what concerns its message only.                *)
LEMMA FreshElsewhere ==
    ASSUME ReplyTypeOK, NEW r \in Replies, NEW n \in Messages, NEW m \in Messages \ {n},
           FreshAt(m), reply'[r].msg = n,
           \A q \in Replies \ {r} : reply'[q] = reply[q],
           seq'[m] = seq[m], numbers'[m] = numbers[m]
    PROVE  FreshAt(m)'
<1>1. \A q \in Replies : reply'[q].msg = m => q # r /\ reply'[q] = reply[q]
  OBVIOUS
<1>2. \A q \in Replies : reply'[q].msg = m => (Numbering(q)' <=> Numbering(q))
  BY <1>1 DEF Numbering
<1>3. \A x : Unused(m, x) => Unused(m, x)'
  BY <1>1 DEF Unused
<1>4. \A q \in Replies : reply'[q].msg = m => NumberedWell(q, m)'
  <2> SUFFICES ASSUME NEW q \in Replies, reply'[q].msg = m  PROVE NumberedWell(q, m)'
    OBVIOUS
  <2>1. reply'[q] = reply[q] /\ NumberedWell(q, m)
    BY <1>1 DEF FreshAt
  <2>2. PICK x : x = seq[m]
    OBVIOUS
  <2>3. Unused(m, x) => Unused(m, x)'
    BY <1>3
  <2>4. seq'[m] = x
    BY <2>2
  <2>5. (reply[q].at \in {"upload", "add"} /\ reply[q].picture => Unused(m, seq[m]))'
    <3>1. reply[q].at \in {"upload", "add"} /\ reply[q].picture => Unused(m, x)
      BY <2>1, <2>2 DEF NumberedWell, Unused
    <3> QED  BY <2>1, <2>3, <2>4, <3>1 DEF Unused
  <2> QED  BY <2>1, <2>5 DEF NumberedWell
<1> QED  BY <1>1, <1>2, <1>4 DEF FreshAt

(* The reply that takes a step is the only one whose number changes.        *)
LEMMA FreshReplyStep ==
    ASSUME ReplyTypeOK, FreshInv, NEW r \in Replies, ReplyStep(r)
    PROVE  FreshInv'
<1>0. /\ reply \in [Replies -> ReplyState] /\ reply[r] \in ReplyState
      /\ \A q \in Replies : reply[q].msg \in Messages /\ reply[q].number \in Nat
                            /\ reply[q].picture \in BOOLEAN
      /\ seq \in [Messages -> Nat] /\ numbers \in [Messages -> SUBSET Nat]
      /\ reply[r].tries \in Nat
  BY DEF ReplyTypeOK, ReplyState
\* What is left to show of each step, n being the message it is about.
<1>1. ASSUME NEW n \in Messages, reply'[r].msg = n,
             \A q \in Replies \ {r} : reply'[q] = reply[q],
             \A m \in Messages \ {n} : seq'[m] = seq[m] /\ numbers'[m] = numbers[m],
             mixed \subseteq mixed',
             n \notin mixed' /\ FreshAt(n) => FreshAt(n)'
      PROVE  FreshInv'
  <2> SUFFICES ASSUME NEW m \in Messages, m \notin mixed'  PROVE FreshAt(m)'
    BY DEF FreshInv
  <2>1. FreshAt(m)
    BY <1>1 DEF FreshInv
  <2> QED  BY <1>1, <2>1, FreshElsewhere
<1>2. ASSUME NEW n \in Messages, NEW at \in {"addUpload", "add"}, NEW picture \in BOOLEAN,
             Get(r, n, at, picture),
             at = "add" /\ picture =>
                 reply[r].at = "upload" /\ reply[r].msg = n /\ reply[r].picture
      PROVE  FreshInv'
  <2>1. /\ reply'[r].at = at /\ reply'[r].msg = n /\ reply'[r].picture = picture
        /\ reply'[r].number = seq[n] /\ reply'[r].tries = reply[r].tries
        /\ \A q \in Replies \ {r} : reply'[q] = reply[q]
        /\ UNCHANGED <<seq, numbers>> /\ mixed \subseteq mixed'
    BY <1>0, <1>2 DEF Get, ReplyState, platform
  <2>2. n \notin mixed' => \A q \in Replies \ {r} : ~(Numbering(q) /\ reply[q].msg = n)
    BY <1>2 DEF Get
  <2>3. ASSUME n \notin mixed', FreshAt(n)  PROVE FreshAt(n)'
    <3>1. \A q \in Replies : Numbering(q)' /\ reply'[q].msg = n => q = r
      BY <2>1, <2>2, <2>3 DEF Numbering
    <3>2. \A q \in Replies : reply'[q].at = "post" => q # r /\ reply'[q] = reply[q]
      BY <1>2, <2>1
    <3>3. PICK x : x = seq[n]
      OBVIOUS
    <3>4. Unused(n, x) => Unused(n, x)'
      BY <2>1, <3>2 DEF Unused
    <3>5. ASSUME NEW q \in Replies \ {r}, reply'[q].msg = n  PROVE NumberedWell(q, n)'
      <4>1. NumberedWell(q, n) /\ reply'[q] = reply[q] /\ ~Numbering(q)
        BY <2>1, <2>2, <2>3, <3>5 DEF FreshAt
      <4> QED  BY <2>1, <4>1 DEF NumberedWell, Numbering
    <3>6. NumberedWell(r, n)'
      <4>1. at = "add" /\ picture => Unused(n, x)
        BY <1>2, <2>3, <3>3 DEF FreshAt, NumberedWell, Unused
      <4>2. (reply[r].at \in {"upload", "add"} /\ reply[r].picture => Unused(n, seq[n]))'
        BY <1>2, <2>1, <3>3, <3>4, <4>1 DEF Unused
      <4> QED  BY <1>2, <2>1, <4>2 DEF NumberedWell
    <3> QED  BY <2>1, <2>3, <3>1, <3>2, <3>5, <3>6 DEF FreshAt
  <2> QED  BY <1>1, <2>1, <2>3
<1>3. ASSUME NEW n \in Messages, NEW picture \in BOOLEAN, GetSeq(r, n, picture)  PROVE FreshInv'
  BY <1>2, <1>3 DEF GetSeq
<1> PICK n \in Messages : n = reply[r].msg
  BY <1>0
<1>4. CASE GetSeqAgain(r)
  <2>1. reply[r].at \in {"upload", "retry"} /\ Get(r, n, "add", reply[r].picture)
    BY <1>4 DEF GetSeqAgain
  <2>2. PICK picture \in BOOLEAN : picture = reply[r].picture
    BY <1>0
  <2>3. CASE n \in mixed
    <3>1. /\ reply'[r].msg = n /\ mixed \subseteq mixed' /\ UNCHANGED <<seq, numbers>>
          /\ \A q \in Replies \ {r} : reply'[q] = reply[q]
      BY <1>0, <2>1 DEF Get, ReplyState, platform
    <3> QED  BY <1>1, <2>3, <3>1
  <2>4. CASE n \notin mixed
    <3>1. reply[r].at = "retry" => ~picture
      BY <2>2, <2>4 DEF FreshInv, FreshAt, NumberedWell
    <3> QED  BY <1>2, <2>1, <2>2, <3>1
  <2> QED  BY <2>3, <2>4
<1>5. CASE AddUploadSeq(r) \/ AddSeq(r)
  <2>1. /\ reply[r].at \in {"addUpload", "add"}
        /\ reply'[r].at = IF reply[r].at = "add" THEN "post" ELSE "upload"
        /\ reply'[r].msg = n
        /\ reply[r].at = "add" => ~reply'[r].picture /\ reply'[r].number = Number(r)
        /\ seq' = [seq EXCEPT ![n] = reply[r].number + 1]
        /\ \A q \in Replies \ {r} : reply'[q] = reply[q]
        /\ UNCHANGED <<mixed, numbers>>
    <3>1. CASE AddUploadSeq(r)
      BY <1>0, <3>1 DEF AddUploadSeq, ReplyState, platform
    <3>2. CASE AddSeq(r)
      BY <1>0, <3>2 DEF AddSeq, ReplyState, platform
    <3> QED  BY <1>5, <3>1, <3>2
  <2>2. ASSUME n \notin mixed, FreshAt(n)  PROVE FreshAt(n)'
    <3>1. NumberedWell(r, n) /\ Numbering(r)
      BY <2>1, <2>2 DEF FreshAt, Numbering
    <3>2. reply[r].number = seq[n] /\ seq[n] \in Nat /\ seq'[n] = seq[n] + 1
      BY <1>0, <2>1, <3>1 DEF NumberedWell
    <3>3. \A q \in Replies \ {r} : reply[q].msg = n => ~Numbering(q)
      BY <2>2, <3>1 DEF FreshAt
    <3>4. \A x \in numbers[n] : x \in Nat /\ x <= seq[n] /\ x <= seq'[n] /\ x # seq'[n]
      BY <1>0, <2>2, <3>2 DEF FreshAt
    <3>5. \A q \in Replies : reply[q].msg = n /\ reply[q].at = "post" =>
              /\ reply[q].number <= seq[n]
              /\ reply[q].number <= seq'[n]
              /\ reply[q].number # seq'[n]
      BY <1>0, <2>2, <3>2 DEF FreshAt, NumberedWell
    <3>6. ASSUME NEW q \in Replies \ {r}, reply'[q].msg = n  PROVE NumberedWell(q, n)'
      <4>1. NumberedWell(q, n) /\ reply'[q] = reply[q] /\ ~Numbering(q)
        BY <2>1, <2>2, <3>3, <3>6 DEF FreshAt
      <4> QED  BY <2>1, <3>5, <3>6, <4>1 DEF NumberedWell, Numbering
    <3>7. CASE reply[r].at = "addUpload"
      <4>1. reply'[r].at = "upload" /\ \A q \in Replies : reply'[q].at = "post" => q # r
        BY <2>1, <3>7
      <4>2. Unused(n, seq[n])'
        BY <2>1, <3>4, <3>5, <4>1 DEF Unused
      <4>3. NumberedWell(r, n)'
        BY <4>1, <4>2 DEF NumberedWell
      <4> QED  BY <2>1, <2>2, <3>3, <3>4, <3>6, <4>1, <4>3 DEF FreshAt, Numbering
    <3>8. CASE reply[r].at = "add"
      <4>1. reply'[r].at = "post" /\ ~reply'[r].picture /\ reply'[r].number = Number(r)
            /\ ~Numbering(r)'
        BY <2>1, <3>8 DEF Numbering
      <4>2. /\ Number(r) <= seq'[n] /\ Number(r) \notin numbers[n]
            /\ \A q \in Replies \ {r} : reply[q].at = "post" /\ reply[q].msg = n
                   => reply[q].number # Number(r)
        <5>1. CASE reply[r].picture
          <6>1. Number(r) = seq[n]
            BY <3>2, <5>1 DEF Number
          <6>2. Unused(n, seq[n])
            BY <3>1, <3>8, <5>1 DEF NumberedWell
          <6> QED  BY <3>2, <6>1, <6>2 DEF Unused
        <5>2. CASE ~reply[r].picture
          <6>1. Number(r) = seq'[n]
            BY <3>2, <5>2 DEF Number
          <6> QED  BY <3>2, <3>4, <3>5, <6>1
        <5> QED  BY <5>1, <5>2
      <4>3. NumberedWell(r, n)'
        BY <2>1, <4>1, <4>2 DEF NumberedWell
      <4>4. \A p, q \in Replies :
                /\ p # q /\ reply'[p].at = "post" /\ reply'[q].at = "post"
                /\ reply'[p].msg = n /\ reply'[q].msg = n
                => reply'[p].number # reply'[q].number
        BY <2>1, <2>2, <4>1, <4>2 DEF FreshAt
      <4>5. \A p, q \in Replies :
                Numbering(p)' /\ Numbering(q)' /\ reply'[p].msg = n /\ reply'[q].msg = n => p = q
        BY <2>1, <3>3, <4>1 DEF Numbering
      <4> QED  BY <2>1, <3>4, <3>6, <4>3, <4>4, <4>5 DEF FreshAt
    <3> QED  BY <2>1, <3>7, <3>8
  <2>3. \A m \in Messages \ {n} : seq'[m] = seq[m]
    BY <1>0, <2>1
  <2> QED  BY <1>1, <2>1, <2>2, <2>3
\* From here on no number is taken; the platform may come to know one that
\* was in flight.
<1>6. ASSUME \A q \in Replies \ {r} : reply'[q] = reply[q],
             reply'[r].msg = n, reply'[r].number = reply[r].number,
             UNCHANGED <<seq, mixed>>,
             \/ numbers' = numbers
             \/ /\ reply[r].at = "post"
                /\ numbers' = [numbers EXCEPT ![n] = @ \cup {reply[r].number}],
             reply[r].at \in {"upload", "post"},
             reply'[r].at = "retry" \/ reply'[r].at = "post" => reply[r].at = "post",
             reply'[r].at \in {"retry", "post"} => reply'[r].picture = reply[r].picture,
             reply'[r].at \in {"retry", "post", "done"},
             reply'[r].at = "post" => reply'[r].tries # 0 /\ n \notin GroupMessages
      PROVE  FreshInv'
  <2>1. ASSUME n \notin mixed, FreshAt(n)  PROVE FreshAt(n)'
    <3>1. NumberedWell(r, n)
      BY <2>1 DEF FreshAt
    <3>2. /\ numbers'[n] \subseteq numbers[n] \cup {reply[r].number}
          /\ numbers'[n] # numbers[n] => reply[r].at = "post"
      BY <1>0, <1>6
    <3>3. \A x \in numbers'[n] : x <= seq'[n]
      BY <1>6, <2>1, <3>1, <3>2 DEF FreshAt, NumberedWell
    <3>4. \A q \in Replies :
              /\ reply'[q].at = "post" => reply[q].at = "post"
              /\ Numbering(q)' => Numbering(q) /\ q # r
              /\ reply'[q].msg = reply[q].msg /\ reply'[q].number = reply[q].number
      BY <1>6 DEF Numbering
    <3>5. ASSUME NEW q \in Replies \ {r}, reply'[q].msg = n  PROVE NumberedWell(q, n)'
      <4>1. NumberedWell(q, n) /\ reply'[q] = reply[q] /\ seq'[n] = seq[n]
        BY <1>6, <2>1, <3>5 DEF FreshAt
      <4>2. ASSUME reply[q].at = "post", reply[q].number \notin numbers[n]
            PROVE  reply[q].number \notin numbers'[n]
        <5>1. reply[r].at = "post" => reply[q].number # reply[r].number
          BY <2>1, <3>5, <4>1, <4>2 DEF FreshAt
        <5> QED  BY <3>2, <4>2, <5>1
      <4>3. (reply[q].at \in {"upload", "add"} /\ reply[q].picture => Unused(n, seq[n]))'
        <5> SUFFICES ASSUME reply[q].at \in {"upload", "add"}, reply[q].picture
                     PROVE  Unused(n, seq[n])'
          BY <4>1
        <5>1. Unused(n, seq[n])
          BY <4>1 DEF NumberedWell
        <5>2. seq[n] \notin numbers'[n]
          BY <3>2, <5>1 DEF Unused
        <5> QED  BY <3>4, <4>1, <5>1, <5>2 DEF Unused
      <4> QED  BY <4>1, <4>2, <4>3 DEF NumberedWell
    <3>6. NumberedWell(r, n)'
      BY <1>6, <3>1, <3>4 DEF NumberedWell
    <3> QED  BY <2>1, <3>3, <3>4, <3>5, <3>6 DEF FreshAt
  <2>2. \A m \in Messages \ {n} : numbers'[m] = numbers[m]
    BY <1>0, <1>6
  <2> QED  BY <1>1, <1>6, <2>1, <2>2
<1>7. CASE UploadFails(r) \/ ReplyRefused(r)
  <2>1. /\ \A q \in Replies \ {r} : reply'[q] = reply[q]
        /\ reply'[r].msg = n /\ reply'[r].number = reply[r].number /\ reply'[r].at = "done"
        /\ UNCHANGED <<seq, mixed, numbers>> /\ reply[r].at \in {"upload", "post"}
    BY <1>0, <1>7 DEF UploadFails, ReplyRefused, ReplyState, platform
  <2> QED  BY <1>6, <2>1
<1>8. TakeReply(r) => numbers' = [numbers EXCEPT ![n] = @ \cup {reply[r].number}]
  BY DEF TakeReply
<1>9. CASE ReplyPosted(r)
  <2>1. /\ \A q \in Replies \ {r} : reply'[q] = reply[q]
        /\ reply'[r].msg = n /\ reply'[r].number = reply[r].number /\ reply'[r].at = "done"
        /\ UNCHANGED <<seq, mixed>> /\ reply[r].at = "post" /\ TakeReply(r)
    BY <1>0, <1>9 DEF ReplyPosted, ReplyState
  <2> QED  BY <1>6, <1>8, <2>1
<1>10. CASE ReplyTimesOut(r)
  <2>1. /\ \A q \in Replies \ {r} : reply'[q] = reply[q]
        /\ UNCHANGED <<seq, mixed>> /\ reply[r].at = "post"
        /\ TakeReply(r) \/ numbers' = numbers
        /\ reply'[r] = IF reply[r].tries + 1 < MaxTries THEN Retry(r)
                       ELSE [reply[r] EXCEPT !.at = "done"]
    BY <1>0, <1>10 DEF ReplyTimesOut, platform
  <2>2. /\ Retry(r).msg = n /\ Retry(r).number = reply[r].number
        /\ Retry(r).tries = reply[r].tries + 1 /\ Retry(r).picture = reply[r].picture
        /\ Retry(r).at = IF n \in GroupMessages THEN "retry" ELSE "post"
    BY <1>0 DEF Retry, ReplyState
  <2>3. /\ [reply[r] EXCEPT !.at = "done"].msg = n
        /\ [reply[r] EXCEPT !.at = "done"].number = reply[r].number
        /\ [reply[r] EXCEPT !.at = "done"].at = "done"
    BY <1>0 DEF ReplyState
  <2>4. reply[r].tries + 1 # 0
    BY <1>0
  <2>5. CASE reply'[r] = Retry(r)
    BY <1>6, <1>8, <2>1, <2>2, <2>4, <2>5
  <2>6. CASE reply'[r] = [reply[r] EXCEPT !.at = "done"]
    BY <1>6, <1>8, <2>1, <2>3, <2>6
  <2> QED  BY <2>1, <2>5, <2>6
<1> QED  BY <1>3, <1>4, <1>5, <1>7, <1>9, <1>10 DEF ReplyStep

LEMMA FreshNext ==
    ASSUME ReplyTypeOK, FreshInv, [Next]_vars
    PROVE  FreshInv'
<1>1. CASE UNCHANGED <<ordinary, numbers>>
  BY <1>1 DEF ordinary, FreshInv, FreshAt, NumberedWell, Unused, Numbering
<1>2. CASE CleanupSeq
  BY <1>2 DEF CleanupSeq, FreshInv
<1>3. (\E c \in Calls : CallStep(c)) \/ UNCHANGED vars => UNCHANGED <<ordinary, numbers>>
  BY CallStepFrame DEF vars, platform
<1> QED  BY <1>1, <1>2, <1>3, FreshReplyStep, NextCases

(* While no two replies to a message take numbers at a time and the ticker  *)
(* does not run, GetMappingSeq and AddMappingSeq give each a number that    *)
(* the platform has not seen with the message, texts, pictures and retries  *)
(* to groups alike.                                                         *)
THEOREM SpecNumberIsFresh == Spec => []NumberIsFresh
<1>1. Spec => []ReplyTypeOK
  BY InitType, NextType, PTL DEF Spec
<1>2. ReplyTypeOK /\ FreshInv => NumberIsFresh
  <2> SUFFICES ASSUME ReplyTypeOK, FreshInv, NEW r \in Replies,
                      reply[r].at = "post", reply[r].tries = 0 \/ reply[r].msg \in GroupMessages,
                      reply[r].msg \notin mixed
               PROVE  reply[r].number \notin numbers[reply[r].msg]
    BY DEF NumberIsFresh
  <2>1. reply[r].msg \in Messages
    BY DEF ReplyTypeOK, ReplyState
  <2> QED  BY <2>1 DEF FreshInv, FreshAt, NumberedWell
<1> QED  BY <1>1, <1>2, FreshInit, FreshNext, PTL DEF Spec

-----------------------------------------------------------------------------
(* How far replies can count: a reply to a private message adds to the      *)
(* counter once for its upload and once for its message, whatever others    *)
(* and the ticker do.  Uploaded and Sent hold those that have.              *)
Uploaded(m) ==
    {r \in Replies : /\ reply[r].msg = m
                     /\ reply[r].at \notin {"new", "addUpload"}
                     /\ reply[r].at = "add" => reply[r].picture}

Sent(m) == {r \in Replies : reply[r].msg = m /\ reply[r].at \in {"post", "retry", "done"}}

Spent(m) == Cardinality(Uploaded(m)) + Cardinality(Sent(m))

CountedWell(r, m) ==
    /\ reply[r].at # "retry"
    /\ reply[r].at = "upload" => reply[r].picture
    /\ reply[r].at = "addUpload" => reply[r].picture
    /\ reply[r].at \in {"addUpload", "add"} => reply[r].number <= Spent(m)
    /\ reply[r].at = "post" => reply[r].number < 2 * Cardinality(Replies)

CountAt(m) ==
    /\ seq[m] <= Spent(m)
    /\ \A r \in Replies : reply[r].msg = m => CountedWell(r, m)

CountInv ==
    /\ \A m \in Messages : m \notin GroupMessages => CountAt(m)
    /\ \A c \in Calls : InFlight(c) \/ call[c].at = "take" => call[c].msg \notin GroupMessages

(* Sets of replies, in a world of finitely many.                            *)
LEMMA Grown ==
    ASSUME IsFiniteSet(Replies), NEW S, NEW T, S \subseteq T, T \subseteq Replies
    PROVE  /\ Cardinality(S) \in Nat /\ Cardinality(T) \in Nat
           /\ Cardinality(S) <= Cardinality(T)
           /\ Cardinality(T) <= Cardinality(Replies) /\ Cardinality(Replies) \in Nat
           /\ \A r \in T : r \notin S => Cardinality(S) + 1 <= Cardinality(T)
<1>1. IsFiniteSet(T) /\ Cardinality(T) <= Cardinality(Replies)
      /\ Cardinality(T) \in Nat /\ Cardinality(Replies) \in Nat
  BY FS_Subset, FS_CardinalityType
<1>2. IsFiniteSet(S) /\ Cardinality(S) <= Cardinality(T) /\ Cardinality(S) \in Nat
  BY <1>1, FS_Subset, FS_CardinalityType
<1>3. ASSUME NEW r \in T, r \notin S  PROVE Cardinality(S) + 1 <= Cardinality(T)
  <2>1. Cardinality(S \cup {r}) = Cardinality(S) + 1
    BY <1>2, <1>3, FS_AddElement
  <2>2. S \cup {r} \subseteq T
    BY <1>3
  <2>3. Cardinality(S \cup {r}) <= Cardinality(T)
    BY <1>1, <2>2, FS_Subset
  <2> QED  BY <2>1, <2>3
<1> QED  BY <1>1, <1>2, <1>3

LEMMA SpentType ==
    ASSUME IsFiniteSet(Replies), NEW m
    PROVE  /\ Cardinality(Uploaded(m)) \in Nat /\ Cardinality(Sent(m)) \in Nat
           /\ Spent(m) \in Nat
<1>1. Uploaded(m) \subseteq Replies /\ Sent(m) \subseteq Replies
  BY DEF Uploaded, Sent
<1> QED  BY <1>1, Grown DEF Spent

LEMMA CountInit ==
    ASSUME IsFiniteSet(Replies), Init
    PROVE  CountInv
<1>1. \A r \in Replies : reply[r].at = "new"
  BY DEF Init
<1>2. \A m \in Messages : seq[m] = 0 /\ Spent(m) \in Nat
  BY SpentType DEF Init
<1>3. \A c \in Calls : call[c].at = "new"
  BY DEF Init, NoCall
<1> QED  BY <1>1, <1>2, <1>3 DEF CountInv, CountAt, CountedWell, InFlight

LEMMA CountReplyStep ==
    ASSUME IsFiniteSet(Replies), ReplyTypeOK, CountInv, NEW r \in Replies, ReplyStep(r)
    PROVE  CountInv'
<1>0. /\ reply \in [Replies -> ReplyState] /\ reply[r] \in ReplyState
      /\ \A q \in Replies : reply[q].msg \in Messages /\ reply[q].number \in Nat
                            /\ reply[q].picture \in BOOLEAN
      /\ seq \in [Messages -> Nat]
      /\ reply[r].tries \in Nat
  BY DEF ReplyTypeOK, ReplyState
<1>c. \A c \in Calls : InFlight(c)' \/ call'[c].at = "take" => call'[c].msg \notin GroupMessages
  BY ReplyStepFrame DEF stream, CountInv, InFlight
\* What is left to show of each step, n being the message it is about.
<1>1. ASSUME NEW n \in Messages, reply'[r].msg = n,
             \A q \in Replies \ {r} : reply'[q] = reply[q],
             \A m \in Messages \ {n} : seq'[m] = seq[m],
             reply[r].at = "new" \/ reply[r].msg = n,
             n \notin GroupMessages /\ CountAt(n) =>
                 /\ Uploaded(n) \subseteq Uploaded(n)' /\ Sent(n) \subseteq Sent(n)'
                 /\ seq'[n] <= Spent(n)'
                 /\ CountedWell(r, n)'
      PROVE  CountInv'
  <2> SUFFICES ASSUME NEW m \in Messages, m \notin GroupMessages  PROVE CountAt(m)'
    BY <1>c DEF CountInv
  <2>1. CountAt(m)
    BY DEF CountInv
  <2>2. Uploaded(m) \subseteq Uploaded(m)' /\ Sent(m) \subseteq Sent(m)'
    <3>1. CASE m = n
      BY <1>1, <2>1, <3>1
    <3>2. CASE m # n
      BY <1>1, <3>2 DEF Uploaded, Sent
    <3> QED  BY <3>1, <3>2
  <2>3. PICK u, v : u = Uploaded(m)' /\ v = Sent(m)'
    OBVIOUS
  <2>4. u \subseteq Replies /\ v \subseteq Replies
    BY <2>3 DEF Uploaded, Sent
  <2>5. /\ Cardinality(Uploaded(m)) <= Cardinality(u) /\ Cardinality(Sent(m)) <= Cardinality(v)
        /\ Cardinality(Uploaded(m)) \in Nat /\ Cardinality(u) \in Nat
        /\ Cardinality(Sent(m)) \in Nat /\ Cardinality(v) \in Nat
    BY <2>2, <2>3, <2>4, Grown
  <2>6. Spent(m) <= Spent(m)' /\ Spent(m) \in Nat /\ Spent(m)' \in Nat
    BY <2>3, <2>5 DEF Spent
  <2>7. \A q \in Replies \ {r} : reply'[q].msg = m => CountedWell(q, m)'
    <3> SUFFICES ASSUME NEW q \in Replies \ {r}, reply'[q].msg = m  PROVE CountedWell(q, m)'
      OBVIOUS
    <3>1. reply'[q] = reply[q] /\ CountedWell(q, m)
      BY <1>1, <2>1 DEF CountAt
    <3> QED  BY <1>0, <2>6, <3>1 DEF CountedWell
  <2>8. seq'[m] <= Spent(m)'
    <3>1. CASE m = n
      BY <1>1, <2>1, <3>1
    <3>2. CASE m # n
      <4>1. seq[m] <= Spent(m) /\ seq'[m] = seq[m] /\ seq[m] \in Nat
        BY <1>0, <1>1, <2>1, <3>2 DEF CountAt
      <4> QED  BY <2>6, <4>1
    <3> QED  BY <3>1, <3>2
  <2>9. reply'[r].msg = m => CountedWell(r, m)'
    BY <1>1, <2>1
  <2> QED  BY <2>7, <2>8, <2>9 DEF CountAt
\* Steps that leave the counter alone.
<1>2. ASSUME NEW n \in Messages, reply'[r].msg = n,
             \A q \in Replies \ {r} : reply'[q] = reply[q],
             seq' = seq,
             reply[r].at = "new" \/ reply[r].msg = n,
             n \notin GroupMessages /\ CountAt(n) =>
                 /\ r \in Uploaded(n) => r \in Uploaded(n)'
                 /\ r \in Sent(n) => r \in Sent(n)'
                 /\ Spent(n) <= Spent(n)' => CountedWell(r, n)'
      PROVE  CountInv'
  <2>1. ASSUME n \notin GroupMessages, CountAt(n)
        PROVE  /\ Uploaded(n) \subseteq Uploaded(n)' /\ Sent(n) \subseteq Sent(n)'
               /\ seq'[n] <= Spent(n)'
               /\ CountedWell(r, n)'
    <3>1. Uploaded(n) \subseteq Uploaded(n)' /\ Sent(n) \subseteq Sent(n)'
      BY <1>2, <2>1 DEF Uploaded, Sent
    <3>2. PICK u, v : u = Uploaded(n)' /\ v = Sent(n)'
      OBVIOUS
    <3>3. u \subseteq Replies /\ v \subseteq Replies
      BY <3>2 DEF Uploaded, Sent
    <3>4. /\ Cardinality(Uploaded(n)) <= Cardinality(u) /\ Cardinality(Sent(n)) <= Cardinality(v)
          /\ Cardinality(Uploaded(n)) \in Nat /\ Cardinality(u) \in Nat
          /\ Cardinality(Sent(n)) \in Nat /\ Cardinality(v) \in Nat
      BY <3>1, <3>2, <3>3, Grown
    <3>5. Spent(n) <= Spent(n)' /\ Spent(n) \in Nat /\ Spent(n)' \in Nat
      BY <3>2, <3>4 DEF Spent
    <3>6. seq[n] <= Spent(n) /\ seq[n] \in Nat /\ seq'[n] = seq[n]
      BY <1>0, <1>2, <2>1 DEF CountAt
    <3> QED  BY <1>2, <2>1, <3>1, <3>5, <3>6
  <2> QED  BY <1>1, <1>2, <2>1
<1>3. ASSUME NEW n \in Messages, NEW at \in {"addUpload", "add"}, NEW picture \in BOOLEAN,
             Get(r, n, at, picture),
             at = "addUpload" => picture,
             \/ reply[r].at = "new"
             \/ reply[r].msg = n /\ at = "add" /\ reply[r].at \in {"upload", "retry"}
                /\ picture = reply[r].picture
      PROVE  CountInv'
  <2>1. /\ reply'[r].at = at /\ reply'[r].msg = n /\ reply'[r].picture = picture
        /\ reply'[r].number = seq[n]
        /\ \A q \in Replies \ {r} : reply'[q] = reply[q]
        /\ seq' = seq
    BY <1>0, <1>3 DEF Get, ReplyState
  <2>2. ASSUME n \notin GroupMessages, CountAt(n)
        PROVE  /\ r \in Uploaded(n) => r \in Uploaded(n)'
               /\ r \in Sent(n) => r \in Sent(n)'
               /\ Spent(n) <= Spent(n)' => CountedWell(r, n)'
    <3>1. reply[r].at = "upload" /\ reply[r].msg = n => reply[r].picture
      BY <2>2 DEF CountAt, CountedWell
    <3>2. ~(reply[r].at = "retry" /\ reply[r].msg = n)
      BY <2>2 DEF CountAt, CountedWell
    <3>3. r \in Uploaded(n) => r \in Uploaded(n)'
      BY <1>3, <2>1, <3>1, <3>2 DEF Uploaded
    <3>4. r \notin Sent(n)
      BY <1>3, <3>2 DEF Sent
    <3>5. seq[n] <= Spent(n) /\ seq[n] \in Nat
      BY <1>0, <2>2 DEF CountAt
    <3>6. Spent(n) \in Nat /\ Spent(n)' \in Nat
      <4>1. Spent(n) \in Nat
        BY SpentType
      <4>2. PICK u, v : u = Uploaded(n)' /\ v = Sent(n)'
        OBVIOUS
      <4>3. u \subseteq Replies /\ v \subseteq Replies
        BY <4>2 DEF Uploaded, Sent
      <4>4. Cardinality(u) \in Nat /\ Cardinality(v) \in Nat
        BY <4>3, Grown
      <4> QED  BY <4>1, <4>2, <4>4 DEF Spent
    <3>7. Spent(n) <= Spent(n)' => CountedWell(r, n)'
      BY <1>3, <2>1, <3>5, <3>6 DEF CountedWell
    <3> QED  BY <3>3, <3>4, <3>7
  <2> QED  BY <1>2, <1>3, <2>1, <2>2
<1>4. ASSUME NEW n \in Messages, NEW picture \in BOOLEAN, GetSeq(r, n, picture)  PROVE CountInv'
  BY <1>3, <1>4 DEF GetSeq
<1> PICK n \in Messages : n = reply[r].msg
  BY <1>0
<1>5. CASE GetSeqAgain(r)
  <2>1. PICK picture \in BOOLEAN : picture = reply[r].picture
    BY <1>0
  <2> QED  BY <1>3, <1>5, <2>1 DEF GetSeqAgain
<1>6. CASE AddUploadSeq(r) \/ AddSeq(r)
  <2>1. /\ reply[r].at \in {"addUpload", "add"}
        /\ reply'[r].at = IF reply[r].at = "add" THEN "post" ELSE "upload"
        /\ reply'[r].msg = n
        /\ reply[r].at = "addUpload" => reply'[r].picture = reply[r].picture
        /\ reply[r].at = "add" => reply'[r].number = Number(r)
        /\ seq' = [seq EXCEPT ![n] = reply[r].number + 1]
        /\ \A q \in Replies \ {r} : reply'[q] = reply[q]
    <3>1. CASE AddUploadSeq(r)
      BY <1>0, <3>1 DEF AddUploadSeq, ReplyState
    <3>2. CASE AddSeq(r)
      BY <1>0, <3>2 DEF AddSeq, ReplyState
    <3> QED  BY <1>6, <3>1, <3>2
  <2>2. ASSUME n \notin GroupMessages, CountAt(n)
        PROVE  /\ Uploaded(n) \subseteq Uploaded(n)' /\ Sent(n) \subseteq Sent(n)'
               /\ seq'[n] <= Spent(n)'
               /\ CountedWell(r, n)'
    <3>1. CountedWell(r, n)
      BY <2>2 DEF CountAt
    <3>2. reply[r].number <= Spent(n) /\ reply[r].number \in Nat
          /\ seq'[n] = reply[r].number + 1
      BY <1>0, <2>1, <3>1 DEF CountedWell
    <3>3. Uploaded(n) \subseteq Uploaded(n)' /\ Sent(n) \subseteq Sent(n)'
      BY <2>1 DEF Uploaded, Sent
    <3>4. PICK u, v : u = Uploaded(n)' /\ v = Sent(n)'
      OBVIOUS
    <3>5. u \subseteq Replies /\ v \subseteq Replies
      BY <3>4 DEF Uploaded, Sent
    <3>6. /\ Cardinality(Uploaded(n)) \in Nat /\ Cardinality(u) \in Nat
          /\ Cardinality(Sent(n)) \in Nat /\ Cardinality(v) \in Nat
          /\ Cardinality(Uploaded(n)) <= Cardinality(u) /\ Cardinality(Sent(n)) <= Cardinality(v)
          /\ Cardinality(u) <= Cardinality(Replies) /\ Cardinality(v) <= Cardinality(Replies)
          /\ Cardinality(Replies) \in Nat
      BY <3>3, <3>4, <3>5, Grown
    <3>7. CASE reply[r].at = "addUpload"
      <4>1. r \in u /\ r \notin Uploaded(n)
        BY <2>1, <3>4, <3>7 DEF Uploaded
      <4>2. Cardinality(Uploaded(n)) + 1 <= Cardinality(u)
        BY <3>3, <3>4, <3>5, <4>1, Grown
      <4>3. seq'[n] <= Spent(n)'
        BY <3>2, <3>4, <3>6, <4>2 DEF Spent
      <4>4. CountedWell(r, n)'
        BY <2>1, <3>1, <3>7 DEF CountedWell
      <4> QED  BY <3>3, <4>3, <4>4
    <3>8. CASE reply[r].at = "add"
      <4>1. r \in v /\ r \notin Sent(n)
        BY <2>1, <3>4, <3>8 DEF Sent
      <4>2. Cardinality(Sent(n)) + 1 <= Cardinality(v)
        BY <3>3, <3>4, <3>5, <4>1, Grown
      <4>3. seq'[n] <= Spent(n)'
        BY <3>2, <3>4, <3>6, <4>2 DEF Spent
      <4>4. Number(r) < 2 * Cardinality(Replies)
        <5>1. CASE reply[r].picture
          BY <3>2, <3>6, <4>2, <5>1 DEF Number, Spent
        <5>2. CASE ~reply[r].picture
          <6>1. r \in u /\ r \notin Uploaded(n)
            BY <2>1, <3>4, <3>8, <5>2 DEF Uploaded
          <6>2. Cardinality(Uploaded(n)) + 1 <= Cardinality(u)
            BY <3>3, <3>4, <3>5, <6>1, Grown
          <6> QED  BY <3>2, <3>6, <4>2, <5>2, <6>2 DEF Number, Spent
        <5> QED  BY <5>1, <5>2
      <4>5. CountedWell(r, n)'
        BY <2>1, <3>8, <4>4 DEF CountedWell
      <4> QED  BY <3>3, <4>3, <4>5
    <3> QED  BY <2>1, <3>7, <3>8
  <2>3. \A m \in Messages \ {n} : seq'[m] = seq[m]
    BY <1>0, <2>1
  <2> QED  BY <1>1, <2>1, <2>2, <2>3
<1>7. CASE UploadFails(r) \/ ReplyRefused(r) \/ ReplyPosted(r)
  <2>1. /\ \A q \in Replies \ {r} : reply'[q] = reply[q]
        /\ reply'[r].msg = n /\ reply'[r].at = "done" /\ seq' = seq
    BY <1>0, <1>7 DEF UploadFails, ReplyRefused, ReplyPosted, ReplyState
  <2>2. CountedWell(r, n)' /\ r \in Uploaded(n)' /\ r \in Sent(n)'
    BY <2>1 DEF CountedWell, Uploaded, Sent
  <2> QED  BY <1>2, <2>1, <2>2
<1>8. CASE ReplyTimesOut(r)
  <2>1. /\ \A q \in Replies \ {r} : reply'[q] = reply[q]
        /\ seq' = seq /\ reply[r].at = "post"
        /\ reply'[r] = IF reply[r].tries + 1 < MaxTries THEN Retry(r)
                       ELSE [reply[r] EXCEPT !.at = "done"]
    BY <1>0, <1>8 DEF ReplyTimesOut
  <2>2. /\ Retry(r).msg = n /\ Retry(r).number = reply[r].number
        /\ Retry(r).at = IF n \in GroupMessages THEN "retry" ELSE "post"
    BY <1>0 DEF Retry, ReplyState
  <2>3. /\ [reply[r] EXCEPT !.at = "done"].msg = n
        /\ [reply[r] EXCEPT !.at = "done"].at = "done"
    BY <1>0 DEF ReplyState
  <2>4. /\ reply'[r].msg = n /\ reply'[r].at \in {"retry", "post", "done"}
        /\ n \notin GroupMessages => reply'[r].at # "retry"
        /\ reply'[r].at = "post" => reply'[r].number = reply[r].number
    BY <2>1, <2>2, <2>3
  <2>5. ASSUME n \notin GroupMessages, CountAt(n)
        PROVE  CountedWell(r, n)' /\ r \in Uploaded(n)' /\ r \in Sent(n)'
    <3>1. CountedWell(r, n)
      BY <2>5 DEF CountAt
    <3> QED  BY <2>1, <2>4, <2>5, <3>1 DEF CountedWell, Uploaded, Sent
  <2> QED  BY <1>2, <2>1, <2>4, <2>5
<1> QED  BY <1>4, <1>5, <1>6, <1>7, <1>8 DEF ReplyStep

LEMMA CountNext ==
    ASSUME IsFiniteSet(Replies), StreamTypeOK, ReplyTypeOK, CountInv, [Next]_vars
    PROVE  CountInv'
<1>1. ASSUME NEW c \in Calls, CallStep(c)  PROVE CountInv'
  <2>1. UNCHANGED ordinary
    BY <1>1, CallStepFrame
  <2>2. \A m \in Messages : m \notin GroupMessages => CountAt(m)'
    BY <2>1 DEF ordinary, CountInv, CountAt, CountedWell, Spent, Uploaded, Sent
  <2>3. /\ Others(c)
        /\ InFlight(c)' \/ call'[c].at = "take" => call'[c].msg \notin GroupMessages
    <3>1. ASSUME NEW m \in Messages, NEW final \in BOOLEAN, Begin(c, m, final)
          PROVE  /\ Others(c)
                 /\ InFlight(c)' \/ call'[c].at = "take" => call'[c].msg \notin GroupMessages
      BY <3>1, BeginEffect DEF Begin
    <3>2. CASE TakeIndex(c)
      BY <3>2, TakeIndexEffect DEF CountInv
    <3>3. CASE Posted(c) \/ PostRefused(c) \/ PostAnswerLost(c)
      BY <3>3, PostEffect DEF CountInv, InFlight
    <3>4. CASE RollBack(c)
      BY <3>4, RollBackEffect DEF InFlight
    <3>5. CASE UpdateRelatedID(c)
      BY <3>5, UpdateEffect DEF InFlight
    <3>6. CASE ClearStreamState(c)
      BY <3>6, ClearEffect DEF InFlight
    <3> QED  BY <1>1, <3>1, <3>2, <3>3, <3>4, <3>5, <3>6 DEF CallStep
  <2>4. \A d \in Calls : InFlight(d)' \/ call'[d].at = "take" => call'[d].msg \notin GroupMessages
    BY <2>3 DEF Others, CountInv, InFlight
  <2> QED  BY <2>2, <2>4 DEF CountInv
<1>2. CASE CleanupSeq
  <2>1. \A m \in Messages : seq'[m] = 0 /\ Spent(m) \in Nat
    BY <1>2, SpentType DEF CleanupSeq
  <2>2. reply' = reply /\ call' = call
    BY <1>2 DEF CleanupSeq, stream
  <2>3. \A m \in Messages : Spent(m)' = Spent(m)
    BY <2>2 DEF Spent, Uploaded, Sent
  <2> QED  BY <2>1, <2>2, <2>3 DEF CountInv, CountAt, CountedWell, InFlight
<1>3. CASE UNCHANGED vars
  BY <1>3 DEF vars, ordinary, stream, CountInv, CountAt, CountedWell, Spent, Uploaded, Sent,
              InFlight
<1> QED  BY <1>1, <1>2, <1>3, CountReplyStep, NextCases

(* Of finitely many replies none takes the number of a fragment in flight,  *)
(* if two numbers for each are reserved: the reserved numbers suffice,      *)
(* however texts, pictures, retries and the ticker meet.                    *)
THEOREM SpecReservedForReplies ==
    ASSUME IsFiniteSet(Replies)
    PROVE  Spec => []ReservedForReplies
<1>1. Spec => [](StreamTypeOK /\ ReplyTypeOK)
  BY InitType, NextType, PTL DEF Spec
<1>2. StreamTypeOK /\ ReplyTypeOK /\ CountInv => ReservedForReplies
  <2> SUFFICES ASSUME StreamTypeOK, ReplyTypeOK, CountInv,
                      2 * Cardinality(Replies) <= Reserved,
                      NEW m \in Messages, NEW r \in Replies, NEW c \in Calls,
                      reply[r].msg = m, reply[r].at = "post",
                      call[c].msg = m, InFlight(c)
               PROVE  reply[r].number # FragmentNumber(call[c].index)
    BY DEF ReservedForReplies
  <2>1. m \notin GroupMessages
    BY DEF CountInv
  <2>2. reply[r].number < 2 * Cardinality(Replies)
    BY <2>1 DEF CountInv, CountAt, CountedWell
  <2>3. reply[r].number \in Nat /\ call[c].index \in Nat /\ Reserved \in Nat
        /\ Cardinality(Replies) \in Nat
    BY PrivateStreamAssumption, FS_CardinalityType DEF StreamTypeOK, ReplyTypeOK, ReplyState, InFlight
  <2> QED  BY <2>2, <2>3 DEF FragmentNumber
<1>3. Init => CountInv
  BY CountInit
<1>4. StreamTypeOK /\ ReplyTypeOK /\ CountInv /\ [Next]_vars => CountInv'
  BY CountNext
<1> QED  BY <1>1, <1>2, <1>3, <1>4, PTL DEF Spec
=============================================================================
