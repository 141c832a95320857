---------------------------- MODULE PrivateStream ----------------------------
(***************************************************************************)
(* Answers to messages, from handlers/send_private_msg_sse.go,             *)
(* send_private_msg.go and send_group_msg.go.  A stream is sent as         *)
(* fragments, one call of HandleSendPrivateMsgSSE each; its state is two   *)
(* maps under a lock, which every call takes up to four times.  Ordinary   *)
(* replies take numbers from echo's counter.  All numbers sent with one    *)
(* message have to differ: the platform refuses one it has seen.           *)
(***************************************************************************)
EXTENDS Integers, Sequences, FiniteSets

CONSTANTS
    Messages,   \* platform messages that are answered
    Patient,    \* those whose application awaits a call before the next one
    MaxCalls,   \* bound: calls of HandleSendPrivateMsgSSE, in order of beginning
    GroupMessages, \* those from groups, which are not answered by streams
    Replies,    \* ordinary answers, with one text or one picture each
    MaxAnswers, \* bound: calls and ordinary answers together
    Reserved,   \* the numbers left to ordinary replies: 10 in the code
    MaxTries    \* maxRetry of both postC2CMessageWithRetry and its counterpart
                \* for groups: 3 in the code

ASSUME PrivateStreamAssumption ==
    /\ Messages # {}
    /\ Patient \subseteq Messages /\ GroupMessages \subseteq Messages
    /\ Reserved \in Nat \ {0}
    /\ MaxTries \in Nat \ {0}
    /\ MaxCalls \in Nat /\ MaxAnswers \in Nat

VARIABLES
    index,      \* indexByMessageID: last fragment taken, Absent if none
    related,    \* relatedByMessageID: ID of the stream, NoStream if none
    cleared,    \* history: clearStreamState has run for the message
    overtaken,  \* history: a call began between the answer to a last fragment
                \* and the clearStreamState that follows it
    call,       \* the local state of each streaming call
    seq,        \* echo's last reply number of each message
    reply,      \* the local state of each ordinary reply
    held,       \* what the platform holds of a message's fragments
    numbers,    \* reply numbers the platform has seen with a message
    delivered,  \* history: how often the platform took each reply
    mixed       \* history: messages whose counter two replies used at a time,
                \* or that the ticker reset

history == <<cleared, overtaken>>
stream == <<index, related, call, history>>
ordinary == <<seq, reply, mixed>>
platform == <<held, numbers, delivered>>
vars == <<stream, ordinary, platform>>

Calls == 1 .. MaxCalls
Absent == -1
NoStream == 0
AnyMessage == CHOOSE m \in Messages : TRUE   \* in records without a message yet

\* A stream is named after the position at which its first fragment arrived.
Fragment == [index : Nat, id : Nat]
CallState == [at : {"new", "take", "post", "failed", "update", "clear", "done"},
              msg : Messages, final : BOOLEAN, id : Nat, index : Int]
ReplyState == [at : {"new", "addUpload", "upload", "add", "post", "retry", "done"},
               msg : Messages, picture : BOOLEAN, number : Nat, tries : Nat]

\* A call without local variables: before it began or after it returned.
NoCall(at) == [at |-> at, msg |-> AnyMessage, final |-> FALSE,
               id |-> NoStream, index |-> Absent]

Init ==
    /\ index = [m \in Messages |-> Absent]
    /\ related = [m \in Messages |-> NoStream]
    /\ cleared = [m \in Messages |-> FALSE]
    /\ overtaken = [m \in Messages |-> FALSE]
    /\ call = [c \in Calls |-> NoCall("new")]
    /\ reply = [r \in Replies |->
                   [at |-> "new", msg |-> AnyMessage, picture |-> FALSE, number |-> 0, tries |-> 0]]
    /\ mixed = {}
    /\ seq = [m \in Messages |-> 0]
    /\ held = [m \in Messages |-> <<>>]
    /\ numbers = [m \in Messages |-> {}]
    /\ delivered = [r \in Replies |-> 0]

-----------------------------------------------------------------------------
(* The platform.  It refuses a number that it has seen with the message,    *)
(* and may refuse anything else; an error may also hide a success.          *)

\* The number a fragment is sent with.
FragmentNumberShort(i) == i + Reserved - 1
FragmentNumber(i) == i + Reserved

SeenNumbers(m) ==
    numbers[m] \cup {FragmentNumber(held[m][i].index) : i \in DOMAIN held[m]}

\* A fragment without a stream ID opens a new stream.
StreamId(m, id) == IF id = NoStream THEN Len(held[m]) + 1 ELSE id

TakeFragment(c) ==
    LET m == call[c].msg IN
    /\ FragmentNumber(call[c].index) \notin SeenNumbers(m)
    /\ held' = [held EXCEPT ![m] = Append(@,
                   [index |-> call[c].index, id |-> StreamId(m, call[c].id)])]
    /\ UNCHANGED <<numbers, delivered>>

TakeReply(r) ==
    LET m == reply[r].msg IN
    /\ reply[r].number \notin SeenNumbers(m)
    /\ numbers' = [numbers EXCEPT ![m] = @ \cup {reply[r].number}]
    /\ delivered' = [delivered EXCEPT ![r] = @ + 1]
    /\ UNCHANGED held

-----------------------------------------------------------------------------
(* HandleSendPrivateMsgSSE                                                  *)

Goto(c, at) == call' = [call EXCEPT ![c].at = at]
Return(c) == call' = [call EXCEPT ![c] = NoCall("done")]

\* The response goes out after UpdateRelatedID and before clearStreamState.
InCall(c, m) == call[c].at \notin {"new", "done"} /\ call[c].msg = m
Unanswered(c, m) == InCall(c, m) /\ call[c].at # "clear"

MayAnswer ==
    Cardinality({c \in Calls : call[c].at # "new"})
        + Cardinality({r \in Replies : reply[r].at # "new"}) < MaxAnswers

Begin(c, m, final) ==
    /\ MayAnswer
    /\ call[c].at = "new"
    /\ m \notin GroupMessages
    /\ \A d \in Calls : d < c => call[d].at # "new"
    /\ m \in Patient => \A d \in Calls : ~Unanswered(d, m)
    /\ call' = [call EXCEPT ![c] = [at |-> "take", msg |-> m, final |-> final,
                                    id |-> related[m], index |-> Absent]]
    /\ overtaken' = [overtaken EXCEPT
           ![m] = @ \/ \E d \in Calls : call[d].msg = m /\ call[d].at = "clear"]
    /\ UNCHANGED <<index, related, cleared, ordinary, platform>>

TakeIndex(c) ==
    LET m == call[c].msg IN
    /\ call[c].at = "take"
    /\ index' = [index EXCEPT ![m] = @ + 1]
    /\ call' = [call EXCEPT ![c].at = "post", ![c].index = index'[m]]
    /\ UNCHANGED <<related, history, ordinary, platform>>

Posted(c) ==
    /\ call[c].at = "post"
    /\ TakeFragment(c)
    /\ call' = [call EXCEPT ![c].at = "update",
                            ![c].id = StreamId(call[c].msg, @)]
    /\ UNCHANGED <<index, related, history, ordinary>>

PostRefused(c) ==
    /\ call[c].at = "post"
    /\ Goto(c, "failed")
    /\ UNCHANGED <<index, related, history, ordinary, platform>>

PostAnswerLost(c) ==
    /\ call[c].at = "post"
    /\ TakeFragment(c)
    /\ Goto(c, "failed")
    /\ UNCHANGED <<index, related, history, ordinary>>

RollBackAlways(c) ==
    LET m == call[c].msg IN
    /\ call[c].at = "failed"
    /\ index' = [index EXCEPT ![m] = @ - 1]
    /\ Return(c)
    /\ UNCHANGED <<related, history, ordinary, platform>>

RollBackNever(c) ==
    /\ call[c].at = "failed"
    /\ Return(c)
    /\ UNCHANGED <<index, related, history, ordinary, platform>>

\* The code reads a missing index as 0, and then deletes what is not there.
RollBack(c) ==
    LET m == call[c].msg IN
    /\ call[c].at = "failed"
    /\ index' = [index EXCEPT ![m] = IF @ = call[c].index THEN @ - 1 ELSE @]
    /\ Return(c)
    /\ UNCHANGED <<related, history, ordinary, platform>>

UpdateRelatedID(c) ==
    /\ call[c].at = "update"
    /\ related' = [related EXCEPT ![call[c].msg] = call[c].id]
    /\ IF call[c].final THEN Goto(c, "clear") ELSE Return(c)
    /\ UNCHANGED <<index, history, ordinary, platform>>

ClearHalf(c) ==
    LET m == call[c].msg IN
    /\ call[c].at = "clear"
    /\ index' = [index EXCEPT ![m] = Absent]
    /\ cleared' = [cleared EXCEPT ![m] = TRUE]
    /\ Return(c)
    /\ UNCHANGED <<related, overtaken, ordinary, platform>>

ClearStreamState(c) ==
    LET m == call[c].msg IN
    /\ call[c].at = "clear"
    /\ index' = [index EXCEPT ![m] = Absent]
    /\ related' = [related EXCEPT ![m] = NoStream]
    /\ cleared' = [cleared EXCEPT ![m] = TRUE]
    /\ Return(c)
    /\ UNCHANGED <<overtaken, ordinary, platform>>

-----------------------------------------------------------------------------
(* An ordinary reply.  GetMappingSeq and AddMappingSeq are two operations.  *)
(* A picture takes a number for its upload and is sent with the one it then *)
(* reads.  After a timeout a private reply is sent with its number again,   *)
(* one to a group with the next number.                                     *)

Numbering(r) == reply[r].at \in {"addUpload", "upload", "add"}

Get(r, m, at, picture) ==
    /\ reply' = [reply EXCEPT ![r].at = at, ![r].msg = m, ![r].picture = picture,
                              ![r].number = seq[m]]
    /\ mixed' = mixed \cup
           {n \in {m} : \E q \in Replies \ {r} : Numbering(q) /\ reply[q].msg = n}
    /\ UNCHANGED <<seq, stream, platform>>

GetSeq(r, m, picture) ==
    /\ MayAnswer
    /\ reply[r].at = "new"
    /\ Get(r, m, IF picture THEN "addUpload" ELSE "add", picture)

AddUploadSeq(r) ==
    /\ reply[r].at = "addUpload"
    /\ seq' = [seq EXCEPT ![reply[r].msg] = reply[r].number + 1]
    /\ reply' = [reply EXCEPT ![r].at = "upload"]
    /\ UNCHANGED <<mixed, stream, platform>>

GetSeqAgain(r) ==
    /\ reply[r].at \in {"upload", "retry"}
    /\ Get(r, reply[r].msg, "add", reply[r].picture)

UploadFails(r) ==
    /\ reply[r].at = "upload"
    /\ reply' = [reply EXCEPT ![r].at = "done"]
    /\ UNCHANGED <<seq, mixed, stream, platform>>

Number(r) == IF reply[r].picture THEN reply[r].number ELSE reply[r].number + 1

AddSeqAsRead(r) ==
    /\ reply[r].at = "add"
    /\ seq' = [seq EXCEPT ![reply[r].msg] = reply[r].number]
    /\ reply' = [reply EXCEPT ![r].at = "post", ![r].picture = FALSE, ![r].number = Number(r)]
    /\ UNCHANGED <<mixed, stream, platform>>

AddSeq(r) ==
    /\ reply[r].at = "add"
    /\ seq' = [seq EXCEPT ![reply[r].msg] = reply[r].number + 1]
    /\ reply' = [reply EXCEPT ![r].at = "post", ![r].picture = FALSE, ![r].number = Number(r)]
    /\ UNCHANGED <<mixed, stream, platform>>

ReplyPosted(r) ==
    /\ reply[r].at = "post"
    /\ TakeReply(r)
    /\ reply' = [reply EXCEPT ![r].at = "done"]
    /\ UNCHANGED <<seq, mixed, stream>>

ReplyRefused(r) ==
    /\ reply[r].at = "post"
    /\ reply' = [reply EXCEPT ![r].at = "done"]
    /\ UNCHANGED <<seq, mixed, stream, platform>>

\* A timeout or an expired token: try again, whether it arrived or not.
RetryRenumbered(r) == [reply[r] EXCEPT !.tries = @ + 1, !.at = "retry"]
Retry(r) ==
    [reply[r] EXCEPT !.tries = @ + 1,
                     !.at = IF reply[r].msg \in GroupMessages THEN "retry" ELSE "post"]

ReplyTimesOut(r) ==
    /\ reply[r].at = "post"
    /\ TakeReply(r) \/ UNCHANGED platform
    /\ reply' = [reply EXCEPT ![r] = IF @.tries + 1 < MaxTries THEN Retry(r)
                                     ELSE [@ EXCEPT !.at = "done"]]
    /\ UNCHANGED <<seq, mixed, stream>>

\* The ticker forgets every number.
CleanupSeq ==
    /\ seq' = [m \in Messages |-> 0]
    /\ mixed' = Messages
    /\ UNCHANGED <<reply, stream, platform>>

-----------------------------------------------------------------------------
StreamNext ==
    \E c \in Calls :
        \/ \E m \in Messages, final \in BOOLEAN : Begin(c, m, final)
        \/ TakeIndex(c)
        \/ Posted(c)
        \/ PostRefused(c)
        \/ PostAnswerLost(c)
        \/ RollBack(c)
        \/ UpdateRelatedID(c)
        \/ ClearStreamState(c)

ReplyNext ==
    \/ \E r \in Replies :
        \/ \E m \in Messages, picture \in BOOLEAN : GetSeq(r, m, picture)
        \/ AddUploadSeq(r) \/ UploadFails(r) \/ GetSeqAgain(r) \/ AddSeq(r)
        \/ ReplyPosted(r)
        \/ ReplyRefused(r)
        \/ ReplyTimesOut(r)
    \/ CleanupSeq

Next == StreamNext \/ ReplyNext

Spec == Init /\ [][Next]_vars

-----------------------------------------------------------------------------
(* Every variable has its range.  An index is -1 only when it is absent.    *)
TypeOK ==
    /\ index \in [Messages -> Nat \cup {Absent}]
    /\ related \in [Messages -> Nat]
    /\ cleared \in [Messages -> BOOLEAN]
    /\ overtaken \in [Messages -> BOOLEAN]
    /\ call \in [Calls -> CallState]
    /\ \A c \in Calls : call[c].at \in {"post", "failed", "update", "clear"} => call[c].index \in Nat
    /\ seq \in [Messages -> Nat]
    /\ reply \in [Replies -> ReplyState]
    /\ held \in [Messages -> Seq(Fragment)]
    /\ numbers \in [Messages -> SUBSET Nat]
    /\ delivered \in [Replies -> Nat]
    /\ mixed \subseteq Messages

(* To an application that awaits each call, the platform holds the          *)
(* fragments 0, 1, 2, ... in order, whatever was refused, lost or cleared:  *)
(* each index that was rolled back is sent again before a later one, and    *)
(* one that had arrived is recognised by its number.                        *)
Fragments == [m \in Patient |-> [i \in DOMAIN held[m] |-> held[m][i].index]]

Stream == INSTANCE FragmentStream WITH Messages <- Patient, fragments <- Fragments

ContiguousSpec == Stream!Spec

(* Until a stream of the message was cleared, calls in flight together have *)
(* different indices, also when earlier ones fail and are rolled back.      *)
InFlight(c) == call[c].at \in {"post", "failed"}

InFlightDistinct ==
    \A c, d \in Calls :
        /\ c # d
        /\ InFlight(c)
        /\ InFlight(d)
        /\ call[c].msg = call[d].msg
        /\ ~cleared[call[c].msg]
        => call[c].index # call[d].index

(* An ordinary reply never takes the number of a fragment of the same       *)
(* message, as long as two numbers per reply are reserved: a picture uses   *)
(* up two.                                                                  *)
ReservedForReplies ==
    2 * Cardinality(Replies) <= Reserved =>
        \A m \in Messages, r \in Replies, c \in Calls :
            /\ reply[r].msg = m /\ reply[r].at = "post"
            /\ call[c].msg = m /\ InFlight(c)
            => reply[r].number # FragmentNumber(call[c].index)

(* A private reply is delivered at most once, however often a timeout made  *)
(* it be sent: all tries carry one number.                                  *)
ReplyDeliveredOnce ==
    \A r \in Replies : reply[r].msg \notin GroupMessages => delivered[r] <= 1

(* A reply is not refused for a number that another one used, as long as no *)
(* two replies to the message took numbers at the same time, which for a    *)
(* picture includes its upload, and the ticker did not run.                 *)
NumberIsFresh ==
    \A r \in Replies :
        LET m == reply[r].msg IN
        /\ reply[r].at = "post"
        /\ reply[r].tries = 0 \/ m \in GroupMessages
        /\ m \notin mixed
        => reply[r].number \notin numbers[m]

(* Once a stream was cleared nothing of it is left, to an application that  *)
(* awaits each call and did not begin another in the short time between the *)
(* answer and the clearing: an ID is only kept with an index.               *)
NoIdWithoutIndex ==
    \A m \in Patient :
        /\ ~overtaken[m]
        /\ \A c \in Calls : ~InCall(c, m)
        => (related[m] # NoStream => index[m] # Absent)
=============================================================================
