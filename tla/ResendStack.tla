----------------------------- MODULE ResendStack -----------------------------
(***************************************************************************)
(* Group messages that wait for a passive ID, from handlers/               *)
(* send_group_msg.go and echo/echo.go.  With lazy_message_id a message     *)
(* that the platform refuses with code 22009 is pushed on a stack of all   *)
(* groups; before the next message that has a passive ID is sent,          *)
(* SendStackMessages sends up to Count waiting ones of its group.  It      *)
(* iterates over a slice that shares its array with the stack, and removes *)
(* what it delivered by position.                                          *)
(***************************************************************************)
EXTENDS Naturals, Sequences, FiniteSets

CONSTANTS
    Groups,
    MaxActions, \* bound: calls of send_group_msg, in order of beginning
    Count,      \* AMsgRetryAsPMsg_Count: entries of the stack read at a time
    Overlap     \* whether the application sends before the last answer

ASSUME ResendStackAssumption ==
    Groups # {} /\ MaxActions \in Nat /\ Count \in Nat /\ Overlap \in BOOLEAN

VARIABLES
    arrays,     \* the arrays behind the stack
    stack,      \* globalMessageGroupStack, of messages named after their action
    action,     \* the local state of each action
    delivered,  \* history: the waiting messages the platform took
    refused,    \* history: the messages that were pushed
    dropped,    \* history: the messages the ticker removed
    disturbed,  \* history: the loops under which the stack has changed
    mistaken    \* history: the messages that disturbed loops removed

history == <<delivered, refused, dropped>>
queue == <<arrays, stack>>
resendVars == <<queue, action, history, disturbed, mistaken>>

Actions == 1 .. MaxActions
NoMessage == 0

Slice == INSTANCE GoSlice WITH Elements <- Actions, Zero <- NoMessage

ActionState ==
    [at : {"new", "next", "post", "remove", "push", "own", "pushOwn", "done"},
     group : Groups, view : Slice!Header, i : Nat, msg : Actions \cup {NoMessage}]

NoLoop(at, group) ==
    [at |-> at, group |-> group, view |-> Slice!Empty, i |-> 0, msg |-> NoMessage]

ResendInit ==
    /\ arrays = Slice!NoArrays
    /\ stack = Slice!Empty
    /\ action = [a \in Actions |-> NoLoop("new", CHOOSE g \in Groups : TRUE)]
    /\ delivered = {}
    /\ refused = {}
    /\ dropped = {}
    /\ disturbed = {}
    /\ mistaken = {}

Goto(a, at) == action' = [action EXCEPT ![a].at = at]
Leave(a, at) == action' = [action EXCEPT ![a] = NoLoop(at, @.group)]
Advance(a) == action' = [action EXCEPT ![a].at = "next", ![a].i = @ + 1, ![a].msg = NoMessage]

MayBegin(a) ==
    /\ action[a].at = "new"
    /\ \A b \in Actions : b < a => action[b].at # "new"
    /\ Overlap \/ \A b \in Actions : action[b].at \in {"new", "done"}

\* GetLazyMessagesId found no ID: the message is active.
BeginActive(a, g) ==
    /\ MayBegin(a)
    /\ action' = [action EXCEPT ![a] = NoLoop("own", g)]
    /\ UNCHANGED <<queue, history>>

\* PopGlobalStackMulti reads without a copy.
Popped == [stack EXCEPT !.len = IF Count < @ THEN Count ELSE @]

BeginPassive(a, g) ==
    /\ MayBegin(a)
    /\ action' = [action EXCEPT ![a] = [at |-> "next", group |-> g, view |-> Popped,
                                    i |-> 1, msg |-> NoMessage]]
    /\ UNCHANGED <<queue, history>>

-----------------------------------------------------------------------------
(* Each action has a goroutine and the lock is let go between its calls, so *)
(* the stack changes under a loop.  The positions it has read still fit if  *)
(* only messages behind them come or go, and, as its slice shares the       *)
(* array, even if others leave before it reads on.  They no longer fit when *)
(*   - a push, its own too, moves the stack to a new array with two turns   *)
(*     or more to go: a removal then shifts only one of the two arrays;     *)
(*   - another's push comes to the very position it is at;                  *)
(*   - another's removal shifts the message it has in hand, or the position *)
(*     it comes to next when it reads another array.                        *)
Looping == {"next", "post", "remove", "push"}
Loops == {a \in Actions : action[a].at \in Looping}
Turn(a) == IF action[a].at = "push" THEN action[a].i + 1 ELSE action[a].i
SharesArray(a) == action[a].view.array = stack.array

DisturbedByPush(b) == {a \in Loops :
    \/ SharesArray(a) /\ ~Slice!HasRoom(arrays, stack) /\ Turn(a) < action[a].view.len
    \/ a # b /\ stack.len + 1 = action[a].i}

DisturbedByRemoval(b) == {a \in Loops \ {b} :
    \/ action[a].at \in {"post", "remove"} /\ action[b].i <= action[a].i
    \/ ~SharesArray(a) /\ action[b].i <= Turn(a)}

-----------------------------------------------------------------------------
(* SendStackMessages.  The element is read when the loop comes to it.       *)

InHand(a) == Slice!Get(arrays, action[a].view, action[a].i)

NextQueued(a) ==
    /\ action[a].at = "next"
    /\ action[a].i <= action[a].view.len
    /\ IF action[InHand(a)].group = action[a].group
       THEN action' = [action EXCEPT ![a].at = "post", ![a].msg = InHand(a)]
       ELSE Advance(a)
    /\ UNCHANGED <<queue, history>>

ResendTaken(a) ==
    /\ action[a].at = "post"
    /\ delivered' = delivered \cup {action[a].msg}
    /\ Goto(a, "remove")
    /\ UNCHANGED <<queue, refused, dropped>>

\* Any error but code 22009; the message may have arrived.
ResendFails(a) ==
    /\ action[a].at = "post"
    /\ delivered' \in {delivered, delivered \cup {action[a].msg}}
    /\ Advance(a)
    /\ UNCHANGED <<queue, refused, dropped>>

ResendForbidden(a) ==
    /\ action[a].at = "post"
    /\ Goto(a, "push")
    /\ UNCHANGED <<queue, history>>

RemoveFirst(a) ==
    /\ action[a].at = "remove"
    /\ IF stack.len > 0
       THEN /\ arrays' = Slice!ArraysAfterRemove(arrays, stack, 1)
            /\ stack' = Slice!HeaderAfterRemove(stack)
       ELSE UNCHANGED queue
    /\ Advance(a)
    /\ UNCHANGED history

RemoveFromGlobalStack(a) ==
    /\ action[a].at = "remove"
    /\ IF action[a].i <= stack.len
       THEN /\ arrays' = Slice!ArraysAfterRemove(arrays, stack, action[a].i)
            /\ stack' = Slice!HeaderAfterRemove(stack)
       ELSE UNCHANGED queue
    /\ Advance(a)
    /\ UNCHANGED history

PushGlobalStack(m) ==
    /\ arrays' = Slice!ArraysAfterAppend(arrays, stack, m)
    /\ stack' = Slice!HeaderAfterAppend(arrays, stack)
    /\ refused' = refused \cup {m}
    /\ UNCHANGED <<delivered, dropped>>

PushAgain(a) ==
    /\ action[a].at = "push"
    /\ PushGlobalStack(action[a].msg)
    /\ Advance(a)

LoopEnds(a) ==
    /\ action[a].at = "next"
    /\ action[a].i > action[a].view.len
    /\ Leave(a, "own")
    /\ UNCHANGED <<queue, history>>

-----------------------------------------------------------------------------
(* The action's own message.  Errors but code 22009 are answered or retried *)
(* (see PrivateStream for retries) and never touch the stack.               *)

OwnSent(a) ==
    /\ action[a].at = "own"
    /\ Leave(a, "done")
    /\ UNCHANGED <<queue, history>>

OwnForbidden(a) ==
    /\ action[a].at = "own"
    /\ Goto(a, "pushOwn")
    /\ UNCHANGED <<queue, history>>

PushOwn(a) ==
    /\ action[a].at = "pushOwn"
    /\ PushGlobalStack(a)
    /\ Leave(a, "done")

\* The ticker puts an empty slice in place of the stack.
Queued == {arrays[stack.array][i] : i \in 1 .. stack.len}

CleanupMessageGroupStack ==
    /\ arrays[stack.array] # <<>>
    /\ arrays' = Append(arrays, <<>>)
    /\ stack' = [array |-> Len(arrays'), len |-> 0]
    /\ dropped' = dropped \cup Queued
    /\ UNCHANGED <<action, delivered, refused>>

Quiet(a) ==
    \/ \E g \in Groups : BeginActive(a, g) \/ BeginPassive(a, g)
    \/ NextQueued(a)
    \/ ResendTaken(a) \/ ResendFails(a) \/ ResendForbidden(a)
    \/ OwnSent(a) \/ OwnForbidden(a)

ResendNext ==
    \/ \E a \in Actions :
        \/ Quiet(a) /\ UNCHANGED <<disturbed, mistaken>>
        \/ LoopEnds(a) /\ disturbed' = disturbed \ {a} /\ UNCHANGED mistaken
        \/ /\ RemoveFromGlobalStack(a)
           /\ IF stack' = stack THEN UNCHANGED <<disturbed, mistaken>>
              ELSE /\ disturbed' = disturbed \cup DisturbedByRemoval(a)
                   /\ mistaken' = IF a \in disturbed
                                  THEN mistaken \cup {Slice!Get(arrays, stack, action[a].i)}
                                  ELSE mistaken
        \/ /\ PushAgain(a) \/ PushOwn(a)
           /\ disturbed' = disturbed \cup DisturbedByPush(a)
           /\ UNCHANGED mistaken
    \/ CleanupMessageGroupStack /\ UNCHANGED <<disturbed, mistaken>>

ResendSpec == ResendInit /\ [][ResendNext]_resendVars

-----------------------------------------------------------------------------
(* Every variable has its range; what waits is a message, never the zero    *)
(* behind the end of the stack.                                             *)
ResendTypeOK ==
    /\ arrays \in Seq(Slice!Array)
    /\ stack \in Slice!Header
    /\ Queued \subseteq Actions
    /\ action \in [Actions -> ActionState]
    /\ delivered \subseteq Actions
    /\ refused \subseteq Actions
    /\ dropped \subseteq Actions
    /\ disturbed \subseteq Actions
    /\ mistaken \subseteq Actions

(* What config_template.go:163 says of a refused message: it is sent again  *)
(* with a later passive one, so it stays queued until the platform takes    *)
(* it, unless the ticker removes it.                                        *)
QueuedUntilDelivered == refused \subseteq Queued \cup delivered \cup dropped

(* What the code keeps of this, for any number read at a time and any       *)
(* actions at once: a loop never removes a message that was not delivered   *)
(* unless the stack changed under it in one of the ways above.              *)
OnlyDisturbedLose == refused \subseteq Queued \cup delivered \cup dropped \cup mistaken
=============================================================================
