-------------------------- MODULE ResendStackProofs ---------------------------
(***************************************************************************)
(* Proofs about the stack of refused messages, for any groups and any      *)
(* number of actions.                                                      *)
(***************************************************************************)
EXTENDS ResendStack, SequenceTheorems, TLAPS

(* A slice lies inside its array, and holds messages only.                  *)
Filled(s) ==
    /\ s.array \in 1 .. Len(arrays)
    /\ s.len <= Len(arrays[s.array])
    /\ \A j \in 1 .. s.len : arrays[s.array][j] \in Actions

(* So do the slices that actions iterate over, whatever shifts them.        *)
Sound(x) == x.at \in Looping =>
    /\ Filled(x.view)
    /\ x.i >= 1
    /\ x.at # "next" => x.msg \in Actions /\ x.i <= x.view.len

Shapes ==
    /\ arrays \in Seq(Slice!Array)
    /\ stack \in Slice!Header
    /\ Filled(stack)

StackInv ==
    /\ Shapes
    /\ action \in [Actions -> ActionState]
    /\ \A a \in Actions : Sound(action[a])
    /\ delivered \subseteq Actions /\ refused \subseteq Actions /\ dropped \subseteq Actions

-----------------------------------------------------------------------------
(* The two operations on the stack.                                         *)

(* A push changes one free position or moves the stack to a new array.      *)
LEMMA PushEffect ==
    ASSUME Shapes, NEW m \in Actions, PushGlobalStack(m)
    PROVE  /\ arrays' \in Seq(Slice!Array) /\ stack' \in Slice!Header
           /\ Len(arrays) <= Len(arrays')
           /\ \A n \in 1 .. Len(arrays) :
                /\ Len(arrays'[n]) = Len(arrays[n])
                /\ \A j \in 1 .. Len(arrays[n]) :
                     \/ arrays'[n][j] = arrays[n][j]
                     \/ n = stack.array /\ j = stack.len + 1 /\ arrays'[n][j] = m
           /\ stack'.array = stack.array \/ stack'.array > Len(arrays)
           /\ stack'.array \in 1 .. Len(arrays')
           /\ stack'.len = stack.len + 1 /\ stack'.len <= Len(arrays'[stack'.array])
           /\ \A j \in 1 .. stack.len : arrays'[stack'.array][j] = arrays[stack.array][j]
           /\ arrays'[stack'.array][stack.len + 1] = m
<1> DEFINE A == stack.array
           L == stack.len
<1>1. /\ A \in 1 .. Len(arrays) /\ L \in Nat /\ L <= Len(arrays[A])
      /\ arrays[A] \in Seq(Actions \cup {NoMessage}) /\ Len(arrays[A]) \in Nat /\ Len(arrays) \in Nat
  <2>1. A \in 1 .. Len(arrays) /\ L \in Nat /\ L <= Len(arrays[A]) /\ Len(arrays) \in Nat
    BY DEF Shapes, Filled, Slice!Header
  <2>2. arrays[A] \in Slice!Array
    BY <2>1 DEF Shapes
  <2> QED  BY <2>1, <2>2 DEF Slice!Array
<1>2. CASE L < Len(arrays[A])
  <2> DEFINE new == [arrays[A] EXCEPT ![L + 1] = m]
  <2>1. arrays' = [arrays EXCEPT ![A] = new] /\ stack' = [array |-> A, len |-> L + 1]
    BY <1>2 DEF PushGlobalStack, Slice!ArraysAfterAppend, Slice!HeaderAfterAppend, Slice!HasRoom
  <2>2. /\ new \in Seq(Actions \cup {NoMessage}) /\ Len(new) = Len(arrays[A])
        /\ new[L + 1] = m
        /\ \A j \in 1 .. Len(arrays[A]) : j # L + 1 => new[j] = arrays[A][j]
    BY <1>1, <1>2, ExceptSeq
  <2> HIDE DEF new
  <2>3. /\ arrays' \in Seq(Slice!Array) /\ Len(arrays') = Len(arrays)
        /\ \A n \in 1 .. Len(arrays) : arrays'[n] = IF n = A THEN new ELSE arrays[n]
    BY <1>1, <2>1, <2>2, ExceptSeq DEF Shapes, Slice!Array
  <2>4. stack' \in Slice!Header
    BY <1>1, <2>1 DEF Slice!Header
  <2> QED  BY <1>1, <1>2, <2>1, <2>2, <2>3, <2>4
<1>3. CASE ~(L < Len(arrays[A]))
  <2> DEFINE new == Slice!Grown(arrays[A], m)
  <2>1. arrays' = Append(arrays, new) /\ stack' = [array |-> Len(arrays) + 1, len |-> L + 1]
    BY <1>3 DEF PushGlobalStack, Slice!ArraysAfterAppend, Slice!HeaderAfterAppend, Slice!HasRoom
  <2>2. L = Len(arrays[A])
    BY <1>1, <1>3
  <2>3. /\ new \in Seq(Actions \cup {NoMessage}) /\ Len(new) \in Nat /\ L + 1 <= Len(new)
        /\ new[L + 1] = m
        /\ \A j \in 1 .. L : new[j] = arrays[A][j]
    <3> DEFINE size == IF L = 0 THEN 1 ELSE 2 * L
    <3>1. new = [j \in 1 .. size |-> IF j <= L THEN arrays[A][j] ELSE IF j = L + 1 THEN m ELSE NoMessage]
      BY <2>2 DEF Slice!Grown
    <3>2. size \in Nat /\ L + 1 <= size
      BY <1>1
    <3> HIDE DEF size, new
    <3>3. \A j \in 1 .. size : new[j] \in Actions \cup {NoMessage}
      BY <1>1, <2>2, <3>1, <3>2
    <3>4. new \in Seq(Actions \cup {NoMessage}) /\ Len(new) = size
      BY <3>1, <3>2, <3>3
    <3> QED  BY <1>1, <3>1, <3>2, <3>4
  <2> HIDE DEF new
  <2>4. /\ arrays' \in Seq(Slice!Array) /\ Len(arrays') = Len(arrays) + 1
        /\ arrays'[Len(arrays) + 1] = new
        /\ \A n \in 1 .. Len(arrays) : arrays'[n] = arrays[n]
    BY <1>1, <2>1, <2>3, AppendProperties DEF Shapes, Slice!Array
  <2>5. stack' \in Slice!Header
    BY <1>1, <2>1 DEF Slice!Header
  <2> QED  BY <1>1, <2>1, <2>2, <2>3, <2>4, <2>5
<1> QED  BY <1>1, <1>2, <1>3

(* A removal shifts what follows in the array of the stack.                 *)
LEMMA RemoveEffect ==
    ASSUME Shapes, NEW i \in Nat, 1 <= i, i <= stack.len,
           arrays' = Slice!ArraysAfterRemove(arrays, stack, i),
           stack' = Slice!HeaderAfterRemove(stack)
    PROVE  /\ arrays' \in Seq(Slice!Array) /\ stack' \in Slice!Header
           /\ Len(arrays') = Len(arrays)
           /\ stack'.array = stack.array /\ stack'.len = stack.len - 1
           /\ \A n \in 1 .. Len(arrays) :
                /\ Len(arrays'[n]) = Len(arrays[n])
                /\ \A j \in 1 .. Len(arrays[n]) :
                     arrays'[n][j] = IF n = stack.array /\ i <= j /\ j < stack.len
                                     THEN arrays[n][j + 1] ELSE arrays[n][j]
<1> DEFINE A == stack.array
           L == stack.len
           new == [j \in DOMAIN arrays[A] |-> IF i <= j /\ j < L THEN arrays[A][j + 1] ELSE arrays[A][j]]
<1>1. /\ A \in 1 .. Len(arrays) /\ L \in Nat /\ L <= Len(arrays[A])
      /\ arrays[A] \in Seq(Actions \cup {NoMessage}) /\ Len(arrays[A]) \in Nat /\ Len(arrays) \in Nat
  <2>1. A \in 1 .. Len(arrays) /\ L \in Nat /\ L <= Len(arrays[A]) /\ Len(arrays) \in Nat
    BY DEF Shapes, Filled, Slice!Header
  <2>2. arrays[A] \in Slice!Array
    BY <2>1 DEF Shapes
  <2> QED  BY <2>1, <2>2 DEF Slice!Array
<1>2. arrays' = [arrays EXCEPT ![A] = new]
  BY DEF Slice!ArraysAfterRemove
<1>3. /\ new \in Seq(Actions \cup {NoMessage}) /\ Len(new) = Len(arrays[A])
      /\ \A j \in 1 .. Len(arrays[A]) :
           new[j] = IF i <= j /\ j < L THEN arrays[A][j + 1] ELSE arrays[A][j]
  <2>1. DOMAIN arrays[A] = 1 .. Len(arrays[A])
    BY <1>1
  <2>2. \A j \in 1 .. Len(arrays[A]) : new[j] \in Actions \cup {NoMessage}
    BY <1>1, <2>1
  <2> QED  BY <1>1, <2>1, <2>2
<1> HIDE DEF new
<1>4. /\ arrays' \in Seq(Slice!Array) /\ Len(arrays') = Len(arrays)
      /\ \A n \in 1 .. Len(arrays) : arrays'[n] = IF n = A THEN new ELSE arrays[n]
  BY <1>1, <1>2, <1>3, ExceptSeq DEF Shapes, Slice!Array
<1>5. stack' \in Slice!Header /\ stack'.array = A /\ stack'.len = L - 1
  BY <1>1 DEF Shapes, Slice!HeaderAfterRemove, Slice!Header
<1> QED  BY <1>1, <1>3, <1>4, <1>5

-----------------------------------------------------------------------------
(* A slice stays filled while messages take the place of others.            *)
LEMMA FilledStays ==
    ASSUME Shapes, Len(arrays) <= Len(arrays'), arrays' \in Seq(Slice!Array),
           \A n \in 1 .. Len(arrays) :
               /\ Len(arrays'[n]) = Len(arrays[n])
               /\ \A j \in 1 .. Len(arrays[n]) :
                    arrays'[n][j] = arrays[n][j] \/ arrays'[n][j] \in Actions,
           NEW s \in Slice!Header, Filled(s)
    PROVE  Filled(s)'
<1>1. s.array \in 1 .. Len(arrays) /\ s.len \in Nat /\ Len(arrays) \in Nat /\ Len(arrays') \in Nat
  BY DEF Filled, Slice!Header, Shapes
<1>2. arrays[s.array] \in Slice!Array
  BY <1>1 DEF Shapes
<1>3. Len(arrays[s.array]) \in Nat /\ Len(arrays'[s.array]) = Len(arrays[s.array])
  BY <1>1, <1>2 DEF Slice!Array
<1>4. s.array \in 1 .. Len(arrays') /\ s.len <= Len(arrays'[s.array])
  BY <1>1, <1>3 DEF Filled
<1>5. ASSUME NEW j \in 1 .. s.len  PROVE arrays'[s.array][j] \in Actions
  <2>1. j \in 1 .. Len(arrays[s.array]) /\ arrays[s.array][j] \in Actions
    BY <1>1, <1>3 DEF Filled
  <2> QED  BY <1>1, <2>1
<1> QED  BY <1>4, <1>5 DEF Filled

(* What a push or a removal leaves of the stack and the slices.             *)
LEMMA PushKeepsShapes ==
    ASSUME Shapes, NEW m \in Actions, PushGlobalStack(m)
    PROVE  Shapes' /\ \A s \in Slice!Header : Filled(s) => Filled(s)'
<1>1. ASSUME NEW s \in Slice!Header, Filled(s)  PROVE Filled(s)'
  BY <1>1, PushEffect, FilledStays
<1>2. \A j \in 1 .. stack'.len : arrays'[stack'.array][j] \in Actions
  <2>1. stack.len \in Nat /\ \A j \in 1 .. stack.len : arrays[stack.array][j] \in Actions
    BY DEF Shapes, Filled, Slice!Header
  <2>2. stack'.len = stack.len + 1
    BY PushEffect
  <2>3. ASSUME NEW j \in 1 .. stack'.len  PROVE arrays'[stack'.array][j] \in Actions
    <3>1. CASE j \in 1 .. stack.len
      BY <2>1, <3>1, PushEffect
    <3>2. CASE j = stack.len + 1
      BY <3>2, PushEffect
    <3> QED  BY <2>1, <2>2, <3>1, <3>2
  <2> QED  BY <2>3
<1>3. Shapes'
  BY <1>2, PushEffect DEF Shapes, Filled
<1> QED  BY <1>1, <1>3

LEMMA RemoveKeepsShapes ==
    ASSUME Shapes, NEW i \in Nat, 1 <= i, i <= stack.len,
           arrays' = Slice!ArraysAfterRemove(arrays, stack, i),
           stack' = Slice!HeaderAfterRemove(stack)
    PROVE  Shapes' /\ \A s \in Slice!Header : Filled(s) => Filled(s)'
<1>1. /\ stack.array \in 1 .. Len(arrays) /\ stack.len \in Nat /\ Len(arrays) \in Nat
      /\ stack.len <= Len(arrays[stack.array])
      /\ \A j \in 1 .. stack.len : arrays[stack.array][j] \in Actions
  BY DEF Shapes, Filled, Slice!Header
<1>2. ASSUME NEW n \in 1 .. Len(arrays), NEW j \in 1 .. Len(arrays[n])
      PROVE  arrays'[n][j] = arrays[n][j] \/ arrays'[n][j] \in Actions
  <2>1. arrays'[n][j] = IF n = stack.array /\ i <= j /\ j < stack.len
                        THEN arrays[n][j + 1] ELSE arrays[n][j]
    BY RemoveEffect
  <2>2. j < stack.len => j + 1 \in 1 .. stack.len
    BY <1>1
  <2> QED  BY <1>1, <2>1, <2>2
<1>3. ASSUME NEW s \in Slice!Header, Filled(s)  PROVE Filled(s)'
  BY <1>2, <1>3, RemoveEffect, FilledStays, <1>1
<1>4. arrays[stack.array] \in Slice!Array
  BY <1>1 DEF Shapes
<1>5. Len(arrays[stack.array]) \in Nat
  BY <1>4 DEF Slice!Array
<1>6. \A j \in 1 .. stack'.len : arrays'[stack'.array][j] \in Actions
  <2> TAKE j \in 1 .. stack'.len
  <2>1. stack'.array = stack.array /\ stack'.len = stack.len - 1
    BY RemoveEffect
  <2>2. j \in 1 .. Len(arrays[stack.array]) /\ j \in 1 .. stack.len /\ j + 1 \in 1 .. stack.len
    BY <1>1, <1>5, <2>1
  <2>3. arrays'[stack.array][j] \in {arrays[stack.array][j], arrays[stack.array][j + 1]}
    BY <1>1, <2>2, RemoveEffect
  <2> QED  BY <1>1, <2>1, <2>2, <2>3
<1>7. Shapes'
  <2>1. /\ arrays' \in Seq(Slice!Array) /\ stack' \in Slice!Header /\ Len(arrays') = Len(arrays)
        /\ stack'.array = stack.array /\ stack'.len = stack.len - 1
        /\ Len(arrays'[stack.array]) = Len(arrays[stack.array])
    BY <1>1, RemoveEffect
  <2> QED  BY <1>1, <1>5, <1>6, <2>1 DEF Shapes, Filled
<1> QED  BY <1>3, <1>7

(* One action goes on; the others keep what they had.                       *)
LEMMA OneMoves ==
    ASSUME StackInv, Shapes', \A s \in Slice!Header : Filled(s) => Filled(s)',
           NEW a \in Actions, NEW new \in ActionState,
           action' = [action EXCEPT ![a] = new], Sound(new)',
           delivered' \subseteq Actions, refused' \subseteq Actions, dropped' \subseteq Actions
    PROVE  StackInv'
<1>1. action' \in [Actions -> ActionState]
  BY DEF StackInv
<1>2. ASSUME NEW b \in Actions, b # a  PROVE Sound(action[b])'
  <2>1. PICK x \in ActionState : x = action[b]
    BY DEF StackInv
  <2>2. Sound(x) /\ action'[b] = x
    BY <1>2, <2>1 DEF StackInv
  <2>3. x.view \in Slice!Header
    BY DEF ActionState
  <2>4. Sound(x)'
    BY <2>2, <2>3 DEF Sound
  <2> QED  BY <2>2, <2>4 DEF Sound
<1>3. Sound(action[a])'
  BY DEF Sound, StackInv
<1> QED  BY <1>1, <1>2, <1>3 DEF StackInv

LEMMA QueueStays ==
    ASSUME StackInv, UNCHANGED queue
    PROVE  Shapes' /\ \A s \in Slice!Header : Filled(s) => Filled(s)'
BY DEF StackInv, Shapes, Filled, queue

(* The state an action is in.                                               *)
LEMMA ActionFacts ==
    ASSUME StackInv, NEW a \in Actions
    PROVE  /\ action[a] \in ActionState /\ Sound(action[a])
           /\ action[a].view \in Slice!Header /\ action[a].view.len \in Nat
           /\ action[a].i \in Nat /\ action[a].group \in Groups
           /\ action[a].msg \in Actions \cup {NoMessage}
BY DEF StackInv, ActionState, Slice!Header

LEMMA NoLoopIsSound ==
    ASSUME NEW at \in {"own", "pushOwn", "done", "new"}, NEW g \in Groups
    PROVE  NoLoop(at, g) \in ActionState /\ Sound(NoLoop(at, g))'
BY DEF NoLoop, ActionState, Sound, Looping, Slice!Empty, Slice!Header

(* The end of an iteration, and a step within one.                          *)
LEMMA AdvanceIsSound ==
    ASSUME StackInv, NEW a \in Actions, action[a].at \in Looping,
           Shapes', \A s \in Slice!Header : Filled(s) => Filled(s)', Advance(a),
           delivered' \subseteq Actions, refused' \subseteq Actions, dropped' \subseteq Actions
    PROVE  StackInv'
<1> DEFINE i == action[a].i
<1>1. PICK new : new = [action[a] EXCEPT !.at = "next", !.i = i + 1, !.msg = NoMessage]
  OBVIOUS
<1>2. /\ new \in ActionState /\ new.view = action[a].view /\ new.i = i + 1 /\ new.at = "next"
      /\ action' = [action EXCEPT ![a] = new]
  <2>1. action[a] \in ActionState /\ i + 1 \in Nat
    BY ActionFacts
  <2>2. new \in ActionState /\ new.view = action[a].view /\ new.i = i + 1 /\ new.at = "next"
    BY <1>1, <2>1 DEF ActionState
  <2>3. action' = [action EXCEPT ![a] = new]
    BY <1>1, <2>1 DEF Advance, StackInv, ActionState
  <2> QED  BY <2>2, <2>3
<1>3. PICK view \in Slice!Header : view = action[a].view
  BY ActionFacts
<1>4. Filled(view)'
  BY <1>3, ActionFacts DEF Sound
<1>5. Sound(new)'
  BY <1>2, <1>3, <1>4, ActionFacts DEF Sound
<1> QED  BY <1>2, <1>5, OneMoves

LEMMA GotoIsSound ==
    ASSUME StackInv, NEW a \in Actions, action[a].at \in {"post", "remove", "push"},
           NEW at \in {"remove", "push"}, Goto(a, at), UNCHANGED queue,
           delivered' \subseteq Actions, refused' \subseteq Actions, dropped' \subseteq Actions
    PROVE  StackInv'
<1>1. PICK new : new = [action[a] EXCEPT !.at = at]
  OBVIOUS
<1>2. /\ new \in ActionState /\ new.view = action[a].view /\ new.i = action[a].i
      /\ new.msg = action[a].msg /\ new.at = at /\ action' = [action EXCEPT ![a] = new]
  BY <1>1, ActionFacts DEF Goto, ActionState
<1>3. Sound(new)'
  BY <1>2, ActionFacts DEF Sound, Looping, Filled, queue
<1> QED  BY <1>2, <1>3, QueueStays, OneMoves

(* The end of the actions that leave the loop or never were in it.          *)
LEMMA LeaveIsSound ==
    ASSUME StackInv, NEW a \in Actions, NEW at \in {"own", "pushOwn", "done"}, NEW g \in Groups,
           action' = [action EXCEPT ![a] = NoLoop(at, g)],
           Shapes', \A s \in Slice!Header : Filled(s) => Filled(s)',
           delivered' \subseteq Actions, refused' \subseteq Actions, dropped' \subseteq Actions
    PROVE  StackInv'
BY NoLoopIsSound, OneMoves

-----------------------------------------------------------------------------
(* The steps.                                                               *)
LEMMA InitStack ==
    ASSUME ResendInit
    PROVE  StackInv
<1>1. Shapes
  BY DEF ResendInit, Shapes, Filled, Slice!NoArrays, Slice!Empty, Slice!Header, Slice!Array
<1>2. (CHOOSE g \in Groups : TRUE) \in Groups
  BY ResendStackAssumption
<1>3. action \in [Actions -> ActionState] /\ \A a \in Actions : action[a].at = "new"
  BY <1>2 DEF ResendInit, NoLoop, ActionState, Slice!Empty, Slice!Header
<1> QED  BY <1>1, <1>3 DEF StackInv, Sound, Looping, ResendInit

LEMMA BeginKeeps ==
    ASSUME StackInv, NEW a \in Actions, NEW g \in Groups, BeginActive(a, g) \/ BeginPassive(a, g)
    PROVE  StackInv'
<1>1. CASE BeginActive(a, g)
  BY <1>1, QueueStays, LeaveIsSound DEF BeginActive, history, StackInv
<1>2. CASE BeginPassive(a, g)
  <2>1. PICK n \in Nat : n = Popped.len /\ n <= stack.len
    BY ResendStackAssumption DEF Popped, StackInv, Shapes, Slice!Header
  <2>2. PICK view \in Slice!Header : view = Popped /\ view.array = stack.array /\ view.len = n
    BY <2>1, ResendStackAssumption DEF Popped, StackInv, Shapes, Slice!Header
  <2>3. Filled(view)
    BY <2>1, <2>2 DEF StackInv, Shapes, Filled, Slice!Header
  <2> DEFINE new == [at |-> "next", group |-> g, view |-> view, i |-> 1, msg |-> NoMessage]
  <2>4. new \in ActionState
    BY DEF ActionState
  <2>5. Sound(new)'
    BY <1>2, <2>3 DEF Sound, BeginPassive, Filled, queue
  <2>6. action' = [action EXCEPT ![a] = new]
    BY <1>2, <2>2 DEF BeginPassive
  <2> HIDE DEF new
  <2> QED  BY <1>2, <2>4, <2>5, <2>6, QueueStays, OneMoves DEF BeginPassive, history, StackInv
<1> QED  BY <1>1, <1>2

LEMMA NextQueuedKeeps ==
    ASSUME StackInv, NEW a \in Actions, NextQueued(a)
    PROVE  StackInv'
<1>1. action[a].at = "next" /\ action[a].i <= action[a].view.len /\ UNCHANGED <<queue, history>>
  BY DEF NextQueued
<1>2. InHand(a) \in Actions
  <2>1. Filled(action[a].view) /\ action[a].i >= 1 /\ action[a].i \in Nat /\ action[a].view.len \in Nat
    BY <1>1, ActionFacts DEF Sound, Looping
  <2> QED  BY <1>1, <2>1 DEF Filled, InHand, Slice!Get
<1>3. CASE action' = [action EXCEPT ![a].at = "post", ![a].msg = InHand(a)]
  <2>1. PICK m \in Actions : m = InHand(a)
    BY <1>2
  <2>2. PICK new : new = [action[a] EXCEPT !.at = "post", !.msg = m]
    OBVIOUS
  <2>3. /\ new \in ActionState /\ new.view = action[a].view /\ new.i = action[a].i
        /\ new.msg = m /\ new.at = "post"
    BY <2>2, ActionFacts DEF ActionState
  <2>4. action' = [action EXCEPT ![a] = new]
    BY <1>3, <2>1, <2>2 DEF StackInv, ActionState
  <2>5. Sound(new)'
    BY <1>1, <2>3, ActionFacts DEF Sound, Looping, Filled, queue
  <2> QED  BY <1>1, <2>3, <2>4, <2>5, QueueStays, OneMoves DEF history, StackInv
<1>4. CASE Advance(a)
  BY <1>1, <1>4, QueueStays, AdvanceIsSound DEF Looping, history, StackInv
<1> QED  BY <1>3, <1>4 DEF NextQueued

LEMMA ResendKeeps ==
    ASSUME StackInv, NEW a \in Actions, ResendTaken(a) \/ ResendFails(a) \/ ResendForbidden(a)
    PROVE  StackInv'
<1>1. /\ action[a].at = "post" /\ UNCHANGED <<queue, refused, dropped>>
      /\ delivered' \in {delivered, delivered \cup {action[a].msg}}
      /\ Goto(a, "remove") \/ Goto(a, "push") \/ Advance(a)
  BY DEF ResendTaken, ResendFails, ResendForbidden, history
<1>2. delivered' \subseteq Actions /\ refused' \subseteq Actions /\ dropped' \subseteq Actions
  BY <1>1, ActionFacts DEF StackInv, Sound, Looping
<1> QED  BY <1>1, <1>2, QueueStays, AdvanceIsSound, GotoIsSound DEF Looping

LEMMA RemoveKeeps ==
    ASSUME StackInv, NEW a \in Actions, RemoveFromGlobalStack(a)
    PROVE  StackInv'
<1>1. action[a].at = "remove" /\ Advance(a) /\ UNCHANGED history
  BY DEF RemoveFromGlobalStack
<1>2. PICK i \in Nat : i = action[a].i /\ 1 <= i
  BY <1>1, ActionFacts DEF Sound, Looping
<1>3. Shapes' /\ \A s \in Slice!Header : Filled(s) => Filled(s)'
  BY <1>2, QueueStays, RemoveKeepsShapes DEF StackInv, RemoveFromGlobalStack
<1> QED  BY <1>1, <1>3, AdvanceIsSound DEF Looping, history, StackInv

LEMMA PushKeeps ==
    ASSUME StackInv, NEW a \in Actions, PushAgain(a) \/ PushOwn(a)
    PROVE  StackInv'
<1>1. PICK m \in Actions : PushGlobalStack(m)
  BY ActionFacts DEF PushAgain, PushOwn, Sound, Looping
<1>2. Shapes' /\ \A s \in Slice!Header : Filled(s) => Filled(s)'
  BY <1>1, PushKeepsShapes DEF StackInv
<1>3. delivered' \subseteq Actions /\ refused' \subseteq Actions /\ dropped' \subseteq Actions
  BY <1>1 DEF PushGlobalStack, StackInv
<1>4. CASE PushAgain(a)
  BY <1>2, <1>3, <1>4, AdvanceIsSound DEF PushAgain, Looping
<1>5. CASE PushOwn(a)
  BY <1>2, <1>3, <1>5, ActionFacts, LeaveIsSound DEF PushOwn, Leave
<1> QED  BY <1>4, <1>5

(* The ticker's empty slice is one more array.                              *)
LEMMA CleanupEffect ==
    ASSUME Shapes, CleanupMessageGroupStack
    PROVE  /\ arrays' \in Seq(Slice!Array) /\ stack' \in Slice!Header
           /\ Len(arrays') = Len(arrays) + 1
           /\ \A n \in 1 .. Len(arrays) : arrays'[n] = arrays[n]
           /\ stack'.array \in 1 .. Len(arrays') /\ stack'.len = 0
           /\ Len(arrays'[stack'.array]) = 0
<1>1. arrays \in Seq(Slice!Array) /\ arrays' = Append(arrays, <<>>) /\ <<>> \in Slice!Array
      /\ stack' = [array |-> Len(arrays'), len |-> 0] /\ Len(arrays) \in Nat
  BY DEF CleanupMessageGroupStack, Shapes, Slice!Array
<1>2. /\ arrays' \in Seq(Slice!Array) /\ Len(arrays') = Len(arrays) + 1
      /\ \A n \in 1 .. Len(arrays) : arrays'[n] = arrays[n]
      /\ arrays'[Len(arrays) + 1] = <<>>
  BY <1>1, AppendProperties
<1> QED  BY <1>1, <1>2 DEF Slice!Header

LEMMA CleanupKeeps ==
    ASSUME StackInv, CleanupMessageGroupStack
    PROVE  StackInv'
<1>1. Shapes
  BY DEF StackInv
<1>2. Shapes'
  BY <1>1, CleanupEffect DEF Shapes, Filled
<1>3. ASSUME NEW s \in Slice!Header, Filled(s)  PROVE Filled(s)'
  BY <1>1, <1>3, CleanupEffect, FilledStays DEF Shapes
<1>4. UNCHANGED <<action, delivered, refused>> /\ dropped' = dropped \cup Queued
  BY DEF CleanupMessageGroupStack
<1>5. Queued \subseteq Actions
  BY <1>1 DEF Queued, Shapes, Filled
<1>6. ASSUME NEW a \in Actions  PROVE Sound(action[a])'
  <2>1. PICK x \in ActionState : x = action[a] /\ x.view \in Slice!Header
    BY ActionFacts
  <2>2. Sound(x)'
    BY <1>3, <2>1, ActionFacts DEF Sound
  <2> QED  BY <1>4, <2>1, <2>2
<1> QED  BY <1>2, <1>4, <1>5, <1>6 DEF StackInv

LEMMA NextStack ==
    ASSUME StackInv, [ResendNext]_resendVars
    PROVE  StackInv'
<1>1. ASSUME NEW a \in Actions, LoopEnds(a) \/ OwnSent(a) \/ OwnForbidden(a)
      PROVE  StackInv'
  <2>1. /\ UNCHANGED <<queue, history>>
        /\ delivered' \subseteq Actions /\ refused' \subseteq Actions /\ dropped' \subseteq Actions
    BY <1>1 DEF LoopEnds, OwnSent, OwnForbidden, history, StackInv
  <2>2. CASE LoopEnds(a) \/ OwnSent(a)
    BY <2>1, <2>2, QueueStays, ActionFacts, LeaveIsSound DEF LoopEnds, OwnSent, Leave
  <2>3. CASE OwnForbidden(a)
    <3>1. PICK new : new = [action[a] EXCEPT !.at = "pushOwn"]
      OBVIOUS
    <3>2. new \in ActionState /\ new.at = "pushOwn" /\ action' = [action EXCEPT ![a] = new]
      BY <2>3, <3>1, ActionFacts DEF OwnForbidden, Goto, ActionState
    <3>3. Sound(new)'
      BY <3>2 DEF Sound, Looping
    <3> QED  BY <2>1, <3>2, <3>3, QueueStays, OneMoves
  <2> QED  BY <1>1, <2>2, <2>3
<1>2. CASE UNCHANGED resendVars
  BY <1>2 DEF resendVars, queue, history, StackInv, Shapes, Filled, Sound
<1> QED
  BY <1>1, <1>2, BeginKeeps, NextQueuedKeeps, ResendKeeps, RemoveKeeps, PushKeeps, CleanupKeeps
  DEF ResendNext, Quiet

(* What is noted of disturbed loops.                                        *)
Noted == disturbed \subseteq Actions /\ mistaken \subseteq Actions

LEMMA NextNoted ==
    ASSUME StackInv, Noted, [ResendNext]_resendVars
    PROVE  Noted'
<1>1. CASE UNCHANGED mistaken
  BY <1>1 DEF Noted, ResendNext, resendVars, DisturbedByPush, DisturbedByRemoval, Loops
<1>2. ASSUME NEW a \in Actions, RemoveFromGlobalStack(a), stack' # stack,
             disturbed' = disturbed \cup DisturbedByRemoval(a),
             mistaken' = IF a \in disturbed
                         THEN mistaken \cup {Slice!Get(arrays, stack, action[a].i)}
                         ELSE mistaken
      PROVE  Noted'
  <2>1. action[a].i \in 1 .. stack.len
    <3>1. action[a].at = "remove" /\ action[a].i <= stack.len
      BY <1>2 DEF RemoveFromGlobalStack, queue
    <3> QED  BY <3>1, ActionFacts DEF Sound, Looping, StackInv, Shapes, Slice!Header
  <2>2. Slice!Get(arrays, stack, action[a].i) \in Actions
    BY <2>1 DEF StackInv, Shapes, Filled, Slice!Get
  <2> QED  BY <1>2, <2>2 DEF Noted, DisturbedByRemoval, Loops
<1> QED  BY <1>1, <1>2 DEF ResendNext, resendVars

(* Every variable keeps its range, and what waits is a message, however     *)
(* many messages are read at a time and however actions overlap.            *)
THEOREM SpecResendTypeOK == ResendSpec => []ResendTypeOK
<1>1. ResendInit => StackInv /\ Noted
  BY InitStack DEF ResendInit, Noted
<1>2. StackInv /\ Noted /\ [ResendNext]_resendVars => StackInv' /\ Noted'
  BY NextStack, NextNoted
<1>3. StackInv /\ Noted => ResendTypeOK
  BY DEF StackInv, Shapes, Filled, ResendTypeOK, Queued, Noted
<1> QED  BY <1>1, <1>2, <1>3, PTL DEF ResendSpec

-----------------------------------------------------------------------------
(* Why an undisturbed loop removes only what it delivered.  Let t be the    *)
(* next position at which a loop at position i may remove.  Either it reads *)
(* the array of the stack itself, and shifts move both; or the ticker has   *)
(* emptied the stack, and it is still too short; or the stack has moved but *)
(* t is the last turn, and both arrays hold the same message there.         *)
Placed(view, i, t) ==
    \/ t > view.len
    \/ view.array = stack.array
    \/ stack.len < i
    \/ /\ t = view.len /\ t <= stack.len
       /\ arrays[stack.array][t] = arrays[view.array][t]

TurnOf(x) == IF x.at = "push" THEN x.i + 1 ELSE x.i

(* The message in hand is the one the stack has at its position.            *)
Held(x) == x.at \in {"post", "remove"} /\ x.i <= stack.len =>
    arrays[stack.array][x.i] = x.msg

Fits(x) == Placed(x.view, x.i, TurnOf(x)) /\ Held(x)

Delivers(x) == x.at = "remove" => x.msg \in delivered

LoseInv ==
    /\ \A a \in Actions : Delivers(action[a])
    /\ \A a \in Loops \ disturbed : Fits(action[a])
    /\ OnlyDisturbedLose

Inv == StackInv /\ LoseInv

LEMMA StackFacts ==
    ASSUME Shapes, NEW s \in Slice!Header, Filled(s)
    PROVE  /\ Len(arrays) \in Nat /\ s.array \in 1 .. Len(arrays) /\ s.len \in Nat
           /\ Len(arrays[s.array]) \in Nat /\ s.len <= Len(arrays[s.array])
<1>1. Len(arrays) \in Nat /\ s.array \in 1 .. Len(arrays) /\ s.len \in Nat
      /\ s.len <= Len(arrays[s.array])
  BY DEF Shapes, Filled, Slice!Header
<1>2. arrays[s.array] \in Slice!Array
  BY <1>1 DEF Shapes
<1> QED  BY <1>1, <1>2 DEF Slice!Array

-----------------------------------------------------------------------------
(* What the loop's turns, a push, a removal and the ticker leave in place.  *)
LEMMA PlacedAtNextTurn ==
    ASSUME NEW view, NEW i \in Nat, NEW t \in Nat, view.len \in Nat, stack.len \in Nat,
           Placed(view, i, t), NEW j \in {i, i + 1}, NEW u \in {t, t + 1}, j <= u
    PROVE  Placed(view, j, u)
BY DEF Placed

LEMMA PlacedAfterPush ==
    ASSUME Shapes, NEW view \in Slice!Header, Filled(view), NEW i \in Nat, NEW t \in Nat, 1 <= t,
           Placed(view, i, t), NEW m \in Actions, PushGlobalStack(m),
           ~(view.array = stack.array /\ ~Slice!HasRoom(arrays, stack) /\ t < view.len),
           NEW j \in Nat, stack.len < i => stack.len + 1 < j
    PROVE  Placed(view, j, t)'
<1>1. /\ Len(arrays) \in Nat
      /\ stack.array \in 1 .. Len(arrays) /\ stack.len \in Nat
      /\ Len(arrays[stack.array]) \in Nat /\ stack.len <= Len(arrays[stack.array])
  BY StackFacts DEF Shapes
<1>2. /\ view.array \in 1 .. Len(arrays) /\ view.len \in Nat
      /\ Len(arrays[view.array]) \in Nat /\ view.len <= Len(arrays[view.array])
  BY StackFacts
<1>3. stack'.len = stack.len + 1
  BY PushEffect
<1>4. ASSUME t = view.len, t <= stack.len, arrays[stack.array][t] = arrays[view.array][t]
      PROVE  Placed(view, j, t)'
  <2>1. t \in 1 .. stack.len /\ t \in 1 .. Len(arrays[view.array]) /\ t # stack.len + 1
    BY <1>1, <1>2, <1>4
  <2>2. arrays'[stack'.array][t] = arrays[stack.array][t]
    BY <2>1, PushEffect
  <2>3. arrays'[view.array][t] = arrays[view.array][t]
    BY <1>2, <2>1, PushEffect
  <2>4. t <= stack'.len
    BY <1>1, <1>3, <1>4
  <2> QED  BY <1>4, <2>2, <2>3, <2>4 DEF Placed
<1>5. CASE view.array = stack.array /\ t <= view.len
  <2>1. CASE Slice!HasRoom(arrays, stack)
    <3>1. stack'.array = stack.array
      BY <2>1 DEF PushGlobalStack, Slice!HeaderAfterAppend
    <3> QED  BY <1>5, <3>1 DEF Placed
  <2>2. CASE ~Slice!HasRoom(arrays, stack)
    <3>1. t = view.len /\ t <= stack.len
      BY <1>1, <1>2, <1>5, <2>2 DEF Slice!HasRoom
    <3> QED  BY <1>4, <1>5, <3>1
  <2> QED  BY <2>1, <2>2
<1>6. CASE stack.len < i
  BY <1>3, <1>6 DEF Placed
<1>7. CASE t > view.len
  BY <1>7 DEF Placed
<1> QED  BY <1>1, <1>2, <1>4, <1>5, <1>6, <1>7 DEF Placed

LEMMA PlacedAfterRemove ==
    ASSUME Shapes, NEW view \in Slice!Header, Filled(view), NEW i \in Nat, NEW t \in Nat, 1 <= t,
           Placed(view, i, t), NEW r \in Nat, 1 <= r, r <= stack.len,
           arrays' = Slice!ArraysAfterRemove(arrays, stack, r),
           stack' = Slice!HeaderAfterRemove(stack),
           view.array # stack.array => t < r
    PROVE  Placed(view, i, t)'
<1>1. /\ Len(arrays) \in Nat
      /\ stack.array \in 1 .. Len(arrays) /\ stack.len \in Nat
      /\ Len(arrays[stack.array]) \in Nat /\ stack.len <= Len(arrays[stack.array])
  BY StackFacts DEF Shapes
<1>2. /\ view.array \in 1 .. Len(arrays) /\ view.len \in Nat
      /\ Len(arrays[view.array]) \in Nat /\ view.len <= Len(arrays[view.array])
  BY StackFacts
<1>3. stack'.array = stack.array /\ stack'.len = stack.len - 1
  BY RemoveEffect
<1>4. CASE view.array # stack.array /\ t = view.len /\ t <= stack.len
           /\ arrays[stack.array][t] = arrays[view.array][t]
  <2>1. t \in 1 .. Len(arrays[stack.array]) /\ t \in 1 .. Len(arrays[view.array])
        /\ ~(r <= t) /\ t <= stack.len - 1
    BY <1>1, <1>2, <1>4
  <2>2. arrays'[stack.array][t] = arrays[stack.array][t]
    BY <1>1, <2>1, RemoveEffect
  <2>3. arrays'[view.array][t] = arrays[view.array][t]
    BY <1>2, <1>4, <2>1, RemoveEffect
  <2> QED  BY <1>3, <1>4, <2>1, <2>2, <2>3 DEF Placed
<1>5. CASE t > view.len \/ view.array = stack.array \/ stack.len < i
  BY <1>1, <1>3, <1>5 DEF Placed
<1> QED  BY <1>4, <1>5 DEF Placed

LEMMA HeldAfterPush ==
    ASSUME Shapes, NEW x, x.i \in Nat, 1 <= x.i, Held(x), NEW m \in Actions, PushGlobalStack(m),
           stack.len + 1 # x.i
    PROVE  Held(x)'
<1>1. stack.len \in Nat /\ stack'.len = stack.len + 1
  BY PushEffect DEF Shapes, Slice!Header
<1>2. ASSUME x.i <= stack.len  PROVE arrays'[stack'.array][x.i] = arrays[stack.array][x.i]
  <2>1. x.i \in 1 .. stack.len
    BY <1>1, <1>2
  <2> QED  BY <2>1, PushEffect
<1> QED  BY <1>1, <1>2 DEF Held

LEMMA HeldAfterRemove ==
    ASSUME Shapes, NEW x, x.i \in Nat, 1 <= x.i, Held(x), NEW r \in Nat, 1 <= r, r <= stack.len,
           arrays' = Slice!ArraysAfterRemove(arrays, stack, r),
           stack' = Slice!HeaderAfterRemove(stack),
           x.at \in {"post", "remove"} => x.i < r
    PROVE  Held(x)'
<1>1. /\ stack.array \in 1 .. Len(arrays) /\ stack.len \in Nat
      /\ Len(arrays[stack.array]) \in Nat /\ stack.len <= Len(arrays[stack.array])
      /\ stack'.array = stack.array /\ stack'.len = stack.len - 1
  BY StackFacts, RemoveEffect DEF Shapes
<1>2. ASSUME x.at \in {"post", "remove"}, x.i <= stack'.len
      PROVE  arrays'[stack'.array][x.i] = arrays[stack.array][x.i] /\ x.i <= stack.len
  <2>1. x.i \in 1 .. Len(arrays[stack.array]) /\ ~(r <= x.i) /\ x.i <= stack.len
    BY <1>1, <1>2
  <2> QED  BY <1>1, <2>1, RemoveEffect
<1> QED  BY <1>2 DEF Held

-----------------------------------------------------------------------------
(* One action goes on; the loops of the others are as they were.            *)
LEMMA OneLoop ==
    ASSUME Inv, NEW a \in Actions, NEW new, action' = [action EXCEPT ![a] = new],
           delivered \subseteq delivered', Delivers(new)',
           new.at \in Looping /\ a \notin disturbed' => Fits(new)',
           \A b \in Loops \ disturbed' : b # a => Fits(action[b])',
           OnlyDisturbedLose'
    PROVE  LoseInv'
<1>1. action'[a] = new /\ \A b \in Actions : b # a => action'[b] = action[b]
  BY DEF Inv, StackInv
<1>2. ASSUME NEW b \in Actions  PROVE Delivers(action[b])'
  <2>1. CASE b = a
    BY <1>1, <2>1 DEF Delivers
  <2>2. CASE b # a
    BY <1>1, <2>2 DEF Delivers, Inv, LoseInv
  <2> QED  BY <2>1, <2>2
<1>3. ASSUME NEW b \in Actions, action'[b].at \in Looping, b \notin disturbed'
      PROVE  Fits(action[b])'
  <2>1. CASE b = a
    BY <1>1, <1>3, <2>1 DEF Fits, Held, Placed, TurnOf
  <2>2. CASE b # a
    BY <1>1, <1>3, <2>2 DEF Loops
  <2> QED  BY <2>1, <2>2
<1> QED  BY <1>2, <1>3 DEF LoseInv, Loops

(* The stack stays: so do the others.                                       *)
LEMMA OneLoopQuiet ==
    ASSUME Inv, NEW a \in Actions, NEW new, action' = [action EXCEPT ![a] = new],
           UNCHANGED <<queue, refused, dropped, mistaken>>, delivered \subseteq delivered',
           disturbed \ {a} \subseteq disturbed', Delivers(new)',
           new.at \in Looping /\ a \notin disturbed' => Fits(new)
    PROVE  LoseInv'
<1>1. OnlyDisturbedLose'
  BY DEF Inv, LoseInv, OnlyDisturbedLose, Queued, queue
<1>2. new.at \in Looping /\ a \notin disturbed' => Fits(new)'
  BY DEF Fits, Held, Placed, TurnOf, queue
<1>3. ASSUME NEW b \in Loops \ disturbed', b # a  PROVE Fits(action[b])'
  <2>1. action'[b] = action[b] /\ Fits(action[b])
    BY <1>3 DEF Inv, LoseInv, StackInv, Loops
  <2> QED  BY <2>1 DEF Fits, Held, Placed, TurnOf, queue
<1> QED  BY <1>1, <1>2, <1>3, OneLoop

LEMMA LoopFacts ==
    ASSUME StackInv, NEW a \in Loops
    PROVE  /\ action[a] \in ActionState
           /\ action[a].view \in Slice!Header /\ Filled(action[a].view)
           /\ action[a].view.len \in Nat /\ stack.len \in Nat
           /\ action[a].i \in Nat /\ action[a].i >= 1
           /\ action[a].msg \in Actions \cup {NoMessage}
           /\ TurnOf(action[a]) \in Nat /\ TurnOf(action[a]) >= action[a].i
           /\ Turn(a) = TurnOf(action[a])
           /\ action[a].at # "next" => action[a].msg \in Actions
BY ActionFacts DEF Loops, Sound, TurnOf, Turn, StackInv, Shapes, Slice!Header

(* The next turn, the stack as it is.                                       *)
LEMMA AdvancedState ==
    ASSUME StackInv, NEW a \in Loops, Advance(a)
    PROVE  \E new : /\ action' = [action EXCEPT ![a] = new]
                    /\ new.at = "next" /\ new.view = action[a].view /\ new.i = action[a].i + 1
<1>1. PICK new : new = [action[a] EXCEPT !.at = "next", !.i = action[a].i + 1, !.msg = NoMessage]
  OBVIOUS
<1>2. new.view = action[a].view /\ new.i = action[a].i + 1 /\ new.at = "next"
  BY <1>1, LoopFacts DEF ActionState
<1>3. action' = [action EXCEPT ![a] = new]
  BY <1>1 DEF Advance, StackInv, ActionState
<1> QED  BY <1>2, <1>3

LEMMA AdvanceQuiet ==
    ASSUME Inv, NEW a \in Loops, Advance(a), action[a].at # "push",
           UNCHANGED <<queue, refused, dropped, disturbed, mistaken>>, delivered \subseteq delivered'
    PROVE  LoseInv'
<1>1. StackInv
  BY DEF Inv
<1>2. PICK new : /\ action' = [action EXCEPT ![a] = new]
                 /\ new.at = "next" /\ new.view = action[a].view /\ new.i = action[a].i + 1
  BY <1>1, AdvancedState
<1>3. a \notin disturbed => Fits(new)
  <2>1. SUFFICES ASSUME a \notin disturbed PROVE Fits(new)
    OBVIOUS
  <2>2. Placed(action[a].view, action[a].i, action[a].i)
    BY <2>1 DEF Inv, LoseInv, Fits, TurnOf
  <2>3. PICK i \in Nat : i = action[a].i
    BY <1>1, LoopFacts
  <2>4. PICK v : v = action[a].view
    OBVIOUS
  <2>5. v.len \in Nat /\ stack.len \in Nat
    BY <1>1, <2>4, LoopFacts
  <2>6. Placed(v, i + 1, i + 1)
    BY <2>2, <2>3, <2>4, <2>5, PlacedAtNextTurn
  <2> QED  BY <1>2, <2>3, <2>4, <2>6 DEF Fits, Held, TurnOf
<1>4. Delivers(new)'
  BY <1>2 DEF Delivers
<1> QED  BY <1>2, <1>3, <1>4, OneLoopQuiet DEF Loops

-----------------------------------------------------------------------------
(* The steps.                                                               *)
LEMMA BeginFits ==
    ASSUME Inv, NEW a \in Actions, NEW g \in Groups, BeginActive(a, g) \/ BeginPassive(a, g),
           UNCHANGED <<disturbed, mistaken>>
    PROVE  LoseInv'
<1>1. UNCHANGED <<queue, history>>
  BY DEF BeginActive, BeginPassive
<1>2. CASE BeginActive(a, g)
  <2>1. NoLoop("own", g).at = "own"
    BY DEF NoLoop
  <2> QED  BY <1>1, <1>2, <2>1, OneLoopQuiet DEF BeginActive, Looping, Delivers, history
<1>3. CASE BeginPassive(a, g)
  <2>1. PICK view : view = Popped /\ view.array = stack.array
    <3>1. stack \in Slice!Header
      BY DEF Inv, StackInv, Shapes
    <3>2. Popped.array = stack.array
      BY <3>1 DEF Popped, Slice!Header
    <3> QED  BY <3>2
  <2>2. PICK new : new = [at |-> "next", group |-> g, view |-> view, i |-> 1, msg |-> NoMessage]
    OBVIOUS
  <2>3. action' = [action EXCEPT ![a] = new]
    BY <1>3, <2>1, <2>2 DEF BeginPassive
  <2>4. new.at = "next" /\ new.view.array = stack.array
    BY <2>1, <2>2
  <2>5. Fits(new) /\ Delivers(new)'
    BY <2>4 DEF Fits, Held, Placed, Delivers
  <2> QED  BY <1>1, <2>3, <2>5, OneLoopQuiet DEF history
<1> QED  BY <1>2, <1>3

LEMMA NextQueuedFits ==
    ASSUME Inv, NEW a \in Actions, NextQueued(a), UNCHANGED <<disturbed, mistaken>>
    PROVE  LoseInv'
<1>1. /\ a \in Loops /\ action[a].at = "next" /\ action[a].i <= action[a].view.len
      /\ UNCHANGED <<queue, history>> /\ StackInv
  BY DEF NextQueued, Loops, Looping, Inv
<1>2. CASE Advance(a)
  BY <1>1, <1>2, AdvanceQuiet DEF history
<1>3. CASE action' = [action EXCEPT ![a].at = "post", ![a].msg = InHand(a)]
  <2>1. PICK m : m = InHand(a)
    OBVIOUS
  <2>2. PICK new : new = [action[a] EXCEPT !.at = "post", !.msg = m]
    OBVIOUS
  <2>3. new.view = action[a].view /\ new.i = action[a].i /\ new.msg = m /\ new.at = "post"
    BY <1>1, <2>2, LoopFacts DEF ActionState
  <2>4. action' = [action EXCEPT ![a] = new]
    BY <1>1, <1>3, <2>1, <2>2 DEF StackInv, ActionState
  <2>5. a \notin disturbed => Fits(new)
    <3>1. SUFFICES ASSUME a \notin disturbed PROVE Fits(new)
      OBVIOUS
    <3>2. Placed(action[a].view, action[a].i, action[a].i)
      BY <1>1, <3>1 DEF Inv, LoseInv, Fits, TurnOf
    <3>3. action[a].i <= stack.len => arrays[stack.array][action[a].i] = m
      BY <1>1, <2>1, <3>2, LoopFacts DEF Placed, InHand, Slice!Get
    <3> QED  BY <2>3, <3>2, <3>3 DEF Fits, Held, TurnOf
  <2>6. Delivers(new)'
    BY <2>3 DEF Delivers
  <2> QED  BY <1>1, <2>4, <2>5, <2>6, OneLoopQuiet DEF history
<1> QED  BY <1>2, <1>3 DEF NextQueued

LEMMA ResendFits ==
    ASSUME Inv, NEW a \in Actions, ResendTaken(a) \/ ResendFails(a) \/ ResendForbidden(a),
           UNCHANGED <<disturbed, mistaken>>
    PROVE  LoseInv'
<1>1. /\ action[a].at = "post" /\ UNCHANGED <<queue, refused, dropped>>
      /\ delivered \subseteq delivered' /\ a \in Loops /\ StackInv
  BY DEF ResendTaken, ResendFails, ResendForbidden, history, Loops, Looping, Inv
<1>2. CASE Advance(a)
  BY <1>1, <1>2, AdvanceQuiet
<1>3. ASSUME NEW at \in {"remove", "push"}, Goto(a, at), at = "remove" => action[a].msg \in delivered'
      PROVE  LoseInv'
  <2>1. PICK new : new = [action[a] EXCEPT !.at = at]
    OBVIOUS
  <2>2. new.view = action[a].view /\ new.i = action[a].i /\ new.msg = action[a].msg /\ new.at = at
    BY <1>1, <2>1, LoopFacts DEF ActionState
  <2>3. action' = [action EXCEPT ![a] = new]
    BY <1>3, <2>1 DEF Goto
  <2>4. a \notin disturbed => Fits(new)
    <3>1. SUFFICES ASSUME a \notin disturbed PROVE Fits(new)
      OBVIOUS
    <3>2. Placed(action[a].view, action[a].i, action[a].i) /\ Held(action[a])
      BY <1>1, <3>1 DEF Inv, LoseInv, Fits, TurnOf
    <3>3. PICK i \in Nat : i = action[a].i
      BY <1>1, LoopFacts
    <3>4. PICK v : v = action[a].view
      OBVIOUS
    <3>5. v.len \in Nat /\ stack.len \in Nat
      BY <1>1, <3>4, LoopFacts
    <3>6. Placed(v, i, i + 1)
      BY <3>2, <3>3, <3>4, <3>5, PlacedAtNextTurn
    <3>7. Placed(new.view, new.i, TurnOf(new))
      BY <2>2, <3>2, <3>3, <3>4, <3>6 DEF TurnOf
    <3>8. Held(new)
      BY <1>1, <2>2, <3>2 DEF Held
    <3> QED  BY <3>7, <3>8 DEF Fits
  <2>5. Delivers(new)'
    BY <1>3, <2>2 DEF Delivers
  <2> QED  BY <1>1, <2>3, <2>4, <2>5, OneLoopQuiet
<1> QED  BY <1>2, <1>3 DEF ResendTaken, ResendFails, ResendForbidden

LEMMA LeaveFits ==
    ASSUME Inv, NEW a \in Actions, LoopEnds(a) \/ OwnSent(a) \/ OwnForbidden(a),
           disturbed' \in {disturbed, disturbed \ {a}}, UNCHANGED mistaken
    PROVE  LoseInv'
<1>1. UNCHANGED <<queue, history>>
  BY DEF LoopEnds, OwnSent, OwnForbidden
<1>2. PICK new : action' = [action EXCEPT ![a] = new] /\ new.at \in {"own", "done", "pushOwn"}
  <2>1. CASE OwnForbidden(a)
    <3>1. [action[a] EXCEPT !.at = "pushOwn"].at = "pushOwn"
      BY ActionFacts DEF Inv, ActionState
    <3> QED  BY <2>1, <3>1 DEF OwnForbidden, Goto
  <2>2. CASE LoopEnds(a) \/ OwnSent(a)
    <3>1. \A at, g : NoLoop(at, g).at = at
      BY DEF NoLoop
    <3> QED  BY <2>2, <3>1 DEF LoopEnds, OwnSent, Leave
  <2> QED  BY <2>1, <2>2
<1>3. new.at \notin Looping /\ Delivers(new)'
  BY <1>2 DEF Looping, Delivers
<1> QED  BY <1>1, <1>2, <1>3, OneLoopQuiet DEF history

(* A removal takes a message that was delivered, or is noted as a mistake.  *)
LEMMA RemoveTakes ==
    ASSUME Inv, NEW a \in Loops, action[a].at = "remove", NEW i \in Nat, i = action[a].i,
           1 <= i, i <= stack.len, UNCHANGED history,
           arrays' = Slice!ArraysAfterRemove(arrays, stack, i),
           stack' = Slice!HeaderAfterRemove(stack),
           mistaken' = IF a \in disturbed THEN mistaken \cup {Slice!Get(arrays, stack, i)}
                       ELSE mistaken
    PROVE  OnlyDisturbedLose'
<1>1. Shapes
  BY DEF Inv, StackInv
<1>2. PICK gone : gone = arrays[stack.array][i]
  OBVIOUS
<1>3. gone \in delivered \cup mistaken'
  <2>1. CASE a \in disturbed
    BY <1>2, <2>1 DEF Slice!Get
  <2>2. CASE a \notin disturbed
    BY <1>2, <2>2 DEF Inv, LoseInv, Fits, Held, Delivers, Loops
  <2> QED  BY <2>1, <2>2
<1>4. /\ stack.len \in Nat /\ stack.array \in 1 .. Len(arrays)
      /\ stack.len <= Len(arrays[stack.array]) /\ Len(arrays[stack.array]) \in Nat
  BY <1>1, StackFacts DEF Shapes
<1>5. /\ stack'.array = stack.array /\ stack'.len = stack.len - 1
      /\ \A j \in 1 .. Len(arrays[stack.array]) :
           arrays'[stack.array][j] = IF i <= j /\ j < stack.len
                                     THEN arrays[stack.array][j + 1] ELSE arrays[stack.array][j]
  BY <1>1, <1>4, RemoveEffect
<1>6. ASSUME NEW m \in Queued, m # gone  PROVE m \in Queued'
  <2>1. PICK j \in 1 .. stack.len : m = arrays[stack.array][j]
    BY DEF Queued
  <2>2. j # i
    BY <1>2, <1>6, <2>1
  <2>3. CASE j < i
    <3>1. j \in 1 .. stack'.len /\ j \in 1 .. Len(arrays[stack.array]) /\ ~(i <= j)
      BY <1>4, <1>5, <2>1, <2>3
    <3>2. arrays'[stack'.array][j] = m
      BY <1>5, <2>1, <3>1
    <3> QED  BY <3>1, <3>2 DEF Queued
  <2>4. CASE j > i
    <3>1. PICK k \in Nat : k = j - 1
      BY <2>1, <1>4
    <3>2. k \in 1 .. stack'.len /\ k \in 1 .. Len(arrays[stack.array])
          /\ i <= k /\ k < stack.len /\ k + 1 = j
      BY <1>4, <1>5, <2>1, <2>4, <3>1
    <3>3. arrays'[stack'.array][k] = m
      BY <1>5, <2>1, <3>2
    <3> QED  BY <3>2, <3>3 DEF Queued
  <2> QED  BY <2>1, <2>2, <2>3, <2>4
<1>7. mistaken \subseteq mistaken'
  OBVIOUS
<1> QED  BY <1>3, <1>6, <1>7 DEF OnlyDisturbedLose, Inv, LoseInv, history

LEMMA RemoveFits ==
    ASSUME Inv, NEW a \in Actions, RemoveFromGlobalStack(a),
           IF stack' = stack THEN UNCHANGED <<disturbed, mistaken>>
           ELSE /\ disturbed' = disturbed \cup DisturbedByRemoval(a)
                /\ mistaken' = IF a \in disturbed
                               THEN mistaken \cup {Slice!Get(arrays, stack, action[a].i)}
                               ELSE mistaken
    PROVE  LoseInv'
<1>1. /\ action[a].at = "remove" /\ a \in Loops /\ Advance(a) /\ UNCHANGED history
      /\ StackInv /\ Shapes
  BY DEF RemoveFromGlobalStack, Loops, Looping, Inv, StackInv
<1>2. CASE UNCHANGED queue
  BY <1>1, <1>2, AdvanceQuiet DEF queue, history
<1>3. CASE /\ action[a].i <= stack.len
           /\ arrays' = Slice!ArraysAfterRemove(arrays, stack, action[a].i)
           /\ stack' = Slice!HeaderAfterRemove(stack)
  <2>1. PICK r \in Nat : r = action[a].i /\ 1 <= r /\ r <= stack.len
    BY <1>1, <1>3, LoopFacts
  <2>2. stack'.len = stack.len - 1 /\ stack'.array = stack.array /\ stack.len \in Nat
    BY <1>1, <1>3, <2>1, RemoveEffect, LoopFacts
  <2>3. /\ stack' # stack /\ disturbed' = disturbed \cup DisturbedByRemoval(a)
        /\ mistaken' = IF a \in disturbed THEN mistaken \cup {Slice!Get(arrays, stack, r)}
                       ELSE mistaken
    <3>1. stack' # stack
      BY <2>2
    <3> QED  BY <2>1, <3>1
  <2>4. OnlyDisturbedLose'
    BY <1>1, <1>3, <2>1, <2>3, RemoveTakes
  <2>5. PICK new : /\ action' = [action EXCEPT ![a] = new]
                   /\ new.at = "next" /\ new.view = action[a].view /\ new.i = action[a].i + 1
    BY <1>1, AdvancedState
  <2>6. a \notin disturbed' => Fits(new)'
    <3>1. SUFFICES ASSUME a \notin disturbed PROVE Fits(new)'
      BY <2>3
    <3>2. Placed(action[a].view, r, r)
      BY <1>1, <2>1, <3>1 DEF Inv, LoseInv, Fits, TurnOf
    <3>3. PICK v : v = action[a].view /\ v.len \in Nat
      BY <1>1, LoopFacts
    <3>4. v.array = stack.array \/ r + 1 > v.len
      BY <2>1, <2>2, <3>2, <3>3 DEF Placed
    <3>5. Placed(v, r + 1, r + 1)'
      BY <2>2, <3>4 DEF Placed
    <3> QED  BY <2>1, <2>5, <3>3, <3>5 DEF Fits, Held, TurnOf
  <2>7. ASSUME NEW b \in Loops \ disturbed', b # a  PROVE Fits(action[b])'
    <3>1. PICK x \in ActionState : x = action[b] /\ action'[b] = x
      BY <1>1, <2>5, <2>7, LoopFacts DEF StackInv, Loops
    <3>2. /\ x.at \in {"post", "remove"} => x.i < r
          /\ x.view.array # stack.array => TurnOf(x) < r
      <4>1. b \notin DisturbedByRemoval(a) /\ Turn(b) = TurnOf(x) /\ TurnOf(x) \in Nat /\ x.i \in Nat
        BY <1>1, <2>3, <2>7, <3>1, LoopFacts
      <4> QED  BY <2>1, <2>7, <3>1, <4>1 DEF DisturbedByRemoval, SharesArray
    <3>3. /\ x.view \in Slice!Header /\ Filled(x.view) /\ x.i \in Nat /\ x.i >= 1
          /\ TurnOf(x) \in Nat /\ TurnOf(x) >= 1 /\ Fits(x)
      <4>1. Fits(x) /\ b \in Loops
        BY <2>3, <2>7, <3>1 DEF Inv, LoseInv
      <4> QED  BY <1>1, <3>1, <4>1, LoopFacts
    <3>4. PICK v \in Slice!Header, i \in Nat, t \in Nat :
            v = x.view /\ i = x.i /\ t = TurnOf(x) /\ 1 <= t
      BY <3>3
    <3>5. Placed(v, i, t)'
      BY <1>1, <1>3, <2>1, <3>2, <3>3, <3>4, PlacedAfterRemove DEF Fits
    <3>6. Held(x)'
      BY <1>1, <1>3, <2>1, <3>2, <3>3, HeldAfterRemove DEF Fits
    <3> QED  BY <3>1, <3>4, <3>5, <3>6 DEF Fits, Held, Placed, TurnOf
  <2>8. Delivers(new)'
    BY <2>5 DEF Delivers
  <2> QED  BY <1>1, <2>4, <2>5, <2>6, <2>7, <2>8, OneLoop DEF history, Loops
<1> QED  BY <1>2, <1>3 DEF RemoveFromGlobalStack

LEMMA PushQueues ==
    ASSUME Inv, NEW m \in Actions, PushGlobalStack(m), UNCHANGED mistaken
    PROVE  OnlyDisturbedLose'
<1>1. Shapes /\ stack.len \in Nat
  BY DEF Inv, StackInv, Shapes, Slice!Header
<1>2. Queued \subseteq Queued'
  <2>1. ASSUME NEW q \in Queued  PROVE q \in Queued'
    <3>1. PICK j \in 1 .. stack.len : q = arrays[stack.array][j]
      BY DEF Queued
    <3>2. j \in 1 .. stack'.len /\ arrays'[stack'.array][j] = q
      BY <1>1, <3>1, PushEffect
    <3> QED  BY <3>2 DEF Queued
  <2> QED  BY <2>1
<1>3. m \in Queued'
  <2>1. stack.len + 1 \in 1 .. stack'.len /\ arrays'[stack'.array][stack.len + 1] = m
    BY <1>1, PushEffect
  <2> QED  BY <2>1 DEF Queued
<1>4. refused' = refused \cup {m} /\ UNCHANGED <<delivered, dropped>>
  BY DEF PushGlobalStack
<1> QED  BY <1>2, <1>3, <1>4 DEF Inv, LoseInv, OnlyDisturbedLose

LEMMA PushFits ==
    ASSUME Inv, NEW a \in Actions, PushAgain(a) \/ PushOwn(a),
           disturbed' = disturbed \cup DisturbedByPush(a), UNCHANGED mistaken
    PROVE  LoseInv'
<1>1. StackInv /\ Shapes /\ stack.len \in Nat
  BY DEF Inv, StackInv, Shapes, Slice!Header
<1>2. PICK m \in Actions : PushGlobalStack(m)
  BY <1>1, ActionFacts DEF PushAgain, PushOwn, Sound, Looping
<1>3. OnlyDisturbedLose' /\ delivered \subseteq delivered'
  BY <1>2, PushQueues DEF PushGlobalStack
<1>4. ASSUME NEW b \in Loops \ disturbed', b # a, action'[b] = action[b]
      PROVE  Fits(action[b])'
  <2>1. PICK x \in ActionState : x = action[b] /\ action'[b] = x
    BY <1>1, <1>4, LoopFacts
  <2>2. /\ ~(x.view.array = stack.array /\ ~Slice!HasRoom(arrays, stack) /\ TurnOf(x) < x.view.len)
        /\ stack.len + 1 # x.i
    <3>1. b \notin DisturbedByPush(a) /\ Turn(b) = TurnOf(x)
      BY <1>1, <1>4, <2>1, LoopFacts
    <3> QED  BY <1>4, <2>1, <3>1 DEF DisturbedByPush, SharesArray
  <2>3. /\ x.view \in Slice!Header /\ Filled(x.view) /\ x.i \in Nat /\ x.i >= 1
        /\ TurnOf(x) \in Nat /\ TurnOf(x) >= 1 /\ Fits(x)
    <3>1. Fits(x) /\ b \in Loops
      BY <1>4, <2>1 DEF Inv, LoseInv
    <3> QED  BY <1>1, <2>1, <3>1, LoopFacts
  <2>4. PICK v \in Slice!Header, i \in Nat, t \in Nat :
          v = x.view /\ i = x.i /\ t = TurnOf(x) /\ 1 <= t
    BY <2>3
  <2>5. Filled(v) /\ Placed(v, i, t) /\ (stack.len < i => stack.len + 1 < i)
        /\ ~(v.array = stack.array /\ ~Slice!HasRoom(arrays, stack) /\ t < v.len)
    BY <1>1, <2>2, <2>3, <2>4 DEF Fits
  <2>6. Placed(v, i, t)'
    BY <1>1, <1>2, <2>4, <2>5, PlacedAfterPush
  <2>7. Held(x)'
    BY <1>1, <1>2, <2>2, <2>3, HeldAfterPush DEF Fits
  <2> QED  BY <2>1, <2>4, <2>6, <2>7 DEF Fits, Held, Placed, TurnOf
<1>5. CASE PushOwn(a)
  <2>1. PICK g : g = action[a].group
    OBVIOUS
  <2>2. action' = [action EXCEPT ![a] = NoLoop("done", g)]
    BY <1>5, <2>1 DEF PushOwn, Leave
  <2>3. NoLoop("done", g).at = "done"
    BY DEF NoLoop
  <2>4. \A b \in Loops \ disturbed' : b # a => Fits(action[b])'
    BY <1>1, <1>4, <2>2 DEF StackInv, Loops
  <2> QED  BY <1>3, <2>2, <2>3, <2>4, OneLoop DEF Looping, Delivers
<1>6. CASE PushAgain(a)
  <2>1. action[a].at = "push" /\ a \in Loops /\ Advance(a)
    BY <1>6 DEF PushAgain, Loops, Looping
  <2>2. PICK new : /\ action' = [action EXCEPT ![a] = new]
                   /\ new.at = "next" /\ new.view = action[a].view /\ new.i = action[a].i + 1
    BY <1>1, <2>1, AdvancedState
  <2>3. a \notin disturbed' => Fits(new)'
    <3>1. SUFFICES ASSUME a \notin disturbed' PROVE Fits(new)'
      OBVIOUS
    <3>2. PICK v \in Slice!Header, i \in Nat : v = action[a].view /\ i = action[a].i
      BY <1>1, <2>1, LoopFacts
    <3>3. Turn(a) = i + 1 /\ a \notin DisturbedByPush(a) /\ a \notin disturbed
      BY <2>1, <3>1, <3>2 DEF Turn
    <3>4. ~(v.array = stack.array /\ ~Slice!HasRoom(arrays, stack) /\ i + 1 < v.len)
      BY <2>1, <3>2, <3>3 DEF DisturbedByPush, SharesArray
    <3>5. Filled(v)
      BY <1>1, <2>1, <3>2, LoopFacts
    <3>6. Placed(v, i, i + 1)
      BY <2>1, <3>2, <3>3 DEF Inv, LoseInv, Fits, TurnOf
    <3>7. stack.len < i => stack.len + 1 < i + 1
      BY <1>1
    <3>8. PICK t \in Nat : t = i + 1 /\ 1 <= t
      OBVIOUS
    <3>9. Placed(v, t, t)'
      BY <1>1, <1>2, <3>4, <3>5, <3>6, <3>7, <3>8, PlacedAfterPush
    <3> QED  BY <2>2, <3>2, <3>8, <3>9 DEF Fits, Held, TurnOf
  <2>4. \A b \in Loops \ disturbed' : b # a => Fits(action[b])'
    BY <1>1, <1>4, <2>2 DEF StackInv, Loops
  <2>5. Delivers(new)'
    BY <2>2 DEF Delivers
  <2> QED  BY <1>3, <2>1, <2>2, <2>3, <2>4, <2>5, OneLoop DEF Loops
<1> QED  BY <1>5, <1>6

LEMMA CleanupFits ==
    ASSUME Inv, CleanupMessageGroupStack, UNCHANGED <<disturbed, mistaken>>
    PROVE  LoseInv'
<1>1. UNCHANGED <<action, delivered, refused>> /\ dropped' = dropped \cup Queued /\ stack'.len = 0
  BY CleanupEffect DEF CleanupMessageGroupStack, Inv, StackInv
<1>2. OnlyDisturbedLose'
  BY <1>1 DEF Inv, LoseInv, OnlyDisturbedLose
<1>3. ASSUME NEW a \in Loops  PROVE Fits(action[a])'
  <2>1. action[a].i \in Nat /\ action[a].i >= 1 /\ action'[a] = action[a]
    BY <1>1, LoopFacts DEF Inv
  <2> QED  BY <1>1, <2>1 DEF Fits, Placed, Held
<1> QED  BY <1>1, <1>2, <1>3 DEF LoseInv, Inv, Delivers, Loops

LEMMA NextLoses ==
    ASSUME Inv, [ResendNext]_resendVars
    PROVE  Inv'
<1>1. StackInv'
  BY NextStack DEF Inv
<1>2. ASSUME UNCHANGED resendVars  PROVE LoseInv'
  BY <1>2 DEF resendVars, queue, history, Inv, LoseInv, Delivers, Fits, Held, Placed, TurnOf,
              Loops, OnlyDisturbedLose, Queued
<1>3. ASSUME NEW a \in Actions, Quiet(a), UNCHANGED <<disturbed, mistaken>>
      PROVE  LoseInv'
  BY <1>3, BeginFits, NextQueuedFits, ResendFits, LeaveFits DEF Quiet
<1>4. ASSUME NEW a \in Actions, LoopEnds(a), disturbed' = disturbed \ {a}, UNCHANGED mistaken
      PROVE  LoseInv'
  BY <1>4, LeaveFits
<1>5. LoseInv'
  BY <1>2, <1>3, <1>4, RemoveFits, PushFits, CleanupFits DEF ResendNext
<1> QED  BY <1>1, <1>5 DEF Inv

(* For any number of messages read at a time and any actions at once: only  *)
(* a loop under which the stack changed can remove a message that nobody    *)
(* took.                                                                    *)
THEOREM SpecOnlyDisturbedLose == ResendSpec => []OnlyDisturbedLose
<1>1. ResendInit => Inv
  <2>1. ResendInit => LoseInv
    BY DEF ResendInit, LoseInv, Loops, NoLoop, Looping, Delivers, OnlyDisturbedLose
  <2> QED  BY <2>1, InitStack DEF Inv
<1>2. Inv /\ [ResendNext]_resendVars => Inv'
  BY NextLoses
<1>3. Inv => OnlyDisturbedLose
  BY DEF Inv, LoseInv
<1> QED  BY <1>1, <1>2, <1>3, PTL DEF ResendSpec
=============================================================================
