---------------------------- MODULE ServerProofs ----------------------------
(***************************************************************************)
(* Proofs about the two servers of server/.  The webhook: for any          *)
(* requests, interactions, calls and deliveries.  The forward WebSocket    *)
(* server: for any number of applications, of connections that end and of  *)
(* reverse clients.                                                        *)
(***************************************************************************)
EXTENDS InteractionWait, Broadcast, SequenceTheorems, FiniteSetTheorems,
        WellFoundedInduction, TLAPS

(* A registered slot is new: its request has not answered, and no code is   *)
(* in it or on its way to it.                                               *)
RegisteredIsNew == \A i \in Interactions : pending[i] # NoRequest =>
    /\ Of[pending[i]] = i
    /\ request[pending[i]] \in {"wait", "expired"}
    /\ slot[pending[i]] = NoCall
    /\ \A a \in Calls : Took(a) => taken[a] # pending[i]

(* A slot is taken by one call.                                             *)
TakenOnce == \A a, b \in Calls : Took(a) /\ Took(b) /\ taken[a] = taken[b] => a = b

(* A code that was sent is in the channel, or in the response.              *)
SentIsKept == \A a \in Calls : call[a] = "filled" =>
    \/ slot[taken[a]] = a /\ request[taken[a]] \in {"wait", "expired", "owed"}
    \/ slot[taken[a]] = NoCall /\ request[taken[a]] = "answered" /\ answer[taken[a]] = a

(* A code in a channel was sent there by its call.                          *)
SlotIsSent == \A w \in Requests : slot[w] # NoCall =>
    call[slot[w]] = "filled" /\ taken[slot[w]] = w

AnsweredLast == \A w \in Requests : request[w] # "answered" => answer[w] = NoCall

IInv ==
    /\ TypeOK /\ RegisteredIsNew /\ TakenOnce /\ TakenIsAwaited
    /\ SentIsKept /\ SlotIsSent /\ AnsweredLast

-----------------------------------------------------------------------------
USE InteractionAssumption DEF Took

LEMMA InitIInv == Init => IInv
BY DEF Init, IInv, TypeOK, RegisteredIsNew, TakenOnce, TakenIsAwaited,
       SentIsKept, SlotIsSent, AnsweredLast

LEMMA TypeStep == TypeOK /\ [Next]_vars => TypeOK'
<1> SUFFICES ASSUME TypeOK, [Next]_vars PROVE TypeOK'
  OBVIOUS
<1> USE DEF TypeOK
<1>1. ASSUME NEW w \in Requests, Receive(w) PROVE TypeOK'
  BY <1>1 DEF Receive
<1>2. ASSUME NEW w \in Requests, TakeCode(w) PROVE TypeOK'
  BY <1>2 DEF TakeCode, Respond
<1>3. ASSUME NEW w \in Requests, Expire(w) PROVE TypeOK'
  BY <1>3 DEF Expire
<1>4. ASSUME NEW w \in Requests, Unregister(w) PROVE TypeOK'
  BY <1>4 DEF Unregister, Respond
<1>5. ASSUME NEW w \in Requests, TakeOwed(w) PROVE TypeOK'
  BY <1>5 DEF TakeOwed, Respond
<1>6. ASSUME NEW w \in Requests, Enqueue(w) \/ Handle(w) PROVE TypeOK'
  BY <1>6 DEF Enqueue, Handle
<1>7. ASSUME NEW a \in Calls, SendCode(a) PROVE TypeOK'
  BY <1>7 DEF SendCode
<1>8. ASSUME NEW a \in Calls, NEW i \in Interactions, TryFill(a, i) PROVE TypeOK'
  BY <1>8 DEF TryFill
<1>9. CASE UNCHANGED vars
  BY <1>9 DEF vars
<1> QED  BY <1>1, <1>2, <1>3, <1>4, <1>5, <1>6, <1>7, <1>8, <1>9 DEF Next, Request

-----------------------------------------------------------------------------
(* The rest of the invariant, action by action.                             *)

LEMMA ReceiveStep ==
    ASSUME IInv, TypeOK', NEW w \in Requests, Receive(w)
    PROVE  IInv'
<1> USE DEF IInv, TypeOK, Receive
<1>1. \A a \in Calls : Took(a) => taken[a] # w
  BY DEF TakenIsAwaited, SentIsKept
<1>2. slot[w] = NoCall
  BY <1>1 DEF SlotIsSent
<1>3. RegisteredIsNew'
  BY <1>1, <1>2 DEF RegisteredIsNew
<1>4. TakenOnce' /\ TakenIsAwaited' /\ SentIsKept'
  BY <1>1 DEF TakenOnce, TakenIsAwaited, SentIsKept
<1>5. SlotIsSent' /\ AnsweredLast'
  BY DEF SlotIsSent, AnsweredLast
<1> QED  BY <1>3, <1>4, <1>5

(* Taking the code that is in the channel, in time or late.                 *)
LEMMA TakeStep ==
    ASSUME IInv, TypeOK', NEW w \in Requests, TakeCode(w) \/ TakeOwed(w)
    PROVE  IInv'
<1> USE DEF IInv, TypeOK
<1>1. /\ slot[w] # NoCall /\ slot[w] \in Calls
      /\ answer' = [answer EXCEPT ![w] = slot[w]]
      /\ request' = [request EXCEPT ![w] = "answered"]
      /\ slot' = [slot EXCEPT ![w] = NoCall]
      /\ UNCHANGED <<pending, call, taken>>
  BY DEF TakeCode, TakeOwed, Respond
<1>2. call[slot[w]] = "filled" /\ taken[slot[w]] = w
  BY <1>1 DEF SlotIsSent
<1>3. \A a \in Calls : Took(a) /\ taken[a] = w => a = slot[w]
  BY <1>1, <1>2 DEF TakenOnce
<1>4. \A i \in Interactions : pending[i] # w
  BY <1>1 DEF RegisteredIsNew
<1>5. RegisteredIsNew'
  BY <1>1, <1>4 DEF RegisteredIsNew
<1>6. TakenOnce' /\ TakenIsAwaited'
  BY <1>1, <1>2, <1>3 DEF TakenOnce, TakenIsAwaited
<1>7. SentIsKept'
  <2> SUFFICES ASSUME NEW a \in Calls, call[a] = "filled" PROVE SentIsKept!(a)'
    BY <1>1 DEF SentIsKept
  <2>1. CASE taken[a] = w
    BY <1>1, <1>3, <2>1
  <2>2. CASE taken[a] # w
    BY <1>1, <2>2 DEF SentIsKept
  <2> QED  BY <2>1, <2>2
<1>8. SlotIsSent' /\ AnsweredLast'
  BY <1>1 DEF SlotIsSent, AnsweredLast
<1> QED  BY <1>5, <1>6, <1>7, <1>8

LEMMA ExpireStep ==
    ASSUME IInv, TypeOK', NEW w \in Requests, Expire(w)
    PROVE  IInv'
<1> USE DEF IInv, TypeOK, Expire
<1>1. RegisteredIsNew' /\ TakenOnce' /\ TakenIsAwaited'
  BY DEF RegisteredIsNew, TakenOnce, TakenIsAwaited
<1>2. SentIsKept' /\ SlotIsSent' /\ AnsweredLast'
  BY DEF SentIsKept, SlotIsSent, AnsweredLast
<1> QED  BY <1>1, <1>2

LEMMA UnregisterStep ==
    ASSUME IInv, TypeOK', NEW w \in Requests, Unregister(w)
    PROVE  IInv'
<1> USE DEF IInv, TypeOK, Unregister, Respond
<1>1. CASE pending[Of[w]] = w
  <2>1. \A a \in Calls : Took(a) => taken[a] # w
    BY <1>1 DEF RegisteredIsNew
  <2>2. \A i \in Interactions : i # Of[w] => pending[i] # w
    BY DEF RegisteredIsNew
  <2>3. RegisteredIsNew' /\ TakenOnce' /\ TakenIsAwaited'
    BY <1>1, <2>1, <2>2 DEF RegisteredIsNew, TakenOnce, TakenIsAwaited
  <2>4. SentIsKept' /\ SlotIsSent' /\ AnsweredLast'
    BY <1>1, <2>1 DEF SentIsKept, SlotIsSent, AnsweredLast
  <2> QED  BY <2>3, <2>4
<1>2. CASE pending[Of[w]] # w
  <2>1. \A i \in Interactions : pending[i] # w
    BY <1>2 DEF RegisteredIsNew
  <2>2. RegisteredIsNew' /\ TakenOnce' /\ TakenIsAwaited'
    BY <1>2, <2>1 DEF RegisteredIsNew, TakenOnce, TakenIsAwaited
  <2>3. SentIsKept' /\ SlotIsSent' /\ AnsweredLast'
    BY <1>2 DEF SentIsKept, SlotIsSent, AnsweredLast
  <2> QED  BY <2>2, <2>3
<1> QED  BY <1>1, <1>2

LEMMA TryFillStep ==
    ASSUME IInv, TypeOK', NEW a \in Calls, NEW i \in Interactions, TryFill(a, i)
    PROVE  IInv'
<1> USE DEF IInv, TypeOK, TryFill
<1>1. \A j \in Interactions : j # i /\ pending[j] # NoRequest => pending[j] # pending[i]
  BY DEF RegisteredIsNew
<1>2. RegisteredIsNew'
  BY <1>1 DEF RegisteredIsNew
<1>3. TakenOnce'
  BY DEF RegisteredIsNew, TakenOnce
<1>4. TakenIsAwaited' /\ SentIsKept'
  BY DEF RegisteredIsNew, TakenIsAwaited, SentIsKept
<1>5. SlotIsSent' /\ AnsweredLast'
  BY DEF SlotIsSent, AnsweredLast
<1> QED  BY <1>2, <1>3, <1>4, <1>5

LEMMA SendCodeStep ==
    ASSUME IInv, TypeOK', NEW a \in Calls, SendCode(a)
    PROVE  IInv'
<1> USE DEF IInv, TypeOK, SendCode
<1>1. taken[a] \in Requests /\ request[taken[a]] \in {"wait", "expired", "owed"}
  BY DEF TakenIsAwaited
<1>2. \A b \in Calls : b # a /\ Took(b) => taken[b] # taken[a]
  BY DEF TakenOnce
<1>3. RegisteredIsNew' /\ TakenOnce'
  BY <1>1 DEF RegisteredIsNew, TakenOnce
<1>4. TakenIsAwaited' /\ SentIsKept'
  BY <1>1, <1>2 DEF TakenIsAwaited, SentIsKept
<1>5. SlotIsSent' /\ AnsweredLast'
  BY <1>1 DEF SlotIsSent, AnsweredLast
<1> QED  BY <1>3, <1>4, <1>5

LEMMA NextIInv == IInv /\ [Next]_vars => IInv'
<1> SUFFICES ASSUME IInv, [Next]_vars PROVE IInv'
  OBVIOUS
<1>0. TypeOK'
  BY TypeStep DEF IInv
<1>1. ASSUME NEW w \in Requests, Receive(w) \/ Request(w) PROVE IInv'
  BY <1>0, <1>1, ReceiveStep, TakeStep, ExpireStep, UnregisterStep DEF Request
<1>2. ASSUME UNCHANGED <<pending, request, slot, answer, call, taken>> PROVE IInv'
  BY <1>0, <1>2 DEF IInv, RegisteredIsNew, TakenOnce, TakenIsAwaited,
     SentIsKept, SlotIsSent, AnsweredLast
<1>3. ASSUME NEW w \in Requests, Enqueue(w) \/ Handle(w) PROVE IInv'
  BY <1>2, <1>3 DEF Enqueue, Handle
<1>4. ASSUME NEW a \in Calls, SendCode(a) PROVE IInv'
  BY <1>0, <1>4, SendCodeStep
<1>5. ASSUME NEW a \in Calls, NEW i \in Interactions, TryFill(a, i) PROVE IInv'
  BY <1>0, <1>5, TryFillStep
<1>6. CASE UNCHANGED vars
  BY <1>2, <1>6 DEF vars
<1> QED  BY <1>1, <1>3, <1>4, <1>5, <1>6 DEF Next

THEOREM SpecIInv == Spec => []IInv
BY InitIInv, NextIInv, PTL DEF Spec

(* Every variable stays in its range, and a code has a slot to go to.       *)
THEOREM SpecTypeOK == Spec => []TypeOK
<1>1. IInv => TypeOK
  BY DEF IInv
<1> QED  BY <1>1, SpecIInv, PTL

(* TryFill's true means that the platform gets that code, if anything.      *)
THEOREM SpecPromiseKept == Spec => []PromiseKept
<1>1. IInv => PromiseKept
  BY DEF IInv, TypeOK, SentIsKept, AnsweredLast, PromiseKept
<1> QED  BY <1>1, SpecIInv, PTL

(* The send into a taken slot never blocks and is never lost.               *)
THEOREM SpecTakenIsAwaited == Spec => []TakenIsAwaited
<1>1. IInv => TakenIsAwaited
  BY DEF IInv
<1> QED  BY <1>1, SpecIInv, PTL

(* An answered request leaves no slot behind.                               *)
THEOREM SpecSlotRemoved == Spec => []SlotRemoved
<1>1. IInv => SlotRemoved
  BY DEF IInv, TypeOK, RegisteredIsNew, SlotRemoved
<1> QED  BY <1>1, SpecIInv, PTL

HIDE InteractionAssumption DEF Took

-----------------------------------------------------------------------------
(* The forward WebSocket server: the ranges of its state.                   *)

(* A slice lies inside its array, and holds connections only.               *)
Filled(s) ==
    /\ s.array \in 1 .. Len(arrays)
    /\ s.len <= Len(arrays[s.array])
    /\ \A j \in 1 .. s.len : arrays[s.array][j] \in Apps

Lists ==
    /\ arrays \in Seq(Slice!Array)
    /\ list \in Slice!Header
    /\ Filled(list)

(* So do the slices that handlers are about to store and the one that the   *)
(* broadcast iterates over, whatever shifts them.                           *)
Handlers ==
    /\ app \in [Apps -> AppState]
    /\ \A a \in Apps : Filled(app[a].next)
    /\ \A a \in Apps : app[a].at = "found" => app[a].pos >= 1

Event ==
    /\ broadcast \in BroadcastState
    /\ Filled(broadcast.view)
    /\ broadcast.at = "spawn" => broadcast.i >= 1

Senders ==
    /\ sender \in Seq(SenderState)
    /\ errors \in 0 .. broadcast.capacity
    /\ broadcast.at = "new" => errors = 0 /\ sender = <<>>

Histories ==
    /\ overlap \in BOOLEAN
    /\ during \subseteq {"append", "cut"}
    /\ audience \subseteq Apps

Shapes == Lists /\ Handlers /\ Event /\ Senders /\ Histories

StayFilled == \A s \in Slice!Header : Filled(s) => Filled(s)'

-----------------------------------------------------------------------------
(* The two operations on the list.                                          *)

LEMMA ListFacts ==
    ASSUME Lists
    PROVE  /\ list.array \in 1 .. Len(arrays) /\ Len(arrays) \in Nat /\ list.len \in Nat
           /\ list.len <= Len(arrays[list.array]) /\ Len(arrays[list.array]) \in Nat
           /\ arrays[list.array] \in Seq(Apps \cup {NoApp})
           /\ \A n \in 1 .. Len(arrays) : Len(arrays[n]) \in Nat
<1>1. /\ list.array \in 1 .. Len(arrays) /\ Len(arrays) \in Nat /\ list.len \in Nat
      /\ list.len <= Len(arrays[list.array])
  BY DEF Lists, Filled, Slice!Header
<1>2. \A n \in 1 .. Len(arrays) : arrays[n] \in Slice!Array
  BY DEF Lists
<1> QED  BY <1>1, <1>2 DEF Slice!Array

(* An append changes one free position, or copies the list to a new array.  *)
LEMMA AppendEffect ==
    ASSUME Lists, NEW a \in Apps, NEW next,
           arrays' = Slice!ArraysAfterAppend(arrays, list, a),
           next = Slice!HeaderAfterAppend(arrays, list)
    PROVE  /\ arrays' \in Seq(Slice!Array) /\ next \in Slice!Header
           /\ Len(arrays) <= Len(arrays')
           /\ \A n \in 1 .. Len(arrays) :
                /\ Len(arrays'[n]) = Len(arrays[n])
                /\ \A j \in 1 .. Len(arrays[n]) :
                     \/ arrays'[n][j] = arrays[n][j]
                     \/ n = list.array /\ j = list.len + 1 /\ arrays'[n][j] = a
           /\ next.array = list.array \/ next.array > Len(arrays)
           /\ next.array \in 1 .. Len(arrays')
           /\ next.len = list.len + 1 /\ next.len <= Len(arrays'[next.array])
           /\ \A j \in 1 .. list.len : arrays'[next.array][j] = arrays[list.array][j]
           /\ arrays'[next.array][list.len + 1] = a
<1> DEFINE A == list.array
           L == list.len
<1>1. /\ A \in 1 .. Len(arrays) /\ L \in Nat /\ L <= Len(arrays[A])
      /\ arrays[A] \in Seq(Apps \cup {NoApp}) /\ Len(arrays[A]) \in Nat /\ Len(arrays) \in Nat
  BY ListFacts
<1>2. CASE L < Len(arrays[A])
  <2> DEFINE new == [arrays[A] EXCEPT ![L + 1] = a]
  <2>1. arrays' = [arrays EXCEPT ![A] = new] /\ next = [array |-> A, len |-> L + 1]
    BY <1>2 DEF Slice!ArraysAfterAppend, Slice!HeaderAfterAppend, Slice!HasRoom
  <2>2. /\ new \in Seq(Apps \cup {NoApp}) /\ Len(new) = Len(arrays[A])
        /\ new[L + 1] = a
        /\ \A j \in 1 .. Len(arrays[A]) : j # L + 1 => new[j] = arrays[A][j]
    BY <1>1, <1>2, ExceptSeq
  <2> HIDE DEF new
  <2>3. /\ arrays' \in Seq(Slice!Array) /\ Len(arrays') = Len(arrays)
        /\ \A n \in 1 .. Len(arrays) : arrays'[n] = IF n = A THEN new ELSE arrays[n]
    BY <1>1, <2>1, <2>2, ExceptSeq DEF Lists, Slice!Array
  <2>4. next \in Slice!Header
    BY <1>1, <2>1 DEF Slice!Header
  <2>5. ASSUME NEW n \in 1 .. Len(arrays)
        PROVE  /\ Len(arrays'[n]) = Len(arrays[n])
               /\ \A j \in 1 .. Len(arrays[n]) :
                    \/ arrays'[n][j] = arrays[n][j]
                    \/ n = A /\ j = L + 1 /\ arrays'[n][j] = a
    BY <2>2, <2>3
  <2>6. \A j \in 1 .. L : new[j] = arrays[A][j]
    BY <1>1, <2>2
  <2>7. arrays'[A] = new
    BY <1>1, <2>3
  <2> QED  BY <1>1, <1>2, <2>1, <2>2, <2>3, <2>4, <2>5, <2>6, <2>7
<1>3. CASE ~(L < Len(arrays[A]))
  <2> DEFINE new == Slice!Grown(arrays[A], a)
  <2>1. arrays' = Append(arrays, new) /\ next = [array |-> Len(arrays) + 1, len |-> L + 1]
    BY <1>3 DEF Slice!ArraysAfterAppend, Slice!HeaderAfterAppend, Slice!HasRoom
  <2>2. L = Len(arrays[A])
    BY <1>1, <1>3
  <2>3. /\ new \in Seq(Apps \cup {NoApp}) /\ Len(new) \in Nat /\ L + 1 <= Len(new)
        /\ new[L + 1] = a
        /\ \A j \in 1 .. L : new[j] = arrays[A][j]
    <3> DEFINE size == IF L = 0 THEN 1 ELSE 2 * L
    <3>1. new = [j \in 1 .. size |-> IF j <= L THEN arrays[A][j] ELSE IF j = L + 1 THEN a ELSE NoApp]
      BY <2>2 DEF Slice!Grown
    <3>2. size \in Nat /\ L + 1 <= size
      BY <1>1
    <3> HIDE DEF size, new
    <3>3. \A j \in 1 .. size : new[j] \in Apps \cup {NoApp}
      BY <1>1, <2>2, <3>1, <3>2
    <3>4. new \in Seq(Apps \cup {NoApp}) /\ Len(new) = size
      BY <3>1, <3>2, <3>3
    <3> QED  BY <1>1, <3>1, <3>2, <3>4
  <2> HIDE DEF new
  <2>4. /\ arrays' \in Seq(Slice!Array) /\ Len(arrays') = Len(arrays) + 1
        /\ arrays'[Len(arrays) + 1] = new
        /\ \A n \in 1 .. Len(arrays) : arrays'[n] = arrays[n]
    BY <1>1, <2>1, <2>3, AppendProperties DEF Lists, Slice!Array
  <2>5. next \in Slice!Header
    BY <1>1, <2>1 DEF Slice!Header
  <2> QED  BY <1>1, <2>1, <2>2, <2>3, <2>4, <2>5
<1> QED  BY <1>1, <1>2, <1>3

(* A removal shifts what follows in the array of the list.                  *)
LEMMA RemoveEffect ==
    ASSUME Lists, NEW i \in Nat, 1 <= i, i <= list.len, NEW next,
           arrays' = Slice!ArraysAfterRemove(arrays, list, i),
           next = Slice!HeaderAfterRemove(list)
    PROVE  /\ arrays' \in Seq(Slice!Array) /\ next \in Slice!Header
           /\ Len(arrays') = Len(arrays)
           /\ next.array = list.array /\ next.len = list.len - 1
           /\ \A n \in 1 .. Len(arrays) :
                /\ Len(arrays'[n]) = Len(arrays[n])
                /\ \A j \in 1 .. Len(arrays[n]) :
                     arrays'[n][j] = IF n = list.array /\ i <= j /\ j < list.len
                                     THEN arrays[n][j + 1] ELSE arrays[n][j]
<1> DEFINE A == list.array
           L == list.len
           new == [j \in DOMAIN arrays[A] |-> IF i <= j /\ j < L THEN arrays[A][j + 1] ELSE arrays[A][j]]
<1>1. /\ A \in 1 .. Len(arrays) /\ L \in Nat /\ L <= Len(arrays[A])
      /\ arrays[A] \in Seq(Apps \cup {NoApp}) /\ Len(arrays[A]) \in Nat /\ Len(arrays) \in Nat
  BY ListFacts
<1>2. arrays' = [arrays EXCEPT ![A] = new]
  BY DEF Slice!ArraysAfterRemove
<1>3. /\ new \in Seq(Apps \cup {NoApp}) /\ Len(new) = Len(arrays[A])
      /\ \A j \in 1 .. Len(arrays[A]) :
           new[j] = IF i <= j /\ j < L THEN arrays[A][j + 1] ELSE arrays[A][j]
  <2>1. DOMAIN arrays[A] = 1 .. Len(arrays[A])
    BY <1>1
  <2>2. \A j \in 1 .. Len(arrays[A]) : new[j] \in Apps \cup {NoApp}
    BY <1>1, <2>1
  <2> QED  BY <1>1, <2>1, <2>2
<1> HIDE DEF new
<1>4. /\ arrays' \in Seq(Slice!Array) /\ Len(arrays') = Len(arrays)
      /\ \A n \in 1 .. Len(arrays) : arrays'[n] = IF n = A THEN new ELSE arrays[n]
  BY <1>1, <1>2, <1>3, ExceptSeq DEF Lists, Slice!Array
<1>5. next \in Slice!Header /\ next.array = A /\ next.len = L - 1
  BY <1>1 DEF Lists, Slice!HeaderAfterRemove, Slice!Header
<1> QED  BY <1>1, <1>3, <1>4, <1>5

(* A slice stays filled while connections take the place of others.         *)
LEMMA FilledStays ==
    ASSUME Lists, Len(arrays) <= Len(arrays'), arrays' \in Seq(Slice!Array),
           \A n \in 1 .. Len(arrays) :
               /\ Len(arrays'[n]) = Len(arrays[n])
               /\ \A j \in 1 .. Len(arrays[n]) :
                    arrays'[n][j] = arrays[n][j] \/ arrays'[n][j] \in Apps
    PROVE  StayFilled
<1> SUFFICES ASSUME NEW s \in Slice!Header, Filled(s)  PROVE Filled(s)'
  BY DEF StayFilled
<1>1. s.array \in 1 .. Len(arrays) /\ s.len \in Nat /\ Len(arrays) \in Nat /\ Len(arrays') \in Nat
  BY DEF Filled, Slice!Header, Lists
<1>2. Len(arrays[s.array]) \in Nat /\ Len(arrays'[s.array]) = Len(arrays[s.array])
  BY <1>1, ListFacts
<1>3. s.array \in 1 .. Len(arrays') /\ s.len <= Len(arrays'[s.array])
  BY <1>1, <1>2 DEF Filled
<1>4. ASSUME NEW j \in 1 .. s.len  PROVE arrays'[s.array][j] \in Apps
  <2>1. j \in 1 .. Len(arrays[s.array]) /\ arrays[s.array][j] \in Apps
    BY <1>1, <1>2 DEF Filled
  <2> QED  BY <1>1, <2>1
<1> QED  BY <1>3, <1>4 DEF Filled

LEMMA AppendFills ==
    ASSUME Lists, NEW a \in Apps, NEW next,
           arrays' = Slice!ArraysAfterAppend(arrays, list, a),
           next = Slice!HeaderAfterAppend(arrays, list)
    PROVE  StayFilled /\ arrays' \in Seq(Slice!Array) /\ next \in Slice!Header /\ Filled(next)'
<1>1. StayFilled
  BY AppendEffect, FilledStays
<1>2. ASSUME NEW j \in 1 .. next.len  PROVE arrays'[next.array][j] \in Apps
  <2>1. next.len = list.len + 1 /\ list.len \in Nat
    BY AppendEffect, ListFacts
  <2>2. CASE j \in 1 .. list.len
    BY <2>2, AppendEffect DEF Lists, Filled
  <2>3. CASE j = list.len + 1
    BY <2>3, AppendEffect
  <2> QED  BY <2>1, <2>2, <2>3
<1>3. Filled(next)'
  BY <1>2, AppendEffect DEF Filled
<1> QED  BY <1>1, <1>3, AppendEffect

LEMMA RemoveFills ==
    ASSUME Lists, NEW i \in Nat, 1 <= i, i <= list.len, NEW next,
           arrays' = Slice!ArraysAfterRemove(arrays, list, i),
           next = Slice!HeaderAfterRemove(list)
    PROVE  StayFilled /\ arrays' \in Seq(Slice!Array) /\ next \in Slice!Header /\ Filled(next)'
<1>1. \A j \in 1 .. list.len : arrays[list.array][j] \in Apps
  BY DEF Lists, Filled
<1>2. ASSUME NEW n \in 1 .. Len(arrays), NEW j \in 1 .. Len(arrays[n])
      PROVE  arrays'[n][j] = arrays[n][j] \/ arrays'[n][j] \in Apps
  <2>1. arrays'[n][j] = IF n = list.array /\ i <= j /\ j < list.len
                        THEN arrays[n][j + 1] ELSE arrays[n][j]
    BY RemoveEffect
  <2>2. j < list.len => j + 1 \in 1 .. list.len
    BY ListFacts
  <2> QED  BY <1>1, <2>1, <2>2
<1>3. StayFilled
  <2>1. /\ arrays' \in Seq(Slice!Array) /\ Len(arrays) <= Len(arrays')
        /\ \A n \in 1 .. Len(arrays) : Len(arrays'[n]) = Len(arrays[n])
    BY RemoveEffect, ListFacts
  <2> QED  BY <1>2, <2>1, FilledStays
<1>5. /\ arrays' \in Seq(Slice!Array) /\ next \in Slice!Header
      /\ next.array = list.array /\ next.len = list.len - 1
  BY RemoveEffect
<1>6. Filled(next)'
  <2>2. /\ list.array \in 1 .. Len(arrays') /\ list.len <= Len(arrays'[list.array])
        /\ \A j \in 1 .. list.len : arrays'[list.array][j] \in Apps
    <3>1. PICK s \in Slice!Header : s = list
      BY DEF Lists
    <3>2. Filled(s)'
      BY <1>3, <3>1 DEF Lists, StayFilled
    <3> QED  BY <3>1, <3>2 DEF Filled
  <2> QED  BY <1>5, <2>2, ListFacts DEF Filled
<1> QED  BY <1>3, <1>5, <1>6

-----------------------------------------------------------------------------
(* Every step keeps the ranges.                                             *)

LEMMA ArraysStay ==
    ASSUME UNCHANGED arrays
    PROVE  StayFilled
BY DEF StayFilled, Filled

LEMMA ListStays ==
    ASSUME Lists, StayFilled, arrays' \in Seq(Slice!Array), UNCHANGED list
    PROVE  Lists'
<1>1. PICK s \in Slice!Header : s = list
  BY DEF Lists
<1>2. Filled(s)'
  BY <1>1 DEF Lists, StayFilled
<1> QED  BY <1>1, <1>2 DEF Lists, Filled

LEMMA EventStays ==
    ASSUME Event, StayFilled, UNCHANGED broadcast
    PROVE  Event'
<1>1. PICK s \in Slice!Header : s = broadcast.view
  BY DEF Event, BroadcastState
<1>2. Filled(s)'
  BY <1>1 DEF Event, StayFilled
<1> QED  BY <1>1, <1>2 DEF Event, Filled

LEMMA HandlerFacts ==
    ASSUME Handlers, NEW a \in Apps
    PROVE  /\ app[a] \in AppState /\ app[a].next \in Slice!Header /\ Filled(app[a].next)
           /\ app[a].pos \in Nat /\ (app[a].at = "found" => app[a].pos >= 1)
BY DEF Handlers, AppState

(* One handler goes on; the others keep what they had.                      *)
LEMMA HandlerMoves ==
    ASSUME Handlers, StayFilled, NEW a \in Apps, NEW new \in AppState,
           app' = [app EXCEPT ![a] = new], Filled(new.next)',
           new.at = "found" => new.pos >= 1
    PROVE  Handlers'
<1>1. app' \in [Apps -> AppState] /\ app'[a] = new /\ \A b \in Apps \ {a} : app'[b] = app[b]
  BY DEF Handlers
<1>2. ASSUME NEW b \in Apps  PROVE Filled(app[b].next)'
  <2>1. CASE b = a
    BY <1>1, <2>1 DEF Filled
  <2>2. CASE b # a
    <3>1. PICK s \in Slice!Header : s = app[b].next
      BY HandlerFacts
    <3>2. Filled(s)'
      BY <3>1, HandlerFacts DEF StayFilled
    <3> QED  BY <1>1, <2>2, <3>1, <3>2 DEF Filled
  <2> QED  BY <2>1, <2>2
<1>3. \A b \in Apps : app'[b].at = "found" => app'[b].pos >= 1
  BY <1>1 DEF Handlers
<1> QED  BY <1>1, <1>2, <1>3 DEF Handlers

LEMMA HandlerStays ==
    ASSUME Handlers, StayFilled, UNCHANGED app
    PROVE  Handlers'
<1>1. ASSUME NEW b \in Apps  PROVE Filled(app[b].next)'
  <2>1. PICK s \in Slice!Header : s = app[b].next
    BY HandlerFacts
  <2>2. Filled(s)'
    BY <2>1, HandlerFacts DEF StayFilled
  <2> QED  BY <2>1, <2>2 DEF Filled
<1> QED  BY <1>1 DEF Handlers

(* A handler without a list of its own.                                     *)
LEMMA FreshHandler ==
    ASSUME Lists, StayFilled, NEW at \in {"in", "gone"}
    PROVE  Handler(at) \in AppState /\ Filled(Handler(at).next)' /\ Handler(at).at = at
<1>1. Handler(at) \in AppState /\ Handler(at).next = Slice!Empty /\ Handler(at).at = at
  BY DEF Handler, AppState, Slice!Empty, Slice!Header
<1>2. Slice!Empty \in Slice!Header /\ Filled(Slice!Empty)
  BY ListFacts DEF Filled, Slice!Empty, Slice!Header
<1> QED  BY <1>1, <1>2 DEF StayFilled

(* Numbers have a least one in every set of them.                           *)
Less == {ss \in Nat \X Nat : ss[1] < ss[2]}

LEMMA LeastOfSome ==
    ASSUME NEW S, S \subseteq Nat, S # {}
    PROVE  \E i \in S : \A j \in S : i <= j
<1>1. IsWellFoundedOn(Less, Nat)
  BY NatLessThanWellFounded DEF OpToRel, Less
<1>2. PICK i \in S : \A j \in S : <<j, i>> \notin Less
  BY <1>1, WFMin
<1>3. ASSUME NEW j \in S, j < i  PROVE FALSE
  <2>1. <<j, i>> \in Nat \X Nat /\ <<j, i>>[1] < <<j, i>>[2]
    BY <1>3
  <2>2. <<j, i>> \in Less
    BY <2>1 DEF Less
  <2> QED  BY <1>2, <2>2
<1>4. i \in Nat /\ \A j \in S : j \in Nat /\ ~(j < i)
  BY <1>3
<1> QED  BY <1>4

LEMMA FirstIsPosition ==
    ASSUME Lists, NEW a \in Apps, PositionsOf(a) # {}
    PROVE  First(PositionsOf(a)) \in PositionsOf(a)
<1>1. PositionsOf(a) \subseteq Nat
  BY ListFacts DEF PositionsOf
<1> QED  BY <1>1, LeastOfSome DEF First

LEMMA InitForward ==
    ASSUME ForwardInit
    PROVE  Shapes
<1>1. Len(arrays) = 1 /\ arrays \in Seq(Slice!Array)
  BY DEF ForwardInit, Slice!NoArrays, Slice!Array
<1>2. Slice!Empty \in Slice!Header /\ Filled(Slice!Empty)
  BY DEF ForwardInit, Slice!NoArrays, Filled, Slice!Empty, Slice!Header
<1>3. Handler("out") \in AppState /\ Handler("out").next = Slice!Empty /\ Handler("out").at = "out"
  BY <1>2 DEF Handler, AppState
<1>4. Lists /\ Handlers
  BY <1>1, <1>2, <1>3 DEF ForwardInit, Lists, Handlers
<1>5. Event
  BY <1>2 DEF ForwardInit, Event, BroadcastState
<1>6. Senders
  <2>1. errors = 0 /\ sender = <<>> /\ broadcast.capacity = 0
    BY DEF ForwardInit
  <2> QED  BY <2>1, EmptySeq DEF Senders
<1>7. Histories
  BY DEF ForwardInit, Histories
<1> QED  BY <1>4, <1>5, <1>6, <1>7 DEF Shapes

(* What a handler leaves alone.                                             *)
LEMMA HandlerFrame ==
    ASSUME Shapes, HandlerNext, StayFilled
    PROVE  Event' /\ Senders' /\ Histories'
<1>1. UNCHANGED <<broadcast, sender, errors, audience>>
  BY DEF HandlerNext, Connect, StoreAppended, Break, FindSelf, CutSelf, StoreCut, history
<1>2. overlap' \in BOOLEAN /\ during' \subseteq {"append", "cut"}
  BY DEF HandlerNext, Connect, StoreAppended, Break, FindSelf, CutSelf, StoreCut, history,
     BeginChange, ListChanges, Shapes, Histories
<1> QED  BY <1>1, <1>2, EventStays DEF Shapes, Senders, Histories

LEMMA ConnectKeeps ==
    ASSUME Shapes, NEW a \in Apps, Connect(a)
    PROVE  StayFilled /\ Lists' /\ Handlers'
<1>1. PICK next : next = Slice!HeaderAfterAppend(arrays, list)
  OBVIOUS
<1>2. StayFilled /\ arrays' \in Seq(Slice!Array) /\ next \in Slice!Header /\ Filled(next)'
  BY <1>1, AppendFills DEF Connect, Shapes
<1>3. PICK new : new = [app[a] EXCEPT !.at = "storing", !.next = next]
  OBVIOUS
<1>4. new \in AppState /\ new.next = next /\ new.at = "storing"
  BY <1>2, <1>3, HandlerFacts DEF Shapes, AppState
<1>5. app' = [app EXCEPT ![a] = new]
  BY <1>1, <1>3 DEF Connect, Shapes, Handlers, AppState
<1>6. Handlers'
  BY <1>2, <1>4, <1>5, HandlerMoves DEF Shapes, Filled
<1> QED  BY <1>2, <1>6, ListStays DEF Connect, Shapes

LEMMA StoreKeeps ==
    ASSUME Shapes, NEW a \in Apps, StoreAppended(a) \/ StoreCut(a)
    PROVE  StayFilled /\ Lists' /\ Handlers'
<1>1. UNCHANGED arrays /\ list' = app[a].next
  BY DEF StoreAppended, StoreCut
<1>2. PICK at \in {"in", "gone"} : app' = [app EXCEPT ![a] = Handler(at)]
  BY DEF StoreAppended, StoreCut
<1>3. StayFilled
  BY <1>1, ArraysStay
<1>4. Lists'
  BY <1>1, HandlerFacts DEF Shapes, Lists, Filled
<1>5. Handlers'
  BY <1>2, <1>3, FreshHandler, HandlerMoves DEF Shapes
<1> QED  BY <1>3, <1>4, <1>5

LEMMA BreakKeeps ==
    ASSUME Shapes, NEW a \in Apps, Break(a)
    PROVE  StayFilled /\ Lists' /\ Handlers'
<1>1. StayFilled
  BY ArraysStay DEF Break
<1>2. PICK new : new = [app[a] EXCEPT !.at = "broken"]
  OBVIOUS
<1>3. new \in AppState /\ new.next = app[a].next /\ new.at = "broken"
  BY <1>2, HandlerFacts DEF Shapes, AppState
<1>4. Filled(new.next)'
  BY <1>1, <1>3, HandlerFacts DEF Shapes, StayFilled
<1>5. Handlers'
  BY <1>1, <1>2, <1>3, <1>4, HandlerMoves DEF Break, Shapes
<1> QED  BY <1>1, <1>5, ListStays DEF Break, Shapes, Lists

LEMMA FindSelfKeeps ==
    ASSUME Shapes, NEW a \in Apps, FindSelf(a)
    PROVE  StayFilled /\ Lists' /\ Handlers'
<1>1. StayFilled /\ Lists'
  BY ArraysStay, ListStays DEF FindSelf, Shapes, Lists
<1>2. CASE app' = [app EXCEPT ![a] = Handler("gone")]
  BY <1>1, <1>2, FreshHandler, HandlerMoves DEF Shapes
<1>3. CASE /\ PositionsOf(a) # {}
           /\ app' = [app EXCEPT ![a].at = "found", ![a].pos = First(PositionsOf(a))]
  <2>1. PICK i \in PositionsOf(a) : i = First(PositionsOf(a))
    BY <1>3, FirstIsPosition DEF Shapes
  <2>2. i \in Nat /\ i >= 1
    BY ListFacts DEF PositionsOf, Shapes
  <2>3. PICK new : new = [app[a] EXCEPT !.at = "found", !.pos = i]
    OBVIOUS
  <2>4. new \in AppState /\ new.next = app[a].next /\ new.at = "found" /\ new.pos = i
    BY <2>2, <2>3, HandlerFacts DEF Shapes, AppState
  <2>5. app' = [app EXCEPT ![a] = new]
    BY <1>3, <2>1, <2>3 DEF Shapes, Handlers, AppState
  <2>6. Filled(new.next)'
    BY <1>1, <2>4, HandlerFacts DEF Shapes, StayFilled
  <2>7. Handlers'
    BY <1>1, <2>2, <2>4, <2>5, <2>6, HandlerMoves DEF Shapes
  <2> QED  BY <1>1, <2>7
<1> QED  BY <1>1, <1>2, <1>3 DEF FindSelf

LEMMA CutSelfKeeps ==
    ASSUME Shapes, NEW a \in Apps, CutSelf(a)
    PROVE  StayFilled /\ Lists' /\ Handlers'
<1>1. CASE UNCHANGED arrays /\ app' = [app EXCEPT ![a] = Handler("gone")]
  <2>1. StayFilled
    BY <1>1, ArraysStay
  <2>2. Lists'
    BY <1>1, <2>1, ListStays DEF CutSelf, Shapes, Lists
  <2>3. Handlers'
    BY <1>1, <2>1, FreshHandler, HandlerMoves DEF Shapes
  <2> QED  BY <2>1, <2>2, <2>3
<1>2. CASE app[a].pos <= list.len
  <2>1. PICK i \in Nat : i = app[a].pos /\ 1 <= i /\ i <= list.len
    BY <1>2, HandlerFacts DEF CutSelf, Shapes
  <2>2. PICK next : next = Slice!HeaderAfterRemove(list)
    OBVIOUS
  <2>3. /\ arrays' = Slice!ArraysAfterRemove(arrays, list, i)
        /\ app' = [app EXCEPT ![a].at = "cutting", ![a].pos = 0, ![a].next = next]
        /\ UNCHANGED list
    BY <1>2, <2>1, <2>2 DEF CutSelf
  <2>4. StayFilled /\ arrays' \in Seq(Slice!Array) /\ next \in Slice!Header /\ Filled(next)'
    BY <2>1, <2>2, <2>3, RemoveFills DEF Shapes
  <2>5. PICK new : new = [app[a] EXCEPT !.at = "cutting", !.pos = 0, !.next = next]
    OBVIOUS
  <2>6. new \in AppState /\ new.next = next /\ new.at = "cutting"
    BY <2>4, <2>5, HandlerFacts DEF Shapes, AppState
  <2>7. app' = [app EXCEPT ![a] = new]
    BY <2>3, <2>5 DEF Shapes, Handlers, AppState
  <2>8. Handlers'
    BY <2>4, <2>6, <2>7, HandlerMoves DEF Shapes, Filled
  <2> QED  BY <2>3, <2>4, <2>8, ListStays DEF Shapes
<1> QED  BY <1>1, <1>2 DEF CutSelf

LEMMA HandlerNextKeeps ==
    ASSUME Shapes, HandlerNext
    PROVE  Shapes'
<1>1. StayFilled /\ Lists' /\ Handlers'
  BY ConnectKeeps, StoreKeeps, BreakKeeps, FindSelfKeeps, CutSelfKeeps DEF HandlerNext
<1> QED  BY <1>1, HandlerFrame DEF Shapes

(* The goroutines started so far, and how many more there are.              *)
LEMMA Servers ==
    /\ IsFiniteSet(Reverse) /\ Cardinality(Reverse) \in Nat
    /\ Reverse \cap Apps = {} /\ MaxApps \in Nat
BY BroadcastAssumption, FS_CardinalityType DEF Apps

LEMMA StartEffect ==
    ASSUME Shapes, StartBroadcast
    PROVE  /\ sender' \in Seq(SenderState) /\ Len(sender') = Cardinality(Reverse)
           /\ \A k \in 1 .. Cardinality(Reverse) :
                sender'[k].to \in Reverse /\ sender'[k].at = "sending"
<1> DEFINE n == Cardinality(Reverse)
<1>1. PICK order \in [1 .. n -> Reverse] : sender' = [i \in DOMAIN order |-> Spawned(order[i])]
  BY DEF StartBroadcast
<1>2. n \in Nat
  BY Servers
<1> HIDE DEF n
<1>3. sender' = [i \in 1 .. n |-> Spawned(order[i])]
  BY <1>1
<1>4. \A i \in 1 .. n : /\ Spawned(order[i]) \in SenderState
                         /\ Spawned(order[i]).to \in Reverse /\ Spawned(order[i]).at = "sending"
  BY DEF Spawned, SenderState
<1>5. sender' \in Seq(SenderState) /\ Len(sender') = n
  BY <1>2, <1>3, <1>4
<1> QED  BY <1>3, <1>4, <1>5 DEF n

LEMMA BroadcastKeeps ==
    ASSUME Shapes, BroadcastStep
    PROVE  Shapes'
<1>1. UNCHANGED <<arrays, list, app>>
  BY DEF BroadcastStep, StartBroadcast, TakeList, SpawnSender, AllSpawned, EndBroadcast
<1>2. StayFilled /\ Lists' /\ Handlers'
  BY <1>1, ArraysStay, ListStays, HandlerStays DEF Shapes, Lists
<1>3. broadcast \in BroadcastState /\ broadcast.view \in Slice!Header /\ broadcast.view.len \in Nat
      /\ broadcast.i \in Nat /\ Filled(broadcast.view) /\ broadcast.capacity \in Nat
      /\ (broadcast.at = "spawn" => broadcast.i >= 1)
  BY DEF Shapes, Event, BroadcastState, Slice!Header
<1>4. CASE StartBroadcast
  <2>1. broadcast.at = "new" /\ broadcast' = [broadcast EXCEPT !.at = "sized", !.capacity = Capacity]
        /\ UNCHANGED <<errors, overlap, audience>>
        /\ during' = IF \E a \in Apps : app[a].at = "cutting" THEN {"cut"} ELSE {}
    BY <1>4 DEF StartBroadcast
  <2>2. Capacity \in Nat
    BY Servers, ListFacts DEF Capacity, Shapes
  <2>3. broadcast' \in BroadcastState /\ broadcast'.view = broadcast.view
        /\ broadcast'.at = "sized" /\ broadcast'.capacity \in Nat
    BY <1>3, <2>1, <2>2 DEF BroadcastState
  <2>4. Event'
    BY <1>1, <1>3, <2>3 DEF Event, Filled
  <2>5. errors' \in 0 .. broadcast'.capacity
    BY <2>1, <2>3 DEF Shapes, Senders
  <2>6. Senders'
    BY <1>4, <2>3, <2>5, StartEffect DEF Senders
  <2>7. Histories'
    BY <2>1 DEF Shapes, Histories
  <2> QED  BY <1>2, <2>4, <2>6, <2>7 DEF Shapes
<1>5. CASE TakeList
  <2>1. /\ broadcast' = [broadcast EXCEPT !.at = "spawn", !.view = list, !.i = 1]
        /\ audience' = {a \in Apps : Listed(a)} /\ UNCHANGED <<sender, errors, overlap, during>>
    BY <1>5 DEF TakeList
  <2>2. list \in Slice!Header /\ Filled(list)
    BY DEF Shapes, Lists
  <2>3. /\ broadcast' \in BroadcastState /\ broadcast'.view = list /\ broadcast'.i = 1
        /\ broadcast'.at = "spawn" /\ broadcast'.capacity = broadcast.capacity
    BY <1>3, <2>1, <2>2 DEF BroadcastState
  <2>4. Event'
    BY <1>1, <2>2, <2>3 DEF Event, Filled
  <2> QED  BY <1>2, <2>1, <2>3, <2>4 DEF Shapes, Senders, Histories
<1>6. CASE SpawnSender
  <2>1. /\ broadcast.at = "spawn" /\ broadcast.i <= broadcast.view.len
        /\ sender' = Append(sender, Spawned(Slice!Get(arrays, broadcast.view, broadcast.i)))
        /\ broadcast' = [broadcast EXCEPT !.i = @ + 1] /\ UNCHANGED <<errors, history>>
    BY <1>6 DEF SpawnSender
  <2>2. PICK to \in Apps : to = Slice!Get(arrays, broadcast.view, broadcast.i)
    BY <1>3, <2>1 DEF Filled, Slice!Get
  <2>3. Spawned(to) \in SenderState
    BY DEF Spawned, SenderState
  <2>4. sender' \in Seq(SenderState)
    BY <2>1, <2>2, <2>3, AppendProperties DEF Shapes, Senders
  <2>5. /\ broadcast' \in BroadcastState /\ broadcast'.view = broadcast.view
        /\ broadcast'.i = broadcast.i + 1 /\ broadcast'.at = "spawn"
        /\ broadcast'.capacity = broadcast.capacity
    BY <1>3, <2>1 DEF BroadcastState
  <2>6. Event'
    BY <1>1, <1>3, <2>5 DEF Event, Filled
  <2> QED  BY <1>2, <2>1, <2>4, <2>5, <2>6 DEF Shapes, Senders, Histories, history
<1>7. CASE AllSpawned \/ EndBroadcast
  <2>1. PICK new : broadcast' = new /\ UNCHANGED <<sender, history>>
    BY <1>7 DEF AllSpawned, EndBroadcast
  <2>2. /\ new \in BroadcastState /\ new.view = broadcast.view /\ new.at \in {"wait", "done"}
        /\ new.capacity = broadcast.capacity
    BY <1>3, <1>7, <2>1 DEF AllSpawned, EndBroadcast, BroadcastState, AllFailed
  <2>3. Event'
    BY <1>1, <1>3, <2>1, <2>2 DEF Event, Filled
  <2>4. errors' \in {errors, 0}
    BY <1>7 DEF AllSpawned, EndBroadcast
  <2>5. Senders'
    BY <1>3, <2>1, <2>2, <2>4 DEF Shapes, Senders
  <2> QED  BY <1>2, <2>1, <2>3, <2>5 DEF Shapes, Histories, history
<1> QED  BY <1>4, <1>5, <1>6, <1>7 DEF BroadcastStep

(* A sender keeps whom it sends to.                                         *)
LEMMA SendEffect ==
    ASSUME Shapes, NEW s \in DOMAIN sender, SendStep(s)
    PROVE  /\ sender' \in Seq(SenderState) /\ Len(sender') = Len(sender)
           /\ DOMAIN sender' = DOMAIN sender /\ DOMAIN sender = 1 .. Len(sender)
           /\ \A t \in DOMAIN sender : sender'[t].to = sender[t].to
           /\ \A t \in DOMAIN sender \ {s} : sender'[t] = sender[t]
           /\ UNCHANGED <<arrays, list, app, broadcast, history>>
           /\ sender' # sender => broadcast.at # "new"
           /\ \/ /\ sender[s].at = "failed" /\ sender'[s].at = "reported"
                 /\ errors' = errors + 1 /\ errors < broadcast.capacity
              \/ sender[s].at = "sending" /\ sender'[s].at \in {"sent", "failed"} /\ UNCHANGED errors
<1>1. sender \in Seq(SenderState) /\ s \in 1 .. Len(sender) /\ DOMAIN sender = 1 .. Len(sender)
  BY DEF Shapes, Senders
<1>2. PICK at \in {"sent", "failed", "reported"} : sender' = [sender EXCEPT ![s].at = at]
  BY DEF SendStep, SendOk, SendFails, Report
<1>3. sender[s] \in SenderState
  BY <1>1, ElementOfSeq
<1>4. PICK new : new = [sender[s] EXCEPT !.at = at]
  OBVIOUS
<1>5. new \in SenderState /\ new.to = sender[s].to /\ new.at = at
  BY <1>3, <1>4 DEF SenderState
<1>6. sender' = [sender EXCEPT ![s] = new]
  BY <1>2, <1>4
<1>7. /\ sender' \in Seq(SenderState) /\ Len(sender') = Len(sender)
      /\ \A t \in 1 .. Len(sender) : sender'[t] = IF t = s THEN new ELSE sender[t]
  BY <1>1, <1>5, <1>6, ExceptSeq
<1>8. DOMAIN sender' = DOMAIN sender
  BY <1>1, <1>7
<1>9. UNCHANGED <<arrays, list, app, broadcast, history>>
  BY DEF SendStep, SendOk, SendFails, Report
<1>10. broadcast.at # "new"
  BY <1>1 DEF Shapes, Senders
<1>11. \/ /\ sender[s].at = "failed" /\ sender'[s].at = "reported"
          /\ errors' = errors + 1 /\ errors < broadcast.capacity
       \/ sender[s].at = "sending" /\ sender'[s].at \in {"sent", "failed"} /\ UNCHANGED errors
  <2>1. sender'[s].at = at
    BY <1>1, <1>5, <1>7
  <2>2. CASE SendOk(s)
    BY <1>1, <1>3, <2>2 DEF SendOk, SenderState
  <2>3. CASE SendFails(s)
    BY <1>1, <1>3, <2>3 DEF SendFails, SenderState
  <2>4. CASE Report(s)
    BY <1>1, <1>3, <2>4 DEF Report, SenderState
  <2> QED  BY <2>2, <2>3, <2>4 DEF SendStep
<1> QED  BY <1>1, <1>5, <1>7, <1>8, <1>9, <1>10, <1>11

LEMMA SendKeeps ==
    ASSUME Shapes, NEW s \in DOMAIN sender, SendStep(s)
    PROVE  Shapes'
<1>1. UNCHANGED <<arrays, list, app, broadcast, history>> /\ broadcast.at # "new"
  <2>1. DOMAIN sender = 1 .. Len(sender)
    BY DEF Shapes, Senders
  <2>2. broadcast.at # "new"
    BY <2>1 DEF Shapes, Senders
  <2> QED  BY <2>2, SendEffect
<1>2. StayFilled /\ Lists' /\ Handlers' /\ Event'
  BY <1>1, ArraysStay, ListStays, HandlerStays, EventStays DEF Shapes, Lists
<1>3. errors' \in 0 .. broadcast'.capacity
  <2>1. errors' = errors \/ (errors' = errors + 1 /\ errors < broadcast.capacity)
    BY SendEffect
  <2>2. broadcast.capacity \in Nat
    BY DEF Shapes, Event, BroadcastState
  <2> QED  BY <1>1, <2>1, <2>2 DEF Shapes, Senders
<1>4. sender' \in Seq(SenderState)
  BY SendEffect
<1>5. Senders' /\ Histories'
  BY <1>1, <1>3, <1>4 DEF Shapes, Senders, Histories, history
<1> QED  BY <1>2, <1>5 DEF Shapes

LEMMA ShapesStep ==
    ASSUME Shapes, [ForwardNext]_forwardVars
    PROVE  Shapes'
<1>1. CASE UNCHANGED forwardVars
  <2>1. UNCHANGED <<arrays, list, app, broadcast, sender, errors, overlap, during, audience>>
    BY <1>1 DEF forwardVars, history
  <2>2. StayFilled /\ Lists' /\ Handlers' /\ Event'
    BY <2>1, ArraysStay, ListStays, HandlerStays, EventStays DEF Shapes, Lists
  <2> QED  BY <2>1, <2>2 DEF Shapes, Senders, Histories
<1> QED  BY <1>1, HandlerNextKeeps, BroadcastKeeps, SendKeeps DEF ForwardNext

(* Every variable keeps its range, and nobody sends to the zero behind a    *)
(* list, however the unlocked changes of the list overlap.                  *)
THEOREM SpecForwardTypeOK == ForwardSpec => []ForwardTypeOK
<1>1. ForwardInit => Shapes
  BY InitForward
<1>2. Shapes /\ [ForwardNext]_forwardVars => Shapes'
  BY ShapesStep
<1>3. Shapes => ForwardTypeOK
  BY DEF Shapes, Lists, Handlers, Event, Senders, Histories, ForwardTypeOK
<1> QED  BY <1>1, <1>2, <1>3, PTL DEF ForwardSpec

-----------------------------------------------------------------------------
(* The list is the connections: one change at a time.                       *)

\* The first n positions of f hold the elements of S, each once.
Enumerates(f, n, S) ==
    /\ \A i, j \in 1 .. n : f[i] = f[j] => i = j
    /\ \A i \in 1 .. n : f[i] \in S
    /\ \A e \in S : \E i \in 1 .. n : f[i] = e

LEMMA EnumeratesSame ==
    ASSUME NEW n \in Nat, NEW f, NEW g, NEW S, Enumerates(f, n, S),
           \A i \in 1 .. n : g[i] = f[i]
    PROVE  Enumerates(g, n, S)
BY DEF Enumerates

LEMMA EnumeratesOneMore ==
    ASSUME NEW n \in Nat, NEW f, NEW g, NEW S, Enumerates(f, n, S), NEW e, e \notin S,
           \A i \in 1 .. n : g[i] = f[i], g[n + 1] = e
    PROVE  Enumerates(g, n + 1, S \cup {e})
<1>1. \A i \in 1 .. n + 1 : i \in 1 .. n \/ i = n + 1
  OBVIOUS
<1>2. \A i \in 1 .. n : g[i] \in S /\ g[i] # e /\ i \in 1 .. n + 1
  BY DEF Enumerates
<1>3. \A i, j \in 1 .. n + 1 : g[i] = g[j] => i = j
  <2> SUFFICES ASSUME NEW i \in 1 .. n + 1, NEW j \in 1 .. n + 1, g[i] = g[j]  PROVE i = j
    OBVIOUS
  <2>1. CASE i \in 1 .. n /\ j \in 1 .. n
    BY <2>1 DEF Enumerates
  <2>2. CASE i \in 1 .. n /\ j = n + 1
    BY <1>2, <2>2
  <2>3. CASE i = n + 1 /\ j \in 1 .. n
    BY <1>2, <2>3
  <2> QED  BY <1>1, <2>1, <2>2, <2>3
<1>4. \A x \in S \cup {e} : \E i \in 1 .. n + 1 : g[i] = x
  <2> SUFFICES ASSUME NEW x \in S \cup {e}  PROVE \E i \in 1 .. n + 1 : g[i] = x
    OBVIOUS
  <2>1. CASE x = e
    <3>1. n + 1 \in 1 .. n + 1
      OBVIOUS
    <3> QED  BY <2>1, <3>1
  <2>2. CASE x \in S
    <3>1. PICK i \in 1 .. n : f[i] = x
      BY <2>2 DEF Enumerates
    <3> QED  BY <1>2, <3>1
  <2> QED  BY <2>1, <2>2
<1> QED  BY <1>1, <1>2, <1>3, <1>4 DEF Enumerates

LEMMA EnumeratesOneLess ==
    ASSUME NEW n \in Nat, NEW f, NEW g, NEW S, Enumerates(f, n, S),
           NEW p \in 1 .. n,
           \A i \in 1 .. n : g[i] = IF p <= i /\ i < n THEN f[i + 1] ELSE f[i]
    PROVE  Enumerates(g, n - 1, S \ {f[p]})
\* Where the element at position i of g was in f.
<1> DEFINE was(i) == IF p <= i THEN i + 1 ELSE i
<1>1. \A i \in 1 .. n - 1 : was(i) \in 1 .. n /\ was(i) # p /\ g[i] = f[was(i)]
  OBVIOUS
<1>2. \A i, j \in 1 .. n - 1 : was(i) = was(j) => i = j
  OBVIOUS
<1>3. \A k \in 1 .. n : k # p => \E i \in 1 .. n - 1 : was(i) = k
  <2> SUFFICES ASSUME NEW k \in 1 .. n, k # p  PROVE \E i \in 1 .. n - 1 : was(i) = k
    OBVIOUS
  <2>1. CASE k < p
    <3>1. k \in 1 .. n - 1 /\ was(k) = k
      BY <2>1
    <3> QED  BY <3>1
  <2>2. CASE k > p
    <3>1. k - 1 \in 1 .. n - 1 /\ was(k - 1) = k
      BY <2>2
    <3> QED  BY <3>1
  <2> QED  BY <2>1, <2>2
<1> HIDE DEF was
<1>4. \A i, j \in 1 .. n - 1 : g[i] = g[j] => i = j
  BY <1>1, <1>2 DEF Enumerates
<1>5. \A i \in 1 .. n - 1 : g[i] \in S \ {f[p]}
  BY <1>1 DEF Enumerates
<1>6. \A e \in S \ {f[p]} : \E i \in 1 .. n - 1 : g[i] = e
  <2> SUFFICES ASSUME NEW e \in S \ {f[p]}  PROVE \E i \in 1 .. n - 1 : g[i] = e
    OBVIOUS
  <2>1. PICK k \in 1 .. n : f[k] = e /\ k # p
    BY DEF Enumerates
  <2>2. PICK i \in 1 .. n - 1 : was(i) = k
    BY <1>3, <2>1
  <2> QED  BY <1>1, <2>1, <2>2
<1> QED  BY <1>4, <1>5, <1>6 DEF Enumerates

Handled == {a \in Apps : Listed(a)}

Alone == \A a, b \in Apps : Changing(a) /\ Changing(b) => a = b

\* A removal leaves the list as it was while its array has moved.
ListHolds ==
    (\A a \in Apps : app[a].at # "cutting") => Enumerates(arrays[list.array], list.len, Handled)

Knows(a) ==
    /\ app[a].at = "storing" =>
         /\ app[a].next.len = list.len + 1
         /\ Enumerates(arrays[app[a].next.array], app[a].next.len, Handled \cup {a})
    /\ app[a].at = "found" =>
         app[a].pos \in 1 .. list.len /\ arrays[list.array][app[a].pos] = a
    /\ app[a].at = "cutting" => Enumerates(arrays[app[a].next.array], app[a].next.len, Handled)

ListInv == ~overlap => Alone /\ ListHolds /\ \A a \in Apps : Knows(a)

\* A handler that goes on while no other changes the list.
LEMMA OneMoves ==
    ASSUME Handlers, NEW a \in Apps, NEW new \in AppState, app' = [app EXCEPT ![a] = new],
           \A b \in Apps \ {a} : ~Changing(b)
    PROVE  /\ app'[a] = new /\ \A b \in Apps \ {a} : app'[b] = app[b]
           /\ Handled' = (Handled \ {a}) \cup {b \in {a} : new.at \in {"in", "broken", "found"}}
           /\ Alone'
           /\ \A b \in Apps \ {a} : Knows(b)'
           /\ \A b \in Apps \ {a} : app'[b].at # "cutting"
<1>1. app'[a] = new /\ \A b \in Apps \ {a} : app'[b] = app[b]
  BY DEF Handlers
<1>2. Handled' = (Handled \ {a}) \cup {b \in {a} : new.at \in {"in", "broken", "found"}}
  BY <1>1 DEF Handled, Listed
<1>3. \A b \in Apps \ {a} : app'[b].at \notin {"storing", "found", "cutting"}
  BY <1>1 DEF Changing
<1>4. Alone'
  BY <1>3 DEF Alone, Changing
<1> QED  BY <1>1, <1>2, <1>3, <1>4 DEF Knows

LEMMA ConnectAlone ==
    ASSUME Shapes, ListInv, NEW a \in Apps, Connect(a), ~overlap'
    PROVE  Alone' /\ ListHolds' /\ \A b \in Apps : Knows(b)'
<1>1. ~overlap /\ (\A b \in Apps : ~Changing(b)) /\ UNCHANGED list /\ app[a].at = "out"
  BY DEF Connect, BeginChange, Shapes, Histories
<1>2. PICK next : next = Slice!HeaderAfterAppend(arrays, list)
  OBVIOUS
<1>3. PICK new : new = [app[a] EXCEPT !.at = "storing", !.next = next]
  OBVIOUS
<1>4. next \in Slice!Header /\ arrays' = Slice!ArraysAfterAppend(arrays, list, a)
  BY <1>2, AppendFills DEF Connect, Shapes
<1>5. new \in AppState /\ new.next = next /\ new.at = "storing"
  BY <1>3, <1>4, HandlerFacts DEF Shapes, AppState
<1>6. app' = [app EXCEPT ![a] = new]
  BY <1>2, <1>3 DEF Connect, Shapes, Handlers, AppState
<1>7. /\ app'[a] = new /\ Alone' /\ \A b \in Apps \ {a} : Knows(b)'
      /\ Handled' = (Handled \ {a}) \cup {b \in {a} : new.at \in {"in", "broken", "found"}}
  BY <1>1, <1>5, <1>6, OneMoves DEF Shapes
<1>8. Handled' = Handled /\ a \notin Handled
  BY <1>1, <1>5, <1>7 DEF Handled, Listed
<1>9. Enumerates(arrays[list.array], list.len, Handled)
  BY <1>1 DEF ListInv, ListHolds, Changing
<1>10. /\ \A j \in 1 .. list.len : arrays'[list.array][j] = arrays[list.array][j]
       /\ \A j \in 1 .. list.len : arrays'[next.array][j] = arrays[list.array][j]
       /\ arrays'[next.array][list.len + 1] = a /\ next.len = list.len + 1
  <2>0. Lists /\ arrays' = Slice!ArraysAfterAppend(arrays, list, a)
    BY <1>4 DEF Shapes
  <2>1. \A j \in 1 .. list.len : arrays'[next.array][j] = arrays[list.array][j]
    BY <1>2, <2>0, AppendEffect
  <2>2. arrays'[next.array][list.len + 1] = a /\ next.len = list.len + 1
    BY <1>2, <2>0, AppendEffect
  <2>3. /\ list.array \in 1 .. Len(arrays)
        /\ \A j \in 1 .. list.len : j \in 1 .. Len(arrays[list.array]) /\ j # list.len + 1
    BY <2>0, ListFacts
  <2>4. \A j \in 1 .. Len(arrays[list.array]) :
            arrays'[list.array][j] = arrays[list.array][j] \/ j = list.len + 1
    BY <1>2, <2>0, <2>3, AppendEffect
  <2> QED  BY <2>1, <2>2, <2>3, <2>4
<1>11. Enumerates(arrays'[list.array], list.len, Handled)
  BY <1>9, <1>10, ListFacts, EnumeratesSame DEF Shapes
<1>12. Enumerates(arrays'[next.array], list.len + 1, Handled \cup {a})
  <2>1. PICK n \in Nat : n = list.len
    BY ListFacts DEF Shapes
  <2> PICK f : f = arrays[list.array]
    OBVIOUS
  <2> PICK g : g = arrays'[next.array]
    OBVIOUS
  <2> PICK S : S = Handled
    OBVIOUS
  <2>2. Enumerates(f, n, S) /\ a \notin S /\ (\A j \in 1 .. n : g[j] = f[j]) /\ g[n + 1] = a
    BY <1>8, <1>9, <1>10, <2>1
  <2>3. Enumerates(g, n + 1, S \cup {a})
    BY <2>2, EnumeratesOneMore
  <2> QED  BY <2>1, <2>3
<1>13. ListHolds'
  BY <1>1, <1>8, <1>11 DEF ListHolds
<1>14. Knows(a)'
  BY <1>1, <1>5, <1>7, <1>8, <1>10, <1>12 DEF Knows
<1> QED  BY <1>7, <1>13, <1>14

LEMMA StoreAlone ==
    ASSUME Shapes, ListInv, NEW a \in Apps, StoreAppended(a) \/ StoreCut(a), ~overlap'
    PROVE  Alone' /\ ListHolds' /\ \A b \in Apps : Knows(b)'
<1>1. UNCHANGED arrays /\ list' = app[a].next /\ ~overlap /\ Changing(a)
  BY DEF StoreAppended, StoreCut, Changing
<1>2. PICK at \in {"in", "gone"} :
          /\ app' = [app EXCEPT ![a] = Handler(at)]
          /\ IF at = "in" THEN app[a].at = "storing" ELSE app[a].at = "cutting"
  BY DEF StoreAppended, StoreCut
<1>3. Handler(at) \in AppState /\ Handler(at).at = at
  BY ArraysStay, FreshHandler, <1>1 DEF Shapes
<1>4. \A b \in Apps \ {a} : ~Changing(b)
  BY <1>1 DEF ListInv, Alone
<1>5. /\ app'[a] = Handler(at) /\ Alone' /\ \A b \in Apps \ {a} : Knows(b)'
      /\ Handled' = (Handled \ {a}) \cup {b \in {a} : Handler(at).at \in {"in", "broken", "found"}}
  BY <1>2, <1>3, <1>4, OneMoves DEF Shapes
<1>6. Handled' = IF at = "in" THEN Handled \cup {a} ELSE Handled
  <2>1. app[a].at \in {"storing", "cutting"} => a \notin Handled
    BY DEF Handled, Listed
  <2> QED  BY <1>2, <1>3, <1>5, <2>1
<1>7. Enumerates(arrays[app[a].next.array], app[a].next.len, Handled')
  BY <1>1, <1>2, <1>6 DEF ListInv, Knows
<1>8. ListHolds'
  BY <1>1, <1>7 DEF ListHolds
<1>9. Knows(a)'
  BY <1>3, <1>5 DEF Knows
<1> QED  BY <1>5, <1>8, <1>9

LEMMA BreakAlone ==
    ASSUME Shapes, ListInv, NEW a \in Apps, Break(a), ~overlap'
    PROVE  Alone' /\ ListHolds' /\ \A b \in Apps : Knows(b)'
<1>1. UNCHANGED <<arrays, list, overlap>> /\ app[a].at = "in" /\ app' = [app EXCEPT ![a].at = "broken"]
  BY DEF Break, history
<1>2. /\ app'[a].at = "broken" /\ \A b \in Apps \ {a} : app'[b] = app[b]
  BY <1>1 DEF Shapes, Handlers, AppState
<1>3. Handled' = Handled
  BY <1>1, <1>2 DEF Handled, Listed
<1>4. Alone'
  BY <1>1, <1>2 DEF ListInv, Alone, Changing
<1>5. ListHolds'
  BY <1>1, <1>2, <1>3 DEF ListInv, ListHolds
<1>6. \A b \in Apps : Knows(b)'
  BY <1>1, <1>2, <1>3 DEF ListInv, Knows
<1> QED  BY <1>4, <1>5, <1>6

LEMMA FindSelfAlone ==
    ASSUME Shapes, ListInv, NEW a \in Apps, FindSelf(a), ~overlap'
    PROVE  Alone' /\ ListHolds' /\ \A b \in Apps : Knows(b)'
<1>1. /\ ~overlap /\ (\A b \in Apps : ~Changing(b)) /\ UNCHANGED <<arrays, list>>
      /\ app[a].at = "broken"
  BY DEF FindSelf, BeginChange, Shapes, Histories
<1>2. Enumerates(arrays[list.array], list.len, Handled)
  BY <1>1 DEF ListInv, ListHolds, Changing
<1>3. PositionsOf(a) # {}
  BY <1>1, <1>2 DEF Enumerates, Handled, Listed, PositionsOf, Slice!Get
<1>4. PICK i \in PositionsOf(a) : i = First(PositionsOf(a))
  BY <1>3, FirstIsPosition DEF Shapes
<1>5. i \in 1 .. list.len /\ arrays[list.array][i] = a /\ i \in Nat
  BY ListFacts DEF PositionsOf, Slice!Get, Shapes
<1>6. PICK new : new = [app[a] EXCEPT !.at = "found", !.pos = i]
  OBVIOUS
<1>7. new \in AppState /\ new.at = "found" /\ new.pos = i
  BY <1>5, <1>6, HandlerFacts DEF Shapes, AppState
<1>8. app' = [app EXCEPT ![a] = new]
  BY <1>3, <1>4, <1>6 DEF FindSelf, Shapes, Handlers, AppState
<1>9. /\ app'[a] = new /\ Alone' /\ \A b \in Apps \ {a} : Knows(b)'
      /\ Handled' = (Handled \ {a}) \cup {b \in {a} : new.at \in {"in", "broken", "found"}}
  BY <1>1, <1>7, <1>8, OneMoves DEF Shapes
<1>10. Handled' = Handled
  BY <1>1, <1>7, <1>9 DEF Handled, Listed
<1>11. ListHolds'
  BY <1>1, <1>2, <1>10 DEF ListHolds
<1>12. Knows(a)'
  BY <1>1, <1>5, <1>7, <1>9 DEF Knows
<1> QED  BY <1>9, <1>11, <1>12

LEMMA CutSelfAlone ==
    ASSUME Shapes, ListInv, NEW a \in Apps, CutSelf(a), ~overlap'
    PROVE  Alone' /\ ListHolds' /\ \A b \in Apps : Knows(b)'
<1>1. ~overlap /\ Changing(a) /\ UNCHANGED list /\ app[a].at = "found"
  BY DEF CutSelf, Changing
<1>2. \A b \in Apps \ {a} : ~Changing(b)
  BY <1>1 DEF ListInv, Alone
<1>3. Enumerates(arrays[list.array], list.len, Handled)
  <2>1. \A b \in Apps : app[b].at # "cutting"
    BY <1>1, <1>2 DEF Changing
  <2> QED  BY <1>1, <2>1 DEF ListInv, ListHolds
<1>4. PICK i \in 1 .. list.len : i = app[a].pos /\ arrays[list.array][i] = a /\ i \in Nat
  BY <1>1, HandlerFacts DEF ListInv, Knows, Shapes
<1>5. PICK next : next = Slice!HeaderAfterRemove(list)
  OBVIOUS
<1>6. /\ arrays' = Slice!ArraysAfterRemove(arrays, list, i)
      /\ app' = [app EXCEPT ![a].at = "cutting", ![a].pos = 0, ![a].next = next]
  BY <1>4, <1>5, ListFacts DEF CutSelf, Shapes
<1>7. next \in Slice!Header /\ next.array = list.array /\ next.len = list.len - 1
  BY <1>4, <1>5, <1>6, ListFacts, RemoveEffect DEF Shapes
<1>8. PICK new : new = [app[a] EXCEPT !.at = "cutting", !.pos = 0, !.next = next]
  OBVIOUS
<1>9. new \in AppState /\ new.next = next /\ new.at = "cutting"
  BY <1>7, <1>8, HandlerFacts DEF Shapes, AppState
<1>10. app' = [app EXCEPT ![a] = new]
  BY <1>6, <1>8 DEF Shapes, Handlers, AppState
<1>11. /\ app'[a] = new /\ Alone' /\ \A b \in Apps \ {a} : Knows(b)'
       /\ Handled' = (Handled \ {a}) \cup {b \in {a} : new.at \in {"in", "broken", "found"}}
  BY <1>2, <1>9, <1>10, OneMoves DEF Shapes
<1>12. Handled' = Handled \ {a}
  BY <1>9, <1>11
<1>13. \A j \in 1 .. list.len : arrays'[list.array][j] =
           IF i <= j /\ j < list.len THEN arrays[list.array][j + 1] ELSE arrays[list.array][j]
  <2>1. \A n \in 1 .. Len(arrays) : \A j \in 1 .. Len(arrays[n]) :
          arrays'[n][j] = IF n = list.array /\ i <= j /\ j < list.len
                          THEN arrays[n][j + 1] ELSE arrays[n][j]
    BY <1>4, <1>5, <1>6, ListFacts, RemoveEffect DEF Shapes
  <2>2. list.array \in 1 .. Len(arrays) /\ \A j \in 1 .. list.len : j \in 1 .. Len(arrays[list.array])
    BY ListFacts DEF Shapes
  <2> QED  BY <2>1, <2>2
<1>14. Enumerates(arrays'[list.array], list.len - 1, Handled \ {a})
  <2>1. PICK n \in Nat : n = list.len
    BY ListFacts DEF Shapes
  <2> PICK f : f = arrays[list.array]
    OBVIOUS
  <2> PICK g : g = arrays'[list.array]
    OBVIOUS
  <2> PICK S : S = Handled
    OBVIOUS
  <2>2. /\ Enumerates(f, n, S) /\ i \in 1 .. n /\ f[i] = a
        /\ \A j \in 1 .. n : g[j] = IF i <= j /\ j < n THEN f[j + 1] ELSE f[j]
    BY <1>3, <1>4, <1>13, <2>1
  <2>3. Enumerates(g, n - 1, S \ {f[i]})
    BY <2>2, EnumeratesOneLess
  <2> QED  BY <2>1, <2>2, <2>3
<1>15. ListHolds'
  BY <1>9, <1>11 DEF ListHolds
<1>16. Knows(a)'
  BY <1>7, <1>9, <1>11, <1>12, <1>14 DEF Knows
<1> QED  BY <1>11, <1>15, <1>16

LEMMA InitListInv ==
    ASSUME ForwardInit
    PROVE  ListInv
<1>1. \A a \in Apps : app[a].at = "out"
  BY DEF ForwardInit, Handler
<1>2. list.len = 0
  BY DEF ForwardInit, Slice!Empty
<1>3. Handled = {}
  BY <1>1 DEF Handled, Listed
<1>4. Enumerates(arrays[list.array], list.len, Handled)
  BY <1>2, <1>3 DEF Enumerates
<1> QED  BY <1>1, <1>4 DEF ListInv, Alone, Changing, ListHolds, Knows

LEMMA ListInvStep ==
    ASSUME Shapes, ListInv, [ForwardNext]_forwardVars
    PROVE  ListInv'
<1>1. CASE HandlerNext
  BY <1>1, ConnectAlone, StoreAlone, BreakAlone, FindSelfAlone, CutSelfAlone DEF HandlerNext, ListInv
<1>2. CASE UNCHANGED <<arrays, list, app, overlap>>
  BY <1>2 DEF ListInv, Alone, Changing, ListHolds, Knows, Handled, Listed
<1>3. CASE BroadcastStep
  BY <1>2, <1>3 DEF BroadcastStep, StartBroadcast, TakeList, SpawnSender, AllSpawned, EndBroadcast, history
<1>4. CASE \E s \in DOMAIN sender : SendStep(s)
  BY <1>2, <1>4, SendEffect DEF history
<1>5. CASE UNCHANGED forwardVars
  BY <1>2, <1>5 DEF forwardVars, history
<1> QED  BY <1>1, <1>3, <1>4, <1>5 DEF ForwardNext

(* While no two changes of the list overlap, it holds the connections with  *)
(* a running handler, each once, however appends and removals share arrays. *)
THEOREM SpecListIsConnections == ForwardSpec => []ListIsConnections
<1>1. ForwardInit => Shapes /\ ListInv
  BY InitForward, InitListInv
<1>2. Shapes /\ ListInv /\ [ForwardNext]_forwardVars => Shapes' /\ ListInv'
  BY ShapesStep, ListInvStep
<1>3. Shapes /\ ListInv => ListIsConnections
  <2> SUFFICES ASSUME Shapes, ListInv, ~overlap, \A a \in Apps : ~Changing(a),
                      NEW held, held = Slice!Contents(arrays, list)
               PROVE  /\ \A i, j \in DOMAIN held : held[i] = held[j] => i = j
                      /\ {held[i] : i \in DOMAIN held} = {a \in Apps : Listed(a)}
    BY DEF ListIsConnections
  <2>1. Enumerates(arrays[list.array], list.len, Handled)
    BY DEF ListInv, ListHolds, Changing
  <2>2. DOMAIN held = 1 .. list.len /\ \A i \in 1 .. list.len : held[i] = arrays[list.array][i]
    <3>1. held = SubSeq(arrays[list.array], 1, list.len)
      BY DEF Slice!Contents
    <3> QED  BY <3>1, ListFacts DEF Shapes
  <2>3. \A i, j \in DOMAIN held : held[i] = held[j] => i = j
    BY <2>1, <2>2 DEF Enumerates
  <2>4. {held[i] : i \in DOMAIN held} = Handled
    BY <2>1, <2>2 DEF Enumerates
  <2> QED  BY <2>3, <2>4 DEF Handled
<1> QED  BY <1>1, <1>2, <1>3, PTL DEF ForwardSpec

-----------------------------------------------------------------------------
(* What the broadcast has started, whatever the list becomes.               *)

Counted ==
    /\ broadcast.at = "sized" => Len(sender) = Cardinality(Reverse)
    /\ broadcast.at = "spawn" =>
         /\ broadcast.i <= broadcast.view.len + 1
         /\ Len(sender) = Cardinality(Reverse) + broadcast.i - 1
    /\ broadcast.at = "wait" => Len(sender) = Cardinality(Reverse) + broadcast.view.len
    /\ broadcast.at \in {"sized", "spawn"} =>
         \A k \in 1 .. Cardinality(Reverse) : sender[k].to \in Reverse

LEMMA EventFacts ==
    ASSUME Shapes
    PROVE  /\ broadcast \in BroadcastState /\ broadcast.i \in Nat /\ broadcast.capacity \in Nat
           /\ broadcast.view \in Slice!Header /\ broadcast.view.len \in Nat
           /\ broadcast.view.array \in 1 .. Len(arrays)
           /\ broadcast.view.len <= Len(arrays[broadcast.view.array])
           /\ sender \in Seq(SenderState) /\ Len(sender) \in Nat /\ DOMAIN sender = 1 .. Len(sender)
           /\ Cardinality(Reverse) \in Nat
           /\ (broadcast.at = "spawn" => broadcast.i >= 1)
BY Servers DEF Shapes, Event, Filled, Senders, BroadcastState, Slice!Header

\* What each step of the broadcast does to its state and its senders.
LEMMA TakeListEffect ==
    ASSUME Shapes, TakeList
    PROVE  /\ broadcast.at = "sized" /\ broadcast'.at = "spawn" /\ broadcast'.view = list
           /\ broadcast'.i = 1 /\ broadcast'.downtime = broadcast.downtime
           /\ audience' = Handled /\ UNCHANGED <<arrays, list, app, sender, errors, overlap, during>>
BY EventFacts DEF TakeList, Handled, BroadcastState

LEMMA SpawnEffect ==
    ASSUME Shapes, SpawnSender
    PROVE  /\ broadcast.at = "spawn" /\ broadcast'.at = "spawn" /\ broadcast.i <= broadcast.view.len
           /\ broadcast'.i = broadcast.i + 1 /\ broadcast'.view = broadcast.view
           /\ Len(sender') = Len(sender) + 1 /\ DOMAIN sender' = 1 .. Len(sender) + 1
           /\ \A s \in 1 .. Len(sender) : sender'[s] = sender[s]
           /\ sender'[Len(sender) + 1].to = arrays[broadcast.view.array][broadcast.i]
           /\ sender'[Len(sender) + 1].at = "sending"
           /\ UNCHANGED <<arrays, list, app, errors, overlap, during, audience>>
<1>1. /\ broadcast.at = "spawn" /\ broadcast.i <= broadcast.view.len
      /\ broadcast' = [broadcast EXCEPT !.i = @ + 1]
      /\ UNCHANGED <<arrays, list, app, errors, overlap, during, audience>>
  BY DEF SpawnSender, history
<1>2. PICK e : e = Spawned(Slice!Get(arrays, broadcast.view, broadcast.i))
  OBVIOUS
<1>3. sender' = Append(sender, e)
  BY <1>2 DEF SpawnSender
<1>4. e.to = arrays[broadcast.view.array][broadcast.i] /\ e.at = "sending"
  BY <1>2 DEF Spawned, Slice!Get
<1>5. /\ Len(sender') = Len(sender) + 1 /\ DOMAIN sender' = 1 .. Len(sender) + 1
      /\ \A s \in 1 .. Len(sender) : sender'[s] = sender[s]
      /\ sender'[Len(sender) + 1] = e
  BY <1>3, EventFacts
<1> QED  BY <1>1, <1>4, <1>5, EventFacts DEF BroadcastState

LEMMA EndEffect ==
    ASSUME Shapes, AllSpawned \/ EndBroadcast
    PROVE  /\ broadcast'.view = broadcast.view
           /\ UNCHANGED <<arrays, list, app, sender, overlap, during, audience>>
           /\ \/ /\ broadcast.at = "spawn" /\ broadcast'.at = "wait"
                 /\ broadcast.i > broadcast.view.len /\ UNCHANGED errors
              \/ /\ broadcast.at = "wait" /\ broadcast'.at = "done"
                 /\ (broadcast'.downtime <=> AllFailed) /\ \A s \in DOMAIN sender : Finished(s)
<1>1. CASE AllSpawned
  BY <1>1, EventFacts DEF AllSpawned, history, BroadcastState
<1>2. CASE EndBroadcast
  BY <1>2, EventFacts DEF EndBroadcast, history, BroadcastState
<1> QED  BY <1>1, <1>2

LEMMA CountedStep ==
    ASSUME Shapes, Counted, [ForwardNext]_forwardVars
    PROVE  Counted'
<1>1. CASE UNCHANGED <<broadcast, sender>>
  BY <1>1 DEF Counted
<1>2. CASE StartBroadcast
  <2>1. broadcast'.at = "sized"
    BY <1>2, EventFacts DEF StartBroadcast, BroadcastState
  <2> QED  BY <1>2, <2>1, StartEffect DEF Counted
<1>3. CASE TakeList
  BY <1>3, TakeListEffect, ListFacts, EventFacts DEF Counted, Shapes
<1>4. CASE SpawnSender
  <2> PICK R \in Nat, n \in Nat, i \in Nat, size \in Nat :
           R = Cardinality(Reverse) /\ n = Len(sender) /\ i = broadcast.i /\ size = broadcast.view.len
    BY EventFacts
  <2>0. /\ broadcast.at = "spawn" /\ broadcast'.at = "spawn" /\ i >= 1 /\ i <= size
        /\ n = R + i - 1 /\ broadcast'.i = i + 1 /\ broadcast'.view.len = size /\ Len(sender') = n + 1
    BY <1>4, SpawnEffect, EventFacts DEF Counted
  <2>1. \A k \in 1 .. R : k \in 1 .. n /\ sender[k].to \in Reverse
    BY <2>0 DEF Counted
  <2>2. \A k \in 1 .. Cardinality(Reverse) : sender'[k].to \in Reverse
    BY <1>4, <2>1, SpawnEffect
  <2>3. /\ broadcast'.at = "spawn" /\ broadcast'.i <= broadcast'.view.len + 1
        /\ Len(sender') = Cardinality(Reverse) + broadcast'.i - 1
    BY <2>0
  <2> QED  BY <2>2, <2>3 DEF Counted
<1>5. CASE AllSpawned \/ EndBroadcast
  <2>1. CASE broadcast.at = "wait" /\ broadcast'.at = "done"
    BY <2>1 DEF Counted
  <2>2. CASE broadcast.at = "spawn" /\ broadcast'.at = "wait" /\ broadcast.i > broadcast.view.len
    <3>1. broadcast.i = broadcast.view.len + 1 /\ broadcast'.view = broadcast.view /\ UNCHANGED sender
      BY <1>5, <2>2, EndEffect, EventFacts DEF Counted
    <3>2. Len(sender) = Cardinality(Reverse) + broadcast.view.len
      BY <2>2, <3>1, EventFacts DEF Counted
    <3> QED  BY <2>2, <3>1, <3>2 DEF Counted
  <2> QED  BY <1>5, <2>1, <2>2, EndEffect
<1>6. CASE \E s \in DOMAIN sender : SendStep(s)
  <2> PICK s \in DOMAIN sender : SendStep(s)
    BY <1>6
  <2>1. /\ UNCHANGED broadcast /\ Len(sender') = Len(sender) /\ DOMAIN sender = 1 .. Len(sender)
        /\ \A t \in DOMAIN sender : sender'[t].to = sender[t].to
    BY SendEffect
  <2>2. broadcast.at \in {"sized", "spawn"} =>
          \A k \in 1 .. Cardinality(Reverse) : k \in DOMAIN sender /\ sender[k].to \in Reverse
    BY <2>1, EventFacts DEF Counted
  <2>3. broadcast'.at \in {"sized", "spawn"} =>
          \A k \in 1 .. Cardinality(Reverse) : sender'[k].to \in Reverse
    BY <2>1, <2>2
  <2> QED  BY <2>1, <2>3 DEF Counted
<1>7. CASE HandlerNext
  BY <1>1, <1>7 DEF HandlerNext, Connect, StoreAppended, Break, FindSelf, CutSelf, StoreCut
<1> QED  BY <1>1, <1>2, <1>3, <1>4, <1>5, <1>6, <1>7 DEF ForwardNext, BroadcastStep, forwardVars

-----------------------------------------------------------------------------
(* Every application in the list once: what the broadcast iterates over     *)
(* keeps its content.                                                       *)

Sent(a) == {s \in DOMAIN sender : sender[s].to = a}

Spawning ==
    /\ Enumerates(arrays[broadcast.view.array], broadcast.view.len, audience)
    /\ list.array = broadcast.view.array => broadcast.view.len <= list.len
    /\ \A a \in Apps : app[a].at = "storing" =>
         app[a].next.array = list.array \/ app[a].next.array # broadcast.view.array
    /\ \A k \in 1 .. broadcast.i - 1 :
         sender[Cardinality(Reverse) + k].to = arrays[broadcast.view.array][k]

Told ==
    \A a \in Apps : IF a \in audience THEN \E s : Sent(a) = {s} ELSE Sent(a) = {}

EachInv == ~overlap /\ "cut" \notin during =>
    /\ broadcast.at \in {"sized", "spawn", "wait"} => \A a \in Apps : app[a].at # "cutting"
    /\ broadcast.at = "spawn" => Spawning
    /\ broadcast.at \in {"wait", "done"} => Told

LEMMA HandlerLeaves ==
    ASSUME Shapes, HandlerNext
    PROVE  /\ UNCHANGED <<broadcast, sender, errors, audience>>
           /\ during \subseteq during' /\ (overlap => overlap')
BY DEF HandlerNext, Connect, StoreAppended, Break, FindSelf, CutSelf, StoreCut, history,
   BeginChange, ListChanges, Shapes, Histories

LEMMA HandlerSpawning ==
    ASSUME Shapes, ListInv, Counted, EachInv, HandlerNext,
           ~overlap', "cut" \notin during', broadcast.at = "spawn"
    PROVE  Spawning'
<1>1. /\ UNCHANGED <<broadcast, sender, errors, audience>> /\ ~overlap /\ "cut" \notin during
  BY HandlerLeaves DEF Shapes, Histories
<1>2. Spawning
  BY <1>1 DEF EachInv
<1>3. PICK a \in Apps :
        Connect(a) \/ StoreAppended(a) \/ Break(a) \/ FindSelf(a) \/ CutSelf(a) \/ StoreCut(a)
  BY DEF HandlerNext
<1>4. CASE Connect(a)
  <2>1. (\A b \in Apps : ~Changing(b)) /\ UNCHANGED list
    BY <1>4 DEF Connect, BeginChange, Shapes, Histories
  <2>2. PICK next : next = Slice!HeaderAfterAppend(arrays, list)
    OBVIOUS
  <2>3. app'[a].next = next /\ \A b \in Apps \ {a} : app'[b] = app[b]
    BY <1>4, <2>2 DEF Connect, Shapes, Handlers, AppState
  <2>4. /\ next.array = list.array \/ next.array > Len(arrays)
        /\ \A n \in 1 .. Len(arrays) : \A j \in 1 .. Len(arrays[n]) :
             \/ arrays'[n][j] = arrays[n][j]
             \/ n = list.array /\ j = list.len + 1 /\ arrays'[n][j] = a
    BY <1>4, <2>2, AppendEffect DEF Connect, Shapes
  <2>5. PICK v, n \in Nat : v = broadcast.view.array /\ n = broadcast.view.len
    BY EventFacts
  <2>6. v \in 1 .. Len(arrays) /\ n <= Len(arrays[v]) /\ Len(arrays[v]) \in Nat /\ Len(arrays) \in Nat
    BY <2>5, EventFacts, ListFacts DEF Shapes
  <2>7. ASSUME NEW j \in 1 .. n  PROVE arrays'[v][j] = arrays[v][j]
    <3>1. j \in 1 .. Len(arrays[v]) /\ (v = list.array => j # list.len + 1)
      BY <1>2, <2>5, <2>6, ListFacts DEF Spawning, Shapes
    <3> QED  BY <2>4, <2>6, <3>1
  <2>8. Enumerates(arrays'[v], n, audience)
    BY <1>2, <2>5, <2>7, EnumeratesSame DEF Spawning
  <2>9. \A b \in Apps : app'[b].at = "storing" =>
          app'[b].next.array = list.array \/ app'[b].next.array # v
    BY <2>1, <2>3, <2>4, <2>6 DEF Changing
  <2>10. \A k \in 1 .. broadcast.i - 1 :
           sender[Cardinality(Reverse) + k].to = arrays[v][k] /\ k \in 1 .. n
    BY <1>2, <2>5, EventFacts DEF Spawning, Counted
  <2>11. \A k \in 1 .. broadcast.i - 1 : sender[Cardinality(Reverse) + k].to = arrays'[v][k]
    BY <2>7, <2>10
  <2> QED  BY <1>1, <1>2, <2>1, <2>5, <2>8, <2>9, <2>11 DEF Spawning
<1>5. CASE StoreAppended(a)
  <2>1. /\ app[a].at = "storing" /\ UNCHANGED arrays /\ list' = app[a].next
        /\ app' = [app EXCEPT ![a] = Handler("in")]
    BY <1>5 DEF StoreAppended
  <2>2. \A b \in Apps : app'[b].at # "storing"
    BY <1>1, <2>1 DEF ListInv, Alone, Changing, Shapes, Handlers, Handler
  <2>3. list'.len = list.len + 1 /\ (list'.array = list.array \/ list'.array # broadcast.view.array)
    BY <1>1, <1>2, <2>1 DEF ListInv, Knows, Spawning
  <2>4. list'.array = broadcast.view.array => broadcast.view.len <= list'.len
    BY <1>2, <2>3, ListFacts, EventFacts DEF Spawning, Shapes
  <2> QED  BY <1>1, <1>2, <2>1, <2>2, <2>4 DEF Spawning
<1>6. CASE UNCHANGED <<arrays, list>> /\ \A b \in Apps : app'[b].at = "storing" => app'[b] = app[b]
  BY <1>1, <1>2, <1>6 DEF Spawning
<1>7. CASE Break(a)
  BY <1>6, <1>7 DEF Break, Shapes, Handlers, AppState
<1>8. CASE FindSelf(a)
  <2>1. \/ app' = [app EXCEPT ![a] = Handler("gone")]
        \/ app' = [app EXCEPT ![a].at = "found", ![a].pos = First(PositionsOf(a))]
    BY <1>8 DEF FindSelf
  <2>2. \A b \in Apps : app'[b].at = "storing" => app'[b] = app[b]
    BY <2>1 DEF Shapes, Handlers, Handler, AppState
  <2> QED  BY <1>6, <1>8, <2>2 DEF FindSelf
<1>9. CASE CutSelf(a)
  <2>1. UNCHANGED <<arrays, list>> /\ app' = [app EXCEPT ![a] = Handler("gone")]
    BY <1>9 DEF CutSelf, ListChanges
  <2> QED  BY <1>6, <2>1 DEF Shapes, Handlers, Handler
<1>10. CASE StoreCut(a)
  BY <1>10 DEF StoreCut, ListChanges
<1> QED  BY <1>3, <1>4, <1>5, <1>7, <1>8, <1>9, <1>10

LEMMA HandlerEach ==
    ASSUME Shapes, ListInv, Counted, EachInv, HandlerNext
    PROVE  EachInv'
<1> SUFFICES ASSUME ~overlap', "cut" \notin during'
             PROVE  /\ broadcast'.at \in {"sized", "spawn", "wait"} =>
                         \A a \in Apps : app'[a].at # "cutting"
                    /\ broadcast'.at = "spawn" => Spawning'
                    /\ broadcast'.at \in {"wait", "done"} => Told'
  BY DEF EachInv
<1>1. /\ UNCHANGED <<broadcast, sender, errors, audience>> /\ ~overlap /\ "cut" \notin during
  BY HandlerLeaves DEF Shapes, Histories
<1>2. ASSUME broadcast.at \in {"sized", "spawn", "wait"}, NEW b \in Apps
      PROVE  app'[b].at # "cutting"
  <2>1. PICK a \in Apps :
          Connect(a) \/ StoreAppended(a) \/ Break(a) \/ FindSelf(a) \/ CutSelf(a) \/ StoreCut(a)
    BY DEF HandlerNext
  <2>2. app[b].at # "cutting"
    BY <1>1, <1>2 DEF EachInv
  <2>3. b # a => app'[b] = app[b]
    BY <2>1 DEF Connect, StoreAppended, Break, FindSelf, CutSelf, StoreCut, Shapes, Handlers
  <2>4. CASE CutSelf(a)
    BY <1>2, <2>2, <2>3, <2>4 DEF CutSelf, ListChanges, Shapes, Handlers, Handler
  <2>5. CASE Connect(a) \/ StoreAppended(a) \/ Break(a) \/ FindSelf(a) \/ StoreCut(a)
    <3>1. app'[a].at \in {"storing", "in", "broken", "found", "gone"}
      BY <2>5 DEF Connect, StoreAppended, Break, FindSelf, StoreCut, Shapes, Handlers, Handler, AppState
    <3> QED  BY <2>2, <2>3, <3>1
  <2> QED  BY <2>1, <2>4, <2>5
<1>3. broadcast.at = "spawn" => Spawning'
  BY HandlerSpawning
<1>4. broadcast.at \in {"wait", "done"} => Told'
  BY <1>1 DEF EachInv, Told, Sent
<1> QED  BY <1>1, <1>2, <1>3, <1>4

LEMMA SpawnEach ==
    ASSUME Shapes, Counted, EachInv, SpawnSender
    PROVE  EachInv'
<1>1. UNCHANGED <<arrays, list, app, overlap, during, audience>>
  BY SpawnEffect
<1>2. ASSUME Spawning  PROVE Spawning'
  <2>1. PICK n \in Nat, i \in Nat : n = Len(sender) /\ i = broadcast.i /\ i >= 1
    BY EventFacts, SpawnEffect
  <2>2. n = Cardinality(Reverse) + i - 1 /\ broadcast'.i = i + 1 /\ Cardinality(Reverse) \in Nat
    BY <2>1, SpawnEffect, EventFacts DEF Counted
  <2>3. ASSUME NEW k \in 1 .. broadcast'.i - 1
        PROVE  sender'[Cardinality(Reverse) + k].to = arrays[broadcast.view.array][k]
    <3>1. CASE k = i
      <4>1. Cardinality(Reverse) + k = n + 1
        BY <2>1, <2>2, <3>1
      <4> QED  BY <2>1, <3>1, <4>1, SpawnEffect
    <3>2. CASE k # i
      <4>1. k \in 1 .. i - 1 /\ Cardinality(Reverse) + k \in 1 .. n
        BY <2>2, <3>2
      <4>2. sender[Cardinality(Reverse) + k].to = arrays[broadcast.view.array][k]
        BY <1>2, <2>1, <4>1 DEF Spawning
      <4> QED  BY <2>1, <4>1, <4>2, SpawnEffect
    <3> QED  BY <3>1, <3>2
  <2> QED  BY <1>1, <1>2, <2>3, SpawnEffect DEF Spawning
<1> QED  BY <1>1, <1>2, SpawnEffect DEF EachInv

LEMMA AllSpawnedTold ==
    ASSUME Shapes, Counted, Spawning, broadcast.at = "spawn", broadcast.i > broadcast.view.len
    PROVE  Told
<1>1. PICK n \in Nat : n = broadcast.view.len
  BY EventFacts
<1>2. PICK R \in Nat : R = Cardinality(Reverse)
  BY EventFacts
<1>3. broadcast.i = n + 1 /\ DOMAIN sender = 1 .. R + n
  BY <1>1, <1>2, EventFacts DEF Counted
<1>4. PICK f : f = arrays[broadcast.view.array]
  OBVIOUS
<1>5. Enumerates(f, n, audience) /\ \A k \in 1 .. n : sender[R + k].to = f[k]
  BY <1>1, <1>2, <1>3, <1>4 DEF Spawning
<1>6. \A s \in 1 .. R : sender[s].to \in Reverse
  BY <1>2 DEF Counted
<1>7. \A s \in 1 .. R + n : s \in 1 .. R \/ s - R \in 1 .. n
  OBVIOUS
<1>8. ASSUME NEW a \in Apps, NEW s \in Sent(a)
      PROVE  s - R \in 1 .. n /\ f[s - R] = a /\ s \in 1 .. R + n
  <2>1. s \in 1 .. R + n /\ sender[s].to = a
    BY <1>3 DEF Sent
  <2>2. s \notin 1 .. R
    BY <1>6, <2>1, Servers
  <2>3. s - R \in 1 .. n /\ R + (s - R) = s
    BY <1>7, <2>1, <2>2
  <2> QED  BY <1>5, <2>1, <2>3
<1>9. ASSUME NEW a \in Apps, a \in audience
      PROVE  \E s : Sent(a) = {s}
  <2>1. PICK k \in 1 .. n : f[k] = a
    BY <1>5, <1>9 DEF Enumerates
  <2>2. R + k \in Sent(a)
    BY <1>3, <1>5, <2>1 DEF Sent
  <2>3. ASSUME NEW s \in Sent(a)  PROVE s = R + k
    <3>1. s - R = k
      BY <1>5, <1>8, <2>1 DEF Enumerates
    <3> QED  BY <1>8, <3>1
  <2>4. Sent(a) = {R + k}
    BY <2>2, <2>3
  <2> QED  BY <2>4
<1>10. ASSUME NEW a \in Apps, a \notin audience
       PROVE  Sent(a) = {}
  BY <1>5, <1>8, <1>10 DEF Enumerates
<1> QED  BY <1>9, <1>10 DEF Told

LEMMA SendEach ==
    ASSUME Shapes, Counted, EachInv, NEW s \in DOMAIN sender, SendStep(s)
    PROVE  EachInv'
<1>1. /\ UNCHANGED <<arrays, list, app, broadcast, overlap, during, audience>>
      /\ DOMAIN sender' = DOMAIN sender /\ DOMAIN sender = 1 .. Len(sender)
      /\ \A t \in DOMAIN sender : sender'[t].to = sender[t].to
  BY SendEffect DEF history
<1>2. \A a \in Apps : Sent(a)' = Sent(a)
  BY <1>1 DEF Sent
<1>3. Told => Told'
  BY <1>1, <1>2 DEF Told
<1>4. ASSUME Spawning, broadcast.at = "spawn"  PROVE Spawning'
  <2>1. \A k \in 1 .. broadcast.i - 1 : Cardinality(Reverse) + k \in DOMAIN sender
    BY <1>1, <1>4, EventFacts DEF Counted
  <2>2. \A k \in 1 .. broadcast.i - 1 :
          sender'[Cardinality(Reverse) + k].to = arrays[broadcast.view.array][k]
    BY <1>1, <1>4, <2>1 DEF Spawning
  <2> QED  BY <1>1, <1>4, <2>2 DEF Spawning
<1> QED  BY <1>1, <1>3, <1>4 DEF EachInv

LEMMA EachInvStep ==
    ASSUME Shapes, ListInv, Counted, EachInv, [ForwardNext]_forwardVars
    PROVE  EachInv'
<1>1. CASE UNCHANGED forwardVars
  BY <1>1 DEF EachInv, Spawning, Told, Sent, forwardVars, history
<1>2. CASE StartBroadcast
  <2>1. broadcast'.at = "sized" /\ UNCHANGED app
    BY <1>2, EventFacts DEF StartBroadcast, BroadcastState
  <2>2. "cut" \notin during' => \A a \in Apps : app[a].at # "cutting"
    BY <1>2 DEF StartBroadcast
  <2> QED  BY <2>1, <2>2 DEF EachInv
<1>3. CASE TakeList
  <2>1. UNCHANGED <<arrays, list, app, overlap, during>> /\ broadcast.at = "sized"
        /\ broadcast'.at = "spawn" /\ broadcast'.view = list /\ broadcast'.i = 1 /\ audience' = Handled
    BY <1>3, TakeListEffect
  <2>2. ASSUME ~overlap, "cut" \notin during
        PROVE  (\A a \in Apps : app[a].at # "cutting") /\ Spawning'
    <3>1. \A a \in Apps : app[a].at # "cutting"
      BY <2>1, <2>2 DEF EachInv
    <3>2. Enumerates(arrays[list.array], list.len, Handled)
      BY <2>2, <3>1 DEF ListInv, ListHolds
    <3>3. \A k \in 1 .. 1 - 1 : FALSE
      OBVIOUS
    <3>4. list.len <= list.len
      BY ListFacts DEF Shapes
    <3> QED  BY <2>1, <3>1, <3>2, <3>3, <3>4 DEF Spawning
  <2> QED  BY <2>1, <2>2 DEF EachInv
<1>4. CASE SpawnSender
  BY <1>4, SpawnEach
<1>5. CASE AllSpawned \/ EndBroadcast
  <2>1. /\ UNCHANGED <<app, sender, overlap, during, audience>>
        /\ \/ broadcast.at = "spawn" /\ broadcast'.at = "wait" /\ broadcast.i > broadcast.view.len
           \/ broadcast.at = "wait" /\ broadcast'.at = "done"
    BY <1>5, EndEffect
  <2>2. Told => Told'
    BY <2>1 DEF Told, Sent
  <2>3. ~overlap /\ "cut" \notin during => Told
    BY <2>1, AllSpawnedTold DEF EachInv
  <2> QED  BY <2>1, <2>2, <2>3 DEF EachInv
<1> QED  BY <1>1, <1>2, <1>3, <1>4, <1>5, HandlerEach, SendEach DEF ForwardNext, BroadcastStep

(* An event goes to every connection that was in the list when the          *)
(* broadcast read it, once, and to no other, although the list is neither   *)
(* copied nor locked: only a removal meanwhile shifts what is iterated over.*)
THEOREM SpecEachAppOnce == ForwardSpec => []EachAppOnce
<1> DEFINE Inv == Shapes /\ ListInv /\ Counted /\ EachInv
<1>1. ForwardInit => Inv
  <2> SUFFICES ASSUME ForwardInit  PROVE Counted /\ EachInv
    BY InitForward, InitListInv
  <2>1. broadcast.at = "new"
    BY DEF ForwardInit
  <2> QED  BY <2>1 DEF Counted, EachInv
<1>2. Inv /\ [ForwardNext]_forwardVars => Inv'
  BY ShapesStep, ListInvStep, CountedStep, EachInvStep
<1>3. Inv => EachAppOnce
  <2> SUFFICES ASSUME Inv, ~overlap, "cut" \notin during, broadcast.at \in {"wait", "done"},
                      NEW a \in Apps
               PROVE  Cardinality(Sent(a)) = IF a \in audience THEN 1 ELSE 0
    BY DEF EachAppOnce, Sent
  <2>1. Told
    BY DEF EachInv
  <2> QED  BY <2>1, FS_Singleton, FS_EmptySet DEF Told
<1> QED  BY <1>1, <1>2, <1>3, PTL DEF ForwardSpec

-----------------------------------------------------------------------------
(* The downtime: as many errors as senders.                                 *)

Reported == {s \in DOMAIN sender : sender[s].at = "reported"}

DownInv ==
    /\ broadcast.at # "done" => errors = Cardinality(Reported)
    /\ broadcast.at \in {"spawn", "wait"} /\ during = {} => list = broadcast.view
    /\ broadcast.at = "done" => \A s \in DOMAIN sender : Finished(s)
    /\ DowntimeIfNobody

LEMMA ReportedFinite ==
    ASSUME Shapes
    PROVE  /\ IsFiniteSet(DOMAIN sender) /\ Cardinality(DOMAIN sender) = Len(sender)
           /\ IsFiniteSet(Reported) /\ Cardinality(Reported) \in Nat
           /\ (Cardinality(Reported) = Len(sender) <=> Reported = DOMAIN sender)
<1>1. PICK n \in Nat : n = Len(sender) /\ DOMAIN sender = 1 .. n
  BY EventFacts
<1>2. IsFiniteSet(1 .. n) /\ Cardinality(1 .. n) = n
  <2>1. IsFiniteSet(1 .. n) /\ Cardinality(1 .. n) = IF 1 > n THEN 0 ELSE n - 1 + 1
    BY 1 \in Int, n \in Int, FS_Interval
  <2> QED  BY <2>1
<1>3. Reported \subseteq 1 .. n
  BY <1>1 DEF Reported
<1>4. IsFiniteSet(Reported) /\ (Cardinality(1 .. n) = Cardinality(Reported) => 1 .. n = Reported)
  BY <1>2, <1>3, FS_Subset
<1> QED  BY <1>1, <1>2, <1>4, FS_CardinalityType

LEMMA HandlerDown ==
    ASSUME Shapes, DownInv, HandlerNext
    PROVE  DownInv'
<1>1. UNCHANGED <<broadcast, sender, errors>> /\ during \subseteq during'
  BY HandlerLeaves
<1>2. ASSUME broadcast.at \in {"spawn", "wait"}, during' = {}
      PROVE  UNCHANGED list
  BY <1>2 DEF HandlerNext, Connect, StoreAppended, Break, FindSelf, CutSelf, StoreCut, ListChanges
<1>3. broadcast'.at \in {"spawn", "wait"} /\ during' = {} => list' = broadcast'.view
  <2>1. during' = {} => during = {}
    BY <1>1
  <2> QED  BY <1>1, <1>2, <2>1 DEF DownInv
<1>4. DowntimeIfNobody'
  <2>1. during' = {} => during = {}
    BY <1>1
  <2> QED  BY <1>1, <2>1 DEF DownInv, DowntimeIfNobody, NobodyTook
<1> QED  BY <1>1, <1>3, <1>4 DEF DownInv, Reported, Finished

LEMMA SpawnDown ==
    ASSUME Shapes, DownInv, SpawnSender
    PROVE  DownInv'
<1>1. PICK n \in Nat : n = Len(sender) /\ DOMAIN sender = 1 .. n
  BY EventFacts
<1>2. /\ DOMAIN sender' = 1 .. n + 1 /\ \A s \in 1 .. n : sender'[s] = sender[s]
      /\ sender'[n + 1].at = "sending"
  BY <1>1, SpawnEffect
<1>3. Reported' = Reported
  <2>1. \A s \in 1 .. n + 1 : s \in 1 .. n \/ s = n + 1
    BY <1>1
  <2>2. 1 .. n \subseteq 1 .. n + 1
    BY <1>1
  <2> QED  BY <1>1, <1>2, <2>1, <2>2 DEF Reported
<1> QED  BY <1>3, SpawnEffect DEF DownInv, DowntimeIfNobody

LEMMA EndDown ==
    ASSUME Shapes, Counted, DownInv, AllSpawned \/ EndBroadcast
    PROVE  DownInv'
<1>1. broadcast'.view = broadcast.view /\ UNCHANGED <<list, sender, during>>
  BY EndEffect
<1>2. CASE broadcast.at = "spawn" /\ broadcast'.at = "wait" /\ UNCHANGED errors
  BY <1>1, <1>2 DEF DownInv, DowntimeIfNobody, Reported
<1>3. CASE /\ broadcast.at = "wait" /\ broadcast'.at = "done"
           /\ (broadcast'.downtime <=> AllFailed) /\ \A s \in DOMAIN sender : Finished(s)
  <2>1. ASSUME during = {}  PROVE broadcast'.downtime <=> NobodyTook
    <3>1. list = broadcast.view /\ errors = Cardinality(Reported)
      BY <1>3, <2>1 DEF DownInv
    <3>2. Len(sender) = Cardinality(Reverse) + list.len
      BY <1>3, <3>1 DEF Counted
    <3>3. AllFailed <=> Reported = DOMAIN sender
      BY <3>1, <3>2, ReportedFinite DEF AllFailed
    <3>4. Reported = DOMAIN sender <=> NobodyTook
      BY <1>3 DEF Reported, NobodyTook, Finished
    <3> QED  BY <1>3, <3>3, <3>4
  <2>2. DowntimeIfNobody'
    BY <1>1, <1>3, <2>1 DEF DowntimeIfNobody, NobodyTook
  <2> QED  BY <1>1, <1>3, <2>2 DEF DownInv, Finished
<1> QED  BY <1>2, <1>3, EndEffect

LEMMA SendDown ==
    ASSUME Shapes, DownInv, NEW s \in DOMAIN sender, SendStep(s)
    PROVE  DownInv'
<1>1. /\ UNCHANGED <<list, broadcast, during>> /\ DOMAIN sender' = DOMAIN sender
      /\ \A t \in DOMAIN sender \ {s} : sender'[t] = sender[t]
      /\ \/ /\ sender[s].at = "failed" /\ sender'[s].at = "reported" /\ errors' = errors + 1
         \/ sender[s].at = "sending" /\ sender'[s].at \in {"sent", "failed"} /\ UNCHANGED errors
  BY SendEffect DEF history
<1>2. broadcast.at # "done"
  BY <1>1 DEF DownInv, Finished
<1>3. errors' = Cardinality(Reported')
  <2>1. CASE sender[s].at = "failed" /\ sender'[s].at = "reported" /\ errors' = errors + 1
    <3>1. Reported' = Reported \cup {s} /\ s \notin Reported
      BY <1>1, <2>1 DEF Reported
    <3>2. Cardinality(Reported \cup {s}) = Cardinality(Reported) + 1
      BY <3>1, ReportedFinite, FS_AddElement
    <3> QED  BY <1>2, <2>1, <3>1, <3>2 DEF DownInv
  <2>2. CASE sender[s].at = "sending" /\ sender'[s].at \in {"sent", "failed"} /\ UNCHANGED errors
    <3>1. Reported' = Reported
      BY <1>1, <2>2 DEF Reported
    <3> QED  BY <1>2, <2>2, <3>1 DEF DownInv
  <2> QED  BY <1>1, <2>1, <2>2
<1> QED  BY <1>1, <1>2, <1>3 DEF DownInv, DowntimeIfNobody

LEMMA DownInvStep ==
    ASSUME Shapes, Counted, DownInv, [ForwardNext]_forwardVars
    PROVE  DownInv'
<1>1. CASE UNCHANGED forwardVars
  BY <1>1 DEF DownInv, DowntimeIfNobody, NobodyTook, Reported, Finished, forwardVars, history
<1>2. CASE StartBroadcast
  <2>1. broadcast.at = "new" /\ broadcast'.at = "sized" /\ UNCHANGED errors
    BY <1>2, EventFacts DEF StartBroadcast, BroadcastState
  <2>2. errors = 0
    BY <2>1 DEF Shapes, Senders
  <2>3. Reported' = {}
    <3>1. DOMAIN sender' = 1 .. Cardinality(Reverse)
      BY <1>2, StartEffect
    <3> QED  BY <1>2, <3>1, StartEffect DEF Reported
  <2> QED  BY <2>1, <2>2, <2>3, FS_EmptySet DEF DownInv, DowntimeIfNobody
<1>3. CASE TakeList
  BY <1>3, TakeListEffect DEF DownInv, DowntimeIfNobody, Reported
<1> QED  BY <1>1, <1>2, <1>3, HandlerDown, SpawnDown, EndDown, SendDown DEF ForwardNext, BroadcastStep

(* The users are told of a downtime exactly if no application took the      *)
(* event, unless the list changed during the broadcast: no error is lost    *)
(* or counted twice, and the two sums are made of the same parts.           *)
THEOREM SpecDowntimeIfNobody == ForwardSpec => []DowntimeIfNobody
<1> DEFINE Inv == Shapes /\ Counted /\ DownInv
<1>1. ForwardInit => Inv
  <2> SUFFICES ASSUME ForwardInit  PROVE Counted /\ DownInv
    BY InitForward
  <2>1. broadcast.at = "new" /\ errors = 0 /\ sender = <<>>
    BY DEF ForwardInit
  <2>2. Reported = {}
    BY <2>1 DEF Reported
  <2> QED  BY <2>1, <2>2, FS_EmptySet DEF Counted, DownInv, DowntimeIfNobody
<1>2. Inv /\ [ForwardNext]_forwardVars => Inv'
  BY ShapesStep, CountedStep, DownInvStep
<1>3. Inv => DowntimeIfNobody
  BY DEF DownInv
<1> QED  BY <1>1, <1>2, <1>3, PTL DEF ForwardSpec

-----------------------------------------------------------------------------
(* The channel of errors.                                                   *)

(* It has room for every error while no connection is appended after it was *)
(* sized: removals only make the list that is read shorter.                 *)
Room ==
    /\ broadcast.at = "sized" => Cardinality(Reverse) + list.len <= broadcast.capacity
    /\ broadcast.at \in {"spawn", "wait"} =>
         Cardinality(Reverse) + broadcast.view.len <= broadcast.capacity

Shorter == \A a \in Apps : app[a].at = "cutting" => app[a].next.len <= list.len

RoomInv ==
    /\ ~overlap => Shorter
    /\ ~overlap /\ "append" \notin during => Room

(* A sender that failed finds room for its error at once: nobody reads the  *)
(* channel before all are done, so it would wait for ever, and the broadcast*)
(* with it (BroadcastEnds has the same conditions).                         *)
SendersFindRoom ==
    ~overlap /\ "append" \notin during =>
        \A s \in DOMAIN sender : sender[s].at = "failed" => errors < broadcast.capacity

LEMMA ShorterStep ==
    ASSUME Shapes, ListInv, ~overlap => Shorter, HandlerNext, ~overlap'
    PROVE  ~overlap /\ Shorter' /\ (list'.len <= list.len \/ \E a \in Apps : StoreAppended(a))
<1> PICK a \in Apps :
      Connect(a) \/ StoreAppended(a) \/ Break(a) \/ FindSelf(a) \/ CutSelf(a) \/ StoreCut(a)
  BY DEF HandlerNext
<1>1. ~overlap /\ Shorter
  BY DEF Connect, BeginChange, StoreAppended, Break, FindSelf, CutSelf, StoreCut, history,
         Shapes, Histories
<1>2. list.len \in Nat /\ app \in [Apps -> AppState]
  BY ListFacts DEF Shapes, Handlers
<1>3. CASE StoreAppended(a) \/ StoreCut(a)
  <2>1. \A b \in Apps \ {a} : app[b].at # "cutting"
    BY <1>1, <1>3 DEF ListInv, Alone, Changing, StoreAppended, StoreCut
  <2>2. app' = [app EXCEPT ![a] = Handler("in")] \/ app' = [app EXCEPT ![a] = Handler("gone")]
    BY <1>3 DEF StoreAppended, StoreCut
  <2>3. \A b \in Apps : app'[b].at # "cutting"
    BY <1>2, <2>1, <2>2 DEF Handler
  <2>4. StoreCut(a) => list'.len <= list.len
    BY <1>1 DEF StoreCut, Shorter
  <2> QED  BY <1>1, <1>3, <2>3, <2>4 DEF Shorter
<1>4. CASE Connect(a) \/ Break(a) \/ FindSelf(a) \/ CutSelf(a)
  <2>1. UNCHANGED list
    BY <1>4 DEF Connect, Break, FindSelf, CutSelf
  <2>2. \A b \in Apps \ {a} : app'[b] = app[b]
    BY <1>2, <1>4 DEF Connect, Break, FindSelf, CutSelf
  <2>3. app'[a].at = "cutting" => app'[a].next.len <= list.len
    <3>1. ASSUME app'[a].at = "cutting"  PROVE CutSelf(a) /\ app'[a].next = Slice!HeaderAfterRemove(list)
      BY <1>2, <1>4, <3>1 DEF Connect, Break, FindSelf, CutSelf, Handler, AppState
    <3>2. Slice!HeaderAfterRemove(list).len = list.len - 1
      BY DEF Slice!HeaderAfterRemove
    <3> QED  BY <1>2, <3>1, <3>2
  <2> QED  BY <1>1, <1>2, <2>1, <2>2, <2>3 DEF Shorter
<1> QED  BY <1>3, <1>4

LEMMA RoomStep ==
    ASSUME Shapes, Shapes', ListInv, RoomInv, [ForwardNext]_forwardVars
    PROVE  RoomInv'
<1>1. CASE HandlerNext
  <2>1. UNCHANGED broadcast /\ during \subseteq during'
    BY <1>1, HandlerLeaves
  <2>2. ASSUME ~overlap'  PROVE Shorter'
    BY <1>1, <2>2, ShorterStep DEF RoomInv
  <2>3. ASSUME ~overlap', "append" \notin during'  PROVE Room'
    <3>1. Room /\ (list'.len <= list.len \/ \E a \in Apps : StoreAppended(a))
      BY <1>1, <2>1, <2>3, ShorterStep DEF RoomInv
    <3>2. CASE list'.len <= list.len
      <4>1. list.len \in Nat /\ list'.len \in Nat
        BY DEF Shapes, Lists, Slice!Header
      <4> QED  BY <2>1, <3>1, <3>2, <4>1, EventFacts DEF Room
    <3>3. CASE \E a \in Apps : StoreAppended(a)
      BY <2>1, <2>3, <3>1, <3>3 DEF StoreAppended, ListChanges, Room
    <3> QED  BY <3>1, <3>2, <3>3
  <2> QED  BY <2>2, <2>3 DEF RoomInv
<1>2. CASE UNCHANGED <<list, app, broadcast, overlap, during>>
  BY <1>2 DEF RoomInv, Room, Shorter
<1>3. CASE StartBroadcast
  <2>1. /\ UNCHANGED <<list, app, overlap>>
        /\ broadcast'.at = "sized" /\ broadcast'.capacity = list.len + Cardinality(Reverse)
    BY <1>3, EventFacts DEF StartBroadcast, Capacity, BroadcastState
  <2> QED  BY <2>1, ListFacts, EventFacts DEF RoomInv, Room, Shorter, Shapes
<1>4. CASE TakeList
  <2>1. broadcast'.capacity = broadcast.capacity
    BY <1>4, EventFacts DEF TakeList, BroadcastState
  <2> QED  BY <1>4, <2>1, TakeListEffect DEF RoomInv, Room, Shorter
<1>5. CASE SpawnSender
  <2>1. broadcast'.capacity = broadcast.capacity
    BY <1>5, EventFacts DEF SpawnSender, BroadcastState
  <2> QED  BY <1>5, <2>1, SpawnEffect DEF RoomInv, Room, Shorter
<1>6. CASE AllSpawned \/ EndBroadcast
  <2>1. broadcast'.capacity = broadcast.capacity
    BY <1>6, EventFacts DEF AllSpawned, EndBroadcast, BroadcastState
  <2> QED  BY <1>6, <2>1, EndEffect DEF RoomInv, Room, Shorter
<1>7. CASE \E s \in DOMAIN sender : SendStep(s)
  BY <1>2, <1>7, SendEffect DEF history
<1>8. CASE UNCHANGED forwardVars
  BY <1>2, <1>8 DEF forwardVars, history
<1> QED  BY <1>1, <1>3, <1>4, <1>5, <1>6, <1>7, <1>8 DEF ForwardNext, BroadcastStep

LEMMA RoomFollows ==
    ASSUME Shapes, Counted, DownInv, RoomInv
    PROVE  SendersFindRoom
<1> SUFFICES ASSUME ~overlap, "append" \notin during, NEW s \in DOMAIN sender, sender[s].at = "failed"
             PROVE  errors < broadcast.capacity
  BY DEF SendersFindRoom
<1>1. broadcast.at \in {"sized", "spawn", "wait"} /\ errors = Cardinality(Reported)
  <2>1. broadcast.at # "new"
    BY DEF Shapes, Senders
  <2>2. broadcast.at # "done"
    BY DEF DownInv, Finished
  <2> QED  BY <2>1, <2>2, EventFacts DEF DownInv, BroadcastState
<1>2. Cardinality(Reported) < Len(sender)
  <2>1. Reported \subseteq DOMAIN sender /\ s \notin Reported
    BY DEF Reported
  <2>2. Cardinality(Reported) <= Cardinality(DOMAIN sender)
    BY <2>1, ReportedFinite, FS_Subset
  <2> QED  BY <2>1, <2>2, ReportedFinite, EventFacts
<1>3. Len(sender) <= broadcast.capacity
  <2>1. CASE broadcast.at = "sized"
    BY <2>1, ListFacts, EventFacts DEF Counted, RoomInv, Room, Shapes
  <2>2. CASE broadcast.at \in {"spawn", "wait"}
    BY <2>2, EventFacts DEF Counted, RoomInv, Room
  <2> QED  BY <1>1, <2>1, <2>2
<1> QED  BY <1>1, <1>2, <1>3, ReportedFinite, EventFacts

(* As long as changes of the list do not overlap and no connection is       *)
(* appended after the channel was sized, no sender is ever stuck in it: the *)
(* part of BroadcastEnds that is not a matter of scheduling.                *)
THEOREM SpecSendersFindRoom == ForwardSpec => []SendersFindRoom
<1> DEFINE Inv == Shapes /\ ListInv /\ Counted /\ DownInv /\ RoomInv
<1>1. ForwardInit => Inv
  <2> SUFFICES ASSUME ForwardInit  PROVE Counted /\ DownInv /\ RoomInv
    BY InitForward, InitListInv
  <2>1. broadcast.at = "new" /\ errors = 0 /\ sender = <<>> /\ \A a \in Apps : app[a].at = "out"
    BY DEF ForwardInit, Handler
  <2>2. Reported = {}
    BY <2>1 DEF Reported
  <2> QED  BY <2>1, <2>2, FS_EmptySet
           DEF Counted, DownInv, DowntimeIfNobody, RoomInv, Room, Shorter
<1>2. Inv /\ [ForwardNext]_forwardVars => Inv'
  <2> SUFFICES ASSUME Inv, [ForwardNext]_forwardVars  PROVE Inv'
    OBVIOUS
  <2>1. Shapes'
    BY ShapesStep
  <2> QED  BY <2>1, ListInvStep, CountedStep, DownInvStep, RoomStep
<1>3. Inv => SendersFindRoom
  BY RoomFollows
<1> QED  BY <1>1, <1>2, <1>3, PTL DEF ForwardSpec
=============================================================================
