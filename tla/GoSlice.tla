------------------------------- MODULE GoSlice -------------------------------
(***************************************************************************)
(* Slices as the code shares them between goroutines without a lock.  A    *)
(* slice is a header: the number of its array and a length.  Copies of a   *)
(* header share the array, so an append into spare capacity and a removal, *)
(* which shifts the rest to the left, change what the copies read.  arrays *)
(* is the sequence of all arrays; the capacity of a slice is the length of *)
(* its array.  External: append and copy of Go.                            *)
(***************************************************************************)
EXTENDS Naturals, Sequences

CONSTANTS Elements, Zero   \* what is stored, and what fills spare capacity

Array == Seq(Elements \cup {Zero})
Header == [array : Nat \ {0}, len : Nat]

NoArrays == << <<>> >>
Empty == [array |-> 1, len |-> 0]

Get(arrays, s, i) == arrays[s.array][i]
Contents(arrays, s) == SubSeq(arrays[s.array], 1, s.len)
HasRoom(arrays, s) == s.len < Len(arrays[s.array])

\* A full array is copied into one of twice the capacity.
Grown(content, e) ==
    LET old == Len(content) IN
    [i \in 1 .. (IF old = 0 THEN 1 ELSE 2 * old) |->
        IF i <= old THEN content[i] ELSE IF i = old + 1 THEN e ELSE Zero]

ArraysAfterAppend(arrays, s, e) ==
    IF HasRoom(arrays, s)
    THEN [arrays EXCEPT ![s.array][s.len + 1] = e]
    ELSE Append(arrays, Grown(arrays[s.array], e))

HeaderAfterAppend(arrays, s) ==
    [array |-> IF HasRoom(arrays, s) THEN s.array ELSE Len(arrays) + 1,
     len |-> s.len + 1]

\* append(s[:i], s[i+1:]...), with positions counted from 1: what follows
\* moves to the left, and the old last element stays behind the new end.
ArraysAfterRemove(arrays, s, i) ==
    [arrays EXCEPT ![s.array] =
        [j \in DOMAIN @ |-> IF i <= j /\ j < s.len THEN @[j + 1] ELSE @[j]]]

HeaderAfterRemove(s) == [s EXCEPT !.len = @ - 1]
=============================================================================
