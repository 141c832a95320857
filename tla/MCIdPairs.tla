------------------------------ MODULE MCIdPairs -------------------------------
(* IdPairs for TLC, from an empty file: groups g and h, users u and v.      *)
EXTENDS IdPairs, TLC

CONSTANTS g, h, u, v

\* A 10-digit hash of v is the 9-digit hash of u.
MCHashRow == [i \in Ids |-> [d \in 9..18 |->
    CASE i = g -> 1
      [] i = u -> IF d = 9 THEN 2 ELSE 3
      [] i = v -> IF d = 10 THEN 2 ELSE 4
      [] OTHER -> 4]]

MCNumber == [i \in Groups \cup Users |-> CASE i = g -> 5 [] i = h -> 0 [] i = u -> 6 [] OTHER -> 7]

\* The hashes of g and u.
MCPairTargets == {<<1, 2>>}

\* Handlers differ in nothing but their names.
HandlersAlike == Permutations(Handlers)

MCInit == PairsInit /\ counter = NoRow /\ \A i \in Ids : fwd[i] = NoRow
MCSpec == MCInit /\ [][PairsNext]_pvars
=============================================================================
