------------------------------ MODULE MCIdMap --------------------------------
(* IdMap for TLC: IDs u and g (a user and a group), e (a temporary event).  *)
EXTENDS IdMap

CONSTANTS u, g, e

(* GenerateRowID of each ID at 9 and 10 digits; at 11 and more, one row.    *)
MCHashRow == [i \in {u, g, e} |-> [d \in 9..18 |->
    IF i = u THEN (IF d = 9 THEN 2 ELSE IF d = 10 THEN 3 ELSE 4)
    ELSE IF i = g THEN (IF d = 9 THEN 2 ELSE IF d = 10 THEN 1 ELSE 4)
    ELSE (IF d = 9 THEN 3 ELSE IF d = 10 THEN 2 ELSE 1)]]
=============================================================================
