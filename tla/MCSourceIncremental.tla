------------------------ MODULE MCSourceIncremental ------------------------
(* TLC instances of SourceIncremental. *)
EXTENDS SourceIncremental, TLC
CONSTANTS r1, r2, r3
\* An integer column at its change of digits: 9, 10, 11, ... as text.
TextOfIntegers == [t \in Times |-> IF t = 1 THEN MaxTime + 1 ELSE t]
\* Three rows of one time, two of one time after a third, and two with one that
\* is not there yet.
SomeTables == {r1 :> 2 @@ r2 :> 2 @@ r3 :> 2, r1 :> 1 @@ r2 :> 2 @@ r3 :> 2,
               r1 :> 1 @@ r2 :> 2 @@ r3 :> 0}
=============================================================================
