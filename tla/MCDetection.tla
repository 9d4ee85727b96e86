---------------------------- MODULE MCDetection ----------------------------
(* Two issues of two detectors with two detection requests and an operator,  *)
(* and one origin.                                                           *)
EXTENDS Detection, TLC

CONSTANTS i1, i2, d1, d2

DetectorOfIssue == (i1 :> d1) @@ (i2 :> d2)

\* The threads are alike, and so are the two issues together with their detectors.
Exchange == (i1 :> i2) @@ (i2 :> i1) @@ (d1 :> d2) @@ (d2 :> d1)
Symmetric == Permutations(Runs) \cup {p @@ Exchange : p \in Permutations(Runs)}

\* Either operators decide about findings or commits go wrong.
Undecided == /\ \A o \in Operators : opRow[o] = Idle
             /\ \A i \in Issues : finding[i].status \notin OPERATOR_OWNED_STATUSES
Focus == losses = 0 \/ Undecided

\* A status on each side of every boundary, policies around and across the cut.
Statuses == {299, 300, 400, 500}
PoliciesAroundCut ==
  {<<>>, <<"other">>, <<"ancestors self">>, <<"ancestors * self">>, <<"ancestors">>,
   <<"other", "ancestors self">>, <<"ancestors *", "ancestors self">>, <<"other", "ancestors self", "other">>,
   <<"other", "ancestors *", "ancestors self">>, <<"other", "other", "ancestors self">>}
=============================================================================
