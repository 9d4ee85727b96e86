----------------------------- MODULE MCWorkflow -----------------------------
(* The workflow components for TLC: two detectors of which the first has all *)
(* issues; a web asset and the host at its address, the third finding on the *)
(* host and the others on the web asset.                                     *)
EXTENDS Workflow, TLC

CONSTANTS d1, d2, f1, f2, f3, w1, h1, e1, e2

MCDetectorOf == [i \in Issues |-> d1]
MCAddressOf == [w \in Webs |-> h1]
MCSubjectOf == [f \in Linked |-> IF f = f3 THEN h1 ELSE w1]

\* One graph over findings on both assets and a fault; two graphs at once over
\* one finding and without a fault.
Focus ==
  /\ corCrashes + corLosses <= 1
  /\ corRuns[2].status # "none" => stored \subseteq {f1} /\ corCrashes + corLosses = 0

Symmetry == Permutations(Threads) \cup Permutations({e1, e2})
=============================================================================
