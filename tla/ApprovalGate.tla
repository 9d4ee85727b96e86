---------------------------- MODULE ApprovalGate ----------------------------
(***************************************************************************)
(* What the two-step workflows promise, whatever their threads, crashes    *)
(* and lost commits do: a request that reaches outside RedDock is stored   *)
(* first, is approved at most once, reaches outside at most once and only  *)
(* between its approval and its end, and is never reopened.                *)
(* ValidationRuns and IntelligenceRuns implement this specification.       *)
(***************************************************************************)
EXTENDS Naturals

CONSTANT Requests
VARIABLES phase, contacts

gateVars == <<phase, contacts>>
Phases == {"none", "pending", "refused", "approved", "closed"}
SetPhase(q, p) == phase' = [phase EXCEPT ![q] = p]

Init == /\ phase = [q \in Requests |-> "none"]
        /\ contacts = [q \in Requests |-> 0]

\* A request is stored, already refused when the policy denies it.
Ask(q) == /\ phase[q] = "none"
          /\ SetPhase(q, "pending") \/ SetPhase(q, "refused")
          /\ UNCHANGED contacts

Answer(q) == /\ phase[q] = "pending"
             /\ SetPhase(q, "approved") \/ SetPhase(q, "refused")
             /\ UNCHANGED contacts

Contact(q) == /\ phase[q] = "approved" /\ contacts[q] = 0
              /\ contacts' = [contacts EXCEPT ![q] = 1]
              /\ UNCHANGED phase

\* A restart ends every approved request in one step.
Close(Q) == /\ \A q \in Q : phase[q] = "approved"
            /\ phase' = [q \in Requests |-> IF q \in Q THEN "closed" ELSE phase[q]]
            /\ UNCHANGED contacts

Next == \/ \E q \in Requests : Ask(q) \/ Answer(q) \/ Contact(q)
        \/ \E Q \in SUBSET Requests : Close(Q)

Spec == Init /\ [][Next]_gateVars
=============================================================================
