----------------------------- MODULE Detection -----------------------------
(* Detection and the HTTP checks on one origin.  They share no state: where  *)
(* part says so the one moves, and the other stays in its initial state.     *)
EXTENDS Findings

CONSTANTS Parts, StatusCodes, Policies, MaxHeaderLength, Unreachable

VARIABLES part, scheme, origin, open

httpVars == <<scheme, origin, open>>
allVars == <<part, vars, httpVars>>

Http == INSTANCE HttpChecks WITH findings <- open

ASSUME HttpConstants == Http!HttpAssumption

DetectionInit == /\ part \in Parts /\ Init /\ Http!Init
                 /\ part # "http" => scheme = "https"

DetectionNext == \/ part = "detection" /\ Next /\ UNCHANGED <<part, httpVars>>
                 \/ part = "http" /\ Http!Next /\ UNCHANGED <<part, vars>>

DetectionSpec == DetectionInit /\ [][DetectionNext]_allVars

\* A finding opens and resolves on what the origin really answered, as a browser
\* takes it but for the answers listed as overrated and underrated, and a
\* validation of the same record agrees.
JudgedOnEvidence == [][part = "http" => Http!JudgesFairly]_allVars
=============================================================================
