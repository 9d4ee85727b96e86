----------------------------- MODULE MCIdentity -----------------------------
(* The identity components for TLC.  x1 and x2 are two session families, two *)
(* login attempts and their browsers and two operator tokens; s1, s2 and s3  *)
(* are members, clients, keys and users.                                     *)
EXTENDS Identity, TLC

CONSTANTS x1, x2, s1, s2, s3

\* Two session requests overlap while a family lives; past the deadline of the first
\* family, one at a time.
Focus == sessionClock = SessionTime => \E t \in Threads : sessionPc[t] = "idle"

Symmetry == Permutations({x1, x2}) \cup Permutations(Threads)
=============================================================================
