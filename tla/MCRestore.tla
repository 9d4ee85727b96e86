------------------------------ MODULE MCRestore ------------------------------
(* Small instances of the data directory for TLC. *)
EXTENDS DataDirectory

CONSTANTS v1, v2

\* The archives hold earlier states of the same volume: the older database
\* finds what it refers to in the newer evidence too.
OldVersion == {v1}
BareVersion == {v2}
BothWays == {<<v2, v1>>, <<v1, v2>>}
=============================================================================
