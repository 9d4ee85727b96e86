----------------------------- MODULE MCDiscovery -----------------------------
(* Small instances of DiscoveryRuns for TLC. *)
EXTENDS DiscoveryRuns, TLC

CONSTANTS r1, r2, r3, d1, a1, a2, a3, m1, b1, h1

Addr(a) == [kind |-> "address", host |-> a, net |-> {a}]
Net(s) == [kind |-> "network", host |-> s, net |-> s]
Host(h) == [kind |-> "hostname", host |-> h, net |-> {}]
Url(h, s) == [kind |-> "url", host |-> h, net |-> s]
Include(t) == [rule |-> "include", target |-> t]
Exclude(t) == [rule |-> "exclude", target |-> t]

\* Ordinary runs on one address, whose include may come and go.
PlainRequests == {[yard |-> d1, target |-> Addr(a1), profile |-> "safe"]}
PlainEntries == {Include(Addr(a1))}
NoAnswers == {{}}

\* Lab and ordinary profiles in one Dockyard.
LabRequests == {[yard |-> d1, target |-> Addr(a1), profile |-> p] : p \in {"safe", "lab"}}

\* Scope: every kind of target under rules that overlap them; h1 may answer
\* with an authorized, an excluded or a hard-denied (m1) address
\* or one that DNS answers may not use (b1).
ScopeRequests ==
  {[yard |-> d1, target |-> t, profile |-> "safe"] :
     t \in {Net({a1, a2, a3}), Host(h1), Addr(a2)}}
  \cup {[yard |-> d1, target |-> Url(h1, {}), profile |-> "http"],
        [yard |-> d1, target |-> Host(h1), profile |-> "lab"],
        [yard |-> d1, target |-> Net({a1, a2, a3}), profile |-> "lab"]}
ScopeEntries ==
  {Include(Net({a1, a2, a3})), Include(Host(h1)),
   Exclude(Net({a2, a3})), Exclude(Addr(a2)), Exclude(Url(a1, {a1}))}
ScopeAnswers == {{}, {a1}, {a2}, {a1, a3}, {a1, m1}, {a1, b1}}
Metadata == {m1}
MetadataHosts == {}
Mapped == {b1}

\* Runs of both profiles that compete, with a crash; or one run, whatever its
\* target, under every scope, while that scope changes.
MixedRequests == LabRequests \cup ScopeRequests
MixedEntries == PlainEntries \cup ScopeEntries
Focus ==
  \/ (\A r \in Runs : request[r] \in LabRequests) /\ scope[d1] \subseteq PlainEntries
  \/ /\ crashes = 0 /\ scope[d1] \subseteq ScopeEntries
     /\ \A r, s \in Runs :
          /\ request[r] \in ScopeRequests /\ request[r] = request[s]
          /\ pc[r] # "idle" /\ pc[s] # "idle" => r = s

Symmetric == Permutations(Runs)
=============================================================================
