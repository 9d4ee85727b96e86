------------------------------ MODULE DockGuard ------------------------------
(***************************************************************************)
(* DockGuard, the scope decision of backend/app/dockguard.py, as pure      *)
(* operators.  Addresses and networks of either family are sets of         *)
(* addresses (an IPv4 network and an IPv6 network are disjoint sets, so    *)
(* the code's version tests need no counterpart); subnet_of is \subseteq   *)
(* and overlaps is a non-empty intersection.                               *)
(***************************************************************************)
CONSTANTS
  HardAddrs,   \* the addresses of _HARD_DENY_NETWORKS
  HardHosts,   \* _HARD_DENY_HOSTNAMES
  BadAddrs     \* DNS answers that do not parse or are IPv4-mapped IPv6

Kinds == {"invalid", "address", "network", "hostname", "url"}

Decisions == {"allowed", "denied_policy", "denied_out_of_scope",
              "denied_excluded", "invalid_target", "unresolved"}

(***************************************************************************)
(* A normalized target is [kind, host, net]: net is the address set of     *)
(* Target.network(), empty for a hostname and for a URL with a host name.  *)
(* A scope rule is [rule, target] with rule "include" or "exclude".        *)
(***************************************************************************)
IsNamed(t) == t.kind \in {"hostname", "url"} /\ t.net = {}
IsNetwork(t) == t.kind = "network"

\* What normalize_target returns: one address, a whole network, or a name.
WellFormed(t) ==
  /\ t.kind \in Kinds
  /\ t.kind = "network" => t.net # {}
  /\ t.kind \in {"invalid", "hostname"} => t.net = {}
  /\ t.kind = "address" => \E a \in t.net : t.net = {a}
  /\ t.kind = "url" => t.net = {} \/ \E a \in t.net : t.net = {a}

Includes(rules) == {r \in rules : r.rule = "include"}
Excludes(rules) == {r \in rules : r.rule = "exclude"}

\* Names and address space are separate universes; a URL rule covers itself only.
Matches(t, rule) ==
  IF rule.kind = "url"
  THEN t.kind = "url" /\ t = rule
  ELSE IF t.net # {} \/ rule.net # {}
       THEN t.net # {} /\ rule.net # {} /\ t.net \subseteq rule.net
       ELSE t.host = rule.host

FirstMatch(t, rules) == \E r \in rules : Matches(t, r.target)

HardPolicy(t) ==
  \/ IsNamed(t) /\ t.host \in HardHosts
  \/ t.net \cap HardAddrs # {}

\* The excluded values that cut a hole in a requested network, and the hole.
OverlappingExclusions(t, rules) ==
  {r.target : r \in {x \in Excludes(rules) : x.target.net \cap t.net # {}}}

Hole(values) == UNION {v.net : v \in values}

FullyExcluded(t, overlapping) == t.net \subseteq Hole(overlapping)

ExcludedAddress(a, rules) == \E r \in Excludes(rules) : a \in r.target.net

Evaluation(decision, resolved, excluded) ==
  [decision |-> decision, resolved |-> resolved, excluded |-> excluded]

Refused(decision) == Evaluation(decision, {}, {})

\* answer is what the resolver returned; {} stands for a failed or empty lookup.
EvaluateNamed(t, rules, answer) ==
  IF answer = {} THEN Refused("unresolved")
  ELSE IF answer \cap (BadAddrs \cup HardAddrs) # {}
  THEN Evaluation("denied_policy", answer, {})
  ELSE IF \E a \in answer : ExcludedAddress(a, rules)
  THEN Evaluation("denied_excluded", answer, {})
  ELSE Evaluation("allowed", answer, {})

EvaluateNetwork(t, rules) ==
  LET overlapping == OverlappingExclusions(t, rules)
  IN  IF FullyExcluded(t, overlapping)
      THEN Refused("denied_excluded")
      ELSE Evaluation("allowed", {}, overlapping)

Evaluate(t, rules, answer) ==
  IF t.kind = "invalid" THEN Refused("invalid_target")
  ELSE IF HardPolicy(t) THEN Refused("denied_policy")
  ELSE IF Includes(rules) = {} THEN Refused("denied_out_of_scope")
  ELSE IF FirstMatch(t, Excludes(rules)) THEN Refused("denied_excluded")
  ELSE IF ~FirstMatch(t, Includes(rules)) THEN Refused("denied_out_of_scope")
  ELSE IF IsNetwork(t) THEN EvaluateNetwork(t, rules)
  ELSE IF IsNamed(t) THEN EvaluateNamed(t, rules, answer)
  ELSE Evaluation("allowed", {}, {})

Allowed(e) == e.decision = "allowed"

\* The addresses an adapter may contact under an evaluation: the resolved ones
\* of a name, otherwise the target's own without the excluded networks.
Reach(t, e) == IF IsNamed(t) THEN e.resolved ELSE t.net \ Hole(e.excluded)

\* normalize_scope_value refuses hard-denied and too broad entries.
AcceptableScopeValue(t, broad) == t.kind # "invalid" /\ ~HardPolicy(t) /\ t \notin broad
=============================================================================
