--------------------------- MODULE DockGuardProofs ---------------------------
(* What an allowed decision of DockGuard means, for every rule set. *)
EXTENDS DockGuard, TLAPS

\* The facts an allowed decision carries, whatever the kind of the target.
LEMMA AllowedFacts ==
  ASSUME NEW t, NEW rules, NEW answer, Allowed(Evaluate(t, rules, answer))
  PROVE  /\ t.kind # "invalid" /\ ~HardPolicy(t)
         /\ ~FirstMatch(t, Excludes(rules)) /\ FirstMatch(t, Includes(rules))
         /\ IsNetwork(t) => Evaluate(t, rules, answer) = EvaluateNetwork(t, rules)
         /\ ~IsNetwork(t) /\ IsNamed(t) =>
              Evaluate(t, rules, answer) = EvaluateNamed(t, rules, answer)
         /\ ~IsNetwork(t) /\ ~IsNamed(t) =>
              Evaluate(t, rules, answer) = Evaluation("allowed", {}, {})
  BY DEF Allowed, Evaluate, Refused, Evaluation

\* A name is allowed only with an answer none of whose addresses is refused.
LEMMA AllowedNamed ==
  ASSUME NEW t, NEW rules, NEW answer, Allowed(EvaluateNamed(t, rules, answer))
  PROVE  /\ EvaluateNamed(t, rules, answer) = Evaluation("allowed", answer, {})
         /\ answer # {} /\ answer \cap (BadAddrs \cup HardAddrs) = {}
         /\ \A a \in answer : ~ExcludedAddress(a, rules)
  BY DEF Allowed, EvaluateNamed, Refused, Evaluation

\* A network is allowed only if the holes its exclusions cut leave something.
LEMMA AllowedNetwork ==
  ASSUME NEW t, NEW rules, Allowed(EvaluateNetwork(t, rules))
  PROVE  /\ EvaluateNetwork(t, rules) =
              Evaluation("allowed", {}, OverlappingExclusions(t, rules))
         /\ ~FullyExcluded(t, OverlappingExclusions(t, rules))
  BY DEF Allowed, EvaluateNetwork, Refused, Evaluation

\* An allowed decision of evaluate() gives the adapter at least one address
\* to contact and no address of the non-overridable deny list.
THEOREM AllowedReach ==
  ASSUME NEW t, NEW rules, NEW answer, WellFormed(t),
         Allowed(Evaluate(t, rules, answer))
  PROVE  LET reach == Reach(t, Evaluate(t, rules, answer))
         IN  reach # {} /\ reach \cap HardAddrs = {}
<1>1. CASE IsNetwork(t)
  <2>1. Evaluate(t, rules, answer) = Evaluation("allowed", {}, OverlappingExclusions(t, rules))
    BY <1>1, AllowedFacts, AllowedNetwork
  <2>2. ~IsNamed(t) BY <1>1 DEF IsNetwork, IsNamed
  <2>3. Reach(t, Evaluate(t, rules, answer)) = t.net \ Hole(OverlappingExclusions(t, rules))
    BY <2>1, <2>2 DEF Reach, Evaluation
  <2>4. ~FullyExcluded(t, OverlappingExclusions(t, rules))
    BY <1>1, AllowedFacts, AllowedNetwork
  <2>5. t.net \cap HardAddrs = {} BY AllowedFacts DEF HardPolicy
  <2> QED BY <2>3, <2>4, <2>5 DEF FullyExcluded
<1>2. CASE ~IsNetwork(t) /\ IsNamed(t)
  <2>1. Evaluate(t, rules, answer) = Evaluation("allowed", answer, {})
        /\ answer # {} /\ answer \cap (BadAddrs \cup HardAddrs) = {}
    BY <1>2, AllowedFacts, AllowedNamed
  <2>2. Reach(t, Evaluate(t, rules, answer)) = answer
    BY <1>2, <2>1 DEF Reach, Evaluation
  <2> QED BY <2>1, <2>2
<1>3. CASE ~IsNetwork(t) /\ ~IsNamed(t)
  <2>1. Evaluate(t, rules, answer) = Evaluation("allowed", {}, {})
    BY <1>3, AllowedFacts
  <2>2. Hole({}) = {} BY DEF Hole
  <2>3. Reach(t, Evaluate(t, rules, answer)) = t.net
    BY <1>3, <2>1, <2>2 DEF Reach, Evaluation
  <2>4. t.net # {}
    BY <1>3, AllowedFacts DEF WellFormed, Kinds, IsNetwork, IsNamed
  <2>5. t.net \cap HardAddrs = {} BY AllowedFacts DEF HardPolicy
  <2> QED BY <2>3, <2>4, <2>5
<1> QED BY <1>1, <1>2, <1>3

\* The publication test of _perform: an evaluation e made earlier, re-checked
\* with its own addresses against other rules, reaches nothing that those
\* rules exclude.
THEOREM RecheckSound ==
  ASSUME NEW t, NEW rules, NEW e, WellFormed(t),
         Allowed(Evaluate(t, rules, e.resolved)),
         Evaluate(t, rules, e.resolved).excluded \subseteq e.excluded,
         NEW x \in Excludes(rules), x.target.kind # "url"
  PROVE  Reach(t, e) \cap x.target.net = {}
<1> DEFINE now == Evaluate(t, rules, e.resolved)
<1>1. CASE IsNetwork(t)
  <2>1. now.excluded = OverlappingExclusions(t, rules)
    BY <1>1, AllowedFacts, AllowedNetwork DEF Evaluation
  <2>2. ~IsNamed(t) BY <1>1 DEF IsNetwork, IsNamed
  <2>3. Reach(t, e) = t.net \ Hole(e.excluded) BY <2>2 DEF Reach
  <2>4. CASE x.target.net \cap t.net = {} BY <2>3, <2>4
  <2>5. CASE x.target.net \cap t.net # {}
    <3>1. x.target \in now.excluded BY <2>1, <2>5 DEF OverlappingExclusions
    <3>2. x.target.net \subseteq Hole(e.excluded) BY <3>1 DEF Hole
    <3> QED BY <2>3, <3>2
  <2> QED BY <2>4, <2>5
<1>2. CASE ~IsNetwork(t) /\ IsNamed(t)
  <2>1. \A a \in e.resolved : ~ExcludedAddress(a, rules)
    BY <1>2, AllowedFacts, AllowedNamed
  <2>2. Reach(t, e) = e.resolved BY <1>2 DEF Reach
  <2> QED BY <2>1, <2>2 DEF ExcludedAddress
<1>3. CASE ~IsNetwork(t) /\ ~IsNamed(t)
  <2>1. PICK a : t.net = {a}
    BY <1>3, AllowedFacts DEF WellFormed, Kinds, IsNetwork, IsNamed
  <2>2. ~Matches(t, x.target) BY AllowedFacts DEF FirstMatch
  <2>3. x.target.net = {} \/ ~(t.net \subseteq x.target.net)
    BY <2>1, <2>2 DEF Matches
  <2>4. a \notin x.target.net BY <2>1, <2>3
  <2>5. Reach(t, e) \subseteq t.net BY <1>3 DEF Reach
  <2> QED BY <2>1, <2>4, <2>5
<1> QED BY <1>1, <1>2, <1>3
=============================================================================
