----------------------------- MODULE HttpChecks -----------------------------
(***************************************************************************)
(* The HTTP checks on one origin: what the probe records of a response     *)
(* (discovery/http_probe.py), what the header detector concludes from the  *)
(* record (detection/detectors/http_headers.py), how findings open and     *)
(* resolve on it, and how a validation judges the same kind of record      *)
(* (validation/runner.py).                                                 *)
(*                                                                         *)
(* A policy is a sequence of directives.  The probe keeps 255 characters   *)
(* of a header value: of a longer policy the directives that begin before  *)
(* the cut, MaxHeaderLength of them, the last of which it may shorten.     *)
(***************************************************************************)
EXTENDS Naturals, Sequences

CONSTANTS
  StatusCodes,       \* the answers tried
  Policies,          \* the policies tried; <<>> is no Content-Security-Policy header
  MaxHeaderLength,   \* _MAX_HEADER_LENGTH, in the directives that begin within it
  Unreachable        \* the origin does not answer

VARIABLES
  scheme,     \* the scheme of the origin
  origin,     \* how the origin answers now
  findings    \* rules with an open finding

vars == <<scheme, origin, findings>>

-----------------------------------------------------------------------------
_CONTENT_RULES == {"content-type-options-not-nosniff", "content-security-policy-not-set",
                   "frame-protection-not-set"}
_ALL_RULES == _CONTENT_RULES \cup {"plaintext-http", "hsts-not-set"}
\* A frame-ancestors directive with a restrictive list, a bare wildcard, a
\* wildcard among other sources or no source, or another directive.
Directives == {"ancestors self", "ancestors *", "ancestors * self", "ancestors", "other"}
\* What an answer says.  Other than https, nosniff and deny covers no header at all,
\* and a Strict-Transport-Security of max-age zero takes the protection back.
Answers ==
  [status : StatusCodes, location : {"https", "other"}, hsts : {"none", "kept", "zero"},
   options : {"nosniff", "other"}, frame : {"deny", "other"}, policy : Policies]

\* What every instance assumes of its constants.
HttpAssumption ==
  /\ StatusCodes \subseteq 200..599 /\ Policies \subseteq Seq(Directives)
  /\ MaxHeaderLength \in Nat \ {0}

\* What a cut may leave of a directive: fewer sources, none (or a longer name cut
\* to frame-ancestors), or no frame-ancestors at all.
Shortened(directive) ==
  CASE directive \in {"ancestors self", "ancestors * self"} -> Directives
    [] directive = "ancestors *" -> {"ancestors *", "ancestors", "other"}
    [] OTHER -> {"ancestors", "other"}

Cut(policy) ==
  IF Len(policy) <= MaxHeaderLength THEN {policy}
  ELSE {[k \in 1..MaxHeaderLength |-> IF k = MaxHeaderLength THEN last ELSE policy[k]] :
          last \in Shortened(policy[MaxHeaderLength])}

\* _request and normalize: one response, its selected headers cut to length.
Recorded(answer) == {[answer EXCEPT !.policy = policy] : policy \in Cut(answer.policy)}

\* Mutant: any frame-ancestors directive that restricts counts.
FramingRestrictedAnywhere(frame, policy) ==
  frame = "deny" \/ \E k \in DOMAIN policy : policy[k] \in {"ancestors self", "ancestors * self"}

\* X-Frame-Options, or the first frame-ancestors directive of the policy if its
\* source list is neither empty nor a bare wildcard.
framing_restricted(frame, policy) ==
  LET ancestors == {k \in DOMAIN policy : policy[k] # "other"}
  IN frame = "deny" \/ \E k \in ancestors : /\ policy[k] \in {"ancestors self", "ancestors * self"}
                                           /\ \A j \in ancestors : k <= j

_is_content_response(status) == status < 300 \/ (400 <= status /\ status < 500)

RedirectsToHttps(r) == 300 <= r.status /\ r.status < 400 /\ r.location = "https"

-----------------------------------------------------------------------------
(* The detector, for a record whose examined set is the probe's *)

TransportRules(r) ==
  IF scheme = "http" THEN (IF RedirectsToHttps(r) THEN {} ELSE {"plaintext-http"})
  ELSE IF r.hsts # "none" THEN {} ELSE {"hsts-not-set"}

Missing(r, rule) ==
  CASE rule = "content-type-options-not-nosniff" -> r.options # "nosniff"
    [] rule = "content-security-policy-not-set" -> r.policy = <<>>
    [] rule = "frame-protection-not-set" -> ~framing_restricted(r.frame, r.policy)

_for_response(r) ==
  TransportRules(r) \cup
    {rule \in _CONTENT_RULES : _is_content_response(r.status) /\ Missing(r, rule)}

unevaluated(r) == IF _is_content_response(r.status) THEN {} ELSE _CONTENT_RULES

-----------------------------------------------------------------------------
(* The validation's own judgement of a probe *)

_judge(rule, r) ==
  CASE rule = "plaintext-http" -> IF RedirectsToHttps(r) THEN "not_reproduced" ELSE "confirmed"
    [] rule \in _CONTENT_RULES /\ ~_is_content_response(r.status) -> "indeterminate"
    [] rule = "hsts-not-set" -> IF r.hsts # "none" THEN "not_reproduced" ELSE "confirmed"
    [] OTHER -> IF Missing(r, rule) THEN "confirmed" ELSE "not_reproduced"

-----------------------------------------------------------------------------
Init ==
  /\ scheme \in {"http", "https"}
  /\ origin = Unreachable
  /\ findings = {}

\* The origin is changed by its owner; between two answers it gives none.
Answering(answer) ==
  origin = Unreachable /\ origin' = answer /\ UNCHANGED <<scheme, findings>>
Silent == origin' = Unreachable /\ UNCHANGED <<scheme, findings>>

\* Discovery records a response and detection reasons over the newest one:
\* reproduced rules open, evaluated ones that were not reproduced resolve.
Assess ==
  /\ origin # Unreachable
  /\ \E r \in Recorded(origin) :
       findings' = _for_response(r) \cup (findings \cap unevaluated(r))
  /\ UNCHANGED <<scheme, origin>>

Next == Assess \/ Silent \/ \E answer \in Answers : Answering(answer)

Spec == Init /\ [][Next]_vars

-----------------------------------------------------------------------------
\* The state's shape.
TypeOK == /\ origin \in Answers \cup {Unreachable} /\ scheme \in {"http", "https"}
          /\ findings \in SUBSET _ALL_RULES

\* What a browser makes of the frame-ancestors of a policy: the sources of the
\* first such directive, "none" where there is none.
Ancestors(policy) ==
  IF \A k \in DOMAIN policy : policy[k] = "other" THEN "none"
  ELSE policy[CHOOSE k \in DOMAIN policy :
                policy[k] # "other" /\ \A j \in 1..(k - 1) : policy[j] = "other"]

\* Whether a browser is protected by the answer the origin really gave.  A
\* frame-ancestors directive overrides X-Frame-Options, an empty one allows
\* nobody, and an HSTS lifetime of zero is none.
Protected(rule, answer) ==
  CASE rule = "plaintext-http" -> RedirectsToHttps(answer)
    [] rule = "hsts-not-set" -> answer.hsts = "kept"
    [] rule = "content-type-options-not-nosniff" -> answer.options = "nosniff"
    [] rule = "content-security-policy-not-set" -> answer.policy # <<>>
    [] rule = "frame-protection-not-set" ->
         IF Ancestors(answer.policy) = "none" THEN answer.frame = "deny"
         ELSE Ancestors(answer.policy) \in {"ancestors self", "ancestors"}

\* The answers the detector takes for protected and a browser does not.
Overrated(rule, answer) ==
  \/ rule = "hsts-not-set" /\ answer.hsts = "zero"
  \/ /\ rule = "frame-protection-not-set"
     /\ \/ Ancestors(answer.policy) = "ancestors * self"
        \/ Ancestors(answer.policy) = "ancestors *" /\ answer.frame = "deny"

\* The answers it takes for unprotected and a browser does not: an empty
\* frame-ancestors list, and the policy cut before the end of the directive.
Underrated(rule, answer) ==
  /\ rule = "frame-protection-not-set" /\ answer.frame # "deny"
  /\ \/ Ancestors(answer.policy) = "ancestors"
     \/ /\ Len(answer.policy) > MaxHeaderLength
        /\ \A k \in 1..(MaxHeaderLength - 1) : answer.policy[k] = "other"

\* "A 5xx or redirect ... is not evidence that a missing header was added": a
\* finding is resolved only by a response that protects a browser, but for the
\* answers that are overrated, and by a content response where the rule is
\* about content.
ResolvesOnEvidence ==
  \A rule \in findings \ findings' :
    /\ Protected(rule, origin) \/ Overrated(rule, origin)
    /\ rule \in _CONTENT_RULES => origin.status \notin 300..399 \cup 500..599

\* A finding is opened only for an answer that does not protect a browser, but
\* for the ones that are underrated; the plaintext and the HSTS rule each for
\* its own scheme, and a content rule never by a redirect or a server error.
OpensOnAbsence ==
  \A rule \in findings' \ findings :
    /\ ~Protected(rule, origin) \/ Underrated(rule, origin)
    /\ rule \in _CONTENT_RULES => origin.status \notin 300..399 \cup 500..599
    /\ rule = "plaintext-http" => scheme = "http"
    /\ rule = "hsts-not-set" => scheme = "https"

\* Detection and validation never contradict each other about a rule of the
\* origin's scheme on the same record.
RulesOfScheme == _CONTENT_RULES \cup {IF scheme = "http" THEN "plaintext-http" ELSE "hsts-not-set"}
JudgesAgree ==
  origin # Unreachable =>
    \A r \in Recorded(origin), rule \in RulesOfScheme :
      /\ _judge(rule, r) = "confirmed" <=> rule \in _for_response(r)
      /\ _judge(rule, r) = "indeterminate" <=> rule \in unevaluated(r)

\* A finding opens and resolves on what the origin really answered, as a
\* browser takes it but for the answers listed as overrated and underrated, and
\* a validation of the same answer agrees.
JudgesFairly == ResolvesOnEvidence /\ OpensOnAbsence /\ JudgesAgree
JudgedOnEvidence == [][JudgesFairly]_vars

\* Why it holds: a finding is of the origin's scheme.
IInv == TypeOK /\ findings \subseteq RulesOfScheme
=============================================================================
