----------------------------- MODULE RateLimits -----------------------------
(***************************************************************************)
(* The durable limiter (rate_limits.py) for one action of a plan.  Every   *)
(* decision is one transaction that first updates, and thereby locks, the  *)
(* action's global bucket, so decisions on one action take effect one      *)
(* after another.  A worker reads the time before it waits for that lock:  *)
(* checked_at may lie up to Lag behind the clock.  Of the decisions on     *)
(* other actions only the cleanup concerns this one.  The three plans use  *)
(* one window length for both of their rules.                              *)
(***************************************************************************)
EXTENDS Integers, FiniteSets, Sequences

CONSTANTS
  Subjects,       \* clients or memberships; "global" is not one of them
  GlobalLimit, SubjectLimit, Window,
  PurgeLimit,     \* DEFAULT_CLEANUP_LIMIT
  Lag,            \* how old checked_at may be when the transaction runs
  MaxTime         \* bound on the clock

LimiterAssumption ==
  /\ IsFiniteSet(Subjects) /\ "global" \notin Subjects
  /\ {GlobalLimit, SubjectLimit, Window} \subseteq Nat \ {0}
  /\ {PurgeLimit, Lag, MaxTime} \subseteq Nat /\ 2 * Lag <= Window

VARIABLES
  bucket,      \* RateLimitBucket rows; attempt_count 0 stands for no row
  clock,
  spent,       \* history: the times at which each key consumed an attempt
  decision     \* the latest decision, with the key that decided it

vars == <<bucket, clock, spent, decision>>

Keys == Subjects \cup {"global"}
Times == 0..MaxTime
NoBucket == [count |-> 0, expires |-> 0]
Rule(k) == IF k = "global" THEN GlobalLimit ELSE SubjectLimit

Expired(b, k, now) == b[k].count > 0 /\ b[k].expires <= now

\* The WHERE clause of the conflict update, or no conflict at all.
Consumable(b, k, now) == b[k].count = 0 \/ Expired(b, k, now) \/ b[k].count < Rule(k)

\* _consume: insert, start a new window, or count within the current one.
Consumed(b, k, now) ==
  [b EXCEPT ![k] = IF @.count = 0 \/ @.expires <= now
                   THEN [count |-> 1, expires |-> now + Window]
                   ELSE [count |-> @.count + 1, expires |-> @.expires]]

RetryAfter(b, k, now) ==
  LET remaining == b[k].expires - now
  IN IF remaining < 1 THEN 1 ELSE IF remaining > Window THEN Window ELSE remaining

\* purge_expired_rate_limit_buckets, which skips rows other workers hold.
Purged(b, S) == [k \in Keys |-> IF k \in S THEN NoBucket ELSE b[k]]

Init ==
  /\ bucket = [k \in Keys |-> NoBucket] /\ clock = 0
  /\ spent = [k \in Keys |-> <<>>]
  /\ decision = [allowed |-> TRUE, key |-> "global", at |-> 0, retry |-> 0]

Allow(s, now) ==
  /\ decision' = [allowed |-> TRUE, key |-> s, at |-> now, retry |-> 0]
  /\ spent' = [spent EXCEPT !["global"] = Append(@, clock), ![s] = Append(@, clock)]

Deny(b, k, now) ==
  /\ decision' = [allowed |-> FALSE, key |-> k, at |-> now, retry |-> RetryAfter(b, k, now)]

\* Mutant: the subject is counted before the global bucket is asked.
EnforceSubjectFirst(s, now) ==
  /\ now \in (clock - Lag)..clock /\ now >= 0
  /\ LET b == IF Consumable(bucket, s, now) THEN Consumed(bucket, s, now) ELSE bucket
     IN IF ~Consumable(bucket, "global", now)
        THEN Deny(bucket, "global", now) /\ bucket' = b /\ UNCHANGED spent
        ELSE /\ bucket' = Consumed(b, "global", now)
             /\ IF Consumable(bucket, s, now) THEN Allow(s, now)
                ELSE Deny(b, s, now) /\ UNCHANGED spent
  /\ UNCHANGED clock

\* enforce_rate_limit: global first; a subject's denial still counts globally.
Enforce(s, now) ==
  /\ now \in (clock - Lag)..clock /\ now >= 0
  /\ IF ~Consumable(bucket, "global", now)
     THEN Deny(bucket, "global", now) /\ UNCHANGED <<bucket, spent>>
     ELSE LET counted == Consumed(bucket, "global", now)
          IN \E S \in SUBSET {k \in Keys : Expired(counted, k, now)} :
               LET b == Purged(counted, S)
               IN /\ Cardinality(S) <= PurgeLimit
                  /\ IF Consumable(b, s, now)
                     THEN bucket' = Consumed(b, s, now) /\ Allow(s, now)
                     ELSE bucket' = b /\ Deny(b, s, now)
                          /\ spent' = [spent EXCEPT !["global"] = Append(@, clock)]
  /\ UNCHANGED clock

\* A decision on another action: its cleanup asks for the expiry alone, and no
\* lock of this action stands in its way.
PurgeElsewhere(now) ==
  /\ now \in (clock - Lag)..clock /\ now >= 0
  /\ \E S \in SUBSET {k \in Keys : Expired(bucket, k, now)} :
       S # {} /\ Cardinality(S) <= PurgeLimit /\ bucket' = Purged(bucket, S)
  /\ UNCHANGED <<clock, spent, decision>>

Tick == clock < MaxTime /\ clock' = clock + 1 /\ UNCHANGED <<bucket, spent, decision>>

\* A database error rolls the transaction back (RateLimitUnavailable): no step.
Next ==
  \/ Tick
  \/ \E now \in Times : PurgeElsewhere(now) \/ \E s \in Subjects : Enforce(s, now)

Spec == Init /\ [][Next]_vars

-----------------------------------------------------------------------------
TypeOK ==
  /\ bucket \in [Keys -> [count : Nat, expires : Nat]]
  /\ clock \in Times
  /\ spent \in [Keys -> Seq(Times)]
  /\ decision \in [allowed : BOOLEAN, key : Keys, at : Times, retry : 0..Window]

\* How many windows' worth of attempts an interval as long as one may see.
Windows == IF Lag = 0 THEN 2 ELSE 3

\* The attempts a key consumed in the window-long interval that begins at t.
During(k, t) == {i \in 1..Len(spent[k]) : t <= spent[k][i] /\ spent[k][i] < t + Window}

(* Fixed windows let a burst straddle a boundary, but no interval as long as *)
(* the window ever sees more than two windows' worth of consumed attempts,   *)
(* three when workers' clocks lag: losing a bucket to the cleanup or to the  *)
(* reset never grants a fresh allowance early.                               *)
WindowBudget ==
  \A k \in Keys, t \in Times : Cardinality(During(k, t)) <= Windows * Rule(k)

(* A globally denied request leaves no row behind, so that the table holds   *)
(* no more live subject rows than the global limit admits: those of as many  *)
(* global windows, in each of which the first row dies with the window.      *)
SubjectRowsBounded ==
  Cardinality({s \in Subjects : bucket[s].count > 0 /\ bucket[s].expires > clock})
    <= Windows * (GlobalLimit - 1) + 1

(* Nobody is turned away for nothing: whoever is denied finds the deciding   *)
(* bucket full and current, and waiting for Retry-After outlasts it unless   *)
(* the worker's clock lagged.                                                *)
DenialJustified ==
  ~decision.allowed =>
    /\ bucket[decision.key].count = Rule(decision.key) \/ bucket[decision.key].expires <= clock
    /\ Lag = 0 /\ bucket[decision.key].expires > clock
         => bucket[decision.key].expires <= decision.at + decision.retry

(* The limiter neither gives allowances away nor takes them for nothing, and *)
(* its table stays small (enforce_rate_limit).                               *)
LimitsHold == WindowBudget /\ SubjectRowsBounded /\ DenialJustified

-----------------------------------------------------------------------------
(* Why it holds.  A row is a key's bucket, past the times at which the key     *)
(* consumed an attempt.                                                       *)

\* The attempts a row counts are the latest, and it expires a window after the
\* first of them, or up to Lag earlier.
Counts(row, past, limit) ==
  LET first == Len(past) - row.count + 1
  IN /\ row.count <= limit /\ row.count <= Len(past)
     /\ row.count > 0 => /\ row.expires <= past[first] + Window
                         /\ row.expires + Lag >= past[first] + Window

\* Attempts are recorded in the order of the clock.
Ordered(past, now) ==
  \A j \in 1..Len(past) : past[j] <= now /\ \A i \in 1..j : past[i] <= past[j]

\* What came a full row before the current one is nearly a window older than it,
\* what came two before it a whole window older than the clock.
Older(row, past, limit, now) ==
  LET before == Len(past) - row.count
  IN \A i \in 1..Len(past) :
       /\ i <= before - limit =>
            past[i] + (Window - Lag) <= IF row.count > 0 THEN past[before + 1] ELSE now
       /\ i <= before - 2 * limit => past[i] + Window <= now

\* Attempts that many windows' worth apart lie a window apart.
Spaced(past, limit) ==
  \A i, j \in 1..Len(past) : j - i >= Windows * limit => past[i] + Window <= past[j]

Sound(row, past, limit, now) ==
  /\ Counts(row, past, limit) /\ Ordered(past, now)
  /\ Older(row, past, limit, now) /\ Spaced(past, limit)

\* When the global window ends, or the earliest a next one could if there is none.
Edge(b, now) ==
  IF b["global"].count > 0 THEN b["global"].expires ELSE now + (Window - Lag)

\* The live subject rows are those begun in the current global window, the first
\* of which lasts no longer than the window, in the one before and, when clocks
\* lag, in the one before that.
RowsBegun(b, now) ==
  LET g == b["global"].count
      edge == Edge(b, now)
  IN \E first, current, previous, older \in SUBSET Subjects :
       /\ Cardinality(first) <= (IF g > 0 THEN 1 ELSE 0)
       /\ Cardinality(current) <= (IF g > 0 THEN g - 1 ELSE 0)
       /\ Cardinality(previous) <= GlobalLimit - 1
       /\ Cardinality(older) <= (IF Lag = 0 THEN 0 ELSE GlobalLimit - 1)
       /\ \A s \in Subjects : b[s].count > 0 =>
            \/ b[s].expires <= now
            \/ s \in first /\ b[s].expires <= edge
            \/ s \in current /\ b[s].expires < edge + Window
            \/ s \in previous /\ b[s].expires < edge + Lag
            \/ s \in older /\ b[s].expires + Window < edge + 2 * Lag

IInv ==
  /\ TypeOK /\ \A k \in Keys : Sound(bucket[k], spent[k], Rule(k), clock)
  /\ RowsBegun(bucket, clock) /\ DenialJustified
=============================================================================
