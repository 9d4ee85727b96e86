---------------------------- MODULE ProviderKeys ----------------------------
(***************************************************************************)
(* The identity provider's signing keys as OidcProvider caches them        *)
(* (oidc.py).  _cache_lock is held across the request to the provider, and *)
(* time passes and the provider rotates its keys meanwhile.  A thread that *)
(* validates an ID token asks the cache, and once more with refresh when   *)
(* the key is not among the cached ones.                                   *)
(***************************************************************************)
EXTENDS Integers, FiniteSets

CONSTANTS
  Keys,              \* key identifiers; the provider signs with published ones
  Threads,
  CacheLifetime,     \* JWKS_CACHE_LIFETIME
  Backoff,           \* JWKS_REFRESH_BACKOFF
  MaxTime,           \* bound on the clock
  Nobody             \* _cache_lock is free

KeyAssumption ==
  /\ IsFiniteSet(Keys) /\ Nobody \notin Threads
  /\ {CacheLifetime, Backoff} \subseteq Nat \ {0} /\ MaxTime \in Nat

VARIABLES
  published,     \* what the provider's JWKS endpoint serves
  withdrawn,     \* history: since when a key is not served, Null while it is
  discovered,    \* _metadata is cached
  jwks, loadedAt, lastRefresh,
  lock, clock,
  pc, wanted, checked, retried,   \* each validation: position, kid, checked_at, second load
  fetches,       \* history: the times of the two latest fetches
  accepted       \* history: the latest accepted key and the time of its check

cache == <<discovered, jwks, loadedAt, lastRefresh>>
thread == <<pc, wanted, checked, retried>>
vars == <<published, withdrawn, cache, lock, clock, thread, fetches, accepted>>

Null == -1
Times == 0..MaxTime

Init ==
  /\ published \in (SUBSET Keys) \ {{}}
  /\ withdrawn = [k \in Keys |-> IF k \in published THEN Null ELSE 0]
  /\ discovered = FALSE /\ jwks = {} /\ loadedAt = Null /\ lastRefresh = Null
  /\ lock = Nobody /\ clock = 0
  /\ pc = [p \in Threads |-> "idle"] /\ wanted = [p \in Threads |-> CHOOSE k \in Keys : TRUE]
  /\ checked = [p \in Threads |-> 0] /\ retried = [p \in Threads |-> FALSE]
  /\ fetches = <<Null, Null>>
  /\ accepted = [key |-> CHOOSE k \in Keys : TRUE, at |-> Null]

\* An ID token signed with k, whether or not the provider serves k any more.
Validate(p, k) ==
  /\ pc[p] = "idle"
  /\ pc' = [pc EXCEPT ![p] = "selecting"] /\ wanted' = [wanted EXCEPT ![p] = k]
  /\ retried' = [retried EXCEPT ![p] = FALSE]
  /\ UNCHANGED <<published, withdrawn, cache, lock, clock, checked, fetches, accepted>>

Refuse(p) == pc' = [pc EXCEPT ![p] = "idle"]

Accept(p, k, now) ==
  /\ pc' = [pc EXCEPT ![p] = "idle"]
  /\ accepted' = [key |-> k, at |-> now]

Fresh == jwks # {} /\ loadedAt # Null /\ clock - loadedAt < CacheLifetime

Limited == lastRefresh # Null /\ clock - lastRefresh < Backoff

\* The refresh time is advanced before the request is made.
StartFetch(p) ==
  /\ lock' = p /\ pc' = [pc EXCEPT ![p] = "fetching"]
  /\ checked' = [checked EXCEPT ![p] = clock]
  /\ lastRefresh' = clock /\ fetches' = <<fetches[2], clock>>
  /\ UNCHANGED <<discovered, jwks, loadedAt, wanted, retried, accepted>>

\* _load_jwks up to the request: a usable cache, a refused refresh, or a fetch.
Load(p) ==
  /\ pc[p] = "selecting" /\ lock = Nobody
  /\ \/ /\ Fresh /\ ~retried[p]
        /\ IF wanted[p] \in jwks
           THEN Accept(p, wanted[p], clock) /\ UNCHANGED <<retried, wanted>>
           ELSE retried' = [retried EXCEPT ![p] = TRUE] /\ UNCHANGED <<pc, wanted, accepted>>
        /\ UNCHANGED <<lock, checked, cache, fetches>>
     \/ /\ ~(Fresh /\ ~retried[p]) /\ Limited
        /\ Refuse(p) /\ UNCHANGED <<retried, wanted, accepted, lock, checked, cache, fetches>>
     \/ /\ ~(Fresh /\ ~retried[p]) /\ ~Limited
        /\ StartFetch(p)
  /\ UNCHANGED <<published, withdrawn, clock>>

\* Mutant: a failed fetch drops the lock but keeps the keys as freshly loaded.
FetchFailsQuietly(p) ==
  /\ pc[p] = "fetching" /\ lock' = Nobody /\ Refuse(p)
  /\ loadedAt' = IF jwks = {} THEN loadedAt ELSE clock
  /\ UNCHANGED <<published, withdrawn, discovered, jwks, lastRefresh, clock, wanted, checked,
                 retried, fetches, accepted>>

\* Discovery or the key request fails, or the document is malformed.
FetchFails(p) ==
  /\ pc[p] = "fetching" /\ lock' = Nobody /\ Refuse(p)
  /\ UNCHANGED <<published, withdrawn, cache, clock, wanted, checked, retried, fetches, accepted>>

LoadTime(p) == checked[p]

\* The response holds the keys served now; the cache's age starts at the check.
FetchSucceeds(p) ==
  /\ pc[p] = "fetching" /\ lock' = Nobody
  /\ discovered' = TRUE /\ jwks' = published /\ loadedAt' = LoadTime(p)
  /\ IF wanted[p] \in published THEN Accept(p, wanted[p], checked[p]) /\ UNCHANGED retried
     ELSE IF retried[p] THEN Refuse(p) /\ UNCHANGED <<retried, accepted>>
     ELSE /\ pc' = [pc EXCEPT ![p] = "selecting"]
          /\ retried' = [retried EXCEPT ![p] = TRUE] /\ UNCHANGED accepted
  /\ UNCHANGED <<published, withdrawn, lastRefresh, clock, wanted, checked, fetches>>

\* The provider adds or withdraws keys (external); it always serves at least one.
RotateKeys(S) ==
  /\ S # published /\ S # {}
  /\ published' = S
  /\ withdrawn' = [k \in Keys |-> IF k \in S THEN Null
                                  ELSE IF k \in published THEN clock ELSE withdrawn[k]]
  /\ UNCHANGED <<cache, lock, clock, thread, fetches, accepted>>

Tick ==
  /\ clock < MaxTime /\ clock' = clock + 1
  /\ UNCHANGED <<published, withdrawn, cache, lock, thread, fetches, accepted>>

Next ==
  \/ \E p \in Threads :
       \/ \E k \in Keys : Validate(p, k)
       \/ Load(p) \/ FetchSucceeds(p) \/ FetchFails(p)
  \/ \E S \in SUBSET Keys : RotateKeys(S)
  \/ Tick

Spec == Init /\ [][Next]_vars

-----------------------------------------------------------------------------
TypeOK ==
  /\ published \subseteq Keys /\ withdrawn \in [Keys -> Times \cup {Null}]
  /\ discovered \in BOOLEAN /\ jwks \subseteq Keys
  /\ {loadedAt, lastRefresh} \subseteq Times \cup {Null}
  /\ lock \in Threads \cup {Nobody} /\ clock \in Times
  /\ pc \in [Threads -> {"idle", "selecting", "fetching"}] /\ wanted \in [Threads -> Keys]
  /\ checked \in [Threads -> Times] /\ retried \in [Threads -> BOOLEAN]
  /\ accepted \in [key : Keys, at : Times \cup {Null}]

(* A key the provider has withdrawn is not trusted for longer than the       *)
(* cache's lifetime, slow and failed fetches included (_load_jwks).          *)
WithdrawnKeyForgotten ==
  LET k == accepted.key
  IN accepted.at = Null \/ withdrawn[k] = Null \/ accepted.at < withdrawn[k] + CacheLifetime

(* However many threads meet unknown keys, and whether or not the provider   *)
(* answers, two fetches are at least the backoff apart.                      *)
FetchesThrottled == fetches[1] # Null => fetches[2] - fetches[1] >= Backoff

(* The lock's holder is the one thread that is fetching, so that no error    *)
(* path leaves the cache locked.                                             *)
FetchingHoldsLock == \A p \in Threads : (pc[p] = "fetching") = (lock = p)

(* Withdrawn keys are forgotten in time without more requests to the         *)
(* provider than the backoff allows, whatever fails meanwhile.               *)
KeysForgotten == WithdrawnKeyForgotten /\ FetchesThrottled /\ FetchingHoldsLock

-----------------------------------------------------------------------------
(* The inductive invariant *)

\* A key is withdrawn while it is not served; one in the cache was still served
\* when the cache's age began; and what happened did not happen later than now.
CacheWasServed ==
  /\ \A k \in Keys : withdrawn[k] = Null <=> k \in published
  /\ loadedAt # Null => \A k \in jwks : withdrawn[k] # Null => loadedAt <= withdrawn[k]
TimesPassed ==
  /\ {loadedAt, lastRefresh, accepted.at} \subseteq Null..clock
  /\ \A p \in Threads : checked[p] <= clock

IInv ==
  /\ TypeOK /\ CacheWasServed /\ TimesPassed /\ KeysForgotten
  /\ fetches \in (Times \cup {Null}) \X (Times \cup {Null}) /\ fetches[2] = lastRefresh
=============================================================================
