--------------------------- MODULE BrowserSessions ---------------------------
(***************************************************************************)
(* Server-side browser sessions (session_auth.py) as the authentication    *)
(* runtime uses them (authentication.py).  A login opens a family of       *)
(* tokens; a renewal replaces the current generation by the next one; a    *)
(* logout or an access change revokes the whole family.  A request reads   *)
(* the time before it waits for the database: at[p] is that time, and the  *)
(* clock may move on before the transaction runs.  Transactions that lock  *)
(* the membership row are one step; resolving a session takes no lock and  *)
(* is a step per statement.                                                *)
(***************************************************************************)
EXTENDS Integers, FiniteSets

CONSTANTS
  Families,          \* random family identifiers, never drawn twice
  Members,           \* memberships
  Threads,           \* concurrent requests
  MaxGeneration,     \* MAX_SESSION_GENERATION
  MaxActive,         \* MAX_ACTIVE_SESSIONS_PER_MEMBERSHIP
  Lifetime, Idle, TouchInterval, RotationInterval,
  PurgeLimit,        \* the batch of purge_inactive_browser_sessions
  MaxTime            \* bound on the clock

SessionAssumption ==
  /\ IsFiniteSet(Families) /\ IsFiniteSet(Members) /\ Members # {}
  /\ {MaxActive, Lifetime, Idle, TouchInterval, RotationInterval} \subseteq Nat \ {0}
  /\ {MaxGeneration, PurgeLimit, MaxTime} \subseteq Nat

VARIABLES
  stored,     \* tokens with a BrowserSession row
  row,        \* the row of each token
  used,       \* families drawn so far
  enabled,    \* membership and user are active and match the configured team
  clock,
  pc, op, who, tok, at,  \* each request: position, operation, member or token, timestamp
  verdict     \* "granted" if the last step granted a request

rows == <<stored, row, used>>
requests == <<pc, op, who, tok, at>>
vars == <<stored, row, used, enabled, clock, pc, op, who, tok, at, verdict>>

Generations == 0..MaxGeneration
Tokens == Families \X Generations
Family(t) == t[1]
Generation(t) == t[2]
Times == 0..MaxTime

\* BrowserSession: created_at equals token_issued_at in every row.  Replacement
\* and revocation are kept without their times, which only the cleanup compares
\* with anything but NULL.
Null == "null"
Marks == {Null, "set"}
Row == [member : Members, issued : Times, seen : Times, expires : 0..(MaxTime + Lifetime),
        replaced : Marks, revoked : Marks]
NoMember == CHOOSE m \in Members : TRUE
NoToken == <<>>
NoRow == [member |-> NoMember, issued |-> 0, seen |-> 0, expires |-> 0,
          replaced |-> Null, revoked |-> Null]

Lineage(f) == {t \in stored : Family(t) = f}
Leaf(t) == t \in stored /\ row[t].replaced = Null /\ row[t].revoked = Null
Leaves(m) == {t \in stored : Leaf(t) /\ row[t].member = m}

\* _is_active
Active(t, now) ==
  /\ Leaf(t)
  /\ row[t].issued <= now /\ row[t].seen <= now
  /\ row[t].expires > now /\ row[t].seen + Idle > now

\* What resolve_browser_session asks of a token before it grants a request.
Resolves(t, now) == Active(t, now) /\ enabled[row[t].member]

Revoke(S) == [t \in Tokens |-> IF t \in S THEN [row[t] EXCEPT !.revoked = "set"] ELSE row[t]]

Init ==
  /\ stored = {} /\ row = [t \in Tokens |-> NoRow] /\ used = {}
  /\ enabled = [m \in Members |-> TRUE]
  /\ clock = 0
  /\ pc = [p \in Threads |-> "idle"] /\ op = [p \in Threads |-> "none"]
  /\ who = [p \in Threads |-> NoMember] /\ tok = [p \in Threads |-> NoToken]
  /\ at = [p \in Threads |-> 0]
  /\ verdict = "none"

Finish(p, o) ==
  /\ pc' = [pc EXCEPT ![p] = "idle"]
  /\ verdict' = IF o = "granted" THEN "granted" ELSE "none"
  /\ op' = [op EXCEPT ![p] = "none"] /\ at' = [at EXCEPT ![p] = 0]
  /\ who' = [who EXCEPT ![p] = NoMember] /\ tok' = [tok EXCEPT ![p] = NoToken]

\* A call reads the clock and goes on to its transaction; a logout compares no time.
Stamp(p, o, m, t) ==
  /\ op' = [op EXCEPT ![p] = o]
  /\ who' = [who EXCEPT ![p] = m] /\ tok' = [tok EXCEPT ![p] = t]
  /\ at' = [at EXCEPT ![p] = IF o = "logout" THEN 0 ELSE clock]
  /\ pc' = [pc EXCEPT ![p] = "transacting"]
  /\ verdict' = "none"

-----------------------------------------------------------------------------
(* Issuing: complete_callback's last transaction, create_browser_session *)

Login(p, m) ==
  /\ pc[p] = "idle"
  /\ Stamp(p, "login", m, NoToken)
  /\ UNCHANGED <<rows, enabled, clock>>

\* The sessions the limit counts: note that neither start time is compared.
Countable(m, now) ==
  {t \in Leaves(m) : row[t].expires > now /\ row[t].seen > now - Idle}

\* The least recently seen go first; rows seen at the same time in any order.
Oldest(S, n) ==
  {T \in SUBSET S : /\ Cardinality(T) = n
                    /\ \A t \in T, u \in S \ T : row[t].seen <= row[u].seen}

\* Mutant: one session more than the limit is left.
OverflowByOne(S) == IF Cardinality(S) > MaxActive THEN Cardinality(S) - MaxActive ELSE 0

Overflow(S) == IF Cardinality(S) >= MaxActive THEN Cardinality(S) - MaxActive + 1 ELSE 0

Issue(p) ==
  LET m == who[p]
      active == Countable(m, at[p])
  IN /\ pc[p] = "transacting" /\ op[p] = "login"
     /\ IF ~enabled[m]
        THEN Finish(p, "refused") /\ UNCHANGED rows
        ELSE /\ \E f \in Families \ used, evicted \in Oldest(active, Overflow(active)) :
                  /\ stored' = stored \cup {<<f, 0>>}
                  /\ used' = used \cup {f}
                  /\ row' = [Revoke({t \in stored : \E u \in evicted : Family(t) = Family(u)})
                               EXCEPT ![<<f, 0>>] =
                               [member |-> m, issued |-> at[p], seen |-> at[p],
                                expires |-> at[p] + Lifetime, replaced |-> Null, revoked |-> Null]]
             /\ Finish(p, "granted")
     /\ UNCHANGED <<enabled, clock>>

-----------------------------------------------------------------------------
(* Using a session: authorize_browser_request, resolve_browser_session *)

Use(p, t) ==
  /\ pc[p] = "idle" /\ t \in stored
  /\ Stamp(p, "use", NoMember, t)
  /\ UNCHANGED <<rows, enabled, clock>>

\* The first SELECT of resolve_browser_session; a recovery never touches.
Look(p) ==
  LET t == tok[p]
  IN /\ pc[p] = "transacting" /\ op[p] \in {"use", "recover"}
     /\ IF ~Resolves(t, at[p]) THEN Finish(p, "refused")
        ELSE IF op[p] = "recover" \/ row[t].seen > at[p] - TouchInterval THEN Finish(p, "granted")
        ELSE /\ pc' = [pc EXCEPT ![p] = "touching"] /\ verdict' = "none"
             /\ UNCHANGED <<op, who, tok, at>>
     /\ UNCHANGED <<rows, enabled, clock>>

\* The WHERE clause of the touch.
Touchable(t, now) ==
  /\ Leaf(t) /\ row[t].expires > now
  /\ row[t].seen > now - Idle /\ row[t].seen <= now - TouchInterval /\ row[t].seen < now

\* Mutant: a touch that updated no row is taken for a concurrent touch.
TouchUnchecked(p) ==
  LET t == tok[p]
  IN /\ pc[p] = "touching"
     /\ row' = IF Touchable(t, at[p]) THEN [row EXCEPT ![t].seen = at[p]] ELSE row
     /\ Finish(p, "granted")
     /\ UNCHANGED <<stored, used, enabled, clock>>

Touch(p) ==
  LET t == tok[p]
  IN /\ pc[p] = "touching"
     /\ IF Touchable(t, at[p])
        THEN row' = [row EXCEPT ![t].seen = at[p]] /\ Finish(p, "granted")
        ELSE /\ pc' = [pc EXCEPT ![p] = "rereading"] /\ verdict' = "none"
             /\ UNCHANGED <<row, op, who, tok, at>>
     /\ UNCHANGED <<stored, used, enabled, clock>>

Reread(p) ==
  /\ pc[p] = "rereading"
  /\ Finish(p, IF Resolves(tok[p], at[p]) THEN "granted" ELSE "refused")
  /\ UNCHANGED <<rows, enabled, clock>>

-----------------------------------------------------------------------------
(* Renewal, recovery and logout: _admit_session_mutation, then the limiter, *)
(* then a transaction of their own that checks everything again             *)

\* Admission to a logout asks only for a retained row and its proof.
Admit(p, o, t) ==
  /\ pc[p] = "idle" /\ t \in stored
  /\ o \in {"renew", "recover", "logout"}
  /\ IF o = "logout" \/ Resolves(t, clock)
     THEN /\ pc' = [pc EXCEPT ![p] = "admitted"] /\ op' = [op EXCEPT ![p] = o]
          /\ tok' = [tok EXCEPT ![p] = t] /\ verdict' = "none"
          /\ UNCHANGED <<who, at>>
     ELSE Finish(p, "refused")
  /\ UNCHANGED <<rows, enabled, clock>>

\* The limiter decides in a transaction of its own database.
Limit(p) ==
  /\ pc[p] = "admitted"
  /\ \/ Finish(p, "refused")
     \/ Stamp(p, op[p], NoMember, tok[p])
  /\ UNCHANGED <<rows, enabled, clock>>

\* Mutant: rotation trusts the admission and renews a replaced generation again.
RenewableUnlocked(t, now) ==
  /\ t \in stored /\ enabled[row[t].member]
  /\ row[t].expires > now
  /\ row[t].issued + RotationInterval <= now /\ Generation(t) < MaxGeneration

\* rotate_browser_session on the row read under the membership lock.
Renewable(t, now) ==
  /\ Resolves(t, now)
  /\ row[t].issued + RotationInterval <= now /\ Generation(t) < MaxGeneration

NotDue(t, now) == Resolves(t, now) /\ row[t].issued + RotationInterval > now

Successor(t, now) ==
  [member |-> row[t].member, issued |-> now, seen |-> now, expires |-> row[t].expires,
   replaced |-> Null, revoked |-> Null]

\* use_browser_session with rotate_if_due: a session that is not due is only touched.
Rotate(p) ==
  LET t == tok[p]
      next == <<Family(t), Generation(t) + 1>>
  IN /\ pc[p] = "transacting" /\ op[p] = "renew"
     /\ IF Renewable(t, at[p])
        THEN /\ stored' = stored \cup {next}
             /\ row' = [row EXCEPT ![t].replaced = "set", ![next] = Successor(t, at[p])]
             /\ Finish(p, "granted")
        ELSE /\ UNCHANGED stored
             /\ row' = IF NotDue(t, at[p]) /\ Touchable(t, at[p])
                       THEN [row EXCEPT ![t].seen = at[p]] ELSE row
             /\ Finish(p, IF NotDue(t, at[p]) THEN "granted" ELSE "refused")
     /\ UNCHANGED <<used, enabled, clock>>

\* revoke_browser_session: everything in the family, if something is current.
ClosedBy(t) ==
  IF t \in stored /\ \E u \in Lineage(Family(t)) : Leaf(u) THEN Lineage(Family(t)) ELSE {}

Logout(p) ==
  LET t == tok[p]
  IN /\ pc[p] = "transacting" /\ op[p] = "logout"
     /\ row' = Revoke(ClosedBy(t))
     /\ Finish(p, IF t \in stored THEN "granted" ELSE "refused")
     /\ UNCHANGED <<stored, used, enabled, clock>>

-----------------------------------------------------------------------------
(* Changes of access and cleanup *)

\* Mutant: a change of access leaves the open sessions alone.
RevokeNobody(m) == row

\* revoke_membership_sessions, in the transaction that changes the membership.
RevokeMember(m) == Revoke({t \in stored : row[t].member = m})

ChangeAccess(m) ==
  /\ enabled' = [enabled EXCEPT ![m] = ~@]
  /\ row' = RevokeMember(m)
  /\ verdict' = "none"
  /\ UNCHANGED <<stored, used, clock, requests>>

\* Mutant: a replaced generation counts as inactive.
InactiveOrReplaced ==
  {t \in stored : \/ row[t].expires <= clock \/ row[t].revoked # Null
                  \/ row[t].seen <= clock - Idle
                  \/ row[t].replaced # Null}

\* An earlier cutoff than the present selects fewer rows.
Inactive ==
  {t \in stored : \/ row[t].expires <= clock \/ row[t].revoked # Null
                  \/ row[t].replaced = Null /\ row[t].seen <= clock - Idle}

Purge ==
  /\ \E S \in SUBSET Inactive :
       /\ S # {} /\ Cardinality(S) <= PurgeLimit
       /\ stored' = stored \ S
       /\ row' = [t \in Tokens |-> IF t \in S THEN NoRow ELSE row[t]]
  /\ verdict' = "none"
  /\ UNCHANGED <<used, enabled, clock, requests>>

Tick ==
  /\ clock < MaxTime
  /\ clock' = clock + 1
  /\ verdict' = "none"
  /\ UNCHANGED <<rows, enabled, requests>>

Next ==
  \/ \E p \in Threads :
       \/ \E m \in Members : Login(p, m)
       \/ \E t \in Tokens : Use(p, t)
       \/ \E t \in Tokens, o \in {"renew", "recover", "logout"} : Admit(p, o, t)
       \/ Issue(p) \/ Look(p) \/ Touch(p) \/ Reread(p)
       \/ Limit(p) \/ Rotate(p) \/ Logout(p)
  \/ \E m \in Members : ChangeAccess(m)
  \/ Purge
  \/ Tick

Spec == Init /\ [][Next]_vars

-----------------------------------------------------------------------------
TypeOK ==
  /\ stored \subseteq Tokens /\ row \in [Tokens -> Row] /\ used \subseteq Families
  /\ enabled \in [Members -> BOOLEAN] /\ clock \in Times
  /\ pc \in [Threads -> {"idle", "admitted", "transacting", "touching", "rereading"}]
  /\ op \in [Threads -> {"none", "login", "use", "renew", "recover", "logout"}]
  /\ who \in [Threads -> Members] /\ tok \in [Threads -> Tokens \cup {NoToken}]
  /\ at \in [Threads -> Times]
  /\ verdict \in {"none", "granted"}

(* A family never has two current generations, whatever renewals, logouts,   *)
(* evictions and cleanups interleave: the partial unique index               *)
(* uq_browser_sessions_active_family never has to refuse a transaction.      *)
OneLeafPerFamily ==
  \A f \in Families : Cardinality({t \in Lineage(f) : Leaf(t)}) <= 1

(* Rotation does not extend the absolute lifetime: every generation of a     *)
(* family expires when its first one does (rotate_browser_session).          *)
SharedDeadline ==
  \A f \in Families : \A t, u \in Lineage(f) :
    /\ row[t].expires = row[u].expires /\ row[t].member = row[u].member
    /\ Generation(t) = 0 => row[u].expires = row[t].issued + Lifetime

(* While a family is current its predecessors stay on record, so that a      *)
(* retained old token can still close it: purge_inactive_browser_sessions    *)
(* deletes no active lineage.                                                *)
LineageKept ==
  \A t \in stored : Active(t, clock) =>
    \A g \in 0..(Generation(t) - 1) : <<Family(t), g>> \in stored

(* The rows of a family, together: what revocation, renewal and cleanup rely *)
(* on when they look at a family through any one of its tokens.              *)
SessionLineage == OneLeafPerFamily /\ SharedDeadline /\ LineageKept

\* The sessions of a member that could authenticate now.
Usable(m) == {t \in Leaves(m) : Active(t, clock)}

(* A login that succeeds leaves its member at most                           *)
(* MAX_ACTIVE_SESSIONS_PER_MEMBERSHIP sessions that could authenticate when  *)
(* it commits, however long it waited with its timestamp and whatever other  *)
(* logins and requests did meanwhile (issue_browser_session).                *)
LoginKeepsCap ==
  \A p \in Threads, m \in Members :
    op[p] = "login" /\ who[p] = m /\ pc[p] = "transacting" /\ pc'[p] = "idle"
      /\ verdict' = "granted" => Cardinality(Usable(m)') <= MaxActive

(* The cap as the threat model states it: at no time can more sessions of a  *)
(* membership than MAX_ACTIVE_SESSIONS_PER_MEMBERSHIP authenticate.          *)
ActiveSessionCap == \A m \in Members : Cardinality(Usable(m)) <= MaxActive

(* A member whose access was taken away has no current session left: no      *)
(* login or renewal that was already on its way opens one.                   *)
DisabledIsOut == \A m \in Members : ~enabled[m] => Leaves(m) = {}

\* A request on its way that was stamped while its session was current.
Renews(p, t) ==
  /\ tok[p] = t /\ Leaf(t) /\ pc[p] \in {"transacting", "touching"}
  /\ row[t].seen <= at[p] /\ at[p] < row[t].seen + Idle

Open(f) == \E t \in Lineage(f) : Active(t, clock)

(* A family without a current generation is closed for good, and a family    *)
(* that cannot authenticate never can again (no renewal, touch or cleanup in *)
(* flight brings back what expired, was replaced or revoked) with one        *)
(* exception: one that only went idle, before its deadline, by a request     *)
(* that was stamped while it was current and had to wait                     *)
(* (revoke_browser_session, the WHERE clause of the touch).                  *)
KeepsClosed ==
  /\ \A f \in used : (\A t \in stored : Family(t) = f => ~Leaf(t))
                     => (\A t \in stored' : Family(t) = f => ~Leaf(t)')
  /\ \A f \in used : ~Open(f) /\ Open(f)' =>
       \E p \in Threads, t \in Lineage(f) : Renews(p, t) /\ row[t].expires > clock
ClosedStaysClosed == [][KeepsClosed]_vars

(* A request that had to touch its session is granted only if the session    *)
(* still is current and its member enabled when the request is granted: the  *)
(* re-read after a lost update (resolve_browser_session).                    *)
TouchGrantsCurrent ==
  \A p \in Threads :
    pc[p] \in {"touching", "rereading"} /\ pc'[p] = "idle" /\ verdict' = "granted"
      => Leaf(tok[p])

(* A logout that reports success has closed the family, also when it was     *)
(* made with a token that a concurrent renewal had replaced.                 *)
LogoutCloses ==
  \A p \in Threads :
    op[p] = "logout" /\ pc[p] = "transacting" /\ pc'[p] = "idle" /\ verdict' = "granted"
      => \A t \in stored' : Family(t) = Family(tok[p]) => ~Leaf(t)'

(* A positive answer to a touch or a logout was true when it was given.      *)
TrueAnswers == TouchGrantsCurrent /\ LogoutCloses
AnswersHold == [][TrueAnswers]_vars

-----------------------------------------------------------------------------
(* The inductive invariant *)

\* Only a family that was drawn has rows; a current generation is its family's last
\* and its member is enabled; revocation takes a family as a whole.
FamilyShape ==
  /\ \A t \in stored : Family(t) \in used /\ (Leaf(t) => enabled[row[t].member])
  /\ \A t, u \in stored : Family(t) = Family(u) =>
       /\ Leaf(t) => Generation(u) <= Generation(t)
       /\ row[t].revoked # Null => row[u].revoked # Null

\* Before its deadline a current generation has all its predecessors on record.
Predecessors ==
  \A t \in stored : Leaf(t) /\ row[t].expires > clock =>
    \A g \in 0..(Generation(t) - 1) : <<Family(t), g>> \in stored

\* No row and no request carries a time to come.
TimesPassed ==
  /\ \A t \in stored : row[t].issued <= clock /\ row[t].seen <= clock
  /\ \A p \in Threads : at[p] <= clock

IInv == TypeOK /\ FamilyShape /\ SharedDeadline /\ Predecessors /\ TimesPassed
=============================================================================
