------------------------------ MODULE LabGrants ------------------------------
(***************************************************************************)
(* The lab authorizations of one Dockyard (lab.py): grants that supersede  *)
(* each other, are revoked or expire, a bounded history, and the capability *)
(* checks of discovery runs, which take no lock.  lock stands for           *)
(* _MUTATION_LOCK within a process and for the Dockyard's row lock between  *)
(* processes.                                                              *)
(***************************************************************************)
EXTENDS Naturals, FiniteSets, Sequences, FiniteSetsExt

CONSTANTS
  Capabilities,
  Threads,         \* requests that change grants
  Runs,            \* discovery runs that check them
  Durations,       \* what may be asked for, up to max_lab_authorization_minutes
  Limit,           \* max_lab_authorizations_per_dockyard
  CandidateLimit,  \* how many active rows a check reads
  MaxTime, MaxRestarts,
  Nobody

LabAssumption ==
  /\ IsFiniteSet(Threads) /\ Nobody \notin Threads
  /\ Durations \subseteq Nat \ {0} /\ {Limit, CandidateLimit} \subseteq Nat \ {0}
  /\ {MaxTime, MaxRestarts} \subseteq Nat

VARIABLES
  grants,      \* the LabAuthorization rows, in id order
  lock, pc, job,
  enabled,     \* lab_mode_enabled, fixed while a process runs
  actorOK,     \* the requesters may authorize labs
  verdict,     \* each run's last check: the grant it cites, 0 for a denial
  floor,       \* history: the newest grant of a capability that was ended on purpose
  clock, restarts

rowVars == <<grants, floor>>
threadVars == <<lock, pc, job>>
envVars == <<enabled, actorOK, restarts>>
vars == <<rowVars, threadVars, verdict, envVars, clock>>

Ids == 1 .. Len(grants)
NoJob == [cap |-> Nobody, expires |-> 0, active |-> {}, target |-> 0]
NoVerdict == [grant |-> 0, floor |-> 0]
ActiveOf(cap) == {i \in Ids : grants[i].cap = cap /\ grants[i].status = "active"}

Init ==
  /\ grants = <<>> /\ floor = [c \in Capabilities |-> 0]
  /\ lock = Nobody /\ pc = [t \in Threads |-> "idle"] /\ job = [t \in Threads |-> NoJob]
  /\ enabled \in BOOLEAN /\ actorOK = TRUE
  /\ verdict = [r \in Runs |-> NoVerdict]
  /\ clock = 0 /\ restarts = 0

Take(t) == lock = Nobody /\ lock' = t
Leave(t) == /\ lock' = IF lock = t THEN Nobody ELSE lock
            /\ pc' = [pc EXCEPT ![t] = "idle"] /\ job' = [job EXCEPT ![t] = NoJob]

-----------------------------------------------------------------------------
(* create_authorization *)

\* _authorization_count
Room == Len(grants) < Limit

Reads(t, cap, length) ==
  /\ pc[t] = "idle" /\ actorOK /\ Room
  /\ pc' = [pc EXCEPT ![t] = "creating"]
  /\ job' = [job EXCEPT ![t] = [NoJob EXCEPT !.cap = cap, !.active = ActiveOf(cap),
                                  !.expires = IF enabled THEN clock + length ELSE clock]]
  /\ UNCHANGED <<rowVars, verdict, envVars, clock>>

\* Mutant: the grants are read with no lock held.
BeginCreateUnlocked(t, cap, length) == Reads(t, cap, length) /\ UNCHANGED lock

\* The lock, the actor, the clock, the count and the grants to supersede; a
\* request that is refused changes nothing.
BeginCreate(t, cap, length) == Take(t) /\ Reads(t, cap, length)

\* A deployment without lab mode keeps the request as a denied row.
CommitCreate(t) ==
  LET q == job[t]
      ended == IF enabled THEN q.active ELSE {}
      row == [cap |-> q.cap, expires |-> q.expires,
              status |-> IF enabled THEN "active" ELSE "denied"]
  IN /\ pc[t] = "creating"
     /\ grants' = Append([i \in Ids |-> IF i \in ended
                                        THEN [grants[i] EXCEPT !.status = "superseded"]
                                        ELSE grants[i]], row)
     /\ floor' = IF enabled THEN [floor EXCEPT ![q.cap] = Len(grants)] ELSE floor
     /\ Leave(t)
     /\ UNCHANGED <<verdict, envVars, clock>>

-----------------------------------------------------------------------------
(* revoke_authorization *)

BeginRevoke(t, i) ==
  /\ Take(t) /\ pc[t] = "idle" /\ actorOK /\ i \in Ids
  /\ pc' = [pc EXCEPT ![t] = "revoking"]
  /\ job' = [job EXCEPT ![t] = [NoJob EXCEPT !.target = i]]
  /\ UNCHANGED <<rowVars, verdict, envVars, clock>>

\* Only an active grant changes; an expired one still is.
CommitRevoke(t) ==
  LET i == job[t].target
  IN /\ pc[t] = "revoking"
     /\ IF grants[i].status = "active"
        THEN /\ grants' = [grants EXCEPT ![i].status = "revoked"]
             /\ floor' = [floor EXCEPT ![grants[i].cap] = Len(grants)]
        ELSE UNCHANGED rowVars
     /\ Leave(t)
     /\ UNCHANGED <<verdict, envVars, clock>>

\* The commit fails: the transaction is gone and both locks are released.
Abort(t) ==
  /\ pc[t] # "idle" /\ Leave(t)
  /\ UNCHANGED <<rowVars, verdict, envVars, clock>>

-----------------------------------------------------------------------------
(* check_capability *)

\* _active_authorization: the newest active rows, and the first that is not
\* expired among them.
Citable(cap) ==
  {i \in ActiveOf(cap) : /\ Cardinality({j \in ActiveOf(cap) : j > i}) < CandidateLimit
                         /\ grants[i].expires > clock}

Check(r, cap) ==
  /\ verdict' = [verdict EXCEPT ![r] =
       [grant |-> IF enabled /\ Citable(cap) # {} THEN Max(Citable(cap)) ELSE 0,
        floor |-> floor[cap]]]
  /\ UNCHANGED <<rowVars, threadVars, envVars, clock>>

-----------------------------------------------------------------------------
\* The process starts again, with or without lab mode; rows remain.
Restart(mode) ==
  /\ restarts < MaxRestarts /\ restarts' = restarts + 1
  /\ enabled' = mode
  /\ lock' = Nobody /\ pc' = [t \in Threads |-> "idle"] /\ job' = [t \in Threads |-> NoJob]
  /\ UNCHANGED <<rowVars, verdict, actorOK, clock>>

ChangeActor ==
  /\ actorOK' = ~actorOK
  /\ UNCHANGED <<rowVars, threadVars, verdict, enabled, restarts, clock>>

Tick ==
  /\ clock < MaxTime /\ clock' = clock + 1
  /\ UNCHANGED <<rowVars, threadVars, verdict, envVars>>

Next ==
  \/ \E t \in Threads :
       \/ \E cap \in Capabilities, length \in Durations : BeginCreate(t, cap, length)
       \/ CommitCreate(t) \/ CommitRevoke(t) \/ Abort(t)
       \/ \E i \in Ids : BeginRevoke(t, i)
  \/ \E r \in Runs, cap \in Capabilities : Check(r, cap)
  \/ \E mode \in BOOLEAN : Restart(mode)
  \/ ChangeActor \/ Tick

Spec == Init /\ [][Next]_vars

-----------------------------------------------------------------------------
\* The rows, and a lock held exactly by the request that is at work.
TypeOK ==
  /\ \A i \in Ids : /\ grants[i].cap \in Capabilities /\ grants[i].expires \in Nat
                    /\ grants[i].status \in {"active", "denied", "superseded", "revoked"}
  /\ \A t \in Threads : pc[t] = "idle" <=> lock # t

\* "Grants and revocations serialize across application processes": a
\* capability never has two active grants, so that revoking the one an operator
\* sees revokes the capability, and the history keeps its limit.
OneActiveGrant ==
  /\ \A cap \in Capabilities : Cardinality(ActiveOf(cap)) <= 1
  /\ Len(grants) <= Limit

\* A check is never allowed by a grant that an operator had ended, or replaced,
\* before it, nor by one older than such a grant.
AllowedSinceEnded == \A r \in Runs : verdict[r].grant # 0 => verdict[r].grant > verdict[r].floor

LabHolds == OneActiveGrant /\ AllowedSinceEnded

-----------------------------------------------------------------------------
(* The inductive invariant *)

Grant == [cap : Capabilities, expires : Nat,
          status : {"active", "denied", "superseded", "revoked"}]
Typed ==
  /\ grants \in Seq(Grant) /\ floor \in [Capabilities -> Nat]
  /\ lock \in Threads \cup {Nobody} /\ pc \in [Threads -> {"idle", "creating", "revoking"}]
  /\ job \in [Threads -> [cap : Capabilities \cup {Nobody}, expires : Nat,
                          active : SUBSET Nat, target : Nat]]
  /\ enabled \in BOOLEAN /\ verdict \in [Runs -> [grant : Nat, floor : Nat]] /\ clock \in Nat

\* An active grant is the only one of its capability, and newer than everything
\* that was ended on purpose.
ActiveAlone ==
  \A i, j \in Ids : grants[i].status = "active" /\ j \in ActiveOf(grants[i].cap) => i = j
ActiveIsNewer ==
  /\ \A cap \in Capabilities : floor[cap] <= Len(grants)
  /\ \A i \in Ids : grants[i].status = "active" => i > floor[grants[i].cap]

\* What the holder of the lock read is still so.
HolderIsCurrent ==
  \A t \in Threads :
    /\ pc[t] = "creating" => /\ job[t].cap \in Capabilities /\ Room
                             /\ job[t].active = ActiveOf(job[t].cap)
    /\ pc[t] = "revoking" => job[t].target \in Ids

IInv ==
  /\ Typed /\ TypeOK /\ Len(grants) <= Limit /\ ActiveAlone /\ ActiveIsNewer
  /\ HolderIsCurrent /\ AllowedSinceEnded
=============================================================================
