--------------------------- MODULE CorrelationRuns ---------------------------
(***************************************************************************)
(* Correlation snapshots of one Dockyard (correlation/runner.py): the      *)
(* unlocked admission, the inventory, findings, hashes and observations    *)
(* read by separate statements, the graph computed from them, and its      *)
(* publication in one commit, while discovery and detection publish.       *)
(*                                                                         *)
(* An edge is a record of its kind and its two ends.  The evidence of a    *)
(* finding or relationship is the set member that has one.  A web asset    *)
(* keeps its address, and its response stays among those looked up.        *)
(***************************************************************************)
EXTENDS Naturals, FiniteSets

CONSTANTS
  Threads,      \* concurrent API requests
  Webs, Hosts,  \* assets by type
  AddressOf,    \* web asset -> the host recorded at its address
  FindingIds,
  SubjectOf,    \* finding -> its asset
  Mapped,       \* findings whose rule has a framework mapping
  MaxEdges,     \* settings.max_correlation_edges
  MaxRuns,      \* bound on runs ever started
  MaxCrashes,   \* bound on crashes
  MaxLosses     \* bound on exceptions that no handler records

Assets == Webs \cup Hosts

\* What every instance assumes of its constants.
CorrelationAssumption ==
  /\ IsFiniteSet(Assets) /\ IsFiniteSet(FindingIds)
  /\ AddressOf \in [Webs -> Hosts] /\ SubjectOf \in [FindingIds -> Assets]
  /\ Mapped \subseteq FindingIds /\ {MaxEdges, MaxRuns, MaxCrashes, MaxLosses} \subseteq Nat

VARIABLES
  inventory,   \* committed assets
  responses,   \* web assets with a retained response at their address
  stored,      \* committed findings, each with an evidence record
  runs,        \* CorrelationRun rows: id -> [status, graph], and the store
               \* when the row was inserted (history)
  pc, job,     \* where each thread is, and the row it works on
  read,        \* what a thread has read
  actorOK, crashes, losses

storeVars == <<inventory, responses, stored>>
threadVars == <<pc, job, read>>
envVars == <<actorOK, crashes, losses>>
vars == <<storeVars, runs, threadVars, envVars>>

-----------------------------------------------------------------------------
ActiveStatuses == {"pending", "running"}
Statuses == {"none", "completed", "failed"} \cup ActiveStatuses
Ids == 1..MaxRuns
NoGraph == [nodes |-> {}, edges |-> {}, mappings |-> {}]
NoStore == [assets |-> {}, responding |-> {}, findings |-> {}]
Store == [assets |-> inventory, responding |-> responses, findings |-> stored]
NoRead == [assets |-> {}, findings |-> {}, hashed |-> {}]
Active == {i \in Ids : runs[i].status \in ActiveStatuses}

Init ==
  /\ inventory = {} /\ responses = {} /\ stored = {}
  /\ runs = [i \in Ids |-> [status |-> "none", base |-> NoStore, graph |-> NoGraph]]
  /\ pc = [t \in Threads |-> "idle"] /\ job = [t \in Threads |-> 0]
  /\ read = [t \in Threads |-> NoRead]
  /\ actorOK = TRUE /\ crashes = 0 /\ losses = 0

Goto(t, where) == pc' = [pc EXCEPT ![t] = where]
Done(t) == /\ Goto(t, "idle") /\ job' = [job EXCEPT ![t] = 0]
           /\ read' = [read EXCEPT ![t] = NoRead]

-----------------------------------------------------------------------------
(* Discovery publishes assets and responses, detection publishes findings *)
PublishAsset(a, responding) ==
  /\ inventory' = inventory \cup {a}
  /\ responses' = IF responding THEN responses \cup ({a} \cap Webs) ELSE responses
  /\ UNCHANGED <<stored, runs, threadVars, envVars>>

PublishFinding(f) ==
  /\ SubjectOf[f] \in inventory
  /\ stored' = stored \cup {f}
  /\ UNCHANGED <<inventory, responses, runs, threadVars, envVars>>

-----------------------------------------------------------------------------
(* start_correlation and _execute *)
Count(t) ==
  /\ pc[t] = "idle" /\ actorOK /\ Active = {}
  /\ \E i \in Ids : runs[i].status = "none"
  /\ Goto(t, "counted")
  /\ UNCHANGED <<storeVars, runs, job, read, envVars>>

\* The row and its event, then the running status, each in a commit.
InsertRun(t) ==
  /\ pc[t] = "counted"
  /\ \E i \in Ids :
       /\ runs[i].status = "none" /\ \A j \in 1..(i - 1) : runs[j].status # "none"
       /\ runs' = [runs EXCEPT ![i] = [status |-> "pending", base |-> Store, graph |-> NoGraph]]
       /\ job' = [job EXCEPT ![t] = i]
  /\ Goto(t, "inserted")
  /\ UNCHANGED <<storeVars, read, envVars>>

StartRun(t) ==
  /\ pc[t] = "inserted"
  /\ runs' = [runs EXCEPT ![job[t]].status = "running"]
  /\ Goto(t, "running")
  /\ UNCHANGED <<storeVars, job, read, envVars>>

ReadAssets(t) ==
  /\ pc[t] = "running"
  /\ read' = [read EXCEPT ![t].assets = inventory]
  /\ Goto(t, "assets")
  /\ UNCHANGED <<storeVars, runs, job, envVars>>

\* _finding_hashes of the findings read; every committed finding has one.
ReadFindings(t) ==
  /\ pc[t] = "assets"
  /\ read' = [read EXCEPT ![t].findings = stored, ![t].hashed = stored]
  /\ Goto(t, "findings")
  /\ UNCHANGED <<storeVars, runs, job, envVars>>

-----------------------------------------------------------------------------
(* The graph *)
Edge(kind, source, target) == [kind |-> kind, ends |-> <<source, target>>]

\* A web asset and the host asset at exactly its address, backed by a retained
\* response of the web asset from that address.
_asset_relationships(assets, responding) ==
  {Edge("asset_relationship", w, AddressOf[w]) :
     w \in {x \in assets \cap Webs \cap responding : AddressOf[x] \in assets}}

Subjects(r) == {Edge("finding_subject", SubjectOf[f], f) : f \in r.findings \cap r.hashed}

\* Mutant: every pair of supported findings is correlated.
FindingCorrelationsOfAll(r, relationships) ==
  {[kind |-> "finding_correlation", ends |-> fg] :
     fg \in {x \in SUBSET (r.findings \cap r.hashed) : Cardinality(x) = 2}}

\* Pairs of supported findings on one asset or on two related assets, each
\* pair once, whichever end comes first.
_finding_correlations(r, relationships) ==
  LET related(f, g) == \/ SubjectOf[f] = SubjectOf[g]
                       \/ \E e \in relationships :
                            {SubjectOf[f], SubjectOf[g]} = {e.ends[1], e.ends[2]}
      pairs == {fg \in SUBSET (r.findings \cap r.hashed) :
                  Cardinality(fg) = 2 /\ \A f, g \in fg : f # g => related(f, g)}
  IN {[kind |-> "finding_correlation", ends |-> fg] : fg \in pairs}

\* The two checks of _perform and the one in add.
WithinEdgeLimit(relationships, subjects, correlations) ==
  Cardinality(relationships) + Cardinality(subjects) + Cardinality(correlations) <= MaxEdges

_graph_document(r, edges) ==
  [nodes |-> r.assets \cup r.findings, edges |-> edges,
   mappings |-> r.findings \cap r.hashed \cap Mapped]

\* Relationships are looked up, correlations derived, the files written, the
\* authority read again and everything committed.
Commit(t) ==
  LET r == read[t]
      relationships == _asset_relationships(r.assets, responses)
      subjects == Subjects(r)
      correlations == _finding_correlations(r, relationships)
  IN /\ pc[t] = "findings" /\ actorOK
     /\ WithinEdgeLimit(relationships, subjects, correlations)
     /\ runs' = [runs EXCEPT ![job[t]] =
                   [status |-> "completed", base |-> runs[job[t]].base,
                    graph |-> _graph_document(r, relationships \cup subjects \cup correlations)]]

Publish(t) == Commit(t) /\ Done(t) /\ UNCHANGED <<storeVars, envVars>>

\* The commit takes effect and its reply is lost: the handler of _execute runs.
PublishUnanswered(t) ==
  /\ losses < MaxLosses /\ losses' = losses + 1
  /\ Commit(t) /\ Goto(t, "unanswered")
  /\ UNCHANGED <<storeVars, job, read, actorOK, crashes>>

\* RunRejected, AuthorizationDenied or any other exception: rolled back, then
\* the failure is committed.
Fail(t) ==
  /\ pc[t] \in {"running", "assets", "findings", "unanswered"}
  /\ runs' = [runs EXCEPT ![job[t]].status = "failed"]
  /\ Done(t)
  /\ UNCHANGED <<storeVars, envVars>>

\* An exception outside the try of _execute: a commit or the refresh before it,
\* or the commit of the failure.  The request ends, the row stays as it is.
Lose(t) ==
  /\ losses < MaxLosses /\ losses' = losses + 1
  /\ pc[t] # "idle"
  /\ Done(t)
  /\ UNCHANGED <<storeVars, runs, actorOK, crashes>>

\* Mutant: only running rows are recovered.
RecoveredRunning(row) == IF row.status = "running" THEN [row EXCEPT !.status = "failed"] ELSE row

Recovered(row) == IF row.status \in ActiveStatuses THEN [row EXCEPT !.status = "failed"] ELSE row

Restart ==
  /\ crashes < MaxCrashes /\ crashes' = crashes + 1
  /\ runs' = [i \in Ids |-> Recovered(runs[i])]
  /\ pc' = [t \in Threads |-> "idle"] /\ job' = [t \in Threads |-> 0]
  /\ read' = [t \in Threads |-> NoRead]
  /\ UNCHANGED <<storeVars, actorOK, losses>>

Revoke == /\ actorOK /\ actorOK' = FALSE
          /\ UNCHANGED <<storeVars, runs, threadVars, crashes, losses>>

ThreadStep(t) == InsertRun(t) \/ StartRun(t) \/ ReadAssets(t) \/ ReadFindings(t) \/ Publish(t)
                 \/ Fail(t)

Next ==
  \/ \E t \in Threads : Count(t) \/ ThreadStep(t) \/ PublishUnanswered(t) \/ Lose(t)
  \/ \E a \in Assets, responding \in BOOLEAN : PublishAsset(a, responding)
  \/ \E f \in FindingIds : PublishFinding(f)
  \/ Restart \/ Revoke

Spec == Init /\ [][Next]_vars

\* The request that admitted a run keeps running it.
Fairness == \A t \in Threads : WF_vars(ThreadStep(t))

LiveSpec == Spec /\ Fairness

-----------------------------------------------------------------------------
Completed == {i \in Ids : runs[i].status = "completed"}

\* Rows, graphs, and a row of its own for every thread at work on one.
TypeOK ==
  /\ \A i \in Ids : runs[i].status \in Statuses /\ runs[i].graph.nodes \subseteq Assets \cup FindingIds
  /\ \A t \in Threads : pc[t] \in {"idle", "counted"} <=> job[t] = 0
  /\ \A t, u \in Threads : t # u /\ job[t] # 0 => job[t] # job[u]

\* What a store supports: a retained response places the web asset at a host, a
\* finding is about its asset, two findings are on one asset or on two that a
\* response joins.
Edges == [kind : {"asset_relationship", "finding_subject"},
          ends : Assets \X (Assets \cup FindingIds)]
         \cup [kind : {"finding_correlation"}, ends : SUBSET FindingIds]
Places(s, w, h) ==
  w \in s.assets \cap s.responding \cap Webs /\ h = AddressOf[w] /\ h \in s.assets
Pairs(s, ends) ==
  \E f, g \in s.findings :
    /\ f # g /\ ends = {f, g}
    /\ \/ SubjectOf[f] = SubjectOf[g]
       \/ Places(s, SubjectOf[f], SubjectOf[g])
Supported(s, e) ==
  \/ e.kind = "asset_relationship" /\ Places(s, e.ends[1], e.ends[2])
  \/ e.kind = "finding_subject" /\ e.ends[2] \in s.findings /\ e.ends[1] = SubjectOf[e.ends[2]]
  \/ e.kind = "finding_correlation" /\ Pairs(s, e.ends)

\* The graph has everything that s holds and supports.
Complete(graph, s) ==
  /\ s.assets \cup s.findings \subseteq graph.nodes
  /\ s.findings \cap Mapped \subseteq graph.mappings
  /\ \A e \in Edges : Supported(s, e) => e \in graph.edges

\* The graph has nothing else.
Sound(graph, s) ==
  /\ graph.nodes \subseteq s.assets \cup s.findings
  /\ graph.mappings \subseteq s.findings \cap Mapped
  /\ \A e \in graph.edges : e \in Edges /\ Supported(s, e)

\* A completed graph leaves out nothing that was stored when its run was
\* inserted, and invents nothing: the limits end a run and never cut a graph.
GraphsFaithful ==
  \A i \in Completed : Complete(runs[i].graph, runs[i].base) /\ Sound(runs[i].graph, Store)

\* "Asserts only evidence-linked facts": every correlated pair has its reason
\* in the same graph, as two subjects on one asset or on two related assets.
SubjectsOf(graph, ends) ==
  {e.ends[1] : e \in {x \in graph.edges : x.kind = "finding_subject" /\ x.ends[2] \in ends}}
Explained(graph) ==
  \A c \in {e \in graph.edges : e.kind = "finding_correlation"} :
    \/ Cardinality(SubjectsOf(graph, c.ends)) = 1
    \/ \E e \in graph.edges : /\ e.kind = "asset_relationship"
                              /\ {e.ends[1], e.ends[2]} = SubjectsOf(graph, c.ends)
CorrelationsExplained == \A i \in Completed : Explained(runs[i].graph)

\* Both.  The separate reads do not make a graph one state of the store: a
\* finding published between them has its edge and not its asset.
GraphsHold == GraphsFaithful /\ CorrelationsExplained

\* A run under way, and those that no request works on any more.
InFlight(i) == i \in Active
Orphans == {i \in Active : \A t \in Threads : job[t] # i}

-----------------------------------------------------------------------------
(* The inductive invariant: what is read is stored and at least what was     *)
(* stored when the run was inserted, and a row is written as a whole.        *)

Graph == [nodes : SUBSET (Assets \cup FindingIds), edges : SUBSET Edges,
          mappings : SUBSET FindingIds]
Stored == [assets : SUBSET Assets, responding : SUBSET Webs, findings : SUBSET FindingIds]
Read == [assets : SUBSET Assets, findings : SUBSET FindingIds, hashed : SUBSET FindingIds]
CorrelationRun == [status : Statuses, base : Stored, graph : Graph]

Typed ==
  /\ Store \in Stored /\ runs \in [Ids -> CorrelationRun]
  /\ read \in [Threads -> Read] /\ job \in [Threads -> Ids \cup {0}]
  /\ pc \in [Threads -> {"idle", "counted", "inserted", "running", "assets", "findings",
                          "unanswered"}]

Within(s, u) == /\ s.assets \subseteq u.assets /\ s.responding \subseteq u.responding
                /\ s.findings \subseteq u.findings

AtWork(t) ==
  /\ pc[t] \notin {"idle", "counted"} => job[t] \in Ids /\ runs[job[t]].status # "none"
  /\ read[t].assets \subseteq inventory /\ read[t].findings \subseteq stored
  /\ read[t].hashed = read[t].findings
  /\ pc[t] \in {"assets", "findings"} => runs[job[t]].base.assets \subseteq read[t].assets
  /\ pc[t] = "findings" => runs[job[t]].base.findings \subseteq read[t].findings

IInv ==
  /\ Typed /\ GraphsHold
  /\ \A i \in Ids : Within(runs[i].base, Store)
  /\ \A t \in Threads : AtWork(t)
=============================================================================
