--------------------------- MODULE ApprovalProofs ---------------------------
(* Theorems about the two approval workflows of Workflow, validation and     *)
(* intelligence, and the gate both implement, for every value of the         *)
(* constants.                                                                *)
EXTENDS Workflow, FiniteSetTheorems, TLAPS

\* The component's own copy of FiniteSets is the library's.
LEMMA ValidationSets ==
  ASSUME NEW S
  PROVE  (Validation!IsFiniteSet(S) <=> IsFiniteSet(S)) /\ Validation!Cardinality(S) = Cardinality(S)
BY DEF Validation!IsFiniteSet, IsFiniteSet, Validation!Cardinality, Cardinality
\* The intelligence component's copy of FiniteSets is the library's too.
LEMMA AdviceSets ==
  ASSUME NEW S
  PROVE  Advice!Cardinality(S) = Cardinality(S)
BY DEF Advice!Cardinality, Cardinality

-----------------------------------------------------------------------------
(* Validation *)

\* The rows: what a change of one row, a new row and a restart leave of them.
LEMMA RowChanged ==
  ASSUME Validation!IInv, NEW i \in DOMAIN valRuns, NEW r \in Validation!ValidationRun,
         Validation!RowHonest(r),
         valRuns' = [valRuns EXCEPT ![i] = r]
  PROVE  /\ valRuns' \in Seq(Validation!ValidationRun) /\ DOMAIN valRuns' = DOMAIN valRuns /\ Len(valRuns') = Len(valRuns)
         /\ valRuns'[i] = r /\ \A j \in DOMAIN valRuns : j # i => valRuns'[j] = valRuns[j]
         /\ \A j \in DOMAIN valRuns' : Validation!RowHonest(valRuns'[j])
<1>1. valRuns \in Seq(Validation!ValidationRun) /\ \A j \in DOMAIN valRuns : Validation!RowHonest(valRuns[j])
  BY DEF Validation!IInv, Validation!TypeOK
<1>2. valRuns' \in Seq(Validation!ValidationRun) /\ DOMAIN valRuns' = DOMAIN valRuns /\ Len(valRuns') = Len(valRuns)
  BY <1>1
<1>3. valRuns'[i] = r /\ \A j \in DOMAIN valRuns : j # i => valRuns'[j] = valRuns[j] BY <1>1
<1> QED BY <1>1, <1>2, <1>3

\* Appending a row keeps every other row where it was.
LEMMA RowAdded ==
  ASSUME Validation!IInv, NEW r \in Validation!ValidationRun, Validation!RowHonest(r),
         valRuns' = Append(valRuns, r)
  PROVE  /\ valRuns' \in Seq(Validation!ValidationRun) /\ Len(valRuns') = Len(valRuns) + 1 /\ Len(valRuns) \in Nat
         /\ DOMAIN valRuns' = DOMAIN valRuns \cup {Len(valRuns) + 1} /\ Len(valRuns) + 1 \notin DOMAIN valRuns
         /\ valRuns'[Len(valRuns) + 1] = r /\ \A j \in DOMAIN valRuns : valRuns'[j] = valRuns[j]
         /\ \A j \in DOMAIN valRuns' : Validation!RowHonest(valRuns'[j])
<1>1. valRuns \in Seq(Validation!ValidationRun) /\ \A j \in DOMAIN valRuns : Validation!RowHonest(valRuns[j])
  BY DEF Validation!IInv, Validation!TypeOK
<1>2. valRuns' \in Seq(Validation!ValidationRun) /\ Len(valRuns') = Len(valRuns) + 1 /\ Len(valRuns) \in Nat
  BY <1>1
<1>3. DOMAIN valRuns = 1..Len(valRuns) /\ DOMAIN valRuns' = 1..Len(valRuns') BY <1>1, <1>2
<1>4. DOMAIN valRuns' = DOMAIN valRuns \cup {Len(valRuns) + 1} /\ Len(valRuns) + 1 \notin DOMAIN valRuns
  BY <1>2, <1>3
<1>5. valRuns'[Len(valRuns) + 1] = r /\ \A j \in DOMAIN valRuns : valRuns'[j] = valRuns[j]
  BY <1>1, <1>3
<1>6. \A j \in DOMAIN valRuns' : Validation!RowHonest(valRuns'[j]) BY <1>1, <1>4, <1>5
<1> QED BY <1>2, <1>4, <1>5, <1>6

\* Counting the requests between their count and their insert.
LEMMA Counted ==
  ASSUME Validation!ValidationAssumption
  PROVE  /\ IsFiniteSet(Validation!Admitted) /\ Cardinality(Validation!Admitted) \in Nat
         /\ Cardinality(Threads) \in Nat /\ Cardinality(Validation!Admitted) <= Cardinality(Threads)
         /\ \A S \in SUBSET Validation!Admitted : Cardinality(S) \in Nat /\ Cardinality(S) <= Cardinality(Validation!Admitted)
         /\ \A S \in SUBSET Threads : Cardinality(S) \in Nat /\ Cardinality(S) <= Cardinality(Threads)
<1>1. IsFiniteSet(Threads) BY ValidationSets DEF Validation!ValidationAssumption
<1>2. Validation!Admitted \subseteq Threads BY DEF Validation!Admitted
<1>3. IsFiniteSet(Validation!Admitted) BY <1>1, <1>2, FS_Subset
<1> QED BY <1>1, <1>2, <1>3, FS_Subset, FS_CardinalityType

\* A step that adds no row and admits no thread keeps the bound on rows.
LEMMA SlackKept ==
  ASSUME Validation!ValidationAssumption, Validation!IInv, Len(valRuns') = Len(valRuns),
         Validation!Admitted' \subseteq Validation!Admitted
  PROVE  Validation!SlackBounded'
<1>1. Cardinality(Validation!Admitted') \in Nat /\ Cardinality(Validation!Admitted') <= Cardinality(Validation!Admitted)
  BY Counted
<1>2. Len(valRuns) \in Nat BY DEF Validation!IInv, Validation!TypeOK
<1>3. Len(valRuns) + Cardinality(Validation!Admitted) <= ValidationLimit + Cardinality(Threads) - 1
  BY ValidationSets DEF Validation!IInv, Validation!SlackBounded
<1>4. ValidationLimit \in Nat BY DEF Validation!ValidationAssumption
<1> QED BY <1>1, <1>2, <1>3, <1>4, Counted, ValidationSets DEF Validation!SlackBounded

\* The types the invariant of the validation runs gives.
LEMMA Types ==
  ASSUME Validation!IInv
  PROVE  /\ valRuns \in Seq(Validation!ValidationRun) /\ valPc \in [Threads -> Validation!Locations]
         /\ allowed \in [Threads -> BOOLEAN] /\ valJob \in [Threads -> Nat]
         /\ \A i \in DOMAIN valRuns : valRuns[i] \in Validation!ValidationRun
         /\ \A t \in Threads : valPc[t] \notin {"idle", "admitted"} => valJob[t] \in DOMAIN valRuns
         /\ \A t \in Threads : valPc[t] \in {"idle", "admitted"} => valJob[t] = 0
<1>1. valRuns \in Seq(Validation!ValidationRun) /\ valPc \in [Threads -> Validation!Locations]
      /\ allowed \in [Threads -> BOOLEAN] /\ valJob \in [Threads -> Nat]
  BY DEF Validation!IInv, Validation!TypeOK
<1>2. \A i \in DOMAIN valRuns : valRuns[i] \in Validation!ValidationRun BY <1>1
<1> QED BY <1>1, <1>2 DEF Validation!IInv, Validation!TypeOK

\* A thread that ends its request at row i, or never had one.
LEMMA DoneKeeps ==
  ASSUME Validation!ValidationAssumption, Validation!IInv, NEW t \in Threads, Validation!Done(t),
         valRuns' \in Seq(Validation!ValidationRun), DOMAIN valRuns \subseteq DOMAIN valRuns',
         Len(valRuns') = Len(valRuns) \/ (Len(valRuns') = Len(valRuns) + 1 /\ valPc[t] = "admitted"),
         \A i \in DOMAIN valRuns' : Validation!RowHonest(valRuns'[i]),
         \A i \in DOMAIN valRuns : (\E u \in Threads \ {t} : valPc[u] \in Validation!Working /\ valJob[u] = i) => valRuns'[i] = valRuns[i]
  PROVE  Validation!IInv'
<1> USE Types
<1>1. valPc' \in [Threads -> Validation!Locations] /\ allowed' \in [Threads -> BOOLEAN] /\ valJob' \in [Threads -> Nat]
  BY DEF Validation!Done, Validation!Goto, Validation!Locations
<1>2. valPc'[t] = "idle" /\ valJob'[t] = 0 /\ \A u \in Threads : u # t => valPc'[u] = valPc[u] /\ valJob'[u] = valJob[u]
  BY DEF Validation!Done, Validation!Goto
<1>3. Validation!TypeOK'
  <2>1. \A u \in Threads : IF valPc'[u] \in {"idle", "admitted"} THEN valJob'[u] = 0
                           ELSE valJob'[u] \in DOMAIN valRuns'
    BY <1>2
  <2> QED BY <1>1, <2>1 DEF Validation!TypeOK
<1>4. Validation!OneWorker'
  <2>1. \A u \in Threads : valPc'[u] \in Validation!Working => u # t /\ valPc[u] \in Validation!Working /\ valJob'[u] = valJob[u] /\ valPc'[u] = valPc[u]
                                                /\ valJob[u] \in DOMAIN valRuns
    BY <1>2 DEF Validation!Working
  <2>2. \A u \in Threads : valPc'[u] \in Validation!Working => valRuns'[valJob[u]] = valRuns[valJob[u]]
    BY <2>1
  <2> QED BY <2>1, <2>2 DEF Validation!OneWorker, Validation!IInv
<1>5. Validation!SlackBounded'
  <2>1. Validation!Admitted' = Validation!Admitted \ {t} BY <1>2 DEF Validation!Admitted
  <2>2. CASE Len(valRuns') = Len(valRuns) BY <2>1, <2>2, SlackKept
  <2>3. CASE Len(valRuns') = Len(valRuns) + 1 /\ valPc[t] = "admitted"
    <3>1. t \in Validation!Admitted BY <2>3 DEF Validation!Admitted
    <3>2. Cardinality(Validation!Admitted') = Cardinality(Validation!Admitted) - 1
      BY <2>1, <3>1, Counted, FS_RemoveElement
    <3>3. Len(valRuns) \in Nat /\ ValidationLimit \in Nat BY DEF Validation!ValidationAssumption
    <3>4. Len(valRuns) + Cardinality(Validation!Admitted) <= ValidationLimit + Cardinality(Threads) - 1
      BY ValidationSets DEF Validation!IInv, Validation!SlackBounded
    <3> QED BY <2>3, <3>2, <3>3, <3>4, Counted, ValidationSets DEF Validation!SlackBounded
  <2> QED BY <2>2, <2>3
<1> QED BY <1>1, <1>3, <1>4, <1>5 DEF Validation!IInv

\* A thread past its claim works on its row: the row it leaves is r.
LEMMA WorkKeeps ==
  ASSUME Validation!ValidationAssumption, Validation!IInv, NEW t \in Threads,
         NEW r \in Validation!ValidationRun, NEW to \in Validation!Working,
         valPc[t] \notin {"idle", "admitted"},
         valPc[t] \in Validation!Working \/ valRuns[valJob[t]].status = "pending_approval",
         valRuns' = [valRuns EXCEPT ![valJob[t]] = r], Validation!RowHonest(r), r.status = "running",
         r.probes = IF to = "claimed" THEN 0 ELSE 1, to = "stored" => r.evidence,
         valPc' = [valPc EXCEPT ![t] = to], UNCHANGED <<valJob, allowed>>
  PROVE  Validation!IInv'
<1> USE Types
<1>1. valJob[t] \in DOMAIN valRuns OBVIOUS
<1>2. /\ valRuns' \in Seq(Validation!ValidationRun) /\ DOMAIN valRuns' = DOMAIN valRuns /\ Len(valRuns') = Len(valRuns)
      /\ valRuns'[valJob[t]] = r /\ \A j \in DOMAIN valRuns : j # valJob[t] => valRuns'[j] = valRuns[j]
      /\ \A j \in DOMAIN valRuns' : Validation!RowHonest(valRuns'[j])
  BY <1>1, RowChanged
<1>3. valPc' \in [Threads -> Validation!Locations] BY DEF Validation!Working, Validation!Locations
<1>4. valPc'[t] = to /\ \A u \in Threads : u # t => valPc'[u] = valPc[u] OBVIOUS
<1>5. Validation!TypeOK'
  <2>1. \A u \in Threads : IF valPc'[u] \in {"idle", "admitted"} THEN valJob'[u] = 0
                           ELSE valJob'[u] \in DOMAIN valRuns'
    BY <1>1, <1>2, <1>4 DEF Validation!Working
  <2> QED BY <1>2, <1>3, <2>1 DEF Validation!TypeOK
<1>6. \A u \in Threads : u # t /\ valPc[u] \in Validation!Working => valJob[u] # valJob[t]
  BY DEF Validation!IInv, Validation!OneWorker
<1>7. Validation!OneWorker'
  <2>1. \A u \in Threads : valPc'[u] \in Validation!Working => u = t \/ (valPc[u] \in Validation!Working /\ valPc'[u] = valPc[u] /\ valJob[u] \in DOMAIN valRuns)
    BY <1>4 DEF Validation!Working
  <2>2. ASSUME NEW u \in Threads, valPc'[u] \in Validation!Working, u # t
        PROVE  /\ valRuns'[valJob'[u]].status = "running"
               /\ valRuns'[valJob'[u]].probes = IF valPc'[u] = "claimed" THEN 0 ELSE 1
               /\ valPc'[u] = "stored" => valRuns'[valJob'[u]].evidence
               /\ \A v \in Threads : valPc'[v] \in Validation!Working /\ valJob'[v] = valJob'[u] => v = u
    <3>1. valPc[u] \in Validation!Working /\ valPc'[u] = valPc[u] /\ valJob'[u] = valJob[u] /\ valRuns'[valJob[u]] = valRuns[valJob[u]]
      BY <1>2, <1>6, <2>1, <2>2
    <3>2. \A v \in Threads : valPc'[v] \in Validation!Working /\ valJob'[v] = valJob'[u] => v = u
      BY <1>6, <2>1, <2>2, <3>1 DEF Validation!IInv, Validation!OneWorker
    <3> QED BY <3>1, <3>2 DEF Validation!IInv, Validation!OneWorker
  <2>3. \A v \in Threads : valPc'[v] \in Validation!Working /\ valJob'[v] = valJob'[t] => v = t
    BY <1>6, <2>1
  <2> QED BY <1>2, <1>4, <2>2, <2>3 DEF Validation!OneWorker
<1>8. Validation!Admitted' \subseteq Validation!Admitted
  BY <1>4 DEF Validation!Admitted, Validation!Working
<1>9. Validation!SlackBounded' BY <1>2, <1>8, SlackKept
<1> QED BY <1>2, <1>5, <1>7, <1>9 DEF Validation!IInv

\* The row a worker is at.
LEMMA WorkRow ==
  ASSUME Validation!IInv, NEW t \in Threads, valPc[t] \in Validation!Working
  PROVE  /\ valJob[t] \in DOMAIN valRuns /\ valRuns[valJob[t]] \in Validation!ValidationRun /\ Validation!RowHonest(valRuns[valJob[t]])
         /\ valRuns[valJob[t]].status = "running"
         /\ valRuns[valJob[t]].probes = IF valPc[t] = "claimed" THEN 0 ELSE 1
         /\ valPc[t] = "stored" => valRuns[valJob[t]].evidence
         /\ \A u \in Threads \ {t} : valPc[u] \in Validation!Working => valJob[u] # valJob[t]
<1>1. valJob[t] \in DOMAIN valRuns BY Types DEF Validation!Working
<1>2. valRuns[valJob[t]] \in Validation!ValidationRun /\ Validation!RowHonest(valRuns[valJob[t]])
  BY <1>1, Types DEF Validation!IInv
<1> QED BY <1>1, <1>2 DEF Validation!IInv, Validation!OneWorker

\* A worker ends its request with row r.
LEMMA EndKeeps ==
  ASSUME Validation!ValidationAssumption, Validation!IInv, NEW t \in Threads,
         valPc[t] \in Validation!Working,
         NEW r \in Validation!ValidationRun, Validation!RowHonest(r), valRuns' = [valRuns EXCEPT ![valJob[t]] = r], Validation!Done(t)
  PROVE  Validation!IInv'
<1>1. valJob[t] \in DOMAIN valRuns /\ \A u \in Threads \ {t} : valPc[u] \in Validation!Working => valJob[u] # valJob[t]
  BY WorkRow
<1>2. /\ valRuns' \in Seq(Validation!ValidationRun) /\ DOMAIN valRuns' = DOMAIN valRuns /\ Len(valRuns') = Len(valRuns)
      /\ \A j \in DOMAIN valRuns : j # valJob[t] => valRuns'[j] = valRuns[j]
      /\ \A j \in DOMAIN valRuns' : Validation!RowHonest(valRuns'[j])
  BY <1>1, RowChanged
<1> QED BY <1>1, <1>2, DoneKeeps

\* The row that each step of a worker writes.
LEMMA WorkerWrites ==
  ASSUME Validation!IInv, NEW t \in Threads, valPc[t] \in Validation!Working
  PROVE  LET r == valRuns[valJob[t]]
         IN  /\ [r EXCEPT !.probes = @ + 1] \in Validation!ValidationRun /\ [r EXCEPT !.evidence = TRUE] \in Validation!ValidationRun
             /\ [r EXCEPT !.status = "failed"] \in Validation!ValidationRun
             /\ \A res \in Validation!Outcomes : [r EXCEPT !.status = "completed", !.outcome = res] \in Validation!ValidationRun
             /\ valPc[t] = "claimed" => Validation!RowHonest([r EXCEPT !.probes = @ + 1])
             /\ Validation!RowHonest([r EXCEPT !.evidence = TRUE]) /\ Validation!RowHonest([r EXCEPT !.status = "failed"])
             /\ valPc[t] = "stored" => \A res \in Validation!Outcomes :
                  Validation!RowHonest([r EXCEPT !.status = "completed", !.outcome = res])
             /\ [r EXCEPT !.probes = @ + 1].status = "running" /\ [r EXCEPT !.evidence = TRUE].status = "running"
             /\ [r EXCEPT !.probes = @ + 1].probes = r.probes + 1 /\ [r EXCEPT !.evidence = TRUE].probes = r.probes
             /\ [r EXCEPT !.evidence = TRUE].evidence
<1> DEFINE r == valRuns[valJob[t]]
<1>1. r \in Validation!ValidationRun /\ Validation!RowHonest(r) /\ r.status = "running"
      /\ r.probes = (IF valPc[t] = "claimed" THEN 0 ELSE 1) /\ (valPc[t] = "stored" => r.evidence)
  BY WorkRow
<1> HIDE DEF r
<1>2. /\ [r EXCEPT !.probes = @ + 1] \in Validation!ValidationRun /\ [r EXCEPT !.evidence = TRUE] \in Validation!ValidationRun
      /\ [r EXCEPT !.status = "failed"] \in Validation!ValidationRun
      /\ \A res \in Validation!Outcomes : [r EXCEPT !.status = "completed", !.outcome = res] \in Validation!ValidationRun
  <2>1. [r EXCEPT !.probes = @ + 1] \in Validation!ValidationRun
    BY <1>1 DEF Validation!ValidationRun
  <2>2. [r EXCEPT !.evidence = TRUE] \in Validation!ValidationRun
    BY <1>1 DEF Validation!ValidationRun
  <2>3. [r EXCEPT !.status = "failed"] \in Validation!ValidationRun
    BY <1>1 DEF Validation!ValidationRun, Validation!Statuses
  <2>4. ASSUME NEW res \in Validation!Outcomes
        PROVE  [r EXCEPT !.status = "completed", !.outcome = res] \in Validation!ValidationRun
    BY <1>1 DEF Validation!ValidationRun, Validation!Statuses
  <2> QED BY <2>1, <2>2, <2>3, <2>4
<1>3. valPc[t] = "claimed" => Validation!RowHonest([r EXCEPT !.probes = @ + 1])
  BY <1>1 DEF Validation!ValidationRun, Validation!RowHonest
<1>4. Validation!RowHonest([r EXCEPT !.evidence = TRUE]) /\ Validation!RowHonest([r EXCEPT !.status = "failed"])
  BY <1>1 DEF Validation!ValidationRun, Validation!RowHonest
<1>5. valPc[t] = "stored" => \A res \in Validation!Outcomes :
        Validation!RowHonest([r EXCEPT !.status = "completed", !.outcome = res])
  BY <1>1 DEF Validation!ValidationRun, Validation!RowHonest
<1>6. /\ [r EXCEPT !.probes = @ + 1].status = "running" /\ [r EXCEPT !.evidence = TRUE].status = "running"
      /\ [r EXCEPT !.probes = @ + 1].probes = r.probes + 1 /\ [r EXCEPT !.evidence = TRUE].probes = r.probes
      /\ [r EXCEPT !.evidence = TRUE].evidence
  BY <1>1 DEF Validation!ValidationRun
<1> QED BY <1>2, <1>3, <1>4, <1>5, <1>6 DEF r

\* Steps of a worker.
LEMMA WorkerKeeps ==
  ASSUME Validation!ValidationAssumption, Validation!IInv, NEW t \in Threads,
         Validation!Probe(t) \/ Validation!StoreEvidence(t) \/ Validation!Fail(t) \/ \E res \in Validation!Outcomes : Validation!Complete(t, res)
  PROVE  Validation!IInv'
<1> DEFINE r == valRuns[valJob[t]]
<1>1. valPc[t] \in Validation!Working
  BY DEF Validation!Probe, Validation!StoreEvidence, Validation!Fail, Validation!Complete,
     Validation!Working
<1>2. valJob[t] \in DOMAIN valRuns /\ r \in Validation!ValidationRun /\ r.probes = (IF valPc[t] = "claimed" THEN 0 ELSE 1)
  BY <1>1, WorkRow
<1>3. valRuns \in Seq(Validation!ValidationRun) BY Types
<1>4. CASE Validation!Probe(t)
  <2>1. valRuns' = [valRuns EXCEPT ![valJob[t]] = [r EXCEPT !.probes = @ + 1]] /\ valPc[t] = "claimed"
        /\ valPc' = [valPc EXCEPT ![t] = "probed"] /\ UNCHANGED <<valJob, allowed>>
    BY <1>2, <1>3, <1>4 DEF Validation!Probe, Validation!Goto
  <2> DEFINE n == [r EXCEPT !.probes = @ + 1]
  <2>2. n \in Validation!ValidationRun /\ Validation!RowHonest(n) /\ n.status = "running" /\ n.probes = 1
    <3>1. r.probes = 0 BY <1>2, <2>1
    <3>2. n \in Validation!ValidationRun /\ Validation!RowHonest(n) /\ n.status = "running" /\ n.probes = r.probes + 1
      BY <1>1, <2>1, WorkerWrites
    <3> QED BY <3>1, <3>2
  <2> HIDE DEF n, r
  <2>3. "probed" \in Validation!Working /\ valPc[t] \notin {"idle", "admitted"}
    BY <1>1 DEF Validation!Working
  <2>4. valRuns' = [valRuns EXCEPT ![valJob[t]] = n] BY <2>1 DEF n
  <2> QED BY <1>1, <2>1, <2>2, <2>3, <2>4, WorkKeeps
<1>5. CASE Validation!StoreEvidence(t)
  <2>1. valRuns' = [valRuns EXCEPT ![valJob[t]] = [r EXCEPT !.evidence = TRUE]] /\ valPc[t] = "probed"
        /\ valPc' = [valPc EXCEPT ![t] = "stored"] /\ UNCHANGED <<valJob, allowed>>
    BY <1>2, <1>3, <1>5 DEF Validation!StoreEvidence, Validation!Goto
  <2> DEFINE n == [r EXCEPT !.evidence = TRUE]
  <2>2. n \in Validation!ValidationRun /\ Validation!RowHonest(n) /\ n.status = "running" /\ n.probes = 1 /\ n.evidence
    BY <1>1, <1>2, <2>1, WorkerWrites
  <2> HIDE DEF n, r
  <2>3. "stored" \in Validation!Working /\ valPc[t] \notin {"idle", "admitted"}
    BY <1>1 DEF Validation!Working
  <2>4. valRuns' = [valRuns EXCEPT ![valJob[t]] = n] BY <2>1 DEF n
  <2> QED BY <1>1, <2>1, <2>2, <2>3, <2>4, WorkKeeps
<1>6. CASE Validation!Fail(t)
  <2>1. valRuns' = [valRuns EXCEPT ![valJob[t]] = [r EXCEPT !.status = "failed"]] /\ Validation!Done(t)
    BY <1>2, <1>3, <1>6 DEF Validation!Fail
  <2> QED BY <1>1, <2>1, WorkerWrites, EndKeeps
<1>7. ASSUME NEW res \in Validation!Outcomes, Validation!Complete(t, res) PROVE Validation!IInv'
  <2>1. valRuns' = [valRuns EXCEPT ![valJob[t]] = [r EXCEPT !.status = "completed", !.outcome = res]]
        /\ Validation!Done(t) /\ valPc[t] = "stored"
    BY <1>2, <1>3, <1>7 DEF Validation!Complete
  <2> QED BY <1>1, <2>1, WorkerWrites, EndKeeps
<1> QED BY <1>4, <1>5, <1>6, <1>7

\* A thread that moves without touching a row.
LEMMA MoveKeeps ==
  ASSUME Validation!ValidationAssumption, Validation!IInv, NEW t \in Threads, valPc[t] = "idle",
         UNCHANGED valRuns,
         NEW i \in Nat, valJob' = [valJob EXCEPT ![t] = i], allowed' \in [Threads -> BOOLEAN],
         \/ valPc' = [valPc EXCEPT ![t] = "loaded"] /\ i \in DOMAIN valRuns
         \/ valPc' = [valPc EXCEPT ![t] = "admitted"] /\ i = 0 /\ Len(valRuns) < ValidationLimit
  PROVE  Validation!IInv'
<1> USE Types
<1>1. valPc' \in [Threads -> Validation!Locations] /\ valJob' \in [Threads -> Nat]
  BY DEF Validation!Locations
<1>2. \A u \in Threads : u # t => valPc'[u] = valPc[u] /\ valJob'[u] = valJob[u] OBVIOUS
<1>3. valJob'[t] = i /\ \/ valPc'[t] = "loaded" /\ i \in DOMAIN valRuns
                        \/ valPc'[t] = "admitted" /\ i = 0 /\ Len(valRuns) < ValidationLimit
  OBVIOUS
<1>4. Validation!TypeOK'
  <2>1. \A u \in Threads : IF valPc'[u] \in {"idle", "admitted"} THEN valJob'[u] = 0
                           ELSE valJob'[u] \in DOMAIN valRuns'
    BY <1>2, <1>3
  <2> QED BY <1>1, <2>1 DEF Validation!TypeOK
<1>5. Validation!OneWorker'
  BY <1>2, <1>3 DEF Validation!IInv, Validation!OneWorker, Validation!Working
<1>6. Validation!SlackBounded'
  <2>1. CASE valPc'[t] = "loaded"
    <3>1. Validation!Admitted' \subseteq Validation!Admitted BY <1>2, <2>1 DEF Validation!Admitted
    <3> QED BY <3>1, SlackKept
  <2>2. CASE valPc'[t] # "loaded"
    <3>1. Validation!Admitted' \in SUBSET Threads /\ Len(valRuns) < ValidationLimit
      BY <1>3, <2>2 DEF Validation!Admitted
    <3>2. Cardinality(Validation!Admitted') \in Nat /\ Cardinality(Validation!Admitted') <= Cardinality(Threads)
          /\ Cardinality(Threads) \in Nat
      BY <3>1, Counted
    <3>3. ValidationLimit \in Nat /\ Len(valRuns) \in Nat BY DEF Validation!ValidationAssumption
    <3> QED BY <3>1, <3>2, <3>3, ValidationSets DEF Validation!SlackBounded
  <2> QED BY <2>1, <2>2
<1> QED BY <1>1, <1>4, <1>5, <1>6 DEF Validation!IInv

\* The inserted row, pending or denied, takes the place its thread was admitted to.
LEMMA InsertKeeps ==
  ASSUME Validation!ValidationAssumption, Validation!IInv, NEW t \in Threads,
         Validation!InsertRun(t)
  PROVE  Validation!IInv'
<1> DEFINE r == Validation!Row(IF allowed[t] THEN "pending_approval" ELSE "denied")
<1>1. r \in Validation!ValidationRun /\ Validation!RowHonest(r)
  BY DEF Validation!Row, Validation!ValidationRun, Validation!RowHonest, Validation!Statuses
<1>2. valRuns' = Append(valRuns, r) /\ Validation!Done(t) /\ valPc[t] = "admitted"
  BY DEF Validation!InsertRun
<1> HIDE DEF r
<1>3. /\ valRuns' \in Seq(Validation!ValidationRun) /\ Len(valRuns') = Len(valRuns) + 1
      /\ DOMAIN valRuns \subseteq DOMAIN valRuns' /\ \A j \in DOMAIN valRuns : valRuns'[j] = valRuns[j]
      /\ \A j \in DOMAIN valRuns' : Validation!RowHonest(valRuns'[j])
  BY <1>1, <1>2, RowAdded
<1> QED BY <1>2, <1>3, DoneKeeps

\* What a claim writes, and to which row.
LEMMA ClaimWrites ==
  ASSUME Validation!IInv, NEW t \in Threads, Validation!Claim(t)
  PROVE  \E r \in Validation!ValidationRun :
           /\ valJob[t] \in DOMAIN valRuns /\ valRuns' = [valRuns EXCEPT ![valJob[t]] = r] /\ Validation!RowHonest(r)
           /\ r.status = IF allowed[t] THEN "running" ELSE "denied"
           /\ r.probes = 0 /\ valRuns[valJob[t]].probes = 0
           /\ valRuns[valJob[t]].status = "pending_approval" /\ valPc[t] = "loaded"
<1> DEFINE o == valRuns[valJob[t]]
           s == IF allowed[t] THEN "running" ELSE "denied"
           r == [o EXCEPT !.status = s, !.approvals = @ + 1]
<1>1. valPc[t] = "loaded" /\ o.status = "pending_approval" BY DEF Validation!Claim
<1>2. valJob[t] \in DOMAIN valRuns /\ valRuns \in Seq(Validation!ValidationRun) /\ o \in Validation!ValidationRun
  BY <1>1, Types
<1>3. Validation!RowHonest(o) BY <1>2 DEF Validation!IInv
<1>4. valRuns' = [valRuns EXCEPT ![valJob[t]] = r] BY <1>2 DEF Validation!Claim
<1> HIDE DEF o
<1>8. s \in {"running", "denied"} /\ s \in Validation!Statuses BY DEF Validation!Statuses
<1> HIDE DEF s
<1>5. r \in Validation!ValidationRun
  <2>1. [o EXCEPT !.status = s] \in Validation!ValidationRun
    BY <1>2, <1>8 DEF Validation!ValidationRun
  <2>2. o.approvals + 1 \in Nat BY <1>2 DEF Validation!ValidationRun
  <2> QED BY <2>1, <2>2 DEF Validation!ValidationRun
<1>6. Validation!RowHonest(r)
  BY <1>1, <1>2, <1>3, <1>8 DEF Validation!RowHonest, Validation!ValidationRun
<1>7. r.status = s /\ r.probes = 0 /\ o.probes = 0
  BY <1>1, <1>2, <1>3 DEF Validation!RowHonest, Validation!ValidationRun
<1> QED BY <1>1, <1>2, <1>4, <1>5, <1>6, <1>7 DEF o, s

\* An approval turns a pending row into a running one, or refuses it.
LEMMA ClaimKeeps ==
  ASSUME Validation!ValidationAssumption, Validation!IInv, NEW t \in Threads, Validation!Claim(t)
  PROVE  Validation!IInv'
<1>1. PICK r \in Validation!ValidationRun :
           /\ valJob[t] \in DOMAIN valRuns /\ valRuns' = [valRuns EXCEPT ![valJob[t]] = r] /\ Validation!RowHonest(r)
           /\ r.status = IF allowed[t] THEN "running" ELSE "denied"
           /\ r.probes = 0 /\ valRuns[valJob[t]].status = "pending_approval" /\ valPc[t] = "loaded"
  BY ClaimWrites
<1>2. CASE allowed[t]
  <2>1. valPc' = [valPc EXCEPT ![t] = "claimed"] /\ UNCHANGED <<valJob, allowed>>
    BY <1>2 DEF Validation!Claim, Validation!Goto
  <2>2. "claimed" \in Validation!Working BY DEF Validation!Working
  <2> QED BY <1>1, <1>2, <2>1, <2>2, WorkKeeps
<1>3. CASE ~allowed[t]
  <2>1. Validation!Done(t) BY <1>3 DEF Validation!Claim
  <2>2. /\ valRuns' \in Seq(Validation!ValidationRun) /\ DOMAIN valRuns' = DOMAIN valRuns /\ Len(valRuns') = Len(valRuns)
        /\ \A j \in DOMAIN valRuns : j # valJob[t] => valRuns'[j] = valRuns[j]
        /\ \A j \in DOMAIN valRuns' : Validation!RowHonest(valRuns'[j])
    BY <1>1, RowChanged
  <2>3. \A u \in Threads : valPc[u] \in Validation!Working => valJob[u] # valJob[t]
    BY <1>1 DEF Validation!IInv, Validation!OneWorker
  <2> QED BY <2>1, <2>2, <2>3, DoneKeeps
<1> QED BY <1>2, <1>3

\* recover_interrupted_runs
LEMMA RestartRows ==
  ASSUME Validation!IInv, Validation!Restart
  PROVE  /\ valRuns' \in Seq(Validation!ValidationRun) /\ DOMAIN valRuns' = DOMAIN valRuns /\ Len(valRuns') = Len(valRuns)
         /\ \A i \in DOMAIN valRuns : /\ Validation!RowHonest(valRuns'[i]) /\ valRuns'[i].probes = valRuns[i].probes
                                      /\ valRuns'[i].status = IF valRuns[i].status = "running" THEN "failed"
                                                           ELSE valRuns[i].status
<1>1. valRuns' = [i \in DOMAIN valRuns |-> Validation!Recovered(valRuns[i])]
  BY DEF Validation!Restart
<1>2. valRuns \in Seq(Validation!ValidationRun) /\ \A i \in DOMAIN valRuns : valRuns[i] \in Validation!ValidationRun /\ Validation!RowHonest(valRuns[i])
  BY Types DEF Validation!IInv
<1>3. ASSUME NEW i \in DOMAIN valRuns
      PROVE  /\ Validation!Recovered(valRuns[i]) \in Validation!ValidationRun /\ Validation!RowHonest(Validation!Recovered(valRuns[i]))
             /\ Validation!Recovered(valRuns[i]).probes = valRuns[i].probes
             /\ Validation!Recovered(valRuns[i]).status = IF valRuns[i].status = "running" THEN "failed"
                                            ELSE valRuns[i].status
  <2> DEFINE r == valRuns[i]
  <2>1. r \in Validation!ValidationRun /\ Validation!RowHonest(r) BY <1>2
  <2> HIDE DEF r
  <2>2. /\ Validation!Recovered(r) \in Validation!ValidationRun /\ Validation!RowHonest(Validation!Recovered(r)) /\ Validation!Recovered(r).probes = r.probes
        /\ Validation!Recovered(r).status = IF r.status = "running" THEN "failed" ELSE r.status
    BY <2>1 DEF Validation!Recovered, Validation!ValidationRun, Validation!RowHonest,
       Validation!Statuses
  <2> QED BY <2>2 DEF r
<1>4. DOMAIN valRuns = 1..Len(valRuns) /\ Len(valRuns) \in Nat BY <1>2
<1>5. valRuns' \in [1..Len(valRuns) -> Validation!ValidationRun] BY <1>1, <1>3, <1>4
<1>6. valRuns' \in Seq(Validation!ValidationRun) /\ Len(valRuns') = Len(valRuns) BY <1>4, <1>5
<1> QED BY <1>1, <1>3, <1>4, <1>5, <1>6

\* A restart fails what was running and forgets every thread.
LEMMA RestartKeeps ==
  ASSUME Validation!ValidationAssumption, Validation!IInv, Validation!Restart
  PROVE  Validation!IInv'
<1>1. /\ valRuns' \in Seq(Validation!ValidationRun) /\ Len(valRuns') = Len(valRuns) /\ DOMAIN valRuns' = DOMAIN valRuns
      /\ \A i \in DOMAIN valRuns : Validation!RowHonest(valRuns'[i])
  BY RestartRows
<1>2. valPc' = [t \in Threads |-> "idle"] /\ valJob' = [t \in Threads |-> 0]
      /\ allowed' = [t \in Threads |-> FALSE]
  BY DEF Validation!Restart
<1>3. Validation!TypeOK' BY <1>1, <1>2 DEF Validation!TypeOK, Validation!Locations
<1>4. Validation!OneWorker' BY <1>2 DEF Validation!OneWorker, Validation!Working
<1>5. Validation!Admitted' \subseteq Validation!Admitted BY <1>2 DEF Validation!Admitted
<1>6. Validation!SlackBounded' BY <1>1, <1>5, SlackKept
<1> QED BY <1>1, <1>2, <1>3, <1>4, <1>6 DEF Validation!IInv

\* No row and no request yet.
LEMMA ValidationInit ==
  ASSUME Validation!ValidationAssumption, Validation!Init
  PROVE  Validation!IInv
<1>1. Validation!Admitted = {} BY DEF Validation!Init, Validation!Admitted
<1>2. Cardinality(Validation!Admitted) = 0 BY <1>1, FS_EmptySet
<1>3. Len(valRuns) = 0 /\ DOMAIN valRuns = {} /\ valRuns \in Seq(Validation!ValidationRun)
  BY DEF Validation!Init
<1>4. Validation!TypeOK /\ valJob \in [Threads -> Nat] /\ Validation!OneWorker
  BY <1>3 DEF Validation!Init, Validation!TypeOK, Validation!Locations, Validation!OneWorker,
     Validation!Working
<1>5. Validation!SlackBounded
  BY <1>2, <1>3, Counted, ValidationSets DEF Validation!SlackBounded,
     Validation!ValidationAssumption
<1> QED BY <1>3, <1>4, <1>5 DEF Validation!IInv

\* Every step of the validation runs keeps their invariant.
LEMMA ValidationNext ==
  ASSUME Validation!ValidationAssumption, Validation!IInv, inScope \in BOOLEAN,
         [Validation!Next]_Validation!vars
  PROVE  Validation!IInv' /\ inScope' \in BOOLEAN
<1> USE Types
<1>1. ASSUME UNCHANGED <<valRuns, valPc, valJob, allowed>> PROVE Validation!IInv'
  <2>1. Validation!Admitted' \subseteq Validation!Admitted BY <1>1 DEF Validation!Admitted
  <2>2. Validation!SlackBounded' BY <1>1, <2>1, SlackKept
  <2>3. Validation!TypeOK' /\ Validation!OneWorker'
    BY <1>1 DEF Validation!IInv, Validation!TypeOK, Validation!OneWorker
  <2> QED BY <1>1, <2>2, <2>3 DEF Validation!IInv
<1>2. ASSUME NEW t \in Threads, UNCHANGED valRuns, Validation!Done(t) PROVE Validation!IInv'
  <2>1. \A i \in DOMAIN valRuns' : Validation!RowHonest(valRuns'[i]) BY <1>2 DEF Validation!IInv
  <2> QED BY <1>2, <2>1, DoneKeeps
<1>3. ASSUME NEW t \in Threads, Validation!Admit(t) PROVE Validation!IInv'
  <2>1. valPc[t] = "idle" /\ valJob' = valJob /\ valPc' = [valPc EXCEPT ![t] = "admitted"] /\ valRuns' = valRuns
        /\ Len(valRuns) < ValidationLimit /\ allowed' = [allowed EXCEPT ![t] = inScope]
    BY <1>3 DEF Validation!Admit, Validation!Goto, Validation!Evaluated,
       Validation!_within_validation_limit
  <2>2. valJob' = [valJob EXCEPT ![t] = 0] BY <2>1
  <2>3. allowed' \in [Threads -> BOOLEAN] BY <2>1
  <2> QED BY <2>1, <2>2, <2>3, MoveKeeps
<1>4. ASSUME NEW t \in Threads, NEW i \in DOMAIN valRuns, Validation!Load(t, i)
      PROVE  Validation!IInv'
  <2>1. valPc[t] = "idle" /\ valJob' = [valJob EXCEPT ![t] = i] /\ valPc' = [valPc EXCEPT ![t] = "loaded"]
        /\ valRuns' = valRuns /\ allowed' = [allowed EXCEPT ![t] = inScope] /\ i \in Nat
    BY <1>4 DEF Validation!Load, Validation!Goto, Validation!Evaluated
  <2>2. allowed' \in [Threads -> BOOLEAN] BY <2>1
  <2> QED BY <2>1, <2>2, MoveKeeps
<1>5. ASSUME UNCHANGED Validation!vars \/ Validation!ChangeScope \/ Validation!Revoke
      PROVE  Validation!IInv'
  BY <1>1, <1>5 DEF Validation!vars, Validation!threadVars, Validation!ChangeScope,
     Validation!Revoke
<1>6. ASSUME NEW t \in Threads, Validation!Reject(t) \/ Validation!Lose(t) PROVE Validation!IInv'
  BY <1>2, <1>6 DEF Validation!Reject, Validation!Lose
<1>7. ASSUME NEW t \in Threads, Validation!ThreadStep(t) PROVE Validation!IInv'
  BY <1>6, <1>7, InsertKeeps, ClaimKeeps, WorkerKeeps DEF Validation!ThreadStep
<1>8. inScope' \in BOOLEAN
  BY DEF Validation!Next, Validation!vars, Validation!envVars, Validation!ThreadStep,
     Validation!Admit, Validation!InsertRun, Validation!Load, Validation!Claim,
     Validation!Reject, Validation!Probe,
     Validation!StoreEvidence, Validation!Complete, Validation!Fail, Validation!Lose, Validation!Restart, Validation!ChangeScope, Validation!Revoke
<1>9. Validation!IInv' BY <1>3, <1>4, <1>5, <1>6, <1>7, RestartKeeps DEF Validation!Next
<1> QED BY <1>8, <1>9

\* What the invariant says of the rows.
LEMMA HonestFollows ==
  ASSUME Validation!ValidationAssumption, Validation!IInv
  PROVE  Validation!ValidationHonest
<1>1. \A i \in DOMAIN valRuns : valRuns[i] \in Validation!ValidationRun /\ Validation!RowHonest(valRuns[i])
  BY Types DEF Validation!IInv
<1>2. Validation!ContactAudited BY <1>1 DEF Validation!ContactAudited, Validation!RowHonest
<1>3. Validation!RowsAreHonest BY <1>1 DEF Validation!RowsAreHonest, Validation!RowHonest
<1> QED BY <1>2, <1>3 DEF Validation!ValidationHonest

-----------------------------------------------------------------------------
(* The approval gate *)

\* Every row has a place among the gate's requests, and there is one to spare.
LEMMA RowsAreRequests ==
  ASSUME Validation!ValidationAssumption, Validation!IInv
  PROVE  /\ DOMAIN valRuns \subseteq Validation!Requests
         /\ \A i \in DOMAIN valRuns : valRuns[i].status \in Validation!Statuses
         /\ \A t \in Threads : valPc[t] = "admitted" => Len(valRuns) + 1 \in Validation!Requests
<1>1. Len(valRuns) + Cardinality(Validation!Admitted) <= ValidationLimit + Cardinality(Threads) - 1
  BY ValidationSets DEF Validation!IInv, Validation!SlackBounded
<1>2. Len(valRuns) \in Nat /\ ValidationLimit \in Nat /\ DOMAIN valRuns = 1..Len(valRuns)
  BY Types DEF Validation!ValidationAssumption
<1>3. Len(valRuns) + 1 \in Validation!Requests
  BY <1>1, <1>2, Counted, ValidationSets DEF Validation!Requests
<1>4. DOMAIN valRuns \subseteq Validation!Requests
  BY <1>1, <1>2, Counted, ValidationSets DEF Validation!Requests
<1> QED BY <1>3, <1>4, Types DEF Validation!ValidationRun

\* The gate's phase of each status.
LEMMA Phases ==
  /\ Validation!PhaseOf("pending_approval") = "pending" /\ Validation!PhaseOf("denied") = "refused"
  /\ Validation!PhaseOf("running") = "approved" /\ Validation!PhaseOf("completed") = "closed"
  /\ Validation!PhaseOf("failed") = "closed"
BY DEF Validation!PhaseOf

\* One request changes its phase, one is contacted, some end together.
LEMMA PhaseStep ==
  ASSUME NEW i \in Validation!Requests, NEW ph, Validation!GatePhase(i)' = ph,
         \A j \in Validation!Requests : j # i => Validation!GatePhase(j)' = Validation!GatePhase(j)
  PROVE  Validation!Gate!SetPhase(i, ph)
BY DEF Validation!Gate!SetPhase

\* Inserting a row is the gate's request.
LEMMA InsertAsks ==
  ASSUME Validation!ValidationAssumption, Validation!IInv, NEW t \in Threads,
         Validation!InsertRun(t)
  PROVE  Validation!Gate!Next
<1> DEFINE r == Validation!Row(IF allowed[t] THEN "pending_approval" ELSE "denied")
<1>1. r \in Validation!ValidationRun /\ Validation!RowHonest(r) /\ r.probes = 0 /\ r.status \in {"pending_approval", "denied"}
  BY DEF Validation!Row, Validation!ValidationRun, Validation!RowHonest, Validation!Statuses
<1>2. valRuns' = Append(valRuns, r) /\ valPc[t] = "admitted" BY DEF Validation!InsertRun
<1> HIDE DEF r
<1>3. PICK q \in Validation!Requests :
        /\ DOMAIN valRuns' = DOMAIN valRuns \cup {q} /\ q \notin DOMAIN valRuns
        /\ valRuns'[q] = r /\ \A j \in DOMAIN valRuns : valRuns'[j] = valRuns[j]
  BY <1>1, <1>2, RowAdded, RowsAreRequests
<1>5. Validation!GatePhase(q) = "none" /\ Validation!GatePhase(q)' \in {"pending", "refused"}
  BY <1>1, <1>3, Phases DEF Validation!GatePhase
<1>6. \A j \in Validation!Requests : j # q => Validation!GatePhase(j)' = Validation!GatePhase(j)
  BY <1>3 DEF Validation!GatePhase
<1>7. Validation!Gate!SetPhase(q, "pending") \/ Validation!Gate!SetPhase(q, "refused")
  BY <1>5, <1>6, PhaseStep
<1>8. \A j \in Validation!Requests : Validation!Contacts(j)' = Validation!Contacts(j)
  BY <1>1, <1>3 DEF Validation!Contacts
<1>9. Validation!Gate!Ask(q) BY <1>5, <1>7, <1>8 DEF Validation!Gate!Ask
<1> QED BY <1>9 DEF Validation!Gate!Next

\* A claim is the gate's approval of a pending request, or its refusal.
LEMMA ClaimAnswers ==
  ASSUME Validation!ValidationAssumption, Validation!IInv, NEW t \in Threads, Validation!Claim(t)
  PROVE  Validation!Gate!Next
<1>1. PICK r \in Validation!ValidationRun, q \in Validation!Requests :
           /\ q = valJob[t] /\ q \in DOMAIN valRuns /\ valRuns' = [valRuns EXCEPT ![q] = r] /\ Validation!RowHonest(r)
           /\ r.status \in {"running", "denied"}
           /\ r.probes = 0 /\ valRuns[q].probes = 0 /\ valRuns[q].status = "pending_approval"
  BY ClaimWrites, RowsAreRequests
<1>2. /\ DOMAIN valRuns' = DOMAIN valRuns
      /\ valRuns'[q] = r /\ \A j \in DOMAIN valRuns : j # q => valRuns'[j] = valRuns[j]
  BY <1>1, RowChanged
<1>3. Validation!GatePhase(q) = "pending" /\ Validation!GatePhase(q)' \in {"approved", "refused"}
  BY <1>1, <1>2, Phases DEF Validation!GatePhase
<1>4. \A j \in Validation!Requests : j # q => Validation!GatePhase(j)' = Validation!GatePhase(j)
  BY <1>2 DEF Validation!GatePhase
<1>5. Validation!Gate!SetPhase(q, "approved") \/ Validation!Gate!SetPhase(q, "refused")
  BY <1>3, <1>4, PhaseStep
<1>6. \A j \in Validation!Requests : Validation!Contacts(j)' = Validation!Contacts(j)
  BY <1>1, <1>2 DEF Validation!Contacts
<1>7. Validation!Gate!Answer(q) BY <1>3, <1>5, <1>6 DEF Validation!Gate!Answer
<1> QED BY <1>7 DEF Validation!Gate!Next

\* A row and its replacement, as the gate sees them.
LEMMA WorkerSeen ==
  ASSUME Validation!ValidationAssumption, Validation!IInv, NEW t \in Threads,
         valPc[t] \in Validation!Working,
         NEW r \in Validation!ValidationRun, Validation!RowHonest(r), valRuns' = [valRuns EXCEPT ![valJob[t]] = r]
  PROVE  \E q \in Validation!Requests :
           /\ q = valJob[t] /\ Validation!GatePhase(q) = "approved" /\ Validation!GatePhase(q)' = Validation!PhaseOf(r.status)
           /\ Validation!Contacts(q) = IF valPc[t] = "claimed" THEN 0 ELSE 1
           /\ Validation!Contacts(q)' = r.probes
           /\ \A j \in Validation!Requests : j # q => Validation!GatePhase(j)' = Validation!GatePhase(j) /\ Validation!Contacts(j)' = Validation!Contacts(j)
<1>1. PICK q \in Validation!Requests : q = valJob[t] BY WorkRow, RowsAreRequests
<1>2. /\ q \in DOMAIN valRuns /\ valRuns[q].status = "running"
      /\ valRuns[q].probes = IF valPc[t] = "claimed" THEN 0 ELSE 1
  BY <1>1, WorkRow
<1>3. /\ DOMAIN valRuns' = DOMAIN valRuns
      /\ valRuns'[q] = r /\ \A j \in DOMAIN valRuns : j # q => valRuns'[j] = valRuns[j]
  BY <1>1, <1>2, RowChanged
<1>4. Validation!GatePhase(q) = "approved" /\ Validation!GatePhase(q)' = Validation!PhaseOf(r.status)
  BY <1>2, <1>3, Phases DEF Validation!GatePhase
<1>5. Validation!Contacts(q) = (IF valPc[t] = "claimed" THEN 0 ELSE 1) /\ Validation!Contacts(q)' = r.probes
  BY <1>2, <1>3 DEF Validation!Contacts
<1>6. \A j \in Validation!Requests : j # q => Validation!GatePhase(j)' = Validation!GatePhase(j) /\ Validation!Contacts(j)' = Validation!Contacts(j)
  BY <1>3 DEF Validation!GatePhase, Validation!Contacts
<1> QED BY <1>1, <1>4, <1>5, <1>6

\* A worker that closes its row.
LEMMA EndCloses ==
  ASSUME Validation!ValidationAssumption, Validation!IInv, NEW t \in Threads,
         valPc[t] \in Validation!Working,
         NEW r \in Validation!ValidationRun, Validation!RowHonest(r), valRuns' = [valRuns EXCEPT ![valJob[t]] = r],
         r.status \in {"completed", "failed"}, r.probes = valRuns[valJob[t]].probes
  PROVE  Validation!Gate!Next
<1>1. PICK q \in Validation!Requests :
           /\ q = valJob[t] /\ Validation!GatePhase(q) = "approved" /\ Validation!GatePhase(q)' = Validation!PhaseOf(r.status)
           /\ Validation!Contacts(q) = IF valPc[t] = "claimed" THEN 0 ELSE 1
           /\ Validation!Contacts(q)' = r.probes
           /\ \A j \in Validation!Requests : j # q => Validation!GatePhase(j)' = Validation!GatePhase(j) /\ Validation!Contacts(j)' = Validation!Contacts(j)
  BY WorkerSeen
<1>2. Validation!GatePhase(q)' = "closed" BY <1>1, Phases
<1>3. \A j \in Validation!Requests : Validation!Contacts(j)' = Validation!Contacts(j)
  BY <1>1, WorkRow
<1>4. Validation!Gate!Close({q}) BY <1>1, <1>2, <1>3 DEF Validation!Gate!Close
<1> QED BY <1>4 DEF Validation!Gate!Next

\* The probe is the gate's contact; storing, completing and failing close the
\* request or are not seen by the gate.
LEMMA WorkerGate ==
  ASSUME Validation!ValidationAssumption, Validation!IInv, NEW t \in Threads,
         Validation!Probe(t) \/ Validation!StoreEvidence(t) \/ Validation!Fail(t) \/ \E res \in Validation!Outcomes : Validation!Complete(t, res)
  PROVE  [Validation!Gate!Next]_(Validation!Gate!gateVars)
<1> DEFINE r == valRuns[valJob[t]]
<1>1. valPc[t] \in Validation!Working
  BY DEF Validation!Probe, Validation!StoreEvidence, Validation!Fail, Validation!Complete,
     Validation!Working
<1>2. valJob[t] \in DOMAIN valRuns /\ r \in Validation!ValidationRun /\ r.probes = (IF valPc[t] = "claimed" THEN 0 ELSE 1)
  BY <1>1, WorkRow
<1>3. valRuns \in Seq(Validation!ValidationRun) BY Types
<1>4. CASE Validation!Probe(t)
  <2> DEFINE n == [r EXCEPT !.probes = @ + 1]
  <2>1. valRuns' = [valRuns EXCEPT ![valJob[t]] = n] /\ valPc[t] = "claimed"
    BY <1>2, <1>3, <1>4 DEF Validation!Probe
  <2>2. n \in Validation!ValidationRun /\ Validation!RowHonest(n) /\ n.status = "running" /\ n.probes = r.probes + 1
    BY <1>1, <2>1, WorkerWrites
  <2>3. n.probes = 1 BY <1>2, <2>1, <2>2
  <2> HIDE DEF n, r
  <2>4. PICK q \in Validation!Requests :
           /\ q = valJob[t] /\ Validation!GatePhase(q) = "approved" /\ Validation!GatePhase(q)' = Validation!PhaseOf(n.status)
           /\ Validation!Contacts(q) = IF valPc[t] = "claimed" THEN 0 ELSE 1
           /\ Validation!Contacts(q)' = n.probes
           /\ \A j \in Validation!Requests : j # q => Validation!GatePhase(j)' = Validation!GatePhase(j) /\ Validation!Contacts(j)' = Validation!Contacts(j)
    BY <1>1, <2>1, <2>2, WorkerSeen
  <2>5. \A j \in Validation!Requests : Validation!GatePhase(j)' = Validation!GatePhase(j)
    BY <2>2, <2>4, Phases
  <2>6. Validation!Contacts(q) = 0 /\ Validation!Contacts(q)' = 1 BY <2>1, <2>3, <2>4
  <2>7. Validation!Gate!Contact(q) BY <2>4, <2>5, <2>6 DEF Validation!Gate!Contact
  <2> QED BY <2>7 DEF Validation!Gate!Next
<1>5. CASE Validation!StoreEvidence(t)
  <2> DEFINE n == [r EXCEPT !.evidence = TRUE]
  <2>1. valRuns' = [valRuns EXCEPT ![valJob[t]] = n] /\ valPc[t] = "probed"
    BY <1>2, <1>3, <1>5 DEF Validation!StoreEvidence
  <2>2. n \in Validation!ValidationRun /\ Validation!RowHonest(n) /\ n.status = "running" /\ n.probes = r.probes
    BY <1>1, WorkerWrites
  <2>3. n.probes = 1 BY <1>2, <2>1, <2>2
  <2> HIDE DEF n, r
  <2>4. PICK q \in Validation!Requests :
           /\ q = valJob[t] /\ Validation!GatePhase(q) = "approved" /\ Validation!GatePhase(q)' = Validation!PhaseOf(n.status)
           /\ Validation!Contacts(q) = IF valPc[t] = "claimed" THEN 0 ELSE 1
           /\ Validation!Contacts(q)' = n.probes
           /\ \A j \in Validation!Requests : j # q => Validation!GatePhase(j)' = Validation!GatePhase(j) /\ Validation!Contacts(j)' = Validation!Contacts(j)
    BY <1>1, <2>1, <2>2, WorkerSeen
  <2>5. \A j \in Validation!Requests : Validation!GatePhase(j)' = Validation!GatePhase(j) /\ Validation!Contacts(j)' = Validation!Contacts(j)
    BY <2>1, <2>2, <2>3, <2>4, Phases
  <2> QED BY <2>5 DEF Validation!Gate!gateVars
<1>6. CASE Validation!Fail(t)
  <2> DEFINE n == [r EXCEPT !.status = "failed"]
  <2>1. valRuns' = [valRuns EXCEPT ![valJob[t]] = n]
    BY <1>2, <1>3, <1>6 DEF Validation!Fail
  <2>2. n \in Validation!ValidationRun /\ Validation!RowHonest(n) BY <1>1, WorkerWrites
  <2>3. n.status = "failed" /\ n.probes = r.probes BY <1>2 DEF Validation!ValidationRun
  <2> HIDE DEF n
  <2> QED BY <1>1, <2>1, <2>2, <2>3, EndCloses
<1>7. ASSUME NEW res \in Validation!Outcomes, Validation!Complete(t, res)
      PROVE  Validation!Gate!Next
  <2> DEFINE n == [r EXCEPT !.status = "completed", !.outcome = res]
  <2>1. valRuns' = [valRuns EXCEPT ![valJob[t]] = n] /\ valPc[t] = "stored"
    BY <1>2, <1>3, <1>7 DEF Validation!Complete
  <2>2. n \in Validation!ValidationRun /\ Validation!RowHonest(n) BY <1>1, <2>1, WorkerWrites
  <2>3. n.status = "completed" /\ n.probes = r.probes BY <1>2 DEF Validation!ValidationRun
  <2> HIDE DEF n
  <2> QED BY <1>1, <2>1, <2>2, <2>3, EndCloses
<1> QED BY <1>4, <1>5, <1>6, <1>7

\* A restart closes approved requests and nothing else.
LEMMA RestartCloses ==
  ASSUME Validation!ValidationAssumption, Validation!IInv, Validation!Restart
  PROVE  Validation!Gate!Next
<1> DEFINE Q == {i \in DOMAIN valRuns : valRuns[i].status = "running"}
<1>1. /\ DOMAIN valRuns' = DOMAIN valRuns
      /\ \A i \in DOMAIN valRuns : /\ valRuns'[i].probes = valRuns[i].probes
                                   /\ valRuns'[i].status = IF valRuns[i].status = "running" THEN "failed"
                                                        ELSE valRuns[i].status
  BY RestartRows
<1>2. Q \in SUBSET Validation!Requests BY RowsAreRequests
<1>3. \A j \in Validation!Requests : Validation!Contacts(j)' = Validation!Contacts(j)
  BY <1>1 DEF Validation!Contacts
<1>4. PICK S \in SUBSET Validation!Requests : S = Q BY <1>2
<1>5. \A j \in Validation!Requests : Validation!GatePhase(j)' = IF j \in S THEN "closed" ELSE Validation!GatePhase(j)
  BY <1>1, <1>4, Phases DEF Validation!GatePhase
<1>6. \A j \in S : Validation!GatePhase(j) = "approved" BY <1>4, Phases DEF Validation!GatePhase
<1>7. Validation!Gate!Close(S) BY <1>3, <1>5, <1>6 DEF Validation!Gate!Close
<1> QED BY <1>7 DEF Validation!Gate!Next

\* Without rows no request is known to the gate.
LEMMA ValidationGateInit == ASSUME Validation!Init PROVE Validation!Gate!Init
<1>1. DOMAIN valRuns = {} BY DEF Validation!Init
<1> QED BY <1>1 DEF Validation!Gate!Init, Validation!GatePhase, Validation!Contacts

\* Every step of the validation runs is a step of the gate, or none.
LEMMA ValidationGateNext ==
  ASSUME Validation!ValidationAssumption, Validation!IInv, [Validation!Next]_Validation!vars
  PROVE  [Validation!Gate!Next]_(Validation!Gate!gateVars)
<1>1. ASSUME UNCHANGED valRuns PROVE UNCHANGED Validation!Gate!gateVars
  BY <1>1 DEF Validation!Gate!gateVars, Validation!GatePhase, Validation!Contacts
<1>2. ASSUME NEW t \in Threads, Validation!ThreadStep(t)
      PROVE  [Validation!Gate!Next]_(Validation!Gate!gateVars)
  BY <1>1, <1>2, InsertAsks, ClaimAnswers, WorkerGate DEF Validation!ThreadStep, Validation!Reject
<1>3. \/ \E t \in Threads : Validation!ThreadStep(t)
      \/ Validation!Restart
      \/ UNCHANGED valRuns
  BY DEF Validation!Next, Validation!vars, Validation!Admit, Validation!Lose, Validation!Load,
     Validation!ChangeScope, Validation!Revoke
<1> QED BY <1>1, <1>2, <1>3, RestartCloses

-----------------------------------------------------------------------------
(* Intelligence *)

\* The rows: what a change of one row and a new row leave of them.
LEMMA AdviceRowChanged ==
  ASSUME Advice!IInv, NEW i \in DOMAIN advRuns, NEW r \in Advice!IntelligenceRun,
         Advice!RowHonest(r),
         advRuns' = [advRuns EXCEPT ![i] = r]
  PROVE  /\ advRuns' \in Seq(Advice!IntelligenceRun) /\ DOMAIN advRuns' = DOMAIN advRuns /\ Len(advRuns') = Len(advRuns)
         /\ advRuns'[i] = r /\ \A j \in DOMAIN advRuns : j # i => advRuns'[j] = advRuns[j]
         /\ \A j \in DOMAIN advRuns' : Advice!RowHonest(advRuns'[j])
<1>1. advRuns \in Seq(Advice!IntelligenceRun) /\ \A j \in DOMAIN advRuns : Advice!RowHonest(advRuns[j])
  BY DEF Advice!IInv, Advice!TypeOK
<1>2. advRuns' \in Seq(Advice!IntelligenceRun) /\ DOMAIN advRuns' = DOMAIN advRuns /\ Len(advRuns') = Len(advRuns)
  BY <1>1
<1>3. advRuns'[i] = r /\ \A j \in DOMAIN advRuns : j # i => advRuns'[j] = advRuns[j] BY <1>1
<1> QED BY <1>1, <1>2, <1>3

\* Appending a row keeps every other row where it was.
LEMMA AdviceRowAdded ==
  ASSUME Advice!IInv, NEW r \in Advice!IntelligenceRun, Advice!RowHonest(r),
         advRuns' = Append(advRuns, r)
  PROVE  /\ advRuns' \in Seq(Advice!IntelligenceRun) /\ Len(advRuns') = Len(advRuns) + 1 /\ Len(advRuns) \in Nat
         /\ DOMAIN advRuns' = DOMAIN advRuns \cup {Len(advRuns) + 1} /\ Len(advRuns) + 1 \notin DOMAIN advRuns
         /\ advRuns'[Len(advRuns) + 1] = r /\ \A j \in DOMAIN advRuns : advRuns'[j] = advRuns[j]
         /\ \A j \in DOMAIN advRuns' : Advice!RowHonest(advRuns'[j])
<1>1. advRuns \in Seq(Advice!IntelligenceRun) /\ \A j \in DOMAIN advRuns : Advice!RowHonest(advRuns[j])
  BY DEF Advice!IInv, Advice!TypeOK
<1>2. advRuns' \in Seq(Advice!IntelligenceRun) /\ Len(advRuns') = Len(advRuns) + 1 /\ Len(advRuns) \in Nat
  BY <1>1
<1>3. DOMAIN advRuns = 1..Len(advRuns) /\ DOMAIN advRuns' = 1..Len(advRuns') BY <1>1, <1>2
<1>4. DOMAIN advRuns' = DOMAIN advRuns \cup {Len(advRuns) + 1} /\ Len(advRuns) + 1 \notin DOMAIN advRuns
  BY <1>2, <1>3
<1>5. advRuns'[Len(advRuns) + 1] = r /\ \A j \in DOMAIN advRuns : advRuns'[j] = advRuns[j]
  BY <1>1, <1>3
<1>6. \A j \in DOMAIN advRuns' : Advice!RowHonest(advRuns'[j]) BY <1>1, <1>4, <1>5
<1> QED BY <1>2, <1>4, <1>5, <1>6

\* The types the invariant of the intelligence runs gives.
LEMMA AdviceTypes ==
  ASSUME Advice!IInv
  PROVE  /\ advRuns \in Seq(Advice!IntelligenceRun) /\ Advice!ThreadsTyped
         /\ Len(advRuns) \in Nat /\ DOMAIN advRuns = 1..Len(advRuns)
         /\ \A i \in DOMAIN advRuns : advRuns[i] \in Advice!IntelligenceRun /\ Advice!RowHonest(advRuns[i])
         /\ \A t \in Threads : advPc[t] \in {"loaded", "claimed", "answered"} => advJob[t] \in DOMAIN advRuns
         /\ \A t \in Threads : advPc[t] = "reserved" <=> advLock = t
<1>1. advRuns \in Seq(Advice!IntelligenceRun) BY DEF Advice!IInv, Advice!TypeOK
<1>2. \A i \in DOMAIN advRuns : advRuns[i] \in Advice!IntelligenceRun BY <1>1
<1>3. Len(advRuns) \in Nat /\ DOMAIN advRuns = 1..Len(advRuns) BY <1>1
<1> QED BY <1>1, <1>2, <1>3 DEF Advice!IInv, Advice!TypeOK

\* The reservation when no row is added and no request enters.
LEMMA ReservationKept ==
  ASSUME Advice!IInv, Len(advRuns') = Len(advRuns), Advice!Active' \subseteq Advice!Active,
         \A u \in Threads : advPc'[u] = "reserved" => advPc[u] = "reserved" /\ using'[u] = using[u]
  PROVE  Advice!ReservationHolds'
BY DEF Advice!IInv, Advice!ReservationHolds

\* A step that makes no row active makes no active row.
LEMMA ActiveShrinks ==
  ASSUME DOMAIN advRuns' = DOMAIN advRuns,
         \A i \in DOMAIN advRuns : advRuns'[i].status \in Advice!ACTIVE_STATUSES => advRuns[i].status \in Advice!ACTIVE_STATUSES
  PROVE  Advice!Active' \subseteq Advice!Active
BY DEF Advice!Active

\* A thread that ends its request.
LEMMA AdviceDoneKeeps ==
  ASSUME Advice!IntelligenceAssumption, Advice!IInv, NEW t \in Threads, Advice!Done(t),
         Advice!Released(t),
         Advice!ConfigTyped', Advice!ReservationHolds',
         advRuns' \in Seq(Advice!IntelligenceRun), DOMAIN advRuns \subseteq DOMAIN advRuns',
         \A i \in DOMAIN advRuns' : Advice!RowHonest(advRuns'[i]),
         \A i \in DOMAIN advRuns : advRuns'[i].provider = advRuns[i].provider,
         \A i \in DOMAIN advRuns : (\E u \in Threads \ {t} : advPc[u] \in Advice!Working /\ advJob[u] = i) => advRuns'[i] = advRuns[i]
  PROVE  Advice!IInv'
<1> USE AdviceTypes
<1>1. Advice!ThreadsTyped BY DEF Advice!IInv
<1>2. /\ advPc'[t] = "idle" /\ advJob'[t] = 0
      /\ \A u \in Threads : u # t => advPc'[u] = advPc[u] /\ advJob'[u] = advJob[u] /\ using'[u] = using[u]
  BY <1>1 DEF Advice!Done, Advice!Goto, Advice!ThreadsTyped
<1>3. Advice!ThreadsTyped'
  BY <1>1, <1>2 DEF Advice!Done, Advice!Goto, Advice!ThreadsTyped, Advice!Released,
     Advice!Locations
<1>4. 0 \notin DOMAIN advRuns'
  <2>1. DOMAIN advRuns' = 1..Len(advRuns') OBVIOUS
  <2> QED BY <2>1
<1>5. Advice!TypeOK'
  <2>1. \A u \in Threads : advPc'[u] = "reserved" <=> advLock' = u
    <3>1. \A u \in Threads : advPc[u] = "reserved" <=> advLock = u
      BY DEF Advice!IInv, Advice!TypeOK
    <3>2. CASE advLock = t
      BY <1>2, <3>1, <3>2 DEF Advice!Released, Advice!IntelligenceAssumption
    <3>3. CASE advLock # t
      BY <1>2, <3>1, <3>3 DEF Advice!Released
    <3> QED BY <3>2, <3>3
  <2>2. \A u \in Threads : advPc'[u] \in {"loaded", "claimed", "answered"} <=> advJob'[u] \in DOMAIN advRuns'
    BY <1>1, <1>2, <1>4 DEF Advice!ThreadsTyped, Advice!Locations, Advice!IInv, Advice!TypeOK
  <2> QED BY <2>1, <2>2 DEF Advice!TypeOK
<1>6. Advice!OneWorker'
  <2>1. ASSUME NEW u \in Threads, advPc'[u] \in Advice!Working \cup {"loaded"}
        PROVE  u # t /\ advPc'[u] = advPc[u] /\ advJob'[u] = advJob[u] /\ using'[u] = using[u] /\ advJob[u] \in DOMAIN advRuns
               /\ (advPc[u] \in Advice!Working => advRuns'[advJob[u]] = advRuns[advJob[u]])
    <3>1. u # t BY <1>2, <2>1 DEF Advice!Working
    <3>2. advPc'[u] = advPc[u] /\ advJob'[u] = advJob[u] /\ using'[u] = using[u] BY <1>2, <3>1
    <3>3. advJob[u] \in DOMAIN advRuns BY <2>1, <3>2 DEF Advice!Working
    <3> QED BY <3>1, <3>2, <3>3
  <2>2. ASSUME NEW u \in Threads, advPc'[u] \in Advice!Working \cup {"loaded"}
        PROVE  using'[u] = advRuns'[advJob'[u]].provider
    BY <2>1, <2>2 DEF Advice!IInv, Advice!OneWorker
  <2>3. ASSUME NEW u \in Threads, advPc'[u] \in Advice!Working
        PROVE  /\ advRuns'[advJob'[u]].status = "running"
               /\ advRuns'[advJob'[u]].contacts = IF advPc'[u] = "claimed" THEN 0 ELSE 1
               /\ \A v \in Threads : advPc'[v] \in Advice!Working /\ advJob'[v] = advJob'[u] => v = u
    <3>1. advPc'[u] = advPc[u] /\ advJob'[u] = advJob[u] /\ advRuns'[advJob[u]] = advRuns[advJob[u]]
      BY <2>1, <2>3
    <3>2. \A v \in Threads : advPc'[v] \in Advice!Working => advPc[v] \in Advice!Working /\ advJob'[v] = advJob[v]
      BY <2>1
    <3>3. /\ advRuns[advJob[u]].status = "running"
          /\ advRuns[advJob[u]].contacts = IF advPc[u] = "claimed" THEN 0 ELSE 1
          /\ \A v \in Threads : advPc[v] \in Advice!Working /\ advJob[v] = advJob[u] => v = u
      BY <2>3, <3>1 DEF Advice!IInv, Advice!OneWorker
    <3> QED BY <3>1, <3>2, <3>3
  <2> QED BY <2>2, <2>3 DEF Advice!OneWorker
<1> QED BY <1>3, <1>5, <1>6 DEF Advice!IInv

\* A thread works on its row: the row it leaves is r.
LEMMA AdviceWorkKeeps ==
  ASSUME Advice!IntelligenceAssumption, Advice!IInv, NEW t \in Threads,
         NEW r \in Advice!IntelligenceRun, NEW to \in Advice!Working,
         advPc[t] \in Advice!Working \/ (advPc[t] = "loaded" /\ advRuns[advJob[t]].status = "pending_approval"),
         advRuns' = [advRuns EXCEPT ![advJob[t]] = r], Advice!RowHonest(r), r.status = "running",
         r.provider = advRuns[advJob[t]].provider,
         r.contacts = IF to = "claimed" THEN 0 ELSE 1,
         advPc' = [advPc EXCEPT ![t] = to],
         UNCHANGED <<advLock, advJob, packet, using, provider, prompt, correlated, supported>>
  PROVE  Advice!IInv'
<1> USE AdviceTypes
<1>1. advJob[t] \in DOMAIN advRuns /\ advPc[t] # "reserved" BY DEF Advice!Working
<1>2. /\ advRuns' \in Seq(Advice!IntelligenceRun) /\ DOMAIN advRuns' = DOMAIN advRuns /\ Len(advRuns') = Len(advRuns)
      /\ advRuns'[advJob[t]] = r /\ \A j \in DOMAIN advRuns : j # advJob[t] => advRuns'[j] = advRuns[j]
      /\ \A j \in DOMAIN advRuns' : Advice!RowHonest(advRuns'[j])
  BY <1>1, AdviceRowChanged
<1>3. advPc' \in [Threads -> Advice!Locations]
  BY DEF Advice!Working, Advice!Locations, Advice!ThreadsTyped
<1>4. advPc'[t] = to /\ \A u \in Threads : u # t => advPc'[u] = advPc[u]
  BY DEF Advice!ThreadsTyped
<1>5. Advice!ThreadsTyped' /\ Advice!ConfigTyped'
  BY <1>3, <1>4 DEF Advice!IInv, Advice!ThreadsTyped, Advice!ConfigTyped, Advice!Working
<1>6. Advice!TypeOK'
  BY <1>1, <1>2, <1>4 DEF Advice!IInv, Advice!TypeOK, Advice!Working
<1>7. \A u \in Threads : u # t /\ advPc[u] \in Advice!Working => advJob[u] # advJob[t]
  BY DEF Advice!IInv, Advice!OneWorker
<1>8. advRuns[advJob[t]].status \in Advice!ACTIVE_STATUSES
  BY DEF Advice!ACTIVE_STATUSES, Advice!IInv, Advice!OneWorker
<1>9. Advice!Active' \subseteq Advice!Active BY <1>1, <1>2, <1>8 DEF Advice!Active
<1>10. Advice!ReservationHolds'
  <2>1. \A u \in Threads : advPc'[u] = "reserved" => advPc[u] = "reserved" /\ using'[u] = using[u]
    BY <1>4 DEF Advice!Working
  <2> QED BY <1>2, <1>9, <2>1, ReservationKept
<1>11. Advice!OneWorker'
  <2>1. ASSUME NEW u \in Threads, u # t, advPc'[u] \in Advice!Working \cup {"loaded"}
        PROVE  /\ advPc'[u] = advPc[u] /\ advJob[u] \in DOMAIN advRuns /\ advRuns'[advJob[u]].provider = advRuns[advJob[u]].provider
               /\ (advPc[u] \in Advice!Working => advRuns'[advJob[u]] = advRuns[advJob[u]])
    <3>1. advPc'[u] = advPc[u] /\ advJob[u] \in DOMAIN advRuns BY <1>4, <2>1 DEF Advice!Working
    <3> QED BY <1>2, <1>7, <2>1, <3>1
  <2>2. ASSUME NEW u \in Threads, advPc'[u] \in Advice!Working \cup {"loaded"}
        PROVE  using'[u] = advRuns'[advJob'[u]].provider
    <3>1. CASE u = t BY <1>2, <3>1 DEF Advice!IInv, Advice!OneWorker, Advice!Working
    <3>2. CASE u # t BY <2>1, <2>2, <3>2 DEF Advice!IInv, Advice!OneWorker
    <3> QED BY <3>1, <3>2
  <2>3. \A v \in Threads : v # t /\ advPc'[v] \in Advice!Working => advPc[v] \in Advice!Working
    BY <1>4
  <2>4. ASSUME NEW u \in Threads, advPc'[u] \in Advice!Working
        PROVE  /\ advRuns'[advJob'[u]].status = "running"
               /\ advRuns'[advJob'[u]].contacts = IF advPc'[u] = "claimed" THEN 0 ELSE 1
               /\ \A v \in Threads : advPc'[v] \in Advice!Working /\ advJob'[v] = advJob'[u] => v = u
    <3>1. CASE u = t BY <1>2, <1>4, <1>7, <2>3, <3>1
    <3>2. CASE u # t
      <4>1. advPc'[u] = advPc[u] /\ advJob'[u] = advJob[u] /\ advRuns'[advJob[u]] = advRuns[advJob[u]]
        BY <2>1, <2>4, <3>2
      <4>2. /\ advRuns[advJob[u]].status = "running"
            /\ advRuns[advJob[u]].contacts = IF advPc[u] = "claimed" THEN 0 ELSE 1
            /\ \A v \in Threads : advPc[v] \in Advice!Working /\ advJob[v] = advJob[u] => v = u
        BY <2>4, <4>1 DEF Advice!IInv, Advice!OneWorker
      <4>3. \A v \in Threads : advPc'[v] \in Advice!Working /\ advJob'[v] = advJob'[u] => v = u
        BY <1>7, <2>3, <2>4, <3>2, <4>1, <4>2
      <4> QED BY <4>1, <4>2, <4>3
    <3> QED BY <3>1, <3>2
  <2> QED BY <2>2, <2>4 DEF Advice!OneWorker
<1> QED BY <1>2, <1>5, <1>6, <1>10, <1>11 DEF Advice!IInv

\* The row a worker is at.
LEMMA AdviceWorkRow ==
  ASSUME Advice!IInv, NEW t \in Threads, advPc[t] \in Advice!Working
  PROVE  /\ advJob[t] \in DOMAIN advRuns /\ advRuns[advJob[t]] \in Advice!IntelligenceRun /\ Advice!RowHonest(advRuns[advJob[t]])
         /\ advRuns[advJob[t]].status = "running" /\ using[t] = advRuns[advJob[t]].provider
         /\ advRuns[advJob[t]].contacts = IF advPc[t] = "claimed" THEN 0 ELSE 1
         /\ \A u \in Threads \ {t} : advPc[u] \in Advice!Working => advJob[u] # advJob[t]
<1>1. advJob[t] \in DOMAIN advRuns BY AdviceTypes DEF Advice!Working
<1>2. advRuns[advJob[t]] \in Advice!IntelligenceRun /\ Advice!RowHonest(advRuns[advJob[t]])
  BY <1>1, AdviceTypes
<1> QED BY <1>1, <1>2 DEF Advice!IInv, Advice!OneWorker

\* A worker ends its request with row r.
LEMMA AdviceEndKeeps ==
  ASSUME Advice!IntelligenceAssumption, Advice!IInv, NEW t \in Threads,
         advPc[t] \in Advice!Working,
         NEW r \in Advice!IntelligenceRun, Advice!RowHonest(r), r.provider = advRuns[advJob[t]].provider,
         advRuns' = [advRuns EXCEPT ![advJob[t]] = r], Advice!Done(t),
         UNCHANGED <<advLock, provider, prompt, correlated, supported>>
  PROVE  Advice!IInv'
<1>1. /\ advJob[t] \in DOMAIN advRuns /\ advRuns[advJob[t]].status = "running"
      /\ \A u \in Threads \ {t} : advPc[u] \in Advice!Working => advJob[u] # advJob[t]
  BY AdviceWorkRow
<1>2. /\ advRuns' \in Seq(Advice!IntelligenceRun) /\ DOMAIN advRuns' = DOMAIN advRuns /\ Len(advRuns') = Len(advRuns)
      /\ advRuns'[advJob[t]] = r /\ \A j \in DOMAIN advRuns : j # advJob[t] => advRuns'[j] = advRuns[j]
      /\ \A j \in DOMAIN advRuns' : Advice!RowHonest(advRuns'[j])
  BY <1>1, AdviceRowChanged
<1>3. Advice!Active' \subseteq Advice!Active
  BY <1>1, <1>2 DEF Advice!Active, Advice!ACTIVE_STATUSES
<1>4. Advice!ReservationHolds'
  <2>1. \A u \in Threads : advPc'[u] = "reserved" => advPc[u] = "reserved" /\ using'[u] = using[u]
    BY AdviceTypes DEF Advice!Done, Advice!Goto, Advice!ThreadsTyped
  <2> QED BY <1>2, <1>3, <2>1, ReservationKept
<1>5. Advice!ConfigTyped' BY DEF Advice!IInv, Advice!ConfigTyped
<1>6. Advice!Released(t) BY AdviceTypes DEF Advice!Released, Advice!Working
<1> QED BY <1>1, <1>2, <1>4, <1>5, <1>6, AdviceDoneKeeps

\* provider.analyze
LEMMA AnalyzeWrites ==
  ASSUME Advice!IInv, NEW t \in Threads, Advice!Analyze(t)
  PROVE  \E r \in Advice!IntelligenceRun :
           /\ advRuns' = [advRuns EXCEPT ![advJob[t]] = r] /\ Advice!RowHonest(r) /\ r.status = "running"
           /\ r.provider = advRuns[advJob[t]].provider /\ r.contacts = 1 /\ advPc[t] = "claimed"
<1> DEFINE o == advRuns[advJob[t]]
           r == [o EXCEPT !.contacts = @ + 1, !.sentTo = using[t]]
<1>1. advPc[t] = "claimed" BY DEF Advice!Analyze
<1>2. advJob[t] \in DOMAIN advRuns /\ o \in Advice!IntelligenceRun /\ Advice!RowHonest(o) /\ o.status = "running"
      /\ using[t] = o.provider /\ o.contacts = 0
  BY <1>1, AdviceWorkRow DEF Advice!Working
<1>3. using[t] \in Providers \cup {Disabled} BY AdviceTypes DEF Advice!ThreadsTyped
<1>4. advRuns' = [advRuns EXCEPT ![advJob[t]] = r] BY <1>2, AdviceTypes DEF Advice!Analyze
<1> HIDE DEF o
<1>5. r \in Advice!IntelligenceRun
  <2>1. [o EXCEPT !.contacts = @ + 1] \in Advice!IntelligenceRun
    BY <1>2 DEF Advice!IntelligenceRun
  <2> QED BY <1>3, <2>1 DEF Advice!IntelligenceRun
<1>6. /\ r.status = o.status /\ r.provider = o.provider /\ r.contacts = 1 /\ r.sentTo = o.provider
      /\ r.approvals = o.approvals /\ r.output = o.output /\ r.packet = o.packet
  BY <1>2 DEF Advice!IntelligenceRun
<1> HIDE DEF r
<1>7. Advice!RowHonest(r) BY <1>2, <1>6 DEF Advice!RowHonest
<1> QED BY <1>1, <1>2, <1>4, <1>5, <1>6, <1>7 DEF o

\* The provider is called once, for the approved row and with its packet.
LEMMA AnalyzeKeeps ==
  ASSUME Advice!IntelligenceAssumption, Advice!IInv, NEW t \in Threads, Advice!Analyze(t)
  PROVE  Advice!IInv'
<1>1. PICK r \in Advice!IntelligenceRun :
           /\ advRuns' = [advRuns EXCEPT ![advJob[t]] = r] /\ Advice!RowHonest(r) /\ r.status = "running"
           /\ r.provider = advRuns[advJob[t]].provider /\ r.contacts = 1 /\ advPc[t] = "claimed"
  BY AnalyzeWrites
<1>2. "answered" \in Advice!Working /\ advPc[t] \in Advice!Working BY <1>1 DEF Advice!Working
<1>3. advPc' = [advPc EXCEPT ![t] = "answered"]
      /\ UNCHANGED <<advLock, advJob, packet, using, provider, prompt, correlated, supported>>
  BY DEF Advice!Analyze, Advice!Goto, Advice!storeVars
<1> QED BY <1>1, <1>2, <1>3, AdviceWorkKeeps

\* The conditional update.
LEMMA AdviceClaimWrites ==
  ASSUME Advice!IInv, NEW t \in Threads, Advice!Claim(t)
  PROVE  \E r \in Advice!IntelligenceRun :
           /\ advRuns' = [advRuns EXCEPT ![advJob[t]] = r] /\ Advice!RowHonest(r) /\ r.status = "running"
           /\ r.provider = advRuns[advJob[t]].provider /\ r.contacts = 0 /\ advPc[t] = "loaded"
           /\ advJob[t] \in DOMAIN advRuns /\ advRuns[advJob[t]].status = "pending_approval"
           /\ advRuns[advJob[t]].contacts = 0
<1> DEFINE o == advRuns[advJob[t]]
           r == [o EXCEPT !.status = "running", !.approvals = @ + 1]
<1>1. advPc[t] = "loaded" /\ o.status = "pending_approval" BY DEF Advice!Claim
<1>2. advJob[t] \in DOMAIN advRuns /\ o \in Advice!IntelligenceRun /\ Advice!RowHonest(o)
  BY <1>1, AdviceTypes
<1>3. o.approvals = 0 /\ o.contacts = 0 BY <1>1, <1>2 DEF Advice!RowHonest
<1>4. advRuns' = [advRuns EXCEPT ![advJob[t]] = r] BY <1>2, AdviceTypes DEF Advice!Claim
<1> HIDE DEF o
<1>5. r \in Advice!IntelligenceRun
  <2>1. [o EXCEPT !.status = "running"] \in Advice!IntelligenceRun
    BY <1>2 DEF Advice!IntelligenceRun, Advice!Statuses
  <2>2. o.approvals + 1 \in Nat BY <1>3
  <2> QED BY <2>1, <2>2 DEF Advice!IntelligenceRun
<1>6. /\ r.status = "running" /\ r.provider = o.provider /\ r.contacts = 0 /\ r.sentTo = o.sentTo
      /\ r.approvals = 1 /\ r.output = o.output /\ r.packet = o.packet
  BY <1>2, <1>3 DEF Advice!IntelligenceRun
<1> HIDE DEF r
<1>7. Advice!RowHonest(r) BY <1>1, <1>2, <1>6 DEF Advice!RowHonest
<1> QED BY <1>1, <1>2, <1>3, <1>4, <1>5, <1>6, <1>7 DEF o

\* An approval turns a pending row into a running one.
LEMMA AdviceClaimKeeps ==
  ASSUME Advice!IntelligenceAssumption, Advice!IInv, NEW t \in Threads, Advice!Claim(t)
  PROVE  Advice!IInv'
<1>1. PICK r \in Advice!IntelligenceRun :
           /\ advRuns' = [advRuns EXCEPT ![advJob[t]] = r] /\ Advice!RowHonest(r) /\ r.status = "running"
           /\ r.provider = advRuns[advJob[t]].provider /\ r.contacts = 0 /\ advPc[t] = "loaded"
           /\ advRuns[advJob[t]].status = "pending_approval"
  BY AdviceClaimWrites
<1>2. "claimed" \in Advice!Working BY DEF Advice!Working
<1>3. advPc' = [advPc EXCEPT ![t] = "claimed"]
      /\ UNCHANGED <<advLock, advJob, packet, using, provider, prompt, correlated, supported>>
  BY DEF Advice!Claim, Advice!Goto, Advice!storeVars
<1> QED BY <1>1, <1>2, <1>3, AdviceWorkKeeps

\* What _validate_advice lets into the row.
LEMMA CompleteWrites ==
  ASSUME Advice!IInv, NEW t \in Threads, NEW advice \in Advice!Advice, Advice!Complete(t, advice)
  PROVE  \E r \in Advice!IntelligenceRun :
           /\ advRuns' = [advRuns EXCEPT ![advJob[t]] = r] /\ Advice!RowHonest(r) /\ r.status = "completed"
           /\ r.provider = advRuns[advJob[t]].provider /\ r.contacts = advRuns[advJob[t]].contacts
<1> DEFINE o == advRuns[advJob[t]]
           out == Advice!Range(advice)
           r == [o EXCEPT !.status = "completed", !.output = out]
<1>1. advPc[t] = "answered" /\ Advice!_validate_advice(o, advice) BY DEF Advice!Complete
<1>2. advJob[t] \in DOMAIN advRuns /\ o \in Advice!IntelligenceRun /\ Advice!RowHonest(o) /\ o.status = "running"
      /\ o.contacts = 1
  BY <1>1, AdviceWorkRow DEF Advice!Working
<1>3. advRuns' = [advRuns EXCEPT ![advJob[t]] = r] BY <1>2, AdviceTypes DEF Advice!Complete
<1>4. PICK n \in 1..2 : advice \in [1..n -> Advice!Priorities] BY DEF Advice!Advice
<1>5. out \in SUBSET Advice!Priorities /\ out # {}
  <2>1. advice[1] \in out BY <1>4 DEF Advice!Range
  <2>2. \A p \in out : p \in Advice!Priorities BY <1>4 DEF Advice!Range
  <2> QED BY <2>1, <2>2
<1>6. \A p \in out : p[1] \in o.packet /\ p[2] = p[1]
  BY <1>1 DEF Advice!_validate_advice, Advice!Range
<1>7. \A p, q \in out : p[1] = q[1] => p = q BY <1>1 DEF Advice!_validate_advice, Advice!Range
<1> HIDE DEF o, out
<1>8. r \in Advice!IntelligenceRun
  <2>1. [o EXCEPT !.status = "completed"] \in Advice!IntelligenceRun
    BY <1>2 DEF Advice!IntelligenceRun, Advice!Statuses
  <2> QED BY <1>5, <2>1 DEF Advice!IntelligenceRun
<1>9. /\ r.status = "completed" /\ r.provider = o.provider /\ r.contacts = o.contacts /\ r.sentTo = o.sentTo
      /\ r.approvals = o.approvals /\ r.output = out /\ r.packet = o.packet
  BY <1>2 DEF Advice!IntelligenceRun
<1> HIDE DEF r
<1>10. Advice!RowHonest(r) BY <1>2, <1>5, <1>6, <1>7, <1>9 DEF Advice!RowHonest
<1> QED BY <1>3, <1>8, <1>9, <1>10 DEF o

\* What a failure writes is an honest row.
LEMMA FailWrites ==
  ASSUME Advice!IInv, NEW t \in Threads, Advice!Fail(t)
  PROVE  \E r \in Advice!IntelligenceRun :
           /\ advRuns' = [advRuns EXCEPT ![advJob[t]] = r] /\ Advice!RowHonest(r) /\ r.status = "failed"
           /\ r.provider = advRuns[advJob[t]].provider /\ r.contacts = advRuns[advJob[t]].contacts
<1> DEFINE o == advRuns[advJob[t]]
           r == [o EXCEPT !.status = "failed"]
<1>1. advPc[t] \in Advice!Working BY DEF Advice!Fail, Advice!Working
<1>2. advJob[t] \in DOMAIN advRuns /\ o \in Advice!IntelligenceRun /\ Advice!RowHonest(o) /\ o.status = "running"
  BY <1>1, AdviceWorkRow
<1>3. advRuns' = [advRuns EXCEPT ![advJob[t]] = r] BY <1>2, AdviceTypes DEF Advice!Fail
<1> HIDE DEF o
<1>4. r \in Advice!IntelligenceRun BY <1>2 DEF Advice!IntelligenceRun, Advice!Statuses
<1>5. /\ r.status = "failed" /\ r.provider = o.provider /\ r.contacts = o.contacts /\ r.sentTo = o.sentTo
      /\ r.approvals = o.approvals /\ r.output = o.output /\ r.packet = o.packet
  BY <1>2 DEF Advice!IntelligenceRun
<1> HIDE DEF r
<1>6. Advice!RowHonest(r) BY <1>2, <1>5 DEF Advice!RowHonest
<1> QED BY <1>3, <1>4, <1>5, <1>6 DEF o

\* A run that ends, with advice or without, leaves an honest row.
LEMMA EndingKeeps ==
  ASSUME Advice!IntelligenceAssumption, Advice!IInv, NEW t \in Threads,
         Advice!Fail(t) \/ \E advice \in Advice!Advice : Advice!Complete(t, advice)
  PROVE  Advice!IInv'
<1>1. advPc[t] \in Advice!Working /\ Advice!Done(t) /\ UNCHANGED <<advLock, provider, prompt,
                                                                   correlated, supported>>
  BY DEF Advice!Fail, Advice!Complete, Advice!Working, Advice!storeVars
<1>2. PICK r \in Advice!IntelligenceRun :
           /\ advRuns' = [advRuns EXCEPT ![advJob[t]] = r] /\ Advice!RowHonest(r)
           /\ r.provider = advRuns[advJob[t]].provider
  BY FailWrites, CompleteWrites
<1> QED BY <1>1, <1>2, AdviceEndKeeps

\* create_run under the lock
LEMMA InsertWrites ==
  ASSUME Advice!IInv, NEW t \in Threads, Advice!InsertRun(t)
  PROVE  \E r \in Advice!IntelligenceRun :
           /\ advRuns' = Append(advRuns, r) /\ Advice!RowHonest(r) /\ r.status = "pending_approval"
           /\ r.contacts = 0
<1> DEFINE r == [status |-> "pending_approval", provider |-> using[t],
                 prompt |-> prompt, packet |-> packet[t], sentTo |-> Disabled,
                 approvals |-> 0, contacts |-> 0, output |-> {}]
<1>1. advPc[t] = "reserved" /\ advRuns' = Append(advRuns, r) BY DEF Advice!InsertRun
<1>2. using[t] \in Providers /\ packet[t] \in SUBSET Reviewed /\ prompt \in Nat
  BY <1>1 DEF Advice!IInv, Advice!ReservationHolds, Advice!ThreadsTyped, Advice!ConfigTyped
<1>3. r \in Advice!IntelligenceRun BY <1>2 DEF Advice!IntelligenceRun, Advice!Statuses
<1>4. Advice!RowHonest(r) BY DEF Advice!RowHonest
<1> QED BY <1>1, <1>3, <1>4

\* The row of a reserved request is the only active one.
LEMMA AdviceInsertKeeps ==
  ASSUME Advice!IntelligenceAssumption, Advice!IInv, NEW t \in Threads, Advice!InsertRun(t)
  PROVE  Advice!IInv'
<1>1. PICK r \in Advice!IntelligenceRun :
         advRuns' = Append(advRuns, r) /\ Advice!RowHonest(r) /\ r.status = "pending_approval"
  BY InsertWrites
<1>2. advPc[t] = "reserved" /\ Advice!Released(t) /\ Advice!Done(t) /\ UNCHANGED <<provider,
                                                                                   prompt, correlated, supported>>
  BY DEF Advice!InsertRun, Advice!storeVars
<1>3. /\ advRuns' \in Seq(Advice!IntelligenceRun) /\ Len(advRuns') = Len(advRuns) + 1 /\ Len(advRuns) \in Nat
      /\ DOMAIN advRuns' = DOMAIN advRuns \cup {Len(advRuns) + 1} /\ Len(advRuns) + 1 \notin DOMAIN advRuns
      /\ advRuns'[Len(advRuns) + 1] = r /\ \A j \in DOMAIN advRuns : advRuns'[j] = advRuns[j]
      /\ \A j \in DOMAIN advRuns' : Advice!RowHonest(advRuns'[j])
  BY <1>1, AdviceRowAdded
<1>4. Advice!Active = {} /\ Len(advRuns) < MaxRetained
  BY <1>2 DEF Advice!IInv, Advice!ReservationHolds
<1>5. \A i \in Advice!Active' : i = Len(advRuns) + 1 BY <1>3, <1>4 DEF Advice!Active
<1>6. \A u \in Threads : advPc'[u] # "reserved"
  BY <1>2, AdviceTypes DEF Advice!Done, Advice!Goto, Advice!ThreadsTyped
<1>7. Advice!ReservationHolds'
  BY <1>3, <1>4, <1>5, <1>6 DEF Advice!ReservationHolds, Advice!IntelligenceAssumption
<1>8. Advice!ConfigTyped' BY <1>2 DEF Advice!IInv, Advice!ConfigTyped
<1> QED BY <1>2, <1>3, <1>7, <1>8, AdviceDoneKeeps

\* Requests that end without a row, or begin.
LEMMA QuitKeeps ==
  ASSUME Advice!IntelligenceAssumption, Advice!IInv, NEW t \in Threads,
         Advice!Reject(t) \/ Advice!Lose(t)
  PROVE  Advice!IInv'
<1>1. Advice!Released(t) /\ Advice!Done(t) /\ UNCHANGED <<advRuns, provider, prompt, correlated,
                                                          supported>>
  BY DEF Advice!Reject, Advice!Lose, Advice!storeVars
<1>2. Advice!ConfigTyped' BY <1>1 DEF Advice!IInv, Advice!ConfigTyped
<1>3. Advice!ReservationHolds'
  <2>1. \A u \in Threads : advPc'[u] = "reserved" => advPc[u] = "reserved" /\ using'[u] = using[u]
    BY <1>1, AdviceTypes DEF Advice!Done, Advice!Goto, Advice!ThreadsTyped
  <2>2. Advice!Active' \subseteq Advice!Active BY <1>1 DEF Advice!Active
  <2> QED BY <1>1, <2>1, <2>2, ReservationKept
<1> QED BY <1>1, <1>2, <1>3, AdviceTypes, AdviceDoneKeeps

\* A request takes the lock while no row is active.
LEMMA ReserveKeeps ==
  ASSUME Advice!IntelligenceAssumption, Advice!IInv, NEW t \in Threads, Advice!Reserve(t)
  PROVE  Advice!IInv'
<1> USE AdviceTypes
<1>1. /\ advPc[t] = "idle" /\ advLock = Nobody /\ provider # Disabled /\ Advice!Active = {} /\ Len(advRuns) < MaxRetained
      /\ advLock' = t /\ packet' = [packet EXCEPT ![t] = Advice!_packet]
      /\ using' = [using EXCEPT ![t] = provider] /\ advPc' = [advPc EXCEPT ![t] = "reserved"]
      /\ UNCHANGED <<advRuns, advJob, provider, prompt, correlated, supported>>
  BY DEF Advice!Reserve, Advice!Goto, Advice!storeVars
<1>2. provider \in Providers /\ Advice!_packet \in SUBSET Reviewed
  BY <1>1 DEF Advice!IInv, Advice!ConfigTyped, Advice!_packet
<1>3. /\ advPc'[t] = "reserved" /\ using'[t] = provider /\ advJob'[t] = 0
      /\ \A u \in Threads : u # t => advPc'[u] = advPc[u] /\ using'[u] = using[u]
  BY <1>1 DEF Advice!ThreadsTyped
<1>4. Advice!ThreadsTyped' /\ Advice!ConfigTyped'
  BY <1>1, <1>2, <1>3 DEF Advice!IInv, Advice!ThreadsTyped, Advice!ConfigTyped, Advice!Locations
<1>5. \A u \in Threads : advPc[u] # "reserved" BY <1>1 DEF Advice!IntelligenceAssumption
<1>6. Advice!TypeOK' BY <1>1, <1>3, <1>5 DEF Advice!IInv, Advice!TypeOK
<1>7. Advice!Active' = Advice!Active BY <1>1 DEF Advice!Active
<1>8. Advice!ReservationHolds'
  BY <1>1, <1>2, <1>3, <1>5, <1>7 DEF Advice!IInv, Advice!ReservationHolds
<1>9. Advice!OneWorker' BY <1>1, <1>3 DEF Advice!IInv, Advice!OneWorker, Advice!Working
<1> QED BY <1>1, <1>4, <1>6, <1>8, <1>9 DEF Advice!IInv

\* An approval is loaded with the provider the row was made for.
LEMMA LoadKeeps ==
  ASSUME Advice!IntelligenceAssumption, Advice!IInv, NEW t \in Threads, NEW i \in DOMAIN advRuns,
         Advice!Load(t, i)
  PROVE  Advice!IInv'
<1> USE AdviceTypes
<1>1. /\ advPc[t] = "idle" /\ provider = advRuns[i].provider
      /\ advJob' = [advJob EXCEPT ![t] = i] /\ using' = [using EXCEPT ![t] = provider]
      /\ advPc' = [advPc EXCEPT ![t] = "loaded"]
      /\ UNCHANGED <<advRuns, advLock, packet, provider, prompt, correlated, supported>>
  BY DEF Advice!Load, Advice!Goto, Advice!storeVars, Advice!Approvable
<1>2. provider \in Providers \cup {Disabled} /\ i \in Nat BY DEF Advice!IInv, Advice!ConfigTyped
<1>3. /\ advPc'[t] = "loaded" /\ using'[t] = provider /\ advJob'[t] = i
      /\ \A u \in Threads : u # t => advPc'[u] = advPc[u] /\ using'[u] = using[u] /\ advJob'[u] = advJob[u]
  BY <1>1 DEF Advice!ThreadsTyped
<1>4. Advice!ThreadsTyped' /\ Advice!ConfigTyped'
  BY <1>1, <1>2, <1>3 DEF Advice!IInv, Advice!ThreadsTyped, Advice!ConfigTyped, Advice!Locations
<1>5. Advice!TypeOK' BY <1>1, <1>3 DEF Advice!IInv, Advice!TypeOK
<1>6. Advice!Active' \subseteq Advice!Active BY <1>1 DEF Advice!Active
<1>7. Advice!ReservationHolds'
  <2>1. \A u \in Threads : advPc'[u] = "reserved" => advPc[u] = "reserved" /\ using'[u] = using[u]
    BY <1>3
  <2> QED BY <1>1, <1>6, <2>1, ReservationKept
<1>8. Advice!OneWorker' BY <1>1, <1>3 DEF Advice!IInv, Advice!OneWorker, Advice!Working
<1> QED BY <1>1, <1>4, <1>5, <1>7, <1>8 DEF Advice!IInv

\* recover_interrupted_runs
LEMMA AdviceRestartRows ==
  ASSUME Advice!IInv, NEW p, NEW v, Advice!Restart(p, v)
  PROVE  /\ advRuns' \in Seq(Advice!IntelligenceRun) /\ DOMAIN advRuns' = DOMAIN advRuns /\ Len(advRuns') = Len(advRuns)
         /\ \A i \in DOMAIN advRuns : /\ Advice!RowHonest(advRuns'[i]) /\ advRuns'[i].contacts = advRuns[i].contacts
                                      /\ advRuns'[i].status = IF advRuns[i].status = "running" THEN "failed"
                                                           ELSE advRuns[i].status
<1>1. advRuns' = [i \in DOMAIN advRuns |-> Advice!Recovered(advRuns[i])] BY DEF Advice!Restart
<1>2. advRuns \in Seq(Advice!IntelligenceRun) /\ \A i \in DOMAIN advRuns : advRuns[i] \in Advice!IntelligenceRun /\ Advice!RowHonest(advRuns[i])
  BY AdviceTypes
<1>3. ASSUME NEW i \in DOMAIN advRuns
      PROVE  /\ Advice!Recovered(advRuns[i]) \in Advice!IntelligenceRun /\ Advice!RowHonest(Advice!Recovered(advRuns[i]))
             /\ Advice!Recovered(advRuns[i]).contacts = advRuns[i].contacts
             /\ Advice!Recovered(advRuns[i]).status = IF advRuns[i].status = "running" THEN "failed"
                                            ELSE advRuns[i].status
  <2> DEFINE r == advRuns[i]
             n == [r EXCEPT !.status = "failed"]
  <2>1. r \in Advice!IntelligenceRun /\ Advice!RowHonest(r) BY <1>2
  <2> HIDE DEF r
  <2>2. n \in Advice!IntelligenceRun BY <2>1 DEF Advice!IntelligenceRun, Advice!Statuses
  <2>3. /\ n.status = "failed" /\ n.provider = r.provider /\ n.contacts = r.contacts /\ n.sentTo = r.sentTo
        /\ n.approvals = r.approvals /\ n.output = r.output /\ n.packet = r.packet
    BY <2>1 DEF Advice!IntelligenceRun
  <2> HIDE DEF n
  <2>4. r.status = "running" => Advice!RowHonest(n) BY <2>1, <2>3 DEF Advice!RowHonest
  <2>5. Advice!Recovered(r) = IF r.status = "running" THEN n ELSE r BY DEF Advice!Recovered, n
  <2>6. /\ Advice!Recovered(r) \in Advice!IntelligenceRun /\ Advice!RowHonest(Advice!Recovered(r))
        /\ Advice!Recovered(r).contacts = r.contacts
        /\ Advice!Recovered(r).status = IF r.status = "running" THEN "failed" ELSE r.status
    BY <2>1, <2>2, <2>3, <2>4, <2>5
  <2> QED BY <2>6 DEF r
<1>4. DOMAIN advRuns = 1..Len(advRuns) /\ Len(advRuns) \in Nat BY <1>2
<1>5. advRuns' \in [1..Len(advRuns) -> Advice!IntelligenceRun] BY <1>1, <1>3, <1>4
<1>6. advRuns' \in Seq(Advice!IntelligenceRun) /\ Len(advRuns') = Len(advRuns) BY <1>4, <1>5
<1> QED BY <1>1, <1>3, <1>4, <1>5, <1>6

\* A restart, with whatever provider and prompt, fails what was running.
LEMMA AdviceRestartKeeps ==
  ASSUME Advice!IntelligenceAssumption, Advice!IInv, NEW p \in Providers \cup {Disabled},
         NEW v \in Nat, Advice!Restart(p, v)
  PROVE  Advice!IInv'
<1>1. /\ advRuns' \in Seq(Advice!IntelligenceRun) /\ Len(advRuns') = Len(advRuns) /\ DOMAIN advRuns' = DOMAIN advRuns
      /\ \A i \in DOMAIN advRuns : /\ Advice!RowHonest(advRuns'[i])
                                   /\ advRuns'[i].status = IF advRuns[i].status = "running" THEN "failed"
                                                        ELSE advRuns[i].status
  BY AdviceRestartRows
<1>2. /\ advPc' = [t \in Threads |-> "idle"] /\ advJob' = [t \in Threads |-> 0] /\ advLock' = Nobody
      /\ packet' = [t \in Threads |-> {}] /\ using' = [t \in Threads |-> Disabled]
      /\ provider' = p /\ prompt' = v /\ UNCHANGED <<correlated, supported>>
  BY DEF Advice!Restart, Advice!storeVars
<1>3. Advice!ThreadsTyped' /\ Advice!ConfigTyped'
  BY <1>2 DEF Advice!IInv, Advice!ThreadsTyped, Advice!ConfigTyped, Advice!Locations
<1>4. 0 \notin DOMAIN advRuns' BY <1>1, AdviceTypes
<1>5. Advice!TypeOK' BY <1>1, <1>2, <1>4 DEF Advice!TypeOK, Advice!IntelligenceAssumption
<1>6. Advice!OneWorker' BY <1>2 DEF Advice!OneWorker, Advice!Working
<1>7. Advice!Active' \subseteq Advice!Active BY <1>1 DEF Advice!Active, Advice!ACTIVE_STATUSES
<1>8. Advice!ReservationHolds' BY <1>1, <1>2, <1>7, ReservationKept
<1> QED BY <1>1, <1>3, <1>5, <1>6, <1>8 DEF Advice!IInv

\* No row and no request yet.
LEMMA AdviceInit == ASSUME Advice!IntelligenceAssumption, Advice!Init PROVE Advice!IInv
<1>1. Len(advRuns) = 0 /\ DOMAIN advRuns = {} /\ advRuns \in Seq(Advice!IntelligenceRun)
  BY DEF Advice!Init
<1>2. Advice!TypeOK /\ Advice!ThreadsTyped /\ Advice!ConfigTyped
  BY <1>1 DEF Advice!Init, Advice!TypeOK, Advice!ThreadsTyped, Advice!ConfigTyped,
     Advice!Locations, Advice!IntelligenceAssumption
<1>3. Advice!ReservationHolds
  BY <1>1 DEF Advice!Init, Advice!ReservationHolds, Advice!Active, Advice!IntelligenceAssumption
<1>4. Advice!OneWorker BY DEF Advice!Init, Advice!OneWorker, Advice!Working
<1> QED BY <1>1, <1>2, <1>3, <1>4 DEF Advice!IInv

\* Every step of the intelligence runs keeps their invariant.
LEMMA AdviceNext ==
  ASSUME Advice!IntelligenceAssumption, Advice!IInv, [Advice!Next]_Advice!vars
  PROVE  Advice!IInv'
<1>1. ASSUME UNCHANGED <<advRuns, advLock, advPc, advJob, packet, using>>, Advice!ConfigTyped'
      PROVE  Advice!IInv'
  <2>1. Advice!Active' = Advice!Active BY <1>1 DEF Advice!Active
  <2>2. Advice!ReservationHolds' BY <1>1, <2>1, ReservationKept
  <2>3. Advice!TypeOK' /\ Advice!ThreadsTyped' /\ Advice!OneWorker'
    BY <1>1 DEF Advice!IInv, Advice!TypeOK, Advice!ThreadsTyped, Advice!OneWorker
  <2> QED BY <1>1, <2>2, <2>3 DEF Advice!IInv
<1>2. ASSUME UNCHANGED Advice!vars \/ Advice!Change PROVE Advice!IInv'
  <2>1. UNCHANGED <<advRuns, advLock, advPc, advJob, packet, using>>
    BY <1>2 DEF Advice!vars, Advice!threadVars, Advice!Change
  <2>2. Advice!ConfigTyped'
    BY <1>2 DEF Advice!IInv, Advice!ConfigTyped, Advice!vars, Advice!Change, Advice!storeVars
  <2> QED BY <1>1, <2>1, <2>2
<1>3. ASSUME NEW t \in Threads, Advice!ThreadStep(t) PROVE Advice!IInv'
  BY <1>3, AdviceInsertKeeps, AdviceClaimKeeps, QuitKeeps, AnalyzeKeeps, EndingKeeps
     DEF Advice!ThreadStep
<1>4. ASSUME NEW p \in Providers \cup {Disabled}, NEW v \in {prompt, prompt + 1},
             Advice!Restart(p, v)
      PROVE  Advice!IInv'
  <2>1. v \in Nat BY DEF Advice!IInv, Advice!ConfigTyped
  <2> QED BY <1>4, <2>1, AdviceRestartKeeps
<1> QED BY <1>2, <1>3, <1>4, ReserveKeeps, LoadKeeps, QuitKeeps DEF Advice!Next

\* The invariant gives what the run checks.
LEMMA AdviceFollows ==
  ASSUME Advice!IntelligenceAssumption, Advice!IInv
  PROVE  Advice!IntelligenceHolds
<1>1. Cardinality(Advice!Active) <= 1
  <2>1. CASE Advice!Active = {} BY <2>1, FS_EmptySet
  <2>2. CASE Advice!Active # {}
    <3>1. PICK i \in Advice!Active : TRUE BY <2>2
    <3>2. Advice!Active = {i} BY <3>1 DEF Advice!IInv, Advice!ReservationHolds
    <3>3. Cardinality({i}) = 1 BY FS_Singleton
    <3> QED BY <3>2, <3>3
  <2> QED BY <2>1, <2>2
<1>2. Advice!ExactBounds
  BY <1>1, AdviceSets DEF Advice!IInv, Advice!ReservationHolds, Advice!ExactBounds
<1>3. Advice!DisclosedAsReviewed BY DEF Advice!IInv, Advice!RowHonest, Advice!DisclosedAsReviewed
<1>4. Advice!AdviceGrounded BY DEF Advice!IInv, Advice!RowHonest, Advice!AdviceGrounded
<1> QED BY <1>2, <1>3, <1>4 DEF Advice!IntelligenceHolds

-----------------------------------------------------------------------------
(* The approval gate *)

\* The gate's phase of each status.
LEMMA AdvicePhases ==
  /\ Advice!PhaseOf("pending_approval") = "pending" /\ Advice!PhaseOf("running") = "approved"
  /\ Advice!PhaseOf("completed") = "closed" /\ Advice!PhaseOf("failed") = "closed"
BY DEF Advice!PhaseOf

\* Every row has a place among the gate's requests.
LEMMA AdviceRowsAreRequests ==
  ASSUME Advice!IntelligenceAssumption, Advice!IInv
  PROVE  DOMAIN advRuns \subseteq Advice!Requests
<1>1. Len(advRuns) <= MaxRetained /\ MaxRetained \in Nat
  BY DEF Advice!IInv, Advice!ReservationHolds, Advice!IntelligenceAssumption
<1> QED BY <1>1, AdviceTypes DEF Advice!Requests

\* A step that changes one request's phase is the gate's change of that phase.
LEMMA AdvicePhaseStep ==
  ASSUME NEW i \in Advice!Requests, NEW ph, Advice!GatePhase(i)' = ph,
         \A j \in Advice!Requests : j # i => Advice!GatePhase(j)' = Advice!GatePhase(j)
  PROVE  Advice!Gate!SetPhase(i, ph)
BY DEF Advice!Gate!SetPhase

\* Inserting a row is the gate's request.
LEMMA AdviceInsertAsks ==
  ASSUME Advice!IntelligenceAssumption, Advice!IInv, NEW t \in Threads, Advice!InsertRun(t)
  PROVE  Advice!Gate!Next
<1>1. PICK r \in Advice!IntelligenceRun :
         advRuns' = Append(advRuns, r) /\ Advice!RowHonest(r) /\ r.status = "pending_approval" /\ r.contacts = 0
  BY InsertWrites
<1>2. Len(advRuns) + 1 \in Advice!Requests
  <2>1. Len(advRuns) < MaxRetained /\ MaxRetained \in Nat
    BY DEF Advice!InsertRun, Advice!IInv, Advice!ReservationHolds, Advice!IntelligenceAssumption
  <2> QED BY <2>1, AdviceTypes DEF Advice!Requests
<1>3. PICK q \in Advice!Requests :
        /\ DOMAIN advRuns' = DOMAIN advRuns \cup {q} /\ q \notin DOMAIN advRuns
        /\ advRuns'[q] = r /\ \A j \in DOMAIN advRuns : advRuns'[j] = advRuns[j]
  BY <1>1, <1>2, AdviceRowAdded
<1>4. Advice!GatePhase(q) = "none" /\ Advice!GatePhase(q)' = "pending"
  BY <1>1, <1>3, AdvicePhases DEF Advice!GatePhase
<1>5. \A j \in Advice!Requests : j # q => Advice!GatePhase(j)' = Advice!GatePhase(j)
  BY <1>3 DEF Advice!GatePhase
<1>6. Advice!Gate!SetPhase(q, "pending") BY <1>4, <1>5, AdvicePhaseStep
<1>7. \A j \in Advice!Requests : Advice!Contacts(j)' = Advice!Contacts(j)
  BY <1>1, <1>3 DEF Advice!Contacts
<1>8. Advice!Gate!Ask(q) BY <1>4, <1>6, <1>7 DEF Advice!Gate!Ask
<1> QED BY <1>8 DEF Advice!Gate!Next

\* A row and its replacement, as the gate sees them.
LEMMA RowSeen ==
  ASSUME Advice!IntelligenceAssumption, Advice!IInv, NEW t \in Threads,
         advJob[t] \in DOMAIN advRuns,
         NEW r \in Advice!IntelligenceRun, Advice!RowHonest(r), advRuns' = [advRuns EXCEPT ![advJob[t]] = r]
  PROVE  \E q \in Advice!Requests :
           /\ q = advJob[t] /\ Advice!GatePhase(q) = Advice!PhaseOf(advRuns[advJob[t]].status) /\ Advice!GatePhase(q)' = Advice!PhaseOf(r.status)
           /\ Advice!Contacts(q) = advRuns[advJob[t]].contacts /\ Advice!Contacts(q)' = r.contacts
           /\ \A j \in Advice!Requests : j # q => Advice!GatePhase(j)' = Advice!GatePhase(j) /\ Advice!Contacts(j)' = Advice!Contacts(j)
<1>1. PICK q \in Advice!Requests : q = advJob[t] BY AdviceRowsAreRequests
<1>2. /\ DOMAIN advRuns' = DOMAIN advRuns /\ q \in DOMAIN advRuns
      /\ advRuns'[q] = r /\ \A j \in DOMAIN advRuns : j # q => advRuns'[j] = advRuns[j]
  BY <1>1, AdviceRowChanged
<1>3. Advice!GatePhase(q) = Advice!PhaseOf(advRuns[advJob[t]].status) /\ Advice!GatePhase(q)' = Advice!PhaseOf(r.status)
  BY <1>1, <1>2 DEF Advice!GatePhase
<1>4. Advice!Contacts(q) = advRuns[advJob[t]].contacts /\ Advice!Contacts(q)' = r.contacts
  BY <1>1, <1>2 DEF Advice!Contacts
<1>5. \A j \in Advice!Requests : j # q => Advice!GatePhase(j)' = Advice!GatePhase(j) /\ Advice!Contacts(j)' = Advice!Contacts(j)
  BY <1>2 DEF Advice!GatePhase, Advice!Contacts
<1> QED BY <1>1, <1>3, <1>4, <1>5

\* A claim is the gate's approval of a pending request.
LEMMA AdviceClaimAnswers ==
  ASSUME Advice!IntelligenceAssumption, Advice!IInv, NEW t \in Threads, Advice!Claim(t)
  PROVE  Advice!Gate!Next
<1>1. PICK r \in Advice!IntelligenceRun :
           /\ advRuns' = [advRuns EXCEPT ![advJob[t]] = r] /\ Advice!RowHonest(r) /\ r.status = "running"
           /\ r.contacts = 0 /\ advJob[t] \in DOMAIN advRuns
           /\ advRuns[advJob[t]].status = "pending_approval" /\ advRuns[advJob[t]].contacts = 0
  BY AdviceClaimWrites
<1>2. PICK q \in Advice!Requests :
           /\ q = advJob[t] /\ Advice!GatePhase(q) = Advice!PhaseOf(advRuns[advJob[t]].status) /\ Advice!GatePhase(q)' = Advice!PhaseOf(r.status)
           /\ Advice!Contacts(q) = advRuns[advJob[t]].contacts /\ Advice!Contacts(q)' = r.contacts
           /\ \A j \in Advice!Requests : j # q => Advice!GatePhase(j)' = Advice!GatePhase(j) /\ Advice!Contacts(j)' = Advice!Contacts(j)
  BY <1>1, RowSeen
<1>3. Advice!GatePhase(q) = "pending" /\ Advice!GatePhase(q)' = "approved"
  BY <1>1, <1>2, AdvicePhases
<1>4. Advice!Gate!SetPhase(q, "approved") BY <1>2, <1>3, AdvicePhaseStep
<1>5. \A j \in Advice!Requests : Advice!Contacts(j)' = Advice!Contacts(j) BY <1>1, <1>2
<1>6. Advice!Gate!Answer(q) BY <1>3, <1>4, <1>5 DEF Advice!Gate!Answer
<1> QED BY <1>6 DEF Advice!Gate!Next

\* The call to the provider is the gate's contact.
LEMMA AnalyzeContacts ==
  ASSUME Advice!IntelligenceAssumption, Advice!IInv, NEW t \in Threads, Advice!Analyze(t)
  PROVE  Advice!Gate!Next
<1>1. PICK r \in Advice!IntelligenceRun :
           /\ advRuns' = [advRuns EXCEPT ![advJob[t]] = r] /\ Advice!RowHonest(r) /\ r.status = "running"
           /\ r.contacts = 1 /\ advPc[t] = "claimed"
  BY AnalyzeWrites
<1>2. advJob[t] \in DOMAIN advRuns /\ advRuns[advJob[t]].status = "running" /\ advRuns[advJob[t]].contacts = 0
  BY <1>1, AdviceWorkRow DEF Advice!Working
<1>3. PICK q \in Advice!Requests :
           /\ q = advJob[t] /\ Advice!GatePhase(q) = Advice!PhaseOf(advRuns[advJob[t]].status) /\ Advice!GatePhase(q)' = Advice!PhaseOf(r.status)
           /\ Advice!Contacts(q) = advRuns[advJob[t]].contacts /\ Advice!Contacts(q)' = r.contacts
           /\ \A j \in Advice!Requests : j # q => Advice!GatePhase(j)' = Advice!GatePhase(j) /\ Advice!Contacts(j)' = Advice!Contacts(j)
  BY <1>1, <1>2, RowSeen
<1>4. Advice!GatePhase(q) = "approved" /\ \A j \in Advice!Requests : Advice!GatePhase(j)' = Advice!GatePhase(j)
  BY <1>1, <1>2, <1>3, AdvicePhases
<1>5. Advice!Contacts(q) = 0 /\ Advice!Contacts(q)' = 1 BY <1>1, <1>2, <1>3
<1>6. Advice!Gate!Contact(q) BY <1>3, <1>4, <1>5 DEF Advice!Gate!Contact
<1> QED BY <1>6 DEF Advice!Gate!Next

\* A run that ends closes its request.
LEMMA EndingCloses ==
  ASSUME Advice!IntelligenceAssumption, Advice!IInv, NEW t \in Threads,
         Advice!Fail(t) \/ \E advice \in Advice!Advice : Advice!Complete(t, advice)
  PROVE  Advice!Gate!Next
<1>1. PICK r \in Advice!IntelligenceRun :
           /\ advRuns' = [advRuns EXCEPT ![advJob[t]] = r] /\ Advice!RowHonest(r) /\ r.status \in {"completed", "failed"}
           /\ r.contacts = advRuns[advJob[t]].contacts
  BY FailWrites, CompleteWrites
<1>2. advJob[t] \in DOMAIN advRuns /\ advRuns[advJob[t]].status = "running"
  BY AdviceWorkRow DEF Advice!Working, Advice!Fail, Advice!Complete
<1>3. PICK q \in Advice!Requests :
           /\ q = advJob[t] /\ Advice!GatePhase(q) = Advice!PhaseOf(advRuns[advJob[t]].status) /\ Advice!GatePhase(q)' = Advice!PhaseOf(r.status)
           /\ Advice!Contacts(q) = advRuns[advJob[t]].contacts /\ Advice!Contacts(q)' = r.contacts
           /\ \A j \in Advice!Requests : j # q => Advice!GatePhase(j)' = Advice!GatePhase(j) /\ Advice!Contacts(j)' = Advice!Contacts(j)
  BY <1>1, <1>2, RowSeen
<1>4. Advice!GatePhase(q) = "approved" /\ Advice!GatePhase(q)' = "closed"
  BY <1>1, <1>2, <1>3, AdvicePhases
<1>5. \A j \in Advice!Requests : Advice!Contacts(j)' = Advice!Contacts(j) BY <1>1, <1>3
<1>6. Advice!Gate!Close({q}) BY <1>3, <1>4, <1>5 DEF Advice!Gate!Close
<1> QED BY <1>6 DEF Advice!Gate!Next

\* A restart closes approved requests and nothing else.
LEMMA AdviceRestartCloses ==
  ASSUME Advice!IntelligenceAssumption, Advice!IInv, NEW p, NEW v, Advice!Restart(p, v)
  PROVE  Advice!Gate!Next
<1> DEFINE Q == {i \in DOMAIN advRuns : advRuns[i].status = "running"}
<1>1. /\ DOMAIN advRuns' = DOMAIN advRuns
      /\ \A i \in DOMAIN advRuns : /\ advRuns'[i].contacts = advRuns[i].contacts
                                   /\ advRuns'[i].status = IF advRuns[i].status = "running" THEN "failed"
                                                        ELSE advRuns[i].status
  BY AdviceRestartRows
<1>2. Q \in SUBSET Advice!Requests BY AdviceRowsAreRequests
<1>3. \A j \in Advice!Requests : Advice!Contacts(j)' = Advice!Contacts(j)
  BY <1>1 DEF Advice!Contacts
<1>4. PICK S \in SUBSET Advice!Requests : S = Q BY <1>2
<1>5. \A j \in Advice!Requests : Advice!GatePhase(j)' = IF j \in S THEN "closed" ELSE Advice!GatePhase(j)
  BY <1>1, <1>4, AdvicePhases DEF Advice!GatePhase
<1>6. \A j \in S : Advice!GatePhase(j) = "approved" BY <1>4, AdvicePhases DEF Advice!GatePhase
<1>7. Advice!Gate!Close(S) BY <1>3, <1>5, <1>6 DEF Advice!Gate!Close
<1> QED BY <1>7 DEF Advice!Gate!Next

\* Without rows no request is known to the gate.
LEMMA AdviceGateInit == ASSUME Advice!Init PROVE Advice!Gate!Init
<1>1. DOMAIN advRuns = {} BY DEF Advice!Init
<1> QED BY <1>1 DEF Advice!Gate!Init, Advice!GatePhase, Advice!Contacts

\* Every step of the advice runs is a step of the gate, or none.
LEMMA AdviceGateNext ==
  ASSUME Advice!IntelligenceAssumption, Advice!IInv, [Advice!Next]_Advice!vars
  PROVE  [Advice!Gate!Next]_(Advice!Gate!gateVars)
<1>1. ASSUME UNCHANGED advRuns PROVE UNCHANGED Advice!Gate!gateVars
  BY <1>1 DEF Advice!Gate!gateVars, Advice!GatePhase, Advice!Contacts
<1>2. ASSUME NEW t \in Threads, Advice!ThreadStep(t)
      PROVE  [Advice!Gate!Next]_(Advice!Gate!gateVars)
  BY <1>1, <1>2, AdviceInsertAsks, AdviceClaimAnswers, AnalyzeContacts, EndingCloses
     DEF Advice!ThreadStep, Advice!Reject
<1>3. \/ \E t \in Threads : Advice!ThreadStep(t)
      \/ \E p \in Providers \cup {Disabled}, v \in {prompt, prompt + 1} : Advice!Restart(p, v)
      \/ UNCHANGED advRuns
  BY DEF Advice!Next, Advice!vars, Advice!Reserve, Advice!Lose, Advice!Load, Advice!Change
<1>4. ASSUME NEW p \in Providers \cup {Disabled}, NEW v \in {prompt, prompt + 1},
             Advice!Restart(p, v)
      PROVE  Advice!Gate!Next
  BY <1>4, AdviceRestartCloses
<1> QED BY <1>1, <1>2, <1>3, <1>4

-----------------------------------------------------------------------------
(* The composition *)

ValidationInv == part = "validation" => Validation!IInv /\ inScope \in BOOLEAN
AdviceInv == part = "advice" => Advice!IInv

\* A step of the composition is a step of validation, or leaves it alone.
LEMMA ValidationMoves ==
  ASSUME [Next]_vars
  PROVE  /\ part' = part
         /\ [Validation!Next]_Validation!vars
         /\ part # "validation" => UNCHANGED valVars
<1>1. part' = part /\ (part # "validation" => UNCHANGED valVars) BY DEF Next, vars
<1>2. UNCHANGED valVars => UNCHANGED Validation!vars
  BY DEF valVars, Validation!vars, Validation!threadVars, Validation!envVars
<1>3. part = "validation" => Validation!Next \/ UNCHANGED valVars BY DEF Next, vars
<1> QED BY <1>1, <1>2, <1>3

\* The invariant of the validation runs holds in every run of the composition.
LEMMA ValidationInvariant == Spec => []ValidationInv
<1> USE WorkflowAssumptions
<1>1. Init => ValidationInv BY ValidationInit DEF Init, ValidationInv, Validation!Init
<1>2. ValidationInv /\ [Next]_vars => ValidationInv'
  BY ValidationMoves, ValidationNext DEF ValidationInv
<1> QED BY <1>1, <1>2, PTL DEF Spec

\* However requests, approvals, scope changes, revocations, lost answers and
\* restarts interleave, every validation row says what happened: only a decided,
\* approved and recorded run made contact, a completed one has its evidence, and
\* the retention limit, counted without a lock, is passed by the requests in
\* flight at most.
THEOREM ValidationSafe == Spec => []ValidationHonest
<1> USE WorkflowAssumptions
<1>1. ValidationInv => ValidationHonest BY HonestFollows DEF ValidationInv, ValidationHonest
<1> QED BY <1>1, ValidationInvariant, PTL

\* A step of the composition is a step of intelligence, or leaves it alone.
LEMMA AdviceMoves ==
  ASSUME [Next]_vars
  PROVE  /\ part' = part
         /\ [Advice!Next]_Advice!vars
         /\ part # "advice" => UNCHANGED advVars
<1>1. part' = part /\ (part # "advice" => UNCHANGED advVars) BY DEF Next, vars
<1>2. UNCHANGED advVars => UNCHANGED Advice!vars
  BY DEF advVars, Advice!vars, Advice!threadVars, Advice!storeVars
<1>3. part = "advice" => Advice!Next \/ UNCHANGED advVars BY DEF Next, vars
<1> QED BY <1>1, <1>2, <1>3

\* The invariant of the intelligence runs holds in every run of the composition.
LEMMA AdviceInvariant == Spec => []AdviceInv
<1> USE WorkflowAssumptions
<1>1. Init => AdviceInv BY AdviceInit DEF Init, AdviceInv
<1>2. AdviceInv /\ [Next]_vars => AdviceInv'
  BY AdviceMoves, AdviceNext DEF AdviceInv
<1> QED BY <1>1, <1>2, PTL DEF Spec

\* However requests, approvals, configuration changes, lost answers and restarts
\* interleave, what was sent is the reviewed packet to the reviewed provider,
\* stored advice is about that packet, one run is active at a time and the
\* number retained never passes its limit.
THEOREM AdviceSafe == Spec => []IntelligenceHolds
<1> USE WorkflowAssumptions
<1>1. AdviceInv => IntelligenceHolds BY AdviceFollows DEF AdviceInv, IntelligenceHolds
<1> QED BY <1>1, AdviceInvariant, PTL

\* Both workflows implement ApprovalGate: a request is stored before anything
\* else, approved at most once, makes contact at most once and only between its
\* approval and its end, and a restart closes it rather than reopening it.
THEOREM ApprovedOnceSafe == Spec => ApprovedOnce
<1> USE WorkflowAssumptions
<1>1. Init => Validation!Gate!Init /\ Advice!Gate!Init
  BY ValidationGateInit, AdviceGateInit DEF Init
<1>2. ValidationInv /\ [Next]_vars => [Validation!Gate!Next]_(Validation!Gate!gateVars)
  <2> SUFFICES ASSUME ValidationInv, [Next]_vars
               PROVE  [Validation!Gate!Next]_(Validation!Gate!gateVars)
    OBVIOUS
  <2>1. CASE part = "validation"
    BY <2>1, ValidationMoves, ValidationGateNext DEF ValidationInv
  <2>2. CASE part # "validation"
    <3>1. UNCHANGED valRuns BY <2>2, ValidationMoves DEF valVars
    <3>2. UNCHANGED Validation!Gate!gateVars
      BY <3>1 DEF Validation!Gate!gateVars, Validation!GatePhase, Validation!Contacts
    <3> QED BY <3>2
  <2> QED BY <2>1, <2>2
<1>3. AdviceInv /\ [Next]_vars => [Advice!Gate!Next]_(Advice!Gate!gateVars)
  <2> SUFFICES ASSUME AdviceInv, [Next]_vars
               PROVE  [Advice!Gate!Next]_(Advice!Gate!gateVars)
    OBVIOUS
  <2>1. CASE part = "advice"
    BY <2>1, AdviceMoves, AdviceGateNext DEF AdviceInv
  <2>2. CASE part # "advice"
    <3>1. UNCHANGED advRuns BY <2>2, AdviceMoves DEF advVars
    <3>2. UNCHANGED Advice!Gate!gateVars
      BY <3>1 DEF Advice!Gate!gateVars, Advice!GatePhase, Advice!Contacts
    <3> QED BY <3>2
  <2> QED BY <2>1, <2>2
<1> QED
  BY <1>1, <1>2, <1>3, ValidationInvariant, AdviceInvariant, PTL
     DEF Spec, ApprovedOnce, Validation!ApprovedOnce, Advice!ApprovedOnce,
         Validation!Gate!Spec, Advice!Gate!Spec
=============================================================================
