--------------------------- MODULE DiscoveryProofs ---------------------------
(* Theorems about DiscoveryRuns, for every value of its constants. *)
EXTENDS DiscoveryRuns, DockGuardProofs, FiniteSetTheorems

\* What evaluate() returns has DockGuard's shape.
LEMMA EvaluateType ==
  ASSUME NEW t, NEW rules \in SUBSET Entries, NEW answer \in SUBSET UNION Answers
  PROVE  Evaluate(t, rules, answer) \in Evaluations
<1>1. {r.target : r \in Excludes(rules)} \subseteq {x.target : x \in Entries}
  BY DEF Excludes
<1>2. OverlappingExclusions(t, rules) \subseteq {x.target : x \in Entries}
  BY <1>1 DEF OverlappingExclusions
<1>3. EvaluateNamed(t, rules, answer) \in Evaluations
  BY DEF EvaluateNamed, Refused, Evaluation, Evaluations, Decisions
<1>4. EvaluateNetwork(t, rules) \in Evaluations
  BY <1>2 DEF EvaluateNetwork, Refused, Evaluation, Evaluations, Decisions
<1> QED
  BY <1>3, <1>4 DEF Evaluate, Refused, Evaluation, Evaluations, Decisions

-----------------------------------------------------------------------------
(* Type correctness *)

\* The initial state is typed.
LEMMA TypeInit == Init => TypeOK
<1> SUFFICES ASSUME Init PROVE TypeOK OBVIOUS
<1>1. Refused("unresolved") \in Evaluations
  BY DEF Refused, Evaluation, Evaluations, Decisions
<1> QED
  BY <1>1, BoundsAssumption DEF Init, TypeOK, ActiveStatuses, TerminalStatuses, EvidenceFiles,
       HandlerPC, WorkerPC, ClaimedPC, EndedPC, ForgottenPC

\* The request handlers keep the types.
LEMMA TypeHandler ==
  ASSUME TypeOK, NEW r \in Runs, Arrive(r) \/ HandlerStep(r)
  PROVE  TypeOK'
<1> USE DEF TypeOK, database, ActiveStatuses, TerminalStatuses, AuditKinds, HandlerPC,
            WorkerPC, ClaimedPC, EndedPC, ForgottenPC
<1>1. CASE Arrive(r) BY <1>1 DEF Arrive
<1>2. ASSUME NEW answer \in Answers, CheckRequest(r, answer) PROVE TypeOK'
  BY <1>2 DEF CheckRequest
<1>3. CASE CommitAdmission(r) BY <1>3 DEF CommitAdmission
<1>4. CASE CommitDenial(r) BY <1>4 DEF CommitDenial
<1>5. CASE AdmissionRaises(r) BY <1>5 DEF AdmissionRaises
<1>6. CASE Submit(r) BY <1>6 DEF Submit
<1>7. CASE SubmitRefused(r) BY <1>7 DEF SubmitRefused
<1>8. CASE HandlerRaises(r) BY <1>8 DEF HandlerRaises
<1> QED BY <1>1, <1>2, <1>3, <1>4, <1>5, <1>6, <1>7, <1>8 DEF HandlerStep, HandlerProgress

\* The workers keep the types.
LEMMA TypeWorker ==
  ASSUME TypeOK, NEW r \in Runs, WorkerStep(r)
  PROVE  TypeOK'
<1> USE DEF TypeOK, database, ActiveStatuses, TerminalStatuses, AuditKinds, HandlerPC,
            WorkerPC, ClaimedPC, EndedPC, ForgottenPC, Step, Deny, AfterCommit
<1>1. CASE Claim(r) BY <1>1 DEF Claim
<1>2. CASE OpenRaises(r) BY <1>2 DEF OpenRaises
<1>3. CASE ClaimRaises(r) BY <1>3 DEF ClaimRaises
<1>4. CASE AuthorizeClaim(r) BY <1>4 DEF AuthorizeClaim
<1>5. ASSUME NEW answer \in Answers, EvaluateScope(r, answer) PROVE TypeOK'
  <2>1. Rules(r) \in SUBSET Entries /\ answer \in SUBSET UNION Answers
    BY RequestsAssumption DEF Rules
  <2>2. Evaluate(Target(r), Rules(r), answer) \in Evaluations BY <2>1, EvaluateType
  <2> QED BY <1>5, <2>2 DEF EvaluateScope
<1>6. CASE CheckCapability(r) BY <1>6 DEF CheckCapability
<1>7. CASE AuthorizeContact(r) BY <1>7 DEF AuthorizeContact
<1>8. CASE Contact(r) BY <1>8 DEF Contact
<1>9. CASE AdapterReturns(r) BY <1>9 DEF AdapterReturns
<1>10. CASE Recheck(r) BY <1>10 DEF Recheck
<1>11. CASE StoreFile(r) BY <1>11 DEF StoreFile, EvidenceFiles
<1>12. CASE Publish(r) BY <1>12 DEF Publish
<1>13. CASE Raise(r) BY <1>13 DEF Raise
<1>14. CASE Fail(r) BY <1>14 DEF Fail
<1>15. CASE FailDetached(r) BY <1>15 DEF FailDetached
<1> QED
  BY <1>1, <1>2, <1>3, <1>4, <1>5, <1>6, <1>7, <1>8, <1>9, <1>10, <1>11, <1>12,
     <1>13, <1>14, <1>15 DEF WorkerStep, WorkerProgress

\* Operators, shutdown, crash and startup keep the types.
LEMMA TypeRest ==
  ASSUME TypeOK, Operate \/ BeginClose \/ Stop \/ Crash \/ StartUp
  PROVE  TypeOK'
<1> USE DEF TypeOK, database, ActiveStatuses, TerminalStatuses, HandlerPC,
            WorkerPC, ClaimedPC, EndedPC, ForgottenPC
<1>1. ASSUME NEW d \in Yards, NEW entry \in Entries, AddScope(d, entry) PROVE TypeOK'
  BY <1>1 DEF AddScope
<1>2. ASSUME NEW d \in Yards, NEW entry \in Entries, RemoveScope(d, entry) PROVE TypeOK'
  BY <1>2 DEF RemoveScope
<1>3. CASE ChangeAuthority BY <1>3 DEF ChangeAuthority
<1>4. ASSUME NEW d \in Yards, ChangeGrant(d) PROVE TypeOK' BY <1>4 DEF ChangeGrant
<1>5. CASE BeginClose BY <1>5 DEF BeginClose
<1>6. CASE Stop BY <1>6 DEF Stop, Vanish
<1>7. CASE Crash BY <1>7, BoundsAssumption DEF Crash, Vanish
<1>8. CASE Start BY <1>8 DEF Start
<1>9. CASE Serve BY <1>9 DEF Serve
<1>10. ASSUME NEW r \in Runs, RecoverRun(r) PROVE TypeOK' BY <1>10 DEF RecoverRun
<1> QED
  BY <1>1, <1>2, <1>3, <1>4, <1>5, <1>6, <1>7, <1>8, <1>9, <1>10 DEF Operate, StartUp

\* Every variable of the run machinery keeps its type.
THEOREM TypeCorrect == Spec => []TypeOK
<1>1. Init => TypeOK BY TypeInit
<1>2. TypeOK /\ [Next]_vars => TypeOK'
  <2> SUFFICES ASSUME TypeOK, [Next]_vars PROVE TypeOK' OBVIOUS
  <2>1. CASE Next BY <2>1, TypeHandler, TypeWorker, TypeRest DEF Next
  <2>2. CASE UNCHANGED vars BY <2>2 DEF vars, TypeOK
  <2> QED BY <2>1, <2>2
<1> QED BY <1>1, <1>2, PTL DEF Spec

-----------------------------------------------------------------------------
(* The inductive invariant *)

\* No step separates a thread's position from its row's status.
LEMMA FlowNext ==
  ASSUME TypeOK, Flow, [Next]_vars
  PROVE  Flow'
<1> USE DEF TypeOK, Flow, Alive, database, ActiveStatuses, TerminalStatuses, HandlerPC, WorkerPC, ClaimedPC, EndedPC, ForgottenPC,
        Step, Deny, AfterCommit
<1>1. ASSUME NEW r \in Runs, Arrive(r) PROVE Flow'
  BY <1>1 DEF Arrive
<1>2. ASSUME NEW r \in Runs, NEW answer \in Answers, CheckRequest(r, answer) PROVE Flow'
  BY <1>2 DEF CheckRequest
<1>3. ASSUME NEW r \in Runs, CommitAdmission(r) PROVE Flow'
  BY <1>3 DEF CommitAdmission
<1>4. ASSUME NEW r \in Runs, CommitDenial(r) PROVE Flow'
  BY <1>4 DEF CommitDenial
<1>5. ASSUME NEW r \in Runs, AdmissionRaises(r) PROVE Flow'
  BY <1>5 DEF AdmissionRaises
<1>6. ASSUME NEW r \in Runs, Submit(r) PROVE Flow'
  BY <1>6 DEF Submit
<1>34. ASSUME NEW r \in Runs, HandlerRaises(r) PROVE Flow'
  BY <1>34 DEF HandlerRaises
<1>7. ASSUME NEW r \in Runs, SubmitRefused(r) PROVE Flow'
  BY <1>7 DEF SubmitRefused
<1>8. ASSUME NEW r \in Runs, Claim(r) PROVE Flow'
  BY <1>8 DEF Claim
<1>9. ASSUME NEW r \in Runs, OpenRaises(r) PROVE Flow'
  BY <1>9 DEF OpenRaises
<1>10. ASSUME NEW r \in Runs, ClaimRaises(r) PROVE Flow'
  BY <1>10 DEF ClaimRaises
<1>11. ASSUME NEW r \in Runs, AuthorizeClaim(r) PROVE Flow'
  BY <1>11 DEF AuthorizeClaim
<1>12. ASSUME NEW r \in Runs, NEW answer \in Answers, EvaluateScope(r, answer) PROVE Flow'
  BY <1>12 DEF EvaluateScope
<1>13. ASSUME NEW r \in Runs, CheckCapability(r) PROVE Flow'
  BY <1>13 DEF CheckCapability
<1>14. ASSUME NEW r \in Runs, AuthorizeContact(r) PROVE Flow'
  BY <1>14 DEF AuthorizeContact
<1>15. ASSUME NEW r \in Runs, Contact(r) PROVE Flow'
  BY <1>15 DEF Contact
<1>16. ASSUME NEW r \in Runs, AdapterReturns(r) PROVE Flow'
  BY <1>16 DEF AdapterReturns
<1>17. ASSUME NEW r \in Runs, Recheck(r) PROVE Flow'
  BY <1>17 DEF Recheck
<1>18. ASSUME NEW r \in Runs, StoreFile(r) PROVE Flow'
  BY <1>18 DEF StoreFile
<1>19. ASSUME NEW r \in Runs, Publish(r) PROVE Flow'
  BY <1>19 DEF Publish
<1>20. ASSUME NEW r \in Runs, Raise(r) PROVE Flow'
  BY <1>20 DEF Raise
<1>21. ASSUME NEW r \in Runs, Fail(r) PROVE Flow'
  BY <1>21 DEF Fail
<1>22. ASSUME NEW r \in Runs, FailDetached(r) PROVE Flow'
  BY <1>22 DEF FailDetached
<1>23. ASSUME NEW d \in Yards, NEW entry \in Entries, AddScope(d, entry) PROVE Flow'
  BY <1>23 DEF AddScope
<1>24. ASSUME NEW d \in Yards, NEW entry \in Entries, RemoveScope(d, entry) PROVE Flow'
  BY <1>24 DEF RemoveScope
<1>25. CASE ChangeAuthority
  BY <1>25 DEF ChangeAuthority
<1>26. ASSUME NEW d \in Yards, ChangeGrant(d) PROVE Flow'
  BY <1>26 DEF ChangeGrant
<1>27. CASE BeginClose
  BY <1>27 DEF BeginClose
<1>28. CASE Stop
  BY <1>28 DEF Stop, Vanish
<1>29. CASE Crash
  BY <1>29 DEF Crash, Vanish
<1>30. CASE Start
  BY <1>30 DEF Start
<1>31. CASE Serve
  BY <1>31 DEF Serve, ActiveRuns
<1>32. ASSUME NEW r \in Runs, RecoverRun(r) PROVE Flow'
  BY <1>32 DEF RecoverRun
<1>33. CASE UNCHANGED vars BY <1>33 DEF vars
<1> QED
  BY <1>1, <1>2, <1>3, <1>4, <1>5, <1>6, <1>7, <1>8, <1>9, <1>10, <1>11, <1>12, <1>13,
     <1>14, <1>15, <1>16, <1>17, <1>18, <1>19, <1>20, <1>21, <1>22, <1>23, <1>24,
     <1>25, <1>26, <1>27, <1>28, <1>29, <1>30, <1>31, <1>32, <1>33, <1>34 DEF Next,
     HandlerStep, HandlerProgress, WorkerStep, WorkerProgress, Operate, StartUp

\* Every step commits its audit events before the next relies on them.
LEMMA AccountedNext ==
  ASSUME TypeOK, Flow, Accounted, [Next]_vars
  PROVE  Accounted'
<1> USE DEF TypeOK, Accounted, IsLab, database, ActiveStatuses, TerminalStatuses, HandlerPC, WorkerPC, ClaimedPC, EndedPC, ForgottenPC,
        AuditKinds, Step, Deny, AfterCommit
<1>1. ASSUME NEW r \in Runs, Arrive(r) PROVE Accounted'
  BY <1>1 DEF Arrive
<1>2. ASSUME NEW r \in Runs, NEW answer \in Answers, CheckRequest(r, answer) PROVE Accounted'
  BY <1>2 DEF CheckRequest
<1>3. ASSUME NEW r \in Runs, CommitAdmission(r) PROVE Accounted'
  BY <1>3 DEF CommitAdmission, Flow
<1>4. ASSUME NEW r \in Runs, CommitDenial(r) PROVE Accounted'
  BY <1>4 DEF CommitDenial
<1>5. ASSUME NEW r \in Runs, AdmissionRaises(r) PROVE Accounted'
  BY <1>5 DEF AdmissionRaises
<1>6. ASSUME NEW r \in Runs, Submit(r) PROVE Accounted'
  BY <1>6 DEF Submit
<1>34. ASSUME NEW r \in Runs, HandlerRaises(r) PROVE Accounted'
  BY <1>34 DEF HandlerRaises
<1>7. ASSUME NEW r \in Runs, SubmitRefused(r) PROVE Accounted'
  BY <1>7 DEF SubmitRefused
<1>8. ASSUME NEW r \in Runs, Claim(r) PROVE Accounted'
  BY <1>8 DEF Claim
<1>9. ASSUME NEW r \in Runs, OpenRaises(r) PROVE Accounted'
  BY <1>9 DEF OpenRaises
<1>10. ASSUME NEW r \in Runs, ClaimRaises(r) PROVE Accounted'
  BY <1>10 DEF ClaimRaises
<1>11. ASSUME NEW r \in Runs, AuthorizeClaim(r) PROVE Accounted'
  BY <1>11 DEF AuthorizeClaim
<1>12. ASSUME NEW r \in Runs, NEW answer \in Answers, EvaluateScope(r, answer) PROVE Accounted'
  BY <1>12 DEF EvaluateScope
<1>13. ASSUME NEW r \in Runs, CheckCapability(r) PROVE Accounted'
  BY <1>13 DEF CheckCapability
<1>14. ASSUME NEW r \in Runs, AuthorizeContact(r) PROVE Accounted'
  BY <1>14 DEF AuthorizeContact
<1>15. ASSUME NEW r \in Runs, Contact(r) PROVE Accounted'
  BY <1>15 DEF Contact
<1>16. ASSUME NEW r \in Runs, AdapterReturns(r) PROVE Accounted'
  BY <1>16 DEF AdapterReturns
<1>17. ASSUME NEW r \in Runs, Recheck(r) PROVE Accounted'
  BY <1>17 DEF Recheck
<1>18. ASSUME NEW r \in Runs, StoreFile(r) PROVE Accounted'
  BY <1>18 DEF StoreFile
<1>19. ASSUME NEW r \in Runs, Publish(r) PROVE Accounted'
  BY <1>19 DEF Publish
<1>20. ASSUME NEW r \in Runs, Raise(r) PROVE Accounted'
  BY <1>20 DEF Raise
<1>21. ASSUME NEW r \in Runs, Fail(r) PROVE Accounted'
  BY <1>21 DEF Fail
<1>22. ASSUME NEW r \in Runs, FailDetached(r) PROVE Accounted'
  BY <1>22 DEF FailDetached
<1>23. ASSUME NEW d \in Yards, NEW entry \in Entries, AddScope(d, entry) PROVE Accounted'
  BY <1>23 DEF AddScope
<1>24. ASSUME NEW d \in Yards, NEW entry \in Entries, RemoveScope(d, entry) PROVE Accounted'
  BY <1>24 DEF RemoveScope
<1>25. CASE ChangeAuthority
  BY <1>25 DEF ChangeAuthority
<1>26. ASSUME NEW d \in Yards, ChangeGrant(d) PROVE Accounted'
  BY <1>26 DEF ChangeGrant
<1>27. CASE BeginClose
  BY <1>27 DEF BeginClose
<1>28. CASE Stop
  BY <1>28 DEF Stop, Vanish, Flow
<1>29. CASE Crash
  BY <1>29 DEF Crash, Vanish, Flow
<1>30. CASE Start
  BY <1>30 DEF Start
<1>31. CASE Serve
  BY <1>31 DEF Serve
<1>32. ASSUME NEW r \in Runs, RecoverRun(r) PROVE Accounted'
  BY <1>32 DEF RecoverRun
<1>33. CASE UNCHANGED vars BY <1>33 DEF vars
<1> QED
  BY <1>1, <1>2, <1>3, <1>4, <1>5, <1>6, <1>7, <1>8, <1>9, <1>10, <1>11, <1>12, <1>13,
     <1>14, <1>15, <1>16, <1>17, <1>18, <1>19, <1>20, <1>21, <1>22, <1>23, <1>24,
     <1>25, <1>26, <1>27, <1>28, <1>29, <1>30, <1>31, <1>32, <1>33, <1>34 DEF Next,
     HandlerStep, HandlerProgress, WorkerStep, WorkerProgress, Operate, StartUp

\* A contact leaves its audit events behind it, and a completed run its evidence.
LEMMA ContactNext ==
  ASSUME TypeOK, Flow, Accounted, ContactAudited, CompletedHasEvidence, [Next]_vars
  PROVE  (ContactAudited /\ CompletedHasEvidence)'
<1> USE DEF TypeOK, ContactAudited, CompletedHasEvidence, IsLab, database,
        ActiveStatuses, TerminalStatuses, HandlerPC, WorkerPC, ClaimedPC, EndedPC, ForgottenPC, AuditKinds,
        Step, Deny, AfterCommit
<1>1. ASSUME NEW r \in Runs, Arrive(r) PROVE (ContactAudited /\ CompletedHasEvidence)'
  BY <1>1 DEF Arrive
<1>2. ASSUME NEW r \in Runs, NEW answer \in Answers, CheckRequest(r, answer) PROVE (ContactAudited /\ CompletedHasEvidence)'
  BY <1>2 DEF CheckRequest
<1>3. ASSUME NEW r \in Runs, CommitAdmission(r) PROVE (ContactAudited /\ CompletedHasEvidence)'
  BY <1>3 DEF CommitAdmission
<1>4. ASSUME NEW r \in Runs, CommitDenial(r) PROVE (ContactAudited /\ CompletedHasEvidence)'
  BY <1>4 DEF CommitDenial
<1>5. ASSUME NEW r \in Runs, AdmissionRaises(r) PROVE (ContactAudited /\ CompletedHasEvidence)'
  BY <1>5 DEF AdmissionRaises
<1>6. ASSUME NEW r \in Runs, Submit(r) PROVE (ContactAudited /\ CompletedHasEvidence)'
  BY <1>6 DEF Submit
<1>34. ASSUME NEW r \in Runs, HandlerRaises(r) PROVE (ContactAudited /\ CompletedHasEvidence)'
  BY <1>34 DEF HandlerRaises
<1>7. ASSUME NEW r \in Runs, SubmitRefused(r) PROVE (ContactAudited /\ CompletedHasEvidence)'
  BY <1>7 DEF SubmitRefused
<1>8. ASSUME NEW r \in Runs, Claim(r) PROVE (ContactAudited /\ CompletedHasEvidence)'
  BY <1>8 DEF Claim
<1>9. ASSUME NEW r \in Runs, OpenRaises(r) PROVE (ContactAudited /\ CompletedHasEvidence)'
  BY <1>9 DEF OpenRaises
<1>10. ASSUME NEW r \in Runs, ClaimRaises(r) PROVE (ContactAudited /\ CompletedHasEvidence)'
  BY <1>10 DEF ClaimRaises
<1>11. ASSUME NEW r \in Runs, AuthorizeClaim(r) PROVE (ContactAudited /\ CompletedHasEvidence)'
  BY <1>11 DEF AuthorizeClaim
<1>12. ASSUME NEW r \in Runs, NEW answer \in Answers, EvaluateScope(r, answer) PROVE (ContactAudited /\ CompletedHasEvidence)'
  BY <1>12 DEF EvaluateScope
<1>13. ASSUME NEW r \in Runs, CheckCapability(r) PROVE (ContactAudited /\ CompletedHasEvidence)'
  BY <1>13 DEF CheckCapability
<1>14. ASSUME NEW r \in Runs, AuthorizeContact(r) PROVE (ContactAudited /\ CompletedHasEvidence)'
  BY <1>14 DEF AuthorizeContact
<1>15. ASSUME NEW r \in Runs, Contact(r) PROVE (ContactAudited /\ CompletedHasEvidence)'
  BY <1>15 DEF Contact, Accounted
<1>16. ASSUME NEW r \in Runs, AdapterReturns(r) PROVE (ContactAudited /\ CompletedHasEvidence)'
  BY <1>16 DEF AdapterReturns
<1>17. ASSUME NEW r \in Runs, Recheck(r) PROVE (ContactAudited /\ CompletedHasEvidence)'
  BY <1>17 DEF Recheck
<1>18. ASSUME NEW r \in Runs, StoreFile(r) PROVE (ContactAudited /\ CompletedHasEvidence)'
  BY <1>18 DEF StoreFile, Flow
<1>19. ASSUME NEW r \in Runs, Publish(r) PROVE (ContactAudited /\ CompletedHasEvidence)'
  BY <1>19 DEF Publish, Accounted
<1>20. ASSUME NEW r \in Runs, Raise(r) PROVE (ContactAudited /\ CompletedHasEvidence)'
  BY <1>20 DEF Raise
<1>21. ASSUME NEW r \in Runs, Fail(r) PROVE (ContactAudited /\ CompletedHasEvidence)'
  BY <1>21 DEF Fail
<1>22. ASSUME NEW r \in Runs, FailDetached(r) PROVE (ContactAudited /\ CompletedHasEvidence)'
  BY <1>22 DEF FailDetached
<1>23. ASSUME NEW d \in Yards, NEW entry \in Entries, AddScope(d, entry) PROVE (ContactAudited /\ CompletedHasEvidence)'
  BY <1>23 DEF AddScope
<1>24. ASSUME NEW d \in Yards, NEW entry \in Entries, RemoveScope(d, entry) PROVE (ContactAudited /\ CompletedHasEvidence)'
  BY <1>24 DEF RemoveScope
<1>25. CASE ChangeAuthority
  BY <1>25 DEF ChangeAuthority
<1>26. ASSUME NEW d \in Yards, ChangeGrant(d) PROVE (ContactAudited /\ CompletedHasEvidence)'
  BY <1>26 DEF ChangeGrant
<1>27. CASE BeginClose
  BY <1>27 DEF BeginClose
<1>28. CASE Stop
  BY <1>28 DEF Stop, Vanish
<1>29. CASE Crash
  BY <1>29 DEF Crash, Vanish
<1>30. CASE Start
  BY <1>30 DEF Start
<1>31. CASE Serve
  BY <1>31 DEF Serve
<1>32. ASSUME NEW r \in Runs, RecoverRun(r) PROVE (ContactAudited /\ CompletedHasEvidence)'
  BY <1>32 DEF RecoverRun
<1>33. CASE UNCHANGED vars BY <1>33 DEF vars
<1> QED
  BY <1>1, <1>2, <1>3, <1>4, <1>5, <1>6, <1>7, <1>8, <1>9, <1>10, <1>11, <1>12, <1>13,
     <1>14, <1>15, <1>16, <1>17, <1>18, <1>19, <1>20, <1>21, <1>22, <1>23, <1>24,
     <1>25, <1>26, <1>27, <1>28, <1>29, <1>30, <1>31, <1>32, <1>33, <1>34 DEF Next,
     HandlerStep, HandlerProgress, WorkerStep, WorkerProgress, Operate, StartUp

\* A step that leaves the request, the evaluation and the rules of a run alone
\* leaves the publication test alone.
LEMMA SameTest ==
  ASSUME NEW r \in Runs, request' = request, scope' = scope, eval'[r] = eval[r]
  PROVE  /\ Reach(Target(r), eval[r])' = Reach(Target(r), eval[r])
         /\ StillInScope(r)' = StillInScope(r)
  BY DEF Target, Rules, StillInScope

\* No step changes the scope between a worker's re-check and its commit.
LEMMA PublishingNext ==
  ASSUME TypeOK, Flow, Publishing, [Next]_vars
  PROVE  Publishing'
<1> USE DEF TypeOK, Publishing, database, ActiveStatuses, TerminalStatuses, HandlerPC, WorkerPC, ClaimedPC, EndedPC, ForgottenPC,
        Step, Deny, AfterCommit
<1>1. ASSUME NEW r \in Runs, Arrive(r) PROVE Publishing'
  BY <1>1, SameTest DEF Arrive
<1>2. ASSUME NEW r \in Runs, NEW answer \in Answers, CheckRequest(r, answer) PROVE Publishing'
  BY <1>2, SameTest DEF CheckRequest
<1>3. ASSUME NEW r \in Runs, CommitAdmission(r) PROVE Publishing'
  BY <1>3, SameTest DEF CommitAdmission
<1>4. ASSUME NEW r \in Runs, CommitDenial(r) PROVE Publishing'
  BY <1>4, SameTest DEF CommitDenial
<1>5. ASSUME NEW r \in Runs, AdmissionRaises(r) PROVE Publishing'
  BY <1>5, SameTest DEF AdmissionRaises
<1>6. ASSUME NEW r \in Runs, Submit(r) PROVE Publishing'
  BY <1>6, SameTest DEF Submit
<1>34. ASSUME NEW r \in Runs, HandlerRaises(r) PROVE Publishing'
  BY <1>34, SameTest DEF HandlerRaises
<1>7. ASSUME NEW r \in Runs, SubmitRefused(r) PROVE Publishing'
  BY <1>7, SameTest DEF SubmitRefused
<1>8. ASSUME NEW r \in Runs, Claim(r) PROVE Publishing'
  BY <1>8, SameTest DEF Claim
<1>9. ASSUME NEW r \in Runs, OpenRaises(r) PROVE Publishing'
  BY <1>9, SameTest DEF OpenRaises
<1>10. ASSUME NEW r \in Runs, ClaimRaises(r) PROVE Publishing'
  BY <1>10, SameTest DEF ClaimRaises
<1>11. ASSUME NEW r \in Runs, AuthorizeClaim(r) PROVE Publishing'
  BY <1>11, SameTest DEF AuthorizeClaim
<1>12. ASSUME NEW r \in Runs, NEW answer \in Answers, EvaluateScope(r, answer) PROVE Publishing'
  <2>1. ASSUME NEW x \in Runs, x # r PROVE eval'[x] = eval[x] /\ pc'[x] = pc[x]
    BY <1>12, <2>1 DEF EvaluateScope
  <2>2. request' = request /\ scope' = scope /\ scopeLock' = scopeLock
    BY <1>12 DEF EvaluateScope
  <2>3. pc'[r] # "publishing" BY <1>12 DEF EvaluateScope
  <2>4. ASSUME pc'[r] \in ClaimedPC PROVE Reach(Target(r), eval[r])' # {}
    <3>1. eval'[r] = Evaluate(Target(r), Rules(r), answer) BY <1>12 DEF EvaluateScope
    <3>2. Allowed(Evaluate(Target(r), Rules(r), answer)) BY <1>12, <2>4 DEF EvaluateScope
    <3>3. WellFormed(Target(r)) BY RequestsAssumption DEF Target
    <3>4. Target(r)' = Target(r) BY <2>2 DEF Target
    <3> QED BY <3>1, <3>2, <3>3, <3>4, AllowedReach
  <2> QED BY <2>1, <2>2, <2>3, <2>4, SameTest
<1>13. ASSUME NEW r \in Runs, CheckCapability(r) PROVE Publishing'
  BY <1>13, SameTest DEF CheckCapability
<1>14. ASSUME NEW r \in Runs, AuthorizeContact(r) PROVE Publishing'
  BY <1>14, SameTest DEF AuthorizeContact
<1>15. ASSUME NEW r \in Runs, Contact(r) PROVE Publishing'
  BY <1>15, SameTest DEF Contact
<1>16. ASSUME NEW r \in Runs, AdapterReturns(r) PROVE Publishing'
  BY <1>16, SameTest DEF AdapterReturns
<1>17. ASSUME NEW r \in Runs, Recheck(r) PROVE Publishing'
  <2>1. \A x \in Runs : pc[x] # "publishing" BY <1>17, RunsAssumption DEF Recheck
  <2> QED BY <1>17, <2>1, SameTest DEF Recheck
<1>18. ASSUME NEW r \in Runs, StoreFile(r) PROVE Publishing'
  BY <1>18, SameTest DEF StoreFile
<1>19. ASSUME NEW r \in Runs, Publish(r) PROVE Publishing'
  <2>1. \A x \in Runs : x # r => pc[x] # "publishing" BY <1>19, RunsAssumption DEF Publish
  <2> QED BY <1>19, <2>1, SameTest DEF Publish
<1>20. ASSUME NEW r \in Runs, Raise(r) PROVE Publishing'
  BY <1>20, SameTest DEF Raise
<1>21. ASSUME NEW r \in Runs, Fail(r) PROVE Publishing'
  BY <1>21, SameTest DEF Fail
<1>22. ASSUME NEW r \in Runs, FailDetached(r) PROVE Publishing'
  BY <1>22, SameTest DEF FailDetached
<1>23. ASSUME NEW d \in Yards, NEW entry \in Entries, AddScope(d, entry) PROVE Publishing'
  <2>1. \A x \in Runs : pc'[x] # "publishing" BY <1>23, RunsAssumption DEF AddScope
  <2>2. \A x \in Runs : Reach(Target(x), eval[x])' = Reach(Target(x), eval[x])
    BY <1>23 DEF AddScope, Target
  <2> QED BY <1>23, <2>1, <2>2 DEF AddScope
<1>24. ASSUME NEW d \in Yards, NEW entry \in Entries, RemoveScope(d, entry) PROVE Publishing'
  <2>1. \A x \in Runs : pc'[x] # "publishing" BY <1>24, RunsAssumption DEF RemoveScope
  <2>2. \A x \in Runs : Reach(Target(x), eval[x])' = Reach(Target(x), eval[x])
    BY <1>24 DEF RemoveScope, Target
  <2> QED BY <1>24, <2>1, <2>2 DEF RemoveScope
<1>25. CASE ChangeAuthority
  BY <1>25, SameTest DEF ChangeAuthority
<1>26. ASSUME NEW d \in Yards, ChangeGrant(d) PROVE Publishing'
  BY <1>26, SameTest DEF ChangeGrant
<1>27. CASE BeginClose
  BY <1>27, SameTest DEF BeginClose
<1>28. CASE Stop
  BY <1>28, SameTest DEF Stop, Vanish
<1>29. CASE Crash
  BY <1>29, SameTest DEF Crash, Vanish
<1>30. CASE Start
  BY <1>30, SameTest DEF Start
<1>31. CASE Serve
  BY <1>31, SameTest DEF Serve
<1>32. ASSUME NEW r \in Runs, RecoverRun(r) PROVE Publishing'
  BY <1>32, SameTest DEF RecoverRun
<1>33. CASE UNCHANGED vars BY <1>33, SameTest DEF vars
<1> QED
  BY <1>1, <1>2, <1>3, <1>4, <1>5, <1>6, <1>7, <1>8, <1>9, <1>10, <1>11, <1>12, <1>13,
     <1>14, <1>15, <1>16, <1>17, <1>18, <1>19, <1>20, <1>21, <1>22, <1>23, <1>24,
     <1>25, <1>26, <1>27, <1>28, <1>29, <1>30, <1>31, <1>32, <1>33, <1>34 DEF Next,
     HandlerStep, HandlerProgress, WorkerStep, WorkerProgress, Operate, StartUp

\* The counts that create_run makes are counts of finite sets.
LEMMA Counts ==
  /\ IsFiniteSet(ActiveRuns) /\ Cardinality(ActiveRuns) \in Nat
  /\ \A d : IsFiniteSet(History(d)) /\ Cardinality(History(d)) \in Nat
<1>1. ActiveRuns \in SUBSET Runs /\ \A d : History(d) \in SUBSET Runs
  BY DEF ActiveRuns, History
<1> QED BY <1>1, RunsAssumption, FS_Subset, FS_CardinalityType

\* A set with room for one more element still fits after taking it.
LEMMA OneMore ==
  ASSUME NEW S, IsFiniteSet(S), NEW x, NEW n \in Nat, Cardinality(S) < n,
         NEW T \in SUBSET (S \cup {x})
  PROVE  Cardinality(T) <= n
<1>0. Cardinality(S) \in Nat BY FS_CardinalityType
<1>1. IsFiniteSet(S \cup {x}) /\ Cardinality(S \cup {x}) <= Cardinality(S) + 1
  <2>1. /\ IsFiniteSet(S \cup {x})
        /\ Cardinality(S \cup {x}) = IF x \in S THEN Cardinality(S) ELSE Cardinality(S) + 1
    BY FS_AddElement
  <2> QED BY <1>0, <2>1
<1>2. IsFiniteSet(T) /\ Cardinality(T) <= Cardinality(S \cup {x}) BY <1>1, FS_Subset
<1>3. Cardinality(T) \in Nat /\ Cardinality(S \cup {x}) \in Nat
  BY <1>1, <1>2, FS_CardinalityType
<1> QED BY <1>0, <1>1, <1>2, <1>3

\* A step that neither inserts a row nor revives one takes no room.
LEMMA NoRoomTaken ==
  ASSUME request' = request,
         \A x \in Runs : /\ status'[x] \in ActiveStatuses => status[x] \in ActiveStatuses
                         /\ status'[x] = "none" <=> status[x] = "none"
  PROVE  /\ Cardinality(ActiveRuns') <= Cardinality(ActiveRuns)
         /\ Cardinality(ActiveRuns') \in Nat /\ Cardinality(ActiveRuns) \in Nat
         /\ \A d : History(d)' = History(d)
<1>1. ActiveRuns' \in SUBSET ActiveRuns BY DEF ActiveRuns
<1>2. \A d : History(d)' = History(d) BY DEF History
<1> QED BY <1>1, <1>2, Counts, FS_Subset, FS_CardinalityType

\* The admission lock keeps the room that was counted until the row is in.
LEMMA RoomNext ==
  ASSUME TypeOK, Flow, Room, ActiveCap, HistoryCap, [Next]_vars
  PROVE  (Room /\ ActiveCap /\ HistoryCap)'
<1> USE DEF TypeOK, Flow, Room, ActiveCap, HistoryCap, database,
        ActiveStatuses, TerminalStatuses, HandlerPC, WorkerPC, ClaimedPC, EndedPC, ForgottenPC,
        Step, Deny, AfterCommit
<1>1. ASSUME NEW r \in Runs, Arrive(r) PROVE (Room /\ ActiveCap /\ HistoryCap)'
  BY <1>1, NoRoomTaken, BoundsAssumption DEF Arrive
<1>2. ASSUME NEW r \in Runs, NEW answer \in Answers, CheckRequest(r, answer) PROVE (Room /\ ActiveCap /\ HistoryCap)'
  <2>1. ActiveRuns' = ActiveRuns /\ \A d : History(d)' = History(d)
    BY <1>2 DEF CheckRequest, ActiveRuns, History
  <2>2. \A x \in Runs : pc[x] \notin {"admitting", "denying"}
    BY <1>2, RunsAssumption DEF CheckRequest
  <2>3. pc'[r] \in {"admitting", "denying"} =>
          /\ admissionLock' = r /\ Cardinality(History(request[r].yard)) < MaxRuns
          /\ pc'[r] = "admitting" => Cardinality(ActiveRuns) < MaxConcurrent
    BY <1>2, Counts, BoundsAssumption DEF CheckRequest, Rejected, Admissible
  <2> QED BY <1>2, <2>1, <2>2, <2>3 DEF CheckRequest
<1>3. ASSUME NEW r \in Runs, CommitAdmission(r) PROVE (Room /\ ActiveCap /\ HistoryCap)'
  <2>1. ActiveRuns' \subseteq ActiveRuns \cup {r} BY <1>3 DEF CommitAdmission, ActiveRuns
  <2>2. \A d : History(d)' = IF d = request[r].yard THEN History(d) \cup {r} ELSE History(d)
    BY <1>3 DEF CommitAdmission, History
  <2>3. ASSUME NEW d \in Yards PROVE Cardinality(History(d)') <= MaxRuns
    <3>1. CASE d = request[r].yard
      <4>1. Cardinality(History(d)) < MaxRuns BY <1>3, <3>1 DEF CommitAdmission
      <4>2. History(d)' \in SUBSET (History(d) \cup {r}) BY <2>2
      <4> QED BY <4>1, <4>2, Counts, OneMore, BoundsAssumption
    <3>2. CASE d # request[r].yard BY <2>2, <3>2
    <3> QED BY <3>1, <3>2
  <2>4. \A x \in Runs : pc'[x] \notin {"admitting", "denying"} BY <1>3 DEF CommitAdmission
  <2>5. Cardinality(ActiveRuns) < MaxConcurrent BY <1>3 DEF CommitAdmission
  <2>6. Cardinality(ActiveRuns') <= MaxConcurrent
    BY <2>1, <2>5, Counts, OneMore, BoundsAssumption
  <2> QED BY <2>3, <2>4, <2>6
<1>4. ASSUME NEW r \in Runs, CommitDenial(r) PROVE (Room /\ ActiveCap /\ HistoryCap)'
  <2>1. ActiveRuns' = ActiveRuns BY <1>4 DEF CommitDenial, ActiveRuns
  <2>2. \A d : History(d)' = IF d = request[r].yard THEN History(d) \cup {r} ELSE History(d)
    BY <1>4 DEF CommitDenial, History
  <2>3. ASSUME NEW d \in Yards PROVE Cardinality(History(d)') <= MaxRuns
    <3>1. CASE d = request[r].yard
      <4>1. Cardinality(History(d)) < MaxRuns BY <1>4, <3>1 DEF CommitDenial
      <4>2. History(d)' \in SUBSET (History(d) \cup {r}) BY <2>2
      <4> QED BY <4>1, <4>2, Counts, OneMore, BoundsAssumption
    <3>2. CASE d # request[r].yard BY <2>2, <3>2
    <3> QED BY <3>1, <3>2
  <2>4. \A x \in Runs : pc'[x] \notin {"admitting", "denying"} BY <1>4 DEF CommitDenial
  <2> QED BY <2>1, <2>3, <2>4
<1>5. ASSUME NEW r \in Runs, AdmissionRaises(r) PROVE (Room /\ ActiveCap /\ HistoryCap)'
  BY <1>5, NoRoomTaken, BoundsAssumption DEF AdmissionRaises
<1>6. ASSUME NEW r \in Runs, Submit(r) PROVE (Room /\ ActiveCap /\ HistoryCap)'
  BY <1>6, NoRoomTaken, BoundsAssumption DEF Submit
<1>34. ASSUME NEW r \in Runs, HandlerRaises(r) PROVE (Room /\ ActiveCap /\ HistoryCap)'
  BY <1>34, NoRoomTaken, BoundsAssumption DEF HandlerRaises
<1>7. ASSUME NEW r \in Runs, SubmitRefused(r) PROVE (Room /\ ActiveCap /\ HistoryCap)'
  <2>1. \A x \in Runs : /\ status'[x] \in ActiveStatuses => status[x] \in ActiveStatuses
                        /\ status'[x] = "none" <=> status[x] = "none"
    BY <1>7 DEF SubmitRefused
  <2> QED BY <1>7, <2>1, NoRoomTaken, BoundsAssumption DEF SubmitRefused
<1>8. ASSUME NEW r \in Runs, Claim(r) PROVE (Room /\ ActiveCap /\ HistoryCap)'
  <2>1. \A x \in Runs : /\ status'[x] \in ActiveStatuses => status[x] \in ActiveStatuses
                        /\ status'[x] = "none" <=> status[x] = "none"
    BY <1>8 DEF Claim
  <2> QED BY <1>8, <2>1, NoRoomTaken, BoundsAssumption DEF Claim
<1>9. ASSUME NEW r \in Runs, OpenRaises(r) PROVE (Room /\ ActiveCap /\ HistoryCap)'
  BY <1>9, NoRoomTaken, BoundsAssumption DEF OpenRaises
<1>10. ASSUME NEW r \in Runs, ClaimRaises(r) PROVE (Room /\ ActiveCap /\ HistoryCap)'
  <2>1. \A x \in Runs : /\ status'[x] \in ActiveStatuses => status[x] \in ActiveStatuses
                        /\ status'[x] = "none" <=> status[x] = "none"
    BY <1>10 DEF ClaimRaises
  <2> QED BY <1>10, <2>1, NoRoomTaken, BoundsAssumption DEF ClaimRaises
<1>11. ASSUME NEW r \in Runs, AuthorizeClaim(r) PROVE (Room /\ ActiveCap /\ HistoryCap)'
  <2>1. \A x \in Runs : /\ status'[x] \in ActiveStatuses => status[x] \in ActiveStatuses
                        /\ status'[x] = "none" <=> status[x] = "none"
    BY <1>11 DEF AuthorizeClaim
  <2> QED BY <1>11, <2>1, NoRoomTaken, BoundsAssumption DEF AuthorizeClaim
<1>12. ASSUME NEW r \in Runs, NEW answer \in Answers, EvaluateScope(r, answer) PROVE (Room /\ ActiveCap /\ HistoryCap)'
  <2>1. \A x \in Runs : /\ status'[x] \in ActiveStatuses => status[x] \in ActiveStatuses
                        /\ status'[x] = "none" <=> status[x] = "none"
    BY <1>12 DEF EvaluateScope
  <2> QED BY <1>12, <2>1, NoRoomTaken, BoundsAssumption DEF EvaluateScope
<1>13. ASSUME NEW r \in Runs, CheckCapability(r) PROVE (Room /\ ActiveCap /\ HistoryCap)'
  <2>1. \A x \in Runs : /\ status'[x] \in ActiveStatuses => status[x] \in ActiveStatuses
                        /\ status'[x] = "none" <=> status[x] = "none"
    BY <1>13 DEF CheckCapability
  <2> QED BY <1>13, <2>1, NoRoomTaken, BoundsAssumption DEF CheckCapability
<1>14. ASSUME NEW r \in Runs, AuthorizeContact(r) PROVE (Room /\ ActiveCap /\ HistoryCap)'
  <2>1. \A x \in Runs : /\ status'[x] \in ActiveStatuses => status[x] \in ActiveStatuses
                        /\ status'[x] = "none" <=> status[x] = "none"
    BY <1>14 DEF AuthorizeContact
  <2> QED BY <1>14, <2>1, NoRoomTaken, BoundsAssumption DEF AuthorizeContact
<1>15. ASSUME NEW r \in Runs, Contact(r) PROVE (Room /\ ActiveCap /\ HistoryCap)'
  BY <1>15, NoRoomTaken, BoundsAssumption DEF Contact
<1>16. ASSUME NEW r \in Runs, AdapterReturns(r) PROVE (Room /\ ActiveCap /\ HistoryCap)'
  BY <1>16, NoRoomTaken, BoundsAssumption DEF AdapterReturns
<1>17. ASSUME NEW r \in Runs, Recheck(r) PROVE (Room /\ ActiveCap /\ HistoryCap)'
  <2>1. \A x \in Runs : /\ status'[x] \in ActiveStatuses => status[x] \in ActiveStatuses
                        /\ status'[x] = "none" <=> status[x] = "none"
    BY <1>17 DEF Recheck
  <2> QED BY <1>17, <2>1, NoRoomTaken, BoundsAssumption DEF Recheck
<1>18. ASSUME NEW r \in Runs, StoreFile(r) PROVE (Room /\ ActiveCap /\ HistoryCap)'
  BY <1>18, NoRoomTaken, BoundsAssumption DEF StoreFile
<1>19. ASSUME NEW r \in Runs, Publish(r) PROVE (Room /\ ActiveCap /\ HistoryCap)'
  <2>1. \A x \in Runs : /\ status'[x] \in ActiveStatuses => status[x] \in ActiveStatuses
                        /\ status'[x] = "none" <=> status[x] = "none"
    BY <1>19 DEF Publish
  <2> QED BY <1>19, <2>1, NoRoomTaken, BoundsAssumption DEF Publish
<1>20. ASSUME NEW r \in Runs, Raise(r) PROVE (Room /\ ActiveCap /\ HistoryCap)'
  BY <1>20, NoRoomTaken, BoundsAssumption DEF Raise
<1>21. ASSUME NEW r \in Runs, Fail(r) PROVE (Room /\ ActiveCap /\ HistoryCap)'
  <2>1. \A x \in Runs : /\ status'[x] \in ActiveStatuses => status[x] \in ActiveStatuses
                        /\ status'[x] = "none" <=> status[x] = "none"
    BY <1>21 DEF Fail
  <2> QED BY <1>21, <2>1, NoRoomTaken, BoundsAssumption DEF Fail
<1>22. ASSUME NEW r \in Runs, FailDetached(r) PROVE (Room /\ ActiveCap /\ HistoryCap)'
  <2>1. \A x \in Runs : /\ status'[x] \in ActiveStatuses => status[x] \in ActiveStatuses
                        /\ status'[x] = "none" <=> status[x] = "none"
    BY <1>22 DEF FailDetached
  <2> QED BY <1>22, <2>1, NoRoomTaken, BoundsAssumption DEF FailDetached
<1>23. ASSUME NEW d \in Yards, NEW entry \in Entries, AddScope(d, entry) PROVE (Room /\ ActiveCap /\ HistoryCap)'
  BY <1>23, NoRoomTaken, BoundsAssumption DEF AddScope
<1>24. ASSUME NEW d \in Yards, NEW entry \in Entries, RemoveScope(d, entry) PROVE (Room /\ ActiveCap /\ HistoryCap)'
  BY <1>24, NoRoomTaken, BoundsAssumption DEF RemoveScope
<1>25. CASE ChangeAuthority
  BY <1>25, NoRoomTaken, BoundsAssumption DEF ChangeAuthority
<1>26. ASSUME NEW d \in Yards, ChangeGrant(d) PROVE (Room /\ ActiveCap /\ HistoryCap)'
  BY <1>26, NoRoomTaken, BoundsAssumption DEF ChangeGrant
<1>27. CASE BeginClose
  BY <1>27, NoRoomTaken, BoundsAssumption DEF BeginClose
<1>28. CASE Stop
  BY <1>28, NoRoomTaken, BoundsAssumption DEF Stop, Vanish
<1>29. CASE Crash
  BY <1>29, NoRoomTaken, BoundsAssumption DEF Crash, Vanish
<1>30. CASE Start
  BY <1>30, NoRoomTaken, BoundsAssumption DEF Start
<1>31. CASE Serve
  BY <1>31, NoRoomTaken, BoundsAssumption DEF Serve
<1>32. ASSUME NEW r \in Runs, RecoverRun(r) PROVE (Room /\ ActiveCap /\ HistoryCap)'
  <2>1. \A x \in Runs : /\ status'[x] \in ActiveStatuses => status[x] \in ActiveStatuses
                        /\ status'[x] = "none" <=> status[x] = "none"
    BY <1>32 DEF RecoverRun
  <2> QED BY <1>32, <2>1, NoRoomTaken, BoundsAssumption DEF RecoverRun
<1>33. CASE UNCHANGED vars BY <1>33, NoRoomTaken, BoundsAssumption DEF vars
<1> QED
  BY <1>1, <1>2, <1>3, <1>4, <1>5, <1>6, <1>7, <1>8, <1>9, <1>10, <1>11, <1>12, <1>13,
     <1>14, <1>15, <1>16, <1>17, <1>18, <1>19, <1>20, <1>21, <1>22, <1>23, <1>24,
     <1>25, <1>26, <1>27, <1>28, <1>29, <1>30, <1>31, <1>32, <1>33, <1>34 DEF Next,
     HandlerStep, HandlerProgress, WorkerStep, WorkerProgress, Operate, StartUp

\* The inductive invariant holds in every reachable state.
THEOREM Invariance == Spec => []IInv
<1>1. Init => IInv
  <2> SUFFICES ASSUME Init PROVE IInv OBVIOUS
  <2>1. TypeOK BY TypeInit
  <2>2. Flow /\ Room /\ Accounted /\ ContactAudited /\ CompletedHasEvidence /\ Publishing
    BY DEF Init, Flow, Alive, Room, Accounted, ContactAudited, CompletedHasEvidence,
           Publishing, ClaimedPC
  <2>3. ActiveRuns = {} /\ \A d \in Yards : History(d) = {}
    BY DEF Init, ActiveRuns, ActiveStatuses, History
  <2>4. ActiveCap /\ HistoryCap
    BY <2>3, FS_EmptySet, BoundsAssumption DEF ActiveCap, HistoryCap
  <2> QED BY <2>1, <2>2, <2>4 DEF IInv
<1>2. IInv /\ [Next]_vars => IInv'
  <2> SUFFICES ASSUME IInv, [Next]_vars PROVE IInv' OBVIOUS
  <2>1. TypeOK'
    <3>1. CASE Next BY <3>1, TypeHandler, TypeWorker, TypeRest DEF Next, IInv
    <3>2. CASE UNCHANGED vars BY <3>2 DEF vars, TypeOK, IInv
    <3> QED BY <3>1, <3>2
  <2>2. Flow' BY FlowNext DEF IInv
  <2>3. Accounted' BY AccountedNext DEF IInv
  <2>4. ContactAudited' /\ CompletedHasEvidence' BY ContactNext DEF IInv
  <2>5. Publishing' BY PublishingNext DEF IInv
  <2>6. Room' /\ ActiveCap' /\ HistoryCap' BY RoomNext DEF IInv
  <2> QED BY <2>1, <2>2, <2>3, <2>4, <2>5, <2>6 DEF IInv
<1> QED BY <1>1, <1>2, PTL DEF Spec

\* Admission never leaves more queued and running runs than the active limit,
\* however request threads, workers and crashes interleave.
THEOREM CapsHold == Spec => []ActiveCap
<1>1. IInv => ActiveCap BY DEF IInv
<1> QED BY <1>1, Invariance, PTL

\* Nor does any Dockyard come to keep more rows than its history limit.
THEOREM HistoryBounded == Spec => []HistoryCap
<1>1. IInv => HistoryCap BY DEF IInv
<1> QED BY <1>1, Invariance, PTL

\* No target is contacted without its committed audit events.
THEOREM AccountabilityHolds == Spec => []ContactAudited
<1>1. IInv => ContactAudited BY DEF IInv
<1> QED BY <1>1, Invariance, PTL

\* No completed run lacks the evidence files its rows refer to.
THEOREM EvidenceHolds == Spec => []CompletedHasEvidence
<1>1. IInv => CompletedHasEvidence BY DEF IInv
<1> QED BY <1>1, Invariance, PTL

\* Every active row has a thread that answers for it or awaits recovery.
THEOREM OwnershipHolds == Spec => []ActiveRunOwned
<1>1. IInv => ActiveRunOwned
  BY DEF IInv, TypeOK, Flow, Accounted, ActiveRunOwned, ActiveStatuses, TerminalStatuses, HandlerPC,
         WorkerPC, ClaimedPC, EndedPC, ForgottenPC
<1> QED BY <1>1, Invariance, PTL

\* Results are published only inside the scope in force at that moment.
THEOREM PublicationInScope == Spec => PublishedInScope
<1> DEFINE Good(r) ==
      LET reach == Reach(Target(r), eval[r])
      IN /\ FirstMatch(Target(r), Includes(Rules(r)))
         /\ \A x \in Excludes(Rules(r)) :
              x.target.kind # "url" => reach \cap x.target.net = {}
         /\ reach # {} /\ reach \cap HardAddrs = {}
         /\ IsNamed(Target(r)) => reach \cap BadAddrs = {}
<1>1. ASSUME IInv, NEW r \in Runs, pc[r] = "publishing" PROVE Good(r)
  <2> DEFINE now == Evaluate(Target(r), Rules(r), eval[r].resolved)
  <2>1. WellFormed(Target(r)) BY <1>1, RequestsAssumption DEF Target, IInv, TypeOK
  <2>2. Allowed(now) /\ now.excluded \subseteq eval[r].excluded
    BY <1>1 DEF IInv, Publishing, StillInScope
  <2>3. Reach(Target(r), eval[r]) # {} BY <1>1 DEF IInv, Publishing, ClaimedPC
  <2>4. FirstMatch(Target(r), Includes(Rules(r))) BY <2>2, AllowedFacts
  <2>5. \A x \in Excludes(Rules(r)) :
          x.target.kind # "url" => Reach(Target(r), eval[r]) \cap x.target.net = {}
    BY <2>1, <2>2, RecheckSound
  <2>6. CASE IsNamed(Target(r))
    <3>1. ~IsNetwork(Target(r)) BY <2>6 DEF IsNamed, IsNetwork
    <3>2. eval[r].resolved \cap (BadAddrs \cup HardAddrs) = {}
      BY <2>2, <2>6, <3>1, AllowedFacts, AllowedNamed
    <3>3. Reach(Target(r), eval[r]) = eval[r].resolved BY <2>6 DEF Reach
    <3> QED BY <2>3, <2>4, <2>5, <3>2, <3>3
  <2>7. CASE ~IsNamed(Target(r))
    <3>1. Reach(Target(r), eval[r]) \subseteq Target(r).net BY <2>7 DEF Reach
    <3>2. Target(r).net \cap HardAddrs = {} BY <2>2, AllowedFacts DEF HardPolicy
    <3> QED BY <2>3, <2>4, <2>5, <2>7, <3>1, <3>2
  <2> QED BY <2>6, <2>7
<1>2. ASSUME IInv, [Next]_vars, NEW r \in Runs,
             status[r] # "completed", status'[r] = "completed"
      PROVE  pc[r] = "publishing"
  <2> USE <1>2 DEF IInv, TypeOK, database, Step, Deny, AfterCommit
  <2>1. CASE UNCHANGED vars BY <2>1 DEF vars
  <2>2. ASSUME NEW x \in Runs, Arrive(x) \/ HandlerStep(x) PROVE FALSE
    BY <2>2 DEF HandlerStep, HandlerProgress, Arrive, CheckRequest, CommitAdmission, CommitDenial,
                AdmissionRaises, HandlerRaises, Submit, SubmitRefused
  <2>3. ASSUME NEW x \in Runs, WorkerStep(x) PROVE Publish(x)
    BY <2>3 DEF WorkerStep, WorkerProgress, Claim, OpenRaises, ClaimRaises, AuthorizeClaim, EvaluateScope,
                CheckCapability, AuthorizeContact, Contact, AdapterReturns, Recheck,
                StoreFile, Raise, Fail, FailDetached
  <2>4. ASSUME Operate \/ BeginClose \/ Stop \/ Crash \/ StartUp PROVE FALSE
    BY <2>4 DEF Operate, StartUp, AddScope, RemoveScope, ChangeAuthority, ChangeGrant,
                BeginClose, Stop, Crash, Vanish, Start, Serve, RecoverRun
  <2> QED BY <2>1, <2>2, <2>3, <2>4 DEF Next, Publish
<1>3. IInv /\ [Next]_vars =>
        [\A r \in Runs : status[r] # "completed" /\ status'[r] = "completed" => Good(r)]_vars
  BY <1>1, <1>2
<1> QED BY <1>3, Invariance, PTL DEF Spec, PublishedInScope

\* Where a commit that raises did not take effect, a run that ended keeps the
\* status it ended with.
THEOREM TerminalIsFinal == ~AckLoss => (Spec => TerminalFinal)
<1> SUFFICES ASSUME ~AckLoss PROVE Spec => TerminalFinal OBVIOUS
<1>1. ASSUME IInv, [Next]_vars, NEW r \in Runs, status[r] \in TerminalStatuses
      PROVE  status'[r] = status[r]
  <2> USE <1>1 DEF IInv, TypeOK, Flow, database, Step, Deny, AfterCommit,
                   ActiveStatuses, TerminalStatuses, ClaimedPC
  <2>1. CASE UNCHANGED vars BY <2>1 DEF vars
  <2>2. ASSUME NEW x \in Runs, Arrive(x) \/ HandlerStep(x) PROVE status'[r] = status[r]
    BY <2>2 DEF HandlerStep, HandlerProgress, Arrive, CheckRequest, CommitAdmission, CommitDenial,
                AdmissionRaises, HandlerRaises, Submit, SubmitRefused
  <2>3. ASSUME NEW x \in Runs, WorkerStep(x) PROVE status'[r] = status[r]
    BY <2>3 DEF WorkerStep, WorkerProgress, Claim, OpenRaises, ClaimRaises, AuthorizeClaim, EvaluateScope,
                CheckCapability, AuthorizeContact, Contact, AdapterReturns, Recheck,
                StoreFile, Publish, Raise, Fail, FailDetached
  <2>4. ASSUME Operate \/ BeginClose \/ Stop \/ Crash \/ StartUp
        PROVE  status'[r] = status[r]
    BY <2>4 DEF Operate, StartUp, AddScope, RemoveScope, ChangeAuthority, ChangeGrant,
                BeginClose, Stop, Crash, Vanish, Start, Serve, RecoverRun
  <2> QED BY <2>1, <2>2, <2>3, <2>4 DEF Next
<1>2. IInv /\ [Next]_vars =>
        [\A r \in Runs : status[r] \in TerminalStatuses => status'[r] = status[r]]_vars
  BY <1>1
<1> QED BY <1>2, Invariance, PTL DEF Spec, TerminalFinal
=============================================================================
