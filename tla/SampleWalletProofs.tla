------------------------- MODULE SampleWalletProofs -------------------------
(***************************************************************************)
(* Every step of SampleWallet preserves Inductive: one lemma per part of   *)
(* the invariant, one step per action.  The theorems at the end follow.    *)
(***************************************************************************)
EXTENDS SampleWalletInvariant, TLAPS

USE InvestorAssumption, ProfileAssumption, ActivityAssumption

\* A merge adds at most the id to a table and keeps the type of its rows.
LEMMA MergeKeepsType ==
  ASSUME NEW Row, NEW table, DOMAIN table \subseteq Nat,
         table \in [DOMAIN table -> Row], NEW id \in Nat, NEW row \in Row
  PROVE  /\ DOMAIN Merge(table, id, row) = DOMAIN table \cup {id}
         /\ DOMAIN Merge(table, id, row) \subseteq Nat
         /\ Merge(table, id, row) \in [DOMAIN Merge(table, id, row) -> Row]
         /\ Merge(table, id, row)[id] = row
         /\ \A k \in DOMAIN table : k # id => Merge(table, id, row)[k] = table[k]
BY DEF Merge

\* An execution that goes on stays well typed.
LEMMA AdvanceTypes ==
  ASSUME executions \subseteq Execution, NEW e \in Execution,
         NEW ids \in SUBSET Nat, NEW seen \in WalletRow \cup {NoRow},
         NEW done \in BOOLEAN, Advance(e, ids, seen, done)
  PROVE  executions' \subseteq Execution
<1>1. [wf |-> e.wf, act |-> e.act, attempt |-> e.attempt, ids |-> ids,
       seen |-> seen, done |-> done] \in Execution
  BY DEF Execution
<1>2. QED
  BY <1>1 DEF Advance

\* Rows keep their types.
LEMMA TableStep == Inductive /\ [Next]_vars => TableTypes'
<1> SUFFICES ASSUME Inductive, [Next]_vars PROVE TableTypes'
  OBVIOUS
<1> USE DEF Inductive, TypeOK, tables, seqs, jobs, progress, results,
   server, MoveTo, TableTypes
<1>1. ASSUME NEW w \in Workflows, ServerStep(w) PROVE TableTypes'
  BY <1>1 DEF ServerStep, Start, PollActivity, ActivityTimesOut,
     ExecutionExpires, AwaitCompletes, AwaitTimesOut
<1>2. ASSUME NEW e \in executions, ActivityStep(e) PROVE TableTypes'
  <2>1. CASE CreateWalletRow(e)
    <3>1. walletSeq + 1 \in Nat /\ NewWallet(e.wf) \in WalletRow
      BY InvestorAssumption
         DEF WorkerTypes, ServerTypes, Execution, WalletRow, WalletStatus, NewWallet
    <3>2. wallets' = Merge(wallets, walletSeq + 1, NewWallet(e.wf))
      BY <2>1 DEF CreateWalletRow
    <3>3. /\ DOMAIN wallets' \subseteq Nat
          /\ wallets' \in [DOMAIN wallets' -> WalletRow]
      BY <3>1, <3>2, MergeKeepsType
    <3> QED
      BY <2>1, <3>3 DEF CreateWalletRow
  <2>2. CASE CreateInvestmentRow(e)
    <3>1. investmentSeq + 1 \in Nat /\ NewInvestment(e.wf) \in InvestmentRow
      BY InvestorAssumption
         DEF WorkerTypes, ServerTypes, Execution, InvestmentRow, NewInvestment
    <3>2. investments' = Merge(investments, investmentSeq + 1, NewInvestment(e.wf))
      BY <2>2 DEF CreateInvestmentRow
    <3>3. /\ DOMAIN investments' \subseteq Nat
          /\ investments' \in [DOMAIN investments' -> InvestmentRow]
      BY <3>1, <3>2, MergeKeepsType
    <3> QED
      BY <2>2, <3>3 DEF CreateInvestmentRow
  <2>3. CASE ScheduleInvestmentCreation(e)
    BY <2>3 DEF ScheduleInvestmentCreation
  <2>4. CASE CreateCandidateRow(e)
    <3>1. PICK i \in Nat :
            candidates' = Merge(candidates, candidateSeq + 1, NewCandidate(i))
      BY <2>4 DEF CreateCandidateRow, Uncovered, ServerTypes, WorkerTypes, Execution
    <3>2. candidateSeq + 1 \in Nat /\ NewCandidate(i) \in CandidateRow
      BY DEF WorkerTypes, CandidateRow, CandidateOutcomes, NewCandidate
    <3>3. /\ DOMAIN candidates' \subseteq Nat
          /\ candidates' \in [DOMAIN candidates' -> CandidateRow]
      BY <3>1, <3>2, MergeKeepsType
    <3> QED
      BY <2>4, <3>3 DEF CreateCandidateRow
  <2>5. CASE ScheduleCandidateProcessing(e)
    BY <2>5 DEF ScheduleCandidateProcessing
  <2>6. CASE FanOutCandidates(e)
    BY <2>6 DEF FanOutCandidates
  <2>7. CASE FindWallet(e)
    BY <2>7 DEF FindWallet
  <2>8. CASE SaveReady(e)
    BY <2>8 DEF SaveReady, WorkerTypes, ServerTypes, Merge, WalletRow,
       WalletStatus, Execution, NoRow
  <2>9. CASE SaveAborted(e)
    BY <2>9 DEF SaveAborted, WorkerTypes, ServerTypes, Merge, WalletRow,
       WalletStatus, Execution, NoRow
  <2>10. QED
    BY <1>2, <2>1, <2>2, <2>3, <2>4, <2>5, <2>6, <2>7, <2>8, <2>9 DEF ActivityStep
<1>3. ASSUME NEW e \in executions, Return(e) PROVE TableTypes'
  BY <1>3 DEF Return
<1>4. ASSUME NEW e \in executions, ActivityThrows(e) PROVE TableTypes'
  BY <1>4 DEF ActivityThrows
<1>5. ASSUME NEW i \in creationJobs, RunCreationJob(i) PROVE TableTypes'
  BY <1>5 DEF RunCreationJob, InvestmentRow
<1>6. ASSUME NEW i \in creationJobs, CreationJobDies(i) PROVE TableTypes'
  BY <1>6 DEF CreationJobDies
<1>7. ASSUME NEW j \in candidateJobs, CandidateJobStep(j) PROVE TableTypes'
  <2>1. CASE SlowAttempt(j)
    BY <2>1 DEF SlowAttempt
  <2>2. CASE FailedAttempt(j)
    <3>1. candidates' \in [DOMAIN candidates -> CandidateRow]
      BY <2>2, CandidateAssumption
         DEF FailedAttempt, Conclude, CandidateRow, WorkerTypes, CandidateJob,
             CandidateOutcomes
    <3> QED
      BY <2>2, <3>1 DEF FailedAttempt, Conclude
  <2>3. CASE MatchCandidate(j)
    <3>1. candidates' \in [DOMAIN candidates -> CandidateRow]
      BY <2>3, CandidateAssumption
         DEF MatchCandidate, Conclude, CandidateRow, WorkerTypes, CandidateJob,
             CandidateOutcomes
    <3> QED
      BY <2>3, <3>1 DEF MatchCandidate, Conclude
  <2>4. CASE RejectCandidate(j)
    <3>1. candidates' \in [DOMAIN candidates -> CandidateRow]
      BY <2>4, CandidateAssumption
         DEF RejectCandidate, Conclude, CandidateRow, WorkerTypes, CandidateJob,
             CandidateOutcomes
    <3> QED
      BY <2>4, <3>1 DEF RejectCandidate, Conclude
  <2>5. CASE SignalProcessed(j)
    BY <2>5 DEF SignalProcessed
  <2>6. QED
    BY <1>7, <2>1, <2>2, <2>3, <2>4, <2>5 DEF CandidateJobStep
<1>8. ASSUME NEW j \in candidateJobs, CandidateJobDies(j) PROVE TableTypes'
  BY <1>8 DEF CandidateJobDies
<1>9. CASE Crash
  BY <1>9 DEF Crash
<1>10. CASE UNCHANGED vars
  BY <1>10 DEF vars
<1>11. QED
  BY <1>1, <1>2, <1>3, <1>4, <1>5, <1>6, <1>7, <1>8, <1>9, <1>10 DEF Next

\* Sequences, executions and jobs keep their types.
LEMMA WorkerStep == Inductive /\ [Next]_vars => WorkerTypes'
<1> SUFFICES ASSUME Inductive, [Next]_vars PROVE WorkerTypes'
  OBVIOUS
<1> USE DEF Inductive, TypeOK, tables, seqs, jobs, progress, results,
   server, MoveTo, WorkerTypes
<1>1. ASSUME NEW w \in Workflows, ServerStep(w) PROVE WorkerTypes'
  <2>1. CASE Start(w)
    BY <2>1 DEF Start
  <2>2. CASE PollActivity(w)
    <3>1. [wf |-> w, act |-> step[w], attempt |-> attempt[w], ids |-> {},
           seen |-> NoRow, done |-> FALSE] \in Execution
      BY <2>2 DEF PollActivity, ServerTypes, Execution
    <3> QED
      BY <2>2, <3>1 DEF PollActivity
  <2>3. CASE ActivityTimesOut(w)
    BY <2>3 DEF ActivityTimesOut
  <2>4. CASE ExecutionExpires(w)
    BY <2>4 DEF ExecutionExpires
  <2>5. CASE AwaitCompletes(w)
    BY <2>5 DEF AwaitCompletes
  <2>6. CASE AwaitTimesOut(w)
    BY <2>6 DEF AwaitTimesOut
  <2>7. QED
    BY <1>1, <2>1, <2>2, <2>3, <2>4, <2>5, <2>6 DEF ServerStep
<1>2. ASSUME NEW e \in executions, ActivityStep(e) PROVE WorkerTypes'
  <2>1. CASE CreateWalletRow(e)
    <3>1. /\ e \in Execution /\ {walletSeq + 1} \in SUBSET Nat
          /\ e.seen \in WalletRow \cup {NoRow}
      BY DEF Execution
    <3>2. executions' \subseteq Execution
      BY <2>1, <3>1, AdvanceTypes DEF CreateWalletRow, Finish
    <3> QED
      BY <2>1, <3>1, <3>2 DEF CreateWalletRow
  <2>2. CASE CreateInvestmentRow(e)
    <3>1. /\ e \in Execution /\ e.ids \cup {investmentSeq + 1} \in SUBSET Nat
          /\ e.seen \in WalletRow \cup {NoRow}
      BY DEF Execution
    <3>2. executions' \subseteq Execution
      BY <2>2, <3>1, AdvanceTypes DEF CreateInvestmentRow, Add
    <3> QED
      BY <2>2, <3>1, <3>2 DEF CreateInvestmentRow
  <2>3. CASE ScheduleInvestmentCreation(e)
    <3>1. /\ e \in Execution /\ e.ids \in SUBSET Nat
          /\ e.seen \in WalletRow \cup {NoRow}
      BY DEF Execution
    <3>2. executions' \subseteq Execution
      BY <2>3, <3>1, AdvanceTypes DEF ScheduleInvestmentCreation, Finish
    <3> QED
      BY <2>3, <3>1, <3>2 DEF ScheduleInvestmentCreation
  <2>4. CASE CreateCandidateRow(e)
    <3>1. /\ e \in Execution /\ e.ids \cup {candidateSeq + 1} \in SUBSET Nat
          /\ e.seen \in WalletRow \cup {NoRow}
      BY DEF Execution
    <3>2. executions' \subseteq Execution
      BY <2>4, <3>1, AdvanceTypes DEF CreateCandidateRow, Add
    <3> QED
      BY <2>4, <3>1, <3>2 DEF CreateCandidateRow
  <2>5. CASE ScheduleCandidateProcessing(e)
    <3>1. /\ e \in Execution /\ e.ids \in SUBSET Nat
          /\ e.seen \in WalletRow \cup {NoRow}
      BY DEF Execution
    <3>2. executions' \subseteq Execution
      BY <2>5, <3>1, AdvanceTypes DEF ScheduleCandidateProcessing, Finish
    <3>3. \A c \in e.ids :
            [wf |-> e.wf, candidate |-> c, attempt |-> 1, outcome |-> "PENDING"]
              \in CandidateJob
      BY DEF CandidateJob, Execution
    <3>4. candidateJobs' \subseteq CandidateJob
      BY <2>5, <3>3 DEF ScheduleCandidateProcessing
    <3> QED
      BY <2>5, <3>2, <3>4 DEF ScheduleCandidateProcessing
  <2>6. CASE FanOutCandidates(e)
    <3>1. /\ e \in Execution /\ e.ids \in SUBSET Nat
          /\ e.seen \in WalletRow \cup {NoRow}
      BY DEF Execution
    <3>2. executions' \subseteq Execution
      BY <2>6, <3>1, AdvanceTypes DEF FanOutCandidates, Finish
    <3> QED
      BY <2>6, <3>1, <3>2 DEF FanOutCandidates
  <2>7. CASE FindWallet(e)
    <3>1. wallets[walletId[e.wf]] \in WalletRow
      BY <2>7 DEF FindWallet, TableTypes, ServerTypes, WalletReferences, Execution
    <3>2. e \in Execution /\ e.ids \in SUBSET Nat
      BY DEF Execution
    <3>3. executions' \subseteq Execution
      BY <2>7, <3>1, <3>2, AdvanceTypes DEF FindWallet
    <3> QED
      BY <2>7, <3>3 DEF FindWallet
  <2>8. CASE SaveReady(e)
    <3>1. /\ e \in Execution /\ e.ids \in SUBSET Nat
          /\ e.seen \in WalletRow \cup {NoRow}
      BY DEF Execution
    <3>2. executions' \subseteq Execution
      BY <2>8, <3>1, AdvanceTypes DEF SaveReady, Finish
    <3> QED
      BY <2>8, <3>1, <3>2 DEF SaveReady
  <2>9. CASE SaveAborted(e)
    <3>1. /\ e \in Execution /\ e.ids \in SUBSET Nat
          /\ e.seen \in WalletRow \cup {NoRow}
      BY DEF Execution
    <3>2. executions' \subseteq Execution
      BY <2>9, <3>1, AdvanceTypes DEF SaveAborted, Finish
    <3> QED
      BY <2>9, <3>1, <3>2 DEF SaveAborted
  <2>10. QED
    BY <1>2, <2>1, <2>2, <2>3, <2>4, <2>5, <2>6, <2>7, <2>8, <2>9 DEF ActivityStep
<1>3. ASSUME NEW e \in executions, Return(e) PROVE WorkerTypes'
  BY <1>3 DEF Return
<1>4. ASSUME NEW e \in executions, ActivityThrows(e) PROVE WorkerTypes'
  BY <1>4 DEF ActivityThrows
<1>5. ASSUME NEW i \in creationJobs, RunCreationJob(i) PROVE WorkerTypes'
  BY <1>5 DEF RunCreationJob
<1>6. ASSUME NEW i \in creationJobs, CreationJobDies(i) PROVE WorkerTypes'
  BY <1>6 DEF CreationJobDies
<1>7. ASSUME NEW j \in candidateJobs, CandidateJobStep(j) PROVE WorkerTypes'
  <2>1. CASE SlowAttempt(j)
    BY <2>1 DEF SlowAttempt, CandidateJob, UpdateJob
  <2>2. CASE FailedAttempt(j)
    BY <2>2 DEF FailedAttempt, CandidateJob, Attempting, UpdateJob
  <2>3. CASE MatchCandidate(j)
    BY <2>3 DEF MatchCandidate, CandidateJob, CandidateOutcomes, Conclude,
       UpdateJob, Attempting
  <2>4. CASE RejectCandidate(j)
    BY <2>4 DEF RejectCandidate, CandidateJob, CandidateOutcomes, Conclude,
       UpdateJob
  <2>5. CASE SignalProcessed(j)
    BY <2>5 DEF SignalProcessed
  <2>6. QED
    BY <1>7, <2>1, <2>2, <2>3, <2>4, <2>5 DEF CandidateJobStep
<1>8. ASSUME NEW j \in candidateJobs, CandidateJobDies(j) PROVE WorkerTypes'
  BY <1>8 DEF CandidateJobDies
<1>9. CASE Crash
  BY <1>9 DEF Crash
<1>10. CASE UNCHANGED vars
  BY <1>10 DEF vars
<1>11. QED
  BY <1>1, <1>2, <1>3, <1>4, <1>5, <1>6, <1>7, <1>8, <1>9, <1>10 DEF Next

\* Losing an attempt keeps the types of the workflow's progress.
LEMMA LoseAttemptTypes ==
  ASSUME ServerTypes, NEW w \in Workflows, LoseAttempt(w), UNCHANGED results
  PROVE  ServerTypes'
<1>1. \/ attempt' = [attempt EXCEPT ![w] = attempt[w] + 1] /\ step' = step
      \/ /\ attempt' = [attempt EXCEPT ![w] = 1]
         /\ step' = [step EXCEPT ![w] = "failed"]
  BY DEF LoseAttempt, GoTo
<1>2. step' \in [Workflows -> Steps]
  BY <1>1 DEF ServerTypes, Steps, Closed
<1>3. attempt' \in [Workflows -> Nat]
  BY <1>1 DEF ServerTypes
<1>4. started' = [started EXCEPT ![w] = FALSE]
  BY DEF LoseAttempt, GoTo
<1>5. started' \in [Workflows -> BOOLEAN]
  BY <1>4 DEF ServerTypes
<1>6. QED
  BY <1>2, <1>3, <1>5 DEF ServerTypes, results

\* A lost attempt leaves the workflow where it is, or fails it.
LEMMA LoseAttemptMoves ==
  ASSUME NEW w \in Workflows, LoseAttempt(w)
  PROVE  step' = step \/ step' = [step EXCEPT ![w] = "failed"]
BY DEF LoseAttempt, GoTo

\* The server's view keeps its types.
LEMMA ServerStepTypes == Inductive /\ [Next]_vars => ServerTypes'
<1> SUFFICES ASSUME Inductive, [Next]_vars PROVE ServerTypes'
  OBVIOUS
<1> USE DEF Inductive, TypeOK, tables, seqs, jobs, progress, results,
   server, MoveTo, GoTo, ServerTypes, Steps, Activities, Closed
<1>1. ASSUME NEW w \in Workflows, ServerStep(w) PROVE ServerTypes'
  <2>1. CASE Start(w)
    BY <2>1 DEF Start
  <2>2. CASE PollActivity(w)
    BY <2>2 DEF PollActivity
  <2>3. CASE ActivityTimesOut(w)
    BY <2>3, LoseAttemptTypes DEF ActivityTimesOut
  <2>4. CASE ExecutionExpires(w)
    BY <2>4 DEF ExecutionExpires
  <2>5. CASE AwaitCompletes(w)
    BY <2>5 DEF AwaitCompletes
  <2>6. CASE AwaitTimesOut(w)
    BY <2>6 DEF AwaitTimesOut
  <2>7. QED
    BY <1>1, <2>1, <2>2, <2>3, <2>4, <2>5, <2>6 DEF ServerStep
<1>2. ASSUME NEW e \in executions, ActivityStep(e) PROVE ServerTypes'
  BY <1>2 DEF ActivityStep, CreateWalletRow, CreateInvestmentRow,
     ScheduleInvestmentCreation, CreateCandidateRow,
     ScheduleCandidateProcessing, FanOutCandidates, FindWallet, SaveReady,
     SaveAborted
<1>3. ASSUME NEW e \in executions, Return(e) PROVE ServerTypes'
  <2>1. e \in Execution
    BY DEF WorkerTypes
  <2>2. CASE ~Current(e)
    BY <1>3, <2>2 DEF Return
  <2>3. CASE Current(e)
    <3>1. GoTo(e.wf, NextStep[e.act]) /\ NextStep[e.act] \in Steps
      BY <1>3, <2>1, <2>3 DEF Return, NextStep, Execution
    <3>2. step' \in [Workflows -> Steps] /\ attempt' \in [Workflows -> Nat]
      BY <3>1, <2>1 DEF Execution
    <3>3. started' \in [Workflows -> BOOLEAN]
      BY <3>1, <2>1 DEF Execution
    <3>4. walletId' \in [Workflows -> Nat]
      <4>1. CASE e.act # "createWallet"
        BY <1>3, <2>3, <4>1 DEF Return
      <4>2. CASE e.act = "createWallet"
        <5>1. (CHOOSE id \in e.ids : TRUE) \in e.ids
          BY <1>3, <4>2 DEF Return, WalletReferences
        <5>2. walletId' = [walletId EXCEPT ![e.wf] = CHOOSE id \in e.ids : TRUE]
          BY <1>3, <2>3, <4>2 DEF Return
        <5> QED
          BY <5>1, <5>2, <2>1 DEF Execution
      <4> QED
        BY <4>1, <4>2
    <3>5. investmentIds' \in [Workflows -> SUBSET Nat]
      BY <1>3, <2>1, <2>3 DEF Return, Execution
    <3>6. candidateIds' \in [Workflows -> SUBSET Nat]
      BY <1>3, <2>1, <2>3 DEF Return, Execution
    <3> QED
      BY <3>2, <3>3, <3>4, <3>5, <3>6
  <2> QED
    BY <2>2, <2>3
<1>4. ASSUME NEW e \in executions, ActivityThrows(e) PROVE ServerTypes'
  <2>1. e.wf \in Workflows
    BY DEF WorkerTypes, Execution
  <2>2. CASE Current(e)
    BY <1>4, <2>1, <2>2, LoseAttemptTypes DEF ActivityThrows
  <2>3. CASE ~Current(e)
    BY <1>4, <2>3 DEF ActivityThrows
  <2> QED
    BY <2>2, <2>3
<1>5. ASSUME NEW i \in creationJobs, RunCreationJob(i) PROVE ServerTypes'
  BY <1>5 DEF RunCreationJob
<1>6. ASSUME NEW i \in creationJobs, CreationJobDies(i) PROVE ServerTypes'
  BY <1>6 DEF CreationJobDies
<1>7. ASSUME NEW j \in candidateJobs, CandidateJobStep(j) PROVE ServerTypes'
  BY <1>7 DEF CandidateJobStep, SlowAttempt, FailedAttempt, MatchCandidate,
     RejectCandidate, SignalProcessed, Conclude
<1>8. ASSUME NEW j \in candidateJobs, CandidateJobDies(j) PROVE ServerTypes'
  BY <1>8 DEF CandidateJobDies
<1>9. CASE Crash
  BY <1>9 DEF Crash
<1>10. CASE UNCHANGED vars
  BY <1>10 DEF vars
<1>11. QED
  BY <1>1, <1>2, <1>3, <1>4, <1>5, <1>6, <1>7, <1>8, <1>9, <1>10 DEF Next

\* What was signalled keeps its type.
LEMMA SignalStep == Inductive /\ [Next]_vars => SignalTypes'
<1> SUFFICES ASSUME Inductive, [Next]_vars PROVE SignalTypes'
  OBVIOUS
<1> USE DEF Inductive, TypeOK, tables, seqs, jobs, progress, results,
   server, MoveTo, Conclude, SignalTypes
<1>1. ASSUME NEW w \in Workflows, ServerStep(w) PROVE SignalTypes'
  BY <1>1 DEF ServerStep, Start, PollActivity, ActivityTimesOut,
     ExecutionExpires, AwaitCompletes, AwaitTimesOut
<1>2. ASSUME NEW e \in executions, ActivityStep(e) PROVE SignalTypes'
  BY <1>2 DEF ActivityStep, CreateWalletRow, CreateInvestmentRow,
     ScheduleInvestmentCreation, CreateCandidateRow,
     ScheduleCandidateProcessing, FanOutCandidates, FindWallet, SaveReady,
     SaveAborted
<1>3. ASSUME NEW e \in executions, Return(e) PROVE SignalTypes'
  BY <1>3 DEF Return
<1>4. ASSUME NEW e \in executions, ActivityThrows(e) PROVE SignalTypes'
  BY <1>4 DEF ActivityThrows
<1>5. ASSUME NEW i \in creationJobs, RunCreationJob(i) PROVE SignalTypes'
  BY <1>5 DEF RunCreationJob
<1>6. ASSUME NEW i \in creationJobs, CreationJobDies(i) PROVE SignalTypes'
  BY <1>6 DEF CreationJobDies
<1>7. ASSUME NEW j \in candidateJobs, CandidateJobStep(j) PROVE SignalTypes'
  <2>1. CASE SlowAttempt(j)
    BY <2>1 DEF SlowAttempt
  <2>2. CASE FailedAttempt(j)
    BY <2>2 DEF FailedAttempt
  <2>3. CASE MatchCandidate(j)
    BY <2>3 DEF MatchCandidate
  <2>4. CASE RejectCandidate(j)
    BY <2>4 DEF RejectCandidate
  <2>5. CASE SignalProcessed(j)
    BY <2>5 DEF SignalProcessed, WorkerTypes, CandidateJob, Merge,
       SignalledStatus, CandidateOutcomes
  <2>6. QED
    BY <1>7, <2>1, <2>2, <2>3, <2>4, <2>5 DEF CandidateJobStep
<1>8. ASSUME NEW j \in candidateJobs, CandidateJobDies(j) PROVE SignalTypes'
  BY <1>8 DEF CandidateJobDies
<1>9. CASE Crash
  BY <1>9 DEF Crash
<1>10. CASE UNCHANGED vars
  BY <1>10 DEF vars
<1>11. QED
  BY <1>1, <1>2, <1>3, <1>4, <1>5, <1>6, <1>7, <1>8, <1>9, <1>10 DEF Next

\* Whoever refers to a wallet goes on referring to one.
LEMMA WalletReferencesStep == Inductive /\ [Next]_vars => WalletReferences'
<1> SUFFICES ASSUME Inductive, [Next]_vars PROVE WalletReferences'
  OBVIOUS
<1> USE DEF Inductive, TypeOK, tables, seqs, jobs, progress, results,
   server, MoveTo, GoTo, Advance, Add, Finish, WalletReferences, Started,
   NoId
<1>1. ASSUME NEW w \in Workflows, ServerStep(w) PROVE WalletReferences'
  <2>1. CASE Start(w)
    BY <2>1 DEF Start, ServerTypes
  <2>2. CASE PollActivity(w)
    BY <2>2 DEF PollActivity, Activities, Started, ServerTypes
  <2>3. CASE ActivityTimesOut(w)
    <3>1. step' = step \/ step' = [step EXCEPT ![w] = "failed"]
      BY <2>3, LoseAttemptMoves DEF ActivityTimesOut
    <3> QED
      BY <2>3, <3>1 DEF ActivityTimesOut, ServerTypes
  <2>4. CASE ExecutionExpires(w)
    BY <2>4 DEF ExecutionExpires
  <2>5. CASE AwaitCompletes(w)
    BY <2>5 DEF AwaitCompletes
  <2>6. CASE AwaitTimesOut(w)
    BY <2>6 DEF AwaitTimesOut
  <2>7. QED
    BY <1>1, <2>1, <2>2, <2>3, <2>4, <2>5, <2>6 DEF ServerStep
<1>2. ASSUME NEW e \in executions, ActivityStep(e) PROVE WalletReferences'
  <2>1. CASE CreateWalletRow(e)
    BY <2>1 DEF CreateWalletRow, Merge, WorkerTypes, Execution
  <2>2. CASE CreateInvestmentRow(e)
    BY <2>2 DEF CreateInvestmentRow
  <2>3. CASE ScheduleInvestmentCreation(e)
    BY <2>3 DEF ScheduleInvestmentCreation
  <2>4. CASE CreateCandidateRow(e)
    BY <2>4 DEF CreateCandidateRow
  <2>5. CASE ScheduleCandidateProcessing(e)
    BY <2>5 DEF ScheduleCandidateProcessing
  <2>6. CASE FanOutCandidates(e)
    BY <2>6 DEF FanOutCandidates
  <2>7. CASE FindWallet(e)
    BY <2>7 DEF FindWallet
  <2>8. CASE SaveReady(e)
    BY <2>8 DEF SaveReady, Merge
  <2>9. CASE SaveAborted(e)
    BY <2>9 DEF SaveAborted, Merge
  <2>10. QED
    BY <1>2, <2>1, <2>2, <2>3, <2>4, <2>5, <2>6, <2>7, <2>8, <2>9 DEF ActivityStep
<1>3. ASSUME NEW e \in executions, Return(e) PROVE WalletReferences'
  BY <1>3 DEF Return, WorkerTypes, Execution, NextStep, Current,
     ServerTypes, Activities
<1>4. ASSUME NEW e \in executions, ActivityThrows(e) PROVE WalletReferences'
  <2>1. e.wf \in Workflows
    BY DEF WorkerTypes, Execution
  <2>2. step' = step \/ step' = [step EXCEPT ![e.wf] = "failed"]
    BY <1>4, <2>1, LoseAttemptMoves DEF ActivityThrows
  <2> QED
    BY <1>4, <2>1, <2>2 DEF ActivityThrows, ServerTypes
<1>5. ASSUME NEW i \in creationJobs, RunCreationJob(i) PROVE WalletReferences'
  BY <1>5 DEF RunCreationJob
<1>6. ASSUME NEW i \in creationJobs, CreationJobDies(i) PROVE WalletReferences'
  BY <1>6 DEF CreationJobDies
<1>7. ASSUME NEW j \in candidateJobs, CandidateJobStep(j) PROVE WalletReferences'
  <2>1. CASE SlowAttempt(j)
    BY <2>1 DEF SlowAttempt
  <2>2. CASE FailedAttempt(j)
    BY <2>2 DEF FailedAttempt
  <2>3. CASE MatchCandidate(j)
    BY <2>3 DEF MatchCandidate, Conclude
  <2>4. CASE RejectCandidate(j)
    BY <2>4 DEF RejectCandidate, Conclude
  <2>5. CASE SignalProcessed(j)
    BY <2>5 DEF SignalProcessed
  <2>6. QED
    BY <1>7, <2>1, <2>2, <2>3, <2>4, <2>5 DEF CandidateJobStep
<1>8. ASSUME NEW j \in candidateJobs, CandidateJobDies(j) PROVE WalletReferences'
  BY <1>8 DEF CandidateJobDies
<1>9. CASE Crash
  BY <1>9 DEF Crash
<1>10. CASE UNCHANGED vars
  BY <1>10 DEF vars
<1>11. QED
  BY <1>1, <1>2, <1>3, <1>4, <1>5, <1>6, <1>7, <1>8, <1>9, <1>10 DEF Next

\* Whoever refers to an investment goes on referring to one.
LEMMA InvestmentReferencesStep ==
  Inductive /\ [Next]_vars => InvestmentReferences'
<1> SUFFICES ASSUME Inductive, [Next]_vars PROVE InvestmentReferences'
  OBVIOUS
<1> USE DEF Inductive, TypeOK, tables, seqs, jobs, progress, results,
   server, MoveTo, GoTo, Advance, Add, Finish, InvestmentReferences
<1>1. ASSUME NEW w \in Workflows, ServerStep(w) PROVE InvestmentReferences'
  <2>1. CASE Start(w)
    BY <2>1 DEF Start
  <2>2. CASE PollActivity(w)
    BY <2>2 DEF PollActivity
  <2>3. CASE ActivityTimesOut(w)
    BY <2>3 DEF ActivityTimesOut, LoseAttempt
  <2>4. CASE ExecutionExpires(w)
    BY <2>4 DEF ExecutionExpires
  <2>5. CASE AwaitCompletes(w)
    BY <2>5 DEF AwaitCompletes
  <2>6. CASE AwaitTimesOut(w)
    BY <2>6 DEF AwaitTimesOut
  <2>7. QED
    BY <1>1, <2>1, <2>2, <2>3, <2>4, <2>5, <2>6 DEF ServerStep
<1>2. ASSUME NEW e \in executions, ActivityStep(e) PROVE InvestmentReferences'
  <2>1. CASE CreateWalletRow(e)
    BY <2>1 DEF CreateWalletRow
  <2>2. CASE CreateInvestmentRow(e)
    BY <2>2 DEF CreateInvestmentRow, Merge, WorkerTypes, Execution
  <2>3. CASE ScheduleInvestmentCreation(e)
    BY <2>3 DEF ScheduleInvestmentCreation
  <2>4. CASE CreateCandidateRow(e)
    BY <2>4 DEF CreateCandidateRow, Merge, Uncovered, WorkerTypes,
       Execution, NewCandidate
  <2>5. CASE ScheduleCandidateProcessing(e)
    BY <2>5 DEF ScheduleCandidateProcessing
  <2>6. CASE FanOutCandidates(e)
    BY <2>6 DEF FanOutCandidates
  <2>7. CASE FindWallet(e)
    BY <2>7 DEF FindWallet
  <2>8. CASE SaveReady(e)
    BY <2>8 DEF SaveReady
  <2>9. CASE SaveAborted(e)
    BY <2>9 DEF SaveAborted
  <2>10. QED
    BY <1>2, <2>1, <2>2, <2>3, <2>4, <2>5, <2>6, <2>7, <2>8, <2>9 DEF ActivityStep
<1>3. ASSUME NEW e \in executions, Return(e) PROVE InvestmentReferences'
  BY <1>3 DEF Return, WorkerTypes, Execution, NextStep, Current,
     ServerTypes, Activities
<1>4. ASSUME NEW e \in executions, ActivityThrows(e) PROVE InvestmentReferences'
  BY <1>4 DEF ActivityThrows, LoseAttempt
<1>5. ASSUME NEW i \in creationJobs, RunCreationJob(i) PROVE InvestmentReferences'
  BY <1>5 DEF RunCreationJob
<1>6. ASSUME NEW i \in creationJobs, CreationJobDies(i) PROVE InvestmentReferences'
  BY <1>6 DEF CreationJobDies
<1>7. ASSUME NEW j \in candidateJobs, CandidateJobStep(j) PROVE InvestmentReferences'
  <2>1. CASE SlowAttempt(j)
    BY <2>1 DEF SlowAttempt
  <2>2. CASE FailedAttempt(j)
    BY <2>2 DEF FailedAttempt, TableTypes, CandidateRow
  <2>3. CASE MatchCandidate(j)
    BY <2>3 DEF MatchCandidate, Conclude, TableTypes, CandidateRow
  <2>4. CASE RejectCandidate(j)
    BY <2>4 DEF RejectCandidate, Conclude, TableTypes, CandidateRow
  <2>5. CASE SignalProcessed(j)
    BY <2>5 DEF SignalProcessed
  <2>6. QED
    BY <1>7, <2>1, <2>2, <2>3, <2>4, <2>5 DEF CandidateJobStep
<1>8. ASSUME NEW j \in candidateJobs, CandidateJobDies(j) PROVE InvestmentReferences'
  BY <1>8 DEF CandidateJobDies
<1>9. CASE Crash
  BY <1>9 DEF Crash
<1>10. CASE UNCHANGED vars
  BY <1>10 DEF vars
<1>11. QED
  BY <1>1, <1>2, <1>3, <1>4, <1>5, <1>6, <1>7, <1>8, <1>9, <1>10 DEF Next

\* Whoever refers to a candidate goes on referring to one.
LEMMA CandidateReferencesStep ==
  Inductive /\ [Next]_vars => CandidateReferences'
<1> SUFFICES ASSUME Inductive, [Next]_vars PROVE CandidateReferences'
  OBVIOUS
<1> USE DEF Inductive, TypeOK, tables, seqs, jobs, progress, results,
   server, MoveTo, GoTo, Advance, Add, Finish, CandidateReferences
<1>1. ASSUME NEW w \in Workflows, ServerStep(w) PROVE CandidateReferences'
  <2>1. CASE Start(w)
    BY <2>1 DEF Start
  <2>2. CASE PollActivity(w)
    BY <2>2 DEF PollActivity
  <2>3. CASE ActivityTimesOut(w)
    BY <2>3 DEF ActivityTimesOut, LoseAttempt
  <2>4. CASE ExecutionExpires(w)
    BY <2>4 DEF ExecutionExpires
  <2>5. CASE AwaitCompletes(w)
    BY <2>5 DEF AwaitCompletes
  <2>6. CASE AwaitTimesOut(w)
    BY <2>6 DEF AwaitTimesOut
  <2>7. QED
    BY <1>1, <2>1, <2>2, <2>3, <2>4, <2>5, <2>6 DEF ServerStep
<1>2. ASSUME NEW e \in executions, ActivityStep(e) PROVE CandidateReferences'
  <2>1. CASE CreateWalletRow(e)
    BY <2>1 DEF CreateWalletRow
  <2>2. CASE CreateInvestmentRow(e)
    BY <2>2 DEF CreateInvestmentRow
  <2>3. CASE ScheduleInvestmentCreation(e)
    BY <2>3 DEF ScheduleInvestmentCreation
  <2>4. CASE CreateCandidateRow(e)
    BY <2>4 DEF CreateCandidateRow, Merge, WorkerTypes, Execution
  <2>5. CASE ScheduleCandidateProcessing(e)
    BY <2>5 DEF ScheduleCandidateProcessing
  <2>6. CASE FanOutCandidates(e)
    BY <2>6 DEF FanOutCandidates
  <2>7. CASE FindWallet(e)
    BY <2>7 DEF FindWallet
  <2>8. CASE SaveReady(e)
    BY <2>8 DEF SaveReady
  <2>9. CASE SaveAborted(e)
    BY <2>9 DEF SaveAborted
  <2>10. QED
    BY <1>2, <2>1, <2>2, <2>3, <2>4, <2>5, <2>6, <2>7, <2>8, <2>9 DEF ActivityStep
<1>3. ASSUME NEW e \in executions, Return(e) PROVE CandidateReferences'
  BY <1>3 DEF Return, WorkerTypes, Execution, NextStep, Current,
     ServerTypes, Activities
<1>4. ASSUME NEW e \in executions, ActivityThrows(e) PROVE CandidateReferences'
  BY <1>4 DEF ActivityThrows, LoseAttempt
<1>5. ASSUME NEW i \in creationJobs, RunCreationJob(i) PROVE CandidateReferences'
  BY <1>5 DEF RunCreationJob
<1>6. ASSUME NEW i \in creationJobs, CreationJobDies(i) PROVE CandidateReferences'
  BY <1>6 DEF CreationJobDies
<1>7. ASSUME NEW j \in candidateJobs, CandidateJobStep(j) PROVE CandidateReferences'
  <2>1. CASE SlowAttempt(j)
    BY <2>1 DEF SlowAttempt, UpdateJob
  <2>2. CASE FailedAttempt(j)
    BY <2>2 DEF FailedAttempt, UpdateJob
  <2>3. CASE MatchCandidate(j)
    BY <2>3 DEF MatchCandidate, Conclude, UpdateJob
  <2>4. CASE RejectCandidate(j)
    BY <2>4 DEF RejectCandidate, Conclude, UpdateJob
  <2>5. CASE SignalProcessed(j)
    BY <2>5 DEF SignalProcessed, Merge, SignalTypes
  <2>6. QED
    BY <1>7, <2>1, <2>2, <2>3, <2>4, <2>5 DEF CandidateJobStep
<1>8. ASSUME NEW j \in candidateJobs, CandidateJobDies(j) PROVE CandidateReferences'
  BY <1>8 DEF CandidateJobDies
<1>9. CASE Crash
  BY <1>9 DEF Crash
<1>10. CASE UNCHANGED vars
  BY <1>10 DEF vars
<1>11. QED
  BY <1>1, <1>2, <1>3, <1>4, <1>5, <1>6, <1>7, <1>8, <1>9, <1>10 DEF Next

\* A pipeline past its await stays covered by the signals.
LEMMA FanInPassedStep == Inductive /\ [Next]_vars => FanInPassed'
<1> SUFFICES ASSUME Inductive, [Next]_vars PROVE FanInPassed'
  OBVIOUS
<1> USE DEF Inductive, TypeOK, tables, seqs, jobs, progress, results,
   server, MoveTo, GoTo, Advance, Add, Finish, FanInPassed, AllProcessed,
   ServerTypes
<1>1. ASSUME NEW w \in Workflows, ServerStep(w) PROVE FanInPassed'
  <2>1. CASE Start(w)
    BY <2>1 DEF Start
  <2>2. CASE PollActivity(w)
    BY <2>2 DEF PollActivity
  <2>3. CASE ActivityTimesOut(w)
    <3>1. step' = step \/ step' = [step EXCEPT ![w] = "failed"]
      BY <2>3, LoseAttemptMoves DEF ActivityTimesOut
    <3> QED
      BY <2>3, <3>1 DEF ActivityTimesOut
  <2>4. CASE ExecutionExpires(w)
    BY <2>4 DEF ExecutionExpires
  <2>5. CASE AwaitCompletes(w)
    BY <2>5 DEF AwaitCompletes
  <2>6. CASE AwaitTimesOut(w)
    BY <2>6 DEF AwaitTimesOut
  <2>7. QED
    BY <1>1, <2>1, <2>2, <2>3, <2>4, <2>5, <2>6 DEF ServerStep
<1>2. ASSUME NEW e \in executions, ActivityStep(e) PROVE FanInPassed'
  <2>1. CASE CreateWalletRow(e)
    BY <2>1 DEF CreateWalletRow
  <2>2. CASE CreateInvestmentRow(e)
    BY <2>2 DEF CreateInvestmentRow
  <2>3. CASE ScheduleInvestmentCreation(e)
    BY <2>3 DEF ScheduleInvestmentCreation
  <2>4. CASE CreateCandidateRow(e)
    BY <2>4 DEF CreateCandidateRow
  <2>5. CASE ScheduleCandidateProcessing(e)
    BY <2>5 DEF ScheduleCandidateProcessing
  <2>6. CASE FanOutCandidates(e)
    BY <2>6 DEF FanOutCandidates
  <2>7. CASE FindWallet(e)
    BY <2>7 DEF FindWallet
  <2>8. CASE SaveReady(e)
    BY <2>8 DEF SaveReady
  <2>9. CASE SaveAborted(e)
    BY <2>9 DEF SaveAborted
  <2>10. QED
    BY <1>2, <2>1, <2>2, <2>3, <2>4, <2>5, <2>6, <2>7, <2>8, <2>9 DEF ActivityStep
<1>3. ASSUME NEW e \in executions, Return(e) PROVE FanInPassed'
  BY <1>3 DEF Return, WorkerTypes, Execution, NextStep, Current, Activities
<1>4. ASSUME NEW e \in executions, ActivityThrows(e) PROVE FanInPassed'
  <2>1. e.wf \in Workflows
    BY DEF WorkerTypes, Execution
  <2>2. step' = step \/ step' = [step EXCEPT ![e.wf] = "failed"]
    BY <1>4, <2>1, LoseAttemptMoves DEF ActivityThrows
  <2> QED
    BY <1>4, <2>1, <2>2 DEF ActivityThrows
<1>5. ASSUME NEW i \in creationJobs, RunCreationJob(i) PROVE FanInPassed'
  BY <1>5 DEF RunCreationJob
<1>6. ASSUME NEW i \in creationJobs, CreationJobDies(i) PROVE FanInPassed'
  BY <1>6 DEF CreationJobDies
<1>7. ASSUME NEW j \in candidateJobs, CandidateJobStep(j) PROVE FanInPassed'
  <2>1. CASE SlowAttempt(j)
    BY <2>1 DEF SlowAttempt
  <2>2. CASE FailedAttempt(j)
    BY <2>2 DEF FailedAttempt
  <2>3. CASE MatchCandidate(j)
    BY <2>3 DEF MatchCandidate, Conclude
  <2>4. CASE RejectCandidate(j)
    BY <2>4 DEF RejectCandidate, Conclude
  <2>5. CASE SignalProcessed(j)
    BY <2>5 DEF SignalProcessed, Merge, SignalTypes
  <2>6. QED
    BY <1>7, <2>1, <2>2, <2>3, <2>4, <2>5 DEF CandidateJobStep
<1>8. ASSUME NEW j \in candidateJobs, CandidateJobDies(j) PROVE FanInPassed'
  BY <1>8 DEF CandidateJobDies
<1>9. CASE Crash
  BY <1>9 DEF Crash
<1>10. CASE UNCHANGED vars
  BY <1>10 DEF vars
<1>11. QED
  BY <1>1, <1>2, <1>3, <1>4, <1>5, <1>6, <1>7, <1>8, <1>9, <1>10 DEF Next

\* No result is there before its step.
LEMMA ResultsAreOrderedStep == Inductive /\ [Next]_vars => ResultsAreOrdered'
<1> SUFFICES ASSUME Inductive, [Next]_vars PROVE ResultsAreOrdered'
  OBVIOUS
<1> USE DEF Inductive, TypeOK, tables, seqs, jobs, progress, results,
   server, MoveTo, GoTo, Advance, Add, Finish, ResultsAreOrdered,
   ServerTypes
<1>1. ASSUME NEW w \in Workflows, ServerStep(w) PROVE ResultsAreOrdered'
  <2>1. CASE Start(w)
    BY <2>1 DEF Start
  <2>2. CASE PollActivity(w)
    BY <2>2 DEF PollActivity
  <2>3. CASE ActivityTimesOut(w)
    <3>1. step' = step \/ step' = [step EXCEPT ![w] = "failed"]
      BY <2>3, LoseAttemptMoves DEF ActivityTimesOut
    <3> QED
      BY <2>3, <3>1 DEF ActivityTimesOut
  <2>4. CASE ExecutionExpires(w)
    BY <2>4 DEF ExecutionExpires
  <2>5. CASE AwaitCompletes(w)
    BY <2>5 DEF AwaitCompletes
  <2>6. CASE AwaitTimesOut(w)
    BY <2>6 DEF AwaitTimesOut
  <2>7. QED
    BY <1>1, <2>1, <2>2, <2>3, <2>4, <2>5, <2>6 DEF ServerStep
<1>2. ASSUME NEW e \in executions, ActivityStep(e) PROVE ResultsAreOrdered'
  <2>1. CASE CreateWalletRow(e)
    BY <2>1 DEF CreateWalletRow
  <2>2. CASE CreateInvestmentRow(e)
    BY <2>2 DEF CreateInvestmentRow
  <2>3. CASE ScheduleInvestmentCreation(e)
    BY <2>3 DEF ScheduleInvestmentCreation
  <2>4. CASE CreateCandidateRow(e)
    BY <2>4 DEF CreateCandidateRow
  <2>5. CASE ScheduleCandidateProcessing(e)
    BY <2>5 DEF ScheduleCandidateProcessing
  <2>6. CASE FanOutCandidates(e)
    BY <2>6 DEF FanOutCandidates
  <2>7. CASE FindWallet(e)
    BY <2>7 DEF FindWallet
  <2>8. CASE SaveReady(e)
    BY <2>8 DEF SaveReady
  <2>9. CASE SaveAborted(e)
    BY <2>9 DEF SaveAborted
  <2>10. QED
    BY <1>2, <2>1, <2>2, <2>3, <2>4, <2>5, <2>6, <2>7, <2>8, <2>9 DEF ActivityStep
<1>3. ASSUME NEW e \in executions, Return(e) PROVE ResultsAreOrdered'
  BY <1>3 DEF Return, WorkerTypes, Execution, NextStep, Current, Activities
<1>4. ASSUME NEW e \in executions, ActivityThrows(e) PROVE ResultsAreOrdered'
  <2>1. e.wf \in Workflows
    BY DEF WorkerTypes, Execution
  <2>2. step' = step \/ step' = [step EXCEPT ![e.wf] = "failed"]
    BY <1>4, <2>1, LoseAttemptMoves DEF ActivityThrows
  <2> QED
    BY <1>4, <2>1, <2>2 DEF ActivityThrows
<1>5. ASSUME NEW i \in creationJobs, RunCreationJob(i) PROVE ResultsAreOrdered'
  BY <1>5 DEF RunCreationJob
<1>6. ASSUME NEW i \in creationJobs, CreationJobDies(i) PROVE ResultsAreOrdered'
  BY <1>6 DEF CreationJobDies
<1>7. ASSUME NEW j \in candidateJobs, CandidateJobStep(j) PROVE ResultsAreOrdered'
  <2>1. CASE SlowAttempt(j)
    BY <2>1 DEF SlowAttempt
  <2>2. CASE FailedAttempt(j)
    BY <2>2 DEF FailedAttempt
  <2>3. CASE MatchCandidate(j)
    BY <2>3 DEF MatchCandidate, Conclude
  <2>4. CASE RejectCandidate(j)
    BY <2>4 DEF RejectCandidate, Conclude
  <2>5. CASE SignalProcessed(j)
    BY <2>5 DEF SignalProcessed
  <2>6. QED
    BY <1>7, <2>1, <2>2, <2>3, <2>4, <2>5 DEF CandidateJobStep
<1>8. ASSUME NEW j \in candidateJobs, CandidateJobDies(j) PROVE ResultsAreOrdered'
  BY <1>8 DEF CandidateJobDies
<1>9. CASE Crash
  BY <1>9 DEF Crash
<1>10. CASE UNCHANGED vars
  BY <1>10 DEF vars
<1>11. QED
  BY <1>1, <1>2, <1>3, <1>4, <1>5, <1>6, <1>7, <1>8, <1>9, <1>10 DEF Next

\* A result that is there stays, and a closed workflow is told nothing more.
LEMMA ResultsStep == Inductive /\ [Next]_vars => TakenOnce
<1> SUFFICES ASSUME Inductive, [Next]_vars PROVE TakenOnce
  OBVIOUS
<1> USE DEF Inductive, TypeOK, tables, seqs, jobs, progress, results,
   server, MoveTo, GoTo, Advance, Add, Finish, ResultsAreOrdered,
   ServerTypes, TakenOnce
<1>1. ASSUME NEW w \in Workflows, ServerStep(w) PROVE TakenOnce
  <2>1. CASE Start(w)
    BY <2>1 DEF Start
  <2>2. CASE PollActivity(w)
    BY <2>2 DEF PollActivity
  <2>3. CASE ActivityTimesOut(w)
    BY <2>3 DEF ActivityTimesOut
  <2>4. CASE ExecutionExpires(w)
    BY <2>4 DEF ExecutionExpires
  <2>5. CASE AwaitCompletes(w)
    BY <2>5 DEF AwaitCompletes
  <2>6. CASE AwaitTimesOut(w)
    BY <2>6 DEF AwaitTimesOut
  <2>7. QED
    BY <1>1, <2>1, <2>2, <2>3, <2>4, <2>5, <2>6 DEF ServerStep
<1>2. ASSUME NEW e \in executions, ActivityStep(e) PROVE TakenOnce
  <2>1. CASE CreateWalletRow(e)
    BY <2>1 DEF CreateWalletRow
  <2>2. CASE CreateInvestmentRow(e)
    BY <2>2 DEF CreateInvestmentRow
  <2>3. CASE ScheduleInvestmentCreation(e)
    BY <2>3 DEF ScheduleInvestmentCreation
  <2>4. CASE CreateCandidateRow(e)
    BY <2>4 DEF CreateCandidateRow
  <2>5. CASE ScheduleCandidateProcessing(e)
    BY <2>5 DEF ScheduleCandidateProcessing
  <2>6. CASE FanOutCandidates(e)
    BY <2>6 DEF FanOutCandidates
  <2>7. CASE FindWallet(e)
    BY <2>7 DEF FindWallet
  <2>8. CASE SaveReady(e)
    BY <2>8 DEF SaveReady
  <2>9. CASE SaveAborted(e)
    BY <2>9 DEF SaveAborted
  <2>10. QED
    BY <1>2, <2>1, <2>2, <2>3, <2>4, <2>5, <2>6, <2>7, <2>8, <2>9 DEF ActivityStep
<1>3. ASSUME NEW e \in executions, Return(e) PROVE TakenOnce
  BY <1>3 DEF Return, WorkerTypes, Execution, Current, Activities
<1>4. ASSUME NEW e \in executions, ActivityThrows(e) PROVE TakenOnce
  BY <1>4 DEF ActivityThrows
<1>5. ASSUME NEW i \in creationJobs, RunCreationJob(i) PROVE TakenOnce
  BY <1>5 DEF RunCreationJob
<1>6. ASSUME NEW i \in creationJobs, CreationJobDies(i) PROVE TakenOnce
  BY <1>6 DEF CreationJobDies
<1>7. ASSUME NEW j \in candidateJobs, CandidateJobStep(j) PROVE TakenOnce
  <2>1. CASE SlowAttempt(j)
    BY <2>1 DEF SlowAttempt
  <2>2. CASE FailedAttempt(j)
    BY <2>2 DEF FailedAttempt
  <2>3. CASE MatchCandidate(j)
    BY <2>3 DEF MatchCandidate, Conclude
  <2>4. CASE RejectCandidate(j)
    BY <2>4 DEF RejectCandidate, Conclude
  <2>5. CASE SignalProcessed(j)
    BY <2>5 DEF SignalProcessed, WorkerTypes, CandidateJob, SignalTypes
  <2>6. QED
    BY <1>7, <2>1, <2>2, <2>3, <2>4, <2>5 DEF CandidateJobStep
<1>8. ASSUME NEW j \in candidateJobs, CandidateJobDies(j) PROVE TakenOnce
  BY <1>8 DEF CandidateJobDies
<1>9. CASE Crash
  BY <1>9 DEF Crash
<1>10. CASE UNCHANGED vars
  BY <1>10 DEF vars
<1>11. QED
  BY <1>1, <1>2, <1>3, <1>4, <1>5, <1>6, <1>7, <1>8, <1>9, <1>10 DEF Next

\* In the first life of the process the sequences stay ahead of the rows.
LEMMA SequencesAreFreshStep ==
  Inductive /\ crashes' = 0 /\ [Next]_vars => SequencesAreFresh'
<1> SUFFICES ASSUME Inductive /\ crashes' = 0, [Next]_vars PROVE SequencesAreFresh'
  OBVIOUS
<1> USE DEF Inductive, TypeOK, tables, seqs, jobs, progress, results,
   server, MoveTo, GoTo, Advance, Add, Finish, WorkerTypes, TableTypes,
   SequencesAreFresh
<1>1. ASSUME NEW w \in Workflows, ServerStep(w) PROVE SequencesAreFresh'
  <2>1. CASE Start(w)
    BY <2>1 DEF Start
  <2>2. CASE PollActivity(w)
    BY <2>2 DEF PollActivity
  <2>3. CASE ActivityTimesOut(w)
    BY <2>3 DEF ActivityTimesOut
  <2>4. CASE ExecutionExpires(w)
    BY <2>4 DEF ExecutionExpires
  <2>5. CASE AwaitCompletes(w)
    BY <2>5 DEF AwaitCompletes
  <2>6. CASE AwaitTimesOut(w)
    BY <2>6 DEF AwaitTimesOut
  <2>7. QED
    BY <1>1, <2>1, <2>2, <2>3, <2>4, <2>5, <2>6 DEF ServerStep
<1>2. ASSUME NEW e \in executions, ActivityStep(e) PROVE SequencesAreFresh'
  <2>1. CASE CreateWalletRow(e)
    BY <2>1 DEF CreateWalletRow, Merge
  <2>2. CASE CreateInvestmentRow(e)
    BY <2>2 DEF CreateInvestmentRow, Merge
  <2>3. CASE ScheduleInvestmentCreation(e)
    BY <2>3 DEF ScheduleInvestmentCreation
  <2>4. CASE CreateCandidateRow(e)
    BY <2>4 DEF CreateCandidateRow, Merge
  <2>5. CASE ScheduleCandidateProcessing(e)
    BY <2>5 DEF ScheduleCandidateProcessing
  <2>6. CASE FanOutCandidates(e)
    BY <2>6 DEF FanOutCandidates
  <2>7. CASE FindWallet(e)
    BY <2>7 DEF FindWallet
  <2>8. CASE SaveReady(e)
    BY <2>8 DEF SaveReady, Merge, WalletReferences, Execution, Activities,
       NoId
  <2>9. CASE SaveAborted(e)
    BY <2>9 DEF SaveAborted, Merge, WalletReferences, Execution, Activities,
       NoId
  <2>10. QED
    BY <1>2, <2>1, <2>2, <2>3, <2>4, <2>5, <2>6, <2>7, <2>8, <2>9 DEF ActivityStep
<1>3. ASSUME NEW e \in executions, Return(e) PROVE SequencesAreFresh'
  BY <1>3 DEF Return
<1>4. ASSUME NEW e \in executions, ActivityThrows(e) PROVE SequencesAreFresh'
  BY <1>4 DEF ActivityThrows
<1>5. ASSUME NEW i \in creationJobs, RunCreationJob(i) PROVE SequencesAreFresh'
  BY <1>5 DEF RunCreationJob
<1>6. ASSUME NEW i \in creationJobs, CreationJobDies(i) PROVE SequencesAreFresh'
  BY <1>6 DEF CreationJobDies
<1>7. ASSUME NEW j \in candidateJobs, CandidateJobStep(j) PROVE SequencesAreFresh'
  <2>1. CASE SlowAttempt(j)
    BY <2>1 DEF SlowAttempt
  <2>2. CASE FailedAttempt(j)
    BY <2>2 DEF FailedAttempt
  <2>3. CASE MatchCandidate(j)
    BY <2>3 DEF MatchCandidate, Conclude
  <2>4. CASE RejectCandidate(j)
    BY <2>4 DEF RejectCandidate, Conclude
  <2>5. CASE SignalProcessed(j)
    BY <2>5 DEF SignalProcessed
  <2>6. QED
    BY <1>7, <2>1, <2>2, <2>3, <2>4, <2>5 DEF CandidateJobStep
<1>8. ASSUME NEW j \in candidateJobs, CandidateJobDies(j) PROVE SequencesAreFresh'
  BY <1>8 DEF CandidateJobDies
<1>9. CASE Crash
  BY <1>9 DEF Crash
<1>10. CASE UNCHANGED vars
  BY <1>10 DEF vars
<1>11. QED
  BY <1>1, <1>2, <1>3, <1>4, <1>5, <1>6, <1>7, <1>8, <1>9, <1>10 DEF Next

\* A candidate is concluded: its row is processed, the other rows and every
\* investment are as they were.
LEMMA Concluded ==
  ASSUME TableTypes, NEW j, j.candidate \in DOMAIN candidates, NEW outcome,
         NEW attempts, Conclude(j, outcome, attempts)
  PROVE  /\ DOMAIN candidates' = DOMAIN candidates
         /\ \A c \in DOMAIN candidates :
              /\ candidates'[c].investment = candidates[c].investment
              /\ c # j.candidate => candidates'[c] = candidates[c]
         /\ candidates'[j.candidate].processed
         /\ candidates'[j.candidate].status = outcome
         /\ candidates'[j.candidate].attempts = attempts
BY DEF Conclude, TableTypes, CandidateRow

\* In the first life of the process nobody calls a candidate processed that is
\* not, and a processed candidate has a created investment.
LEMMA ProcessedIsTrueStep ==
  Inductive /\ crashes' = 0 /\ [Next]_vars => ProcessedIsTrue'
<1> SUFFICES ASSUME Inductive /\ crashes' = 0, [Next]_vars PROVE ProcessedIsTrue'
  OBVIOUS
<1> USE DEF Inductive, TypeOK, tables, seqs, jobs, progress, results,
   server, MoveTo, GoTo, Advance, Add, Finish, WorkerTypes, TableTypes,
   ProcessedIsTrue, Created
<1>1. ASSUME NEW w \in Workflows, ServerStep(w) PROVE ProcessedIsTrue'
  <2>1. CASE Start(w)
    BY <2>1 DEF Start
  <2>2. CASE PollActivity(w)
    BY <2>2 DEF PollActivity
  <2>3. CASE ActivityTimesOut(w)
    BY <2>3 DEF ActivityTimesOut
  <2>4. CASE ExecutionExpires(w)
    BY <2>4 DEF ExecutionExpires
  <2>5. CASE AwaitCompletes(w)
    BY <2>5 DEF AwaitCompletes
  <2>6. CASE AwaitTimesOut(w)
    BY <2>6 DEF AwaitTimesOut
  <2>7. QED
    BY <1>1, <2>1, <2>2, <2>3, <2>4, <2>5, <2>6 DEF ServerStep
<1>2. ASSUME NEW e \in executions, ActivityStep(e) PROVE ProcessedIsTrue'
  <2>1. CASE CreateWalletRow(e)
    BY <2>1 DEF CreateWalletRow
  <2>2. CASE CreateInvestmentRow(e)
    BY <2>2 DEF CreateInvestmentRow, Created, Merge, SequencesAreFresh,
       InvestmentReferences, CandidateReferences
  <2>3. CASE ScheduleInvestmentCreation(e)
    BY <2>3 DEF ScheduleInvestmentCreation
  <2>4. CASE CreateCandidateRow(e)
    BY <2>4 DEF CreateCandidateRow, Created, Merge, SequencesAreFresh,
       InvestmentReferences, CandidateReferences, NewCandidate
  <2>5. CASE ScheduleCandidateProcessing(e)
    BY <2>5 DEF ScheduleCandidateProcessing
  <2>6. CASE FanOutCandidates(e)
    BY <2>6 DEF FanOutCandidates
  <2>7. CASE FindWallet(e)
    BY <2>7 DEF FindWallet
  <2>8. CASE SaveReady(e)
    BY <2>8 DEF SaveReady
  <2>9. CASE SaveAborted(e)
    BY <2>9 DEF SaveAborted
  <2>10. QED
    BY <1>2, <2>1, <2>2, <2>3, <2>4, <2>5, <2>6, <2>7, <2>8, <2>9 DEF ActivityStep
<1>3. ASSUME NEW e \in executions, Return(e) PROVE ProcessedIsTrue'
  BY <1>3 DEF Return
<1>4. ASSUME NEW e \in executions, ActivityThrows(e) PROVE ProcessedIsTrue'
  BY <1>4 DEF ActivityThrows
<1>5. ASSUME NEW i \in creationJobs, RunCreationJob(i) PROVE ProcessedIsTrue'
  BY <1>5 DEF RunCreationJob, Created, InvestmentRow, InvestmentReferences,
     CandidateReferences
<1>6. ASSUME NEW i \in creationJobs, CreationJobDies(i) PROVE ProcessedIsTrue'
  BY <1>6 DEF CreationJobDies
<1>7. ASSUME NEW j \in candidateJobs, CandidateJobStep(j) PROVE ProcessedIsTrue'
  <2>1. CASE SlowAttempt(j)
    BY <2>1 DEF SlowAttempt, Attempting, Created, UpdateJob,
       CandidateReferences
  <2>2. CASE FailedAttempt(j)
    BY <2>2 DEF FailedAttempt, Attempting, Created, UpdateJob,
       CandidateReferences, CandidateRow
  <2>3. CASE MatchCandidate(j)
    <3>1. j.candidate \in DOMAIN candidates
      BY DEF CandidateReferences
    <3>2. Created(j.candidate)
      BY <2>3 DEF MatchCandidate, Attempting
    <3>3. /\ DOMAIN candidates' = DOMAIN candidates
          /\ \A c \in DOMAIN candidates :
               /\ candidates'[c].investment = candidates[c].investment
               /\ c # j.candidate => candidates'[c] = candidates[c]
          /\ candidates'[j.candidate].processed
      BY <2>3, <3>1, Concluded DEF MatchCandidate
    <3>4. \A c \in DOMAIN candidates : Created(c)' <=> Created(c)
      BY <2>3, <3>3 DEF MatchCandidate, Conclude, Created
    <3>5. \A k \in candidateJobs' :
            \/ k \in candidateJobs
            \/ k.candidate = j.candidate
      BY <2>3 DEF MatchCandidate, Conclude, UpdateJob
    <3> QED
      BY <2>3, <3>1, <3>2, <3>3, <3>4, <3>5
         DEF MatchCandidate, Conclude, CandidateReferences
  <2>4. CASE RejectCandidate(j)
    <3>1. j.candidate \in DOMAIN candidates
      BY DEF CandidateReferences
    <3>2. Created(j.candidate)
      <4>1. j.attempt > 1
        BY <2>4, CandidateAssumption DEF RejectCandidate, CandidateJob
      <4> QED
        BY <2>4, <4>1 DEF RejectCandidate, Conclude
    <3>3. /\ DOMAIN candidates' = DOMAIN candidates
          /\ \A c \in DOMAIN candidates :
               /\ candidates'[c].investment = candidates[c].investment
               /\ c # j.candidate => candidates'[c] = candidates[c]
          /\ candidates'[j.candidate].processed
      BY <2>4, <3>1, Concluded DEF RejectCandidate
    <3>4. \A c \in DOMAIN candidates : Created(c)' <=> Created(c)
      BY <2>4, <3>3 DEF RejectCandidate, Conclude, Created
    <3>5. \A k \in candidateJobs' :
            \/ k \in candidateJobs
            \/ k.candidate = j.candidate
      BY <2>4 DEF RejectCandidate, Conclude, UpdateJob
    <3> QED
      BY <2>4, <3>1, <3>2, <3>3, <3>4, <3>5
         DEF RejectCandidate, Conclude, CandidateReferences
  <2>5. CASE SignalProcessed(j)
    BY <2>5 DEF SignalProcessed, SignalTypes, Merge, Created
  <2>6. QED
    BY <1>7, <2>1, <2>2, <2>3, <2>4, <2>5 DEF CandidateJobStep
<1>8. ASSUME NEW j \in candidateJobs, CandidateJobDies(j) PROVE ProcessedIsTrue'
  BY <1>8 DEF CandidateJobDies
<1>9. CASE Crash
  BY <1>9 DEF Crash
<1>10. CASE UNCHANGED vars
  BY <1>10 DEF vars
<1>11. QED
  BY <1>1, <1>2, <1>3, <1>4, <1>5, <1>6, <1>7, <1>8, <1>9, <1>10 DEF Next

\* The initial states satisfy the invariant.
LEMMA InitInductive == Init => Inductive
BY DEF Init, Inductive, TypeOK, TableTypes, WorkerTypes, ServerTypes, SignalTypes,
       WalletReferences, InvestmentReferences, CandidateReferences, FanInPassed,
       SequencesAreFresh, ProcessedIsTrue, ResultsAreOrdered, Steps, Closed, Started, NoId

\* Every step preserves the invariant.
LEMMA NextInductive == Inductive /\ [Next]_vars => Inductive'
<1> SUFFICES ASSUME Inductive, [Next]_vars
             PROVE  Inductive'
  OBVIOUS
<1>1. TypeOK'
  BY TableStep, WorkerStep, ServerStepTypes, SignalStep DEF TypeOK
<1>2. WalletReferences' /\ InvestmentReferences' /\ CandidateReferences'
  BY WalletReferencesStep, InvestmentReferencesStep, CandidateReferencesStep
<1>3. FanInPassed' /\ ResultsAreOrdered'
  BY FanInPassedStep, ResultsAreOrderedStep
<1>4. crashes' = 0 => SequencesAreFresh' /\ ProcessedIsTrue'
  BY SequencesAreFreshStep, ProcessedIsTrueStep
<1>5. QED
  BY <1>1, <1>2, <1>3, <1>4 DEF Inductive

\* The invariant holds in every reachable state.
THEOREM InductiveInvariance == Spec => []Inductive
<1>1. QED
  BY InitInductive, NextInductive, PTL DEF Spec

\* Every variable keeps its type.
THEOREM TypeCorrectness == Spec => []TypeOK
<1>1. Inductive => TypeOK
  BY DEF Inductive
<1>2. QED
  BY <1>1, InductiveInvariance, PTL

\* While the worker has not restarted, a pipeline goes on to finish only when
\* every candidate it awaits is processed and its investment created.
THEOREM FanInHolds == Spec => []FanIn
<1>1. Inductive => FanIn
  BY DEF Inductive, FanIn, FanInPassed, AllProcessed, ProcessedIsTrue, Created,
         CandidateReferences
<1>2. QED
  BY <1>1, InductiveInvariance, PTL

\* The result of an activity is taken once, and a closed workflow is told
\* nothing more, restart or not.
THEOREM ResultsAreTakenOnceHolds == Spec => ResultsAreTakenOnce
<1>1. Inductive /\ [Next]_vars => [TakenOnce]_vars
  BY ResultsStep
<1>2. QED
  BY <1>1, InductiveInvariance, PTL DEF Spec, ResultsAreTakenOnce

=============================================================================
