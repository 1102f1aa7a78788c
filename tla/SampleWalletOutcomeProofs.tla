---------------------- MODULE SampleWalletOutcomeProofs ----------------------
(***************************************************************************)
(* Every step of SampleWallet preserves Accountable, given Inductive.  The *)
(* theorems at the end follow: what pipelines, wallets and candidates say  *)
(* of each other, and that a decision is final.                            *)
(***************************************************************************)
EXTENDS SampleWalletOutcomes, SampleWalletProofs

\* A step within the first life of the process is no crash.
LEMMA FirstLife ==
  Inductive /\ crashes' = 0 /\ [Next]_vars => crashes = 0 /\ ~Crash
<1> SUFFICES ASSUME Inductive, crashes' = 0, [Next]_vars PROVE crashes = 0 /\ ~Crash
  OBVIOUS
<1>1. ~Crash
  BY DEF Crash, Inductive, TypeOK, WorkerTypes
<1>2. ASSUME NEW w \in Workflows, ServerStep(w) PROVE crashes' = crashes
  BY <1>2 DEF ServerStep, Start, PollActivity, ActivityTimesOut, ExecutionExpires,
     AwaitCompletes, AwaitTimesOut, MoveTo
<1>3. ASSUME NEW e \in executions, ActivityStep(e) \/ Return(e) \/ ActivityThrows(e)
      PROVE  crashes' = crashes
  BY <1>3 DEF ActivityStep, CreateWalletRow, CreateInvestmentRow,
     ScheduleInvestmentCreation, CreateCandidateRow, ScheduleCandidateProcessing,
     FanOutCandidates, FindWallet, SaveReady, SaveAborted, Return, ActivityThrows
<1>4. ASSUME NEW i \in creationJobs, RunCreationJob(i) \/ CreationJobDies(i)
      PROVE  crashes' = crashes
  BY <1>4 DEF RunCreationJob, CreationJobDies
<1>5. ASSUME NEW j \in candidateJobs, CandidateJobStep(j) \/ CandidateJobDies(j)
      PROVE  crashes' = crashes
  BY <1>5 DEF CandidateJobStep, SlowAttempt, FailedAttempt, MatchCandidate,
     RejectCandidate, Conclude, SignalProcessed, CandidateJobDies
<1>6. CASE UNCHANGED vars
  BY <1>1, <1>6 DEF vars
<1> QED
  BY <1>1, <1>2, <1>3, <1>4, <1>5, <1>6 DEF Next

\* Of an execution that saves a row, or reaches its return, one record is left.
LEMMA AddOnly ==
  ASSUME NEW e \in executions, NEW id, Add(e, id)
  PROVE  /\ \A f \in executions' :
              \/ f \in executions \ {e}
              \/ /\ f.wf = e.wf /\ f.act = e.act /\ f.ids = e.ids \cup {id}
                 /\ f.seen = e.seen /\ ~f.done
         /\ \A f, g \in executions' :
              f # g => f \in executions \ {e} \/ g \in executions \ {e}
<1> DEFINE next == [wf |-> e.wf, act |-> e.act, attempt |-> e.attempt, ids |-> e.ids \cup {id},
                    seen |-> e.seen, done |-> FALSE]
<1>1. executions' = (executions \ {e}) \cup {next}
  BY DEF Add, Advance
<1>2. /\ next.wf = e.wf /\ next.act = e.act /\ next.ids = e.ids \cup {id}
      /\ next.seen = e.seen /\ ~next.done
  OBVIOUS
<1> HIDE DEF next
<1>3. QED
  BY <1>1, <1>2

LEMMA FinishOnly ==
  ASSUME NEW e \in executions, NEW ids, Finish(e, ids)
  PROVE  /\ \A f \in executions' :
              \/ f \in executions \ {e}
              \/ /\ f.wf = e.wf /\ f.act = e.act /\ f.ids = ids
                 /\ f.seen = e.seen /\ f.done
         /\ \A f, g \in executions' :
              f # g => f \in executions \ {e} \/ g \in executions \ {e}
<1> DEFINE next == [wf |-> e.wf, act |-> e.act, attempt |-> e.attempt, ids |-> ids,
                    seen |-> e.seen, done |-> TRUE]
<1>1. executions' = (executions \ {e}) \cup {next}
  BY DEF Finish, Advance
<1>2. /\ next.wf = e.wf /\ next.act = e.act /\ next.ids = ids
      /\ next.seen = e.seen /\ next.done
  OBVIOUS
<1> HIDE DEF next
<1>3. QED
  BY <1>1, <1>2

\* The attempts of other activities are as they were.
LEMMA OthersRun ==
  ASSUME NEW e \in executions, NEW ids, NEW seen, NEW done, Advance(e, ids, seen, done),
         NEW act, e.act # act
  PROVE  Running(act)' = Running(act)
BY DEF Advance, Running

LEMMA OthersRunOn ==
  ASSUME NEW e \in executions, NEW act, e.act # act,
         \E ids, seen, done : Advance(e, ids, seen, done)
  PROVE  Running(act)' = Running(act)
<1>1. PICK ids, seen, done : Advance(e, ids, seen, done)
  OBVIOUS
<1> QED
  BY <1>1 DEF Advance, Running

\* An attempt that saves no row keeps its rows to itself.
LEMMA KeepsItsRows ==
  ASSUME NEW e \in executions, Finish(e, e.ids), NEW act,
         \A f, g \in Running(act) : f # g => f.ids \cap g.ids = {}
  PROVE  /\ \A f, g \in Running(act)' : f # g => f.ids \cap g.ids = {}
         /\ \A f \in Running(act)' : \E g \in Running(act) : f.ids = g.ids
<1>1. /\ \A f \in executions' :
           \/ f \in executions \ {e}
           \/ f.act = e.act /\ f.ids = e.ids
      /\ \A f, g \in executions' :
           f # g => f \in executions \ {e} \/ g \in executions \ {e}
  BY FinishOnly
<1>2. QED
  BY <1>1 DEF Running

\* A wallet is one attempt's, and then one pipeline's.
LEMMA WalletsApartStep ==
  Inductive /\ Accountable /\ crashes' = 0 /\ [Next]_vars => WalletsApart'
<1> SUFFICES ASSUME Inductive, Accountable, crashes' = 0, [Next]_vars
             PROVE  WalletsApart'
  OBVIOUS
<1>0. crashes = 0 /\ ~Crash
  BY FirstLife
<1> USE <1>0
<1> USE 
  DEF Inductive, Accountable, TypeOK, tables, seqs, jobs, progress, results,
       server, MoveTo, GoTo, WorkerTypes, TableTypes, ServerTypes, WalletsApart
<1>1. ASSUME NEW w \in Workflows, ServerStep(w) PROVE WalletsApart'
  <2>1. CASE PollActivity(w)
    BY <2>1 DEF PollActivity, Running
  <2>2. CASE ActivityTimesOut(w)
    BY <2>2 DEF ActivityTimesOut, LoseAttempt, Running
  <2>3. CASE Start(w) \/ ExecutionExpires(w) \/ AwaitCompletes(w)
             \/ AwaitTimesOut(w)
    BY <2>3 DEF Start, ExecutionExpires, AwaitCompletes, AwaitTimesOut, Running
  <2> QED
    BY <1>1, <2>1, <2>2, <2>3 DEF ServerStep
<1>2. ASSUME NEW e \in executions, ActivityStep(e) PROVE WalletsApart'
  <2>1. CASE CreateWalletRow(e)
    <3> DEFINE rows == {walletSeq + 1}
    <3>0. Finish(e, rows)
      BY <2>1 DEF CreateWalletRow
    <3>1. \A f \in Running("createWallet") : walletSeq + 1 \notin f.ids
      BY DEF WalletReferences, SequencesAreFresh, Running
    <3>2. \A w \in Workflows : walletId[w] # walletSeq + 1
      BY DEF WalletReferences, SequencesAreFresh, NoId
    <3>3. /\ \A f \in executions' :
               \/ f \in executions \ {e}
               \/ f.act = e.act /\ f.ids = rows
          /\ \A f, g \in executions' :
               f # g => f \in executions \ {e} \/ g \in executions \ {e}
      BY <3>0, FinishOnly
    <3>4. e \in Running("createWallet") /\ walletId' = walletId
      BY <2>1 DEF CreateWalletRow, Running
    <3> QED
      BY <3>1, <3>2, <3>3, <3>4 DEF Running, rows
  <2>2. CASE CreateInvestmentRow(e) \/ ScheduleInvestmentCreation(e)
             \/ CreateCandidateRow(e) \/ ScheduleCandidateProcessing(e)
             \/ FanOutCandidates(e) \/ FindWallet(e) \/ SaveReady(e)
             \/ SaveAborted(e)
    <3>1. Running("createWallet")' = Running("createWallet") /\ walletId' = walletId
      BY <2>2, OthersRun
         DEF CreateInvestmentRow, ScheduleInvestmentCreation, CreateCandidateRow,
             ScheduleCandidateProcessing, FanOutCandidates, FindWallet, SaveReady,
             SaveAborted, Add, Finish
    <3> QED
      BY <3>1
  <2> QED
    BY <1>2, <2>1, <2>2 DEF ActivityStep
<1>3. ASSUME NEW e \in executions, Return(e) PROVE WalletsApart'
  BY <1>3 DEF Return, Execution, WalletReferences, Current, Running
<1>4. ASSUME NEW e \in executions, ActivityThrows(e) PROVE WalletsApart'
  BY <1>4 DEF ActivityThrows, LoseAttempt, Running
<1>5. ASSUME NEW i \in creationJobs, RunCreationJob(i) PROVE WalletsApart'
  BY <1>5 DEF RunCreationJob, Running
<1>6. ASSUME NEW i \in creationJobs, CreationJobDies(i) PROVE WalletsApart'
  BY <1>6 DEF CreationJobDies, Running
<1>7. ASSUME NEW j \in candidateJobs, CandidateJobStep(j) PROVE WalletsApart'
  BY <1>7
     DEF CandidateJobStep, SlowAttempt, FailedAttempt, MatchCandidate,
         RejectCandidate, SignalProcessed, Conclude, Running
<1>8. ASSUME NEW j \in candidateJobs, CandidateJobDies(j) PROVE WalletsApart'
  BY <1>8 DEF CandidateJobDies, Running
<1>9. CASE UNCHANGED vars
  BY <1>9 DEF vars, Running
<1> QED
  BY <1>1, <1>2, <1>3, <1>4, <1>5, <1>6, <1>7, <1>8, <1>9 DEF Next

\* An investment is one attempt's, and then one pipeline's.
LEMMA InvestmentsApartStep ==
  Inductive /\ Accountable /\ crashes' = 0 /\ [Next]_vars => InvestmentsApart'
<1> SUFFICES ASSUME Inductive, Accountable, crashes' = 0, [Next]_vars
             PROVE  InvestmentsApart'
  OBVIOUS
<1>0. crashes = 0 /\ ~Crash
  BY FirstLife
<1> USE <1>0
<1> USE 
  DEF Inductive, Accountable, TypeOK, tables, seqs, jobs, progress, results,
       server, MoveTo, GoTo, WorkerTypes, TableTypes, ServerTypes, InvestmentsApart
<1>1. ASSUME NEW w \in Workflows, ServerStep(w) PROVE InvestmentsApart'
  <2>1. CASE PollActivity(w)
    BY <2>1 DEF PollActivity, Running
  <2>2. CASE ActivityTimesOut(w)
    BY <2>2 DEF ActivityTimesOut, LoseAttempt, Running
  <2>3. CASE Start(w) \/ ExecutionExpires(w) \/ AwaitCompletes(w)
             \/ AwaitTimesOut(w)
    BY <2>3 DEF Start, ExecutionExpires, AwaitCompletes, AwaitTimesOut, Running
  <2> QED
    BY <1>1, <2>1, <2>2, <2>3 DEF ServerStep
<1>2. ASSUME NEW e \in executions, ActivityStep(e) PROVE InvestmentsApart'
  <2>1. CASE CreateInvestmentRow(e)
    <3> DEFINE rows == e.ids \cup {investmentSeq + 1}
    <3>0. Add(e, investmentSeq + 1)
      BY <2>1 DEF CreateInvestmentRow
    <3>1. \A f \in Running("createInvestments") : investmentSeq + 1 \notin f.ids
      BY DEF InvestmentReferences, SequencesAreFresh, Running
    <3>2. \A w \in Workflows : investmentSeq + 1 \notin investmentIds[w]
      BY DEF InvestmentReferences, SequencesAreFresh, NoId
    <3>3. /\ \A f \in executions' :
               \/ f \in executions \ {e}
               \/ f.act = e.act /\ f.ids = rows
          /\ \A f, g \in executions' :
               f # g => f \in executions \ {e} \/ g \in executions \ {e}
      BY <3>0, AddOnly
    <3>4. e \in Running("createInvestments") /\ investmentIds' = investmentIds
      BY <2>1 DEF CreateInvestmentRow, Running
    <3> QED
      BY <3>1, <3>2, <3>3, <3>4 DEF Running, rows
  <2>2. CASE ScheduleInvestmentCreation(e)
    <3>1. Finish(e, e.ids) /\ investmentIds' = investmentIds
      BY <2>2 DEF ScheduleInvestmentCreation
    <3>2. /\ \A f, g \in Running("createInvestments")' : f # g => f.ids \cap g.ids = {}
          /\ \A f \in Running("createInvestments")' :
               \E g \in Running("createInvestments") : f.ids = g.ids
      BY <3>1, KeepsItsRows
    <3> QED
      BY <3>1, <3>2
  <2>3. CASE CreateWalletRow(e) \/ CreateCandidateRow(e)
             \/ ScheduleCandidateProcessing(e) \/ FanOutCandidates(e)
             \/ FindWallet(e) \/ SaveReady(e) \/ SaveAborted(e)
    <3>1. /\ Running("createInvestments")' = Running("createInvestments")
          /\ investmentIds' = investmentIds
      BY <2>3, OthersRun
         DEF CreateWalletRow, CreateCandidateRow, ScheduleCandidateProcessing,
             FanOutCandidates, FindWallet, SaveReady, SaveAborted, Add, Finish
    <3> QED
      BY <3>1
  <2> QED
    BY <1>2, <2>1, <2>2, <2>3 DEF ActivityStep
<1>3. ASSUME NEW e \in executions, Return(e) PROVE InvestmentsApart'
  BY <1>3 DEF Return, Execution, InvestmentReferences, Current, Running
<1>4. ASSUME NEW e \in executions, ActivityThrows(e) PROVE InvestmentsApart'
  BY <1>4 DEF ActivityThrows, LoseAttempt, Running
<1>5. ASSUME NEW i \in creationJobs, RunCreationJob(i) PROVE InvestmentsApart'
  BY <1>5 DEF RunCreationJob, Running
<1>6. ASSUME NEW i \in creationJobs, CreationJobDies(i) PROVE InvestmentsApart'
  BY <1>6 DEF CreationJobDies, Running
<1>7. ASSUME NEW j \in candidateJobs, CandidateJobStep(j) PROVE InvestmentsApart'
  BY <1>7
     DEF CandidateJobStep, SlowAttempt, FailedAttempt, MatchCandidate,
         RejectCandidate, SignalProcessed, Conclude, Running
<1>8. ASSUME NEW j \in candidateJobs, CandidateJobDies(j) PROVE InvestmentsApart'
  BY <1>8 DEF CandidateJobDies, Running
<1>9. CASE UNCHANGED vars
  BY <1>9 DEF vars, Running
<1> QED
  BY <1>1, <1>2, <1>3, <1>4, <1>5, <1>6, <1>7, <1>8, <1>9 DEF Next

\* A candidate is one attempt's, and then one pipeline's.
LEMMA CandidatesApartStep ==
  Inductive /\ Accountable /\ crashes' = 0 /\ [Next]_vars => CandidatesApart'
<1> SUFFICES ASSUME Inductive, Accountable, crashes' = 0, [Next]_vars
             PROVE  CandidatesApart'
  OBVIOUS
<1>0. crashes = 0 /\ ~Crash
  BY FirstLife
<1> USE <1>0
<1> USE 
  DEF Inductive, Accountable, TypeOK, tables, seqs, jobs, progress, results,
       server, MoveTo, GoTo, WorkerTypes, TableTypes, ServerTypes, CandidatesApart
<1>1. ASSUME NEW w \in Workflows, ServerStep(w) PROVE CandidatesApart'
  <2>1. CASE PollActivity(w)
    BY <2>1 DEF PollActivity, Running
  <2>2. CASE ActivityTimesOut(w)
    BY <2>2 DEF ActivityTimesOut, LoseAttempt, Running
  <2>3. CASE Start(w) \/ ExecutionExpires(w) \/ AwaitCompletes(w)
             \/ AwaitTimesOut(w)
    BY <2>3 DEF Start, ExecutionExpires, AwaitCompletes, AwaitTimesOut, Running
  <2> QED
    BY <1>1, <2>1, <2>2, <2>3 DEF ServerStep
<1>2. ASSUME NEW e \in executions, ActivityStep(e) PROVE CandidatesApart'
  <2>1. CASE CreateCandidateRow(e)
    <3> DEFINE rows == e.ids \cup {candidateSeq + 1}
    <3>0. Add(e, candidateSeq + 1)
      BY <2>1 DEF CreateCandidateRow
    <3>1. \A f \in Running("createCandidates") : candidateSeq + 1 \notin f.ids
      BY DEF CandidateReferences, SequencesAreFresh, Running
    <3>2. \A w \in Workflows : candidateSeq + 1 \notin candidateIds[w]
      BY DEF CandidateReferences, SequencesAreFresh, NoId
    <3>3. /\ \A f \in executions' :
               \/ f \in executions \ {e}
               \/ f.act = e.act /\ f.ids = rows
          /\ \A f, g \in executions' :
               f # g => f \in executions \ {e} \/ g \in executions \ {e}
      BY <3>0, AddOnly
    <3>4. e \in Running("createCandidates") /\ candidateIds' = candidateIds
      BY <2>1 DEF CreateCandidateRow, Running
    <3> QED
      BY <3>1, <3>2, <3>3, <3>4 DEF Running, rows
  <2>2. CASE ScheduleCandidateProcessing(e)
    <3>1. Finish(e, e.ids) /\ candidateIds' = candidateIds
      BY <2>2 DEF ScheduleCandidateProcessing
    <3>2. /\ \A f, g \in Running("createCandidates")' : f # g => f.ids \cap g.ids = {}
          /\ \A f \in Running("createCandidates")' :
               \E g \in Running("createCandidates") : f.ids = g.ids
      BY <3>1, KeepsItsRows
    <3> QED
      BY <3>1, <3>2
  <2>3. CASE CreateWalletRow(e) \/ CreateInvestmentRow(e)
             \/ ScheduleInvestmentCreation(e) \/ FanOutCandidates(e)
             \/ FindWallet(e) \/ SaveReady(e) \/ SaveAborted(e)
    <3>1. /\ Running("createCandidates")' = Running("createCandidates")
          /\ candidateIds' = candidateIds
      BY <2>3, OthersRun
         DEF CreateWalletRow, CreateInvestmentRow, ScheduleInvestmentCreation,
             FanOutCandidates, FindWallet, SaveReady, SaveAborted, Add, Finish
    <3> QED
      BY <3>1
  <2> QED
    BY <1>2, <2>1, <2>2, <2>3 DEF ActivityStep
<1>3. ASSUME NEW e \in executions, Return(e) PROVE CandidatesApart'
  BY <1>3 DEF Return, Execution, CandidateReferences, Current, Running
<1>4. ASSUME NEW e \in executions, ActivityThrows(e) PROVE CandidatesApart'
  BY <1>4 DEF ActivityThrows, LoseAttempt, Running
<1>5. ASSUME NEW i \in creationJobs, RunCreationJob(i) PROVE CandidatesApart'
  BY <1>5 DEF RunCreationJob, Running
<1>6. ASSUME NEW i \in creationJobs, CreationJobDies(i) PROVE CandidatesApart'
  BY <1>6 DEF CreationJobDies, Running
<1>7. ASSUME NEW j \in candidateJobs, CandidateJobStep(j) PROVE CandidatesApart'
  BY <1>7
     DEF CandidateJobStep, SlowAttempt, FailedAttempt, MatchCandidate,
         RejectCandidate, SignalProcessed, Conclude, Running
<1>8. ASSUME NEW j \in candidateJobs, CandidateJobDies(j) PROVE CandidatesApart'
  BY <1>8 DEF CandidateJobDies, Running
<1>9. CASE UNCHANGED vars
  BY <1>9 DEF vars, Running
<1> QED
  BY <1>1, <1>2, <1>3, <1>4, <1>5, <1>6, <1>7, <1>8, <1>9 DEF Next

\* An activity's step leaves every attempt with its pipeline and its activity.
LEMMA StepKeepsPlace ==
  ASSUME NEW e \in executions, ActivityStep(e)
  PROVE  /\ \A f \in executions' : \E g \in executions : f.wf = g.wf /\ f.act = g.act
         /\ UNCHANGED server
<1>1. \E ids, seen, done : Advance(e, ids, seen, done)
  BY DEF ActivityStep, CreateWalletRow, CreateInvestmentRow, ScheduleInvestmentCreation,
     CreateCandidateRow, ScheduleCandidateProcessing, FanOutCandidates, FindWallet,
     SaveReady, SaveAborted, Add, Finish
<1>2. PICK ids, seen, done : Advance(e, ids, seen, done)
  BY <1>1
<1>3. \A f \in executions' : \E g \in executions : f.wf = g.wf /\ f.act = g.act
  BY <1>2 DEF Advance
<1>4. QED
  BY <1>3 DEF ActivityStep, CreateWalletRow, CreateInvestmentRow,
     ScheduleInvestmentCreation, CreateCandidateRow, ScheduleCandidateProcessing,
     FanOutCandidates, FindWallet, SaveReady, SaveAborted

\* Attempts of finish and of abort never run for the same pipeline.
LEMMA DecidersAgreeStep ==
  Inductive /\ Accountable /\ crashes' = 0 /\ [Next]_vars => DecidersAgree'
<1> SUFFICES ASSUME Inductive, Accountable, crashes' = 0, [Next]_vars
             PROVE  DecidersAgree'
  OBVIOUS
<1>0. crashes = 0 /\ ~Crash
  BY FirstLife
<1> USE <1>0
<1> USE 
  DEF Inductive, Accountable, TypeOK, tables, seqs, jobs, progress, results,
       server, MoveTo, GoTo, WorkerTypes, TableTypes, ServerTypes, DecidersAgree,
       ToReady, ToAborted, Running
<1>1. ASSUME NEW w \in Workflows, ServerStep(w) PROVE DecidersAgree'
  <2>1. CASE PollActivity(w)
    <3>1. step' = step
      BY <2>1 DEF PollActivity
    <3>2. \A f \in executions' : f \in executions \/ (f.wf = w /\ f.act = step[w])
      BY <2>1 DEF PollActivity
    <3>3. \A f \in executions : f.wf \in Workflows
      BY DEF Execution
    <3> QED
      BY <3>1, <3>2, <3>3
  <2>2. CASE ActivityTimesOut(w)
    <3>1. executions' = executions
      BY <2>2 DEF ActivityTimesOut
    <3>2. \A v \in Workflows : step'[v] = step[v] \/ step'[v] = "failed"
      BY <2>2, LoseAttemptMoves DEF ActivityTimesOut
    <3>3. \A f \in executions : f.wf \in Workflows
      BY DEF Execution
    <3> QED
      BY <3>1, <3>2, <3>3
  <2>3. CASE Start(w) \/ ExecutionExpires(w) \/ AwaitCompletes(w)
             \/ AwaitTimesOut(w)
    <3>1. executions' = executions /\ \A f \in executions : f.wf \in Workflows
      BY <2>3 DEF Start, ExecutionExpires, AwaitCompletes, AwaitTimesOut, Execution
    <3>2. /\ \A v \in Workflows : v # w => step'[v] = step[v]
          /\ step[w] \in {"idle", "await"} \/ step'[w] = "expired"
      BY <2>3 DEF Start, ExecutionExpires, AwaitCompletes, AwaitTimesOut
    <3>3. step[w] \in {"idle", "await"} =>
            \A f \in Running("finish") \cup Running("abort") : f.wf # w
      OBVIOUS
    <3> QED
      BY <3>1, <3>2, <3>3
  <2> QED
    BY <1>1, <2>1, <2>2, <2>3 DEF ServerStep
<1>2. ASSUME NEW e \in executions, ActivityStep(e) PROVE DecidersAgree'
  BY <1>2, StepKeepsPlace
<1>3. ASSUME NEW e \in executions, Return(e) PROVE DecidersAgree'
  BY <1>3 DEF Return, Execution, Current, NextStep, Activities
<1>4. ASSUME NEW e \in executions, ActivityThrows(e) PROVE DecidersAgree'
  <2>1. executions' \subseteq executions /\ e.wf \in Workflows
    BY <1>4 DEF ActivityThrows, Execution
  <2>2. \A v \in Workflows : step'[v] = step[v] \/ step'[v] = "failed"
    BY <1>4, <2>1, LoseAttemptMoves DEF ActivityThrows
  <2>3. \A f \in executions : f.wf \in Workflows
    BY DEF Execution
  <2> QED
    BY <2>1, <2>2, <2>3
<1>5. ASSUME NEW i \in creationJobs, RunCreationJob(i) PROVE DecidersAgree'
  BY <1>5 DEF RunCreationJob
<1>6. ASSUME NEW i \in creationJobs, CreationJobDies(i) PROVE DecidersAgree'
  BY <1>6 DEF CreationJobDies
<1>7. ASSUME NEW j \in candidateJobs, CandidateJobStep(j) PROVE DecidersAgree'
  BY <1>7
     DEF CandidateJobStep, SlowAttempt, FailedAttempt, MatchCandidate,
         RejectCandidate, SignalProcessed, Conclude
<1>8. ASSUME NEW j \in candidateJobs, CandidateJobDies(j) PROVE DecidersAgree'
  BY <1>8 DEF CandidateJobDies
<1>9. CASE UNCHANGED vars
  BY <1>9 DEF vars
<1> QED
  BY <1>1, <1>2, <1>3, <1>4, <1>5, <1>6, <1>7, <1>8, <1>9 DEF Next

\* The row of a pipeline says what its step allows.
LEMMA WalletsDecidedStep ==
  Inductive /\ Accountable /\ crashes' = 0 /\ [Next]_vars => WalletsDecided'
<1> SUFFICES ASSUME Inductive, Accountable, crashes' = 0, [Next]_vars
             PROVE  WalletsDecided'
  OBVIOUS
<1>0. crashes = 0 /\ ~Crash
  BY FirstLife
<1> USE <1>0
<1> USE 
  DEF Inductive, Accountable, TypeOK, tables, seqs, jobs, progress, results,
       server, MoveTo, GoTo, WorkerTypes, TableTypes, ServerTypes, WalletsDecided,
       ToReady, ToAborted
<1>1. ASSUME NEW w \in Workflows, ServerStep(w) PROVE WalletsDecided'
  <2>1. CASE PollActivity(w)
    BY <2>1 DEF PollActivity, Running
  <2>2. CASE ActivityTimesOut(w)
    BY <2>2, LoseAttemptMoves DEF ActivityTimesOut, Running
  <2>3. CASE Start(w) \/ ExecutionExpires(w) \/ AwaitCompletes(w)
             \/ AwaitTimesOut(w)
    BY <2>3 DEF Start, ExecutionExpires, AwaitCompletes, AwaitTimesOut, Running
  <2> QED
    BY <1>1, <2>1, <2>2, <2>3 DEF ServerStep
<1>2. ASSUME NEW e \in executions, ActivityStep(e) PROVE WalletsDecided'
  <2>1. CASE CreateWalletRow(e)
    <3>0. Finish(e, {walletSeq + 1})
      BY <2>1 DEF CreateWalletRow
    <3>1. /\ \A k \in DOMAIN wallets : wallets'[k] = wallets[k]
          /\ wallets'[walletSeq + 1] = NewWallet(e.wf)
      BY <2>1 DEF CreateWalletRow, Merge, SequencesAreFresh
    <3>2. \A f \in Running("createWallet")' :
            f \in Running("createWallet") \/ (f.wf = e.wf /\ f.ids = {walletSeq + 1})
      BY <3>0, FinishOnly DEF Running
    <3>3. \A f \in Running("createWallet") : f.ids \subseteq DOMAIN wallets
      BY DEF Running, WalletReferences
    <3>4. \A f \in Running("createWallet")' :
            \A id \in f.ids : wallets'[id] = NewWallet(f.wf)
      BY <3>1, <3>2, <3>3
    <3>5. \A w \in Workflows :
            walletId[w] # NoId => wallets'[walletId[w]] = wallets[walletId[w]]
      BY <3>1 DEF WalletReferences
    <3>6. \A w \in Workflows : step[w] \in {"ready", "timedOut"} => walletId[w] # NoId
      BY DEF WalletReferences, Started
    <3> QED
      BY <1>2, <3>4, <3>5, <3>6, StepKeepsPlace DEF Running, NewWallet
  <2>2. CASE SaveReady(e)
    <3> DEFINE id == walletId[e.wf]
    <3>a. e \in Running("finish") /\ e.wf \in Workflows /\ e.seen \in WalletRow
      BY <2>2 DEF SaveReady, Execution, Running
    <3>1. /\ e \in Running("finish") /\ e.wf \in Workflows /\ e.seen \in WalletRow
          /\ id # NoId /\ id \in DOMAIN wallets /\ step[e.wf] \in ToReady
      BY <2>2, <3>a DEF SaveReady, WalletReferences, DecidersAgree
    <3>2. e.seen.investor = InvestorOf[e.wf]
      BY <2>2, <3>1 DEF SaveReady, DecidersKnow
    <3>3. /\ DOMAIN wallets' = DOMAIN wallets \cup {id}
          /\ wallets'[id].investor = InvestorOf[e.wf] /\ wallets'[id].status = "READY"
          /\ \A k \in DOMAIN wallets : k # id => wallets'[k] = wallets[k]
      BY <2>2, <3>1, <3>2 DEF SaveReady, Merge, WalletRow
    <3>4. Running("createWallet")' = Running("createWallet")
      BY <2>2, OthersRun DEF SaveReady, Finish
    <3> QED
      BY <1>2, <3>1, <3>3, <3>4, StepKeepsPlace
         DEF Running, WalletsApart, WalletReferences, Started, DecidersAgree
  <2>3. CASE SaveAborted(e)
    <3> DEFINE id == walletId[e.wf]
    <3>a. e \in Running("abort") /\ e.wf \in Workflows /\ e.seen \in WalletRow
      BY <2>3 DEF SaveAborted, Execution, Running
    <3>1. /\ e \in Running("abort") /\ e.wf \in Workflows /\ e.seen \in WalletRow
          /\ id # NoId /\ id \in DOMAIN wallets /\ step[e.wf] \in ToAborted
      BY <2>3, <3>a DEF SaveAborted, WalletReferences, DecidersAgree
    <3>2. e.seen.investor = InvestorOf[e.wf] /\ e.seen.status # "READY"
      BY <2>3, <3>1 DEF SaveAborted, DecidersKnow
    <3>3. /\ DOMAIN wallets' = DOMAIN wallets \cup {id}
          /\ wallets'[id].investor = InvestorOf[e.wf] /\ wallets'[id].status = "ABORTED"
          /\ \A k \in DOMAIN wallets : k # id => wallets'[k] = wallets[k]
      BY <2>3, <3>1, <3>2 DEF SaveAborted, Merge, WalletRow
    <3>4. Running("createWallet")' = Running("createWallet")
      BY <2>3, OthersRun DEF SaveAborted, Finish
    <3> QED
      BY <1>2, <3>1, <3>3, <3>4, StepKeepsPlace
         DEF Running, WalletsApart, WalletReferences, Started, DecidersAgree
  <2>4. CASE CreateInvestmentRow(e) \/ ScheduleInvestmentCreation(e)
             \/ CreateCandidateRow(e) \/ ScheduleCandidateProcessing(e)
             \/ FanOutCandidates(e) \/ FindWallet(e)
    <3>1. wallets' = wallets /\ Running("createWallet")' = Running("createWallet")
      BY <2>4, OthersRun
         DEF CreateInvestmentRow, ScheduleInvestmentCreation, CreateCandidateRow,
             ScheduleCandidateProcessing, FanOutCandidates, FindWallet, Add, Finish
    <3> QED
      BY <2>4, <3>1, <1>2, StepKeepsPlace DEF Running
  <2> QED
    BY <1>2, <2>1, <2>2, <2>3, <2>4 DEF ActivityStep
<1>3. ASSUME NEW e \in executions, Return(e) PROVE WalletsDecided'
  <2>1. /\ wallets' = wallets /\ executions' \subseteq executions
        /\ e.wf \in Workflows /\ e.act \in Activities
    BY <1>3 DEF Return, Execution
  <2>2. CASE ~Current(e)
    <3>1. step' = step /\ walletId' = walletId
      BY <1>3, <2>2 DEF Return
    <3> QED
      BY <2>1, <3>1 DEF Running
  <2>3. CASE Current(e)
    <3>1. step[e.wf] = e.act /\ step' = [step EXCEPT ![e.wf] = NextStep[e.act]]
      BY <1>3, <2>3 DEF Return, Current
    <3>2. /\ e.act # "createWallet" => walletId' = walletId
          /\ e.act = "createWallet" =>
               /\ \A w \in Workflows : w # e.wf => walletId'[w] = walletId[w]
               /\ walletId'[e.wf] \in e.ids
      BY <1>3, <2>1, <2>3 DEF Return, WalletReferences
    <3>3. \A w \in Workflows : w # e.wf => step'[w] = step[w]
      BY <2>1, <3>1
    <3>4. /\ \A f \in Running("createWallet")' : f \in Running("createWallet")
          /\ \A f \in Running("finish")' : f \in Running("finish")
          /\ \A f \in Running("abort")' : f \in Running("abort")
      BY <2>1 DEF Running
    <3>5. CASE e.act = "createWallet"
      <4>1. step'[e.wf] = "createInvestments"
        BY <2>1, <3>1, <3>5 DEF NextStep
      <4>2. wallets[walletId'[e.wf]] = NewWallet(e.wf)
        BY <3>2, <3>5 DEF Running
      <4> QED
        BY <2>1, <3>2, <3>3, <3>4, <3>5, <4>1, <4>2 DEF NewWallet
    <3>6. CASE e.act \in {"createInvestments", "createCandidates", "fanOut"}
      <4>1. step'[e.wf] \in {"createCandidates", "fanOut", "await"}
        BY <2>1, <3>1, <3>6 DEF NextStep
      <4> QED
        BY <2>1, <3>1, <3>2, <3>3, <3>4, <3>6, <4>1
    <3>7. CASE e.act = "finish"
      <4>1. step'[e.wf] = "ready"
        BY <2>1, <3>1, <3>7 DEF NextStep
      <4>2. wallets[walletId[e.wf]].status = "READY"
        BY <1>3, <3>7 DEF Return, DecidersKnow, Running
      <4> QED
        BY <2>1, <3>1, <3>2, <3>3, <3>4, <3>7, <4>1, <4>2
    <3>8. CASE e.act = "abort"
      <4>1. step'[e.wf] = "timedOut"
        BY <2>1, <3>1, <3>8 DEF NextStep
      <4>2. wallets[walletId[e.wf]].status = "ABORTED"
        BY <1>3, <3>8 DEF Return, DecidersKnow, Running
      <4> QED
        BY <2>1, <3>1, <3>2, <3>3, <3>4, <3>8, <4>1, <4>2
    <3> QED
      BY <2>1, <3>5, <3>6, <3>7, <3>8 DEF Activities
  <2> QED
    BY <2>2, <2>3
<1>4. ASSUME NEW e \in executions, ActivityThrows(e) PROVE WalletsDecided'
  <2>1. e.wf \in Workflows
    BY DEF Execution
  <2>2. step' = step \/ step' = [step EXCEPT ![e.wf] = "failed"]
    BY <1>4, <2>1, LoseAttemptMoves DEF ActivityThrows
  <2> QED
    BY <1>4, <2>1, <2>2 DEF ActivityThrows, Running
<1>5. ASSUME NEW i \in creationJobs, RunCreationJob(i) PROVE WalletsDecided'
  BY <1>5 DEF RunCreationJob, Running
<1>6. ASSUME NEW i \in creationJobs, CreationJobDies(i) PROVE WalletsDecided'
  BY <1>6 DEF CreationJobDies, Running
<1>7. ASSUME NEW j \in candidateJobs, CandidateJobStep(j) PROVE WalletsDecided'
  BY <1>7
     DEF CandidateJobStep, SlowAttempt, FailedAttempt, MatchCandidate,
         RejectCandidate, SignalProcessed, Conclude, Running
<1>8. ASSUME NEW j \in candidateJobs, CandidateJobDies(j) PROVE WalletsDecided'
  BY <1>8 DEF CandidateJobDies, Running
<1>9. CASE UNCHANGED vars
  BY <1>9 DEF vars, Running
<1> QED
  BY <1>1, <1>2, <1>3, <1>4, <1>5, <1>6, <1>7, <1>8, <1>9 DEF Next

\* What an attempt of finish or abort has read stays good enough to save.
LEMMA DecidersKnowStep ==
  Inductive /\ Accountable /\ crashes' = 0 /\ [Next]_vars => DecidersKnow'
<1> SUFFICES ASSUME Inductive, Accountable, crashes' = 0, [Next]_vars
             PROVE  DecidersKnow'
  OBVIOUS
<1>0. crashes = 0 /\ ~Crash
  BY FirstLife
<1> USE <1>0
<1> USE 
  DEF Inductive, Accountable, TypeOK, tables, seqs, jobs, progress, results,
       server, MoveTo, GoTo, WorkerTypes, TableTypes, ServerTypes, DecidersKnow
<1>1. ASSUME NEW w \in Workflows, ServerStep(w) PROVE DecidersKnow'
  <2>1. CASE PollActivity(w)
    BY <2>1 DEF PollActivity, Running, NoRow
  <2>2. CASE ActivityTimesOut(w)
    BY <2>2 DEF ActivityTimesOut, LoseAttempt, Running
  <2>3. CASE Start(w) \/ ExecutionExpires(w) \/ AwaitCompletes(w)
             \/ AwaitTimesOut(w)
    BY <2>3 DEF Start, ExecutionExpires, AwaitCompletes, AwaitTimesOut, Running
  <2> QED
    BY <1>1, <2>1, <2>2, <2>3 DEF ServerStep
<1>2. ASSUME NEW e \in executions, ActivityStep(e) PROVE DecidersKnow'
  <2>1. CASE CreateWalletRow(e)
    <3>1. \A k \in DOMAIN wallets : wallets'[k] = wallets[k]
      BY <2>1 DEF CreateWalletRow, Merge, SequencesAreFresh
    <3>2. /\ Running("finish")' = Running("finish") /\ Running("abort")' = Running("abort")
          /\ walletId' = walletId
      BY <2>1, OthersRun DEF CreateWalletRow, Finish
    <3>3. \A f \in Running("finish") \cup Running("abort") : walletId[f.wf] \in DOMAIN wallets
      BY DEF Running, Execution, WalletReferences
    <3> QED
      BY <3>1, <3>2, <3>3
  <2>2. CASE FindWallet(e)
    <3>1. Advance(e, e.ids, wallets[walletId[e.wf]], FALSE) /\ wallets' = wallets /\ walletId' = walletId
      BY <2>2 DEF FindWallet
    <3>2. \A f \in executions' :
            \/ f \in executions
            \/ /\ f.wf = e.wf /\ f.act = e.act /\ f.seen = wallets[walletId[e.wf]]
               /\ ~f.done
      BY <3>1 DEF Advance
    <3>3. e.wf \in Workflows /\ walletId[e.wf] # NoId
      BY <2>2 DEF FindWallet, Execution, WalletReferences
    <3>4. /\ wallets[walletId[e.wf]].investor = InvestorOf[e.wf]
          /\ e.act = "abort" => wallets[walletId[e.wf]].status # "READY"
      BY <3>3 DEF WalletsDecided, Running
    <3> QED
      BY <3>1, <3>2, <3>4 DEF Running
  <2>3. CASE SaveReady(e)
    <3> DEFINE id == walletId[e.wf]
    <3>a. e \in Running("finish") /\ e.wf \in Workflows /\ e.seen \in WalletRow
      BY <2>3 DEF SaveReady, Execution, Running
    <3>1. /\ e \in Running("finish") /\ e.wf \in Workflows /\ e.seen \in WalletRow
          /\ id # NoId /\ id \in DOMAIN wallets /\ step[e.wf] \in ToReady
      BY <2>3, <3>a DEF SaveReady, WalletReferences, DecidersAgree
    <3>2. e.seen.investor = InvestorOf[e.wf]
      BY <2>3, <3>1 DEF SaveReady, DecidersKnow
    <3>3. /\ DOMAIN wallets' = DOMAIN wallets \cup {id}
          /\ wallets'[id].investor = InvestorOf[e.wf] /\ wallets'[id].status = "READY"
          /\ \A k \in DOMAIN wallets : k # id => wallets'[k] = wallets[k]
      BY <2>3, <3>1, <3>2 DEF SaveReady, Merge, WalletRow
    <3>4. Finish(e, e.ids) /\ walletId' = walletId
      BY <2>3 DEF SaveReady
    <3>5. \A f \in executions' :
            \/ f \in executions
            \/ f.wf = e.wf /\ f.act = e.act /\ f.seen = e.seen
      BY <3>4, FinishOnly
    <3>6. \A f \in Running("finish") \cup Running("abort") :
            /\ f.wf \in Workflows /\ walletId[f.wf] \in DOMAIN wallets
            /\ f.wf = e.wf => f.act = e.act
            /\ f.wf # e.wf => walletId[f.wf] # id
      BY <3>1 DEF Running, Execution, WalletReferences, WalletsApart, DecidersAgree
    <3>7. \A f \in Running("finish")' \cup Running("abort")' :
            \E g \in Running("finish") \cup Running("abort") :
              f.wf = g.wf /\ f.act = g.act /\ f.seen = g.seen /\ (f.wf # e.wf => f = g)
      BY <2>3, <3>5 DEF SaveReady, Running
    <3> QED
      BY <3>1, <3>3, <3>4, <3>6, <3>7 DEF Running
  <2>4. CASE SaveAborted(e)
    <3> DEFINE id == walletId[e.wf]
    <3>a. e \in Running("abort") /\ e.wf \in Workflows /\ e.seen \in WalletRow
      BY <2>4 DEF SaveAborted, Execution, Running
    <3>1. /\ e \in Running("abort") /\ e.wf \in Workflows /\ e.seen \in WalletRow
          /\ id # NoId /\ id \in DOMAIN wallets /\ step[e.wf] \in ToAborted
      BY <2>4, <3>a DEF SaveAborted, WalletReferences, DecidersAgree
    <3>2. e.seen.investor = InvestorOf[e.wf] /\ e.seen.status # "READY"
      BY <2>4, <3>1 DEF SaveAborted, DecidersKnow
    <3>3. /\ DOMAIN wallets' = DOMAIN wallets \cup {id}
          /\ wallets'[id].investor = InvestorOf[e.wf] /\ wallets'[id].status = "ABORTED"
          /\ \A k \in DOMAIN wallets : k # id => wallets'[k] = wallets[k]
      BY <2>4, <3>1, <3>2 DEF SaveAborted, Merge, WalletRow
    <3>4. Finish(e, e.ids) /\ walletId' = walletId
      BY <2>4 DEF SaveAborted
    <3>5. \A f \in executions' :
            \/ f \in executions
            \/ f.wf = e.wf /\ f.act = e.act /\ f.seen = e.seen
      BY <3>4, FinishOnly
    <3>6. \A f \in Running("finish") \cup Running("abort") :
            /\ f.wf \in Workflows /\ walletId[f.wf] \in DOMAIN wallets
            /\ f.wf = e.wf => f.act = e.act
            /\ f.wf # e.wf => walletId[f.wf] # id
      BY <3>1 DEF Running, Execution, WalletReferences, WalletsApart, DecidersAgree
    <3>7. \A f \in Running("finish")' \cup Running("abort")' :
            \E g \in Running("finish") \cup Running("abort") :
              f.wf = g.wf /\ f.act = g.act /\ f.seen = g.seen /\ (f.wf # e.wf => f = g)
      BY <2>4, <3>5 DEF SaveAborted, Running
    <3> QED
      BY <3>1, <3>3, <3>4, <3>6, <3>7 DEF Running
  <2>5. CASE CreateInvestmentRow(e) \/ ScheduleInvestmentCreation(e)
             \/ CreateCandidateRow(e) \/ ScheduleCandidateProcessing(e)
             \/ FanOutCandidates(e)
    <3>1. /\ wallets' = wallets /\ Running("finish")' = Running("finish")
          /\ Running("abort")' = Running("abort") /\ walletId' = walletId
      BY <2>5, OthersRun
         DEF CreateInvestmentRow, ScheduleInvestmentCreation, CreateCandidateRow,
             ScheduleCandidateProcessing, FanOutCandidates, Add, Finish
    <3> QED
      BY <3>1
  <2> QED
    BY <1>2, <2>1, <2>2, <2>3, <2>4, <2>5 DEF ActivityStep
<1>3. ASSUME NEW e \in executions, Return(e) PROVE DecidersKnow'
  BY <1>3
     DEF Return, Execution, Current, NextStep, Activities, Running,
         WalletReferences, ResultsAreOrdered
<1>4. ASSUME NEW e \in executions, ActivityThrows(e) PROVE DecidersKnow'
  BY <1>4 DEF ActivityThrows, LoseAttempt, Running
<1>5. ASSUME NEW i \in creationJobs, RunCreationJob(i) PROVE DecidersKnow'
  BY <1>5 DEF RunCreationJob, Running
<1>6. ASSUME NEW i \in creationJobs, CreationJobDies(i) PROVE DecidersKnow'
  BY <1>6 DEF CreationJobDies, Running
<1>7. ASSUME NEW j \in candidateJobs, CandidateJobStep(j) PROVE DecidersKnow'
  BY <1>7
     DEF CandidateJobStep, SlowAttempt, FailedAttempt, MatchCandidate,
         RejectCandidate, SignalProcessed, Conclude, Running
<1>8. ASSUME NEW j \in candidateJobs, CandidateJobDies(j) PROVE DecidersKnow'
  BY <1>8 DEF CandidateJobDies, Running
<1>9. CASE UNCHANGED vars
  BY <1>9 DEF vars, Running
<1> QED
  BY <1>1, <1>2, <1>3, <1>4, <1>5, <1>6, <1>7, <1>8, <1>9 DEF Next

\* A job that moves on stays the one job of its candidate.
LEMMA JobOnly ==
  ASSUME NEW j \in candidateJobs, NEW tries, NEW outcome, UpdateJob(j, tries, outcome)
  PROVE  /\ \A k \in candidateJobs' :
              \/ k \in candidateJobs \ {j}
              \/ k.candidate = j.candidate /\ k.attempt = tries /\ k.outcome = outcome
         /\ \A k, l \in candidateJobs' :
              k # l => k \in candidateJobs \ {j} \/ l \in candidateJobs \ {j}
<1> DEFINE next == [wf |-> j.wf, candidate |-> j.candidate, attempt |-> tries,
                    outcome |-> outcome]
<1>1. candidateJobs' = (candidateJobs \ {j}) \cup {next}
  BY DEF UpdateJob
<1>2. next.candidate = j.candidate /\ next.attempt = tries /\ next.outcome = outcome
  OBVIOUS
<1> HIDE DEF next
<1>3. QED
  BY <1>1, <1>2

\* A candidate's one job tells the truth about it.
LEMMA CandidatesReportedStep ==
  Inductive /\ Accountable /\ crashes' = 0 /\ [Next]_vars => CandidatesReported'
<1> SUFFICES ASSUME Inductive, Accountable, crashes' = 0, [Next]_vars
             PROVE  CandidatesReported'
  OBVIOUS
<1>0. crashes = 0 /\ ~Crash
  BY FirstLife
<1> USE <1>0
<1> USE 
  DEF Inductive, Accountable, TypeOK, tables, seqs, jobs, progress, results,
       server, MoveTo, GoTo, WorkerTypes, TableTypes, ServerTypes,
       CandidatesReported, Running
<1>1. ASSUME NEW w \in Workflows, ServerStep(w) PROVE CandidatesReported'
  <2>1. CASE PollActivity(w)
    BY <2>1 DEF PollActivity
  <2>2. CASE ActivityTimesOut(w)
    BY <2>2 DEF ActivityTimesOut, LoseAttempt
  <2>3. CASE Start(w) \/ ExecutionExpires(w) \/ AwaitCompletes(w)
             \/ AwaitTimesOut(w)
    BY <2>3 DEF Start, ExecutionExpires, AwaitCompletes, AwaitTimesOut
  <2> QED
    BY <1>1, <2>1, <2>2, <2>3 DEF ServerStep
<1>2. ASSUME NEW e \in executions, ActivityStep(e) PROVE CandidatesReported'
  <2>1. CASE CreateCandidateRow(e)
    <3> DEFINE id == candidateSeq + 1
    <3>1. /\ DOMAIN candidates' = DOMAIN candidates \cup {id} /\ id \notin DOMAIN candidates
          /\ candidates'[id].status = "PENDING"
          /\ \A c \in DOMAIN candidates : candidates'[c] = candidates[c]
      BY <2>1 DEF CreateCandidateRow, Merge, NewCandidate, SequencesAreFresh
    <3>2. \A f \in executions' :
            \/ f \in executions
            \/ f.wf = e.wf /\ f.act = e.act /\ f.ids = e.ids \cup {id} /\ ~e.done
      BY <2>1, AddOnly DEF CreateCandidateRow
    <3>3. /\ \A f \in Running("createCandidates") : f.ids \subseteq DOMAIN candidates
          /\ \A j \in candidateJobs : j.candidate \in DOMAIN candidates
          /\ \A w \in Workflows : DOMAIN candidateStatuses[w] \subseteq DOMAIN candidates
          /\ failedOnce \subseteq DOMAIN candidates
      BY DEF CandidateReferences, AttemptsCounted
    <3>4. /\ candidateJobs' = candidateJobs /\ failedOnce' = failedOnce
          /\ candidateStatuses' = candidateStatuses
          /\ e \in Running("createCandidates")
      BY <2>1 DEF CreateCandidateRow
    <3>5. \A f \in Running("createCandidates")' : ~f.done => \A c \in f.ids :
             \/ c = id
             \/ \E g \in Running("createCandidates") : ~g.done /\ c \in g.ids
      BY <3>2, <3>4
    <3>6. \A f \in Running("createCandidates")' : ~f.done => \A c \in f.ids :
             /\ candidates'[c].status = "PENDING"
             /\ c \notin failedOnce
             /\ \A j \in candidateJobs : j.candidate # c
      BY <3>1, <3>3, <3>5
    <3> QED
      BY <3>1, <3>3, <3>4, <3>6
  <2>2. CASE ScheduleCandidateProcessing(e)
    <3>1. /\ candidates' = candidates /\ failedOnce' = failedOnce
          /\ candidateStatuses' = candidateStatuses
          /\ e \in Running("createCandidates") /\ ~e.done
      BY <2>2 DEF ScheduleCandidateProcessing
    <3>2. /\ \A f \in executions' : f \in executions \ {e} \/ f.done
      BY <2>2, FinishOnly DEF ScheduleCandidateProcessing
    <3>3. \A k \in candidateJobs' :
            \/ k \in candidateJobs
            \/ /\ k.candidate \in e.ids
               /\ k = [wf |-> e.wf, candidate |-> k.candidate, attempt |-> 1,
                       outcome |-> "PENDING"]
      BY <2>2 DEF ScheduleCandidateProcessing
    <3>4. \A c \in e.ids : \A j \in candidateJobs : j.candidate # c
      BY <3>1
    <3>5. \A f \in Running("createCandidates") : f # e => e.ids \cap f.ids = {}
      BY <3>1 DEF CandidatesApart
    <3>6. \A w \in Workflows : \A c \in DOMAIN candidateStatuses[w] : c \notin e.ids
      BY <3>1 DEF SignalTypes, CandidateOutcomes
    <3> QED
      BY <3>1, <3>2, <3>3, <3>4, <3>5, <3>6
  <2>3. CASE CreateWalletRow(e) \/ CreateInvestmentRow(e)
             \/ ScheduleInvestmentCreation(e) \/ FanOutCandidates(e)
             \/ FindWallet(e) \/ SaveReady(e) \/ SaveAborted(e)
    <3>1. /\ candidates' = candidates /\ candidateJobs' = candidateJobs
          /\ failedOnce' = failedOnce /\ candidateStatuses' = candidateStatuses
      BY <2>3
         DEF CreateWalletRow, CreateInvestmentRow, ScheduleInvestmentCreation,
             FanOutCandidates, FindWallet, SaveReady, SaveAborted
    <3>2. e.act # "createCandidates" /\ \E ids, seen, done : Advance(e, ids, seen, done)
      BY <2>3
         DEF CreateWalletRow, CreateInvestmentRow, ScheduleInvestmentCreation,
             FanOutCandidates, FindWallet, SaveReady, SaveAborted, Add, Finish
    <3> HIDE DEF Running
    <3>3. Running("createCandidates")' = Running("createCandidates")
      BY <3>2, OthersRunOn
    <3> QED
      BY <3>1, <3>3
  <2> QED
    BY <1>2, <2>1, <2>2, <2>3 DEF ActivityStep
<1>3. ASSUME NEW e \in executions, Return(e) PROVE CandidatesReported'
  BY <1>3 DEF Return
<1>4. ASSUME NEW e \in executions, ActivityThrows(e) PROVE CandidatesReported'
  BY <1>4 DEF ActivityThrows, LoseAttempt
<1>5. ASSUME NEW i \in creationJobs, RunCreationJob(i) PROVE CandidatesReported'
  BY <1>5 DEF RunCreationJob
<1>6. ASSUME NEW i \in creationJobs, CreationJobDies(i) PROVE CandidatesReported'
  BY <1>6 DEF CreationJobDies
<1>7. ASSUME NEW j \in candidateJobs, CandidateJobStep(j) PROVE CandidatesReported'
  <2>1. CASE SlowAttempt(j)
    <3>1. /\ executions' = executions /\ candidateStatuses' = candidateStatuses
          /\ j.outcome = "PENDING" /\ j.candidate \in DOMAIN candidates
      BY <2>1 DEF SlowAttempt, Attempting, Conclude, CandidateReferences
    <3>2. /\ \A k \in candidateJobs' :
               \/ k \in candidateJobs \ {j}
               \/ k.candidate = j.candidate /\ k.outcome = "PENDING"
          /\ \A k, l \in candidateJobs' :
               k # l => k \in candidateJobs \ {j} \/ l \in candidateJobs \ {j}
      BY <2>1, JobOnly DEF SlowAttempt, Attempting
    <3>3. candidates'[j.candidate].status = "PENDING"
      BY <2>1, <3>1 DEF SlowAttempt, Attempting, CandidateRow
    <3>4. \A c \in DOMAIN candidates : c # j.candidate =>
            candidates'[c] = candidates[c] /\ (c \in failedOnce' => c \in failedOnce)
      BY <2>1 DEF SlowAttempt, Conclude
    <3>5. \A w \in Workflows : \A c \in DOMAIN candidateStatuses[w] :
            c \in DOMAIN candidates /\ c # j.candidate
      BY DEF CandidateReferences
    <3>6. \A f \in Running("createCandidates") : ~f.done => \A c \in f.ids :
            c \in DOMAIN candidates /\ c # j.candidate
      BY DEF CandidateReferences
    <3>7. \A k \in candidateJobs \ {j} :
            k.candidate \in DOMAIN candidates /\ k.candidate # j.candidate
      BY DEF CandidateReferences
    <3>8. \A k, l \in candidateJobs' : k.candidate = l.candidate => k = l
      BY <3>2, <3>7
    <3>9. \A k \in candidateJobs' : candidates'[k.candidate].status = k.outcome
      BY <3>2, <3>3, <3>4, <3>7
    <3>10. \A w \in Workflows : \A c \in DOMAIN candidateStatuses[w] :
             /\ candidates'[c].status = candidateStatuses[w][c]
             /\ \A k \in candidateJobs' : k.candidate # c
      BY <3>2, <3>4, <3>5
    <3>11. \A f \in Running("createCandidates") : ~f.done => \A c \in f.ids :
             /\ candidates'[c].status = "PENDING"
             /\ c \notin failedOnce'
             /\ \A k \in candidateJobs' : k.candidate # c
      BY <3>2, <3>4, <3>6
    <3> QED
      BY <3>1, <3>8, <3>9, <3>10, <3>11
  <2>2. CASE FailedAttempt(j)
    <3>1. /\ executions' = executions /\ candidateStatuses' = candidateStatuses
          /\ j.outcome = "PENDING" /\ j.candidate \in DOMAIN candidates
      BY <2>2 DEF FailedAttempt, Attempting, Conclude, CandidateReferences
    <3>2. /\ \A k \in candidateJobs' :
               \/ k \in candidateJobs \ {j}
               \/ k.candidate = j.candidate /\ k.outcome = "PENDING"
          /\ \A k, l \in candidateJobs' :
               k # l => k \in candidateJobs \ {j} \/ l \in candidateJobs \ {j}
      BY <2>2, JobOnly DEF FailedAttempt, Attempting
    <3>3. candidates'[j.candidate].status = "PENDING"
      BY <2>2, <3>1 DEF FailedAttempt, Attempting, CandidateRow
    <3>4. \A c \in DOMAIN candidates : c # j.candidate =>
            candidates'[c] = candidates[c] /\ (c \in failedOnce' => c \in failedOnce)
      BY <2>2 DEF FailedAttempt, Conclude
    <3>5. \A w \in Workflows : \A c \in DOMAIN candidateStatuses[w] :
            c \in DOMAIN candidates /\ c # j.candidate
      BY DEF CandidateReferences
    <3>6. \A f \in Running("createCandidates") : ~f.done => \A c \in f.ids :
            c \in DOMAIN candidates /\ c # j.candidate
      BY DEF CandidateReferences
    <3>7. \A k \in candidateJobs \ {j} :
            k.candidate \in DOMAIN candidates /\ k.candidate # j.candidate
      BY DEF CandidateReferences
    <3>8. \A k, l \in candidateJobs' : k.candidate = l.candidate => k = l
      BY <3>2, <3>7
    <3>9. \A k \in candidateJobs' : candidates'[k.candidate].status = k.outcome
      BY <3>2, <3>3, <3>4, <3>7
    <3>10. \A w \in Workflows : \A c \in DOMAIN candidateStatuses[w] :
             /\ candidates'[c].status = candidateStatuses[w][c]
             /\ \A k \in candidateJobs' : k.candidate # c
      BY <3>2, <3>4, <3>5
    <3>11. \A f \in Running("createCandidates") : ~f.done => \A c \in f.ids :
             /\ candidates'[c].status = "PENDING"
             /\ c \notin failedOnce'
             /\ \A k \in candidateJobs' : k.candidate # c
      BY <3>2, <3>4, <3>6
    <3> QED
      BY <3>1, <3>8, <3>9, <3>10, <3>11
  <2>3. CASE MatchCandidate(j)
    <3>1. /\ executions' = executions /\ candidateStatuses' = candidateStatuses
          /\ j.outcome = "PENDING" /\ j.candidate \in DOMAIN candidates
      BY <2>3 DEF MatchCandidate, Attempting, Conclude, CandidateReferences
    <3>2. /\ \A k \in candidateJobs' :
               \/ k \in candidateJobs \ {j}
               \/ k.candidate = j.candidate /\ k.outcome = "MATCHED"
          /\ \A k, l \in candidateJobs' :
               k # l => k \in candidateJobs \ {j} \/ l \in candidateJobs \ {j}
      BY <2>3, JobOnly DEF MatchCandidate, Conclude
    <3>3. candidates'[j.candidate].status = "MATCHED"
      <4>1. candidates[j.candidate] \in CandidateRow
        BY <3>1
      <4>2. PICK tries : candidates' = [candidates EXCEPT ![j.candidate] =
              [candidates[j.candidate] EXCEPT !.status = "MATCHED", !.processed = TRUE,
                                              !.attempts = tries]]
        BY <2>3 DEF MatchCandidate, Conclude
      <4> QED
        BY <3>1, <4>1, <4>2 DEF CandidateRow
    <3>4. \A c \in DOMAIN candidates : c # j.candidate =>
            candidates'[c] = candidates[c] /\ (c \in failedOnce' => c \in failedOnce)
      BY <2>3 DEF MatchCandidate, Conclude
    <3>5. \A w \in Workflows : \A c \in DOMAIN candidateStatuses[w] :
            c \in DOMAIN candidates /\ c # j.candidate
      BY DEF CandidateReferences
    <3>6. \A f \in Running("createCandidates") : ~f.done => \A c \in f.ids :
            c \in DOMAIN candidates /\ c # j.candidate
      BY DEF CandidateReferences
    <3>7. \A k \in candidateJobs \ {j} :
            k.candidate \in DOMAIN candidates /\ k.candidate # j.candidate
      BY DEF CandidateReferences
    <3>8. \A k, l \in candidateJobs' : k.candidate = l.candidate => k = l
      BY <3>2, <3>7
    <3>9. \A k \in candidateJobs' : candidates'[k.candidate].status = k.outcome
      BY <3>2, <3>3, <3>4, <3>7
    <3>10. \A w \in Workflows : \A c \in DOMAIN candidateStatuses[w] :
             /\ candidates'[c].status = candidateStatuses[w][c]
             /\ \A k \in candidateJobs' : k.candidate # c
      BY <3>2, <3>4, <3>5
    <3>11. \A f \in Running("createCandidates") : ~f.done => \A c \in f.ids :
             /\ candidates'[c].status = "PENDING"
             /\ c \notin failedOnce'
             /\ \A k \in candidateJobs' : k.candidate # c
      BY <3>2, <3>4, <3>6
    <3> QED
      BY <3>1, <3>8, <3>9, <3>10, <3>11
  <2>4. CASE RejectCandidate(j)
    <3>1. /\ executions' = executions /\ candidateStatuses' = candidateStatuses
          /\ j.outcome = "PENDING" /\ j.candidate \in DOMAIN candidates
      BY <2>4 DEF RejectCandidate, Attempting, Conclude, CandidateReferences
    <3>2. /\ \A k \in candidateJobs' :
               \/ k \in candidateJobs \ {j}
               \/ k.candidate = j.candidate /\ k.outcome = "REJECTED"
          /\ \A k, l \in candidateJobs' :
               k # l => k \in candidateJobs \ {j} \/ l \in candidateJobs \ {j}
      BY <2>4, JobOnly DEF RejectCandidate, Conclude
    <3>3. candidates'[j.candidate].status = "REJECTED"
      <4>1. candidates[j.candidate] \in CandidateRow
        BY <3>1
      <4>2. PICK tries : candidates' = [candidates EXCEPT ![j.candidate] =
              [candidates[j.candidate] EXCEPT !.status = "REJECTED", !.processed = TRUE,
                                              !.attempts = tries]]
        BY <2>4 DEF RejectCandidate, Conclude
      <4> QED
        BY <3>1, <4>1, <4>2 DEF CandidateRow
    <3>4. \A c \in DOMAIN candidates : c # j.candidate =>
            candidates'[c] = candidates[c] /\ (c \in failedOnce' => c \in failedOnce)
      BY <2>4 DEF RejectCandidate, Conclude
    <3>5. \A w \in Workflows : \A c \in DOMAIN candidateStatuses[w] :
            c \in DOMAIN candidates /\ c # j.candidate
      BY DEF CandidateReferences
    <3>6. \A f \in Running("createCandidates") : ~f.done => \A c \in f.ids :
            c \in DOMAIN candidates /\ c # j.candidate
      BY DEF CandidateReferences
    <3>7. \A k \in candidateJobs \ {j} :
            k.candidate \in DOMAIN candidates /\ k.candidate # j.candidate
      BY DEF CandidateReferences
    <3>8. \A k, l \in candidateJobs' : k.candidate = l.candidate => k = l
      BY <3>2, <3>7
    <3>9. \A k \in candidateJobs' : candidates'[k.candidate].status = k.outcome
      BY <3>2, <3>3, <3>4, <3>7
    <3>10. \A w \in Workflows : \A c \in DOMAIN candidateStatuses[w] :
             /\ candidates'[c].status = candidateStatuses[w][c]
             /\ \A k \in candidateJobs' : k.candidate # c
      BY <3>2, <3>4, <3>5
    <3>11. \A f \in Running("createCandidates") : ~f.done => \A c \in f.ids :
             /\ candidates'[c].status = "PENDING"
             /\ c \notin failedOnce'
             /\ \A k \in candidateJobs' : k.candidate # c
      BY <3>2, <3>4, <3>6
    <3> QED
      BY <3>1, <3>8, <3>9, <3>10, <3>11
  <2>5. CASE SignalProcessed(j)
    <3>1. /\ executions' = executions /\ candidates' = candidates /\ failedOnce' = failedOnce
          /\ candidateJobs' = candidateJobs \ {j} /\ j.candidate \in DOMAIN candidates
          /\ candidates[j.candidate].status = j.outcome
      BY <2>5 DEF SignalProcessed, CandidateReferences
    <3>2. \A w \in Workflows : \A c \in DOMAIN candidateStatuses'[w] :
            \/ c \in DOMAIN candidateStatuses[w] /\ c # j.candidate
               /\ candidateStatuses'[w][c] = candidateStatuses[w][c]
            \/ c = j.candidate /\ candidateStatuses'[w][c] = j.outcome
      <4>0. j.wf \in Workflows
        BY DEF CandidateJob
      <4>1. CASE ~Open(j.wf)
        BY <2>5, <4>1 DEF SignalProcessed
      <4>2. CASE Open(j.wf)
        <5>1. candidateStatuses' =
                [candidateStatuses EXCEPT ![j.wf] =
                   Merge(candidateStatuses[j.wf], j.candidate, j.outcome)]
          BY <2>5, <4>2 DEF SignalProcessed, SignalledStatus
        <5>2. /\ \A w \in Workflows : w # j.wf => candidateStatuses'[w] = candidateStatuses[w]
              /\ candidateStatuses'[j.wf] = Merge(candidateStatuses[j.wf], j.candidate, j.outcome)
          BY <4>0, <5>1 DEF SignalTypes
        <5>3. \A c \in DOMAIN candidateStatuses'[j.wf] :
                \/ c \in DOMAIN candidateStatuses[j.wf] /\ c # j.candidate
                   /\ candidateStatuses'[j.wf][c] = candidateStatuses[j.wf][c]
                \/ c = j.candidate /\ candidateStatuses'[j.wf][c] = j.outcome
          BY <5>2 DEF Merge
        <5>4. \A w \in Workflows : \A c \in DOMAIN candidateStatuses[w] : c # j.candidate
          OBVIOUS
        <5> QED
          BY <5>2, <5>3, <5>4
      <4> QED
        BY <4>1, <4>2
    <3> QED
      BY <3>1, <3>2
  <2> QED
    BY <1>7, <2>1, <2>2, <2>3, <2>4, <2>5 DEF CandidateJobStep
<1>8. ASSUME NEW j \in candidateJobs, CandidateJobDies(j) PROVE CandidatesReported'
  BY <1>8 DEF CandidateJobDies
<1>9. CASE UNCHANGED vars
  BY <1>9 DEF vars, Running
<1> QED
  BY <1>1, <1>2, <1>3, <1>4, <1>5, <1>6, <1>7, <1>8, <1>9 DEF Next

\* A row counts the attempts of its job.
LEMMA AttemptsCountedStep ==
  Inductive /\ Accountable /\ crashes' = 0 /\ [Next]_vars => AttemptsCounted'
<1> SUFFICES ASSUME Inductive, Accountable, crashes' = 0, [Next]_vars
             PROVE  AttemptsCounted'
  OBVIOUS
<1>0. crashes = 0 /\ ~Crash
  BY FirstLife
<1> USE <1>0
<1> USE 
  DEF Inductive, Accountable, TypeOK, tables, seqs, jobs, progress, results,
       server, MoveTo, GoTo, WorkerTypes, TableTypes, ServerTypes, AttemptsCounted
<1>1. ASSUME NEW w \in Workflows, ServerStep(w) PROVE AttemptsCounted'
  <2>1. CASE ActivityTimesOut(w)
    BY <2>1 DEF ActivityTimesOut, LoseAttempt
  <2>2. CASE Start(w) \/ PollActivity(w) \/ ExecutionExpires(w) \/ AwaitCompletes(w)
             \/ AwaitTimesOut(w)
    BY <2>2 DEF Start, PollActivity, ExecutionExpires, AwaitCompletes, AwaitTimesOut
  <2> QED
    BY <1>1, <2>1, <2>2 DEF ServerStep
<1>2. ASSUME NEW e \in executions, ActivityStep(e) PROVE AttemptsCounted'
  <2>1. CASE CreateCandidateRow(e)
    <3> DEFINE id == candidateSeq + 1
    <3>1. /\ DOMAIN candidates' = DOMAIN candidates \cup {id}
          /\ candidates'[id].status = "PENDING" /\ candidates'[id].attempts = 0
          /\ \A c \in DOMAIN candidates : candidates'[c] = candidates[c]
      BY <2>1 DEF CreateCandidateRow, Merge, NewCandidate, SequencesAreFresh
    <3>2. candidateJobs' = candidateJobs /\ failedOnce' = failedOnce
      BY <2>1 DEF CreateCandidateRow
    <3>3. 0 <= MaxCandidateAttempts
      BY CandidateAssumption
    <3> QED
      BY <3>1, <3>2, <3>3
  <2>2. CASE ScheduleCandidateProcessing(e)
    <3>1. /\ candidates' = candidates /\ failedOnce' = failedOnce
          /\ e \in Running("createCandidates") /\ ~e.done
      BY <2>2 DEF ScheduleCandidateProcessing, Running
    <3>2. \A k \in candidateJobs' :
            \/ k \in candidateJobs
            \/ /\ k.candidate \in e.ids
               /\ k = [wf |-> e.wf, candidate |-> k.candidate, attempt |-> 1,
                       outcome |-> "PENDING"]
      BY <2>2 DEF ScheduleCandidateProcessing
    <3>3. \A c \in e.ids : c \notin failedOnce
      BY <3>1 DEF CandidatesReported
    <3>4. 1 \in 1..(MaxCandidateAttempts + 1)
      BY CandidateAssumption
    <3>5. \A k \in candidateJobs' :
            \/ k \in candidateJobs
            \/ k.candidate \in e.ids /\ k.attempt = 1
      BY <3>2
    <3> QED
      BY <3>1, <3>3, <3>4, <3>5
  <2>3. CASE CreateWalletRow(e) \/ CreateInvestmentRow(e)
             \/ ScheduleInvestmentCreation(e) \/ FanOutCandidates(e)
             \/ FindWallet(e) \/ SaveReady(e) \/ SaveAborted(e)
    <3> QED
      BY <2>3
         DEF CreateWalletRow, CreateInvestmentRow, ScheduleInvestmentCreation,
             FanOutCandidates, FindWallet, SaveReady, SaveAborted
  <2> QED
    BY <1>2, <2>1, <2>2, <2>3 DEF ActivityStep
<1>3. ASSUME NEW e \in executions, Return(e) PROVE AttemptsCounted'
  BY <1>3 DEF Return
<1>4. ASSUME NEW e \in executions, ActivityThrows(e) PROVE AttemptsCounted'
  BY <1>4 DEF ActivityThrows, LoseAttempt
<1>5. ASSUME NEW i \in creationJobs, RunCreationJob(i) PROVE AttemptsCounted'
  BY <1>5 DEF RunCreationJob
<1>6. ASSUME NEW i \in creationJobs, CreationJobDies(i) PROVE AttemptsCounted'
  BY <1>6 DEF CreationJobDies
<1>7. ASSUME NEW j \in candidateJobs, CandidateJobStep(j) PROVE AttemptsCounted'
  <2>1. CASE SlowAttempt(j)
    <3>1. \A k \in candidateJobs' :
            \/ k \in candidateJobs \ {j}
            \/ k.candidate = j.candidate /\ k.attempt = j.attempt + 1 /\ k.outcome = "PENDING"
      BY <2>1, JobOnly DEF SlowAttempt
    <3>2. /\ j.candidate \in DOMAIN candidates /\ candidates[j.candidate] \in CandidateRow
          /\ j.attempt \in Nat /\ j.outcome = "PENDING"
      BY <2>1 DEF SlowAttempt, Attempting, CandidateReferences, CandidateJob
    <3>3. j.attempt \in 1..(MaxCandidateAttempts + 1) /\ MaxCandidateAttempts \in Nat \ {0}
      BY CandidateAssumption
    <3>4. /\ candidates' = candidates /\ failedOnce' = failedOnce
          /\ j.candidate \in AlwaysSlow /\ j.attempt <= MaxCandidateAttempts
      BY <2>1 DEF SlowAttempt, Attempting
    <3>5. j.attempt + 1 \in 1..(MaxCandidateAttempts + 1)
      BY <3>2, <3>3, <3>4
    <3> QED
      BY <3>1, <3>4, <3>5
  <2>2. CASE FailedAttempt(j)
    <3>1. \A k \in candidateJobs' :
            \/ k \in candidateJobs \ {j}
            \/ k.candidate = j.candidate /\ k.attempt = j.attempt + 1 /\ k.outcome = "PENDING"
      BY <2>2, JobOnly DEF FailedAttempt
    <3>2. /\ j.candidate \in DOMAIN candidates /\ candidates[j.candidate] \in CandidateRow
          /\ j.attempt \in Nat /\ j.outcome = "PENDING"
      BY <2>2 DEF FailedAttempt, Attempting, CandidateReferences, CandidateJob
    <3>3. j.attempt \in 1..(MaxCandidateAttempts + 1) /\ MaxCandidateAttempts \in Nat \ {0}
      BY CandidateAssumption
    <3>4. /\ candidates' = [candidates EXCEPT ![j.candidate].attempts = j.attempt]
          /\ failedOnce' = failedOnce \cup {j.candidate}
          /\ j.candidate \in FailFirst /\ j.candidate \notin AlwaysSlow
          /\ j.candidate \notin failedOnce /\ j.attempt <= MaxCandidateAttempts
      BY <2>2 DEF FailedAttempt, Attempting
    <3>5. candidates[j.candidate].status = "PENDING"
      BY <3>2 DEF CandidatesReported
    <3>6. /\ DOMAIN candidates' = DOMAIN candidates
          /\ candidates'[j.candidate].status = "PENDING"
          /\ candidates'[j.candidate].attempts = j.attempt
          /\ \A c \in DOMAIN candidates : c # j.candidate => candidates'[c] = candidates[c]
      BY <3>2, <3>4, <3>5 DEF CandidateRow
    <3>7. j.attempt = 1
      BY <3>2, <3>3, <3>4
    <3>8. j.attempt + 1 \in 1..(MaxCandidateAttempts + 1)
      BY <3>3, <3>4, <3>7
    <3>9. \A k \in candidateJobs \ {j} : k.candidate # j.candidate
      BY DEF CandidatesReported
    <3>10. \A k \in candidateJobs' :
             /\ k.attempt \in 1..(MaxCandidateAttempts + 1)
             /\ k.outcome = "PENDING" /\ k.candidate \notin AlwaysSlow =>
                  (k.attempt > 1 <=> k.candidate \in failedOnce')
      <4> SUFFICES ASSUME NEW k \in candidateJobs'
                   PROVE  /\ k.attempt \in 1..(MaxCandidateAttempts + 1)
                          /\ k.outcome = "PENDING" /\ k.candidate \notin AlwaysSlow =>
                               (k.attempt > 1 <=> k.candidate \in failedOnce')
        OBVIOUS
      <4>1. CASE k \in candidateJobs \ {j}
        BY <3>4, <3>9, <4>1
      <4>2. CASE k.candidate = j.candidate /\ k.attempt = j.attempt + 1
        BY <3>4, <3>7, <3>8, <4>2
      <4> QED
        BY <3>1, <4>1, <4>2
    <3> QED
      BY <3>2, <3>3, <3>4, <3>6, <3>10
  <2>3. CASE MatchCandidate(j)
    <3>1. \A k \in candidateJobs' :
            \/ k \in candidateJobs \ {j}
            \/ k.candidate = j.candidate /\ k.attempt = j.attempt /\ k.outcome = "MATCHED"
      BY <2>3, JobOnly DEF MatchCandidate, Conclude
    <3>2. /\ j.candidate \in DOMAIN candidates /\ candidates[j.candidate] \in CandidateRow
          /\ j.attempt \in Nat /\ j.outcome = "PENDING"
      BY <2>3 DEF MatchCandidate, Conclude, Attempting, CandidateReferences, CandidateJob
    <3>3. j.attempt \in 1..(MaxCandidateAttempts + 1) /\ MaxCandidateAttempts \in Nat \ {0}
      BY CandidateAssumption
    <3>4. /\ candidates' = [candidates EXCEPT ![j.candidate] =
               [candidates[j.candidate] EXCEPT !.status = "MATCHED", !.processed = TRUE,
                                               !.attempts = j.attempt]]
          /\ failedOnce' = failedOnce
      BY <2>3 DEF MatchCandidate, Conclude
    <3>5. /\ DOMAIN candidates' = DOMAIN candidates
          /\ candidates'[j.candidate].status = "MATCHED"
          /\ candidates'[j.candidate].attempts = j.attempt
          /\ \A c \in DOMAIN candidates : c # j.candidate => candidates'[c] = candidates[c]
      BY <3>2, <3>4 DEF CandidateRow
    <3>6. /\ j.attempt <= MaxCandidateAttempts /\ j.candidate \notin AlwaysSlow
          /\ j.candidate \notin FailFirst \ failedOnce
      BY <2>3 DEF MatchCandidate, Attempting
    <3>7. j.attempt > 1 <=> j.candidate \in FailFirst
      BY <3>2, <3>6
    <3> QED
      BY <3>1, <3>3, <3>4, <3>5, <3>6, <3>7
  <2>4. CASE RejectCandidate(j)
    <3>1. \A k \in candidateJobs' :
            \/ k \in candidateJobs \ {j}
            \/ k.candidate = j.candidate /\ k.attempt = j.attempt /\ k.outcome = "REJECTED"
      BY <2>4, JobOnly DEF RejectCandidate, Conclude
    <3>2. /\ j.candidate \in DOMAIN candidates /\ candidates[j.candidate] \in CandidateRow
          /\ j.attempt \in Nat /\ j.outcome = "PENDING"
      BY <2>4 DEF RejectCandidate, Conclude, Attempting, CandidateReferences, CandidateJob
    <3>3. j.attempt \in 1..(MaxCandidateAttempts + 1) /\ MaxCandidateAttempts \in Nat \ {0}
      BY CandidateAssumption
    <3>4. /\ candidates' = [candidates EXCEPT ![j.candidate] =
               [candidates[j.candidate] EXCEPT !.status = "REJECTED", !.processed = TRUE,
                                               !.attempts = MaxCandidateAttempts]]
          /\ failedOnce' = failedOnce
      BY <2>4 DEF RejectCandidate, Conclude
    <3>5. /\ DOMAIN candidates' = DOMAIN candidates
          /\ candidates'[j.candidate].status = "REJECTED"
          /\ candidates'[j.candidate].attempts = MaxCandidateAttempts
          /\ \A c \in DOMAIN candidates : c # j.candidate => candidates'[c] = candidates[c]
      BY <3>2, <3>4 DEF CandidateRow
    <3> QED
      BY <3>1, <3>3, <3>4, <3>5
  <2>5. CASE SignalProcessed(j)
    BY <2>5 DEF SignalProcessed, Conclude
  <2> QED
    BY <1>7, <2>1, <2>2, <2>3, <2>4, <2>5 DEF CandidateJobStep
<1>8. ASSUME NEW j \in candidateJobs, CandidateJobDies(j) PROVE AttemptsCounted'
  BY <1>8 DEF CandidateJobDies
<1>9. CASE UNCHANGED vars
  BY <1>9 DEF vars, Running
<1> QED
  BY <1>1, <1>2, <1>3, <1>4, <1>5, <1>6, <1>7, <1>8, <1>9 DEF Next

\* An investment's row keeps its wallet, and a new one is some pipeline's.
LEMMA InvestmentsKept ==
  ASSUME Inductive, crashes' = 0, [Next]_vars
  PROVE  /\ \A i \in DOMAIN investments :
              /\ i \in DOMAIN investments'
              /\ investments'[i].wallet = investments[i].wallet
         /\ \A i \in DOMAIN investments' \ DOMAIN investments : \E w \in Workflows :
              walletId[w] = investments'[i].wallet /\ walletId[w] # NoId
<1>0. crashes = 0 /\ ~Crash
  BY FirstLife
<1>a. TableTypes /\ SequencesAreFresh /\ investmentSeq \in Nat /\ creationJobs \subseteq Nat
  BY <1>0 DEF Inductive, TypeOK, WorkerTypes
<1> USE DEF tables
<1>1. CASE UNCHANGED investments
  BY <1>1
<1>2. ASSUME NEW e \in executions, CreateInvestmentRow(e)
      PROVE  /\ DOMAIN investments' = DOMAIN investments \cup {investmentSeq + 1}
             /\ \A i \in DOMAIN investments : investments'[i] = investments[i]
             /\ investments'[investmentSeq + 1].wallet = walletId[e.wf]
             /\ e.wf \in Workflows /\ walletId[e.wf] # NoId
  <2>1. e.wf \in Workflows /\ walletId[e.wf] # NoId
    BY <1>2 DEF CreateInvestmentRow, Inductive, WalletReferences, TypeOK, WorkerTypes, Execution
  <2> QED
    BY <1>a, <1>2, <2>1
       DEF CreateInvestmentRow, Merge, NewInvestment, SequencesAreFresh, TableTypes
<1>3. ASSUME NEW k \in creationJobs, RunCreationJob(k)
      PROVE  /\ DOMAIN investments' = DOMAIN investments
             /\ \A i \in DOMAIN investments : investments'[i].wallet = investments[i].wallet
  BY <1>a, <1>3 DEF RunCreationJob, TableTypes, InvestmentRow
<1>4. ASSUME NEW w \in Workflows, ServerStep(w) PROVE UNCHANGED investments
  BY <1>4 DEF ServerStep, Start, PollActivity, ActivityTimesOut, ExecutionExpires,
     AwaitCompletes, AwaitTimesOut, MoveTo
<1>5. ASSUME NEW e \in executions, ActivityStep(e) \/ Return(e) \/ ActivityThrows(e)
      PROVE  UNCHANGED investments \/ CreateInvestmentRow(e)
  BY <1>5 DEF ActivityStep, CreateWalletRow, CreateCandidateRow,
     ScheduleInvestmentCreation, ScheduleCandidateProcessing, FanOutCandidates,
     FindWallet, SaveReady, SaveAborted, Return, ActivityThrows
<1>6. ASSUME NEW i \in creationJobs, CreationJobDies(i) PROVE UNCHANGED investments
  BY <1>6 DEF CreationJobDies
<1>7. ASSUME NEW j \in candidateJobs, CandidateJobStep(j) \/ CandidateJobDies(j)
      PROVE  UNCHANGED investments
  BY <1>7 DEF CandidateJobStep, SlowAttempt, FailedAttempt, MatchCandidate, RejectCandidate,
     Conclude, SignalProcessed, CandidateJobDies
<1>8. CASE UNCHANGED vars
  BY <1>1, <1>8 DEF vars
<1> QED
  BY <1>0, <1>1, <1>2, <1>3, <1>4, <1>5, <1>6, <1>7, <1>8 DEF Next

\* A pipeline keeps the investments of its wallet.
LEMMA OwnKept ==
  ASSUME Inductive, crashes' = 0, [Next]_vars, NEW w \in Workflows, walletId[w] # NoId
  PROVE  walletId'[w] = walletId[w] /\ Own(w) \subseteq Own(w)'
BY InvestmentsKept, ResultsStep DEF Own, TakenOnce

\* Investments are pipelines', and a complete result has them all.
LEMMA InvestmentsOwnedStep ==
  Inductive /\ Accountable /\ crashes' = 0 /\ [Next]_vars => InvestmentsOwned'
<1> SUFFICES ASSUME Inductive, Accountable, crashes' = 0, [Next]_vars
             PROVE  InvestmentsOwned'
  OBVIOUS
<1>0. crashes = 0 /\ ~Crash /\ InvestmentsOwned
  BY FirstLife DEF Accountable
<1>a. /\ step \in [Workflows -> Steps] /\ attempt \in [Workflows -> Nat]
      /\ started \in [Workflows -> BOOLEAN]
      /\ walletId \in [Workflows -> Nat] /\ investmentIds \in [Workflows -> SUBSET Nat]
      /\ \A e \in executions : e.wf \in Workflows /\ e.act \in Activities
      /\ \A e \in Investing : walletId[e.wf] # NoId
      /\ \A w \in Workflows : step[w] \in HasInvestments => walletId[w] # NoId
  BY DEF Inductive, TypeOK, ServerTypes, WorkerTypes, Execution, WalletReferences, Started,
     Investing, Running, HasInvestments, HasCandidates
<1>b. \A w \in Workflows : walletId[w] # NoId =>
        walletId'[w] = walletId[w] /\ Own(w) \subseteq Own(w)'
  BY OwnKept
<1>c. \A i \in DOMAIN investments' : \E w \in Workflows :
        walletId'[w] = investments'[i].wallet /\ walletId'[w] # NoId
  BY <1>0, <1>b, InvestmentsKept DEF InvestmentsOwned
<1> USE <1>0, <1>a, <1>b, <1>c DEF tables, seqs, jobs, progress, results, server, MoveTo,
       GoTo, InvestmentsOwned, Investing, HasInvestments, HasCandidates
<1>1. ASSUME NEW w \in Workflows, ServerStep(w) PROVE InvestmentsOwned'
  <2>0. UNCHANGED investmentIds
    BY <1>1 DEF ServerStep, Start, PollActivity, ActivityTimesOut, ExecutionExpires,
       AwaitCompletes, AwaitTimesOut
  <2>1. CASE PollActivity(w)
    <3> DEFINE new == [wf |-> w, act |-> step[w], attempt |-> attempt[w], ids |-> {},
                       seen |-> NoRow, done |-> FALSE]
    <3>1. new.wf = w /\ new.ids = {} /\ ~new.done
      OBVIOUS
    <3>2. executions' = executions \cup {new} /\ step' = step
      BY <2>1 DEF PollActivity
    <3> HIDE DEF new
    <3> QED
      BY <2>0, <3>1, <3>2 DEF Running
  <2>2. CASE ActivityTimesOut(w)
    <3>1. step' = step \/ step' = [step EXCEPT ![w] = "failed"]
      BY <2>2, LoseAttemptMoves DEF ActivityTimesOut
    <3>2. Running("createInvestments")' = Running("createInvestments")
      BY <2>2 DEF ActivityTimesOut, Running
    <3> QED
      BY <2>0, <3>1, <3>2 DEF Running
  <2>3. CASE Start(w) \/ ExecutionExpires(w) \/ AwaitCompletes(w)
             \/ AwaitTimesOut(w)
    BY <2>0, <2>3 DEF Start, ExecutionExpires, AwaitCompletes, AwaitTimesOut, Running
  <2> QED
    BY <1>1, <2>1, <2>2, <2>3 DEF ServerStep
<1>2. ASSUME NEW e \in executions, ActivityStep(e) PROVE InvestmentsOwned'
  <2>0. UNCHANGED <<step, walletId, investmentIds>>
    BY <1>2, StepKeepsPlace
  <2>1. CASE CreateInvestmentRow(e)
    <3>1. /\ e \in Running("createInvestments")
          /\ \A f \in executions' :
               \/ f \in executions \ {e}
               \/ /\ f.wf = e.wf /\ f.act = e.act
                  /\ f.ids = e.ids \cup {investmentSeq + 1} /\ ~f.done
      BY <2>1, AddOnly DEF CreateInvestmentRow, Running
    <3>2. investmentSeq + 1 \in Own(e.wf)'
      BY <2>0, <2>1 DEF CreateInvestmentRow, Merge, NewInvestment, Own
    <3> QED
      BY <2>0, <3>1, <3>2 DEF Running
  <2>2. CASE ScheduleInvestmentCreation(e)
    <3>1. /\ e \in Running("createInvestments") /\ Cardinality(e.ids) = NumInvestments
          /\ \A f \in executions' :
               \/ f \in executions \ {e}
               \/ f.wf = e.wf /\ f.act = e.act /\ f.ids = e.ids
      BY <2>2, FinishOnly DEF ScheduleInvestmentCreation, Running
    <3> QED
      BY <2>0, <3>1 DEF Running
  <2>3. CASE CreateWalletRow(e) \/ CreateCandidateRow(e)
             \/ ScheduleCandidateProcessing(e) \/ FanOutCandidates(e)
             \/ FindWallet(e) \/ SaveReady(e) \/ SaveAborted(e)
    <3>1. Running("createInvestments")' = Running("createInvestments")
      BY <2>3, OthersRun
         DEF CreateWalletRow, CreateCandidateRow, ScheduleCandidateProcessing,
             FanOutCandidates, FindWallet, SaveReady, SaveAborted, Add, Finish
    <3> QED
      BY <2>0, <3>1 DEF Running
  <2> QED
    BY <1>2, <2>1, <2>2, <2>3 DEF ActivityStep
<1>3. ASSUME NEW e \in executions, Return(e) PROVE InvestmentsOwned'
  <2>0. executions' = executions \ {e} /\ e.done
    BY <1>3 DEF Return
  <2>1. CASE ~Current(e)
    <3>1. UNCHANGED <<step, investmentIds>>
      BY <1>3, <2>1 DEF Return
    <3> QED
      BY <2>0, <3>1 DEF Running
  <2>2. CASE Current(e)
    <3>0. step' = [step EXCEPT ![e.wf] = NextStep[e.act]] /\ step[e.wf] = e.act
      BY <1>3, <2>2 DEF Return, Current
    <3>1. CASE e.act = "createInvestments"
      <4>1. investmentIds' = [investmentIds EXCEPT ![e.wf] = e.ids]
        BY <1>3, <2>2, <3>1 DEF Return
      <4>2. e.ids \subseteq Own(e.wf) /\ Cardinality(e.ids) = NumInvestments
        BY <2>0, <3>1 DEF Running
      <4>3. walletId[e.wf] # NoId
        BY <3>1 DEF Running
      <4> QED
        BY <2>0, <3>0, <4>1, <4>2, <4>3 DEF Running
    <3>2. CASE e.act # "createInvestments"
      <4>1. investmentIds' = investmentIds
        BY <1>3, <2>2, <3>2 DEF Return
      <4>2. step'[e.wf] \in HasInvestments => step[e.wf] \in HasInvestments
        BY <3>0, <3>2 DEF NextStep, Activities
      <4> QED
        BY <2>0, <3>0, <4>1, <4>2 DEF Running
    <3> QED
      BY <3>1, <3>2
  <2> QED
    BY <2>1, <2>2
<1>4. ASSUME NEW e \in executions, ActivityThrows(e) PROVE InvestmentsOwned'
  <2>1. /\ executions' = executions \ {e} /\ investmentIds' = investmentIds
        /\ step' = step \/ step' = [step EXCEPT ![e.wf] = "failed"]
    BY <1>4, LoseAttemptMoves DEF ActivityThrows
  <2> QED
    BY <2>1 DEF Running
<1>5. ASSUME NEW i \in creationJobs, RunCreationJob(i) \/ CreationJobDies(i)
      PROVE  InvestmentsOwned'
  <2>1. UNCHANGED <<step, investmentIds, executions>>
    BY <1>5 DEF RunCreationJob, CreationJobDies
  <2> QED
    BY <2>1 DEF Running
<1>6. ASSUME NEW j \in candidateJobs, CandidateJobStep(j) \/ CandidateJobDies(j)
      PROVE  InvestmentsOwned'
  <2>1. UNCHANGED <<step, investmentIds, executions>>
    BY <1>6 DEF CandidateJobStep, SlowAttempt, FailedAttempt, MatchCandidate,
       RejectCandidate, SignalProcessed, Conclude, CandidateJobDies
  <2> QED
    BY <2>1 DEF Running
<1>7. CASE UNCHANGED vars
  BY <1>7 DEF vars, Running
<1> QED
  BY <1>1, <1>2, <1>3, <1>4, <1>5, <1>6, <1>7 DEF Next

\* A candidate's row keeps its investment.
LEMMA CandidatesKept ==
  ASSUME Inductive, crashes' = 0, [Next]_vars, NEW c \in DOMAIN candidates
  PROVE  c \in DOMAIN candidates' /\ candidates'[c].investment = candidates[c].investment
<1>0. crashes = 0 /\ ~Crash
  BY FirstLife
<1>a. TableTypes /\ CandidateReferences /\ SequencesAreFresh
  BY <1>0 DEF Inductive, TypeOK
<1> USE DEF tables
<1>1. CASE UNCHANGED candidates
  BY <1>1
<1>2. ASSUME NEW e \in executions, CreateCandidateRow(e)
      PROVE  c \in DOMAIN candidates' /\ candidates'[c] = candidates[c]
  BY <1>a, <1>2 DEF CreateCandidateRow, Merge, SequencesAreFresh, TableTypes, Inductive, TypeOK,
     WorkerTypes
<1>3. ASSUME NEW j \in candidateJobs, NEW outcome, NEW attempts, Conclude(j, outcome, attempts)
      PROVE  c \in DOMAIN candidates' /\ candidates'[c].investment = candidates[c].investment
  BY <1>a, <1>3, Concluded DEF CandidateReferences
<1>4. ASSUME NEW j \in candidateJobs, FailedAttempt(j)
      PROVE  c \in DOMAIN candidates' /\ candidates'[c].investment = candidates[c].investment
  BY <1>a, <1>4 DEF FailedAttempt, TableTypes, CandidateRow
<1>5. ASSUME NEW w \in Workflows, ServerStep(w) PROVE UNCHANGED candidates
  BY <1>5 DEF ServerStep, Start, PollActivity, ActivityTimesOut, ExecutionExpires,
     AwaitCompletes, AwaitTimesOut, MoveTo
<1>6. ASSUME NEW e \in executions, ActivityStep(e) \/ Return(e) \/ ActivityThrows(e)
      PROVE  UNCHANGED candidates \/ CreateCandidateRow(e)
  BY <1>6 DEF ActivityStep, CreateWalletRow, CreateInvestmentRow,
     ScheduleInvestmentCreation, ScheduleCandidateProcessing, FanOutCandidates,
     FindWallet, SaveReady, SaveAborted, Return, ActivityThrows
<1>7. ASSUME NEW i \in creationJobs, RunCreationJob(i) \/ CreationJobDies(i)
      PROVE  UNCHANGED candidates
  BY <1>7 DEF RunCreationJob, CreationJobDies
<1>8. ASSUME NEW j \in candidateJobs, CandidateJobStep(j) \/ CandidateJobDies(j)
      PROVE  \/ UNCHANGED candidates \/ FailedAttempt(j)
             \/ \E outcome, attempts : Conclude(j, outcome, attempts)
  BY <1>8 DEF CandidateJobStep, SlowAttempt, MatchCandidate, RejectCandidate,
     SignalProcessed, CandidateJobDies
<1>9. CASE UNCHANGED vars
  BY <1>1, <1>9 DEF vars
<1> QED
  BY <1>0, <1>1, <1>2, <1>3, <1>4, <1>5, <1>6, <1>7, <1>8, <1>9 DEF Next

\* The result of createCandidates covers every investment.
LEMMA EachHasCandidateStep ==
  Inductive /\ Accountable /\ crashes' = 0 /\ [Next]_vars => EachHasCandidate'
<1> SUFFICES ASSUME Inductive, Accountable, crashes' = 0, [Next]_vars
             PROVE  EachHasCandidate'
  OBVIOUS
<1>0. crashes = 0 /\ ~Crash /\ EachHasCandidate
  BY FirstLife DEF Accountable
<1>a. /\ step \in [Workflows -> Steps] /\ attempt \in [Workflows -> Nat]
      /\ started \in [Workflows -> BOOLEAN]
      /\ walletId \in [Workflows -> Nat] /\ investmentIds \in [Workflows -> SUBSET Nat]
      /\ candidateIds \in [Workflows -> SUBSET Nat]
      /\ \A e \in executions : e.wf \in Workflows /\ e.act \in Activities
      /\ \A e \in Running("createCandidates") : e.ids \subseteq DOMAIN candidates
      /\ \A w \in Workflows : candidateIds[w] \subseteq DOMAIN candidates
  BY DEF Inductive, TypeOK, ServerTypes, WorkerTypes, Execution, CandidateReferences, Running
<1>b. \A c \in DOMAIN candidates :
        c \in DOMAIN candidates' /\ candidates'[c].investment = candidates[c].investment
  BY CandidatesKept
<1> USE <1>0, <1>a, <1>b DEF tables, seqs, jobs, progress, results, server, MoveTo, GoTo,
       EachHasCandidate, HasInvestments, HasCandidates, Uncovered
<1>1. ASSUME NEW w \in Workflows, ServerStep(w) PROVE EachHasCandidate'
  <2>0. UNCHANGED <<candidates, investmentIds, candidateIds>>
    BY <1>1 DEF ServerStep, Start, PollActivity, ActivityTimesOut, ExecutionExpires,
       AwaitCompletes, AwaitTimesOut
  <2>1. CASE PollActivity(w)
    <3> DEFINE new == [wf |-> w, act |-> step[w], attempt |-> attempt[w], ids |-> {},
                       seen |-> NoRow, done |-> FALSE]
    <3>1. new.wf = w /\ new.act = step[w] /\ ~new.done
      OBVIOUS
    <3>2. executions' = executions \cup {new} /\ step' = step
      BY <2>1 DEF PollActivity
    <3> HIDE DEF new
    <3> QED
      BY <2>0, <3>1, <3>2 DEF Running
  <2>2. CASE ActivityTimesOut(w)
    <3>1. step' = step \/ step' = [step EXCEPT ![w] = "failed"]
      BY <2>2, LoseAttemptMoves DEF ActivityTimesOut
    <3>2. Running("createCandidates")' = Running("createCandidates")
      BY <2>2 DEF ActivityTimesOut, Running
    <3> QED
      BY <2>0, <3>1, <3>2 DEF Running
  <2>3. CASE Start(w) \/ ExecutionExpires(w) \/ AwaitCompletes(w)
             \/ AwaitTimesOut(w)
    BY <2>0, <2>3 DEF Start, ExecutionExpires, AwaitCompletes, AwaitTimesOut, Running
  <2> QED
    BY <1>1, <2>1, <2>2, <2>3 DEF ServerStep
<1>2. ASSUME NEW e \in executions, ActivityStep(e) PROVE EachHasCandidate'
  <2>0. UNCHANGED <<step, investmentIds, candidateIds>>
    BY <1>2, StepKeepsPlace
  <2>1. \A w \in Workflows : step'[w] \in HasCandidates =>
          investmentIds'[w] \subseteq {candidates'[c].investment : c \in candidateIds'[w]}
    BY <2>0
  <2>2. CASE CreateCandidateRow(e)
    <3>1. /\ e \in Running("createCandidates")
          /\ \A f \in executions' :
               \/ f \in executions \ {e}
               \/ f.wf = e.wf /\ f.act = e.act /\ ~f.done
      BY <2>2, AddOnly DEF CreateCandidateRow, Running
    <3> QED
      BY <2>0, <2>1, <3>1 DEF Running
  <2>3. CASE ScheduleCandidateProcessing(e)
    <3>1. /\ e \in Running("createCandidates") /\ Uncovered(e) = {}
          /\ \A f \in executions' :
               \/ f \in executions \ {e}
               \/ f.wf = e.wf /\ f.act = e.act /\ f.ids = e.ids
      BY <2>3, FinishOnly DEF ScheduleCandidateProcessing, Running
    <3> QED
      BY <2>0, <2>1, <3>1 DEF Running
  <2>4. CASE CreateWalletRow(e) \/ CreateInvestmentRow(e)
             \/ ScheduleInvestmentCreation(e) \/ FanOutCandidates(e)
             \/ FindWallet(e) \/ SaveReady(e) \/ SaveAborted(e)
    <3>1. Running("createCandidates")' = Running("createCandidates")
      BY <2>4, OthersRun
         DEF CreateWalletRow, CreateInvestmentRow, ScheduleInvestmentCreation,
             FanOutCandidates, FindWallet, SaveReady, SaveAborted, Add, Finish
    <3> QED
      BY <2>0, <2>1, <3>1 DEF Running
  <2> QED
    BY <1>2, <2>2, <2>3, <2>4 DEF ActivityStep
<1>3. ASSUME NEW e \in executions, Return(e) PROVE EachHasCandidate'
  <2>0. executions' = executions \ {e} /\ candidates' = candidates /\ e.done
    BY <1>3 DEF Return
  <2>1. CASE ~Current(e)
    <3>1. UNCHANGED <<step, investmentIds, candidateIds>>
      BY <1>3, <2>1 DEF Return
    <3> QED
      BY <2>0, <3>1 DEF Running
  <2>2. CASE Current(e)
    <3>0. step' = [step EXCEPT ![e.wf] = NextStep[e.act]] /\ step[e.wf] = e.act
      BY <1>3, <2>2 DEF Return, Current
    <3>1. CASE e.act \in {"createWallet", "createInvestments"}
      <4>1. /\ \A v \in Workflows : v # e.wf => investmentIds'[v] = investmentIds[v]
            /\ candidateIds' = candidateIds
            /\ step'[e.wf] \in {"createInvestments", "createCandidates"}
        BY <1>3, <2>2, <3>0, <3>1 DEF Return, NextStep
      <4>2. \A f \in Running("createCandidates") : f.wf # e.wf
        BY <3>0, <3>1
      <4> QED
        BY <2>0, <3>0, <4>1, <4>2 DEF Running
    <3>2. CASE e.act = "createCandidates"
      <4>1. /\ candidateIds' = [candidateIds EXCEPT ![e.wf] = e.ids]
            /\ investmentIds' = investmentIds
            /\ step'[e.wf] = "fanOut"
        BY <1>3, <2>2, <3>0, <3>2 DEF Return, NextStep
      <4>2. Uncovered(e) = {}
        BY <2>0, <3>2 DEF Running
      <4>3. investmentIds[e.wf] \subseteq {candidates[c].investment : c \in e.ids}
        BY <4>2
      <4>4. ASSUME NEW v \in Workflows, step'[v] \in HasCandidates
            PROVE  investmentIds'[v] \subseteq {candidates'[c].investment : c \in candidateIds'[v]}
        <5>1. CASE v = e.wf
          <6>1. candidateIds'[v] = e.ids /\ investmentIds'[v] = investmentIds[e.wf]
            BY <4>1, <5>1
          <6> QED
            BY <2>0, <4>3, <6>1
        <5>2. CASE v # e.wf
          BY <2>0, <3>0, <4>1, <4>4, <5>2
        <5> QED
          BY <5>1, <5>2
      <4>5. \A f \in Running("createCandidates")' :
              /\ step'[f.wf] \in HasInvestments \cup {"failed", "expired"}
              /\ f.done => Uncovered(f)' = {}
        BY <2>0, <3>0, <4>1 DEF Running
      <4> QED
        BY <4>4, <4>5
    <3>3. CASE e.act \in {"fanOut", "finish", "abort"}
      <4>1. /\ UNCHANGED <<investmentIds, candidateIds>>
            /\ step[e.wf] \in HasCandidates /\ step'[e.wf] \in HasCandidates
        BY <1>3, <2>2, <3>0, <3>3 DEF Return, NextStep
      <4> QED
        BY <2>0, <3>0, <4>1 DEF Running
    <3> QED
      BY <3>1, <3>2, <3>3 DEF Activities
  <2> QED
    BY <2>1, <2>2
<1>4. ASSUME NEW e \in executions, ActivityThrows(e) PROVE EachHasCandidate'
  <2>1. /\ executions' = executions \ {e}
        /\ UNCHANGED <<candidates, investmentIds, candidateIds>>
        /\ step' = step \/ step' = [step EXCEPT ![e.wf] = "failed"]
    BY <1>4, LoseAttemptMoves DEF ActivityThrows
  <2> QED
    BY <2>1 DEF Running
<1>5. ASSUME NEW i \in creationJobs, RunCreationJob(i) \/ CreationJobDies(i)
      PROVE  EachHasCandidate'
  BY <1>5 DEF RunCreationJob, CreationJobDies, Running
<1>6. ASSUME NEW j \in candidateJobs, CandidateJobStep(j) \/ CandidateJobDies(j)
      PROVE  EachHasCandidate'
  <2>1. UNCHANGED <<step, investmentIds, candidateIds, executions>>
    BY <1>6 DEF CandidateJobStep, SlowAttempt, FailedAttempt, MatchCandidate,
       RejectCandidate, SignalProcessed, Conclude, CandidateJobDies
  <2> QED
    BY <2>1 DEF Running
<1>7. CASE UNCHANGED vars
  BY <1>7 DEF vars, Running
<1> QED
  BY <1>1, <1>2, <1>3, <1>4, <1>5, <1>6, <1>7 DEF Next

LEMMA InitAccountable == Init => Accountable
<1> SUFFICES ASSUME Init PROVE Accountable
  OBVIOUS
<1> USE DEF Init, Running
<1>1. WalletsApart /\ InvestmentsApart /\ CandidatesApart
  BY DEF WalletsApart, InvestmentsApart, CandidatesApart, NoId
<1>2. DecidersAgree /\ DecidersKnow
  BY DEF DecidersAgree, DecidersKnow
<1>3. WalletsDecided
  BY DEF WalletsDecided, NoId
<1>4. CandidatesReported
  BY DEF CandidatesReported
<1>5. AttemptsCounted
  BY DEF AttemptsCounted
<1>6. InvestmentsOwned /\ EachHasCandidate
  BY DEF InvestmentsOwned, EachHasCandidate, Investing, HasInvestments, HasCandidates
<1> QED
  BY <1>1, <1>2, <1>3, <1>4, <1>5, <1>6 DEF Accountable

\* Once the worker has restarted there is nothing to keep.
LEMMA NextAccountable == Inductive /\ Accountable /\ [Next]_vars => Accountable'
<1> SUFFICES ASSUME Inductive, Accountable, [Next]_vars, crashes' = 0
             PROVE  Accountable'
  BY DEF Accountable
<1> QED
  BY WalletsApartStep, InvestmentsApartStep, CandidatesApartStep, DecidersAgreeStep,
     WalletsDecidedStep, DecidersKnowStep, CandidatesReportedStep, AttemptsCountedStep,
     InvestmentsOwnedStep, EachHasCandidateStep
     DEF Accountable

\* Accountable holds in every state: within the first life of the process every
\* row has one writer at a time and says what its pipeline and its job say.
THEOREM AccountableInvariance == Spec => []Accountable
<1>1. Inductive /\ Accountable /\ [Next]_vars => Accountable'
  BY NextAccountable
<1> QED
  BY InductiveInvariance, InitAccountable, <1>1, PTL DEF Spec

\* The references and the writers of SampleWallet are sound.
THEOREM SoundInvariance == Spec => []Sound
BY InductiveInvariance, AccountableInvariance, PTL DEF Sound

\* What a workflow was told of a candidate is what the candidate's row says.
THEOREM SignalsAreTrueHolds == Spec => []SignalsAreTrue
<1>1. Inductive /\ Accountable => SignalsAreTrue
  BY DEF Inductive, Accountable, ProcessedIsTrue, CandidatesReported, SignalsAreTrue
<1> QED
  BY InductiveInvariance, AccountableInvariance, <1>1, PTL

\* The result of create() and the status of the wallet row agree.
THEOREM ResultMatchesWalletHolds == Spec => []ResultMatchesWallet
<1>1. Accountable => ResultMatchesWallet
  BY DEF Accountable, WalletsDecided, ResultMatchesWallet
<1> QED
  BY AccountableInvariance, <1>1, PTL

\* Pipelines share no row, and a wallet is its investor's.
THEOREM PipelinesAreApartHolds == Spec => []PipelinesAreApart
<1>1. Accountable => PipelinesAreApart
  BY DEF Accountable, WalletsApart, InvestmentsApart, CandidatesApart, WalletsDecided,
     PipelinesAreApart
<1> QED
  BY AccountableInvariance, <1>1, PTL

\* The attempts a candidate's row counts are those the policy allows and causes.
THEOREM RetriesAreCountedHolds == Spec => []RetriesAreCounted
<1>1. Accountable => RetriesAreCounted
  BY DEF Accountable, AttemptsCounted, RetriesAreCounted
<1> QED
  BY AccountableInvariance, <1>1, PTL


\* Within the first life of the process a decided row is never changed.
LEMMA DecisionStep ==
  ASSUME Inductive, Accountable, crashes' = 0, [Next]_vars,
         NEW id \in DOMAIN wallets, wallets[id].status # "CREATING"
  PROVE  wallets'[id] = wallets[id]
<1>0. crashes = 0 /\ ~Crash
  BY FirstLife
<1> USE <1>0 DEF tables, server
<1>1. ASSUME NEW w \in Workflows, ServerStep(w) PROVE wallets' = wallets
  BY <1>1 DEF ServerStep, Start, PollActivity, ActivityTimesOut, ExecutionExpires,
     AwaitCompletes, AwaitTimesOut, MoveTo
<1>2. ASSUME NEW e \in executions, ActivityStep(e) PROVE wallets'[id] = wallets[id]
  <2>1. CASE CreateWalletRow(e)
    BY <2>1 DEF CreateWalletRow, Merge, Inductive, SequencesAreFresh, TypeOK, WorkerTypes,
       TableTypes
  <2>2. CASE SaveReady(e) \/ SaveAborted(e)
    <3>1. /\ e \in Running("finish") \cup Running("abort")
          /\ e.act = "finish" <=> SaveReady(e)
          /\ e.wf \in Workflows /\ walletId[e.wf] # NoId
          /\ walletId[e.wf] \in DOMAIN wallets
      BY <2>2 DEF SaveReady, SaveAborted, Running, Inductive, WalletReferences, TypeOK,
         WorkerTypes, Execution
    <3>2. CASE id # walletId[e.wf]
      BY <2>2, <3>2 DEF SaveReady, SaveAborted, Merge
    <3>3. CASE id = walletId[e.wf]
      <4> DEFINE decided == IF e.act = "finish" THEN "READY" ELSE "ABORTED"
      <4>1. e.seen.investor = InvestorOf[e.wf] /\ e.seen \in WalletRow
        BY <2>2, <3>1 DEF SaveReady, SaveAborted, Accountable, DecidersKnow, Inductive,
           TypeOK, WorkerTypes, Execution
      <4>2. /\ wallets[id].investor = InvestorOf[e.wf] /\ wallets[id] \in WalletRow
            /\ wallets[id].status = decided
        BY <3>1, <3>3 DEF Accountable, WalletsDecided, Running, Inductive, TypeOK,
           TableTypes, WalletRow, WalletStatus
      <4>3. /\ e.act # "finish" => e.seen.status # "READY"
            /\ wallets'[id] = [e.seen EXCEPT !.status = decided]
        BY <2>2, <3>1, <3>3 DEF SaveReady, SaveAborted, Merge, Accountable, DecidersKnow,
           Running
      <4>4. [e.seen EXCEPT !.status = decided] = wallets[id]
        BY <4>1, <4>2 DEF WalletRow
      <4> QED
        BY <4>3, <4>4
    <3> QED
      BY <3>2, <3>3
  <2>3. CASE CreateInvestmentRow(e) \/ ScheduleInvestmentCreation(e)
             \/ CreateCandidateRow(e) \/ ScheduleCandidateProcessing(e)
             \/ FanOutCandidates(e) \/ FindWallet(e)
    BY <2>3 DEF CreateInvestmentRow, ScheduleInvestmentCreation, CreateCandidateRow,
       ScheduleCandidateProcessing, FanOutCandidates, FindWallet
  <2> QED
    BY <1>2, <2>1, <2>2, <2>3 DEF ActivityStep
<1>3. ASSUME NEW e \in executions, Return(e) \/ ActivityThrows(e) PROVE wallets' = wallets
  BY <1>3 DEF Return, ActivityThrows
<1>4. ASSUME NEW i \in creationJobs, RunCreationJob(i) \/ CreationJobDies(i)
      PROVE  wallets' = wallets
  BY <1>4 DEF RunCreationJob, CreationJobDies
<1>5. ASSUME NEW j \in candidateJobs, CandidateJobStep(j) \/ CandidateJobDies(j)
      PROVE  wallets' = wallets
  BY <1>5 DEF CandidateJobStep, SlowAttempt, FailedAttempt, MatchCandidate,
     RejectCandidate, Conclude, SignalProcessed, CandidateJobDies
<1>6. CASE UNCHANGED vars
  BY <1>6 DEF vars
<1> QED
  BY <1>1, <1>2, <1>3, <1>4, <1>5, <1>6 DEF Next

\* READY and ABORTED are final, whichever attempts still run.
THEOREM DecisionIsFinalHolds == Spec => DecisionIsFinal
<1>1. ASSUME Inductive, Accountable, [Next]_vars
      PROVE  [crashes' = 0 => \A id \in DOMAIN wallets :
                wallets[id].status # "CREATING" => wallets'[id] = wallets[id]]_vars
  BY <1>1, DecisionStep
<1> QED
  BY InductiveInvariance, AccountableInvariance, <1>1, PTL DEF Spec, DecisionIsFinal

\* Of an execution that goes on, one record with the same attempt is left.
LEMMA GoesOn ==
  ASSUME NEW e \in executions, NEW ids, NEW seen, NEW done, Advance(e, ids, seen, done)
  PROVE  /\ \A f \in executions' :
              \/ f \in executions \ {e}
              \/ f.wf = e.wf /\ f.act = e.act /\ f.attempt = e.attempt
         /\ \A f, g \in executions' :
              f # g => f \in executions \ {e} \/ g \in executions \ {e}
         /\ executions \ {e} \subseteq executions'
         /\ \E f \in executions' : f.wf = e.wf /\ f.act = e.act
<1> DEFINE next == [wf |-> e.wf, act |-> e.act, attempt |-> e.attempt, ids |-> ids,
                    seen |-> seen, done |-> done]
<1>1. executions' = (executions \ {e}) \cup {next}
  BY DEF Advance
<1>2. next.wf = e.wf /\ next.act = e.act /\ next.attempt = e.attempt
  OBVIOUS
<1> HIDE DEF next
<1>3. QED
  BY <1>1, <1>2

\* Where a failed attempt is not tried again, losing it closes the workflow.
LEMMA LostForGood ==
  ASSUME MaxActivityAttempts = 1, Inductive, NEW w \in Workflows, attempt[w] = 1,
         LoseAttempt(w)
  PROVE  step' = [step EXCEPT ![w] = "failed"] /\ attempt' = [attempt EXCEPT ![w] = 1]
BY DEF LoseAttempt, GoTo

\* The attempt of createInvestments the server waits for is there: its time is
\* up only by a fault, and then it is not tried again.
LEMMA NotTriedAgain ==
  ASSUME Inductive, OneAttempt, TriedOnce, NEW w \in Workflows, ActivityTimesOut(w),
         step[w] = "createInvestments"
  PROVE  step' = [step EXCEPT ![w] = "failed"] /\ attempt' = [attempt EXCEPT ![w] = 1]
<1>1. PICK e \in executions : e.wf = w /\ e.act = "createInvestments" /\ e.attempt = 1
  BY DEF ActivityTimesOut, OneAttempt, Investing, Running
<1>2. Current(e) /\ attempt[w] = 1
  BY <1>1 DEF Current, OneAttempt
<1>3. MaxActivityAttempts = 1
  BY <1>1, <1>2 DEF ActivityTimesOut, TriedOnce
<1> QED
  BY <1>2, <1>3, LostForGood DEF ActivityTimesOut

\* A pipeline has one attempt of createInvestments at most.
LEMMA OneAttemptStep ==
  Inductive /\ InvestedOnce /\ TriedOnce /\ crashes' = 0 /\ [Next]_vars => OneAttempt'
<1> SUFFICES ASSUME Inductive, InvestedOnce, TriedOnce, crashes' = 0, [Next]_vars
             PROVE  OneAttempt'
  OBVIOUS
<1>0. crashes = 0 /\ ~Crash /\ OneAttempt
  BY FirstLife DEF InvestedOnce
<1>a. /\ step \in [Workflows -> Steps] /\ attempt \in [Workflows -> Nat]
      /\ started \in [Workflows -> BOOLEAN]
      /\ \A e \in executions : e.wf \in Workflows /\ e.act \in Activities
  BY DEF Inductive, TypeOK, ServerTypes, WorkerTypes, Execution
<1> USE <1>0, <1>a DEF tables, seqs, jobs, progress, results, server, MoveTo, GoTo,
       OneAttempt, Investing
<1>1. ASSUME NEW w \in Workflows, ServerStep(w) PROVE OneAttempt'
  <2>1. CASE PollActivity(w)
    <3> DEFINE new == [wf |-> w, act |-> step[w], attempt |-> attempt[w], ids |-> {},
                       seen |-> NoRow, done |-> FALSE]
    <3>1. new.wf = w /\ new.act = step[w] /\ new.attempt = attempt[w]
      OBVIOUS
    <3>2. /\ executions' = executions \cup {new} /\ ~started[w]
          /\ started' = [started EXCEPT ![w] = TRUE]
          /\ step' = step /\ attempt' = attempt
      BY <2>1 DEF PollActivity
    <3> HIDE DEF new
    <3>3. CASE step[w] = "createInvestments"
      <4>1. Running("createInvestments")' = Running("createInvestments") \cup {new}
        BY <3>1, <3>2, <3>3 DEF Running
      <4>2. \A f \in Running("createInvestments") : f.wf # w
        BY <3>2, <3>3
      <4> QED
        BY <3>1, <3>2, <3>3, <4>1, <4>2
    <3>4. CASE step[w] # "createInvestments"
      <4>1. Running("createInvestments")' = Running("createInvestments")
        BY <3>1, <3>2, <3>4 DEF Running
      <4> QED
        BY <3>2, <3>4, <4>1
    <3> QED
      BY <3>3, <3>4
  <2>2. CASE ActivityTimesOut(w)
    <3>1. Running("createInvestments")' = Running("createInvestments")
      BY <2>2 DEF ActivityTimesOut, Running
    <3>2. CASE step[w] = "createInvestments"
      <4>1. step' = [step EXCEPT ![w] = "failed"] /\ attempt' = [attempt EXCEPT ![w] = 1]
        BY <2>2, <3>2, NotTriedAgain
      <4>2. \A v \in Workflows : v # w => started'[v] = started[v]
        BY <2>2 DEF ActivityTimesOut, LoseAttempt
      <4> QED
        BY <3>1, <4>1, <4>2 DEF Running
    <3>3. CASE step[w] # "createInvestments"
      <4>1. /\ step'[w] # "createInvestments"
            /\ step'[w] = step[w] \/ step'[w] = "failed"
            /\ \A v \in Workflows : v # w =>
                 step'[v] = step[v] /\ attempt'[v] = attempt[v] /\ started'[v] = started[v]
        BY <2>2, <3>3 DEF ActivityTimesOut, LoseAttempt
      <4> QED
        BY <3>1, <3>3, <4>1 DEF Running
    <3> QED
      BY <3>2, <3>3
  <2>3. CASE Start(w) \/ ExecutionExpires(w) \/ AwaitCompletes(w)
             \/ AwaitTimesOut(w)
    BY <2>3 DEF Start, ExecutionExpires, AwaitCompletes, AwaitTimesOut, Running
  <2> QED
    BY <1>1, <2>1, <2>2, <2>3 DEF ServerStep
<1>2. ASSUME NEW e \in executions, ActivityStep(e) PROVE OneAttempt'
  <2>1. PICK ids, seen, done : Advance(e, ids, seen, done)
    BY <1>2 DEF ActivityStep, CreateWalletRow, CreateInvestmentRow, ScheduleInvestmentCreation,
       CreateCandidateRow, ScheduleCandidateProcessing, FanOutCandidates, FindWallet,
       SaveReady, SaveAborted, Add, Finish
  <2>2. UNCHANGED <<step, attempt, started>>
    BY <1>2, StepKeepsPlace
  <2>3. CASE e.act # "createInvestments"
    <3>1. Running("createInvestments")' = Running("createInvestments")
      BY <2>1, <2>3, OthersRun
    <3> QED
      BY <2>2, <3>1
  <2>4. CASE e.act = "createInvestments"
    <3>1. /\ \A f \in executions' :
               \/ f \in executions \ {e}
               \/ f.wf = e.wf /\ f.act = e.act /\ f.attempt = e.attempt
          /\ \A f, g \in executions' :
               f # g => f \in executions \ {e} \/ g \in executions \ {e}
          /\ executions \ {e} \subseteq executions'
          /\ \E f \in executions' : f.wf = e.wf /\ f.act = e.act
      BY <2>1, GoesOn
    <3>2. e \in Running("createInvestments")
      BY <2>4 DEF Running
    <3> QED
      BY <2>2, <2>4, <3>1, <3>2 DEF Running
  <2> QED
    BY <2>3, <2>4
<1>3. ASSUME NEW e \in executions, Return(e) PROVE OneAttempt'
  <2>1. executions' = executions \ {e}
    BY <1>3 DEF Return
  <2>2. CASE ~Current(e)
    <3>1. UNCHANGED <<step, attempt, started>>
      BY <1>3, <2>2 DEF Return
    <3>2. ~(e.act = "createInvestments" /\ step[e.wf] = "createInvestments")
      BY <2>2 DEF Current, Running
    <3> QED
      BY <2>1, <3>1, <3>2 DEF Running
  <2>3. CASE Current(e)
    <3>1. /\ step' = [step EXCEPT ![e.wf] = NextStep[e.act]]
          /\ attempt' = [attempt EXCEPT ![e.wf] = 1]
          /\ started' = [started EXCEPT ![e.wf] = FALSE]
          /\ step[e.wf] = e.act
      BY <1>3, <2>3 DEF Return, Current
    <3>2. \A f \in Running("createInvestments") : f.wf = e.wf => f = e
      BY <3>1 DEF Running, Activities
    <3> QED
      BY <2>1, <3>1, <3>2 DEF Running
  <2> QED
    BY <2>2, <2>3
<1>4. ASSUME NEW e \in executions, ActivityThrows(e) PROVE OneAttempt'
  <2>1. executions' = executions \ {e} /\ MaxActivityAttempts = 1
    BY <1>4 DEF ActivityThrows, TriedOnce
  <2>2. CASE ~Current(e)
    <3>1. UNCHANGED <<step, attempt, started>>
      BY <1>4, <2>2 DEF ActivityThrows
    <3>2. ~(e.act = "createInvestments" /\ step[e.wf] = "createInvestments")
      BY <2>2 DEF Current, Running
    <3> QED
      BY <2>1, <3>1, <3>2 DEF Running
  <2>3. CASE Current(e)
    <3>1. LoseAttempt(e.wf) /\ step[e.wf] = e.act
      BY <1>4, <2>3 DEF ActivityThrows, Current
    <3>2. CASE e.act = "createInvestments"
      <4>1. step' = [step EXCEPT ![e.wf] = "failed"] /\ attempt' = [attempt EXCEPT ![e.wf] = 1]
        BY <2>1, <3>1, <3>2, LostForGood
      <4>2. \A v \in Workflows : v # e.wf => started'[v] = started[v]
        BY <3>1 DEF LoseAttempt
      <4> QED
        BY <2>1, <4>1, <4>2 DEF Running
    <3>3. CASE e.act # "createInvestments"
      <4>1. /\ step'[e.wf] # "createInvestments"
            /\ step'[e.wf] = step[e.wf] \/ step'[e.wf] = "failed"
            /\ \A v \in Workflows : v # e.wf =>
                 step'[v] = step[v] /\ attempt'[v] = attempt[v] /\ started'[v] = started[v]
        BY <3>1, <3>3 DEF LoseAttempt
      <4>2. Running("createInvestments")' = Running("createInvestments")
        BY <2>1, <3>3 DEF Running
      <4> QED
        BY <3>1, <3>3, <4>1, <4>2 DEF Running
    <3> QED
      BY <3>2, <3>3
  <2> QED
    BY <2>2, <2>3
<1>5. ASSUME NEW i \in creationJobs, RunCreationJob(i) \/ CreationJobDies(i)
      PROVE  OneAttempt'
  BY <1>5 DEF RunCreationJob, CreationJobDies, Running
<1>6. ASSUME NEW j \in candidateJobs, CandidateJobStep(j) \/ CandidateJobDies(j)
      PROVE  OneAttempt'
  BY <1>6 DEF CandidateJobStep, SlowAttempt, FailedAttempt, MatchCandidate,
     RejectCandidate, SignalProcessed, Conclude, CandidateJobDies, Running
<1>7. CASE UNCHANGED vars
  BY <1>7 DEF vars, Running
<1> QED
  BY <1>1, <1>2, <1>3, <1>4, <1>5, <1>6, <1>7 DEF Next

\* The steps that touch no investment leave every pipeline what it has.
LEMMA SameOwn ==
  ASSUME UNCHANGED walletId, DOMAIN investments' = DOMAIN investments,
         \A i \in DOMAIN investments : investments'[i].wallet = investments[i].wallet
  PROVE  \A w : Own(w)' = Own(w)
BY DEF Own

\* Where createInvestments is tried once, a wallet has no other investments.
LEMMA NoOtherInvestmentsStep ==
  Inductive /\ Accountable /\ InvestedOnce /\ TriedOnce /\ crashes' = 0 /\ [Next]_vars
    => NoOtherInvestments'
<1> SUFFICES ASSUME Inductive, Accountable, InvestedOnce, TriedOnce, crashes' = 0, [Next]_vars
             PROVE  NoOtherInvestments'
  OBVIOUS
<1>0. crashes = 0 /\ ~Crash /\ OneAttempt /\ NoOtherInvestments
  BY FirstLife DEF InvestedOnce
<1>a. /\ step \in [Workflows -> Steps] /\ attempt \in [Workflows -> Nat]
      /\ started \in [Workflows -> BOOLEAN]
      /\ walletId \in [Workflows -> Nat] /\ investmentIds \in [Workflows -> SUBSET Nat]
      /\ \A e \in executions : e.wf \in Workflows /\ e.act \in Activities
  BY DEF Inductive, TypeOK, ServerTypes, WorkerTypes, Execution
<1> USE <1>0, <1>a DEF tables, seqs, jobs, progress, results, server, MoveTo, GoTo,
       NoOtherInvestments, Investing, HasInvestments, HasCandidates
<1>1. ASSUME NEW w \in Workflows, ServerStep(w) PROVE NoOtherInvestments'
  <2>0. UNCHANGED <<investments, walletId, investmentIds>>
    BY <1>1 DEF ServerStep, Start, PollActivity, ActivityTimesOut, ExecutionExpires,
       AwaitCompletes, AwaitTimesOut
  <2>a. \A v : Own(v)' = Own(v)
    BY <2>0, SameOwn
  <2>1. CASE PollActivity(w)
    <3> DEFINE new == [wf |-> w, act |-> step[w], attempt |-> attempt[w], ids |-> {},
                       seen |-> NoRow, done |-> FALSE]
    <3>1. new.wf = w /\ new.act = step[w] /\ new.ids = {} /\ ~new.done
      OBVIOUS
    <3>2. /\ executions' = executions \cup {new} /\ ~started[w]
          /\ started' = [started EXCEPT ![w] = TRUE] /\ step' = step
      BY <2>1 DEF PollActivity
    <3> HIDE DEF new
    <3> QED
      BY <2>0, <2>a, <3>1, <3>2 DEF Running
  <2>2. CASE ActivityTimesOut(w)
    <3>1. Running("createInvestments")' = Running("createInvestments")
      BY <2>2 DEF ActivityTimesOut, Running
    <3>2. /\ step'[w] = step[w] \/ step'[w] = "failed"
          /\ step'[w] # "createInvestments"
          /\ \A v \in Workflows : v # w => step'[v] = step[v] /\ started'[v] = started[v]
      BY <2>2, NotTriedAgain DEF ActivityTimesOut, LoseAttempt
    <3> QED
      BY <2>0, <2>a, <3>1, <3>2
  <2>3. CASE Start(w) \/ ExecutionExpires(w) \/ AwaitCompletes(w)
             \/ AwaitTimesOut(w)
    BY <2>0, <2>a, <2>3
       DEF Start, ExecutionExpires, AwaitCompletes, AwaitTimesOut, Running
  <2> QED
    BY <1>1, <2>1, <2>2, <2>3 DEF ServerStep
<1>2. ASSUME NEW e \in executions, ActivityStep(e) PROVE NoOtherInvestments'
  <2>0. UNCHANGED <<step, started, walletId, investmentIds>>
    BY <1>2, StepKeepsPlace
  <2>1. CASE CreateInvestmentRow(e)
    <3> DEFINE id == investmentSeq + 1
    <3>1. /\ e \in Running("createInvestments") /\ e.wf \in Workflows
          /\ walletId[e.wf] # NoId
      BY <2>1 DEF CreateInvestmentRow, Running, Inductive, WalletReferences
    <3>2. /\ id \notin DOMAIN investments
          /\ DOMAIN investments' = DOMAIN investments \cup {id}
          /\ investments'[id].wallet = walletId[e.wf]
          /\ \A i \in DOMAIN investments : investments'[i] = investments[i]
      BY <2>1 DEF CreateInvestmentRow, Merge, NewInvestment, Inductive, SequencesAreFresh,
         TypeOK, WorkerTypes, TableTypes
    <3>3. \A v \in Workflows : v # e.wf => walletId[v] # walletId[e.wf]
      BY <3>1 DEF Accountable, WalletsApart
    <3>4. Add(e, id)
      BY <2>1 DEF CreateInvestmentRow
    <3> HIDE DEF id
    <3>5. /\ Own(e.wf)' = Own(e.wf) \cup {id}
          /\ \A v \in Workflows : v # e.wf => Own(v)' = Own(v)
      BY <2>0, <3>1, <3>2, <3>3 DEF Own
    <3>6. \A f \in executions' :
            \/ f \in executions \ {e}
            \/ f.wf = e.wf /\ f.act = e.act /\ f.ids = e.ids \cup {id} /\ ~f.done
      BY <3>4, AddOnly
    <3>7. /\ step[e.wf] \notin HasInvestments
          /\ step[e.wf] = "createInvestments" => started[e.wf]
          /\ \A f \in Running("createInvestments") : f.wf = e.wf => f = e
      BY <3>1 DEF OneAttempt
    <3>8. \A f \in Running("createInvestments")' :
            Own(f.wf)' = f.ids
      BY <3>1, <3>5, <3>6, <3>7 DEF Running
    <3> QED
      BY <2>0, <3>5, <3>7, <3>8
  <2>2. CASE ScheduleInvestmentCreation(e)
    <3>1. \A v : Own(v)' = Own(v)
      BY <2>0, <2>2, SameOwn DEF ScheduleInvestmentCreation
    <3>2. /\ Finish(e, e.ids)
          /\ investments' = investments /\ e \in Running("createInvestments")
      BY <2>2 DEF ScheduleInvestmentCreation, Running
    <3>3. \A f \in executions' :
            \/ f \in executions \ {e}
            \/ f.wf = e.wf /\ f.act = e.act /\ f.ids = e.ids
      BY <3>2, FinishOnly
    <3> QED
      BY <2>0, <3>1, <3>2, <3>3 DEF Running
  <2>3. CASE CreateWalletRow(e) \/ CreateCandidateRow(e)
             \/ ScheduleCandidateProcessing(e) \/ FanOutCandidates(e)
             \/ FindWallet(e) \/ SaveReady(e) \/ SaveAborted(e)
    <3>1. Running("createInvestments")' = Running("createInvestments")
      BY <2>3, OthersRun
         DEF CreateWalletRow, CreateCandidateRow, ScheduleCandidateProcessing,
             FanOutCandidates, FindWallet, SaveReady, SaveAborted, Add, Finish
    <3>2. investments' = investments
      BY <2>3 DEF CreateWalletRow, CreateCandidateRow, ScheduleCandidateProcessing,
         FanOutCandidates, FindWallet, SaveReady, SaveAborted
    <3>3. \A v : Own(v)' = Own(v)
      BY <2>0, <3>2, SameOwn
    <3> QED
      BY <2>0, <3>1, <3>2, <3>3
  <2> QED
    BY <1>2, <2>1, <2>2, <2>3 DEF ActivityStep
<1>3. ASSUME NEW e \in executions, Return(e) PROVE NoOtherInvestments'
  <2>0. executions' = executions \ {e} /\ investments' = investments /\ e.done
    BY <1>3 DEF Return
  <2>1. CASE ~Current(e)
    <3>1. UNCHANGED <<step, started, walletId, investmentIds>>
      BY <1>3, <2>1 DEF Return
    <3>2. \A v : Own(v)' = Own(v)
      BY <2>0, <3>1, SameOwn
    <3> QED
      BY <2>0, <3>1, <3>2 DEF Running
  <2>2. CASE Current(e)
    <3>0. /\ step' = [step EXCEPT ![e.wf] = NextStep[e.act]]
          /\ started' = [started EXCEPT ![e.wf] = FALSE]
          /\ step[e.wf] = e.act
      BY <1>3, <2>2 DEF Return, Current
    <3>1. CASE e.act = "createWallet"
      <4>1. PICK id \in e.ids : walletId' = [walletId EXCEPT ![e.wf] = id]
        <5>1. e.ids # {}
          BY <2>0, <3>1 DEF Inductive, WalletReferences
        <5> QED
          BY <1>3, <2>2, <3>1, <5>1 DEF Return
      <4>2. id \notin {walletId[v] : v \in Workflows} /\ walletId[e.wf] = NoId
        BY <3>0, <3>1 DEF Accountable, WalletsApart, Running, Inductive, ResultsAreOrdered
      <4>3. id # NoId
        BY <3>1 DEF Inductive, WalletReferences
      <4>4. \A i \in DOMAIN investments : investments[i].wallet \in {walletId[v] : v \in Workflows}
        BY DEF Accountable, InvestmentsOwned
      <4>5. Own(e.wf)' = {} /\ \A v \in Workflows : v # e.wf => Own(v)' = Own(v)
        BY <2>0, <4>1, <4>2, <4>4 DEF Own
      <4>6. step'[e.wf] = "createInvestments" /\ investmentIds' = investmentIds
        BY <1>3, <2>2, <3>0, <3>1 DEF Return, NextStep
      <4>7. \A f \in Running("createInvestments") : f.wf # e.wf
        BY <3>0, <3>1 DEF OneAttempt
      <4>8. \A f \in Running("createInvestments")' :
              Own(f.wf)' = f.ids
        BY <2>0, <4>5, <4>7 DEF Running
      <4> QED
        BY <3>0, <4>5, <4>6, <4>8
    <3>2. CASE e.act = "createInvestments"
      <4>1. walletId' = walletId /\ investmentIds' = [investmentIds EXCEPT ![e.wf] = e.ids]
        BY <1>3, <2>2, <3>2 DEF Return
      <4>2. \A v : Own(v)' = Own(v)
        BY <2>0, <4>1, SameOwn
      <4>3. step'[e.wf] = "createCandidates"
        BY <3>0, <3>2 DEF NextStep
      <4>4. Own(e.wf) = e.ids
        BY <2>0, <3>2 DEF Running
      <4> QED
        BY <2>0, <3>0, <4>1, <4>2, <4>3, <4>4 DEF Running
    <3>3. CASE e.act \notin {"createWallet", "createInvestments"}
      <4>1. UNCHANGED <<walletId, investmentIds>>
        BY <1>3, <2>2, <3>3 DEF Return
      <4>2. \A v : Own(v)' = Own(v)
        BY <2>0, <4>1, SameOwn
      <4>3. step[e.wf] \in HasInvestments /\ step'[e.wf] # "createInvestments"
        BY <3>0, <3>3 DEF NextStep, Activities
      <4> QED
        BY <2>0, <3>0, <4>1, <4>2, <4>3 DEF Running
    <3> QED
      BY <3>1, <3>2, <3>3
  <2> QED
    BY <2>1, <2>2
<1>4. ASSUME NEW e \in executions, ActivityThrows(e) PROVE NoOtherInvestments'
  <2>0. /\ executions' = executions \ {e} /\ MaxActivityAttempts = 1
        /\ UNCHANGED <<investments, walletId, investmentIds>>
    BY <1>4 DEF ActivityThrows, TriedOnce
  <2>a. \A v : Own(v)' = Own(v)
    BY <2>0, SameOwn
  <2>1. CASE ~Current(e)
    <3>1. UNCHANGED <<step, started>>
      BY <1>4, <2>1 DEF ActivityThrows
    <3> QED
      BY <2>0, <2>a, <3>1 DEF Running
  <2>2. CASE Current(e)
    <3>1. LoseAttempt(e.wf) /\ step[e.wf] = e.act
      BY <1>4, <2>2 DEF ActivityThrows, Current
    <3>2. step[e.wf] = "createInvestments" => step'[e.wf] = "failed"
      BY <2>0, <3>1, LostForGood DEF OneAttempt
    <3>3. /\ step'[e.wf] = step[e.wf] \/ step'[e.wf] = "failed"
          /\ \A v \in Workflows : v # e.wf => step'[v] = step[v] /\ started'[v] = started[v]
      BY <3>1 DEF LoseAttempt
    <3> QED
      BY <2>0, <2>a, <3>2, <3>3 DEF Running
  <2> QED
    BY <2>1, <2>2
<1>5. ASSUME NEW i \in creationJobs, RunCreationJob(i) \/ CreationJobDies(i)
      PROVE  NoOtherInvestments'
  <2>1. /\ DOMAIN investments' = DOMAIN investments
        /\ \A k \in DOMAIN investments : investments'[k].wallet = investments[k].wallet
        /\ UNCHANGED <<step, started, walletId, investmentIds, executions>>
    BY <1>5 DEF RunCreationJob, CreationJobDies, Inductive, TypeOK, TableTypes, InvestmentRow
  <2>2. \A v : Own(v)' = Own(v)
    BY <2>1, SameOwn
  <2> QED
    BY <2>1, <2>2 DEF Running
<1>6. ASSUME NEW j \in candidateJobs, CandidateJobStep(j) \/ CandidateJobDies(j)
      PROVE  NoOtherInvestments'
  <2>1. UNCHANGED <<investments, step, started, walletId, investmentIds, executions>>
    BY <1>6 DEF CandidateJobStep, SlowAttempt, FailedAttempt, MatchCandidate,
     RejectCandidate, SignalProcessed, Conclude, CandidateJobDies
  <2>2. \A v : Own(v)' = Own(v)
    BY <2>1, SameOwn
  <2> QED
    BY <2>1, <2>2 DEF Running
<1>7. CASE UNCHANGED vars
  <2>1. \A v : Own(v)' = Own(v)
    BY <1>7, SameOwn DEF vars
  <2> QED
    BY <1>7, <2>1 DEF vars, Running
<1> QED
  BY <1>1, <1>2, <1>3, <1>4, <1>5, <1>6, <1>7 DEF Next

\* InvestedOnce holds in every state: a pipeline's investments are those of one
\* attempt, where attempts do not fail or are not tried again.
THEOREM InvestedOnceInvariance == Spec => []InvestedOnce
<1>1. Init => InvestedOnce
  BY DEF Init, InvestedOnce, OneAttempt, NoOtherInvestments, Investing,
     Running, HasInvestments, HasCandidates
<1>2. ASSUME Inductive, Accountable, InvestedOnce, [Next]_vars PROVE InvestedOnce'
  <2> SUFFICES ASSUME crashes' = 0, TriedOnce
               PROVE  OneAttempt' /\ NoOtherInvestments'
    BY DEF InvestedOnce, TriedOnce
  <2> QED
    BY <1>2, OneAttemptStep, NoOtherInvestmentsStep
<1> QED
  BY InductiveInvariance, AccountableInvariance, <1>1, <1>2, PTL DEF Spec

\* A READY pipeline has all its investments.
LEMMA ReadyIsComplete == Inductive /\ Accountable => ReadyWalletIsComplete
<1> SUFFICES ASSUME Inductive, Accountable, crashes = 0, NEW w \in Workflows,
                    step[w] = "ready"
             PROVE  /\ Cardinality(investmentIds[w]) = NumInvestments
                    /\ \A i \in investmentIds[w] :
                         investments[i].created /\ investments[i].wallet = walletId[w]
  BY DEF ReadyWalletIsComplete
<1>1. investmentIds[w] \subseteq Own(w) /\ Cardinality(investmentIds[w]) = NumInvestments
  BY DEF Accountable, InvestmentsOwned, HasInvestments, HasCandidates
<1>2. investmentIds[w] \subseteq {candidates[c].investment : c \in candidateIds[w]}
  BY DEF Accountable, EachHasCandidate, HasCandidates
<1>3. \A c \in candidateIds[w] : c \in DOMAIN candidates /\ Created(c)
  BY DEF Inductive, FanInPassed, AllProcessed, ProcessedIsTrue, CandidateReferences
<1> QED
  BY <1>1, <1>2, <1>3 DEF Created, Own

\* A READY pipeline has one created investment in its wallet for each base
\* investment of the profile, whatever attempts were lost on the way.
THEOREM ReadyWalletIsCompleteHolds == Spec => []ReadyWalletIsComplete
BY InductiveInvariance, AccountableInvariance, ReadyIsComplete, PTL

\* A READY wallet is what SampleWalletCreationWorkflowTest expects, while the
\* worker has not restarted, where attempts do not fail or are not tried again:
\* its investments are those of its pipeline and no other.
THEOREM ReadyWalletAsTestedHolds ==
  ASSUME TriedOnce
  PROVE  Spec => [](crashes = 0 => ReadyWalletAsTested)
<1>1. ASSUME ReadyWalletIsComplete, InvestedOnce, crashes = 0 PROVE ReadyWalletAsTested
  <2> SUFFICES ASSUME NEW w \in Workflows, step[w] = "ready"
               PROVE  /\ Cardinality(Own(w)) = NumInvestments
                      /\ \A i \in Own(w) : investments[i].created
    BY DEF ReadyWalletAsTested, Own
  <2>1. Own(w) = investmentIds[w]
    BY <1>1 DEF InvestedOnce, NoOtherInvestments, HasInvestments, HasCandidates
  <2> QED
    BY <1>1, <2>1 DEF ReadyWalletIsComplete
<1> QED
  BY ReadyWalletIsCompleteHolds, InvestedOnceInvariance, <1>1, PTL

=============================================================================
