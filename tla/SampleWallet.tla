---------------------------- MODULE SampleWallet ----------------------------
(***************************************************************************)
(* The sample-wallet onboarding pipeline of workflow-temporal.             *)
(*                                                                         *)
(* Three kinds of actor share a PostgreSQL schema:                         *)
(*   - the Temporal server, durable and outside the repository: it keeps   *)
(*     where each workflow is, hands activities to the worker, retries     *)
(*     them up to MaxActivityAttempts times and fires the timers;          *)
(*   - the activity executions of the worker (SampleWalletCreation-        *)
(*     ActivitiesImpl), which may outlive the attempt that started them;   *)
(*   - the background jobs of BackgroundJobDispatcher, which live in an    *)
(*     in-memory thread pool and signal the workflow when they are done.   *)
(* Every DAO call runs in a transaction of its own, so every save is a     *)
(* step.  A crash of the worker forgets executions, jobs and the three     *)
(* AtomicInteger sequences, and keeps the rows.                            *)
(***************************************************************************)
EXTENDS Integers, FiniteSets

CONSTANTS
  Workflows,            \* workflow executions started through SampleWalletJMX
  Investors,
  InvestorOf,           \* InvestorOf[w]: investorId of the request of w
  NumInvestments,       \* base investments per profile (3 in the code)
  MaxActivityAttempts,  \* RetryOptions.maximumAttempts (3 in the code)
  MaxCandidateAttempts, \* BackgroundJobPolicy.maxCandidateAttempts (2)
  FailFirst,            \* failFirstAttemptCandidateIds
  AlwaysSlow,           \* alwaysSlowCandidateIds
  Faults,               \* which of FaultKinds the environment may produce
  MaxConcurrent,        \* maxConcurrentActivityExecutionSize of the worker
  MaxCrashes            \* bound on the crashes of the worker

FaultKinds == {"throw", "timeout", "slow", "expire", "jobDeath"}

ASSUME InvestorAssumption  == InvestorOf \in [Workflows -> Investors]
ASSUME ProfileAssumption   == NumInvestments \in Nat \ {0}
ASSUME ActivityAssumption  == MaxActivityAttempts \in Nat \ {0}
ASSUME CandidateAssumption == MaxCandidateAttempts \in Nat \ {0}
ASSUME FaultAssumption     == Faults \subseteq FaultKinds
ASSUME SlotsAssumption     == MaxConcurrent \in Nat \ {0}
ASSUME CrashAssumption     == MaxCrashes \in Nat

VARIABLES
  wallets, investments, candidates,          \* the tables: id -> row
  walletSeq, investmentSeq, candidateSeq,    \* the worker's sequences
  executions,                                \* activity code now running
  creationJobs, candidateJobs, failedOnce,   \* the dispatcher's state
  step, attempt, started,                    \* the server's view of w ...
  walletId, investmentIds, candidateIds,     \* ... activity results, ...
  candidateStatuses,                         \* ... and delivered signals
  crashes

tables   == <<wallets, investments, candidates>>
seqs     == <<walletSeq, investmentSeq, candidateSeq>>
jobs     == <<creationJobs, candidateJobs, failedOnce>>
progress == <<step, attempt, started>>
results  == <<walletId, investmentIds, candidateIds>>
server   == <<progress, results, candidateStatuses>>
vars     == <<tables, seqs, executions, jobs, server, crashes>>

Activities == {"createWallet", "createInvestments", "createCandidates",
               "fanOut", "finish", "abort"}
Closed == {"ready", "timedOut", "failed", "expired"}
Steps  == Activities \cup {"idle", "await"} \cup Closed

NoId  == 0
NoRow == [investor |-> "none", status |-> "none"]

CandidateOutcomes == {"MATCHED", "REJECTED"}
WalletStatus  == {"CREATING", "READY", "ABORTED"}
WalletRow     == [investor : Investors, status : WalletStatus]
InvestmentRow == [wallet : Nat, created : BOOLEAN]
CandidateRow  == [investment : Nat, status : {"PENDING"} \cup CandidateOutcomes,
                  processed : BOOLEAN, attempts : Nat]
Execution     == [wf : Workflows, act : Activities, attempt : Nat,
                  ids : SUBSET Nat, seen : WalletRow \cup {NoRow}, done : BOOLEAN]
CandidateJob  == [wf : Workflows, candidate : Nat, attempt : Nat,
                  outcome : {"PENDING"} \cup CandidateOutcomes]

TableTypes ==
  /\ DOMAIN wallets \subseteq Nat /\ wallets \in [DOMAIN wallets -> WalletRow]
  /\ DOMAIN investments \subseteq Nat
  /\ investments \in [DOMAIN investments -> InvestmentRow]
  /\ DOMAIN candidates \subseteq Nat
  /\ candidates \in [DOMAIN candidates -> CandidateRow]

WorkerTypes ==
  /\ walletSeq \in Nat /\ investmentSeq \in Nat /\ candidateSeq \in Nat
  /\ executions \subseteq Execution
  /\ creationJobs \subseteq Nat
  /\ candidateJobs \subseteq CandidateJob
  /\ failedOnce \subseteq Nat
  /\ crashes \in Nat

ServerTypes ==
  /\ step \in [Workflows -> Steps]
  /\ attempt \in [Workflows -> Nat]
  /\ started \in [Workflows -> BOOLEAN]
  /\ walletId \in [Workflows -> Nat]
  /\ investmentIds \in [Workflows -> SUBSET Nat]
  /\ candidateIds \in [Workflows -> SUBSET Nat]

SignalTypes ==
  /\ candidateStatuses = [w \in Workflows |-> candidateStatuses[w]]
  /\ \A w \in Workflows :
       LET told == candidateStatuses[w]
       IN  DOMAIN told \subseteq Nat /\ told \in [DOMAIN told -> CandidateOutcomes]

TypeOK == TableTypes /\ WorkerTypes /\ ServerTypes /\ SignalTypes

Init ==
  /\ wallets = [k \in {} |-> NoRow]
  /\ investments = [k \in {} |-> NoRow]
  /\ candidates = [k \in {} |-> NoRow]
  /\ walletSeq = 0 /\ investmentSeq = 0 /\ candidateSeq = 0
  /\ executions = {}
  /\ creationJobs = {} /\ candidateJobs = {} /\ failedOnce = {}
  /\ step = [w \in Workflows |-> "idle"]
  /\ attempt = [w \in Workflows |-> 0]
  /\ started = [w \in Workflows |-> FALSE]
  /\ walletId = [w \in Workflows |-> NoId]
  /\ investmentIds = [w \in Workflows |-> {}]
  /\ candidateIds = [w \in Workflows |-> {}]
  /\ candidateStatuses = [w \in Workflows |-> [k \in {} |-> "none"]]
  /\ crashes = 0

-----------------------------------------------------------------------------
(* The DAOs: EntityManager.merge writes the whole row, new or not.         *)

Merge(table, id, row) ==
  [k \in DOMAIN table \cup {id} |-> IF k = id THEN row ELSE table[k]]

-----------------------------------------------------------------------------
(* The Temporal server.                                                    *)

Open(w) == step[w] \notin Closed \cup {"idle"}

\* Mutant: a result is matched by attempt number alone.
CurrentByAttempt(e) == attempt[e.wf] >= e.attempt

\* The execution is the attempt the server is waiting for: any other result
\* is ignored.
Current(e) == step[e.wf] = e.act /\ attempt[e.wf] = e.attempt

GoTo(w, s) ==
  /\ step' = [step EXCEPT ![w] = s]
  /\ attempt' = [attempt EXCEPT ![w] = 1]
  /\ started' = [started EXCEPT ![w] = FALSE]

\* A step of the server that changes nothing else.
MoveTo(w, s) ==
  /\ GoTo(w, s)
  /\ UNCHANGED <<tables, seqs, executions, jobs, results, candidateStatuses,
                 crashes>>

\* SampleWalletWorkflowService.start: the first command of create() is the
\* createWallet activity.
Start(w) ==
  /\ step[w] = "idle"
  /\ MoveTo(w, "createWallet")

\* The worker polls the scheduled attempt when it has a free slot, and begins
\* to run it.
PollActivity(w) ==
  /\ step[w] \in Activities
  /\ ~started[w]
  /\ Cardinality(executions) < MaxConcurrent
  /\ started' = [started EXCEPT ![w] = TRUE]
  /\ executions' = executions \cup
       {[wf |-> w, act |-> step[w], attempt |-> attempt[w], ids |-> {},
         seen |-> NoRow, done |-> FALSE]}
  /\ UNCHANGED <<tables, seqs, jobs, step, attempt, results,
                 candidateStatuses, crashes>>

\* An attempt is lost: schedule the next one, or fail the workflow.  No
\* compensation runs: create() has no try/catch around the activities.
LoseAttempt(w) ==
  IF attempt[w] < MaxActivityAttempts
  THEN /\ attempt' = [attempt EXCEPT ![w] = @ + 1]
       /\ started' = [started EXCEPT ![w] = FALSE]
       /\ UNCHANGED step
  ELSE GoTo(w, "failed")

\* startToCloseTimeout: the code keeps running, its result will be ignored.
\* After a crash nothing is running and the timeout is the only way on.
ActivityTimesOut(w) ==
  /\ step[w] \in Activities
  /\ started[w]
  /\ \/ "timeout" \in Faults
     \/ ~\E e \in executions : e.wf = w /\ Current(e)
  /\ LoseAttempt(w)
  /\ UNCHANGED <<tables, seqs, executions, jobs, results, candidateStatuses,
                 crashes>>

\* An exception leaves the activity method (database down, unknown
\* investor, ...).
ActivityThrows(e) ==
  /\ "throw" \in Faults
  /\ executions' = executions \ {e}
  /\ IF Current(e) THEN LoseAttempt(e.wf) ELSE UNCHANGED <<progress>>
  /\ UNCHANGED <<tables, seqs, jobs, results, candidateStatuses, crashes>>

\* workflowExecutionTimeout: the server closes the workflow, whatever it was
\* doing; no workflow code runs any more.
ExecutionExpires(w) ==
  /\ "expire" \in Faults
  /\ Open(w)
  /\ MoveTo(w, "expired")

-----------------------------------------------------------------------------
(* The activities.  Each is a run of saves, then "done", then its return.   *)

\* The execution e goes on with these fields.
Advance(e, ids, seen, done) ==
  executions' = (executions \ {e}) \cup
    {[wf |-> e.wf, act |-> e.act, attempt |-> e.attempt, ids |-> ids,
      seen |-> seen, done |-> done]}

\* One more row of e is saved.
Add(e, id) == Advance(e, e.ids \cup {id}, e.seen, FALSE)

\* The method reached its return statement, with these ids as its result.
Finish(e, ids) == Advance(e, ids, e.seen, TRUE)

\* The rows the activities save first.
NewWallet(w)     == [investor |-> InvestorOf[w], status |-> "CREATING"]
NewInvestment(w) == [wallet |-> walletId[w], created |-> FALSE]
NewCandidate(i)  == [investment |-> i, status |-> "PENDING",
                     processed |-> FALSE, attempts |-> 0]

\* Mutant: walletSequence.get() + 1, the increment lost.
CreateWalletRowSequenceLost(e) ==
  /\ e.act = "createWallet" /\ ~e.done
  /\ wallets' = Merge(wallets, walletSeq + 1, NewWallet(e.wf))
  /\ Finish(e, {walletSeq + 1})
  /\ UNCHANGED <<investments, candidates, seqs, jobs, server, crashes>>

CreateWalletRow(e) ==
  /\ e.act = "createWallet" /\ ~e.done
  /\ walletSeq' = walletSeq + 1
  /\ wallets' = Merge(wallets, walletSeq + 1, NewWallet(e.wf))
  /\ Finish(e, {walletSeq + 1})
  /\ UNCHANGED <<investments, candidates, investmentSeq, candidateSeq, jobs,
                 server, crashes>>

\* One save per base investment of the profile.
CreateInvestmentRow(e) ==
  /\ e.act = "createInvestments" /\ ~e.done
  /\ Cardinality(e.ids) < NumInvestments
  /\ investmentSeq' = investmentSeq + 1
  /\ investments' = Merge(investments, investmentSeq + 1, NewInvestment(e.wf))
  /\ Add(e, investmentSeq + 1)
  /\ UNCHANGED <<wallets, candidates, walletSeq, candidateSeq, jobs, server,
                 crashes>>

\* forEach(scheduleInvestmentCreation), once every row is saved.
ScheduleInvestmentCreation(e) ==
  /\ e.act = "createInvestments" /\ ~e.done
  /\ Cardinality(e.ids) = NumInvestments
  /\ creationJobs' = creationJobs \cup e.ids
  /\ Finish(e, e.ids)
  /\ UNCHANGED <<tables, seqs, candidateJobs, failedOnce, server, crashes>>

Uncovered(e) ==
  investmentIds[e.wf] \ {candidates[c].investment : c \in e.ids}

\* One save per investment, in the order createInvestments made them.
CreateCandidateRow(e) ==
  /\ e.act = "createCandidates" /\ ~e.done
  /\ \E i \in Uncovered(e) :
       /\ \A j \in Uncovered(e) : i <= j
       /\ candidates' = Merge(candidates, candidateSeq + 1, NewCandidate(i))
  /\ candidateSeq' = candidateSeq + 1
  /\ Add(e, candidateSeq + 1)
  /\ UNCHANGED <<wallets, investments, walletSeq, investmentSeq, jobs,
                 server, crashes>>

ScheduleCandidateProcessing(e) ==
  /\ e.act = "createCandidates" /\ ~e.done
  /\ Uncovered(e) = {}
  /\ candidateJobs' = candidateJobs \cup
       {[wf |-> e.wf, candidate |-> c, attempt |-> 1, outcome |-> "PENDING"] :
          c \in e.ids}
  /\ Finish(e, e.ids)
  /\ UNCHANGED <<tables, seqs, creationJobs, failedOnce, server, crashes>>

\* fanOutCandidates builds a map nobody reads.
FanOutCandidates(e) ==
  /\ e.act = "fanOut" /\ ~e.done
  /\ Finish(e, e.ids)
  /\ UNCHANGED <<tables, seqs, jobs, server, crashes>>

\* walletService.findById, in its own transaction.
FindWallet(e) ==
  /\ e.act \in {"finish", "abort"} /\ ~e.done
  /\ e.seen = NoRow
  /\ Advance(e, e.ids, wallets[walletId[e.wf]], FALSE)
  /\ UNCHANGED <<tables, seqs, jobs, server, crashes>>

\* finishSampleWalletCreation saves READY whatever status it read.
SaveReady(e) ==
  /\ e.act = "finish" /\ ~e.done
  /\ e.seen # NoRow
  /\ wallets' = Merge(wallets, walletId[e.wf], [e.seen EXCEPT !.status = "READY"])
  /\ Finish(e, e.ids)
  /\ UNCHANGED <<investments, candidates, seqs, jobs, server, crashes>>

\* Mutant: the early return tests the wrong status.
SaveAbortedWrongStatus(e) ==
  /\ e.act = "abort" /\ ~e.done
  /\ e.seen # NoRow
  /\ wallets' = IF e.seen.status = "CREATING" THEN wallets
                ELSE Merge(wallets, walletId[e.wf],
                           [e.seen EXCEPT !.status = "ABORTED"])
  /\ Finish(e, e.ids)
  /\ UNCHANGED <<investments, candidates, seqs, jobs, server, crashes>>

\* abortSampleWalletCreation leaves a wallet it read as READY alone.
SaveAborted(e) ==
  /\ e.act = "abort" /\ ~e.done
  /\ e.seen # NoRow
  /\ wallets' = IF e.seen.status = "READY" THEN wallets
                ELSE Merge(wallets, walletId[e.wf],
                           [e.seen EXCEPT !.status = "ABORTED"])
  /\ Finish(e, e.ids)
  /\ UNCHANGED <<investments, candidates, seqs, jobs, server, crashes>>

ActivityStep(e) ==
  \/ CreateWalletRow(e) \/ CreateInvestmentRow(e)
  \/ ScheduleInvestmentCreation(e) \/ CreateCandidateRow(e)
  \/ ScheduleCandidateProcessing(e) \/ FanOutCandidates(e)
  \/ FindWallet(e) \/ SaveReady(e) \/ SaveAborted(e)

\* Mutant: no throw after abortSampleWalletCreation.
NextStepNoThrow == [createWallet      |-> "createInvestments",
                    createInvestments |-> "createCandidates",
                    createCandidates  |-> "fanOut",
                    fanOut            |-> "await",
                    finish            |-> "ready",
                    abort             |-> "finish"]

\* What create() does with the result of an activity, and its next command.
NextStep == [createWallet      |-> "createInvestments",
             createInvestments |-> "createCandidates",
             createCandidates  |-> "fanOut",
             fanOut            |-> "await",
             finish            |-> "ready",
             abort             |-> "timedOut"]

Return(e) ==
  /\ e.done
  /\ executions' = executions \ {e}
  /\ IF ~Current(e)
     THEN UNCHANGED <<progress, results>>
     ELSE /\ GoTo(e.wf, NextStep[e.act])
          /\ walletId' = IF e.act # "createWallet" THEN walletId
               ELSE [walletId EXCEPT ![e.wf] = CHOOSE id \in e.ids : TRUE]
          /\ investmentIds' = IF e.act # "createInvestments" THEN investmentIds
               ELSE [investmentIds EXCEPT ![e.wf] = e.ids]
          /\ candidateIds' = IF e.act # "createCandidates" THEN candidateIds
               ELSE [candidateIds EXCEPT ![e.wf] = e.ids]
  /\ UNCHANGED <<tables, seqs, jobs, candidateStatuses, crashes>>

-----------------------------------------------------------------------------
(* The fan-in: Workflow.await(workflowTimeout, every candidate processed).  *)
(* candidateStatuses and processedCandidates always have the same keys, and *)
(* every signal carries processed = true.                                   *)

\* Mutant: counts the signals instead of looking for each candidate's.
AllProcessedByCount(w) ==
  Cardinality(candidateIds[w]) <= Cardinality(DOMAIN candidateStatuses[w])

AllProcessed(w) == candidateIds[w] \subseteq DOMAIN candidateStatuses[w]

AwaitCompletes(w) ==
  /\ step[w] = "await"
  /\ AllProcessed(w)
  /\ MoveTo(w, "finish")

\* Some job of w will still signal it: one whose investment never becomes
\* created polls the table for ever.
SignalComing(w) ==
  \E j \in candidateJobs :
    LET i == candidates[j.candidate].investment
    IN  /\ j.wf = w
        /\ j.outcome # "PENDING" \/ investments[i].created \/ i \in creationJobs

\* Mutant: Workflow.await without a duration.
AwaitTimesOutNever(w) ==
  /\ FALSE
  /\ MoveTo(w, "abort")

\* The timer: early only when "slow" is among the faults, else once no signal
\* can come.
AwaitTimesOut(w) ==
  /\ step[w] = "await"
  /\ "slow" \in Faults \/ ~(AllProcessed(w) \/ SignalComing(w))
  /\ MoveTo(w, "abort")

-----------------------------------------------------------------------------
(* BackgroundJobDispatcher.  Within one life of the process an investment   *)
(* or candidate row, once created, is written by its own job only, so a job *)
(* finding and saving it is one step.                                       *)

RunCreationJob(i) ==
  /\ creationJobs' = creationJobs \ {i}
  /\ investments' = [investments EXCEPT ![i].created = TRUE]
  /\ UNCHANGED <<wallets, candidates, seqs, executions, candidateJobs,
                 failedOnce, server, crashes>>

\* Mutant: does not wait until the investment is created.
AttemptingAtOnce(j) ==
  /\ j.outcome = "PENDING"
  /\ j.attempt <= MaxCandidateAttempts

\* Past waitUntilInvestmentIsCreated, with attempts left.
Attempting(j) ==
  /\ j.outcome = "PENDING"
  /\ j.attempt <= MaxCandidateAttempts
  /\ investments[candidates[j.candidate].investment].created

UpdateJob(j, tries, outcome) ==
  candidateJobs' = (candidateJobs \ {j}) \cup
    {[wf |-> j.wf, candidate |-> j.candidate, attempt |-> tries,
      outcome |-> outcome]}

\* Mutant: while (true) instead of the bounded for loop.
SlowAttemptUncounted(j) ==
  /\ Attempting(j)
  /\ j.candidate \in AlwaysSlow
  /\ UNCHANGED vars

SlowAttempt(j) ==
  /\ Attempting(j)
  /\ j.candidate \in AlwaysSlow
  /\ UpdateJob(j, j.attempt + 1, "PENDING")
  /\ UNCHANGED <<tables, seqs, executions, creationJobs, failedOnce, server,
                 crashes>>

FailedAttempt(j) ==
  /\ Attempting(j)
  /\ j.candidate \in (FailFirst \ AlwaysSlow) \ failedOnce
  /\ failedOnce' = failedOnce \cup {j.candidate}
  /\ candidates' = [candidates EXCEPT ![j.candidate].attempts = j.attempt]
  /\ UpdateJob(j, j.attempt + 1, "PENDING")
  /\ UNCHANGED <<wallets, investments, seqs, executions, creationJobs,
                 server, crashes>>

Conclude(j, outcome, attempts) ==
  /\ candidates' = [candidates EXCEPT ![j.candidate] =
       [@ EXCEPT !.status = outcome, !.processed = TRUE, !.attempts = attempts]]
  /\ UpdateJob(j, j.attempt, outcome)
  /\ UNCHANGED <<wallets, investments, seqs, executions, creationJobs,
                 failedOnce, server, crashes>>

MatchCandidate(j) ==
  /\ Attempting(j)
  /\ j.candidate \notin AlwaysSlow
  /\ j.candidate \notin FailFirst \ failedOnce
  /\ Conclude(j, "MATCHED", j.attempt)

\* Mutant: saves the loop variable after the loop, one too many.
RejectCandidateLoopVariable(j) ==
  /\ j.outcome = "PENDING"
  /\ j.attempt > MaxCandidateAttempts
  /\ Conclude(j, "REJECTED", j.attempt)

RejectCandidate(j) ==
  /\ j.outcome = "PENDING"
  /\ j.attempt > MaxCandidateAttempts
  /\ Conclude(j, "REJECTED", MaxCandidateAttempts)

\* Mutants: the status of the candidate found, not of the one saved; a
\* constant status.
SignalledStatusFound(j) == "PENDING"
SignalledStatusFixed(j) == "MATCHED"

\* The status signalProcessed sends: that of the row just saved.
SignalledStatus(j) == j.outcome

\* Signalling a closed workflow throws in the job's thread, which ends it.
SignalProcessed(j) ==
  /\ j.outcome # "PENDING"
  /\ candidateJobs' = candidateJobs \ {j}
  /\ candidateStatuses' = IF ~Open(j.wf) THEN candidateStatuses
       ELSE [candidateStatuses EXCEPT ![j.wf] = Merge(@, j.candidate, SignalledStatus(j))]
  /\ UNCHANGED <<tables, seqs, executions, creationJobs, failedOnce,
                 progress, results, crashes>>

CandidateJobStep(j) ==
  SlowAttempt(j) \/ FailedAttempt(j) \/ MatchCandidate(j) \/ RejectCandidate(j)
    \/ SignalProcessed(j)

\* An exception ends a job: executorService.submit's Future is dropped.
CreationJobDies(i) ==
  /\ "jobDeath" \in Faults
  /\ creationJobs' = creationJobs \ {i}
  /\ UNCHANGED <<tables, seqs, executions, candidateJobs, failedOnce, server,
                 crashes>>

CandidateJobDies(j) ==
  /\ "jobDeath" \in Faults
  /\ candidateJobs' = candidateJobs \ {j}
  /\ UNCHANGED <<tables, seqs, executions, creationJobs, failedOnce, server,
                 crashes>>

-----------------------------------------------------------------------------
(* The worker stops (kill, or onStop's shutdown and shutdownNow) and starts *)
(* again: onStart builds a new dispatcher and new activities.               *)

Crash ==
  /\ crashes < MaxCrashes
  /\ crashes' = crashes + 1
  /\ walletSeq' = 0 /\ investmentSeq' = 0 /\ candidateSeq' = 0
  /\ executions' = {}
  /\ creationJobs' = {} /\ candidateJobs' = {} /\ failedOnce' = {}
  /\ UNCHANGED <<tables, server>>

-----------------------------------------------------------------------------
ServerStep(w) ==
  \/ Start(w) \/ PollActivity(w) \/ ActivityTimesOut(w) \/ ExecutionExpires(w)
  \/ AwaitCompletes(w) \/ AwaitTimesOut(w)

Next ==
  \/ \E w \in Workflows : ServerStep(w)
  \/ \E e \in executions : ActivityStep(e) \/ Return(e) \/ ActivityThrows(e)
  \/ \E i \in creationJobs : RunCreationJob(i) \/ CreationJobDies(i)
  \/ \E j \in candidateJobs : CandidateJobStep(j) \/ CandidateJobDies(j)
  \/ Crash

Spec == Init /\ [][Next]_vars

-----------------------------------------------------------------------------
(* Fairness: the server's timers fire, the worker polls, and the threads of *)
(* the worker and of the dispatcher run.  Users, faults and crashes are not *)
(* promised.                                                                *)

Fairness ==
  /\ \A w \in Workflows :
       /\ WF_vars(PollActivity(w))
       /\ WF_vars(ActivityTimesOut(w))
       /\ WF_vars(AwaitCompletes(w))
       /\ WF_vars(AwaitTimesOut(w))
       /\ WF_vars(\E e \in executions : e.wf = w /\ (ActivityStep(e) \/ Return(e)))
       /\ WF_vars(\E j \in candidateJobs : j.wf = w /\ CandidateJobStep(j))
  /\ WF_vars(\E i \in creationJobs : RunCreationJob(i))

FairSpec == Spec /\ Fairness

-----------------------------------------------------------------------------
(* Properties.                                                             *)

\* While the worker has not restarted, a pipeline goes on to finish only when
\* every candidate it awaits is processed in the table and its investment is
\* created: zombie attempts, lost jobs and early timers never let it through.
FanIn ==
  crashes = 0 =>
    \A w \in Workflows : step[w] \in {"finish", "ready"} =>
      \A c \in candidateIds[w] :
        candidates[c].processed /\ investments[candidates[c].investment].created

\* While the worker has not restarted, what the workflow was told of a
\* candidate (candidateStatuses, the query) is what its row says.
SignalsAreTrue ==
  crashes = 0 =>
    \A w \in Workflows : \A c \in DOMAIN candidateStatuses[w] :
      candidates[c].processed /\ candidates[c].status = candidateStatuses[w][c]

\* While the worker has not restarted, the result the caller of create() gets
\* and the wallet row agree: a result means READY, SAMPLE_WALLET_TIMEOUT means
\* ABORTED.
ResultMatchesWallet ==
  crashes = 0 =>
    \A w \in Workflows :
      /\ step[w] = "ready" => wallets[walletId[w]].status = "READY"
      /\ step[w] = "timedOut" => wallets[walletId[w]].status = "ABORTED"

\* While the worker has not restarted, pipelines share no row, and a wallet
\* carries the investor that asked for it.
PipelinesAreApart ==
  crashes = 0 =>
    \A v, w \in Workflows :
      /\ walletId[w] # NoId => wallets[walletId[w]].investor = InvestorOf[w]
      /\ v # w => /\ walletId[v] = walletId[w] => walletId[v] = NoId
                  /\ investmentIds[v] \cap investmentIds[w] = {}
                  /\ candidateIds[v] \cap candidateIds[w] = {}

\* While the worker has not restarted, a READY pipeline has one investment in
\* its wallet for each base investment of the profile, all of them created,
\* whatever attempts of createInvestments and createCandidates were lost.
ReadyWalletIsComplete ==
  crashes = 0 =>
    \A w \in Workflows : step[w] = "ready" =>
      /\ Cardinality(investmentIds[w]) = NumInvestments
      /\ \A i \in investmentIds[w] :
           investments[i].created /\ investments[i].wallet = walletId[w]

\* A candidate that matched was tried more than once exactly when the policy
\* made its first attempt fail, and none is tried more often than the policy
\* allows.
RetriesAreCounted ==
  crashes = 0 =>
    \A c \in DOMAIN candidates :
      /\ candidates[c].attempts <= MaxCandidateAttempts
      /\ candidates[c].status = "MATCHED" =>
           (candidates[c].attempts > 1 <=> c \in FailFirst)

\* A step keeps the results that are there and tells closed workflows nothing.
TakenOnce ==
  \A w \in Workflows :
    /\ walletId[w] # NoId => walletId'[w] = walletId[w]
    /\ investmentIds[w] # {} => investmentIds'[w] = investmentIds[w]
    /\ candidateIds[w] # {} => candidateIds'[w] = candidateIds[w]
    /\ ~Open(w) => candidateStatuses'[w] = candidateStatuses[w]

\* The result of an activity is taken once: an attempt the server gave up on
\* never replaces it, restart or not.
ResultsAreTakenOnce == [][TakenOnce]_vars

\* While the worker does not restart, READY and ABORTED are final, whatever
\* attempt of finish or abort is still running.
DecisionIsFinal ==
  [][crashes' = 0 =>
       \A id \in DOMAIN wallets :
         wallets[id].status # "CREATING" => wallets'[id] = wallets[id]]_vars

\* Every started pipeline closes without waiting for the execution timeout.
EventuallyClosed == \A w \in Workflows : Open(w) ~> step[w] \in Closed

\* SampleWalletCreationWorkflowTest:89-91 of a READY wallet: three investments,
\* all created.  It holds as long as no attempt of createInvestments fails:
\* every attempt takes new ids, and a retry leaves the first one's rows.
ReadyWalletAsTested ==
  \A w \in Workflows : step[w] = "ready" =>
    LET own == {i \in DOMAIN investments : investments[i].wallet = walletId[w]}
    IN  /\ Cardinality(own) = NumInvestments
        /\ \A i \in own : investments[i].created

\* With no fault at all it closes with a READY wallet.
EventuallyReady == \A w \in Workflows : Open(w) ~> step[w] = "ready"

-----------------------------------------------------------------------------
(* What the repository says, and the code does not keep.                   *)

\* README:39, "so conclui quando todos forem processados", with no condition
\* on restarts.
ConcludesWhenAllProcessed ==
  \A w \in Workflows : step[w] = "ready" =>
    \A c \in candidateIds[w] : candidates[c].processed

\* README:13, "concluir ou abortar a pipeline".
WalletEventuallyDecided ==
  \A w \in Workflows :
    walletId[w] # NoId ~> (walletId[w] # NoId /\ wallets[walletId[w]].status # "CREATING")

=============================================================================
