----------------------- MODULE SampleWalletInvariant -----------------------
(***************************************************************************)
(* The inductive invariant behind the safety properties of SampleWallet:   *)
(* what the activities, the jobs and the server may rely on about the rows *)
(* of each other.  TLC checks it as an invariant, SampleWalletProofs shows *)
(* that every step preserves it.                                           *)
(***************************************************************************)
EXTENDS SampleWallet

Started == {"createInvestments", "createCandidates", "fanOut", "await",
            "finish", "abort", "ready", "timedOut"}

\* Ids that anybody remembers are ids of rows: rows are never deleted, so this
\* survives a crash.
WalletReferences ==
  /\ NoId \notin DOMAIN wallets
  /\ \A w \in Workflows :
       /\ walletId[w] # NoId => walletId[w] \in DOMAIN wallets
       /\ step[w] \in Started => walletId[w] # NoId
  /\ \A e \in executions :
       /\ e.act # "createWallet" => walletId[e.wf] # NoId
       /\ e.act = "createWallet" =>
            e.ids \subseteq DOMAIN wallets /\ (e.done => e.ids # {})

InvestmentReferences ==
  /\ \A w \in Workflows : investmentIds[w] \subseteq DOMAIN investments
  /\ \A e \in executions :
       e.act = "createInvestments" => e.ids \subseteq DOMAIN investments
  /\ creationJobs \subseteq DOMAIN investments
  /\ \A c \in DOMAIN candidates : candidates[c].investment \in DOMAIN investments

CandidateReferences ==
  /\ \A w \in Workflows :
       /\ candidateIds[w] \subseteq DOMAIN candidates
       /\ DOMAIN candidateStatuses[w] \subseteq DOMAIN candidates
  /\ \A e \in executions :
       e.act = "createCandidates" => e.ids \subseteq DOMAIN candidates
  /\ \A j \in candidateJobs : j.candidate \in DOMAIN candidates

\* In its first life the process hands out an id once.
SequencesAreFresh ==
  /\ \A id \in DOMAIN wallets : id <= walletSeq
  /\ \A id \in DOMAIN investments : id <= investmentSeq
  /\ \A id \in DOMAIN candidates : id <= candidateSeq

Created(c) == investments[candidates[c].investment].created

\* A processed candidate has a created investment, and whoever says that a
\* candidate is processed is right.
ProcessedIsTrue ==
  /\ \A c \in DOMAIN candidates : candidates[c].processed => Created(c)
  /\ \A w \in Workflows : \A c \in DOMAIN candidateStatuses[w] :
       candidates[c].processed
  /\ \A j \in candidateJobs :
       /\ j.attempt > 1 => Created(j.candidate)
       /\ j.outcome # "PENDING" => candidates[j.candidate].processed

\* Past the await every candidate has been signalled.
FanInPassed ==
  \A w \in Workflows : step[w] \in {"finish", "ready"} => AllProcessed(w)

\* The results come in the order of the steps: none is there before its step.
ResultsAreOrdered ==
  \A w \in Workflows :
    /\ step[w] \in {"idle", "createWallet"} => walletId[w] = NoId
    /\ step[w] \in {"idle", "createWallet", "createInvestments"} =>
         investmentIds[w] = {}
    /\ step[w] \in {"idle", "createWallet", "createInvestments",
                    "createCandidates"} => candidateIds[w] = {}

\* All of it: what every step preserves, faults and restarts included.
Inductive ==
  /\ TypeOK
  /\ ResultsAreOrdered
  /\ WalletReferences
  /\ InvestmentReferences
  /\ CandidateReferences
  /\ FanInPassed
  /\ crashes = 0 => SequencesAreFresh /\ ProcessedIsTrue

=============================================================================
