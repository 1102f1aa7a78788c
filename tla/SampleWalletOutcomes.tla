------------------------ MODULE SampleWalletOutcomes ------------------------
(***************************************************************************)
(* A second invariant of SampleWallet, on top of Inductive: who may write  *)
(* which row in the first life of the process, and what it may write.      *)
(* TLC checks it as an invariant, SampleWalletOutcomeProofs shows that     *)
(* every step preserves it.                                                *)
(***************************************************************************)
EXTENDS SampleWalletInvariant

Running(act) == {e \in executions : e.act = act}

\* A row belongs to the attempt that saved it, and to one pipeline once its
\* result is taken.
WalletsApart ==
  /\ \A e, f \in Running("createWallet") : e # f => e.ids \cap f.ids = {}
  /\ \A e \in Running("createWallet") : \A w \in Workflows : walletId[w] \notin e.ids
  /\ \A v, w \in Workflows : v # w /\ walletId[v] = walletId[w] => walletId[v] = NoId

InvestmentsApart ==
  /\ \A e, f \in Running("createInvestments") : e # f => e.ids \cap f.ids = {}
  /\ \A e \in Running("createInvestments") : \A w \in Workflows :
       investmentIds[w] \cap e.ids = {}
  /\ \A v, w \in Workflows : v # w => investmentIds[v] \cap investmentIds[w] = {}

CandidatesApart ==
  /\ \A e, f \in Running("createCandidates") : e # f => e.ids \cap f.ids = {}
  /\ \A e \in Running("createCandidates") : \A w \in Workflows :
       candidateIds[w] \cap e.ids = {}
  /\ \A v, w \in Workflows : v # w => candidateIds[v] \cap candidateIds[w] = {}

ToReady   == {"finish", "ready", "failed", "expired"}
ToAborted == {"abort", "timedOut", "failed", "expired"}

\* A pipeline decides once: attempts of finish and of abort never run for the
\* same one, not even as zombies.
DecidersAgree ==
  /\ \A e \in Running("finish") : step[e.wf] \in ToReady
  /\ \A e \in Running("abort") : step[e.wf] \in ToAborted
  /\ \A e \in Running("finish") : \A f \in Running("abort") : e.wf # f.wf

\* The row of a pipeline says what its step allows, and is the investor's.
WalletsDecided ==
  /\ \A e \in Running("createWallet") : \A id \in e.ids : wallets[id] = NewWallet(e.wf)
  /\ \A w \in Workflows : walletId[w] # NoId =>
       /\ wallets[walletId[w]].investor = InvestorOf[w]
       /\ wallets[walletId[w]].status = "READY" =>
            step[w] \in ToReady /\ \A e \in Running("abort") : e.wf # w
       /\ wallets[walletId[w]].status = "ABORTED" =>
            step[w] \in ToAborted /\ \A e \in Running("finish") : e.wf # w
  /\ \A w \in Workflows :
       /\ step[w] = "ready" => wallets[walletId[w]].status = "READY"
       /\ step[w] = "timedOut" => wallets[walletId[w]].status = "ABORTED"

\* What an attempt of finish or abort has read is still good enough to save.
DecidersKnow ==
  \A e \in Running("finish") \cup Running("abort") :
    /\ e.seen # NoRow => e.seen.investor = InvestorOf[e.wf]
    /\ e.act = "abort" => e.seen.status # "READY"
    /\ e.done => wallets[walletId[e.wf]].status =
                   IF e.act = "finish" THEN "READY" ELSE "ABORTED"

\* A candidate has one job, from when its rows are all saved until it is
\* signalled, and the job alone changes the row.
CandidatesReported ==
  /\ \A j, k \in candidateJobs : j.candidate = k.candidate => j = k
  /\ \A j \in candidateJobs : candidates[j.candidate].status = j.outcome
  /\ \A w \in Workflows : \A c \in DOMAIN candidateStatuses[w] :
       /\ candidates[c].status = candidateStatuses[w][c]
       /\ \A j \in candidateJobs : j.candidate # c
  /\ \A e \in Running("createCandidates") : ~e.done => \A c \in e.ids :
       /\ candidates[c].status = "PENDING"
       /\ c \notin failedOnce
       /\ \A j \in candidateJobs : j.candidate # c

\* A job's attempt is counted by the row, and its first failure is remembered.
AttemptsCounted ==
  /\ failedOnce \subseteq FailFirst \cap DOMAIN candidates
  /\ \A j \in candidateJobs :
       /\ j.attempt \in 1..(MaxCandidateAttempts + 1)
       /\ j.outcome = "PENDING" /\ j.candidate \notin AlwaysSlow =>
            (j.attempt > 1 <=> j.candidate \in failedOnce)
  /\ \A c \in DOMAIN candidates :
       /\ candidates[c].attempts <= MaxCandidateAttempts
       /\ candidates[c].status = "MATCHED" =>
            (candidates[c].attempts > 1 <=> c \in FailFirst)

Investing      == Running("createInvestments")
Own(w)         == {i \in DOMAIN investments : investments[i].wallet = walletId[w]}
HasCandidates  == {"fanOut", "await", "finish", "abort", "ready", "timedOut"}
HasInvestments == {"createCandidates"} \cup HasCandidates

\* An investment is the row of a pipeline's wallet, and a complete result has
\* one for each base investment of the profile.
InvestmentsOwned ==
  /\ \A i \in DOMAIN investments : \E w \in Workflows :
       walletId[w] = investments[i].wallet /\ walletId[w] # NoId
  /\ \A e \in Investing :
       /\ e.ids \subseteq Own(e.wf)
       /\ e.done => Cardinality(e.ids) = NumInvestments
  /\ \A w \in Workflows : step[w] \in HasInvestments =>
       /\ investmentIds[w] \subseteq Own(w)
       /\ Cardinality(investmentIds[w]) = NumInvestments

\* A result of createCandidates covers every investment.
EachHasCandidate ==
  /\ \A e \in Running("createCandidates") :
       /\ step[e.wf] \in HasInvestments \cup {"failed", "expired"}
       /\ e.done => Uncovered(e) = {}
  /\ \A w \in Workflows : step[w] \in HasCandidates =>
       investmentIds[w] \subseteq {candidates[c].investment : c \in candidateIds[w]}

\* All of it, while the worker has not restarted.
Accountable ==
  crashes = 0 =>
    /\ WalletsApart /\ InvestmentsApart /\ CandidatesApart
    /\ DecidersAgree /\ WalletsDecided /\ DecidersKnow
    /\ CandidatesReported /\ AttemptsCounted
    /\ InvestmentsOwned /\ EachHasCandidate

\* References are good and writers keep to their rows.
Sound == Inductive /\ Accountable

-----------------------------------------------------------------------------
(* What createInvestments leaves behind where it is tried once.  An attempt *)
(* that failed keeps its rows, so nothing of this survives a retry.         *)

\* Either the policy allows no retry, or nothing makes an attempt fail.
TriedOnce == MaxActivityAttempts = 1 \/ Faults \cap {"throw", "timeout"} = {}

\* A pipeline has one attempt of createInvestments at most: where the server
\* waits for it, it is there, and otherwise the workflow is closed.
OneAttempt ==
  /\ \A w \in Workflows : step[w] = "createInvestments" =>
       /\ attempt[w] = 1
       /\ started[w] => \E e \in Investing : e.wf = w
  /\ \A e \in Investing :
       /\ e.attempt = 1
       /\ step[e.wf] \in {"createInvestments", "failed", "expired"}
       /\ step[e.wf] = "createInvestments" => started[e.wf]
  /\ \A e, f \in Investing : e.wf = f.wf => e = f

\* The investments of a wallet are those of this attempt, and then the result.
NoOtherInvestments ==
  /\ \A e \in Investing : Own(e.wf) = e.ids
  /\ \A w \in Workflows :
       /\ step[w] = "createInvestments" /\ ~started[w] => Own(w) = {}
       /\ step[w] \in HasInvestments => Own(w) = investmentIds[w]

InvestedOnce == crashes = 0 /\ TriedOnce => OneAttempt /\ NoOtherInvestments

=============================================================================
