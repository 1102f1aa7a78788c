# A verification of java-examples

`mageddo/java-examples` is a collection of about 110 independent experiments:
each top-level directory is a small program or a note of its own, with its own
build. There is no single system. This project models the experiments that
carry state and concurrency of their own, one component per experiment, and
leaves aside those that only show how a library is called.

Everything is written in TLA+ from the sources under `src/`; the map in
`PROJECT.json` names, for every definition, the lines it stands for.

## Inventory

| Component | State it keeps | Operations | What is hard | What makes it correct |
|---|---|---|---|---|
| **Sample wallet pipeline** (`workflow-temporal`) | PostgreSQL rows (wallet, investments, candidates), three in-memory id sequences, an in-memory job pool, the durable workflow in the Temporal server | start a pipeline, six activities, two kinds of background job, a signal, an await with a timer, worker stop and start | activities retried while an older attempt still runs, jobs lost with the process, signals early or late, timers racing | a pipeline concludes only when its candidates are processed; result and wallet row agree; a decision is final; every pipeline closes |
| **Outbox relay** (`transactional-outbox-pglogrepl`, Go) | the replication slot's confirmed position in PostgreSQL, the relay's last position in memory, messages in Kafka | read the change stream, decode inserts, produce, confirm a position | crash between produce and confirm, a failed produce, late delivery reports | no committed record is lost, records of a key keep their order |
| **Outbox senders** (`transactional-outbox-gruelbox`, `-tobby`) | the outbox table, Kafka | send now, else schedule | what is sent when the surrounding transaction rolls back, double delivery | a message is delivered at least once when its transaction commits |
| **Note collaboration** (`realtime-collaboration`) | per note: open sessions, the recorded updates; per tab: the texts, who is present, who leads | open, replay, save and broadcast, close; type, delete, merge; announce, renew, remove, lead | updates that arrive between joining and replaying, a note dropped while a session joins, a log at its limit; items and deletions in any order; removals that cross renewals | nobody misses an update; the text depends only on what was received and still waits; everybody sees the same tabs and one of them leads |
| **Feature toggles** (`spring-togglz-user`) | rows of features and parameters, a cache with expiry in front of them | get, set, per-user activation | a load racing a write, expiry, check-then-insert | a stale state is cached for few reasons, and not for good |
| **Money transfer** (`clean-architecture-example`) | balances, statements | transfer | guard of the update, partial failure | money is neither made nor lost |
| **Partition creation** (`sql-data-partitioning`) | the partitions of two tables | create the missing ones | a partition that already exists, two jobs at once | the horizon is covered without gaps |
| **Lock and map experiments** (`vanilla`) | monitors, concurrent maps | lock, compute | deadlock, lost updates | mutual exclusion |
| **Price service, cache, retry experiments** (`quarkus`, `caching`, `http-client-limiting`, `resteasy-examples`, `fault-tolerance`, Kafka consumers) | a cache or a counter each | small | staleness, limits | see hazards |

The rest are not modelled: they hold no state of their own (formatting, bean
mapping, annotation processing, byte code, image and PDF examples, command line
parsers), are configuration (`docker-swarm-*`, `k8s-*`,
`transactional-outbox-debezium`), or are vendored or generated
(`algorithms/**/simmetrics`, the ShardingSphere examples, the reports under
`sql-data-partitioning/docs`). `dist.js` of `realtime-collaboration` is a bundle
too, but the note is nothing without it: its provider, its awareness and its
text type are modelled, from its lines. `PROJECT.json` lists them with the
reason.

### How the components interact

The experiments do not call each other. Inside one, the interactions are:

* **workflow-temporal**: `SampleWalletJMX` starts a workflow in the Temporal
  server (a call); the server hands activities to the worker (tasks) and takes
  their results; activities save rows (shared database) and submit jobs to a
  thread pool (shared memory); jobs save rows and signal the workflow (message).
* **transactional-outbox-pglogrepl**: an application inserts rows (shared
  database); PostgreSQL streams them to the relay (messages) and takes the
  confirmed position back; the relay hands records to librdkafka (a call) and
  waits for the delivery report (a channel).
* **realtime-collaboration**: browsers and `NoteWsResource` exchange messages
  over one WebSocket per tab, and tabs of one browser over a BroadcastChannel;
  the handlers share two static maps.
* **spring-togglz-user**: request threads and the administration share the
  cache and two tables.
* **clean-architecture-example**, **sql-data-partitioning**: callers and jobs
  meet in the database only.

## The sample wallet pipeline

### Modules

| Module | What it holds |
|---|---|
| `SampleWallet` | the pipeline: state, actions, fairness, properties, and the mutated operators used to test the properties |
| `SampleWalletInvariant` | the inductive invariant `Inductive` and its named parts |
| `SampleWalletProofs` | one lemma per part of the invariant, one step per action; the theorems |
| `SampleWalletOutcomes` | a second invariant, `Accountable`: who may write which row, and what; a third, `InvestedOnce`, for pipelines whose attempts are not repeated |
| `SampleWalletOutcomeProofs` | its proof, and the theorems that follow from it |
| `MCSampleWallet` | instances for TLC, five configurations |

### State

* `wallets`, `investments`, `candidates`: the three tables, id to row. A row
  keeps the columns the code reads back: investor and status; wallet and
  `created`; investment, status, `processed`, `attempts`. Dates and names of
  products are left out.
* `walletSeq`, `investmentSeq`, `candidateSeq`: the `AtomicInteger`s of
  `SampleWalletCreationActivitiesImpl`, which restart at zero with the process.
  An id "wallet-n" is n.
* `executions`: activity methods now running. Each has the workflow, the
  activity and the attempt it was started for, the ids it has saved so far,
  the wallet row it has read, and whether it has reached its return. There may
  be several for one workflow: the server gives up on an attempt after ten
  seconds, but nothing stops the thread that runs it.
* `creationJobs`, `candidateJobs`, `failedOnce`: the dispatcher.
* `step`, `attempt`, `started`, `walletId`, `investmentIds`, `candidateIds`,
  `candidateStatuses`: the workflow as the Temporal server remembers it: the
  activity it waits for, the number of the attempt, the results taken so far
  and the signals. The workflow code is replayed from that history, so this is
  the state of `SampleWalletCreationWorkflowImpl`. `processedCandidates` has
  the same keys as `candidateStatuses` and every signal carries `true`, so one
  map stands for both.
* `crashes`: a count, for the bound and for the properties that hold in the
  first life of the process only.

### Actions

`Start` is the JMX call. `PollActivity` hands an attempt to the worker. The
nine actions of `ActivityStep` are the statements of the six activity methods,
one step for each transaction: `walletService.save`, `findById` and their
like are separate `@Transactional` calls, so other threads run between them.
`Return` delivers the result; the server takes it only if it is of the attempt
it waits for (`Current`). `ActivityTimesOut`, `ActivityThrows` and
`ExecutionExpires` are the failures the retry options and the timeouts are
for. `AwaitCompletes` and `AwaitTimesOut` are the two ends of
`Workflow.await`. `RunCreationJob`, `SlowAttempt`, `FailedAttempt`,
`MatchCandidate`, `RejectCandidate` and `SignalProcessed` are the background
jobs, `CreationJobDies` and `CandidateJobDies` their silent ends. `Crash`
is a stop of the worker followed by a start: what is in memory is forgotten,
rows and workflow state remain.

The Temporal server, the worker's polling and the JVM's threads are not in the
repository: they are modelled from the options the code passes to them and are
marked external in the map.

### Fairness

Temporal's server keeps timers and redelivers tasks, so `PollActivity`, the
timeouts and the await's two ends are weakly fair. The threads of the worker
and of the dispatcher's cached pool are scheduled by the JVM, so the running
methods and jobs are weakly fair, per workflow. Nothing is promised of users
(`Start`), of faults or of crashes. After a crash nothing runs an attempt that
the server believes to be running: its timeout is then enabled without any
fault, and fair.

### Runs

| Run | Instance | Question |
|---|---|---|
| `wallet_faults` | one pipeline, one investment, two attempts, every fault but crashes | do zombie attempts, early timers, dead jobs and expiry break what the pipeline promises? |
| `wallet_restart` | one pipeline, a crash, timeouts and early timers, with fairness | is every result taken once, does the invariant survive restarts, and does every started pipeline close? |
| `wallet_ready` | two pipelines, the fail-first and always-slow policies, no fault, with fairness | do pipelines stay apart on one worker, are attempts counted as the policies say, do both end READY, and is a READY wallet what the test expects? |
| `wallet_reused`, `wallet_expires` | the smallest instance that shows it | two statements of the repository that the code does not keep (below) |

Bounds. One investment instead of three for each pipeline: a retry of
`createInvestments` or two pipelines give two rows, two candidates and two
jobs, which are what the fan-in, the policies (one candidate fails first, one
is always slow) and the sequences can tell apart. Two attempts instead of
three tell a zombie from a current attempt. `MaxConcurrent` bounds how many
methods run at once (the worker's option has a bound too), `MaxCrashes` the
restarts.

### What the repository says and the code does not keep

* *The workflow concludes only when all candidates are processed* (README,
  line 39). The sequences restart with the process: new pipelines overwrite
  rows of old ones. Run `wallet_reused`.
* *Conclude or abort the pipeline* (README, line 13). The execution timeout
  (`PT2M`) and the default await (120 s) are equal and the await starts later:
  the server closes the workflow first and the wallet stays CREATING. Run
  `wallet_expires`.

### Proofs

`SampleWalletProofs` proves, for any set of pipelines, any number of
investments, attempts, crashes and concurrent methods:

* `InductiveInvariance`: `Spec => []Inductive`;
* `TypeCorrectness`: `Spec => []TypeOK`;
* `FanInHolds`: `Spec => []FanIn`;
* `ResultsAreTakenOnceHolds`: `Spec => ResultsAreTakenOnce`;

and `SampleWalletOutcomeProofs`, from the second invariant:

* `AccountableInvariance`: `Spec => []Accountable`, and with the first
  invariant `SoundInvariance`: `Spec => []Sound`;
* `SignalsAreTrueHolds`, `ResultMatchesWalletHolds`, `PipelinesAreApartHolds`
  and `RetriesAreCountedHolds`: `Spec => []P` of the property each names;
* `ReadyWalletIsCompleteHolds`: `Spec => []ReadyWalletIsComplete`;
* `DecisionIsFinalHolds`: `Spec => DecisionIsFinal`;
* `InvestedOnceInvariance`: `Spec => []InvestedOnce`;
* `ReadyWalletAsTestedHolds`: `Spec => [](crashes = 0 => ReadyWalletAsTested)`,
  from the hypothesis `TriedOnce`.

`FanIn` is not inductive. That a pipeline past its await has all candidates
processed follows from two facts that have to be carried along: the await saw
a signal for each (`FanInPassed`), and whoever says "processed" is right
(`ProcessedIsTrue`): the signal, the job that is about to signal, and the
candidate's row, whose investment is created. The second holds because a new
row never replaces an old one, which needs the sequences to be ahead of every
row (`SequencesAreFresh`), and because ids that anybody remembers are ids of
rows (`WalletReferences`, `InvestmentReferences`, `CandidateReferences`).
Freshness fails after a restart, so those two parts are claimed for
`crashes = 0` only; the references hold always, rows being never deleted.
`ResultsAreTakenOnce` needs `ResultsAreOrdered`: no result is there before its
step. The assumptions used are the named ones of `SampleWallet`: every
pipeline has an investor, and the attempt limits are at least one.

`Accountable` is about writers, and holds in the first life of the process
only. A row belongs to the attempt that saved it, later to one pipeline
(`WalletsApart`, `InvestmentsApart`, `CandidatesApart`). A pipeline decides
once: methods of `finish` and of `abort` never run for the same one, not even
as zombies (`DecidersAgree`), so what one of them has read and will save again
is still good (`DecidersKnow`), and the status of the row is what the step
allows (`WalletsDecided`). This is why `finish` may save a whole row that it
read in an earlier transaction. A candidate has one job, from when all rows of
the attempt are saved until it is signalled (`CandidatesReported`), and the
row counts that job's attempts (`AttemptsCounted`).

`ReadyWalletIsComplete` rests on two more parts of it: a complete result of
`createInvestments` has one row of the pipeline's wallet for each base
investment (`InvestmentsOwned`), and a complete result of `createCandidates`
has a candidate for each of those (`EachHasCandidate`). With `FanIn` all of
them are created. It holds whatever attempts are lost and repeated.

What `SampleWalletCreationWorkflowTest` asserts (lines 89 to 91) is more: the
wallet has *no other* investments. That is false where an attempt of
`createInvestments` is repeated, because the new attempt takes new ids and
leaves the rows of the one before it behind. `ReadyWalletAsTested` is therefore
proved, and checked, from `TriedOnce`: the retry option allows one attempt, or
nothing makes an attempt fail. The code's option is three attempts, so for the
code it is the second. Its invariant `InvestedOnce` says that then a pipeline
has one method of `createInvestments` at most, as long as it is open
(`OneAttempt`), and that a wallet's rows are those of that method and later of
the result (`NoOtherInvestments`).

Only model-checked: the liveness properties, which are out of the prover's
reach.

## The outbox relay

### Modules

| Module | What it holds |
|---|---|
| `OutboxPromise` | what any outbox relay promises: a record is released only when it is published or given up aloud |
| `OutboxRelay` | the relay, PostgreSQL's slot, librdkafka and the topic; properties; `Promise`, the refinement mapping |
| `OutboxRelayInvariant` | the inductive invariant `Inductive`, and a second one, `RepeatsCounted`, on top of it |
| `OutboxRelayProofs` | the proof of the first, the safety properties and the refinement |
| `MCOutboxRelay` | instances for TLC, two configurations |

### State and actions

The change stream is a sequence, `wal`, of rows and commits; a position in it
stands for an LSN and for the record inserted there. `confirmed` is the slot's
`confirmed_flush_lsn`, `lsn` the variable of `listenEvents`, `next` where the
server's stream is. `requests` are records that librdkafka has accepted, with
whether the broker has written them and whether the process that waits for the
report is gone. `topic` is the log of one partition: order is promised per key
only, and records of one key share one partition.

`Start` is `main` up to the loop; `SendStandbyUpdate` is the top of the loop,
and `Produce`, `ReceiveCommit` and `ReceiveUndecodable` are its messages.
`DeliverySucceeds`, `DeliveryFails`, `SendTimesOut` and `LateReport` are the
ends of `Send` in `kafka/producer.go`: the last is a report sent on the channel
that `Send` has closed after ten seconds, which panics and ends the process.
`Kill` is any other end. After an end, a record on the wire may still reach
the topic (`OrphanAppended`).

### Runs

| Run | Instance | Question |
|---|---|---|
| `relay_faults` | rows that can and cannot be decoded, every fault, two of them | is anything confirmed that is neither in the topic nor in the log of failures? is order kept? does every repeat have a fault that explains it? does the relay keep the promise? With fairness, does the slot follow the stream to its end? |
| `relay_streamed` | one streamed transaction | is it relayed, as the comment says? (it is not) |

Bounds: four positions (`MaxWal`) hold two transactions, or one of several
rows. `MaxTopic` 8 and `MaxRequests` 6 leave room for every repeat that two
faults can cause: a full topic would be a stop of the model's own, and refute
the liveness for no reason of the code's. Two faults are the least that make a
repeat go wrong again.

`RepeatsHaveACause` is about streams of decodable rows: a row that cannot be
decoded ends the process at every restart, and what was read before it and
not confirmed is repeated each time. Since the deadline of ten seconds starts
again with the process, such a row can keep even earlier transactions
unconfirmed.

Fairness: the loop of the process runs, librdkafka retries until it reports,
the broker writes, and whoever supervises the process starts it again.
Transactions and faults are not promised.

### What the repository says and the code does not keep

* *Whenever we get StreamStartMessage we set inStream to true* (`main.go:47`).
  Nothing sets it, and `process` has no case for the message: the first row of
  a streamed transaction ends the process, again at every restart. Run
  `relay_streamed`.

### Proofs

For every set of transactions, every choice of faults and all bounds:
`AlwaysInductive`, and from it `AlwaysTyped`, `NothingLostSilently`
(`ConfirmedIsSettled`), `WholeTransactions` (`ConfirmsWholeTransactions`),
`OrderedFirstCopies` (`FirstCopiesInOrder`) and `RelayKeepsPromise`, the
refinement of `OutboxPromise`.

`ConfirmedIsSettled` is not inductive: `confirmed` takes its value from `lsn`,
and `lsn` from `next`. `SettledBehind` says that everything behind `next` but
the record being sent is settled, which is what makes each of those steps
safe; `CommitsOnly` says the same of transactions' ends. `FirstCopiesInOrder`
needs `RequestsInOrder`, because a record of a process long dead may be
appended at any time: when it was produced, all before it was settled, and
that cannot be undone.

`AlwaysCounted` is `Spec => []RepeatsCounted`, and gives `RepeatsAreCaused`,
`Spec => []RepeatsHaveACause`. To bound the copies of a record one has to bound
those that may still come: the requests the broker has still to write, the one
the process (or the next one) will send, and the end of the process that a late
report will bring about, which makes the next one send records again. `Load`
adds the four, and no record's load ever exceeds one and the number of faults:
a step that makes one copy more likely takes another one's place, or is a
fault. That the process sends a record once (`LivingSentOnce`), and that a late
report follows a fault, are needed to say whose place it takes.

Only model-checked: `EventuallyConfirmed`, which is liveness.

## The notes

One note is modelled three times, because three things can go wrong that have
little to do with each other: whether messages get to everybody, whether the
same messages give the same text, and who is present. The first is the
server's (`NoteWsResource`), the other two are the browsers' (`script.js` and
the libraries in `dist.js`).

### Modules

| Module | What it holds |
|---|---|
| `NoteServer` | the handlers of `NoteWsResource`, and the sync protocol of the browsers |
| `NoteAgreement` | the invariant behind agreement: how questions and updates pass between two browsers |
| `NoteServerProofs` | that nobody misses an update, and that browsers agree: both invariants are inductive |
| `NoteText` | one text of the note in every browser: the list of items and how updates are merged into it |
| `NoteTextInvariant` | its inductive invariant: what a list of items looks like, and what is known of what waits |
| `NoteListProofs` | lemmas about sequences, positions in them, and the loop of `Item.integrate` |
| `NoteTextProofs` | that every step preserves the invariant, and what follows from it |
| `NotePresence` | awareness: who is present, in each tab's view, and which tab leads |
| `NotePresenceProofs` | its inductive invariant and the safety and action properties |
| `MCNoteServer`, `MCNoteText`, `MCNotePresence` | instances for TLC |

The three fit together at two points. `NoteServer` takes a document for the set
of the updates it holds: `TextIsFunctionOfHeld` of `NoteText` allows that as
long as the two browsers also have the same items waiting, which is not always
so (see *What the repository says* below). `NotePresence` takes the server for one that passes a message on to the
sessions open at that moment: `BroadcastToOthers` is that handler in both.

### The server: `NoteServer`

`sessions` and `updates` are the note's entries in `NOTE_SESSIONS` and
`NOTE_UPDATES`; `pc`, `handling` and `holding` are where the handler of each
session is, the message it has taken, and whether the deque it has found is
still the one in the map. `toServer` and `toClient` are the two directions of
a WebSocket, in order. A message is a question ("what do you have that I
lack?") or an answer.

The container runs the handlers of one session one after the other and those
of different sessions in parallel, so `OnOpen`, `OnBinary` and `OnClose` are
split where they touch the maps: add the session, replay; find the deque, add
to it, broadcast; remove the session, look whether any is left, remove the log.
The browser's side is what `script.js` gets from its provider: ask on
connecting, send edits while connected, merge answers, answer questions. The
provider asks again only when it reconnects.

A session may break and lose nothing, or what it had on the way
(`LoseConnection`); a tab may be closed with its document (`CloseTab`); the
server may lose both maps (`Crash`).

Text pings and snapshots, and `NoteResource`, change nothing on the server and
are left out.

### The text: `NoteText`

Yjs keeps a text as a list of items that are never taken out, only marked as
deleted. An item is one character here, named by its client and clock; `items`
remembers for each which two it was typed between, `list` is a replica's order,
`deleted` its marks. `FindLeft` is the conflict rule of `Item.integrate`: a
recursive function, `found`, whose value at a position is what the loop knows
after it has looked there (`Look` is one round). `Edit` is the editor (type, delete,
replace), `Replace` the input listener of title and tags, which deletes
everything and types the new value.

`Read` to `FinishReading` are `readUpdateV2`: what is there already is dropped,
an item that `WaitsFor` another one is kept in `pendingStructs`, the clocks that
`integrateStructs` notes down for what is left, `MissingOf`, in `missing`, a deletion of an unknown item in `pendingDs`, and
when something that was waited for has come, all of the pending is read again.
Updates reach a replica in any order, more than once, alone (`ReceiveUpdate`)
or in the answer to a sync question (`ReceiveAnswer`).

Reading is not interrupted by another replica's step: replicas share nothing,
so this changes no reachable state of one. In what order the items of one
update are integrated is left open; in what order those that are left were
tried is not, since that decides which clocks are noted. Left out are formats, the search markers and the
merging of neighbouring items (representations of the same list), the garbage
collection of deleted contents, and undo.

### The presence: `NotePresence`

Each tab has, for every client it has heard of, a clock (`clocks`) and perhaps
a state (`states`); what a state says is left out. `OpenTab` is the run of
`script.js`; `Connect` is `onOpen` of the server with the provider's `onopen`,
where the tab announces itself with the clock it has. `ApplyAwarenessUpdate`
is the merge: an entry is taken if its clock is newer, or the same and it
removes what is there; the tab that reads of its own removal keeps its state
and outbids the clock; what was taken is sent on, over the socket and to the
other tabs of the browser over the BroadcastChannel, which also carries the
questions of tabs just opened. `Renew` is the renewal every fifteen seconds,
`TimeOut` the removal after thirty, `LoseConnection` the close of a connection,
which removes everybody else, and `CloseTab` a tab that tells nobody.
`EvaluateLeadership` runs on a "change" event only, as in the code: whether
that is often enough is what `FollowsSmallestSeen` asks.

Two reductions keep it finite. An entry that its reader would not take is left
out when it is sent (`Matters`): it would not be taken later either, since
clocks never go back, which is `ComesBackNewer`, and proved. And a renewal that
nobody needs only moves clocks: `MaxClock` bounds those, while one that is
`Overdue` (somebody within reach does not see the tab, and nothing on its way
will change that) is never held back.

### Runs

| Run | Instance | Question |
|---|---|---|
| `notes_rest` | two browsers, three sessions, one edit, a log of four, one fault of any kind | does every recorded update reach everyone? when the note is at rest, do the browsers agree whose questions are recorded? is `Convergent` an invariant? |
| `notes_dropped` | the same with an edit made offline and two lost connections | do connected browsers agree when the note is at rest? (they do not) |
| `text_converges` | three browsers, two with two characters and one with one, three updates | do all replicas order their items alike, show the same for the same updates, keep words whole, lose nothing they receive, and know what they wait for? is `Inductive` an invariant? |
| `presence_settles` | three tabs, in one browser or two: two that are opened, or three present; one fault of any kind; with fairness | does everyone follow the smallest it sees, does a removal ever outlive a renewal, and do all see the same in the end, one of them leading? |

Bounds. `notes_*`: the third session is what a reconnection needs, and the
dropped log another; a log of four can overflow within the run. Nothing there
is assumed fair: agreement is claimed of the states in which nothing is on its
way, not that they are reached. `text_converges`: words of two typed at the
same place by two clients are the least that can be mixed, and a third client
is what tells the conflict rule from simpler ones that order two clients
alike; three updates come in six orders, and with answers in more. An instance
with four updates of shorter words holds too and is too slow to keep.
`presence_settles`: a tab that is removed, a tab that removes it and a tab that
hears of both in either order are three; one removal by mistake is what every
crossing starts from.

Fairness of `presence_settles`: messages on an open connection or a channel
arrive, the provider reconnects on its own, and the check interval runs in every
tab, so that closed tabs are timed out and an overdue renewal is made. Nobody
has to open or close a tab, and no fault has to happen.

### What the repository says and the code does not keep

* *Real-time editing for several users* (`README.md:4`). When the last session
  closes, `onClose` looks whether any is left and then removes the log. A
  session that opens in between has its question removed with it; a browser
  that joins later with edits made offline is never asked for them, and the two
  stay connected with different texts. Run `notes_dropped`.

* *All conflicts are handled in the client* (`README.md:11`).
  `integrateStructs` (`dist.js:2394-2433`) puts aside the whole stack of items
  that wait for each other and notes a clock for the last of them only. Let
  the clients 2 and 3 type, and 1 receive what they type in another order:
  the second item of 3, typed before the first of 2, and the third item of 2
  arrive; the first of 3, so that both are tried again, now on one stack, and
  only "2 has a second item" is noted; the first of 2: what 3's second item
  needs is there, but nobody looks; the second of 2, which was typed behind
  3's second and so waits itself, and is noted as waiting for that. Nothing is
  on its way any more and 1 shows two characters of five. It stays so until
  another browser answers a question of 1, with all it has. (This is about the
  replica, to which `NoteText` lets updates come in any order, as Yjs promises
  to cope with; how often the server's order does this is not examined.)
  `SameUpdatesSameText` says that this does not happen, `LateSpec` of
  `MCNoteText` is the part of `Spec` in which it does, and
  `tlc -config MCNoteTextLate.cfg MCNoteText.tla` shows it in 28 states; it is
  beyond the bounds of `text_converges`, where it would need five updates. What
  holds instead, and is proved, is `TextIsFunctionOfHeld` and
  `WaitsForSomething`: browsers with the same updates differ by what waits at
  most, nothing is lost, and whoever waits has noted a clock it has not reached.

### Proofs

`NoteServerProofs`, for any number of browsers, sessions, edits and faults and
any limit of the log: `TypeIsOK` and `NobodyMissesAnUpdate`
(`Spec => []ReachesEveryone`). A recorded update reaches a session because its
`onOpen` adds it before it replays (`Joined`): whoever broadcasts finds it,
and whoever has recorded before is replayed. The browser that sent an update
holds it (`SentIsHeld`), and the message in a handler is one that was sent
(`HandlesMessage`).

The same module, under the same assumptions: `BrowsersAgree`
(`Spec => []AnnouncedAgree`), by way of `NotesConverge`. `AnnouncedAgree` speaks
of the note at rest only; `Convergent` says what holds on the way there, of any
two connected browsers, one that holds something and one that may lack it.
While the server remembers the other's question and has broadcast it, either
the question is on its way to the one, or everything the one holds the other
gets, or the one has told it (`HeldIsPassedOn`). To keep that when a browser
merges what it receives, everything on its way to it must be on its way to the
other too, or be followed by the other's question (`SentIsPassedOn`): this is
where the order of messages on a connection matters, and that the session is
added before the replay. What a question says its browser knows, it still knows
while its session is open (`Honesty`), so an answer that leaves that out is
complete; and until `onOpen` has returned the question of a session waits for
its handler (`AsksAfterOnOpen`), so it cannot be broadcast before the session
receives broadcasts. At rest nothing is on its way or asked, and what is left of
`HeldIsPassedOn` is that each holds what the other does. The limit of the log
needs no assumption: a question that is forgotten is no longer `Announced`.

`NotePresenceProofs`, for any number of tabs, browsers, renewals and faults:
`TypeIsOK`, `NobodyIsAhead`, `SmallestIsFollowed`, `OnlyNewerComesBack` and
`NobodyIsLostFromSight`, one for each safety or action property of the run. The
invariant says of every message that it tells one thing of a client and nothing
the client has not said (`Believable`), of every tab that it is not ahead of a
client about itself, and, while there has been no fault, that nobody is gone or
said to be (`Peaceful`).

`NoteTextProofs`, for any clients and any bounds on items, words and updates:
`TypesHold`, `OrderIsTheSame`, `TextFollowsFromUpdates`, `NothingIsForgotten`
and `WordsHoldTogether`, one for each property of the run, and
`InductiveHolds`, the invariant they rest on. Its parts are:

* `EveryListWellPlaced`. This is what the conflict rule establishes, stated of
  a set of items, their positions and what they were typed between
  (`WellPlaced`). An item stands in its gap (`InItsGap`); what stands between an
  item and its origin was typed in there (`Nested`); of two items with one
  origin the smaller client's is first, unless the other was typed after it
  (`SiblingsInOrder`); and gaps nest (`RightStartsBefore`, `EndsWithin`,
  `LatestFirst`). There is only one place for an item in such a list:
  `SamePlace` says that two well placed lists that order what they share alike
  also have an item that is new to one of them on the same side of everything
  else (`NoneChangesSides`: the first item that had changed sides would share the
  new one's origin, and the last of those that do ends at another one). Since every replica integrates an item
  before anything that was typed next to it, `SameOrder` is kept.
* `ItemIntegrated` says that `FindLeft` puts an item where a well placed list
  stays one. The loop has the invariant `Looked`: of what was looked at, what
  belongs before the item is left of the place found so far, and what belongs
  after it is not. An induction theorem that takes an operator cannot be used
  here, so the induction is over a set of positions (`UpTo`), and that `found`
  satisfies its recursive definition is proved in the same way (`Recursion`).
* `TypedOutsideWords` and `WordsAreWhole`: the characters of a word arrive
  together and are integrated in one go, so nobody can have typed between two
  of them without seeing both. `WordsStayTogether` follows by taking, of the
  items between two neighbours that would end outside, the first.
* `NeedsAreThere`, `NeedsAreOlder`, `OwnNeighboursAreOlder`: a list holds what
  its items need, and needs have no cycle. From these, of any items that are
  left some one notes a clock (`SomethingIsMissing`).
* `Accounted` and `Awaited`: every item and deletion received is in the list,
  waiting or being read, and no clock that was reached stays noted.

Of a replica between two readings, the items and the deletions follow from what
it holds and what waits (`IdleReplica`); with `SameOrder` the list does, and the
text is what it shows of the list.

Only model-checked: `EventuallySettled`, which is liveness. That what waits comes
to be shown is not claimed of the text at all, for the reason given above.
## The feature toggles

### Modules

| Module | What it holds |
|---|---|
| `FeatureToggle` | one feature: its tables, the cache in front of them, the threads that ask and the edits |
| `FeatureToggleProofs` | the inductive invariant, and why a stale state has a cause |
| `MCFeatureToggle` | an instance for TLC |

### State and actions

`row` and `parameter` are the feature's rows in `TGZ_FEATURE` and
`TGZ_FEATURE_PARAMETER`; a value is named by the edit that wrote it. `cache` is
the entry of `LRUTimedInMemoryCache`: the object it refers to, and whether its
time to live is over. `objects` are the `StreamFeatureState`s, which keep the
row they were loaded from and each parameter from when it is first asked for;
one that nobody refers to is used again for the next load (`Free`,
`Collected`), so that there are finitely many. `reader` and `writer` say where
each thread is.

`Get`, `EvictExpired`, `Load` and `Put` are `getFeatureState` of
`CachingStateRepository` and of `JDBCStreamedStateRepository` behind it;
`GetParameter` and `StoreParameter` are `StreamFeatureState.getParameter`.
`SetFeatureState` to `Evict` are an edit: `UserSwitchStateRepository` writes the
state once for every parameter, each time the row first and then the parameter,
each of those by looking whether it is there and then inserting or updating, on
connections of their own, and evicts the entry after it. `Collides` is the
primary key. A statement may fail (`ReadFails`, `WriteFails`), and `Expire` is
the clock.

`Asks` and `Names` say which parameters a thread asks for and an edit writes.
The strategies only read the state and are left out; so is the limit of the
cache, 1256 entries, which the features of the program do not reach. An
operation on the `LinkedHashMap` in which the state keeps its parameters is one
step; what two threads do to such a map at once is a matter of `java.util`.

### Runs

| Run | Instance | Question |
|---|---|---|
| `toggle_cached` | two threads, one of which asks for the parameter; two edits, one of which writes it; no row yet; one failing statement; with fairness | when may a stale state be in the cache, and does it stay? |

A stale state is cached only while an edit is under way or after one failed half
way, or because its load was overtaken: the entry was evicted between the load
and the put (`StaleHasACause`). That is less than one would like, and what the
code gives; and it does not last: an entry expires, and though it is returned
once more then, it is not kept (`EventuallyFresh`).

Bounds: an overtaken load needs a thread and an edit, and a second thread to see
what it left; two edits that both find nothing collide at the primary key; one
parameter tells the two tables apart, and one failure is enough to leave an edit
half done. Fairness: threads that have begun go on, the feature is asked for
again and again, and time passes. Nobody has to edit, and nothing has to fail.

### Proofs

For any number of threads, edits, parameters and failures: `TypeIsOK`, which says
too that no load fills an object in use, and `StaleAlwaysHasACause`
(`Spec => []StaleHasACause`). A state is stale from when a table is written until
the edit evicts (`WroteIsDirty`), so an object that becomes stale has a dirty
writer; when the writer evicts, the entry is gone and the loads that run are
overtaken (`LoadingIsExcused`). A parameter on its way into the cached object
(`StoringIsExcused`) is excused alike, and an object that is being loaded is
nobody else's (`OwnUntilPut`).

Only model-checked: `EventuallyFresh`, which is liveness.

## What is checked, proved and left out, in short

| Module with proofs | What it proves, for all values of the constants |
|---|---|
| `SampleWalletProofs` | `Inductive`, `TypeOK`, `FanIn`, `ResultsAreTakenOnce` |
| `SampleWalletOutcomeProofs` | `Accountable`, `SignalsAreTrue`, `ResultMatchesWallet`, `PipelinesAreApart`, `RetriesAreCounted`, `ReadyWalletIsComplete`, `DecisionIsFinal`, `InvestedOnce`, `ReadyWalletAsTested` (where no attempt is repeated) |
| `OutboxRelayProofs` | `Inductive`, `TypeOK`, `ConfirmedIsSettled`, `ConfirmsWholeTransactions`, `FirstCopiesInOrder`, `RepeatsCounted`, `RepeatsHaveACause`, the refinement `KeepsPromise` |
| `NoteServerProofs` | `TypeOK`, `ReachesEveryone`, `Convergent`, `AnnouncedAgree` |
| `NoteTextProofs`, with `NoteListProofs` | `Inductive`, `TypeOK`, `SameOrder`, `TextIsFunctionOfHeld`, `WordsStayTogether`, `WaitsForSomething` |
| `NotePresenceProofs` | `TypeOK`, `NobodyAheadOfOwner`, `FollowsSmallestSeen`, `ComesBackNewer`, `StaysInSight` |
| `FeatureToggleProofs` | `TypeOK`, `StaleHasACause` |

Each of them is checked by a run first, the invariants `Inductive`,
`Accountable` (both as `Sound`), `InvestedOnce`, `RepeatsCounted` and `Convergent`
too. The assumptions are the named ones of the modules: what sets the constants are of, and the lower bounds the code
needs.

Only model-checked:

* the liveness properties, since the prover handles neither fairness nor
  ENABLED: `EventuallyClosed` and `EventuallyReady` of the pipeline, `EventuallyConfirmed`,
  `EventuallySettled`, `EventuallyFresh`.

## Not modelled

* **Money transfer**, **partition creation**, **outbox senders**, **lock and map
  experiments**: each is a transaction or a loop of a few statements. Their
  hazards are listed in `PROJECT.json` at their lines, without a property.
* **Two-level cache, connection terminator, checkout, consumers, quarkus and
  micronaut examples**: they show how a library is called, and what can go wrong
  is the library's (the http client's pool, the broker's rebalancing, the
  framework's transactions).
* **Most of `dist.js`**: ProseMirror, the parts of Yjs for maps, XML, undo and
  the second encoding, `lib0`. The note uses three plain texts; the editor's
  rendering and positions of cursors are not about what is kept.
* **The reports under `sql-data-partitioning/docs`** (jQuery, Flot, the graphs
  of JMeter): generated pages with vendored scripts, by far the largest share of
  the JavaScript in the repository.
* Of what is modelled: formats and wordings everywhere; the contents of an
  awareness state and of a snapshot; the activation strategies of the toggles;
  the header and column decoding of the relay, of which only whether it works
  matters; two handlers at the limit of the note's log at once, which may drop
  one message more than the limit asks.

## Plan

Done, in this order: the pipeline with both its invariants; the relay, its
promise and the count of its repeats; the note's server, with the agreement of its browsers; its presence; its text;
the feature toggles.

Next, most important first:

1. `MoneyTransfer` (conservation, and the guard of the update, which compares
   with a negated amount for the debtor), `PartitionCreator` (the horizon is
   covered), `OutboxSender` (what is delivered when the surrounding transaction
   rolls back), `MapLock`: small enough to share one module of instances.
2. `SamplePromise`, an abstract pipeline that `SampleWallet` implements.
3. A tie between `NoteServer` and `NoteText` as a refinement, instead of the
   argument above.
