# A verification project for benchmark_v2

benchmark_v2 measures four blockchains - Quorum with IBFT, Quorum with Raft,
Tendermint and Stellar - by sending transactions at a fixed rate, waiting until
the chain has them, and putting a report together from what the nodes say and
what their logs say. The report is only worth what the coordination is worth:
processes started in the background, timers that do not wait for their own
callbacks, logs copied while they are written, equality tests on counters.
This directory holds TLA+ models of that coordination, their TLC runs, and
machine-checked proofs of the safety properties of every one of them.

## 1. The system and its parts

One *round* sends `rate * duration` transactions and ends with one report.
`benchmark.sh` runs a round per configured rate; `drawGraph.sh` turns the
reports into statistics and graphs.

| part | source | state it keeps | operations | talks to |
|---|---|---|---|---|
| Workload thread | `bin/workload.js` (Tendermint), `quorum/code/workload.js`, `stellar/code/workload.js` | counter `sent_txs`, reply log, one timer per period, one round timer | period tick, round tick, reply | nodes (RPC); log file |
| Quorum monitor | `quorum/code/txMonitor.js` | range `start_block_num`..`end_block_num`, `first_block`, report | start reads, polls, report loops | node 0, then all nodes; `report1.json` |
| Quorum round | `quorum/code/script/oneRoundTest.sh` (IBFT and Raft) and `quorum/code/postprocess.js` | files in `rec_data` | start workload and monitor, copy logs, post-process | all of the above |
| Tendermint application | `tendermint/code/abci/kvstore.go` | height, transactions of the block, commit log | Info, DeliverTx, Commit, restart | Tendermint Core |
| Tendermint round | `tendermint/code/oneRoundTesting.sh`, `merge.js`, `post_process.js` | thread logs, `transaction_log.json`, copied commit logs, report | threads, merge, copy, post-process | workload threads, application logs, node 0 |
| Stellar monitor | `stellar/code/monitor.js` | range, `first_ledger`, report | start read, polls that also report | Horizon of all nodes; `report1.json` |
| Stellar round | `stellar/code/oneRoundTesting.sh`, `post_process.js`, `createAccount.js` | files, accounts | create accounts, copy logs, post-process | Stellar monitor |
| Document tracking | `raft/code/doc-tracking/*` | as Quorum, plus contract counters and nonces | register accounts, create and log documents | as Quorum |
| Calculators and graphs | `bin/*cal*.js`, `bin/draw*.sh`, `tendermint`/`stellar` copies | statistics file, time bound | statistics of one rate, graphs of all | reports |
| Micro monitor | `bin/Monitor.py`, `killQuorum.sh` | last second sampled, buffered rows | one sample per second; kill, wait, copy | operating system |
| Configuration | `modconfig.js` | zones and addresses in `configure.json` | rewrite them at the start of a round | the round scripts, workloads and monitors, which read the file |
| Generators, plots | `generate_raw_tx.go`, `generateTxs.js`, `genRawTransaction.js`, ... | input files | sequential producers | - |

### What is hard here

- **Async callbacks under `setInterval`.** Every poll is an async callback with
  several awaits and the interval does not wait for it. Polls overlap and their
  continuations run in any order; a late one still writes to the shared range.
- **Two reads that belong together are not atomic**: height and balance.
- **Races between processes**: the start balance is read while the workload runs;
  logs are copied in the background behind a fixed `sleep`.
- **Equality tests on counters** (`===`): whoever steps over the value never stops.
- **Lagging nodes**: `getBlock` answers `null`, Horizon answers 404, nobody
  handles either.
- **Files of earlier rounds** that a failing step leaves for the next one, and a
  configuration that is read before it is brought up to date.
- **Restarts** of Tendermint nodes: a MemDB and a log truncated at start.

Every hazard is listed with its line in `PROJECT.json`, with the properties that
would catch it.

### What makes each part correct

- Workload: the round's load is sent exactly, every reply is in the file, the thread ends.
- Monitors: a round is never declared over early; the report's range contains the
  round; the report is complete for its range and in the order its readers
  assume; the monitor ends.
- Post-processing: a report that is written has every transaction of the round,
  each in its block; what prevents a report is known.
- Application: the commit log agrees with the chain, at any time, after any restart.
- Calculators: the columns of the statistics belong to the rates of the header.
- Micro monitor: it samples on while the node runs, ends with it, and leaves whole files.
- Configuration: a node is reached in the zone of the address that the workload uses.

## 2. The modules

| module | models | notes |
|---|---|---|
| `CompletionDetection` | what any round asks of its monitor | abstract: seal, declare; `over => sealed >= Target` |
| `Nodes` | the number of nodes in `configure.json` and their numbers | extended by `ReportLoops` and `Configuration` |
| `ReportLoops` | the order in which a Quorum monitor asks for blocks, and the entry it makes | extended by `TxMonitor` and `DocTracking` |
| `TxMonitor` | `txMonitor.js` | `Next` is it with any workload; implements `CompletionDetection` |
| `QuorumRound` | workload threads, round script and `postprocess.js` | extends `TxMonitor`, whose `NetworkOrMonitor` is one of its actions |
| `Workload` | `bin/workload.js` | real-time model of the timers |
| `KVStore` | `kvstore.go` | |
| `TendermintRound` | round script, `merge.js`, `post_process.js` | extends `KVStore`, whose actions are its network |
| `StellarMonitor` | `monitor.js` | implements `CompletionDetection` |
| `StellarRound` | round script and `post_process.js` | extends `StellarMonitor`, whose `Next` is one of its actions |
| `StellarLoad` | `createAccount.js`, `workload.js` | what there is to send: `Supply` and `Target` of `StellarMonitor` |
| `DocTracking` | `doc-tracking/*` on Raft | preparation, threads, monitor, report |
| `Configuration` | `modconfig.js` and the scripts' use of its result | |
| `Statistics` | the calculators, `drawGraph.sh`, `benchmark.sh` | what becomes of the rounds' reports; extends `Configuration`, which each round updates |
| `MicroMonitor` | `Monitor.py`, `killQuorum.sh` | a clock, a loop that may be late, and the end of the node |
| `MC*` | | small instances for TLC |
| `CommonLemmas` | | lemmas about the report loops, sums over functions, and finite sets of numbers |
| `QuorumRound_proofs` | | theorems about `TxMonitor` and `QuorumRound` |
| `TendermintRound_proofs` | | theorems about `KVStore` and `TendermintRound` |
| `Stellar_proofs` | | theorems about `StellarMonitor`, `StellarRound` and `StellarLoad` |
| `Workload_proofs`, `DocTracking_proofs`, `Statistics_proofs`, `MicroMonitor_proofs` | | theorems about the module of that name; `Statistics_proofs` also about `Configuration` |

### TxMonitor

`sent`, `chain`, `imported` are the network: transfers submitted, the chain as
node 0 has it, and how far the other nodes follow. A block is represented by
the balance of the receiving account after it, which is all the monitor reads
of it. `pc` is the place of `main`; `polls[p]` is the callback `p`, with the
await it is at (`height`, `balance`, or `tail` when the last answer is on its
way) and the answers it holds. The rest are the variables of the program by
their names.

`StartPoll` is the timer, `PollHeight` and `PollBalance` are answers of node 0,
`PollTail` is everything after the last await: it may set the first block, set
the last block, clear the interval and, if it is the first to complete the
round, release `main`, whose loop runs to its first `await` in the same turn.
Each `await getBlock` of the loops is one `ReportBlock`; `ReportBlockFails` is
the `TypeError` on a `null` answer or on an entry node 0 did not make.
`PollRejected` and `MainRejected` are RPC calls that fail; nothing in the code
handles them, and an unhandled rejection is a warning in the Node.js versions the
code was written for. The `getBlock` inside a poll reads a sealed block, so its answer
does not depend on when it comes and it has no action of its own. Two history
variables serve the properties: `polled`, the blocks with transactions that some
poll took for the current one, and `overlapped`.

`Supply` is what the workload really submits and `Target` what the monitor waits
for; they differ when sends fail. `Next` is `Submit`, a workload that sends the
supply one by one, or `NetworkOrMonitor`.

### QuorumRound

The workload is made of threads here. Thread `i` takes transactions from the
generated file one after the other, beginning at its slice - which the script
sets to 0 for each thread, inside the loop. `Send` submits one; the chain keeps it
only if no thread has submitted it before (`Fresh`). `SendFails` is a send that is
rejected: `next` moves on, since the `try` around a promise catches nothing, and
a transaction beyond the end of the file fails in the same way. A setting is a
number of threads and a number of transactions generated.

The script waits for the monitor to *exit* (`MonitorExits`), which a monitor
that failed never does because its sockets are open. Copies of the logs are
`none`, `partial` (the file is there, some lines are not) or `whole`, and
progress independently of the script: `SleepEnds` may come before any of them.
`postprocess.js` writes only after its last line has been handled, so its whole
run is one action, with `k` the number of lines a partial copy has.
`CanEnter`, `CanSetTime` and `Kept` are its three passes over the report.
`PostprocessFails` is a line without a log, a block or an entry;
`PostprocessRejected` is the call for a transaction's block that node 0 does not
answer, which counts as one of the failing calls. `readWhole` records whose logs
were whole when they were read, so that the properties also speak of reports made
from partial copies. IBFT
logs have no `Mined block` lines; on Raft one minter is assumed (no leader
change), which is also what the numbering `block_${j+1}` relies on.

### Workload

Time is a number of steps of `1/Unit` second. Each timer has the time left until
it is due, and `Elapse` lets a step pass if no timer that is due would wait for
more than `MaxLag` and no reply for more than `MaxReply`. A timer that fires is
set again from the moment it fires, as in Node.js, so periods drift. All
periods share `sent`, as in the code. `sleep` is chosen initially from `Sleeps`:
with one that covers the drift (`Prompt`) the periods of a round follow one
another, with none they overlap. The log file is written at the round timer's
tick with what has been answered by then. The other workloads have the same
timers; they differ in the call that sends and in having no log.

### KVStore and TendermintRound

Core executes decided blocks in order on each node: `DeliverTx` per transaction,
then `Commit`, which counts the block and appends a log line if it had
transactions. `Restart` empties state and log; since `Info` reports no height,
Core replays from block 1.

`TendermintRound` adds the threads, whose files appear when they end
(`ThreadEnds`; late replies are missing), `merge.js` (reads and removes the files
one by one and stops at a missing one), the copies of the commit logs, node
after node while the network goes on, and `post_process.js`. A copy may fail and
leave no file, or break off behind some lines (`CopyFails`, recorded in `broken`);
the script goes on in each case. `post_process.js` then fails for want of the file,
or makes a report with fewer commit times; it also fails when node 0 rejects a call
(`PostProcessRejected`). Initially, files of
an earlier round may be there. The five seconds of sleep and the round timer's
period are not relied on: `Merge` may run before background threads end.
`REPEAT` is 1, the only value the script passes.

### StellarMonitor and StellarRound

As `TxMonitor`, except that a callback that ends the round goes on to walk the
ledgers itself (stage `report`, with the node and ledger it waits for), and
clears the interval only after the file is written. Callbacks started meanwhile
do the same on one shared `report` and `endLedger`. A ledger a node does not have,
or ledger 0 when no first ledger was seen, rejects and ends the callback only.

The script waits until the monitor has exited - its interval is cleared or was
never set, and no callback waits (`MonitorExits`) - and then copies the logs in
the foreground, so that, unlike in `QuorumRound`, they are whole or missing.
`post_process.js` loads the monitor's file or, if it wrote none, the one an
earlier round left (`Loaded`); transaction 0 marks what comes from there.

### StellarLoad

The accounts are made in three levels, each by requests that are all awaited
before the next level or batch begins. A request that fails counts as answered
(`Lose`), and so does one that Horizon gave up waiting for although its
transaction is still to be applied (`TimesOut`). A signer's next transaction
then has the same sequence number, and of two such rivals one is applied
(`Apply`). When creation has ended, each thread pays once from every account of
its slice. `rate` is chosen from `Rates`: one that the threads divide, one they
do not, one with more payments than accounts.

### DocTracking

`preprocess.js` (`Deploy`, `RegisterBatch`, `CreateFirstDocument`) is awaited by
the script; the threads and the monitor start behind it. An operation is an
account and a nonce. All threads use the accounts 2, 3, ... of the account file
and count nonces from 0, so operations of two threads are the same element of
`pool`. `Mine` executes an account's operations in the order of their nonces; the
contract's two counters are what has been executed by the creating and by the
logging accounts, and the monitor reads them one after the other. When it is
released it asks for blocks as `TxMonitor` does (`ReportLoops`), while callbacks
that were still in flight may move the range (`disturbed`). An odd rate makes
both loops of a tick turn for the half transaction.

### Statistics

A user runs `benchmark.sh`, runs `drawGraph.sh` on all rates or one, or edits the
configuration. A round of the benchmark replaces the result of its rate with
some element of `Results` - a report or none, and the lines of its micro
files - and calls `drawGraph.sh` for its rate; or it never ends (`TxMonitorHang`)
and the benchmark is killed. `Calculate` is a run of the calculator,
`Draw` the graph of one rate, with `end` as the script's variable.

`system` chooses the scripts. Quorum and Raft use those of `bin`, which calculate
behind each round and take the first configured rate as the one that begins the
file. Tendermint and Stellar have lists of rates in their scripts, calculate only
when `drawGraph.sh` is run, and know the first rate as the number 100
(`Hundred`). `core_cal.js` and `blocksize_cal.js` are copies that are run by hand,
in any order. The bound of a graph differs: computed and kept, the length of
`CpuMonitor`, or the configured one.

### Configuration

`modconfig.js` gives the nodes addresses, in turn in each zone of the configured
region. The scripts reach node `n` in zone `n % region_num` of the list they have
read: Quorum's before `modconfig.js` runs (`ReadAndModify`), the others behind it
(`ModifyAndRead`). `Statistics` has one of the two in each round, and may edit
the region between benchmarks.

### MicroMonitor

`ahead` is the clock, in parts of a second since the second of the last sample
began. `Iterate` is the test `int(time.time()) == t + 1`; the timestamp is read
again by the next step, which may be in a later second. The four files are
buffered: `buffered` rows are in the process, and reach the disk when the buffer
is full or the process exits, which it does at the first sample of a dead node.
The loop has no deadline; instead of assuming one, `late` records that a second
went by in which no iteration began, and the properties say what holds as long as
it is false. `Wait` is the `sleep 5` between the kill and the copy.

## 3. The runs

| run | instance | checks |
|---|---|---|
| `TxMonitorIBFT` | IBFT, 2 nodes, 2 transactions, empty blocks, 2 polls, 1 failing call, fairness | `PolledBlocksAreInRange`, `RoundReturns` |
| `TxMonitorHang` | Raft, fairness | `AllDoneIsNoticed` is **violated** |
| `WorkloadTimers` | 2 per second, 2 periods of 3 s, no sleep or 2 s, drift of one step, up to 2 periods too many, 1 failing request, fairness | `ExactLoad`, `PeriodAccounting`, `RoundEnds` |
| `QuorumRoundRaft` | Raft, 2 nodes, 3 polls in flight, 1 failing call (of the monitor, a thread or post-processing), two threads or a file that is too short | `RoundTypeOK`, `NothingBelowStart`, `ReportRows`, `NodeZeroRowNeverFails`, the refinement `DetectionSpec`, `ReturnedLoadIsWhole`, `WrittenReportExact`, `PolledRoundIsWritten` |
| `QuorumRoundLastBlock` | Raft, one poll at a time | `LogsReachReport` is **violated** |
| `TendermintRoundFiles` | 2 nodes, 2 threads, 2 blocks, 1 late reply, 1 restart, 1 copy that fails or breaks off, rejected calls, files of an earlier round, Core is fair | `RoundTypeOK`, `SettledTimesByNode`, `ThreadsEndedNoStaleTime`, `NoOldReportIsCalculated`, `ReadyRoundSucceeds`, `LogMatchesChain`, `LogsCatchUp` |
| `StellarRound` | 2 nodes, 2 transactions, 5 ledgers, 2 callbacks, 1 failing request or copy, with and without an earlier round's report, fairness | `FileHasNoGap`, `WrittenReportIsOfRound`, `PolledRoundIsWritten`, `DetectionSpec`, `SeenRoundEnds` |
| `StellarLoad` | 2 start accounts, 2 accounts per transaction, batches of 2, rates 2, 3, 4 and 6, 2 threads, 2 s, 2 requests that go wrong | `LossIsContained`, `LoadMeetsTarget` |
| `DocTrackingRound` | 2 nodes, rates 1 to 4, 1 and 2 threads, 1 and 2 s, batches of 2, 2 callbacks, 1 failing request, fairness | `TypeOK`, `LoadIsRegistered`, `CompletionSound`, `ReportRows`, `EvenRoundReturns` |
| `StatisticsFile` | the six systems, 3 configurations of two rates each, with and without a bound, 2 regions of one and two zones, 3 nodes, 4 results, 4 starts by the user | `FileBeginsOnce`, `NodesAreAddressed`, `AllRatesCalculated`, `BenchmarkCalculated`, `FiguresAgree` |
| `StatisticsBound` | as above, 3 starts | `DefaultDrawsAll` is **violated** |
| `MicroMonitorLate` | thirds of a second, 2 files with buffers of 2 and 3 rows, time is fair | `StallsOnlyWhenLate`, `KilledMonitorEnds`, `CopiesAreWhole` |

The properties are stated and explained beside their definitions.

**Bounds.** `Poll` bounds callbacks in flight: two are needed for one to move the
range under another, three for two late ones. `MaxHeight` bounds the chain and
always leaves room for the transactions that remain (and, where the monitor needs
it, for an empty ledger after them), so that a bound never keeps a round from
completing. Two nodes are enough for one that lags; the order of more nodes is
covered by the proofs. `MaxFailures`, `MaxFaults`, `MaxLost`, `MaxLate`, `MaxBroken` and `MaxRestarts` bound
faults; each run that has one reaches every action that needs it. In `Workload`
and `DocTracking`, `Extra` bounds the periods started too many. Five ledgers leave
room for an empty one between the two with transactions and one after them.
`MaxTicks` is the longest duration in `DocTrackingRound`: an even rate is done by
then. With an odd one both loops of a tick turn once for half a transaction and
the log operations of the second are all rejected; the monitor is then released
only if creations alone add up, which the round of rate 1 shows. `MaxRuns` starts
are enough to edit the configuration between two benchmarks and to run
`drawGraph.sh` before and after; two regions, one a part of the other, tell the
zones apart. In `MicroMonitor` three parts of a second let the test and the
timestamp fall into different seconds, and more than three seconds behind the
last sample are all alike; two buffers that fill at different rows stand for four.
In `QuorumRoundRaft` the polls are interchangeable (symmetry; the run has no
liveness property). Deadlock is not an error in these
models: every process ends, or hangs in a way the properties are about.

**Fairness.** `TxMonitor!Fairness`: the workload sends, pending transfers are
sealed, node 0 answers what it is asked, and the event loop runs timers and
continuations that are ready. Nothing is assumed of lagging nodes there, which is
why `RoundReturns` also allows `main` to end on one, and a call may fail. `StellarMonitor`
needs in addition that Horizon takes ledgers in, since its polls retry until
it has, and `StellarRound` that the script goes on. `Workload` needs time to pass
and due callbacks to run. `TendermintRound` needs Core to execute what was
decided; restarts are bounded, not fair. `DocTracking` needs its processes to
run, timers to fire, nodes to answer and the chain to execute what is due.
`MicroMonitor` only needs time to pass: what depends on the loop being scheduled is
stated with `late`.

**What the violated runs show.**

- `TxMonitorHang`: `oneRoundTest.sh` starts the workload in the background before
  the monitor, and `start_balance` is read when the monitor's socket answers. A
  block of the round sealed before that is in the start balance, and
  `expect_balance === start_balance + max_txs_in_round` is never met: the
  monitor polls for ever and the script with it, although its comment says
  "check all transaction done" (`oneRoundTest.sh:82`). `RoundReturns` is the
  positive counterpart. `stellar/code/monitor.js:20` has the same race.
- `QuorumRoundLastBlock`: a poll reads the height first and the balance two awaits
  later. If the round's last block is sealed in between, the poll completes the
  round with a last block one too low; the report has no entry for the last
  block, and `postprocess.js:33` throws on its transactions, so that no
  transaction gets to the report. One poll at a time is enough.
- `StatisticsBound`: `drawGraph.sh` uses the configured bound `end` and, if it is 0,
  computes one (comments in lines 36 and 83); but line 125 assigns the result to
  `end` itself. Run on all rates, the bound of the first rate stays: a later rate
  with fewer lines has its plot fail on a line that is not there, and one with
  more is cut off.

## 4. The proofs

TLC looks at instances of two nodes and a few transactions. The theorems hold for
any number of nodes, threads, callbacks in flight, transactions, blocks, accounts,
rates, periods and restarts, and whatever the bounds on faults. Each safety
property that a passing run checks is the conclusion of one.

| module | theorem | about |
|---|---|---|
| `QuorumRound_proofs` | `TypeCorrect`, `CompletionIsSound`, `RaftReportStartsLowEnough`, `PolledBlocksAreReported`, `ReportRowsAreRight`, `NodeZeroIsSafe`, `MonitorImplementsDetection` | the monitor with any workload (`Spec`) |
| | `RoundTypeCorrect`, `RoundCompletionIsSound`, `RoundReportStartsLowEnough`, `RoundReportRows`, `RoundNodeZeroIsSafe`, `RoundImplementsDetection` | the same with the threads and the script (`RoundSpec`) |
| | `ReturnedLoad`, `WrittenReportsAreExact`, `PolledRoundsAreWritten` | the round |
| `TendermintRound_proofs` | `KVTypeCorrect`, `LogIsCorrect` | the application, whatever is decided (`KVSpec`) |
| | `RoundImplementsKV`, `RoundLogIsCorrect` | every round is a behaviour of `KVSpec` |
| | `RoundTypeCorrect`, `CommitTimesAreByNode`, `ReceiveTimesAreFresh`, `OldReportIsGone`, `ReadyRoundsAreReported` | the round's files |
| `Stellar_proofs` | `RoundTypeCorrect`, `FilesHaveNoGap`, `WrittenReportsAreOfRound`, `PolledRoundsAreWritten`, `RoundImplementsDetection` | the monitor and the round |
| | `LoadTypeCorrect`, `LossesAreContained`, `TargetIsMet` | accounts and payments |
| `Workload_proofs` | `TypeCorrect`, `PeriodsAreAccounted`, `LoadIsExact` | the timers of a thread |
| `DocTracking_proofs` | `TypeCorrect`, `AccountsAreRegistered`, `CompletionIsSound`, `ReportRowsAreRight` | a document round |
| `Statistics_proofs` | `TypeCorrect`, `FilesBeginOnce`, `AllRatesAreCalculated`, `BenchmarksAreCalculated`, `FiguresAreOfOne` | statistics files |
| | `NodesAreReached` | addresses and zones |
| `MicroMonitor_proofs` | `TypeCorrect`, `StallingTakesASecond`, `WholeFilesAreCopied` | sampling, and the end of a node |

**Assumptions** are the named `ASSUME`s of the modules; TLC evaluates them on every
run. Most only give the types of constants. The others are: in `QuorumRound`
that the workload and the monitor are given the same rate and duration, as the script
does (`Supply = Target`); in `StellarLoad` that batches divide the accounts of a
level, without which the code's loops read past its list of keys; in
`Configuration` that a region lists a zone once, and lists one; in `Statistics` that
a list of rates has no rate twice and is not empty (`IsInjective` is what makes "the
first rate" one of them), that a report is a list of blocks with a number of
transactions and a time, and that the value for a missing file is no file; in
`KVStore` that the transactions are a finite set.

**The common argument.** None of the properties is inductive: each speaks of what
came out, while a callback, a copy or a list in work decides on what it read some
steps earlier. Each module therefore begins with an inductive invariant whose conjuncts say
what such a thing may hold. Every conjunct is shown to hold initially and to be kept by
every action, one lemma per action or per conjunct; the properties follow.

- `TxMonitor`: `IInv`. What a poll has read, the chain has reached (`PollsSound`);
  so is the start balance, and once `main` is released the chain has the start balance
  plus `Target` (`StartSound`). On Raft the height is read before the balance, so every
  block below the start is in the start balance (`RaftStartSound`); on IBFT the
  first block is one with transactions (`IBFTStartSound`). The range and the block
  `main` waits for end in node 0's chain even behind a late poll (`RangeSound`). The
  report's rows are always in order, and filled as far as the loops have come until
  a late poll disturbs them (`ReportSound`). A block some poll looked at lies no higher
  than the one a later poll works with as long as they do not overlap (`TurnSound`), and
  whether they do or not only the poll that ends the round has seen the balance of its
  last block (`PolledSound`, `LastSound`).
- `QuorumRound`: `RoundInv` adds that one transfer is submitted for every transaction
  taken and none is taken twice (`LoadSound`), that balances rise along the chain,
  on Raft with every block (`ChainOrdered`), and that the script moves only when no
  poll is in flight (`ExitSound`). A monitor that returns has seen `Target` transfers,
  so `Target` different transactions were taken, all from the one slice that every
  thread begins with (`ThreadLoad`): with two threads there are not as many. What the
  monitor polled is then in its range (`RangeCovers`), so that a line of a whole log that
  finds no block is of a block no poll looked at. Its steps are steps of
  `NetworkOrMonitor`, of the workload, or leave the monitor alone, so `IInv` is not
  proved again.
- `KVStore`: `KVIInv`. `Commit` writes what the *application* counted while
  `LogMatchesChain` is about what Core has executed; `InStep` ties the two, across
  restarts too, because `Info` reports no height. `TendermintRound`: a round
  implements `KVSpec`, and `RoundInv` adds the files of threads
  that are done (`ThreadsSound`), the copies (`CopiesSound`), and that behind a settled
  network only empty blocks come, so logs copied at different times agree
  (`SettledSound`), and the copy of a `broken` one has no other blocks (`CopiesSettled`).
- `StellarMonitor`, `StellarRound`: a callback walks on from ledgers of which it has
  left none out (`WalkSound`), so the shared report has no gap whoever fills it
  (`GapsSound`); callbacks that do not overlap see ledgers in order (`InTurn`); the
  script has the logs of the whole round unless a copy failed (`ScriptSound`).
- `StellarLoad`: `LoadInv`. Two requests of a signer are under way together only if
  one has timed out (`RivalIsFaulty`: no two requests of a stage have the same
  signer, by arithmetic on remainders). So where a signer is `Clean` its accounts are
  made once its request is decided (`KeysMade`, `AccountsMade`). The slices of the
  threads are the multiples of `Share`, and come to `ThreadNum * Share`, which falls
  short of the target by what the division drops (`SharesOfRate`).
- `Workload`: `Inv`. There are a number `q` of periods that have cleared a timer and
  a number `k` of ticks of the current one that account for the shared counter
  (`Progress`). With a long enough sleep there is one timer, and what it has drifted is
  bounded tick by tick (`OnTime`).
- `DocTracking`: `DocInv`. Two counters are read one after the other, but neither goes
  down; with an even rate no account gets past the duration (`ThreadsSound`), so what
  was counted is the round's.
- `Statistics`: `StatInv`. A column is a function of the system, the results and the rate
  (`ColumnIn`), so that results of other rates can change under a file without a
  matter; what has been worked off a list is told by what is left of it (`Rest`),
  and the file behind `n` rates or rounds is determined (`FileBehind`,
  `FileOfRounds`). Addresses are compared by quotient and remainder.
- `MicroMonitor`: `Inv`. In a loop that is not `late` an iteration begins in the second
  after the last sample (`OnTime`).

The refinements map sealing to `Seal`, the release of `main` (or, on Stellar, the end
that a callback sets) to `Declare`, and everything else to a stutter.

The library's induction theorems take an operator as a parameter and cannot be
used here. Where a lemma needs induction - sums, columns of a file - it takes
the least number for which it fails (`HasLeast`) or the smallest set
(`HasSmallest`), both from the well-founded order of finite subsets.

**Only model-checked**: liveness - `RoundReturns`, `RoundEnds`, `LogsCatchUp`,
`SeenRoundEnds`, `EvenRoundReturns`, `KilledMonitorEnds` - since fairness and
`ENABLED` are beyond the prover. The violated properties of section 3 are shown
by their counterexamples.

**What the proofs changed in the models.** `PolledRoundIsWritten` of `StellarRound`
was checked with as many payments as the monitor waits for, and could not be proved
otherwise: with more of them the monitor is done before the last ledgers, whose
transactions are in the logs but not in its file. TLC confirms it with three payments
and a target of two, and the property now names the condition. Sums are written with
`SumFunctionOnSet`, and the columns of `Statistics` as a recursive function, since
nothing can be proved about `RECURSIVE` operators.

## 5. Not modelled

- Starting and killing nodes (but for the kill that `MicroMonitor` sees), the
  genesis and key files, plots: cloud commands and sequential file edits.
- Contents of timestamps: a timestamp is represented by the node it is from and,
  in `TendermintRound`, by whether it is this round's. Parsing of log lines is
  represented by the set of lines that are there.
- The chains themselves: external, as nondeterministic as the programs can observe.
- `CheckTx` and `Query` of the application: they change no state.
- The generators of keys and of Tendermint's transactions: they run to the end of a
  list and share nothing with what they prepare but its file. What follows from a
  list that is too short is in `QuorumRound` and `DocTracking`.
- `calculate.js` and `bin/blocksize_cal.js`, which print; `drawFail.sh`; the second
  pass of graphs of Tendermint and Stellar, which has other bounds.
- Post-processing of document rounds: the script runs `../postprocess.js`, which is
  not in `raft/code`; the one of Quorum is in `QuorumRound`. The branches of the
  document programs for consensus `quorum`.
- What a round does whose nodes were started in other zones than they are
  addressed in: that depends on the cloud project. `Statistics` lets it end in any way.

The type invariants of `Workload`, `StellarRound`, `StellarLoad` and `Statistics`
belong to no run: they are theorems.

## 6. Plan

Done: the modules of section 2, and a theorem for every safety property of the
passing runs. What could still be added: theorems about what is left out of
the properties' antecedents (a bound on how much of the load a failed account
request can cost; the blocks of an IBFT round whose polls overlap), and, should the
prover learn `ENABLED`, the liveness properties.
