------------------------------ MODULE DocTracking ------------------------------
(***************************************************************************)
(* src/raft/code/doc-tracking, under script/oneRoundTest-doc.sh: a round   *)
(* whose transactions are operations of a document contract.               *)
(*                                                                         *)
(* preprocess.js registers accounts in batches and creates document 1.  A  *)
(* tick of workload.js then makes half of the rate create documents and    *)
(* the other half log to document 1, each from an account of its own, all  *)
(* with the nonce of the tick.  txMonitor.js adds two counters of the      *)
(* contract, read one after the other, and waits for their sum.            *)
(*                                                                         *)
(* A chain executes an account's transactions in the order of their        *)
(* nonces, so that a transaction that is lost keeps the account's later    *)
(* ones out; and two transactions of one account and nonce are one.        *)
(***************************************************************************)
EXTENDS ReportLoops, Integers, FiniteSets, FiniteSetsExt

CONSTANTS
  Rounds,      \* the rounds considered: [rate, duration, threads, last], where last is the
               \* last configured rate, for which the registrations were generated
  BatchSize,   \* batch_size, 100 in the code
  MaxTicks,    \* bound on the ticks of a workload thread
  Extra,       \* bound on the periods a thread starts beyond the first
  Poll,        \* monitor callbacks that can be in flight at once
  MaxFailures  \* bound on the requests that fail

ASSUME DocAssumption ==
  /\ BatchSize \in Nat \ {0}
  /\ {MaxTicks, Extra, MaxFailures} \subseteq Nat
  /\ Rounds \subseteq [rate : Nat \ {0}, duration : Nat \ {0}, threads : Nat \ {0}, last : Nat \ {0}]

VARIABLES
  round,       \* the round: tx_rate, thread_num, and the rate registrations were made for
  prep,        \* preprocess.js: "deploy", "batches", "done", or "failed"
  batch,       \* batches it has sent
  registered,  \* the accounts that are registered, by their index in the account file
  thread,      \* thread[t]: a workload process: app.sent_txs, app.nonce, the period timers
               \* that are set, and whether the round timer is cleared
  pool,        \* the operations that have reached a node, <<account, nonce>>
  next,        \* next[a]: the nonce of account a that the chain executes next
  height,      \* blocks of node 0's chain since preprocess.js ended
  failures,    \* requests that failed so far
  pc,          \* txMonitor.js: "start", "polling", "report" and "done", or where main ended:
               \* "stuck" before the interval, "failed" in the report
  startBlock,  \* app.start_block_num
  endBlock,    \* app.end_block_num
  interval,    \* is the monitor's interval set?
  polls,       \* polls[p]: the callback p, where it awaits and the answers it holds
  node,        \* i and j of main's loops, while a getBlock is awaited
  block,
  report,      \* app.report
  disturbed    \* did a callback move the range after main was released?

prepVars == <<prep, batch, registered>>
loadVars == <<thread, pool>>
chainVars == <<next, height>>
reportVars == <<node, block, report>>
monitorVars == <<pc, startBlock, endBlock, interval, polls, reportVars, disturbed>>
vars == <<round, prepVars, loadVars, chainVars, failures, monitorVars>>

Thread == 1..round.threads
ThreadRate(r) == r.rate \div r.threads   \* thread_tx_rate, INPUT_RATE of a thread
Rate == ThreadRate(round)
PerRound(rate) == rate * round.duration  \* app.max_txs_in_round, with REPEAT = 1
Even(rate) == rate % 2 = 0
HalfUp(rate) == (rate + 1) \div 2        \* turns of each of the two loops of a tick

\* The accounts that create documents: private_key_list[i], which is the account i + 2 of the
\* file, whatever the thread.
Creators(rate) == {i + 2 : i \in 0..HalfUp(rate) - 1}

\* The accounts that log.  From half an odd rate on the loop counts in halves, and no key
\* and no connection has such an index: every one of its operations is rejected.
Loggers(rate) == IF Even(rate) THEN {i + 2 : i \in rate \div 2 .. rate - 1} ELSE {}

Senders == Creators(Rate) \cup Loggers(Rate)
Account == UNION {2..ThreadRate(r) + 1 : r \in Rounds}

\* What the contract answers: its documents, and the entries of document 1; preprocess.js
\* made one of each.
Docs == 1 + SumFunctionOnSet(next, Creators(Rate))
Logs == 1 + SumFunctionOnSet(next, Loggers(Rate))

Idle == [at |-> "idle", height |-> 0, logs |-> 0, docs |-> 0]

TypeOK ==
  /\ round \in Rounds
  /\ prep \in {"deploy", "batches", "done", "failed"} /\ batch \in Nat
  /\ registered \subseteq Nat
  /\ thread \in [Thread -> [sent : Nat, nonce : 0..MaxTicks, periods : 0..Extra + 1,
                            closed : BOOLEAN]]
  /\ pool \subseteq Account \X (0..MaxTicks - 1)
  /\ next \in [Account -> 0..MaxTicks] /\ height \in Nat
  /\ failures \in 0..MaxFailures
  /\ pc \in {"start", "polling", "report", "done", "stuck", "failed"}
  /\ startBlock \in 0..height + 1 /\ endBlock \in 0..height
  /\ interval \in BOOLEAN /\ disturbed \in BOOLEAN
  /\ node \in Node /\ block \in 0..height + 1
  /\ DOMAIN report \subseteq 1..height /\ \A b \in DOMAIN report : report[b] \in Seq(Node)
  /\ polls \in [Poll -> [at : {"idle", "height", "logs", "docs", "tail"}, height : 0..height,
                         logs : 0..Logs, docs : 0..Docs]]

Init ==
  /\ round \in Rounds
  /\ prep = "deploy" /\ batch = 0 /\ registered = {}
  /\ thread = [t \in Thread |-> [sent |-> 0, nonce |-> 0, periods |-> 1, closed |-> FALSE]]
  /\ pool = {}
  /\ next = [a \in Account |-> 0] /\ height = 0
  /\ failures = 0
  /\ pc = "start" /\ startBlock = 0 /\ endBlock = 0 /\ interval = FALSE
  /\ polls = [p \in Poll |-> Idle]
  /\ node = 0 /\ block = 0 /\ report = << >> /\ disturbed = FALSE

Fails(n) == failures + n <= MaxFailures /\ failures' = failures + n

------------------------------------------------------------------------------
(***************************************************************************)
(* preprocess.js.                                                          *)
(***************************************************************************)

\* The accounts genRawTransaction_doc.js made a registration for: entry k of its file, from
\* 0 to the last configured rate, registers account k + 1.
Generated == {k + 1 : k \in 0..round.last}

\* Mutant: the batches begin with the registration that was sent before them.
BatchFromFirst(i) == {BatchSize * i + j + 1 : j \in 0..BatchSize - 1}

\* The accounts that batch i registers, behind the one registered before the batches.
Batch(i) == {BatchSize * i + j + 2 : j \in 0..BatchSize - 1}

MoreBatches == batch * BatchSize < round.rate

\* The contract is deployed and the first account registered, both awaited.
Deploy ==
  /\ prep = "deploy"
  /\ prep' = "batches" /\ registered' = {1}
  /\ UNCHANGED <<round, batch, loadVars, chainVars, failures, monitorVars>>

\* A batch of registrations is sent and awaited.
RegisterBatch ==
  /\ prep = "batches" /\ MoreBatches
  /\ Batch(batch) \subseteq Generated
  /\ batch' = batch + 1
  /\ registered' = registered \cup Batch(batch)
  /\ UNCHANGED <<round, prep, loadVars, chainVars, failures, monitorVars>>

\* Behind the last batch document 1 is created, and the process ends.
CreateFirstDocument ==
  /\ prep = "batches" /\ ~MoreBatches
  /\ prep' = "done"
  /\ UNCHANGED <<round, batch, registered, loadVars, chainVars, failures, monitorVars>>

\* A request fails, or a batch reaches beyond the registrations there are.  The process does
\* not end, since its connection stays open, and the script waits for it.
PrepareFails ==
  /\ prep \in {"deploy", "batches"}
  /\ \/ prep = "batches" /\ MoreBatches /\ ~(Batch(batch) \subseteq Generated) /\ Fails(0)
     \/ Fails(1)
  /\ prep' = "failed"
  /\ UNCHANGED <<round, batch, registered, loadVars, chainVars, monitorVars>>

------------------------------------------------------------------------------
(***************************************************************************)
(* workload.js, one process per thread.                                    *)
(***************************************************************************)

\* The operations of a tick of thread t.
TickOps(t) == {<<a, thread[t].nonce>> : a \in Senders}

\* The counter behind a tick: both loops count every turn.
Counted(n) == n + 2 * HalfUp(Rate)

\* A period timer of thread t fires.
Tick(t) ==
  /\ prep = "done"
  /\ thread[t].periods > 0 /\ thread[t].nonce < MaxTicks
  /\ \E lost \in SUBSET TickOps(t) :
       /\ Fails(Cardinality(lost))
       /\ pool' = pool \cup (TickOps(t) \ lost)
  /\ LET sent == Counted(thread[t].sent)
     IN  thread' = [thread EXCEPT ![t].sent = sent, ![t].nonce = @ + 1,
                      ![t].periods = IF sent % PerRound(Rate) = 0 THEN @ - 1 ELSE @]
  /\ UNCHANGED <<round, prepVars, chainVars, monitorVars>>

\* The round timer of thread t fires: it closes the connections if exactly the round's
\* operations were sent, and starts another period if not.  SLEEP_TIME is taken to cover the
\* drift of the period (module Workload).
RoundTick(t) ==
  /\ prep = "done" /\ ~thread[t].closed
  /\ thread[t].nonce >= round.duration \/ thread[t].periods = 0
  /\ IF thread[t].sent = PerRound(Rate)
     THEN thread' = [thread EXCEPT ![t].closed = TRUE]
     ELSE thread[t].periods <= Extra /\ thread' = [thread EXCEPT ![t].periods = @ + 1]
  /\ UNCHANGED <<round, prepVars, pool, chainVars, failures, monitorVars>>

\* The operations the chain can execute: all of their account's with a lower nonce are there.
Due == {op \in pool : next[op[1]] <= op[2] /\ \A n \in next[op[1]]..op[2] : <<op[1], n>> \in pool}

\* A block is minted with some of them, account by account in the order of the nonces (external).
Mine ==
  /\ \E ops \in (SUBSET Due) \ {{}} :
       /\ \A op \in ops : \A n \in next[op[1]]..op[2] : <<op[1], n>> \in ops
       /\ next' = [a \in Account |-> next[a] + Cardinality({op \in ops : op[1] = a})]
  /\ height' = height + 1
  /\ UNCHANGED <<round, prepVars, loadVars, failures, monitorVars>>

------------------------------------------------------------------------------
(***************************************************************************)
(* txMonitor.js.  On Raft it differs from the other txMonitor.js (module   *)
(* TxMonitor) in what it waits for.                                        *)
(***************************************************************************)

\* main: the start height is read, then monitor sets the interval.
ReadStartHeight ==
  /\ prep = "done" /\ pc = "start"
  /\ startBlock' = height + 1
  /\ pc' = "polling" /\ interval' = TRUE
  /\ UNCHANGED <<round, prepVars, loadVars, chainVars, failures, endBlock, polls, reportVars, disturbed>>

MainRejected ==
  /\ prep = "done" /\ pc = "start"
  /\ Fails(1)
  /\ pc' = "stuck"
  /\ UNCHANGED <<round, prepVars, loadVars, chainVars, startBlock, endBlock, interval, polls,
                 reportVars, disturbed>>

\* The callback p goes on to its next await, with the record to hold.
Goes(p, callback) ==
  /\ polls' = [polls EXCEPT ![p] = callback]
  /\ UNCHANGED <<round, prepVars, loadVars, chainVars, pc, startBlock, endBlock, interval,
                 reportVars, disturbed>>

StartPoll(p) ==
  /\ interval /\ polls[p].at = "idle"
  /\ Goes(p, [Idle EXCEPT !.at = "height"])
  /\ UNCHANGED failures

\* Node 0 answers: the height (and with it the block, of which Raft uses nothing), the entries
\* of document 1, the documents.
PollHeight(p) ==
  /\ polls[p].at = "height"
  /\ Goes(p, [polls[p] EXCEPT !.at = "logs", !.height = height])
  /\ UNCHANGED failures

PollLogs(p) ==
  /\ polls[p].at = "logs"
  /\ Goes(p, [polls[p] EXCEPT !.at = "docs", !.logs = Logs])
  /\ UNCHANGED failures

PollDocs(p) ==
  /\ polls[p].at = "docs"
  /\ Goes(p, [polls[p] EXCEPT !.at = "tail", !.docs = Docs])
  /\ UNCHANGED failures

\* Mutants: what preprocess.js made is not in, or the test is met too late.
CompletesWithout(p) == polls[p].logs + polls[p].docs = PerRound(round.rate)

CompletesBeyond(p) == polls[p].logs + polls[p].docs > PerRound(round.rate) + 2

\* Has the callback seen exactly the operations of the round, with what preprocess.js made?
Completes(p) == polls[p].logs + polls[p].docs = PerRound(round.rate) + 2

\* Mutant: the block behind the one that was read.
LastBlockNext(p) == polls[p].height + 1

LastBlock(p) == polls[p].height

\* The rest of the callback.  If it completes the round it sets the end, whatever main is doing;
\* the first to do so releases main.
PollTail(p) ==
  LET release == Completes(p) /\ pc = "polling"
      last == IF Completes(p) THEN LastBlock(p) ELSE endBlock
      loop == LoopFrom(0, startBlock, startBlock, last)
  IN /\ polls[p].at = "tail"
     /\ polls' = IF release /\ loop.pc = "done" THEN [q \in Poll |-> Idle]
                 ELSE [polls EXCEPT ![p] = Idle]
     /\ endBlock' = last
     /\ interval' = (interval /\ ~Completes(p))
     /\ pc' = IF release THEN loop.pc ELSE pc
     /\ node' = IF release THEN loop.node ELSE node
     /\ block' = IF release THEN loop.block ELSE block
     /\ disturbed' = (disturbed \/ (pc # "polling" /\ last # endBlock))
     /\ UNCHANGED <<round, prepVars, loadVars, chainVars, failures, startBlock, report>>

PollRejected(p) ==
  /\ polls[p].at \in {"height", "logs", "docs"}
  /\ Fails(1)
  /\ Goes(p, Idle)

\* The awaited block arrives.  When the loops are over the report is written and the sockets are
\* closed, which ends the callbacks still in flight.
ReportBlock ==
  LET loop == LoopFrom(node, block + 1, startBlock, endBlock)
  IN /\ pc = "report"
     /\ node = 0 \/ block \in DOMAIN report
     /\ report' = Push(report, node, block)
     /\ pc' = loop.pc /\ node' = loop.node /\ block' = loop.block
     /\ polls' = IF loop.pc = "done" THEN [p \in Poll |-> Idle] ELSE polls
     /\ UNCHANGED <<round, prepVars, loadVars, chainVars, failures, startBlock, endBlock, interval,
                    disturbed>>

\* The call is rejected, node 0 made no entry for the block, or the answer is null, which any
\* node but node 0 may give for a block of the range: main ends without a report.
ReportFails ==
  /\ pc = "report"
  /\ Fails(1) \/ (node # 0 /\ Fails(0))
  /\ pc' = "failed"
  /\ UNCHANGED <<round, prepVars, loadVars, chainVars, startBlock, endBlock, interval, polls,
                 reportVars, disturbed>>

------------------------------------------------------------------------------
Prepare == Deploy \/ RegisterBatch \/ CreateFirstDocument

PollStep(p) == PollHeight(p) \/ PollLogs(p) \/ PollDocs(p) \/ PollTail(p)

Next ==
  \/ Prepare \/ PrepareFails
  \/ \E t \in Thread : Tick(t) \/ RoundTick(t)
  \/ Mine
  \/ ReadStartHeight \/ MainRejected
  \/ \E p \in Poll : StartPoll(p) \/ PollStep(p) \/ PollRejected(p)
  \/ ReportBlock \/ ReportFails

Spec == Init /\ [][Next]_vars

\* The processes run, the timers fire, the nodes answer, and what is due is executed.
Fairness ==
  /\ WF_vars(Prepare)
  /\ \A t \in 1..Max({r.threads : r \in Rounds}) :
       WF_vars(t \in Thread /\ (Tick(t) \/ RoundTick(t)))
  /\ WF_vars(Mine)
  /\ WF_vars(ReadStartHeight) /\ WF_vars(ReportBlock \/ ReportFails)
  /\ \A p \in Poll : WF_vars(StartPoll(p)) /\ WF_vars(PollStep(p))

FairSpec == Spec /\ Fairness

------------------------------------------------------------------------------
(***************************************************************************)
(* Properties.                                                             *)
(***************************************************************************)

\* When the load begins, all accounts that send, and all receivers, are registered
\* (preprocess.js:24-32, workload.js:12, 33).
LoadIsRegistered == prep = "done" => Senders \subseteq registered

Released == pc \in {"report", "done", "failed"}

\* The counters are read one after the other, but neither read can stand in for the other.  So a
\* monitor of an even rate is released only when one thread ran and every account has had each of
\* its operations executed: several threads use the same accounts and nonces, and the chain
\* executes what one of them sends (oneRoundTest-doc.sh:78: "multi thread will fail ,still dont
\* know the reason yet").  A monitor of an odd rate can be released too, on creations alone, when
\* they happen to add up to the round (txMonitor.js:36, 42, workload.js:31-40).
CompletionSound ==
  Released =>
    /\ round.threads = 1 \/ ~Even(Rate)
    /\ Even(Rate) => \A a \in Senders : next[a] = round.duration
    /\ ~Even(Rate) => Logs = 1 /\ Docs > PerRound(round.rate)

\* The report's rows are as in TxMonitor, whatever late callbacks do to the range, and a report
\* that they leave alone is complete for it.  It is empty if the whole round was executed before
\* the start height was read (txMonitor.js:51-73).
ReportRows ==
  /\ RowsInOrder(report)
  /\ pc = "done" /\ ~disturbed => RowsComplete(report, startBlock, endBlock)

\* Can the round be prepared, and is it one that can end?
Viable ==
  /\ round.threads = 1 /\ Even(Rate)
  /\ ((round.rate + BatchSize - 1) \div BatchSize) * BatchSize <= round.last

\* With one thread and an even rate, and as long as nothing fails, main comes to the end of the
\* report or to a node that lags, whenever it starts: what it expects does not depend on what it
\* finds, unlike in TxMonitor.  The blocks before the start height are not in the report, but
\* nothing waits for them (txMonitor.js:32, 51).
EvenRoundReturns == Viable /\ [](failures = 0) => <>(pc \in {"done", "failed"})

==============================================================================
