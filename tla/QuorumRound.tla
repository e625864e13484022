------------------------------ MODULE QuorumRound ------------------------------
(***************************************************************************)
(* One round on a Quorum network, from the workload to the final report:   *)
(* src/quorum/code/script/oneRoundTest.sh once the nodes run,              *)
(* src/quorum/code/workload.js and src/quorum/code/postprocess.js.         *)
(*                                                                         *)
(* The script starts the workload threads and the monitor (TxMonitor) side *)
(* by side, waits for the monitor alone, starts one background copy of the *)
(* log per node, sleeps for a fixed time and post-processes                *)
(* whatever has arrived.  postprocess.js reads all the logs, looks up the  *)
(* block of every transaction a node logged as submitted, enters it in     *)
(* that block of the monitor's report, sets the block times from the       *)
(* miner's log, drops the empty blocks and only then writes the report.    *)
(* An exception or a rejected call on the way leaves the monitor's file.   *)
(***************************************************************************)
EXTENDS TxMonitor, FiniteSets, SequencesExt

CONSTANTS
  Rate,       \* tx_rate
  Duration,   \* duration_time; the script repeats the period once
  Settings,   \* thread_num (the script has 1) and raw_transaction_num, the pairs considered
  Miner       \* the node that mines (Raft's minter, the first of the IBFT validators)

ASSUME RoundAssumption ==
  /\ Rate \in Nat \ {0} /\ Duration \in Nat \ {0} /\ Target = Rate * Duration /\ Supply = Target
  /\ Settings \subseteq [thread_num : 1..Rate, raw_transaction_num : Nat] /\ Miner \in Node

VARIABLES
  setting,   \* the pair of this round
  next,      \* next[t]: app.sent_txs of thread t
  accepted,  \* the transactions a node has taken, by their index in raw_transaction
  script,    \* where the script is
  copies,    \* copies[i]: how much of node i's log is in rec_data
  readWhole, \* the nodes whose logs were whole when they were read
  final      \* block number -> transactions, once the post-processed report is written

loadVars == <<setting, next, accepted>>
scriptVars == <<script, copies, readWhole, final>>
allVars == <<sent, chain, imported, pc, startBalance, startBlock, endBlock, firstBlock, ticking,
             polls, node, block, report, failures, disturbed, polled,
             overlapped, setting, next, accepted, script, copies, readWhole, final>>

Thread == 1..setting.thread_num

RoundTypeOK ==
  /\ TypeOK
  /\ setting \in Settings /\ next \in [Thread -> 0..Target]
  /\ accepted \in Seq(Nat)
  /\ script \in {"monitor", "copy", "postprocess", "written", "failed", "rejected"}
  /\ copies \in [Node -> {"none", "partial", "whole"}]
  /\ readWhole \subseteq Node
  /\ DOMAIN final \subseteq DOMAIN report
  /\ \A b \in DOMAIN final : final[b] \subseteq 1..Supply

\* The transfers 1..Supply are sealed in the order they are submitted: those of block h.
TxsOf(h) == IF h = 0 THEN {} ELSE BalanceAt(h - 1) + 1..BalanceAt(h)

------------------------------------------------------------------------------
(***************************************************************************)
(* The script starts the threads, then the monitor.                        *)
(***************************************************************************)

RoundInit ==
  /\ Init
  /\ setting \in Settings
  /\ next = [t \in Thread |-> 0]
  /\ accepted = << >>
  /\ script = "monitor"
  /\ copies = [i \in Node |-> "none"]
  /\ readWhole = {}
  /\ final = << >>

\* thread_tx_rate: the remainder of the division is dropped.
ThreadRate == Rate \div setting.thread_num

\* slice is set to 0 inside the loop, so that every thread starts at the first transaction.
Slice(t) == 0

\* The transaction thread t sends next.
NextTx(t) == Slice(t) + next[t]

\* raw_transaction: one transfer per account, each with nonce 0, so that none of them waits for
\* another; beyond its end the thread sends undefined.
Generated == 0..setting.raw_transaction_num - 1

\* Node (i % urls.length) takes the i-th transaction of a second, unless there is none or the
\* network has it from another thread.
Fresh(tx) == tx \in Generated /\ ~Contains(accepted, tx)

\* Thread t sends a transaction.  Its load ends with app.max_txs_in_round (Workload shows what
\* the timers add when they drift).
Send(t) ==
  /\ next[t] < ThreadRate * Duration
  /\ next' = [next EXCEPT ![t] = @ + 1]
  /\ IF Fresh(NextTx(t))
     THEN Submit /\ accepted' = Append(accepted, NextTx(t))
     ELSE UNCHANGED vars /\ UNCHANGED accepted
  /\ UNCHANGED setting /\ UNCHANGED scriptVars

\* The call fails.  The promise of sendTx is not awaited: nothing is caught, app.err_count
\* stays 0, app.sent_txs has moved on, and the transaction is not sent again.
SendFails(t) ==
  /\ failures < MaxFailures
  /\ next[t] < ThreadRate * Duration
  /\ next' = [next EXCEPT ![t] = @ + 1]
  /\ failures' = failures + 1
  /\ UNCHANGED network
  /\ UNCHANGED <<pc, startBalance, startBlock, endBlock, firstBlock, ticking, polls, node, block,
                 report, disturbed, polled, overlapped>>
  /\ UNCHANGED <<setting, accepted>> /\ UNCHANGED scriptVars

\* The network and the monitor.  A monitor that has failed keeps its sockets, so that its
\* process, and with it the script, never goes on.
MonitorStep == NetworkOrMonitor /\ UNCHANGED loadVars /\ UNCHANGED scriptVars

\* The monitor has exited; the copies are started in the background.
MonitorExits ==
  /\ script = "monitor" /\ pc = "done"
  /\ script' = "copy"
  /\ UNCHANGED vars /\ UNCHANGED loadVars /\ UNCHANGED <<copies, readWhole, final>>

\* The copy of node i's log creates the file, and completes it.
CopyLog(i) ==
  /\ script # "monitor" /\ copies[i] # "whole"
  /\ copies' = [copies EXCEPT ![i] = IF @ = "none" THEN "partial" ELSE "whole"]
  /\ UNCHANGED vars /\ UNCHANGED loadVars /\ UNCHANGED <<script, readWhole, final>>

\* sleep $sleep_time is over, whatever the copies are doing.
SleepEnds ==
  /\ script = "copy"
  /\ script' = "postprocess"
  /\ UNCHANGED vars /\ UNCHANGED loadVars /\ UNCHANGED <<copies, readWhole, final>>

------------------------------------------------------------------------------
(***************************************************************************)
(* postprocess.js                                                          *)
(***************************************************************************)

\* The node that logs the submission of transfer t.
SubmittedTo(t) == (accepted[t] % ThreadRate) % NodeNum

\* The transfers with a "Submit" line in the logs as they are in rec_data, if the first k
\* lines of every partial copy have arrived.
SubmitLines(k) ==
  {t \in 1..sent : \/ copies[SubmittedTo(t)] = "whole"
                   \/ Cardinality({u \in 1..t : SubmittedTo(u) = SubmittedTo(t)}) <= k}

\* The number of "Mined block" lines: one per block, in the log of the Raft minter.
MinedLines(k) ==
  IF Consensus # "raft" THEN 0
  ELSE IF copies[Miner] = "whole" \/ k > Len(chain) THEN Len(chain) ELSE k

\* report[`block_${block_num}`].transactions.push: the block must be in the report.
CanEnter(t) == \E b \in DOMAIN report : t \in TxsOf(b)

\* Mutant: the lines are counted from the block before the round.
CanSetTimeNextBlock(j) == j + 1 \in DOMAIN report /\ Len(report[j + 1]) = NodeNum

\* The j-th "Mined block" line is taken for block j, and for every node's timestamp.
CanSetTime(j) == j \in DOMAIN report /\ Len(report[j]) = NodeNum

\* Mutants: blocks with one transaction are deleted too; the chain is taken for the report.
KeptOfMany == {b \in DOMAIN report : TxsIn(b) > 1}

KeptOfChain == {b \in 1..Len(chain) : TxsIn(b) # 0}

\* The blocks that are not deleted.
Kept == {b \in DOMAIN report : TxsIn(b) # 0}

\* The nodes whose logs are whole when postprocess.js reads them.
WholeCopies == {i \in Node : copies[i] = "whole"}

\* Every line found its block: the report is written.
PostprocessWrites(k) ==
  /\ script = "postprocess"
  /\ \A i \in Node : copies[i] # "none"
  /\ \A t \in SubmitLines(k) : CanEnter(t)
  /\ \A j \in 1..MinedLines(k) : CanSetTime(j)
  /\ final' = [b \in Kept |-> TxsOf(b) \cap SubmitLines(k)]
  /\ readWhole' = WholeCopies
  /\ script' = "written"
  /\ UNCHANGED vars /\ UNCHANGED loadVars /\ UNCHANGED copies

\* A log is not there, a partial log ends in the middle of a line, or a line has no block in
\* the report.  The exception ends the async function before anything is written; the socket to
\* node 0 stays open, which keeps the process, and with it the script, from going on.
PostprocessFails(k) ==
  /\ script = "postprocess"
  /\ \/ WholeCopies # Node
     \/ \E t \in SubmitLines(k) : ~CanEnter(t)
     \/ \E j \in 1..MinedLines(k) : ~CanSetTime(j)
  /\ readWhole' = WholeCopies
  /\ script' = "failed"
  /\ UNCHANGED vars /\ UNCHANGED loadVars /\ UNCHANGED <<copies, final>>

\* Node 0 does not answer for the transaction of a "Submit" line: the call is rejected, and
\* the function ends in the same way.
PostprocessRejected(k) ==
  /\ failures < MaxFailures
  /\ script = "postprocess"
  /\ \A i \in Node : copies[i] # "none"
  /\ SubmitLines(k) # {}
  /\ readWhole' = WholeCopies
  /\ script' = "rejected"
  /\ failures' = failures + 1
  /\ UNCHANGED network
  /\ UNCHANGED <<pc, startBalance, startBlock, endBlock, firstBlock, ticking, polls, node, block,
                 report, disturbed, polled, overlapped>>
  /\ UNCHANGED loadVars /\ UNCHANGED <<copies, final>>

RoundNext ==
  \/ \E t \in Thread : Send(t) \/ SendFails(t)
  \/ MonitorStep
  \/ MonitorExits
  \/ \E i \in Node : CopyLog(i)
  \/ SleepEnds
  \/ \E k \in 0..Supply : PostprocessWrites(k) \/ PostprocessFails(k) \/ PostprocessRejected(k)

RoundSpec == RoundInit /\ [][RoundNext]_allVars

------------------------------------------------------------------------------
(***************************************************************************)
(* Properties.                                                             *)
(***************************************************************************)

\* The monitor releases the script only if one thread ran, every transaction of its load was
\* generated and none was lost: two threads send one list, a tail of the list that does not
\* exist is sent as undefined, and a failed call is not repeated, but the monitor waits for the
\* whole load in each case (oneRoundTest.sh:74-80, workload.js:26-32, txMonitor.js:39).
ReturnedLoadIsWhole ==
  Resolved => setting.thread_num = 1 /\ ToSet(accepted) = 0..Target - 1

\* Every transaction whose node's log was whole when it was read is in the written report, in the
\* block that sealed it, also where the logs of other nodes were read while they were copied; and
\* no block without transactions is left, by whose times calculate.js would divide
\* (oneRoundTest.sh:96-103, postprocess.js:29-50).
WrittenReportExact ==
  script = "written" =>
    /\ \A t \in 1..Target : SubmittedTo(t) \in readWhole => \E b \in DOMAIN final : t \in final[b]
    /\ \A b \in DOMAIN final : final[b] \subseteq TxsOf(b) /\ TxsOf(b) # {}

\* A block of the round that is sealed, and that no poll looked at.
Unpolled(h) == h \in 1..Len(chain) /\ TxsIn(h) # 0 /\ h \notin polled

\* When no call is rejected, whole logs are enough for the report unless a late poll moved the
\* range or the polls passed a block over: on Raft that can only be the block that completes the
\* round, sealed between the height and the balance of a poll, however polls overlap; on IBFT any
\* block, and there polls that overlap may do it too (txMonitor.js:31-42, postprocess.js:32-41).
PolledRoundIsWritten ==
  script = "failed" /\ readWhole = Node =>
    \/ disturbed
    \/ Consensus = "quorum" /\ (overlapped \/ \E h \in 1..Len(chain) : Unpolled(h))
    \/ \E h \in 1..Len(chain) : Unpolled(h) /\ BalanceAt(h) = Target

\* "parse transaction hash & transaction rec time in report.json" (postprocess.js:25): with
\* whole logs, no rejected call and a start balance read in time, the report gets its transactions.
LogsReachReport == script = "failed" /\ readWhole = Node => startBalance # 0 \/ disturbed

==============================================================================
