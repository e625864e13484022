------------------------------ MODULE TxMonitor ------------------------------
(***************************************************************************)
(* src/quorum/code/txMonitor.js: the process that watches one round on a   *)
(* Quorum network (IBFT, "quorum", or Raft, "raft").                       *)
(*                                                                         *)
(* A timer polls node 0 once per second.  A poll is an async callback with *)
(* three awaits (height, block, balance of the receiving account), and the *)
(* timer does not wait for the poll before it: polls overlap when node 0   *)
(* answers slowly, and their continuations run in any order.  A poll whose *)
(* balance is exactly the start balance plus the round's transactions      *)
(* stops the timer and releases main, which then walks the blocks of the   *)
(* round on every node, one await per block, and writes the report.        *)
(*                                                                         *)
(* The chain and the workload are external: they are what the monitor      *)
(* reads.  Block h is represented by the balance of the receiving account  *)
(* after h, so the transactions of h are a difference of two balances.     *)
(***************************************************************************)
EXTENDS ReportLoops

CONSTANTS
  Consensus,    \* config.setting.consensus, "raft" or "quorum" (IBFT)
  Target,       \* app.max_txs_in_round
  Supply,       \* transactions the workload threads really submit
  Poll,         \* names of poll callbacks: bounds how many are in flight
  MaxHeight,    \* bound on the chain's height
  MaxFailures   \* bound on the RPC calls that fail

ASSUME ConsensusAssumption == Consensus \in {"raft", "quorum"}
ASSUME LoadAssumption == Target \in Nat \ {0} /\ Supply \in Nat
ASSUME BoundAssumption == MaxHeight \in Nat /\ MaxHeight >= Supply /\ MaxFailures \in Nat

VARIABLES
  \* the network (external)
  sent,         \* transfers the workload has submitted
  chain,        \* chain[h]: balance of des_address after block h, on node 0
  imported,     \* imported[i]: blocks of chain that node i > 0 has
  \* the monitor
  pc,           \* where main is
  startBalance, \* start_balance
  startBlock,   \* app.start_block_num
  endBlock,     \* app.end_block_num
  firstBlock,   \* first_block
  ticking,      \* has the interval been set and not cleared?
  polls,        \* the poll callbacks in flight
  node,         \* i of main's loop, while a getBlock is awaited
  block,        \* j of main's loop, while a getBlock is awaited
  report,       \* app.report: block number -> nodes whose timestamp was pushed
  \* for bounds and properties
  failures,     \* RPC calls that failed
  disturbed,    \* did a poll move the range after main was released?
  polled,       \* the blocks with transactions that polls have looked at
  overlapped    \* has a poll started while another was in flight?

network == <<sent, chain, imported>>
cursor == <<node, block>>
vars == <<sent, chain, imported, pc, startBalance, startBlock, endBlock, firstBlock,
          ticking, polls, node, block, report, failures, disturbed, polled, overlapped>>

NoPoll == [stage |-> "none", height |-> 0, balance |-> 0]

PollState == [stage : {"none", "height", "balance", "tail"}, height : Nat, balance : Nat]

TypeOK ==
  /\ sent \in 0..Supply
  /\ chain \in Seq(Nat)
  /\ imported \in [Node \ {0} -> Nat]
  /\ pc \in {"startHeight", "startBalance", "polling", "report", "done", "failed", "stuck"}
  /\ startBalance \in Nat /\ startBlock \in Nat /\ endBlock \in Nat
  /\ firstBlock \in BOOLEAN /\ ticking \in BOOLEAN /\ disturbed \in BOOLEAN
  /\ polls \in [Poll -> PollState]
  /\ node \in Node /\ block \in Nat
  /\ DOMAIN report \subseteq Nat /\ \A b \in DOMAIN report : report[b] \in Seq(Node)
  /\ failures \in 0..MaxFailures
  /\ polled \subseteq Nat /\ overlapped \in BOOLEAN

------------------------------------------------------------------------------
(***************************************************************************)
(* The chain, as node 0 answers for it.                                    *)
(***************************************************************************)

\* Balance of des_address after block h; the genesis block funds it with 0.
BalanceAt(h) == IF h = 0 THEN 0 ELSE chain[h]

Balance == BalanceAt(Len(chain))

\* block.transactions.length
TxsIn(h) == IF h = 0 THEN 0 ELSE BalanceAt(h) - BalanceAt(h - 1)

Init ==
  /\ sent = 0
  /\ chain = << >>
  /\ imported = [i \in Node \ {0} |-> 0]
  /\ pc = "startHeight"
  /\ startBalance = 0 /\ startBlock = 0 /\ endBlock = 0
  /\ firstBlock = TRUE
  /\ ticking = FALSE
  /\ polls = [p \in Poll |-> NoPoll]
  /\ node = 0 /\ block = 0
  /\ report = << >>
  /\ failures = 0
  /\ disturbed = FALSE
  /\ polled = {} /\ overlapped = FALSE

monitorVars == <<pc, startBalance, startBlock, endBlock, firstBlock, ticking, polls,
                 node, block, report, failures, disturbed, polled, overlapped>>

\* The workload runs in the background, started before the monitor.
Submit ==
  /\ sent < Supply
  /\ sent' = sent + 1
  /\ UNCHANGED <<chain, imported>> /\ UNCHANGED monitorVars

\* The chain seals n pending transfers in a block.  Raft seals no empty block;
\* IBFT does, and MaxHeight leaves room for the transfers still to come.
Mine(n) ==
  /\ n <= sent - Balance
  /\ n = 0 => Consensus = "quorum" /\ Len(chain) + (Supply - Balance) < MaxHeight
  /\ chain' = Append(chain, Balance + n)
  /\ UNCHANGED <<sent, imported>> /\ UNCHANGED monitorVars

\* Node i imports the next block.
Import(i) ==
  /\ imported[i] < Len(chain)
  /\ imported' = [imported EXCEPT ![i] = @ + 1]
  /\ UNCHANGED <<sent, chain>> /\ UNCHANGED monitorVars

\* web3.eth.getBlock of node i answers null for a block it does not have.
HasBlock(i, h) == h <= IF i = 0 THEN Len(chain) ELSE imported[i]

------------------------------------------------------------------------------
(***************************************************************************)
(* main before the interval, and the interval.                             *)
(***************************************************************************)

\* getCurrentBlock() + 1
FirstRoundBlock == Len(chain) + 1

\* On Raft the blocks of the round start after the current one; on IBFT there is nothing to read.
ReadStartHeight ==
  /\ pc = "startHeight"
  /\ startBlock' = IF Consensus = "raft" THEN FirstRoundBlock ELSE startBlock
  /\ pc' = "startBalance"
  /\ UNCHANGED network
  /\ UNCHANGED <<startBalance, endBlock, firstBlock, ticking, polls, node, block, report,
                 failures, disturbed, polled, overlapped>>

\* Mutant: the account is taken to start empty, as the document variant does.
StartReadingZero == 0

\* start_balance, read from node 0
StartReading == Balance

\* monitor(): read the start balance, then set the interval.
ReadStartBalance ==
  /\ pc = "startBalance"
  /\ startBalance' = StartReading
  /\ ticking' = TRUE
  /\ pc' = "polling"
  /\ UNCHANGED network
  /\ UNCHANGED <<startBlock, endBlock, firstBlock, polls, node, block, report,
                 failures, disturbed, polled, overlapped>>

\* The interval fires: a poll starts, whatever the earlier ones are doing.
StartPoll(p) ==
  /\ ticking
  /\ polls[p].stage = "none"
  /\ polls' = [polls EXCEPT ![p].stage = "height"]
  /\ overlapped' = (overlapped \/ \E r \in Poll : polls[r].stage # "none")
  /\ UNCHANGED network
  /\ UNCHANGED <<pc, startBalance, startBlock, endBlock, firstBlock, ticking, node, block,
                 report, failures, disturbed, polled>>

\* Node 0 answers getBlockNumber.  The getBlock that follows reads a sealed block,
\* which never changes: TxsIn(height) is its answer whenever it comes.
PollHeight(p) ==
  /\ polls[p].stage = "height"
  /\ polls' = [polls EXCEPT ![p].stage = "balance", ![p].height = Len(chain)]
  /\ UNCHANGED network
  /\ UNCHANGED <<pc, startBalance, startBlock, endBlock, firstBlock, ticking, node, block,
                 report, failures, disturbed, polled, overlapped>>

\* Node 0 answers getBalance; the answer travels back to the monitor.
PollBalance(p) ==
  /\ polls[p].stage = "balance"
  /\ polls' = [polls EXCEPT ![p].stage = "tail", ![p].balance = Balance]
  /\ UNCHANGED network
  /\ UNCHANGED <<pc, startBalance, startBlock, endBlock, firstBlock, ticking, node, block,
                 report, failures, disturbed, polled, overlapped>>

\* Mutants: wait for the workload instead of the chain, for less or for more than the round.
CompletesWhenSent(q) == sent = Target

CompletesShort(q) == q.balance + 1 = startBalance + Target

CompletesBeyond(q) == q.balance > startBalance + Target

\* Does a poll complete the round?  (expect_balance === start_balance + max_txs_in_round)
Completes(q) == q.balance = startBalance + Target

\* Mutant: first_block is not reset, and every block with transactions moves the start.
SeesFirstEachTime(q) == TxsIn(q.height) # 0 /\ Consensus = "quorum"

\* Does a poll see the first block with transactions?
SeesFirst(q) == TxsIn(q.height) # 0 /\ firstBlock /\ Consensus = "quorum"

\* The rest of the callback, after its last await.  It runs whether or not another poll
\* has completed the round meanwhile; only the first call of resolve() releases main,
\* whose loop then runs up to its first await in the same turn of the event loop.
PollTail(p) ==
  LET q == polls[p]
      release == Completes(q) /\ pc = "polling"
      first == IF SeesFirst(q) THEN q.height ELSE startBlock
      last == IF Completes(q) THEN q.height ELSE endBlock
      loop == LoopFrom(0, first, first, last)
  IN /\ q.stage = "tail"
     /\ polls' = IF release /\ loop.pc = "done" THEN [r \in Poll |-> NoPoll]
                 ELSE [polls EXCEPT ![p] = NoPoll]
     /\ startBlock' = first
     /\ firstBlock' = (firstBlock /\ ~SeesFirst(q))
     /\ endBlock' = last
     /\ ticking' = (ticking /\ ~Completes(q))
     /\ pc' = IF release THEN loop.pc ELSE pc
     /\ node' = IF release THEN loop.node ELSE node
     /\ block' = IF release THEN loop.block ELSE block
     /\ disturbed' = (disturbed \/ (pc # "polling" /\ <<first, last>> # <<startBlock, endBlock>>))
     /\ polled' = IF TxsIn(q.height) = 0 THEN polled ELSE polled \cup {q.height}
     /\ UNCHANGED network
     /\ UNCHANGED <<startBalance, report, failures, overlapped>>

------------------------------------------------------------------------------
(***************************************************************************)
(* main after the interval: the report.                                    *)
(***************************************************************************)

\* getBlock(web3[node], block) is answered.  When the loops are over the report is written
\* and the sockets are closed, which ends the polls still in flight.
ReportBlock ==
  LET loop == LoopFrom(node, block + 1, startBlock, endBlock)
  IN /\ pc = "report"
     /\ HasBlock(node, block)
     /\ node = 0 \/ block \in DOMAIN report
     /\ report' = Push(report, node, block)
     /\ pc' = loop.pc /\ node' = loop.node /\ block' = loop.block
     /\ polls' = IF loop.pc = "done" THEN [p \in Poll |-> NoPoll] ELSE polls
     /\ UNCHANGED network
     /\ UNCHANGED <<startBalance, startBlock, endBlock, firstBlock, ticking, failures, disturbed,
                    polled, overlapped>>

\* The answer is null, or node 0 made no entry for the block: a TypeError ends main
\* before the report is written, with the sockets still open.
ReportBlockFails ==
  /\ pc = "report"
  /\ ~HasBlock(node, block) \/ (node # 0 /\ block \notin DOMAIN report)
  /\ pc' = "failed"
  /\ UNCHANGED network
  /\ UNCHANGED <<startBalance, startBlock, endBlock, firstBlock, ticking, polls, node, block,
                 report, failures, disturbed, polled, overlapped>>

------------------------------------------------------------------------------
(***************************************************************************)
(* RPC calls that are rejected.  No call has a handler.                    *)
(***************************************************************************)

\* A rejected poll is abandoned; the next tick starts another one.
PollRejected(p) ==
  /\ failures < MaxFailures
  /\ polls[p].stage \in {"height", "balance"}
  /\ polls' = [polls EXCEPT ![p] = NoPoll]
  /\ failures' = failures + 1
  /\ UNCHANGED network
  /\ UNCHANGED <<pc, startBalance, startBlock, endBlock, firstBlock, ticking, node, block,
                 report, disturbed, polled, overlapped>>

\* A rejected call of main ends main: before the interval is set nothing polls, and a
\* rejection inside the executor of the promise leaves monitor() pending for ever.
MainRejected ==
  /\ failures < MaxFailures
  /\ pc \in {"startHeight", "startBalance", "report"}
  /\ pc = "startHeight" => Consensus = "raft"
  /\ pc' = IF pc = "report" THEN "failed" ELSE "stuck"
  /\ failures' = failures + 1
  /\ UNCHANGED network
  /\ UNCHANGED <<startBalance, startBlock, endBlock, firstBlock, ticking, polls, node, block,
                 report, disturbed, polled, overlapped>>

------------------------------------------------------------------------------
\* Everything but the workload.
NetworkOrMonitor ==
  \/ \E n \in 0..Supply : Mine(n)
  \/ \E i \in Node \ {0} : Import(i)
  \/ ReadStartHeight
  \/ ReadStartBalance
  \/ \E p \in Poll : StartPoll(p) \/ PollHeight(p) \/ PollBalance(p) \/ PollTail(p) \/ PollRejected(p)
  \/ ReportBlock
  \/ ReportBlockFails
  \/ MainRejected

Next == Submit \/ NetworkOrMonitor

\* The workload sends what it has to send, the chain seals pending transfers, node 0
\* answers, and the event loop runs the timer and the continuations that are ready.
Fairness ==
  /\ WF_vars(Submit)
  /\ WF_vars(\E n \in 1..Supply : Mine(n))
  /\ WF_vars(ReadStartHeight) /\ WF_vars(ReadStartBalance)
  /\ WF_vars(\E p \in Poll : StartPoll(p))
  /\ \A p \in Poll : WF_vars(PollHeight(p)) /\ WF_vars(PollBalance(p)) /\ WF_vars(PollTail(p))
  /\ WF_vars(ReportBlock) /\ WF_vars(ReportBlockFails)

Spec == Init /\ [][Next]_vars

FairSpec == Spec /\ Fairness

------------------------------------------------------------------------------
(***************************************************************************)
(* Properties.                                                             *)
(***************************************************************************)

\* Has main been released by a poll that saw the round complete?
Resolved == pc \in {"report", "done", "failed"}

\* The monitor never declares a round over before its transactions are sealed, however
\* polls overlap and whenever the start balance was read (txMonitor.js:39).
CompletionSound == Resolved => Balance >= Target

\* Raft: when the monitor is released no transaction of the round lies below the first
\* block of the report, so the report misses none at its start.  It is the order of the two
\* reads that makes it so: height first (txMonitor.js:48), balance second (29).
NothingBelowStart ==
  Consensus = "raft" /\ Supply = Target /\ Resolved =>
    /\ startBlock \in 1..Len(chain) + 1
    /\ BalanceAt(startBlock - 1) = 0

\* A block of the round is missing from the range only if no poll looked at it or polls overlapped:
\* when the callbacks have run one after the other, the range begins no later than the first block
\* with transactions that one of them met, and ends no earlier than the last, even where the height
\* a callback works with is older than its balance (txMonitor.js:31-42).
PolledBlocksAreInRange ==
  Supply = Target /\ Resolved /\ ~overlapped => polled \subseteq startBlock..endBlock

\* The timestamps of a block stay in node order and no node is entered twice, even when polls
\* that were still in flight move the range under main's loops.  And a report that is written is
\* complete unless they did: every block of the range has an entry, and the k-th timestamp of an
\* entry is node k's, which is how cal.js reads it (txMonitor.js:50-69).
ReportRows ==
  /\ RowsInOrder(report)
  /\ pc = "done" /\ ~disturbed => RowsComplete(report, startBlock, endBlock)

\* main is ended by null only on a node that lags behind node 0: on node 0 itself every
\* block of the range is there, even if a late poll moved the range (txMonitor.js:55-67).
NodeZeroRowNeverFails ==
  [][pc = "report" /\ pc' = "failed" /\ UNCHANGED failures => node # 0]_vars

\* When the workload sends what the monitor waits for, main comes to an end (the report is
\* written, or a node that lags ended it) unless one of two reads before the interval went
\* wrong: the start balance was read after a block of the round, or the read was rejected, which
\* the promise around it never hears of.  A rejected poll does no harm (txMonitor.js:26-44).
RoundReturns ==
  Supply = Target =>
    <>(pc \in {"done", "failed"} \/ startBalance # 0 \/ (pc = "stuck" /\ failures # 0 /\ ~ticking))

\* "active monitor - check all transaction done" (oneRoundTest.sh:82): once the chain has
\* sealed the round, the monitor notices.
AllDoneIsNoticed == (Balance = Target) ~> Resolved

\* The monitor implements the abstract detection of the end of a round.
Detection == INSTANCE CompletionDetection WITH sealed <- Balance, over <- Resolved

DetectionSpec == Detection!Spec

==============================================================================
