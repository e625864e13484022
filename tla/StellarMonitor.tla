---------------------------- MODULE StellarMonitor ----------------------------
(***************************************************************************)
(* src/stellar/code/monitor.js: the process that watches one round on a    *)
(* Stellar network.                                                        *)
(*                                                                         *)
(* It differs from TxMonitor in what ends a round and in who reports.  A   *)
(* poll ends the round when the current ledger is empty and the balance is *)
(* the expected one, and the same callback then walks the ledgers on every *)
(* node, writes the report and only after that clears the interval: polls  *)
(* that start meanwhile can end the round again, move its last ledger and  *)
(* walk the ledgers at the same time, all adding to one app.report.        *)
(*                                                                         *)
(* Chain, Horizon and workload are external.  Ledger h is represented by   *)
(* the balance of the receiving account after h; ledgers start at 1.       *)
(***************************************************************************)
EXTENDS Naturals, Sequences

CONSTANTS
  NodeNum,      \* app.node_num
  Target,       \* app.max_txs_in_round
  Supply,       \* transactions the workload really submits
  Poll,         \* names of poll callbacks: bounds how many are in flight
  MaxHeight,    \* bound on the ledgers
  MaxFailures   \* bound on the requests that fail

ASSUME StellarNodeAssumption == NodeNum \in Nat \ {0}
ASSUME StellarLoadAssumption == Target \in Nat \ {0} /\ Supply \in Nat
ASSUME StellarBoundAssumption ==
  MaxHeight \in Nat /\ MaxHeight >= Supply + 2 /\ MaxFailures \in Nat

Node == 0..NodeNum - 1

VARIABLES
  \* the network (external)
  chain,        \* chain[h]: balance of the destination after ledger h
  imported,     \* imported[j]: ledgers of chain that node j > 0 has
  \* the monitor
  pc,           \* where monitor is: "startBalance", "polling" or "exited"
  startBalance, \* start_balance
  firstLedger,  \* first_ledger
  startLedger,  \* app.start_ledger_num
  endLedger,    \* app.end_ledger_num
  ticking,      \* has the interval been set and not cleared?
  polls,        \* the callbacks in flight
  report,       \* the ledgers in app.report
  file,         \* the ledgers in the report file: a sequence of them or of nothing
  \* for bounds and properties
  failures,     \* requests that failed
  polled,       \* ledgers with transactions that a poll has looked at
  overlapped    \* has a callback started while another was in flight?

network == <<chain, imported>>
range == <<firstLedger, startLedger, endLedger>>
vars == <<chain, imported, pc, startBalance, firstLedger, startLedger, endLedger, ticking,
          polls, report, file, failures, polled, overlapped>>

NoPoll == [stage |-> "none", height |-> 0, balance |-> 0, node |-> 0, ledger |-> 0]

PollState == [stage : {"none", "height", "balance", "tail", "report"}, height : Nat,
              balance : Nat, node : Node, ledger : Nat]

TypeOK ==
  /\ chain \in Seq(Nat) /\ imported \in [Node \ {0} -> Nat]
  /\ pc \in {"startBalance", "polling", "exited"}
  /\ startBalance \in Nat /\ startLedger \in Nat /\ endLedger \in Nat
  /\ firstLedger \in BOOLEAN /\ ticking \in BOOLEAN
  /\ polls \in [Poll -> PollState]
  /\ report \subseteq 1..Len(chain)
  /\ file \in {<< >>} \cup {<<f>> : f \in SUBSET (1..Len(chain))}
  /\ failures \in 0..MaxFailures
  /\ polled \subseteq 1..Len(chain) /\ overlapped \in BOOLEAN

Init ==
  /\ chain = <<0>>
  /\ imported = [j \in Node \ {0} |-> 1]
  /\ pc = "startBalance"
  /\ startBalance = 0 /\ startLedger = 0 /\ endLedger = 0
  /\ firstLedger = TRUE
  /\ ticking = FALSE
  /\ polls = [p \in Poll |-> NoPoll]
  /\ report = {} /\ file = << >>
  /\ failures = 0 /\ polled = {} /\ overlapped = FALSE

monitorVars == <<pc, startBalance, firstLedger, startLedger, endLedger, ticking, polls, report,
                 file, failures, polled, overlapped>>

------------------------------------------------------------------------------
(***************************************************************************)
(* The network.                                                            *)
(***************************************************************************)

Balance == chain[Len(chain)]

\* successful_transaction_count of ledger h
TxsIn(h) == IF h = 1 THEN chain[1] ELSE chain[h] - chain[h - 1]

\* A ledger closes, with n transfers of the workload or with none.  MaxHeight leaves room for
\* the transfers still to come and for an empty ledger after them.
CloseLedger(n) ==
  LET left == Supply - (Balance + n)
  IN /\ Balance + n <= Supply
     /\ Len(chain) + left + (IF n + left = 0 THEN 0 ELSE 1) < MaxHeight
     /\ chain' = Append(chain, Balance + n)
     /\ UNCHANGED imported /\ UNCHANGED monitorVars

\* Node j's Horizon takes in the next ledger.
Import(j) ==
  /\ imported[j] < Len(chain)
  /\ imported' = [imported EXCEPT ![j] = @ + 1]
  /\ UNCHANGED chain /\ UNCHANGED monitorVars

\* Node j's Horizon answers 404, which rejects the request, for a ledger it does not have.
HasLedger(j, h) == h \in 1..IF j = 0 THEN Len(chain) ELSE imported[j]

------------------------------------------------------------------------------
(***************************************************************************)
(* monitor and the reads of a poll.                                        *)
(***************************************************************************)

\* The start balance is read, then the interval is set.
ReadStartBalance ==
  /\ pc = "startBalance"
  /\ startBalance' = Balance
  /\ ticking' = TRUE
  /\ pc' = "polling"
  /\ UNCHANGED network /\ UNCHANGED range
  /\ UNCHANGED <<polls, report, file, failures, polled, overlapped>>

StartPoll(p) ==
  /\ ticking
  /\ polls[p].stage = "none"
  /\ polls' = [polls EXCEPT ![p].stage = "height"]
  /\ overlapped' = (overlapped \/ \E r \in Poll : polls[r].stage # "none")
  /\ UNCHANGED network /\ UNCHANGED range
  /\ UNCHANGED <<pc, startBalance, ticking, report, file, failures, polled>>

\* Horizon answers its latest ledger.  The transaction count that is asked next never
\* changes: TxsIn(height) is the answer whenever it comes.
PollHeight(p) ==
  /\ polls[p].stage = "height"
  /\ polls' = [polls EXCEPT ![p].stage = "balance", ![p].height = Len(chain)]
  /\ UNCHANGED network /\ UNCHANGED range
  /\ UNCHANGED <<pc, startBalance, ticking, report, file, failures, polled, overlapped>>

\* Horizon answers the balance; the answer travels back to the monitor.
PollBalance(p) ==
  /\ polls[p].stage = "balance"
  /\ polls' = [polls EXCEPT ![p].stage = "tail", ![p].balance = Balance]
  /\ UNCHANGED network /\ UNCHANGED range
  /\ UNCHANGED <<pc, startBalance, ticking, report, file, failures, polled, overlapped>>

------------------------------------------------------------------------------
(***************************************************************************)
(* The rest of a poll.                                                     *)
(***************************************************************************)

\* Mutants: every ledger with transactions sets the start; an empty ledger ends the round, or
\* only a balance beyond the expected one.
SeesFirstAlways(q) == TxsIn(q.height) # 0

EndsWhenEmpty(q) == TxsIn(q.height) = 0

EndsBeyond(q) == TxsIn(q.height) = 0 /\ q.balance > startBalance + Target

\* Does the poll see the first ledger with transactions?
SeesFirst(q) == TxsIn(q.height) # 0 /\ firstLedger

\* Does the poll end the round?
Ends(q) == TxsIn(q.height) = 0 /\ q.balance = startBalance + Target

\* Does the loop over the ledgers go on with ledger i?
HasNext(i, end) == i <= end

\* The callback of p goes on with ledger i, or writes the report and clears the interval.
LoopAt(p, i, end, ledgers) ==
  IF HasNext(i, end)
  THEN /\ polls' = [polls EXCEPT ![p] = [NoPoll EXCEPT !.stage = "report", !.ledger = i]]
       /\ UNCHANGED <<ticking, file>>
  ELSE /\ polls' = [polls EXCEPT ![p] = NoPoll]
       /\ file' = <<ledgers>>
       /\ ticking' = FALSE

\* After its last read a poll sets the first ledger, or ends the round and starts the loop
\* over its ledgers, or is over.
PollTail(p) ==
  LET q == polls[p]
  IN /\ q.stage = "tail"
     /\ polled' = IF TxsIn(q.height) = 0 THEN polled ELSE polled \cup {q.height}
     /\ startLedger' = IF SeesFirst(q) THEN q.height ELSE startLedger
     /\ firstLedger' = (firstLedger /\ ~SeesFirst(q))
     /\ IF Ends(q)
        THEN /\ endLedger' = q.height
             /\ LoopAt(p, startLedger, q.height, report)
        ELSE /\ polls' = [polls EXCEPT ![p] = NoPoll]
             /\ UNCHANGED <<endLedger, ticking, file>>
     /\ UNCHANGED network
     /\ UNCHANGED <<pc, startBalance, report, failures, overlapped>>

\* A node answers the ledger the callback waits for; after the last node the ledger is in
\* the report.
LedgerAnswer(p) ==
  LET q == polls[p]
  IN /\ q.stage = "report" /\ HasLedger(q.node, q.ledger)
     /\ IF q.node + 1 < NodeNum
        THEN /\ polls' = [polls EXCEPT ![p].node = @ + 1]
             /\ UNCHANGED <<report, ticking, file>>
        ELSE /\ report' = report \cup {q.ledger}
             /\ LoopAt(p, q.ledger + 1, endLedger, report')
     /\ UNCHANGED network /\ UNCHANGED range
     /\ UNCHANGED <<pc, startBalance, failures, polled, overlapped>>

\* The node has no such ledger: the request is rejected, which nothing handles, and the
\* callback is over; the interval goes on.
LedgerMissing(p) ==
  /\ polls[p].stage = "report" /\ ~HasLedger(polls[p].node, polls[p].ledger)
  /\ polls' = [polls EXCEPT ![p] = NoPoll]
  /\ UNCHANGED network /\ UNCHANGED range
  /\ UNCHANGED <<pc, startBalance, ticking, report, file, failures, polled, overlapped>>

\* Any request of a callback may fail.
PollRejected(p) ==
  /\ failures < MaxFailures
  /\ polls[p].stage \in {"height", "balance", "report"}
  /\ polls' = [polls EXCEPT ![p] = NoPoll]
  /\ failures' = failures + 1
  /\ UNCHANGED network /\ UNCHANGED range
  /\ UNCHANGED <<pc, startBalance, ticking, report, file, polled, overlapped>>

\* If the first request fails no interval is set, and the process has nothing left to do.
StartRejected ==
  /\ failures < MaxFailures
  /\ pc = "startBalance"
  /\ pc' = "exited"
  /\ failures' = failures + 1
  /\ UNCHANGED network /\ UNCHANGED range
  /\ UNCHANGED <<startBalance, ticking, polls, report, file, polled, overlapped>>

------------------------------------------------------------------------------
Next ==
  \/ \E n \in 0..Supply : CloseLedger(n)
  \/ \E j \in Node \ {0} : Import(j)
  \/ ReadStartBalance
  \/ \E p \in Poll : StartPoll(p) \/ PollHeight(p) \/ PollBalance(p) \/ PollTail(p)
  \/ \E p \in Poll : LedgerAnswer(p) \/ LedgerMissing(p) \/ PollRejected(p)
  \/ StartRejected

\* Ledgers close, every node takes them in, requests are answered and the event loop runs the
\* timer and the continuations that are ready.
Fairness ==
  /\ WF_vars(\E n \in 0..Supply : CloseLedger(n))
  /\ \A j \in Node \ {0} : WF_vars(Import(j))
  /\ WF_vars(ReadStartBalance)
  /\ WF_vars(\E p \in Poll : StartPoll(p))
  /\ \A p \in Poll : WF_vars(PollHeight(p)) /\ WF_vars(PollBalance(p)) /\ WF_vars(PollTail(p))
  /\ \A p \in Poll : WF_vars(LedgerAnswer(p) \/ LedgerMissing(p))

Spec == Init /\ [][Next]_vars

------------------------------------------------------------------------------
(***************************************************************************)
(* Properties.                                                             *)
(***************************************************************************)

\* However many callbacks walk the ledgers at once and move the end under each other, the
\* file has no gap: it holds the ledgers from the start ledger on (monitor.js:33-48).
FileHasNoGap ==
  \A k \in 1..Len(file) : \A h \in file[k] :
    startLedger # 0 /\ startLedger <= h /\ startLedger..h \subseteq file[k]

\* The monitor implements the abstract detection of the end of a round.
Detection == INSTANCE CompletionDetection WITH sealed <- Balance, over <- endLedger # 0

DetectionSpec == Detection!Spec

==============================================================================
