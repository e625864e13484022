----------------------------- MODULE StellarRound -----------------------------
(***************************************************************************)
(* One round on a Stellar network: src/stellar/code/oneRoundTesting.sh     *)
(* from the monitor to the report, with post_process.js, on top of the     *)
(* network and the monitor of StellarMonitor.                              *)
(*                                                                         *)
(* The script waits until the monitor exits, copies the transaction log of *)
(* every node, one after the other and in the foreground, and runs         *)
(* post_process.js, which asks node 0 for the ledger of every transaction  *)
(* in the logs and puts it into the report.  No step tests the one before  *)
(* it, and the report of an earlier round is still there when the monitor  *)
(* does not replace it.                                                    *)
(***************************************************************************)
EXTENDS StellarMonitor

CONSTANT OldReports  \* the report files an earlier round may have left: sequences of a set of
                     \* ledgers or of nothing

ASSUME OldReportAssumption ==
  \A r \in OldReports : r = << >> \/ (Len(r) = 1 /\ r[1] \subseteq Nat)

VARIABLES
  script,     \* where the script is
  logs,       \* the transactions in the copied logs
  missing,    \* is the log of a node not there?
  final       \* the post-processed report: ledger -> transactions, 0 for an earlier round's

roundVars == <<script, logs, missing, final>>
allVars == <<chain, imported, pc, startBalance, firstLedger, startLedger, endLedger, ticking,
             polls, report, file, failures, polled, overlapped, script, logs, missing,
             final>>

RoundTypeOK ==
  /\ TypeOK
  /\ script \in {"monitor", "copy", "post", "written", "failed"}
  /\ logs \subseteq 1..Supply /\ missing \in BOOLEAN
  /\ \A h \in DOMAIN final : h \in Nat /\ final[h] \subseteq 0..Supply

RoundInit ==
  /\ Init
  /\ script = "monitor"
  /\ logs = {} /\ missing = FALSE
  /\ final = << >>

\* The transactions are numbered in the order they are sealed: those of ledger h.
TxsOf(h) == IF h = 1 THEN 1..chain[1] ELSE chain[h - 1] + 1..chain[h]

\* The monitor exits when its interval is cleared, or was never set, and no callback waits.
MonitorExits ==
  /\ script = "monitor"
  /\ pc # "startBalance" /\ ~ticking /\ \A p \in Poll : polls[p].stage = "none"
  /\ script' = "copy"
  /\ UNCHANGED vars /\ UNCHANGED <<logs, missing, final>>

\* The logs are copied.  They have the transactions that are sealed when this begins, and any
\* that were submitted until a node's log was copied.
CopyLogs ==
  /\ script = "copy"
  /\ \E more \in SUBSET (Balance + 1..Supply) : logs' = 1..Balance \cup more
  /\ script' = "post"
  /\ UNCHANGED vars /\ UNCHANGED <<missing, final>>

\* ... but for one node, whose log cannot be copied.
CopyFails ==
  /\ script = "copy" /\ failures < MaxFailures
  /\ missing' = TRUE /\ failures' = failures + 1
  /\ script' = "post"
  /\ UNCHANGED network /\ UNCHANGED range
  /\ UNCHANGED <<pc, startBalance, ticking, polls, report, file, polled, overlapped, logs,
                 final>>

------------------------------------------------------------------------------
(***************************************************************************)
(* post_process.js                                                         *)
(***************************************************************************)

\* The report file that is loaded: the monitor's or, without one, the earlier round's.
Loaded(old) == IF file # << >> THEN file ELSE old

\* Node 0 answers with the ledger of a transaction if it is sealed, and the report needs an
\* entry for it.
CanPlace(t, ledgers) == \E h \in ledgers \cap 1..Len(chain) : t \in TxsOf(h)

CanFinish(loaded) == ~missing /\ loaded # << >> /\ \A t \in logs : CanPlace(t, loaded[1])

\* The report is written when the last transaction is placed.
PostProcessWrites ==
  /\ script = "post"
  /\ \E old \in OldReports :
       /\ CanFinish(Loaded(old))
       /\ final' = [h \in Loaded(old)[1] |->
                      (IF h <= Len(chain) THEN TxsOf(h) \cap logs ELSE {})
                        \cup (IF file = << >> THEN {0} ELSE {})]
  /\ script' = "written"
  /\ UNCHANGED vars /\ UNCHANGED <<logs, missing>>

\* A file, a transaction or an entry is missing, or a request fails: the file of the monitor,
\* or of the earlier round, stays as it is.
PostProcessFails ==
  /\ script = "post"
  /\ \/ (\E old \in OldReports : ~CanFinish(Loaded(old))) /\ UNCHANGED failures
     \/ failures < MaxFailures /\ failures' = failures + 1
  /\ script' = "failed"
  /\ UNCHANGED network /\ UNCHANGED range
  /\ UNCHANGED <<pc, startBalance, ticking, polls, report, file, polled, overlapped, logs,
                 missing, final>>

------------------------------------------------------------------------------
RoundNext ==
  \/ Next /\ UNCHANGED roundVars
  \/ MonitorExits
  \/ CopyLogs \/ CopyFails
  \/ PostProcessWrites \/ PostProcessFails

\* In addition to the fairness of the monitor, the script goes on.
RoundSpec ==
  /\ RoundInit /\ [][RoundNext]_allVars
  /\ Fairness
  /\ WF_allVars(MonitorExits)
  /\ WF_allVars(CopyLogs \/ CopyFails)
  /\ WF_allVars(PostProcessWrites \/ PostProcessFails)

------------------------------------------------------------------------------
(***************************************************************************)
(* Properties.                                                             *)
(***************************************************************************)

\* The report of an earlier round is filled exactly if the start balance could not be read.  A
\* report that is written otherwise has nothing of an earlier round and, if the workload sends what
\* the monitor waits for, each transaction of the round in one ledger (monitor.js:20,
\* oneRoundTesting.sh:49-65, post_process.js:8-18).
WrittenReportIsOfRound ==
  script = "written" =>
    /\ pc = "exited" => \A h \in DOMAIN final : 0 \in final[h]
    /\ pc # "exited" =>
         /\ \A h \in DOMAIN final : final[h] \subseteq TxsOf(h)
         /\ Supply = Target => UNION {final[h] : h \in DOMAIN final} = 1..Supply

\* If the workload sends what the monitor waits for, no callback overlapped another, a poll looked
\* at every ledger with transactions and no request failed, post_process.js finds an entry for
\* every transaction (monitor.js:26-33, post_process.js:13-14).
PolledRoundIsWritten ==
  Supply = Target /\ script = "failed" /\ failures = 0 /\ ~overlapped =>
    \E h \in 1..Len(chain) : TxsIn(h) # 0 /\ h \notin polled

\* If the start balance was read in time, the workload sends what the monitor waits for, and a
\* poll has looked at a ledger with transactions, then the monitor reports and exits, also if
\* nodes lag and polls fail on them, and the script comes to its end (monitor.js:21-51,
\* oneRoundTesting.sh:50-65).
SeenRoundEnds ==
  (Supply = Target /\ ticking /\ startBalance = 0 /\ startLedger # 0)
    ~> (file # << >> /\ script \in {"written", "failed"})

==============================================================================
