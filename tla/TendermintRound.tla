---------------------------- MODULE TendermintRound ----------------------------
(***************************************************************************)
(* One round on a Tendermint network: src/tendermint/code/oneRoundTesting  *)
(* from the workload to the report, with merge.js and post_process.js, on  *)
(* top of the application KVStore that every node runs.                    *)
(*                                                                         *)
(* Threads 1..ThreadNum - 1 of the workload run in the background and the  *)
(* last one in the foreground; each writes its own log file when it is     *)
(* done.  When the last thread is done and five seconds have passed,       *)
(* merge.js unites the files and removes each one as it reads it; then the *)
(* commit logs are copied node after node while the chain goes on, and     *)
(* post_process.js puts blocks, commit times and receive times together.   *)
(* No step tests the one before it, and files of an earlier round are      *)
(* still there when this one does not replace them.                        *)
(***************************************************************************)
EXTENDS KVStore

CONSTANTS
  ThreadNum,  \* THREAD_NUM
  PerThread,  \* ONE_PERIOD: transactions of one thread
  Load,       \* TX_RATE * DURATION_TIME: transactions post_process.js looks up
  MaxLate,    \* bound on the replies a thread does not wait for
  MaxBroken   \* bound on the copies that fail

ASSUME ThreadAssumption == {ThreadNum, PerThread, Load} \subseteq Nat \ {0} /\ {MaxLate, MaxBroken} \subseteq Nat
ASSUME TxAssumption == Tx = 1..ThreadNum * PerThread

Thread == 1..ThreadNum

VARIABLES
  submitted,  \* transactions the threads have sent
  threadLog,  \* threadLog[k]: thread k's log file, a sequence of its content or of nothing:
              \* transaction -> "fresh" or "stale" (an earlier round's) receive time
  threadDone, \* threads that have written their file
  txLog,      \* transaction_log.json, likewise
  script,     \* where the script is
  copied,     \* the commit logs copied so far, node 0 first: files that may be missing
  broken,     \* the nodes whose copy did not come through
  reportFile, \* report1.json: "absent", "old" or "new"
  report,     \* the new report's blocks, none when it is not written
  ready       \* when merge.js ran: had all threads ended, had all nodes committed all blocks,
              \* and the restarts until then

roundVars == <<submitted, threadLog, threadDone, txLog, script, copied, broken, reportFile,
              report, ready>>
allVars == <<chain, core, app, log, restarts, submitted, threadLog, threadDone, txLog, script,
             copied, broken, reportFile, report, ready>>

Times == UNION {[S -> {"fresh", "stale"}] : S \in SUBSET Tx}

\* A file that may be missing.
Absent == << >>
File(content) == <<content>>
Files == {Absent} \cup {File(f) : f \in Times}
StaleFiles == {Absent, File([t \in Tx |-> "stale"])}

RoundTypeOK ==
  /\ KVTypeOK
  /\ submitted \subseteq Tx /\ threadDone \subseteq Thread
  /\ threadLog \in [Thread -> Files]
  /\ txLog \in Files
  /\ script \in {"workload", "merge", "copy", "post", "done", "failed", "rejected"}
  /\ Len(copied) <= NodeNum /\ broken \subseteq Node
  /\ reportFile \in {"absent", "old", "new"}
  /\ DOMAIN report \subseteq 1..Len(chain)
  /\ \A h \in DOMAIN report : \A t \in DOMAIN report[h].txs : t \in 1..Load
  /\ ready \in [threads : BOOLEAN, network : BOOLEAN, restarts : 0..MaxRestarts]

\* Mutant: every thread starts at the first transaction, as in the Quorum script.
SliceFromZero(k) == 1..PerThread

\* The transactions of thread k: ONE_PERIOD of them from its SLICE on.
Slice(k) == (k - 1) * PerThread + 1..k * PerThread

\* Files of an earlier round may be left: its transaction_log.json and its report, and a
\* thread's file that merge.js did not get to.
RoundInit ==
  /\ KVInit
  /\ submitted = {} /\ threadDone = {}
  /\ threadLog \in [Thread -> StaleFiles]
  /\ txLog \in StaleFiles
  /\ script = "workload"
  /\ copied = << >> /\ broken = {}
  /\ reportFile \in {"absent", "old"} /\ report = << >>
  /\ ready = [threads |-> FALSE, network |-> FALSE, restarts |-> 0]

\* Consensus takes transactions that were submitted, and the nodes execute them.
NetworkStep ==
  /\ \/ \E txs \in SUBSET submitted : Decide(txs)
     \/ \E n \in Node : DeliverTx(n) \/ Commit(n) \/ Restart(n)
  /\ UNCHANGED roundVars

\* Thread k sends transaction t.
Submit(k, t) ==
  /\ t \in Slice(k) \ submitted
  /\ submitted' = submitted \cup {t}
  /\ UNCHANGED kvVars
  /\ UNCHANGED <<threadLog, threadDone, txLog, script, copied, broken, reportFile, report, ready>>

\* Thread k has sent its transactions and writes the replies it has; the script waits for
\* the last thread only.
ThreadEnds(k) ==
  /\ k \notin threadDone /\ Slice(k) \subseteq submitted
  /\ \E late \in SUBSET Slice(k) :
       /\ Cardinality(late) <= MaxLate
       /\ threadLog' = [threadLog EXCEPT ![k] = File([t \in Slice(k) \ late |-> "fresh"])]
  /\ threadDone' = threadDone \cup {k}
  /\ script' = IF k = ThreadNum /\ script = "workload" THEN "merge" ELSE script
  /\ UNCHANGED kvVars
  /\ UNCHANGED <<submitted, txLog, copied, broken, reportFile, report, ready>>

------------------------------------------------------------------------------
(***************************************************************************)
(* merge.js                                                                *)
(***************************************************************************)

\* Mutant: the loop stops before the last thread.
ReadableButLast ==
  {k \in Thread : k # ThreadNum /\ \A j \in 1..k : threadLog[j] # Absent}

\* The threads whose files are read, and removed: up to the first that is missing.
Readable == {k \in Thread : \A j \in 1..k : threadLog[j] # Absent}

\* The receive time of each transaction in the files fs: the last file that has it counts.
Union(fs) ==
  [t \in UNION {DOMAIN fs[k] : k \in DOMAIN fs} |->
     LET having == {k \in DOMAIN fs : t \in DOMAIN fs[k]}
     IN fs[CHOOSE k \in having : \A j \in having : j <= k][t]]

\* Mutant: the files are added to the transaction_log.json that is there.
UnitedWithOld == Union(txLog \o [k \in Thread |-> threadLog[k][1]])

\* Object.assign over the files, in the order of the threads.
United == Union([k \in Thread |-> threadLog[k][1]])

\* A file that is missing ends merge.js before transaction_log.json is written.
Merge ==
  /\ script = "merge"
  /\ txLog' = IF Readable = Thread THEN File(United) ELSE txLog
  /\ threadLog' = [k \in Thread |-> IF k \in Readable THEN Absent ELSE threadLog[k]]
  /\ script' = "copy"
  /\ ready' = [threads |-> threadDone = Thread,
               network |-> Committed = submitted /\ \A n \in Node : ~Executing(n),
               restarts |-> restarts]
  /\ UNCHANGED kvVars
  /\ UNCHANGED <<submitted, threadDone, copied, broken, reportFile, report>>

\* What the copy of the next node's commit log leaves is in rec_data, and the script goes on.
Copied(file) ==
  /\ copied' = Append(copied, file)
  /\ script' = IF Len(copied') = NodeNum THEN "post" ELSE "copy"
  /\ UNCHANGED kvVars
  /\ UNCHANGED <<submitted, threadLog, threadDone, txLog, reportFile, report, ready>>

\* The commit log of the next node is copied; the script waits for the copy.
CopyLog ==
  /\ script = "copy"
  /\ Copied(File(log[Len(copied)]))
  /\ UNCHANGED broken

\* The copy fails: there is no file, since the earlier round's were removed, or one that breaks
\* off, of which post_process.js takes the lines that are whole.
CopyFails ==
  /\ script = "copy" /\ Cardinality(broken) < MaxBroken
  /\ LET i == Len(copied)
     IN /\ \/ Copied(Absent)
           \/ \E k \in 0..Len(log[i]) - 1 : Copied(File(SubSeq(log[i], 1, k)))
        /\ broken' = broken \cup {i}

------------------------------------------------------------------------------
(***************************************************************************)
(* post_process.js                                                         *)
(***************************************************************************)

\* The blocks with a line in the copy of node i's log.
HeightsOf(i) ==
  IF copied[i + 1] = Absent THEN {}
  ELSE {copied[i + 1][1][k].height : k \in 1..Len(copied[i + 1][1])}

\* Every log is there to be read.  Node 0's makes the entries; a line of another node needs its
\* entry to be there.
EntriesMade == \A i \in Node : copied[i + 1] # Absent /\ HeightsOf(i) \subseteq HeightsOf(0)

\* Mutant: nodes are pushed in reverse.
PushedReversed(h) ==
  LET pushed == {i \in Node : h \in HeightsOf(i)}
  IN [k \in 1..Cardinality(pushed) |->
        CHOOSE i \in pushed : Cardinality({j \in pushed : j > i}) = k - 1]

\* The nodes whose commit times are pushed for block h: those that log it, in node order.
Pushed(h) ==
  LET pushed == {i \in Node : h \in HeightsOf(i)}
  IN [k \in 1..Cardinality(pushed) |->
        CHOOSE i \in pushed : Cardinality({j \in pushed : j < i}) = k - 1]

\* The block a transaction is in, as node 0 answers, or 0 if it does not know it.
HeightOf(t) ==
  LET known == {h \in 1..core[0].block - 1 : t \in chain[h]}
  IN IF known = {} THEN 0 ELSE CHOOSE h \in known : TRUE

\* Mutant: a transaction node 0 does not know is passed over.
FoundAllowed(t) == HeightOf(t) \in HeightsOf(0) \cup {0}

\* Is t found, in a block that has an entry?
Found(t) == HeightOf(t) \in HeightsOf(0)

\* The report: block -> nodes of its commit times, and receive time of its transactions.
Report ==
  [h \in {HeightOf(t) : t \in 1..Load} |->
     [nodes |-> Pushed(h),
      txs   |-> [t \in {u \in 1..Load : HeightOf(u) = h} |->
                   IF t \in DOMAIN txLog[1] THEN txLog[1][t] ELSE "undefined"]]]

PostProcess ==
  /\ script = "post"
  /\ txLog # Absent /\ EntriesMade /\ \A t \in 1..Load : Found(t)
  /\ report' = Report /\ reportFile' = "new"
  /\ script' = "done"
  /\ UNCHANGED kvVars
  /\ UNCHANGED <<submitted, threadLog, threadDone, txLog, copied, broken, ready>>

\* Without transaction_log.json the script ends before it removes the old report; after
\* that, a missing log, entry or transaction ends it without a report.
PostProcessFails ==
  /\ script = "post"
  /\ txLog = Absent \/ ~EntriesMade \/ \E t \in 1..Load : ~Found(t)
  /\ reportFile' = IF txLog = Absent THEN reportFile ELSE "absent"
  /\ script' = "failed"
  /\ UNCHANGED kvVars
  /\ UNCHANGED <<submitted, threadLog, threadDone, txLog, copied, broken, report, ready>>

\* Node 0 does not answer for a transaction: the rejected call ends the script after the old
\* report is removed.
PostProcessRejected ==
  /\ script = "post"
  /\ txLog # Absent /\ EntriesMade
  /\ reportFile' = "absent"
  /\ script' = "rejected"
  /\ UNCHANGED kvVars
  /\ UNCHANGED <<submitted, threadLog, threadDone, txLog, copied, broken, report, ready>>

RoundNext ==
  \/ NetworkStep
  \/ \E k \in Thread : \E t \in Slice(k) : Submit(k, t)
  \/ \E k \in Thread : ThreadEnds(k)
  \/ Merge
  \/ CopyLog
  \/ CopyFails
  \/ PostProcess
  \/ PostProcessFails
  \/ PostProcessRejected

\* Core executes what has been decided.
RoundSpec ==
  /\ RoundInit /\ [][RoundNext]_allVars
  /\ \A n \in Node : WF_kvVars(DeliverTx(n) \/ Commit(n))

------------------------------------------------------------------------------
(***************************************************************************)
(* Properties.                                                             *)
(***************************************************************************)

\* If the threads had ended and every node had committed every block when merge.js ran, the
\* commit times of a block are one per node, in node order, which is how calculate.js reads
\* them, unless a node was restarted after that or the copy of a log broke off: a copy that is
\* missing altogether gives no report (post_process.js:19-39).
SettledTimesByNode ==
  script = "done" /\ ready.threads /\ ready.network /\ restarts = ready.restarts =>
    \A h \in DOMAIN report :
      \/ report[h].nodes = [k \in 1..NodeNum |-> k - 1]
      \/ \E i \in broken : copied[i + 1] # Absent /\ h \notin HeightsOf(i)

\* If the background threads had ended when merge.js ran, no receive time is an earlier
\* round's, even where a reply came too late to be logged (merge.js:5-12).
ThreadsEndedNoStaleTime ==
  script = "done" /\ ready.threads =>
    \A h \in DOMAIN report : \A t \in DOMAIN report[h].txs : report[h].txs[t] # "stale"

\* If the threads had ended when merge.js ran, calculate.js never reads the report of an
\* earlier round, whatever fails: merge.js writes transaction_log.json, so post_process.js
\* gets to remove the old report (merge.js:12, post_process.js:7, 17).
NoOldReportIsCalculated ==
  script \in {"done", "failed", "rejected"} /\ ready.threads => reportFile # "old"

\* If threads and nodes were both done when merge.js ran, and no copy or call to node 0 failed
\* after it, the report of this round is written exactly where the rate divides by the number of
\* threads (oneRoundTesting.sh:14-15, 37-60).
ReadyRoundSucceeds ==
  script \in {"done", "failed"} /\ ready.threads /\ ready.network /\ restarts = ready.restarts
      /\ broken = {} =>
    (script = "failed" <=> Load > ThreadNum * PerThread)

==============================================================================
