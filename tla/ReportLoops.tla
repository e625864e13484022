----------------------------- MODULE ReportLoops -----------------------------
(***************************************************************************)
(* The two nested loops in which the monitors of a Quorum network build    *)
(* their report (src/quorum/code/txMonitor.js, and the same lines of       *)
(* src/raft/code/doc-tracking/txMonitor.js): over the nodes, and over the  *)
(* blocks s..e of the round, with one awaited getBlock per turn.  The      *)
(* bounds are read again at every turn.                                    *)
(***************************************************************************)
EXTENDS Nodes, Sequences

\* Mutant: one block too many.
LoopFromExtraBlock(i, j, s, e) ==
  IF j <= e + 1 THEN [pc |-> "report", node |-> i, block |-> j]
  ELSE IF i + 1 < NodeNum /\ s <= e THEN [pc |-> "report", node |-> i + 1, block |-> s]
  ELSE [pc |-> "done", node |-> i, block |-> j]

\* main's loop after it has handled block j - 1 of node i, for the range s..e: the next
\* getBlock it awaits, or "done" when both loops are over.
LoopFrom(i, j, s, e) ==
  IF j <= e THEN [pc |-> "report", node |-> i, block |-> j]
  ELSE IF i + 1 < NodeNum /\ s <= e THEN [pc |-> "report", node |-> i + 1, block |-> s]
  ELSE [pc |-> "done", node |-> i, block |-> j]

\* Mutant: the entry is created without node 0's timestamp.
PushEmptyEntry(report, i, j) ==
  [b \in DOMAIN report \cup {j} |->
     IF b # j THEN report[b] ELSE IF i = 0 THEN << >> ELSE Append(report[j], i)]

\* app.report (block number -> nodes whose timestamp was pushed) after node i's timestamp of
\* block j is pushed; node 0 creates the entry.
Push(report, i, j) ==
  [b \in DOMAIN report \cup {j} |->
     IF b # j THEN report[b] ELSE IF i = 0 THEN <<i>> ELSE Append(report[j], i)]

\* The timestamps of a block stay in node order, and no node is entered twice.
RowsInOrder(report) ==
  \A b \in DOMAIN report : \A k \in 1..Len(report[b]) - 1 : report[b][k] < report[b][k + 1]

\* Every block of the range has an entry, and the k-th timestamp of an entry is node k's, which
\* is how the calculators read it.
RowsComplete(report, s, e) ==
  /\ DOMAIN report = s..e
  /\ \A b \in DOMAIN report : report[b] = [k \in 1..NodeNum |-> k - 1]

==============================================================================
