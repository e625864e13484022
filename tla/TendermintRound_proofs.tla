------------------------- MODULE TendermintRound_proofs -------------------------
(***************************************************************************)
(* What a round on a Tendermint network guarantees, for every number of    *)
(* nodes, threads, transactions and blocks: what the files of an earlier   *)
(* round cannot do once all threads have ended, and what the report holds  *)
(* once all nodes have committed as well.  The application comes first: a  *)
(* round's network is an instance of it.                                   *)
(***************************************************************************)
EXTENDS TendermintRound, FiniteSetTheorems, SequenceTheorems, WellFoundedInduction, TLAPS

------------------------------------------------------------------------------
(***************************************************************************)
(* The application, whatever the workload decides.                         *)
(***************************************************************************)

\* The application counts what Core executes: its height is the block before the one Core is
\* at, and its transaction counter what Core has delivered of that block.
InStep ==
  \A n \in Node :
    /\ core[n].block <= Len(chain) + 1
    /\ app[n].height = core[n].block - 1
    /\ app[n].txindex = core[n].delivered

\* Are these the lines of the log of a node that has committed the blocks up to last?
LogOf(lines, last) ==
  /\ \A k \in 1..Len(lines) :
       /\ lines[k].height \in 1..last
       /\ chain[lines[k].height] # {}
       /\ lines[k].num = Cardinality(chain[lines[k].height])
  /\ \A h \in 1..last : chain[h] # {} => \E k \in 1..Len(lines) : lines[k].height = h
  /\ \A j, k \in 1..Len(lines) : j < k => lines[j].height < lines[k].height

LogsSound == \A n \in Node : LogOf(log[n], core[n].block - 1)

KVIInv == KVTypeOK /\ InStep /\ LogsSound

------------------------------------------------------------------------------
\* A block of the chain is finite, so that it is empty exactly when its size is 0.
LEMMA BlockFinite ==
  ASSUME KVTypeOK, NEW h \in 1..Len(chain)
  PROVE  /\ Cardinality(chain[h]) \in Nat
         /\ Cardinality(chain[h]) = 0 <=> chain[h] = {}
<1>1. chain[h] \subseteq Tx
  BY DEF KVTypeOK
<1>2. IsFiniteSet(chain[h])
  BY <1>1, FS_Subset, KVTxAssumption
<1> QED
  BY <1>2, FS_CardinalityType, FS_EmptySet

\* The application and its log begin in step with Core.
LEMMA InitKVIInv == KVInit => KVIInv
  BY KVBoundAssumption
  DEF KVInit, KVIInv, KVTypeOK, InStep, LogsSound, LogOf, FreshState, FirstBlock

\* The type invariant is kept by every step that keeps app in step with Core.
LEMMA TypeStep == KVTypeOK /\ InStep /\ [KVNext]_kvVars => KVTypeOK'
<1> SUFFICES ASSUME KVTypeOK, InStep, [KVNext]_kvVars PROVE KVTypeOK'
  OBVIOUS
<1>1. ASSUME NEW txs \in SUBSET Tx, Decide(txs) PROVE KVTypeOK'
  BY <1>1 DEF Decide, KVTypeOK
<1>2. ASSUME NEW n \in Node, DeliverTx(n) PROVE KVTypeOK'
  <2> DEFINE nextCore == [core[n] EXCEPT !.delivered = core[n].delivered + 1]
             nextApp == [app[n] EXCEPT !.txindex = app[n].txindex + 1]
  <2>1. /\ core[n] \in [block : Nat \ {0}, delivered : Nat]
        /\ app[n] \in [height : Nat, txindex : Nat]
    BY DEF KVTypeOK
  <2>3. nextCore = [block |-> core[n].block, delivered |-> core[n].delivered + 1]
    BY <2>1
  <2>4. nextApp = [height |-> app[n].height, txindex |-> app[n].txindex + 1]
    BY <2>1
  <2>5. /\ nextCore \in [block : Nat \ {0}, delivered : Nat]
        /\ nextApp \in [height : Nat, txindex : Nat]
    BY <2>1, <2>3, <2>4
  <2>2. /\ core' = [core EXCEPT ![n] = nextCore]
        /\ app' = [app EXCEPT ![n] = nextApp]
        /\ UNCHANGED <<chain, log, restarts>>
    BY <1>2 DEF DeliverTx
  <2> HIDE DEF nextCore, nextApp
  <2> QED
    BY <2>2, <2>5 DEF KVTypeOK
<1>3. ASSUME NEW n \in Node, Commit(n) PROVE KVTypeOK'
  <2>1. CommittedState(app[n]) \in [height : Nat, txindex : Nat]
    BY DEF CommittedState, KVTypeOK
  <2>2. CommittedLog(n) \in Seq([height : Nat, num : Nat])
    <3>1. log[n] \in Seq([height : Nat, num : Nat])
      BY DEF KVTypeOK
    <3> DEFINE line == [height |-> app[n].height + 1, num |-> app[n].txindex]
    <3>2. line \in [height : Nat, num : Nat]
      BY DEF KVTypeOK
    <3>3. CommittedLog(n) = log[n] \/ CommittedLog(n) = Append(log[n], line)
      BY DEF CommittedLog
    <3> HIDE DEF line
    <3>4. Append(log[n], line) \in Seq([height : Nat, num : Nat])
      BY <3>1, <3>2, AppendProperties
    <3> QED
      BY <3>1, <3>3, <3>4
  <2>3. [block |-> core[n].block + 1, delivered |-> 0] \in [block : Nat \ {0}, delivered : Nat]
    BY DEF KVTypeOK
  <2>4. /\ core' = [core EXCEPT ![n] = [block |-> core[n].block + 1, delivered |-> 0]]
        /\ app' = [app EXCEPT ![n] = CommittedState(app[n])]
        /\ log' = [log EXCEPT ![n] = CommittedLog(n)]
        /\ UNCHANGED <<chain, restarts>>
    BY <1>3 DEF Commit
  <2>5. core' \in [Node -> [block : Nat \ {0}, delivered : Nat]]
    BY <2>3, <2>4 DEF KVTypeOK
  <2>6. app' \in [Node -> [height : Nat, txindex : Nat]]
    BY <2>1, <2>4 DEF KVTypeOK
  <2>7. log' \in [Node -> Seq([height : Nat, num : Nat])]
    BY <2>2, <2>4 DEF KVTypeOK
  <2> QED
    BY <2>4, <2>5, <2>6, <2>7 DEF KVTypeOK
<1>4. ASSUME NEW n \in Node, Restart(n) PROVE KVTypeOK'
  BY <1>4, KVBoundAssumption DEF Restart, KVTypeOK, FreshState, ReplayFrom, FirstBlock
<1>5. CASE UNCHANGED kvVars
  BY <1>5 DEF kvVars, KVTypeOK
<1> QED
  BY <1>1, <1>2, <1>3, <1>4, <1>5 DEF KVNext

\* A block that is appended changes nothing of what logs and applications are about.
LEMMA DecideKeeps ==
  ASSUME KVIInv, NEW txs \in SUBSET Tx, Decide(txs)
  PROVE  InStep' /\ LogsSound'
<1>1. /\ Len(chain') = Len(chain) + 1
      /\ \A h \in 1..Len(chain) : chain'[h] = chain[h]
  BY DEF Decide, KVIInv, KVTypeOK
<1>2. InStep'
  BY <1>1 DEF Decide, KVIInv, KVTypeOK, InStep
<1>3. ASSUME NEW n \in Node PROVE LogOf(log[n], core[n].block - 1)'
  <2>1. core[n].block \in Nat /\ core[n].block <= Len(chain) + 1 /\ Len(chain) \in Nat
    BY DEF KVIInv, KVTypeOK, InStep
  <2>2. \A h \in 1..core[n].block - 1 : chain'[h] = chain[h]
    BY <1>1, <2>1
  <2>3. log' = log /\ core' = core
    BY DEF Decide
  <2> QED
    BY <2>2, <2>3 DEF LogOf, LogsSound, KVIInv
<1> QED
  BY <1>2, <1>3 DEF LogsSound

\* A transaction is counted on both sides, and no log changes.
LEMMA DeliverTxKeeps ==
  ASSUME KVIInv, NEW n \in Node, DeliverTx(n)
  PROVE  InStep' /\ LogsSound'
<1>1. /\ core' = [core EXCEPT ![n].delivered = core[n].delivered + 1]
      /\ app' = [app EXCEPT ![n].txindex = app[n].txindex + 1]
      /\ chain' = chain /\ log' = log
  BY DEF DeliverTx
<1>2. \A m \in Node : core'[m].block = core[m].block
  BY <1>1 DEF KVIInv, KVTypeOK
<1>3. InStep'
  BY <1>1 DEF KVIInv, KVTypeOK, InStep
<1> QED
  BY <1>1, <1>2, <1>3 DEF KVIInv, LogsSound, LogOf

\* The line of a block with transactions goes behind the lines of the blocks before it.
LEMMA CommitKeeps ==
  ASSUME KVIInv, NEW n \in Node, Commit(n)
  PROVE  InStep' /\ LogsSound'
<1> DEFINE b == core[n].block
<1>1. /\ b \in 1..Len(chain) /\ b \in Nat \ {0}
      /\ app[n].height = b - 1 /\ app[n].txindex = Cardinality(chain[b])
      /\ core[n].delivered = Cardinality(chain[b])
  BY DEF Commit, Executing, KVIInv, KVTypeOK, InStep
<1>2. /\ core' = [core EXCEPT ![n] = [block |-> b + 1, delivered |-> 0]]
      /\ app' = [app EXCEPT ![n] = [height |-> app[n].height + 1, txindex |-> 0]]
      /\ log' = [log EXCEPT ![n] = CommittedLog(n)]
      /\ chain' = chain
  BY DEF Commit, CommittedState
<1>3. InStep'
  <2> SUFFICES ASSUME NEW m \in Node
               PROVE  /\ core'[m].block <= Len(chain') + 1
                      /\ app'[m].height = core'[m].block - 1
                      /\ app'[m].txindex = core'[m].delivered
    BY DEF InStep
  <2>1. CASE m = n
    <3>1. /\ core'[n] = [block |-> b + 1, delivered |-> 0]
          /\ app'[n] = [height |-> b - 1 + 1, txindex |-> 0]
      BY <1>1, <1>2 DEF KVIInv, KVTypeOK
    <3> QED
      BY <1>1, <1>2, <2>1, <3>1 DEF KVIInv, KVTypeOK
  <2>2. CASE m # n
    <3>1. core'[m] = core[m] /\ app'[m] = app[m]
      BY <1>2, <2>2 DEF KVIInv, KVTypeOK
    <3> QED
      BY <1>2, <3>1 DEF KVIInv, InStep
  <2> QED
    BY <2>1, <2>2
<1>4. /\ core'[n].block = b + 1 /\ log'[n] = CommittedLog(n)
      /\ \A m \in Node \ {n} : core'[m] = core[m] /\ log'[m] = log[m]
  BY <1>2 DEF KVIInv, KVTypeOK
<1>5. LogOf(log[n], b - 1)
  BY DEF KVIInv, LogsSound
<1>6. LogOf(CommittedLog(n), b)
  <2>1. CASE chain[b] = {}
    <3>1. CommittedLog(n) = log[n]
      BY <1>1, <2>1, BlockFinite DEF CommittedLog, KVIInv
    <3>2. \A h \in 1..b : chain[h] # {} => h \in 1..b - 1
      BY <1>1, <2>1
    <3>3. \A k \in 1..Len(log[n]) : log[n][k].height \in 1..b
      BY <1>1, <1>5 DEF LogOf
    <3> HIDE DEF b
    <3>4. LogOf(log[n], b)
      BY <1>5, <3>2, <3>3 DEF LogOf
    <3> QED
      BY <3>1, <3>4
  <2>2. CASE chain[b] # {}
    <3> DEFINE line == [height |-> b, num |-> Cardinality(chain[b])]
               longer == Append(log[n], line)
    <3>1. CommittedLog(n) = longer
      BY <1>1, <2>2, BlockFinite DEF CommittedLog, KVIInv
    <3>2. /\ Len(longer) = Len(log[n]) + 1 /\ Len(log[n]) \in Nat
          /\ longer[Len(log[n]) + 1] = line
          /\ \A k \in 1..Len(log[n]) : longer[k] = log[n][k]
      BY DEF KVIInv, KVTypeOK
    <3>3. \A k \in 1..Len(longer) : k \in 1..Len(log[n]) \/ k = Len(log[n]) + 1
      BY <3>2
    <3>4. \A k \in 1..Len(longer) : /\ longer[k].height \in 1..b
                                   /\ chain[longer[k].height] # {}
                                   /\ longer[k].num = Cardinality(chain[longer[k].height])
      <4> SUFFICES ASSUME NEW k \in 1..Len(longer)
                   PROVE  /\ longer[k].height \in 1..b
                          /\ chain[longer[k].height] # {}
                          /\ longer[k].num = Cardinality(chain[longer[k].height])
        OBVIOUS
      <4>1. CASE k \in 1..Len(log[n])
        <5>1. /\ log[n][k].height \in 1..b - 1
              /\ chain[log[n][k].height] # {}
              /\ log[n][k].num = Cardinality(chain[log[n][k].height])
          BY <1>5, <4>1 DEF LogOf
        <5>2. longer[k] = log[n][k]
          BY <3>2, <4>1
        <5>3. 1..b - 1 \subseteq 1..b
          BY <1>1
        <5> HIDE DEF longer
        <5> QED
          BY <5>1, <5>2, <5>3
      <4>2. CASE k = Len(log[n]) + 1
        <5>1. longer[k] = line
          BY <3>2, <4>2
        <5>2. b \in 1..b
          BY <1>1
        <5> HIDE DEF longer
        <5> QED
          BY <2>2, <5>1, <5>2
      <4> QED
        BY <3>3, <4>1, <4>2
    <3>5. \A h \in 1..b : chain[h] # {} => \E k \in 1..Len(longer) : longer[k].height = h
      <4> SUFFICES ASSUME NEW h \in 1..b, chain[h] # {}
                   PROVE  \E k \in 1..Len(longer) : longer[k].height = h
        OBVIOUS
      <4>1. CASE h = b
        BY <3>2, <4>1
      <4>2. CASE h \in 1..b - 1
        <5>1. PICK k \in 1..Len(log[n]) : log[n][k].height = h
          BY <1>5, <4>2 DEF LogOf
        <5> QED
          BY <3>2, <5>1
      <4> QED
        BY <1>1, <4>1, <4>2
    <3>6. \A j, k \in 1..Len(longer) : j < k => longer[j].height < longer[k].height
      <4> SUFFICES ASSUME NEW j \in 1..Len(longer), NEW k \in 1..Len(longer), j < k
                   PROVE  longer[j].height < longer[k].height
        OBVIOUS
      <4>1. j \in 1..Len(log[n])
        BY <3>2
      <4>2. CASE k \in 1..Len(log[n])
        BY <1>5, <3>2, <4>1, <4>2 DEF LogOf
      <4>3. CASE k = Len(log[n]) + 1
        <5>1. log[n][j].height \in 1..b - 1
          BY <1>5, <4>1 DEF LogOf
        <5> QED
          BY <1>1, <3>2, <4>1, <4>3, <5>1
      <4> QED
        BY <3>3, <4>2, <4>3
    <3> HIDE DEF longer, b
    <3>7. LogOf(longer, b)
      BY <3>4, <3>5, <3>6 DEF LogOf
    <3> QED
      BY <3>1, <3>7
  <2> QED
    BY <2>1, <2>2
<1>7. ASSUME NEW m \in Node PROVE LogOf(log[m], core[m].block - 1)'
  <2>1. CASE m = n
    <3>1. core'[m].block - 1 = b /\ log'[m] = CommittedLog(n) /\ chain' = chain
      BY <1>1, <1>2, <1>4, <2>1
    <3> HIDE DEF b
    <3> QED
      BY <1>6, <3>1 DEF LogOf
  <2>2. CASE m # n
    <3>1. LogOf(log[m], core[m].block - 1)
      BY DEF KVIInv, LogsSound
    <3> QED
      BY <1>2, <1>4, <2>2, <3>1 DEF LogOf
  <2> QED
    BY <2>1, <2>2
<1> QED
  BY <1>3, <1>7 DEF LogsSound

\* A restart empties both sides.
LEMMA RestartKeeps ==
  ASSUME KVIInv, NEW n \in Node, Restart(n)
  PROVE  InStep' /\ LogsSound'
<1>1. /\ core' = [core EXCEPT ![n] = FirstBlock]
      /\ app' = [app EXCEPT ![n] = FreshState]
      /\ log' = [log EXCEPT ![n] = << >>]
      /\ chain' = chain
  BY DEF Restart, ReplayFrom
<1>2. InStep'
  BY <1>1 DEF KVIInv, KVTypeOK, InStep, FirstBlock, FreshState
<1>3. ASSUME NEW m \in Node PROVE LogOf(log[m], core[m].block - 1)'
  <2>1. CASE m = n
    BY <1>1, <2>1 DEF KVIInv, KVTypeOK, LogOf, FirstBlock
  <2>2. CASE m # n
    <3>1. core'[m] = core[m] /\ log'[m] = log[m]
      BY <1>1, <2>2 DEF KVIInv, KVTypeOK
    <3>2. LogOf(log[m], core[m].block - 1)
      BY DEF KVIInv, LogsSound
    <3> QED
      BY <1>1, <3>1, <3>2 DEF LogOf
  <2> QED
    BY <2>1, <2>2
<1> QED
  BY <1>2, <1>3 DEF LogsSound

\* Every step of Core or of a node keeps the invariant.
LEMMA NextKVIInv == KVIInv /\ [KVNext]_kvVars => KVIInv'
<1> SUFFICES ASSUME KVIInv, [KVNext]_kvVars PROVE KVIInv'
  OBVIOUS
<1>1. KVTypeOK'
  BY TypeStep DEF KVIInv
<1>2. CASE \E txs \in SUBSET Tx : Decide(txs)
  BY <1>1, <1>2, DecideKeeps DEF KVIInv
<1>3. CASE \E n \in Node : DeliverTx(n)
  BY <1>1, <1>3, DeliverTxKeeps DEF KVIInv
<1>4. CASE \E n \in Node : Commit(n)
  BY <1>1, <1>4, CommitKeeps DEF KVIInv
<1>5. CASE \E n \in Node : Restart(n)
  BY <1>1, <1>5, RestartKeeps DEF KVIInv
<1>6. CASE UNCHANGED kvVars
  BY <1>1, <1>6 DEF KVIInv, kvVars, InStep, LogsSound, LogOf
<1> QED
  BY <1>2, <1>3, <1>4, <1>5, <1>6 DEF KVNext

\* The invariant holds in every reachable state of the application.
LEMMA KVInvariant == KVSpec => []KVIInv
<1>1. KVInit => KVIInv
  BY InitKVIInv
<1>2. KVIInv /\ [KVNext]_kvVars => KVIInv'
  BY NextKVIInv
<1> QED
  BY <1>1, <1>2, PTL DEF KVSpec

------------------------------------------------------------------------------
\* Every reachable state of the application and its log is well typed (kvstore.go:30-36).
THEOREM KVTypeCorrect == KVSpec => []KVTypeOK
<1>1. KVIInv => KVTypeOK
  BY DEF KVIInv
<1> QED
  BY <1>1, KVInvariant, PTL

\* The commit log of every node agrees with the chain, at any time and after any number of
\* restarts (kvstore.go:105-117).
THEOREM LogIsCorrect == KVSpec => []LogMatchesChain
<1>1. KVIInv => LogMatchesChain
  <2> SUFFICES ASSUME KVIInv, NEW n \in Node
               PROVE  /\ {log[n][k].height : k \in 1..Len(log[n])} = LoggedHeights(n)
                      /\ \A k \in 1..Len(log[n]) : log[n][k].num = Cardinality(chain[log[n][k].height])
                      /\ \A j, k \in 1..Len(log[n]) : j < k => log[n][j].height < log[n][k].height
    BY DEF LogMatchesChain
  <2>1. LogOf(log[n], core[n].block - 1)
    BY DEF KVIInv, LogsSound
  <2>2. {log[n][k].height : k \in 1..Len(log[n])} = LoggedHeights(n)
    BY <2>1 DEF LogOf, LoggedHeights
  <2> QED
    BY <2>1, <2>2 DEF LogOf
<1> QED
  BY <1>1, KVInvariant, PTL

------------------------------------------------------------------------------
(***************************************************************************)
(* The inductive invariant.                                                *)
(***************************************************************************)

\* Does a log file hold receive times of this round only?
Fresh(times) == \A t \in DOMAIN times : times[t] = "fresh"

\* A thread that is done has sent its transactions, and until merge.js runs its file is there,
\* with receive times of this round; so is transaction_log.json if merge.js found all threads
\* done.
ThreadsSound ==
  /\ \A k \in threadDone : Slice(k) \subseteq submitted
  /\ script \in {"workload", "merge"} =>
       /\ ~ready.threads
       /\ \A k \in threadDone : threadLog[k] # Absent /\ Fresh(threadLog[k][1])
  /\ ready.threads => submitted = Tx /\ txLog # Absent /\ Fresh(txLog[1])

\* What a copy leaves: no file, or one with some lines.
CopyFiles == {Absent} \cup {File(lines) : lines \in Seq([height : Nat, num : Nat])}

\* The copied logs are of blocks of the chain, and complete in number behind the copying; one is
\* missing only if its copy failed.
CopiesSound ==
  /\ copied \in Seq(CopyFiles)
  /\ \A i \in Node : i < Len(copied) =>
       /\ HeightsOf(i) \subseteq 1..Len(chain)
       /\ i \notin broken => copied[i + 1] # Absent
  /\ script \in {"workload", "merge"} => copied = << >>
  /\ script = "copy" => Len(copied) < NodeNum
  /\ script \in {"post", "done", "failed", "rejected"} => Len(copied) = NodeNum

\* The blocks with transactions.
TxBlocks == {h \in 1..Len(chain) : chain[h] # {}}

\* What holds of the blocks while the copying goes on and no node restarts: everything is in
\* the chain, and every node is past every block with transactions.
AllCommitted ==
  /\ Committed = Tx
  /\ \A n \in Node : TxBlocks \subseteq 1..core[n].block - 1

CopiesSettled ==
  \A i \in Node : i < Len(copied) =>
    HeightsOf(i) \subseteq TxBlocks /\ (i \notin broken => HeightsOf(i) = TxBlocks)

\* When everything had been committed before the logs were copied, only empty blocks come
\* after, and as long as no node restarts every log, copied or not, has the same blocks; a copy
\* that broke off has some of them.
SettledSound ==
  /\ ready.restarts <= restarts
  /\ ready.threads /\ ready.network /\ restarts = ready.restarts =>
       AllCommitted /\ CopiesSettled

RoundInv == /\ RoundTypeOK /\ KVIInv /\ ThreadsSound /\ CopiesSound /\ SettledSound
            /\ SettledTimesByNode /\ ThreadsEndedNoStaleTime
            /\ NoOldReportIsCalculated /\ ReadyRoundSucceeds

------------------------------------------------------------------------------
(***************************************************************************)
(* Slices and files.                                                       *)
(***************************************************************************)

\* A set of numbers from 1 to N that is not empty has a largest one: the numbers above it are
\* the smallest of the sets of numbers above a member.
LEMMA HasLargest ==
  ASSUME NEW N \in Nat, NEW S \in SUBSET (1..N), S # {}
  PROVE  \E m \in S : \A j \in S : j <= m
<1> DEFINE Above(k) == k + 1..N
           tails == {Above(k) : k \in S}
<1>1. IsFiniteSet(1..N)
  BY FS_Interval
<1>2. IsWellFoundedOn(StrictSubsetOrdering(1..N), FiniteSubsetsOf(1..N))
  BY <1>1, FS_StrictSubsetOrderingWellFounded
<1>3. tails \subseteq FiniteSubsetsOf(1..N) /\ tails # {}
  <2>1. \A k \in S : Above(k) \subseteq 1..N
    OBVIOUS
  <2>2. \A k \in S : IsFiniteSet(Above(k))
    BY <1>1, <2>1, FS_Subset
  <2> QED
    BY <2>1, <2>2 DEF FiniteSubsetsOf
<1> HIDE DEF tails
<1>4. PICK x \in tails : \A y \in tails : <<y, x>> \notin StrictSubsetOrdering(1..N)
  BY <1>2, <1>3, WFMin
<1>5. PICK m \in S : x = Above(m)
  BY <1>4 DEF tails
<1>6. ASSUME NEW j \in S, m < j PROVE FALSE
  <2>1. Above(j) \subseteq Above(m) /\ j \in Above(m) /\ j \notin Above(j)
    BY <1>6
  <2>2. Above(m) \subseteq 1..N
    OBVIOUS
  <2>3. Above(j) \in tails
    BY DEF tails
  <2> HIDE DEF Above
  <2>4. <<Above(j), Above(m)>> \in StrictSubsetOrdering(1..N)
    BY <2>1, <2>2 DEF StrictSubsetOrdering
  <2> QED
    BY <1>4, <1>5, <2>3, <2>4
<1> QED
  BY <1>6

\* A thread sends transactions of the round only.
LEMMA SliceInTx == ASSUME NEW k \in Thread PROVE Slice(k) \subseteq Tx
<1>1. k \in Nat /\ 1 <= k /\ k <= ThreadNum /\ ThreadNum \in Nat /\ PerThread \in Nat
  BY ThreadAssumption DEF Thread
<1>2. k * PerThread <= ThreadNum * PerThread /\ 0 <= (k - 1) * PerThread
  BY <1>1
<1>3. k * PerThread \in Nat /\ (k - 1) * PerThread \in Nat /\ ThreadNum * PerThread \in Nat
  BY <1>1
<1> QED
  BY <1>2, <1>3, TxAssumption DEF Slice

\* Every transaction is sent by a thread: the last one that begins at or before it.
LEMMA EverySlice == ASSUME NEW t \in Tx PROVE \E k \in Thread : t \in Slice(k)
<1> DEFINE begun == {k \in 1..ThreadNum : (k - 1) * PerThread + 1 <= t}
<1>1. ThreadNum \in Nat \ {0} /\ PerThread \in Nat \ {0} /\ t \in 1..ThreadNum * PerThread
  BY ThreadAssumption, TxAssumption
<1>2. 1 \in begun
  BY <1>1
<1>3. PICK k \in begun : \A j \in begun : j <= k
  BY <1>1, <1>2, HasLargest
<1>4. k * PerThread \in Nat /\ (k - 1) * PerThread \in Nat /\ ThreadNum * PerThread \in Nat /\ t \in Nat
  BY <1>1
<1>5. t <= k * PerThread
  <2>1. CASE k = ThreadNum
    BY <1>1, <2>1
  <2>2. CASE k # ThreadNum
    <3>1. k + 1 \in 1..ThreadNum /\ (k + 1) - 1 = k /\ ~(k + 1 <= k)
      BY <1>1, <2>2
    <3>2. ~((k + 1 - 1) * PerThread + 1 <= t)
      BY <1>3, <3>1
    <3>3. ~(k * PerThread + 1 <= t)
      BY <3>1, <3>2
    <3> QED
      BY <1>4, <3>3
  <2> QED
    BY <2>1, <2>2
<1> QED
  BY <1>4, <1>5 DEF Slice, Thread

\* When every thread is done, everything has been sent.
LEMMA AllSent == RoundTypeOK /\ ThreadsSound /\ threadDone = Thread => submitted = Tx
<1>1. RoundTypeOK => submitted \subseteq Tx
  BY DEF RoundTypeOK
<1>2. ThreadsSound /\ threadDone = Thread => \A k \in Thread : Slice(k) \subseteq submitted
  BY DEF ThreadsSound
<1> QED
  BY <1>1, <1>2, EverySlice

\* What a file that is there contains.
LEMMA FileContent ==
  ASSUME NEW f \in Files, f # Absent
  PROVE  f[1] \in Times
  BY DEF Files, File, Absent

\* What a log of receive times is.
LEMMA TimesAre ==
  ASSUME NEW f \in Times
  PROVE  DOMAIN f \subseteq Tx /\ \A t \in DOMAIN f : f[t] \in {"fresh", "stale"}
  BY DEF Times

\* A thread's log of the replies it has.
LEMMA LogIsFresh ==
  ASSUME NEW k \in Thread, NEW late
  PROVE  LET times == [t \in Slice(k) \ late |-> "fresh"] IN
         File(times) \in Files /\ File(times) # Absent /\ Fresh(File(times)[1])
<1> DEFINE times == [t \in Slice(k) \ late |-> "fresh"]
<1>1. Slice(k) \ late \subseteq Tx
  BY SliceInTx
<1>2. times \in [Slice(k) \ late -> {"fresh", "stale"}]
  OBVIOUS
<1>3. times \in Times
  BY <1>1, <1>2 DEF Times
<1>4. Fresh(times)
  BY DEF Fresh
<1> HIDE DEF times
<1>5. File(times) \in Files /\ File(times) # Absent /\ Fresh(File(times)[1])
  BY <1>3, <1>4 DEF Files, File, Absent
<1> QED
  BY <1>5 DEF times

\* Uniting the files takes every receive time from one of them.
LEMMA UnionIsOfFiles ==
  ASSUME NEW fs \in [Thread -> Times]
  PROVE  /\ Union(fs) \in Times
         /\ \A t \in DOMAIN Union(fs) :
              \E k \in Thread : t \in DOMAIN fs[k] /\ Union(fs)[t] = fs[k][t]
<1> DEFINE having(t) == {k \in Thread : t \in DOMAIN fs[k]}
           last(t) == CHOOSE k \in having(t) : \A j \in having(t) : j <= k
           all == UNION {DOMAIN fs[k] : k \in Thread}
<1>1. Union(fs) = [t \in all |-> fs[last(t)][t]]
  BY DEF Union
<1>2. ASSUME NEW t \in all PROVE last(t) \in having(t)
  <2>1. having(t) # {} /\ having(t) \subseteq 1..ThreadNum
    BY DEF Thread
  <2>2. ThreadNum \in Nat
    BY ThreadAssumption
  <2> HIDE DEF having
  <2>3. \E k \in having(t) : \A j \in having(t) : j <= k
    BY <2>1, <2>2, HasLargest
  <2> QED
    BY <2>3
<1>3. \A t \in all : last(t) \in Thread /\ t \in DOMAIN fs[last(t)]
  BY <1>2
<1> HIDE DEF last
<1>4. all \subseteq Tx
  BY TimesAre
<1>5. \A t \in all : fs[last(t)][t] \in {"fresh", "stale"}
  BY <1>3, TimesAre
<1> HIDE DEF all
<1>6. Union(fs) \in [all -> {"fresh", "stale"}]
  BY <1>1, <1>5
<1> QED
  BY <1>1, <1>3, <1>4, <1>6 DEF Times

------------------------------------------------------------------------------
(***************************************************************************)
(* What a step of the round does to the network.                           *)
(***************************************************************************)

\* Every step of the round is one of the network, or leaves it alone.
LEMMA StepOfNetwork == RoundTypeOK /\ [RoundNext]_allVars => [KVNext]_kvVars
<1> SUFFICES ASSUME RoundTypeOK, [RoundNext]_allVars PROVE [KVNext]_kvVars
  OBVIOUS
<1>1. CASE NetworkStep
  <2>1. SUBSET submitted \subseteq SUBSET Tx
    BY DEF RoundTypeOK
  <2> QED
    BY <1>1, <2>1 DEF NetworkStep, KVNext
<1>2. ASSUME NEW k \in Thread, NEW t \in Slice(k), Submit(k, t) PROVE UNCHANGED kvVars
  BY <1>2 DEF Submit
<1>3. ASSUME NEW k \in Thread, ThreadEnds(k) PROVE UNCHANGED kvVars
  BY <1>3 DEF ThreadEnds
<1>4. CASE Merge
  BY <1>4 DEF Merge
<1>5. CASE CopyLog \/ CopyFails
  BY <1>5 DEF CopyLog, CopyFails, Copied
<1>6. CASE PostProcess
  BY <1>6 DEF PostProcess
<1>7. CASE PostProcessFails \/ PostProcessRejected
  BY <1>7 DEF PostProcessFails, PostProcessRejected
<1>8. CASE UNCHANGED allVars
  BY <1>8 DEF allVars, kvVars
<1> QED
  BY <1>1, <1>2, <1>3, <1>4, <1>5, <1>6, <1>7, <1>8 DEF RoundNext

\* The chain only grows, restarts are only counted up, and where no node restarts Core only
\* goes on.
LEMMA NetworkGrows ==
  ASSUME KVTypeOK, [KVNext]_kvVars
  PROVE  /\ Len(chain) \in Nat /\ Len(chain') \in Nat /\ Len(chain) <= Len(chain')
         /\ \A h \in 1..Len(chain) : chain'[h] = chain[h]
         /\ restarts \in Nat /\ restarts' \in Nat /\ restarts <= restarts'
         /\ restarts' = restarts => \A n \in Node : core[n].block <= core'[n].block
<1>1. ASSUME NEW txs \in SUBSET Tx, Decide(txs)
      PROVE  /\ Len(chain') = Len(chain) + 1 /\ restarts' = restarts /\ core' = core
             /\ \A h \in 1..Len(chain) : chain'[h] = chain[h]
  BY <1>1 DEF Decide, KVTypeOK
<1>2. ASSUME NEW n \in Node, DeliverTx(n)
      PROVE  /\ chain' = chain /\ restarts' = restarts
             /\ \A m \in Node : core'[m].block = core[m].block
  BY <1>2 DEF DeliverTx, KVTypeOK
<1>3. ASSUME NEW n \in Node, Commit(n)
      PROVE  /\ chain' = chain /\ restarts' = restarts
             /\ \A m \in Node : core'[m].block \in {core[m].block, core[m].block + 1}
  <2>1. core' = [core EXCEPT ![n] = [block |-> core[n].block + 1, delivered |-> 0]]
    BY <1>3 DEF Commit
  <2> QED
    BY <1>3, <2>1 DEF Commit, KVTypeOK
<1>4. ASSUME NEW n \in Node, Restart(n)
      PROVE  chain' = chain /\ restarts' = restarts + 1
  BY <1>4 DEF Restart
<1>5. CASE UNCHANGED kvVars
  BY <1>5, KVBoundAssumption DEF kvVars, KVTypeOK
<1>6. /\ Len(chain) \in Nat /\ restarts \in Nat
      /\ \A n \in Node : core[n].block \in Nat
  BY KVBoundAssumption DEF KVTypeOK
<1>7. CASE \E txs \in SUBSET Tx : Decide(txs)
  BY <1>1, <1>6, <1>7
<1>8. CASE \E n \in Node : DeliverTx(n)
  BY <1>2, <1>6, <1>8
<1>9. CASE \E n \in Node : Commit(n)
  BY <1>3, <1>6, <1>9
<1>10. CASE \E n \in Node : Restart(n)
  BY <1>4, <1>6, <1>10
<1> QED
  BY <1>5, <1>7, <1>8, <1>9, <1>10 DEF KVNext

\* What the network does leaves the files alone, and restarts a node or counts no restart.
LEMMA NetworkStepKeeps == NetworkStep => UNCHANGED roundVars
  BY DEF NetworkStep

\* The log of a node has the blocks with transactions it has committed.
LEMMA LogHasCommitted ==
  ASSUME KVIInv, NEW n \in Node
  PROVE  /\ log[n] \in Seq([height : Nat, num : Nat])
         /\ \A k \in 1..Len(log[n]) : log[n][k].height \in 1..Len(chain)
         /\ {log[n][k].height : k \in 1..Len(log[n])} = LoggedHeights(n)
         /\ core[n].block \in Nat \ {0} /\ core[n].block <= Len(chain) + 1
         /\ Len(chain) \in Nat
<1>1. LogOf(log[n], core[n].block - 1)
  BY DEF KVIInv, LogsSound
<1>2. core[n].block \in Nat \ {0} /\ core[n].block <= Len(chain) + 1 /\ Len(chain) \in Nat
  BY DEF KVIInv, KVTypeOK, InStep
<1>3. log[n] \in Seq([height : Nat, num : Nat])
  BY DEF KVIInv, KVTypeOK
<1>4. {log[n][k].height : k \in 1..Len(log[n])} = LoggedHeights(n)
  BY <1>1 DEF LogOf, LoggedHeights
<1>5. \A k \in 1..Len(log[n]) : log[n][k].height \in 1..core[n].block - 1
  BY <1>1 DEF LogOf
<1>6. 1..core[n].block - 1 \subseteq 1..Len(chain)
  BY <1>2
<1>7. \A k \in 1..Len(log[n]) : log[n][k].height \in 1..Len(chain)
  BY <1>5, <1>6
<1> QED
  BY <1>2, <1>3, <1>4, <1>7

\* The blocks with transactions are those of the chain, and no others once it is all there.
LEMMA CommittedInBlocks ==
  ASSUME KVTypeOK, NEW t \in Committed
  PROVE  \E h \in TxBlocks : t \in chain[h]
  BY DEF Committed, TxBlocks

------------------------------------------------------------------------------
(***************************************************************************)
(* Files and copies: what merge.js and the copying leave.                  *)
(***************************************************************************)

\* The invariant holds before the workload, whatever files an earlier round left.
LEMMA RoundInitInv == RoundInit => RoundInv
<1> SUFFICES ASSUME RoundInit PROVE RoundInv
  OBVIOUS
<1>1. KVIInv /\ KVTypeOK
  BY InitKVIInv DEF RoundInit, KVIInv
<1>2. StaleFiles \subseteq Files
  <2>1. [t \in Tx |-> "stale"] \in [Tx -> {"fresh", "stale"}]
    OBVIOUS
  <2>2. [t \in Tx |-> "stale"] \in Times
    BY <2>1 DEF Times
  <2> QED
    BY <2>2 DEF StaleFiles, Files
<1>3. DOMAIN report = {} /\ copied = << >> /\ script = "workload"
  BY DEF RoundInit
<1>4. RoundTypeOK
  <2>1. threadLog \in [Thread -> Files] /\ txLog \in Files
    BY <1>2 DEF RoundInit
  <2>2. ready \in [threads : BOOLEAN, network : BOOLEAN, restarts : 0..MaxRestarts]
    BY KVBoundAssumption DEF RoundInit
  <2>3. Len(copied) <= NodeNum
    BY <1>3, KVNodeAssumption
  <2> QED
    BY <1>1, <1>3, <2>1, <2>2, <2>3 DEF RoundTypeOK, RoundInit
<1>5. ThreadsSound
  BY DEF ThreadsSound, RoundInit
<1>6. CopiesSound
  BY <1>3, KVNodeAssumption DEF CopiesSound, Node
<1>7. SettledSound
  BY KVBoundAssumption DEF SettledSound, RoundInit, KVInit
<1>8. /\ SettledTimesByNode /\ ThreadsEndedNoStaleTime
      /\ NoOldReportIsCalculated /\ ReadyRoundSucceeds
  BY <1>3 DEF SettledTimesByNode, ThreadsEndedNoStaleTime, NoOldReportIsCalculated,
              ReadyRoundSucceeds
<1> QED
  BY <1>1, <1>4, <1>5, <1>6, <1>7, <1>8 DEF RoundInv

\* What merge.js makes of the files: all threads' files are read, or transaction_log.json
\* stays as it is.
LEMMA MergeResult ==
  ASSUME RoundTypeOK, Merge
  PROVE  /\ txLog' \in Files
         /\ threadLog' \in [Thread -> Files]
         /\ (\A k \in Thread : threadLog[k] # Absent /\ Fresh(threadLog[k][1])) =>
               txLog' # Absent /\ Fresh(txLog'[1])
<1> DEFINE fs == [k \in Thread |-> threadLog[k][1]]
<1>1. threadLog \in [Thread -> Files] /\ txLog \in Files
  BY DEF RoundTypeOK
<1>2. Absent \in Files
  BY DEF Files
<1>3. threadLog' \in [Thread -> Files]
  BY <1>1, <1>2 DEF Merge
<1>4. CASE Readable = Thread
  <2>1. \A k \in Thread : threadLog[k] # Absent
    <3> SUFFICES ASSUME NEW k \in Thread PROVE threadLog[k] # Absent
      OBVIOUS
    <3>1. k \in 1..k /\ k \in Readable
      BY <1>4 DEF Thread
    <3> QED
      BY <3>1 DEF Readable
  <2>2. fs \in [Thread -> Times]
    BY <1>1, <2>1, FileContent
  <2>3. txLog' = File(Union(fs))
    BY <1>4 DEF Merge, United
  <2> HIDE DEF fs
  <2>4. /\ Union(fs) \in Times
        /\ \A t \in DOMAIN Union(fs) :
             \E k \in Thread : t \in DOMAIN fs[k] /\ Union(fs)[t] = fs[k][t]
    BY <2>2, UnionIsOfFiles
  <2>5. (\A k \in Thread : Fresh(fs[k])) => Fresh(Union(fs))
    BY <2>4 DEF Fresh
  <2>6. txLog' # Absent /\ txLog'[1] = Union(fs) /\ txLog' \in Files
    BY <2>3, <2>4 DEF Files, File, Absent
  <2>7. (\A k \in Thread : Fresh(threadLog[k][1])) => \A k \in Thread : Fresh(fs[k])
    BY DEF fs
  <2> QED
    BY <1>3, <2>5, <2>6, <2>7
<1>5. CASE Readable # Thread
  <2>1. txLog' = txLog
    BY <1>5 DEF Merge
  <2>2. ~\A k \in Thread : threadLog[k] # Absent
    <3>1. Readable \subseteq Thread
      BY DEF Readable
    <3>2. ASSUME \A k \in Thread : threadLog[k] # Absent, NEW k \in Thread PROVE k \in Readable
      <4>1. 1..k \subseteq Thread
        BY ThreadAssumption DEF Thread
      <4> QED
        BY <3>2, <4>1 DEF Readable
    <3> QED
      BY <1>5, <3>1, <3>2
  <2> QED
    BY <1>1, <1>3, <2>1, <2>2
<1> QED
  BY <1>4, <1>5

\* Merge keeps what ThreadsSound says: the files of threads that are done are of this round.
LEMMA MergeKeepsThreads ==
  ASSUME RoundInv, Merge
  PROVE  ThreadsSound'
<1>1. \A k \in threadDone : Slice(k) \subseteq submitted
  BY DEF RoundInv, ThreadsSound
<1>2. script' = "copy" /\ threadDone' = threadDone /\ submitted' = submitted
  BY DEF Merge
<1>3. ready'.threads <=> threadDone = Thread
  BY DEF Merge
<1>4. ASSUME threadDone = Thread PROVE submitted = Tx /\ txLog' # Absent /\ Fresh(txLog'[1])
  <2>1. \A k \in Thread : threadLog[k] # Absent /\ Fresh(threadLog[k][1])
    BY <1>4 DEF RoundInv, ThreadsSound, Merge
  <2>2. RoundTypeOK /\ ThreadsSound
    BY DEF RoundInv
  <2> QED
    BY <1>4, <2>1, <2>2, AllSent, MergeResult
<1>5. (\A k \in threadDone : Slice(k) \subseteq submitted)'
  BY <1>1, <1>2 DEF Slice
<1>6. (script \in {"workload", "merge"})' = FALSE
  BY <1>2
<1>7. (ready.threads => submitted = Tx /\ txLog # Absent /\ Fresh(txLog[1]))'
  <2>1. Absent' = Absent
    BY DEF Absent
  <2>2. CASE threadDone = Thread
    BY <1>2, <1>4, <2>2 DEF Fresh, Absent
  <2>3. CASE threadDone # Thread
    BY <1>3, <2>3
  <2> QED
    BY <2>2, <2>3
<1> QED
  BY <1>5, <1>6, <1>7 DEF ThreadsSound

\* Of the other steps, a thread that ends writes a file of this round, and no step takes one
\* away or a transaction back.
LEMMA StepKeepsThreads ==
  ASSUME RoundInv, [RoundNext]_allVars
  PROVE  ThreadsSound'
<1>1. CASE Merge
  BY <1>1, MergeKeepsThreads
<1>2. ASSUME NEW k \in Thread, NEW t \in Slice(k), Submit(k, t) PROVE ThreadsSound'
  <2>1. submitted \subseteq submitted' /\ submitted' \subseteq Tx
    BY <1>2, SliceInTx DEF RoundInv, RoundTypeOK, Submit
  <2>2. UNCHANGED <<threadLog, threadDone, txLog, script, ready>>
    BY <1>2 DEF Submit
  <2> QED
    BY <2>1, <2>2 DEF RoundInv, ThreadsSound, Fresh, Slice, Absent
<1>3. ASSUME NEW k \in Thread, ThreadEnds(k) PROVE ThreadsSound'
  <2>1. PICK late \in SUBSET Slice(k) :
          threadLog' = [threadLog EXCEPT ![k] = File([t \in Slice(k) \ late |-> "fresh"])]
    BY <1>3 DEF ThreadEnds
  <2> DEFINE file == File([t \in Slice(k) \ late |-> "fresh"])
  <2>2. file # Absent /\ Fresh(file[1])
    BY LogIsFresh
  <2>3. threadLog \in [Thread -> Files] /\ threadDone \subseteq Thread
    BY DEF RoundInv, RoundTypeOK
  <2> HIDE DEF file
  <2>4. /\ threadLog'[k] = file
        /\ \A j \in Thread \ {k} : threadLog'[j] = threadLog[j]
    BY <2>1, <2>3 DEF file
  <2>5. /\ Slice(k) \subseteq submitted /\ threadDone' = threadDone \cup {k}
        /\ UNCHANGED <<submitted, txLog, ready>>
        /\ script' \in {"workload", "merge"} => script \in {"workload", "merge"}
    BY <1>3 DEF ThreadEnds
  <2>6. \A j \in threadDone' : Slice(j) \subseteq submitted
    BY <2>5 DEF RoundInv, ThreadsSound
  <2>7. script \in {"workload", "merge"} =>
          /\ ~ready.threads
          /\ \A j \in threadDone' : threadLog'[j] # Absent /\ Fresh(threadLog'[j][1])
    <3>1. ASSUME script \in {"workload", "merge"}, NEW j \in threadDone'
          PROVE  threadLog'[j] # Absent /\ Fresh(threadLog'[j][1])
      <4>1. CASE j = k
        BY <2>2, <2>4, <4>1
      <4>2. CASE j # k
        BY <2>3, <2>4, <2>5, <3>1, <4>2 DEF RoundInv, ThreadsSound
      <4> QED
        BY <4>1, <4>2
    <3> QED
      BY <3>1 DEF RoundInv, ThreadsSound
  <2> QED
    BY <2>5, <2>6, <2>7 DEF RoundInv, ThreadsSound, Fresh, Slice, Absent
<1>4. CASE UNCHANGED <<submitted, threadLog, threadDone, txLog, ready>> /\
           (script' \in {"workload", "merge"} => script \in {"workload", "merge"})
  BY <1>4 DEF RoundInv, ThreadsSound, Fresh, Slice, Absent
<1>5. CASE NetworkStep
  BY <1>4, <1>5, NetworkStepKeeps DEF roundVars
<1>6. CASE CopyLog \/ CopyFails
  <2>1. UNCHANGED <<submitted, threadLog, threadDone, txLog, ready>> /\ script' \in {"post", "copy"}
    BY <1>6 DEF CopyLog, CopyFails, Copied
  <2> QED
    BY <1>4, <2>1
<1>7. CASE PostProcess
  BY <1>4, <1>7 DEF PostProcess
<1>8. CASE PostProcessFails \/ PostProcessRejected
  BY <1>4, <1>8 DEF PostProcessFails, PostProcessRejected
<1>9. CASE UNCHANGED allVars
  BY <1>4, <1>9 DEF allVars
<1> QED
  BY <1>1, <1>2, <1>3, <1>5, <1>6, <1>7, <1>8, <1>9 DEF RoundNext

------------------------------------------------------------------------------
(***************************************************************************)
(* The copied logs.                                                        *)
(***************************************************************************)

\* The heights copied so far change only when a log is appended.
LEMMA HeightsStay ==
  ASSUME copied' = copied
  PROVE  \A i \in Node : HeightsOf(i)' = HeightsOf(i)
  BY DEF HeightsOf, Absent

\* A file goes behind the others.
LEMMA CopiedAppends ==
  ASSUME RoundInv, script = "copy", NEW f \in CopyFiles, Copied(f), NEW n \in Nat, n = Len(copied)
  PROVE  /\ n \in Node /\ copied' \in Seq(CopyFiles) /\ Len(copied') = n + 1
         /\ copied'[n + 1] = f
         /\ \A i \in Node : i < n => copied'[i + 1] = copied[i + 1]
<1>1. copied' = Append(copied, f)
  BY DEF Copied
<1>2. copied \in Seq(CopyFiles) /\ n < NodeNum
  BY DEF RoundInv, CopiesSound
<1>3. n \in Node
  BY <1>2, KVNodeAssumption DEF Node
<1>4. \A i \in Node : i < n => i + 1 \in 1..n
  BY KVNodeAssumption DEF Node
<1> QED
  BY <1>1, <1>2, <1>3, <1>4, AppendProperties

\* What a copy that breaks off leaves: the first k lines of the log.
LEMMA PrefixOfLog ==
  ASSUME NEW S, NEW s \in Seq(S), NEW k \in 0..Len(s)
  PROVE  /\ SubSeq(s, 1, k) \in Seq(S) /\ Len(SubSeq(s, 1, k)) = k
         /\ \A j \in 1..k : SubSeq(s, 1, k)[j] = s[j]
<1>1. k \in Int /\ 1 \in Int /\ \A j \in 1..k : s[j] \in S
  OBVIOUS
<1>2. /\ SubSeq(s, 1, k) \in Seq(S)
      /\ Len(SubSeq(s, 1, k)) = IF 1 <= k THEN k - 1 + 1 ELSE 0
      /\ \A j \in 1..k - 1 + 1 : SubSeq(s, 1, k)[j] = s[1 + j - 1]
  BY <1>1, SubSeqProperties
<1> QED
  BY <1>2


\* The next node's log is copied, or some of its lines are, or nothing is.
LEMMA CopyAdds ==
  ASSUME RoundInv, CopyLog \/ CopyFails, NEW n \in Nat, n = Len(copied)
  PROVE  /\ n \in Node /\ copied' \in Seq(CopyFiles) /\ Len(copied') = n + 1
         /\ \A i \in Node : i < n => copied'[i + 1] = copied[i + 1] /\ HeightsOf(i)' = HeightsOf(i)
         /\ HeightsOf(n)' \subseteq {log[n][k].height : k \in 1..Len(log[n])}
         /\ \/ broken' = broken \cup {n}
            \/ /\ broken' = broken /\ copied'[n + 1] # Absent
               /\ HeightsOf(n)' = {log[n][k].height : k \in 1..Len(log[n])}
         /\ script' = IF n + 1 = NodeNum THEN "post" ELSE "copy"
         /\ UNCHANGED kvVars
         /\ UNCHANGED <<submitted, threadLog, threadDone, txLog, reportFile, report, ready>>
<1>1. script = "copy" /\ copied \in Seq(CopyFiles) /\ n < NodeNum
  BY DEF CopyLog, CopyFails, RoundInv, CopiesSound
<1>2. n \in Node
  BY <1>1, KVNodeAssumption DEF Node
<1>3. log[n] \in Seq([height : Nat, num : Nat])
  BY <1>2, LogHasCommitted DEF RoundInv
<1>4. File(log[n]) \in CopyFiles /\ File(log[n]) # Absent /\ File(log[n])[1] = log[n]
  BY <1>3 DEF CopyFiles, File, Absent
<1>5. ASSUME NEW f \in CopyFiles, Copied(f)
      PROVE  /\ copied' \in Seq(CopyFiles) /\ Len(copied') = n + 1 /\ copied'[n + 1] = f
             /\ \A i \in Node : i < n => copied'[i + 1] = copied[i + 1] /\ HeightsOf(i)' = HeightsOf(i)
             /\ HeightsOf(n)' = IF f = Absent THEN {} ELSE {f[1][k].height : k \in 1..Len(f[1])}
             /\ script' = IF n + 1 = NodeNum THEN "post" ELSE "copy"
             /\ UNCHANGED kvVars
             /\ UNCHANGED <<submitted, threadLog, threadDone, txLog, reportFile, report, ready>>
  <2>1. /\ copied' \in Seq(CopyFiles) /\ Len(copied') = n + 1 /\ copied'[n + 1] = f
        /\ \A i \in Node : i < n => copied'[i + 1] = copied[i + 1]
    BY <1>1, <1>5, CopiedAppends
  <2>2. \A i \in Node : i < n => HeightsOf(i)' = HeightsOf(i)
    BY <2>1 DEF HeightsOf, Absent
  <2>3. HeightsOf(n)' = IF f = Absent THEN {} ELSE {f[1][k].height : k \in 1..Len(f[1])}
    BY <2>1 DEF HeightsOf, Absent
  <2> QED
    BY <1>5, <2>1, <2>2, <2>3 DEF Copied
<1>6. CASE CopyLog
  <2>1. Copied(File(log[n])) /\ broken' = broken
    BY <1>6 DEF CopyLog
  <2> QED
    BY <1>2, <1>4, <1>5, <2>1
<1>7. CASE CopyFails
  <2>1. broken' = broken \cup {n}
    BY <1>7 DEF CopyFails
  <2>2. CASE Copied(Absent)
    <3>1. Absent \in CopyFiles
      BY DEF CopyFiles
    <3> QED
      BY <1>2, <1>5, <2>1, <2>2, <3>1
  <2>3. ASSUME NEW k \in 0..Len(log[n]) - 1, Copied(File(SubSeq(log[n], 1, k)))
        PROVE  /\ HeightsOf(n)' \subseteq {log[n][j].height : j \in 1..Len(log[n])}
               /\ File(SubSeq(log[n], 1, k)) \in CopyFiles
    <3> DEFINE part == SubSeq(log[n], 1, k)
    <3>1. /\ part \in Seq([height : Nat, num : Nat]) /\ Len(part) = k
          /\ \A j \in 1..k : part[j] = log[n][j]
      <4>1. log[n] \in Seq([height : Nat, num : Nat]) /\ k \in 0..Len(log[n])
        BY <1>3
      <4> QED
        BY <4>1, PrefixOfLog
    <3>2. 1..k \subseteq 1..Len(log[n])
      BY <1>3
    <3> HIDE DEF part
    <3>3. File(part) \in CopyFiles /\ File(part) # Absent /\ File(part)[1] = part
      BY <3>1 DEF CopyFiles, File, Absent
    <3>4. HeightsOf(n)' = {part[j].height : j \in 1..Len(part)}
      BY <1>5, <2>3, <3>3 DEF part
    <3> QED
      BY <3>1, <3>2, <3>3, <3>4 DEF part
  <2>4. Copied(Absent) \/ \E k \in 0..Len(log[n]) - 1 : Copied(File(SubSeq(log[n], 1, k)))
    BY <1>7 DEF CopyFails
  <2> QED
    BY <1>2, <1>5, <2>1, <2>2, <2>3, <2>4
<1> QED
  BY <1>6, <1>7

\* What is copied is of blocks of the chain, whatever is decided meanwhile, and the report is
\* made from all nodes' logs.
LEMMA StepKeepsCopies ==
  ASSUME RoundInv, [RoundNext]_allVars
  PROVE  CopiesSound'
<1>1. [KVNext]_kvVars
  BY StepOfNetwork DEF RoundInv
<1>2. Len(chain) \in Nat /\ Len(chain') \in Nat /\ Len(chain) <= Len(chain')
  BY <1>1, NetworkGrows DEF RoundInv, RoundTypeOK
<1>3. 1..Len(chain) \subseteq 1..Len(chain')
  BY <1>2
<1>4. CopiesSound
  BY DEF RoundInv
<1>13. ASSUME copied' = copied, broken' = broken
       PROVE  /\ copied' \in Seq(CopyFiles)
              /\ \A i \in Node : i < Len(copied') =>
                   /\ HeightsOf(i)' \subseteq 1..Len(chain')
                   /\ i \notin broken' => copied'[i + 1] # Absent
  <2>1. \A i \in Node : HeightsOf(i)' = HeightsOf(i)
    BY <1>13, HeightsStay
  <2> QED
    BY <1>3, <1>4, <1>13, <2>1 DEF CopiesSound
<1>5. CASE copied' = copied /\ broken' = broken /\ script' = script
  BY <1>4, <1>5, <1>13 DEF CopiesSound, Absent
<1>6. CASE NetworkStep \/ UNCHANGED allVars
  BY <1>5, <1>6, NetworkStepKeeps DEF roundVars, allVars
<1>7. CASE \E k \in Thread : \E t \in Slice(k) : Submit(k, t)
  BY <1>5, <1>7 DEF Submit
<1>8. CASE \E k \in Thread : ThreadEnds(k)
  <2>1. /\ copied' = copied /\ broken' = broken
        /\ script' = script \/ (script = "workload" /\ script' = "merge")
    BY <1>8 DEF ThreadEnds
  <2> QED
    BY <1>4, <1>13, <2>1 DEF CopiesSound, Absent
<1>9. CASE Merge
  <2>1. copied' = copied /\ broken' = broken /\ copied = << >> /\ script' = "copy"
    BY <1>4, <1>9 DEF Merge, CopiesSound
  <2>2. Len(copied') = 0
    BY <2>1
  <2> QED
    BY <1>13, <2>1, <2>2, KVNodeAssumption DEF CopiesSound, Absent
<1>10. CASE CopyLog \/ CopyFails
  <2>1. PICK n \in Nat : n = Len(copied)
    BY <1>4 DEF CopiesSound
  <2>2. /\ n \in Node /\ copied' \in Seq(CopyFiles) /\ Len(copied') = n + 1
        /\ \A i \in Node : i < n => copied'[i + 1] = copied[i + 1] /\ HeightsOf(i)' = HeightsOf(i)
        /\ HeightsOf(n)' \subseteq {log[n][k].height : k \in 1..Len(log[n])}
        /\ broken' = broken \cup {n} \/ (broken' = broken /\ copied'[n + 1] # Absent)
        /\ script' = IF n + 1 = NodeNum THEN "post" ELSE "copy"
    BY <1>10, <2>1, CopyAdds
  <2>3. HeightsOf(n)' \subseteq 1..Len(chain')
    BY <1>3, <2>2, LogHasCommitted DEF RoundInv
  <2>4. n < NodeNum /\ NodeNum \in Nat /\ \A i \in Node : i \in Nat
    BY <2>2, KVNodeAssumption DEF Node
  <2>5. ASSUME NEW i \in Node, i < Len(copied')
        PROVE  HeightsOf(i)' \subseteq 1..Len(chain') /\ (i \notin broken' => copied'[i + 1] # Absent)
    <3>1. CASE i = n
      BY <2>2, <2>3, <3>1
    <3>2. CASE i < n
      BY <1>3, <1>4, <2>1, <2>2, <3>2 DEF CopiesSound
    <3> QED
      BY <2>2, <2>4, <2>5, <3>1, <3>2
  <2>6. (script' = "post" /\ n + 1 = NodeNum) \/ (script' = "copy" /\ n + 1 < NodeNum)
    BY <2>2, <2>4
  <2> QED
    BY <2>2, <2>5, <2>6 DEF CopiesSound, Absent
<1>11. CASE PostProcess
  <2>1. copied' = copied /\ broken' = broken /\ script = "post" /\ script' = "done"
    BY <1>11 DEF PostProcess
  <2> QED
    BY <1>4, <1>13, <2>1 DEF CopiesSound, Absent
<1>12. CASE PostProcessFails \/ PostProcessRejected
  <2>1. /\ copied' = copied /\ broken' = broken /\ script = "post"
        /\ script' \in {"failed", "rejected"}
    BY <1>12 DEF PostProcessFails, PostProcessRejected
  <2> QED
    BY <1>4, <1>13, <2>1 DEF CopiesSound, Absent
<1> QED
  BY <1>6, <1>7, <1>8, <1>9, <1>10, <1>11, <1>12 DEF RoundNext

\* A block of the report has an entry, so that it is in node 0's log and in the chain.
LEMMA ReportedBlocks ==
  ASSUME RoundInv, PostProcess
  PROVE  /\ \A h \in DOMAIN Report : h \in HeightsOf(0) /\ h \in 1..Len(chain)
         /\ \A h \in DOMAIN Report : Report[h].nodes = Pushed(h)
         /\ \A h \in DOMAIN Report : \A t \in DOMAIN Report[h].txs :
              /\ t \in 1..Load
              /\ Report[h].txs[t] = IF t \in DOMAIN txLog[1] THEN txLog[1][t] ELSE "undefined"
<1>1. \A t \in 1..Load : HeightOf(t) \in HeightsOf(0)
  BY DEF PostProcess, Found
<1>2. Len(copied) = NodeNum /\ CopiesSound
  BY DEF PostProcess, RoundInv, CopiesSound
<1>3. 0 \in Node /\ 0 < Len(copied)
  BY <1>2, KVNodeAssumption DEF Node
<1>4. HeightsOf(0) \subseteq 1..Len(chain)
  BY <1>2, <1>3 DEF CopiesSound
<1> HIDE DEF HeightOf, HeightsOf, Pushed
<1> QED
  BY <1>1, <1>4 DEF Report

\* The types are kept.
LEMMA StepKeepsTypes ==
  ASSUME RoundInv, [RoundNext]_allVars
  PROVE  RoundTypeOK'
<1>1. [KVNext]_kvVars /\ RoundTypeOK
  BY StepOfNetwork DEF RoundInv
<1>2. KVTypeOK' /\ KVIInv'
  BY <1>1, NextKVIInv DEF RoundInv, KVIInv
<1>3. /\ Len(chain) \in Nat /\ Len(chain') \in Nat /\ Len(chain) <= Len(chain')
      /\ 1..Len(chain) \subseteq 1..Len(chain')
  <2>1. Len(chain) \in Nat /\ Len(chain') \in Nat /\ Len(chain) <= Len(chain')
    BY <1>1, NetworkGrows DEF RoundTypeOK
  <2> QED
    BY <2>1
<1> DEFINE ReportType(r, size) ==
      /\ DOMAIN r \subseteq 1..size
      /\ \A h \in DOMAIN r : \A t \in DOMAIN r[h].txs : t \in 1..Load
<1>4. ReportType(report, Len(chain'))
  BY <1>1, <1>3 DEF RoundTypeOK
<1>5. CASE NetworkStep \/ UNCHANGED allVars
  <2>1. UNCHANGED roundVars
    BY <1>5, NetworkStepKeeps DEF roundVars, allVars
  <2> QED
    BY <1>1, <1>2, <1>4, <2>1 DEF roundVars, RoundTypeOK
<1>6. ASSUME NEW k \in Thread, NEW t \in Slice(k), Submit(k, t) PROVE RoundTypeOK'
  <2>1. submitted' \subseteq Tx
    BY <1>1, <1>6, SliceInTx DEF Submit, RoundTypeOK
  <2> QED
    BY <1>1, <1>2, <1>4, <1>6, <2>1 DEF Submit, RoundTypeOK
<1>7. ASSUME NEW k \in Thread, ThreadEnds(k) PROVE RoundTypeOK'
  <2>1. PICK late \in SUBSET Slice(k) :
          threadLog' = [threadLog EXCEPT ![k] = File([t \in Slice(k) \ late |-> "fresh"])]
    BY <1>7 DEF ThreadEnds
  <2> DEFINE file == File([t \in Slice(k) \ late |-> "fresh"])
  <2>2. file \in Files
    BY LogIsFresh
  <2>3. threadLog' = [threadLog EXCEPT ![k] = file]
    BY <2>1
  <2> HIDE DEF file
  <2>4. threadLog' \in [Thread -> Files]
    BY <1>1, <2>2, <2>3 DEF RoundTypeOK
  <2>5. /\ threadDone' \subseteq Thread
        /\ script' \in {"workload", "merge", "copy", "post", "done", "failed", "rejected"}
        /\ UNCHANGED <<submitted, txLog, copied, broken, reportFile, report, ready>>
    BY <1>1, <1>7 DEF ThreadEnds, RoundTypeOK
  <2> QED
    BY <1>1, <1>2, <1>4, <2>4, <2>5 DEF RoundTypeOK
<1>8. CASE Merge
  <2>1. txLog' \in Files /\ threadLog' \in [Thread -> Files]
    BY <1>1, <1>8, MergeResult
  <2>2. /\ script' = "copy"
        /\ UNCHANGED <<submitted, threadDone, copied, broken, reportFile, report>>
    BY <1>8 DEF Merge
  <2>3. ready' \in [threads : BOOLEAN, network : BOOLEAN, restarts : 0..MaxRestarts]
    <3>1. restarts \in 0..MaxRestarts
      BY <1>1 DEF RoundTypeOK, KVTypeOK
    <3> QED
      BY <1>8, <3>1 DEF Merge
  <2> QED
    BY <1>1, <1>2, <1>4, <2>1, <2>2, <2>3 DEF RoundTypeOK
<1>9. CASE CopyLog \/ CopyFails
  <2>1. Len(copied') <= NodeNum /\ broken' \subseteq Node
    <3>1. PICK n \in Nat : n = Len(copied)
      BY DEF RoundInv, CopiesSound
    <3>2. n \in Node /\ Len(copied') = n + 1 /\ (broken' = broken \cup {n} \/ broken' = broken)
      BY <1>9, <3>1, CopyAdds
    <3>3. Len(copied') <= NodeNum
      BY <3>2, KVNodeAssumption DEF Node
    <3>4. broken' \subseteq Node
      <4>1. broken \subseteq Node
        BY <1>1 DEF RoundTypeOK
      <4> QED
        BY <3>2, <4>1, Zenon
    <3> QED
      BY <3>3, <3>4
  <2>2. /\ script' \in {"post", "copy"}
        /\ UNCHANGED <<submitted, threadLog, threadDone, txLog, reportFile, report, ready>>
    BY <1>9 DEF CopyLog, CopyFails, Copied
  <2> QED
    BY <1>1, <1>2, <1>4, <2>1, <2>2 DEF RoundTypeOK
<1>10. CASE PostProcess
  <2>1. report' = Report /\ reportFile' = "new" /\ script' = "done" /\ chain' = chain
        /\ UNCHANGED <<submitted, threadLog, threadDone, txLog, copied, broken, ready>>
    BY <1>10 DEF PostProcess, kvVars
  <2>2. ReportType(report', Len(chain'))
    BY <1>10, <2>1, ReportedBlocks
  <2> QED
    BY <1>1, <1>2, <2>1, <2>2 DEF RoundTypeOK
<1>11. CASE PostProcessFails \/ PostProcessRejected
  <2>1. /\ reportFile' \in {reportFile, "absent"} /\ script' \in {"failed", "rejected"}
        /\ UNCHANGED <<submitted, threadLog, threadDone, txLog, copied, broken, report, ready>>
    BY <1>11 DEF PostProcessFails, PostProcessRejected
  <2> QED
    BY <1>1, <1>2, <1>4, <2>1 DEF RoundTypeOK
<1> QED
  BY <1>5, <1>6, <1>7, <1>8, <1>9, <1>10, <1>11 DEF RoundNext

------------------------------------------------------------------------------
(***************************************************************************)
(* When the threads and the nodes were done.                               *)
(***************************************************************************)

\* merge.js saw all of it.
LEMMA MergeSettles ==
  ASSUME RoundInv, Merge, threadDone = Thread, Committed = submitted,
         \A n \in Node : ~Executing(n)
  PROVE  AllCommitted'
<1>1. submitted = Tx
  BY AllSent DEF RoundInv
<1>2. \A n \in Node : core[n].block \in Nat /\ Len(chain) \in Nat /\ Len(chain) < core[n].block
  BY DEF Executing, RoundInv, RoundTypeOK, KVTypeOK
<1>3. \A n \in Node : 1..Len(chain) \subseteq 1..core[n].block - 1
  BY <1>2
<1>4. \A n \in Node : TxBlocks \subseteq 1..core[n].block - 1
  BY <1>3 DEF TxBlocks
<1>5. chain' = chain /\ core' = core
  BY DEF Merge, kvVars
<1> QED
  BY <1>1, <1>4, <1>5 DEF AllCommitted, Committed, TxBlocks

\* After that no transaction is left to decide, so that only empty blocks are.
LEMMA NetworkKeepsSettled ==
  ASSUME RoundInv, NetworkStep \/ UNCHANGED kvVars, AllCommitted, restarts' = restarts
  PROVE  AllCommitted' /\ TxBlocks' = TxBlocks
<1>1. KVTypeOK /\ submitted \subseteq Tx
  BY DEF RoundInv, RoundTypeOK
<1>2. [KVNext]_kvVars
  <2>1. SUBSET submitted \subseteq SUBSET Tx
    BY <1>1
  <2> QED
    BY <2>1 DEF NetworkStep, KVNext
<1>3. \A n \in Node : core[n].block \in Nat /\ core'[n].block \in Nat
                      /\ core[n].block <= core'[n].block
  <2>1. KVTypeOK'
    BY <1>2, NextKVIInv DEF RoundInv, KVIInv
  <2> QED
    BY <1>1, <1>2, <2>1, NetworkGrows DEF KVTypeOK
<1>4. \A n \in Node : 1..core[n].block - 1 \subseteq 1..core'[n].block - 1
  BY <1>3
<1>5. CASE chain' = chain
  <2>1. Committed' = Committed /\ TxBlocks' = TxBlocks
    BY <1>5 DEF Committed, TxBlocks
  <2> QED
    BY <1>4, <2>1 DEF AllCommitted
<1>6. ASSUME NEW txs \in SUBSET submitted, Decide(txs) PROVE AllCommitted' /\ TxBlocks' = TxBlocks
  <2>1. txs = {}
    BY <1>1, <1>6 DEF Decide, AllCommitted
  <2>2. /\ chain \in Seq(SUBSET Tx) /\ chain' = Append(chain, {})
        /\ Len(chain) \in Nat /\ Len(chain') = Len(chain) + 1
        /\ chain'[Len(chain) + 1] = {}
        /\ \A h \in 1..Len(chain) : chain'[h] = chain[h]
    BY <1>1, <1>6, <2>1 DEF Decide, KVTypeOK
  <2>3. \A h \in 1..Len(chain') : h \in 1..Len(chain) \/ h = Len(chain) + 1
    BY <2>2
  <2>4. 1..Len(chain) \subseteq 1..Len(chain')
    BY <2>2
  <2>5. TxBlocks' = TxBlocks
    BY <2>2, <2>3, <2>4 DEF TxBlocks
  <2>6. Committed' = Committed
    BY <2>2, <2>3, <2>4 DEF Committed
  <2> QED
    BY <1>4, <2>5, <2>6 DEF AllCommitted
<1>7. ASSUME NEW n \in Node, DeliverTx(n) \/ Commit(n) \/ Restart(n) PROVE chain' = chain
  BY <1>7 DEF DeliverTx, Commit, Restart
<1>8. CASE UNCHANGED kvVars
  BY <1>5, <1>8 DEF kvVars
<1> QED
  BY <1>5, <1>6, <1>7, <1>8 DEF NetworkStep

\* A log copied now has all of the blocks with transactions.
LEMMA CopyHasAll ==
  ASSUME RoundInv, AllCommitted, NEW n \in Node
  PROVE  {log[n][k].height : k \in 1..Len(log[n])} = TxBlocks
<1>1. /\ {log[n][k].height : k \in 1..Len(log[n])} = LoggedHeights(n)
      /\ core[n].block \in Nat \ {0} /\ core[n].block <= Len(chain) + 1 /\ Len(chain) \in Nat
  BY LogHasCommitted DEF RoundInv
<1>2. 1..core[n].block - 1 \subseteq 1..Len(chain)
  BY <1>1
<1>3. TxBlocks \subseteq 1..core[n].block - 1
  BY DEF AllCommitted
<1>4. LoggedHeights(n) = TxBlocks
  BY <1>2, <1>3 DEF LoggedHeights, TxBlocks
<1> QED
  BY <1>1, <1>4

\* The settled state is kept.
LEMMA StepKeepsSettled ==
  ASSUME RoundInv, [RoundNext]_allVars
  PROVE  SettledSound'
<1>1. [KVNext]_kvVars
  BY StepOfNetwork DEF RoundInv
<1>2. restarts \in Nat /\ restarts' \in Nat /\ restarts <= restarts'
  BY <1>1, NetworkGrows DEF RoundInv, RoundTypeOK
<1>3. ready.restarts \in Nat /\ ready.restarts <= restarts /\ SettledSound
  BY KVBoundAssumption DEF RoundInv, RoundTypeOK, SettledSound
<1>4. CASE Merge
  <2>1. /\ ready' = [threads |-> threadDone = Thread,
                     network |-> Committed = submitted /\ \A n \in Node : ~Executing(n),
                     restarts |-> restarts]
        /\ restarts' = restarts /\ copied' = copied
    BY <1>4 DEF Merge, kvVars
  <2>2. copied' = << >>
    BY <1>4, <2>1 DEF Merge, RoundInv, CopiesSound
  <2>3. \A i \in Node : ~(i < Len(copied'))
    BY <2>2, KVNodeAssumption DEF Node
  <2>4. ready'.restarts <= restarts'
    BY <1>2, <2>1
  <2>5. CASE threadDone = Thread /\ Committed = submitted /\ \A n \in Node : ~Executing(n)
    <3>1. AllCommitted'
      BY <1>4, <2>5, MergeSettles
    <3> QED
      BY <2>3, <2>4, <3>1 DEF SettledSound, CopiesSettled
  <2>6. CASE ~(threadDone = Thread /\ Committed = submitted /\ \A n \in Node : ~Executing(n))
    <3>1. ~(ready'.threads /\ ready'.network)
      BY <2>1, <2>6
    <3> QED
      BY <2>4, <3>1 DEF SettledSound
  <2> QED
    BY <2>5, <2>6
<1>5. CASE CopyLog \/ CopyFails
  <2>1. PICK n \in Nat : n = Len(copied)
    BY DEF RoundInv, CopiesSound
  <2>2. /\ n \in Node /\ Len(copied') = n + 1
        /\ \A i \in Node : i < n => HeightsOf(i)' = HeightsOf(i)
        /\ HeightsOf(n)' \subseteq {log[n][k].height : k \in 1..Len(log[n])}
        /\ \/ broken' = broken \cup {n}
           \/ broken' = broken /\ HeightsOf(n)' = {log[n][k].height : k \in 1..Len(log[n])}
        /\ UNCHANGED kvVars /\ ready' = ready
    BY <1>5, <2>1, CopyAdds
  <2>3. Committed' = Committed /\ TxBlocks' = TxBlocks /\ (AllCommitted => AllCommitted')
    BY <2>2 DEF Committed, TxBlocks, AllCommitted, kvVars
  <2>4. ASSUME ready.threads, ready.network, restarts = ready.restarts
        PROVE  AllCommitted /\ CopiesSettled'
    <3>1. AllCommitted /\ CopiesSettled
      BY <1>3, <2>4 DEF SettledSound
    <3>2. {log[n][k].height : k \in 1..Len(log[n])} = TxBlocks
      BY <2>2, <3>1, CopyHasAll
    <3> SUFFICES ASSUME NEW i \in Node, i < Len(copied')
                 PROVE  /\ HeightsOf(i)' \subseteq TxBlocks'
                        /\ i \notin broken' => HeightsOf(i)' = TxBlocks'
      BY <3>1 DEF CopiesSettled
    <3>3. i \in Nat
      BY KVNodeAssumption DEF Node
    <3>4. CASE i = n
      BY <2>2, <2>3, <3>2, <3>4
    <3>5. CASE i < n
      BY <2>1, <2>2, <2>3, <3>1, <3>5 DEF CopiesSettled
    <3> QED
      BY <2>2, <3>3, <3>4, <3>5
  <2>5. ready' = ready /\ restarts' = restarts
    BY <2>2 DEF kvVars
  <2> QED
    BY <1>3, <2>3, <2>4, <2>5 DEF SettledSound
<1>6. ASSUME ready' = ready, copied' = copied, broken' = broken, NetworkStep \/ UNCHANGED kvVars
      PROVE  SettledSound'
  <2>1. ready'.restarts <= restarts'
    BY <1>2, <1>3, <1>6
  <2>2. CASE ready.threads /\ ready.network /\ restarts' = ready.restarts
    <3>1. restarts = ready.restarts /\ restarts' = restarts
      BY <1>2, <1>3, <2>2
    <3>2. AllCommitted /\ CopiesSettled
      BY <1>3, <2>2, <3>1 DEF SettledSound
    <3>3. AllCommitted' /\ TxBlocks' = TxBlocks
      BY <1>6, <3>1, <3>2, NetworkKeepsSettled
    <3> QED
      BY <1>6, <2>1, <3>2, <3>3, HeightsStay DEF SettledSound, CopiesSettled
  <2>3. CASE ~(ready.threads /\ ready.network /\ restarts' = ready.restarts)
    BY <1>6, <2>1, <2>3 DEF SettledSound
  <2> QED
    BY <2>2, <2>3
<1>7. CASE NetworkStep
  BY <1>6, <1>7, NetworkStepKeeps DEF roundVars
<1>8. CASE UNCHANGED allVars
  BY <1>6, <1>8 DEF allVars, kvVars
<1>9. CASE \E k \in Thread : \E t \in Slice(k) : Submit(k, t)
  BY <1>6, <1>9 DEF Submit
<1>10. CASE \E k \in Thread : ThreadEnds(k)
  BY <1>6, <1>10 DEF ThreadEnds
<1>11. CASE PostProcess
  BY <1>6, <1>11 DEF PostProcess
<1>12. CASE PostProcessFails \/ PostProcessRejected
  BY <1>6, <1>12 DEF PostProcessFails, PostProcessRejected
<1> QED
  BY <1>4, <1>5, <1>7, <1>8, <1>9, <1>10, <1>11, <1>12 DEF RoundNext

------------------------------------------------------------------------------
(***************************************************************************)
(* The report.                                                             *)
(***************************************************************************)

\* When every node logs block h, its commit times are the nodes' in their order.
LEMMA PushedInOrder ==
  ASSUME NEW h, \A i \in Node : h \in HeightsOf(i)
  PROVE  Pushed(h) = [k \in 1..NodeNum |-> k - 1]
<1> HIDE DEF HeightsOf
<1>1. {i \in Node : h \in HeightsOf(i)} = Node
  OBVIOUS
<1>2. Cardinality(Node) = NodeNum
  <2>1. Cardinality(0..NodeNum - 1) = IF 0 > NodeNum - 1 THEN 0 ELSE (NodeNum - 1) - 0 + 1
    BY FS_Interval, KVNodeAssumption
  <2>2. ~(0 > NodeNum - 1) /\ (NodeNum - 1) - 0 + 1 = NodeNum
    BY KVNodeAssumption
  <2> QED
    BY <2>1, <2>2 DEF Node
<1>3. ASSUME NEW i \in Node PROVE Cardinality({j \in Node : j < i}) = i
  <2>1. i \in Nat /\ i \in 0..NodeNum - 1 /\ NodeNum \in Nat \ {0}
    BY KVNodeAssumption DEF Node
  <2>2. {j \in Node : j < i} = 0..i - 1
    BY <2>1 DEF Node
  <2>3. Cardinality(0..i - 1) = IF 0 > i - 1 THEN 0 ELSE (i - 1) - 0 + 1
    BY <2>1, FS_Interval
  <2>4. (IF 0 > i - 1 THEN 0 ELSE (i - 1) - 0 + 1) = i
    BY <2>1
  <2> QED
    BY <2>2, <2>3, <2>4
<1> DEFINE nodeOf(k) == CHOOSE i \in Node : Cardinality({j \in Node : j < i}) = k - 1
<1>4. ASSUME NEW k \in 1..NodeNum PROVE nodeOf(k) = k - 1
  <2>1. k - 1 \in Node
    BY KVNodeAssumption DEF Node
  <2>2. \E i \in Node : Cardinality({j \in Node : j < i}) = k - 1
    BY <1>3, <2>1
  <2>3. nodeOf(k) \in Node /\ Cardinality({j \in Node : j < nodeOf(k)}) = k - 1
    BY <2>2
  <2> HIDE DEF nodeOf
  <2> QED
    BY <1>3, <2>3
<1>5. Pushed(h) = [k \in 1..NodeNum |-> nodeOf(k)]
  <2> DEFINE nodes == {i \in Node : h \in HeightsOf(i)}
  <2>1. Pushed(h) = [k \in 1..Cardinality(nodes) |->
                       CHOOSE i \in nodes : Cardinality({j \in nodes : j < i}) = k - 1]
    BY DEF Pushed
  <2>2. nodes = Node
    BY <1>1
  <2> HIDE DEF nodes
  <2> QED
    BY <1>2, <2>1, <2>2
<1> HIDE DEF nodeOf
<1> QED
  BY <1>4, <1>5

\* A transaction that is committed is found, in a block that has an entry.
LEMMA CommittedIsFound ==
  ASSUME RoundInv, AllCommitted, HeightsOf(0) = TxBlocks, NEW t \in Tx
  PROVE  Found(t)
<1> DEFINE known == {h \in 1..core[0].block - 1 : t \in chain[h]}
<1>1. PICK h \in TxBlocks : t \in chain[h]
  BY CommittedInBlocks DEF AllCommitted, RoundInv, RoundTypeOK
<1>2. 0 \in Node
  BY KVNodeAssumption DEF Node
<1>3. h \in known
  BY <1>1, <1>2 DEF AllCommitted
<1>4. known \subseteq TxBlocks
  <2>1. core[0].block \in Nat /\ core[0].block <= Len(chain) + 1 /\ Len(chain) \in Nat
    BY <1>2, LogHasCommitted DEF RoundInv
  <2>2. 1..core[0].block - 1 \subseteq 1..Len(chain)
    BY <2>1
  <2> QED
    BY <2>2 DEF TxBlocks
<1>5. HeightOf(t) = CHOOSE g \in known : TRUE
  BY <1>3 DEF HeightOf
<1> HIDE DEF known
<1>6. HeightOf(t) \in known
  BY <1>3, <1>5
<1> QED
  BY <1>4, <1>6 DEF Found

\* post_process.js writes the report: of this round's receive times if the threads had ended,
\* and with commit times in node order if the nodes were done, too.
LEMMA ReportIsRight ==
  ASSUME RoundInv, PostProcess
  PROVE  /\ SettledTimesByNode' /\ ThreadsEndedNoStaleTime'
         /\ NoOldReportIsCalculated' /\ ReadyRoundSucceeds'
<1>1. /\ report' = Report /\ reportFile' = "new" /\ script' = "done" /\ ready' = ready
      /\ restarts' = restarts /\ script = "post"
  BY DEF PostProcess, kvVars
<1>2. SettledTimesByNode'
  <2>1. \A i \in Node : HeightsOf(i)' = HeightsOf(i)
    BY HeightsStay DEF PostProcess
  <2> SUFFICES ASSUME ready.threads, ready.network, restarts = ready.restarts,
                      NEW h \in DOMAIN Report
               PROVE  \/ Report[h].nodes = [k \in 1..NodeNum |-> k - 1]
                      \/ \E i \in broken : copied[i + 1] # Absent /\ h \notin HeightsOf(i)
    <3>1. copied' = copied /\ broken' = broken /\ broken \subseteq Node
      BY DEF PostProcess, RoundInv, RoundTypeOK
    <3> QED
      BY <1>1, <2>1, <3>1 DEF SettledTimesByNode, Absent
  <2>2. Len(copied) = NodeNum /\ SettledSound /\ \A i \in Node : i < NodeNum
    BY <1>1, KVNodeAssumption DEF RoundInv, CopiesSound, Node
  <2>3. /\ \A i \in Node : HeightsOf(i) \subseteq TxBlocks
        /\ \A i \in Node : i \notin broken => HeightsOf(i) = TxBlocks
    BY <2>2 DEF SettledSound, CopiesSettled
  <2>4. 0 \in Node
    BY KVNodeAssumption DEF Node
  <2>5. h \in HeightsOf(0) /\ Report[h].nodes = Pushed(h)
    BY ReportedBlocks
  <2>6. CASE \A i \in Node : h \in HeightsOf(i)
    BY <2>5, <2>6, PushedInOrder
  <2>7. ASSUME NEW i \in Node, h \notin HeightsOf(i)
        PROVE  i \in broken /\ copied[i + 1] # Absent
    <3>1. i \in broken
      BY <2>3, <2>4, <2>5, <2>7
    <3> QED
      BY <3>1 DEF PostProcess, EntriesMade
  <2> QED
    BY <2>6, <2>7
<1>3. ThreadsEndedNoStaleTime'
  <2> SUFFICES ASSUME ready.threads, NEW h \in DOMAIN Report, NEW t \in DOMAIN Report[h].txs
               PROVE  Report[h].txs[t] # "stale"
    BY <1>1 DEF ThreadsEndedNoStaleTime
  <2>1. Fresh(txLog[1])
    BY DEF RoundInv, ThreadsSound
  <2>2. Report[h].txs[t] = IF t \in DOMAIN txLog[1] THEN txLog[1][t] ELSE "undefined"
    BY ReportedBlocks
  <2> QED
    BY <2>1, <2>2 DEF Fresh
<1>4. ~(Load > ThreadNum * PerThread)
  <2>1. Load \in Nat /\ Load \in 1..Load /\ ThreadNum * PerThread \in Nat
    BY ThreadAssumption
  <2>2. HeightOf(Load) \in 1..Len(chain)
    <3>1. HeightOf(Load) \in DOMAIN Report
      BY <2>1 DEF Report
    <3> QED
      BY <3>1, ReportedBlocks
  <2>3. PICK h \in 1..core[0].block - 1 : Load \in chain[h]
    <3> DEFINE known == {h \in 1..core[0].block - 1 : Load \in chain[h]}
    <3>1. HeightOf(Load) = IF known = {} THEN 0 ELSE CHOOSE h \in known : TRUE
      BY DEF HeightOf
    <3>2. known # {}
      BY <2>2, <3>1
    <3> QED
      BY <3>2
  <2>4. h \in 1..Len(chain) /\ chain \in Seq(SUBSET Tx)
    <3>1. 0 \in Node
      BY KVNodeAssumption DEF Node
    <3>2. core[0].block \in Nat \ {0} /\ core[0].block <= Len(chain) + 1 /\ Len(chain) \in Nat
      BY <3>1, LogHasCommitted DEF RoundInv
    <3> QED
      BY <3>2 DEF RoundInv, RoundTypeOK, KVTypeOK
  <2>5. Load \in Tx
    BY <2>3, <2>4
  <2> QED
    BY <2>1, <2>5, TxAssumption
<1> QED
  BY <1>1, <1>2, <1>3, <1>4 DEF NoOldReportIsCalculated, ReadyRoundSucceeds

\* post_process.js fails: the old report is gone if there was a transaction_log.json, and if
\* threads and nodes were done and no copy failed, it looked for transactions no thread had sent.
LEMMA FailureIsRight ==
  ASSUME RoundInv, PostProcessFails
  PROVE  /\ SettledTimesByNode' /\ ThreadsEndedNoStaleTime'
         /\ NoOldReportIsCalculated' /\ ReadyRoundSucceeds'
<1>1. /\ script' = "failed" /\ ready' = ready /\ restarts' = restarts /\ script = "post"
      /\ txLog = Absent \/ ~EntriesMade \/ \E t \in 1..Load : ~Found(t)
      /\ reportFile' = IF txLog = Absent THEN reportFile ELSE "absent"
  BY DEF PostProcessFails, kvVars
<1>2. ready.threads => txLog # Absent
  BY DEF RoundInv, ThreadsSound
<1>3. NoOldReportIsCalculated'
  <2>1. CASE ready.threads
    BY <1>1, <1>2, <2>1 DEF NoOldReportIsCalculated
  <2>2. CASE ~ready.threads
    BY <1>1, <2>2 DEF NoOldReportIsCalculated
  <2> QED
    BY <2>1, <2>2
<1>4. ReadyRoundSucceeds'
  <2> SUFFICES ASSUME ready.threads, ready.network, restarts = ready.restarts, broken = {}
               PROVE  Load > ThreadNum * PerThread
    <3>1. broken' = broken
      BY DEF PostProcessFails
    <3> QED
      BY <1>1, <3>1 DEF ReadyRoundSucceeds
  <2>1. Len(copied) = NodeNum /\ SettledSound /\ CopiesSound
    BY <1>1 DEF RoundInv, CopiesSound
  <2>2. \A i \in Node : i < NodeNum
    BY KVNodeAssumption DEF Node
  <2>3. AllCommitted /\ \A i \in Node : HeightsOf(i) = TxBlocks /\ copied[i + 1] # Absent
    BY <2>1, <2>2 DEF SettledSound, CopiesSettled, CopiesSound
  <2>4. 0 \in Node
    BY KVNodeAssumption DEF Node
  <2>5. EntriesMade
    BY <2>3, <2>4 DEF EntriesMade
  <2>6. PICK t \in 1..Load : ~Found(t)
    BY <1>1, <1>2, <2>5
  <2>7. t \notin Tx
    BY <2>3, <2>4, <2>6, CommittedIsFound
  <2>8. ThreadNum * PerThread \in Nat /\ Load \in Nat /\ t \notin 1..ThreadNum * PerThread
    BY <2>7, ThreadAssumption, TxAssumption
  <2> QED
    BY <2>6, <2>8
<1> QED
  BY <1>1, <1>3, <1>4 DEF SettledTimesByNode, ThreadsEndedNoStaleTime

\* Once the script has ended no step undoes what the properties say, and before that they say
\* nothing.
LEMMA StepKeepsReport ==
  ASSUME RoundInv, [RoundNext]_allVars
  PROVE  /\ SettledTimesByNode' /\ ThreadsEndedNoStaleTime'
         /\ NoOldReportIsCalculated' /\ ReadyRoundSucceeds'
<1> DEFINE Goal == /\ SettledTimesByNode' /\ ThreadsEndedNoStaleTime'
                   /\ NoOldReportIsCalculated' /\ ReadyRoundSucceeds'
<1>1. [KVNext]_kvVars
  BY StepOfNetwork DEF RoundInv
<1>2. restarts \in Nat /\ restarts' \in Nat /\ restarts <= restarts'
  BY <1>1, NetworkGrows DEF RoundInv, RoundTypeOK
<1>3. ready.restarts \in Nat /\ ready.restarts <= restarts
  BY KVBoundAssumption DEF RoundInv, RoundTypeOK, SettledSound
<1>4. ASSUME UNCHANGED <<script, copied, broken, reportFile, report, ready>> PROVE Goal
  <2>1. restarts' = ready.restarts => restarts = ready.restarts
    BY <1>2, <1>3
  <2>2. SettledTimesByNode'
    <3>1. broken \subseteq Node /\ \A i \in Node : HeightsOf(i)' = HeightsOf(i)
      BY <1>4, HeightsStay DEF RoundInv, RoundTypeOK
    <3> QED
      BY <1>4, <2>1, <3>1 DEF RoundInv, SettledTimesByNode, Absent
  <2>3. ReadyRoundSucceeds'
    BY <1>4, <2>1 DEF RoundInv, ReadyRoundSucceeds
  <2>4. ThreadsEndedNoStaleTime' /\ NoOldReportIsCalculated'
    BY <1>4 DEF RoundInv, ThreadsEndedNoStaleTime, NoOldReportIsCalculated
  <2> QED
    BY <2>2, <2>3, <2>4
<1>5. ASSUME script' \notin {"done", "failed", "rejected"} PROVE Goal
  BY <1>5 DEF SettledTimesByNode, ThreadsEndedNoStaleTime, NoOldReportIsCalculated,
              ReadyRoundSucceeds
<1> HIDE DEF Goal
<1> SUFFICES Goal
  BY DEF Goal
<1>6. CASE NetworkStep
  BY <1>4, <1>6, NetworkStepKeeps DEF roundVars
<1>7. CASE \E k \in Thread : \E t \in Slice(k) : Submit(k, t)
  BY <1>4, <1>7 DEF Submit
<1>8. CASE \E k \in Thread : ThreadEnds(k)
  <2>1. UNCHANGED <<copied, broken, reportFile, report, ready>> /\ (script' = script \/ script' = "merge")
    BY <1>8 DEF ThreadEnds
  <2> QED
    BY <1>4, <1>5, <2>1
<1>9. CASE Merge
  BY <1>5, <1>9 DEF Merge
<1>10. CASE CopyLog \/ CopyFails
  <2>1. script' \in {"post", "copy"}
    BY <1>10 DEF CopyLog, CopyFails, Copied
  <2> QED
    BY <1>5, <2>1
<1>11. CASE PostProcess
  BY <1>11, ReportIsRight DEF Goal
<1>12. CASE PostProcessFails
  BY <1>12, FailureIsRight DEF Goal
<1>13. CASE PostProcessRejected
  BY <1>13 DEF PostProcessRejected, Goal, SettledTimesByNode, ThreadsEndedNoStaleTime,
              NoOldReportIsCalculated, ReadyRoundSucceeds
<1>14. CASE UNCHANGED allVars
  BY <1>4, <1>14 DEF allVars
<1> QED
  BY <1>6, <1>7, <1>8, <1>9, <1>10, <1>11, <1>12, <1>13, <1>14 DEF RoundNext

\* The invariant is inductive.
LEMMA RoundInvStep == RoundInv /\ [RoundNext]_allVars => RoundInv'
<1> SUFFICES ASSUME RoundInv, [RoundNext]_allVars PROVE RoundInv'
  OBVIOUS
<1>1. KVIInv'
  BY StepOfNetwork, NextKVIInv DEF RoundInv
<1> QED
  BY <1>1, StepKeepsTypes, StepKeepsThreads, StepKeepsCopies, StepKeepsSettled,
     StepKeepsReport DEF RoundInv

\* It holds throughout every round.
LEMMA RoundInvariant == RoundSpec => []RoundInv
  BY RoundInitInv, RoundInvStep, PTL DEF RoundSpec

------------------------------------------------------------------------------
(***************************************************************************)
(* The theorems.                                                           *)
(***************************************************************************)

\* Every state of a round is well typed; above all, merge.js unites the threads' files into
\* a file of receive times (merge.js:5-12).
THEOREM RoundTypeCorrect == RoundSpec => []RoundTypeOK
<1>1. RoundInv => RoundTypeOK
  BY DEF RoundInv
<1> QED
  BY <1>1, RoundInvariant, PTL

\* The application behaves on the script's network as it does on any: the round's steps are
\* the network's (kvstore.go:90-124).
THEOREM RoundImplementsKV == RoundSpec => KVSpec
<1>1. RoundInit => KVInit
  BY DEF RoundInit
<1>2. RoundInv /\ [RoundNext]_allVars => [KVNext]_kvVars
  BY StepOfNetwork DEF RoundInv
<1> QED
  BY <1>1, <1>2, RoundInvariant, PTL DEF RoundSpec, KVSpec

\* The commit log that is copied and read agrees with the chain (kvstore.go:105-117).
THEOREM RoundLogIsCorrect == RoundSpec => []LogMatchesChain
  BY RoundImplementsKV, LogIsCorrect, PTL

\* Where all threads and nodes were done before merge.js ran, and no node was restarted since,
\* the commit times of a block are one per node, in node order, or the copy of a log broke off
\* before the block (post_process.js:19-39).
THEOREM CommitTimesAreByNode == RoundSpec => []SettledTimesByNode
<1>1. RoundInv => SettledTimesByNode
  BY DEF RoundInv
<1> QED
  BY <1>1, RoundInvariant, PTL

\* Where all threads had ended, no receive time is an earlier round's (merge.js:5-12).
THEOREM ReceiveTimesAreFresh == RoundSpec => []ThreadsEndedNoStaleTime
<1>1. RoundInv => ThreadsEndedNoStaleTime
  BY DEF RoundInv
<1> QED
  BY <1>1, RoundInvariant, PTL

\* Where all threads had ended, the report of an earlier round is gone or replaced, whatever
\* copy or call fails (post_process.js:7, 17).
THEOREM OldReportIsGone == RoundSpec => []NoOldReportIsCalculated
<1>1. RoundInv => NoOldReportIsCalculated
  BY DEF RoundInv
<1> QED
  BY <1>1, RoundInvariant, PTL

\* Where all threads and nodes were done, no node was restarted and no copy or call failed,
\* post_process.js fails exactly when it looks for more transactions than the threads send
\* (oneRoundTesting.sh:14-15).
THEOREM ReadyRoundsAreReported == RoundSpec => []ReadyRoundSucceeds
<1>1. RoundInv => ReadyRoundSucceeds
  BY DEF RoundInv
<1> QED
  BY <1>1, RoundInvariant, PTL

==============================================================================
