-------------------------------- MODULE KVStore --------------------------------
(***************************************************************************)
(* src/tendermint/code/abci/kvstore.go: the application that Tendermint    *)
(* Core runs on every node, and the commit log it keeps for the benchmark. *)
(*                                                                         *)
(* Core executes the decided blocks one after the other: DeliverTx for     *)
(* every transaction, then Commit.  Commit counts the block and writes a   *)
(* line to the log if the block had transactions.  The state is saved in a *)
(* MemDB and the log file is created anew by every process, so a restart   *)
(* forgets both; Info reports no last block height, so Core executes the   *)
(* chain again from its first block.                                       *)
(***************************************************************************)
EXTENDS Naturals, Sequences, FiniteSets

CONSTANTS
  NodeNum,      \* nodes of the network
  Tx,           \* transactions
  MaxBlocks,    \* bound on the blocks decided
  MaxRestarts   \* bound on the restarts of nodes

ASSUME KVNodeAssumption == NodeNum \in Nat \ {0}
ASSUME KVBoundAssumption == MaxBlocks \in Nat /\ MaxRestarts \in Nat
ASSUME KVTxAssumption == IsFiniteSet(Tx)

Node == 0..NodeNum - 1

VARIABLES
  chain,     \* the decided blocks, sets of transactions (external)
  core,      \* core[n]: the block Core executes next on n, and the transactions delivered
  app,       \* app[n]: app.state of node n
  log,       \* log[n]: the lines of node n's log file
  restarts   \* restarts so far

kvVars == <<chain, core, app, log, restarts>>

KVTypeOK ==
  /\ chain \in Seq(SUBSET Tx)
  /\ core \in [Node -> [block : Nat \ {0}, delivered : Nat]]
  /\ app \in [Node -> [height : Nat, txindex : Nat]]
  /\ log \in [Node -> Seq([height : Nat, num : Nat])]
  /\ restarts \in 0..MaxRestarts

FreshState == [height |-> 0, txindex |-> 0]
FirstBlock == [block |-> 1, delivered |-> 0]

KVInit ==
  /\ chain = << >>
  /\ core = [n \in Node |-> FirstBlock]
  /\ app = [n \in Node |-> FreshState]
  /\ log = [n \in Node |-> << >>]
  /\ restarts = 0

Committed == UNION {chain[h] : h \in 1..Len(chain)}

\* Consensus decides a block of transactions that are in no block yet, or an empty one.
Decide(txs) ==
  /\ Len(chain) < MaxBlocks
  /\ txs \cap Committed = {}
  /\ chain' = Append(chain, txs)
  /\ UNCHANGED <<core, app, log, restarts>>

Executing(n) == core[n].block <= Len(chain)

\* DeliverTx accepts every transaction and counts it.
DeliverTx(n) ==
  /\ Executing(n)
  /\ core[n].delivered < Cardinality(chain[core[n].block])
  /\ core' = [core EXCEPT ![n].delivered = @ + 1]
  /\ app' = [app EXCEPT ![n].txindex = @ + 1]
  /\ UNCHANGED <<chain, log, restarts>>

\* Mutant: empty blocks are not counted.
CommittedStateSkipsEmpty(s) ==
  [height |-> IF s.txindex # 0 THEN s.height + 1 ELSE s.height, txindex |-> 0]

\* app.state after a commit: the block is counted, the transaction counter is reset.
CommittedState(s) == [height |-> s.height + 1, txindex |-> 0]

\* The log after a commit: one line for a block with transactions.
CommittedLog(n) ==
  IF app[n].txindex = 0 THEN log[n]
  ELSE Append(log[n], [height |-> app[n].height + 1, num |-> app[n].txindex])

Commit(n) ==
  /\ Executing(n)
  /\ core[n].delivered = Cardinality(chain[core[n].block])
  /\ app' = [app EXCEPT ![n] = CommittedState(@)]
  /\ log' = [log EXCEPT ![n] = CommittedLog(n)]
  /\ core' = [core EXCEPT ![n] = [block |-> @.block + 1, delivered |-> 0]]
  /\ UNCHANGED <<chain, restarts>>

\* Mutant: Core resumes where it was.
ReplayFromCurrent(n) == core[n]

\* Info reports no height: Core executes the chain from the first block.
ReplayFrom(n) == FirstBlock

\* The node's process dies and is started again: an empty MemDB, a truncated log.
Restart(n) ==
  /\ restarts < MaxRestarts
  /\ app' = [app EXCEPT ![n] = FreshState]
  /\ log' = [log EXCEPT ![n] = << >>]
  /\ core' = [core EXCEPT ![n] = ReplayFrom(n)]
  /\ restarts' = restarts + 1
  /\ UNCHANGED chain

KVNext ==
  \/ \E txs \in SUBSET Tx : Decide(txs)
  \/ \E n \in Node : DeliverTx(n) \/ Commit(n) \/ Restart(n)

KVSpec == KVInit /\ [][KVNext]_kvVars

------------------------------------------------------------------------------
(***************************************************************************)
(* Properties.                                                             *)
(***************************************************************************)

\* The heights of the blocks with transactions that node n has committed.
LoggedHeights(n) == {h \in 1..core[n].block - 1 : chain[h] # {}}

\* A node's log has one line for every block with transactions it has committed, in the order
\* of the chain, with the block's real height and transaction count, also after restarts:
\* post_process.js takes the first field for the block's height in the chain
\* (kvstore.go:105-117, post_process.js:23).
LogMatchesChain ==
  \A n \in Node :
    /\ {log[n][k].height : k \in 1..Len(log[n])} = LoggedHeights(n)
    /\ \A k \in 1..Len(log[n]) : log[n][k].num = Cardinality(chain[log[n][k].height])
    /\ \A j, k \in 1..Len(log[n]) : j < k => log[n][j].height < log[n][k].height

\* However nodes restart, each log comes to have a line for every block with transactions that is
\* decided, and for no other: a node that lost its log does not stay behind (kvstore.go:74-84).
LogsCatchUp ==
  \A n \in Node :
    []<>({log[n][k].height : k \in 1..Len(log[n])} = {h \in 1..Len(chain) : chain[h] # {}})

==============================================================================
