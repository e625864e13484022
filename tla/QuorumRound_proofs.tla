-------------------------- MODULE QuorumRound_proofs --------------------------
(***************************************************************************)
(* What the monitor and a whole round on a Quorum network guarantee, for   *)
(* every number of nodes, threads, polls and transactions.  The monitor,   *)
(* with any workload, never declares a round over too early; a Raft report *)
(* misses no transaction at its start, any report has every block that     *)
(* polls looked at unless they overlapped, and its rows are in order, and  *)
(* complete unless a late poll moves the range.  In a round it keeps these *)
(* promises beside the workload and the script, it returns only if the     *)
(* whole load was sent by one thread, post-processing enters every         *)
(* transaction of the logs that were whole in its block, and it fails on   *)
(* whole logs only where polls passed a block over, overlapped or were     *)
(* late, or where a call was rejected.                                     *)
(***************************************************************************)
EXTENDS QuorumRound, CommonLemmas, TLAPS

------------------------------------------------------------------------------
(***************************************************************************)
(* The monitor, with any workload.                                         *)
(***************************************************************************)

(***************************************************************************)
(* The inductive invariant.                                                *)
(***************************************************************************)

\* Balances never decrease along the chain and never exceed what was submitted.
ChainSound ==
  /\ \A h \in 1..Len(chain) : chain[h] <= Balance
  /\ \A g, h \in 0..Len(chain) : g <= h => BalanceAt(g) <= BalanceAt(h)
  /\ Balance <= sent

\* What a poll has read was true of the chain when it was read: a height it has, a balance
\* it has reached.
PollsSound ==
  \A p \in Poll : /\ polls[p].height <= Len(chain)
                  /\ polls[p].balance <= Balance

\* Once the interval runs, the start balance is one the chain has reached; once main is
\* released, the chain has reached that balance plus the round's transactions.
StartSound ==
  /\ startBalance <= Balance
  /\ Resolved => Balance >= startBalance + Target

\* Raft: start height first, start balance second, so every block below startBlock is
\* already in the start balance.
RaftStartSound ==
  Consensus = "raft" =>
    /\ pc \notin {"startHeight", "stuck"} => startBlock \in 1..Len(chain) + 1
    /\ pc \in {"polling", "report", "done", "failed"} => BalanceAt(startBlock - 1) <= startBalance

\* What polls have looked at are blocks of the chain with transactions; a poll's balance, read
\* after its height, has the transactions up to that height in it; nothing polls before the
\* interval.
PolledSound ==
  /\ polled \subseteq 1..Len(chain) /\ \A h \in polled : TxsIn(h) # 0
  /\ \A p \in Poll : polls[p].stage = "tail" => BalanceAt(polls[p].height) <= polls[p].balance
  /\ pc \in {"startHeight", "startBalance", "stuck"} =>
       polled = {} /\ ~ticking /\ \A p \in Poll : polls[p].stage = "none"

\* A poll that meets the block that completes the round completes it, if an earlier one has not;
\* then it can only move the end of the range to that block.
LastSound ==
  Supply = Target /\ startBalance = 0 =>
    /\ ~Resolved => \A h \in polled : BalanceAt(h) < Target
    /\ Resolved /\ ~disturbed => \A h \in polled : BalanceAt(h) = Target => h <= endBlock

\* While no two polls have been in flight at the same time, each one is at least as high as those
\* before it, the first to meet transactions sets the start, and the last sets the end.
TurnSound ==
  ~overlapped =>
    /\ \A p, r \in Poll : p # r => polls[p].stage = "none" \/ polls[r].stage = "none"
    /\ \A p \in Poll : polls[p].stage \in {"balance", "tail"} =>
         \A h \in polled : h <= polls[p].height
    /\ Resolved => /\ ~ticking /\ \A p \in Poll : polls[p].stage = "none"
                   /\ \A h \in polled : h <= endBlock
    /\ Consensus = "quorum" => (firstBlock <=> polled = {}) /\ \A h \in polled : startBlock <= h

\* The range ends inside node 0's chain, and so does the block main waits for, even when
\* the range has been moved since main asked for it.
RangeSound ==
  /\ endBlock <= Len(chain)
  /\ pc = "report" => block <= Len(chain)

\* Only a poll that met a block with transactions sets the start on IBFT, and such a block
\* is below the head of the chain for good.
IBFTStartSound ==
  Consensus = "quorum" => startBlock = 0 \/ (startBlock <= Len(chain) /\ TxsIn(startBlock) # 0)

\* The report is empty until main is released, its rows stay in order whatever late polls do
\* to the range, and while no poll has done anything to it they are filled as far as main is.
ReportSound ==
  /\ ~Resolved => report = << >>
  /\ RowsInOrder(report)
  /\ pc = "report" => OrderedTo(report, node, block)
  /\ pc = "report" /\ ~disturbed => FilledTo(report, node, block, startBlock, endBlock)
  /\ pc = "done" /\ ~disturbed => RowsComplete(report, startBlock, endBlock)

IInv == /\ TypeOK /\ ChainSound /\ PollsSound /\ StartSound /\ RaftStartSound
        /\ IBFTStartSound /\ RangeSound /\ ReportSound
        /\ PolledSound /\ LastSound /\ TurnSound

------------------------------------------------------------------------------
(***************************************************************************)
(* Balances.                                                               *)
(***************************************************************************)

\* The balance after a block of the chain, and at its head, is a number.
LEMMA BalanceType ==
  ASSUME chain \in Seq(Nat)
  PROVE  /\ Len(chain) \in Nat
         /\ Balance \in Nat
         /\ \A h \in 0..Len(chain) : BalanceAt(h) \in Nat
BY DEF Balance, BalanceAt

\* The same of the next state.
LEMMA NextBalanceType ==
  ASSUME chain' \in Seq(Nat)
  PROVE  Len(chain') \in Nat /\ Balance' \in Nat
BY DEF Balance, BalanceAt

\* Sealing a block changes the balance after no block before it.
LEMMA SealedBlocksStay ==
  ASSUME chain \in Seq(Nat), NEW m \in Nat, chain' = Append(chain, m)
  PROVE  /\ chain' \in Seq(Nat)
         /\ Len(chain') = Len(chain) + 1
         /\ Balance' = m
         /\ \A h \in 0..Len(chain) : BalanceAt(h)' = BalanceAt(h)
BY DEF Balance, BalanceAt

\* A chain that stays as it is keeps its balances.
LEMMA SameChain ==
  ASSUME chain' = chain
  PROVE  /\ Balance' = Balance
         /\ \A h \in Nat : BalanceAt(h)' = BalanceAt(h)
BY DEF Balance, BalanceAt

------------------------------------------------------------------------------
(***************************************************************************)
(* Types.                                                                  *)
(***************************************************************************)

\* Every step keeps the types.
LEMMA TypeStep == TypeOK /\ [Next]_vars => TypeOK'
<1> SUFFICES ASSUME TypeOK, [Next]_vars PROVE TypeOK'
  OBVIOUS
<1> USE DEF TypeOK, network, PollState, NoPoll
<1>1. CASE Submit
  BY <1>1, LoadAssumption DEF Submit, monitorVars
<1>2. ASSUME NEW n \in 0..Supply, Mine(n) PROVE TypeOK'
  <2>1. Balance + n \in Nat
    BY BalanceType
  <2>2. chain' \in Seq(Nat)
    BY <1>2, <2>1, SealedBlocksStay DEF Mine
  <2> QED BY <1>2, <2>2 DEF Mine, monitorVars
<1>3. ASSUME NEW i \in Node \ {0}, Import(i) PROVE TypeOK'
  BY <1>3 DEF Import, monitorVars
<1>4. CASE ReadStartHeight
  BY <1>4, BalanceType DEF ReadStartHeight, FirstRoundBlock
<1>5. CASE ReadStartBalance
  BY <1>5, BalanceType DEF ReadStartBalance, StartReading
<1>6. ASSUME NEW p \in Poll, StartPoll(p) PROVE TypeOK'
  BY <1>6 DEF StartPoll
<1>7. ASSUME NEW p \in Poll, PollHeight(p) PROVE TypeOK'
  BY <1>7, BalanceType DEF PollHeight
<1>8. ASSUME NEW p \in Poll, PollBalance(p) PROVE TypeOK'
  BY <1>8, BalanceType DEF PollBalance
<1>9. ASSUME NEW p \in Poll, PollTail(p) PROVE TypeOK'
  <2> DEFINE q == polls[p]
             first == IF SeesFirst(q) THEN q.height ELSE startBlock
             last == IF Completes(q) THEN q.height ELSE endBlock
             loop == LoopFrom(0, first, first, last)
  <2>1. first \in Nat /\ last \in Nat
    OBVIOUS
  <2>2. 0 \in Node
    BY NodeNumAssumption DEF Node
  <2>3. loop.pc \in {"report", "done"} /\ loop.node \in Node /\ loop.block \in Nat
    BY <2>1, <2>2, LoopType
  <2>4. pc' \in {"polling", "report", "done", pc} /\ node' \in Node /\ block' \in Nat
    BY <1>9, <2>3 DEF PollTail
  <2>5. startBlock' \in Nat /\ endBlock' \in Nat
    BY <1>9, <2>1 DEF PollTail
  <2>6. firstBlock' \in BOOLEAN /\ ticking' \in BOOLEAN /\ disturbed' \in BOOLEAN
    BY <1>9 DEF PollTail
  <2>7. polls' \in [Poll -> PollState]
    BY <1>9 DEF PollTail
  <2>8. polled' \subseteq Nat
    BY <1>9 DEF PollTail
  <2> QED BY <1>9, <2>4, <2>5, <2>6, <2>7, <2>8 DEF PollTail
<1>10. CASE ReportBlock
  <2>1. block + 1 \in Nat
    OBVIOUS
  <2>2. pc' \in {"report", "done"} /\ node' \in Node /\ block' \in Nat
    BY <1>10, <2>1, LoopType DEF ReportBlock
  <2>3. DOMAIN report' \subseteq Nat /\ \A b \in DOMAIN report' : report'[b] \in Seq(Node)
    BY <1>10, PushType DEF ReportBlock, IsReport
  <2>4. polls' \in [Poll -> PollState]
    BY <1>10 DEF ReportBlock
  <2> QED BY <1>10, <2>2, <2>3, <2>4 DEF ReportBlock
<1>11. CASE ReportBlockFails
  BY <1>11 DEF ReportBlockFails
<1>12. ASSUME NEW p \in Poll, PollRejected(p) PROVE TypeOK'
  BY <1>12, BoundAssumption DEF PollRejected
<1>13. CASE MainRejected
  BY <1>13, BoundAssumption DEF MainRejected
<1>14. CASE UNCHANGED vars
  BY <1>14 DEF vars
<1> QED BY <1>1, <1>2, <1>3, <1>4, <1>5, <1>6, <1>7, <1>8, <1>9, <1>10, <1>11, <1>12,
           <1>13, <1>14 DEF Next, NetworkOrMonitor

\* The initial state has the types.
LEMMA TypeInit == Init => TypeOK
<1> SUFFICES ASSUME Init PROVE TypeOK
  OBVIOUS
<1>1. << >> \in Seq(Nat) /\ DOMAIN << >> = {}
  OBVIOUS
<1>2. DOMAIN report \subseteq Nat /\ \A b \in DOMAIN report : report[b] \in Seq(Node)
  BY <1>1 DEF Init
<1>3. polls \in [Poll -> PollState]
  BY DEF Init, PollState, NoPoll
<1>4. node \in Node /\ 0 \in 0..Supply /\ 0 \in 0..MaxFailures
  BY NodeNumAssumption, LoadAssumption, BoundAssumption DEF Init, Node
<1> QED BY <1>1, <1>2, <1>3, <1>4 DEF Init, TypeOK

\* Type correctness: heights, balances, cursors and reports are what the code takes them
\* to be in every reachable state (txMonitor.js:15-23).
THEOREM TypeCorrect == Spec => []TypeOK
BY TypeInit, TypeStep, PTL DEF Spec

------------------------------------------------------------------------------
(***************************************************************************)
(* Completion.                                                             *)
(***************************************************************************)

\* A step that leaves the chain alone keeps what is known of it.
LEMMA ChainKept == ChainSound /\ UNCHANGED network => ChainSound'
BY SameChain DEF ChainSound, BalanceAt, network

\* The chain stays sound: it seals at most what was submitted, on top of its balance.
LEMMA ChainStep == TypeOK /\ ChainSound /\ [Next]_vars => ChainSound'
<1> SUFFICES ASSUME TypeOK, ChainSound, [Next]_vars PROVE ChainSound'
  OBVIOUS
<1>1. Balance \in Nat /\ sent \in Nat /\ chain \in Seq(Nat)
  BY BalanceType, LoadAssumption DEF TypeOK
<1>2. CASE Submit
  BY <1>1, <1>2, SameChain DEF Submit, ChainSound, BalanceAt
<1>3. ASSUME NEW n \in 0..Supply, Mine(n) PROVE ChainSound'
  <2>1. Balance + n \in Nat /\ Balance + n <= sent /\ chain' = Append(chain, Balance + n)
    BY <1>1, <1>3 DEF Mine
  <2>2. Len(chain') = Len(chain) + 1 /\ Balance' = Balance + n /\ sent' = sent
    BY <1>1, <1>3, <2>1, SealedBlocksStay DEF Mine
  <2>3. \A h \in 1..Len(chain') : chain'[h] <= Balance'
    BY <1>1, <2>1, <2>2 DEF ChainSound
  <2>4. ASSUME NEW g \in 0..Len(chain'), NEW h \in 0..Len(chain'), g <= h
        PROVE  BalanceAt(g)' <= BalanceAt(h)'
    <3>1. \A j \in 0..Len(chain) : BalanceAt(j)' = BalanceAt(j) /\ BalanceAt(j) \in Nat
      BY <1>1, <2>1, SealedBlocksStay, BalanceType
    <3>2. CASE h \in 0..Len(chain)
      <4>1. g \in 0..Len(chain)
        BY <1>1, <2>4, <3>2
      <4> QED BY <2>4, <3>1, <3>2, <4>1 DEF ChainSound
    <3>3. CASE h \notin 0..Len(chain)
      <4>1. h = Len(chain') /\ h # 0 /\ BalanceAt(h)' = Balance'
        BY <1>1, <2>2, <3>3 DEF BalanceAt, Balance
      <4>2. CASE g = 0
        BY <1>1, <2>1, <2>2, <4>1, <4>2 DEF BalanceAt
      <4>3. CASE g # 0
        BY <2>3, <4>1, <4>3 DEF BalanceAt
      <4> QED BY <4>2, <4>3
    <3> QED BY <3>2, <3>3
  <2> QED BY <2>1, <2>2, <2>3, <2>4 DEF ChainSound
<1>4. CASE UNCHANGED <<sent, chain>>
  BY <1>4, SameChain DEF ChainSound, BalanceAt
<1> QED BY <1>2, <1>3, <1>4 DEF Next, NetworkOrMonitor, Import, ReadStartHeight, ReadStartBalance,
           StartPoll, PollHeight, PollBalance, PollTail, PollRejected, ReportBlock, ReportBlockFails,
           MainRejected, vars, network

\* The chain only grows: heights and balances that were reached stay reached.
LEMMA ChainGrows ==
  TypeOK /\ [Next]_vars =>
    /\ Len(chain) <= Len(chain') /\ Balance <= Balance'
    /\ \A h \in 0..Len(chain) : BalanceAt(h)' = BalanceAt(h)
<1> SUFFICES ASSUME TypeOK, [Next]_vars
             PROVE  /\ Len(chain) <= Len(chain') /\ Balance <= Balance'
                    /\ \A h \in 0..Len(chain) : BalanceAt(h)' = BalanceAt(h)
  OBVIOUS
<1>1. Balance \in Nat /\ Len(chain) \in Nat /\ chain \in Seq(Nat)
  BY BalanceType DEF TypeOK
<1>2. ASSUME NEW n \in 0..Supply, Mine(n)
      PROVE  /\ Len(chain) <= Len(chain') /\ Balance <= Balance'
             /\ \A h \in 0..Len(chain) : BalanceAt(h)' = BalanceAt(h)
  <2>1. Balance + n \in Nat /\ chain' = Append(chain, Balance + n)
    BY <1>1, <1>2 DEF Mine
  <2> QED BY <1>1, <2>1, SealedBlocksStay
<1>3. CASE UNCHANGED chain
  BY <1>1, <1>3, SameChain
<1> QED BY <1>2, <1>3 DEF Next, NetworkOrMonitor, Submit, Import, ReadStartHeight, ReadStartBalance,
           StartPoll, PollHeight, PollBalance, PollTail, PollRejected, ReportBlock, ReportBlockFails,
           MainRejected, vars, network

\* A poll's readings stay true: it reads what the chain has, and the chain only grows.
LEMMA PollsStep == TypeOK /\ PollsSound /\ [Next]_vars => PollsSound'
<1> SUFFICES ASSUME TypeOK, PollsSound, [Next]_vars, NEW r \in Poll
             PROVE  polls'[r].height <= Len(chain') /\ polls'[r].balance <= Balance'
  BY DEF PollsSound
<1>1. /\ Len(chain) \in Nat /\ Balance \in Nat /\ Len(chain') \in Nat /\ Balance' \in Nat
      /\ polls[r].height \in Nat /\ polls[r].balance \in Nat
  BY BalanceType, NextBalanceType, TypeStep DEF TypeOK, PollState
<1>2. Len(chain) <= Len(chain') /\ Balance <= Balance'
  BY ChainGrows
<1>3. polls[r].height <= Len(chain) /\ polls[r].balance <= Balance
  BY DEF PollsSound
<1>4. CASE polls'[r] \in {polls[r], NoPoll}
  BY <1>1, <1>2, <1>3, <1>4 DEF NoPoll
<1>5. ASSUME NEW p \in Poll, PollHeight(p) PROVE polls'[r].height <= Len(chain') /\ polls'[r].balance <= Balance'
  <2>1. /\ polls'[r].height \in {polls[r].height, Len(chain)}
        /\ polls'[r].balance = polls[r].balance
    BY <1>5 DEF PollHeight, TypeOK, PollState
  <2> QED BY <1>1, <1>2, <1>3, <2>1
<1>6. ASSUME NEW p \in Poll, PollBalance(p) PROVE polls'[r].height <= Len(chain') /\ polls'[r].balance <= Balance'
  <2>1. /\ polls'[r].height = polls[r].height
        /\ polls'[r].balance \in {polls[r].balance, Balance}
    BY <1>6 DEF PollBalance, TypeOK, PollState
  <2> QED BY <1>1, <1>2, <1>3, <2>1
<1>7. ASSUME NEW p \in Poll, StartPoll(p) PROVE polls'[r].height <= Len(chain') /\ polls'[r].balance <= Balance'
  <2>1. polls'[r].height = polls[r].height /\ polls'[r].balance = polls[r].balance
    BY <1>7 DEF StartPoll, TypeOK, PollState
  <2> QED BY <1>1, <1>2, <1>3, <2>1
<1>8. ASSUME NEW p \in Poll, PollTail(p) \/ PollRejected(p) PROVE polls'[r] \in {polls[r], NoPoll}
  BY <1>8 DEF PollTail, PollRejected, TypeOK
<1>9. CASE ReportBlock
  BY <1>4, <1>9 DEF ReportBlock
<1> QED BY <1>4, <1>5, <1>6, <1>7, <1>8, <1>9 DEF Next, NetworkOrMonitor, Submit, Mine, Import,
           monitorVars, ReadStartHeight, ReadStartBalance, ReportBlockFails, MainRejected, vars

\* The start balance is read once, and main is released only by a poll that read the start
\* balance plus the round's transactions.
LEMMA StartStep == TypeOK /\ PollsSound /\ StartSound /\ [Next]_vars => StartSound'
<1> SUFFICES ASSUME TypeOK, PollsSound, StartSound, [Next]_vars PROVE StartSound'
  OBVIOUS
<1>1. /\ Balance \in Nat /\ Balance' \in Nat /\ Balance <= Balance'
      /\ startBalance \in Nat /\ Target \in Nat
  BY BalanceType, NextBalanceType, TypeStep, ChainGrows, LoadAssumption DEF TypeOK
<1>2. CASE ReadStartBalance
  BY <1>1, <1>2, SameChain DEF ReadStartBalance, StartReading, StartSound, Resolved, network
<1>3. ASSUME NEW p \in Poll, PollTail(p) PROVE StartSound'
  <2>1. startBalance' = startBalance /\ Balance' = Balance
    BY <1>3, SameChain DEF PollTail, network
  <2>2. CASE Completes(polls[p])
    BY <1>1, <2>1, <2>2 DEF Completes, PollsSound, StartSound
  <2>3. CASE ~Completes(polls[p])
    <3>1. pc' = pc
      BY <1>3, <2>3 DEF PollTail
    <3> QED BY <2>1, <3>1 DEF StartSound, Resolved
  <2> QED BY <2>2, <2>3
<1>4. CASE startBalance' = startBalance /\ (Resolved' => Resolved)
  BY <1>1, <1>4 DEF StartSound
<1> QED BY <1>2, <1>3, <1>4 DEF Next, NetworkOrMonitor, Submit, Mine, Import, monitorVars,
           ReadStartHeight, StartPoll, PollHeight, PollBalance, PollRejected, ReportBlock,
           ReportBlockFails, MainRejected, vars, Resolved

\* Reading the height before the balance is what makes the Raft range start low enough.
LEMMA RaftStartStep ==
  TypeOK /\ ChainSound /\ RaftStartSound /\ [Next]_vars => RaftStartSound'
<1> SUFFICES ASSUME TypeOK, ChainSound, RaftStartSound, [Next]_vars, Consensus = "raft"
             PROVE  /\ pc' \notin {"startHeight", "stuck"} => startBlock' \in 1..Len(chain') + 1
                    /\ pc' \in {"polling", "report", "done", "failed"} =>
                         BalanceAt(startBlock - 1)' <= startBalance'
  BY DEF RaftStartSound
<1>1. /\ Len(chain) \in Nat /\ Balance \in Nat /\ Len(chain') \in Nat
      /\ startBlock \in Nat /\ startBalance \in Nat /\ chain \in Seq(Nat)
  BY BalanceType, NextBalanceType, TypeStep DEF TypeOK
<1>2. /\ Len(chain) <= Len(chain')
      /\ \A h \in 0..Len(chain) : BalanceAt(h)' = BalanceAt(h)
  BY ChainGrows
<1>3. CASE ReadStartHeight
  BY <1>1, <1>2, <1>3 DEF ReadStartHeight, FirstRoundBlock, network
<1>4. CASE ReadStartBalance
  <2>1. startBlock \in 1..Len(chain) + 1 /\ startBlock - 1 \in 0..Len(chain)
    BY <1>1, <1>4 DEF ReadStartBalance, RaftStartSound
  <2>2. BalanceAt(startBlock - 1) <= Balance
    BY <1>1, <2>1 DEF ChainSound, BalanceAt
  <2>3. startBlock' = startBlock /\ startBalance' = Balance /\ chain' = chain
    BY <1>4 DEF ReadStartBalance, StartReading, network
  <2>4. BalanceAt(startBlock - 1)' = BalanceAt(startBlock - 1)
    BY <2>3 DEF BalanceAt
  <2> QED BY <2>1, <2>2, <2>3, <2>4
<1>5. CASE /\ startBlock' = startBlock /\ startBalance' = startBalance
           /\ pc' \notin {"startHeight", "stuck"} => pc \notin {"startHeight", "stuck"}
           /\ pc' \in {"polling", "report", "done", "failed"} =>
                pc \in {"polling", "report", "done", "failed"}
  <2>1. ASSUME pc \notin {"startHeight", "stuck"}
        PROVE  /\ startBlock \in 1..Len(chain) + 1
               /\ BalanceAt(startBlock - 1)' = BalanceAt(startBlock - 1)
    <3>1. startBlock \in 1..Len(chain) + 1 /\ startBlock - 1 \in 0..Len(chain)
      BY <1>1, <2>1 DEF RaftStartSound
    <3>2. BalanceAt(startBlock - 1)' = BalanceAt(startBlock - 1)
      BY <1>2, <1>5, <3>1 DEF BalanceAt
    <3> QED BY <3>1, <3>2
  <2> QED BY <1>1, <1>2, <1>5, <2>1 DEF RaftStartSound
<1>6. ASSUME NEW p \in Poll, PollTail(p)
      PROVE  /\ startBlock' = startBlock /\ startBalance' = startBalance
             /\ pc' = pc \/ (pc = "polling" /\ pc' \in {"report", "done"})
  <2>1. ~SeesFirst(polls[p])
    BY DEF SeesFirst
  <2> DEFINE last == IF Completes(polls[p]) THEN polls[p].height ELSE endBlock
  <2>2. LoopFrom(0, startBlock, startBlock, last).pc \in {"report", "done"}
    BY DEF LoopFrom
  <2> QED BY <1>6, <2>1, <2>2 DEF PollTail
<1>7. CASE ReportBlock
  <2>1. LoopFrom(node, block + 1, startBlock, endBlock).pc \in {"report", "done"}
    BY DEF LoopFrom
  <2> QED BY <1>5, <1>7, <2>1 DEF ReportBlock
<1>8. CASE MainRejected
  BY <1>5, <1>8 DEF MainRejected
<1>9. CASE ReportBlockFails
  BY <1>5, <1>9 DEF ReportBlockFails
<1> QED BY <1>3, <1>4, <1>5, <1>6, <1>7, <1>8, <1>9 DEF Next, NetworkOrMonitor, Submit, Mine, Import,
           monitorVars, StartPoll, PollHeight, PollBalance, PollRejected, vars

\* The range and the awaited block stay inside node 0's chain.
LEMMA RangeStep == TypeOK /\ PollsSound /\ RangeSound /\ [Next]_vars => RangeSound'
<1> SUFFICES ASSUME TypeOK, PollsSound, RangeSound, [Next]_vars PROVE RangeSound'
  OBVIOUS
<1>1. /\ Len(chain) \in Nat /\ Len(chain') \in Nat /\ Len(chain) <= Len(chain')
      /\ endBlock \in Nat /\ block \in Nat /\ startBlock \in Nat /\ node \in Node
  BY BalanceType, NextBalanceType, TypeStep, ChainGrows DEF TypeOK
<1>2. CASE endBlock' = endBlock /\ block' = block /\ (pc' = "report" => pc = "report")
  BY <1>1, <1>2 DEF RangeSound
<1>3. ASSUME NEW p \in Poll, PollTail(p) PROVE RangeSound'
  <2> DEFINE q == polls[p]
             first == IF SeesFirst(q) THEN q.height ELSE startBlock
             last == IF Completes(q) THEN q.height ELSE endBlock
             loop == LoopFrom(0, first, first, last)
  <2>1. first \in Nat /\ last \in Nat /\ last <= Len(chain)
    BY <1>1 DEF TypeOK, PollState, PollsSound, RangeSound
  <2>2. 0 \in Node
    BY NodeNumAssumption DEF Node
  <2>3. loop.pc = "report" => loop.block <= last
    BY <2>1, <2>2, LoopInRange
  <2>4. loop.block \in Nat
    BY <2>1, <2>2, LoopType
  <2>5. endBlock' = last /\ chain' = chain
    BY <1>3 DEF PollTail, network
  <2>6. \/ pc' = pc /\ block' = block
        \/ pc' = loop.pc /\ block' = loop.block
    BY <1>3 DEF PollTail
  <2> QED BY <1>1, <2>1, <2>3, <2>4, <2>5, <2>6 DEF RangeSound
<1>4. CASE ReportBlock
  <2> DEFINE loop == LoopFrom(node, block + 1, startBlock, endBlock)
  <2>1. loop.pc = "report" => loop.block <= endBlock
    BY <1>1, LoopInRange
  <2>2. loop.block \in Nat
    BY <1>1, LoopType
  <2>3. endBlock' = endBlock /\ chain' = chain /\ pc' = loop.pc /\ block' = loop.block
    BY <1>4 DEF ReportBlock, network
  <2> QED BY <1>1, <2>1, <2>2, <2>3 DEF RangeSound
<1> QED BY <1>2, <1>3, <1>4 DEF Next, NetworkOrMonitor, Submit, Mine, Import, monitorVars,
           ReadStartHeight, ReadStartBalance, StartPoll, PollHeight, PollBalance, PollRejected,
           ReportBlockFails, MainRejected, vars

\* A sealed block keeps its transactions.
LEMMA SealedTxsStay ==
  ASSUME TypeOK, [Next]_vars, NEW h \in 0..Len(chain)
  PROVE  TxsIn(h)' = TxsIn(h)
<1>1. \A g \in 0..Len(chain) : BalanceAt(g)' = BalanceAt(g)
  BY ChainGrows
<1>2. h # 0 => h - 1 \in 0..Len(chain)
  BY BalanceType DEF TypeOK
<1> QED BY <1>1, <1>2 DEF TxsIn, BalanceAt

\* A poll starts, reads the height, reads the balance, or is over.
LEMMA PollMoves ==
  ASSUME TypeOK, [Next]_vars, NEW r \in Poll
  PROVE  \/ polls'[r] = polls[r]
         \/ polls'[r] = NoPoll
         \/ StartPoll(r) /\ polls'[r].stage = "height"
         \/ PollHeight(r) /\ polls'[r].stage = "balance" /\ polls'[r].height = Len(chain)
         \/ /\ PollBalance(r) /\ polls'[r].stage = "tail"
            /\ polls'[r].height = polls[r].height /\ polls'[r].balance = Balance
<1> DEFINE Moves == \/ polls'[r] = polls[r]
                    \/ polls'[r] = NoPoll
                    \/ StartPoll(r) /\ polls'[r].stage = "height"
                    \/ PollHeight(r) /\ polls'[r].stage = "balance" /\ polls'[r].height = Len(chain)
                    \/ /\ PollBalance(r) /\ polls'[r].stage = "tail"
                       /\ polls'[r].height = polls[r].height /\ polls'[r].balance = Balance
<1>1. polls \in [Poll -> PollState]
  BY DEF TypeOK
<1>2. ASSUME NEW p \in Poll, StartPoll(p) PROVE Moves
  <2>1. polls' = [polls EXCEPT ![p].stage = "height"]
    BY <1>2 DEF StartPoll
  <2> QED BY <1>1, <1>2, <2>1 DEF PollState
<1>3. ASSUME NEW p \in Poll, PollHeight(p) PROVE Moves
  <2>1. polls' = [polls EXCEPT ![p].stage = "balance", ![p].height = Len(chain)]
    BY <1>3 DEF PollHeight
  <2> QED BY <1>1, <1>3, <2>1 DEF PollState
<1>4. ASSUME NEW p \in Poll, PollBalance(p) PROVE Moves
  <2>1. polls' = [polls EXCEPT ![p].stage = "tail", ![p].balance = Balance]
    BY <1>4 DEF PollBalance
  <2> QED BY <1>1, <1>4, <2>1 DEF PollState
<1>5. ASSUME NEW p \in Poll, PollTail(p) \/ PollRejected(p)
      PROVE  polls'[r] = polls[r] \/ polls'[r] = NoPoll
  BY <1>1, <1>5 DEF PollTail, PollRejected
<1>6. ReportBlock => polls'[r] = polls[r] \/ polls'[r] = NoPoll
  BY DEF ReportBlock
<1>7. polls' = polls => Moves
  OBVIOUS
<1> HIDE DEF Moves
<1>8. Moves
  <2>1. polls'[r] = polls[r] \/ polls'[r] = NoPoll => Moves
    BY DEF Moves
  <2> QED BY <1>2, <1>3, <1>4, <1>5, <1>6, <1>7, <2>1 DEF Next, NetworkOrMonitor, Submit, Mine, Import,
             monitorVars, ReadStartHeight, ReadStartBalance, ReportBlockFails, MainRejected, vars
<1> QED BY <1>8 DEF Moves

\* Only the tail of a poll that met transactions adds to what was looked at.
LEMMA PolledGrows ==
  ASSUME [Next]_vars
  PROVE  \/ polled' = polled
         \/ \E p \in Poll : /\ PollTail(p) /\ TxsIn(polls[p].height) # 0
                            /\ polled' = polled \cup {polls[p].height}
<1>1. ASSUME NEW p \in Poll, PollTail(p)
      PROVE  polled' = polled \/ (TxsIn(polls[p].height) # 0 /\ polled' = polled \cup {polls[p].height})
  BY <1>1 DEF PollTail
<1> QED BY <1>1 DEF Next, NetworkOrMonitor, Submit, Mine, Import, monitorVars, ReadStartHeight,
           ReadStartBalance, StartPoll, PollHeight, PollBalance, PollRejected, ReportBlock,
           ReportBlockFails, MainRejected, vars

\* What polls look at stays where it is, and a poll reads its balance after its height.
LEMMA PolledStep ==
  TypeOK /\ ChainSound /\ PollsSound /\ PolledSound /\ [Next]_vars => PolledSound'
<1> SUFFICES ASSUME TypeOK, ChainSound, PollsSound, PolledSound, [Next]_vars PROVE PolledSound'
  OBVIOUS
<1>1. /\ Len(chain) \in Nat /\ Len(chain') \in Nat /\ Len(chain) <= Len(chain')
      /\ \A h \in 0..Len(chain) : BalanceAt(h)' = BalanceAt(h) /\ BalanceAt(h) \in Nat
  BY BalanceType, NextBalanceType, TypeStep, ChainGrows DEF TypeOK
<1>2. \A p \in Poll : polls[p].height \in 0..Len(chain)
  BY <1>1 DEF TypeOK, PollState, PollsSound
<1>3. \A h \in polled' : h \in 1..Len(chain) /\ TxsIn(h) # 0
  <2>1. \A h \in polled : h \in 1..Len(chain) /\ TxsIn(h) # 0
    BY DEF PolledSound
  <2>2. ASSUME NEW p \in Poll, TxsIn(polls[p].height) # 0 PROVE polls[p].height \in 1..Len(chain)
    BY <1>1, <1>2, <2>2 DEF TxsIn
  <2> QED BY <2>1, <2>2, PolledGrows
<1>4. ASSUME NEW h \in polled' PROVE h \in 1..Len(chain') /\ TxsIn(h)' # 0
  <2>1. h \in 0..Len(chain) /\ h \in 1..Len(chain') /\ TxsIn(h) # 0
    BY <1>1, <1>3
  <2> QED BY <2>1, SealedTxsStay
<1>5. ASSUME NEW r \in Poll, polls'[r].stage = "tail"
      PROVE  BalanceAt(polls[r].height)' <= polls'[r].balance
  <2>1. CASE polls'[r] = polls[r]
    <3>1. PICK g \in 0..Len(chain) : g = polls[r].height
      BY <1>2
    <3>2. BalanceAt(g) <= polls'[r].balance
      BY <1>5, <2>1, <3>1 DEF PolledSound
    <3>3. polls'[r].height = g /\ BalanceAt(g)' = BalanceAt(g)
      BY <1>1, <2>1, <3>1
    <3> QED BY <3>2, <3>3 DEF BalanceAt
  <2>2. CASE PollBalance(r) /\ polls'[r].height = polls[r].height /\ polls'[r].balance = Balance
    <3>1. PICK g \in 0..Len(chain) : g = polls[r].height
      BY <1>2
    <3>2. BalanceAt(g) <= Balance
      <4>1. Len(chain) \in 0..Len(chain) /\ g <= Len(chain)
        BY <1>1
      <4> QED BY <4>1 DEF ChainSound, Balance
    <3>3. polls'[r].height = g /\ BalanceAt(g)' = BalanceAt(g)
      BY <1>1, <2>2, <3>1
    <3> QED BY <2>2, <3>2, <3>3 DEF BalanceAt
  <2> QED BY <1>5, <2>1, <2>2, PollMoves DEF NoPoll
<1>6. pc' \in {"startHeight", "startBalance", "stuck"} =>
        polled' = {} /\ ~ticking' /\ \A p \in Poll : polls'[p].stage = "none"
  <2>1. CASE pc \in {"startHeight", "startBalance", "stuck"}
    <3>1. polled = {} /\ ~ticking /\ \A p \in Poll : polls[p].stage = "none"
      BY <2>1 DEF PolledSound
    <3> QED BY <2>1, <3>1 DEF Next, NetworkOrMonitor, Submit, Mine, Import, monitorVars,
               ReadStartHeight, ReadStartBalance, StartPoll, PollHeight, PollBalance, PollTail,
               PollRejected, ReportBlock, ReportBlockFails, MainRejected, vars
  <2>2. CASE pc \notin {"startHeight", "startBalance", "stuck"}
    <3>1. ASSUME NEW p \in Poll, PollTail(p) PROVE pc' \notin {"startHeight", "startBalance", "stuck"}
      BY <2>2, <3>1 DEF PollTail, LoopFrom
    <3>2. ReportBlock => pc' \notin {"startHeight", "startBalance", "stuck"}
      BY DEF ReportBlock, LoopFrom
    <3> QED BY <2>2, <3>1, <3>2 DEF Next, NetworkOrMonitor, Submit, Mine, Import, monitorVars,
               ReadStartHeight, ReadStartBalance, StartPoll, PollHeight, PollBalance, PollRejected,
               ReportBlockFails, MainRejected, vars
  <2> QED BY <2>1, <2>2
<1>7. (\A p \in Poll : polls[p].stage = "tail" => BalanceAt(polls[p].height) <= polls[p].balance)'
  BY <1>5
<1>8. polled' \subseteq 1..Len(chain') /\ (\A h \in polled : TxsIn(h) # 0)'
  BY <1>4
<1> QED BY <1>6, <1>7, <1>8 DEF PolledSound

\* The poll that completes the round sets the end, and a later one that met the last block could
\* only set it again.
LEMMA LastStep ==
  TypeOK /\ ChainSound /\ PollsSound /\ PolledSound /\ LastSound /\ [Next]_vars => LastSound'
<1> SUFFICES ASSUME TypeOK, ChainSound, PollsSound, PolledSound, LastSound, [Next]_vars,
                    Supply = Target, startBalance' = 0
             PROVE  /\ ~Resolved' => \A h \in polled' : BalanceAt(h)' < Target
                    /\ Resolved' /\ ~disturbed' =>
                         \A h \in polled' : BalanceAt(h)' = Target => h <= endBlock'
  BY DEF LastSound
<1>1. /\ Len(chain) \in Nat /\ Balance \in Nat /\ Balance <= Target /\ Target \in Nat
      /\ \A h \in 0..Len(chain) : BalanceAt(h)' = BalanceAt(h) /\ BalanceAt(h) \in Nat
  BY BalanceType, ChainGrows, LoadAssumption DEF TypeOK, ChainSound
<1>2. \A h \in polled : h \in 0..Len(chain)
  BY <1>1 DEF PolledSound
<1>3. CASE pc = "startBalance"
  <2>1. polled = {} /\ \A p \in Poll : ~PollTail(p)
    BY <1>3 DEF PolledSound, PollTail
  <2> QED BY <2>1, PolledGrows
<1>4. ASSUME NEW p \in Poll, PollTail(p), pc # "startBalance"
      PROVE  /\ ~Resolved' => \A h \in polled' : BalanceAt(h)' < Target
             /\ Resolved' /\ ~disturbed' =>
                  \A h \in polled' : BalanceAt(h)' = Target => h <= endBlock'
  <2>1. polls[p].stage = "tail" /\ polls[p].height \in Nat /\ polls[p].balance \in Nat
    BY <1>4 DEF PollTail, TypeOK, PollState
  <2>2. PICK g \in 0..Len(chain), bal \in Nat : g = polls[p].height /\ bal = polls[p].balance
    BY <1>1, <2>1 DEF PollsSound
  <2>3. BalanceAt(g) <= bal /\ bal <= Target
    BY <1>1, <2>1, <2>2 DEF PollsSound, PolledSound
  <2>4. startBalance = 0 /\ (Completes(polls[p]) <=> bal = Target)
    BY <1>1, <1>4, <2>2 DEF PollTail, Completes
  <2>5. polled' = polled \/ polled' = polled \cup {g}
    BY <1>4, <2>2 DEF PollTail
  <2>6. \A h \in polled' : h \in 0..Len(chain) /\ (h \in polled \/ h = g)
    BY <1>2, <2>5
  <2>7. pc \in {"polling", "report", "done", "failed"}
    BY <2>1 DEF PolledSound, TypeOK
  <2>8. CASE pc = "polling" /\ bal = Target
    <3>1. endBlock' = g /\ pc' \in {"report", "done"}
      BY <1>4, <2>2, <2>4, <2>8 DEF PollTail, LoopFrom
    <3>2. \A h \in polled : BalanceAt(h) < Target
      BY <2>4, <2>8 DEF LastSound, Resolved
    <3>3. \A h \in polled' : BalanceAt(h)' = Target => h = g
      BY <1>1, <2>6, <3>2
    <3> QED BY <1>1, <2>2, <3>1, <3>3 DEF Resolved
  <2>9. CASE pc = "polling" /\ bal # Target
    <3>1. pc' = pc
      BY <1>4, <2>4, <2>9 DEF PollTail
    <3>2. \A h \in polled : BalanceAt(h) < Target
      BY <2>4, <2>9 DEF LastSound, Resolved
    <3>3. BalanceAt(g) < Target
      BY <1>1, <2>3, <2>9
    <3>4. \A h \in polled' : BalanceAt(h)' < Target
      BY <1>1, <2>6, <3>2, <3>3
    <3> QED BY <2>9, <3>1, <3>4 DEF Resolved
  <2>10. CASE pc # "polling"
    <3>1. pc' = pc /\ Resolved
      BY <1>4, <2>7, <2>10 DEF PollTail, Resolved
    <3>2. ASSUME ~disturbed'
          PROVE  ~disturbed /\ endBlock' = endBlock /\ (bal = Target => endBlock = g)
      BY <1>4, <2>2, <2>4, <2>10, <3>2 DEF PollTail
    <3>3. ASSUME ~disturbed', NEW h \in polled', BalanceAt(h)' = Target PROVE h <= endBlock'
      <4>1. BalanceAt(h) = Target
        BY <1>1, <2>6, <3>3
      <4>2. CASE h \in polled
        BY <2>4, <3>1, <3>2, <3>3, <4>1, <4>2 DEF LastSound
      <4>3. CASE h = g
        BY <1>1, <2>3, <3>2, <3>3, <4>1, <4>3
      <4> QED BY <2>6, <4>2, <4>3
    <3> QED BY <3>1, <3>3 DEF Resolved
  <2> QED BY <2>8, <2>9, <2>10
<1>5. CASE UNCHANGED <<polled, endBlock, disturbed, startBalance>> /\ (Resolved' <=> Resolved)
  BY <1>1, <1>2, <1>5 DEF LastSound
<1>6. CASE ReportBlock
  <2>1. Resolved /\ Resolved'
    BY <1>6 DEF ReportBlock, Resolved, LoopFrom
  <2> QED BY <1>5, <1>6, <2>1 DEF ReportBlock
<1> QED BY <1>3, <1>4, <1>5, <1>6 DEF Next, NetworkOrMonitor, Submit, Mine, Import, monitorVars,
           ReadStartHeight, ReadStartBalance, StartPoll, PollHeight, PollBalance, PollRejected,
           ReportBlockFails, MainRejected, vars, Resolved

\* Polls that take turns are ordered by their heights.
LEMMA TurnStep ==
  TypeOK /\ PolledSound /\ PollsSound /\ TurnSound /\ [Next]_vars => TurnSound'
<1> SUFFICES ASSUME TypeOK, PolledSound, PollsSound, TurnSound, [Next]_vars, ~overlapped'
             PROVE  TurnSound'
  BY DEF TurnSound
<1>1. ~overlapped
  BY DEF Next, NetworkOrMonitor, Submit, Mine, Import, monitorVars, ReadStartHeight, ReadStartBalance,
         StartPoll, PollHeight, PollBalance, PollTail, PollRejected, ReportBlock, ReportBlockFails,
         MainRejected, vars
<1>2. /\ \A p, r \in Poll : p # r => polls[p].stage = "none" \/ polls[r].stage = "none"
      /\ \A p \in Poll : polls[p].stage \in {"balance", "tail"} => \A h \in polled : h <= polls[p].height
      /\ Resolved => /\ ~ticking /\ \A p \in Poll : polls[p].stage = "none"
                     /\ \A h \in polled : h <= endBlock
      /\ Consensus = "quorum" => (firstBlock <=> polled = {}) /\ \A h \in polled : startBlock <= h
  BY <1>1 DEF TurnSound
<1>3. Len(chain) \in Nat /\ polled \subseteq 1..Len(chain)
  BY BalanceType DEF TypeOK, PolledSound
<1>4. ASSUME NEW p \in Poll, PollTail(p) PROVE TurnSound'
  <2>1. polls[p].stage = "tail" /\ polls[p].height \in Nat /\ ~Resolved
    BY <1>2, <1>4 DEF PollTail, TypeOK, PollState
  <2>2. PICK g \in Nat : g = polls[p].height
    BY <2>1
  <2>3. \A r \in Poll : polls'[r].stage = "none"
    <3>1. \A r \in Poll : r # p => polls[r].stage = "none"
      BY <1>2, <2>1
    <3>2. \A r \in Poll : polls'[r] = NoPoll \/ (r # p /\ polls'[r] = polls[r])
      BY <1>4 DEF PollTail, TypeOK
    <3> QED BY <3>1, <3>2 DEF NoPoll
  <2>4. \A h \in polled : h <= g
    BY <1>2, <2>1, <2>2
  <2>5. polled' = polled \/ polled' = polled \cup {g}
    BY <1>4, <2>2 DEF PollTail
  <2>6. ASSUME Resolved' PROVE ~ticking' /\ \A h \in polled' : h <= endBlock'
    <3>1. Completes(polls[p])
      BY <1>4, <2>1, <2>6 DEF PollTail, Resolved
    <3>2. ~ticking' /\ endBlock' = g
      BY <1>4, <2>2, <3>1 DEF PollTail
    <3> QED BY <2>2, <2>4, <2>5, <3>2
  <2>7. ASSUME Consensus = "quorum"
        PROVE  (firstBlock' <=> polled' = {}) /\ \A h \in polled' : startBlock' <= h
    <3>1. CASE TxsIn(g) = 0
      <4>1. firstBlock' = firstBlock /\ polled' = polled /\ startBlock' = startBlock
        BY <1>4, <2>2, <3>1 DEF PollTail, SeesFirst, TypeOK
      <4> QED BY <1>2, <2>7, <4>1
    <3>2. CASE TxsIn(g) # 0 /\ firstBlock
      <4>1. ~firstBlock' /\ polled' = polled \cup {g} /\ startBlock' = g
        BY <1>4, <2>2, <2>7, <3>2 DEF PollTail, SeesFirst
      <4>2. polled = {}
        BY <1>2, <2>7, <3>2
      <4> QED BY <2>2, <4>1, <4>2
    <3>3. CASE TxsIn(g) # 0 /\ ~firstBlock
      <4>1. ~firstBlock' /\ polled' = polled \cup {g} /\ startBlock' = startBlock
        BY <1>4, <2>2, <3>3 DEF PollTail, SeesFirst
      <4>2. PICK h \in polled : startBlock <= h
        BY <1>2, <2>7, <3>3
      <4>3. startBlock <= g
        BY <1>3, <2>2, <2>4, <4>2 DEF TypeOK
      <4> QED BY <1>2, <2>7, <4>1, <4>3
    <3> QED BY <3>1, <3>2, <3>3 DEF TypeOK
  <2> QED BY <2>3, <2>6, <2>7 DEF TurnSound
<1>5. ASSUME NEW p \in Poll, StartPoll(p) PROVE TurnSound'
  <2>1. ticking /\ ~Resolved /\ ~Resolved' /\ \A r \in Poll : polls[r].stage = "none"
    BY <1>2, <1>5 DEF StartPoll, Resolved
  <2>2. \A r \in Poll : polls'[r].stage = IF r = p THEN "height" ELSE "none"
    BY <1>5, <2>1 DEF StartPoll, TypeOK, PollState
  <2>3. UNCHANGED <<polled, firstBlock, startBlock>>
    BY <1>5 DEF StartPoll
  <2> QED BY <1>2, <2>1, <2>2, <2>3 DEF TurnSound
<1>6. ASSUME \A p \in Poll : ~PollTail(p) /\ ~StartPoll(p) PROVE TurnSound'
  <2>1. polled' = polled
    BY <1>6, PolledGrows
  <2>2. ASSUME NEW r \in Poll, polls[r].stage = "none" PROVE polls'[r].stage = "none"
    <3>1. ~PollHeight(r) /\ ~PollBalance(r)
      BY <2>2 DEF PollHeight, PollBalance
    <3> QED BY <1>6, <2>2, <3>1, PollMoves DEF NoPoll
  <2>3. ASSUME NEW r \in Poll, polls'[r].stage \in {"balance", "tail"}, NEW h \in polled
        PROVE  h <= polls'[r].height
    <3>1. CASE polls'[r] = polls[r]
      BY <1>2, <2>3, <3>1
    <3>2. CASE polls'[r].height = Len(chain)
      BY <1>3, <3>2
    <3>3. CASE PollBalance(r) /\ polls'[r].height = polls[r].height
      BY <1>2, <3>3 DEF PollBalance
    <3> QED BY <1>6, <2>3, <3>1, <3>2, <3>3, PollMoves DEF NoPoll
  <2>4. Resolved' => Resolved /\ (ticking' => ticking) /\ endBlock' = endBlock
    BY <1>6 DEF Next, NetworkOrMonitor, Submit, Mine, Import, monitorVars, ReadStartHeight,
           ReadStartBalance, PollHeight, PollBalance, PollRejected, ReportBlock, ReportBlockFails,
           MainRejected, vars, Resolved
  <2>5. Consensus = "quorum" => UNCHANGED <<firstBlock, startBlock>>
    BY <1>6 DEF Next, NetworkOrMonitor, Submit, Mine, Import, monitorVars, ReadStartHeight,
           ReadStartBalance, PollHeight, PollBalance, PollRejected, ReportBlock, ReportBlockFails,
           MainRejected, vars
  <2>6. \A p, r \in Poll : p # r => polls'[p].stage = "none" \/ polls'[r].stage = "none"
    BY <1>2, <2>2
  <2>7. Resolved' => /\ ~ticking' /\ \A p \in Poll : polls'[p].stage = "none"
                     /\ \A h \in polled' : h <= endBlock'
    BY <1>2, <2>1, <2>2, <2>4
  <2>8. Consensus = "quorum" => (firstBlock' <=> polled' = {}) /\ \A h \in polled' : startBlock' <= h
    BY <1>2, <2>1, <2>5
  <2> QED BY <2>1, <2>3, <2>6, <2>7, <2>8 DEF TurnSound
<1> QED BY <1>4, <1>5, <1>6

\* On IBFT the start moves once, to a block that a poll has met.
LEMMA IBFTStartStep ==
  TypeOK /\ PollsSound /\ IBFTStartSound /\ [Next]_vars => IBFTStartSound'
<1> SUFFICES ASSUME TypeOK, PollsSound, IBFTStartSound, [Next]_vars, Consensus = "quorum"
             PROVE  startBlock' = 0 \/ (startBlock' <= Len(chain') /\ TxsIn(startBlock)' # 0)
  BY DEF IBFTStartSound
<1>1. /\ startBlock \in Nat /\ Len(chain) \in Nat /\ Len(chain') \in Nat
      /\ Len(chain) <= Len(chain')
  BY BalanceType, NextBalanceType, TypeStep, ChainGrows DEF TypeOK
<1>2. CASE startBlock' = startBlock
  <2>1. CASE startBlock = 0
    BY <1>2, <2>1
  <2>2. CASE startBlock # 0
    <3>1. startBlock \in 0..Len(chain) /\ TxsIn(startBlock) # 0
      BY <1>1, <2>2 DEF IBFTStartSound
    <3>2. TxsIn(startBlock)' = TxsIn(startBlock)
      <4>1. ASSUME NEW h \in 0..Len(chain), h = startBlock, startBlock' = h
            PROVE  TxsIn(startBlock)' = TxsIn(h)
        <5>1. TxsIn(h)' = TxsIn(h)
          BY SealedTxsStay
        <5> QED BY <4>1, <5>1 DEF TxsIn, BalanceAt
      <4> QED BY <1>2, <3>1, <4>1
    <3> QED BY <1>1, <1>2, <3>1, <3>2
  <2> QED BY <2>1, <2>2
<1>3. ASSUME NEW p \in Poll, PollTail(p), startBlock' # startBlock
      PROVE  startBlock' <= Len(chain') /\ TxsIn(startBlock)' # 0
  <2>1. SeesFirst(polls[p]) /\ startBlock' = polls[p].height /\ chain' = chain
    BY <1>3 DEF PollTail, network
  <2>2. polls[p].height <= Len(chain)
    BY DEF PollsSound
  <2>3. TxsIn(startBlock)' = TxsIn(polls[p].height)
    BY <2>1 DEF TxsIn, BalanceAt
  <2> QED BY <2>1, <2>2, <2>3 DEF SeesFirst
<1>4. CASE ReadStartHeight
  BY <1>2, <1>4, ConsensusAssumption DEF ReadStartHeight
<1> QED BY <1>2, <1>3, <1>4 DEF Next, NetworkOrMonitor, Submit, Mine, Import, monitorVars,
           ReadStartBalance, StartPoll, PollHeight, PollBalance, PollRejected, ReportBlock,
           ReportBlockFails, MainRejected, vars

\* The report follows main's loops; a poll that is still in flight can move the range, which
\* disturbed records, but not the rows.
LEMMA ReportStep == TypeOK /\ ReportSound /\ [Next]_vars => ReportSound'
<1> SUFFICES ASSUME TypeOK, ReportSound, [Next]_vars PROVE ReportSound'
  OBVIOUS
<1>1. /\ node \in Node /\ block \in Nat /\ startBlock \in Nat /\ endBlock \in Nat
      /\ 0 \in Node /\ IsReport(report)
  BY NodeNumAssumption DEF TypeOK, Node, IsReport
<1>2. CASE /\ UNCHANGED <<node, block, report, startBlock, endBlock, disturbed>>
           /\ pc' # pc => ~Resolved /\ pc' \in {"startBalance", "polling", "stuck"}
  BY <1>2 DEF ReportSound, Resolved
<1>3. CASE UNCHANGED <<report>> /\ Resolved /\ pc' = "failed"
  BY <1>3 DEF ReportSound, Resolved
<1>4. ASSUME NEW p \in Poll, PollTail(p) PROVE ReportSound'
  <2> DEFINE q == polls[p]
             first == IF SeesFirst(q) THEN q.height ELSE startBlock
             last == IF Completes(q) THEN q.height ELSE endBlock
             loop == LoopFrom(0, first, first, last)
  <2>1. first \in Nat /\ last \in Nat /\ report' = report
    BY <1>4 DEF TypeOK, PollState, PollTail
  <2>2. startBlock' = first /\ endBlock' = last
    BY <1>4 DEF PollTail
  <2>3. CASE Completes(q) /\ pc = "polling"
    <3>1. pc' = loop.pc /\ node' = loop.node /\ block' = loop.block
      BY <1>4, <2>3 DEF PollTail
    <3>2. report = << >>
      BY <2>3 DEF ReportSound, Resolved
    <3>3. RowsInOrder(<< >>)
      BY DEF RowsInOrder
    <3>4. loop.pc \in {"report", "done"}
      BY <1>1, <2>1, LoopType
    <3> HIDE DEF q, first, last, loop
    <3>5. /\ loop.pc = "report" => /\ OrderedTo(<< >>, loop.node, loop.block)
                                   /\ FilledTo(<< >>, loop.node, loop.block, first, last)
          /\ loop.pc = "done" => RowsComplete(<< >>, first, last)
      BY <2>1, LoopBegins DEF loop
    <3> QED BY <2>1, <2>2, <3>1, <3>2, <3>3, <3>4, <3>5 DEF ReportSound, Resolved
  <2>4. CASE ~(Completes(q) /\ pc = "polling")
    <3>1. UNCHANGED <<pc, node, block, report>>
      BY <1>4, <2>4 DEF PollTail
    <3>2. ~disturbed' /\ Resolved => ~disturbed /\ startBlock' = startBlock /\ endBlock' = endBlock
      BY <1>4 DEF PollTail, Resolved
    <3> QED BY <3>1, <3>2 DEF ReportSound, Resolved
  <2> QED BY <2>3, <2>4
<1>5. CASE ReportBlock
  <2> DEFINE loop == LoopFrom(node, block + 1, startBlock, endBlock)
  <2>1. /\ pc = "report" /\ (node = 0 \/ block \in DOMAIN report)
        /\ report' = Push(report, node, block)
        /\ pc' = loop.pc /\ node' = loop.node /\ block' = loop.block
        /\ UNCHANGED <<startBlock, endBlock, disturbed>>
    BY <1>5 DEF ReportBlock
  <2>2. loop.pc \in {"report", "done"}
    BY <1>1, LoopType
  <2>3. OrderedTo(report, node, block)
    BY <2>1 DEF ReportSound
  <2> HIDE DEF loop
  <2>4. /\ RowsInOrder(Push(report, node, block))
        /\ loop.pc = "report" => OrderedTo(Push(report, node, block), loop.node, loop.block)
    BY <1>1, <2>1, <2>3, PushOrdered DEF loop
  <2>5. ~disturbed =>
          /\ loop.pc = "report" =>
               FilledTo(Push(report, node, block), loop.node, loop.block, startBlock, endBlock)
          /\ loop.pc = "done" => RowsComplete(Push(report, node, block), startBlock, endBlock)
    <3>1. ~disturbed => FilledTo(report, node, block, startBlock, endBlock)
      BY <2>1 DEF ReportSound
    <3> QED BY <1>1, <3>1, PushFilled DEF loop
  <2> QED BY <2>1, <2>2, <2>4, <2>5 DEF ReportSound, Resolved
<1>6. CASE MainRejected
  BY <1>2, <1>3, <1>6 DEF MainRejected, Resolved
<1>7. CASE ReportBlockFails
  BY <1>3, <1>7 DEF ReportBlockFails, Resolved
<1>8. CASE ReadStartHeight
  BY <1>8 DEF ReadStartHeight, ReportSound, Resolved
<1>9. CASE ReadStartBalance
  BY <1>2, <1>9 DEF ReadStartBalance, Resolved
<1> QED BY <1>2, <1>4, <1>5, <1>6, <1>7, <1>8, <1>9 DEF Next, NetworkOrMonitor, Submit, Mine, Import,
           monitorVars, StartPoll, PollHeight, PollBalance, PollRejected, vars

------------------------------------------------------------------------------
(***************************************************************************)
(* The theorems.                                                           *)
(***************************************************************************)

\* The inductive invariant holds initially.
LEMMA InvInit == Init => IInv
<1> SUFFICES ASSUME Init PROVE IInv
  OBVIOUS
<1>1. TypeOK
  BY TypeInit
<1>2. Len(chain) = 0 /\ Balance = 0
  BY DEF Init, Balance, BalanceAt
<1>3. ~Resolved /\ pc = "startHeight"
  BY DEF Init, Resolved
<1>4. IBFTStartSound /\ RangeSound
  BY <1>2, <1>3 DEF Init, IBFTStartSound, RangeSound
<1>5. ReportSound
  BY <1>3 DEF Init, ReportSound, RowsInOrder
<1>6. ChainSound
  BY <1>2, LoadAssumption DEF Init, ChainSound, BalanceAt
<1>7. PolledSound /\ LastSound /\ TurnSound
  BY <1>3 DEF Init, PolledSound, LastSound, TurnSound, NoPoll
<1> QED BY <1>1, <1>2, <1>3, <1>4, <1>5, <1>6, <1>7, ConsensusAssumption
        DEF Init, IInv, ChainSound, PollsSound, StartSound, RaftStartSound, NoPoll

\* Every step preserves it.
LEMMA InvStep == IInv /\ [Next]_vars => IInv'
BY TypeStep, ChainStep, PollsStep, StartStep, RaftStartStep, IBFTStartStep, RangeStep, ReportStep,
   PolledStep, LastStep, TurnStep DEF IInv

\* The invariant holds of the specification.
LEMMA Invariance == Spec => []IInv
BY InvInit, InvStep, PTL DEF Spec

\* The monitor never declares a round over before its transactions are sealed, for every
\* number of polls in flight and every interleaving of them with the chain.
THEOREM CompletionIsSound == Spec => []CompletionSound
<1>1. IInv => CompletionSound
  BY BalanceType, LoadAssumption DEF IInv, TypeOK, StartSound, CompletionSound
<1> QED BY <1>1, Invariance, PTL

\* The invariant says of a Raft report where it starts.
LEMMA NothingIsBelowStart == IInv => NothingBelowStart
<1> SUFFICES ASSUME IInv, Consensus = "raft", Supply = Target, Resolved
             PROVE  startBlock \in 1..Len(chain) + 1 /\ BalanceAt(startBlock - 1) = 0
  BY DEF NothingBelowStart
<1>1. startBlock \in 1..Len(chain) + 1 /\ BalanceAt(startBlock - 1) <= startBalance
  BY DEF IInv, RaftStartSound, Resolved
<1>2. /\ startBalance \in Nat /\ Balance \in Nat /\ sent \in 0..Supply /\ Len(chain) \in Nat
      /\ \A h \in 0..Len(chain) : BalanceAt(h) \in Nat
  BY BalanceType DEF IInv, TypeOK
<1>3. startBalance = 0
  BY <1>2, LoadAssumption DEF IInv, StartSound, ChainSound
<1>4. startBlock - 1 \in 0..Len(chain)
  BY <1>1, <1>2
<1> QED BY <1>1, <1>2, <1>3, <1>4

\* A Raft report misses no transaction of the round at its start.
THEOREM RaftReportStartsLowEnough == Spec => []NothingBelowStart
BY NothingIsBelowStart, Invariance, PTL

\* A range holds what polls have looked at, if they took turns.
LEMMA PolledInRange == IInv => PolledBlocksAreInRange
<1> SUFFICES ASSUME IInv, Supply = Target, Resolved, ~overlapped, NEW h \in polled
             PROVE  h \in startBlock..endBlock
  BY DEF PolledBlocksAreInRange
<1>1. /\ Len(chain) \in Nat /\ startBlock \in Nat /\ endBlock \in Nat
      /\ \A g \in 0..Len(chain) : BalanceAt(g) \in Nat
      /\ h \in 1..Len(chain) /\ TxsIn(h) # 0
  BY BalanceType DEF IInv, TypeOK, PolledSound
<1>2. h <= endBlock
  BY DEF IInv, TurnSound
<1>3. CASE Consensus = "quorum"
  <2>1. startBlock <= h
    BY <1>3 DEF IInv, TurnSound
  <2> QED BY <1>1, <1>2, <2>1
<1>4. CASE Consensus = "raft"
  <2>1. startBlock \in 1..Len(chain) + 1 /\ BalanceAt(startBlock - 1) = 0
    BY <1>4, NothingIsBelowStart DEF NothingBelowStart
  <2>2. ASSUME h < startBlock PROVE FALSE
    <3>1. startBlock - 1 \in 0..Len(chain) /\ h - 1 \in 0..Len(chain) /\ h \in 0..Len(chain)
          /\ h <= startBlock - 1 /\ h - 1 <= h
      BY <1>1, <2>1, <2>2
    <3>2. BalanceAt(h) <= BalanceAt(startBlock - 1) /\ BalanceAt(h - 1) <= BalanceAt(h)
      BY <3>1 DEF IInv, ChainSound
    <3>3. BalanceAt(h) = 0 /\ BalanceAt(h - 1) = 0
      BY <1>1, <2>1, <3>1, <3>2
    <3> QED BY <1>1, <3>3 DEF TxsIn
  <2> QED BY <1>1, <1>2, <2>1, <2>2
<1> QED BY <1>3, <1>4, ConsensusAssumption

\* Only polls that overlap leave a block that one of them has looked at out of the range.
THEOREM PolledBlocksAreReported == Spec => []PolledBlocksAreInRange
BY PolledInRange, Invariance, PTL

\* The rows of a report are in node order whatever late polls do to its range; and a report
\* that is written is complete for the range, for every node, unless they moved it.
THEOREM ReportRowsAreRight == Spec => []ReportRows
<1>1. IInv => ReportRows
  BY DEF IInv, ReportSound, ReportRows
<1> QED BY <1>1, Invariance, PTL

\* A step of the monitor or its network does not fail on a block of node 0.
LEMMA NodeZeroStep ==
  IInv /\ [Next]_vars => [pc = "report" /\ pc' = "failed" /\ UNCHANGED failures => node # 0]_vars
<1> SUFFICES ASSUME IInv, Next, pc = "report", pc' = "failed", failures' = failures
             PROVE  node # 0
  OBVIOUS
<1>1. block <= Len(chain)
  BY DEF IInv, RangeSound
<1>2. ASSUME NEW p \in Poll, PollTail(p) PROVE FALSE
  BY <1>2 DEF PollTail
<1>3. ~MainRejected
  BY DEF MainRejected, IInv, TypeOK
<1>4. ~ReportBlock
  BY DEF ReportBlock, LoopFrom
<1>5. CASE ReportBlockFails
  BY <1>1, <1>5 DEF ReportBlockFails, HasBlock
<1> QED BY <1>2, <1>3, <1>4, <1>5 DEF Next, NetworkOrMonitor, Submit, Mine, Import, monitorVars,
           ReadStartHeight, ReadStartBalance, StartPoll, PollHeight, PollBalance, PollRejected

\* main never fails on a block of node 0, even when late polls move the range.
THEOREM NodeZeroIsSafe == Spec => NodeZeroRowNeverFails
BY NodeZeroStep, Invariance, PTL DEF Spec, NodeZeroRowNeverFails

------------------------------------------------------------------------------
(***************************************************************************)
(* The monitor implements CompletionDetection.                             *)
(***************************************************************************)

\* A step of the monitor or of its network is a step of the abstract detection or leaves it
\* alone: a block with transactions is Seal, the tail of the completing poll is Declare.
LEMMA DetectionStep == IInv /\ [Next]_vars => [Detection!Next]_(Detection!vars)
<1> SUFFICES ASSUME IInv, [Next]_vars
             PROVE  Detection!Next \/ (Balance' = Balance /\ (Resolved' <=> Resolved))
  <2>1. ASSUME Balance' = Balance, Resolved' <=> Resolved PROVE UNCHANGED Detection!vars
    <3>1. Resolved' = Resolved
      BY <2>1 DEF Resolved
    <3> QED BY <2>1, <3>1 DEF Detection!vars
  <2> QED BY <2>1
<1>1. /\ Balance \in Nat /\ sent \in 0..Supply /\ Supply \in Nat /\ Target \in Nat
      /\ chain \in Seq(Nat) /\ pc \in {"startHeight", "startBalance", "polling", "report",
                                       "done", "failed", "stuck"}
  BY BalanceType, LoadAssumption DEF IInv, TypeOK
<1>2. ASSUME NEW n \in 0..Supply, Mine(n)
      PROVE  Detection!Next \/ (Balance' = Balance /\ (Resolved' <=> Resolved))
  <2>1. Balance + n \in Nat /\ Balance + n <= sent /\ chain' = Append(chain, Balance + n)
    BY <1>1, <1>2 DEF Mine
  <2>2. Balance' = Balance + n /\ (Resolved' <=> Resolved)
    BY <1>1, <1>2, <2>1, SealedBlocksStay DEF Mine, monitorVars, Resolved
  <2>3. CASE n = 0
    BY <1>1, <2>2, <2>3
  <2>4. CASE n # 0
    <3>1. Balance' \in (Balance + 1)..Supply
      BY <1>1, <2>1, <2>2, <2>4
    <3> QED BY <2>2, <3>1 DEF Detection!Next, Detection!Seal
  <2> QED BY <2>3, <2>4
<1>3. ASSUME NEW p \in Poll, PollTail(p)
      PROVE  Detection!Next \/ (Balance' = Balance /\ (Resolved' <=> Resolved))
  <2>1. Balance' = Balance
    BY <1>3, SameChain DEF PollTail, network
  <2>2. CASE Completes(polls[p]) /\ pc = "polling"
    <3>1. Balance >= Target
      BY <1>1, <2>2 DEF IInv, TypeOK, PollsSound, Completes
    <3>2. ~Resolved
      BY <2>2 DEF Resolved
    <3>3. Resolved'
      BY <1>3, <2>2 DEF PollTail, Resolved, LoopFrom
    <3> QED BY <2>1, <3>1, <3>2, <3>3 DEF Detection!Next, Detection!Declare
  <2>3. CASE ~(Completes(polls[p]) /\ pc = "polling")
    <3>1. pc' = pc
      BY <1>3, <2>3 DEF PollTail
    <3> QED BY <2>1, <3>1 DEF Resolved
  <2> QED BY <2>2, <2>3
<1>4. CASE ReportBlock
  <2>1. Resolved /\ Resolved'
    BY <1>4 DEF ReportBlock, Resolved, LoopFrom
  <2> QED BY <1>4, <2>1, SameChain DEF ReportBlock, network
<1>5. CASE chain' = chain /\ (Resolved' <=> Resolved)
  BY <1>5, SameChain
<1> QED BY <1>1, <1>2, <1>3, <1>4, <1>5 DEF Next, NetworkOrMonitor, Submit, Import, monitorVars,
           ReadStartHeight, ReadStartBalance, StartPoll, PollHeight, PollBalance, PollRejected,
           ReportBlockFails, MainRejected, Resolved, network, vars

\* Every behaviour of the monitor is a behaviour of the abstract detection of the end of a
\* round: it is declared over at most once, never early, and never taken back.
THEOREM MonitorImplementsDetection == Spec => DetectionSpec
<1>1. Init => Detection!Init
  BY DEF Init, Detection!Init, Balance, BalanceAt, Resolved
<1> QED BY <1>1, DetectionStep, Invariance, PTL DEF Spec, DetectionSpec, Detection!Spec

------------------------------------------------------------------------------
(***************************************************************************)
(* The round.                                                              *)
(***************************************************************************)

\* One transfer is submitted for each transaction a node has taken; none is taken twice, and a
\* thread sends the first transactions of the list, up to its share of the load.
LoadSound ==
  /\ sent = Len(accepted)
  /\ \A j, k \in 1..Len(accepted) : accepted[j] = accepted[k] => j = k
  /\ \A k \in 1..Len(accepted) : accepted[k] \in 0..ThreadRate * Duration - 1

\* Balances go up along the chain, with every block on Raft, and every transfer that is sealed
\* is in a block.
ChainOrdered ==
  /\ \A g, h \in 0..Len(chain) : g < h =>
       /\ BalanceAt(g) <= BalanceAt(h)
       /\ Consensus = "raft" => BalanceAt(g) < BalanceAt(h)
  /\ \A t \in 1..Balance : \E h \in 1..Len(chain) : t \in TxsOf(h)

\* The blocks of the report are blocks of node 0's chain.
ReportInChain == \A b \in DOMAIN report : b <= Len(chain)

\* No poll starts once main is released, none is in flight once the monitor has exited, and
\* the script goes on only then.
ExitSound ==
  /\ Resolved => ~ticking
  /\ pc = "done" => \A p \in Poll : polls[p].stage = "none"
  /\ script # "monitor" => pc = "done"

\* Until the post-processing writes it there is no final report.
FinalSound == script # "written" => final = << >>

\* The range of the report begins no later than the first transaction of the round, and ends with
\* the last.
RangeCovers ==
  /\ startBlock = 0 \/ BalanceAt(startBlock - 1) = 0
  /\ BalanceAt(endBlock) = Target

\* When no call is rejected, whole logs are enough for the report unless the range does not cover
\* the round or a late poll moved it.
CoveredRoundIsWritten ==
  script = "failed" /\ readWhole = Node => ~RangeCovers \/ disturbed

MonitorInv == IInv /\ ChainOrdered /\ ReportInChain

RoundInv == /\ RoundTypeOK /\ MonitorInv /\ LoadSound /\ ExitSound /\ FinalSound
            /\ WrittenReportExact /\ CoveredRoundIsWritten

------------------------------------------------------------------------------
(***************************************************************************)
(* The monitor and its network inside the round.                           *)
(***************************************************************************)

\* What a failed call of the workload or of postprocess.js leaves alone: of the monitor and the
\* network, all but the number of failures.
unfailing == <<sent, chain, imported, pc, startBalance, startBlock, endBlock, firstBlock, ticking,
               polls, node, block, report, disturbed, polled, overlapped>>

\* A step of the round is one of the monitor and its network, or a call of the workload or of
\* postprocess.js that fails.
LEMMA RoundSteps ==
  ASSUME TypeOK, [RoundNext]_allVars
  PROVE  [Next]_vars \/ (UNCHANGED unfailing /\ failures' \in 0..MaxFailures)
<1>1. ASSUME NEW t \in Thread, Send(t) PROVE [Next]_vars
  BY <1>1 DEF Send, Next
<1>2. ASSUME NEW t \in Thread, SendFails(t)
      PROVE  UNCHANGED unfailing /\ failures' \in 0..MaxFailures
  BY <1>2, BoundAssumption DEF SendFails, unfailing, network, TypeOK
<1>3. ASSUME NEW k \in 0..Supply, PostprocessRejected(k)
      PROVE  UNCHANGED unfailing /\ failures' \in 0..MaxFailures
  BY <1>3, BoundAssumption DEF PostprocessRejected, unfailing, network, TypeOK
<1>4. CASE MonitorStep
  BY <1>4 DEF MonitorStep, Next
<1>5. CASE UNCHANGED vars
  BY <1>5
<1> QED BY <1>1, <1>2, <1>3, <1>4, <1>5 DEF RoundNext, MonitorExits, CopyLog, SleepEnds,
           PostprocessWrites, PostprocessFails, allVars, vars

\* Such a call does the monitor no harm.
LEMMA FailureIsHarmless ==
  ASSUME IInv, UNCHANGED unfailing, failures' \in 0..MaxFailures
  PROVE  IInv'
<1> USE DEF IInv, unfailing
<1>1. Balance' = Balance /\ Resolved' = Resolved
  BY DEF Balance, BalanceAt, Resolved
<1>2. TypeOK'
  BY DEF TypeOK
<1>3. ChainSound' /\ PollsSound' /\ StartSound' /\ RangeSound'
  BY <1>1 DEF ChainSound, PollsSound, StartSound, RangeSound, BalanceAt
<1>4. RaftStartSound'
  BY DEF RaftStartSound, BalanceAt
<1>5. IBFTStartSound'
  BY DEF IBFTStartSound, TxsIn, BalanceAt
<1>6. ReportSound'
  BY <1>1 DEF ReportSound
<1>7. PolledSound' /\ LastSound'
  BY <1>1 DEF PolledSound, LastSound, TxsIn, BalanceAt
<1>8. TurnSound'
  BY <1>1 DEF TurnSound
<1> QED BY <1>2, <1>3, <1>4, <1>5, <1>6, <1>7, <1>8

\* The monitor's invariant holds beside the workload and the script of a round.
LEMMA MonitorStepInRound == IInv /\ [RoundNext]_allVars => IInv'
BY RoundSteps, InvStep, FailureIsHarmless DEF IInv

\* The chain moves only when a block is sealed, and only Raft seals no empty one.
LEMMA ChainMoves ==
  ASSUME TypeOK, [RoundNext]_allVars
  PROVE  \/ chain' = chain
         \/ \E n \in Nat : /\ chain' = Append(chain, Balance + n)
                           /\ Consensus = "raft" => n # 0
<1>1. ASSUME NEW n \in 0..Supply, Mine(n)
      PROVE  n \in Nat /\ chain' = Append(chain, Balance + n) /\ (Consensus = "raft" => n # 0)
  BY <1>1, LoadAssumption DEF Mine
<1>2. [Next]_vars => chain' = chain \/ \E n \in 0..Supply : Mine(n)
  BY DEF Next, NetworkOrMonitor, Submit, Import, ReadStartHeight, ReadStartBalance, StartPoll,
         PollHeight, PollBalance, PollTail, PollRejected, ReportBlock, ReportBlockFails,
         MainRejected, vars, network
<1>3. UNCHANGED unfailing => chain' = chain
  BY DEF unfailing
<1> QED BY <1>1, <1>2, <1>3, RoundSteps

\* What is sealed stays as it is.
LEMMA SealedStays ==
  ASSUME TypeOK, [RoundNext]_allVars
  PROVE  /\ Len(chain) \in Nat /\ Len(chain') \in Nat /\ Len(chain) <= Len(chain')
         /\ \A h \in 0..Len(chain) : BalanceAt(h) \in Nat
         /\ \A h \in 0..Len(chain) : BalanceAt(h)' = BalanceAt(h)
         /\ \A h \in 0..Len(chain) : TxsIn(h)' = TxsIn(h) /\ TxsOf(h)' = TxsOf(h)
<1>1. chain \in Seq(Nat) /\ Len(chain) \in Nat /\ Balance \in Nat
  BY BalanceType DEF TypeOK
<1>2. \A h \in 0..Len(chain) : BalanceAt(h) \in Nat
  BY <1>1, BalanceType
<1>3. /\ Len(chain') \in Nat /\ Len(chain) <= Len(chain')
      /\ \A h \in 0..Len(chain) : BalanceAt(h)' = BalanceAt(h)
  <2>1. CASE chain' = chain
    BY <1>1, <2>1, SameChain
  <2>2. ASSUME NEW n \in Nat, chain' = Append(chain, Balance + n)
        PROVE  /\ Len(chain') \in Nat /\ Len(chain) <= Len(chain')
               /\ \A h \in 0..Len(chain) : BalanceAt(h)' = BalanceAt(h)
    <3>1. Balance + n \in Nat
      BY <1>1
    <3>2. Len(chain') = Len(chain) + 1 /\ \A h \in 0..Len(chain) : BalanceAt(h)' = BalanceAt(h)
      BY <1>1, <2>2, <3>1, SealedBlocksStay
    <3> QED BY <1>1, <3>2
  <2> QED BY <2>1, <2>2, ChainMoves
<1>4. ASSUME NEW h \in 0..Len(chain) PROVE TxsIn(h)' = TxsIn(h) /\ TxsOf(h)' = TxsOf(h)
  <2>1. h = 0 \/ h - 1 \in 0..Len(chain)
    BY <1>1
  <2>2. TxsIn(h)' = TxsIn(h)
    BY <1>3, <2>1 DEF TxsIn, BalanceAt
  <2>3. TxsOf(h)' = TxsOf(h)
    BY <1>3, <2>1 DEF TxsOf, BalanceAt
  <2> QED BY <2>2, <2>3
<1> QED BY <1>1, <1>2, <1>3, <1>4

\* Sealing a block keeps the order of balances and puts the new transfers in the block.
LEMMA ChainOrderedStep == IInv /\ ChainOrdered /\ [RoundNext]_allVars => ChainOrdered'
<1> SUFFICES ASSUME IInv, ChainOrdered, [RoundNext]_allVars PROVE ChainOrdered'
  OBVIOUS
<1>1. TypeOK /\ chain \in Seq(Nat) /\ Len(chain) \in Nat /\ Balance \in Nat
  BY BalanceType DEF IInv, TypeOK
<1>2. CASE chain' = chain
  BY <1>2 DEF ChainOrdered, BalanceAt, Balance, TxsOf
<1>3. ASSUME NEW n \in Nat, chain' = Append(chain, Balance + n), Consensus = "raft" => n # 0
      PROVE  ChainOrdered'
  <2>1. Balance + n \in Nat
    BY <1>1
  <2>2. Len(chain') = Len(chain) + 1 /\ Balance' = Balance + n
    BY <1>1, <1>3, <2>1, SealedBlocksStay
  <2>3. /\ \A h \in 0..Len(chain) : BalanceAt(h)' = BalanceAt(h) /\ BalanceAt(h) \in Nat
        /\ \A h \in 0..Len(chain) : TxsOf(h)' = TxsOf(h)
    BY <1>1, SealedStays
  <2>4. PICK top \in Nat : top = Len(chain)
    BY <1>1
  <2>5. /\ BalanceAt(top + 1)' = Balance + n
        /\ BalanceAt(top)' = Balance /\ BalanceAt(top) = Balance
    BY <1>1, <1>3, <2>2, <2>3, <2>4 DEF BalanceAt, Balance
  <2>6. ASSUME NEW g \in 0..Len(chain'), NEW h \in 0..Len(chain'), g < h
        PROVE  /\ BalanceAt(g)' <= BalanceAt(h)'
               /\ Consensus = "raft" => BalanceAt(g)' < BalanceAt(h)'
    <3>1. g \in 0..Len(chain)
      BY <1>1, <2>2, <2>6
    <3>2. CASE h \in 0..Len(chain)
      BY <2>3, <2>6, <3>1, <3>2 DEF ChainOrdered
    <3>3. CASE h = top + 1
      <4>1. BalanceAt(g) <= Balance
        BY <1>1, <2>3, <2>4, <2>5, <3>1 DEF ChainOrdered
      <4>2. BalanceAt(g)' \in Nat /\ BalanceAt(g)' <= Balance /\ BalanceAt(h)' = Balance + n
        BY <2>3, <2>5, <3>1, <3>3, <4>1
      <4> QED BY <1>1, <1>3, <4>2
    <3> QED BY <1>1, <2>2, <2>4, <3>2, <3>3
  <2>7. ASSUME NEW t \in 1..Balance' PROVE \E h \in 1..Len(chain') : t \in TxsOf(h)'
    <3>1. CASE t \in 1..Balance
      <4>1. PICK h \in 1..Len(chain) : t \in TxsOf(h)
        BY <3>1 DEF ChainOrdered
      <4>2. h \in 0..Len(chain) /\ h \in 1..Len(chain')
        BY <1>1, <2>2
      <4> QED BY <2>3, <4>1, <4>2
    <3>2. CASE t \notin 1..Balance
      <4>1. t \in Balance + 1..Balance + n
        BY <1>1, <2>1, <2>2, <3>2
      <4>2. TxsOf(top + 1)' = Balance + 1..Balance + n
        <5>1. top + 1 # 0 /\ top + 1 - 1 = top
          BY <2>4
        <5>2. TxsOf(top + 1)' = BalanceAt(top)' + 1..BalanceAt(top + 1)'
          BY <5>1 DEF TxsOf
        <5> QED BY <2>5, <5>2
      <4>3. top + 1 \in 1..Len(chain')
        BY <1>1, <2>2, <2>4
      <4> QED BY <4>1, <4>2, <4>3
    <3> QED BY <3>1, <3>2
  <2> QED BY <2>6, <2>7 DEF ChainOrdered
<1> QED BY <1>1, <1>2, <1>3, ChainMoves

\* main pushes only blocks that node 0's chain has.
LEMMA ReportInChainStep == IInv /\ ReportInChain /\ [RoundNext]_allVars => ReportInChain'
<1> SUFFICES ASSUME IInv, ReportInChain, [RoundNext]_allVars PROVE ReportInChain'
  OBVIOUS
<1>1. TypeOK
  BY DEF IInv
<1>2. Len(chain) \in Nat /\ Len(chain') \in Nat /\ Len(chain) <= Len(chain')
  BY <1>1, SealedStays
<1>3. \A b \in DOMAIN report : b \in Nat /\ b <= Len(chain)
  BY <1>1 DEF TypeOK, ReportInChain
<1>4. CASE report' = report
  BY <1>2, <1>3, <1>4 DEF ReportInChain
<1>5. CASE ReportBlock
  <2>1. DOMAIN report' = DOMAIN report \cup {block} /\ chain' = chain
    BY <1>5 DEF ReportBlock, Push, network
  <2>2. block <= Len(chain)
    BY <1>5 DEF ReportBlock, IInv, RangeSound
  <2> QED BY <1>3, <2>1, <2>2 DEF ReportInChain
<1>6. [Next]_vars => ReportBlock \/ report' = report
  BY DEF Next, NetworkOrMonitor, Submit, Mine, Import, monitorVars, ReadStartHeight, ReadStartBalance,
         StartPoll, PollHeight, PollBalance, PollTail, PollRejected, ReportBlockFails, MainRejected,
         vars
<1>7. UNCHANGED unfailing => report' = report
  BY DEF unfailing
<1> QED BY <1>1, <1>4, <1>5, <1>6, <1>7, RoundSteps

\* The invariant of the monitor, with what the round needs to know of chain and report.
LEMMA MonitorInvStep == MonitorInv /\ [RoundNext]_allVars => MonitorInv'
BY MonitorStepInRound, ChainOrderedStep, ReportInChainStep DEF MonitorInv

------------------------------------------------------------------------------
(***************************************************************************)
(* The script and the workload.                                            *)
(***************************************************************************)

\* Releasing main stops the timer, the exit of the monitor ends the polls, and neither is
\* undone.
LEMMA ExitStep == TypeOK /\ ExitSound /\ [RoundNext]_allVars => ExitSound'
<1> SUFFICES ASSUME TypeOK, ExitSound, [RoundNext]_allVars PROVE ExitSound'
  OBVIOUS
<1>1. CASE UNCHANGED vars /\ (script' # "monitor" => script # "monitor" \/ pc = "done")
  BY <1>1 DEF vars, ExitSound, Resolved
<1>2. ASSUME [NetworkOrMonitor \/ Submit]_vars, script' = script PROVE ExitSound'
  <2>1. CASE /\ ticking' = ticking /\ (pc' \in {"report", "done"} => pc' = pc)
             /\ pc' = "failed" => Resolved
             /\ pc = "done" => pc' = "done" /\ polls' = polls
    BY <1>2, <2>1 DEF ExitSound, Resolved
  <2>2. CASE ReadStartBalance
    BY <1>2, <2>2 DEF ReadStartBalance, ExitSound, Resolved
  <2>3. ASSUME NEW p \in Poll, PollTail(p) PROVE ExitSound'
    <3>1. pc # "done" /\ script = "monitor"
      BY <2>3 DEF PollTail, ExitSound
    <3>2. CASE Completes(polls[p]) /\ pc = "polling"
      <4>1. ticking' = FALSE /\ (pc' = "done" => polls' = [r \in Poll |-> NoPoll])
        BY <2>3, <3>2 DEF PollTail
      <4> QED BY <1>2, <3>1, <4>1 DEF ExitSound, Resolved, NoPoll
    <3>3. CASE ~(Completes(polls[p]) /\ pc = "polling")
      BY <1>2, <2>3, <3>1, <3>3 DEF PollTail, ExitSound, Resolved
    <3> QED BY <3>2, <3>3
  <2>4. CASE ReportBlock
    <3>1. pc = "report" /\ ticking' = ticking /\ pc' \in {"report", "done"}
          /\ (pc' = "done" => polls' = [r \in Poll |-> NoPoll])
      BY <2>4, LoopType DEF ReportBlock, LoopFrom
    <3> QED BY <1>2, <3>1 DEF ExitSound, Resolved, NoPoll
  <2>5. ASSUME NEW p \in Poll, PollHeight(p) \/ PollBalance(p) \/ PollRejected(p) PROVE ExitSound'
    <3>1. pc # "done" /\ pc' = pc /\ ticking' = ticking
      BY <2>5 DEF PollHeight, PollBalance, PollRejected, ExitSound
    <3> QED BY <1>2, <3>1 DEF ExitSound, Resolved
  <2>6. ASSUME NEW p \in Poll, StartPoll(p) PROVE ExitSound'
    <3>1. ~Resolved /\ pc' = pc /\ ticking' = ticking
      BY <2>6 DEF StartPoll, ExitSound
    <3> QED BY <1>2, <3>1 DEF ExitSound, Resolved
  <2> QED BY <1>2, <2>1, <2>2, <2>3, <2>4, <2>5, <2>6 DEF NetworkOrMonitor, Submit, Mine, Import,
             monitorVars, ReadStartHeight, ReportBlockFails, MainRejected, vars, Resolved
<1>3. ASSUME NEW t \in Thread, Send(t) PROVE [NetworkOrMonitor \/ Submit]_vars /\ script' = script
  BY <1>3 DEF Send, scriptVars
<1>4. ASSUME NEW t \in Thread, SendFails(t) PROVE ExitSound'
  BY <1>4 DEF SendFails, scriptVars, ExitSound, Resolved
<1>7. ASSUME NEW k \in 0..Supply, PostprocessRejected(k) PROVE ExitSound'
  BY <1>7 DEF PostprocessRejected, ExitSound, Resolved
<1>5. CASE MonitorStep
  BY <1>2, <1>5 DEF MonitorStep, scriptVars
<1>6. CASE MonitorExits
  BY <1>1, <1>6 DEF MonitorExits
<1> QED BY <1>1, <1>2, <1>3, <1>4, <1>5, <1>6, <1>7 DEF RoundNext, CopyLog, SleepEnds,
           PostprocessWrites, PostprocessFails, allVars, vars, ExitSound

\* A factor can be cancelled.
LEMMA Products ==
  ASSUME NEW a \in Nat, NEW b \in Nat, NEW d \in Nat \ {0}, a < b
  PROVE  a * d \in Nat /\ b * d \in Nat /\ a * d < b * d
<1>1. a * d \in Nat /\ b * d \in Nat
  OBVIOUS
<1>2. PICK c \in Nat : b = a + 1 + c
  <2>1. b - a - 1 \in Nat /\ b = a + 1 + (b - a - 1)
    OBVIOUS
  <2> QED BY <2>1
<1>3. b * d = a * d + d + c * d
  BY <1>2
<1>4. c * d \in Nat
  BY <1>2
<1> QED BY <1>1, <1>3, <1>4

\* A thread has something to send, no thread's share is more than the load, and with more than
\* one thread it is less.
LEMMA ThreadLoad ==
  ASSUME setting \in Settings
  PROVE  /\ ThreadRate \in Nat \ {0} /\ ThreadRate * Duration \in Nat
         /\ ThreadRate * Duration <= Target
         /\ ThreadRate * Duration = Target => setting.thread_num = 1
<1> DEFINE n == setting.thread_num
<1>1. n \in 1..Rate /\ Rate \in Nat \ {0} /\ Duration \in Nat \ {0} /\ Target = Rate * Duration
  BY RoundAssumption
<1>2. ThreadRate = Rate \div n
  BY DEF ThreadRate
<1> HIDE DEF n
<1>3. PICK r \in Nat : r = Rate \div n
  BY <1>1
<1>4. r * n <= Rate /\ r # 0
  BY <1>1, <1>3
<1>5. CASE n = 1
  BY <1>1, <1>2, <1>3, <1>5 DEF n
<1>6. CASE n # 1
  <2>1. PICK c \in Nat : n = 2 + c
    <3>1. n - 2 \in Nat /\ n = 2 + (n - 2)
      BY <1>1, <1>6
    <3> QED BY <3>1
  <2>2. r * n = r + r + r * c /\ r * c \in Nat
    BY <1>3, <2>1
  <2>3. r < Rate
    BY <1>1, <1>3, <1>4, <2>2
  <2>4. r * Duration \in Nat /\ r * Duration < Rate * Duration /\ Rate * Duration \in Nat
    BY <1>1, <1>3, <2>3, Products
  <2> QED BY <1>1, <1>2, <1>3, <2>4
<1> QED BY <1>5, <1>6

\* Every step keeps the types.
LEMMA RoundTypeStep ==
  RoundTypeOK /\ IInv /\ ExitSound /\ FinalSound /\ [RoundNext]_allVars => RoundTypeOK' /\ FinalSound'
<1> SUFFICES ASSUME RoundTypeOK, IInv, ExitSound, FinalSound, [RoundNext]_allVars
             PROVE  RoundTypeOK' /\ FinalSound'
  OBVIOUS
<1>1. TypeOK'
  BY MonitorStepInRound DEF IInv
<1>2. setting' = setting
  BY DEF RoundNext, Send, SendFails, MonitorStep, MonitorExits, CopyLog, SleepEnds, PostprocessWrites,
         PostprocessFails, PostprocessRejected, allVars, loadVars
<1>3. next' \in [Thread' -> 0..Target] /\ accepted' \in Seq(Nat)
  <2>1. Thread' = Thread
    BY <1>2 DEF Thread
  <2>2. ThreadRate * Duration \in Nat /\ ThreadRate * Duration <= Target /\ Target \in Nat
    BY ThreadLoad, LoadAssumption DEF RoundTypeOK
  <2>3. \A t \in Thread : NextTx(t) \in Nat
    BY DEF NextTx, Slice, RoundTypeOK
  <2>4. ASSUME NEW t \in Thread, Send(t) \/ SendFails(t)
        PROVE  next' \in [Thread -> 0..Target] /\ accepted' \in Seq(Nat)
    <3>1. next[t] + 1 \in 0..Target /\ next' = [next EXCEPT ![t] = next[t] + 1]
      BY <2>2, <2>4 DEF Send, SendFails, RoundTypeOK
    <3>2. next' \in [Thread -> 0..Target]
      BY <3>1 DEF RoundTypeOK
    <3>3. accepted' = accepted \/ accepted' = Append(accepted, NextTx(t))
      BY <2>4 DEF Send, SendFails
    <3>4. accepted \in Seq(Nat) /\ NextTx(t) \in Nat
      BY <2>3 DEF RoundTypeOK
    <3>5. accepted' \in Seq(Nat)
      BY <3>3, <3>4
    <3> QED BY <3>2, <3>5
  <2> QED BY <2>1, <2>4 DEF RoundNext, MonitorStep, MonitorExits, CopyLog, SleepEnds, PostprocessWrites,
             PostprocessFails, PostprocessRejected, allVars, loadVars, RoundTypeOK
<1>4. /\ script' \in {"monitor", "copy", "postprocess", "written", "failed", "rejected"}
      /\ copies' \in [Node -> {"none", "partial", "whole"}]
      /\ readWhole' \subseteq Node
  BY DEF RoundNext, Send, SendFails, MonitorStep, MonitorExits, CopyLog, SleepEnds, PostprocessWrites,
         PostprocessFails, PostprocessRejected, allVars, scriptVars, RoundTypeOK, WholeCopies
<1>5. ASSUME NEW k \in 0..Supply, PostprocessWrites(k)
      PROVE  /\ script' = "written" /\ DOMAIN final' \subseteq DOMAIN report'
             /\ \A b \in DOMAIN final' : final'[b] \subseteq 1..Supply
  <2>1. sent \in 0..Supply /\ Supply \in Nat
    BY LoadAssumption DEF RoundTypeOK, TypeOK
  <2>2. SubmitLines(k) \subseteq 1..Supply
    BY <2>1 DEF SubmitLines
  <2>3. final' = [b \in Kept |-> TxsOf(b) \cap SubmitLines(k)] /\ report' = report
    BY <1>5 DEF PostprocessWrites, vars
  <2>4. Kept \subseteq DOMAIN report
    BY DEF Kept
  <2> QED BY <1>5, <2>2, <2>3, <2>4 DEF PostprocessWrites
<1>6. ASSUME final' = final, script' = script \/ script' # "written"
      PROVE  /\ script' # "written" => final' = << >>
             /\ DOMAIN final' \subseteq DOMAIN report'
             /\ \A b \in DOMAIN final' : final'[b] \subseteq 1..Supply
  <2>1. script # "written" => final = << >>
    BY DEF FinalSound
  <2>2. CASE script = "written"
    <3>1. pc = "done"
      BY <2>2 DEF ExitSound
    <3>2. report' = report
      BY <3>1 DEF RoundNext, Send, SendFails, MonitorStep, MonitorExits, CopyLog, SleepEnds,
                  PostprocessWrites, PostprocessFails, PostprocessRejected, NetworkOrMonitor, Submit,
                  Mine, Import, monitorVars, ReadStartHeight, ReadStartBalance, StartPoll,
                  PollHeight, PollBalance, PollTail, PollRejected, ReportBlock, ReportBlockFails,
                  MainRejected, vars, allVars
    <3>3. script' = "written"
      BY <2>2 DEF RoundNext, Send, SendFails, MonitorStep, MonitorExits, CopyLog, SleepEnds,
                  PostprocessWrites, PostprocessFails, PostprocessRejected, allVars, scriptVars
    <3> QED BY <1>6, <3>2, <3>3 DEF RoundTypeOK
  <2>3. CASE script # "written"
    <3>1. DOMAIN << >> = {}
      OBVIOUS
    <3> QED BY <1>6, <2>1, <2>3, <3>1
  <2> QED BY <2>2, <2>3
<1>7. \/ final' = final /\ (script' = script \/ script' # "written")
      \/ \E k \in 0..Supply : PostprocessWrites(k)
  BY DEF RoundNext, Send, SendFails, MonitorStep, MonitorExits, CopyLog, SleepEnds, PostprocessFails,
         PostprocessRejected, allVars, scriptVars
<1> QED BY <1>1, <1>2, <1>3, <1>4, <1>5, <1>6, <1>7 DEF RoundTypeOK, FinalSound

\* A transaction that is taken is new, and below the share of the thread that sends it.
LEMMA LoadStep == RoundTypeOK /\ LoadSound /\ [RoundNext]_allVars => LoadSound'
<1> SUFFICES ASSUME RoundTypeOK, LoadSound, [RoundNext]_allVars PROVE LoadSound'
  OBVIOUS
<1>1. ThreadRate' = ThreadRate
  BY DEF RoundNext, Send, SendFails, MonitorStep, MonitorExits, CopyLog, SleepEnds, PostprocessWrites,
         PostprocessFails, PostprocessRejected, allVars, loadVars, ThreadRate
<1>2. CASE UNCHANGED <<sent, accepted>>
  BY <1>1, <1>2 DEF LoadSound
<1>3. ASSUME NEW t \in Thread, Send(t), Fresh(NextTx(t)) PROVE LoadSound'
  <2> DEFINE tx == NextTx(t)
  <2>1. /\ sent' = sent + 1 /\ accepted' = Append(accepted, tx)
        /\ ~Contains(accepted, tx) /\ next[t] < ThreadRate * Duration
    BY <1>3 DEF Send, Submit, Fresh
  <2>2. tx = next[t] /\ tx \in Nat /\ ThreadRate * Duration \in Nat
    BY ThreadLoad DEF NextTx, Slice, RoundTypeOK
  <2> HIDE DEF tx
  <2>3. tx \in 0..ThreadRate * Duration - 1
    BY <2>1, <2>2
  <2>4. accepted \in Seq(Nat) /\ Len(accepted) \in Nat
    BY DEF RoundTypeOK
  <2>5. \A k \in 1..Len(accepted) : accepted[k] # tx
    BY <2>1 DEF Contains
  <2>6. /\ Len(accepted') = Len(accepted) + 1
        /\ accepted'[Len(accepted) + 1] = tx
        /\ \A k \in 1..Len(accepted) : accepted'[k] = accepted[k]
    BY <2>1, <2>2, <2>4
  <2>7. \A k \in 1..Len(accepted') : k \in 1..Len(accepted) \/ k = Len(accepted) + 1
    BY <2>4, <2>6
  <2>8. \A j, k \in 1..Len(accepted') : accepted'[j] = accepted'[k] => j = k
    BY <2>5, <2>6, <2>7 DEF LoadSound
  <2>9. \A k \in 1..Len(accepted') : accepted'[k] \in 0..ThreadRate * Duration - 1
    BY <2>3, <2>6, <2>7 DEF LoadSound
  <2> QED BY <1>1, <2>1, <2>6, <2>8, <2>9 DEF LoadSound
<1>4. ASSUME NEW t \in Thread, Send(t), ~Fresh(NextTx(t)) PROVE UNCHANGED <<sent, accepted>>
  BY <1>4 DEF Send, vars
<1> QED BY <1>2, <1>3, <1>4 DEF RoundNext, SendFails, MonitorStep, MonitorExits, CopyLog, SleepEnds,
           PostprocessWrites, PostprocessFails, PostprocessRejected, NetworkOrMonitor, Mine, Import,
           ReadStartHeight, ReadStartBalance, StartPoll, PollHeight, PollBalance, PollTail,
           PollRejected, ReportBlock, ReportBlockFails, MainRejected, vars, allVars, loadVars, network

------------------------------------------------------------------------------
(***************************************************************************)
(* Post-processing.                                                        *)
(***************************************************************************)

\* Behind the exit of the monitor its report, range and verdict on late polls stay.
LEMMA ReportStays ==
  ASSUME TypeOK, ExitSound, script # "monitor", [RoundNext]_allVars
  PROVE  UNCHANGED <<pc, report, startBlock, endBlock, disturbed>>
<1>1. pc = "done" /\ ~ticking /\ \A p \in Poll : polls[p].stage = "none"
  BY DEF ExitSound, Resolved
<1> QED BY <1>1 DEF RoundNext, Send, SendFails, MonitorStep, MonitorExits, CopyLog, SleepEnds,
           PostprocessWrites, PostprocessFails, PostprocessRejected, NetworkOrMonitor, Submit, Mine,
           Import, monitorVars, ReadStartHeight, ReadStartBalance, StartPoll, PollHeight,
           PollBalance, PollTail, PollRejected, ReportBlock, ReportBlockFails, MainRejected, vars,
           allVars

\* Once main is released the whole load is sealed, and nothing else was submitted.
LEMMA AllSealed ==
  ASSUME IInv, Resolved
  PROVE  Balance = Target /\ sent = Target /\ Target \in Nat \ {0} /\ Supply = Target
<1>1. Balance \in Nat /\ sent \in 0..Supply /\ Balance <= sent
  BY BalanceType DEF IInv, TypeOK, ChainSound
<1>2. Balance >= startBalance + Target /\ startBalance \in Nat
  BY DEF IInv, StartSound, TypeOK
<1> QED BY <1>1, <1>2, RoundAssumption, LoadAssumption

\* With whole logs every transfer has its line.
LEMMA WholeLogs ==
  ASSUME RoundTypeOK, LoadSound, WholeCopies = Node, NEW k \in 0..Supply
  PROVE  SubmitLines(k) = 1..sent
<1>1. ASSUME NEW t \in 1..sent PROVE SubmittedTo(t) \in Node
  <2>1. ThreadRate \in Nat \ {0}
    BY ThreadLoad DEF RoundTypeOK
  <2>2. accepted[t] \in Nat
    BY DEF RoundTypeOK, LoadSound
  <2>3. accepted[t] % ThreadRate \in Nat
    BY <2>1, <2>2
  <2>4. (accepted[t] % ThreadRate) % NodeNum \in 0..NodeNum - 1
    BY <2>3, NodeNumAssumption
  <2> QED BY <2>4 DEF SubmittedTo, Node
<1> QED BY <1>1 DEF SubmitLines, WholeCopies

\* The transfers of a block are sealed ones, and there are some if its balance differs from
\* that of the block before it.
LEMMA BlockTxs ==
  ASSUME IInv, ChainOrdered, NEW b \in 0..Len(chain)
  PROVE  TxsOf(b) \subseteq 1..Balance /\ (TxsIn(b) # 0 <=> TxsOf(b) # {})
<1>1. Len(chain) \in Nat /\ Balance \in Nat /\ \A h \in 0..Len(chain) : BalanceAt(h) \in Nat
  BY BalanceType DEF IInv, TypeOK
<1>2. CASE b = 0
  BY <1>2 DEF TxsOf, TxsIn
<1>3. CASE b # 0
  <2>1. b - 1 \in 0..Len(chain) /\ b - 1 < b
    BY <1>1, <1>3
  <2>2. BalanceAt(b - 1) <= BalanceAt(b)
    BY <2>1 DEF ChainOrdered
  <2>3. BalanceAt(b) <= Balance
    BY <1>1, <1>3 DEF IInv, ChainSound, BalanceAt
  <2>4. TxsOf(b) = BalanceAt(b - 1) + 1..BalanceAt(b) /\ TxsIn(b) = BalanceAt(b) - BalanceAt(b - 1)
    BY <1>3 DEF TxsOf, TxsIn
  <2>5. PICK x, y \in Nat : x = BalanceAt(b - 1) /\ y = BalanceAt(b)
    BY <1>1, <2>1
  <2>6. x + 1..y \subseteq 1..Balance /\ (y - x # 0 <=> x + 1..y # {})
    <3>1. x <= y /\ y <= Balance
      BY <2>2, <2>3, <2>5
    <3>2. x + 1..y \subseteq 1..Balance
      BY <1>1, <3>1
    <3>3. CASE x = y
      BY <3>3
    <3>4. CASE x # y
      <4>1. y \in x + 1..y /\ y - x # 0
        BY <3>1, <3>4
      <4> QED BY <3>2, <4>1
    <3> QED BY <3>2, <3>3, <3>4
  <2> QED BY <2>4, <2>5, <2>6
<1> QED BY <1>2, <1>3

\* A report that is written has every transfer with a line in a whole log, in its block, and only
\* blocks with transactions.
LEMMA WritesExactly ==
  ASSUME RoundTypeOK, MonitorInv, LoadSound, ExitSound, NEW k \in 0..Supply, PostprocessWrites(k)
  PROVE  /\ \A t \in 1..Target : SubmittedTo(t) \in WholeCopies => \E b \in DOMAIN final' : t \in final'[b]
         /\ DOMAIN final' \subseteq DOMAIN report
         /\ \A b \in DOMAIN final' : final'[b] \subseteq TxsOf(b) /\ TxsOf(b) # {}
<1>1. IInv /\ ChainOrdered /\ ReportInChain
  BY DEF MonitorInv
<1>2. sent = Target
  BY <1>1, AllSealed DEF PostprocessWrites, ExitSound, Resolved
<1>3. final' = [b \in Kept |-> TxsOf(b) \cap SubmitLines(k)] /\ Kept \subseteq DOMAIN report
  BY DEF PostprocessWrites, Kept
<1>4. \A b \in DOMAIN report : b \in 0..Len(chain)
  BY <1>1, BalanceType DEF IInv, TypeOK, ReportInChain
<1>5. \A b \in DOMAIN report : b \in Kept <=> TxsOf(b) # {}
  BY <1>1, <1>4, BlockTxs DEF Kept
<1>6. ASSUME NEW t \in 1..Target, SubmittedTo(t) \in WholeCopies
      PROVE  \E b \in Kept : t \in final'[b]
  <2>1. t \in SubmitLines(k)
    BY <1>2, <1>6 DEF SubmitLines, WholeCopies
  <2>2. PICK b \in DOMAIN report : t \in TxsOf(b)
    BY <2>1 DEF PostprocessWrites, CanEnter
  <2> QED BY <1>3, <1>5, <2>1, <2>2
<1> QED BY <1>3, <1>5, <1>6

\* A written report stays exact: its blocks are sealed, and nothing is left to be submitted.
LEMMA WrittenStep ==
  RoundTypeOK /\ MonitorInv /\ LoadSound /\ ExitSound /\ WrittenReportExact /\ [RoundNext]_allVars
    => WrittenReportExact'
<1> SUFFICES ASSUME RoundTypeOK, MonitorInv, LoadSound, ExitSound, WrittenReportExact,
                    [RoundNext]_allVars, script' = "written"
             PROVE  /\ \A t \in 1..Target : SubmittedTo(t)' \in readWhole' =>
                                              \E b \in DOMAIN final' : t \in final'[b]
                    /\ \A b \in DOMAIN final' : final'[b] \subseteq TxsOf(b)' /\ TxsOf(b)' # {}
  BY DEF WrittenReportExact
<1>1. \A b \in DOMAIN report : b \in 0..Len(chain)
  BY BalanceType DEF MonitorInv, IInv, TypeOK, ReportInChain
<1>2. \A b \in DOMAIN report : TxsOf(b)' = TxsOf(b)
  BY <1>1, SealedStays DEF MonitorInv, IInv
<1>3. ASSUME NEW k \in 0..Supply, PostprocessWrites(k)
      PROVE  /\ \A t \in 1..Target : SubmittedTo(t)' \in readWhole' =>
                                       \E b \in DOMAIN final' : t \in final'[b]
             /\ \A b \in DOMAIN final' : final'[b] \subseteq TxsOf(b)' /\ TxsOf(b)' # {}
  <2>1. readWhole' = WholeCopies /\ \A t \in 1..Target : SubmittedTo(t)' = SubmittedTo(t)
    BY <1>3 DEF PostprocessWrites, loadVars, SubmittedTo, ThreadRate
  <2> QED BY <1>2, <1>3, <2>1, WritesExactly
<1>4. CASE script = "written" /\ UNCHANGED <<readWhole, final>>
  <2>1. sent = Supply
    BY <1>4, AllSealed DEF MonitorInv, ExitSound, Resolved
  <2>2. ~Submit
    BY <2>1, LoadAssumption DEF Submit
  <2>3. UNCHANGED <<setting, accepted>>
    BY <2>2 DEF RoundNext, Send, SendFails, MonitorStep, MonitorExits, CopyLog, SleepEnds,
           PostprocessWrites, PostprocessFails, PostprocessRejected, allVars, loadVars
  <2>4. \A t \in 1..Target : SubmittedTo(t)' = SubmittedTo(t)
    BY <2>3 DEF SubmittedTo, ThreadRate
  <2> QED BY <1>2, <1>4, <2>4 DEF WrittenReportExact, RoundTypeOK
<1> QED BY <1>3, <1>4 DEF RoundNext, Send, SendFails, MonitorStep, MonitorExits, CopyLog, SleepEnds,
           PostprocessFails, PostprocessRejected, allVars, scriptVars

\* A report that late polls left alone, for a range that covers the round, has an entry for
\* every transfer...
LEMMA CoveredTxsEnter ==
  ASSUME MonitorInv, pc = "done", ~disturbed, RangeCovers, NEW t \in 1..sent
  PROVE  CanEnter(t)
<1>1. Balance = Target /\ sent = Target /\ Target \in Nat \ {0}
  BY AllSealed DEF MonitorInv, Resolved
<1>2. PICK h \in 1..Len(chain) : t \in TxsOf(h)
  BY <1>1 DEF MonitorInv, ChainOrdered
<1>3. /\ Len(chain) \in Nat /\ \A g \in 0..Len(chain) : BalanceAt(g) \in Nat
      /\ startBlock \in Nat /\ endBlock \in 0..Len(chain)
  BY BalanceType DEF MonitorInv, IInv, TypeOK, RangeSound
<1>4. h - 1 \in 0..Len(chain) /\ h \in 0..Len(chain) /\ h # 0
  BY <1>3
<1>5. BalanceAt(h - 1) < t /\ t <= BalanceAt(h) /\ BalanceAt(endBlock) = Target /\ t <= Target
  BY <1>1, <1>2, <1>3, <1>4 DEF TxsOf, RangeCovers
<1>6. h <= endBlock
  <2>1. ASSUME endBlock < h PROVE FALSE
    <3>1. endBlock = h - 1 \/ endBlock < h - 1
      BY <1>3, <2>1
    <3>2. BalanceAt(endBlock) <= BalanceAt(h - 1)
      BY <1>3, <1>4, <3>1 DEF MonitorInv, ChainOrdered
    <3> QED BY <1>1, <1>3, <1>4, <1>5, <3>2
  <2> QED BY <1>3, <2>1
<1>7. startBlock <= h
  <2>1. ASSUME h < startBlock PROVE FALSE
    <3>1. startBlock # 0 /\ BalanceAt(startBlock - 1) = 0
      BY <1>3, <2>1 DEF RangeCovers
    <3>2. startBlock - 1 \in 0..Len(chain)
      BY <1>3, <3>1, ConsensusAssumption DEF MonitorInv, IInv, RaftStartSound, IBFTStartSound
    <3>3. h = startBlock - 1 \/ h < startBlock - 1
      BY <1>3, <2>1
    <3>4. BalanceAt(h) <= BalanceAt(startBlock - 1)
      BY <1>3, <1>4, <3>2, <3>3 DEF MonitorInv, ChainOrdered
    <3> QED BY <1>3, <1>4, <1>5, <3>1, <3>4
  <2> QED BY <1>3, <2>1
<1>8. DOMAIN report = startBlock..endBlock
  BY DEF MonitorInv, IInv, ReportSound, RowsComplete
<1> QED BY <1>2, <1>3, <1>6, <1>7, <1>8 DEF CanEnter

\* ... and, on Raft, an entry with every node's timestamp for every block of the chain.
LEMMA CoveredTimesAreSet ==
  ASSUME MonitorInv, pc = "done", ~disturbed, RangeCovers, Consensus = "raft",
         NEW j \in 1..Len(chain)
  PROVE  CanSetTime(j)
<1>1. Balance = Target /\ Target \in Nat \ {0}
  BY AllSealed DEF MonitorInv, Resolved
<1>2. /\ Len(chain) \in Nat /\ \A g \in 0..Len(chain) : BalanceAt(g) \in Nat
      /\ startBlock \in Nat /\ endBlock \in 0..Len(chain)
  BY BalanceType DEF MonitorInv, IInv, TypeOK, RangeSound
<1>3. \A g, h \in 0..Len(chain) : g < h => BalanceAt(g) < BalanceAt(h)
  BY DEF MonitorInv, ChainOrdered
<1>4. startBlock <= 1
  <2>1. ASSUME startBlock > 1 PROVE FALSE
    <3>1. startBlock - 1 \in 0..Len(chain) /\ 0 < startBlock - 1 /\ 0 \in 0..Len(chain)
      BY <1>2, <2>1 DEF MonitorInv, IInv, RaftStartSound
    <3>2. BalanceAt(0) < BalanceAt(startBlock - 1)
      BY <1>3, <3>1
    <3>3. BalanceAt(startBlock - 1) = 0
      BY <1>2, <2>1 DEF RangeCovers
    <3> QED BY <3>2, <3>3 DEF BalanceAt
  <2> QED BY <1>2, <2>1
<1>5. endBlock = Len(chain)
  <2>1. BalanceAt(endBlock) = Target /\ BalanceAt(Len(chain)) = Target
    BY <1>1 DEF RangeCovers, Balance
  <2>2. Len(chain) \in 0..Len(chain) /\ ~(BalanceAt(endBlock) < BalanceAt(Len(chain)))
    BY <1>1, <1>2, <2>1
  <2>3. ~(endBlock < Len(chain))
    BY <1>2, <1>3, <2>2
  <2> QED BY <1>2, <2>3
<1>6. RowsComplete(report, startBlock, endBlock)
  BY DEF MonitorInv, IInv, ReportSound
<1>7. j \in DOMAIN report /\ report[j] = [n \in 1..NodeNum |-> n - 1]
  <2>1. j \in startBlock..endBlock
    BY <1>2, <1>4, <1>5
  <2>2. j \in DOMAIN report
    BY <1>6, <2>1 DEF RowsComplete
  <2> QED BY <1>6, <2>2 DEF RowsComplete
<1>8. Len(report[j]) = NodeNum
  BY <1>7, NodeNumAssumption
<1> QED BY <1>7, <1>8 DEF CanSetTime

\* So only an uncovered range or a late poll makes post-processing fail on whole logs.
LEMMA FailedStep ==
  RoundTypeOK /\ MonitorInv /\ LoadSound /\ ExitSound /\ CoveredRoundIsWritten /\ [RoundNext]_allVars
    => CoveredRoundIsWritten'
<1> SUFFICES ASSUME RoundTypeOK, MonitorInv, LoadSound, ExitSound, CoveredRoundIsWritten,
                    [RoundNext]_allVars, script' = "failed", readWhole' = Node
             PROVE  ~RangeCovers' \/ disturbed'
  BY DEF CoveredRoundIsWritten
<1>1. ASSUME NEW k \in 0..Supply, PostprocessFails(k), RangeCovers, ~disturbed PROVE FALSE
  <2>1. WholeCopies = Node
    BY <1>1 DEF PostprocessFails
  <2>2. pc = "done"
    BY <1>1 DEF PostprocessFails, ExitSound
  <2>3. SubmitLines(k) = 1..sent
    BY <2>1, WholeLogs
  <2>4. \A t \in SubmitLines(k) : CanEnter(t)
    BY <1>1, <2>2, <2>3, CoveredTxsEnter
  <2>5. MinedLines(k) = IF Consensus = "raft" THEN Len(chain) ELSE 0
    BY <2>1, RoundAssumption DEF MinedLines, WholeCopies
  <2>6. \A j \in 1..MinedLines(k) : CanSetTime(j)
    BY <1>1, <2>2, <2>5, CoveredTimesAreSet
  <2> QED BY <1>1, <2>1, <2>4, <2>6 DEF PostprocessFails
<1>2. CASE script = "failed" /\ readWhole' = readWhole
  <2>1. UNCHANGED <<pc, report, startBlock, endBlock, disturbed>> /\ pc = "done"
    BY <1>2, ReportStays DEF RoundTypeOK, ExitSound
  <2>2. PICK s, e \in Nat : s = startBlock /\ e = endBlock
    BY DEF MonitorInv, IInv, TypeOK
  <2>3. e \in 0..Len(chain) /\ (s = 0 \/ s - 1 \in 0..Len(chain))
    BY <2>1, <2>2, BalanceType, ConsensusAssumption
    DEF MonitorInv, IInv, TypeOK, RangeSound, RaftStartSound, IBFTStartSound
  <2>4. BalanceAt(e)' = BalanceAt(e) /\ (s # 0 => BalanceAt(s - 1)' = BalanceAt(s - 1))
    BY <2>3, SealedStays DEF RoundTypeOK
  <2>5. RangeCovers' <=> RangeCovers
    BY <2>1, <2>2, <2>4 DEF RangeCovers
  <2> QED BY <1>2, <2>1, <2>5 DEF CoveredRoundIsWritten
<1>3. ASSUME NEW k \in 0..Supply, PostprocessFails(k) PROVE ~RangeCovers' \/ disturbed'
  <2>1. (RangeCovers' <=> RangeCovers) /\ disturbed' = disturbed
    BY <1>3 DEF PostprocessFails, vars, RangeCovers, BalanceAt
  <2> QED BY <1>1, <1>3, <2>1
<1> QED BY <1>2, <1>3 DEF RoundNext, Send, SendFails, MonitorStep, MonitorExits, CopyLog, SleepEnds,
           PostprocessWrites, PostprocessRejected, allVars, scriptVars

------------------------------------------------------------------------------
(***************************************************************************)
(* The invariant of the round, and what follows from it.                   *)
(***************************************************************************)

\* A round starts in it.
LEMMA RoundInvInit == RoundInit => RoundInv
<1> SUFFICES ASSUME RoundInit PROVE RoundInv
  OBVIOUS
<1>1. IInv /\ TypeOK
  BY InvInit DEF RoundInit, IInv
<1>2. chain = << >> /\ report = << >> /\ Len(chain) = 0 /\ Balance = 0
  BY DEF RoundInit, Init, Balance, BalanceAt
<1>3. DOMAIN << >> = {}
  OBVIOUS
<1>4. MonitorInv
  BY <1>1, <1>2, <1>3 DEF MonitorInv, ChainOrdered, ReportInChain
<1>5. next \in [Thread -> 0..Target]
  BY LoadAssumption DEF RoundInit
<1>6. accepted \in Seq(Nat) /\ Len(accepted) = 0 /\ sent = 0
  BY DEF RoundInit, Init
<1>7. RoundTypeOK
  BY <1>1, <1>3, <1>5, <1>6 DEF RoundInit, RoundTypeOK
<1>8. LoadSound
  BY <1>6 DEF LoadSound
<1>9. ExitSound
  BY DEF RoundInit, Init, ExitSound, Resolved
<1> QED BY <1>4, <1>7, <1>8, <1>9
        DEF RoundInit, RoundInv, FinalSound, WrittenReportExact, CoveredRoundIsWritten

\* Every step of the workload, the network, the monitor and the script preserves it.
LEMMA RoundInvStep == RoundInv /\ [RoundNext]_allVars => RoundInv'
<1> SUFFICES ASSUME RoundInv, [RoundNext]_allVars PROVE RoundInv'
  OBVIOUS
<1>1. TypeOK /\ IInv
  BY DEF RoundInv, MonitorInv, IInv
<1>2. MonitorInv'
  BY MonitorInvStep DEF RoundInv
<1>3. RoundTypeOK' /\ FinalSound'
  BY <1>1, RoundTypeStep DEF RoundInv
<1>4. LoadSound'
  BY LoadStep DEF RoundInv
<1>5. ExitSound'
  BY <1>1, ExitStep DEF RoundInv
<1>6. WrittenReportExact' /\ CoveredRoundIsWritten'
  BY WrittenStep, FailedStep DEF RoundInv
<1> QED BY <1>2, <1>3, <1>4, <1>5, <1>6 DEF RoundInv

\* So it holds of every round.
LEMMA RoundInvariance == RoundSpec => []RoundInv
BY RoundInvInit, RoundInvStep, PTL DEF RoundSpec

\* The variables of the workload, the monitor and the script keep their types.
THEOREM RoundTypeCorrect == RoundSpec => []RoundTypeOK
BY RoundInvariance, PTL DEF RoundInv

\* A list of distinct numbers below m has at most m members, and all of them if it has m.
LEMMA DistinctBelow ==
  ASSUME NEW s \in Seq(Nat), NEW m \in Nat,
         \A j, k \in 1..Len(s) : s[j] = s[k] => j = k,
         \A k \in 1..Len(s) : s[k] \in 0..m - 1
  PROVE  Len(s) <= m /\ (Len(s) = m => ToSet(s) = 0..m - 1)
<1>1. Len(s) \in Nat /\ DOMAIN s = 1..Len(s)
  OBVIOUS
<1>2. /\ IsFiniteSet(0..m - 1) /\ Cardinality(0..m - 1) = m
      /\ IsFiniteSet(1..Len(s)) /\ Cardinality(1..Len(s)) = Len(s)
  <2>1. /\ IsFiniteSet(0..m - 1) /\ Cardinality(0..m - 1) = IF 0 > m - 1 THEN 0 ELSE m - 1 - 0 + 1
        /\ IsFiniteSet(1..Len(s)) /\ Cardinality(1..Len(s)) = IF 1 > Len(s) THEN 0 ELSE Len(s) - 1 + 1
    <3>1. 0 \in Int /\ m - 1 \in Int /\ 1 \in Int /\ Len(s) \in Int
      BY <1>1
    <3> QED BY <3>1, FS_Interval
  <2>2. (IF 0 > m - 1 THEN 0 ELSE m - 1 - 0 + 1) = m
    BY <1>1
  <2>3. (IF 1 > Len(s) THEN 0 ELSE Len(s) - 1 + 1) = Len(s)
    BY <1>1
  <2> QED BY <2>1, <2>2, <2>3
<1>3. ASSUME NEW T, IsFiniteSet(T), \A k \in 1..Len(s) : s[k] \in T PROVE ~(Cardinality(T) < Len(s))
  <2> DEFINE f == [k \in 1..Len(s) |-> s[k]]
  <2>1. f \in [1..Len(s) -> T] /\ \A j, k \in 1..Len(s) : f[j] = f[k] => j = k
    BY <1>3
  <2> HIDE DEF f
  <2>2. SUFFICES ASSUME Cardinality(T) < Cardinality(1..Len(s)) PROVE FALSE
    BY <1>2
  <2>3. \E j, k \in 1..Len(s) : j # k /\ f[j] = f[k]
    BY <1>2, <1>3, <2>1, <2>2, FS_PigeonHole
  <2> QED BY <2>1, <2>3
<1>4. Len(s) <= m
  BY <1>1, <1>2, <1>3
<1>5. ASSUME Len(s) = m, NEW t \in 0..m - 1 PROVE \E k \in 1..Len(s) : s[k] = t
  <2> DEFINE T == (0..m - 1) \ {t}
  <2>1. IsFiniteSet(T) /\ Cardinality(T) = m - 1
    BY <1>2, FS_RemoveElement
  <2>2. Cardinality(T) < Len(s)
    BY <1>1, <1>5, <2>1
  <2>3. ~\A k \in 1..Len(s) : s[k] \in T
    BY <1>3, <2>1, <2>2
  <2> QED BY <2>3
<1>6. Len(s) = m => ToSet(s) = 0..m - 1
  <2> SUFFICES ASSUME Len(s) = m PROVE ToSet(s) = 0..m - 1
    OBVIOUS
  <2>1. ToSet(s) = {s[k] : k \in 1..Len(s)}
    BY <1>1 DEF ToSet
  <2> QED BY <1>5, <2>1
<1> QED BY <1>4, <1>6

\* The monitor releases the script only if one thread ran and the whole list of the round was
\* taken: any other load makes it wait for ever.
THEOREM ReturnedLoad == RoundSpec => []ReturnedLoadIsWhole
<1>1. RoundInv => ReturnedLoadIsWhole
  <2> SUFFICES ASSUME RoundInv, Resolved
               PROVE  setting.thread_num = 1 /\ ToSet(accepted) = 0..Target - 1
    BY DEF ReturnedLoadIsWhole
  <2>1. sent = Target /\ Target \in Nat
    BY AllSealed DEF RoundInv, MonitorInv
  <2>2. PICK m \in Nat : m = ThreadRate * Duration /\ m <= Target /\ (m = Target => setting.thread_num = 1)
    BY ThreadLoad DEF RoundInv, RoundTypeOK
  <2>3. /\ accepted \in Seq(Nat) /\ Len(accepted) = Target
        /\ \A j, k \in 1..Len(accepted) : accepted[j] = accepted[k] => j = k
        /\ \A k \in 1..Len(accepted) : accepted[k] \in 0..m - 1
    BY <2>1, <2>2 DEF RoundInv, RoundTypeOK, LoadSound
  <2>4. Len(accepted) <= m /\ (Len(accepted) = m => ToSet(accepted) = 0..m - 1)
    BY <2>3, DistinctBelow
  <2>5. m = Target
    BY <2>1, <2>2, <2>3, <2>4
  <2> QED BY <2>2, <2>3, <2>4, <2>5
<1> QED BY <1>1, RoundInvariance, PTL

\* A written report has every transaction that a whole log names, in its block, and no block
\* without transactions, wherever the copies were when they were read.
THEOREM WrittenReportsAreExact == RoundSpec => []WrittenReportExact
BY RoundInvariance, PTL DEF RoundInv

\* On Raft the range covers the round if the poll that met its last block left it alone: it starts
\* low enough as it is.
LEMMA RaftRangeCovers ==
  ASSUME RoundInv, Resolved, ~disturbed, Consensus = "raft"
  PROVE  RangeCovers \/ (Unpolled(Len(chain)) /\ BalanceAt(Len(chain)) = Target /\ Len(chain) # 0)
<1>1. IInv /\ TypeOK /\ ChainOrdered
  BY DEF RoundInv, MonitorInv, IInv
<1>2. Balance = Target /\ Target \in Nat \ {0} /\ Supply = Target
  BY <1>1, AllSealed
<1>3. /\ Len(chain) \in Nat /\ endBlock \in Nat /\ endBlock <= Len(chain)
      /\ startBalance \in Nat /\ Balance >= startBalance + Target
      /\ \A h \in 0..Len(chain) : BalanceAt(h) \in Nat
  BY <1>1, BalanceType DEF IInv, TypeOK, RangeSound, StartSound
<1>4. startBalance = 0
  BY <1>2, <1>3
<1>5. BalanceAt(Len(chain)) = Target /\ Len(chain) # 0
  BY <1>2 DEF Balance, BalanceAt
<1>6. TxsIn(Len(chain)) # 0
  <2>1. Len(chain) - 1 \in 0..Len(chain) /\ Len(chain) \in 0..Len(chain) /\ Len(chain) - 1 < Len(chain)
    BY <1>3, <1>5
  <2>2. BalanceAt(Len(chain) - 1) < BalanceAt(Len(chain))
    BY <1>1, <2>1 DEF ChainOrdered
  <2> QED BY <1>3, <1>5, <2>1, <2>2 DEF TxsIn
<1>7. ASSUME Len(chain) \in polled PROVE RangeCovers
  <2>1. Len(chain) <= endBlock
    BY <1>1, <1>2, <1>4, <1>5, <1>7 DEF IInv, LastSound
  <2>2. endBlock = Len(chain)
    BY <1>3, <2>1
  <2>3. BalanceAt(startBlock - 1) = 0
    BY <1>1, <1>2, NothingIsBelowStart DEF NothingBelowStart
  <2> QED BY <1>5, <2>2, <2>3 DEF RangeCovers
<1> QED BY <1>3, <1>5, <1>6, <1>7 DEF Unpolled

\* With polls that take turns it covers the round if they met all its blocks.
LEMMA TurnRangeCovers ==
  ASSUME RoundInv, Resolved, ~overlapped, \A h \in 1..Len(chain) : ~Unpolled(h)
  PROVE  RangeCovers
<1>1. IInv /\ TypeOK /\ ChainOrdered
  BY DEF RoundInv, MonitorInv, IInv
<1>2. Balance = Target /\ Target \in Nat \ {0} /\ Supply = Target
  BY <1>1, AllSealed
<1>3. /\ Len(chain) \in Nat /\ startBlock \in Nat /\ endBlock \in Nat /\ endBlock <= Len(chain)
      /\ \A h \in 0..Len(chain) : BalanceAt(h) \in Nat
  BY <1>1, BalanceType DEF IInv, TypeOK, RangeSound
<1>4. ASSUME NEW t \in 1..Target
      PROVE  \E h \in 1..Len(chain) : /\ BalanceAt(h - 1) < t /\ t <= BalanceAt(h)
                                      /\ startBlock <= h /\ h <= endBlock
  <2>1. PICK h \in 1..Len(chain) : t \in TxsOf(h)
    BY <1>1, <1>2 DEF ChainOrdered
  <2>2. h \in 0..Len(chain) /\ h - 1 \in 0..Len(chain) /\ h # 0
    BY <1>3
  <2>3. BalanceAt(h - 1) < t /\ t <= BalanceAt(h)
    BY <1>3, <2>1, <2>2 DEF TxsOf
  <2>4. TxsIn(h) # 0
    BY <1>1, <2>1, <2>2, BlockTxs
  <2>5. h \in polled
    BY <2>4 DEF Unpolled
  <2>6. h \in startBlock..endBlock
    BY <1>1, <1>2, <2>5, PolledInRange DEF PolledBlocksAreInRange
  <2> QED BY <1>3, <2>3, <2>6
<1>5. \A g, h \in 0..Len(chain) : g <= h => BalanceAt(g) <= BalanceAt(h)
  BY <1>1 DEF IInv, ChainSound
<1>6. BalanceAt(endBlock) = Target
  <2>1. PICK h \in 1..Len(chain) : Target <= BalanceAt(h) /\ h <= endBlock
    BY <1>2, <1>4
  <2>2. h \in 0..Len(chain) /\ endBlock \in 0..Len(chain) /\ Len(chain) \in 0..Len(chain)
    BY <1>3
  <2>3. BalanceAt(h) <= BalanceAt(endBlock) /\ BalanceAt(endBlock) <= BalanceAt(Len(chain))
    BY <1>3, <1>5, <2>1, <2>2
  <2>4. BalanceAt(Len(chain)) = Target
    BY <1>2 DEF Balance
  <2> QED BY <1>2, <1>3, <2>1, <2>2, <2>3, <2>4
<1>7. ASSUME startBlock # 0 PROVE BalanceAt(startBlock - 1) = 0
  <2>1. PICK h \in 1..Len(chain) : BalanceAt(h - 1) < 1 /\ startBlock <= h
    BY <1>2, <1>4
  <2>2. /\ h - 1 \in 0..Len(chain) /\ startBlock - 1 \in 0..Len(chain)
        /\ startBlock - 1 <= h - 1
    BY <1>3, <1>7, <2>1
  <2>3. BalanceAt(startBlock - 1) <= BalanceAt(h - 1)
    BY <1>5, <2>2
  <2> QED BY <1>3, <2>1, <2>2, <2>3
<1> QED BY <1>6, <1>7 DEF RangeCovers

\* When no call is rejected, post-processing fails on whole logs only because a late poll moved
\* the range, or because the polls passed over a block: the one that completes the round, or, on
\* IBFT, any one, unless they overlapped.
THEOREM PolledRoundsAreWritten == RoundSpec => []PolledRoundIsWritten
<1>1. RoundInv => PolledRoundIsWritten
  <2> SUFFICES ASSUME RoundInv, script = "failed", readWhole = Node, ~disturbed
               PROVE  \/ /\ Consensus = "quorum"
                         /\ overlapped \/ \E h \in 1..Len(chain) : Unpolled(h)
                      \/ \E h \in 1..Len(chain) : Unpolled(h) /\ BalanceAt(h) = Target
    BY DEF PolledRoundIsWritten
  <2>1. Resolved /\ ~RangeCovers
    BY DEF RoundInv, ExitSound, Resolved, CoveredRoundIsWritten
  <2>2. CASE Consensus = "raft"
    <3>1. Unpolled(Len(chain)) /\ BalanceAt(Len(chain)) = Target
      BY <2>1, <2>2, RaftRangeCovers
    <3> QED BY <3>1 DEF Unpolled
  <2>3. CASE Consensus = "quorum"
    BY <2>1, <2>3, TurnRangeCovers
  <2> QED BY <2>2, <2>3, ConsensusAssumption
<1> QED BY <1>1, RoundInvariance, PTL

\* What is proved of the monitor alone holds beside workload threads whose calls fail and beside
\* the script: it never declares a round over too early, ...
THEOREM RoundCompletionIsSound == RoundSpec => []CompletionSound
<1>1. RoundInv => CompletionSound
  BY AllSealed, LoadAssumption DEF RoundInv, MonitorInv, CompletionSound
<1> QED BY <1>1, RoundInvariance, PTL

\* ... its report starts low enough, ...
THEOREM RoundReportStartsLowEnough == RoundSpec => []NothingBelowStart
<1>1. RoundInv => NothingBelowStart
  BY NothingIsBelowStart DEF RoundInv, MonitorInv
<1> QED BY <1>1, RoundInvariance, PTL

\* ... no block of node 0 ends it, ...
THEOREM RoundNodeZeroIsSafe == RoundSpec => NodeZeroRowNeverFails
<1>1. RoundInv /\ [RoundNext]_allVars =>
        [pc = "report" /\ pc' = "failed" /\ UNCHANGED failures => node # 0]_vars
  <2> SUFFICES ASSUME RoundInv, [RoundNext]_allVars, pc = "report", pc' = "failed"
               PROVE  UNCHANGED failures => node # 0
    OBVIOUS
  <2>1. TypeOK /\ IInv
    BY DEF RoundInv, MonitorInv, IInv
  <2>2. pc' # pc
    OBVIOUS
  <2>3. [Next]_vars
    BY <2>1, <2>2, RoundSteps DEF unfailing
  <2>4. ~UNCHANGED vars
    BY <2>2 DEF vars
  <2> QED BY <2>1, <2>3, <2>4, NodeZeroStep
<1> QED BY <1>1, RoundInvariance, PTL DEF RoundSpec, NodeZeroRowNeverFails

\* ... and the rows of its report are right.
THEOREM RoundReportRows == RoundSpec => []ReportRows
<1>1. RoundInv => ReportRows
  BY DEF RoundInv, MonitorInv, IInv, ReportSound, ReportRows
<1> QED BY <1>1, RoundInvariance, PTL

\* A round implements the abstract detection of its end: a call of the workload that fails is a
\* step the abstract specification does not see.
THEOREM RoundImplementsDetection == RoundSpec => DetectionSpec
<1>1. RoundInit => Detection!Init
  BY DEF RoundInit, Init, Detection!Init, Balance, BalanceAt, Resolved
<1>2. RoundInv /\ [RoundNext]_allVars => [Detection!Next]_(Detection!vars)
  <2> SUFFICES ASSUME RoundInv, [RoundNext]_allVars PROVE [Detection!Next]_(Detection!vars)
    OBVIOUS
  <2>1. TypeOK /\ IInv
    BY DEF RoundInv, MonitorInv, IInv
  <2>2. ASSUME UNCHANGED unfailing PROVE UNCHANGED Detection!vars
    BY <2>2 DEF unfailing, Detection!vars, Balance, BalanceAt, Resolved
  <2> QED BY <2>1, <2>2, RoundSteps, DetectionStep
<1> QED BY <1>1, <1>2, RoundInvariance, PTL DEF RoundSpec, DetectionSpec, Detection!Spec

==============================================================================
