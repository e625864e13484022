----------------------------- MODULE Stellar_proofs -----------------------------
(***************************************************************************)
(* What a round on a Stellar network guarantees for every number of nodes, *)
(* callbacks in flight, ledgers and transactions: the monitor never ends   *)
(* it early, its file has no gap although callbacks walk the ledgers side  *)
(* by side and move the end under each other, no transaction of an earlier *)
(* round enters the report, and callbacks that do not overlap and see      *)
(* every ledger with transactions lead to a complete one.                  *)
(*                                                                         *)
(* And of what there is to send, for every number of accounts, batches and *)
(* threads: an account is missing only behind a request that went wrong,   *)
(* and without one the threads pay what the monitor waits for.             *)
(***************************************************************************)
EXTENDS StellarRound, StellarLoad, FiniteSetTheorems, TLAPS

(***************************************************************************)
(* The inductive invariant.                                                *)
(***************************************************************************)

\* There is a ledger, every transfer that is sealed is in one, there are no more than the
\* workload has, and no node is ahead of node 0.
LedgersSound ==
  /\ Len(chain) >= 1
  /\ Balance <= Supply
  /\ \A t \in 1..Balance : \E h \in 1..Len(chain) : t \in TxsOf(h)
  /\ \A j \in Node \ {0} : imported[j] <= Len(chain)

\* What a callback has read was true of the chain when it was read.
PollsSound ==
  \A p \in Poll : /\ polls[p].stage \in {"balance", "tail"} => polls[p].height \in 1..Len(chain)
                  /\ polls[p].balance <= Balance

\* The first ledger is set once; the interval is set after the start balance is read and cleared
\* after the file is written, which a callback does only at the end of a round.
StartSound ==
  /\ startBalance <= Balance
  /\ firstLedger <=> startLedger = 0
  /\ endLedger # 0 => Balance >= startBalance + Target
  /\ file # << >> => endLedger # 0
  /\ pc # "polling" => /\ ~ticking /\ file = << >> /\ endLedger = 0
                       /\ \A p \in Poll : polls[p].stage = "none"
  /\ pc = "polling" => ticking \/ file # << >>
  /\ pc = "exited" => failures # 0

\* A callback walks ledgers it has left none out of, from the start ledger on; one that began
\* when none was set waits for a ledger 0 that nobody has.
WalkSound ==
  \A p \in Poll : polls[p].stage = "report" =>
    /\ endLedger # 0
    /\ \/ polls[p].ledger = 0
       \/ /\ startLedger # 0 /\ startLedger <= polls[p].ledger
          /\ startLedger..polls[p].ledger - 1 \subseteq report

\* The ledgers of a report, from the start ledger on, without a gap.
NoGap(ledgers) == \A h \in ledgers : startLedger # 0 /\ startLedger <= h /\ startLedger..h \subseteq ledgers

GapsSound == NoGap(report) /\ \A k \in 1..Len(file) : NoGap(file[k])

\* Callbacks that do not overlap see the ledgers in order, the start ledger first, and the one
\* that writes the file has walked beyond all of them.
InTurn ==
  ~overlapped =>
    /\ \A p, r \in Poll : polls[p].stage # "none" /\ polls[r].stage # "none" => p = r
    /\ startLedger # 0 => startLedger \in polled
    /\ \A h \in polled :
         /\ startLedger # 0 /\ startLedger <= h
         /\ \A p \in Poll :
              /\ polls[p].stage \in {"balance", "tail"} => h <= polls[p].height
              /\ polls[p].stage = "report" => h <= endLedger
    /\ file # << >> => /\ ~ticking /\ polled \subseteq file[1]
                       /\ \A p \in Poll : polls[p].stage = "none"

\* The script goes on when the monitor has exited, with the logs of the whole round unless one
\* could not be copied.
ScriptSound ==
  /\ script # "monitor" => /\ pc # "startBalance" /\ ~ticking
                           /\ \A p \in Poll : polls[p].stage = "none"
  /\ missing => failures # 0
  /\ script \in {"post", "written", "failed"} /\ ~missing /\ pc = "polling" /\ Supply = Target =>
       logs = 1..Supply
  /\ script = "written" /\ pc # "exited" => DOMAIN final \subseteq 1..Len(chain)

MonitorInv == /\ TypeOK /\ LedgersSound /\ PollsSound /\ StartSound
              /\ WalkSound /\ GapsSound /\ InTurn

RoundInv == /\ RoundTypeOK /\ MonitorInv /\ ScriptSound
            /\ WrittenReportIsOfRound /\ PolledRoundIsWritten

------------------------------------------------------------------------------
(***************************************************************************)
(* Ledgers.                                                                *)
(***************************************************************************)

\* The balance after a ledger, and after the last one, is a number.
LEMMA LedgerType ==
  ASSUME TypeOK, LedgersSound
  PROVE  /\ Len(chain) \in Nat /\ Len(chain) >= 1 /\ Len(chain) \in 1..Len(chain)
         /\ Balance \in Nat /\ Supply \in Nat
         /\ \A h \in 1..Len(chain) : chain[h] \in Nat
BY StellarLoadAssumption DEF TypeOK, LedgersSound, Balance

\* A step closes a ledger or leaves the chain alone.
LEMMA ChainMoves ==
  ASSUME [Next]_vars
  PROVE  chain' = chain \/ \E n \in 0..Supply : CloseLedger(n)
BY DEF Next, Import, ReadStartBalance, StartPoll, PollHeight, PollBalance, PollTail, LedgerAnswer,
       LedgerMissing, PollRejected, StartRejected, network, vars

\* What has closed stays, and balances only go up.
LEMMA LedgersStay ==
  ASSUME TypeOK, LedgersSound, [Next]_vars
  PROVE  /\ chain' \in Seq(Nat) /\ Len(chain') \in Nat /\ Len(chain) <= Len(chain')
         /\ Balance' \in Nat /\ Balance <= Balance' /\ Balance' <= Supply
         /\ \A h \in 1..Len(chain) : chain'[h] = chain[h]
<1>1. /\ chain \in Seq(Nat) /\ Len(chain) \in Nat /\ Balance \in Nat /\ Balance <= Supply
  BY LedgerType DEF TypeOK, LedgersSound
<1>2. CASE chain' = chain
  BY <1>1, <1>2 DEF Balance
<1>3. ASSUME NEW n \in 0..Supply, CloseLedger(n)
      PROVE  /\ chain' \in Seq(Nat) /\ Len(chain') \in Nat /\ Len(chain) <= Len(chain')
             /\ Balance' \in Nat /\ Balance <= Balance' /\ Balance' <= Supply
             /\ \A h \in 1..Len(chain) : chain'[h] = chain[h]
  <2>1. PICK b \in Nat : b = Balance + n
    BY <1>1, LedgerType
  <2>2. chain' = Append(chain, b) /\ b <= Supply /\ Balance <= b
    BY <1>1, <1>3, <2>1, LedgerType DEF CloseLedger
  <2>3. /\ chain' \in Seq(Nat) /\ Len(chain') = Len(chain) + 1
        /\ chain'[Len(chain) + 1] = b
        /\ \A h \in 1..Len(chain) : chain'[h] = chain[h]
    BY <1>1, <2>1, <2>2
  <2>4. Balance' = b
    BY <2>3 DEF Balance
  <2> QED BY <1>1, <2>1, <2>2, <2>3, <2>4
<1> QED BY <1>2, <1>3, ChainMoves

\* So do the transfers of a ledger.
LEMMA TransfersStay ==
  ASSUME TypeOK, LedgersSound, [Next]_vars, NEW h \in 1..Len(chain)
  PROVE  TxsIn(h)' = TxsIn(h) /\ TxsOf(h)' = TxsOf(h)
<1>1. \A g \in 1..Len(chain) : chain'[g] = chain[g]
  BY LedgersStay
<1>2. 1 \in 1..Len(chain) /\ (h = 1 \/ h - 1 \in 1..Len(chain))
  BY LedgerType
<1> QED BY <1>1, <1>2 DEF TxsIn, TxsOf

\* A ledger has a number of transfers if and only if there are some.
LEMMA SomeTransfers ==
  ASSUME TypeOK, LedgersSound, NEW h \in 1..Len(chain), NEW t \in TxsOf(h)
  PROVE  TxsIn(h) # 0
<1>1. /\ \A g \in 1..Len(chain) : chain[g] \in Nat
      /\ 1 \in 1..Len(chain) /\ (h = 1 \/ h - 1 \in 1..Len(chain))
  BY LedgerType
<1>2. CASE h = 1
  BY <1>1, <1>2 DEF TxsIn, TxsOf
<1>3. CASE h # 1
  <2>1. PICK a, b \in Nat : a = chain[h - 1] /\ b = chain[h]
    BY <1>1, <1>3
  <2>2. t \in a + 1..b
    BY <1>3, <2>1 DEF TxsOf
  <2> QED BY <1>3, <2>1, <2>2 DEF TxsIn
<1> QED BY <1>2, <1>3

\* The ledgers stay sound: a new one has the transfers above the balance.
LEMMA LedgersStep == TypeOK /\ LedgersSound /\ [Next]_vars => LedgersSound'
<1> SUFFICES ASSUME TypeOK, LedgersSound, [Next]_vars PROVE LedgersSound'
  OBVIOUS
<1>1. /\ Len(chain) \in Nat /\ Len(chain) >= 1 /\ Len(chain') \in Nat /\ Len(chain) <= Len(chain')
      /\ Balance \in Nat /\ Balance' \in Nat /\ Balance' <= Supply
  BY LedgerType, LedgersStay
<1>2. \A j \in Node \ {0} : imported'[j] <= Len(chain')
  <2>1. imported \in [Node \ {0} -> Nat] /\ \A j \in Node \ {0} : imported[j] <= Len(chain)
    BY DEF TypeOK, LedgersSound
  <2>2. CASE imported' = imported
    BY <1>1, <2>1, <2>2
  <2>3. ASSUME NEW i \in Node \ {0}, Import(i) PROVE \A j \in Node \ {0} : imported'[j] <= Len(chain')
    BY <1>1, <2>1, <2>3 DEF Import
  <2> QED BY <2>2, <2>3 DEF Next, CloseLedger, ReadStartBalance, StartPoll, PollHeight, PollBalance,
             PollTail, LedgerAnswer, LedgerMissing, PollRejected, StartRejected, network, vars
<1>3. ASSUME NEW t \in 1..Balance PROVE \E h \in 1..Len(chain') : t \in TxsOf(h)'
  <2>1. PICK h \in 1..Len(chain) : t \in TxsOf(h)
    BY DEF LedgersSound
  <2>2. h \in 1..Len(chain') /\ TxsOf(h)' = TxsOf(h)
    BY <1>1, TransfersStay
  <2> QED BY <2>1, <2>2
<1>4. ASSUME NEW n \in 0..Supply, CloseLedger(n), NEW t \in Balance + 1..Balance'
      PROVE  \E h \in 1..Len(chain') : t \in TxsOf(h)'
  <2>1. PICK top \in Nat : top = Len(chain) + 1
    BY <1>1
  <2>2. chain \in Seq(Nat) /\ Balance + n \in Nat /\ chain' = Append(chain, Balance + n)
    BY <1>1, <1>4, LedgerType DEF TypeOK, CloseLedger
  <2>3. Len(chain') = top /\ chain'[top] = Balance' /\ top # 1 /\ top - 1 = Len(chain)
    BY <1>1, <2>1, <2>2 DEF Balance
  <2>4. chain'[top - 1] = Balance
    BY <1>1, <2>3, LedgersStay DEF Balance
  <2>5. TxsOf(top)' = Balance + 1..Balance'
    BY <2>3, <2>4 DEF TxsOf
  <2> QED BY <1>1, <2>1, <2>3, <2>5
<1>5. \A t \in 1..Balance' : \E h \in 1..Len(chain') : t \in TxsOf(h)'
  <2>1. CASE chain' = chain
    BY <1>3, <2>1 DEF Balance
  <2>2. ASSUME NEW n \in 0..Supply, CloseLedger(n)
        PROVE \A t \in 1..Balance' : \E h \in 1..Len(chain') : t \in TxsOf(h)'
    <3>1. \A t \in 1..Balance' : t \in 1..Balance \/ t \in Balance + 1..Balance'
      BY <1>1
    <3> QED BY <1>3, <1>4, <2>2, <3>1
  <2> QED BY <2>1, <2>2, ChainMoves
<1> QED BY <1>1, <1>2, <1>5 DEF LedgersSound

\* A node answers only for a ledger that node 0 has.
LEMMA LedgerExists ==
  ASSUME TypeOK, LedgersSound, NEW j \in Node, NEW h \in Nat, HasLedger(j, h)
  PROVE  h \in 1..Len(chain)
<1>1. j = 0 \/ (imported[j] \in Nat /\ imported[j] <= Len(chain))
  BY DEF TypeOK, LedgersSound
<1> QED BY <1>1, LedgerType DEF HasLedger

------------------------------------------------------------------------------
(***************************************************************************)
(* The monitor.                                                            *)
(***************************************************************************)

\* What a callback is while it walks the ledgers, at ledger i of node 0.
Walker(i) == [NoPoll EXCEPT !.stage = "report", !.ledger = i]

\* It is a callback, as is the name of one that is over.
LEMMA PollTypes ==
  NoPoll \in PollState /\ \A i \in Nat : Walker(i) \in PollState
<1>1. 0 \in Node
  BY StellarNodeAssumption DEF Node
<1> QED BY <1>1 DEF NoPoll, PollState, Walker

\* What it is about.
LEMMA WalkerFields ==
  ASSUME NEW i
  PROVE  /\ Walker(i).stage = "report" /\ Walker(i).ledger = i
         /\ NoPoll.stage = "none" /\ NoPoll.ledger = 0
BY DEF Walker, NoPoll

\* The loop goes on, or writes the file and clears the interval.
LEMMA LoopEffect ==
  ASSUME NEW p \in Poll, NEW i \in Nat, NEW end \in Nat, NEW ledgers, LoopAt(p, i, end, ledgers)
  PROVE  \/ i <= end /\ polls' = [polls EXCEPT ![p] = Walker(i)] /\ UNCHANGED <<ticking, file>>
         \/ /\ end < i /\ polls' = [polls EXCEPT ![p] = NoPoll]
            /\ file' = <<ledgers>> /\ ticking' = FALSE
BY DEF LoopAt, HasNext, Walker

\* Every step keeps the types.
LEMMA TypeStep == TypeOK /\ LedgersSound /\ PollsSound /\ [Next]_vars => TypeOK'
<1> SUFFICES ASSUME TypeOK, LedgersSound, PollsSound, [Next]_vars PROVE TypeOK'
  OBVIOUS
<1> DEFINE Files(n) == {<< >>} \cup {<<f>> : f \in SUBSET (1..n)}
<1>1. /\ chain' \in Seq(Nat) /\ Len(chain) \in Nat /\ Len(chain') \in Nat
      /\ Len(chain) <= Len(chain') /\ Balance \in Nat
      /\ 1..Len(chain) \subseteq 1..Len(chain')
  BY LedgerType, LedgersStay
<1>2. /\ report \subseteq 1..Len(chain') /\ polled \subseteq 1..Len(chain')
      /\ file \in Files(Len(chain'))
  <2>1. SUBSET (1..Len(chain)) \subseteq SUBSET (1..Len(chain'))
    BY <1>1
  <2> QED BY <1>1, <2>1 DEF TypeOK
<1> HIDE DEF Files
<1>3. CASE UNCHANGED monitorVars /\ imported' \in [Node \ {0} -> Nat]
  BY <1>1, <1>2, <1>3 DEF TypeOK, monitorVars, Files
<1>4. CASE ReadStartBalance
  BY <1>1, <1>2, <1>4 DEF ReadStartBalance, TypeOK, network, range
<1>5. ASSUME NEW p \in Poll, StartPoll(p) PROVE TypeOK'
  <2>1. polls' \in [Poll -> PollState]
    BY <1>5 DEF StartPoll, TypeOK, PollState
  <2> QED BY <1>1, <1>2, <1>5, <2>1 DEF StartPoll, TypeOK, network, range
<1>6. ASSUME NEW p \in Poll, PollHeight(p) \/ PollBalance(p) PROVE TypeOK'
  <2>1. CASE PollHeight(p)
    <3>1. polls' \in [Poll -> PollState]
      BY <1>1, <2>1 DEF PollHeight, TypeOK, PollState
    <3> QED BY <1>1, <1>2, <2>1, <3>1 DEF PollHeight, TypeOK, network, range
  <2>2. CASE PollBalance(p)
    <3>1. polls' \in [Poll -> PollState]
      BY <1>1, <2>2 DEF PollBalance, TypeOK, PollState
    <3> QED BY <1>1, <1>2, <2>2, <3>1 DEF PollBalance, TypeOK, network, range
  <2> QED BY <1>6, <2>1, <2>2
<1>7. ASSUME NEW p \in Poll, LedgerMissing(p) \/ PollRejected(p) PROVE TypeOK'
  <2>1. polls' \in [Poll -> PollState]
    BY <1>7, PollTypes DEF LedgerMissing, PollRejected, TypeOK
  <2>2. failures' \in 0..MaxFailures
    BY <1>7, StellarBoundAssumption DEF LedgerMissing, PollRejected, TypeOK
  <2>3. /\ UNCHANGED network /\ UNCHANGED range
        /\ UNCHANGED <<pc, startBalance, ticking, report, file, polled, overlapped>>
    BY <1>7 DEF LedgerMissing, PollRejected
  <2> QED BY <1>1, <1>2, <2>1, <2>2, <2>3 DEF TypeOK, network, range
<1>8. CASE StartRejected
  BY <1>1, <1>2, <1>8, StellarBoundAssumption DEF StartRejected, TypeOK, network, range
<1>9. ASSUME NEW p \in Poll, NEW i \in Nat, NEW end \in Nat, NEW ledgers \in SUBSET (1..Len(chain)),
             LoopAt(p, i, end, ledgers)
      PROVE  /\ polls' \in [Poll -> PollState] /\ ticking' \in BOOLEAN
             /\ file' \in Files(Len(chain'))
  <2>1. polls' = [polls EXCEPT ![p] = Walker(i)] \/ polls' = [polls EXCEPT ![p] = NoPoll]
    BY <1>9, LoopEffect
  <2>2. polls' \in [Poll -> PollState]
    BY <2>1, PollTypes DEF TypeOK
  <2>3. ledgers \in SUBSET (1..Len(chain'))
    BY <1>1
  <2>4. <<ledgers>> \in Files(Len(chain'))
    BY <2>3 DEF Files
  <2>5. (ticking' = ticking /\ file' = file) \/ (ticking' = FALSE /\ file' = <<ledgers>>)
    BY <1>9, LoopEffect
  <2> QED BY <1>2, <2>2, <2>4, <2>5 DEF TypeOK
<1>10. ASSUME NEW p \in Poll, PollTail(p) PROVE TypeOK'
  <2>1. polls[p].height \in 1..Len(chain) /\ startLedger \in Nat /\ report \in SUBSET (1..Len(chain))
    BY <1>10 DEF PollTail, PollsSound, TypeOK
  <2>2. polls' \in [Poll -> PollState] /\ ticking' \in BOOLEAN /\ file' \in Files(Len(chain'))
    <3>1. CASE Ends(polls[p])
      BY <1>1, <1>9, <1>10, <2>1, <3>1 DEF PollTail
    <3>2. CASE ~Ends(polls[p])
      BY <1>2, <1>10, <3>2, PollTypes DEF PollTail, TypeOK
    <3> QED BY <3>1, <3>2
  <2>3. polled' \subseteq 1..Len(chain')
    BY <1>1, <1>2, <1>10, <2>1 DEF PollTail
  <2>4. startLedger' \in Nat /\ endLedger' \in Nat /\ firstLedger' \in BOOLEAN
    BY <1>1, <1>10, <2>1 DEF PollTail, TypeOK
  <2> QED BY <1>1, <1>2, <1>10, <2>2, <2>3, <2>4 DEF PollTail, TypeOK, network, Files
<1>11. ASSUME NEW p \in Poll, LedgerAnswer(p) PROVE TypeOK'
  <2>1. polls[p].node \in Node /\ polls[p].ledger \in Nat /\ endLedger \in Nat
    BY DEF TypeOK, PollState
  <2>2. polls[p].ledger \in 1..Len(chain)
    BY <1>11, <2>1, LedgerExists DEF LedgerAnswer
  <2>3. CASE polls[p].node + 1 < NodeNum
    <3>1. polls[p].node + 1 \in Node
      BY <2>1, <2>3, StellarNodeAssumption DEF Node
    <3>2. /\ UNCHANGED <<report, ticking, file>>
          /\ polls' = [polls EXCEPT ![p].node = polls[p].node + 1]
      BY <1>11, <2>3 DEF LedgerAnswer
    <3>3. polls' \in [Poll -> PollState]
      BY <3>1, <3>2 DEF TypeOK, PollState
    <3> QED BY <1>1, <1>2, <1>11, <3>2, <3>3 DEF LedgerAnswer, TypeOK, network, range, Files
  <2>4. CASE ~(polls[p].node + 1 < NodeNum)
    <3> DEFINE more == report \cup {polls[p].ledger}
    <3>1. report' = more /\ LoopAt(p, polls[p].ledger + 1, endLedger, more)
      BY <1>11, <2>4 DEF LedgerAnswer
    <3>2. more \in SUBSET (1..Len(chain)) /\ polls[p].ledger + 1 \in Nat
      <4>1. report \in SUBSET (1..Len(chain))
        BY DEF TypeOK
      <4>2. more \in SUBSET (1..Len(chain))
        BY ONLY <2>2, <4>1
      <4> QED BY <2>1, <4>2
    <3> HIDE DEF more
    <3>3. polls' \in [Poll -> PollState] /\ ticking' \in BOOLEAN /\ file' \in Files(Len(chain'))
      BY <1>9, <2>1, <3>1, <3>2
    <3>4. report' \subseteq 1..Len(chain')
      BY <1>1, <3>1, <3>2
    <3> QED BY <1>1, <1>2, <1>11, <3>3, <3>4 DEF LedgerAnswer, TypeOK, network, range, Files
  <2> QED BY <2>3, <2>4
<1>12. (UNCHANGED monitorVars /\ imported' \in [Node \ {0} -> Nat]) \/ ReadStartBalance \/ StartRejected
       \/ \E p \in Poll : \/ StartPoll(p) \/ PollHeight(p) \/ PollBalance(p) \/ PollTail(p)
                         \/ LedgerAnswer(p) \/ LedgerMissing(p) \/ PollRejected(p)
  <2>1. ASSUME NEW j \in Node \ {0}, Import(j)
        PROVE  UNCHANGED monitorVars /\ imported' \in [Node \ {0} -> Nat]
    BY <2>1 DEF Import, TypeOK
  <2>2. ASSUME NEW n \in 0..Supply, CloseLedger(n)
        PROVE  UNCHANGED monitorVars /\ imported' \in [Node \ {0} -> Nat]
    BY <2>2 DEF CloseLedger, TypeOK
  <2>3. CASE UNCHANGED vars
    BY <2>3 DEF vars, monitorVars, TypeOK
  <2> QED BY <2>1, <2>2, <2>3 DEF Next
<1> QED BY <1>3, <1>4, <1>5, <1>6, <1>7, <1>8, <1>10, <1>11, <1>12

\* What a callback has read stays true: the chain only grows.
LEMMA PollsStep == TypeOK /\ LedgersSound /\ PollsSound /\ [Next]_vars => PollsSound'
<1> SUFFICES ASSUME TypeOK, LedgersSound, PollsSound, [Next]_vars, NEW r \in Poll
             PROVE  /\ polls'[r].stage \in {"balance", "tail"} => polls'[r].height \in 1..Len(chain')
                    /\ polls'[r].balance <= Balance'
  BY DEF PollsSound
<1> DEFINE Reads(q) == /\ q.stage \in {"balance", "tail"} => q.height \in 1..Len(chain')
                       /\ q.balance <= Balance'
<1>1. /\ Len(chain) \in Nat /\ Len(chain) >= 1 /\ Len(chain') \in Nat /\ Len(chain) <= Len(chain')
      /\ Balance \in Nat /\ Balance' \in Nat /\ Balance <= Balance'
  BY LedgerType, LedgersStay
<1>2. /\ polls[r].stage \in {"balance", "tail"} => polls[r].height \in 1..Len(chain)
      /\ polls[r].balance \in Nat /\ polls[r].balance <= Balance
  BY DEF PollsSound, TypeOK, PollState
<1>3. Reads(polls[r]) /\ Reads(NoPoll) /\ \A i \in Nat : Reads(Walker(i))
  BY <1>1, <1>2 DEF NoPoll, Walker
<1>4. CASE polls'[r] \in {polls[r], NoPoll} \/ \E i \in Nat : polls'[r] = Walker(i)
  BY <1>3, <1>4
<1>5. ASSUME NEW p \in Poll, StartPoll(p) PROVE Reads(polls'[r])
  <2>1. polls'[r] = polls[r] \/ (polls'[r].stage = "height" /\ polls'[r].balance = polls[r].balance)
    BY <1>5 DEF StartPoll, TypeOK, PollState
  <2> QED BY <1>1, <1>2, <1>3, <2>1
<1>6. ASSUME NEW p \in Poll, PollHeight(p) PROVE Reads(polls'[r])
  <2>1. \/ polls'[r] = polls[r]
        \/ polls'[r].height = Len(chain) /\ polls'[r].balance = polls[r].balance
    BY <1>6 DEF PollHeight, TypeOK, PollState
  <2> QED BY <1>1, <1>2, <1>3, <2>1
<1>7. ASSUME NEW p \in Poll, PollBalance(p) PROVE Reads(polls'[r])
  <2>1. \/ polls'[r] = polls[r]
        \/ /\ polls[r].stage = "balance" /\ polls'[r].height = polls[r].height
           /\ polls'[r].balance = Balance
    BY <1>7 DEF PollBalance, TypeOK, PollState
  <2> QED BY <1>1, <1>2, <1>3, <2>1
<1>8. ASSUME NEW p \in Poll, LedgerMissing(p) \/ PollRejected(p) PROVE polls'[r] \in {polls[r], NoPoll}
  BY <1>8 DEF LedgerMissing, PollRejected, TypeOK
<1>9. ASSUME NEW p \in Poll, PollTail(p)
      PROVE  polls'[r] \in {polls[r], NoPoll} \/ \E i \in Nat : polls'[r] = Walker(i)
  <2>1. polls[p].height \in Nat /\ startLedger \in Nat
    BY DEF TypeOK, PollState
  <2> QED BY <1>9, <2>1, LoopEffect DEF PollTail, TypeOK
<1>10. ASSUME NEW p \in Poll, LedgerAnswer(p) PROVE Reads(polls'[r])
  <2>1. polls[p].ledger + 1 \in Nat /\ endLedger \in Nat
    BY DEF TypeOK, PollState
  <2>2. CASE polls[p].node + 1 < NodeNum
    <3>1. polls'[r] = polls[r] \/ (/\ polls'[r].stage = polls[r].stage
                                   /\ polls'[r].height = polls[r].height
                                   /\ polls'[r].balance = polls[r].balance)
      BY <1>10, <2>2 DEF LedgerAnswer, TypeOK, PollState
    <3> QED BY <1>1, <1>2, <1>3, <3>1
  <2>3. CASE ~(polls[p].node + 1 < NodeNum)
    <3>1. LoopAt(p, polls[p].ledger + 1, endLedger, report')
      BY <1>10, <2>3 DEF LedgerAnswer
    <3> QED BY <1>4, <2>1, <3>1, LoopEffect DEF TypeOK
  <2> QED BY <2>2, <2>3
<1>11. CASE polls' = polls
  BY <1>4, <1>11
<1> QED BY <1>4, <1>5, <1>6, <1>7, <1>8, <1>9, <1>10, <1>11
        DEF Next, CloseLedger, Import, monitorVars, ReadStartBalance, StartRejected, vars

\* The range is set once at its start, a file is written only at the end of a round, and the
\* interval is cleared only behind it.
LEMMA StartStep ==
  TypeOK /\ LedgersSound /\ PollsSound /\ WalkSound /\ StartSound /\ [Next]_vars => StartSound'
<1> SUFFICES ASSUME TypeOK, LedgersSound, PollsSound, WalkSound, StartSound, [Next]_vars
             PROVE  StartSound'
  OBVIOUS
<1>1. /\ Balance \in Nat /\ Balance' \in Nat /\ Balance <= Balance'
      /\ startBalance \in Nat /\ Target \in Nat /\ failures \in Nat
      /\ Len(chain) \in Nat
  <2>1. Balance \in Nat /\ Len(chain) \in Nat
    BY LedgerType
  <2>2. Balance' \in Nat /\ Balance <= Balance'
    BY LedgersStay
  <2>3. startBalance \in Nat /\ Target \in Nat /\ failures \in Nat
    BY StellarLoadAssumption, StellarBoundAssumption DEF TypeOK
  <2> QED
    BY <2>1, <2>2, <2>3
<1>2. CASE UNCHANGED monitorVars
  BY <1>1, <1>2 DEF monitorVars, StartSound
<1>3. CASE ReadStartBalance
  BY <1>1, <1>3 DEF ReadStartBalance, StartSound, network, range, Balance
<1>4. CASE StartRejected
  BY <1>1, <1>4 DEF StartRejected, StartSound, network, range, Balance
<1>5. ASSUME NEW p \in Poll, StartPoll(p) \/ PollHeight(p) \/ PollBalance(p) PROVE StartSound'
  <2>1. pc = "polling"
    BY <1>5 DEF StartPoll, PollHeight, PollBalance, StartSound, TypeOK
  <2>2. UNCHANGED <<chain, pc, startBalance, firstLedger, startLedger, endLedger, ticking, file, failures>>
    BY <1>5 DEF StartPoll, PollHeight, PollBalance, network, range
  <2> QED BY <1>1, <2>1, <2>2 DEF StartSound
<1>6. ASSUME NEW p \in Poll, LedgerMissing(p) \/ PollRejected(p) PROVE StartSound'
  <2>1. pc = "polling"
    BY <1>6 DEF LedgerMissing, PollRejected, StartSound, TypeOK
  <2>2. UNCHANGED <<chain, pc, startBalance, firstLedger, startLedger, endLedger, ticking, file>>
    BY <1>6 DEF LedgerMissing, PollRejected, network, range
  <2> QED BY <1>1, <2>1, <2>2 DEF StartSound
<1>7. ASSUME NEW p \in Poll, PollTail(p) PROVE StartSound'
  <2>1. /\ pc = "polling" /\ pc' = pc /\ startBalance' = startBalance /\ Balance' = Balance
        /\ polls[p].height \in 1..Len(chain) /\ polls[p].balance <= Balance /\ startLedger \in Nat
    BY <1>7 DEF PollTail, StartSound, PollsSound, TypeOK, network, Balance
  <2>2. firstLedger' <=> startLedger' = 0
    <3>1. CASE SeesFirst(polls[p])
      <4>1. firstLedger' = FALSE /\ startLedger' = polls[p].height
        BY <1>7, <3>1 DEF PollTail
      <4> QED BY <1>1, <2>1, <4>1
    <3>2. CASE ~SeesFirst(polls[p])
      <4>1. (firstLedger' <=> firstLedger) /\ startLedger' = startLedger
        BY <1>7, <3>2 DEF PollTail
      <4> QED BY <4>1 DEF StartSound
    <3> QED BY <3>1, <3>2
  <2>3. CASE Ends(polls[p])
    <3>1. endLedger' = polls[p].height /\ endLedger' # 0
      BY <1>1, <1>7, <2>1, <2>3 DEF PollTail
    <3>2. Balance >= startBalance + Target
      BY <1>1, <2>1, <2>3 DEF Ends
    <3>3. LoopAt(p, startLedger, polls[p].height, report) /\ polls[p].height \in Nat
      BY <1>1, <1>7, <2>1, <2>3 DEF PollTail
    <3>4. ticking' \/ file' # << >>
      <4>1. UNCHANGED <<ticking, file>> \/ file' = <<report>>
        BY <2>1, <3>3, LoopEffect
      <4>2. ticking \/ file # << >>
        BY <2>1 DEF StartSound
      <4> QED BY <4>1, <4>2
    <3> QED BY <1>1, <2>1, <2>2, <3>1, <3>2, <3>4 DEF StartSound
  <2>4. CASE ~Ends(polls[p])
    <3>1. UNCHANGED <<endLedger, ticking, file>>
      BY <1>7, <2>4 DEF PollTail
    <3> QED BY <1>1, <2>1, <2>2, <3>1 DEF StartSound
  <2> QED BY <2>3, <2>4
<1>8. ASSUME NEW p \in Poll, LedgerAnswer(p) PROVE StartSound'
  <2>1. /\ pc = "polling" /\ endLedger # 0
        /\ UNCHANGED <<pc, startBalance, firstLedger, startLedger, endLedger>> /\ Balance' = Balance
    BY <1>8 DEF LedgerAnswer, StartSound, WalkSound, TypeOK, network, range, Balance
  <2>2. UNCHANGED <<ticking, file>> \/ file' = <<report'>>
    <3>1. polls[p].ledger + 1 \in Nat /\ endLedger \in Nat
      BY DEF TypeOK, PollState
    <3> QED BY <1>8, <3>1, LoopEffect DEF LedgerAnswer
  <2>3. ticking' \/ file' # << >>
    BY <2>1, <2>2 DEF StartSound
  <2> QED BY <1>1, <2>1, <2>3 DEF StartSound
<1>9. CASE UNCHANGED vars
  BY <1>2, <1>9 DEF vars, monitorVars
<1> QED BY <1>2, <1>3, <1>4, <1>5, <1>6, <1>7, <1>8, <1>9 DEF Next, CloseLedger, Import

\* A callback that walks ledgers leaves none out, whatever the others do to the end of the walk:
\* ledgers only come into the report, and the start ledger is set once.
LEMMA WalkStep ==
  TypeOK /\ LedgersSound /\ PollsSound /\ StartSound /\ WalkSound /\ [Next]_vars => WalkSound'
<1> SUFFICES ASSUME TypeOK, LedgersSound, PollsSound, StartSound, WalkSound, [Next]_vars,
                    NEW r \in Poll, polls'[r].stage = "report"
             PROVE  /\ endLedger' # 0
                    /\ \/ polls'[r].ledger = 0
                       \/ /\ startLedger' # 0 /\ startLedger' <= polls'[r].ledger
                          /\ startLedger'..polls'[r].ledger - 1 \subseteq report'
  BY DEF WalkSound
<1> DEFINE Walked(i) == i = 0 \/ (/\ startLedger' # 0 /\ startLedger' <= i
                                  /\ startLedger'..i - 1 \subseteq report')
<1>1. /\ startLedger \in Nat /\ endLedger \in Nat /\ Len(chain) \in Nat /\ r \in DOMAIN polls
      /\ \A p \in Poll : polls[p].ledger \in Nat /\ polls[p].node \in Node
  BY LedgerType DEF TypeOK, PollState
<1>2. startLedger # 0 => startLedger' = startLedger
  BY DEF Next, CloseLedger, Import, monitorVars, ReadStartBalance, StartPoll, PollHeight, PollBalance,
         PollTail, SeesFirst, LedgerAnswer, LedgerMissing, PollRejected, StartRejected, StartSound,
         range, vars
<1>3. report \subseteq report'
  BY DEF Next, CloseLedger, Import, monitorVars, ReadStartBalance, StartPoll, PollHeight, PollBalance,
         PollTail, LedgerAnswer, LedgerMissing, PollRejected, StartRejected, vars
<1>4. endLedger # 0 => endLedger' # 0
  <2>1. ASSUME NEW p \in Poll, PollTail(p) PROVE endLedger' \in {endLedger} \cup (1..Len(chain))
    BY <2>1 DEF PollTail, PollsSound
  <2>2. endLedger' = endLedger \/ \E p \in Poll : PollTail(p)
    BY DEF Next, CloseLedger, Import, monitorVars, ReadStartBalance, StartPoll, PollHeight,
           PollBalance, LedgerAnswer, LedgerMissing, PollRejected, StartRejected, range, vars
  <2> QED BY <1>1, <2>1, <2>2
<1>5. ASSUME polls[r].stage = "report", polls'[r].ledger = polls[r].ledger
      PROVE  endLedger' # 0 /\ Walked(polls'[r].ledger)
  BY <1>1, <1>2, <1>3, <1>4, <1>5 DEF WalkSound
<1>6. ASSUME NEW p \in Poll, PollTail(p) PROVE endLedger' # 0 /\ Walked(polls'[r].ledger)
  <2>1. polls[p].height \in Nat /\ polls[p].height \in 1..Len(chain)
    BY <1>1, <1>6 DEF PollTail, PollsSound
  <2>2. CASE r # p \/ ~Ends(polls[p])
    <3>1. polls'[r] = polls[r] \/ polls'[r] = NoPoll
      BY <1>6, <2>1, <2>2, <1>1, LoopEffect DEF PollTail, TypeOK
    <3> QED BY <1>5, <3>1 DEF NoPoll
  <2>3. CASE r = p /\ Ends(polls[p])
    <3>1. endLedger' = polls[p].height /\ startLedger' = startLedger
      BY <1>6, <2>3 DEF PollTail, Ends, SeesFirst
    <3>2. polls'[r] = Walker(startLedger) \/ polls'[r] = NoPoll
      BY <1>1, <1>6, <2>1, <2>3, LoopEffect DEF PollTail, TypeOK
    <3>3. polls'[r].ledger = startLedger
      BY <3>2, WalkerFields
    <3>4. startLedger..startLedger - 1 = {}
      BY <1>1
    <3> QED BY <1>1, <2>1, <3>1, <3>3, <3>4
  <2> QED BY <2>2, <2>3
<1>7. ASSUME NEW p \in Poll, LedgerAnswer(p) PROVE endLedger' # 0 /\ Walked(polls'[r].ledger)
  <2>1. polls[p].stage = "report" /\ polls[p].ledger + 1 \in Nat /\ polls[p].ledger \in 1..Len(chain)
    BY <1>1, <1>7, LedgerExists DEF LedgerAnswer
  <2>2. CASE r # p \/ polls[p].node + 1 < NodeNum
    <3>1. polls'[r].stage = polls[r].stage /\ polls'[r].ledger = polls[r].ledger
      <4>1. CASE polls[p].node + 1 < NodeNum
        <5>1. polls' = [polls EXCEPT ![p].node = polls[p].node + 1]
          BY <1>7, <4>1 DEF LedgerAnswer
        <5> QED BY <5>1 DEF TypeOK, PollState
      <4>2. CASE r # p /\ ~(polls[p].node + 1 < NodeNum)
        <5>1. LoopAt(p, polls[p].ledger + 1, endLedger, report')
          BY <1>7, <4>2 DEF LedgerAnswer
        <5>2. \E q \in {NoPoll, Walker(polls[p].ledger + 1)} : polls' = [polls EXCEPT ![p] = q]
          BY <1>1, <2>1, <5>1, LoopEffect
        <5>3. polls'[r] = polls[r]
          BY <4>2, <5>2 DEF TypeOK
        <5> QED BY <5>3
      <4> QED BY <2>2, <4>1, <4>2
    <3> QED BY <1>5, <3>1
  <2>3. CASE r = p /\ ~(polls[p].node + 1 < NodeNum)
    <3>1. /\ LoopAt(p, polls[p].ledger + 1, endLedger, report') /\ report' = report \cup {polls[p].ledger}
          /\ startLedger' = startLedger /\ endLedger' = endLedger
      BY <1>7, <2>3 DEF LedgerAnswer, range
    <3>2. polls'[r] = Walker(polls[p].ledger + 1) \/ polls'[r] = NoPoll
      BY <1>1, <2>1, <2>3, <3>1, LoopEffect DEF TypeOK
    <3>3. polls'[r].ledger = polls[p].ledger + 1
      BY <3>2, WalkerFields
    <3>4. /\ endLedger # 0 /\ startLedger # 0 /\ startLedger <= polls[p].ledger
          /\ startLedger..polls[p].ledger - 1 \subseteq report
      BY <1>1, <2>1 DEF WalkSound
    <3>5. startLedger..polls[p].ledger \subseteq report'
      <4>1. \A i \in startLedger..polls[p].ledger :
              i \in startLedger..polls[p].ledger - 1 \/ i = polls[p].ledger
        BY <1>1
      <4> QED BY <3>1, <3>4, <4>1
    <3>6. polls[p].ledger + 1 - 1 = polls[p].ledger
      BY <1>1
    <3> QED BY <1>1, <3>1, <3>3, <3>4, <3>5, <3>6
  <2> QED BY <2>2, <2>3
<1>8. ASSUME NEW p \in Poll, \/ StartPoll(p) \/ PollHeight(p) \/ PollBalance(p)
                             \/ LedgerMissing(p) \/ PollRejected(p)
      PROVE  endLedger' # 0 /\ Walked(polls'[r].ledger)
  <2>1. polls'[r] = polls[r] \/ polls'[r].stage # "report"
    BY <1>8 DEF StartPoll, PollHeight, PollBalance, LedgerMissing, PollRejected, NoPoll, TypeOK, PollState
  <2> QED BY <1>5, <2>1
<1>9. CASE polls' = polls
  BY <1>5, <1>9
<1> QED BY <1>6, <1>7, <1>8, <1>9
        DEF Next, CloseLedger, Import, monitorVars, ReadStartBalance, StartRejected, vars

\* So there is no gap in the report, nor in a file that is a copy of it.
LEMMA GapsStep ==
  TypeOK /\ LedgersSound /\ PollsSound /\ StartSound /\ WalkSound /\ GapsSound /\ [Next]_vars => GapsSound'
<1> SUFFICES ASSUME TypeOK, LedgersSound, PollsSound, StartSound, WalkSound, GapsSound, [Next]_vars
             PROVE  GapsSound'
  OBVIOUS
<1>1. startLedger \in Nat /\ Len(chain) \in Nat /\ report \subseteq 1..Len(chain)
  BY LedgerType DEF TypeOK
<1>2. startLedger # 0 => startLedger' = startLedger
  BY DEF Next, CloseLedger, Import, monitorVars, ReadStartBalance, StartPoll, PollHeight, PollBalance,
         PollTail, SeesFirst, LedgerAnswer, LedgerMissing, PollRejected, StartRejected, StartSound,
         range, vars
<1>3. ASSUME NEW L, NoGap(L)
      PROVE  \A h \in L : startLedger' # 0 /\ startLedger' <= h /\ startLedger'..h \subseteq L
  BY <1>2, <1>3 DEF NoGap
<1>4. ASSUME UNCHANGED <<report, file>> PROVE GapsSound'
  BY <1>3, <1>4 DEF GapsSound, NoGap
<1>5. ASSUME NoGap(report)', file' \in {file, <<report'>>} PROVE GapsSound'
  <2>1. CASE file' = file
    BY <1>3, <1>5, <2>1 DEF GapsSound, NoGap
  <2>2. CASE file' = <<report'>>
    <3>1. Len(file') = 1 /\ file'[1] = report'
      BY <2>2
    <3>2. \A k \in 1..Len(file') : file'[k] = report'
      BY <3>1
    <3> QED BY <1>5, <3>2 DEF GapsSound, NoGap
  <2> QED BY <1>5, <2>1, <2>2
<1>6. ASSUME NEW p \in Poll, PollTail(p) PROVE GapsSound'
  <2>1. report' = report /\ NoGap(report)'
    BY <1>3, <1>6 DEF PollTail, GapsSound, NoGap
  <2>2. polls[p].height \in Nat /\ startLedger \in Nat
    BY DEF TypeOK, PollState
  <2>3. file' \in {file, <<report'>>}
    BY <1>6, <2>1, <2>2, LoopEffect DEF PollTail
  <2> QED BY <1>5, <2>1, <2>3
<1>7. ASSUME NEW p \in Poll, LedgerAnswer(p) PROVE GapsSound'
  <2>1. /\ polls[p].stage = "report" /\ polls[p].ledger + 1 \in Nat /\ endLedger \in Nat
        /\ polls[p].ledger \in 1..Len(chain) /\ startLedger' = startLedger
    <3>1. polls[p].ledger \in Nat /\ polls[p].node \in Node /\ endLedger \in Nat
      BY DEF TypeOK, PollState
    <3> QED BY <1>7, <3>1, LedgerExists DEF LedgerAnswer, range
  <2>2. CASE polls[p].node + 1 < NodeNum
    BY <1>4, <1>7, <2>2 DEF LedgerAnswer
  <2>3. CASE ~(polls[p].node + 1 < NodeNum)
    <3>1. /\ LoopAt(p, polls[p].ledger + 1, endLedger, report')
          /\ report' = report \cup {polls[p].ledger}
      BY <1>7, <2>3 DEF LedgerAnswer
    <3>2. /\ startLedger # 0 /\ startLedger <= polls[p].ledger
          /\ startLedger..polls[p].ledger - 1 \subseteq report
      BY <1>1, <2>1 DEF WalkSound
    <3>3. \A i \in startLedger..polls[p].ledger :
            i \in startLedger..polls[p].ledger - 1 \/ i = polls[p].ledger
      BY <1>1, <2>1
    <3>4. NoGap(report)'
      <4>1. ASSUME NEW h \in report'
            PROVE  startLedger # 0 /\ startLedger <= h /\ startLedger..h \subseteq report'
        <5>1. CASE h \in report
          BY <3>1, <5>1 DEF GapsSound, NoGap
        <5>2. CASE h = polls[p].ledger
          BY <3>1, <3>2, <3>3, <5>2
        <5> QED BY <3>1, <5>1, <5>2
      <4> QED BY <2>1, <4>1 DEF NoGap
    <3>5. file' \in {file, <<report'>>}
      BY <2>1, <3>1, LoopEffect
    <3> QED BY <1>5, <3>4, <3>5
  <2> QED BY <2>2, <2>3
<1> QED BY <1>4, <1>6, <1>7 DEF Next, CloseLedger, Import, monitorVars, ReadStartBalance, StartPoll,
           PollHeight, PollBalance, LedgerMissing, PollRejected, StartRejected, vars

\* Without overlapping callbacks the ledgers are looked at one after the other, the start ledger
\* is the first with transactions, and the callback that writes the file has them all.
LEMMA InTurnStep ==
  TypeOK /\ LedgersSound /\ PollsSound /\ StartSound /\ WalkSound /\ GapsSound /\ InTurn /\ [Next]_vars => InTurn'
<1> SUFFICES ASSUME TypeOK, LedgersSound, PollsSound, StartSound, WalkSound, GapsSound, InTurn, [Next]_vars,
                    ~overlapped'
             PROVE  InTurn'
  BY DEF InTurn
<1> DEFINE
      Single(ps) == \A p, r \in Poll : ps[p].stage # "none" /\ ps[r].stage # "none" => p = r
      NoneLeft(ps) == \A p \in Poll : ps[p].stage = "none"
<1>1. ~overlapped
  BY DEF Next, CloseLedger, Import, monitorVars, ReadStartBalance, StartPoll, PollHeight, PollBalance,
         PollTail, LedgerAnswer, LedgerMissing, PollRejected, StartRejected, vars
<1>2. /\ Single(polls)
      /\ startLedger # 0 => startLedger \in polled
      /\ \A h \in polled :
           /\ startLedger # 0 /\ startLedger <= h
           /\ \A p \in Poll : /\ polls[p].stage \in {"balance", "tail"} => h <= polls[p].height
                              /\ polls[p].stage = "report" => h <= endLedger
      /\ file # << >> => ~ticking /\ polled \subseteq file[1] /\ NoneLeft(polls)
  BY <1>1 DEF InTurn
<1>3. /\ startLedger \in Nat /\ endLedger \in Nat /\ polled \subseteq 1..Len(chain) /\ Len(chain) \in Nat
      /\ report \subseteq 1..Len(chain)
  BY LedgerType DEF TypeOK
<1>4. ASSUME NEW p \in Poll, NEW q \in {NoPoll}, polls' = [polls EXCEPT ![p] = q],
             UNCHANGED <<polled, startLedger, endLedger, file, ticking>>
      PROVE  InTurn'
  <2>1. \A r \in Poll : polls'[r] = polls[r] \/ polls'[r].stage = "none"
    BY <1>4, WalkerFields DEF TypeOK
  <2> QED BY <1>2, <1>4, <2>1 DEF InTurn
<1>5. CASE UNCHANGED <<polls, polled, startLedger, endLedger, file, ticking>>
  BY <1>2, <1>5 DEF InTurn
<1>6. CASE ReadStartBalance
  <2>1. file = << >> /\ UNCHANGED <<polls, polled, startLedger, endLedger, file>>
    BY <1>6 DEF ReadStartBalance, StartSound, range
  <2> QED BY <1>2, <2>1 DEF InTurn
<1>7. ASSUME NEW p \in Poll, StartPoll(p) PROVE InTurn'
  <2>1. NoneLeft(polls) /\ ticking
    BY <1>7 DEF StartPoll, TypeOK
  <2>2. \A r \in Poll : IF r = p THEN polls'[r].stage = "height" ELSE polls'[r].stage = "none"
    <3>1. polls' = [polls EXCEPT ![p].stage = "height"]
      BY <1>7 DEF StartPoll
    <3> QED BY <2>1, <3>1 DEF TypeOK, PollState
  <2>3. UNCHANGED <<polled, startLedger, endLedger, file>>
    BY <1>7 DEF StartPoll, range
  <2> QED BY <1>2, <2>1, <2>2, <2>3 DEF InTurn
<1>8. ASSUME NEW p \in Poll, PollHeight(p) PROVE InTurn'
  <2>1. polls[p].stage = "height" /\ \A r \in Poll : r # p => polls[r].stage = "none"
    BY <1>2, <1>8 DEF PollHeight
  <2>2. /\ polls'[p].stage = "balance" /\ polls'[p].height = Len(chain)
        /\ \A r \in Poll : r # p => polls'[r] = polls[r]
    <3>1. polls' = [polls EXCEPT ![p].stage = "balance", ![p].height = Len(chain)]
      BY <1>8 DEF PollHeight
    <3> QED BY <3>1 DEF TypeOK, PollState
  <2>3. UNCHANGED <<polled, startLedger, endLedger, file, ticking>> /\ file = << >>
    BY <1>2, <1>8, <2>1 DEF PollHeight, range
  <2> QED BY <1>2, <1>3, <2>1, <2>2, <2>3 DEF InTurn
<1>9. ASSUME NEW p \in Poll, PollBalance(p) PROVE InTurn'
  <2>1. polls[p].stage = "balance" /\ \A r \in Poll : r # p => polls[r].stage = "none"
    BY <1>2, <1>9 DEF PollBalance
  <2>2. /\ polls'[p].stage = "tail" /\ polls'[p].height = polls[p].height
        /\ \A r \in Poll : r # p => polls'[r] = polls[r]
    <3>1. polls' = [polls EXCEPT ![p].stage = "tail", ![p].balance = Balance]
      BY <1>9 DEF PollBalance
    <3> QED BY <3>1 DEF TypeOK, PollState
  <2>3. UNCHANGED <<polled, startLedger, endLedger, file, ticking>> /\ file = << >>
    BY <1>2, <1>9, <2>1 DEF PollBalance, range
  <2> QED BY <1>2, <1>3, <2>1, <2>2, <2>3 DEF InTurn
<1>10. ASSUME NEW p \in Poll, PollTail(p) PROVE InTurn'
  <2> DEFINE h == polls[p].height
  <2>1. /\ polls[p].stage = "tail" /\ h \in 1..Len(chain) /\ h \in Nat /\ file = << >>
        /\ \A r \in Poll : r # p => polls[r].stage = "none"
    BY <1>2, <1>3, <1>10 DEF PollTail, PollsSound
  <2>2. \A g \in polled : g <= h
    BY <1>2, <2>1
  <2> HIDE DEF h
  <2>3. CASE TxsIn(h) # 0
    <3>1. /\ polls' = [polls EXCEPT ![p] = NoPoll] /\ UNCHANGED <<endLedger, ticking, file>>
          /\ polled' = polled \cup {h}
          /\ startLedger' = IF firstLedger THEN h ELSE startLedger
      BY <1>10, <2>3 DEF PollTail, Ends, SeesFirst, h
    <3>2. \A r \in Poll : polls'[r].stage = "none"
      BY <2>1, <3>1, WalkerFields DEF TypeOK
    <3>3. CASE firstLedger
      <4>1. startLedger = 0 /\ startLedger' = h /\ polled = {}
        BY <1>2, <3>1, <3>3 DEF StartSound
      <4> QED BY <1>3, <2>1, <3>1, <3>2, <4>1 DEF InTurn
    <3>4. CASE ~firstLedger
      <4>1. startLedger # 0 /\ startLedger' = startLedger /\ startLedger <= h
        BY <1>2, <2>2, <3>1, <3>4 DEF StartSound
      <4> QED BY <1>2, <2>1, <3>1, <3>2, <4>1 DEF InTurn
    <3> QED BY <3>3, <3>4
  <2>4. CASE TxsIn(h) = 0 /\ ~Ends(polls[p])
    <3>1. polls' = [polls EXCEPT ![p] = NoPoll]
          /\ UNCHANGED <<polled, startLedger, endLedger, file, ticking>>
      BY <1>10, <2>4 DEF PollTail, SeesFirst, h
    <3> QED BY <1>4, <3>1
  <2>5. CASE TxsIn(h) = 0 /\ Ends(polls[p])
    <3>1. /\ UNCHANGED <<polled, startLedger>> /\ endLedger' = h
          /\ LoopAt(p, startLedger, h, report)
      BY <1>10, <2>5 DEF PollTail, SeesFirst, h
    <3>2. startLedger <= h
      BY <1>2, <1>3, <2>1, <2>2
    <3>3. polls' = [polls EXCEPT ![p] = Walker(startLedger)] /\ UNCHANGED <<ticking, file>>
      <4>1. h \in Nat /\ startLedger \in Nat /\ ~(h < startLedger)
        BY <1>3, <2>1, <3>2
      <4> QED BY <3>1, <4>1, LoopEffect
    <3>4. polls'[p].stage = "report" /\ \A r \in Poll : r # p => polls'[r].stage = "none"
      BY <2>1, <3>3, WalkerFields DEF TypeOK
    <3> QED BY <1>2, <2>1, <2>2, <3>1, <3>3, <3>4 DEF InTurn
  <2> QED BY <2>3, <2>4, <2>5
<1>11. ASSUME NEW p \in Poll, LedgerAnswer(p) PROVE InTurn'
  <2>1. /\ polls[p].stage = "report" /\ polls[p].ledger + 1 \in Nat
        /\ polls[p].ledger \in 1..Len(chain) /\ UNCHANGED <<polled, startLedger, endLedger>>
    <3>1. polls[p].ledger \in Nat /\ polls[p].node \in Node
      BY DEF TypeOK, PollState
    <3> QED BY <1>11, <3>1, LedgerExists DEF LedgerAnswer, range
  <2>2. /\ file = << >> /\ \A r \in Poll : r # p => polls[r].stage = "none"
        /\ \A g \in polled : startLedger <= g /\ g <= endLedger
    BY <1>2, <2>1
  <2>3. CASE polls[p].node + 1 < NodeNum
    <3>1. polls' = [polls EXCEPT ![p].node = polls[p].node + 1] /\ UNCHANGED <<ticking, file>>
      BY <1>11, <2>3 DEF LedgerAnswer
    <3>2. polls'[p].stage = "report" /\ \A r \in Poll : r # p => polls'[r] = polls[r]
      BY <2>1, <3>1 DEF TypeOK, PollState
    <3> QED BY <1>2, <2>1, <2>2, <3>1, <3>2 DEF InTurn
  <2>4. CASE ~(polls[p].node + 1 < NodeNum)
    <3>1. /\ LoopAt(p, polls[p].ledger + 1, endLedger, report')
          /\ report' = report \cup {polls[p].ledger}
      BY <1>11, <2>4 DEF LedgerAnswer
    <3>2. CASE polls' = [polls EXCEPT ![p] = Walker(polls[p].ledger + 1)] /\ UNCHANGED <<ticking, file>>
      <4>1. polls'[p].stage = "report" /\ \A r \in Poll : r # p => polls'[r] = polls[r]
        BY <3>2, WalkerFields DEF TypeOK
      <4> QED BY <1>2, <2>1, <2>2, <3>2, <4>1 DEF InTurn
    <3>3. CASE /\ endLedger < polls[p].ledger + 1 /\ polls' = [polls EXCEPT ![p] = NoPoll]
               /\ file' = <<report'>> /\ ticking' = FALSE
      <4>1. \A r \in Poll : polls'[r].stage = "none"
        BY <2>2, <3>3, WalkerFields DEF TypeOK
      <4>2. startLedger..polls[p].ledger - 1 \subseteq report
        BY <1>3, <2>1 DEF WalkSound
      <4>3. \A g \in polled : g \in startLedger..polls[p].ledger - 1 \/ g = polls[p].ledger
        BY <1>3, <2>1, <2>2, <3>3
      <4>4. polled' \subseteq file'[1]
        BY <2>1, <3>1, <3>3, <4>2, <4>3
      <4> QED BY <1>2, <2>1, <3>3, <4>1, <4>4 DEF InTurn
    <3> QED BY <1>3, <2>1, <3>1, <3>2, <3>3, LoopEffect
  <2> QED BY <2>3, <2>4
<1>12. ASSUME NEW p \in Poll, LedgerMissing(p) \/ PollRejected(p)
       PROVE  InTurn'
  BY <1>4, <1>12 DEF LedgerMissing, PollRejected, range
<1> QED BY <1>5, <1>6, <1>7, <1>8, <1>9, <1>10, <1>11, <1>12
        DEF Next, CloseLedger, Import, monitorVars, StartRejected, range, vars

\* The whole invariant of the monitor is inductive.
LEMMA MonitorInvStep == MonitorInv /\ [Next]_vars => MonitorInv'
BY TypeStep, LedgersStep, PollsStep, StartStep, WalkStep, GapsStep, InTurnStep DEF MonitorInv

------------------------------------------------------------------------------
(***************************************************************************)
(* The script.                                                             *)
(***************************************************************************)

\* What a request or a copy of the script that fails leaves alone.
unfailing == <<chain, imported, pc, startBalance, firstLedger, startLedger, endLedger, ticking,
               polls, report, file, polled, overlapped>>

\* A step of the round is one of the network and the monitor, with the script where it is, or one
\* of the script, which at most counts a failure.
LEMMA RoundSteps ==
  ASSUME TypeOK, [RoundNext]_allVars
  PROVE  \/ [Next]_vars /\ UNCHANGED roundVars
         \/ /\ MonitorExits \/ CopyLogs \/ CopyFails \/ PostProcessWrites \/ PostProcessFails
            /\ UNCHANGED unfailing
            /\ failures' \in 0..MaxFailures /\ failures <= failures'
<1>1. failures \in Nat /\ MaxFailures \in Nat /\ failures \in 0..MaxFailures
  BY StellarBoundAssumption DEF TypeOK
<1>2. CASE MonitorExits \/ CopyLogs \/ PostProcessWrites
  <2>1. UNCHANGED vars
    BY <1>2 DEF MonitorExits, CopyLogs, PostProcessWrites
  <2> QED BY <1>1, <1>2, <2>1 DEF vars, unfailing
<1>3. CASE CopyFails
  BY <1>1, <1>3 DEF CopyFails, unfailing, network, range
<1>4. CASE PostProcessFails
  BY <1>1, <1>4 DEF PostProcessFails, unfailing, network, range
<1>5. CASE UNCHANGED allVars
  BY <1>5 DEF allVars, vars, roundVars
<1> QED BY <1>2, <1>3, <1>4, <1>5 DEF RoundNext

\* A failure that the script meets does the monitor no harm.
LEMMA FailureIsHarmless ==
  ASSUME MonitorInv, UNCHANGED unfailing, failures' \in 0..MaxFailures, failures <= failures'
  PROVE  MonitorInv'
<1> USE DEF MonitorInv, unfailing
<1>1. Balance' = Balance
  BY DEF Balance
<1>2. TypeOK'
  BY DEF TypeOK
<1>3. LedgersSound' /\ PollsSound'
  BY <1>1 DEF LedgersSound, PollsSound, TxsOf
<1>4. failures # 0 => failures' # 0
  BY StellarBoundAssumption DEF TypeOK
<1>5. StartSound'
  BY <1>1, <1>4 DEF StartSound
<1>6. WalkSound' /\ GapsSound' /\ InTurn'
  BY DEF WalkSound, GapsSound, NoGap, InTurn
<1> QED BY <1>2, <1>3, <1>5, <1>6

\* The invariant of the monitor holds beside the script.
LEMMA MonitorStepInRound == MonitorInv /\ [RoundNext]_allVars => MonitorInv'
BY RoundSteps, MonitorInvStep, FailureIsHarmless DEF MonitorInv

\* Behind its exit the monitor neither polls nor writes.
LEMMA MonitorStays ==
  ASSUME TypeOK, StartSound, ScriptSound, script # "monitor", [RoundNext]_allVars
  PROVE  /\ UNCHANGED <<pc, polled, overlapped, ticking, polls, file, startBalance, endLedger>>
         /\ script' # "monitor"
<1>1. pc # "startBalance" /\ ~ticking /\ \A p \in Poll : polls[p].stage = "none"
  BY DEF ScriptSound
<1>2. [Next]_vars => UNCHANGED <<pc, polled, overlapped, ticking, polls, file, startBalance, endLedger>>
  BY <1>1 DEF Next, CloseLedger, Import, monitorVars, ReadStartBalance, StartPoll, PollHeight,
              PollBalance, PollTail, LedgerAnswer, LedgerMissing, PollRejected, StartRejected, vars
<1> QED BY <1>2, RoundSteps DEF unfailing, roundVars, MonitorExits, CopyLogs, CopyFails,
           PostProcessWrites, PostProcessFails

\* When the file is written every transfer of the round is sealed.
LEMMA AllSealed ==
  ASSUME TypeOK, LedgersSound, StartSound, file # << >>, Supply = Target
  PROVE  Balance = Supply /\ Supply \in Nat
<1>1. Balance >= startBalance + Target /\ Balance <= Supply /\ startBalance \in Nat
  BY DEF StartSound, LedgersSound, TypeOK
<1> QED BY <1>1, LedgerType

\* A monitor that read its start balance and has exited has written its file.
LEMMA ExitedWithFile ==
  ASSUME TypeOK, StartSound, ScriptSound, script # "monitor", pc # "exited"
  PROVE  /\ pc = "polling" /\ file # << >> /\ file = <<file[1]>>
         /\ file[1] \subseteq 1..Len(chain) /\ Len(file) = 1
<1>1. pc = "polling" /\ file # << >>
  BY DEF TypeOK, StartSound, ScriptSound
<1>2. PICK f \in SUBSET (1..Len(chain)) : file = <<f>>
  BY <1>1 DEF TypeOK
<1> QED BY <1>1, <1>2

\* Every step keeps the types of the script.
LEMMA RoundTypeStep == RoundTypeOK /\ MonitorInv /\ [RoundNext]_allVars => RoundTypeOK'
<1> SUFFICES ASSUME RoundTypeOK, MonitorInv, [RoundNext]_allVars PROVE RoundTypeOK'
  OBVIOUS
<1>1. TypeOK'
  BY MonitorStepInRound DEF MonitorInv
<1>2. /\ script' \in {"monitor", "copy", "post", "written", "failed"}
      /\ missing' \in BOOLEAN
  BY DEF RoundTypeOK, RoundNext, MonitorExits, CopyLogs, CopyFails, PostProcessWrites,
         PostProcessFails, roundVars, allVars
<1>3. logs' \subseteq 1..Supply
  <2>1. CASE CopyLogs
    <3>1. PICK more \in SUBSET (Balance + 1..Supply) : logs' = 1..Balance \cup more
      BY <2>1 DEF CopyLogs
    <3>2. Balance \in Nat /\ Supply \in Nat /\ Balance <= Supply
      BY LedgerType DEF MonitorInv, LedgersSound
    <3> QED BY <3>1, <3>2
  <2>2. CASE logs' = logs
    BY <2>2 DEF RoundTypeOK
  <2> QED BY <2>1, <2>2 DEF RoundNext, MonitorExits, CopyFails, PostProcessWrites, PostProcessFails,
             roundVars, allVars
<1>4. \A h \in DOMAIN final' : h \in Nat /\ final'[h] \subseteq 0..Supply
  <2>1. CASE PostProcessWrites
    <3>1. PICK old \in OldReports :
            /\ CanFinish(Loaded(old))
            /\ final' = [h \in Loaded(old)[1] |->
                           (IF h <= Len(chain) THEN TxsOf(h) \cap logs ELSE {})
                             \cup (IF file = << >> THEN {0} ELSE {})]
      BY <2>1 DEF PostProcessWrites
    <3>2. Loaded(old)[1] \subseteq Nat
      <4>1. CASE file # << >>
        <5>1. PICK f \in SUBSET (1..Len(chain)) : file = <<f>>
          BY <4>1 DEF RoundTypeOK, TypeOK
        <5> QED BY <4>1, <5>1, LedgerType DEF Loaded, MonitorInv
      <4>2. CASE file = << >>
        <5>1. Loaded(old) = old /\ old # << >>
          BY <3>1, <4>2 DEF Loaded, CanFinish
        <5> QED BY <5>1, OldReportAssumption
      <4> QED BY <4>1, <4>2
    <3>3. logs \subseteq 0..Supply /\ 0 \in 0..Supply
      BY StellarLoadAssumption DEF RoundTypeOK
    <3>4. \A h \in DOMAIN final' : h \in Loaded(old)[1] /\ final'[h] \subseteq logs \cup {0}
      BY <3>1
    <3> QED BY <3>2, <3>3, <3>4
  <2>2. CASE final' = final
    BY <2>2 DEF RoundTypeOK
  <2> QED BY <2>1, <2>2 DEF RoundNext, MonitorExits, CopyLogs, CopyFails, PostProcessFails,
             roundVars, allVars
<1> QED BY <1>1, <1>2, <1>3, <1>4 DEF RoundTypeOK

\* What has closed stays beside the script too.
LEMMA TransfersStayInRound ==
  ASSUME TypeOK, LedgersSound, [RoundNext]_allVars
  PROVE  /\ Len(chain) \in Nat /\ Len(chain') \in Nat /\ Len(chain) <= Len(chain')
         /\ \A h \in 1..Len(chain) : TxsIn(h)' = TxsIn(h) /\ TxsOf(h)' = TxsOf(h)
<1>1. CASE [Next]_vars
  BY <1>1, LedgerType, LedgersStay, TransfersStay
<1>2. CASE UNCHANGED chain
  BY <1>2, LedgerType DEF TxsIn, TxsOf
<1> QED BY <1>1, <1>2, RoundSteps DEF unfailing

\* A step that leaves the script of the round where it is.
LEMMA ScriptRests ==
  ASSUME RoundTypeOK, [RoundNext]_allVars
  PROVE  \/ UNCHANGED roundVars
         \/ MonitorExits \/ CopyLogs \/ CopyFails \/ PostProcessWrites \/ PostProcessFails
BY DEF RoundNext, allVars, roundVars

\* The script goes on only behind the monitor, with the logs of the whole round.
LEMMA ScriptStep == RoundTypeOK /\ MonitorInv /\ ScriptSound /\ [RoundNext]_allVars => ScriptSound'
<1> SUFFICES ASSUME RoundTypeOK, MonitorInv, ScriptSound, [RoundNext]_allVars PROVE ScriptSound'
  OBVIOUS
<1>1. TypeOK /\ LedgersSound /\ StartSound
  BY DEF MonitorInv
<1>2. failures \in Nat /\ failures' \in Nat /\ failures <= failures'
  <2>1. [Next]_vars => failures' \in {failures, failures + 1}
    BY DEF Next, CloseLedger, Import, monitorVars, ReadStartBalance, StartPoll, PollHeight,
           PollBalance, PollTail, LedgerAnswer, LedgerMissing, PollRejected, StartRejected, vars
  <2> QED BY <1>1, <2>1, RoundSteps, StellarBoundAssumption DEF TypeOK
<1>3. script' # "monitor" => /\ pc' # "startBalance" /\ ~ticking'
                             /\ \A p \in Poll : polls'[p].stage = "none"
  <2>1. CASE script # "monitor"
    BY <1>1, <2>1, MonitorStays DEF ScriptSound
  <2>2. CASE MonitorExits
    BY <2>2 DEF MonitorExits, vars
  <2> QED BY <2>1, <2>2, ScriptRests DEF roundVars, CopyLogs, CopyFails, PostProcessWrites,
             PostProcessFails
<1>4. missing' => failures' # 0
  <2>1. CASE CopyFails
    BY <1>2, <2>1 DEF CopyFails
  <2>2. CASE missing' = missing
    BY <1>2, <2>2 DEF ScriptSound
  <2> QED BY <2>1, <2>2, ScriptRests DEF roundVars, MonitorExits, CopyLogs, PostProcessWrites,
             PostProcessFails
<1>5. ASSUME script' \in {"post", "written", "failed"}, ~missing', pc' = "polling", Supply = Target
      PROVE  logs' = 1..Supply
  <2>1. script # "monitor"
    BY <1>5, ScriptRests DEF roundVars, MonitorExits, CopyLogs, CopyFails, PostProcessWrites,
       PostProcessFails
  <2>2. pc = "polling" /\ file # << >>
    BY <1>1, <1>5, <2>1, MonitorStays, ExitedWithFile
  <2>3. CASE CopyLogs
    <3>1. PICK more \in SUBSET (Balance + 1..Supply) : logs' = 1..Balance \cup more
      BY <2>3 DEF CopyLogs
    <3>2. Balance = Supply /\ Supply \in Nat
      BY <1>1, <1>5, <2>2, AllSealed
    <3>3. Balance + 1..Supply = {}
      BY <3>2
    <3> QED BY <3>1, <3>2, <3>3
  <2>4. CASE ~CopyLogs
    <3>1. logs' = logs /\ script \in {"post", "written", "failed"} /\ missing' = missing
      BY <1>5, <2>4, ScriptRests DEF roundVars, MonitorExits, CopyFails, PostProcessWrites,
         PostProcessFails
    <3> QED BY <1>5, <2>2, <3>1 DEF ScriptSound
  <2> QED BY <2>3, <2>4
<1>6. ASSUME script' = "written", pc' # "exited" PROVE DOMAIN final' \subseteq 1..Len(chain')
  <2>1. script \in {"post", "written"} /\ (PostProcessWrites \/ (script = "written" /\ final' = final))
    BY <1>6, ScriptRests DEF roundVars, MonitorExits, CopyLogs, CopyFails, PostProcessWrites,
       PostProcessFails
  <2>2. pc' = pc
    BY <1>1, <2>1, MonitorStays
  <2>3. Len(chain) \in Nat /\ Len(chain') \in Nat /\ Len(chain) <= Len(chain')
    BY <1>1, TransfersStayInRound
  <2>4. CASE PostProcessWrites
    <3>1. file # << >> /\ file[1] \subseteq 1..Len(chain)
      BY <1>1, <1>6, <2>1, <2>2, ExitedWithFile
    <3>2. DOMAIN final' = file[1]
      BY <2>4, <3>1 DEF PostProcessWrites, Loaded
    <3> QED BY <2>3, <3>1, <3>2
  <2>5. CASE script = "written" /\ final' = final
    <3>1. DOMAIN final \subseteq 1..Len(chain)
      BY <1>6, <2>2, <2>5 DEF ScriptSound
    <3> QED BY <2>3, <2>5, <3>1
  <2> QED BY <2>1, <2>4, <2>5
<1> QED BY <1>3, <1>4, <1>5, <1>6 DEF ScriptSound

\* A written report stays that of the round: what it places has closed.
LEMMA WrittenStep ==
  RoundTypeOK /\ MonitorInv /\ ScriptSound /\ WrittenReportIsOfRound /\ [RoundNext]_allVars
    => WrittenReportIsOfRound'
<1> SUFFICES ASSUME RoundTypeOK, MonitorInv, ScriptSound, WrittenReportIsOfRound, [RoundNext]_allVars,
                    script' = "written"
             PROVE  WrittenReportIsOfRound'
  BY DEF WrittenReportIsOfRound
<1>1. TypeOK /\ LedgersSound /\ StartSound
  BY DEF MonitorInv
<1>2. PostProcessWrites \/ (script = "written" /\ final' = final)
  BY ScriptRests DEF roundVars, MonitorExits, CopyLogs, CopyFails, PostProcessWrites, PostProcessFails
<1>3. script \in {"post", "written"}
  BY <1>2 DEF PostProcessWrites
<1>4. pc' = pc
  BY <1>1, <1>3, MonitorStays
<1>5. CASE pc = "exited"
  <2>1. CASE PostProcessWrites
    <3>1. file = << >>
      BY <1>1, <1>5 DEF StartSound
    <3>2. PICK old \in OldReports :
            final' = [h \in Loaded(old)[1] |->
                        (IF h <= Len(chain) THEN TxsOf(h) \cap logs ELSE {})
                          \cup (IF file = << >> THEN {0} ELSE {})]
      BY <2>1 DEF PostProcessWrites
    <3> QED
      BY <1>4, <1>5, <3>1, <3>2 DEF WrittenReportIsOfRound
  <2>2. CASE script = "written" /\ final' = final
    BY <1>4, <1>5, <2>2 DEF WrittenReportIsOfRound
  <2> QED
    BY <1>2, <2>1, <2>2
<1> SUFFICES ASSUME pc # "exited"
             PROVE  /\ \A h \in DOMAIN final' : final'[h] \subseteq TxsOf(h)'
                    /\ Supply = Target => UNION {final'[h] : h \in DOMAIN final'} = 1..Supply
  BY <1>4, <1>5 DEF WrittenReportIsOfRound
<1>6. \A h \in 1..Len(chain) : TxsOf(h)' = TxsOf(h)
  BY <1>1, TransfersStayInRound
<1>7. CASE PostProcessWrites
  <2>1. pc = "polling" /\ file # << >> /\ file[1] \subseteq 1..Len(chain)
    BY <1>1, <1>3, <1>4, ExitedWithFile
  <2>2. PICK old \in OldReports : /\ CanFinish(Loaded(old))
                                  /\ final' = [h \in Loaded(old)[1] |->
                                       (IF h <= Len(chain) THEN TxsOf(h) \cap logs ELSE {})
                                         \cup (IF file = << >> THEN {0} ELSE {})]
    BY <1>7 DEF PostProcessWrites
  <2>3. Loaded(old) = file
    BY <2>1 DEF Loaded
  <2>4. \A h \in file[1] : h <= Len(chain)
    BY <1>1, <2>1, LedgerType
  <2>5. DOMAIN final' = file[1] /\ \A h \in file[1] : final'[h] = TxsOf(h) \cap logs
    BY <2>1, <2>2, <2>3, <2>4
  <2>6. \A h \in DOMAIN final' : final'[h] \subseteq TxsOf(h)'
    BY <1>6, <2>1, <2>5
  <2>7. ASSUME Supply = Target PROVE UNION {final'[h] : h \in DOMAIN final'} = 1..Supply
    <3>1. script = "post" /\ ~missing
      BY <1>7, <2>2 DEF PostProcessWrites, CanFinish
    <3>2. logs = 1..Supply
      BY <2>1, <2>7, <3>1 DEF ScriptSound
    <3>3. \A t \in logs : \E h \in file[1] : t \in TxsOf(h)
      BY <2>2, <2>3 DEF CanFinish, CanPlace
    <3> QED BY <2>5, <3>2, <3>3
  <2> QED BY <2>6, <2>7
<1>8. CASE script = "written" /\ final' = final
  <2>1. DOMAIN final \subseteq 1..Len(chain)
    BY <1>4, <1>8 DEF ScriptSound
  <2>2. /\ \A h \in DOMAIN final : final[h] \subseteq TxsOf(h)
        /\ Supply = Target => UNION {final[h] : h \in DOMAIN final} = 1..Supply
    BY <1>4, <1>8 DEF WrittenReportIsOfRound
  <2> QED BY <1>6, <1>8, <2>1, <2>2
<1> QED BY <1>2, <1>7, <1>8

\* Post-processing fails on its own only if a ledger with transactions was never looked at.
LEMMA PolledStep ==
  RoundTypeOK /\ MonitorInv /\ ScriptSound /\ PolledRoundIsWritten /\ [RoundNext]_allVars
    => PolledRoundIsWritten'
<1> SUFFICES ASSUME RoundTypeOK, MonitorInv, ScriptSound, PolledRoundIsWritten, [RoundNext]_allVars,
                    Supply = Target, script' = "failed", failures' = 0, ~overlapped'
             PROVE  \E h \in 1..Len(chain') : TxsIn(h)' # 0 /\ h \notin polled'
  BY DEF PolledRoundIsWritten
<1>1. TypeOK /\ LedgersSound /\ StartSound /\ InTurn
  BY DEF MonitorInv
<1>2. PostProcessFails \/ script = "failed"
  BY ScriptRests DEF roundVars, MonitorExits, CopyLogs, CopyFails, PostProcessWrites
<1>3. script \in {"post", "failed"}
  BY <1>2 DEF PostProcessFails
<1>4. UNCHANGED <<pc, polled, overlapped, file>>
  BY <1>1, <1>3, MonitorStays
<1>5. failures = 0
  <2>1. failures \in Nat
    BY <1>1, StellarBoundAssumption DEF TypeOK
  <2>2. [Next]_vars => failures' \in {failures, failures + 1}
    BY DEF Next, CloseLedger, Import, monitorVars, ReadStartBalance, StartPoll, PollHeight,
           PollBalance, PollTail, LedgerAnswer, LedgerMissing, PollRejected, StartRejected, vars
  <2> QED BY <1>1, <2>1, <2>2, RoundSteps
<1>6. ASSUME NEW h \in 1..Len(chain), TxsIn(h) # 0, h \notin polled
      PROVE  \E g \in 1..Len(chain') : TxsIn(g)' # 0 /\ g \notin polled'
  <2>1. h \in 1..Len(chain') /\ TxsIn(h)' = TxsIn(h)
    BY <1>1, TransfersStayInRound
  <2> QED BY <1>4, <1>6, <2>1
<1>7. CASE script = "failed"
  BY <1>4, <1>5, <1>6, <1>7 DEF PolledRoundIsWritten
<1>8. CASE PostProcessFails
  <2>1. pc # "exited" /\ ~missing
    BY <1>1, <1>5 DEF StartSound, ScriptSound
  <2>2. pc = "polling" /\ file # << >>
    BY <1>1, <1>3, <2>1, ExitedWithFile
  <2>3. PICK old \in OldReports : ~CanFinish(Loaded(old))
    BY <1>5, <1>8, StellarBoundAssumption DEF PostProcessFails
  <2>4. Loaded(old) = file /\ logs = 1..Supply
    BY <1>8, <2>1, <2>2 DEF Loaded, ScriptSound, PostProcessFails
  <2>5. PICK t \in 1..Supply : ~CanPlace(t, file[1])
    BY <2>1, <2>2, <2>3, <2>4 DEF CanFinish
  <2>6. PICK h \in 1..Len(chain) : t \in TxsOf(h)
    BY <1>1, <2>2, AllSealed DEF LedgersSound
  <2>7. TxsIn(h) # 0
    BY <1>1, <2>6, SomeTransfers
  <2>8. h \notin polled
    BY <1>1, <1>4, <2>2, <2>5, <2>6 DEF InTurn, CanPlace
  <2> QED BY <1>6, <2>7, <2>8
<1> QED BY <1>2, <1>7, <1>8

------------------------------------------------------------------------------
(***************************************************************************)
(* The invariant of the round, and what follows from it.                   *)
(***************************************************************************)

\* A round starts in it.
LEMMA RoundInvInit == RoundInit => RoundInv
<1> SUFFICES ASSUME RoundInit PROVE RoundInv
  OBVIOUS
<1>1. /\ chain = <<0>> /\ Len(chain) = 1 /\ chain \in Seq(Nat) /\ chain[1] = 0
      /\ Balance = 0 /\ Supply \in Nat
  BY StellarLoadAssumption DEF RoundInit, Init, Balance
<1>2. polls \in [Poll -> PollState] /\ \A p \in Poll : polls[p] = NoPoll
  BY PollTypes DEF RoundInit, Init
<1>3. TypeOK
  <2>1. imported \in [Node \ {0} -> Nat] /\ failures \in 0..MaxFailures
    BY StellarBoundAssumption DEF RoundInit, Init
  <2>2. /\ report \subseteq 1..Len(chain) /\ polled \subseteq 1..Len(chain)
        /\ file \in {<< >>} \cup {<<f>> : f \in SUBSET (1..Len(chain))}
    BY DEF RoundInit, Init
  <2>3. /\ pc \in {"startBalance", "polling", "exited"}
        /\ startBalance \in Nat /\ startLedger \in Nat /\ endLedger \in Nat
        /\ firstLedger \in BOOLEAN /\ ticking \in BOOLEAN /\ overlapped \in BOOLEAN
    BY DEF RoundInit, Init
  <2> QED BY <1>1, <1>2, <2>1, <2>2, <2>3 DEF TypeOK
<1>4. LedgersSound
  BY <1>1 DEF RoundInit, Init, LedgersSound
<1>5. PollsSound /\ WalkSound
  BY <1>1, <1>2 DEF PollsSound, WalkSound, NoPoll
<1>6. StartSound
  BY <1>1, <1>2 DEF RoundInit, Init, StartSound, NoPoll
<1>7. GapsSound /\ InTurn
  BY <1>2 DEF RoundInit, Init, GapsSound, NoGap, InTurn, NoPoll
<1>8. RoundTypeOK
  <2>1. DOMAIN << >> = {}
    OBVIOUS
  <2> QED BY <1>3, <2>1 DEF RoundInit, RoundTypeOK
<1> QED BY <1>3, <1>4, <1>5, <1>6, <1>7, <1>8
        DEF RoundInit, RoundInv, MonitorInv, ScriptSound, WrittenReportIsOfRound, PolledRoundIsWritten

\* Every step preserves it.
LEMMA RoundInvStep == RoundInv /\ [RoundNext]_allVars => RoundInv'
BY RoundTypeStep, MonitorStepInRound, ScriptStep, WrittenStep, PolledStep DEF RoundInv

\* It holds of every round; the fairness of the round is not needed.
LEMMA RoundInvariance == RoundSpec => []RoundInv
BY RoundInvInit, RoundInvStep, PTL DEF RoundSpec

\* The variables of the network, the monitor and the script keep their types.
THEOREM RoundTypeCorrect == RoundSpec => []RoundTypeOK
BY RoundInvariance, PTL DEF RoundInv

\* However many callbacks walk the ledgers at once, the file of the monitor has no gap.
THEOREM FilesHaveNoGap == RoundSpec => []FileHasNoGap
<1>1. RoundInv => FileHasNoGap
  BY DEF RoundInv, MonitorInv, GapsSound, NoGap, FileHasNoGap
<1> QED BY <1>1, RoundInvariance, PTL

\* The report of an earlier round is filled exactly if the start balance could not be read; a report
\* written otherwise has every transaction of the round in its ledger, and no other
\* (oneRoundTesting.sh:49-65, post_process.js:8-18).
THEOREM WrittenReportsAreOfRound == RoundSpec => []WrittenReportIsOfRound
BY RoundInvariance, PTL DEF RoundInv

\* Without overlapping callbacks and failures, post-processing fails only if no callback looked
\* at some ledger with transactions.
THEOREM PolledRoundsAreWritten == RoundSpec => []PolledRoundIsWritten
BY RoundInvariance, PTL DEF RoundInv

\* A step of the round is a step of the abstract detection of its end or leaves it alone: a
\* ledger with transfers is Seal, the first callback to end the round is Declare.
LEMMA DetectionStep == RoundInv /\ [RoundNext]_allVars => [Detection!Next]_(Detection!vars)
<1> SUFFICES ASSUME RoundInv, [RoundNext]_allVars
             PROVE  Detection!Next \/ (Balance' = Balance /\ (endLedger' # 0 <=> endLedger # 0))
  <2>1. ASSUME Balance' = Balance, endLedger' # 0 <=> endLedger # 0 PROVE UNCHANGED Detection!vars
    <3>1. (endLedger' # 0) = (endLedger # 0)
      BY <2>1
    <3> QED BY <2>1, <3>1 DEF Detection!vars
  <2> QED BY <2>1
<1>1. TypeOK /\ LedgersSound /\ PollsSound /\ startBalance \in Nat /\ Target \in Nat
  BY StellarLoadAssumption DEF RoundInv, MonitorInv, TypeOK
<1>2. CASE UNCHANGED <<chain, endLedger>>
  BY <1>2 DEF Balance
<1>3. ASSUME NEW n \in 0..Supply, CloseLedger(n), [Next]_vars
      PROVE  Detection!Next \/ (Balance' = Balance /\ (endLedger' # 0 <=> endLedger # 0))
  <2>1. /\ Balance \in Nat /\ Balance' \in Nat /\ Balance <= Balance' /\ Balance' <= Supply
        /\ Supply \in Nat
    BY <1>1, <1>3, LedgerType, LedgersStay
  <2>2. endLedger' = endLedger
    BY <1>3 DEF CloseLedger, monitorVars
  <2>3. CASE Balance' # Balance
    <3>1. Balance' \in (Balance + 1)..Supply
      BY <2>1, <2>3
    <3> QED BY <2>2, <3>1 DEF Detection!Next, Detection!Seal
  <2> QED BY <2>2, <2>3
<1>4. ASSUME NEW p \in Poll, PollTail(p)
      PROVE  Detection!Next \/ (Balance' = Balance /\ (endLedger' # 0 <=> endLedger # 0))
  <2>1. Balance' = Balance
    BY <1>4 DEF PollTail, network, Balance
  <2>2. CASE Ends(polls[p])
    <3>1. endLedger' # 0
      BY <1>1, <1>4, <2>2, LedgerType DEF PollTail, PollsSound
    <3>2. Balance >= Target
      BY <1>1, <2>2, LedgerType DEF PollsSound, Ends, TypeOK, PollState
    <3> QED BY <2>1, <3>1, <3>2 DEF Detection!Next, Detection!Declare
  <2>3. CASE ~Ends(polls[p])
    BY <1>4, <2>1, <2>3 DEF PollTail
  <2> QED BY <2>2, <2>3
<1>5. [Next]_vars => \/ UNCHANGED <<chain, endLedger>>
                     \/ \E n \in 0..Supply : CloseLedger(n)
                     \/ \E p \in Poll : PollTail(p)
  BY DEF Next, Import, monitorVars, ReadStartBalance, StartPoll, PollHeight, PollBalance,
         LedgerAnswer, LedgerMissing, PollRejected, StartRejected, network, range, vars
<1> QED BY <1>1, <1>2, <1>3, <1>4, <1>5, RoundSteps DEF unfailing

\* So every round implements it: it is declared over at most once and never early.
THEOREM RoundImplementsDetection == RoundSpec => DetectionSpec
<1>1. RoundInit => Detection!Init
  BY DEF RoundInit, Init, Detection!Init, Balance
<1> QED BY <1>1, DetectionStep, RoundInvariance, PTL DEF RoundSpec, DetectionSpec, Detection!Spec

(***************************************************************************)
(* What there is to send: numbers.                                         *)
(***************************************************************************)

\* The constants of the account programs are positive.
LEMMA LoadConstants ==
  /\ StartAccount \in Nat \ {0} /\ OpCount \in Nat \ {0} /\ BatchSize \in Nat \ {0}
  /\ Calls \in Nat \ {0} /\ ThreadNum \in Nat \ {0} /\ Duration \in Nat \ {0}
  /\ Rates \subseteq Nat \ {0} /\ Sources \in Nat \ {0} /\ StartAccount <= Sources
<1>1. /\ StartAccount \in Nat \ {0} /\ OpCount \in Nat \ {0} /\ BatchSize \in Nat \ {0}
      /\ Calls \in Nat \ {0} /\ ThreadNum \in Nat \ {0} /\ Duration \in Nat \ {0}
      /\ Rates \subseteq Nat \ {0}
  BY LoadAssumption
<1>2. ASSUME NEW a \in Nat \ {0}, NEW b \in Nat \ {0} PROVE a * b \in Nat \ {0} /\ a <= a * b
  OBVIOUS
<1>3. Sources \in Nat \ {0} /\ StartAccount <= Sources
  BY <1>1, <1>2 DEF Sources
<1> QED
  BY <1>1, <1>3

\* A number lies between the multiples below and above it.
LEMMA Divided ==
  ASSUME NEW a \in Nat, NEW n \in Nat \ {0}
  PROVE  /\ a \div n \in Nat /\ a % n \in 0..n - 1
         /\ a = n * (a \div n) + (a % n)
         /\ a \in (a \div n) * n .. ((a \div n) + 1) * n - 1
OBVIOUS

\* Below the m-th multiple, quotients are below m.
LEMMA QuotientBelow ==
  ASSUME NEW a \in Nat, NEW n \in Nat \ {0}, NEW m \in Nat, a < m * n
  PROVE  a \div n \in 0..m - 1
OBVIOUS

\* Products grow with their first factor.
LEMMA Multiples ==
  ASSUME NEW i \in Nat, NEW j \in Nat, NEW n \in Nat, i <= j
  PROVE  /\ i * n \in Nat /\ j * n \in Nat /\ i * n <= j * n
         /\ (i + 1) * n = i * n + n
OBVIOUS

\* Two numbers that are closer than n have different remainders.
LEMMA RemaindersDiffer ==
  ASSUME NEW a \in Nat, NEW b \in Nat, NEW n \in Nat \ {0}, a % n = b % n, a - b < n, b - a < n
  PROVE  a = b
<1> DEFINE p == a \div n
           q == b \div n
<1>1. /\ p \in Nat /\ q \in Nat /\ a % n \in Nat
      /\ a = n * p + (a % n) /\ b = n * q + (a % n)
  <2>1. p \in Nat /\ a % n \in 0..n - 1 /\ a = n * p + (a % n)
    BY Divided
  <2>2. q \in Nat /\ b % n \in 0..n - 1 /\ b = n * q + (b % n)
    BY Divided
  <2> QED
    BY <2>1, <2>2
<1> HIDE DEF p, q
<1>2. CASE p < q
  <2>1. (p + 1) * n <= q * n /\ (p + 1) * n = p * n + n
    BY <1>1, <1>2, Multiples
  <2> QED
    BY <1>1, <2>1
<1>3. CASE q < p
  <2>1. (q + 1) * n <= p * n /\ (q + 1) * n = q * n + n
    BY <1>1, <1>3, Multiples
  <2> QED
    BY <1>1, <2>1
<1>4. CASE p = q
  BY <1>1, <1>4
<1> QED
  BY <1>1, <1>2, <1>3, <1>4

\* The batches of the third level make up all of it.
LEMMA BatchesFit ==
  /\ Batches \in Nat \ {0} /\ Batches * BatchSize = Calls * Sources
  /\ BatchSize <= Sources /\ Calls * Sources \in Nat
  /\ LastStage \in Nat /\ LastStage >= 4
<1> DEFINE q == Sources \div BatchSize
<1>1. /\ q \in Nat /\ Sources = BatchSize * q + (Sources % BatchSize)
      /\ BatchSize \in Nat \ {0} /\ Sources \in Nat \ {0} /\ Calls \in Nat \ {0}
  BY LoadConstants, Divided
<1>2. Sources % BatchSize = 0
  BY LoadAssumption
<1> HIDE DEF q
<1>3. Sources = BatchSize * q /\ q # 0
  <2>1. Sources = BatchSize * q
    BY <1>1, <1>2
  <2> QED
    BY <2>1, <1>1
<1>4. Batches = Calls * q
  BY DEF Batches, q
<1>5. ASSUME NEW c \in Nat \ {0}, NEW b \in Nat \ {0}, NEW k \in Nat \ {0}
      PROVE  c * k \in Nat \ {0} /\ (c * k) * b = c * (b * k) /\ b <= b * k
  OBVIOUS
<1> QED
  BY <1>1, <1>3, <1>4, <1>5 DEF LastStage

(***************************************************************************)
(* Requests, and what they make.                                           *)
(***************************************************************************)

\* The requests of a stage are requests, no two of them with the same signer.
LEMMA RequestsAre ==
  ASSUME NEW s \in 1..LastStage
  PROVE  /\ Requests(s) \subseteq Request
         /\ \A q, r \in Requests(s) : Signer(q) = Signer(r) => q = r
<1> USE LoadConstants, BatchesFit
<1>1. CASE s = 1
  BY <1>1 DEF Requests, Request
<1>2. CASE s = 2
  BY <1>2 DEF Requests, Request
<1>3. CASE s = 3
  <2>1. Requests(s) = {Second(i) : i \in 0..StartAccount - 1}
    BY <1>3 DEF Requests
  <2>2. \A i \in 0..StartAccount - 1 : Signer(Second(i)) = i
    BY DEF Second, Signer
  <2> QED
    BY <2>1, <2>2 DEF Request
<1>4. CASE s > 3
  <2>1. Requests(s) = Batch(s - 4) /\ s - 4 \in 0..Batches - 1
    BY <1>4 DEF Requests, LastStage
  <2>2. PICK b \in 0..Batches - 1 : b = s - 4
    BY <2>1
  <2>3. /\ b * BatchSize \in Nat /\ (b + 1) * BatchSize = b * BatchSize + BatchSize
        /\ (b + 1) * BatchSize <= Calls * Sources
    BY Multiples
  <2> DEFINE low == b * BatchSize
             N == low .. low + BatchSize - 1
  <2>4. Requests(s) = {Test(i) : i \in N}
    BY <2>1, <2>2, <2>3 DEF Batch
  <2>5. N \subseteq 0..Calls * Sources - 1
    BY <2>3
  <2>6. ASSUME NEW i \in N, NEW j \in N, Signer(Test(i)) = Signer(Test(j)) PROVE i = j
    <3>1. i % Sources = j % Sources
      BY <2>6 DEF Signer, Test
    <3>2. i \in Nat /\ j \in Nat /\ i - j < Sources /\ j - i < Sources
      BY <2>3
    <3> QED
      BY <3>1, <3>2, RemaindersDiffer
  <2> HIDE DEF N
  <2> QED
    BY <2>4, <2>5, <2>6 DEF Request
<1> QED
  BY <1>1, <1>2, <1>3, <1>4

\* What requests make are keys of the store and test accounts.
LEMMA MadeAre ==
  /\ 0..StartAccount - 1 \subseteq KeyStore
  /\ \A i \in 0..StartAccount - 1 : SecondKeys(i) \subseteq KeyStore
  /\ \A j \in 0..Calls * Sources - 1 : TestAccounts(j) \subseteq TestAccount
<1> USE LoadConstants, BatchesFit
<1>1. 0..StartAccount - 1 \subseteq KeyStore
  BY DEF KeyStore
<1>2. ASSUME NEW i \in 0..StartAccount - 1 PROVE SecondKeys(i) \subseteq KeyStore
  <2>1. i * OpCount \in Nat /\ (i + 1) * OpCount \in Nat /\ (i + 1) * OpCount <= Sources
    BY Multiples DEF Sources
  <2> QED
    BY <2>1 DEF SecondKeys, KeyStore
<1>3. ASSUME NEW j \in 0..Calls * Sources - 1 PROVE TestAccounts(j) \subseteq TestAccount
  <2>1. j * OpCount \in Nat /\ (j + 1) * OpCount \in Nat
        /\ (j + 1) * OpCount <= (Calls * Sources) * OpCount
    BY Multiples
  <2>2. (Calls * Sources) * OpCount = Calls * PerCall
    BY DEF PerCall
  <2> QED
    BY <2>1, <2>2 DEF TestAccounts, TestAccount
<1> QED
  BY <1>1, <1>2, <1>3

(***************************************************************************)
(* The inductive invariant of the accounts and the payments.               *)
(***************************************************************************)

\* Nothing went wrong with a request of signer s.
Clean(s) == \A r \in faulty : Signer(r) # s

\* The script waits for requests of its stage; what it no longer waits for timed out.
RequestsSound ==
  /\ awaited \subseteq Requests(stage)
  /\ pending \ awaited \subseteq faulty

\* The accounts of the first two levels are there once their requests are decided, where nothing
\* went wrong with their makers.
KeysMade ==
  Clean(RootAccount) =>
    /\ Root \notin pending => 0..StartAccount - 1 \subseteq keys
    /\ stage >= 2 /\ Destination \notin pending => dest
    /\ stage >= 3 => \A i \in 0..StartAccount - 1 :
                       Clean(i) /\ Second(i) \notin pending => SecondKeys(i) \subseteq keys

\* Test request j has been sent.
IsSent(j) == 4 + (j \div BatchSize) <= stage

\* So are the test accounts, where nothing went wrong with their source or its makers.
AccountsMade ==
  \A j \in 0..Calls * Sources - 1 :
    /\ IsSent(j) /\ Test(j) \notin pending
    /\ Clean(j % Sources) /\ Clean(Signer(MakerOfKey(j % Sources))) /\ Clean(RootAccount)
    => TestAccounts(j) \subseteq accounts

\* The threads that are done have paid from all accounts of their slices, and from no other.
PaymentsSound ==
  /\ finished # {} => Created
  /\ \A a \in paid : \E t \in finished : a \in Slice(t)
  /\ faulty = {} => \A t \in finished : Slice(t) \cap TestAccount \subseteq paid

LoadInv == LoadTypeOK /\ RequestsSound /\ KeysMade /\ AccountsMade /\ PaymentsSound

\* If two requests of one signer are under way, one of them has timed out.
LEMMA RivalIsFaulty ==
  ASSUME LoadTypeOK, RequestsSound, NEW q \in pending, NEW r \in pending, q # r,
         Signer(q) = Signer(r)
  PROVE  ~Clean(Signer(r))
<1>1. ASSUME q \in awaited, r \in awaited PROVE FALSE
  <2>1. q \in Requests(stage) /\ r \in Requests(stage) /\ stage \in 1..LastStage
    BY <1>1 DEF LoadTypeOK, RequestsSound
  <2> QED
    BY <2>1, RequestsAre
<1>2. q \in faulty \/ r \in faulty
  BY <1>1 DEF RequestsSound
<1> QED
  BY <1>2 DEF Clean

\* A request of an earlier stage that is still under way has timed out.
LEMMA OldIsFaulty ==
  ASSUME RequestsSound, NEW r \in pending, r \notin Requests(stage)
  PROVE  ~Clean(Signer(r))
BY DEF RequestsSound, Clean

\* The source of a test request is there, if nothing went wrong with its makers.
LEMMA SourceIsMade ==
  ASSUME LoadTypeOK, RequestsSound, KeysMade, stage >= 4, NEW i \in 0..Sources - 1,
         Clean(Signer(MakerOfKey(i))), Clean(RootAccount)
  PROVE  i \in keys
<1> USE LoadConstants
<1>1. stage \in Nat /\ Requests(stage) = Batch(stage - 4)
  BY BatchesFit DEF LoadTypeOK, Requests
<1>2. \A r \in Requests(stage) : r.level = "test"
  BY <1>1 DEF Batch, Test
<1>3. CASE i < StartAccount
  <2>1. Root \notin Requests(stage) /\ Signer(Root) = RootAccount
    BY <1>2 DEF Root, Signer
  <2>2. Root \notin pending
    BY <2>1, OldIsFaulty
  <2>3. 0..StartAccount - 1 \subseteq keys
    BY <2>2 DEF KeysMade
  <2> QED
    BY <2>3, <1>3
<1>4. CASE i >= StartAccount
  <2> DEFINE a == i - StartAccount
             k == a \div OpCount
  <2>1. a \in Nat /\ a < StartAccount * OpCount
    BY <1>4 DEF Sources
  <2>2. k \in 0..StartAccount - 1 /\ a \in k * OpCount .. (k + 1) * OpCount - 1
    BY <2>1, QuotientBelow, Divided
  <2>3. MakerOfKey(i) = Second(k) /\ Signer(Second(k)) = k
    BY <1>4 DEF MakerOfKey, Second, Signer
  <2>4. Second(k) \notin pending
    <3>1. Second(k) \notin Requests(stage)
      BY <1>2 DEF Second
    <3> QED
      BY <3>1, <2>3, OldIsFaulty
  <2> HIDE DEF k
  <2>5. SecondKeys(k) \subseteq keys
    BY <1>1, <2>2, <2>3, <2>4 DEF KeysMade
  <2>6. i \in SecondKeys(k)
    <3>1. k * OpCount \in Nat /\ (k + 1) * OpCount \in Nat
      BY <2>2, Multiples
    <3> QED
      BY <3>1, <2>1, <2>2 DEF SecondKeys
  <2> QED
    BY <2>5, <2>6
<1> QED
  BY <1>3, <1>4

\* What can go wrong with a level is told by its faulty requests: the first property of the load.
LEMMA LossIsContainedHolds ==
  ASSUME LoadTypeOK, RequestsSound, AccountsMade
  PROVE  LossIsContained
<1> USE LoadConstants, BatchesFit
<1> SUFFICES ASSUME Created, NEW a \in TestAccount \ accounts,
                    \A r \in faulty : Signer(r) \notin
                      {Signer(MakerOfAccount(a)), Signer(MakerOfKey(Signer(MakerOfAccount(a)))),
                       RootAccount}
             PROVE  FALSE
  BY DEF LossIsContained
<1> DEFINE j == a \div OpCount
           b == j \div BatchSize
<1>1. a \in Nat /\ a < (Calls * Sources) * OpCount
  <2>1. Calls * PerCall = (Calls * Sources) * OpCount
    BY DEF PerCall
  <2> QED
    BY <2>1 DEF TestAccount
<1>2. j \in 0..Calls * Sources - 1 /\ a \in j * OpCount .. (j + 1) * OpCount - 1
  BY <1>1, QuotientBelow, Divided
<1>3. a \in TestAccounts(j) /\ MakerOfAccount(a) = Test(j)
  BY <1>2 DEF TestAccounts, MakerOfAccount
<1> HIDE DEF j
<1>4. Signer(Test(j)) = j % Sources
  BY DEF Signer, Test
<1>5. Clean(j % Sources) /\ Clean(Signer(MakerOfKey(j % Sources))) /\ Clean(RootAccount)
  BY <1>3, <1>4 DEF Clean
<1>6. Test(j) \notin pending
  BY <1>4, <1>5 DEF Created, RequestsSound, Clean
<1>7. IsSent(j)
  <2>1. j \in Nat /\ j < Batches * BatchSize
    BY <1>2
  <2>2. b \in 0..Batches - 1
    BY <2>1, QuotientBelow
  <2> QED
    BY <2>2 DEF IsSent, Created, LastStage
<1> QED
  BY <1>2, <1>3, <1>5, <1>6, <1>7 DEF AccountsMade

\* When nothing went wrong, the payments have all accounts to come from and one to go to.
LEMMA AllIsCreated ==
  ASSUME LoadTypeOK, RequestsSound, KeysMade, AccountsMade, Created, faulty = {}
  PROVE  accounts = TestAccount /\ dest
<1>1. accounts = TestAccount
  BY LossIsContainedHolds DEF LossIsContained, LoadTypeOK
<1>2. Destination \notin pending
  BY DEF RequestsSound, Created
<1>3. stage >= 2
  BY BatchesFit DEF Created
<1>4. Clean(RootAccount)
  BY DEF Clean
<1> QED
  BY <1>1, <1>2, <1>3, <1>4 DEF KeysMade

\* At first the root account's request is all there is.
LEMMA LoadInvInit == LoadInit => LoadInv
<1> SUFFICES ASSUME LoadInit PROVE LoadInv
  OBVIOUS
<1> USE LoadConstants, BatchesFit DEF LoadInit
<1>1. Requests(1) = {Root} /\ Root \in Request
  BY DEF Requests, Request
<1>2. LoadTypeOK
  <2>1. rate \in Rates /\ stage \in 1..LastStage
    OBVIOUS
  <2>2. pending = {Root} /\ awaited = {Root}
    BY <1>1
  <2> QED
    BY <1>1, <2>1, <2>2 DEF LoadTypeOK
<1>3. RequestsSound /\ KeysMade
  BY <1>1 DEF RequestsSound, KeysMade
<1>4. AccountsMade
  <2>1. \A j \in 0..Calls * Sources - 1 : j \div BatchSize \in Nat
    BY Divided
  <2> QED
    BY <2>1 DEF AccountsMade, IsSent
<1>5. PaymentsSound
  BY DEF PaymentsSound
<1> QED
  BY <1>2, <1>3, <1>4, <1>5 DEF LoadInv

\* What went wrong stays: a signer with no faulty request later has none now.
LEMMA CleanEarlier ==
  ASSUME faulty \subseteq faulty'
  PROVE  \A s : Clean(s)' => Clean(s)
BY DEF Clean

\* A new stage: all of the one before is decided, or has timed out.
LEMMA NextStageKeeps ==
  ASSUME LoadInv, NextStage
  PROVE  LoadInv'
<1> USE LoadConstants, BatchesFit DEF NextStage
<1>1. stage \in Nat /\ stage + 1 \in 1..LastStage /\ finished = {}
  BY DEF LoadInv, LoadTypeOK, PaymentsSound, Created
<1>2. Requests(stage + 1) \subseteq Request
  BY <1>1, RequestsAre
<1>3. LoadTypeOK'
  BY <1>1, <1>2 DEF LoadInv, LoadTypeOK
<1>4. RequestsSound'
  BY DEF LoadInv, RequestsSound
<1>5. \A s : Clean(s)' => Clean(s)
  BY CleanEarlier
<1>6. KeysMade'
  <2> SUFFICES ASSUME Clean(RootAccount)'
               PROVE  /\ Root \notin pending' => 0..StartAccount - 1 \subseteq keys'
                      /\ stage' >= 2 /\ Destination \notin pending' => dest'
                      /\ stage' >= 3 => \A i \in 0..StartAccount - 1 :
                           Clean(i)' /\ Second(i) \notin pending' => SecondKeys(i) \subseteq keys'
    BY DEF KeysMade
  <2>1. /\ Root \notin pending => 0..StartAccount - 1 \subseteq keys
        /\ stage >= 2 /\ Destination \notin pending => dest
        /\ stage >= 3 => \A i \in 0..StartAccount - 1 :
             Clean(i) /\ Second(i) \notin pending => SecondKeys(i) \subseteq keys
    BY <1>5 DEF LoadInv, KeysMade
  <2>2. stage = 1 => Destination \in pending'
    BY DEF Requests
  <2>3. stage = 2 => \A i \in 0..StartAccount - 1 : Second(i) \in pending'
    BY DEF Requests
  <2> QED
    BY <1>1, <1>5, <2>1, <2>2, <2>3
<1>7. AccountsMade'
  <2> SUFFICES ASSUME NEW j \in 0..Calls * Sources - 1, IsSent(j)', Test(j) \notin pending',
                      Clean(j % Sources)', Clean(Signer(MakerOfKey(j % Sources)))',
                      Clean(RootAccount)'
               PROVE  TestAccounts(j) \subseteq accounts'
    BY DEF AccountsMade
  <2> DEFINE b == j \div BatchSize
  <2>1. j \in Nat /\ b \in Nat /\ j \in b * BatchSize .. (b + 1) * BatchSize - 1
    <3>1. j \in Nat
      OBVIOUS
    <3> QED
      BY <3>1, Divided
  <2>2. 4 + b <= stage + 1
    BY DEF IsSent
  <2>3. 4 + b # stage + 1
    <3>1. Test(j) \in Batch(b)
      BY <2>1 DEF Batch
    <3>2. ASSUME 4 + b = stage + 1 PROVE FALSE
      <4> HIDE DEF b
      <4>1. (stage + 1) - 4 = b /\ stage + 1 > 3
        BY <1>1, <2>1, <3>2
      <4>2. Requests(stage + 1) = Batch((stage + 1) - 4)
        BY <4>1, <1>1 DEF Requests
      <4> QED
        BY <3>1, <4>1, <4>2
    <3> QED
      BY <3>2
  <2>4. IsSent(j)
    BY <1>1, <2>1, <2>2, <2>3 DEF IsSent
  <2> QED
    BY <1>5, <2>4 DEF LoadInv, AccountsMade
<1>8. PaymentsSound'
  BY <1>1 DEF LoadInv, PaymentsSound
<1> QED
  BY <1>3, <1>4, <1>6, <1>7, <1>8 DEF LoadInv

\* The network decides a request.  Where nothing went wrong with the signer no rival fails with
\* it, and where the levels before are whole its signer is there.
LEMMA ApplyKeeps ==
  ASSUME LoadInv, NEW r \in pending, Apply(r)
  PROVE  LoadInv'
<1> USE LoadConstants, BatchesFit
<1>1. LoadTypeOK /\ RequestsSound /\ KeysMade /\ AccountsMade /\ PaymentsSound
  BY DEF LoadInv
<1>2. UNCHANGED <<rate, stage, faulty, finished, paid>>
  BY DEF Apply
<1>3. PICK gone \in SUBSET pending :
        /\ \A q \in gone : q = r \/ Signer(q) = Signer(r)
        /\ r \in gone /\ pending' = pending \ gone /\ awaited' = awaited \ gone
  <2> DEFINE rivals == {q \in pending \ {r} : Signer(q) = Signer(r)}
  <2>1. PICK failed \in SUBSET rivals :
          /\ pending' = pending \ ({r} \cup failed)
          /\ awaited' = awaited \ ({r} \cup failed)
    BY DEF Apply
  <2> WITNESS {r} \cup failed \in SUBSET pending
  <2> QED
    BY <2>1
<1>4. \A s : Clean(s)' <=> Clean(s)
  BY <1>2 DEF Clean
<1>5. \A q \in pending \ pending' : Clean(Signer(q)) => q = r
  BY <1>1, <1>3, RivalIsFaulty
<1>6. stage \in Nat /\ r \in Request /\ awaited \subseteq pending
  BY <1>1 DEF LoadTypeOK
<1>7. keys \subseteq keys' /\ (dest => dest') /\ accounts \subseteq accounts'
  BY DEF Apply
<1>8. LoadTypeOK'
  <2>1. ASSUME r.level = "second" PROVE r.index \in 0..StartAccount - 1
    BY <1>6, <2>1 DEF Request, Root, Destination, Second, Test
  <2>2. ASSUME r.level = "test" PROVE r.index \in 0..Calls * Sources - 1
    BY <1>6, <2>2 DEF Request, Root, Destination, Second, Test
  <2>3. keys' \subseteq KeyStore
    BY <1>1, <2>1, MadeAre DEF Apply, LoadTypeOK
  <2>4. accounts' \subseteq TestAccount
    BY <1>1, <2>2, MadeAre DEF Apply, LoadTypeOK
  <2>5. dest' \in BOOLEAN
    BY DEF Apply
  <2> QED
    BY <1>1, <1>2, <1>3, <1>7, <2>3, <2>4, <2>5 DEF LoadTypeOK
<1>9. RequestsSound'
  BY <1>1, <1>2, <1>3 DEF RequestsSound
<1>10. KeysMade'
  <2> SUFFICES ASSUME Clean(RootAccount)
               PROVE  /\ Root \notin pending' => 0..StartAccount - 1 \subseteq keys'
                      /\ stage >= 2 /\ Destination \notin pending' => dest'
                      /\ stage >= 3 => \A i \in 0..StartAccount - 1 :
                           Clean(i) /\ Second(i) \notin pending' => SecondKeys(i) \subseteq keys'
    BY <1>2, <1>4 DEF KeysMade
  <2>1. /\ Root \notin pending => 0..StartAccount - 1 \subseteq keys
        /\ stage >= 2 /\ Destination \notin pending => dest
        /\ stage >= 3 => \A i \in 0..StartAccount - 1 :
             Clean(i) /\ Second(i) \notin pending => SecondKeys(i) \subseteq keys
    BY <1>1 DEF KeysMade
  <2>2. Signer(Root) = RootAccount /\ Signer(Destination) = RootAccount
    BY DEF Signer, Root, Destination
  <2>3. ASSUME Root \in pending, Root \notin pending' PROVE 0..StartAccount - 1 \subseteq keys'
    <3>1. r = Root
      BY <1>5, <2>2, <2>3
    <3> QED
      BY <3>1 DEF Apply, Root
  <2>4. ASSUME Destination \in pending, Destination \notin pending' PROVE dest'
    <3>1. r = Destination
      BY <1>5, <2>2, <2>4
    <3> QED
      BY <3>1 DEF Apply, Destination
  <2>5. ASSUME stage >= 3, NEW i \in 0..StartAccount - 1, Clean(i), Second(i) \in pending,
               Second(i) \notin pending'
        PROVE  SecondKeys(i) \subseteq keys'
    <3>1. Signer(Second(i)) = i
      BY DEF Signer, Second
    <3>2. r = Second(i)
      BY <1>5, <2>5, <3>1
    <3>3. Root \notin pending
      <4>1. Root \notin Requests(stage)
        BY <1>6, <2>5 DEF Requests, Batch, Root, Second, Test
      <4> QED
        BY <1>1, <2>2, <4>1, OldIsFaulty
    <3>4. CanSign(r)
      BY <2>1, <3>1, <3>2, <3>3 DEF CanSign
    <3> QED
      BY <3>2, <3>4 DEF Apply, Second
  <2> QED
    BY <1>7, <2>1, <2>3, <2>4, <2>5
<1>11. AccountsMade'
  <2> SUFFICES ASSUME NEW j \in 0..Calls * Sources - 1, IsSent(j), Test(j) \notin pending',
                      Clean(j % Sources), Clean(Signer(MakerOfKey(j % Sources))),
                      Clean(RootAccount)
               PROVE  TestAccounts(j) \subseteq accounts'
    BY <1>2, <1>4 DEF AccountsMade, IsSent
  <2>1. CASE Test(j) \notin pending
    BY <1>1, <1>7, <2>1 DEF AccountsMade
  <2>2. CASE Test(j) \in pending
    <3>1. Signer(Test(j)) = j % Sources
      BY DEF Signer, Test
    <3>2. r = Test(j)
      BY <1>5, <2>2, <3>1
    <3>3. j \in Nat /\ j % Sources \in 0..Sources - 1 /\ j \div BatchSize \in Nat
      <4>1. j \in Nat
        OBVIOUS
      <4> QED
        BY <4>1, Divided
    <3>4. stage >= 4
      BY <1>6, <3>3 DEF IsSent
    <3>5. j % Sources \in keys
      BY <1>1, <3>3, <3>4, SourceIsMade
    <3>6. CanSign(r)
      BY <3>1, <3>2, <3>5 DEF CanSign
    <3> QED
      BY <3>2, <3>6 DEF Apply, Test
  <2> QED
    BY <2>1, <2>2
<1>12. PaymentsSound'
  <2>1. Created => Created'
    BY <1>2, <1>3 DEF Created
  <2>2. \A t \in finished : Slice(t)' = Slice(t)
    BY <1>2 DEF Slice, Share
  <2> QED
    BY <1>1, <1>2, <2>1, <2>2 DEF PaymentsSound
<1> QED
  BY <1>8, <1>9, <1>10, <1>11, <1>12 DEF LoadInv

\* A request is lost: nothing is said any more of what its signer should have made.
LEMMA LoseKeeps ==
  ASSUME LoadInv, NEW r \in pending, Lose(r)
  PROVE  LoadInv'
<1>1. LoadTypeOK /\ RequestsSound /\ KeysMade /\ AccountsMade /\ PaymentsSound
  BY DEF LoadInv
<1>2. /\ UNCHANGED <<rate, stage, keys, dest, accounts, finished, paid>>
      /\ faulty' = faulty \cup {r} /\ pending' = pending \ {r} /\ awaited' = awaited \ {r}
      /\ r \in awaited
  BY DEF Lose
<1>3. \A s : Clean(s)' => Clean(s) /\ s # Signer(r)
  BY <1>2 DEF Clean
<1>4. LoadTypeOK' /\ RequestsSound'
  BY <1>1, <1>2 DEF LoadTypeOK, RequestsSound
<1>5. KeysMade'
  <2>1. Signer(Root) = RootAccount /\ Signer(Destination) = RootAccount
    BY DEF Signer, Root, Destination
  <2>2. \A i \in 0..StartAccount - 1 : Signer(Second(i)) = i
    BY DEF Signer, Second
  <2> QED
    BY <1>1, <1>2, <1>3, <2>1, <2>2 DEF KeysMade
<1>6. AccountsMade'
  <2>1. \A j \in 0..Calls * Sources - 1 : Signer(Test(j)) = j % Sources
    BY DEF Signer, Test
  <2> QED
    BY <1>1, <1>2, <1>3, <2>1 DEF AccountsMade, IsSent
<1>7. PaymentsSound'
  <2>1. finished = {} /\ paid = {}
    BY <1>1, <1>2 DEF PaymentsSound, Created
  <2> QED
    BY <1>2, <2>1 DEF PaymentsSound
<1> QED
  BY <1>4, <1>5, <1>6, <1>7 DEF LoadInv

\* A request times out: it stays under way, and its signer is not clean from now on.
LEMMA TimesOutKeeps ==
  ASSUME LoadInv, NEW r \in pending, TimesOut(r)
  PROVE  LoadInv'
<1>1. LoadTypeOK /\ RequestsSound /\ KeysMade /\ AccountsMade /\ PaymentsSound
  BY DEF LoadInv
<1>2. /\ UNCHANGED <<rate, stage, pending, keys, dest, accounts, finished, paid>>
      /\ faulty' = faulty \cup {r} /\ awaited' = awaited \ {r} /\ r \in awaited
  BY DEF TimesOut
<1>3. \A s : Clean(s)' => Clean(s)
  BY <1>2, CleanEarlier
<1>4. LoadTypeOK' /\ RequestsSound'
  BY <1>1, <1>2 DEF LoadTypeOK, RequestsSound
<1>5. KeysMade' /\ AccountsMade'
  BY <1>1, <1>2, <1>3 DEF KeysMade, AccountsMade, IsSent
<1>6. PaymentsSound'
  BY <1>1, <1>2 DEF PaymentsSound, Created
<1> QED
  BY <1>4, <1>5, <1>6 DEF LoadInv

\* A thread pays.
LEMMA SendLoadKeeps ==
  ASSUME LoadInv, NEW t \in Thread, SendLoad(t)
  PROVE  LoadInv'
<1>1. LoadTypeOK /\ RequestsSound /\ KeysMade /\ AccountsMade /\ PaymentsSound
  BY DEF LoadInv
<1>2. /\ Created /\ finished' = finished \cup {t} /\ paid' = paid \cup Payments(t)
      /\ UNCHANGED <<rate, stage, awaited, pending, keys, dest, accounts, faulty>>
  BY DEF SendLoad, createVars
<1>3. Payments(t) \subseteq accounts /\ Payments(t) \subseteq Slice(t)
  BY DEF Payments
<1>4. LoadTypeOK'
  BY <1>1, <1>2, <1>3 DEF LoadTypeOK
<1>5. RequestsSound' /\ KeysMade' /\ AccountsMade'
  BY <1>1, <1>2 DEF RequestsSound, KeysMade, AccountsMade, IsSent, Clean
<1>6. PaymentsSound'
  <2>1. \A k \in Thread : Slice(k)' = Slice(k)
    BY <1>2 DEF Slice, Share
  <2>2. Created'
    BY <1>2 DEF Created
  <2>3. \A a \in paid' : \E k \in finished' : a \in Slice(k)
    BY <1>1, <1>2, <1>3 DEF PaymentsSound
  <2>4. ASSUME faulty = {} PROVE \A k \in finished' : Slice(k) \cap TestAccount \subseteq paid'
    <3>1. Payments(t) = Slice(t) \cap TestAccount
      BY <1>1, <1>2, <2>4, AllIsCreated DEF Payments
    <3> QED
      BY <1>1, <1>2, <2>4, <3>1 DEF PaymentsSound
  <2>5. finished' \subseteq Thread
    BY <1>4 DEF LoadTypeOK
  <2> QED
    BY <1>2, <2>1, <2>2, <2>3, <2>4, <2>5 DEF PaymentsSound
<1> QED
  BY <1>4, <1>5, <1>6 DEF LoadInv

\* Every step keeps the invariant.
LEMMA LoadInvNext == LoadInv /\ [LoadNext]_loadVars => LoadInv'
<1> SUFFICES ASSUME LoadInv, [LoadNext]_loadVars PROVE LoadInv'
  OBVIOUS
<1>1. CASE NextStage
  BY <1>1, NextStageKeeps
<1>2. CASE \E r \in pending : Apply(r) \/ Lose(r) \/ TimesOut(r)
  BY <1>2, ApplyKeeps, LoseKeeps, TimesOutKeeps
<1>3. CASE \E t \in Thread : SendLoad(t)
  BY <1>3, SendLoadKeeps
<1>4. CASE UNCHANGED loadVars
  BY <1>4 DEF LoadInv, LoadTypeOK, RequestsSound, KeysMade, AccountsMade, PaymentsSound, IsSent,
              Clean, Created, Slice, Share, loadVars, createVars
<1> QED
  BY <1>1, <1>2, <1>3, <1>4 DEF LoadNext

\* The slices end below the load that the threads share, which is the rate's load without what is
\* lost in the division.
LEMMA SharesOfRate ==
  ASSUME LoadInv
  PROVE  /\ rate \in Nat \ {0} /\ rate * Duration \in Nat \ {0} /\ Share \in Nat
         /\ rate % ThreadNum \in Nat /\ (rate % ThreadNum) * Duration \in Nat
         /\ ThreadNum * Share \in Nat
         /\ rate * Duration = ThreadNum * Share + (rate % ThreadNum) * Duration
<1> USE LoadConstants
<1> DEFINE q == rate \div ThreadNum
           m == rate % ThreadNum
<1>1. rate \in Nat \ {0}
  BY DEF LoadInv, LoadTypeOK
<1>2. q \in Nat /\ m \in Nat /\ rate = ThreadNum * q + m
  BY <1>1, Divided
<1>3. Share = q * Duration
  BY DEF Share
<1> HIDE DEF q, m
<1>4. \A a, b \in Nat : a * b \in Nat /\ (a # 0 /\ b # 0 => a * b # 0)
  OBVIOUS
<1>5. \A a, b, c \in Nat : a * (b * c) = (a * b) * c /\ (a + b) * c = a * c + b * c
  OBVIOUS
<1>6. /\ q * Duration \in Nat /\ ThreadNum * q \in Nat /\ m * Duration \in Nat
      /\ rate * Duration \in Nat \ {0}
  BY <1>1, <1>2, <1>4
<1>7. ThreadNum * Share \in Nat
  BY <1>3, <1>4, <1>6
<1>8. rate * Duration = ThreadNum * Share + m * Duration
  <2>1. rate * Duration = (ThreadNum * q) * Duration + m * Duration
    BY <1>2, <1>5, <1>6
  <2>2. (ThreadNum * q) * Duration = ThreadNum * Share
    BY <1>2, <1>3, <1>5
  <2> QED
    BY <2>1, <2>2
<1> QED
  BY <1>1, <1>2, <1>3, <1>6, <1>7, <1>8 DEF m

\* Payments come from the slices, and from accounts there are.
LEMMA PaidBelow ==
  ASSUME LoadInv
  PROVE  /\ paid \subseteq 0..ThreadNum * Share - 1 /\ paid \subseteq TestAccount
         /\ IsFiniteSet(TestAccount) /\ Cardinality(TestAccount) \in Nat
         /\ TestAccount = 0..Cardinality(TestAccount) - 1
<1> USE LoadConstants
<1>1. Share \in Nat /\ ThreadNum * Share \in Nat
  BY SharesOfRate
<1>2. paid \subseteq 0..ThreadNum * Share - 1
  <2> SUFFICES ASSUME NEW a \in paid PROVE a \in 0..ThreadNum * Share - 1
    OBVIOUS
  <2>1. PICK t \in Thread : a \in Slice(t)
    BY DEF LoadInv, PaymentsSound, LoadTypeOK
  <2>2. t * Share <= ThreadNum * Share /\ (t - 1) * Share \in Nat /\ t * Share \in Nat
    BY <1>1, Multiples DEF Thread
  <2> QED
    BY <1>1, <2>1, <2>2 DEF Slice
<1>3. TestAccount = 0..Calls * PerCall - 1 /\ Calls * PerCall \in Nat
  <2>1. Sources * OpCount \in Nat
    OBVIOUS
  <2>2. \A a \in Nat : Calls * a \in Nat
    OBVIOUS
  <2> QED
    BY <2>1, <2>2 DEF TestAccount, PerCall
<1>4. IsFiniteSet(TestAccount) /\ Cardinality(TestAccount) = Calls * PerCall
  BY <1>3, FS_Interval
<1>5. paid \subseteq TestAccount
  BY DEF LoadInv, LoadTypeOK
<1> QED
  BY <1>2, <1>3, <1>4, <1>5

\* The threads together pay from as many accounts as the monitor waits for, or from fewer.
LEMMA LoadMeetsTargetHolds == LoadInv => LoadMeetsTarget
<1> SUFFICES ASSUME LoadInv PROVE LoadMeetsTarget
  OBVIOUS
<1> USE LoadConstants
<1> DEFINE N == rate * Duration
           m == rate % ThreadNum
           T == ThreadNum * Share
           A == Cardinality(TestAccount)
<1>1. /\ N \in Nat \ {0} /\ m \in Nat /\ T \in Nat /\ Share \in Nat
      /\ m * Duration \in Nat /\ N = T + m * Duration
  BY SharesOfRate
<1>2. /\ paid \subseteq 0..T - 1 /\ paid \subseteq TestAccount
      /\ IsFiniteSet(TestAccount) /\ A \in Nat /\ TestAccount = 0..A - 1
  BY PaidBelow
<1>3. T = ThreadNum * Share
  OBVIOUS
<1> HIDE DEF N, m, T, A
<1>4. ASSUME Cardinality(paid) = N PROVE m = 0 /\ N <= A
  <2>1. IsFiniteSet(0..T - 1) /\ Cardinality(0..T - 1) = T
    BY <1>1, FS_Interval
  <2>2. Cardinality(paid) <= T
    <3>1. paid \in SUBSET (0..T - 1)
      BY <1>2
    <3>2. Cardinality(paid) <= Cardinality(0..T - 1)
      BY <2>1, <3>1, FS_Subset
    <3> QED
      BY <2>1, <3>2
  <2>3. Cardinality(paid) <= A
    BY <1>2, FS_Subset DEF A
  <2>4. m * Duration = 0
    BY <1>1, <1>4, <2>2
  <2>5. \A a, b \in Nat : a * b = 0 => a = 0 \/ b = 0
    OBVIOUS
  <2> QED
    BY <1>1, <1>4, <2>3, <2>4, <2>5
<1>5. ASSUME finished = Thread, faulty = {}, m = 0, N <= A
      PROVE  Cardinality(paid) = N
  <2>1. N = T /\ Share \in Nat \ {0}
    <3>1. 0 * Duration = 0 /\ ThreadNum * 0 = 0
      OBVIOUS
    <3> QED
      BY <1>1, <1>3, <1>5, <3>1
  <2>2. 0..N - 1 \subseteq paid
    <3> SUFFICES ASSUME NEW a \in 0..N - 1 PROVE a \in paid
      OBVIOUS
    <3> DEFINE k == a \div Share
    <3>1. a \in Nat /\ a < ThreadNum * Share
      BY <1>1, <1>3, <2>1
    <3>2. k \in 0..ThreadNum - 1 /\ a \in k * Share .. (k + 1) * Share - 1
      BY <2>1, <3>1, QuotientBelow, Divided
    <3> HIDE DEF k
    <3>3. k + 1 \in Thread /\ (k + 1) - 1 = k
      BY <3>2 DEF Thread
    <3>4. a \in Slice(k + 1)
      BY <3>2, <3>3 DEF Slice
    <3>5. a \in TestAccount
      BY <1>1, <1>2, <1>5
    <3> QED
      BY <1>5, <3>3, <3>4, <3>5 DEF LoadInv, PaymentsSound
  <2>3. paid = 0..N - 1
    BY <1>2, <2>1, <2>2
  <2> QED
    BY <1>1, <2>3, FS_Interval
<1> QED
  BY <1>4, <1>5 DEF LoadMeetsTarget, N, m, A

\* In every reachable state the accounts, the requests and the payments are well typed
\* (createAccount.js, workload.js).
THEOREM LoadTypeCorrect == LoadSpec => []LoadTypeOK
<1>1. LoadInv => LoadTypeOK
  BY DEF LoadInv
<1> QED
  BY <1>1, LoadInvInit, LoadInvNext, PTL DEF LoadSpec

\* A test account that is missing after the creation of accounts is behind a request that was
\* lost or timed out: levels and batches leave no account out and use no source before it is
\* there (createAccount.js:16-48).
THEOREM LossesAreContained == LoadSpec => []LossIsContained
<1>1. LoadInv => LossIsContained
  BY LossIsContainedHolds DEF LoadInv
<1> QED
  BY <1>1, LoadInvInit, LoadInvNext, PTL DEF LoadSpec

\* The slices of the threads do not overlap and, if no request went wrong, leave nothing out; they
\* come to what the monitor waits for exactly if the rate divides by the number of threads and
\* there are accounts enough (oneRoundTesting.sh:20-21, 43-50).
THEOREM TargetIsMet == LoadSpec => []LoadMeetsTarget
BY LoadMeetsTargetHolds, LoadInvInit, LoadInvNext, PTL DEF LoadSpec

=============================================================================
