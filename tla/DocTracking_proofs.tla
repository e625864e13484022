--------------------------- MODULE DocTracking_proofs ---------------------------
(***************************************************************************)
(* What a round of document tracking guarantees, for every number of       *)
(* nodes, every rate, duration and number of threads, and every bound: all *)
(* accounts that send are registered, the monitor is released only behind  *)
(* the last operation, and the rows of the report are in order, and        *)
(* complete unless a late callback moves the range.                        *)
(***************************************************************************)
EXTENDS DocTracking, CommonLemmas, TLAPS

(***************************************************************************)
(* The inductive invariant.                                                *)
(***************************************************************************)

\* The accounts are registered without a gap, as far as the batches have come; and the batches
\* come to the rate.
AccountsSound ==
  /\ prep = "deploy" => batch = 0
  /\ prep \in {"batches", "done"} => 1..batch * BatchSize + 1 \subseteq registered
  /\ prep = "done" => round.rate <= batch * BatchSize

\* With an even rate, a thread has sent the rate once for each nonce, stops at the duration, and
\* no account gets further than that.
ThreadsSound ==
  Even(Rate) =>
    /\ \A t \in Thread : Rate # 0 =>
         /\ thread[t].sent = thread[t].nonce * Rate
         /\ thread[t].nonce <= round.duration
         /\ thread[t].periods = IF thread[t].nonce = round.duration THEN 0 ELSE 1
    /\ \A op \in pool : op[2] < round.duration
    /\ \A a \in Account : next[a] <= round.duration

\* Once main is released, the contract has counted what the round expects.
ReleasedSound == Released => PerRound(round.rate) + 2 <= Logs + Docs

\* Once the start height is read the range begins behind the genesis block, and the block that
\* is awaited is one of the chain.
RangeSound ==
  /\ pc \notin {"start", "stuck"} => startBlock >= 1
  /\ pc = "report" => block \in 1..height

\* The report while it is made, and when it is done.
ReportSound ==
  /\ RowsInOrder(report)
  /\ pc \in {"start", "stuck", "polling"} => report = << >>
  /\ pc = "report" => OrderedTo(report, node, block)
  /\ pc = "report" /\ ~disturbed => FilledTo(report, node, block, startBlock, endBlock)
  /\ pc = "done" /\ ~disturbed => RowsComplete(report, startBlock, endBlock)

DocInv ==
  TypeOK /\ AccountsSound /\ ThreadsSound /\ ReleasedSound /\ RangeSound /\ ReportSound


------------------------------------------------------------------------------
(***************************************************************************)
(* Numbers, accounts and counters.                                         *)
(***************************************************************************)

\* Products of natural numbers.
LEMMA Products ==
  ASSUME NEW a \in Nat, NEW b \in Nat, NEW c \in Nat
  PROVE  /\ a * c \in Nat /\ (a + 1) * c = a * c + c
         /\ a <= b => a * c <= b * c
OBVIOUS

\* The bounds are natural numbers.
LEMMA Bounds == MaxTicks \in Nat /\ Extra \in Nat /\ MaxFailures \in Nat /\ BatchSize \in Nat \ {0}
<1>1. MaxTicks \in {MaxTicks, Extra, MaxFailures} /\ Extra \in {MaxTicks, Extra, MaxFailures}
      /\ MaxFailures \in {MaxTicks, Extra, MaxFailures}
  OBVIOUS
<1>2. {MaxTicks, Extra, MaxFailures} \subseteq Nat /\ BatchSize \in Nat \ {0}
  BY DocAssumption
<1> QED
  BY <1>1, <1>2

\* A quotient is not above what is divided, and below it if the divisor is above 1.
LEMMA Quotients ==
  ASSUME NEW a \in Nat \ {0}, NEW n \in Nat \ {0}
  PROVE  a \div n \in Nat /\ a \div n <= a /\ (n # 1 => a \div n < a)
<1> DEFINE q == a \div n
           r == a % n
<1>1. q \in Int /\ r \in 0..n - 1 /\ a = n * q + r
  OBVIOUS
<1> HIDE DEF q, r
<1>2. ~(q <= 0 - 1)
  <2>1. q <= 0 - 1 => n * q <= n * (0 - 1)
    BY <1>1
  <2> QED
    BY <1>1, <2>1
<1>3. n * q >= q
  <2>1. n * q >= 1 * q
    BY <1>1, <1>2
  <2> QED
    BY <1>1, <2>1
<1>4. n # 1 => n * q >= q + q
  <2>1. n # 1 => n * q >= 2 * q
    BY <1>1, <1>2
  <2> QED
    BY <1>1, <2>1
<1>5. q \in Nat /\ q <= a /\ (n # 1 => q < a)
  BY <1>1, <1>2, <1>3, <1>4
<1> QED
  BY <1>5 DEF q

\* A round's numbers.
LEMMA RoundNumbers ==
  ASSUME round \in Rounds
  PROVE  /\ round.rate \in Nat \ {0} /\ round.duration \in Nat \ {0} /\ round.threads \in Nat \ {0}
         /\ Rate \in Nat /\ Rate <= round.rate /\ (round.threads # 1 => Rate < round.rate)
         /\ Thread \subseteq Nat
<1>1. /\ round.rate \in Nat \ {0} /\ round.duration \in Nat \ {0} /\ round.threads \in Nat \ {0}
  BY DocAssumption
<1>2. Rate = round.rate \div round.threads
  BY DEF Rate, ThreadRate
<1> QED
  BY <1>1, <1>2, Quotients DEF Thread

\* The accounts that send, and their number if the rate is even.
LEMMA SenderNumbers ==
  ASSUME round \in Rounds
  PROVE  /\ Creators(Rate) = 2..HalfUp(Rate) + 1
         /\ Loggers(Rate) = IF Even(Rate) THEN Rate \div 2 + 2 .. Rate + 1 ELSE {}
         /\ Senders \subseteq 2..Rate + 1
         /\ IsFiniteSet(Creators(Rate)) /\ IsFiniteSet(Loggers(Rate))
         /\ Even(Rate) => /\ Cardinality(Creators(Rate)) = Rate \div 2
                          /\ Cardinality(Loggers(Rate)) = Rate \div 2
                          /\ Rate = Rate \div 2 + Rate \div 2
<1> DEFINE q == Rate
<1>1. q \in Nat
  BY RoundNumbers
<1> HIDE DEF q
<1>2. Creators(q) = 2..HalfUp(q) + 1
  <2>1. HalfUp(q) \in Nat
    BY <1>1 DEF HalfUp
  <2>2. \A a \in 2..HalfUp(q) + 1 : a - 2 \in 0..HalfUp(q) - 1 /\ a = (a - 2) + 2
    BY <2>1
  <2> QED
    BY <2>1, <2>2 DEF Creators
<1>3. Loggers(q) = IF Even(q) THEN q \div 2 + 2 .. q + 1 ELSE {}
  <2> DEFINE h == q \div 2
  <2>1. h \in Nat
    BY <1>1
  <2>2. Loggers(q) = IF Even(q) THEN {i + 2 : i \in h .. q - 1} ELSE {}
    BY DEF Loggers
  <2> HIDE DEF h
  <2>3. \A a \in h + 2 .. q + 1 : a - 2 \in h .. q - 1 /\ a = (a - 2) + 2
    BY <1>1, <2>1
  <2>4. {i + 2 : i \in h .. q - 1} = h + 2 .. q + 1
    BY <1>1, <2>1, <2>3
  <2> QED
    BY <2>2, <2>4 DEF h
<1>4. HalfUp(q) \in Nat /\ HalfUp(q) <= q /\ q \div 2 \in Nat
  BY <1>1 DEF HalfUp
<1>5. Creators(q) \cup Loggers(q) \subseteq 2..q + 1
  BY <1>1, <1>2, <1>3, <1>4
<1>6. IsFiniteSet(Creators(q)) /\ IsFiniteSet(Loggers(q))
  <2>1. IsFiniteSet(2..q + 1)
    BY <1>1, FS_Interval
  <2> QED
    BY <1>5, <2>1, FS_Subset
<1>7. ASSUME Even(q)
      PROVE  /\ Cardinality(Creators(q)) = q \div 2
             /\ Cardinality(Loggers(q)) = q \div 2
             /\ q = q \div 2 + q \div 2
  <2>1. HalfUp(q) = q \div 2 /\ q = q \div 2 + q \div 2
    BY <1>1, <1>7 DEF Even, HalfUp
  <2>2. Cardinality(2..HalfUp(q) + 1) = q \div 2
    BY <1>4, <2>1, FS_Interval
  <2>3. Cardinality(q \div 2 + 2 .. q + 1) = q \div 2
    <3> DEFINE h == q \div 2
    <3>1. h \in Nat /\ q = h + h
      BY <1>4, <2>1
    <3> HIDE DEF h
    <3>2. h + 2 \in Int /\ q + 1 \in Int /\ (q + 1) - (h + 2) + 1 = h /\ ~(h + 2 > q + 2)
      BY <3>1
    <3>3. Cardinality(h + 2 .. q + 1) = IF h + 2 > q + 1 THEN 0 ELSE (q + 1) - (h + 2) + 1
      BY <3>2, FS_Interval
    <3>4. Cardinality(h + 2 .. q + 1) = h
      BY <3>1, <3>2, <3>3
    <3> QED
      BY <3>4 DEF h
  <2> QED
    BY <1>2, <1>3, <1>7, <2>1, <2>2, <2>3
<1> QED
  BY <1>2, <1>3, <1>5, <1>6, <1>7 DEF q, Senders

\* The accounts that send are accounts.
LEMMA SendersAreAccounts ==
  ASSUME round \in Rounds
  PROVE  Senders \subseteq Account /\ Creators(Rate) \subseteq Account /\ Loggers(Rate) \subseteq Account
<1>1. 2..Rate + 1 \subseteq Account
  BY DEF Rate, Account
<1> QED
  BY <1>1, SenderNumbers DEF Senders

\* The counters of the contract are sums.
LEMMA CountersAreSums ==
  /\ Docs = 1 + Sum(next, Creators(Rate))
  /\ Logs = 1 + Sum(next, Loggers(Rate))
  /\ Docs' = 1 + Sum(next', Creators(Rate'))
  /\ Logs' = 1 + Sum(next', Loggers(Rate'))
BY DEF Docs, Logs, Sum

\* The counters are natural numbers, and do not shrink while no account goes back.
LEMMA CountersGrow ==
  ASSUME round \in Rounds, \A a \in Account : next[a] \in Nat
  PROVE  /\ Docs \in Nat /\ Logs \in Nat
         /\ round' = round /\ (\A a \in Account : next'[a] \in Nat /\ next[a] <= next'[a]) =>
              Docs <= Docs' /\ Logs <= Logs' /\ Docs' \in Nat /\ Logs' \in Nat
<1>1. /\ IsFiniteSet(Creators(Rate)) /\ IsFiniteSet(Loggers(Rate))
      /\ Creators(Rate) \subseteq Account /\ Loggers(Rate) \subseteq Account
  BY SenderNumbers, SendersAreAccounts
<1>2. Docs \in Nat /\ Logs \in Nat
  <2>1. /\ \A a \in Creators(Rate) : next[a] \in Nat /\ next[a] \in Nat /\ next[a] <= next[a]
        /\ \A a \in Loggers(Rate) : next[a] \in Nat /\ next[a] \in Nat /\ next[a] <= next[a]
    BY <1>1
  <2>2. Sum(next, Creators(Rate)) \in Nat /\ Sum(next, Loggers(Rate)) \in Nat
    BY <1>1, <2>1, SumGrows
  <2> QED
    BY <2>2, CountersAreSums
<1>3. ASSUME round' = round, \A a \in Account : next'[a] \in Nat /\ next[a] <= next'[a]
      PROVE  Docs <= Docs' /\ Logs <= Logs' /\ Docs' \in Nat /\ Logs' \in Nat
  <2>1. /\ \A a \in Creators(Rate) : next[a] \in Nat /\ next'[a] \in Nat /\ next[a] <= next'[a]
        /\ \A a \in Loggers(Rate) : next[a] \in Nat /\ next'[a] \in Nat /\ next[a] <= next'[a]
    BY <1>1, <1>3
  <2>2. /\ Sum(next', Creators(Rate)) \in Nat /\ Sum(next, Creators(Rate)) <= Sum(next', Creators(Rate))
        /\ Sum(next', Loggers(Rate)) \in Nat /\ Sum(next, Loggers(Rate)) <= Sum(next', Loggers(Rate))
        /\ Sum(next, Creators(Rate)) \in Nat /\ Sum(next, Loggers(Rate)) \in Nat
    BY <1>1, <2>1, SumGrows
  <2>3. Docs' = 1 + Sum(next', Creators(Rate')) /\ Logs' = 1 + Sum(next', Loggers(Rate'))
    BY CountersAreSums
  <2>4. Rate' = Rate
    BY <1>3 DEF Rate
  <2> QED
    BY <2>2, <2>3, <2>4, CountersAreSums
<1> QED
  BY <1>2, <1>3

------------------------------------------------------------------------------
(***************************************************************************)
(* Every action keeps the invariant.                                       *)
(***************************************************************************)

\* What a step leaves alone stays as it was.
LEMMA Frames ==
  ASSUME DocInv, round' = round
  PROVE  /\ Rate' = Rate /\ Thread' = Thread /\ (Even(Rate))' = Even(Rate)
         /\ UNCHANGED prepVars => AccountsSound'
         /\ UNCHANGED <<loadVars, next>> => ThreadsSound'
         /\ next' = next => Logs' = Logs /\ Docs' = Docs
         /\ next' = next /\ (Released' => Released) => ReleasedSound'
         /\ UNCHANGED <<pc, startBlock, block, height>> => RangeSound'
         /\ UNCHANGED <<pc, startBlock, endBlock, reportVars, disturbed>> => ReportSound'
<1>1. Rate' = Rate /\ Thread' = Thread /\ (Even(Rate))' = Even(Rate)
  BY DEF Rate, Thread, Even
<1>2. ASSUME next' = next PROVE Logs' = Logs /\ Docs' = Docs
  BY <1>1, <1>2, CountersAreSums
<1>3. next' = next /\ (Released' => Released) => ReleasedSound'
  BY <1>2 DEF DocInv, ReleasedSound, PerRound
<1>4. UNCHANGED prepVars => AccountsSound'
  BY DEF DocInv, AccountsSound, prepVars
<1>5. UNCHANGED <<loadVars, next>> => ThreadsSound'
  BY <1>1 DEF DocInv, ThreadsSound, loadVars, Even
<1>6. UNCHANGED <<pc, startBlock, block, height>> => RangeSound'
  BY DEF DocInv, RangeSound
<1>7. UNCHANGED <<pc, startBlock, endBlock, reportVars, disturbed>> => ReportSound'
  BY DEF DocInv, ReportSound, reportVars
<1> QED
  BY <1>1, <1>2, <1>3, <1>4, <1>5, <1>6, <1>7

\* The round begins in the invariant.
LEMMA InitInv == Init => DocInv
<1> SUFFICES ASSUME Init PROVE DocInv
  OBVIOUS
<1>1. /\ round \in Rounds /\ round.duration \in Nat /\ Rate \in Nat /\ round.duration # 0
  BY RoundNumbers DEF Init
<1>2. \A a \in Account : next[a] = 0
  BY DEF Init
<1>3. Docs \in Nat /\ Logs \in Nat
  BY <1>1, <1>2, CountersGrow
<1>4. TypeOK
  <2>1. polls \in [Poll -> [at : {"idle", "height", "logs", "docs", "tail"}, height : 0..height,
                           logs : 0..Logs, docs : 0..Docs]]
    BY <1>3 DEF Init, Idle
  <2>2. thread \in [Thread -> [sent : Nat, nonce : 0..MaxTicks, periods : 0..Extra + 1,
                             closed : BOOLEAN]]
    BY DocAssumption DEF Init
  <2>3. next \in [Account -> 0..MaxTicks] /\ failures \in 0..MaxFailures /\ node \in Node
    BY DocAssumption, NodeNumAssumption DEF Init, Node
  <2>4. DOMAIN report \subseteq 1..height /\ \A b \in DOMAIN report : report[b] \in Seq(Node)
    BY DEF Init
  <2>6. registered \subseteq Nat
    BY Zenon DEF Init
  <2>5. /\ batch \in Nat /\ height = 0 /\ startBlock \in 0..height + 1 /\ endBlock \in 0..height
        /\ block \in 0..height + 1
    BY DEF Init
  <2>7. prep = "deploy" /\ pool = {} /\ pc = "start" /\ interval \in BOOLEAN /\ disturbed \in BOOLEAN
    BY Zenon DEF Init
  <2> QED
    BY <1>1, <2>1, <2>2, <2>3, <2>4, <2>5, <2>6, <2>7 DEF TypeOK
<1>5. ThreadsSound
  BY <1>1, <1>2 DEF Init, ThreadsSound
<1>6. AccountsSound /\ ReleasedSound /\ RangeSound /\ ReportSound
  BY DEF Init, AccountsSound, ReleasedSound, RangeSound, ReportSound, Released, RowsInOrder
<1> QED
  BY <1>4, <1>5, <1>6 DEF DocInv

\* preprocess.js registers the accounts in their order.
LEMMA PrepareKeeps == DocInv /\ (Prepare \/ PrepareFails) => DocInv'
<1> SUFFICES ASSUME DocInv, Prepare \/ PrepareFails PROVE DocInv'
  OBVIOUS
<1> USE DEF prepVars, loadVars, chainVars, monitorVars, reportVars
<1>1. UNCHANGED <<round, loadVars, chainVars, monitorVars>>
  BY DEF Prepare, Deploy, RegisterBatch, CreateFirstDocument, PrepareFails
<1>2. /\ TypeOK /\ BatchSize \in Nat \ {0} /\ batch \in Nat /\ batch * BatchSize \in Nat
      /\ round.rate \in Nat /\ (batch + 1) * BatchSize = batch * BatchSize + BatchSize
  BY DocAssumption, RoundNumbers, Products DEF DocInv, TypeOK
<1>3. /\ Logs' = Logs /\ Docs' = Docs /\ Thread' = Thread
      /\ ThreadsSound' /\ ReleasedSound' /\ RangeSound' /\ ReportSound'
  BY <1>1, Frames DEF Released
<1>4. TypeOK' /\ AccountsSound'
  <2>1. CASE Deploy
    <3>1. TypeOK'
      BY <1>1, <1>2, <1>3, <2>1 DEF Deploy, TypeOK
    <3>2. batch = 0 => 1..batch * BatchSize + 1 = {1}
      BY <1>2
    <3> QED
      BY <3>1, <3>2, <2>1 DEF Deploy, AccountsSound, DocInv
  <2>2. CASE RegisterBatch
    <3>1. registered' = registered \cup Batch(batch) /\ batch' = batch + 1 /\ prep' = "batches"
          /\ 1..batch * BatchSize + 1 \subseteq registered /\ failures' = failures
      BY <2>2 DEF RegisterBatch, AccountsSound, DocInv
    <3>2. Batch(batch) = batch * BatchSize + 2 .. batch * BatchSize + BatchSize + 1
      <4> DEFINE p == batch * BatchSize
      <4>1. BatchSize * batch = p
        BY <1>2
      <4>2. Batch(batch) = {p + j + 2 : j \in 0..BatchSize - 1}
        BY <4>1 DEF Batch
      <4>3. p \in Nat
        BY <1>2
      <4> HIDE DEF p
      <4>4. \A a \in p + 2 .. p + BatchSize + 1 :
              a - (p + 2) \in 0..BatchSize - 1 /\ a = p + (a - (p + 2)) + 2
        BY <1>2, <4>3
      <4>5. Batch(batch) = p + 2 .. p + BatchSize + 1
        <5>1. \A j \in 0..BatchSize - 1 : p + j + 2 \in p + 2 .. p + BatchSize + 1
          BY <1>2, <4>3
        <5>2. \A a \in p + 2 .. p + BatchSize + 1 : \E j \in 0..BatchSize - 1 : a = p + j + 2
          BY <4>4
        <5> QED
          BY <4>2, <5>1, <5>2
      <4> QED
        BY <4>5 DEF p
    <3>3. Batch(batch) \subseteq Nat
      BY <1>2, <3>2
    <3>4. TypeOK'
      <4>1. registered' \subseteq Nat /\ batch' \in Nat
        <5>1. registered \subseteq Nat /\ batch \in Nat
          BY <1>2 DEF TypeOK
        <5>2. registered' \subseteq Nat
          BY <3>1, <3>3, <5>1, Zenon
        <5>3. batch' \in Nat
          BY <3>1, <5>1
        <5> QED
          BY <5>2, <5>3
      <4> QED
        BY <1>1, <1>2, <1>3, <3>1, <4>1 DEF TypeOK
    <3>5. 1..(batch + 1) * BatchSize + 1 \subseteq registered'
      <4> DEFINE p == batch * BatchSize
      <4>1. p \in Nat /\ (batch + 1) * BatchSize = p + BatchSize
        BY <1>2
      <4>2. 1..p + 1 \subseteq registered' /\ p + 2 .. p + BatchSize + 1 \subseteq registered'
        BY <3>1, <3>2
      <4> HIDE DEF p
      <4> QED
        BY <1>2, <4>1, <4>2
    <3> QED
      BY <3>1, <3>4, <3>5 DEF AccountsSound
  <2>3. CASE CreateFirstDocument
    <3>1. TypeOK'
      BY <1>1, <1>2, <1>3, <2>3 DEF CreateFirstDocument, TypeOK
    <3>2. round.rate <= batch * BatchSize
      BY <1>2, <2>3 DEF CreateFirstDocument, MoreBatches
    <3> QED
      BY <3>1, <3>2, <1>1, <2>3 DEF CreateFirstDocument, AccountsSound, DocInv
  <2>4. CASE PrepareFails
    <3>1. failures' \in 0..MaxFailures
      BY <1>2, <2>4, DocAssumption DEF PrepareFails, Fails, TypeOK
    <3>2. TypeOK'
      BY <1>1, <1>2, <1>3, <2>4, <3>1 DEF PrepareFails, TypeOK
    <3> QED
      BY <3>2, <2>4 DEF PrepareFails, AccountsSound
  <2> QED
    BY <2>1, <2>2, <2>3, <2>4 DEF Prepare
<1> QED
  BY <1>3, <1>4 DEF DocInv

\* Of the numbers up to n only n itself is a multiple of n.
LEMMA Remainder ==
  ASSUME NEW n \in Nat \ {0}, NEW x \in 1..n
  PROVE  x % n = 0 <=> x = n
<1> DEFINE q == x \div n
           r == x % n
<1>1. q \in Int /\ r \in 0..n - 1 /\ x = n * q + r
  OBVIOUS
<1> HIDE DEF q, r
<1>2. ~(q <= 0 - 1)
  <2>1. q <= 0 - 1 => n * q <= n * (0 - 1)
    BY <1>1
  <2> QED
    BY <1>1, <2>1
<1>3. ~(q >= 2)
  <2>1. q >= 2 => n * q >= n * 2
    BY <1>1
  <2> QED
    BY <1>1, <2>1
<1>4. q = 0 \/ q = 1
  BY <1>1, <1>2, <1>3
<1>5. r = 0 <=> x = n
  BY <1>1, <1>4
<1> QED
  BY <1>5 DEF r

\* A tick of an even rate sends the rate, and the one that reaches the duration ends the period.
LEMMA TickKeeps == ASSUME NEW t \in Thread PROVE DocInv /\ Tick(t) => DocInv'
<1> SUFFICES ASSUME DocInv, Tick(t) PROVE DocInv'
  OBVIOUS
<1> USE DEF prepVars, loadVars, chainVars, monitorVars, reportVars
<1>1. /\ UNCHANGED <<round, prepVars, chainVars, monitorVars>>
      /\ thread[t].periods > 0 /\ thread[t].nonce < MaxTicks
  BY DEF Tick
<1> DEFINE old == thread[t]
           sum == old.sent + 2 * HalfUp(Rate)
           left == IF sum % PerRound(Rate) = 0 THEN old.periods - 1 ELSE old.periods
           new == [old EXCEPT !.sent = sum, !.nonce = @ + 1, !.periods = left]
<1>2. /\ TypeOK /\ Rate \in Nat /\ round.duration \in Nat \ {0} /\ MaxTicks \in Nat /\ Extra \in Nat
      /\ HalfUp(Rate) \in Nat
  <2>1. TypeOK /\ round \in Rounds
    BY DEF DocInv, TypeOK
  <2>2. Rate \in Nat /\ round.duration \in Nat \ {0}
    BY <2>1, RoundNumbers
  <2>3. HalfUp(Rate) \in Nat
    BY <2>2 DEF HalfUp
  <2> QED
    BY <2>1, <2>2, <2>3, Bounds
<1>3. old \in [sent : Nat, nonce : 0..MaxTicks, periods : 0..Extra + 1, closed : BOOLEAN]
  BY <1>2 DEF TypeOK
<1>4. thread' = [thread EXCEPT ![t] = new]
  <2>1. thread' = [thread EXCEPT ![t].sent = sum, ![t].nonce = @ + 1, ![t].periods = left]
    BY Zenon DEF Tick, Counted
  <2> HIDE DEF sum, left
  <2> QED
    BY <1>2, <1>3, <2>1 DEF TypeOK
<1>5. /\ \A op \in pool' \ pool : \E a \in Senders : op = <<a, old.nonce>>
      /\ failures' \in 0..MaxFailures
  <2>1. PICK lost \in SUBSET TickOps(t) : Fails(Cardinality(lost)) /\ pool' = pool \cup (TickOps(t) \ lost)
    BY DEF Tick
  <2>2. IsFiniteSet(TickOps(t))
    <3>1. IsFiniteSet(Senders)
      BY SenderNumbers, FS_Union, <1>2 DEF Senders, TypeOK
    <3>2. IsFiniteSet(Senders \X {old.nonce})
      BY <3>1, FS_Singleton, FS_Product
    <3>3. TickOps(t) \subseteq Senders \X {old.nonce}
      BY DEF TickOps
    <3> QED
      BY <3>2, <3>3, FS_Subset
  <2>3. Cardinality(lost) \in Nat
    BY <2>1, <2>2, FS_Subset, FS_CardinalityType
  <2>4. failures' \in 0..MaxFailures
    BY <1>2, <2>1, <2>3, DocAssumption DEF Fails, TypeOK
  <2> QED
    BY <2>1, <2>4 DEF TickOps
<1>6. /\ Logs' = Logs /\ Docs' = Docs /\ Thread' = Thread /\ Rate' = Rate
      /\ AccountsSound' /\ ReleasedSound' /\ RangeSound' /\ ReportSound'
  BY <1>1, Frames DEF Released
<1>7. sum \in Nat
  BY <1>2, <1>3
<1>8. left \in 0..Extra + 1 /\ (sum % PerRound(Rate) = 0 => left = old.periods - 1)
      /\ (sum % PerRound(Rate) # 0 => left = old.periods)
  <2> DEFINE whole == sum % PerRound(Rate) = 0
  <2>1. left = IF whole THEN old.periods - 1 ELSE old.periods
    OBVIOUS
  <2> HIDE DEF whole, left
  <2>2. left \in 0..Extra + 1 /\ (whole => left = old.periods - 1) /\ (~whole => left = old.periods)
    BY <1>1, <1>2, <1>3, <2>1
  <2> QED
    BY <2>2 DEF whole
<1> HIDE DEF left
<1>9. TypeOK'
  <2>1. new \in [sent : Nat, nonce : 0..MaxTicks, periods : 0..Extra + 1, closed : BOOLEAN]
    <3>1. old.nonce + 1 \in 0..MaxTicks
      BY <1>1, <1>2, <1>3
    <3> HIDE DEF sum, old
    <3> QED
      BY <1>2, <1>3, <1>7, <1>8, <3>1
  <2> HIDE DEF new
  <2>2. thread' \in [Thread -> [sent : Nat, nonce : 0..MaxTicks, periods : 0..Extra + 1,
                                closed : BOOLEAN]]
    BY <1>2, <1>4, <2>1 DEF TypeOK
  <2>3. pool' \subseteq Account \X (0..MaxTicks - 1)
    <3>1. old.nonce \in 0..MaxTicks - 1
      BY <1>1, <1>2, <1>3
    <3>2. Senders \subseteq Account /\ pool \subseteq Account \X (0..MaxTicks - 1)
      BY <1>2, SendersAreAccounts DEF TypeOK
    <3> HIDE DEF old
    <3> QED
      BY <1>5, <3>1, <3>2
  <2> QED
    BY <1>1, <1>2, <1>5, <1>6, <2>2, <2>3 DEF TypeOK
<1>10. ThreadsSound'
  <2>1. SUFFICES ASSUME Even(Rate) PROVE ThreadsSound'
    BY <1>6 DEF ThreadsSound, Even
  <2>2. /\ \A s \in Thread : Rate # 0 =>
             /\ thread[s].sent = thread[s].nonce * Rate
             /\ thread[s].nonce <= round.duration
             /\ thread[s].periods = IF thread[s].nonce = round.duration THEN 0 ELSE 1
        /\ \A op \in pool : op[2] < round.duration
        /\ \A a \in Account : next[a] <= round.duration
    BY <2>1 DEF DocInv, ThreadsSound
  <2>3. Rate # 0 => old.nonce < round.duration
    BY <1>1, <1>2, <1>3, <2>2
  <2>4. ASSUME Rate # 0
        PROVE  /\ new.sent = new.nonce * Rate
               /\ new.nonce <= round.duration
               /\ new.periods = IF new.nonce = round.duration THEN 0 ELSE 1
    <3>1. 2 * HalfUp(Rate) = Rate
      BY <1>2, <2>1 DEF Even, HalfUp
    <3>2. (old.nonce + 1) * Rate = old.nonce * Rate + Rate
      BY <1>2, <1>3, Products
    <3>3. sum = (old.nonce + 1) * Rate
      BY <2>2, <2>4, <3>1, <3>2
    <3>4. old.periods = 1
      BY <2>2, <2>3, <2>4, <1>3, <1>2
    <3>5. sum % PerRound(Rate) = 0 <=> old.nonce + 1 = round.duration
      <4> DEFINE n == old.nonce + 1
                 d == round.duration
                 r == Rate
      <4>1. n \in Nat \ {0} /\ d \in Nat \ {0} /\ r \in Nat \ {0} /\ n <= d
        BY <1>2, <1>3, <2>3, <2>4
      <4>2. sum = n * r /\ PerRound(Rate) = r * d
        BY <3>3 DEF PerRound
      <4> HIDE DEF n, d, r, sum
      <4>3. n * r \in Nat \ {0} /\ r * d \in Nat \ {0} /\ n * r <= r * d
        <5>1. n * r >= 1 * r /\ r * d >= r * 1 /\ n * r <= d * r /\ d * r = r * d
          BY <4>1
        <5> QED
          BY <4>1, <5>1
      <4>4. n * r = r * d <=> n = d
        <5>1. n + 1 <= d => (n + 1) * r <= d * r
          BY <4>1
        <5>2. (n + 1) * r = n * r + r /\ d * r = r * d
          BY <4>1
        <5> QED
          BY <4>1, <4>3, <5>1, <5>2
      <4>5. (n * r) % (r * d) = 0 <=> n * r = r * d
        BY <4>3, Remainder
      <4>6. (n * r) % (r * d) = 0 <=> n = d
        BY <4>4, <4>5
      <4>7. sum % PerRound(Rate) = 0 <=> n = d
        BY <4>2, <4>6
      <4> QED
        BY <4>7 DEF n, d
    <3> HIDE DEF sum, old
    <3>6. new.sent = sum /\ new.nonce = old.nonce + 1 /\ new.periods = left
      BY <1>3
    <3> HIDE DEF new
    <3>7. old.nonce + 1 <= round.duration
      BY <2>3, <2>4, <1>2, <1>3
    <3> QED
      BY <1>8, <3>3, <3>4, <3>5, <3>6, <3>7
  <2> HIDE DEF new
  <2>5. \A s \in Thread : thread'[s] = IF s = t THEN new ELSE thread[s]
    BY <1>2, <1>4 DEF TypeOK
  <2>6. \A op \in pool' : op[2] < round.duration
    <3>1. ASSUME NEW op \in pool', op \notin pool PROVE op[2] < round.duration
      <4>1. PICK a \in Senders : op = <<a, old.nonce>>
        BY <1>5, <3>1
      <4>2. Rate # 0
        BY <1>2, <4>1, SenderNumbers DEF TypeOK
      <4> QED
        BY <2>3, <4>1, <4>2
    <3> QED
      BY <2>2, <3>1
  <2>7. \A s \in Thread : Rate # 0 =>
             /\ thread'[s].sent = thread'[s].nonce * Rate
             /\ thread'[s].nonce <= round.duration
             /\ thread'[s].periods = IF thread'[s].nonce = round.duration THEN 0 ELSE 1
    BY <2>2, <2>4, <2>5
  <2> QED
    BY <1>1, <1>6, <2>2, <2>6, <2>7 DEF ThreadsSound
<1> QED
  BY <1>6, <1>9, <1>10 DEF DocInv

\* The round timer of a thread of an even rate finds the period over, and closes the round.
LEMMA RoundTickKeeps == ASSUME NEW t \in Thread PROVE DocInv /\ RoundTick(t) => DocInv'
<1> SUFFICES ASSUME DocInv, RoundTick(t) PROVE DocInv'
  OBVIOUS
<1> USE DEF prepVars, loadVars, chainVars, monitorVars, reportVars
<1>1. UNCHANGED <<round, prepVars, pool, chainVars, failures, monitorVars>>
  BY DEF RoundTick
<1>2. TypeOK /\ Rate \in Nat /\ round.duration \in Nat \ {0} /\ Extra \in Nat
  BY Bounds, RoundNumbers DEF DocInv, TypeOK
<1>3. thread[t] \in [sent : Nat, nonce : 0..MaxTicks, periods : 0..Extra + 1, closed : BOOLEAN]
  BY <1>2 DEF TypeOK
<1>4. /\ Logs' = Logs /\ Docs' = Docs /\ Thread' = Thread /\ Rate' = Rate
      /\ AccountsSound' /\ ReleasedSound' /\ RangeSound' /\ ReportSound'
  BY <1>1, Frames DEF Released
<1> DEFINE old == thread[t]
           shut == [old EXCEPT !.closed = TRUE]
           more == [old EXCEPT !.periods = @ + 1]
<1>5. \/ old.sent = PerRound(Rate) /\ thread' = [thread EXCEPT ![t] = shut]
      \/ /\ old.sent # PerRound(Rate) /\ old.periods <= Extra
         /\ thread' = [thread EXCEPT ![t] = more]
  <2>1. CASE thread[t].sent = PerRound(Rate)
    <3>1. thread' = [thread EXCEPT ![t].closed = TRUE]
      BY <2>1, Zenon DEF RoundTick
    <3> QED
      BY <1>2, <2>1, <3>1 DEF TypeOK
  <2>2. CASE thread[t].sent # PerRound(Rate)
    <3>1. old.periods <= Extra /\ thread' = [thread EXCEPT ![t].periods = @ + 1]
      BY <2>2, Zenon DEF RoundTick
    <3> QED
      BY <1>2, <2>2, <3>1 DEF TypeOK
  <2> QED
    BY <2>1, <2>2
<1>6. /\ shut.sent = old.sent /\ shut.nonce = old.nonce /\ shut.periods = old.periods
      /\ shut \in [sent : Nat, nonce : 0..MaxTicks, periods : 0..Extra + 1, closed : BOOLEAN]
      /\ old.periods <= Extra =>
           more \in [sent : Nat, nonce : 0..MaxTicks, periods : 0..Extra + 1, closed : BOOLEAN]
  <2>1. /\ old \in [sent : Nat, nonce : 0..MaxTicks, periods : 0..Extra + 1, closed : BOOLEAN]
        /\ old.periods <= Extra => old.periods + 1 \in 0..Extra + 1
    BY <1>2, <1>3
  <2> HIDE DEF old
  <2> QED
    BY <2>1
<1> HIDE DEF shut, more
<1>7. \/ /\ old.sent = PerRound(Rate)
         /\ \A s \in Thread : thread'[s] = IF s = t THEN shut ELSE thread[s]
      \/ /\ old.sent # PerRound(Rate) /\ old.periods <= Extra
         /\ \A s \in Thread : thread'[s] = IF s = t THEN more ELSE thread[s]
  BY <1>2, <1>5 DEF TypeOK
<1>8. TypeOK'
  <2>1. /\ shut \in [sent : Nat, nonce : 0..MaxTicks, periods : 0..Extra + 1, closed : BOOLEAN]
        /\ old.periods <= Extra =>
             more \in [sent : Nat, nonce : 0..MaxTicks, periods : 0..Extra + 1, closed : BOOLEAN]
    BY <1>2, <1>3, <1>6
  <2>2. thread' \in [Thread -> [sent : Nat, nonce : 0..MaxTicks, periods : 0..Extra + 1,
                                closed : BOOLEAN]]
    BY <1>2, <1>5, <2>1 DEF TypeOK
  <2> QED
    BY <1>1, <1>2, <1>4, <2>2 DEF TypeOK
<1>9. ThreadsSound'
  <2>1. SUFFICES ASSUME Even(Rate) PROVE ThreadsSound'
    BY <1>4 DEF ThreadsSound, Even
  <2>2. /\ \A s \in Thread : Rate # 0 =>
             /\ thread[s].sent = thread[s].nonce * Rate
             /\ thread[s].nonce <= round.duration
             /\ thread[s].periods = IF thread[s].nonce = round.duration THEN 0 ELSE 1
        /\ \A op \in pool : op[2] < round.duration
        /\ \A a \in Account : next[a] <= round.duration
    BY <2>1 DEF DocInv, ThreadsSound
  <2>3. ASSUME Rate # 0 PROVE old.sent = PerRound(Rate)
    <3>1. old.nonce >= round.duration \/ old.periods = 0
      BY DEF RoundTick
    <3>2. old.nonce = round.duration
      BY <1>2, <1>3, <2>2, <2>3, <3>1
    <3> QED
      BY <1>2, <2>2, <2>3, <3>2 DEF PerRound
  <2>4. \A s \in Thread : Rate # 0 =>
             /\ thread'[s].sent = thread'[s].nonce * Rate
             /\ thread'[s].nonce <= round.duration
             /\ thread'[s].periods = IF thread'[s].nonce = round.duration THEN 0 ELSE 1
    <3> SUFFICES ASSUME NEW s \in Thread, Rate # 0
                 PROVE  /\ thread'[s].sent = thread[s].sent /\ thread'[s].nonce = thread[s].nonce
                        /\ thread'[s].periods = thread[s].periods
      BY <2>2
    <3>1. thread'[s] = IF s = t THEN shut ELSE thread[s]
      BY <1>7, <2>3
    <3> QED
      BY <1>6, <3>1
  <2> QED
    BY <1>1, <1>4, <2>2, <2>4 DEF ThreadsSound
<1> QED
  BY <1>4, <1>8, <1>9 DEF DocInv

\* A block takes no account back, and none beyond the nonces that have reached a node.
LEMMA MinedNonces ==
  ASSUME TypeOK, NEW ops \in SUBSET Due, NEW limit \in Nat, \A op \in pool : op[2] < limit,
         NEW a \in Account, next[a] <= limit
  PROVE  /\ Cardinality({op \in ops : op[1] = a}) \in Nat
         /\ next[a] + Cardinality({op \in ops : op[1] = a}) <= limit
<1> DEFINE mine == {op \in ops : op[1] = a}
           rest == next[a] .. limit - 1
<1>1. next[a] \in Nat /\ pool \subseteq Account \X (0..MaxTicks - 1)
  BY DEF TypeOK
<1>2. mine \subseteq {a} \X rest
  <2> SUFFICES ASSUME NEW op \in mine PROVE op \in {a} \X rest
    OBVIOUS
  <2>1. op \in pool /\ next[op[1]] <= op[2] /\ op[1] = a
    BY DEF Due
  <2>2. op = <<op[1], op[2]>> /\ op[2] \in Nat
    BY <1>1, <2>1, Bounds
  <2>3. op[2] < limit
    BY <2>1
  <2>4. op[2] \in rest
    BY <1>1, <2>1, <2>2, <2>3
  <2> HIDE DEF rest
  <2> QED
    BY <2>1, <2>2, <2>4
<1>3. IsFiniteSet(rest) /\ Cardinality(rest) = limit - next[a]
  <2>1. limit - 1 \in Int /\ next[a] \in Int /\ (limit - 1) - next[a] + 1 = limit - next[a]
        /\ (next[a] > limit - 1 => limit - next[a] = 0)
    BY <1>1
  <2> QED
    BY <2>1, FS_Interval
<1> HIDE DEF rest
<1>4. IsFiniteSet({a}) /\ Cardinality({a}) = 1
  BY FS_Singleton
<1>5. IsFiniteSet({a} \X rest) /\ Cardinality({a} \X rest) = 1 * (limit - next[a])
  BY <1>3, <1>4, FS_Product
<1> HIDE DEF mine
<1>6. IsFiniteSet(mine) /\ Cardinality(mine) <= Cardinality({a} \X rest)
  BY <1>2, <1>5, FS_Subset
<1>7. Cardinality(mine) \in Nat
  BY <1>6, FS_CardinalityType
<1>8. next[a] + Cardinality(mine) <= limit
  BY <1>1, <1>5, <1>6, <1>7
<1> QED
  BY <1>7, <1>8 DEF mine

\* A block moves accounts on, but not beyond what was sent, and the counters with them.
LEMMA MineKeeps == DocInv /\ Mine => DocInv'
<1> SUFFICES ASSUME DocInv, Mine PROVE DocInv'
  OBVIOUS
<1> USE DEF prepVars, loadVars, monitorVars, reportVars
<1>1. UNCHANGED <<round, prepVars, loadVars, failures, monitorVars>> /\ height' = height + 1
  BY DEF Mine
<1>2. TypeOK /\ round \in Rounds /\ round.duration \in Nat /\ MaxTicks \in Nat
  BY RoundNumbers, Bounds DEF DocInv, TypeOK
<1>3. PICK ops \in SUBSET Due :
        next' = [a \in Account |-> next[a] + Cardinality({op \in ops : op[1] = a})]
  BY Zenon DEF Mine
<1>4. \A a \in Account : next[a] \in 0..MaxTicks
  BY <1>2 DEF TypeOK
<1>5. \A op \in pool : op[2] < MaxTicks
  <2>1. \A op \in pool : op[2] \in 0..MaxTicks - 1
    BY <1>2 DEF TypeOK
  <2> QED
    BY <1>2, <2>1
<1>6. ASSUME NEW a \in Account
      PROVE  next'[a] \in 0..MaxTicks /\ next[a] <= next'[a]
  <2> DEFINE n == Cardinality({op \in ops : op[1] = a})
  <2>0. next[a] <= MaxTicks
    BY <1>2, <1>4
  <2>1. n \in Nat /\ next[a] + n <= MaxTicks
    BY <1>2, <1>5, <2>0, MinedNonces, Zenon
  <2>2. next'[a] = next[a] + n
    BY <1>3
  <2> HIDE DEF n
  <2> QED
    BY <1>2, <1>4, <2>1, <2>2
<1>7. /\ Docs \in Nat /\ Logs \in Nat /\ Docs' \in Nat /\ Logs' \in Nat
      /\ Docs <= Docs' /\ Logs <= Logs'
  <2>1. \A a \in Account : next[a] \in Nat /\ next'[a] \in Nat /\ next[a] <= next'[a]
    BY <1>2, <1>4, <1>6
  <2> QED
    BY <1>1, <1>2, <2>1, CountersGrow
<1>8. /\ Thread' = Thread /\ Rate' = Rate /\ AccountsSound' /\ ReportSound'
  BY <1>1, Frames
<1>9. TypeOK'
  <2>1. next' \in [Account -> 0..MaxTicks]
    BY <1>3, <1>6
  <2>2. /\ height \in Nat /\ startBlock \in 0..height + 1 /\ endBlock \in 0..height
        /\ block \in 0..height + 1 /\ DOMAIN report \subseteq 1..height
    BY <1>2 DEF TypeOK
  <2>3. /\ height' \in Nat /\ startBlock' \in 0..height' + 1 /\ endBlock' \in 0..height'
        /\ block' \in 0..height' + 1 /\ DOMAIN report' \subseteq 1..height'
    BY <1>1, <2>2
  <2>4. polls' \in [Poll -> [at : {"idle", "height", "logs", "docs", "tail"}, height : 0..height',
                             logs : 0..Logs', docs : 0..Docs']]
    <3>1. /\ 0..height \subseteq 0..height' /\ 0..Logs \subseteq 0..Logs' /\ 0..Docs \subseteq 0..Docs'
      BY <1>1, <1>7, <2>2
    <3>2. polls \in [Poll -> [at : {"idle", "height", "logs", "docs", "tail"}, height : 0..height,
                              logs : 0..Logs, docs : 0..Docs]]
      BY <1>2 DEF TypeOK
    <3> QED
      BY <1>1, <3>1, <3>2, Zenon
  <2> QED
    BY <1>1, <1>2, <1>8, <2>1, <2>3, <2>4 DEF TypeOK
<1>10. ThreadsSound'
  <2>1. ASSUME Even(Rate), NEW a \in Account PROVE next'[a] <= round.duration
    <3>1. next[a] <= round.duration /\ \A op \in pool : op[2] < round.duration
      BY <2>1 DEF DocInv, ThreadsSound
    <3>2. next[a] + Cardinality({op \in ops : op[1] = a}) <= round.duration
      BY <1>2, <3>1, MinedNonces
    <3> QED
      BY <1>3, <3>2
  <2> QED
    BY <1>1, <1>8, <2>1 DEF DocInv, ThreadsSound, Even
<1>11. ReleasedSound'
  <2>1. ASSUME Released PROVE PerRound(round.rate) + 2 <= Logs' + Docs'
    <3>1. PerRound(round.rate) \in Nat /\ PerRound(round.rate) + 2 <= Logs + Docs
      BY <1>2, <2>1, RoundNumbers, Products DEF DocInv, ReleasedSound, PerRound
    <3> QED
      BY <1>7, <3>1
  <2> QED
    BY <1>1, <2>1 DEF ReleasedSound, Released, PerRound
<1>12. RangeSound'
  BY <1>1, <1>2 DEF DocInv, RangeSound, TypeOK
<1> QED
  BY <1>8, <1>9, <1>10, <1>11, <1>12 DEF DocInv

\* The monitor begins behind the blocks there are.
LEMMA StartKeeps == DocInv /\ (ReadStartHeight \/ MainRejected) => DocInv'
<1> SUFFICES ASSUME DocInv, ReadStartHeight \/ MainRejected PROVE DocInv'
  OBVIOUS
<1> USE DEF prepVars, loadVars, chainVars, reportVars
<1>1. /\ UNCHANGED <<round, prepVars, loadVars, chainVars, endBlock, polls, reportVars, disturbed>>
      /\ pc = "start" /\ pc' \in {"polling", "stuck"}
  BY DEF ReadStartHeight, MainRejected
<1>2. TypeOK
  BY DEF DocInv
<1>3. /\ Logs' = Logs /\ Docs' = Docs /\ Thread' = Thread
      /\ AccountsSound' /\ ThreadsSound' /\ ReleasedSound'
  BY <1>1, Frames DEF Released
<1>4. /\ failures' \in 0..MaxFailures /\ startBlock' \in 0..height + 1 /\ interval' \in BOOLEAN
      /\ (pc' = "polling" => startBlock' >= 1)
  <2>1. CASE ReadStartHeight
    BY <1>2, <2>1 DEF ReadStartHeight, TypeOK
  <2>2. CASE MainRejected
    BY <1>1, <1>2, <2>2, Bounds DEF MainRejected, Fails, TypeOK
  <2> QED
    BY <2>1, <2>2
<1>5. TypeOK'
  BY <1>1, <1>2, <1>3, <1>4 DEF TypeOK
<1>6. RangeSound' /\ ReportSound'
  BY <1>1, <1>4 DEF DocInv, RangeSound, ReportSound
<1> QED
  BY <1>3, <1>5, <1>6 DEF DocInv

\* A callback that is on its way only holds what the node has answered.
LEMMA GoesKeeps ==
  ASSUME NEW p \in Poll, NEW callback, DocInv, Goes(p, callback), failures' \in 0..MaxFailures,
         callback \in [at : {"idle", "height", "logs", "docs", "tail"}, height : 0..height,
                       logs : 0..Logs, docs : 0..Docs]
  PROVE  DocInv'
<1> USE DEF prepVars, loadVars, chainVars, reportVars
<1>1. /\ polls' = [polls EXCEPT ![p] = callback]
      /\ UNCHANGED <<round, prepVars, loadVars, chainVars, pc, startBlock, endBlock, interval,
                     reportVars, disturbed>>
  BY DEF Goes
<1>2. TypeOK
  BY DEF DocInv
<1>3. /\ Logs' = Logs /\ Docs' = Docs /\ Thread' = Thread
      /\ AccountsSound' /\ ThreadsSound' /\ ReleasedSound' /\ RangeSound' /\ ReportSound'
  BY <1>1, Frames DEF Released
<1>4. polls' \in [Poll -> [at : {"idle", "height", "logs", "docs", "tail"}, height : 0..height',
                           logs : 0..Logs', docs : 0..Docs']]
  BY <1>1, <1>2, <1>3 DEF TypeOK
<1>5. TypeOK'
  BY <1>1, <1>2, <1>3, <1>4 DEF TypeOK
<1> QED
  BY <1>3, <1>5 DEF DocInv

\* A callback that takes an answer up to a bound remains within the bounds.
LEMMA CallbackMoves ==
  ASSUME NEW h \in Nat, NEW l \in Nat, NEW d \in Nat,
         NEW c \in [at : {"idle", "height", "logs", "docs", "tail"}, height : 0..h, logs : 0..l,
                    docs : 0..d]
  PROVE  \A e \in {[c EXCEPT !.at = "logs", !.height = h], [c EXCEPT !.at = "docs", !.logs = l],
                   [c EXCEPT !.at = "tail", !.docs = d]} :
            e \in [at : {"idle", "height", "logs", "docs", "tail"}, height : 0..h, logs : 0..l,
                   docs : 0..d]
<1>1. h \in 0..h /\ l \in 0..l /\ d \in 0..d
  OBVIOUS
<1> QED
  BY <1>1

\* A callback starts, has an answer, or is rejected.
LEMMA PollKeeps ==
  ASSUME NEW p \in Poll
  PROVE  /\ DocInv /\ (StartPoll(p) \/ PollHeight(p) \/ PollLogs(p) \/ PollDocs(p) \/ PollRejected(p))
            => DocInv'
<1> SUFFICES ASSUME DocInv, StartPoll(p) \/ PollHeight(p) \/ PollLogs(p) \/ PollDocs(p) \/ PollRejected(p)
             PROVE  DocInv'
  OBVIOUS
<1> DEFINE Callback == [at : {"idle", "height", "logs", "docs", "tail"}, height : 0..height,
                        logs : 0..Logs, docs : 0..Docs]
<1>1. /\ TypeOK /\ polls[p] \in Callback /\ height \in Nat /\ failures \in 0..MaxFailures
  BY DEF DocInv, TypeOK
<1>2. Logs \in Nat /\ Docs \in Nat
  <2>1. \A a \in Account : next[a] \in Nat
    BY <1>1, Bounds DEF TypeOK
  <2> QED
    BY <1>1, <2>1, CountersGrow DEF TypeOK
<1>3. Idle \in Callback
  BY <1>1, <1>2 DEF Idle
<1>4. ASSUME NEW c \in Callback, Goes(p, c), failures' \in 0..MaxFailures PROVE DocInv'
  BY <1>4, GoesKeeps
<1>5. CASE StartPoll(p)
  <2>1. [Idle EXCEPT !.at = "height"] \in Callback
    BY <1>3
  <2>2. Goes(p, [Idle EXCEPT !.at = "height"]) /\ failures' = failures
    BY <1>5 DEF StartPoll
  <2> HIDE DEF Callback
  <2> QED
    BY <1>1, <1>4, <2>1, <2>2
<1>6. CASE PollHeight(p)
  <2>1. [polls[p] EXCEPT !.at = "logs", !.height = height] \in Callback
    BY <1>1, <1>2, CallbackMoves
  <2>2. Goes(p, [polls[p] EXCEPT !.at = "logs", !.height = height]) /\ failures' = failures
    BY <1>6 DEF PollHeight
  <2> HIDE DEF Callback
  <2> QED
    BY <1>1, <1>4, <2>1, <2>2
<1>7. CASE PollLogs(p)
  <2>1. [polls[p] EXCEPT !.at = "docs", !.logs = Logs] \in Callback
    BY <1>1, <1>2, CallbackMoves
  <2>2. Goes(p, [polls[p] EXCEPT !.at = "docs", !.logs = Logs]) /\ failures' = failures
    BY <1>7 DEF PollLogs
  <2> HIDE DEF Callback
  <2> QED
    BY <1>1, <1>4, <2>1, <2>2
<1>8. CASE PollDocs(p)
  <2>1. [polls[p] EXCEPT !.at = "tail", !.docs = Docs] \in Callback
    BY <1>1, <1>2, CallbackMoves
  <2>2. Goes(p, [polls[p] EXCEPT !.at = "tail", !.docs = Docs]) /\ failures' = failures
    BY <1>8 DEF PollDocs
  <2> HIDE DEF Callback
  <2> QED
    BY <1>1, <1>4, <2>1, <2>2
<1>9. CASE PollRejected(p)
  <2>1. Goes(p, Idle) /\ failures + 1 <= MaxFailures /\ failures' = failures + 1
    BY <1>9 DEF PollRejected, Fails
  <2>2. failures' \in 0..MaxFailures
    BY <1>1, <2>1, Bounds
  <2> HIDE DEF Callback
  <2> QED
    BY <1>3, <1>4, <2>1, <2>2
<1> QED
  BY <1>5, <1>6, <1>7, <1>8, <1>9


\* A callback comes to its end: it may move the range, and release main, which then finds as many
\* operations in the contract as it waits for.
LEMMA PollTailKeeps ==
  ASSUME NEW p \in Poll
  PROVE  DocInv /\ PollTail(p) => DocInv'
<1> SUFFICES ASSUME DocInv, PollTail(p) PROVE DocInv'
  OBVIOUS
<1> USE DEF prepVars, loadVars, chainVars
<1> DEFINE Callback == [at : {"idle", "height", "logs", "docs", "tail"}, height : 0..height,
                        logs : 0..Logs, docs : 0..Docs]
           last == IF Completes(p) THEN LastBlock(p) ELSE endBlock
           loop == LoopFrom(0, startBlock, startBlock, last)
           release == Completes(p) /\ pc = "polling"
<1>1. UNCHANGED <<round, prepVars, loadVars, chainVars, failures, startBlock, report>>
  BY DEF PollTail
<1>2. /\ TypeOK /\ polls \in [Poll -> Callback] /\ height \in Nat
      /\ startBlock \in 0..height + 1 /\ startBlock \in Nat /\ node \in Node /\ 0 \in Node
      /\ block \in 0..height + 1 /\ block \in Nat
  BY NodeNumAssumption DEF DocInv, TypeOK, Node
<1>3. /\ Logs' = Logs /\ Docs' = Docs /\ Thread' = Thread
      /\ AccountsSound' /\ ThreadsSound'
  BY <1>1, Frames
<1>4. Logs \in Nat /\ Docs \in Nat
  <2>1. \A a \in Account : next[a] \in Nat
    BY <1>2, Bounds DEF TypeOK
  <2> QED
    BY <1>2, <2>1, CountersGrow DEF TypeOK
<1>5. last \in 0..height /\ last \in Nat
  BY <1>2 DEF TypeOK, LastBlock
<1>6. /\ endBlock' = last
      /\ (release => pc' = loop.pc /\ node' = loop.node /\ block' = loop.block)
      /\ (~release => pc' = pc /\ node' = node /\ block' = block)
      /\ disturbed' = (disturbed \/ (pc # "polling" /\ last # endBlock))
      /\ interval' = (interval /\ ~Completes(p))
  BY DEF PollTail
<1>7. Idle \in Callback
  BY <1>2, <1>4 DEF Idle
<1>8. polls' \in [Poll -> Callback]
  <2>1. polls' = [q \in Poll |-> Idle] \/ polls' = [polls EXCEPT ![p] = Idle]
    BY DEF PollTail
  <2> HIDE DEF Callback
  <2> QED
    BY <1>2, <1>7, <2>1
<1>9. /\ loop.pc \in {"report", "done"} /\ loop.node \in Node /\ loop.block \in Nat
      /\ (loop.pc = "report" => loop.block \in startBlock..last)
      /\ loop.block \in 0..height + 1
  <2>1. loop.pc \in {"report", "done"} /\ loop.node \in Node /\ loop.block \in Nat
    BY <1>2, <1>5, LoopType
  <2>2. loop.block = startBlock /\ (loop.pc = "report" => startBlock <= last)
    BY <1>2, <1>5 DEF LoopFrom
  <2> HIDE DEF loop, last
  <2> QED
    BY <1>2, <1>5, <2>1, <2>2
<1> HIDE DEF last, loop, release
<1>10. TypeOK'
  <2>1. pc' \in {"start", "polling", "report", "done", "stuck", "failed"}
    BY <1>2, <1>6, <1>9 DEF TypeOK
  <2>2. node' \in Node /\ block' \in 0..height + 1
    BY <1>2, <1>6, <1>9
  <2>3. disturbed' \in BOOLEAN /\ interval' \in BOOLEAN
    BY <1>6
  <2> QED
    BY <1>1, <1>2, <1>3, <1>5, <1>6, <1>8, <2>1, <2>2, <2>3 DEF TypeOK
<1>11. ReleasedSound'
  <2>1. CASE release
    <3>1. polls[p].logs \in 0..Logs /\ polls[p].docs \in 0..Docs
      BY <1>2
    <3>2. polls[p].logs + polls[p].docs = PerRound(round.rate) + 2
      BY <2>1 DEF release, Completes
    <3>3. PerRound(round.rate) + 2 <= Logs + Docs
      <4> HIDE DEF Callback
      <4> QED
        BY <1>4, <3>1, <3>2
    <3> QED
      BY <1>1, <1>3, <3>3 DEF ReleasedSound, PerRound
  <2>2. CASE ~release
    BY <1>1, <1>3, <1>6, <2>2 DEF DocInv, ReleasedSound, Released, PerRound
  <2> QED
    BY <2>1, <2>2
<1>12. RangeSound'
  <2>1. CASE release
    <3>1. pc = "polling" /\ startBlock >= 1
      BY <2>1 DEF release, DocInv, RangeSound
    <3>2. loop.pc = "report" => loop.block \in 1..height
      BY <1>2, <1>5, <1>9, <3>1
    <3> QED
      BY <1>1, <1>6, <2>1, <3>1, <3>2 DEF RangeSound
  <2>2. CASE ~release
    BY <1>1, <1>6, <2>2 DEF DocInv, RangeSound
  <2> QED
    BY <2>1, <2>2
<1>13. ReportSound'
  <2>1. CASE release
    <3>1. report = << >> /\ RowsInOrder(report)
      BY <2>1 DEF release, DocInv, ReportSound
    <3>2. /\ loop.pc = "report" => /\ OrderedTo(<< >>, loop.node, loop.block)
                                   /\ FilledTo(<< >>, loop.node, loop.block, startBlock, last)
          /\ loop.pc = "done" => RowsComplete(<< >>, startBlock, last)
      BY <1>2, <1>5, LoopBegins DEF loop
    <3> QED
      BY <1>1, <1>6, <1>9, <2>1, <3>1, <3>2 DEF ReportSound
  <2>2. CASE ~release
    <3>1. pc' = pc /\ node' = node /\ block' = block
      BY <1>6, <2>2
    <3>2. ~disturbed' /\ pc # "polling" => ~disturbed /\ endBlock' = endBlock
      BY <1>6
    <3> QED
      BY <1>1, <3>1, <3>2 DEF DocInv, ReportSound
  <2> QED
    BY <2>1, <2>2
<1> QED
  BY <1>3, <1>10, <1>11, <1>12, <1>13 DEF DocInv

\* A block that arrives takes the report one turn of the loops further.
LEMMA ReportBlockKeeps == DocInv /\ ReportBlock => DocInv'
<1> SUFFICES ASSUME DocInv, ReportBlock PROVE DocInv'
  OBVIOUS
<1> USE DEF prepVars, loadVars, chainVars
<1> DEFINE loop == LoopFrom(node, block + 1, startBlock, endBlock)
           Callback == [at : {"idle", "height", "logs", "docs", "tail"}, height : 0..height,
                        logs : 0..Logs, docs : 0..Docs]
<1>1. /\ UNCHANGED <<round, prepVars, loadVars, chainVars, failures, startBlock, endBlock, interval,
                     disturbed>>
      /\ pc = "report" /\ (node = 0 \/ block \in DOMAIN report)
      /\ report' = Push(report, node, block)
      /\ pc' = loop.pc /\ node' = loop.node /\ block' = loop.block
  BY DEF ReportBlock
<1>2. /\ TypeOK /\ polls \in [Poll -> Callback] /\ height \in Nat
      /\ startBlock \in Nat /\ endBlock \in 0..height /\ endBlock \in Nat /\ node \in Node
      /\ startBlock \in 0..height + 1
  BY DEF DocInv, TypeOK
<1>3. startBlock >= 1 /\ block \in 1..height /\ block \in Nat /\ block + 1 \in Nat
  BY <1>1, <1>2 DEF DocInv, RangeSound
<1>4. /\ Logs' = Logs /\ Docs' = Docs /\ Thread' = Thread
      /\ AccountsSound' /\ ThreadsSound' /\ ReleasedSound'
  BY <1>1, Frames DEF Released
<1>5. IsReport(report)
  BY <1>2 DEF TypeOK, IsReport
<1>6. /\ loop.pc \in {"report", "done"} /\ loop.node \in Node /\ loop.block \in Nat
      /\ (loop.pc = "report" => loop.block \in 1..height)
      /\ loop.block \in 0..height + 1
  <2>1. loop.pc \in {"report", "done"} /\ loop.node \in Node /\ loop.block \in Nat
    BY <1>2, <1>3, LoopType
  <2>2. loop.block \in {block + 1, startBlock} /\ (loop.pc = "report" => loop.block <= endBlock)
    BY <1>2, <1>3 DEF LoopFrom
  <2> HIDE DEF loop
  <2> QED
    BY <1>2, <1>3, <2>1, <2>2
<1>7. polls' \in [Poll -> Callback]
  <2>1. Logs \in Nat /\ Docs \in Nat
    <3>1. \A a \in Account : next[a] \in Nat
      BY <1>2, Bounds DEF TypeOK
    <3> QED
      BY <1>2, <3>1, CountersGrow DEF TypeOK
  <2>2. Idle \in Callback
    BY <1>2, <2>1 DEF Idle
  <2>3. polls' = [p \in Poll |-> Idle] \/ polls' = polls
    BY DEF ReportBlock
  <2> HIDE DEF Callback
  <2> QED
    BY <1>2, <2>2, <2>3
<1> HIDE DEF loop
<1>8. DOMAIN report' \subseteq 1..height /\ \A b \in DOMAIN report' : report'[b] \in Seq(Node)
  <2>1. IsReport(report')
    BY <1>1, <1>2, <1>3, <1>5, PushType
  <2>2. DOMAIN report' = DOMAIN report \cup {block}
    BY <1>1, <1>2, <1>3, <1>5, PushRows
  <2> QED
    BY <1>2, <1>3, <2>1, <2>2 DEF TypeOK, IsReport
<1>9. interval' \in BOOLEAN /\ disturbed' \in BOOLEAN
  BY <1>1, <1>2, Zenon DEF TypeOK
<1>10. TypeOK'
  BY <1>1, <1>2, <1>4, <1>6, <1>7, <1>8, <1>9 DEF TypeOK
<1>11. RangeSound'
  BY <1>1, <1>3, <1>6 DEF RangeSound
<1>12. ReportSound'
  <2>1. OrderedTo(report, node, block)
    BY <1>1 DEF DocInv, ReportSound
  <2>2. /\ RowsInOrder(Push(report, node, block))
        /\ loop.pc = "report" => OrderedTo(Push(report, node, block), loop.node, loop.block)
    BY <1>1, <1>2, <1>3, <1>5, <2>1, PushOrdered DEF loop
  <2>3. ~disturbed =>
          /\ loop.pc = "report" =>
               FilledTo(Push(report, node, block), loop.node, loop.block, startBlock, endBlock)
          /\ loop.pc = "done" => RowsComplete(Push(report, node, block), startBlock, endBlock)
    <3>1. ~disturbed => FilledTo(report, node, block, startBlock, endBlock)
      BY <1>1 DEF DocInv, ReportSound
    <3> QED
      BY <1>2, <1>3, <1>5, <3>1, PushFilled DEF loop
  <2> QED
    BY <1>1, <1>6, <2>2, <2>3 DEF ReportSound
<1> QED
  BY <1>4, <1>10, <1>11, <1>12 DEF DocInv

\* Main ends without a report, and leaves everything as it is.
LEMMA ReportFailsKeeps == DocInv /\ ReportFails => DocInv'
<1> SUFFICES ASSUME DocInv, ReportFails PROVE DocInv'
  OBVIOUS
<1> USE DEF prepVars, loadVars, chainVars, reportVars
<1>1. /\ UNCHANGED <<round, prepVars, loadVars, chainVars, startBlock, endBlock, interval, polls,
                     reportVars, disturbed>>
      /\ pc = "report" /\ pc' = "failed"
  BY DEF ReportFails
<1>2. TypeOK
  BY DEF DocInv
<1>3. /\ Logs' = Logs /\ Docs' = Docs /\ Thread' = Thread
      /\ AccountsSound' /\ ThreadsSound' /\ ReleasedSound'
  BY <1>1, Frames DEF Released
<1>4. failures' \in 0..MaxFailures
  BY <1>2, Bounds DEF ReportFails, Fails, TypeOK
<1>5. TypeOK'
  BY <1>1, <1>2, <1>3, <1>4 DEF TypeOK
<1>6. RangeSound' /\ ReportSound'
  BY <1>1 DEF DocInv, RangeSound, ReportSound
<1> QED
  BY <1>3, <1>5, <1>6 DEF DocInv

------------------------------------------------------------------------------
(***************************************************************************)
(* The theorems.                                                           *)
(***************************************************************************)

\* Every step preserves the invariant.
LEMMA InvNext == DocInv /\ [Next]_vars => DocInv'
<1> SUFFICES ASSUME DocInv, [Next]_vars PROVE DocInv'
  OBVIOUS
<1>1. CASE Prepare \/ PrepareFails
  BY <1>1, PrepareKeeps
<1>2. ASSUME NEW t \in Thread, Tick(t) \/ RoundTick(t) PROVE DocInv'
  BY <1>2, TickKeeps, RoundTickKeeps
<1>3. CASE Mine
  BY <1>3, MineKeeps
<1>4. CASE ReadStartHeight \/ MainRejected
  BY <1>4, StartKeeps
<1>5. ASSUME NEW p \in Poll, StartPoll(p) \/ PollStep(p) \/ PollRejected(p) PROVE DocInv'
  BY <1>5, PollKeeps, PollTailKeeps DEF PollStep
<1>6. CASE ReportBlock \/ ReportFails
  BY <1>6, ReportBlockKeeps, ReportFailsKeeps
<1>7. CASE UNCHANGED vars
  <2> USE DEF prepVars, loadVars, chainVars, monitorVars, reportVars
  <2>1. UNCHANGED <<round, prep, batch, registered, thread, pool, next, height, failures, pc,
                    startBlock, endBlock, interval, polls, node, block, report, disturbed>>
    BY <1>7 DEF vars
  <2>2. /\ Logs' = Logs /\ Docs' = Docs /\ Thread' = Thread
        /\ AccountsSound' /\ ThreadsSound' /\ ReleasedSound' /\ RangeSound' /\ ReportSound'
    BY <2>1, Frames DEF Released
  <2>3. TypeOK'
    BY <2>1, <2>2 DEF DocInv, TypeOK
  <2> QED
    BY <2>2, <2>3 DEF DocInv
<1> QED
  BY <1>1, <1>2, <1>3, <1>4, <1>5, <1>6, <1>7 DEF Next

\* The invariant holds in every state that is reached.
LEMMA Invariant == Spec => []DocInv
BY InitInv, InvNext, PTL DEF Spec

\* The variables keep their types (DocTracking.tla, TypeOK).
THEOREM TypeCorrect == Spec => []TypeOK
<1>1. DocInv => TypeOK
  BY DEF DocInv
<1> QED
  BY Invariant, <1>1, PTL

\* When the load begins, every account that sends, and every receiver, is registered, for every
\* rate, number of threads and size of a batch (preprocess.js:24-32, workload.js:12, 33).
THEOREM AccountsAreRegistered == Spec => []LoadIsRegistered
<1>1. DocInv => LoadIsRegistered
  <2> SUFFICES ASSUME DocInv, prep = "done" PROVE Senders \subseteq registered
    BY DEF LoadIsRegistered
  <2>1. TypeOK /\ round \in Rounds /\ batch \in Nat /\ batch * BatchSize \in Nat
    BY Bounds, Products DEF DocInv, TypeOK
  <2>2. round.rate <= batch * BatchSize /\ 1..batch * BatchSize + 1 \subseteq registered
    BY DEF DocInv, AccountsSound
  <2>3. Senders \subseteq 2..Rate + 1 /\ Rate \in Nat /\ Rate <= round.rate /\ round.rate \in Nat
    BY <2>1, RoundNumbers, SenderNumbers
  <2> DEFINE n == batch * BatchSize
  <2> HIDE DEF n
  <2>4. 2..Rate + 1 \subseteq 1..n + 1
    BY <2>1, <2>2, <2>3 DEF n
  <2> QED
    BY <2>2, <2>3, <2>4 DEF n
<1> QED
  BY Invariant, <1>1, PTL

\* A monitor of an even rate that is released ran beside one thread only, and behind every
\* operation of every account; one of an odd rate was released by creations alone
\* (txMonitor.js:36, 42, workload.js:31-40).
THEOREM CompletionIsSound == Spec => []CompletionSound
<1>1. DocInv => CompletionSound
  <2> SUFFICES ASSUME DocInv, Released
               PROVE  /\ round.threads = 1 \/ ~Even(Rate)
                      /\ Even(Rate) => \A a \in Senders : next[a] = round.duration
                      /\ ~Even(Rate) => Logs = 1 /\ Docs > PerRound(round.rate)
    BY DEF CompletionSound
  <2>1. /\ TypeOK /\ round \in Rounds /\ round.rate \in Nat /\ round.duration \in Nat \ {0}
        /\ Rate \in Nat /\ Rate <= round.rate /\ (round.threads # 1 => Rate < round.rate)
    BY RoundNumbers DEF DocInv, TypeOK
  <2>2. \A a \in Account : next[a] \in 0..MaxTicks /\ next[a] \in Nat
    BY <2>1, Bounds DEF TypeOK
  <2> DEFINE d == round.duration
             made == Sum(next, Creators(Rate))
             logged == Sum(next, Loggers(Rate))
             expected == round.rate * d
  <2>3. /\ expected \in Nat /\ expected + 2 <= Logs + Docs /\ d \in Nat
        /\ Docs = 1 + made /\ Logs = 1 + logged
    BY <2>1, Products, CountersAreSums DEF DocInv, ReleasedSound, PerRound
  <2>4. /\ IsFiniteSet(Creators(Rate)) /\ IsFiniteSet(Loggers(Rate))
        /\ Creators(Rate) \subseteq Account /\ Loggers(Rate) \subseteq Account
    BY <2>1, SenderNumbers, SendersAreAccounts
  <2>5. CASE Even(Rate)
    <3> DEFINE half == Rate \div 2
               share == half * d
    <3>1. /\ Cardinality(Creators(Rate)) = half /\ Cardinality(Loggers(Rate)) = half
          /\ Rate = half + half /\ half \in Nat
      BY <2>1, <2>5, SenderNumbers
    <3>2. \A a \in Account : next[a] \in 0..d
      BY <2>1, <2>2, <2>5 DEF DocInv, ThreadsSound
    <3>3. (\A a \in Creators(Rate) : next[a] \in 0..d) /\ (\A a \in Loggers(Rate) : next[a] \in 0..d)
      BY <2>4, <3>2
    <3> HIDE DEF half
    <3>4. /\ made \in Nat /\ made <= share
          /\ made = share => \A a \in Creators(Rate) : next[a] = d
      BY <2>3, <2>4, <3>1, <3>3, SumBounded
    <3>5. /\ logged \in Nat /\ logged <= share
          /\ logged = share => \A a \in Loggers(Rate) : next[a] = d
      BY <2>3, <2>4, <3>1, <3>3, SumBounded
    <3>6. share \in Nat /\ Rate * d = share + share
      BY <2>3, <3>1
    <3>7. Rate < round.rate => Rate * d + d <= expected
      <4>1. Rate < round.rate => Rate + 1 <= round.rate
        BY <2>1
      <4>2. Rate + 1 <= round.rate => (Rate + 1) * d <= expected
        BY <2>1, <2>3, Products
      <4>3. (Rate + 1) * d = Rate * d + d
        BY <2>1, <2>3, Products
      <4> HIDE DEF expected
      <4> QED
        BY <4>1, <4>2, <4>3
    <3>8. Rate * d <= expected
      BY <2>1, <2>3, Products
    <3>9. d > 0
      BY <2>1
    <3> HIDE DEF made, logged, share, expected, d
    <3>10. expected <= made + logged
      BY <2>3, <3>4, <3>5
    <3>11. ~(Rate < round.rate)
      BY <2>3, <3>4, <3>5, <3>6, <3>7, <3>9, <3>10
    <3>12. made = share /\ logged = share
      BY <2>3, <3>4, <3>5, <3>6, <3>8, <3>10
    <3>13. \A a \in Senders : next[a] = d
      BY <3>4, <3>5, <3>12 DEF Senders
    <3> QED
      BY <2>1, <2>5, <3>11, <3>13 DEF d
  <2>6. CASE ~Even(Rate)
    <3>1. Loggers(Rate) = {}
      BY <2>1, <2>6, SenderNumbers
    <3>2. logged \in Nat /\ logged <= Cardinality(Loggers(Rate)) * 0
      <4>1. 0 \in Nat /\ \A a \in Loggers(Rate) : next[a] \in 0..0
        BY <3>1
      <4> QED
        BY <2>4, <4>1, SumBounded
    <3>3. Cardinality(Loggers(Rate)) = 0
      BY <3>1, FS_EmptySet
    <3> HIDE DEF logged
    <3>4. logged = 0
      BY <3>2, <3>3
    <3>5. Docs \in Nat
      BY <2>1, <2>2, CountersGrow
    <3>6. PerRound(round.rate) = expected
      BY DEF PerRound
    <3> HIDE DEF expected
    <3>7. Logs = 1 /\ Docs > expected
      BY <2>3, <3>4, <3>5
    <3> QED
      BY <2>6, <3>6, <3>7
  <2> QED
    BY <2>5, <2>6
<1> QED
  BY Invariant, <1>1, PTL

\* The rows of the report are in the order of the nodes whatever late callbacks do, and a report
\* that they leave alone is complete (txMonitor.js:51-73).
THEOREM ReportRowsAreRight == Spec => []ReportRows
<1>1. DocInv => ReportRows
  BY DEF DocInv, ReportSound, ReportRows
<1> QED
  BY Invariant, <1>1, PTL

=============================================================================
