--------------------------- MODULE Statistics_proofs ---------------------------
(***************************************************************************)
(* What the scripts and the calculators guarantee of the statistics file,  *)
(* of the figures in it and of the addresses, for every list of rates,     *)
(* every result a round can leave, every number of nodes and every list of *)
(* zones, and however often the user starts something.                     *)
(***************************************************************************)
EXTENDS Statistics, CommonLemmas, SequenceTheorems, TLAPS

(***************************************************************************)
(* The columns, as functions of the consensus and the results.             *)
(***************************************************************************)

\* Calculable, Column and ColumnsOf, with the variables they read as parameters.
CalculableIn(sys, res, r) ==
  r \in DOMAIN res /\ res[r].report # NoReport /\ (sys = "raft" => res[r].report # << >>)

ColumnIn(sys, res, r) ==
  [rate |-> r,
   tps |-> IF sys = "raft" THEN RaftThroughputs(res[r].report) ELSE Throughputs(res[r].report),
   latencies |-> TxsIn(res[r].report, Measured(res[r].report))]

ColumnsIn(sys, res, rs, n) ==
  InOrder([k \in {j \in 1..n : CalculableIn(sys, res, rs[j])} |-> ColumnIn(sys, res, rs[k])], n)

(***************************************************************************)
(* The inductive invariant.                                                *)
(***************************************************************************)

\* A list that is worked off is what is left of the full one.
Rest(list, full) ==
  /\ Len(list) <= Len(full)
  /\ \A k \in 1..Len(list) : list[k] = full[Len(full) - Len(list) + k]

Done(list, full) == Len(full) - Len(list)

\* The rates in work, and the rate that begins a file that has it as a number.
ScriptSound ==
  /\ phase = "calculate" => Rest(todo, rates)
  /\ all /\ phase # "idle" => rates = setting.rates /\ ~ByHand
  /\ ~UsesBin => First = Hundred
  /\ phase = "draw" => ~ByHand

\* The file behind the first n rates of a run on all rates.
FileBehind(n) ==
  LET columns == ColumnsIn(system, result, rates, n)
  IN  IF n # 0 /\ CalculableIn(system, result, rates[1]) THEN file = columns
      ELSE file = IF before.file = NoFile THEN NoFile ELSE before.file \o columns

AllSound ==
  all => /\ phase = "calculate" => FileBehind(Done(todo, rates))
         /\ phase = "draw" => FileBehind(Len(rates))

\* The file behind the first n rounds of a benchmark.
FileOfRounds(n) ==
  n # 0 /\ CalculableIn(system, result, First) => file = ColumnsIn(system, result, setting.rates, n)

\* A round that has just ended is the only one that is not in the file yet.
BenchSound ==
  /\ bench # << >> => benching
  /\ benching =>
       LET done == Done(bench, setting.rates)
       IN  /\ Rest(bench, setting.rates)
           /\ UsesBin /\ phase = "calculate" =>
                done # 0 /\ rates = <<setting.rates[done]>> /\ todo = rates /\ FileOfRounds(done - 1)
           /\ UsesBin /\ phase # "calculate" => FileOfRounds(done)

\* A file that is begun has a column.
FileSound == file # NoFile => file # << >>

\* The addresses are those of the zones that were read, and the zones those of the region.
AddressSound ==
  /\ rounds >= 1 => zones = Zones[setting.region] /\ urls = Addresses(zones)
  /\ rounds >= (IF UsesBin THEN 2 ELSE 1) => reached = Reached(zones)
  /\ rounds \in 0..2

StatInv ==
  /\ TypeOK /\ ScriptSound /\ AllSound /\ BenchSound /\ FileSound /\ FileBeginsOnce
  /\ AddressSound

------------------------------------------------------------------------------
(***************************************************************************)
(* What a function has in the order of its arguments.                      *)
(***************************************************************************)

\* Does u build InOrder(f, n), a number after the other?
Builds(u, f, n) ==
  u = [k \in 0..n |-> IF k = 0 THEN << >>
                      ELSE IF k \in DOMAIN f THEN Append(u[k - 1], f[k]) ELSE u[k - 1]]

\* It can be built: there is no least number up to which it cannot.
LEMMA BuildsExist ==
  ASSUME NEW f, NEW n \in Nat
  PROVE  \E u : Builds(u, f, n)
<1> DEFINE bad == {m \in Nat : ~\E u : Builds(u, f, m)}
<1>1. ASSUME bad # {} PROVE FALSE
  <2>1. PICK m \in bad : \A k \in bad : m <= k
    <3>1. bad \in SUBSET Nat
      OBVIOUS
    <3> HIDE DEF bad
    <3> QED
      BY <1>1, <3>1, HasLeast
  <2>2. m # 0
    <3> DEFINE u == [k \in 0..0 |-> << >>]
    <3>1. Builds(u, f, 0)
      BY DEF Builds
    <3> QED
      BY <2>1, <3>1
  <2>3. m \in Nat /\ m - 1 \in Nat /\ ~(m <= m - 1)
    BY <2>1, <2>2
  <2>4. PICK u : Builds(u, f, m - 1)
    BY <2>1, <2>3
  <2> DEFINE v == [k \in 0..m |-> IF k # m THEN u[k]
                                  ELSE IF m \in DOMAIN f THEN Append(u[m - 1], f[m]) ELSE u[m - 1]]
  <2>5. ASSUME NEW k \in 0..m
        PROVE  v[k] = IF k = 0 THEN << >>
                      ELSE IF k \in DOMAIN f THEN Append(v[k - 1], f[k]) ELSE v[k - 1]
    <3>1. CASE k = m
      <4>1. m - 1 \in 0..m /\ m - 1 # m
        BY <2>3
      <4>2. v[m - 1] = u[m - 1]
        BY <4>1
      <4> QED
        BY <2>2, <3>1, <4>2
    <3>2. CASE k # m
      <4>1. k \in 0..m - 1 /\ (k # 0 => k - 1 \in 0..m /\ k - 1 # m)
        BY <2>3, <3>2
      <4>2. v[k] = u[k] /\ (k # 0 => v[k - 1] = u[k - 1])
        BY <3>2, <4>1
      <4>3. u[k] = IF k = 0 THEN << >>
                   ELSE IF k \in DOMAIN f THEN Append(u[k - 1], f[k]) ELSE u[k - 1]
        BY <2>4, <4>1 DEF Builds
      <4> HIDE DEF v
      <4> QED
        BY <4>2, <4>3
    <3> QED
      BY <3>1, <3>2
  <2>6. v = [k \in 0..m |-> v[k]]
    OBVIOUS
  <2> HIDE DEF v
  <2>7. Builds(v, f, m)
    BY <2>5, <2>6 DEF Builds
  <2> QED
    BY <2>1, <2>7
<1> QED
  BY <1>1

\* What is built up to n depends only on what there is up to n.
LEMMA BuildsAgree ==
  ASSUME NEW f, NEW g, NEW n \in Nat, NEW m \in Nat, n <= m,
         \A k \in 1..n : (k \in DOMAIN f <=> k \in DOMAIN g) /\ (k \in DOMAIN f => f[k] = g[k]),
         NEW u, Builds(u, f, n), NEW v, Builds(v, g, m)
  PROVE  u[n] = v[n]
<1> DEFINE bad == {k \in 0..n : u[k] # v[k]}
<1>1. \A k \in 0..n : /\ u[k] = IF k = 0 THEN << >>
                                ELSE IF k \in DOMAIN f THEN Append(u[k - 1], f[k]) ELSE u[k - 1]
                      /\ v[k] = IF k = 0 THEN << >>
                                ELSE IF k \in DOMAIN g THEN Append(v[k - 1], g[k]) ELSE v[k - 1]
  <2>1. \A k \in 0..n : k \in 0..m
    OBVIOUS
  <2> QED
    BY <2>1 DEF Builds
<1>2. ASSUME bad # {} PROVE FALSE
  <2>1. PICK k \in bad : \A j \in bad : k <= j
    <3>1. bad \in SUBSET Nat
      OBVIOUS
    <3> HIDE DEF bad
    <3> QED
      BY <1>2, <3>1, HasLeast
  <2>2. k \in 1..n /\ k - 1 \in 0..n /\ ~(k <= k - 1)
    BY <1>1, <2>1
  <2>3. u[k - 1] = v[k - 1]
    BY <2>1, <2>2
  <2> QED
    BY <1>1, <2>1, <2>2, <2>3
<1>3. n \in 0..n
  OBVIOUS
<1> QED
  BY <1>2, <1>3

\* What is in order is what is built.
LEMMA InOrderIsBuilt ==
  ASSUME NEW f, NEW n \in Nat
  PROVE  \E u : Builds(u, f, n) /\ u[n] = InOrder(f, n)
<1> DEFINE u == CHOOSE u : Builds(u, f, n)
<1>1. Builds(u, f, n)
  BY BuildsExist
<1>2. u[n] = InOrder(f, n)
  BY DEF InOrder, Builds
<1> HIDE DEF u
<1> QED
  BY <1>1, <1>2

\* It depends only on what there is up to n.
LEMMA InOrderAgrees ==
  ASSUME NEW f, NEW g, NEW n \in Nat,
         \A k \in 1..n : (k \in DOMAIN f <=> k \in DOMAIN g) /\ (k \in DOMAIN f => f[k] = g[k])
  PROVE  InOrder(f, n) = InOrder(g, n)
<1>1. PICK u : Builds(u, f, n) /\ u[n] = InOrder(f, n)
  BY InOrderIsBuilt
<1>2. PICK v : Builds(v, g, n) /\ v[n] = InOrder(g, n)
  BY InOrderIsBuilt
<1>3. n <= n
  OBVIOUS
<1> QED
  BY <1>1, <1>2, <1>3, BuildsAgree

\* The next number adds what there is of it.
LEMMA InOrderGrows ==
  ASSUME NEW f, NEW n \in Nat
  PROVE  /\ InOrder(f, 0) = << >>
         /\ InOrder(f, n + 1) = IF n + 1 \in DOMAIN f THEN Append(InOrder(f, n), f[n + 1])
                                ELSE InOrder(f, n)
<1>1. PICK z : Builds(z, f, 0) /\ z[0] = InOrder(f, 0)
  BY InOrderIsBuilt
<1>2. PICK u : Builds(u, f, n) /\ u[n] = InOrder(f, n)
  BY InOrderIsBuilt
<1>3. PICK v : Builds(v, f, n + 1) /\ v[n + 1] = InOrder(f, n + 1)
  <2>1. n + 1 \in Nat
    OBVIOUS
  <2> QED
    BY <2>1, InOrderIsBuilt
<1>4. u[n] = v[n]
  <2>1. n + 1 \in Nat /\ n <= n + 1
    OBVIOUS
  <2>2. \A k \in 1..n : (k \in DOMAIN f <=> k \in DOMAIN f) /\ (k \in DOMAIN f => f[k] = f[k])
    OBVIOUS
  <2> QED
    BY <1>2, <1>3, <2>1, <2>2, BuildsAgree
<1>5. v[n + 1] = IF n + 1 \in DOMAIN f THEN Append(v[n], f[n + 1]) ELSE v[n]
  <2>1. n + 1 \in 0..n + 1 /\ n + 1 # 0 /\ (n + 1) - 1 = n
    OBVIOUS
  <2> QED
    BY <1>3, <2>1 DEF Builds
<1>6. z[0] = << >>
  BY <1>1 DEF Builds
<1> QED
  BY <1>1, <1>2, <1>3, <1>4, <1>5, <1>6

------------------------------------------------------------------------------
(***************************************************************************)
(* The columns, the file and the lists that are worked off.                *)
(***************************************************************************)

\* The columns as functions are those of the model.
LEMMA CalculableIs == \A r : Calculable(r) <=> CalculableIn(system, result, r)
BY DEF Calculable, CalculableIn

\* A column is the one as a function.
LEMMA ColumnIs == \A r : Column(r) = ColumnIn(system, result, r)
BY DEF Column, ColumnIn, CalColumn, RaftColumn

\* So are the columns of several rates.
LEMMA ColumnsAre == \A rs, n : ColumnsOf(rs, n) = ColumnsIn(system, result, rs, n)
BY CalculableIs, ColumnIs DEF ColumnsOf, ColumnsIn

\* The next rate adds its column, if it can be calculated.
LEMMA ColumnsGrow ==
  ASSUME NEW sys, NEW res, NEW rs, NEW n \in Nat
  PROVE  /\ ColumnsIn(sys, res, rs, 0) = << >>
         /\ ColumnsIn(sys, res, rs, n + 1) =
              IF CalculableIn(sys, res, rs[n + 1])
              THEN Append(ColumnsIn(sys, res, rs, n), ColumnIn(sys, res, rs[n + 1]))
              ELSE ColumnsIn(sys, res, rs, n)
<1> DEFINE f(m) == [k \in {j \in 1..m : CalculableIn(sys, res, rs[j])} |-> ColumnIn(sys, res, rs[k])]
<1>1. \A m : ColumnsIn(sys, res, rs, m) = InOrder(f(m), m)
  BY DEF ColumnsIn
<1>2. InOrder(f(0), 0) = << >>
  BY InOrderGrows
<1>3. InOrder(f(n + 1), n + 1) = IF n + 1 \in DOMAIN f(n + 1)
                                THEN Append(InOrder(f(n + 1), n), f(n + 1)[n + 1])
                                ELSE InOrder(f(n + 1), n)
  <2> HIDE DEF f
  <2> QED
    BY InOrderGrows
<1>4. InOrder(f(n + 1), n) = InOrder(f(n), n)
  <2>1. \A k \in 1..n : /\ k \in DOMAIN f(n + 1) <=> k \in DOMAIN f(n)
                        /\ k \in DOMAIN f(n + 1) => f(n + 1)[k] = f(n)[k]
    OBVIOUS
  <2> HIDE DEF f
  <2> QED
    BY <2>1, InOrderAgrees
<1>5. /\ n + 1 \in DOMAIN f(n + 1) <=> CalculableIn(sys, res, rs[n + 1])
      /\ n + 1 \in DOMAIN f(n + 1) => f(n + 1)[n + 1] = ColumnIn(sys, res, rs[n + 1])
  OBVIOUS
<1> HIDE DEF f
<1> QED
  BY <1>1, <1>2, <1>3, <1>4, <1>5

\* The columns stay while the results of the rates do.
LEMMA ColumnsStay ==
  ASSUME NEW sys, NEW res, NEW new, NEW rs, NEW n \in Nat,
         \A k \in 1..n :
           /\ rs[k] \in DOMAIN new <=> rs[k] \in DOMAIN res
           /\ rs[k] \in DOMAIN res => new[rs[k]] = res[rs[k]]
  PROVE  ColumnsIn(sys, new, rs, n) = ColumnsIn(sys, res, rs, n)
<1> DEFINE f == [k \in {j \in 1..n : CalculableIn(sys, new, rs[j])} |-> ColumnIn(sys, new, rs[k])]
           g == [k \in {j \in 1..n : CalculableIn(sys, res, rs[j])} |-> ColumnIn(sys, res, rs[k])]
<1>1. ASSUME NEW k \in 1..n
      PROVE  (k \in DOMAIN f <=> k \in DOMAIN g) /\ (k \in DOMAIN f => f[k] = g[k])
  <2> DEFINE r == rs[k]
  <2>0. (r \in DOMAIN new <=> r \in DOMAIN res) /\ (r \in DOMAIN res => new[r] = res[r])
    <3> HIDE DEF f, g
    <3> QED
      OBVIOUS
  <2> HIDE DEF r
  <2>1. CalculableIn(sys, new, r) <=> CalculableIn(sys, res, r)
    BY <2>0 DEF CalculableIn
  <2>2. CalculableIn(sys, res, r) => ColumnIn(sys, new, r) = ColumnIn(sys, res, r)
    BY <2>0 DEF CalculableIn, ColumnIn
  <2> QED
    BY <2>1, <2>2 DEF r
<1> HIDE DEF f, g
<1>2. InOrder(f, n) = InOrder(g, n)
  BY <1>1, InOrderAgrees
<1> QED
  BY <1>2 DEF f, g, ColumnsIn

\* The sums over a report, and its figures, are numbers.
LEMMA ColumnTyped ==
  ASSUME NEW sys, NEW res, NEW r, CalculableIn(sys, res, r), r \in Rate,
         res[r].report \in Seq([txs : Nat, time : Int])
  PROVE  /\ ColumnIn(sys, res, r) \in [rate : Rate, tps : Seq(Nat \X Int), latencies : Nat]
         /\ ColumnIn(sys, res, r).rate = r
<1> DEFINE report == res[r].report
           L == Len(report)
<1>1. L \in Nat /\ \A j \in 1..L : report[j].txs \in Nat /\ report[j].time \in Int
  <2>1. \A j \in 1..L : report[j] \in [txs : Nat, time : Int]
    BY ElementOfSeq
  <2> QED
    BY <2>1
<1> HIDE DEF report
<1>2. ASSUME NEW S \in SUBSET (1..L) PROVE TxsIn(report, S) \in Nat
  <2> DEFINE f == [j \in S |-> report[j].txs]
  <2>1. IsFiniteSet(S)
    <3>1. IsFiniteSet(1..L)
      BY <1>1, FS_Interval
    <3> QED
      BY <3>1, FS_Subset
  <2>2. \A j \in S : f[j] \in Nat /\ f[j] \in Nat /\ f[j] <= f[j]
    BY <1>1
  <2>3. TxsIn(report, S) = Sum(f, S)
    BY DEF TxsIn, SumFunction, Sum
  <2> HIDE DEF f
  <2> QED
    BY <2>1, <2>2, <2>3, SumGrows
<1>3. TxsIn(report, Measured(report)) \in Nat
  <2>1. Measured(report) \in SUBSET (1..L)
    BY <1>1 DEF Measured
  <2> QED
    BY <1>2, <2>1
<1>4. Throughputs(report) \in Seq(Nat \X Int)
  <2> DEFINE m == Cardinality(Measured(report))
  <2>1. m = IF L <= 2 THEN 0 ELSE L - 2
    <3>1. 2 \in Int /\ L - 1 \in Int /\ (2 > L - 1 <=> L <= 2) /\ (L - 1) - 2 + 1 = L - 2
      BY <1>1
    <3>2. Cardinality(2..L - 1) = IF 2 > L - 1 THEN 0 ELSE (L - 1) - 2 + 1
      BY <3>1, FS_Interval
    <3> QED
      BY <3>1, <3>2 DEF Measured
  <2> HIDE DEF m
  <2>2. m \in Nat /\ \A j \in 1..m : j \in 1..L /\ j + 1 \in 1..L
    BY <1>1, <2>1
  <2>3. \A j \in 1..m : <<report[j + 1].txs, report[j + 1].time - report[j].time>> \in Nat \X Int
    BY <1>1, <2>2
  <2>4. Throughputs(report) = [j \in 1..m |-> <<report[j + 1].txs, report[j + 1].time - report[j].time>>]
    BY DEF Throughputs, m
  <2>5. Throughputs(report) \in [1..m -> Nat \X Int]
    BY <2>3, <2>4
  <2> QED
    BY <2>2, <2>5, SeqDef
<1>5. ASSUME sys = "raft" PROVE RaftThroughputs(report) \in Seq(Nat \X Int)
  <2>1. report # << >>
    BY <1>5 DEF CalculableIn, report
  <2>2. L # 0
    BY <2>1, EmptySeq DEF report
  <2>3. 1 \in 1..L /\ L \in 1..L /\ 1..L - 1 \in SUBSET (1..L)
    BY <1>1, <2>2
  <2>4. TxsIn(report, 1..L - 1) \in Nat
    BY <1>2, <2>3
  <2>5. report[L].time - report[1].time \in Int
    BY <1>1, <2>3
  <2> QED
    BY <2>4, <2>5 DEF RaftThroughputs
<1> QED
  BY <1>3, <1>4, <1>5 DEF ColumnIn, report


------------------------------------------------------------------------------
(***************************************************************************)
(* The constants, and what a calculation makes of the file.                *)
(***************************************************************************)

FileColumn == [rate : Rate, tps : Seq(Nat \X Int), latencies : Nat]

\* The lists of rates, and the rates in them.
LEMMA RatesFact ==
  /\ Rate \subseteq Nat
  /\ \A s \in Settings : /\ s.rates \in Seq(Rate) /\ s.rates # << >> /\ s.end \in Nat
                         /\ s.region \in DOMAIN Zones
                         /\ \A i, j \in DOMAIN s.rates : s.rates[i] = s.rates[j] => i = j
<1>1. ASSUME NEW s \in Settings
      PROVE  /\ s.rates \in Seq(Nat) /\ s.rates # << >> /\ s.end \in Nat
             /\ s.region \in DOMAIN Zones
             /\ \A i, j \in DOMAIN s.rates : s.rates[i] = s.rates[j] => i = j
  BY StatisticsAssumption DEF IsInjective
<1>2. ASSUME NEW r \in Rate PROVE r \in Nat
  <2>1. PICK s \in Settings : r \in ToSet(s.rates)
    BY DEF Rate
  <2>2. PICK i \in DOMAIN s.rates : r = s.rates[i]
    BY <2>1 DEF ToSet
  <2> QED
    BY <1>1, <2>2
<1>3. ASSUME NEW s \in Settings PROVE s.rates \in Seq(Rate)
  <2> DEFINE rs == s.rates
  <2>1. rs \in Seq(Nat)
    BY <1>1
  <2>2. \A i \in 1..Len(rs) : rs[i] \in Rate
    <3>1. \A i \in DOMAIN rs : rs[i] \in Rate
      BY DEF Rate, ToSet
    <3> HIDE DEF rs
    <3> QED
      BY <2>1, <3>1
  <2> HIDE DEF rs
  <2>3. rs \in Seq(Rate)
    BY <2>1, <2>2
  <2> QED
    BY <2>3 DEF rs
<1>4. Rate \subseteq Nat
  BY <1>2, Zenon
<1> QED
  BY <1>1, <1>3, <1>4

\* The results of a rate that can be calculated.
LEMMA ResultsFact ==
  ASSUME NEW res \in Results
  PROVE  /\ res.report # NoReport => res.report \in Seq([txs : Nat, time : Int])
         /\ res.lines \in Seq(Nat) /\ res.lines # << >>
BY StatisticsAssumption

\* No list of columns stands for no file.
LEMMA NoFileIsNone == NoFile \notin Seq(FileColumn)
<1> DEFINE Wide == [rate : Nat, tps : Seq(Nat \X Int), latencies : Nat]
<1>1. FileColumn \subseteq Wide
  BY RatesFact DEF FileColumn
<1>2. NoFile \notin Seq(Wide)
  BY StatisticsAssumption
<1> HIDE DEF Wide
<1> QED
  BY <1>1, <1>2, SeqMonotonic

\* A file that is begun, or added to, is one.
LEMMA FilesFact ==
  ASSUME NEW c \in FileColumn
  PROVE  /\ <<c>> \in Seq(FileColumn) /\ <<c>> # NoFile
         /\ \A f \in Seq(FileColumn) : Append(f, c) \in Seq(FileColumn) /\ Append(f, c) # NoFile
<1> HIDE DEF FileColumn
<1>1. <<c>> \in Seq(FileColumn) /\ \A f \in Seq(FileColumn) : Append(f, c) \in Seq(FileColumn)
  OBVIOUS
<1> QED
  BY <1>1, NoFileIsNone

\* The first rate of a setting.
LEMMA FirstRate ==
  ASSUME setting \in Settings
  PROVE  First \in Rate /\ First = setting.rates[1] /\ Len(setting.rates) \in Nat \ {0}
<1>1. setting.rates \in Seq(Rate) /\ setting.rates # << >>
  BY RatesFact
<1> QED
  BY <1>1, EmptySeq DEF First

\* What the calculation of a rate makes of the file.
LEMMA WithColumnIs ==
  ASSUME system \in System, ~UsesBin => First = Hundred, NEW r
  PROVE  WithColumn(r) = Written(ColumnIn(system, result, r), r = First)
<1>1. CalColumn(r) = Column(r) \/ system = "raft"
  BY DEF Column
<1>2. CASE UsesBin
  BY <1>1, <1>2, ColumnIs DEF UsesBin, WithColumn, Cal, RaftCal, Begins, Column
<1>3. CASE ~UsesBin
  <2>1. First = Hundred /\ system # "raft" /\ system # "quorum"
    BY <1>3 DEF UsesBin
  <2>2. system \in {"tendermint", "stellar", "core", "blocksize"}
    BY <2>1 DEF System
  <2>3. CalColumn(r) = ColumnIn(system, result, r)
    BY <1>1, <2>1, ColumnIs
  <2> QED
    BY <2>1, <2>2, <2>3 DEF WithColumn, TendermintCal, StellarCal, CoreCal, BlocksizeCal
<1> QED
  BY <1>2, <1>3

\* The column of a rate that can be calculated is one.
LEMMA ColumnsTyped ==
  ASSUME TypeOK, NEW r \in Rate, CalculableIn(system, result, r)
  PROVE  ColumnIn(system, result, r) \in FileColumn /\ ColumnIn(system, result, r).rate = r
<1>1. result[r] \in Results /\ result[r].report # NoReport
  BY DEF TypeOK, Range, CalculableIn
<1>2. result[r].report \in Seq([txs : Nat, time : Int])
  BY <1>1, ResultsFact
<1> QED
  BY <1>2, ColumnTyped DEF FileColumn

\* What a calculation makes of the file: it begins it, adds to it, or leaves it.
LEMMA CalculateFile ==
  ASSUME TypeOK, ScriptSound, Calculate
  PROVE  LET r == Head(todo)
             c == ColumnIn(system, result, r)
         IN  /\ r \in Rate
             /\ file' = IF ~CalculableIn(system, result, r) THEN file
                        ELSE IF r = First THEN <<c>>
                        ELSE IF file = NoFile THEN NoFile ELSE Append(file, c)
             /\ CalculableIn(system, result, r) => c \in FileColumn /\ c.rate = r
<1> DEFINE r == Head(todo)
           c == ColumnIn(system, result, r)
<1>1. todo \in Seq(Rate) /\ todo # << >>
  BY DEF TypeOK, Calculate
<1>2. r \in Rate
  BY <1>1
<1>3. system \in System /\ (~UsesBin => First = Hundred)
  BY DEF TypeOK, ScriptSound
<1>4. file' = IF Calculable(r) THEN WithColumn(r) ELSE file
  BY DEF Calculate
<1> HIDE DEF r
<1>5. WithColumn(r) = Written(c, r = First)
  BY <1>3, WithColumnIs
<1>6. Calculable(r) <=> CalculableIn(system, result, r)
  BY CalculableIs
<1>7. CalculableIn(system, result, r) => c \in FileColumn /\ c.rate = r
  BY <1>2, ColumnsTyped
<1> HIDE DEF c
<1>8. file' = IF ~CalculableIn(system, result, r) THEN file
              ELSE IF r = First THEN <<c>>
              ELSE IF file = NoFile THEN NoFile ELSE Append(file, c)
  BY <1>4, <1>5, <1>6 DEF Written
<1> QED
  BY <1>2, <1>7, <1>8 DEF c, r

------------------------------------------------------------------------------
(***************************************************************************)
(* The types.                                                              *)
(***************************************************************************)

\* TypeOK, in parts that a step changes together.
TypeParts ==
  /\ system \in System /\ setting \in Settings /\ runs \in 0..MaxRuns
  /\ DOMAIN result \subseteq Rate /\ \A r \in DOMAIN result : result[r] \in Results
  /\ file # NoFile => file \in Seq(FileColumn)
  /\ before.file # NoFile => before.file \in Seq(FileColumn)
  /\ before.end \in Nat
  /\ phase \in {"idle", "calculate", "draw"} /\ (phase # "idle" => todo # << >>)
  /\ rates \in Seq(Rate) /\ todo \in Seq(Rate) /\ bench \in Seq(Rate)
  /\ end \in Nat /\ graphs \in Seq([rate : Rate, end : Nat])

\* The parts are those of the type.
LEMMA TypeHasParts == TypeOK <=> TypeParts
BY DEF TypeOK, TypeParts, Range, FileColumn

\* So are they behind a step.
LEMMA TypeHasPartsNext == TypeOK' <=> TypeParts'
BY DEF TypeOK, TypeParts, Range, FileColumn

\* The length of the shortest micro file of a rate, and the bound of a graph, are numbers.
LEMMA BoundTyped ==
  ASSUME TypeParts
  PROVE  /\ \A r : Lines(r) \in Nat
         /\ \A r : UsesBin \/ CanPlot(r) => Bound(r) \in Nat
<1>1. ASSUME NEW r, r \in DOMAIN result
      PROVE  Min(Range(result[r].lines)) \in Nat /\ result[r].lines[1] \in Nat
  <2> DEFINE lines == result[r].lines
             N == Range(lines)
  <2>1. lines \in Seq(Nat) /\ lines # << >>
    BY <1>1, ResultsFact DEF TypeParts
  <2> HIDE DEF lines
  <2>2. 1 \in DOMAIN lines /\ \A k \in DOMAIN lines : lines[k] \in Nat
    BY <2>1, EmptySeq
  <2>3. N \subseteq Nat /\ N # {}
    BY <2>2 DEF Range
  <2> HIDE DEF N
  <2>4. \E m \in N : \A k \in N : m <= k
    BY <2>3, HasLeast
  <2>5. Min(N) \in N
    BY <2>4 DEF Min
  <2> QED
    BY <2>2, <2>3, <2>5 DEF N, lines
<1>2. \A r : Lines(r) \in Nat
  BY <1>1 DEF Lines
<1>3. ASSUME NEW r, UsesBin \/ CanPlot(r) PROVE Bound(r) \in Nat
  <2>1. CASE UsesBin
    BY <1>2, <2>1 DEF Bound, BinBound, TypeParts, UsesBin
  <2>2. CASE ~UsesBin
    <3>1. r \in DOMAIN result
      BY <1>3, <2>2 DEF CanPlot, Lines
    <3> QED
      BY <1>1, <2>2, <3>1 DEF Bound, TypeParts, UsesBin
  <2> QED
    BY <2>1, <2>2
<1> QED
  BY <1>2, <1>3

\* What the scripts are when drawGraph.sh begins.
LEMMA BeginTyped ==
  ASSUME TypeParts, NEW everything, NEW rs \in Seq(Rate), rs # << >>, Begin(everything, rs)
  PROVE  /\ before'.file # NoFile => before'.file \in Seq(FileColumn)
         /\ before'.end \in Nat
         /\ phase' \in {"idle", "calculate", "draw"} /\ (phase' # "idle" => todo' # << >>)
         /\ rates' \in Seq(Rate) /\ todo' \in Seq(Rate)
         /\ end' \in Nat /\ graphs' \in Seq([rate : Rate, end : Nat])
<1>1. setting.end \in Nat
  BY RatesFact DEF TypeParts
<1>2. graphs' \in Seq([rate : Rate, end : Nat])
  BY DEF Begin
<1> QED
  BY <1>1, <1>2 DEF Begin, TypeParts

\* Every step keeps the types.
LEMMA TypeStep ==
  ASSUME TypeOK, ScriptSound, [Next]_vars
  PROVE  TypeOK'
<1>1. TypeParts
  BY TypeHasParts
<1> USE <1>1
<1>2. setting.rates \in Seq(Rate) /\ setting.rates # << >>
  BY RatesFact DEF TypeParts
<1>3. runs < MaxRuns => runs + 1 \in 0..MaxRuns
  BY StatisticsAssumption DEF TypeParts
<1>4. CASE DrawAll
  <2>1. Begin(TRUE, setting.rates)
    BY <1>4 DEF DrawAll
  <2>2. UNCHANGED <<system, setting, result, file, bench>> /\ runs' \in 0..MaxRuns
    BY <1>3, <1>4 DEF DrawAll, UserStarts
  <2>3. TypeParts'
    BY <1>2, <2>1, <2>2, BeginTyped DEF TypeParts, System
  <2> QED
    BY <2>3, TypeHasPartsNext
<1>5. ASSUME NEW r \in Rate, DrawOne(r) PROVE TypeOK'
  <2>1. Begin(FALSE, <<r>>)
    BY <1>5 DEF DrawOne
  <2>0. <<r>> \in Seq(Rate) /\ <<r>> # << >>
    OBVIOUS
  <2>2. UNCHANGED <<system, setting, result, file, bench>> /\ runs' \in 0..MaxRuns
    BY <1>3, <1>5 DEF DrawOne, UserStarts
  <2>3. TypeParts'
    BY <2>0, <2>1, <2>2, BeginTyped DEF TypeParts, System
  <2> QED
    BY <2>3, TypeHasPartsNext
<1>6. CASE StartBenchmark
  <2>1. TypeParts'
    BY <1>2, <1>3, <1>6 DEF TypeParts, System, StartBenchmark, UserStarts, scriptVars
  <2> QED
    BY <2>1, TypeHasPartsNext
<1>7. ASSUME NEW s \in Settings, Configure(s) PROVE TypeOK'
  <2>1. TypeParts'
    BY <1>3, <1>7 DEF TypeParts, System, Configure, UserStarts, scriptVars
  <2> QED
    BY <2>1, TypeHasPartsNext
<1>8. ASSUME NEW res \in Results, RoundEnds(res) PROVE TypeOK'
  <2> DEFINE r == Head(bench)
  <2>1. r \in Rate /\ Tail(bench) \in Seq(Rate) /\ <<r>> \in Seq(Rate) /\ <<r>> # << >>
    BY <1>8 DEF RoundEnds, TypeParts
  <2>2. /\ result' = [q \in DOMAIN result \cup {r} |-> IF q = r THEN res ELSE result[q]]
        /\ IF UsesBin THEN Begin(FALSE, <<r>>) ELSE UNCHANGED scriptVars
        /\ bench' = Tail(bench) /\ UNCHANGED <<system, setting, file, runs>>
    BY <1>8 DEF RoundEnds
  <2> HIDE DEF r
  <2>3. DOMAIN result' \subseteq Rate /\ \A q \in DOMAIN result' : result'[q] \in Results
    BY <2>1, <2>2 DEF TypeParts
  <2>4. CASE UsesBin
    <3>1. Begin(FALSE, <<r>>)
      BY <2>2, <2>4
    <3>2. TypeParts'
      BY <2>1, <2>2, <2>3, <3>1, BeginTyped DEF TypeParts, System
    <3> QED
      BY <3>2, TypeHasPartsNext
  <2>5. CASE ~UsesBin
    <3>1. TypeParts'
      BY <2>1, <2>2, <2>3, <2>5 DEF TypeParts, System, scriptVars
    <3> QED
      BY <3>1, TypeHasPartsNext
  <2> QED
    BY <2>4, <2>5
<1>9. CASE KillBenchmark
  <2>1. bench' \in Seq(Rate)
    BY <1>9 DEF KillBenchmark
  <2>2. TypeParts'
    BY <1>9, <2>1 DEF TypeParts, System, KillBenchmark, scriptVars
  <2> QED
    BY <2>2, TypeHasPartsNext
<1>10. CASE Calculate
  <2>1. todo \in Seq(Rate) /\ todo # << >> /\ Tail(todo) \in Seq(Rate)
    BY <1>10 DEF TypeParts, Calculate
  <2>2. file' # NoFile => file' \in Seq(FileColumn)
    BY <1>10, CalculateFile, FilesFact DEF TypeParts
  <2>3. /\ phase' \in {"idle", "calculate", "draw"} /\ (phase' # "idle" => todo' # << >>)
        /\ todo' \in Seq(Rate)
    <3>1. rates # << >>
      BY <1>10, <2>1, EmptySeq DEF ScriptSound, Calculate, Rest, TypeParts
    <3> QED
      BY <1>10, <2>1, <3>1 DEF Calculate, TypeParts
  <2>4. TypeParts'
    BY <1>10, <2>2, <2>3 DEF TypeParts, System, Calculate
  <2> QED
    BY <2>4, TypeHasPartsNext
<1>11. CASE Draw
  <2> DEFINE r == Head(todo)
  <2>1. r \in Rate /\ Tail(todo) \in Seq(Rate)
    BY <1>11 DEF TypeParts, Draw
  <2>2. /\ end' = IF UsesBin /\ (r \in DOMAIN result \/ ~all) THEN Bound(r) ELSE end
        /\ graphs' = IF CanPlot(r) THEN Append(graphs, [rate |-> r, end |-> Bound(r)]) ELSE graphs
    BY <1>11 DEF Draw
  <2>3. UsesBin \/ CanPlot(r) => Bound(r) \in Nat
    BY BoundTyped
  <2> HIDE DEF r
  <2>4. end' \in Nat
    BY <2>2, <2>3 DEF TypeParts
  <2>5. graphs' \in Seq([rate : Rate, end : Nat])
    <3>1. CanPlot(r) => [rate |-> r, end |-> Bound(r)] \in [rate : Rate, end : Nat]
      BY <2>1, <2>3
    <3>2. graphs \in Seq([rate : Rate, end : Nat])
      BY DEF TypeParts
    <3> DEFINE g == [rate |-> r, end |-> Bound(r)]
               G == [rate : Rate, end : Nat]
    <3>3. graphs' = IF CanPlot(r) THEN Append(graphs, g) ELSE graphs
      BY <2>2
    <3>4. (CanPlot(r) => g \in G) /\ graphs \in Seq(G)
      BY <3>1, <3>2
    <3> HIDE DEF g, G
    <3>5. graphs' \in Seq(G)
      BY <3>3, <3>4
    <3> QED
      BY <3>5 DEF G
  <2>6. TypeParts'
    BY <1>11, <2>1, <2>4, <2>5 DEF TypeParts, System, Draw
  <2> QED
    BY <2>6, TypeHasPartsNext
<1>12. CASE UNCHANGED vars
  <2>1. TypeParts'
    BY <1>12 DEF TypeParts, System, vars, scriptVars
  <2> QED
    BY <2>1, TypeHasPartsNext
<1> QED
  BY <1>4, <1>5, <1>6, <1>7, <1>8, <1>9, <1>10, <1>11, <1>12 DEF Next

------------------------------------------------------------------------------
(***************************************************************************)
(* The lists that are worked off, and the scripts.                         *)
(***************************************************************************)

\* A list that is begun is the full one.
LEMMA RestWhole ==
  ASSUME NEW S, NEW full \in Seq(S)
  PROVE  Rest(full, full) /\ Done(full, full) = 0
BY DEF Rest, Done

\* The next of a list, and the list behind it.
LEMMA RestTail ==
  ASSUME NEW S, NEW full \in Seq(S), NEW list \in Seq(S), list # << >>, Rest(list, full)
  PROVE  /\ Done(list, full) \in 0..Len(full) - 1
         /\ Head(list) = full[Done(list, full) + 1]
         /\ Rest(Tail(list), full) /\ Done(Tail(list), full) = Done(list, full) + 1
         /\ Tail(list) = << >> => Len(full) = Done(list, full) + 1
<1>1. /\ Len(list) \in Nat \ {0} /\ Len(full) \in Nat /\ Len(list) <= Len(full)
      /\ \A k \in 1..Len(list) : list[k] = full[Len(full) - Len(list) + k]
  BY EmptySeq DEF Rest
<1>2. /\ Tail(list) \in Seq(S) /\ Len(Tail(list)) = Len(list) - 1 /\ Head(list) = list[1]
      /\ \A k \in 1..Len(Tail(list)) : Tail(list)[k] = list[k + 1]
  BY HeadTailProperties
<1>3. Head(list) = full[Done(list, full) + 1]
  BY <1>1, <1>2 DEF Done
<1>4. Rest(Tail(list), full)
  <2>1. ASSUME NEW k \in 1..Len(Tail(list))
        PROVE  Tail(list)[k] = full[Len(full) - Len(Tail(list)) + k]
    <3>1. k + 1 \in 1..Len(list) /\ Len(full) - Len(list) + (k + 1) = Len(full) - Len(Tail(list)) + k
      BY <1>1, <1>2
    <3> QED
      BY <1>1, <1>2, <3>1
  <2> QED
    BY <1>1, <1>2, <2>1 DEF Rest
<1>5. Tail(list) = << >> => Len(Tail(list)) = 0
  BY EmptySeq
<1> QED
  BY <1>1, <1>2, <1>3, <1>4, <1>5 DEF Done

\* The columns of rates are columns.
LEMMA ColumnsOfTyped ==
  ASSUME TypeOK, NEW rs \in Seq(Rate), NEW n \in Nat, n <= Len(rs)
  PROVE  ColumnsIn(system, result, rs, n) \in Seq(FileColumn)
<1> DEFINE bad == {m \in 0..n : ColumnsIn(system, result, rs, m) \notin Seq(FileColumn)}
<1>1. ASSUME bad # {} PROVE FALSE
  <2>1. PICK m \in bad : \A k \in bad : m <= k
    <3>1. bad \in SUBSET Nat
      OBVIOUS
    <3> HIDE DEF bad
    <3> QED
      BY <1>1, <3>1, HasLeast
  <2>2. m # 0
    <3>1. ColumnsIn(system, result, rs, 0) \in Seq(FileColumn)
      BY ColumnsGrow, EmptySeq
    <3> QED
      BY <2>1, <3>1
  <2>3. m - 1 \in Nat /\ m - 1 \in 0..n /\ (m - 1) + 1 = m /\ m \in 1..Len(rs) /\ m - 1 \notin bad
    BY <2>1, <2>2
  <2>4. ColumnsIn(system, result, rs, m - 1) \in Seq(FileColumn)
    BY <2>3
  <2>5. ColumnsIn(system, result, rs, m) \notin Seq(FileColumn)
    BY <2>1
  <2> HIDE DEF bad
  <2>6. rs[m] \in Rate
    BY <2>3
  <2>7. CalculableIn(system, result, rs[m]) => ColumnIn(system, result, rs[m]) \in FileColumn
    BY <2>6, ColumnsTyped
  <2>8. ColumnsIn(system, result, rs, m) =
          IF CalculableIn(system, result, rs[m])
          THEN Append(ColumnsIn(system, result, rs, m - 1), ColumnIn(system, result, rs[m]))
          ELSE ColumnsIn(system, result, rs, m - 1)
    BY <2>3, ColumnsGrow
  <2> QED
    BY <2>4, <2>5, <2>7, <2>8
<1>2. n \in 0..n
  OBVIOUS
<1> QED
  BY <1>1, <1>2

\* Every step keeps the scripts sound.
LEMMA ScriptStep ==
  ASSUME TypeOK, ScriptSound, [Next]_vars
  PROVE  ScriptSound'
<1>1. TypeParts
  BY TypeHasParts
<1>2. setting.rates \in Seq(Rate) /\ setting.rates # << >>
  BY <1>1, RatesFact DEF TypeParts
<1>3. CASE DrawAll
  <2>1. Rest(setting.rates, setting.rates)
    BY <1>2, RestWhole
  <2> QED
    BY <1>3, <2>1 DEF ScriptSound, DrawAll, Begin, UsesBin, ByHand, First
<1>4. ASSUME NEW r \in Rate, DrawOne(r) PROVE ScriptSound'
  <2>1. <<r>> \in Seq(Rate)
    OBVIOUS
  <2>2. Rest(<<r>>, <<r>>)
    BY <2>1, RestWhole
  <2> QED
    BY <1>4, <2>2 DEF ScriptSound, DrawOne, Begin, UsesBin, ByHand, First
<1>5. CASE StartBenchmark
  BY <1>5 DEF ScriptSound, StartBenchmark, UserStarts, scriptVars, UsesBin, ByHand, First
<1>6. ASSUME NEW s \in Settings, Configure(s) PROVE ScriptSound'
  BY <1>6 DEF ScriptSound, Configure, UserStarts, scriptVars, UsesBin, ByHand, First
<1>7. ASSUME NEW res \in Results, RoundEnds(res) PROVE ScriptSound'
  <2> DEFINE r == Head(bench)
  <2>1. /\ IF UsesBin THEN Begin(FALSE, <<r>>) ELSE UNCHANGED scriptVars
        /\ phase = "idle" /\ UNCHANGED <<system, setting>>
    BY <1>7 DEF RoundEnds
  <2>2. <<r>> \in Seq({r})
    OBVIOUS
  <2>3. Rest(<<r>>, <<r>>)
    BY <2>2, RestWhole
  <2> HIDE DEF r
  <2> QED
    BY <2>1, <2>3 DEF ScriptSound, Begin, scriptVars, UsesBin, ByHand, First
<1>8. CASE KillBenchmark
  BY <1>8 DEF ScriptSound, KillBenchmark, scriptVars, UsesBin, ByHand, First
<1>9. CASE Calculate
  <2>1. Rest(Tail(todo), rates)
    <3>1. Rest(todo, rates) /\ todo # << >> /\ todo \in Seq(Rate) /\ rates \in Seq(Rate)
      BY <1>1, <1>9 DEF ScriptSound, Calculate, TypeParts
    <3> QED
      BY <3>1, RestTail
  <2> QED
    BY <1>9, <2>1 DEF ScriptSound, Calculate, UsesBin, ByHand, First
<1>10. CASE Draw
  BY <1>10 DEF ScriptSound, Draw, UsesBin, ByHand, First
<1>11. CASE UNCHANGED vars
  BY <1>11 DEF ScriptSound, vars, scriptVars, UsesBin, ByHand, First
<1> QED
  BY <1>3, <1>4, <1>5, <1>6, <1>7, <1>8, <1>9, <1>10, <1>11 DEF Next

------------------------------------------------------------------------------
(***************************************************************************)
(* The file behind a run on all rates, and behind a benchmark.             *)
(***************************************************************************)

\* If the first rate can be calculated, the file goes from the columns of the first n rates to those
\* of one more.
LEMMA FileGrows ==
  ASSUME TypeOK, ScriptSound, Calculate,
         NEW n \in 0..Len(setting.rates) - 1, Head(todo) = setting.rates[n + 1],
         CalculableIn(system, result, First),
         n # 0 => file = ColumnsIn(system, result, setting.rates, n)
  PROVE  file' = ColumnsIn(system, result, setting.rates, n + 1)
<1> DEFINE rs == setting.rates
           r == rs[n + 1]
           c == ColumnIn(system, result, r)
           old == ColumnsIn(system, result, rs, n)
           new == ColumnsIn(system, result, rs, n + 1)
<1>1. /\ rs \in Seq(Rate) /\ Len(rs) \in Nat \ {0} /\ First = rs[1]
      /\ \A i, j \in 1..Len(rs) : rs[i] = rs[j] => i = j
  <2>1. setting \in Settings
    BY DEF TypeOK
  <2>2. rs \in Seq(Rate) /\ \A i, j \in DOMAIN rs : rs[i] = rs[j] => i = j
    BY <2>1, RatesFact
  <2> QED
    BY <2>1, <2>2, FirstRate
<1>2. /\ file' = IF ~CalculableIn(system, result, r) THEN file
                 ELSE IF r = First THEN <<c>>
                 ELSE IF file = NoFile THEN NoFile ELSE Append(file, c)
      /\ CalculableIn(system, result, r) => c \in FileColumn
  BY CalculateFile
<1>3. /\ new = IF CalculableIn(system, result, r) THEN Append(old, c) ELSE old
      /\ ColumnsIn(system, result, rs, 0) = << >>
  <2>1. n \in Nat
    BY <1>1
  <2> QED
    BY <2>1, ColumnsGrow
<1>4. old \in Seq(FileColumn)
  <2>1. n \in Nat /\ n <= Len(rs)
    BY <1>1
  <2> HIDE DEF rs
  <2> QED
    BY <1>1, <2>1, ColumnsOfTyped
<1>5. r = First <=> n = 0
  <2>1. n + 1 \in 1..Len(rs) /\ 1 \in 1..Len(rs)
    BY <1>1
  <2> HIDE DEF rs
  <2> QED
    BY <1>1, <2>1
<1>6. n # 0 => file = old
  OBVIOUS
<1> HIDE DEF c, r, rs, old, new
<1>7. CASE n = 0
  <2>1. r = First /\ CalculableIn(system, result, r) /\ old = << >>
    BY <1>3, <1>5, <1>7 DEF old
  <2>2. file' = <<c>> /\ new = Append(<< >>, c)
    BY <1>2, <1>3, <2>1
  <2> QED
    BY <2>2 DEF new, rs
<1>8. CASE n # 0
  <2>1. old # NoFile
    BY <1>4, NoFileIsNone
  <2>2. file' = new
    BY <1>2, <1>3, <1>5, <1>6, <1>8, <2>1
  <2> QED
    BY <2>2 DEF new, rs
<1> QED
  BY <1>7, <1>8

\* If it cannot, the columns are added to those of before.
LEMMA FileAddsUp ==
  ASSUME TypeOK, ScriptSound, Calculate,
         NEW n \in 0..Len(setting.rates) - 1, Head(todo) = setting.rates[n + 1],
         ~CalculableIn(system, result, First),
         file = IF before.file = NoFile THEN NoFile
                ELSE before.file \o ColumnsIn(system, result, setting.rates, n)
  PROVE  file' = IF before.file = NoFile THEN NoFile
                 ELSE before.file \o ColumnsIn(system, result, setting.rates, n + 1)
<1> DEFINE rs == setting.rates
           r == rs[n + 1]
           c == ColumnIn(system, result, r)
           old == ColumnsIn(system, result, rs, n)
           new == ColumnsIn(system, result, rs, n + 1)
<1>1. rs \in Seq(Rate) /\ Len(rs) \in Nat \ {0}
  <2>1. setting \in Settings
    BY DEF TypeOK
  <2> QED
    BY <2>1, RatesFact, FirstRate
<1>2. /\ file' = IF ~CalculableIn(system, result, r) THEN file
                 ELSE IF r = First THEN <<c>>
                 ELSE IF file = NoFile THEN NoFile ELSE Append(file, c)
      /\ CalculableIn(system, result, r) => c \in FileColumn
  BY CalculateFile
<1>3. new = IF CalculableIn(system, result, r) THEN Append(old, c) ELSE old
  <2>1. n \in Nat
    BY <1>1
  <2> QED
    BY <2>1, ColumnsGrow
<1>4. old \in Seq(FileColumn)
  <2>1. n \in Nat /\ n <= Len(rs)
    BY <1>1
  <2> HIDE DEF rs
  <2> QED
    BY <1>1, <2>1, ColumnsOfTyped
<1>5. file = IF before.file = NoFile THEN NoFile ELSE before.file \o old
  OBVIOUS
<1>6. before.file # NoFile => before.file \in Seq(FileColumn)
  BY TypeHasParts DEF TypeParts
<1> HIDE DEF c, r, rs, old, new
<1>7. CASE ~CalculableIn(system, result, r)
  BY <1>2, <1>3, <1>5, <1>7 DEF new, rs
<1>8. CASE CalculableIn(system, result, r)
  <2>1. c \in FileColumn /\ r # First /\ new = Append(old, c)
    BY <1>2, <1>3, <1>8
  <2>2. file' = IF file = NoFile THEN NoFile ELSE Append(file, c)
    BY <1>2, <1>8, <2>1
  <2>3. CASE before.file = NoFile
    BY <1>5, <2>2, <2>3 DEF new, rs
  <2>4. CASE before.file # NoFile
    <3>1. file = before.file \o old /\ before.file \in Seq(FileColumn)
      BY <1>5, <1>6, <2>4
    <3>2. file \in Seq(FileColumn)
      BY <1>4, <3>1, ConcatProperties
    <3>3. file # NoFile
      BY <3>2, NoFileIsNone
    <3>4. Append(before.file \o old, c) = before.file \o Append(old, c)
      <4> DEFINE b == before.file
      <4>1. b \in Seq(FileColumn) /\ old \in Seq(FileColumn) /\ c \in FileColumn
        BY <1>4, <2>1, <3>1
      <4> HIDE DEF b
      <4>2. b \o old \in Seq(FileColumn) /\ <<c>> \in Seq(FileColumn)
        BY <4>1, ConcatProperties
      <4>3. Append(b \o old, c) = (b \o old) \o <<c>>
        BY <4>1, <4>2, AppendIsConcat
      <4>4. Append(old, c) = old \o <<c>>
        BY <4>1, AppendIsConcat
      <4>5. (b \o old) \o <<c>> = b \o (old \o <<c>>)
        BY <4>1, <4>2, ConcatAssociative
      <4> QED
        BY <4>3, <4>4, <4>5 DEF b
    <3> QED
      BY <2>1, <2>2, <2>4, <3>1, <3>3, <3>4 DEF new, rs
  <2> QED
    BY <2>3, <2>4
<1> QED
  BY <1>7, <1>8

\* The file of a run on all rates goes from the first n to the first n + 1.
LEMMA FileBehindNext ==
  ASSUME TypeOK, ScriptSound, Calculate, rates = setting.rates,
         NEW n \in 0..Len(rates) - 1, Head(todo) = rates[n + 1], FileBehind(n)
  PROVE  FileBehind(n + 1)'
<1>1. UNCHANGED <<system, result, rates, before>>
  BY DEF Calculate
<1>2. n + 1 # 0 /\ First = rates[1]
  BY DEF First
<1>3. CASE CalculableIn(system, result, First)
  <2>1. n # 0 => file = ColumnsIn(system, result, setting.rates, n)
    BY <1>2, <1>3 DEF FileBehind
  <2>2. file' = ColumnsIn(system, result, setting.rates, n + 1)
    BY <1>3, <2>1, FileGrows
  <2> QED
    BY <1>1, <1>2, <1>3, <2>2 DEF FileBehind
<1>4. CASE ~CalculableIn(system, result, First)
  <2>1. file = IF before.file = NoFile THEN NoFile
               ELSE before.file \o ColumnsIn(system, result, setting.rates, n)
    BY <1>2, <1>4 DEF FileBehind
  <2>2. file' = IF before.file = NoFile THEN NoFile
                ELSE before.file \o ColumnsIn(system, result, setting.rates, n + 1)
    BY <1>4, <2>1, FileAddsUp
  <2> QED
    BY <1>1, <1>2, <1>4, <2>2 DEF FileBehind
<1> QED
  BY <1>3, <1>4

\* Every step keeps the file of a run on all rates right.
LEMMA AllStep ==
  ASSUME TypeOK, ScriptSound, AllSound, [Next]_vars
  PROVE  AllSound'
<1>1. TypeParts
  BY TypeHasParts
<1>2. setting.rates \in Seq(Rate) /\ setting.rates # << >>
  BY <1>1, RatesFact DEF TypeParts
<1>3. CASE DrawAll
  <2>1. /\ phase' = "calculate" /\ rates' = setting.rates /\ todo' = rates'
        /\ file' = file /\ before'.file = file
    BY <1>3 DEF DrawAll, Begin
  <2>2. Done(todo, rates)' = 0
    BY <1>2, <2>1, RestWhole
  <2>3. ColumnsIn(system', result', rates', 0) = << >>
    BY ColumnsGrow
  <2>4. file # NoFile => file \o << >> = file
    BY <1>1, ConcatEmptySeq DEF TypeParts
  <2>5. FileBehind(0)'
    BY <2>1, <2>3, <2>4 DEF FileBehind
  <2> QED
    BY <2>1, <2>2, <2>5 DEF AllSound
<1>4. ASSUME NEW r \in Rate, DrawOne(r) PROVE AllSound'
  BY <1>4 DEF AllSound, DrawOne, Begin
<1>5. CASE StartBenchmark
  BY <1>5 DEF AllSound, StartBenchmark, UserStarts, scriptVars
<1>6. ASSUME NEW s \in Settings, Configure(s) PROVE AllSound'
  BY <1>6 DEF AllSound, Configure, UserStarts, scriptVars
<1>7. ASSUME NEW res \in Results, RoundEnds(res) PROVE AllSound'
  BY <1>7 DEF AllSound, RoundEnds, Begin, scriptVars
<1>8. CASE KillBenchmark
  BY <1>8 DEF AllSound, KillBenchmark, scriptVars
<1>9. CASE Calculate
  <2> SUFFICES ASSUME all PROVE AllSound'
    BY <1>9 DEF AllSound, Calculate
  <2>1. /\ phase = "calculate" /\ rates = setting.rates /\ ~ByHand
        /\ Rest(todo, rates) /\ todo # << >> /\ todo \in Seq(Rate) /\ rates \in Seq(Rate)
        /\ FileBehind(Done(todo, rates))
    BY <1>1, <1>9 DEF ScriptSound, AllSound, Calculate, TypeParts
  <2>2. PICK n \in 0..Len(rates) - 1 :
          /\ n = Done(todo, rates) /\ Head(todo) = rates[n + 1]
          /\ Done(Tail(todo), rates) = n + 1 /\ (Tail(todo) = << >> => Len(rates) = n + 1)
    BY <2>1, RestTail
  <2>3. FileBehind(n)
    BY <2>1, <2>2
  <2>4. FileBehind(n + 1)'
    BY <1>9, <2>1, <2>2, <2>3, FileBehindNext
  <2>5. CASE Tail(todo) = << >>
    <3>1. phase' = "draw" /\ rates' = rates /\ Len(rates) = n + 1
      BY <1>9, <2>1, <2>2, <2>5 DEF Calculate
    <3> QED
      BY <2>4, <3>1 DEF AllSound, FileBehind
  <2>6. CASE Tail(todo) # << >>
    <3>1. phase' = "calculate" /\ rates' = rates /\ Done(todo', rates') = n + 1
      BY <1>9, <2>1, <2>2, <2>6 DEF Calculate
    <3> QED
      BY <2>4, <3>1 DEF AllSound, FileBehind
  <2> QED
    BY <2>5, <2>6
<1>10. CASE Draw
  BY <1>10 DEF AllSound, FileBehind, Draw
<1>11. CASE UNCHANGED vars
  BY <1>11 DEF AllSound, FileBehind, Done, vars, scriptVars
<1> QED
  BY <1>3, <1>4, <1>5, <1>6, <1>7, <1>8, <1>9, <1>10, <1>11 DEF Next

\* A round that ends replaces the result of its rate, and no other.
LEMMA RoundKeepsColumns ==
  ASSUME TypeOK, NEW res, NEW n \in 1..Len(setting.rates),
         result' = [q \in DOMAIN result \cup {setting.rates[n]} |->
                      IF q = setting.rates[n] THEN res ELSE result[q]],
         FileOfRounds(n - 1), UNCHANGED <<system, setting, file>>
  PROVE  FileOfRounds(n - 1)'
<1> DEFINE rs == setting.rates
<1>1. /\ Len(rs) \in Nat \ {0} /\ First = rs[1]
      /\ \A i, j \in 1..Len(rs) : rs[i] = rs[j] => i = j
  <2>1. setting \in Settings
    BY DEF TypeOK
  <2>2. rs \in Seq(Rate) /\ \A i, j \in DOMAIN rs : rs[i] = rs[j] => i = j
    BY <2>1, RatesFact
  <2> QED
    BY <2>1, <2>2, FirstRate
<1>2. result' = [q \in DOMAIN result \cup {rs[n]} |-> IF q = rs[n] THEN res ELSE result[q]]
  OBVIOUS
<1>3. First' = rs[1] /\ setting'.rates = rs /\ system' = system /\ file' = file
  BY DEF First
<1>4. n \in 1..Len(rs)
  OBVIOUS
<1>5. n - 1 # 0 /\ CalculableIn(system, result, rs[1]) => file = ColumnsIn(system, result, rs, n - 1)
  BY <1>1 DEF FileOfRounds
<1> HIDE DEF rs
<1>6. n - 1 \in Nat /\ \A k \in 1..n - 1 : k \in 1..Len(rs) /\ k # n
  BY <1>1, <1>4
<1>7. ASSUME NEW k \in 1..n - 1
      PROVE  /\ rs[k] \in DOMAIN result' <=> rs[k] \in DOMAIN result
             /\ rs[k] \in DOMAIN result => result'[rs[k]] = result[rs[k]]
  <2>1. rs[k] # rs[n]
    BY <1>1, <1>4, <1>6
  <2> QED
    BY <1>2, <2>1
<1>8. ColumnsIn(system, result', rs, n - 1) = ColumnsIn(system, result, rs, n - 1)
  <2> DEFINE new == result'
             m == n - 1
  <2>0. m \in Nat
    BY <1>6
  <2>1. \A k \in 1..m :
          /\ rs[k] \in DOMAIN new <=> rs[k] \in DOMAIN result
          /\ rs[k] \in DOMAIN result => new[rs[k]] = result[rs[k]]
    BY <1>6, <1>7
  <2> HIDE DEF new, m
  <2>2. ColumnsIn(system, new, rs, m) = ColumnsIn(system, result, rs, m)
    BY <2>0, <2>1, ColumnsStay
  <2> QED
    BY <2>2 DEF new, m
<1>9. ASSUME n - 1 # 0
      PROVE  CalculableIn(system, result', rs[1]) <=> CalculableIn(system, result, rs[1])
  <2>1. 1 \in 1..n - 1
    BY <1>6, <1>9
  <2> QED
    BY <1>7, <2>1 DEF CalculableIn
<1> QED
  BY <1>3, <1>5, <1>8, <1>9 DEF FileOfRounds

\* A step that changes no results and no file, and neither a benchmark nor the script it runs.
LEMMA BenchKept ==
  ASSUME BenchSound,
         UNCHANGED <<system, setting, result, file, phase, rates, todo, bench, benching>>
  PROVE  BenchSound'
BY DEF BenchSound, Done, Rest, FileOfRounds, UsesBin, First

\* Every step keeps the file of a benchmark right.
LEMMA BenchStep ==
  ASSUME TypeOK, ScriptSound, BenchSound, [Next]_vars
  PROVE  BenchSound'
<1>1. TypeParts
  BY TypeHasParts
<1>2. setting.rates \in Seq(Rate) /\ setting.rates # << >>
  BY <1>1, RatesFact DEF TypeParts
<1>3. CASE DrawAll
  BY <1>3 DEF BenchSound, DrawAll, UserStarts
<1>4. ASSUME NEW r \in Rate, DrawOne(r) PROVE BenchSound'
  BY <1>4 DEF BenchSound, DrawOne, UserStarts
<1>5. CASE StartBenchmark
  <2>1. /\ phase' = "idle" /\ bench' = setting.rates /\ benching' /\ setting' = setting
    BY <1>5 DEF StartBenchmark, UserStarts, scriptVars
  <2>2. Rest(bench', setting'.rates) /\ Done(bench', setting'.rates) = 0
    BY <1>2, <2>1, RestWhole
  <2> QED
    BY <2>1, <2>2 DEF BenchSound, FileOfRounds
<1>6. ASSUME NEW s \in Settings, Configure(s) PROVE BenchSound'
  BY <1>6 DEF BenchSound, Configure, UserStarts
<1>7. ASSUME NEW res \in Results, RoundEnds(res) PROVE BenchSound'
  <2> DEFINE r == Head(bench)
  <2>1. /\ result' = [q \in DOMAIN result \cup {r} |-> IF q = r THEN res ELSE result[q]]
        /\ IF UsesBin THEN Begin(FALSE, <<r>>) ELSE UNCHANGED scriptVars
        /\ bench # << >> /\ phase = "idle" /\ bench' = Tail(bench)
        /\ UNCHANGED <<system, setting, file, benching>>
    BY <1>7 DEF RoundEnds
  <2>2. benching /\ Rest(bench, setting.rates) /\ bench \in Seq(Rate)
    BY <1>1, <2>1 DEF BenchSound, TypeParts
  <2>3. PICK n \in 1..Len(setting.rates) :
          /\ n = Done(bench, setting.rates) + 1 /\ r = setting.rates[n]
          /\ Rest(Tail(bench), setting.rates) /\ Done(Tail(bench), setting.rates) = n
    <3>1. /\ Done(bench, setting.rates) \in 0..Len(setting.rates) - 1
          /\ r = setting.rates[Done(bench, setting.rates) + 1]
          /\ Rest(Tail(bench), setting.rates)
          /\ Done(Tail(bench), setting.rates) = Done(bench, setting.rates) + 1
      BY <1>2, <2>1, <2>2, RestTail
    <3>2. Len(setting.rates) \in Nat
      BY <1>2
    <3>3. Done(bench, setting.rates) + 1 \in 1..Len(setting.rates)
      BY <3>1, <3>2
    <3> HIDE DEF r
    <3> QED
      BY <3>1, <3>3
  <2>4. Done(bench, setting.rates) = n - 1
    <3>1. Done(bench, setting.rates) \in Int
      BY <1>2, <2>2 DEF Done
    <3> QED
      BY <2>3, <3>1
  <2> HIDE DEF r
  <2>5. Rest(bench, setting.rates)' /\ Done(bench, setting.rates)' = n
    BY <2>1, <2>3
  <2>6. CASE UsesBin
    <3>1. UsesBin' /\ phase' = "calculate" /\ rates' = <<r>> /\ todo' = rates'
      BY <2>1, <2>6 DEF Begin, UsesBin
    <3>2. FileOfRounds(n - 1)
      BY <2>1, <2>2, <2>4, <2>6 DEF BenchSound
    <3>3. FileOfRounds(n - 1)'
      BY <2>1, <2>3, <3>2, RoundKeepsColumns
    <3> QED
      BY <2>1, <2>2, <2>3, <2>5, <3>1, <3>3 DEF BenchSound
  <2>7. CASE ~UsesBin
    BY <2>1, <2>2, <2>5, <2>7 DEF BenchSound, UsesBin
  <2> QED
    BY <2>6, <2>7
<1>8. CASE KillBenchmark
  BY <1>8 DEF BenchSound, KillBenchmark
<1>9. CASE Calculate
  <2>1. UNCHANGED <<system, setting, result, rates, bench, benching>> /\ phase = "calculate"
    BY <1>9 DEF Calculate
  <2>2. CASE UsesBin /\ benching
    <3>1. /\ Done(bench, setting.rates) # 0
          /\ rates = <<setting.rates[Done(bench, setting.rates)]>> /\ todo = rates
          /\ FileOfRounds(Done(bench, setting.rates) - 1) /\ Rest(bench, setting.rates)
      BY <2>1, <2>2 DEF BenchSound
    <3>2. PICK n \in 0..Len(setting.rates) - 1 : Done(bench, setting.rates) = n + 1
      <4>1. Len(bench) \in Nat /\ Len(setting.rates) \in Nat /\ Len(bench) <= Len(setting.rates)
        BY <1>1, <1>2, <3>1 DEF TypeParts, Rest
      <4>2. Done(bench, setting.rates) - 1 \in 0..Len(setting.rates) - 1
        BY <3>1, <4>1 DEF Done
      <4>3. Done(bench, setting.rates) = (Done(bench, setting.rates) - 1) + 1
        BY <4>1 DEF Done
      <4> QED
        BY <4>2, <4>3
    <3>3. Head(todo) = setting.rates[n + 1] /\ Tail(todo) = << >>
      BY <3>1, <3>2
    <3>4. FileOfRounds(n)
      <4>1. Done(bench, setting.rates) - 1 = n
        BY <3>2
      <4> QED
        BY <3>1, <4>1
    <3>5. phase' # "calculate"
      BY <1>9, <2>1, <3>3 DEF Calculate
    <3>6. Done(bench, setting.rates)' = n + 1 /\ Rest(bench, setting.rates)' /\ First' = First
      BY <2>1, <3>1, <3>2 DEF First
    <3>7. FileOfRounds(n + 1)'
      <4>1. CASE CalculableIn(system, result, First)
        <5>1. n # 0 => file = ColumnsIn(system, result, setting.rates, n)
          BY <3>4, <4>1 DEF FileOfRounds
        <5>2. file' = ColumnsIn(system, result, setting.rates, n + 1)
          BY <1>9, <3>3, <4>1, <5>1, FileGrows
        <5> QED
          BY <2>1, <5>2 DEF FileOfRounds
      <4>2. CASE ~CalculableIn(system, result, First)
        BY <2>1, <3>6, <4>2 DEF FileOfRounds
      <4> QED
        BY <4>1, <4>2
    <3> QED
      BY <2>1, <2>2, <3>5, <3>6, <3>7 DEF BenchSound
  <2>3. CASE ~UsesBin \/ ~benching
    BY <2>1, <2>3 DEF BenchSound, UsesBin, Done, Rest
  <2> QED
    BY <2>2, <2>3
<1>10. CASE Draw
  <2>1. /\ UNCHANGED <<system, setting, result, file, rates, bench, benching>>
        /\ phase = "draw" /\ phase' # "calculate"
    BY <1>10 DEF Draw
  <2> QED
    BY <2>1 DEF BenchSound, Done, Rest, FileOfRounds, UsesBin, First
<1>11. CASE UNCHANGED vars
  BY <1>11, BenchKept DEF vars, scriptVars
<1> QED
  BY <1>3, <1>4, <1>5, <1>6, <1>7, <1>8, <1>9, <1>10, <1>11 DEF Next

\* Every step keeps the beginning of the file.
LEMMA FileStep ==
  ASSUME TypeOK, ScriptSound, FileSound, FileBeginsOnce, [Next]_vars
  PROVE  FileSound' /\ FileBeginsOnce'
<1>1. TypeParts
  BY TypeHasParts
<1>2. CASE Calculate
  <2> DEFINE r == Head(todo)
             c == ColumnIn(system, result, r)
  <2>1. /\ file' = IF ~CalculableIn(system, result, r) THEN file
                   ELSE IF r = First THEN <<c>>
                   ELSE IF file = NoFile THEN NoFile ELSE Append(file, c)
        /\ CalculableIn(system, result, r) => c.rate = r
    BY <1>2, CalculateFile
  <2>2. (~UsesBin => First = Hundred) /\ system' = system
    BY <1>2 DEF ScriptSound, Calculate
  <2> HIDE DEF c, r
  <2>3. CASE file' = file
    BY <2>2, <2>3 DEF FileSound, FileBeginsOnce, UsesBin
  <2>4. CASE CalculableIn(system, result, r) /\ r = First
    <3>1. file' = <<c>> /\ c.rate = r
      BY <2>1, <2>4
    <3>2. DOMAIN file' = {1} /\ file'[1] = c /\ file' # << >>
      BY <3>1
    <3> QED
      BY <2>2, <2>4, <3>1, <3>2 DEF FileSound, FileBeginsOnce, UsesBin
  <2>5. CASE CalculableIn(system, result, r) /\ r # First /\ file # NoFile
    <3>1. file' = Append(file, c) /\ c.rate = r /\ file \in Seq(FileColumn) /\ file # << >>
      BY <1>1, <2>1, <2>5 DEF TypeParts, FileSound
    <3>2. Len(file) \in Nat \ {0} /\ DOMAIN file = 1..Len(file)
      BY <3>1, EmptySeq
    <3>3. /\ DOMAIN file' = 1..Len(file) + 1 /\ file'[Len(file) + 1] = c /\ file' # << >>
          /\ \A k \in 1..Len(file) : file'[k] = file[k]
      BY <3>1, <3>2
    <3>4. FileSound'
      BY <3>3 DEF FileSound
    <3>5. ASSUME ~UsesBin, NEW k \in DOMAIN file' PROVE file'[k].rate = Hundred <=> k = 1
      <4>1. CASE k = Len(file) + 1
        BY <2>2, <2>5, <3>1, <3>2, <3>3, <3>5, <4>1
      <4>2. CASE k \in 1..Len(file)
        BY <2>5, <3>2, <3>3, <3>5, <4>2 DEF FileBeginsOnce
      <4> QED
        BY <3>2, <3>3, <4>1, <4>2
    <3> QED
      BY <2>2, <3>4, <3>5 DEF FileBeginsOnce, UsesBin
  <2> QED
    BY <2>1, <2>3, <2>4, <2>5
<1>3. CASE ~Calculate
  <2>1. file' = file /\ system' = system
    BY <1>3 DEF Next, vars, DrawAll, DrawOne, StartBenchmark, Configure, RoundEnds,
                KillBenchmark, Draw
  <2> QED
    BY <2>1 DEF FileSound, FileBeginsOnce, UsesBin
<1> QED
  BY <1>2, <1>3

------------------------------------------------------------------------------
(***************************************************************************)
(* The addresses.                                                          *)
(***************************************************************************)

\* modconfig.js, before or behind the zones are read, keeps the addresses sound.
LEMMA UpdateSound ==
  ASSUME AddressSound, UpdateConfig, UNCHANGED <<system, setting>>
  PROVE  AddressSound'
<1>1. /\ zones' = Zones[setting.region] /\ urls' = Addresses(zones')
      /\ rounds' = IF rounds < 2 THEN rounds + 1 ELSE rounds
  BY DEF UpdateConfig, ReadAndModify, ModifyAndRead, ModConfig
<1>2. rounds \in 0..2 /\ rounds' \in 0..2 /\ (rounds' >= 2 => rounds >= 1)
  BY <1>1 DEF AddressSound
<1>3. rounds' >= (IF UsesBin THEN 2 ELSE 1) => reached' = Reached(zones')
  <2>1. CASE UsesBin
    <3>1. reached' = Reached(zones)
      BY <2>1 DEF UpdateConfig, ReadAndModify
    <3>2. rounds' >= 2 => zones = zones'
      BY <1>1, <1>2 DEF AddressSound
    <3> QED
      BY <2>1, <3>1, <3>2
  <2>2. CASE ~UsesBin
    BY <1>1, <2>2 DEF UpdateConfig, ModifyAndRead
  <2> QED
    BY <2>1, <2>2
<1> QED
  BY <1>1, <1>2, <1>3 DEF AddressSound, UsesBin

\* Every step keeps the addresses sound.
LEMMA AddressStep ==
  ASSUME AddressSound, [Next]_vars
  PROVE  AddressSound'
<1>1. CASE UNCHANGED <<system, setting, configVars>>
  BY <1>1 DEF AddressSound, configVars, Addresses, Reached, UsesBin
<1>2. ASSUME NEW s \in Settings, Configure(s) PROVE AddressSound'
  <2>1. CASE s.region = setting.region
    BY <1>2, <2>1 DEF AddressSound, Configure, configVars, Addresses, Reached, UsesBin
  <2>2. CASE s.region # setting.region
    <3>1. rounds' = 0
      BY <1>2, <2>2 DEF Configure, EditRegion
    <3> QED
      BY <3>1 DEF AddressSound
  <2> QED
    BY <2>1, <2>2
<1>3. ASSUME NEW res \in Results, RoundEnds(res) PROVE AddressSound'
  BY <1>3, UpdateSound DEF RoundEnds
<1>4. CASE KillBenchmark
  <2>1. CASE UpdateConfig
    BY <1>4, <2>1, UpdateSound DEF KillBenchmark
  <2>2. CASE UNCHANGED configVars
    BY <1>1, <1>4, <2>2 DEF KillBenchmark
  <2> QED
    BY <1>4, <2>1, <2>2 DEF KillBenchmark
<1>5. CASE DrawAll \/ (\E r \in Rate : DrawOne(r)) \/ StartBenchmark \/ Calculate \/ Draw
  BY <1>1, <1>5 DEF DrawAll, DrawOne, StartBenchmark, Calculate, Draw
<1>6. CASE UNCHANGED vars
  BY <1>1, <1>6 DEF vars
<1> QED
  BY <1>2, <1>3, <1>4, <1>5, <1>6 DEF Next

\* A number is told by its quotient and its remainder.
LEMMA QuotientAndRemainder ==
  ASSUME NEW a \in Nat, NEW b \in Nat, NEW n \in Nat \ {0}, a % n = b % n, a \div n = b \div n
  PROVE  a = b
OBVIOUS

\* A node is told by its place in a zone: no two nodes have one address.
LEMMA AddressesDiffer ==
  ASSUME NEW region \in DOMAIN Zones
  PROVE  LET zs == Zones[region]
         IN  /\ IsInjective(Addresses(zs))
             /\ \A n \in Node : Addresses(zs)[n].zone = Reached(zs)[n]
<1> DEFINE zs == Zones[region]
           L == Len(zs)
<1>1. L \in Nat \ {0} /\ \A i, j \in 1..L : zs[i] = zs[j] => i = j
  <2>1. zs \in Seq(STRING) /\ zs # << >> /\ \A i, j \in DOMAIN zs : zs[i] = zs[j] => i = j
    BY ConfigurationAssumption
  <2> HIDE DEF zs
  <2> QED
    BY <2>1, EmptySeq
<1> HIDE DEF zs
<1>2. \A n \in Node : n \in Nat
  BY NodeNumAssumption DEF Node
<1>3. ASSUME NEW a \in Node, NEW b \in Node, Addresses(zs)[a] = Addresses(zs)[b] PROVE a = b
  <2>1. ZoneOf(a, zs) = ZoneOf(b, zs) /\ Host(a, zs) = Host(b, zs)
    BY <1>3 DEF Addresses
  <2>2. a % L \in 0..L - 1 /\ b % L \in 0..L - 1
    BY <1>1, <1>2
  <2>3. a % L = b % L
    <3>1. zs[(a % L) + 1] = zs[(b % L) + 1]
      BY <2>1 DEF ZoneOf
    <3>2. (a % L) + 1 \in 1..L /\ (b % L) + 1 \in 1..L
      BY <1>1, <2>2
    <3>3. (a % L) + 1 = (b % L) + 1
      BY <1>1, <3>1, <3>2
    <3> QED
      BY <2>2, <3>3
  <2>4. a \div L = b \div L
    BY <2>1 DEF Host
  <2> QED
    BY <1>1, <1>2, <2>3, <2>4, QuotientAndRemainder
<1>4. \A n \in Node : Addresses(zs)[n].zone = Reached(zs)[n]
  BY DEF Addresses, Reached
<1> QED
  BY <1>3, <1>4 DEF IsInjective, Addresses, zs

------------------------------------------------------------------------------
(***************************************************************************)
(* The figures of one report.                                              *)
(***************************************************************************)

\* The transactions that throughputs count.
Counted(tps) == SumFunction([k \in DOMAIN tps |-> tps[k][1]])

\* A report has numbers of transactions.
LEMMA ReportFact ==
  ASSUME NEW report \in Seq([txs : Nat, time : Int])
  PROVE  Len(report) \in Nat /\ \A j \in 1..Len(report) : report[j].txs \in Nat
<1>1. \A j \in 1..Len(report) : report[j] \in [txs : Nat, time : Int]
  BY ElementOfSeq
<1> QED
  BY <1>1

\* The number of the blocks that are measured.
LEMMA MeasuredIs ==
  ASSUME NEW report \in Seq([txs : Nat, time : Int])
  PROVE  Cardinality(Measured(report)) = IF Len(report) <= 2 THEN 0 ELSE Len(report) - 2
<1> DEFINE L == Len(report)
<1>1. L \in Nat
  OBVIOUS
<1>2. Measured(report) = 2..L - 1
  BY DEF Measured
<1> HIDE DEF L
<1>3. 2 \in Int /\ L - 1 \in Int /\ (2 > L - 1 <=> L <= 2) /\ (L - 1) - 2 + 1 = L - 2
  BY <1>1
<1>4. Cardinality(2..L - 1) = IF 2 > L - 1 THEN 0 ELSE (L - 1) - 2 + 1
  BY <1>3, FS_Interval
<1> QED
  BY <1>2, <1>3, <1>4 DEF L

\* Of a report of at most two blocks nothing is measured.
LEMMA SumOfRangeOfNone == \A f : \A a, b \in Int : b < a => Sum(f, a..b) = 0
<1> SUFFICES ASSUME NEW f, NEW a \in Int, NEW b \in Int, b < a PROVE Sum(f, a..b) = 0
  OBVIOUS
<1>1. a..b = {}
  OBVIOUS
<1> QED
  BY <1>1, SumOfNone

\* What the blocks that are measured hold, however it is written.
LEMMA MeasuredSum ==
  ASSUME NEW report \in Seq([txs : Nat, time : Int]), NEW g,
         \A j \in 2..Len(report) - 1 : g[j] = report[j].txs
  PROVE  Counted(Throughputs(report)) = Sum(g, 2..Len(report) - 1)
<1> DEFINE L == Len(report)
           m == Cardinality(Measured(report))
           f == [k \in 1..m |-> report[k + 1].txs]
<1>1. L \in Nat /\ \A j \in 1..L : report[j].txs \in Nat
  BY ReportFact
<1>2. m = IF L <= 2 THEN 0 ELSE L - 2
  BY MeasuredIs
<1>3. Counted(Throughputs(report)) = Sum(f, 1..m)
  <2> DEFINE tps == Throughputs(report)
  <2>1. tps = [j \in 1..m |-> <<report[j + 1].txs, report[j + 1].time - report[j].time>>]
    BY DEF Throughputs
  <2> HIDE DEF tps, m
  <2>2. DOMAIN tps = 1..m /\ \A k \in 1..m : tps[k][1] = report[k + 1].txs
    BY <2>1
  <2>3. [k \in DOMAIN tps |-> tps[k][1]] = f
    BY <2>2
  <2>4. Counted(tps) = SumFunctionOnSet(f, DOMAIN f)
    BY <2>3 DEF Counted, SumFunction
  <2>5. DOMAIN f = 1..m
    OBVIOUS
  <2> QED
    BY <2>4, <2>5 DEF Sum, tps
<1>4. \A j \in 2..L - 1 : g[j] = report[j].txs
  OBVIOUS
<1> HIDE DEF L, m
<1>5. CASE L <= 2
  <2>1. 0 \in Int /\ 1 \in Int /\ 2 \in Int /\ L - 1 \in Int /\ 0 < 1 /\ L - 1 < 2 /\ m = 0
    BY <1>1, <1>2, <1>5
  <2>2. Sum(f, 1..m) = 0 /\ Sum(g, 2..L - 1) = 0
    BY <2>1, SumOfRangeOfNone
  <2> QED
    BY <1>3, <2>2 DEF L
<1>6. CASE ~(L <= 2)
  <2>1. m \in Nat /\ m = L - 2 /\ m + 1 = L - 1
    BY <1>1, <1>2, <1>6
  <2>2. \A j \in 1..m : f[j] \in Nat /\ g[j + 1] = f[j]
    <3> SUFFICES ASSUME NEW j \in 1..m PROVE f[j] \in Nat /\ g[j + 1] = f[j]
      OBVIOUS
    <3>1. j + 1 \in 1..L /\ j + 1 \in 2..L - 1
      BY <1>1, <2>1
    <3> QED
      BY <1>1, <1>4, <3>1
  <2> HIDE DEF f
  <2>3. Sum(f, 1..m) = Sum(g, 2..m + 1)
    <3>1. m \in Nat
      BY <2>1
    <3>2. \A j \in 1..m : f[j] \in Nat /\ g[j + 1] = f[j]
      BY <2>2
    <3> QED
      BY <3>1, <3>2, SumShifted
  <2> QED
    BY <1>3, <2>1, <2>3 DEF L
<1> QED
  BY <1>5, <1>6

\* cal.js: the throughputs count the transactions of the blocks that are measured.
LEMMA CountedIs ==
  ASSUME NEW report \in Seq([txs : Nat, time : Int])
  PROVE  Counted(Throughputs(report)) = TxsIn(report, Measured(report))
<1> DEFINE g == [j \in 2..Len(report) - 1 |-> report[j].txs]
<1>1. \A j \in 2..Len(report) - 1 : g[j] = report[j].txs
  OBVIOUS
<1>2. TxsIn(report, Measured(report)) = Sum(g, 2..Len(report) - 1)
  BY DEF TxsIn, Measured, Sum, SumFunction
<1> HIDE DEF g
<1> QED
  BY <1>1, <1>2, MeasuredSum

\* raft_cal.js: the one throughput counts those of the first block as well.
LEMMA RaftCountedIs ==
  ASSUME NEW report \in Seq([txs : Nat, time : Int]), report # << >>
  PROVE  Counted(RaftThroughputs(report)) =
           IF Len(report) > 1 THEN TxsIn(report, Measured(report)) + report[1].txs
           ELSE TxsIn(report, Measured(report))
<1> DEFINE L == Len(report)
           T == TxsIn(report, 1..L - 1)
           g == [j \in 1..L - 1 |-> report[j].txs]
<1>1. L \in Nat \ {0} /\ \A j \in 1..L : report[j].txs \in Nat
  BY ReportFact, EmptySeq
<1>2. T = Sum(g, 1..L - 1)
  BY DEF TxsIn, Sum, SumFunction
<1>3. IsFiniteSet(1..L - 1) /\ \A j \in 1..L - 1 : g[j] \in Nat /\ g[j] = report[j].txs
  <2>1. 1 \in Int /\ L - 1 \in Int /\ \A j \in 1..L - 1 : j \in 1..L
    BY <1>1
  <2>2. IsFiniteSet(1..L - 1)
    BY <2>1, FS_Interval
  <2> QED
    BY <1>1, <2>1, <2>2
<1> HIDE DEF g
<1>4. T \in Nat
  <2>1. \A j \in 1..L - 1 : g[j] \in Nat /\ g[j] \in Nat /\ g[j] <= g[j]
    BY <1>3
  <2> QED
    BY <1>2, <1>3, <2>1, SumGrows
<1>5. Counted(RaftThroughputs(report)) = T
  <2> DEFINE t == report[L].time - report[1].time
             h == [k \in {1} |-> T]
  <2>1. RaftThroughputs(report) = << <<T, t>> >>
    BY DEF RaftThroughputs
  <2> HIDE DEF t, T
  <2>2. [k \in DOMAIN << <<T, t>> >> |-> << <<T, t>> >>[k][1]] = h
    OBVIOUS
  <2>3. Counted(RaftThroughputs(report)) = Sum(h, {1})
    BY <2>1, <2>2 DEF Counted, Sum, SumFunction
  <2>4. IsFiniteSet({1}) /\ 1 \in {1} /\ {1} \ {1} = {} /\ h[1] = T /\ \A x \in {1} : h[x] \in Nat
    BY <1>4, FS_Singleton
  <2> HIDE DEF h
  <2>5. Sum(h, {1}) = h[1] + Sum(h, {1} \ {1})
    <3> DEFINE S == {1}
    <3>1. IsFiniteSet(S) /\ 1 \in S /\ \A x \in S : h[x] \in Nat
      BY <2>4
    <3> HIDE DEF S
    <3>2. \A a \in S : Sum(h, S) = h[a] + Sum(h, S \ {a})
      BY <3>1, SumWithout
    <3> QED
      BY <3>1, <3>2 DEF S
  <2>6. Sum(h, {1} \ {1}) = 0
    BY <2>4, SumOfNone
  <2> QED
    BY <1>4, <2>3, <2>4, <2>5, <2>6
<1> HIDE DEF T
<1>6. CASE L > 1
  <2>1. 1 \in 1..L - 1 /\ (1..L - 1) \ {1} = 2..L - 1 /\ 1 \in 1..L
    BY <1>1, <1>6
  <2> DEFINE S == 1..L - 1
  <2>2. IsFiniteSet(S) /\ (\A x \in S : g[x] \in Nat) /\ 1 \in S
    BY <1>3, <2>1
  <2> HIDE DEF S
  <2>3. Sum(g, S \ {1}) \in Nat /\ Sum(g, S) = g[1] + Sum(g, S \ {1})
    <3>1. \A a \in S : Sum(g, S \ {a}) \in Nat /\ Sum(g, S) = g[a] + Sum(g, S \ {a})
      BY <2>2, SumWithout
    <3> QED
      BY <2>2, <3>1
  <2>4. \A j \in 2..L - 1 : g[j] = report[j].txs
    <3>1. \A j \in 2..L - 1 : j \in 1..L - 1
      BY <1>1
    <3> QED
      BY <1>3, <3>1
  <2>5. Counted(Throughputs(report)) = Sum(g, 2..L - 1)
    BY <2>4, MeasuredSum
  <2>6. TxsIn(report, Measured(report)) = Sum(g, 2..L - 1)
    BY <2>5, CountedIs
  <2>7. g[1] = report[1].txs /\ report[1].txs \in Nat
    BY <1>1, <1>3, <2>1
  <2>8. T = report[1].txs + Sum(g, 2..L - 1) /\ Sum(g, 2..L - 1) \in Nat
    BY <1>2, <2>1, <2>3, <2>7 DEF S
  <2> QED
    BY <1>5, <1>6, <2>6, <2>7, <2>8
<1>7. CASE ~(L > 1)
  <2>1. 0 \in Int /\ 1 \in Int /\ 2 \in Int /\ L - 1 \in Int /\ L - 1 < 1 /\ L - 1 < 2 /\ L <= 2
    BY <1>1, <1>7
  <2>2. T = 0
    BY <1>2, <2>1, SumOfRangeOfNone
  <2>3. TxsIn(report, Measured(report)) = 0
    <3> DEFINE f == [j \in 2..L - 1 |-> report[j].txs]
    <3>1. TxsIn(report, Measured(report)) = Sum(f, 2..L - 1)
      BY DEF TxsIn, Measured, Sum, SumFunction
    <3> HIDE DEF f
    <3> QED
      BY <2>1, <3>1, SumOfRangeOfNone
  <2> QED
    BY <1>5, <1>7, <2>2, <2>3
<1> QED
  BY <1>6, <1>7

------------------------------------------------------------------------------
(***************************************************************************)
(* The invariant, and what follows.                                        *)
(***************************************************************************)

\* The invariant holds at the beginning.
LEMMA StatInit == Init => StatInv
<1> SUFFICES ASSUME Init PROVE StatInv
  OBVIOUS
<1>1. TypeOK
  <2>1. result = << >> /\ DOMAIN << >> = {}
    BY DEF Init
  <2>2. rates = << >> /\ todo = << >> /\ bench = << >> /\ graphs = << >>
    BY DEF Init
  <2>3. << >> \in Seq(Rate) /\ << >> \in Seq([rate : Rate, end : Nat])
    BY EmptySeq
  <2>4. TypeParts
    BY <2>1, <2>2, <2>3, StatisticsAssumption DEF Init, TypeParts, System
  <2> QED
    BY <2>4, TypeHasParts
<1>2. ScriptSound /\ AllSound /\ BenchSound /\ FileSound /\ FileBeginsOnce
  BY DEF Init, ScriptSound, AllSound, BenchSound, FileSound, FileBeginsOnce, UsesBin
<1>3. AddressSound
  <2>1. rounds = 0
    BY DEF Init, ConfigInit
  <2> QED
    BY <2>1 DEF AddressSound
<1> QED
  BY <1>1, <1>2, <1>3 DEF StatInv

\* Every step keeps the invariant.
LEMMA StatStep == StatInv /\ [Next]_vars => StatInv'
<1> SUFFICES ASSUME StatInv, [Next]_vars PROVE StatInv'
  OBVIOUS
<1>1. /\ TypeOK /\ ScriptSound /\ AllSound /\ BenchSound /\ FileSound /\ FileBeginsOnce
      /\ AddressSound
  BY DEF StatInv
<1>2. TypeOK' /\ ScriptSound'
  BY <1>1, TypeStep, ScriptStep
<1>3. AllSound'
  BY <1>1, AllStep
<1>4. BenchSound'
  BY <1>1, BenchStep
<1>5. FileSound' /\ FileBeginsOnce'
  BY <1>1, FileStep
<1>6. AddressSound'
  BY <1>1, AddressStep
<1> QED
  BY <1>2, <1>3, <1>4, <1>5, <1>6 DEF StatInv

\* The invariant is one.
LEMMA StatIsInvariant == Spec => []StatInv
BY StatInit, StatStep, PTL DEF Spec

\* Every variable keeps its type: so does the file, whatever has been calculated, and the bound of
\* a graph is a number, also where it is computed from the data.
THEOREM TypeCorrect == Spec => []TypeOK
<1>1. StatInv => TypeOK
  BY DEF StatInv
<1> QED
  BY <1>1, StatIsInvariant, PTL

\* Where a number begins the file, every file begins with the column of it and has no other.
THEOREM FilesBeginOnce == Spec => []FileBeginsOnce
<1>1. StatInv => FileBeginsOnce
  BY DEF StatInv
<1> QED
  BY <1>1, StatIsInvariant, PTL

\* The file behind a run on all rates: complete and in order if the first rate can be calculated;
\* if it cannot, behind what was there, or none.
THEOREM AllRatesAreCalculated == Spec => []AllRatesCalculated
<1>1. StatInv => AllRatesCalculated
  <2> SUFFICES ASSUME StatInv, all, phase = "draw" PROVE AllRatesCalculated
    BY DEF AllRatesCalculated
  <2>1. FileBehind(Len(rates)) /\ Len(rates) # 0 /\ rates = setting.rates
    <3>1. setting \in Settings /\ rates = setting.rates /\ FileBehind(Len(rates))
      BY DEF StatInv, TypeOK, ScriptSound, AllSound
    <3> QED
      BY <3>1, FirstRate
  <2>2. Calculable(rates[1]) <=> CalculableIn(system, result, rates[1])
    BY CalculableIs
  <2>3. Columns(rates) = ColumnsIn(system, result, rates, Len(rates))
    BY ColumnsAre DEF Columns
  <2> QED
    BY <2>1, <2>2, <2>3 DEF AllRatesCalculated, FileBehind
<1> QED
  BY <1>1, StatIsInvariant, PTL

\* The file behind the rounds of a benchmark: their columns, and nothing from before, if the first
\* round could be calculated.
THEOREM BenchmarksAreCalculated == Spec => []BenchmarkCalculated
<1>1. StatInv => BenchmarkCalculated
  <2> SUFFICES ASSUME StatInv, UsesBin, benching, phase # "calculate" PROVE BenchmarkCalculated
    BY DEF BenchmarkCalculated
  <2>1. FileOfRounds(Len(setting.rates) - Len(bench))
    BY DEF StatInv, BenchSound, Done
  <2>2. \A n : ColumnsOf(setting.rates, n) = ColumnsIn(system, result, setting.rates, n)
    BY ColumnsAre
  <2>3. Calculable(First) <=> CalculableIn(system, result, First)
    BY CalculableIs
  <2> QED
    BY <2>1, <2>2, <2>3 DEF BenchmarkCalculated, FileOfRounds
<1> QED
  BY <1>1, StatIsInvariant, PTL

\* The scripts reach every node where its address is, however many nodes and zones there are.
THEOREM NodesAreReached == Spec => []NodesAreAddressed
<1>1. StatInv => NodesAreAddressed
  <2> SUFFICES ASSUME StatInv, rounds >= (IF UsesBin THEN 2 ELSE 1) PROVE NodesAreAddressed
    BY DEF NodesAreAddressed
  <2>1. rounds \in 0..2
    BY DEF StatInv, AddressSound
  <2>2. rounds >= 1
    BY <2>1
  <2>3. zones = Zones[setting.region] /\ urls = Addresses(zones) /\ reached = Reached(zones)
    BY <2>2 DEF StatInv, AddressSound
  <2>4. setting.region \in DOMAIN Zones
    BY RatesFact DEF StatInv, TypeOK
  <2> QED
    BY <2>3, <2>4, AddressesDiffer DEF NodesAreAddressed
<1> QED
  BY <1>1, StatIsInvariant, PTL

\* The figures of every result that a round can leave are about the same transactions.
THEOREM FiguresAreOfOne == Spec => []FiguresAgree
<1>1. StatInv => FiguresAgree
  <2> SUFFICES ASSUME StatInv, NEW r \in DOMAIN result, Calculable(r)
               PROVE  LET c == Column(r)
                          report == result[r].report
                          counted == SumFunction([k \in DOMAIN c.tps |-> c.tps[k][1]])
                      IN  IF system = "raft" /\ Len(report) > 1
                          THEN counted = c.latencies + report[1].txs
                          ELSE counted = c.latencies
    BY DEF FiguresAgree
  <2> DEFINE report == result[r].report
  <2>1. report \in Seq([txs : Nat, time : Int]) /\ (system = "raft" => report # << >>)
    <3>1. result[r] \in Results /\ result[r].report # NoReport
      BY TypeHasParts DEF StatInv, TypeParts, Calculable
    <3> QED
      BY <3>1, ResultsFact DEF Calculable
  <2>2. /\ Column(r).latencies = TxsIn(report, Measured(report))
        /\ Column(r).tps = IF system = "raft" THEN RaftThroughputs(report) ELSE Throughputs(report)
    BY ColumnIs DEF ColumnIn
  <2> HIDE DEF report
  <2>3. CASE system # "raft"
    BY <2>1, <2>2, <2>3, CountedIs DEF Counted, report
  <2>4. CASE system = "raft"
    BY <2>1, <2>2, <2>4, RaftCountedIs DEF Counted, report
  <2> QED
    BY <2>3, <2>4
<1> QED
  BY <1>1, StatIsInvariant, PTL
=============================================================================
