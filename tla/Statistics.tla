------------------------------ MODULE Statistics ------------------------------
(***************************************************************************)
(* src/bin: what becomes of the results of the rounds.  benchmark.sh runs  *)
(* a round per configured rate; each round replaces its result directory   *)
(* and ends with "drawGraph.sh $tx_rate", which calculates the figures of  *)
(* the rate (cal.js, or raft_cal.js) and draws its graph.  Without an      *)
(* argument drawGraph.sh does so for all configured rates.                 *)
(*                                                                         *)
(* Tendermint and Stellar have scripts of their own, with copies of the    *)
(* calculator: their benchmark runs through a list of rates in the script, *)
(* their drawGraph.sh through the same list, and only that one calculates. *)
(* Two more copies are run by hand, for one rate at a time.                *)
(*                                                                         *)
(* The statistics file has a column per calculated rate.  The first        *)
(* configured rate begins it anew, every other adds its column to what is  *)
(* there.  A graph is drawn up to a time bound: the configured one or, if  *)
(* that is 0, one computed from the data.                                  *)
(*                                                                         *)
(* One model is represented, and a block of a report by its number of      *)
(* transactions and its time, the same on every node.  Stellar's copy of   *)
(* the calculator has the path of the reports as a literal: it is taken    *)
(* for the configured one.                                                 *)
(***************************************************************************)
EXTENDS Configuration, FiniteSets, SequencesExt, FiniteSetsExt

CONSTANTS
  Settings,   \* the configurations considered: [rates, end, region]; the rates are those of the
              \* script where it has a list of its own
  Hundred,    \* the first rate of such a list, 100
  Results,    \* the results a round can leave: [report, lines]
  NoReport,   \* the report of a round that has none
  NoFile,     \* no statistics file
  MaxRuns     \* bound on the benchmarks and scripts the user starts

ASSUME StatisticsAssumption ==
  /\ \A s \in Settings :
       /\ s.rates \in Seq(Nat) /\ s.rates # << >> /\ IsInjective(s.rates)
       /\ s.end \in Nat /\ s.region \in DOMAIN Zones
  /\ \A r \in Results :
       /\ r.report # NoReport => r.report \in Seq([txs : Nat, time : Int])
       /\ r.lines \in Seq(Nat) /\ r.lines # << >>
  /\ NoFile \notin Seq([rate : Nat, tps : Seq(Nat \X Int), latencies : Nat])
  /\ MaxRuns \in Nat

VARIABLES
  system,    \* the consensus, and with it the scripts and the calculator
  setting,   \* configure.json: transaction_rate, micro_graph.end, region
  result,    \* the result directories: a result for each rate that has one
  file,      \* graph_raw_data.txt: its columns, or NoFile
  phase,     \* drawGraph.sh: "idle", "calculate" or "draw"
  all,       \* $calculate_all of the last drawGraph.sh
  rates,     \* the rates it runs on
  todo,      \* those left in the phase
  end,       \* $end
  graphs,    \* the graphs it has drawn: [rate, end]
  before,    \* the file and the configured bound when it began (history)
  bench,     \* the rates benchmark.sh has left
  benching,  \* is benchmark.sh the last the user has started?
  runs       \* benchmarks and scripts the user has started

scriptVars == <<phase, all, rates, todo, end, graphs, before>>
vars == <<system, setting, result, file, scriptVars, bench, benching, runs, configVars>>

Rate == UNION {ToSet(s.rates) : s \in Settings}
First == setting.rates[1]
System == {"quorum", "raft", "tendermint", "stellar", "core", "blocksize"}
UsesBin == system \in {"quorum", "raft"}       \* the scripts of src/bin
ByHand == system \in {"core", "blocksize"}    \* no script, a calculator of tendermint/util

------------------------------------------------------------------------------
(***************************************************************************)
(* cal.js and raft_cal.js.                                                 *)
(***************************************************************************)
TxsIn(report, blocks) == SumFunction([j \in blocks |-> report[j].txs])

\* Mutant: the last block counts ("block.length for short duration time").
MeasuredToEnd(report) == 2..Len(report)

\* The blocks that are measured, all but the first and the last.
Measured(report) == 2..Len(report) - 1

\* The throughputs whose mean is taken, as transactions over time: one for each block since the
\* block before it...
Throughputs(report) ==
  [j \in 1..Cardinality(Measured(report)) |->
     <<report[j + 1].txs, report[j + 1].time - report[j].time>>]

\* ... on Raft a single one, for all blocks but the last, from the first to the last.
RaftThroughputs(report) ==
  << <<TxsIn(report, 1..Len(report) - 1), report[Len(report)].time - report[1].time>> >>

\* The column of a rate: the number of latencies is that of the transactions measured, in both
\* programs.
CalColumn(r) ==
  LET report == result[r].report
  IN  [rate |-> r, tps |-> Throughputs(report), latencies |-> TxsIn(report, Measured(report))]

RaftColumn(r) ==
  LET report == result[r].report
  IN  [rate |-> r, tps |-> RaftThroughputs(report), latencies |-> TxsIn(report, Measured(report))]

Column(r) == IF system = "raft" THEN RaftColumn(r) ELSE CalColumn(r)

\* Can the rate be calculated?  Without a report neither program starts, and raft_cal.js
\* stops at the first block of a report without blocks.
Calculable(r) ==
  /\ r \in DOMAIN result
  /\ result[r].report # NoReport
  /\ system = "raft" => result[r].report # << >>

\* Mutants: whichever rate the script begins with begins the file, or the first one ever.
BeginsScript(r) == r = rates[1]

BeginsWithoutFile(r) == file = NoFile

\* Does the rate begin the file?
Begins(r) == r = First

\* Mutant: a rate that begins the file adds to the one that is there.
WrittenBehind(column, begins) == IF file # NoFile THEN Append(file, column)
                                 ELSE IF begins THEN <<column>> ELSE NoFile

\* The file with a column that is added, or begins it; adding to no file fails.
Written(column, begins) ==
  IF begins THEN <<column>> ELSE IF file # NoFile THEN Append(file, column) ELSE NoFile

\* The programs: the copies have the rate that begins the file as a number.
Cal(r) == Written(CalColumn(r), Begins(r))
RaftCal(r) == Written(RaftColumn(r), Begins(r))
TendermintCal(r) == Written(CalColumn(r), r = Hundred)
StellarCal(r) == Written(CalColumn(r), r = Hundred)
CoreCal(r) == Written(CalColumn(r), r = Hundred)
BlocksizeCal(r) == Written(CalColumn(r), r = Hundred)

\* The file with the rate calculated.
WithColumn(r) ==
  CASE system = "quorum"     -> Cal(r)
    [] system = "raft"       -> RaftCal(r)
    [] system = "tendermint" -> TendermintCal(r)
    [] system = "stellar"    -> StellarCal(r)
    [] system = "core"       -> CoreCal(r)
    [] system = "blocksize"  -> BlocksizeCal(r)

------------------------------------------------------------------------------
(***************************************************************************)
(* The time bound, and cpuplot.py.                                         *)
(***************************************************************************)

\* Lines that all the rate's micro files have; 0 if there are none.
Lines(r) == IF r \in DOMAIN result THEN Min(Range(result[r].lines)) ELSE 0

\* getMaxTimeBound.
BinBound(r) == IF end = 0 THEN Lines(r) ELSE end

\* The bound of a rate with data: Stellar's script takes the length of the first file, CpuMonitor,
\* Tendermint's the configured one as it is.
Bound(r) ==
  CASE UsesBin              -> BinBound(r)
    [] system = "stellar"   -> result[r].lines[1]
    [] OTHER                -> end

\* cpuplot.py reads the first line, and every line up to the bound, of each file.
CanPlot(r) == 0 < Lines(r) /\ Bound(r) <= Lines(r)

------------------------------------------------------------------------------
Init ==
  /\ system \in System
  /\ setting \in Settings /\ (~UsesBin => First = Hundred)
  /\ result = << >>
  /\ file = NoFile /\ before = [file |-> NoFile, end |-> 0]
  /\ phase = "idle" /\ all = FALSE /\ rates = << >> /\ todo = << >> /\ end = 0 /\ graphs = << >>
  /\ bench = << >> /\ benching = FALSE
  /\ runs = 0
  /\ ConfigInit

\* drawGraph.sh begins to run on the given rates.
Begin(everything, rs) ==
  /\ phase' = "calculate" /\ all' = everything /\ rates' = rs /\ todo' = rs
  /\ end' = setting.end /\ graphs' = << >>
  /\ before' = [file |-> file, end |-> setting.end]

\* The user is at the prompt and starts something.
UserStarts ==
  /\ phase = "idle" /\ bench = << >>
  /\ runs < MaxRuns
  /\ runs' = runs + 1

\* drawGraph.sh without an argument...
DrawAll ==
  /\ UserStarts /\ ~ByHand
  /\ Begin(TRUE, setting.rates)
  /\ benching' = FALSE
  /\ UNCHANGED <<system, setting, result, file, bench, configVars>>

\* ... and with one; or a calculator is run by hand.
DrawOne(r) ==
  /\ UserStarts /\ (UsesBin \/ ByHand)
  /\ Begin(FALSE, <<r>>)
  /\ benching' = FALSE
  /\ UNCHANGED <<system, setting, result, file, bench, configVars>>

\* benchmark.sh reads the rates.
StartBenchmark ==
  /\ UserStarts
  /\ bench' = setting.rates /\ benching' = TRUE
  /\ UNCHANGED <<system, setting, result, file, scriptVars, configVars>>

\* The configuration is edited.
Configure(s) ==
  /\ UserStarts /\ (UsesBin \/ s.rates = setting.rates)
  /\ setting' = s /\ benching' = FALSE
  /\ IF s.region = setting.region THEN UNCHANGED configVars ELSE EditRegion
  /\ UNCHANGED <<system, result, file, scriptVars, bench>>

\* The script of a round brings the configuration up to date.
UpdateConfig ==
  IF UsesBin THEN ReadAndModify(setting.region) ELSE ModifyAndRead(setting.region)

\* The next round of the benchmark ends: it replaces its result, whatever it is, and goes on to
\* drawGraph.sh of src/bin.
RoundEnds(res) ==
  /\ phase = "idle" /\ bench # << >>
  /\ LET r == Head(bench)
     IN  /\ result' = [q \in DOMAIN result \cup {r} |-> IF q = r THEN res ELSE result[q]]
         /\ IF UsesBin THEN Begin(FALSE, <<r>>) ELSE UNCHANGED scriptVars
  /\ UpdateConfig
  /\ bench' = Tail(bench)
  /\ UNCHANGED <<system, setting, file, benching, runs>>

\* A round never ends (TxMonitor), and the benchmark is killed, or it is killed before the round
\* has touched the configuration.
KillBenchmark ==
  /\ phase = "idle" /\ bench # << >>
  /\ UpdateConfig \/ UNCHANGED configVars
  /\ bench' = << >> /\ benching' = FALSE
  /\ UNCHANGED <<system, setting, result, file, scriptVars, runs>>

\* The next rate is calculated, if it can be; behind the last one the graphs begin.
Calculate ==
  /\ phase = "calculate"
  /\ file' = IF Calculable(Head(todo)) THEN WithColumn(Head(todo)) ELSE file
  /\ IF Tail(todo) = << >> /\ ~ByHand THEN phase' = "draw" /\ todo' = rates
     ELSE todo' = Tail(todo) /\ phase' = IF Tail(todo) = << >> THEN "idle" ELSE phase
  /\ UNCHANGED <<system, setting, result, all, rates, end, graphs, before, bench, benching, runs,
                 configVars>>

\* The next graph is drawn, if it can be.  A run on all rates leaves out those without data, the
\* run on one does not look.  Only the script of src/bin keeps the bound in $end.
Draw ==
  /\ phase = "draw"
  /\ LET r == Head(todo)
     IN  /\ end' = IF UsesBin /\ (r \in DOMAIN result \/ ~all) THEN Bound(r) ELSE end
         /\ graphs' = IF CanPlot(r) THEN Append(graphs, [rate |-> r, end |-> Bound(r)]) ELSE graphs
  /\ todo' = Tail(todo)
  /\ phase' = IF Tail(todo) = << >> THEN "idle" ELSE phase
  /\ UNCHANGED <<system, setting, result, file, all, rates, before, bench, benching, runs, configVars>>

Next ==
  \/ DrawAll \/ \E r \in Rate : DrawOne(r)
  \/ StartBenchmark \/ \E s \in Settings : Configure(s)
  \/ \E res \in Results : RoundEnds(res)
  \/ KillBenchmark
  \/ Calculate \/ Draw

Spec == Init /\ [][Next]_vars

------------------------------------------------------------------------------
(***************************************************************************)
(* Properties.                                                             *)
(***************************************************************************)

TypeOK ==
  /\ system \in System /\ setting \in Settings
  /\ DOMAIN result \subseteq Rate /\ Range(result) \subseteq Results
  /\ {file, before.file} \ {NoFile} \subseteq
       Seq([rate : Rate, tps : Seq(Nat \X Int), latencies : Nat])
  /\ phase \in {"idle", "calculate", "draw"} /\ (phase # "idle" => todo # << >>)
  /\ {rates, todo, bench} \subseteq Seq(Rate) /\ {end, before.end} \subseteq Nat
  /\ graphs \in Seq([rate : Rate, end : Nat]) /\ runs \in 0..MaxRuns

\* What a function on some of the numbers 1..n has, in the order of the numbers.
InOrder(f, n) ==
  LET upTo[k \in 0..n] == IF k = 0 THEN << >>
                          ELSE IF k \in DOMAIN f THEN Append(upTo[k - 1], f[k])
                          ELSE upTo[k - 1]
  IN  upTo[n]

\* The columns of those of the first n rates of a sequence that can be calculated.
ColumnsOf(rs, n) == InOrder([k \in {j \in 1..n : Calculable(rs[j])} |-> Column(rs[k])], n)

Columns(rs) == ColumnsOf(rs, Len(rs))

\* Behind the calculations of a run on all rates the file has a column for each rate that can
\* be calculated, once and in the order of the configuration - provided the first rate can.  If
\* it cannot, nothing begins the file: the columns are added to those of before, also to their
\* own, or are lost if there was no file (drawGraph.sh:53-67, cal.js:39-51).
AllRatesCalculated ==
  all /\ phase = "draw" /\ todo = rates =>
    CASE Calculable(rates[1])                            -> file = Columns(rates)
      [] ~Calculable(rates[1]) /\ before.file # NoFile   -> file = before.file \o Columns(rates)
      [] ~Calculable(rates[1]) /\ before.file = NoFile   -> file = NoFile

\* Where the rate that begins the file is a number, every file begins with its column and has no
\* other of it, whatever rounds fail and whatever is calculated by hand.  The other rates may
\* be in it more than once (tendermint/code/cal.js:45-56 and its copies).
FileBeginsOnce ==
  ~UsesBin /\ file # NoFile => \A k \in DOMAIN file : file[k].rate = Hundred <=> k = 1

\* While a benchmark runs, and once it has ended, the file has the columns of its rounds, and
\* nothing from before, if the round of the first rate could be calculated: each round adds its
\* column without knowing of the others (benchmark.sh:30-38, oneRoundTest.sh:134).
BenchmarkCalculated ==
  UsesBin /\ benching /\ phase # "calculate" =>
    LET done == Len(setting.rates) - Len(bench)
    IN  done # 0 /\ Calculable(First) => file = ColumnsOf(setting.rates, done)

\* A script reaches every node in the zone that its address is of, and no two nodes have one
\* address - on Quorum only from the second round on after the region was edited: the first one
\* still starts the nodes in the old zones (oneRoundTest.sh:25, 40, modconfig.js:22-25;
\* tendermint/code/oneRoundTesting.sh:6, 22).
NodesAreAddressed ==
  rounds >= (IF UsesBin THEN 2 ELSE 1) =>
    /\ IsInjective(urls)
    /\ \A n \in Node : urls[n].zone = reached[n]

\* Throughput and latency are about the same transactions, on Raft but for those of the first
\* block, and never about those of the last (cal.js:20-35, raft_cal.js:23-36).
FiguresAgree ==
  \A r \in DOMAIN result : Calculable(r) =>
    LET c == Column(r)
        report == result[r].report
        counted == SumFunction([k \in DOMAIN c.tps |-> c.tps[k][1]])
    IN  IF system = "raft" /\ Len(report) > 1 THEN counted = c.latencies + report[1].txs
        ELSE counted = c.latencies

\* With the default bound, a run on all rates draws a graph of each rate that has data:
\* drawGraph.sh:36 says "0 for default setting 0~end", and line 83 "get minxium time bound".
DefaultDrawsAll ==
  UsesBin /\ all /\ phase = "idle" /\ before.end = 0 =>
    \A k \in DOMAIN rates :
      Lines(rates[k]) > 0 => \E g \in DOMAIN graphs : graphs[g].rate = rates[k]

==============================================================================
