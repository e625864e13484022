----------------------------- MODULE CommonLemmas -----------------------------
(***************************************************************************)
(* What the proofs of several modules need: lemmas about the loops of      *)
(* ReportLoops, for every number of nodes and every range of blocks, and   *)
(* about the sums that the models take over sets.                          *)
(***************************************************************************)
EXTENDS ReportLoops, FiniteSets, Functions, FiniteSetTheorems, WellFoundedInduction, TLAPS

(***************************************************************************)
(* The loops: how main's position and its report belong together while a   *)
(* getBlock is awaited, and that a push followed by the next turn of the   *)
(* loops keeps it so.                                                      *)
(***************************************************************************)

\* A report maps block numbers to lists of nodes.
IsReport(report) == DOMAIN report \subseteq Nat /\ \A b \in DOMAIN report : report[b] \in Seq(Node)

\* While block j of node i is awaited, rows are in order, no node above i is in one, and i itself
\* is only in those of lower blocks.  This holds whatever late polls do to the range.
OrderedTo(report, i, j) ==
  /\ RowsInOrder(report)
  /\ \A b \in DOMAIN report : \A k \in 1..Len(report[b]) :
       report[b][k] <= i /\ (b >= j => report[b][k] < i)

\* The row of a block that n nodes were asked for.
Row(n) == [k \in 1..n |-> k - 1]

\* While block j of node i is awaited and the range s..e stays, node 0 has made the entries up to
\* j, or all of them, and each has the nodes up to i, or up to the one before it.
FilledTo(report, i, j, s, e) ==
  /\ j \in s..e
  /\ DOMAIN report = s..(IF i = 0 THEN j - 1 ELSE e)
  /\ \A b \in DOMAIN report : report[b] = Row(IF b < j THEN i + 1 ELSE i)

------------------------------------------------------------------------------
\* The loops stay within the nodes and the blocks.
LEMMA LoopType ==
  ASSUME NEW i \in Node, NEW j \in Nat, NEW s \in Nat, NEW e \in Nat
  PROVE  /\ LoopFrom(i, j, s, e).pc \in {"report", "done"}
         /\ LoopFrom(i, j, s, e).node \in Node
         /\ LoopFrom(i, j, s, e).block \in Nat
BY NodeNumAssumption DEF LoopFrom, Node

\* A getBlock that is awaited is for a block of the range that was just tested.
LEMMA LoopInRange ==
  ASSUME NEW i \in Node, NEW j \in Nat, NEW s \in Nat, NEW e \in Nat,
         LoopFrom(i, j, s, e).pc = "report"
  PROVE  LoopFrom(i, j, s, e).block <= e
BY DEF LoopFrom

\* The loops go up: to a higher block of the same node, or to a higher node.
LEMMA LoopGoesUp ==
  ASSUME NEW i \in Node, NEW j \in Nat, NEW s \in Nat, NEW e \in Nat,
         LoopFrom(i, j, s, e).pc = "report"
  PROVE  \/ LoopFrom(i, j, s, e).node = i /\ LoopFrom(i, j, s, e).block = j
         \/ LoopFrom(i, j, s, e).node = i + 1
BY DEF LoopFrom

\* A push keeps the report a report.
LEMMA PushType ==
  ASSUME NEW report, IsReport(report), NEW i \in Node, NEW j \in Nat, i = 0 \/ j \in DOMAIN report
  PROVE  IsReport(Push(report, i, j))
BY DEF Push, IsReport

\* What a push makes of a row, and of the others.
LEMMA PushRows ==
  ASSUME NEW report, IsReport(report), NEW i \in Node, NEW j \in Nat, i = 0 \/ j \in DOMAIN report
  PROVE  /\ DOMAIN Push(report, i, j) = DOMAIN report \cup {j}
         /\ Push(report, i, j)[j] = IF i = 0 THEN <<0>> ELSE Append(report[j], i)
         /\ \A b \in DOMAIN report \ {j} : Push(report, i, j)[b] = report[b]
BY DEF Push, IsReport

\* Nodes are numbers, also where they are entered in a row.
LEMMA RowElements ==
  /\ Node \subseteq Nat
  /\ \A row \in Seq(Node) : \A k \in 1..Len(row) : row[k] \in Nat
<1>1. Node \subseteq Nat
  BY DEF Node
<1>2. ASSUME NEW row \in Seq(Node), NEW k \in 1..Len(row) PROVE row[k] \in Node
  OBVIOUS
<1> QED BY <1>1, <1>2

\* A node that is above all nodes of a row can be appended to it.
LEMMA AppendInOrder ==
  ASSUME NEW row \in Seq(Node), NEW i \in Node,
         \A k \in 1..Len(row) - 1 : row[k] < row[k + 1],
         \A k \in 1..Len(row) : row[k] < i
  PROVE  LET new == Append(row, i)
         IN  /\ \A k \in 1..Len(new) - 1 : new[k] < new[k + 1]
             /\ \A k \in 1..Len(new) : new[k] <= i
<1> DEFINE new == Append(row, i)
<1>1. /\ Len(row) \in Nat /\ Len(new) = Len(row) + 1
      /\ new[Len(row) + 1] = i
      /\ \A k \in 1..Len(row) : new[k] = row[k]
  OBVIOUS
<1>2. i \in Nat /\ \A k \in 1..Len(row) : row[k] \in Nat
  BY RowElements
<1>3. ASSUME NEW k \in 1..Len(new) - 1 PROVE new[k] < new[k + 1]
  <2>1. CASE k \in 1..Len(row) - 1
    BY <1>1, <1>2, <2>1
  <2>2. CASE k = Len(row)
    BY <1>1, <1>2, <2>2
  <2> QED BY <1>1, <2>1, <2>2
<1>4. ASSUME NEW k \in 1..Len(new) PROVE new[k] <= i
  BY <1>1, <1>2
<1> QED BY <1>3, <1>4

\* Behind a push the rows are in order, and so they are for the next turn of the loops.
LEMMA PushOrdered ==
  ASSUME NEW report, IsReport(report), NEW i \in Node, NEW j \in Nat, NEW s \in Nat, NEW e \in Nat,
         i = 0 \/ j \in DOMAIN report, OrderedTo(report, i, j)
  PROVE  LET loop == LoopFrom(i, j + 1, s, e)
         IN  /\ RowsInOrder(Push(report, i, j))
             /\ loop.pc = "report" => OrderedTo(Push(report, i, j), loop.node, loop.block)
<1> DEFINE new == Push(report, i, j)
           loop == LoopFrom(i, j + 1, s, e)
<1>1. /\ DOMAIN new = DOMAIN report \cup {j}
      /\ new[j] = IF i = 0 THEN <<0>> ELSE Append(report[j], i)
      /\ \A b \in DOMAIN report \ {j} : new[b] = report[b]
  BY PushRows
<1>2. /\ i \in Nat
      /\ \A b \in DOMAIN report : b \in Nat /\ report[b] \in Seq(Node)
      /\ \A b \in DOMAIN report : \A k \in 1..Len(report[b]) : report[b][k] \in Nat
  BY RowElements DEF IsReport
<1> HIDE DEF new, loop
<1>3. /\ \A k \in 1..Len(new[j]) - 1 : new[j][k] < new[j][k + 1]
      /\ \A k \in 1..Len(new[j]) : new[j][k] <= i
  <2>1. CASE i = 0
    BY <1>1, <2>1
  <2>2. CASE i # 0
    <3>1. j \in DOMAIN report
      BY <2>2
    <3>2. /\ \A k \in 1..Len(report[j]) - 1 : report[j][k] < report[j][k + 1]
          /\ \A k \in 1..Len(report[j]) : report[j][k] < i
      BY <3>1 DEF OrderedTo, RowsInOrder
    <3> QED BY <1>1, <1>2, <2>2, <3>1, <3>2, AppendInOrder
  <2> QED BY <2>1, <2>2
<1>4. RowsInOrder(new)
  BY <1>1, <1>3 DEF RowsInOrder, OrderedTo
<1>5. ASSUME loop.pc = "report" PROVE OrderedTo(new, loop.node, loop.block)
  <2>1. j + 1 \in Nat
    OBVIOUS
  <2>2. (loop.node = i /\ loop.block = j + 1) \/ loop.node = i + 1
    BY <1>5, <2>1, LoopGoesUp DEF loop
  <2>3. \A b \in DOMAIN new : \A k \in 1..Len(new[b]) :
          new[b][k] \in Nat /\ new[b][k] <= i /\ (b >= j + 1 => new[b][k] < i)
    <3>1. \A k \in 1..Len(new[j]) : new[j][k] \in Nat /\ new[j][k] <= i
      BY <1>1, <1>3, PushType, RowElements DEF IsReport, new
    <3>2. ASSUME NEW b \in DOMAIN report \ {j}, NEW k \in 1..Len(report[b])
          PROVE  report[b][k] \in Nat /\ report[b][k] <= i /\ (b >= j => report[b][k] < i)
      BY <1>2, <3>2 DEF OrderedTo
    <3>3. \A b \in DOMAIN report \ {j} : b >= j + 1 => b >= j
      BY <1>2
    <3> QED BY <1>1, <3>1, <3>2, <3>3
  <2>4. \A b \in DOMAIN new : b \in Nat
    BY <1>1, <1>2
  <2> QED BY <1>2, <1>4, <2>2, <2>3, <2>4 DEF OrderedTo
<1> QED BY <1>4, <1>5 DEF new, loop

\* The next node makes a row longer by itself.
LEMMA RowGrows == \A n \in Nat : Append(Row(n), n) = Row(n + 1)
BY DEF Row

\* A push while the range stays takes the report one turn further; behind the last turn it is
\* complete.
LEMMA PushFilled ==
  ASSUME NEW report, IsReport(report), NEW i \in Node, NEW j \in Nat, NEW s \in Nat, NEW e \in Nat,
         FilledTo(report, i, j, s, e)
  PROVE  LET loop == LoopFrom(i, j + 1, s, e)
         IN  /\ loop.pc = "report" => FilledTo(Push(report, i, j), loop.node, loop.block, s, e)
             /\ loop.pc = "done" => RowsComplete(Push(report, i, j), s, e)
<1> DEFINE new == Push(report, i, j)
           loop == LoopFrom(i, j + 1, s, e)
<1>1. i = 0 \/ j \in DOMAIN report
  BY DEF FilledTo
<1>2. /\ DOMAIN new = DOMAIN report \cup {j}
      /\ new[j] = IF i = 0 THEN <<0>> ELSE Append(report[j], i)
      /\ \A b \in DOMAIN report \ {j} : new[b] = report[b]
  BY <1>1, PushRows
<1> HIDE DEF new, loop
<1>3. i \in Nat /\ i < NodeNum /\ NodeNum \in Nat /\ j \in s..e
  BY NodeNumAssumption DEF Node, FilledTo
<1>4. DOMAIN new = s..(IF i = 0 THEN j ELSE e)
  BY <1>2, <1>3 DEF FilledTo
<1>5. new[j] = Row(i + 1)
  <2>1. CASE i = 0
    <3>1. <<0>> = Row(1)
      BY DEF Row
    <3> QED BY <1>2, <2>1, <3>1
  <2>2. CASE i # 0
    <3>1. j \in DOMAIN report /\ ~(j < j)
      BY <1>1, <2>2
    <3>2. report[j] = Row(i)
      BY <3>1 DEF FilledTo
    <3> QED BY <1>2, <1>3, <2>2, <3>2, RowGrows
  <2> QED BY <2>1, <2>2
<1>6. \A b \in DOMAIN new : new[b] = Row(IF b < j + 1 THEN i + 1 ELSE i)
  <2> SUFFICES ASSUME NEW b \in DOMAIN new PROVE new[b] = Row(IF b < j + 1 THEN i + 1 ELSE i)
    OBVIOUS
  <2>1. b \in Nat
    BY <1>3, <1>4
  <2>2. CASE b = j
    BY <1>5, <2>2
  <2>3. CASE b # j
    <3>1. b \in DOMAIN report /\ new[b] = report[b]
      BY <1>2, <2>3
    <3>2. b < j + 1 <=> b < j
      BY <2>1, <2>3
    <3> QED BY <3>1, <3>2 DEF FilledTo
  <2> QED BY <2>2, <2>3
<1>7. CASE j + 1 <= e
  <2>1. loop = [pc |-> "report", node |-> i, block |-> j + 1]
    BY <1>7 DEF loop, LoopFrom
  <2>2. j + 1 \in s..e /\ j + 1 - 1 = j
    BY <1>3, <1>7
  <2>3. FilledTo(new, i, j + 1, s, e)
    BY <1>4, <1>6, <2>2 DEF FilledTo
  <2> QED BY <2>1, <2>3 DEF new, loop
<1>8. CASE ~(j + 1 <= e)
  <2>1. j = e /\ s <= e
    BY <1>3, <1>8
  <2>2. DOMAIN new = s..e /\ \A b \in DOMAIN new : b < j + 1
    BY <1>3, <1>4, <2>1
  <2>3. \A b \in DOMAIN new : new[b] = Row(i + 1)
    BY <1>6, <2>2
  <2>4. CASE i + 1 < NodeNum
    <3>1. loop = [pc |-> "report", node |-> i + 1, block |-> s]
      BY <1>8, <2>1, <2>4 DEF loop, LoopFrom
    <3>2. s \in s..e /\ i + 1 # 0 /\ \A b \in s..e : ~(b < s)
      BY <1>3, <2>1
    <3>3. FilledTo(new, i + 1, s, s, e)
      BY <2>2, <2>3, <3>2 DEF FilledTo
    <3> QED BY <3>1, <3>3 DEF new, loop
  <2>5. CASE ~(i + 1 < NodeNum)
    <3>1. loop.pc = "done"
      BY <1>8, <2>5 DEF loop, LoopFrom
    <3>2. i + 1 = NodeNum
      BY <1>3, <2>5
    <3>3. RowsComplete(new, s, e)
      BY <2>2, <2>3, <3>2 DEF RowsComplete, Row
    <3> QED BY <3>1, <3>3 DEF new, loop
  <2> QED BY <2>4, <2>5
<1> QED BY <1>3, <1>7, <1>8

\* The empty report is where the loops begin, and complete for an empty range.
LEMMA LoopBegins ==
  ASSUME NEW s \in Nat, NEW e \in Nat
  PROVE  LET loop == LoopFrom(0, s, s, e)
         IN  /\ loop.pc = "report" => /\ OrderedTo(<< >>, loop.node, loop.block)
                                      /\ FilledTo(<< >>, loop.node, loop.block, s, e)
             /\ loop.pc = "done" => RowsComplete(<< >>, s, e)
<1>1. DOMAIN << >> = {}
  OBVIOUS
<1>2. CASE s <= e
  BY <1>1, <1>2 DEF LoopFrom, OrderedTo, RowsInOrder, FilledTo
<1>3. CASE ~(s <= e)
  BY <1>1, <1>3 DEF LoopFrom, RowsComplete
<1> QED BY <1>2, <1>3

------------------------------------------------------------------------------
(***************************************************************************)
(* Sums, computed as the folds compute them: an element at a time.         *)
(***************************************************************************)

\* The sum of a function over a set.
Sum(f, S) == SumFunctionOnSet(f, S)

\* The element of a set that is added first.
Pick(s) == CHOOSE x \in s : TRUE

\* Does iter give the sums over the subsets of S?
SumsUp(iter, f, S) ==
  iter = [s \in SUBSET S |-> IF s = {} THEN 0 ELSE f[Pick(s)] + iter[s \ {Pick(s)}]]

\* A sum is what its recursion computes for the whole set.
LEMMA SumIs ==
  ASSUME NEW f, NEW S
  PROVE  Sum(f, S) = (CHOOSE iter : SumsUp(iter, f, S))[S]
BY DEF Sum, SumFunctionOnSet, FoldFunctionOnSet, MapThenFoldSet, SumsUp, Pick

\* A set of subsets of a finite set that is not empty has a smallest one.
LEMMA HasSmallest ==
  ASSUME NEW S, IsFiniteSet(S), NEW T \in SUBSET (SUBSET S), T # {}
  PROVE  \E s \in T : \A t \in T : t \subseteq s => t = s
<1>1. IsWellFoundedOn(StrictSubsetOrdering(S), FiniteSubsetsOf(S))
  BY FS_StrictSubsetOrderingWellFounded
<1>2. T \subseteq FiniteSubsetsOf(S)
  BY FS_Subset DEF FiniteSubsetsOf
<1>3. PICK s \in T : \A t \in T : <<t, s>> \notin StrictSubsetOrdering(S)
  BY <1>1, <1>2, WFMin
<1> QED
  BY <1>3 DEF StrictSubsetOrdering

\* The recursion of a sum has a solution: the least set of pairs of a subset and a number that
\* is closed under adding an element has one number for each subset.
LEMMA SumsExist ==
  ASSUME NEW f, NEW S, IsFiniteSet(S), \A x \in S : f[x] \in Nat
  PROVE  \E iter : SumsUp(iter, f, S)
<1> DEFINE Pairs == (SUBSET S) \X Nat
           Closed(R) ==
             /\ <<{}, 0>> \in R
             /\ \A s \in (SUBSET S) \ {{}} : \A v \in Nat :
                  <<s \ {Pick(s)}, v>> \in R => <<s, f[Pick(s)] + v>> \in R
           Least == {p \in Pairs : \A R \in SUBSET Pairs : Closed(R) => p \in R}
<1>1. \A s \in (SUBSET S) \ {{}} : /\ Pick(s) \in s /\ f[Pick(s)] \in Nat
                                 /\ s \ {Pick(s)} \in SUBSET S
                                 /\ s \ {Pick(s)} \subseteq s /\ s \ {Pick(s)} # s
  BY DEF Pick
<1> HIDE DEF Pick
<1>2. Closed(Least)
  <2>1. <<{}, 0>> \in Least
    OBVIOUS
  <2>2. ASSUME NEW s \in (SUBSET S) \ {{}}, NEW v \in Nat, <<s \ {Pick(s)}, v>> \in Least
        PROVE  <<s, f[Pick(s)] + v>> \in Least
    <3>1. <<s, f[Pick(s)] + v>> \in Pairs
      BY <1>1
    <3>2. ASSUME NEW R \in SUBSET Pairs, Closed(R) PROVE <<s, f[Pick(s)] + v>> \in R
      BY <2>2, <3>2
    <3> QED
      BY <3>1, <3>2
  <2> QED
    BY <2>1, <2>2
<1>3. ASSUME NEW s \in SUBSET S, NEW v \in Nat, <<s, v>> \in Least
      PROVE  IF s = {} THEN v = 0
             ELSE \E u \in Nat : <<s \ {Pick(s)}, u>> \in Least /\ v = f[Pick(s)] + u
  <2> DEFINE R == Least \ {<<s, v>>}
  <2>1. R \in SUBSET Pairs /\ <<s, v>> \notin R
    OBVIOUS
  <2>2. ~Closed(R)
    <3> HIDE DEF R, Closed
    <3> QED
      BY <1>3, <2>1
  <2>3. CASE s = {}
    <3>1. ASSUME v # 0 PROVE Closed(R)
      <4>1. <<{}, 0>> \in R
        BY <1>2, <3>1
      <4>2. ASSUME NEW t \in (SUBSET S) \ {{}}, NEW w \in Nat, <<t \ {Pick(t)}, w>> \in R
            PROVE  <<t, f[Pick(t)] + w>> \in R
        BY <1>2, <2>3, <4>2
      <4> QED
        BY <4>1, <4>2
    <3> QED
      BY <2>2, <2>3, <3>1
  <2>4. CASE s # {}
    <3>1. ASSUME ~\E u \in Nat : <<s \ {Pick(s)}, u>> \in Least /\ v = f[Pick(s)] + u
          PROVE  Closed(R)
      <4>1. <<{}, 0>> \in R
        BY <1>2, <2>4
      <4>2. ASSUME NEW t \in (SUBSET S) \ {{}}, NEW w \in Nat, <<t \ {Pick(t)}, w>> \in R
            PROVE  <<t, f[Pick(t)] + w>> \in R
        <5>1. <<t \ {Pick(t)}, w>> \in Least /\ <<t, f[Pick(t)] + w>> \in Least
          BY <1>2, <4>2
        <5>2. ~(t = s /\ f[Pick(t)] + w = v)
          BY <3>1, <5>1
        <5> QED
          BY <5>1, <5>2
      <4> QED
        BY <4>1, <4>2
    <3> QED
      BY <2>2, <2>4, <3>1
  <2> QED
    BY <2>3, <2>4
<1> HIDE DEF Least
<1>4. \A s \in SUBSET S : \E v \in Nat : <<s, v>> \in Least
  <2> DEFINE bad == {s \in SUBSET S : ~\E v \in Nat : <<s, v>> \in Least}
  <2>1. SUFFICES ASSUME bad # {} PROVE FALSE
    OBVIOUS
  <2>2. PICK s \in bad : \A t \in bad : t \subseteq s => t = s
    <3>1. bad \in SUBSET (SUBSET S)
      OBVIOUS
    <3> HIDE DEF bad
    <3> QED
      BY <2>1, <3>1, HasSmallest
  <2>3. s # {}
    BY <1>2, <2>2
  <2>4. PICK v \in Nat : <<s \ {Pick(s)}, v>> \in Least
    BY <1>1, <2>2, <2>3
  <2>5. <<s, f[Pick(s)] + v>> \in Least /\ f[Pick(s)] + v \in Nat
    BY <1>1, <1>2, <2>3, <2>4
  <2> QED
    BY <2>2, <2>5
<1>5. \A s \in SUBSET S : \A v, w \in Nat : <<s, v>> \in Least /\ <<s, w>> \in Least => v = w
  <2> DEFINE bad == {s \in SUBSET S : \E v, w \in Nat : <<s, v>> \in Least /\ <<s, w>> \in Least /\ v # w}
  <2>1. SUFFICES ASSUME bad # {} PROVE FALSE
    OBVIOUS
  <2>2. PICK s \in bad : \A t \in bad : t \subseteq s => t = s
    <3>1. bad \in SUBSET (SUBSET S)
      OBVIOUS
    <3> HIDE DEF bad
    <3> QED
      BY <2>1, <3>1, HasSmallest
  <2>3. PICK v \in Nat, w \in Nat : <<s, v>> \in Least /\ <<s, w>> \in Least /\ v # w
    BY <2>2
  <2>4. s # {}
    BY <1>3, <2>3
  <2>5. PICK u \in Nat, y \in Nat : /\ <<s \ {Pick(s)}, u>> \in Least /\ v = f[Pick(s)] + u
                                    /\ <<s \ {Pick(s)}, y>> \in Least /\ w = f[Pick(s)] + y
    <3>1. s \in SUBSET S
      BY <2>2
    <3>2. \A z \in Nat : <<s, z>> \in Least =>
            \E u \in Nat : <<s \ {Pick(s)}, u>> \in Least /\ z = f[Pick(s)] + u
      BY <1>3, <2>4, <3>1
    <3> QED
      BY <2>3, <3>2
  <2>6. s \ {Pick(s)} \notin bad
    BY <1>1, <2>2, <2>4
  <2>7. u = y
    BY <1>1, <2>4, <2>5, <2>6
  <2> QED
    BY <2>3, <2>5, <2>7
<1> DEFINE value(s) == CHOOSE v \in Nat : <<s, v>> \in Least
           iter == [s \in SUBSET S |-> value(s)]
<1>6. \A s \in SUBSET S : iter[s] \in Nat /\ <<s, iter[s]>> \in Least
  BY <1>4
<1> HIDE DEF value
<1>7. ASSUME NEW s \in SUBSET S
      PROVE  iter[s] = IF s = {} THEN 0 ELSE f[Pick(s)] + iter[s \ {Pick(s)}]
  <2> HIDE DEF iter
  <2>1. CASE s = {}
    BY <1>3, <1>6, <2>1
  <2>2. CASE s # {}
    <3>1. s \in (SUBSET S) \ {{}}
      BY <2>2
    <3>2. f[Pick(s)] \in Nat /\ s \ {Pick(s)} \in SUBSET S
      BY <1>1, <3>1
    <3>3. <<s \ {Pick(s)}, iter[s \ {Pick(s)}]>> \in Least /\ iter[s \ {Pick(s)}] \in Nat
      BY <1>6, <3>2
    <3>4. <<s, f[Pick(s)] + iter[s \ {Pick(s)}]>> \in Least
      BY <1>2, <3>1, <3>3
    <3>5. f[Pick(s)] + iter[s \ {Pick(s)}] \in Nat
      BY <3>2, <3>3
    <3>6. iter[s] \in Nat /\ <<s, iter[s]>> \in Least
      BY <1>6
    <3>7. iter[s] = f[Pick(s)] + iter[s \ {Pick(s)}]
      BY <1>5, <3>4, <3>5, <3>6
    <3> QED
      BY <2>2, <3>7
  <2> QED
    BY <2>1, <2>2
<1>8. SumsUp(iter, f, S)
  <2>1. iter = [s \in SUBSET S |-> iter[s]]
    OBVIOUS
  <2> HIDE DEF iter
  <2> QED
    BY <1>7, <2>1 DEF SumsUp
<1> QED
  BY <1>8

\* Does iter compute the sum over S, one element after the other?
Computes(iter, f, S) ==
  /\ iter[S] = Sum(f, S) /\ iter[{}] = 0
  /\ \A s \in SUBSET S : s # {} => Pick(s) \in s /\ iter[s] = f[Pick(s)] + iter[s \ {Pick(s)}]

\* A sum is computed step by step.
LEMMA SumSteps ==
  ASSUME NEW f, NEW S, IsFiniteSet(S), \A x \in S : f[x] \in Nat
  PROVE  \E iter : Computes(iter, f, S)
<1> DEFINE iter == CHOOSE i : SumsUp(i, f, S)
<1>1. SumsUp(iter, f, S)
  BY SumsExist
<1>2. iter[S] = Sum(f, S)
  BY SumIs
<1> HIDE DEF iter
<1>3. \A s \in SUBSET S : s # {} => Pick(s) \in s
  BY DEF Pick
<1>4. \A s \in SUBSET S : iter[s] = IF s = {} THEN 0 ELSE f[Pick(s)] + iter[s \ {Pick(s)}]
  BY <1>1 DEF SumsUp
<1>5. {} \in SUBSET S
  OBVIOUS
<1> QED
  BY <1>2, <1>3, <1>4, <1>5 DEF Computes

\* Where the terms grow the sum does not shrink.
LEMMA SumGrows ==
  ASSUME NEW f, NEW g, NEW S, IsFiniteSet(S),
         \A x \in S : f[x] \in Nat /\ g[x] \in Nat /\ f[x] <= g[x]
  PROVE  Sum(f, S) \in Nat /\ Sum(g, S) \in Nat /\ Sum(f, S) <= Sum(g, S)
<1>1. PICK fs : Computes(fs, f, S)
  <2>1. \A x \in S : f[x] \in Nat
    OBVIOUS
  <2> QED
    BY <2>1, SumSteps
<1>2. PICK gs : Computes(gs, g, S)
  <2>1. \A x \in S : g[x] \in Nat
    OBVIOUS
  <2> QED
    BY <2>1, SumSteps
<1> DEFINE good(s) == fs[s] \in Nat /\ gs[s] \in Nat /\ fs[s] <= gs[s]
           bad == {s \in SUBSET S : ~good(s)}
<1>3. bad \in SUBSET (SUBSET S)
  OBVIOUS
<1>4. ASSUME bad # {} PROVE FALSE
  <2>1. PICK s \in bad : \A t \in bad : t \subseteq s => t = s
    <3> HIDE DEF bad
    <3> QED
      BY <1>3, <1>4, HasSmallest
  <2>2. s # {} /\ s \in SUBSET S
    <3>1. good({})
      BY <1>1, <1>2 DEF Computes
    <3> QED
      BY <2>1, <3>1
  <2>3. Pick(s) \in s /\ Pick(s) \in S /\ s \ {Pick(s)} \in SUBSET S /\ s \ {Pick(s)} # s
    BY <1>1, <2>2 DEF Computes
  <2>4. good(s \ {Pick(s)})
    BY <2>1, <2>2, <2>3
  <2>5. fs[s] = f[Pick(s)] + fs[s \ {Pick(s)}] /\ gs[s] = g[Pick(s)] + gs[s \ {Pick(s)}]
    BY <1>1, <1>2, <2>2 DEF Computes
  <2>6. good(s)
    BY <2>3, <2>4, <2>5
  <2> QED
    BY <2>1, <2>6
<1>5. good(S)
  BY <1>4
<1> QED
  BY <1>1, <1>2, <1>5 DEF Computes

\* A sum is not above the number of its terms times their bound, and reaches it only if every
\* term does.
LEMMA SumBounded ==
  ASSUME NEW f, NEW S, IsFiniteSet(S), NEW d \in Nat, \A x \in S : f[x] \in 0..d
  PROVE  /\ Sum(f, S) \in Nat /\ Sum(f, S) <= Cardinality(S) * d
         /\ Sum(f, S) = Cardinality(S) * d => \A x \in S : f[x] = d
<1>1. PICK fs : Computes(fs, f, S)
  <2>1. \A x \in S : f[x] \in Nat
    OBVIOUS
  <2> QED
    BY <2>1, SumSteps
<1> DEFINE limit(s) == Cardinality(s) * d
           good(s) == /\ fs[s] \in Nat /\ fs[s] <= limit(s)
                      /\ fs[s] = limit(s) => \A x \in s : f[x] = d
           bad == {s \in SUBSET S : ~good(s)}
<1>2. bad \in SUBSET (SUBSET S)
  OBVIOUS
<1>3. \A s \in SUBSET S : IsFiniteSet(s)
  BY FS_Subset
<1>4. limit({}) = 0
  BY FS_EmptySet
<1>5. \A s \in SUBSET S : \A x \in s : limit(s) = d + limit(s \ {x}) /\ limit(s \ {x}) \in Nat
  <2> SUFFICES ASSUME NEW s \in SUBSET S, NEW x \in s
               PROVE  limit(s) = d + limit(s \ {x}) /\ limit(s \ {x}) \in Nat
    OBVIOUS
  <2> DEFINE n == Cardinality(s \ {x})
  <2>1. Cardinality(s) = n + 1 /\ n \in Nat
    <3>1. IsFiniteSet(s)
      BY <1>3
    <3>2. IsFiniteSet(s \ {x}) /\ Cardinality(s \ {x}) = Cardinality(s) - 1
      BY <3>1, FS_RemoveElement
    <3>3. Cardinality(s) \in Nat /\ Cardinality(s \ {x}) \in Nat
      BY <3>1, <3>2, FS_CardinalityType
    <3> QED
      BY <3>2, <3>3
  <2> HIDE DEF n
  <2>2. (n + 1) * d = d + n * d /\ n * d \in Nat
    BY <2>1
  <2> QED
    BY <2>1, <2>2 DEF n
<1> HIDE DEF limit
<1>6. ASSUME bad # {} PROVE FALSE
  <2>1. PICK s \in bad : \A t \in bad : t \subseteq s => t = s
    <3> HIDE DEF bad
    <3> QED
      BY <1>2, <1>6, HasSmallest
  <2>2. s # {} /\ s \in SUBSET S
    <3>1. good({})
      BY <1>1, <1>4 DEF Computes
    <3> QED
      BY <2>1, <3>1
  <2> DEFINE p == Pick(s)
             rest == s \ {p}
  <2>3. p \in s /\ f[p] \in 0..d /\ rest \in SUBSET S /\ rest # s
    BY <1>1, <2>2 DEF Computes
  <2>4. good(rest)
    BY <2>1, <2>2, <2>3
  <2>5. fs[s] = f[p] + fs[rest]
    BY <1>1, <2>2 DEF Computes
  <2>6. limit(s) = d + limit(rest) /\ limit(rest) \in Nat
    BY <1>5, <2>2, <2>3
  <2>7. \A x \in s : x = p \/ x \in rest
    OBVIOUS
  <2> HIDE DEF p, rest
  <2>8. fs[s] \in Nat /\ fs[s] <= limit(s)
    BY <2>3, <2>4, <2>5, <2>6
  <2>9. ASSUME fs[s] = limit(s) PROVE \A x \in s : f[x] = d
    <3>1. f[p] = d /\ fs[rest] = limit(rest)
      BY <2>3, <2>4, <2>5, <2>6, <2>9
    <3> QED
      BY <2>4, <2>7, <3>1
  <2>10. good(s)
    BY <2>8, <2>9
  <2> QED
    BY <2>1, <2>10
<1>7. good(S)
  BY <1>6
<1> QED
  BY <1>1, <1>7 DEF limit, Computes

\* A set of numbers that is not empty has a least one.
LEMMA HasLeast ==
  ASSUME NEW N \in SUBSET Nat, N # {}
  PROVE  \E m \in N : \A k \in N : m <= k
<1>1. PICK n \in N : TRUE
  OBVIOUS
<1> DEFINE low == {k \in N : k <= n}
           T == {1..k : k \in low}
           S == 1..n
<1>2. n \in Nat /\ IsFiniteSet(S)
  BY <1>1, FS_Interval
<1>3. T \in SUBSET (SUBSET S)
  <2>1. \A k \in low : k \in Nat /\ 1..k \subseteq 1..n
    BY <1>2
  <2> QED
    BY <2>1
<1>4. T # {}
  <2>1. n \in low
    BY <1>1, <1>2
  <2> QED
    BY <2>1
<1>5. PICK s \in T : \A t \in T : t \subseteq s => t = s
  <2> HIDE DEF T, S
  <2> QED
    BY <1>2, <1>3, <1>4, HasSmallest
<1>6. PICK m \in low : s = 1..m
  BY <1>5
<1>7. ASSUME NEW k \in N, ~(m <= k) PROVE FALSE
  <2>1. k \in low /\ k \in Nat /\ m \in Nat
    BY <1>2, <1>6, <1>7
  <2>2. 1..k \subseteq 1..m /\ 1..k # 1..m
    <3>1. m \in 1..m /\ m \notin 1..k
      BY <1>7, <2>1
    <3> QED
      BY <1>7, <2>1, <3>1
  <2>3. 1..k \in T
    BY <2>1
  <2> QED
    BY <1>5, <1>6, <2>2, <2>3
<1> QED
  BY <1>6, <1>7

\* What a recursion computes for a part of the set is the sum over that part.
LEMMA SumOfPart ==
  ASSUME NEW f, NEW S, IsFiniteSet(S), \A x \in S : f[x] \in Nat,
         NEW fs, Computes(fs, f, S), NEW s \in SUBSET S
  PROVE  fs[s] = Sum(f, s)
<1>1. IsFiniteSet(s)
  BY FS_Subset
<1>2. PICK ps : Computes(ps, f, s)
  <2>1. \A x \in s : f[x] \in Nat
    OBVIOUS
  <2> QED
    BY <1>1, <2>1, SumSteps
<1> DEFINE bad == {t \in SUBSET s : ps[t] # fs[t]}
<1>3. ASSUME bad # {} PROVE FALSE
  <2>1. PICK t \in bad : \A u \in bad : u \subseteq t => u = t
    <3>1. bad \in SUBSET (SUBSET s)
      OBVIOUS
    <3> HIDE DEF bad
    <3> QED
      BY <1>1, <1>3, <3>1, HasSmallest
  <2>2. t # {} /\ t \in SUBSET s /\ t \in SUBSET S
    BY <1>2, <2>1 DEF Computes
  <2>3. Pick(t) \in t /\ t \ {Pick(t)} \in SUBSET s /\ t \ {Pick(t)} # t
    BY <1>2, <2>2 DEF Computes
  <2>4. ps[t \ {Pick(t)}] = fs[t \ {Pick(t)}]
    BY <2>1, <2>3
  <2>5. ps[t] = f[Pick(t)] + ps[t \ {Pick(t)}] /\ fs[t] = f[Pick(t)] + fs[t \ {Pick(t)}]
    BY <1>2, <2>2 DEF Computes
  <2> QED
    BY <2>1, <2>4, <2>5
<1>4. ps[s] = fs[s]
  BY <1>3
<1> QED
  BY <1>2, <1>4 DEF Computes

\* Any term can be taken out of a sum, whichever order it is computed in.
LEMMA SumWithout ==
  ASSUME NEW f, NEW S, IsFiniteSet(S), \A x \in S : f[x] \in Nat, NEW a \in S
  PROVE  /\ Sum(f, S \ {a}) \in Nat
         /\ Sum(f, S) = f[a] + Sum(f, S \ {a})
<1>1. PICK fs : Computes(fs, f, S)
  BY SumSteps
<1>2. \A s \in SUBSET S : fs[s] \in Nat /\ fs[s] = Sum(f, s)
  <2> SUFFICES ASSUME NEW s \in SUBSET S PROVE fs[s] \in Nat /\ fs[s] = Sum(f, s)
    OBVIOUS
  <2>1. fs[s] = Sum(f, s)
    BY <1>1, SumOfPart
  <2>2. IsFiniteSet(s)
    BY FS_Subset
  <2>3. \A x \in s : f[x] \in Nat /\ f[x] \in Nat /\ f[x] <= f[x]
    OBVIOUS
  <2>4. Sum(f, s) \in Nat
    BY <2>2, <2>3, SumGrows
  <2> QED
    BY <2>1, <2>4
<1> DEFINE good(s) == \A x \in s : fs[s] = f[x] + fs[s \ {x}]
           bad == {s \in SUBSET S : ~good(s)}
<1>3. ASSUME bad # {} PROVE FALSE
  <2>1. PICK s \in bad : \A t \in bad : t \subseteq s => t = s
    <3>1. bad \in SUBSET (SUBSET S)
      OBVIOUS
    <3> HIDE DEF bad
    <3> QED
      BY <1>3, <3>1, HasSmallest
  <2>2. PICK x \in s : fs[s] # f[x] + fs[s \ {x}]
    BY <2>1
  <2> DEFINE y == Pick(s)
  <2>3. s \in SUBSET S /\ s # {} /\ y \in s /\ fs[s] = f[y] + fs[s \ {y}]
    BY <1>1, <2>1, <2>2 DEF Computes
  <2> HIDE DEF y
  <2>4. x # y
    BY <2>2, <2>3
  <2>5. good(s \ {x}) /\ good(s \ {y})
    <3>1. s \ {x} \in SUBSET S /\ s \ {x} # s /\ s \ {y} \in SUBSET S /\ s \ {y} # s
      BY <2>3
    <3> QED
      BY <2>1, <3>1
  <2>6. fs[s \ {x}] = f[y] + fs[(s \ {x}) \ {y}] /\ fs[s \ {y}] = f[x] + fs[(s \ {y}) \ {x}]
    BY <2>3, <2>4, <2>5
  <2>7. (s \ {x}) \ {y} = (s \ {y}) \ {x} /\ (s \ {x}) \ {y} \in SUBSET S
    BY <2>3
  <2>8. f[x] \in Nat /\ f[y] \in Nat /\ fs[(s \ {x}) \ {y}] \in Nat
    BY <1>2, <2>3, <2>7
  <2> DEFINE rest == fs[(s \ {x}) \ {y}]
  <2>9. fs[s \ {x}] = f[y] + rest /\ fs[s \ {y}] = f[x] + rest /\ rest \in Nat
    BY <2>6, <2>7, <2>8
  <2> HIDE DEF rest
  <2>10. fs[s] = f[x] + fs[s \ {x}]
    BY <2>3, <2>8, <2>9
  <2> QED
    BY <2>2, <2>10
<1>4. fs[S] = f[a] + fs[S \ {a}]
  BY <1>3
<1>5. S \in SUBSET S /\ S \ {a} \in SUBSET S
  OBVIOUS
<1> QED
  BY <1>2, <1>4, <1>5

\* A sum over nothing is 0.
LEMMA SumOfNone == \A f : Sum(f, {}) = 0
<1> SUFFICES ASSUME NEW f PROVE Sum(f, {}) = 0
  OBVIOUS
<1>1. IsFiniteSet({}) /\ \A x \in {} : f[x] \in Nat
  BY FS_EmptySet
<1>2. PICK fs : Computes(fs, f, {})
  BY <1>1, SumSteps
<1> QED
  BY <1>2 DEF Computes

\* A sum over an interval, without its last term.
LEMMA SumOfRange ==
  ASSUME NEW f, NEW i \in Nat, NEW m \in Nat, i <= m, \A j \in i..m : f[j] \in Nat
  PROVE  Sum(f, i..m) = f[m] + Sum(f, i..m - 1)
<1> DEFINE S == i..m
<1>1. IsFiniteSet(S)
  BY FS_Interval
<1>2. m \in S /\ S \ {m} = i..m - 1
  OBVIOUS
<1>3. \A x \in S : f[x] \in Nat
  OBVIOUS
<1> HIDE DEF S
<1>4. Sum(f, S) = f[m] + Sum(f, S \ {m})
  <2>1. \A a \in S : Sum(f, S) = f[a] + Sum(f, S \ {a})
    BY <1>1, <1>3, SumWithout
  <2> QED
    BY <1>2, <2>1
<1> QED
  BY <1>2, <1>4 DEF S

\* A sum over an interval is that of the same terms one place further on.
LEMMA SumShifted ==
  ASSUME NEW f, NEW g, NEW n \in Nat, \A j \in 1..n : f[j] \in Nat /\ g[j + 1] = f[j]
  PROVE  Sum(f, 1..n) = Sum(g, 2..n + 1)
<1> DEFINE good(m) == Sum(f, 1..m) = Sum(g, 2..m + 1)
           bad == {m \in 0..n : ~good(m)}
<1>1. ASSUME bad # {} PROVE FALSE
  <2>1. PICK m \in bad : \A j \in bad : m <= j
    <3>1. bad \in SUBSET Nat
      OBVIOUS
    <3> HIDE DEF bad
    <3> QED
      BY <1>1, <3>1, HasLeast
  <2>2. m # 0
    <3>1. 1..0 = {} /\ 2..0 + 1 = {}
      OBVIOUS
    <3>2. good(0)
      BY <3>1, SumOfNone
    <3> QED
      BY <2>1, <3>2
  <2>3. m \in 1..n /\ m - 1 \in 0..n /\ ~(m <= m - 1)
    BY <2>1, <2>2
  <2>4. good(m - 1)
    BY <2>1, <2>3
  <2>5. Sum(f, 1..m) = f[m] + Sum(f, 1..m - 1)
    <3>1. m \in Nat /\ 1 <= m /\ \A j \in 1..m : f[j] \in Nat
      BY <2>3
    <3> QED
      BY <3>1, SumOfRange
  <2>6. \A j \in 2..m + 1 : g[j] \in Nat
    <3> SUFFICES ASSUME NEW j \in 2..m + 1 PROVE g[j] \in Nat
      OBVIOUS
    <3>1. j - 1 \in 1..n /\ (j - 1) + 1 = j
      BY <2>3
    <3> QED
      BY <3>1
  <2>7. m + 1 \in Nat /\ 2 \in Nat /\ 2 <= m + 1 /\ m + 1 - 1 = (m - 1) + 1
    BY <2>3
  <2>8. Sum(g, 2..m + 1) = g[m + 1] + Sum(g, 2..m + 1 - 1)
    BY <2>6, <2>7, SumOfRange
  <2>9. Sum(g, 2..m + 1) = g[m + 1] + Sum(g, 2..(m - 1) + 1)
    BY <2>7, <2>8
  <2>10. g[m + 1] = f[m]
    BY <2>3
  <2>11. good(m)
    BY <2>4, <2>5, <2>9, <2>10
  <2> QED
    BY <2>1, <2>11
<1>2. n \in 0..n
  OBVIOUS
<1> QED
  BY <1>1, <1>2

=============================================================================
