-------------------------- MODULE MicroMonitor_proofs --------------------------
(***************************************************************************)
(* What the monitor of a node guarantees for every resolution of the clock *)
(* and every number and size of buffers: why it takes a whole second       *)
(* without an iteration to stop the sampling or to spoil the copies.       *)
(***************************************************************************)
EXTENDS MicroMonitor, Integers, TLAPS

TypeOK ==
  /\ ahead \in 0..4 * Fraction - 1 /\ waited \in 0..Wait
  /\ buffered \in [File -> Nat]
  /\ passed \in BOOLEAN /\ exited \in BOOLEAN /\ alive \in BOOLEAN
  /\ copied \in BOOLEAN /\ begun \in BOOLEAN /\ late \in BOOLEAN

\* Until a second is missed, an iteration that passed its test began in second t + 1, so that
\* at most the second after that has gone by without one; and while none passed, second t + 1
\* is not over and none has begun in it.
OnTime ==
  ~late /\ ~exited =>
    IF passed THEN Fraction <= ahead /\ ahead < 3 * Fraction
                   /\ (2 * Fraction <= ahead => ~begun)
    ELSE ahead < 2 * Fraction /\ (Fraction <= ahead => ~begun)

\* The script waits no longer than the time since second t while the monitor lives.
WaitsInTime ==
  /\ alive => waited = 0
  /\ ~late /\ ~exited => waited <= ahead

\* The exception that ends the monitor closes its files.
ExitIsClean == exited => ~passed /\ \A f \in File : buffered[f] = 0

Inv == TypeOK /\ OnTime /\ WaitsInTime /\ ExitIsClean

------------------------------------------------------------------------------
\* The loop's test is true in the second after t, a clock with whole seconds turns at multiples,
\* and what is left of a second is less than one.
LEMMA Clock ==
  ASSUME NEW a \in 0..4 * Fraction - 1
  PROVE  /\ a \div Fraction = 1 <=> Fraction <= a /\ a < 2 * Fraction
         /\ (a + 1) % Fraction = 0 <=>
              a + 1 \in {Fraction, 2 * Fraction, 3 * Fraction, 4 * Fraction}
         /\ a % Fraction \in 0..Fraction - 1
<1>1. Fraction \in Nat \ {0} /\ a \in Nat
  BY MicroAssumption
<1> DEFINE q == a \div Fraction
           r == a % Fraction
<1>2. q \in Int /\ r \in 0..Fraction - 1 /\ a = Fraction * q + r
  BY <1>1
<1> HIDE DEF q, r
<1>3. q \in 0..3
  <2>1. q >= 0
    <3>1. q <= 0 - 1 => Fraction * q <= Fraction * (0 - 1)
      BY <1>1, <1>2
    <3> QED
      BY <1>1, <1>2, <3>1
  <2>2. q <= 3
    <3>1. q >= 4 => Fraction * q >= Fraction * 4
      BY <1>1, <1>2
    <3> QED
      BY <1>1, <1>2, <3>1
  <2> QED
    BY <1>2, <2>1, <2>2
<1>4. q = 1 <=> Fraction <= a /\ a < 2 * Fraction
  BY <1>1, <1>2, <1>3
<1> DEFINE p == (a + 1) \div Fraction
           s == (a + 1) % Fraction
<1>5. p \in Int /\ s \in 0..Fraction - 1 /\ a + 1 = Fraction * p + s
  BY <1>1
<1> HIDE DEF p, s
<1>6. p \in 0..4
  <2>1. p >= 0
    <3>1. p <= 0 - 1 => Fraction * p <= Fraction * (0 - 1)
      BY <1>1, <1>5
    <3> QED
      BY <1>1, <1>5, <3>1
  <2>2. p <= 4
    <3>1. p >= 5 => Fraction * p >= Fraction * 5
      BY <1>1, <1>5
    <3> QED
      BY <1>1, <1>5, <3>1
  <2> QED
    BY <1>5, <2>1, <2>2
<1>7. s = 0 <=> a + 1 \in {Fraction, 2 * Fraction, 3 * Fraction, 4 * Fraction}
  BY <1>1, <1>5, <1>6
<1> QED
  BY <1>2, <1>4, <1>7 DEF q, r, s

\* The monitor has sampled when it is first seen.
LEMMA InitInv == Init => Inv
<1> SUFFICES ASSUME Init PROVE Inv
  OBVIOUS
<1>1. Fraction \in Nat \ {0} /\ ahead \in 0..Fraction - 1
  BY MicroAssumption DEF Init
<1>2. TypeOK
  <2>1. ahead \in 0..4 * Fraction - 1 /\ 0 \in 0..5 * Fraction
    BY <1>1
  <2> QED
    BY <2>1 DEF Init, TypeOK, Wait
<1>3. OnTime
  BY <1>1 DEF Init, OnTime
<1>4. WaitsInTime /\ ExitIsClean
  BY <1>1 DEF Init, WaitsInTime, ExitIsClean
<1> QED
  BY <1>2, <1>3, <1>4 DEF Inv

\* An iteration that passes the test does so in second t + 1, in which none has begun before.
LEMMA IterateKeeps == Inv /\ Iterate => Inv'
<1> SUFFICES ASSUME Inv, Iterate PROVE Inv'
  OBVIOUS
<1>1. /\ ~passed /\ ~exited /\ begun' = TRUE /\ passed' = Due
      /\ UNCHANGED <<ahead, exited, buffered, alive, waited, copied, late>>
  BY DEF Iterate
<1>2. Due <=> Fraction <= ahead /\ ahead < 2 * Fraction
  BY Clock DEF Due, Inv, TypeOK
<1>3. TypeOK'
  BY <1>1 DEF Inv, TypeOK, Due, Wait
<1>4. Fraction \in Nat \ {0} /\ ahead \in Nat
  BY MicroAssumption DEF Inv, TypeOK
<1>5. OnTime'
  <2>1. CASE Due
    BY <1>1, <1>2, <1>4, <2>1 DEF Inv, OnTime
  <2>2. CASE ~Due
    BY <1>1, <1>2, <1>4, <2>2 DEF Inv, OnTime
  <2> QED
    BY <2>1, <2>2
<1> QED
  BY <1>1, <1>3, <1>5 DEF Inv, WaitsInTime, ExitIsClean

\* A sample puts the loop into second t + 1, or a later one.
LEMMA SampleKeeps == Inv /\ Sample => Inv'
<1> SUFFICES ASSUME Inv, Sample PROVE Inv'
  OBVIOUS
<1>1. /\ passed /\ alive /\ passed' = FALSE /\ ahead' = ahead % Fraction
      /\ buffered' = [f \in File |-> (buffered[f] + 1) % Buffer[f]]
      /\ UNCHANGED <<exited, alive, waited, copied, begun, late>>
  BY DEF Sample, AheadOfSecond
<1>2. ahead' \in 0..Fraction - 1 /\ Fraction \in Nat \ {0}
  BY <1>1, Clock, MicroAssumption DEF Inv, TypeOK
<1>3. buffered' \in [File -> Nat]
  <2>1. ASSUME NEW f \in File PROVE (buffered[f] + 1) % Buffer[f] \in Nat
    <3>1. buffered[f] \in Nat /\ Buffer[f] \in Nat \ {0}
      BY MicroAssumption DEF Inv, TypeOK
    <3> QED
      BY <3>1
  <2> QED
    BY <1>1, <2>1
<1>4. TypeOK'
  <2>1. ahead' \in 0..4 * Fraction - 1
    BY <1>2
  <2> QED
    BY <1>1, <1>3, <2>1 DEF Inv, TypeOK, Wait
<1>5. OnTime'
  BY <1>1, <1>2 DEF OnTime
<1>6. ~exited /\ waited = 0
  BY <1>1 DEF Inv, WaitsInTime, ExitIsClean
<1> QED
  BY <1>1, <1>2, <1>4, <1>5, <1>6 DEF Inv, WaitsInTime, ExitIsClean

\* The monitor of a dead process ends.
LEMMA SampleFailsKeeps == Inv /\ SampleFails => Inv'
<1> SUFFICES ASSUME Inv, SampleFails PROVE Inv'
  OBVIOUS
<1>1. /\ passed' = FALSE /\ exited' = TRUE /\ buffered' = [f \in File |-> 0] /\ ~alive
      /\ UNCHANGED <<ahead, alive, waited, copied, begun, late>>
  BY DEF SampleFails
<1>2. TypeOK'
  BY <1>1 DEF Inv, TypeOK, Wait
<1>3. OnTime' /\ WaitsInTime' /\ ExitIsClean'
  BY <1>1 DEF OnTime, WaitsInTime, ExitIsClean
<1> QED
  BY <1>2, <1>3 DEF Inv

\* The process is killed, or the files are copied.
LEMMA ScriptKeeps == Inv /\ (Kill \/ Copy) => Inv'
<1> SUFFICES ASSUME Inv, Kill \/ Copy PROVE Inv'
  OBVIOUS
<1>1. /\ UNCHANGED <<ahead, passed, exited, buffered, waited, begun, late>>
      /\ alive' \in {alive, FALSE} /\ copied' \in {copied, TRUE}
  BY DEF Kill, Copy
<1>2. TypeOK'
  BY <1>1 DEF Inv, TypeOK, Wait
<1>3. OnTime'
  BY <1>1 DEF Inv, OnTime
<1>4. alive' => alive
  BY <1>1
<1>5. WaitsInTime' /\ ExitIsClean'
  BY <1>1, <1>4 DEF Inv, WaitsInTime, ExitIsClean
<1> QED
  BY <1>2, <1>3, <1>5 DEF Inv

\* When a second is over in which no iteration began, it is missed.
LEMMA TickKeeps == Inv /\ Tick => Inv'
<1> SUFFICES ASSUME Inv, Tick PROVE Inv'
  OBVIOUS
<1> DEFINE turns == (ahead + 1) % Fraction = 0
<1>1. /\ ahead' = IF ahead + 1 = 4 * Fraction THEN 3 * Fraction ELSE ahead + 1
      /\ waited' = IF alive \/ waited = Wait THEN waited ELSE waited + 1
      /\ begun' = (begun /\ ~turns)
      /\ late' = (late \/ (turns /\ ~begun /\ ~exited))
      /\ UNCHANGED <<passed, exited, buffered, alive, copied>>
  BY DEF Tick
<1>2. turns <=> ahead + 1 \in {Fraction, 2 * Fraction, 3 * Fraction, 4 * Fraction}
  BY Clock DEF Inv, TypeOK
<1> HIDE DEF turns
<1>3. /\ Fraction \in Nat \ {0} /\ ahead \in 0..4 * Fraction - 1
      /\ waited \in 0..5 * Fraction /\ Wait = 5 * Fraction
  BY MicroAssumption DEF Inv, TypeOK, Wait
<1>4. TypeOK'
  <2>1. ahead' \in 0..4 * Fraction - 1
    BY <1>1, <1>3
  <2>2. waited' \in 0..Wait
    BY <1>1, <1>3
  <2>3. begun' \in BOOLEAN /\ late' \in BOOLEAN
    BY <1>1 DEF Inv, TypeOK
  <2> QED
    BY <1>1, <2>1, <2>2, <2>3 DEF Inv, TypeOK, Wait
<1>5. OnTime' /\ (~late' /\ ~exited' => waited' <= ahead')
  <2> SUFFICES ASSUME ~late', ~exited
               PROVE  /\ IF passed THEN Fraction <= ahead' /\ ahead' < 3 * Fraction
                                        /\ (2 * Fraction <= ahead' => ~begun')
                         ELSE ahead' < 2 * Fraction /\ (Fraction <= ahead' => ~begun')
                      /\ waited' <= ahead'
    BY <1>1 DEF OnTime
  <2>1. ~late /\ (turns => begun) /\ waited <= ahead
    BY <1>1 DEF Inv, WaitsInTime
  <2>2. CASE passed
    <3>1. Fraction <= ahead /\ ahead < 3 * Fraction /\ (2 * Fraction <= ahead => ~begun)
      BY <2>1, <2>2 DEF Inv, OnTime
    <3>2. ahead + 1 # 3 * Fraction
      BY <1>2, <1>3, <2>1, <3>1
    <3>3. ahead' = ahead + 1 /\ ahead' < 3 * Fraction
      BY <1>1, <1>3, <3>1, <3>2
    <3>4. waited' <= ahead'
      BY <1>1, <1>3, <2>1, <3>3
    <3>5. 2 * Fraction <= ahead' => ~begun'
      <4>1. CASE ahead' = 2 * Fraction
        BY <1>1, <1>2, <3>3, <4>1
      <4>2. CASE 2 * Fraction <= ahead
        BY <1>1, <3>1, <4>2
      <4> QED
        BY <1>3, <3>3, <4>1, <4>2
    <3> QED
      BY <1>3, <2>2, <3>1, <3>3, <3>4, <3>5
  <2>3. CASE ~passed
    <3>1. ahead < 2 * Fraction /\ (Fraction <= ahead => ~begun)
      BY <2>1, <2>3 DEF Inv, OnTime
    <3>2. ahead + 1 # 2 * Fraction
      <4>1. CASE Fraction <= ahead
        BY <1>2, <2>1, <3>1, <4>1
      <4>2. CASE ~(Fraction <= ahead)
        BY <1>3, <4>2
      <4> QED
        BY <4>1, <4>2
    <3>3. ahead' = ahead + 1 /\ ahead' < 2 * Fraction
      BY <1>1, <1>3, <3>1, <3>2
    <3>4. waited' <= ahead'
      BY <1>1, <1>3, <2>1, <3>3
    <3>5. Fraction <= ahead' => ~begun'
      <4>1. CASE ahead' = Fraction
        BY <1>1, <1>2, <3>3, <4>1
      <4>2. CASE Fraction <= ahead
        BY <1>1, <3>1, <4>2
      <4> QED
        BY <1>3, <3>3, <4>1, <4>2
    <3> QED
      BY <2>3, <3>3, <3>4, <3>5
  <2> QED
    BY <2>2, <2>3
<1>6. alive' => waited' = 0
  BY <1>1 DEF Inv, WaitsInTime
<1>7. ExitIsClean'
  BY <1>1 DEF Inv, ExitIsClean
<1> QED
  BY <1>4, <1>5, <1>6, <1>7 DEF Inv, WaitsInTime

\* The invariant is inductive.
LEMMA NextInv == Inv /\ [Next]_vars => Inv'
<1>1. Inv /\ UNCHANGED vars => Inv'
  BY DEF vars, Inv, TypeOK, OnTime, WaitsInTime, ExitIsClean, Wait
<1> QED
  BY <1>1, IterateKeeps, SampleKeeps, SampleFailsKeeps, ScriptKeeps, TickKeeps DEF Next

\* It holds at any time.
LEMMA Invariant == Spec => []Inv
  BY InitInv, NextInv, PTL DEF Spec

------------------------------------------------------------------------------
\* Every state of the monitor is well typed (Monitor.py:13-42).
THEOREM TypeCorrect == Spec => []TypeOK
<1>1. Inv => TypeOK
  BY DEF Inv
<1> QED
  BY <1>1, Invariant, PTL

\* Sampling stops for good only after a whole second without an iteration, at any resolution
\* of the clock (Monitor.py:20-22).
THEOREM StallingTakesASecond == Spec => []StallsOnlyWhenLate
<1>1. Inv => StallsOnlyWhenLate
  <2> SUFFICES ASSUME Inv, ~passed, ~exited, ahead >= 2 * Fraction PROVE late
    BY DEF StallsOnlyWhenLate, Stalled
  <2>1. Fraction \in Nat /\ ahead \in Nat
    BY MicroAssumption DEF Inv, TypeOK
  <2> QED
    BY <2>1 DEF Inv, OnTime
<1> QED
  BY <1>1, Invariant, PTL

\* The files of a round are copied with every row in them, unless the monitor missed a second:
\* within the five seconds that the script sleeps the monitor samples the dead process, and
\* ends (killQuorum.sh:8, Monitor.py:24-42).
THEOREM WholeFilesAreCopied == Spec => CopiesAreWhole
<1>1. Inv /\ [Next]_vars =>
        [copied' # copied => late \/ \A f \in File : buffered[f] = 0]_vars
  <2> SUFFICES ASSUME Inv, Next, copied' # copied, ~late
               PROVE  \A f \in File : buffered[f] = 0
    OBVIOUS
  <2>1. Copy
    BY DEF Next, Iterate, Sample, SampleFails, Kill, Tick
  <2>2. Fraction \in Nat \ {0} /\ waited = 5 * Fraction /\ ahead \in Nat
    BY <2>1, MicroAssumption DEF Copy, Wait, Inv, TypeOK
  <2>3. exited
    BY <2>2 DEF Inv, OnTime, WaitsInTime
  <2> QED
    BY <2>3 DEF Inv, ExitIsClean
<1> QED
  BY <1>1, Invariant, PTL DEF Spec, CopiesAreWhole

==============================================================================
