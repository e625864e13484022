----------------------------- MODULE MicroMonitor -----------------------------
(***************************************************************************)
(* src/bin/Monitor.py, which samples one node once per second into four    *)
(* files, and the end of a round on that node: killQuorum.sh kills geth,   *)
(* sleeps, and the files are copied to the dispatcher.                     *)
(*                                                                         *)
(* The monitor is a loop of a tenth of a second that samples when the      *)
(* clock shows exactly the second after the last sample.  It is ended by   *)
(* the exception of the first sample of a dead process; until then the     *)
(* last rows of each file are in a buffer of the process.  The loop has no *)
(* deadline, so an iteration may take any time: late records that a whole  *)
(* second went by in which none began.                                     *)
(***************************************************************************)
EXTENDS Naturals

CONSTANTS
  Fraction, \* parts of a second that the clock is seen in
  File,     \* the files that are copied
  Buffer    \* Buffer[f]: rows that fill the buffer of file f

ASSUME MicroAssumption == Fraction \in Nat \ {0} /\ Buffer \in [File -> Nat \ {0}]

VARIABLES
  ahead,    \* fractions of a second since second t began
  passed,   \* is the loop between its test and the timestamp?
  exited,   \* has the monitor ended?
  buffered, \* buffered[f]: rows of file f that are not on the disk
  alive,    \* does the process that is sampled run?
  waited,   \* fractions of a second since it was killed
  copied,   \* have the files been copied?
  \* for properties
  begun,    \* has an iteration begun in this second?
  late      \* has a second gone by without one?

vars == <<ahead, passed, exited, buffered, alive, waited, copied, begun, late>>

Init ==
  /\ ahead \in 0..Fraction - 1
  /\ passed = FALSE /\ exited = FALSE
  /\ buffered = [f \in File |-> 0]
  /\ alive = TRUE /\ waited = 0 /\ copied = FALSE
  /\ begun = TRUE /\ late = FALSE

------------------------------------------------------------------------------
\* Mutant: the time is compared before it is cut to a second.
DueExactly == ahead = Fraction

\* int(time.time()) == t + 1
Due == ahead \div Fraction = 1

\* The test of one iteration.  Nothing happens if it fails.
Iterate ==
  /\ ~passed /\ ~exited
  /\ passed' = Due
  /\ begun' = TRUE
  /\ UNCHANGED <<ahead, exited, buffered, alive, waited, copied, late>>

\* Mutant: t is not set.
AheadOfOldSecond == ahead

\* t = int(timestamp), which may be a later second than the one that was tested.
AheadOfSecond == ahead % Fraction

\* The sample: a row for each file, and a full buffer goes to the disk.
Sample ==
  /\ passed /\ alive
  /\ passed' = FALSE
  /\ ahead' = AheadOfSecond
  /\ buffered' = [f \in File |-> (buffered[f] + 1) % Buffer[f]]
  /\ UNCHANGED <<exited, alive, waited, copied, begun, late>>

\* process.name() raises NoSuchProcess before anything is written: the interpreter exits and
\* closes its files.
SampleFails ==
  /\ passed /\ ~alive
  /\ passed' = FALSE /\ exited' = TRUE
  /\ buffered' = [f \in File |-> 0]
  /\ UNCHANGED <<ahead, alive, waited, copied, begun, late>>

\* killQuorum.sh: kill -9 $quorum_pid
Kill ==
  /\ alive
  /\ alive' = FALSE
  /\ UNCHANGED <<ahead, passed, exited, buffered, waited, copied, begun, late>>

\* Mutant: two seconds.
WaitShort == 2 * Fraction

\* killQuorum.sh: sleep 5
Wait == 5 * Fraction

\* The script copies the files as they are on the disk.
Copy ==
  /\ waited = Wait /\ ~copied
  /\ copied' = TRUE
  /\ UNCHANGED <<ahead, passed, exited, buffered, alive, waited, begun, late>>

\* Time passes, whatever the loop does.  More than three seconds after t are all the same.
Tick ==
  LET turns == (ahead + 1) % Fraction = 0
  IN /\ ahead' = IF ahead + 1 = 4 * Fraction THEN 3 * Fraction ELSE ahead + 1
     /\ waited' = IF alive \/ waited = Wait THEN waited ELSE waited + 1
     /\ begun' = (begun /\ ~turns)
     /\ late' = (late \/ (turns /\ ~begun /\ ~exited))
     /\ UNCHANGED <<passed, exited, buffered, alive, copied>>

Next == Iterate \/ Sample \/ SampleFails \/ Kill \/ Copy \/ Tick

\* Only time is sure to pass: late says what the loop did meanwhile.
Spec == Init /\ [][Next]_vars /\ WF_vars(Tick)

------------------------------------------------------------------------------
(***************************************************************************)
(* Properties.                                                             *)
(***************************************************************************)

\* The loop will never sample again.
Stalled == ~passed /\ ~exited /\ ahead >= 2 * Fraction

\* Sampling stops for good only after a whole second in which no iteration began: a timestamp
\* read in a later second than the one tested costs a row, but not the rows after it
\* (Monitor.py:20-22).
StallsOnlyWhenLate == Stalled => late

\* The monitor of a node that was killed ends, unless it was late once: it may then live for
\* ever, beside the monitors of the rounds after it (Monitor.py:19-24).
KilledMonitorEnds == ~alive ~> exited \/ late

\* The files that are copied have every row that was sampled, so that they have the same length
\* (drawGraph.sh takes the shortest), unless the monitor was late: the rows in its buffers are
\* then never copied (killQuorum.sh:8, Monitor.py:24-42).
CopiesAreWhole == [][copied' # copied => late \/ \A f \in File : buffered[f] = 0]_vars

==============================================================================
