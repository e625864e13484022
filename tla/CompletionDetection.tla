------------------------- MODULE CompletionDetection -------------------------
(***************************************************************************)
(* What a round of the benchmark asks of its monitor, whatever the chain:  *)
(* the round script blocks on the monitor ("active monitor - check all     *)
(* transaction done") and copies the logs once it returns.  The workload   *)
(* drives the chain, the chain seals transactions, and the monitor may     *)
(* declare the round over only when the transactions of the round have     *)
(* been sealed.  How the monitor finds out is left open.                   *)
(***************************************************************************)
EXTENDS Naturals

CONSTANTS
  Target,   \* transactions the monitor waits for
  Supply    \* transactions the workload submits

VARIABLES
  sealed,   \* transactions of the round the chain has sealed
  over      \* has the monitor declared the round over?

vars == <<sealed, over>>

TypeOK ==
  /\ sealed \in 0..Supply
  /\ over \in BOOLEAN

Init ==
  /\ sealed = 0
  /\ over = FALSE

\* The chain seals some of the transactions that are left.
Seal ==
  /\ sealed' \in (sealed + 1)..Supply
  /\ UNCHANGED over

\* The monitor declares the round over.
Declare ==
  /\ ~over
  /\ sealed >= Target
  /\ over' = TRUE
  /\ UNCHANGED sealed

Next == Seal \/ Declare

Spec == Init /\ [][Next]_vars

\* The round is never declared over before its transactions are sealed.
Sound == over => sealed >= Target

==============================================================================
