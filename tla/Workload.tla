------------------------------- MODULE Workload -------------------------------
(***************************************************************************)
(* src/bin/workload.js: the load generator of one thread.                  *)
(*                                                                         *)
(* Two kinds of timers share the counter sent_txs.  A period timer fires   *)
(* once per second, submits INPUT_RATE transactions, and clears itself     *)
(* when the counter reaches a multiple of INPUT_RATE * DURATION_TIME.  The *)
(* round timer fires every DURATION_TIME + SLEEP_TIME seconds; it starts a *)
(* period unless the counter is exactly the round's total, in which case   *)
(* it writes the log of the replies received so far and clears itself.     *)
(* Nothing else relates a period to the counter: two periods that overlap  *)
(* count, and clear, on each other's behalf.                               *)
(*                                                                         *)
(* Node's event loop runs a timer at its due time or later, never earlier, *)
(* and sets the next due time from the moment it runs.  Time advances in   *)
(* steps of 1/Unit second; MaxLag bounds how late a timer may run, and     *)
(* MaxReply how long the reply to a transaction may take.                  *)
(***************************************************************************)
EXTENDS Integers, FiniteSets

CONSTANTS
  Rate,        \* INPUT_RATE
  Duration,    \* DURATION_TIME, seconds
  Repeat,      \* REPEAT
  Sleeps,      \* the values considered for SLEEP_TIME, seconds
  Unit,        \* time steps per second
  MaxLag,      \* bound on the time steps a timer that is due may wait
  MaxReply,    \* bound on the time steps a reply takes
  Extra,       \* bound on the periods that are started beyond Repeat
  MaxLost      \* bound on the requests that fail

ASSUME LoadAssumption == {Rate, Duration, Repeat, Unit} \subseteq Nat \ {0}
ASSUME TimeAssumption == {MaxLag, MaxReply, Extra, MaxLost} \cup Sleeps \subseteq Nat

PerPeriod == Rate * Duration          \* app.max_txs_in_period
PerRound == Rate * Duration * Repeat  \* app.max_txs_in_round

Period == 1..Repeat + Extra           \* the periods, in the order they are started
Tx == 1..Rate * Duration * (Repeat + Extra)

VARIABLES
  sleep,     \* SLEEP_TIME, an argument of the thread
  sent,      \* app.sent_txs
  started,   \* periods started so far
  due,       \* due[p]: time until period timer p is due, for the periods that are set
  roundDue,  \* time until the round timer is due
  roundSet,  \* is the round timer set?
  pending,   \* pending[t]: longest time the reply to t can still take
  log,       \* app.log: the transactions whose reply was entered
  lost,      \* transactions whose request failed or was answered with an error
  file       \* what the log file holds, or {} while it is not written

vars == <<sleep, sent, started, due, roundDue, roundSet, pending, log, lost, file>>

TypeOK ==
  /\ sleep \in Sleeps
  /\ sent \in Nat /\ started \in Period
  /\ DOMAIN due \subseteq Period /\ \A p \in DOMAIN due : due[p] \in -MaxLag..Unit
  /\ roundDue \in -MaxLag..(Duration + sleep) * Unit
  /\ roundSet \in BOOLEAN
  /\ DOMAIN pending \subseteq 1..sent /\ \A t \in DOMAIN pending : pending[t] \in 0..MaxReply
  /\ log \subseteq 1..sent /\ lost \subseteq 1..sent /\ file \subseteq log

\* main: onePeriodTest(), oneRoundTest().
Init ==
  /\ sleep \in Sleeps
  /\ sent = 0 /\ started = 1
  /\ due = [p \in {1} |-> Unit]
  /\ roundDue = (Duration + sleep) * Unit /\ roundSet = TRUE
  /\ pending = << >> /\ log = {} /\ lost = {} /\ file = {}

\* Mutant: the round's total clears the timer.
PeriodSentByRound(n) == n % PerRound = 0

\* Has a period's worth of transactions been sent?  The counter is the thread's, not the
\* period's.
PeriodSent(n) == n % PerPeriod = 0

\* Period timer p fires: one transaction per turn of the loop, then the test that clears it.
PeriodTick(p) ==
  /\ p \in DOMAIN due /\ due[p] <= 0
  /\ sent' = sent + Rate
  /\ pending' = [t \in DOMAIN pending \cup sent + 1..sent'  |->
                   IF t > sent THEN MaxReply ELSE pending[t]]
  /\ due' = IF PeriodSent(sent') THEN [q \in DOMAIN due \ {p} |-> due[q]]
            ELSE [due EXCEPT ![p] = Unit]
  /\ UNCHANGED <<sleep, started, roundDue, roundSet, log, lost, file>>

\* Mutants: the round is over at once, or never exactly.
RoundSentAlways == TRUE

RoundSentOffByOne == sent = PerRound + 1

\* Has exactly the round's total been sent?
RoundSent == sent = PerRound

\* What the log file gets: app.log as it is when the round timer fires.
LogContents == log

\* The round timer fires before the total is reached: another period is started.
StartPeriod ==
  /\ roundSet /\ roundDue <= 0
  /\ ~RoundSent
  /\ started + 1 \in Period
  /\ started' = started + 1
  /\ due' = [p \in DOMAIN due \cup {started'} |-> IF p = started' THEN Unit ELSE due[p]]
  /\ roundDue' = (Duration + sleep) * Unit
  /\ UNCHANGED <<sleep, sent, roundSet, pending, log, lost, file>>

\* The round timer fires and finds exactly the total: the log is written as it is.
EndRound ==
  /\ roundSet /\ roundDue <= 0
  /\ RoundSent
  /\ file' = LogContents
  /\ roundSet' = FALSE
  /\ UNCHANGED <<sleep, sent, started, due, roundDue, pending, log, lost>>

\* The node's reply to t arrives: its hash and time are entered in the log.
Reply(t) ==
  /\ t \in DOMAIN pending
  /\ pending' = [u \in DOMAIN pending \ {t} |-> pending[u]]
  /\ log' = log \cup {t}
  /\ UNCHANGED <<sleep, sent, started, due, roundDue, roundSet, lost, file>>

\* The request for t fails, or its answer carries no result: the rejected promise has no
\* handler and t never gets an entry.
ReplyFails(t) ==
  /\ t \in DOMAIN pending
  /\ Cardinality(lost) < MaxLost
  /\ pending' = [u \in DOMAIN pending \ {t} |-> pending[u]]
  /\ lost' = lost \cup {t}
  /\ UNCHANGED <<sleep, sent, started, due, roundDue, roundSet, log, file>>

\* A time step passes: no timer waits for more than MaxLag, no reply for more than MaxReply.
Elapse ==
  /\ \A p \in DOMAIN due : due[p] > -MaxLag
  /\ roundSet => roundDue > -MaxLag
  /\ \A t \in DOMAIN pending : pending[t] > 0
  /\ DOMAIN due # {} \/ roundSet \/ DOMAIN pending # {}
  /\ due' = [p \in DOMAIN due |-> due[p] - 1]
  /\ roundDue' = IF roundSet THEN roundDue - 1 ELSE roundDue
  /\ pending' = [t \in DOMAIN pending |-> pending[t] - 1]
  /\ UNCHANGED <<sleep, sent, started, roundSet, log, lost, file>>

Next ==
  \/ \E p \in Period : PeriodTick(p)
  \/ StartPeriod
  \/ EndRound
  \/ \E t \in Tx : Reply(t) \/ ReplyFails(t)
  \/ Elapse

Spec == Init /\ [][Next]_vars

\* Time passes, and the event loop runs the callbacks that are due.
FairSpec == Spec /\ WF_vars(Next)

------------------------------------------------------------------------------
(***************************************************************************)
(* Properties.                                                             *)
(***************************************************************************)

\* The periods that are set are those started beyond the multiples reached: every multiple
\* of PerPeriod clears exactly one timer, whichever period's tick reaches it.  This holds
\* however the timers overlap, and is why a period started too many makes the round send
\* too much (workload.js:28-31, 46).
PeriodAccounting == started = sent \div PerPeriod + Cardinality(DOMAIN due)

\* The sleeps between two periods that a period's drift and the last replies fit in.
LongSleeps == {s \in Sleeps : Duration * MaxLag + MaxReply < s * Unit}

Prompt == sleep \in LongSleeps

\* When drift and replies fit in the sleep, periods do not overlap, the thread never sends more
\* than the round's total, and when the round timer is cleared exactly the total is sent, no
\* period timer is left, and the log file has every transaction whose request succeeded:
\* post_process.js looks the receive time of each one up in it (workload.js:28-31, 39-46).
ExactLoad ==
  Prompt =>
    /\ Cardinality(DOMAIN due) <= 1
    /\ sent <= PerRound
    /\ ~roundSet => sent = PerRound /\ DOMAIN due = {} /\ file = 1..PerRound \ lost

\* When the drift fits in the sleep the round ends (workload.js:39-42).
RoundEnds == Prompt ~> ~roundSet

==============================================================================
