---------------------------- MODULE Workload_proofs ----------------------------
(***************************************************************************)
(* What the load generator of a thread guarantees, for every rate,         *)
(* duration, number of periods, resolution of the clock and bound on       *)
(* delays: a multiple of a period's transactions clears one timer, and     *)
(* where drift and replies fit in the sleep the load and its log are       *)
(* exact.                                                                  *)
(***************************************************************************)
EXTENDS Workload, FiniteSetTheorems, TLAPS

(***************************************************************************)
(* The inductive invariant.                                                *)
(***************************************************************************)

\* The timers and the replies that are awaited are functions, and the timers are of periods that
\* were started.
TimersSound ==
  /\ due = [p \in DOMAIN due |-> due[p]] /\ DOMAIN due \subseteq 1..started
  /\ pending = [t \in DOMAIN pending |-> pending[t]]

\* Every transaction has its reply, has lost it, or waits for it.
RepliesSound ==
  /\ log \cup lost \cup DOMAIN pending = 1..sent
  /\ log \cap lost = {} /\ DOMAIN pending \cap (log \cup lost) = {}

\* q periods' worth of transactions and k ticks have been sent, and each of the q has cleared
\* one timer.
Progress(q, k) ==
  /\ sent = q * PerPeriod + k * Rate
  /\ started = q + Cardinality(DOMAIN due)

\* The time since the round timer was set.
Elapsed == (Duration + sleep) * Unit - roundDue

\* With a long sleep and until the round ends, the only timer is that of the last period, and it
\* has drifted by at most MaxLag in each of its k ticks; what is awaited comes before the round
\* timer is due.
OnTime(k) ==
  Prompt /\ roundSet =>
    /\ started <= Repeat
    /\ IF DOMAIN due = {} THEN k = 0
       ELSE DOMAIN due = {started} /\ Elapsed <= k * (Unit + MaxLag) + Unit - due[started]
    /\ \A t \in DOMAIN pending : pending[t] < roundDue

\* With a long sleep the round ends with all done.
EndedSound ==
  Prompt /\ ~roundSet =>
    DOMAIN due = {} /\ DOMAIN pending = {} /\ sent = PerRound /\ file = log

Inv ==
  /\ TypeOK /\ TimersSound /\ RepliesSound /\ EndedSound
  /\ \E q \in 0..started : \E k \in 0..Duration - 1 : Progress(q, k) /\ OnTime(k)

------------------------------------------------------------------------------
(***************************************************************************)
(* Arithmetic.                                                             *)
(***************************************************************************)

\* The constants, and the totals.
LEMMA Constants ==
  /\ Rate \in Nat \ {0} /\ Duration \in Nat \ {0} /\ Repeat \in Nat \ {0} /\ Unit \in Nat \ {0}
  /\ MaxLag \in Nat /\ MaxReply \in Nat /\ Extra \in Nat /\ MaxLost \in Nat /\ Sleeps \subseteq Nat
  /\ PerPeriod \in Nat \ {0} /\ PerRound \in Nat
  /\ PerPeriod = Rate * Duration /\ PerRound = Repeat * PerPeriod
<1>1. /\ Rate \in Nat \ {0} /\ Duration \in Nat \ {0} /\ Repeat \in Nat \ {0} /\ Unit \in Nat \ {0}
      /\ MaxLag \in Nat /\ MaxReply \in Nat /\ Extra \in Nat /\ MaxLost \in Nat
      /\ Sleeps \subseteq Nat
  BY LoadAssumption, TimeAssumption
<1>2. Rate * Duration \in Nat \ {0}
  BY <1>1
<1>3. Rate * Duration * Repeat = Repeat * (Rate * Duration)
  BY <1>1
<1>4. Repeat * (Rate * Duration) \in Nat
  BY <1>1, <1>2
<1> QED
  BY <1>1, <1>2, <1>3, <1>4 DEF PerPeriod, PerRound

\* Products grow with their factors.
LEMMA Products ==
  ASSUME NEW a \in Nat, NEW b \in Nat, NEW c \in Nat
  PROVE  /\ a * c \in Nat /\ (a + 1) * c = a * c + c
         /\ a <= b => a * c <= b * c
  OBVIOUS

\* Division with the remainder known.
LEMMA Division ==
  ASSUME NEW n \in Nat \ {0}, NEW q \in Nat, NEW r \in 0..n - 1, NEW x \in Nat, x = q * n + r
  PROVE  x \div n = q /\ x % n = r
<1> DEFINE d == x \div n
           m == x % n
<1>1. x \in Nat /\ d \in Int /\ m \in 0..n - 1 /\ x = n * d + m
  BY Products
<1> HIDE DEF d, m
<1>2. x = n * q + r
  OBVIOUS
<1>3. n * (d - q) = r - m
  BY <1>1, <1>2
<1>4. r - m < n /\ r - m > 0 - n
  BY <1>1
<1>5. ~(d - q >= 1)
  <2>1. d - q >= 1 => n * (d - q) >= n * 1
    BY <1>1
  <2> QED
    BY <1>1, <1>3, <1>4, <2>1
<1>6. ~(d - q <= 0 - 1)
  <2>1. d - q <= 0 - 1 => n * (d - q) <= n * (0 - 1)
    BY <1>1
  <2> QED
    BY <1>1, <1>3, <1>4, <2>1
<1>7. d = q
  BY <1>1, <1>5, <1>6
<1>8. m = r
  BY <1>1, <1>3, <1>7
<1> QED
  BY <1>7, <1>8 DEF d, m

\* A tick ends a period exactly when it is the last of its Duration ticks.
LEMMA TickCount ==
  ASSUME NEW q \in Nat, NEW k \in 0..Duration - 1
  PROVE  \A n \in Nat : n = q * PerPeriod + k * Rate + Rate =>
           /\ k + 1 < Duration => n = q * PerPeriod + (k + 1) * Rate /\ ~PeriodSent(n)
           /\ k + 1 = Duration => n = (q + 1) * PerPeriod + 0 * Rate /\ PeriodSent(n)
<1>1. /\ Rate \in Nat \ {0} /\ Duration \in Nat \ {0} /\ PerPeriod = Duration * Rate /\ k \in Nat
  <2>1. Rate * Duration = Duration * Rate
    BY Constants
  <2> QED
    BY <2>1, Constants
<1>2. PerPeriod \in Nat \ {0}
  BY Constants
<1> DEFINE r == (k + 1) * Rate
           nextQ == q + 1
<1>3. r \in Nat /\ r = k * Rate + Rate /\ k * Rate \in Nat
  BY <1>1, Products
<1>4. q * PerPeriod \in Nat /\ nextQ \in Nat /\ nextQ * PerPeriod = q * PerPeriod + PerPeriod
  BY <1>2, Products
<1>5. k + 1 < Duration => r \in 0..PerPeriod - 1 /\ r # 0
  <2> SUFFICES ASSUME k + 1 < Duration PROVE r \in 0..PerPeriod - 1 /\ r # 0
    OBVIOUS
  <2>1. k + 2 <= Duration /\ k + 1 \in Nat /\ k + 2 \in Nat /\ (k + 1) + 1 = k + 2
    BY <1>1
  <2>2. (k + 2) * Rate <= PerPeriod
    BY <1>1, <2>1, Products
  <2>3. r + Rate = (k + 2) * Rate
    BY <1>1, <2>1, Products
  <2> HIDE DEF r
  <2> QED
    BY <1>1, <1>2, <1>3, <2>2, <2>3
<1>6. k + 1 = Duration => r = PerPeriod
  BY <1>1
<1>7. 0 * Rate = 0
  BY <1>1
<1> HIDE DEF r, nextQ
<1>8. ASSUME k + 1 < Duration
      PROVE  \A n \in Nat : n = q * PerPeriod + r => ~PeriodSent(n)
  <2>1. r \in 0..PerPeriod - 1 /\ r # 0
    BY <1>5, <1>8
  <2>2. \A n \in Nat : n = q * PerPeriod + r => n % PerPeriod = r
    BY <1>2, <2>1, Division
  <2> QED
    BY <2>1, <2>2 DEF PeriodSent
<1>9. \A n \in Nat : n = nextQ * PerPeriod + 0 => PeriodSent(n)
  <2>1. 0 \in 0..PerPeriod - 1
    BY <1>2
  <2>2. \A n \in Nat : n = nextQ * PerPeriod + 0 => n % PerPeriod = 0
    BY <1>2, <1>4, <2>1, Division
  <2> QED
    BY <2>2 DEF PeriodSent
<1> SUFFICES ASSUME NEW n \in Nat, n = q * PerPeriod + k * Rate + Rate
             PROVE  /\ k + 1 < Duration => n = q * PerPeriod + r /\ ~PeriodSent(n)
                    /\ k + 1 = Duration => n = nextQ * PerPeriod + 0 /\ PeriodSent(n)
  BY <1>7 DEF r, nextQ
<1>10. n = q * PerPeriod + r
  BY <1>1, <1>3, <1>4
<1>11. k + 1 = Duration => n = nextQ * PerPeriod + 0
  BY <1>2, <1>4, <1>6, <1>10
<1> QED
  BY <1>8, <1>9, <1>10, <1>11

\* A long sleep holds the drift of all ticks of a period, and a reply after them.
LEMMA Slack ==
  ASSUME sleep \in Sleeps, Prompt, NEW k \in 0..Duration - 1
  PROVE  /\ (k + 1) * (Unit + MaxLag) + MaxReply < (Duration + sleep) * Unit
         /\ (k + 1) * (Unit + MaxLag) = k * (Unit + MaxLag) + Unit + MaxLag
         /\ k * (Unit + MaxLag) \in Nat /\ (Duration + sleep) * Unit \in Nat
<1>1. /\ Duration \in Nat \ {0} /\ Unit \in Nat \ {0} /\ MaxLag \in Nat /\ MaxReply \in Nat
      /\ sleep \in Nat /\ k \in Nat /\ k + 1 <= Duration
  BY Constants
<1>2. Duration * MaxLag + MaxReply < sleep * Unit
  BY DEF Prompt, LongSleeps
<1>3. (k + 1) * (Unit + MaxLag) <= Duration * (Unit + MaxLag)
  BY <1>1, Products
<1>4. Duration * (Unit + MaxLag) = Duration * Unit + Duration * MaxLag
  BY <1>1
<1>5. (Duration + sleep) * Unit = Duration * Unit + sleep * Unit
  BY <1>1
<1>6. /\ Duration * Unit \in Nat /\ Duration * MaxLag \in Nat /\ sleep * Unit \in Nat
      /\ k * (Unit + MaxLag) \in Nat /\ (k + 1) * (Unit + MaxLag) \in Nat
  BY <1>1, Products
<1>7. (k + 1) * (Unit + MaxLag) = k * (Unit + MaxLag) + (Unit + MaxLag)
  BY <1>1, Products
<1> QED
  BY <1>1, <1>2, <1>3, <1>4, <1>5, <1>6, <1>7

------------------------------------------------------------------------------
(***************************************************************************)
(* The invariant is inductive.                                             *)
(***************************************************************************)

\* What the invariant says of the types, in the forms the proofs use.
LEMMA Typed ==
  ASSUME Inv
  PROVE  /\ sleep \in Nat /\ sleep \in Sleeps /\ sent \in Nat
         /\ started \in Nat \ {0} /\ started <= Repeat + Extra
         /\ \A p \in DOMAIN due : due[p] \in Int /\ -MaxLag <= due[p] /\ due[p] <= Unit
         /\ DOMAIN due \subseteq 1..started /\ IsFiniteSet(DOMAIN due)
         /\ Cardinality(DOMAIN due) \in Nat
         /\ roundDue \in Int /\ (Duration + sleep) * Unit \in Nat
         /\ -MaxLag <= roundDue /\ roundDue <= (Duration + sleep) * Unit
         /\ \A t \in DOMAIN pending : t \in Nat /\ t <= sent /\ pending[t] \in Nat
                                      /\ pending[t] <= MaxReply
<1>1. TypeOK /\ TimersSound
  BY DEF Inv
<1>2. sleep \in Nat /\ sleep \in Sleeps /\ sent \in Nat
  BY <1>1, Constants DEF TypeOK
<1>3. started \in Nat \ {0} /\ started <= Repeat + Extra
  BY <1>1, Constants DEF TypeOK, Period
<1>4. IsFiniteSet(DOMAIN due) /\ Cardinality(DOMAIN due) \in Nat
  <2>1. IsFiniteSet(1..started)
    BY <1>3, FS_Interval
  <2> QED
    BY <1>1, <2>1, FS_Subset, FS_CardinalityType DEF TimersSound
<1>5. (Duration + sleep) * Unit \in Nat
  BY <1>2, Constants
<1>6. roundDue \in Int /\ -MaxLag <= roundDue /\ roundDue <= (Duration + sleep) * Unit
  BY <1>1, <1>5, Constants DEF TypeOK
<1>7. \A p \in DOMAIN due : due[p] \in Int /\ -MaxLag <= due[p] /\ due[p] <= Unit
  BY <1>1, Constants DEF TypeOK
<1>8. \A t \in DOMAIN pending : t \in Nat /\ t <= sent /\ pending[t] \in Nat
                                /\ pending[t] <= MaxReply
  BY <1>1, <1>2, Constants DEF TypeOK
<1> QED
  BY <1>1, <1>2, <1>3, <1>4, <1>5, <1>6, <1>7, <1>8 DEF TimersSound

\* One period has started when a thread begins.
LEMMA InitInv == Init => Inv
<1> SUFFICES ASSUME Init PROVE Inv
  OBVIOUS
<1>1. /\ sleep \in Nat /\ sleep \in Sleeps /\ (Duration + sleep) * Unit \in Nat
      /\ Unit \in Nat \ {0} /\ MaxLag \in Nat /\ Repeat \in Nat \ {0} /\ Extra \in Nat
      /\ Duration \in Nat \ {0}
  BY Constants DEF Init
<1>2. /\ sent = 0 /\ started = 1 /\ due = [p \in {1} |-> Unit]
      /\ roundDue = (Duration + sleep) * Unit /\ roundSet = TRUE
      /\ pending = << >> /\ log = {} /\ lost = {} /\ file = {}
  BY DEF Init
<1>3. DOMAIN pending = {} /\ DOMAIN due = {1} /\ due[1] = Unit
  BY <1>2
<1>4. TypeOK
  <2>1. started \in Period /\ DOMAIN due \subseteq Period
    BY <1>1, <1>2, <1>3 DEF Period
  <2>2. Unit \in -MaxLag..Unit /\ roundDue \in -MaxLag..(Duration + sleep) * Unit
    BY <1>1, <1>2
  <2> QED
    BY <1>1, <1>2, <1>3, <2>1, <2>2 DEF TypeOK
<1>5. TimersSound
  <2>1. pending = [t \in {} |-> pending[t]]
    BY <1>2
  <2> QED
    BY <1>2, <1>3, <2>1 DEF TimersSound
<1>6. RepliesSound /\ EndedSound
  BY <1>2, <1>3 DEF RepliesSound, EndedSound
<1>7. Progress(0, 0)
  <2>1. Cardinality(DOMAIN due) = 1
    BY <1>3, FS_Singleton
  <2>2. 0 * PerPeriod + 0 * Rate = 0
    BY Constants
  <2> QED
    BY <1>2, <2>1, <2>2 DEF Progress
<1>8. OnTime(0)
  <2>1. 0 * (Unit + MaxLag) = 0 /\ Elapsed = 0
    BY <1>1, <1>2 DEF Elapsed
  <2> QED
    BY <1>1, <1>2, <1>3, <2>1 DEF OnTime
<1>9. 0 \in 0..started /\ 0 \in 0..Duration - 1
  BY <1>1, <1>2
<1> QED
  BY <1>4, <1>5, <1>6, <1>7, <1>8, <1>9 DEF Inv

\* With a long sleep the round timer is not due while a period goes on or a reply is awaited,
\* and then the thread has sent what the periods started make.
LEMMA RoundTimerIsLate ==
  ASSUME Inv, Prompt, roundSet, roundDue <= 0
  PROVE  /\ DOMAIN due = {} /\ DOMAIN pending = {}
         /\ sent = started * PerPeriod /\ started <= Repeat
<1>1. PICK q \in 0..started, k \in 0..Duration - 1 : Progress(q, k) /\ OnTime(k)
  BY DEF Inv
<1>2. OnTime(k) /\ started <= Repeat
  BY <1>1 DEF OnTime
<1>3. DOMAIN pending = {}
  <2> SUFFICES ASSUME NEW t \in DOMAIN pending PROVE FALSE
    OBVIOUS
  <2>1. pending[t] \in Nat /\ pending[t] < roundDue /\ roundDue \in Int
    BY <1>2, Typed DEF OnTime
  <2> QED
    BY <2>1
<1>4. DOMAIN due = {}
  <2> SUFFICES ASSUME DOMAIN due # {} PROVE FALSE
    OBVIOUS
  <2>1. DOMAIN due = {started} /\ Elapsed <= k * (Unit + MaxLag) + Unit - due[started]
    BY <1>2 DEF OnTime
  <2>2. due[started] \in Int /\ -MaxLag <= due[started]
    BY <2>1, Typed
  <2>3. /\ (k + 1) * (Unit + MaxLag) + MaxReply < (Duration + sleep) * Unit
        /\ (k + 1) * (Unit + MaxLag) = k * (Unit + MaxLag) + Unit + MaxLag
        /\ k * (Unit + MaxLag) \in Nat /\ (Duration + sleep) * Unit \in Nat
    BY Slack, Typed
  <2>4. Unit \in Nat /\ MaxLag \in Nat /\ MaxReply \in Nat /\ roundDue \in Int
    BY Constants, Typed
  <2>5. Elapsed = (Duration + sleep) * Unit - roundDue
    BY DEF Elapsed
  <2> DEFINE total == (Duration + sleep) * Unit
             ticks == k * (Unit + MaxLag)
             more == (k + 1) * (Unit + MaxLag)
  <2>6. /\ total - roundDue <= ticks + Unit - due[started] /\ more + MaxReply < total
        /\ more = ticks + Unit + MaxLag /\ ticks \in Nat /\ total \in Nat
    BY <2>1, <2>3, <2>5
  <2> HIDE DEF total, ticks, more
  <2> QED
    BY <2>2, <2>4, <2>6
<1>5. sent = started * PerPeriod
  <2>1. Cardinality(DOMAIN due) = 0
    BY <1>4, FS_EmptySet
  <2>2. k = 0 /\ q = started
    BY <1>1, <1>2, <1>4, <2>1, Typed DEF OnTime, Progress
  <2>3. sent = started * PerPeriod + 0 * Rate /\ 0 * Rate = 0
    BY <1>1, <2>2, Constants DEF Progress
  <2>4. started * PerPeriod \in Nat
    BY Typed, Constants
  <2> QED
    BY <2>3, <2>4
<1> QED
  BY <1>2, <1>3, <1>4, <1>5

\* The timers, the awaited replies and the sum after a tick.
LEMMA TickTimers ==
  ASSUME Inv, NEW p \in Period, PeriodTick(p)
  PROVE  /\ p \in DOMAIN due /\ due[p] <= 0 /\ sent' = sent + Rate /\ sent' \in Nat
         /\ IF PeriodSent(sent')
            THEN /\ DOMAIN due' = DOMAIN due \ {p}
                 /\ Cardinality(DOMAIN due) = Cardinality(DOMAIN due') + 1
                 /\ Cardinality(DOMAIN due') \in Nat
            ELSE DOMAIN due' = DOMAIN due /\ due'[p] = Unit
         /\ \A o \in DOMAIN due' : due'[o] \in {due[o], Unit}
         /\ due' = [o \in DOMAIN due' |-> due'[o]]
         /\ pending' = [t \in DOMAIN pending' |-> pending'[t]]
         /\ DOMAIN pending' = DOMAIN pending \cup sent + 1..sent'
         /\ \A t \in DOMAIN pending' : pending'[t] = MaxReply \/
                                       (t \in DOMAIN pending /\ pending'[t] = pending[t])
         /\ UNCHANGED <<sleep, started, roundDue, roundSet, log, lost, file>>
<1>1. /\ p \in DOMAIN due /\ due[p] <= 0 /\ sent' = sent + Rate
      /\ pending' = [t \in DOMAIN pending \cup sent + 1..sent' |->
                       IF t > sent THEN MaxReply ELSE pending[t]]
      /\ due' = IF PeriodSent(sent') THEN [q \in DOMAIN due \ {p} |-> due[q]]
                ELSE [due EXCEPT ![p] = Unit]
      /\ UNCHANGED <<sleep, started, roundDue, roundSet, log, lost, file>>
  BY DEF PeriodTick
<1>2. /\ sent \in Nat /\ Rate \in Nat /\ IsFiniteSet(DOMAIN due)
      /\ due = [o \in DOMAIN due |-> due[o]]
  BY Typed, Constants DEF Inv, TimersSound
<1>3. sent' \in Nat
  BY <1>1, <1>2
<1>4. /\ pending' = [t \in DOMAIN pending' |-> pending'[t]]
      /\ DOMAIN pending' = DOMAIN pending \cup sent + 1..sent'
      /\ \A t \in DOMAIN pending' :
           pending'[t] = MaxReply \/ (t \in DOMAIN pending /\ pending'[t] = pending[t])
  <2>1. ASSUME NEW t \in sent + 1..sent' PROVE t > sent
    BY <1>2, <1>3
  <2> QED
    BY <1>1, <2>1
<1>5. CASE PeriodSent(sent')
  <2>1. due' = [o \in DOMAIN due \ {p} |-> due[o]]
    BY <1>1, <1>5
  <2>2. DOMAIN due' = DOMAIN due \ {p} /\ \A o \in DOMAIN due' : due'[o] = due[o]
    BY <2>1
  <2>3. /\ Cardinality(DOMAIN due \ {p}) = Cardinality(DOMAIN due) - 1
        /\ Cardinality(DOMAIN due) \in Nat /\ IsFiniteSet(DOMAIN due \ {p})
    BY <1>1, <1>2, FS_RemoveElement, FS_CardinalityType
  <2>4. Cardinality(DOMAIN due \ {p}) \in Nat
    BY <2>3, FS_CardinalityType
  <2>5. Cardinality(DOMAIN due) = Cardinality(DOMAIN due') + 1 /\ Cardinality(DOMAIN due') \in Nat
    BY <2>2, <2>3, <2>4
  <2>6. /\ due' = [o \in DOMAIN due' |-> due'[o]]
        /\ \A o \in DOMAIN due' : due'[o] \in {due[o], Unit}
    BY <2>1, <2>2
  <2> QED
    BY <1>1, <1>3, <1>4, <1>5, <2>2, <2>5, <2>6
<1>6. CASE ~PeriodSent(sent')
  <2>1. due' = [due EXCEPT ![p] = Unit]
    BY <1>1, <1>6
  <2>2. /\ DOMAIN due' = DOMAIN due /\ due'[p] = Unit
        /\ \A o \in DOMAIN due' : due'[o] \in {due[o], Unit}
        /\ due' = [o \in DOMAIN due' |-> due'[o]]
    BY <1>1, <1>2, <2>1
  <2> QED
    BY <1>1, <1>3, <1>4, <1>6, <2>2
<1> QED
  BY <1>5, <1>6

\* A tick is counted, and keeps the time as long as the timer is late by MaxLag at most.
LEMMA TickProgress ==
  ASSUME Inv, NEW p \in Period, PeriodTick(p)
  PROVE  \E q \in 0..started' : \E k \in 0..Duration - 1 : (Progress(q, k) /\ OnTime(k))'
<1>1. PICK q \in 0..started, k \in 0..Duration - 1 : Progress(q, k) /\ OnTime(k)
  BY DEF Inv
<1>2. /\ p \in DOMAIN due /\ due[p] <= 0 /\ sent' = sent + Rate /\ sent' \in Nat
      /\ IF PeriodSent(sent')
         THEN /\ DOMAIN due' = DOMAIN due \ {p}
              /\ Cardinality(DOMAIN due) = Cardinality(DOMAIN due') + 1
              /\ Cardinality(DOMAIN due') \in Nat
         ELSE DOMAIN due' = DOMAIN due /\ due'[p] = Unit
      /\ \A t \in DOMAIN pending' : pending'[t] = MaxReply \/
                                    (t \in DOMAIN pending /\ pending'[t] = pending[t])
      /\ UNCHANGED <<sleep, started, roundDue, roundSet, log, lost, file>>
  BY TickTimers
<1>3. q \in Nat /\ k \in Nat /\ started \in Nat /\ Duration \in Nat
  BY <1>1, Typed, Constants
<1>4. sent' = q * PerPeriod + k * Rate + Rate
  BY <1>1, <1>2 DEF Progress
<1>5. /\ k + 1 < Duration => sent' = q * PerPeriod + (k + 1) * Rate /\ ~PeriodSent(sent')
      /\ k + 1 = Duration => sent' = (q + 1) * PerPeriod + 0 * Rate /\ PeriodSent(sent')
  <2>1. \A n \in Nat : n = q * PerPeriod + k * Rate + Rate =>
          /\ k + 1 < Duration => n = q * PerPeriod + (k + 1) * Rate /\ ~PeriodSent(n)
          /\ k + 1 = Duration => n = (q + 1) * PerPeriod + 0 * Rate /\ PeriodSent(n)
    BY <1>3, TickCount
  <2> QED
    BY <1>2, <1>4, <2>1
<1>6. ASSUME Prompt, roundSet
      PROVE  /\ started <= Repeat /\ DOMAIN due = {p} /\ p = started
             /\ Elapsed' <= (k + 1) * (Unit + MaxLag) + Unit - Unit
             /\ \A t \in DOMAIN pending' : pending'[t] < roundDue'
  <2>1. /\ started <= Repeat /\ DOMAIN due = {started} /\ p = started
        /\ Elapsed <= k * (Unit + MaxLag) + Unit - due[started]
        /\ \A t \in DOMAIN pending : pending[t] < roundDue
    BY <1>1, <1>2, <1>6 DEF OnTime
  <2>2. /\ due[started] \in Int /\ -MaxLag <= due[started] /\ roundDue \in Int
        /\ Unit \in Nat /\ MaxLag \in Nat /\ MaxReply \in Nat
    BY <1>2, <2>1, Typed, Constants
  <2> DEFINE total == (Duration + sleep) * Unit
             ticks == k * (Unit + MaxLag)
             more == (k + 1) * (Unit + MaxLag)
  <2>3. /\ more + MaxReply < total /\ more = ticks + Unit + MaxLag
        /\ ticks \in Nat /\ total \in Nat
    BY <1>6, Slack, Typed
  <2>4. Elapsed' = total - roundDue /\ Elapsed = total - roundDue
    BY <1>2 DEF Elapsed
  <2>5. Elapsed <= ticks + Unit - due[started]
    BY <2>1
  <2> HIDE DEF total, ticks, more
  <2>6. Elapsed' <= more + Unit - Unit
    BY <2>2, <2>3, <2>4, <2>5
  <2>7. MaxReply < roundDue
    BY <2>2, <2>3, <2>4, <2>6
  <2> QED
    BY <1>2, <2>1, <2>6, <2>7 DEF more
<1>7. (Prompt /\ roundSet)' = (Prompt /\ roundSet)
  BY <1>2 DEF Prompt
<1>8. CASE k + 1 < Duration
  <2>1. Progress(q, k + 1)'
    BY <1>1, <1>2, <1>5, <1>8 DEF Progress, PerPeriod
  <2>2. OnTime(k + 1)'
    BY <1>2, <1>5, <1>6, <1>7, <1>8 DEF OnTime
  <2>3. k + 1 \in 0..Duration - 1 /\ q \in 0..started'
    BY <1>1, <1>2, <1>3, <1>8
  <2> QED
    BY <2>1, <2>2, <2>3
<1>9. CASE k + 1 = Duration
  <2>1. started' = q + 1 + Cardinality(DOMAIN due')
    BY <1>1, <1>2, <1>3, <1>5, <1>9 DEF Progress
  <2>2. Progress(q + 1, 0)'
    BY <1>5, <1>9, <2>1 DEF Progress, PerPeriod
  <2>3. OnTime(0)'
    BY <1>2, <1>5, <1>6, <1>7, <1>9 DEF OnTime
  <2>4. 0 \in 0..Duration - 1 /\ q + 1 \in 0..started'
    BY <1>2, <1>3, <1>5, <1>9, <2>1
  <2> QED
    BY <2>2, <2>3, <2>4
<1> QED
  BY <1>3, <1>8, <1>9

\* A tick of a period timer.
LEMMA PeriodTickKeeps ==
  ASSUME Inv, NEW p \in Period, PeriodTick(p)
  PROVE  Inv'
<1>1. /\ p \in DOMAIN due /\ sent' = sent + Rate /\ sent' \in Nat
      /\ DOMAIN due' \subseteq DOMAIN due
      /\ \A o \in DOMAIN due' : due'[o] \in {due[o], Unit}
      /\ due' = [o \in DOMAIN due' |-> due'[o]]
      /\ pending' = [t \in DOMAIN pending' |-> pending'[t]]
      /\ DOMAIN pending' = DOMAIN pending \cup sent + 1..sent'
      /\ \A t \in DOMAIN pending' :
           pending'[t] = MaxReply \/ (t \in DOMAIN pending /\ pending'[t] = pending[t])
      /\ UNCHANGED <<sleep, started, roundDue, roundSet, log, lost, file>>
  BY TickTimers
<1>2. sent \in Nat /\ Rate \in Nat /\ MaxReply \in Nat /\ Unit \in Nat /\ MaxLag \in Nat
  BY Typed, Constants
<1>3. 1..sent' = 1..sent \cup sent + 1..sent' /\ 1..sent \cap sent + 1..sent' = {}
      /\ 1..sent \subseteq 1..sent'
  BY <1>1, <1>2
<1>4. TypeOK'
  <2>1. \A o \in DOMAIN due' : due'[o] \in -MaxLag..Unit
    <3>1. Unit \in -MaxLag..Unit
      BY <1>2
    <3> QED
      BY <1>1, <3>1 DEF Inv, TypeOK
  <2>2. DOMAIN pending' \subseteq 1..sent'
    BY <1>1, <1>3 DEF Inv, TypeOK
  <2>3. \A t \in DOMAIN pending' : pending'[t] \in 0..MaxReply
    <3>1. MaxReply \in 0..MaxReply
      BY <1>2
    <3> QED
      BY <1>1, <3>1 DEF Inv, TypeOK
  <2> QED
    BY <1>1, <1>3, <2>1, <2>2, <2>3 DEF Inv, TypeOK
<1>5. TimersSound'
  BY <1>1 DEF Inv, TimersSound
<1>6. RepliesSound'
  <2>1. log \cup lost \subseteq 1..sent
    BY DEF Inv, TypeOK
  <2> QED
    BY <1>1, <1>3, <2>1 DEF Inv, RepliesSound
<1>7. EndedSound'
  <2>1. Prompt' = Prompt
    BY <1>1 DEF Prompt
  <2> QED
    BY <1>1, <2>1 DEF Inv, EndedSound
<1> QED
  BY <1>4, <1>5, <1>6, <1>7, TickProgress DEF Inv

\* A period is started: with a long sleep only when the one before it is over and the total is
\* not reached.
LEMMA StartPeriodKeeps == Inv /\ StartPeriod => Inv'
<1> SUFFICES ASSUME Inv, StartPeriod PROVE Inv'
  OBVIOUS
<1>1. /\ roundSet /\ roundDue <= 0 /\ sent # PerRound
      /\ started' = started + 1 /\ started + 1 \in Period
      /\ due' = [p \in DOMAIN due \cup {started'} |-> IF p = started' THEN Unit ELSE due[p]]
      /\ roundDue' = (Duration + sleep) * Unit
      /\ UNCHANGED <<sleep, sent, roundSet, pending, log, lost, file>>
  BY DEF StartPeriod, RoundSent
<1>2. /\ started \in Nat \ {0} /\ DOMAIN due \subseteq 1..started /\ IsFiniteSet(DOMAIN due)
      /\ Cardinality(DOMAIN due) \in Nat /\ (Duration + sleep) * Unit \in Nat
      /\ Unit \in Nat /\ MaxLag \in Nat /\ Duration \in Nat \ {0}
  BY Typed, Constants
<1>3. /\ DOMAIN due' = DOMAIN due \cup {started + 1}
      /\ \A p \in DOMAIN due' : due'[p] = IF p = started + 1 THEN Unit ELSE due[p]
      /\ due' = [p \in DOMAIN due' |-> due'[p]]
  BY <1>1
<1>4. Cardinality(DOMAIN due') = Cardinality(DOMAIN due) + 1
  <2>1. started + 1 \notin DOMAIN due
    BY <1>2
  <2> QED
    BY <1>2, <1>3, <2>1, FS_AddElement
<1>5. TypeOK'
  <2>1. DOMAIN due' \subseteq Period
    BY <1>1, <1>3 DEF Inv, TypeOK
  <2>2. \A p \in DOMAIN due' : due'[p] \in -MaxLag..Unit
    <3>1. Unit \in -MaxLag..Unit
      BY <1>2
    <3> QED
      BY <1>3, <3>1 DEF Inv, TypeOK
  <2>3. roundDue' \in -MaxLag..(Duration + sleep) * Unit
    BY <1>1, <1>2
  <2> QED
    BY <1>1, <2>1, <2>2, <2>3 DEF Inv, TypeOK
<1>6. TimersSound'
  <2>1. 1..started \cup {started + 1} \subseteq 1..started + 1
    BY <1>2
  <2> QED
    BY <1>1, <1>2, <1>3, <2>1 DEF Inv, TimersSound
<1>7. RepliesSound' /\ EndedSound'
  BY <1>1 DEF Inv, RepliesSound, EndedSound
<1>8. PICK q \in 0..started, k \in 0..Duration - 1 : Progress(q, k) /\ OnTime(k)
  BY DEF Inv
<1>9. Progress(q, k)'
  BY <1>1, <1>2, <1>4, <1>8 DEF Progress, PerPeriod
<1>10. OnTime(k)'
  <2> SUFFICES ASSUME Prompt
               PROVE  /\ started' <= Repeat
                      /\ DOMAIN due' = {started'}
                      /\ Elapsed' <= k * (Unit + MaxLag) + Unit - due'[started']
                      /\ DOMAIN pending' = {}
    BY <1>1 DEF OnTime, Prompt
  <2>1. /\ DOMAIN due = {} /\ DOMAIN pending = {}
        /\ sent = started * PerPeriod /\ started <= Repeat
    BY <1>1, RoundTimerIsLate
  <2>2. started # Repeat
    BY <1>1, <2>1, Constants
  <2>3. started' <= Repeat
    BY <1>1, <1>2, <2>1, <2>2, Constants
  <2>4. k = 0
    BY <1>1, <1>8, <2>1 DEF OnTime
  <2>5. Elapsed' = 0
    <3>1. Elapsed' = (Duration + sleep) * Unit - (Duration + sleep) * Unit
      BY <1>1 DEF Elapsed
    <3> QED
      BY <1>2, <3>1
  <2>6. due'[started'] = Unit /\ DOMAIN due' = {started'}
    BY <1>1, <1>3, <2>1
  <2>7. k * (Unit + MaxLag) = 0
    BY <1>2, <2>4
  <2> QED
    BY <1>1, <1>2, <2>1, <2>3, <2>5, <2>6, <2>7
<1>11. q \in 0..started'
  BY <1>1, <1>2
<1> QED
  BY <1>5, <1>6, <1>7, <1>9, <1>10, <1>11 DEF Inv

\* The round timer finds the total and writes the log: with a long sleep nothing is left to do.
LEMMA EndRoundKeeps == Inv /\ EndRound => Inv'
<1> SUFFICES ASSUME Inv, EndRound PROVE Inv'
  OBVIOUS
<1>1. /\ roundSet /\ roundDue <= 0 /\ sent = PerRound /\ file' = log /\ roundSet' = FALSE
      /\ UNCHANGED <<sleep, sent, started, due, roundDue, pending, log, lost>>
  BY DEF EndRound, RoundSent, LogContents
<1>2. TypeOK' /\ TimersSound' /\ RepliesSound'
  BY <1>1 DEF Inv, TypeOK, TimersSound, RepliesSound
<1>3. EndedSound'
  <2>1. CASE Prompt
    BY <1>1, <2>1, RoundTimerIsLate DEF EndedSound, PerRound
  <2>2. CASE ~Prompt
    BY <1>1, <2>2 DEF EndedSound, Prompt
  <2> QED
    BY <2>1, <2>2
<1>4. PICK q \in 0..started, k \in 0..Duration - 1 : Progress(q, k)
  BY DEF Inv
<1>5. Progress(q, k)' /\ OnTime(k)'
  BY <1>1, <1>4 DEF Progress, OnTime, PerPeriod
<1> QED
  BY <1>1, <1>2, <1>3, <1>4, <1>5 DEF Inv

\* A transaction is answered, or its request fails: it is not awaited any more.
LEMMA ReplyKeeps ==
  ASSUME Inv, NEW t \in Tx, Reply(t) \/ ReplyFails(t)
  PROVE  Inv'
<1>1. /\ t \in DOMAIN pending
      /\ pending' = [u \in DOMAIN pending \ {t} |-> pending[u]]
      /\ UNCHANGED <<sleep, sent, started, due, roundDue, roundSet, file>>
      /\ \/ log' = log \cup {t} /\ lost' = lost
         \/ lost' = lost \cup {t} /\ log' = log
  BY DEF Reply, ReplyFails
<1>2. /\ DOMAIN pending' = DOMAIN pending \ {t}
      /\ \A u \in DOMAIN pending' : pending'[u] = pending[u]
      /\ pending' = [u \in DOMAIN pending' |-> pending'[u]]
  BY <1>1
<1>3. TypeOK'
  BY <1>1, <1>2 DEF Inv, TypeOK
<1>4. TimersSound'
  BY <1>1, <1>2 DEF Inv, TimersSound
<1>5. RepliesSound'
  BY <1>1, <1>2 DEF Inv, RepliesSound
<1>6. EndedSound'
  BY <1>1 DEF Inv, EndedSound, Prompt
<1>7. PICK q \in 0..started, k \in 0..Duration - 1 : Progress(q, k) /\ OnTime(k)
  BY DEF Inv
<1>8. Progress(q, k)' /\ OnTime(k)'
  <2>1. Elapsed' = Elapsed /\ Prompt' = Prompt
    BY <1>1 DEF Elapsed, Prompt
  <2> QED
    BY <1>1, <1>2, <1>7, <2>1 DEF Progress, OnTime, PerPeriod
<1> QED
  BY <1>1, <1>3, <1>4, <1>5, <1>6, <1>8 DEF Inv

\* Time passes for all timers alike.
LEMMA ElapseKeeps == Inv /\ Elapse => Inv'
<1> SUFFICES ASSUME Inv, Elapse PROVE Inv'
  OBVIOUS
<1>1. /\ \A p \in DOMAIN due : due[p] > -MaxLag
      /\ roundSet => roundDue > -MaxLag
      /\ \A t \in DOMAIN pending : pending[t] > 0
      /\ due' = [p \in DOMAIN due |-> due[p] - 1]
      /\ roundDue' = IF roundSet THEN roundDue - 1 ELSE roundDue
      /\ pending' = [t \in DOMAIN pending |-> pending[t] - 1]
      /\ UNCHANGED <<sleep, sent, started, roundSet, log, lost, file>>
  BY DEF Elapse
<1>2. /\ DOMAIN due' = DOMAIN due /\ \A p \in DOMAIN due : due'[p] = due[p] - 1
      /\ DOMAIN pending' = DOMAIN pending
      /\ \A t \in DOMAIN pending : pending'[t] = pending[t] - 1
      /\ due' = [p \in DOMAIN due' |-> due'[p]]
      /\ pending' = [t \in DOMAIN pending' |-> pending'[t]]
  BY <1>1
<1>3. /\ \A p \in DOMAIN due : due[p] \in Int /\ -MaxLag <= due[p] /\ due[p] <= Unit
      /\ roundDue \in Int /\ (Duration + sleep) * Unit \in Nat
      /\ -MaxLag <= roundDue /\ roundDue <= (Duration + sleep) * Unit
      /\ \A t \in DOMAIN pending : pending[t] \in Nat /\ pending[t] <= MaxReply
      /\ started \in Nat
  BY Typed
<1>4. Unit \in Nat /\ MaxLag \in Nat /\ MaxReply \in Nat
  BY Constants
<1>5. TypeOK'
  <2>1. \A p \in DOMAIN due' : due'[p] \in -MaxLag..Unit
    BY <1>1, <1>2, <1>3, <1>4
  <2>2. roundDue' \in -MaxLag..(Duration + sleep) * Unit
    <3> DEFINE total == (Duration + sleep) * Unit
    <3>1. total \in Nat /\ roundDue <= total
      BY <1>3
    <3> HIDE DEF total
    <3>2. roundDue' \in -MaxLag..total
      BY <1>1, <1>3, <1>4, <3>1
    <3> QED
      BY <3>2 DEF total
  <2>3. \A t \in DOMAIN pending' : pending'[t] \in 0..MaxReply
    BY <1>1, <1>2, <1>3, <1>4
  <2> QED
    BY <1>1, <1>2, <2>1, <2>2, <2>3 DEF Inv, TypeOK
<1>6. TimersSound' /\ RepliesSound' /\ EndedSound'
  BY <1>1, <1>2 DEF Inv, TimersSound, RepliesSound, EndedSound, Prompt
<1>7. PICK q \in 0..started, k \in 0..Duration - 1 : Progress(q, k) /\ OnTime(k)
  BY DEF Inv
<1>8. Progress(q, k)'
  BY <1>1, <1>2, <1>7 DEF Progress, PerPeriod
<1>9. OnTime(k)'
  <2> SUFFICES ASSUME Prompt, roundSet
               PROVE  /\ started <= Repeat
                      /\ IF DOMAIN due = {} THEN k = 0
                         ELSE /\ DOMAIN due = {started}
                              /\ Elapsed' <= k * (Unit + MaxLag) + Unit - due'[started]
                      /\ \A t \in DOMAIN pending : pending'[t] < roundDue'
    BY <1>1, <1>2 DEF OnTime, Prompt
  <2>1. /\ started <= Repeat
        /\ IF DOMAIN due = {} THEN k = 0
           ELSE DOMAIN due = {started} /\ Elapsed <= k * (Unit + MaxLag) + Unit - due[started]
        /\ \A t \in DOMAIN pending : pending[t] < roundDue
    BY <1>7 DEF OnTime
  <2>2. \A t \in DOMAIN pending : pending'[t] < roundDue'
    BY <1>1, <1>2, <1>3, <2>1
  <2>3. ASSUME DOMAIN due # {}
        PROVE  Elapsed' <= k * (Unit + MaxLag) + Unit - due'[started]
    <3> DEFINE total == (Duration + sleep) * Unit
               ticks == k * (Unit + MaxLag)
    <3>1. /\ started \in DOMAIN due /\ total \in Nat /\ ticks \in Nat
          /\ due[started] \in Int /\ due'[started] = due[started] - 1
      BY <1>2, <1>3, <1>4, <2>1, <2>3
    <3>2. total - roundDue <= ticks + Unit - due[started]
      BY <2>1, <2>3 DEF Elapsed
    <3>3. Elapsed' = total - (roundDue - 1)
      BY <1>1 DEF Elapsed
    <3> HIDE DEF total, ticks
    <3>4. Elapsed' <= ticks + Unit - due'[started]
      BY <1>3, <1>4, <3>1, <3>2, <3>3
    <3> QED
      BY <3>4 DEF ticks
  <2> QED
    BY <2>1, <2>2, <2>3
<1> QED
  BY <1>1, <1>5, <1>6, <1>8, <1>9 DEF Inv

\* Nothing happens.
LEMMA StutterKeeps == Inv /\ UNCHANGED vars => Inv'
  BY DEF vars, Inv, TypeOK, TimersSound, RepliesSound, EndedSound, Progress, OnTime, Elapsed,
         Prompt, PerPeriod, PerRound

\* The invariant holds throughout the round.
LEMMA Invariant == Spec => []Inv
<1>1. Inv /\ [Next]_vars => Inv'
  BY PeriodTickKeeps, StartPeriodKeeps, EndRoundKeeps, ReplyKeeps, ElapseKeeps, StutterKeeps
  DEF Next
<1> QED
  BY <1>1, InitInv, PTL DEF Spec

------------------------------------------------------------------------------
(***************************************************************************)
(* The theorems.                                                           *)
(***************************************************************************)

\* Every state of a thread is well typed (workload.js:9-52).
THEOREM TypeCorrect == Spec => []TypeOK
<1>1. Inv => TypeOK
  BY DEF Inv
<1> QED
  BY <1>1, Invariant, PTL

\* Every multiple of a period's transactions clears exactly one timer, however the timers
\* overlap (workload.js:28-31).
THEOREM PeriodsAreAccounted == Spec => []PeriodAccounting
<1>1. Inv => PeriodAccounting
  <2> SUFFICES ASSUME Inv PROVE PeriodAccounting
    OBVIOUS
  <2>1. PICK q \in 0..started, k \in 0..Duration - 1 : Progress(q, k)
    BY DEF Inv
  <2>2. /\ q \in Nat /\ k \in Nat /\ k + 1 <= Duration /\ sent \in Nat /\ PerPeriod \in Nat \ {0}
        /\ Rate \in Nat \ {0} /\ Duration \in Nat
    BY Typed, Constants
  <2> DEFINE r == k * Rate
  <2>3. r \in 0..PerPeriod - 1
    <3>1. r \in Nat /\ (k + 1) * Rate = r + Rate /\ (k + 1) * Rate <= Duration * Rate
      BY <2>2, Products
    <3>2. PerPeriod = Duration * Rate
      <4>1. Rate * Duration = Duration * Rate
        BY <2>2
      <4> QED
        BY <4>1, Constants
    <3> HIDE DEF r
    <3> QED
      BY <2>2, <3>1, <3>2
  <2>4. sent = q * PerPeriod + r /\ started = q + Cardinality(DOMAIN due)
    BY <2>1 DEF Progress
  <2> HIDE DEF r
  <2>5. sent \div PerPeriod = q
    BY <2>2, <2>3, <2>4, Division
  <2> QED
    BY <2>4, <2>5 DEF PeriodAccounting
<1> QED
  BY <1>1, Invariant, PTL

\* Where drift and replies fit in the sleep, one period at a time is sent, never more than the
\* total, and when the round is over exactly the total has been sent and the log has every
\* transaction whose request succeeded (workload.js:28-31, 39-46).
THEOREM LoadIsExact == Spec => []ExactLoad
<1>1. Inv => ExactLoad
  <2> SUFFICES ASSUME Inv, Prompt
               PROVE  /\ Cardinality(DOMAIN due) <= 1
                      /\ sent <= PerRound
                      /\ ~roundSet =>
                           sent = PerRound /\ DOMAIN due = {} /\ file = 1..PerRound \ lost
    BY DEF ExactLoad
  <2>1. CASE ~roundSet
    <3>1. DOMAIN due = {} /\ DOMAIN pending = {} /\ sent = PerRound /\ file = log
      BY <2>1 DEF Inv, EndedSound
    <3>2. file = 1..PerRound \ lost
      BY <3>1 DEF Inv, RepliesSound
    <3>3. Cardinality(DOMAIN due) <= 1
      BY <3>1, FS_EmptySet
    <3>4. sent <= PerRound
      BY <3>1, Constants
    <3> QED
      BY <3>1, <3>2, <3>3, <3>4
  <2>2. CASE roundSet
    <3>1. PICK q \in 0..started, k \in 0..Duration - 1 : Progress(q, k) /\ OnTime(k)
      BY DEF Inv
    <3>2. /\ sent = q * PerPeriod + k * Rate /\ started = q + Cardinality(DOMAIN due)
          /\ started <= Repeat /\ ((DOMAIN due = {} /\ k = 0) \/ DOMAIN due = {started})
      BY <2>2, <3>1 DEF Progress, OnTime
    <3>3. /\ q \in Nat /\ k \in Nat /\ k + 1 <= Duration /\ started \in Nat
          /\ Rate \in Nat /\ PerPeriod \in Nat /\ Repeat \in Nat /\ PerRound = Repeat * PerPeriod
          /\ PerPeriod = Duration * Rate
      <4>1. Rate * Duration = Duration * Rate
        BY Constants
      <4> QED
        BY <4>1, Typed, Constants
    <3>4. CASE DOMAIN due = {} /\ k = 0
      <4>1. Cardinality(DOMAIN due) = 0
        BY <3>4, FS_EmptySet
      <4>2. q = started
        BY <3>2, <3>3, <4>1
      <4>3. q * PerPeriod <= Repeat * PerPeriod /\ q * PerPeriod \in Nat
        BY <3>2, <3>3, <4>2, Products
      <4>4. k * Rate = 0
        BY <3>3, <3>4
      <4>5. sent <= PerRound
        <5> DEFINE P == q * PerPeriod
                   R == k * Rate
                   T == Repeat * PerPeriod
        <5>1. sent = P + R /\ P <= T /\ P \in Nat /\ R = 0 /\ PerRound = T
          BY <3>2, <3>3, <4>3, <4>4
        <5> HIDE DEF P, R, T
        <5> QED
          BY <5>1
      <4> QED
        BY <2>2, <4>1, <4>5
    <3>5. CASE DOMAIN due = {started}
      <4>1. Cardinality(DOMAIN due) = 1
        BY <3>5, FS_Singleton
      <4>2. q + 1 = started
        BY <3>2, <3>3, <4>1
      <4>3. (q + 1) * PerPeriod <= Repeat * PerPeriod
        BY <3>2, <3>3, <4>2, Products
      <4>4. (q + 1) * PerPeriod = q * PerPeriod + PerPeriod /\ q * PerPeriod \in Nat
        BY <3>3, Products
      <4>5. k * Rate <= PerPeriod /\ k * Rate \in Nat
        <5>1. k <= Duration /\ Duration \in Nat
          BY <3>3, Constants
        <5> QED
          BY <3>3, <5>1, Products
      <4>6. sent <= PerRound
        <5> DEFINE P == q * PerPeriod
                   Q == (q + 1) * PerPeriod
                   R == k * Rate
                   T == Repeat * PerPeriod
        <5>1. /\ sent = P + R /\ Q <= T /\ Q = P + PerPeriod /\ P \in Nat
              /\ R <= PerPeriod /\ R \in Nat /\ PerRound = T /\ PerPeriod \in Nat
          BY <3>2, <3>3, <4>3, <4>4, <4>5
        <5>2. T \in Nat
          BY <3>3, Products
        <5> HIDE DEF P, Q, R, T
        <5> QED
          BY <5>1, <5>2
      <4> QED
        BY <2>2, <4>1, <4>6
    <3> QED
      BY <3>2, <3>4, <3>5
  <2> QED
    BY <2>1, <2>2
<1> QED
  BY <1>1, Invariant, PTL

==============================================================================
