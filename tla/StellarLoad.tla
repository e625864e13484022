------------------------------ MODULE StellarLoad ------------------------------
(***************************************************************************)
(* What a Stellar round has to send: src/stellar/code/createAccount.js     *)
(* makes the accounts and, after a pause, each thread of workload.js pays  *)
(* once from every account of its slice (oneRoundTesting.sh).              *)
(*                                                                         *)
(* Accounts are created in three levels.  The root account creates the     *)
(* first keys of the key store, in one transaction, and the destination;   *)
(* each of those creates its share of the other keys; and the first keys   *)
(* of the store then create the test accounts, a batch of transactions at  *)
(* a time.  A level begins when every request of the one before it is      *)
(* answered - but a request that failed, or whose answer timed out while   *)
(* its transaction was still to be applied, counts as answered.  A signer  *)
(* then uses the sequence number of that transaction again, and only one   *)
(* of the two is applied.                                                  *)
(*                                                                         *)
(* The number of payments that reach the chain is what StellarMonitor      *)
(* calls Supply, and RATE * DURATION is its Target.                        *)
(***************************************************************************)
EXTENDS Integers, FiniteSets

CONSTANTS
  StartAccount,  \* option.startAccont, 10
  OpCount,       \* option.operation_count, 100: accounts made by one transaction
  BatchSize,     \* batch_size, 250
  Calls,         \* calls of createAccount, 1
  Rates,         \* rates considered
  ThreadNum,     \* THREAD_NUM, 4
  Duration,      \* DURATION_TIME
  MaxFaults      \* bound on the requests that are lost or time out

Sources == StartAccount * OpCount     \* source_account_num
PerCall == Sources * OpCount          \* test accounts made by a call

ASSUME LoadAssumption ==
  /\ {StartAccount, OpCount, BatchSize, Calls, ThreadNum, Duration} \subseteq Nat \ {0}
  /\ Rates \subseteq Nat \ {0} /\ MaxFaults \in Nat
  /\ Sources % BatchSize = 0   \* as in the code: the batches use the first Sources keys

VARIABLES
  rate,      \* inputRate
  stage,     \* the level, or the batch of a level, that is under way
  awaited,   \* the requests whose answer createAccount.js waits for
  pending,   \* the requests that are neither applied nor lost
  keys,      \* the accounts of the key store that exist, by their index
  dest,      \* does the destination exist?
  accounts,  \* the test accounts that exist, by their index
  faulty,    \* the requests that were lost or timed out
  finished,  \* the threads that have sent their load
  paid       \* the test accounts whose payment reaches the chain

createVars == <<stage, awaited, pending, keys, dest, accounts, faulty>>
loadVars == <<rate, createVars, finished, paid>>

KeyStore == 0..StartAccount + Sources - 1
TestAccount == 0..Calls * PerCall - 1
Thread == 1..ThreadNum

------------------------------------------------------------------------------
(***************************************************************************)
(* The requests: what a transaction needs and what it makes.               *)
(***************************************************************************)
Root == [level |-> "root", index |-> 0]
Destination == [level |-> "destination", index |-> 0]
Second(i) == [level |-> "second", index |-> i]
Test(i) == [level |-> "test", index |-> i]   \* i counts through all calls

\* The keys made from start account i.
SecondKeys(i) == StartAccount + i * OpCount .. StartAccount + (i + 1) * OpCount - 1

\* The test accounts made by the i-th request of the third level.
TestAccounts(i) == i * OpCount .. (i + 1) * OpCount - 1

\* The key of the store that signs a request, or the root account.
RootAccount == -1

Signer(r) ==
  CASE r.level \in {"root", "destination"} -> RootAccount
    [] r.level = "second"                  -> r.index
    [] r.level = "test"                    -> r.index % Sources

CanSign(r) == Signer(r) \in keys \cup {RootAccount}

\* Batch b of the third level.
Batch(b) == {Test(i) : i \in b * BatchSize .. (b + 1) * BatchSize - 1}

Batches == Calls * (Sources \div BatchSize)

\* Mutant: the third level does not wait for the second.
RequestsTogether(s) ==
  CASE s = 1 -> {Root}
    [] s = 2 -> {Destination}
    [] s = 3 -> {Second(i) : i \in 0..StartAccount - 1} \cup Batch(0)
    [] s > 3 -> Batch(s - 4)

\* The requests that are sent together.
Requests(s) ==
  CASE s = 1 -> {Root}
    [] s = 2 -> {Destination}
    [] s = 3 -> {Second(i) : i \in 0..StartAccount - 1}
    [] s > 3 -> Batch(s - 4)

LastStage == 3 + Batches

Created == stage = LastStage /\ awaited = {}

------------------------------------------------------------------------------
LoadInit ==
  /\ rate \in Rates
  /\ stage = 1 /\ awaited = Requests(1) /\ pending = Requests(1)
  /\ keys = {} /\ dest = FALSE /\ accounts = {}
  /\ faulty = {}
  /\ finished = {} /\ paid = {}

\* Every request is answered: the next ones are sent.
NextStage ==
  /\ awaited = {} /\ stage < LastStage
  /\ stage' = stage + 1
  /\ awaited' = Requests(stage + 1)
  /\ pending' = pending \cup Requests(stage + 1)
  /\ UNCHANGED <<rate, keys, dest, accounts, faulty, finished, paid>>

\* The network decides a request: it makes its accounts if its signer exists, and fails
\* without a trace if not.  Another pending transaction of the signer has the same sequence
\* number and fails, unless its request has yet to read the number.
Apply(r) ==
  LET rivals == {q \in pending \ {r} : Signer(q) = Signer(r)}
  IN  /\ r \in pending
      /\ \E failed \in IF CanSign(r) THEN SUBSET rivals ELSE {{}} :
           /\ CanSign(r) => rivals \ awaited \subseteq failed
           /\ pending' = pending \ ({r} \cup failed)
           /\ awaited' = awaited \ ({r} \cup failed)
      /\ keys' = keys \cup CASE r.level = "root"   -> 0..StartAccount - 1
                             [] r.level = "second" -> IF CanSign(r) THEN SecondKeys(r.index) ELSE {}
                             [] OTHER              -> {}
      /\ dest' = (dest \/ r.level = "destination")
      /\ accounts' = accounts \cup
                       IF r.level = "test" /\ CanSign(r) THEN TestAccounts(r.index) ELSE {}
      /\ UNCHANGED <<rate, stage, faulty, finished, paid>>

\* A request comes to nothing: createAccount resolves the error.
Lose(r) ==
  /\ r \in pending \cap awaited
  /\ Cardinality(faulty) < MaxFaults
  /\ faulty' = faulty \cup {r}
  /\ pending' = pending \ {r} /\ awaited' = awaited \ {r}
  /\ UNCHANGED <<rate, stage, keys, dest, accounts, finished, paid>>

\* Horizon gives up waiting for a transaction that was submitted: this error is resolved too.
TimesOut(r) ==
  /\ r \in pending \cap awaited /\ CanSign(r)
  /\ Cardinality(faulty) < MaxFaults
  /\ faulty' = faulty \cup {r}
  /\ awaited' = awaited \ {r}
  /\ UNCHANGED <<rate, stage, pending, keys, dest, accounts, finished, paid>>

------------------------------------------------------------------------------
(***************************************************************************)
(* The threads of the workload.                                            *)
(***************************************************************************)
Share == (rate \div ThreadNum) * Duration   \* ONE_PERIOD, and max_txs_in_round with REPEAT = 1

\* Mutant: the slice is reset for every thread, as in the Quorum script.
SliceReset(t) == 0 .. Share - 1

\* The test accounts thread t pays from, as far as there are keys.
Slice(t) == (t - 1) * Share .. t * Share - 1

\* The payments of thread t that reach the chain.  One whose account, or whose destination,
\* does not exist is resolved as an error; and beyond the last key there is nothing to sign with.
Payments(t) == IF dest THEN Slice(t) \cap accounts ELSE {}

SendLoad(t) ==
  /\ Created /\ t \notin finished
  /\ finished' = finished \cup {t}
  /\ paid' = paid \cup Payments(t)
  /\ UNCHANGED <<rate, createVars>>

LoadNext ==
  \/ NextStage
  \/ \E r \in pending : Apply(r) \/ Lose(r) \/ TimesOut(r)
  \/ \E t \in Thread : SendLoad(t)

LoadSpec == LoadInit /\ [][LoadNext]_loadVars

------------------------------------------------------------------------------
(***************************************************************************)
(* Properties.                                                             *)
(***************************************************************************)
Request == {Root, Destination} \cup {Second(i) : i \in 0..StartAccount - 1}
             \cup {Test(i) : i \in 0..Calls * Sources - 1}

LoadTypeOK ==
  /\ rate \in Rates /\ stage \in 1..LastStage
  /\ pending \subseteq Request /\ awaited \subseteq pending
  /\ keys \subseteq KeyStore /\ dest \in BOOLEAN /\ accounts \subseteq TestAccount
  /\ faulty \subseteq Request
  /\ finished \subseteq Thread /\ paid \subseteq accounts

\* The request that makes key k of the store, and the one that makes test account a.
MakerOfKey(k) == IF k < StartAccount THEN Root ELSE Second((k - StartAccount) \div OpCount)

MakerOfAccount(a) == Test(a \div OpCount)

\* When all answers are in, a test account is missing only if something went wrong with a
\* request of its source, of the account that made the source, or of the root account: levels
\* and batches leave no account out and use no source before it is there.  It need not be the
\* request that makes the account: a source whose earlier transaction is late loses one of the
\* two (createAccount.js:16-32, 34-48; sdk.js:28-39).
LossIsContained ==
  Created =>
    \A a \in TestAccount \ accounts :
      LET source == Signer(MakerOfAccount(a))
          chain == {source, Signer(MakerOfKey(source)), RootAccount}
      IN  \E r \in faulty : Signer(r) \in chain

\* A monitor that waits for the rate times the duration waits in vain if the rate does not divide
\* by the number of threads, or there are too few accounts, whatever the threads do; otherwise
\* they pay exactly that, unless a request went wrong (oneRoundTesting.sh:20-21, 43-50,
\* monitor.js:12-13).
LoadMeetsTarget ==
  LET Reachable == rate % ThreadNum = 0 /\ rate * Duration <= Cardinality(TestAccount)
  IN  /\ Cardinality(paid) = rate * Duration => Reachable
      /\ finished = Thread /\ faulty = {} /\ Reachable => Cardinality(paid) = rate * Duration

==============================================================================
