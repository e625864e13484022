---------------------------- MODULE MCQuorumRound ----------------------------
(* Small instances of QuorumRound. *)
EXTENDS QuorumRound

CONSTANTS p1, p2, p3

OnePoll == {p1}
TwoPolls == {p1, p2}
ThreePolls == {p1, p2, p3}

\* The script's one thread; and two threads, and a file that is one transaction short.
OneThread == {[thread_num |-> 1, raw_transaction_num |-> Target]}
OtherSettings ==
  OneThread \cup {[thread_num |-> 2, raw_transaction_num |-> Target],
                 [thread_num |-> 1, raw_transaction_num |-> Target - 1]}

\* Polls are interchangeable, and no property of these runs is a liveness property.
PollSymmetry == Permutations(Poll)

==============================================================================
