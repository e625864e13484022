----------------------------- MODULE MCTxMonitor -----------------------------
(* Small instances of TxMonitor. *)
EXTENDS TxMonitor

CONSTANTS p1, p2

OnePoll == {p1}
TwoPolls == {p1, p2}


==============================================================================
