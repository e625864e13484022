---------------------------- MODULE MCStellarRound ----------------------------
(* A small instance of StellarRound: no report of an earlier round, or one that has the ledger *)
(* numbers of this round.                                                                      *)
EXTENDS StellarRound

CONSTANTS p1, p2

TwoPolls == {p1, p2}

SomeOldReports == {<< >>, <<{2, 3}>>}

==============================================================================
