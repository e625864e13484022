----------------------------- MODULE MCStellarLoad -----------------------------
(* A small instance of StellarLoad: rates that divide by the number of threads, one that does  *)
(* not, and one beyond the accounts.                                                           *)
EXTENDS StellarLoad

SomeRates == {2, 3, 4, 6}

==============================================================================
