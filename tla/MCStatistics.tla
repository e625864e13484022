----------------------------- MODULE MCStatistics -----------------------------
(* Small instances of Statistics: two orders of two rates and a third rate, the default bound  *)
(* and a configured one, two regions; rounds with and without a report, and with more or less data.         *)
EXTENDS Statistics

SomeSettings ==
  {[rates |-> <<1, 2>>, end |-> 0, region |-> "global"],
   [rates |-> <<2, 3>>, end |-> 0, region |-> "local"],
   [rates |-> <<1, 2>>, end |-> 2, region |-> "local"]}

SomeZones == [local |-> <<"asia-east1-b">>, global |-> <<"asia-east1-b", "us-east1-b">>]

Block(txs, time) == [txs |-> txs, time |-> time]

SomeResults ==
  {[report |-> NoReport, lines |-> <<3, 4>>],
   [report |-> << >>, lines |-> <<3, 2>>],
   [report |-> <<Block(2, 10), Block(1, 12), Block(3, 15)>>, lines |-> <<4, 3>>],
   [report |-> <<Block(0, 10), Block(0, 11)>>, lines |-> <<0, 2>>]}

==============================================================================
