----------------------------- MODULE MCDocTracking -----------------------------
(* Small instances of DocTracking: an even rate, one beyond the registrations, two threads, *)
(* and an odd rate.                                                                         *)
EXTENDS DocTracking

SmallRounds ==
  {[rate |-> 2, duration |-> 2, threads |-> 1, last |-> 2],
   [rate |-> 3, duration |-> 2, threads |-> 1, last |-> 3],
   [rate |-> 4, duration |-> 1, threads |-> 2, last |-> 4],
   [rate |-> 1, duration |-> 1, threads |-> 1, last |-> 2]}

==============================================================================
