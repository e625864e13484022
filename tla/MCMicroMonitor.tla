---------------------------- MODULE MCMicroMonitor ----------------------------
(* A small instance of MicroMonitor: two of the files, whose buffers fill at different rows. *)
EXTENDS MicroMonitor

MCFile == {"ProcessMonitor", "CpuMonitor"}

MCBuffer == [f \in MCFile |-> IF f = "ProcessMonitor" THEN 2 ELSE 3]

==============================================================================
