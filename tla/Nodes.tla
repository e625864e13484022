--------------------------------- MODULE Nodes ---------------------------------
(***************************************************************************)
(* The nodes of a network, by their number: the configuration, the         *)
(* scripts and the monitors all count from 0 to config.setting.node_num.   *)
(***************************************************************************)
EXTENDS Naturals

CONSTANT NodeNum      \* config.setting.node_num

ASSUME NodeNumAssumption == NodeNum \in Nat \ {0}

Node == 0..NodeNum - 1

==============================================================================
