-------------------------- MODULE MCTendermintRound --------------------------
(* Small instances of TendermintRound. *)
EXTENDS TendermintRound

TxNumbers == 1..ThreadNum * PerThread

==============================================================================
