-------------------------------- MODULE MCApp --------------------------------
(* Two operations at once on one agent.                                    *)
EXTENDS App

MCInterface == [key |-> "i1", supported |-> TRUE]
=============================================================================
