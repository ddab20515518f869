-------------------------- MODULE MCClientWorkers --------------------------
(* Two lines of the same length, the second of which perhaps cannot be    *)
(* parsed; the configuration says which of them are commands.               *)
EXTENDS ClientWorkers

MCLength == [line \in File |-> 1]
=============================================================================
