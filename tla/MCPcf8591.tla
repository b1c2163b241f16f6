------------------------------ MODULE MCPcf8591 ------------------------------
(* Instances of Pcf8591: the arguments of the processes. *)
EXTENDS Pcf8591

\* Process 1 shows channel 0, which 256 selects too, process 2 channel 1.
MCArgument == [a \in Apps |-> IF a = 1 THEN 256 ELSE 1]
=============================================================================
