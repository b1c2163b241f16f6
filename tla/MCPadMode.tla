------------------------------ MODULE MCPadMode ------------------------------
(* Instances of PadMode: the addresses of the calls. *)
EXTENDS PadMode

MCTwoPages == 0..2 * Page - 1
=============================================================================
