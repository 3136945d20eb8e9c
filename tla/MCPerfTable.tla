---------------------------- MODULE MCPerfTable ----------------------------
(***************************************************************************)
(* Instances of PerfTable; the constants are in the configurations.  The   *)
(* allocation steps are so small that three directories make the tables    *)
(* grow, and two inline unit masks make the third one overflow.            *)
(***************************************************************************)
EXTENDS PerfTable
============================================================================
