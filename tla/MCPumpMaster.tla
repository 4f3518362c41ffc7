------------------------------ MODULE MCPumpMaster ------------------------------
(* PumpMaster for TLC: all constants are numbers or model values. *)
EXTENDS PumpMaster
=================================================================================
