------------------------------- MODULE MCTelnet -------------------------------
(***************************************************************************)
(* The instance of Telnet that TLC checks; its bounds are numbers, given   *)
(* in the configuration file.                                              *)
(***************************************************************************)
EXTENDS Telnet
=============================================================================
