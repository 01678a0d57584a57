-------------------------- MODULE MCSendThreadMain --------------------------
(***************************************************************************)
(* The instance of SendThreadMain that TLC checks.  The number of sockets  *)
(* and of packets is given in the configuration files.                     *)
(***************************************************************************)
EXTENDS SendThreadMain
=============================================================================
