------------------------------- MODULE MCAiLink -------------------------------
(***************************************************************************)
(* The instance of AiLink that TLC checks; its bounds are numbers, given   *)
(* in the configuration file.                                              *)
(***************************************************************************)
EXTENDS AiLink
=============================================================================
