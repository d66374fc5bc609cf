------------------------------ MODULE MCLetIn -------------------------------
(***************************************************************************)
(* Launch as it is: its bounds are numbers, given in the configuration.    *)
(***************************************************************************)
EXTENDS Launch
=============================================================================
