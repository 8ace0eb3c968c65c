------------------------------- MODULE MCSignIn -------------------------------
(***************************************************************************)
(* An instance of SignIn for TLC: two callers are enough for one to find   *)
(* the page as the other has left it, whether the calls are made in turn,  *)
(* as today, or at the same time.                                          *)
(***************************************************************************)
EXTENDS SignIn

CONSTANTS first, second

MCCallers == {first, second}
=============================================================================
