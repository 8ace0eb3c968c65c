---------------------------- MODULE MCCallbackWatch ----------------------------
(***************************************************************************)
(* CallbackWatch for TLC.  The polls of the code (3 and 8, of 480) are     *)
(* scaled down: what matters is that a form needs several polls, a new     *)
(* screen more of them, and that the deadline leaves room for both.        *)
(***************************************************************************)
EXTENDS CallbackWatch
=============================================================================
