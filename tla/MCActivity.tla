------------------------------ MODULE MCActivity ------------------------------
(***************************************************************************)
(* One follow-up and one call at a time that delivers it; a window of three *)
(* and polls of two events.                                                 *)
(***************************************************************************)
EXTENDS Activity, TLC
===============================================================================
