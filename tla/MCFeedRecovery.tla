---------------------------- MODULE MCFeedRecovery ----------------------------
(***************************************************************************)
(* FeedRecovery on a small instance.  The times keep the order of the      *)
(* code's: a rotation that died is noticed by its rows (Stale) only after  *)
(* the window that would count it, the ladder's spacing is two ticks, and  *)
(* the exit lies beyond a verification.  Any two faults may strike, at any *)
(* point of a pre-open, a session and the next days; a login an operator   *)
(* forces strikes last, and with it a second client may appear.            *)
(***************************************************************************)
EXTENDS FeedRecovery
===============================================================================
