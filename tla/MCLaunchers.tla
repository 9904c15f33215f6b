----------------------------- MODULE MCLaunchers -----------------------------
(***************************************************************************)
(* Launchers for TLC.  Two settings files show a sidecar that belongs to   *)
(* the other one; a user's file is missing, empty, malformed, without the  *)
(* URL but with its object, or with a URL of its own.                      *)
(***************************************************************************)
EXTENDS Launchers

MCWritten ==
  {Missing, Broken, Blank, Whole("none", "bare", "some", FALSE),
   Whole("mine", "used", "none", FALSE)}
=============================================================================
