------------------------------ MODULE MCRoutes ------------------------------
(***************************************************************************)
(* Routes for TLC.  The code knows two groups.  Two writes after the files *)
(* the server finds are enough for a write in place, or for one write      *)
(* before and one during a load.                                           *)
(***************************************************************************)
EXTENDS Routes
=============================================================================
