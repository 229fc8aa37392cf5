------------------------------ MODULE MCDashboard ------------------------------
(***************************************************************************)
(* Instances of Dashboard for TLC: D_refresh.cfg gives its constants       *)
(* values.  Three tables are a first, a middle and a last one; the period  *)
(* is three units of time and a fetch takes less.                          *)
(***************************************************************************)
EXTENDS Dashboard
=============================================================================
