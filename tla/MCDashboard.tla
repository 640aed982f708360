---------------------------- MODULE MCDashboard ----------------------------
(* TLC instances of DashboardProperties. *)
EXTENDS DashboardProperties
=============================================================================
