------------------------------ MODULE MCReports ------------------------------
(***************************************************************************)
(* Instances of Reports for TLC.                                           *)
(***************************************************************************)
EXTENDS Reports
=============================================================================
