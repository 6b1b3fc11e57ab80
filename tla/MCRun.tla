------------------------------- MODULE MCRun -------------------------------
(* The programs of MCBuilder, compiled and run.                            *)
EXTENDS MCBuilder, CminusRun
=============================================================================
