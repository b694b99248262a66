-------------------------- MODULE MCDaemonPipeline --------------------------
(* DaemonPipeline for TLC; pipeline.cfg gives the constants their values. *)
EXTENDS DaemonPipeline
=============================================================================
