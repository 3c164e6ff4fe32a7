-------------------------- MODULE MCRunLifecycle ---------------------------
(* A small instance of RunLifecycle for TLC.                               *)
EXTENDS RunLifecycle
=============================================================================
