------------------------------ MODULE MCServer ------------------------------
(* Small instances of Server for TLC. *)
EXTENDS MCPlaybackManager, Server

CONSTANT w1
=============================================================================
