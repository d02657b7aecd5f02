---------------------------- MODULE MCEventLoop -----------------------------
(* EventLoop for TLC: its constants get their values in the cfg files.      *)
EXTENDS EventLoop
=============================================================================
