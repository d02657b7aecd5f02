---------------------------- MODULE MCThreadPool ----------------------------
(* ThreadPool and its inductive invariant for TLC: the constants get their  *)
(* values in the cfg files.                                                 *)
EXTENDS ThreadPoolInv
=============================================================================
