---------------------------- MODULE MCFileCaches ----------------------------
(* FileCaches alone for TLC; module MCHost checks it within host::serve.     *)
EXTENDS FileCaches
=============================================================================
