----------------------------- MODULE MCPipeline -----------------------------
(***************************************************************************)
(* Pipeline for the requests of one client, one after the other, with the  *)
(* three retries of the code and a timeout that may come at any of them.   *)
(***************************************************************************)
EXTENDS Pipeline
CONSTANTS c1
=============================================================================
