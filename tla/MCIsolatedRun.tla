----------------------------- MODULE MCIsolatedRun -----------------------------
(***************************************************************************)
(* Two tests: the second one shows what the first has done to the parser.  *)
(***************************************************************************)
EXTENDS IsolatedRun

CONSTANTS A, B

MCSuite == <<A, B>>
===============================================================================
