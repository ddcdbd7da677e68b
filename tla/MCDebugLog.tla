----------------------------- MODULE MCDebugLog -----------------------------
(* Three calls: two by threads of one process, one by another process.     *)
EXTENDS DebugLog, TLC

CONSTANTS log1, log2, log3, host, rundll32

MCHome == (log1 :> host) @@ (log2 :> host) @@ (log3 :> rundll32)
=============================================================================
