------------------------------ MODULE Exchange ------------------------------
(***************************************************************************)
(* What IPCheck takes for granted of a request: it is answered or it fails *)
(* at any time or never, the second continuation is given the whole body,  *)
(* and a failure is noticed by nobody until it ends the process.           *)
(***************************************************************************)
CONSTANT Body

VARIABLES
  stage,   \* the task of IPCheck: how far the request is
  got,     \* what the second continuation is given
  running

vars == <<stage, got, running>>

Init == stage = "none" /\ got = <<>> /\ running = TRUE

SendRequest == stage = "none" /\ stage' = "requested" /\ UNCHANGED <<got, running>>

Respond == stage = "requested" /\ stage' = "reading" /\ UNCHANGED <<got, running>>

ReceiveBody == stage = "reading" /\ stage' = "filtering" /\ got' = Body /\ UNCHANGED running

Fail == stage \in {"requested", "reading"} /\ stage' = "failed" /\ UNCHANGED <<got, running>>

TerminateUnobserved == stage = "failed" /\ running' = FALSE /\ UNCHANGED <<stage, got>>

Next == running /\ (SendRequest \/ Respond \/ ReceiveBody \/ Fail \/ TerminateUnobserved)

Spec == Init /\ [][Next]_vars
=============================================================================
