----------------------------- MODULE FailClosed -----------------------------
(***************************************************************************)
(* What IsIPAllowed promises its host, with no threads, counters or        *)
(* memory: every configured server gives one opinion of the address, the   *)
(* call is allowed only by the approval of all of them, and it is blocked  *)
(* only when a server disapproves or when there are no settings.           *)
(***************************************************************************)
CONSTANT Calls

VARIABLES
  loaded,   \* are there settings
  servers,  \* the configured servers
  opinion,  \* call -> server -> "pending", "approves" or "disapproves"
  answer    \* call -> what the host is told

vars == <<loaded, servers, opinion, answer>>

Init ==
  /\ loaded \in BOOLEAN
  /\ opinion = [c \in Calls |-> [s \in servers |-> "pending"]]
  /\ answer = [c \in Calls |-> "none"]

Opine(c, s) ==
  /\ answer[c] = "none"
  /\ opinion[c][s] = "pending"
  /\ \E o \in {"approves", "disapproves"} : opinion' = [opinion EXCEPT ![c][s] = o]
  /\ UNCHANGED <<loaded, servers, answer>>

Allow(c) ==
  /\ answer[c] = "none"
  /\ loaded
  /\ \A s \in servers : opinion[c][s] = "approves"
  /\ answer' = [answer EXCEPT ![c] = "allow"]
  /\ UNCHANGED <<loaded, servers, opinion>>

Block(c) ==
  /\ answer[c] = "none"
  /\ ~loaded \/ \E s \in servers : opinion[c][s] = "disapproves"
  /\ answer' = [answer EXCEPT ![c] = "block"]
  /\ UNCHANGED <<loaded, servers, opinion>>

Next == \E c \in Calls : Allow(c) \/ Block(c) \/ \E s \in servers : Opine(c, s)

Spec == Init /\ [][Next]_vars
=============================================================================
