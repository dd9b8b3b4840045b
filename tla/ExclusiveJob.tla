---------------------------- MODULE ExclusiveJob ----------------------------
(***************************************************************************)
(* What registry_pkgs.database.leased_job promises the code that uses it,  *)
(* without clocks, heartbeats or messages: a job has at most one holder, a *)
(* claim that stopped being the holder never becomes it again, and only    *)
(* the holder writes.                                                      *)
(***************************************************************************)
EXTENDS Naturals

CONSTANT Claims   \* the claims that may be made

VARIABLES
  state,        \* "absent", "open", "held", "done" or "failed"
  holder,       \* the claim that holds the job, 0 for none
  granted,      \* every claim that ever held it
  lastWriter    \* the claim whose fenced write landed last, 0 for none

vars == <<state, holder, granted, lastWriter>>

Init ==
  /\ state \in {"absent", "open"}
  /\ holder = 0
  /\ granted = {}
  /\ lastWriter = 0

(* A new claim takes a job that is free, or takes it over. *)
Take(claim) ==
  /\ state \in {"absent", "open", "held"}
  /\ claim \notin granted
  /\ holder' = claim
  /\ granted' = granted \union {claim}
  /\ state' = "held"
  /\ UNCHANGED lastWriter

(* The holder writes and keeps the job. *)
Write ==
  /\ state = "held"
  /\ lastWriter' = holder
  /\ UNCHANGED <<state, holder, granted>>

(* The holder writes for the last time and gives the job up. *)
Release ==
  /\ state = "held"
  /\ lastWriter' = holder
  /\ state' \in {"open", "done", "failed"}
  /\ holder' = 0
  /\ UNCHANGED granted

(* A holder that fell silent loses the job, which has then failed. *)
Expire ==
  /\ state = "held"
  /\ state' = "failed"
  /\ holder' = 0
  /\ UNCHANGED <<granted, lastWriter>>

Next ==
  \/ \E claim \in Claims \ {0} : Take(claim)
  \/ Write
  \/ Release
  \/ Expire

Spec == Init /\ [][Next]_vars
=============================================================================
