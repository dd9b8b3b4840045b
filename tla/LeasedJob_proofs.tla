-------------------------- MODULE LeasedJob_proofs --------------------------
(***************************************************************************)
(* Proofs about LeasedJob, for any pods, clocks, durations and bounds.     *)
(*                                                                         *)
(*   TypeCorrect            every variable keeps its type                  *)
(*   TokenInvariance        what the tokens are, however requests fly      *)
(*   Refinement             the lease implements ExclusiveJob              *)
(*   SupersededNeverWrites  a claim that lost the job never writes again   *)
(*   Exclusive              no two pods execute at once (with timing)      *)
(*   WritesAccepted         a working execution's writes land (with timing)*)
(*   TerminalIsFinal        a terminal status is never overwritten         *)
(*                                                                         *)
(* Only Exclusive and WritesAccepted need time: the others hold of pods    *)
(* that stall for ever.                                                    *)
(***************************************************************************)
EXTENDS LeasedJob, TLAPS

(* A pod reads its clock as a natural number. *)
LEMMA ClockTyped ==
  ASSUME TypeOK, NEW p \in Pods
  PROVE  Now(p) \in Nat /\ Now(p) >= 0
  BY SkewAssumption DEF TypeOK, Now

(* Typing: every step keeps every variable in its type. *)
LEMMA TypeStep == TypeOK /\ [Next]_vars => TypeOK'
<1> SUFFICES ASSUME TypeOK, [Next]_vars PROVE TypeOK'
  OBVIOUS
<1> USE DurationsAssumption, SkewAssumption DEF TypeOK, document, coroutines, history
<1>1. ASSUME NEW p \in Pods, NEW kind \in Takes \union Writes \union {"heartbeat"},
             NEW token \in Nat, Send(p, kind, token)
      PROVE  requests' \subseteq Requests
  BY <1>1 DEF Send, Now, Requests
<1>2. ASSUME NEW p \in Pods, Idle(p)
      PROVE  /\ phase' \in [Pods -> Phases] /\ held' \in [Pods -> Leases]
             /\ work' \in [Pods -> {"none", "running", "tail", "returned", "lost", "raised"}]
             /\ beat' \in [Pods -> {"none", "alive", "lost"}]
  BY <1>2 DEF Idle, Phases, Leases, NoLease
<1>3. ASSUME NEW r \in requests
      PROVE  /\ r.pod \in Pods /\ r.token \in Nat /\ r.at \in Nat
             /\ NewLease(r) \in Leases
  BY DEF Requests, NewLease, Leases
<1>4. ASSUME NEW r \in requests, NEW next \in {"running", "tail", "lost", "raised"}, Reaction(r, next)
      PROVE  /\ phase' \in [Pods -> Phases] /\ held' \in [Pods -> Leases]
             /\ work' \in [Pods -> {"none", "running", "tail", "returned", "lost", "raised"}]
             /\ beat' \in [Pods -> {"none", "alive", "lost"}]
  BY <1>2, <1>3, <1>4 DEF Reaction, Phases
<1>5. ASSUME Tick PROVE TypeOK'
  BY <1>5 DEF Tick
<1>6. ASSUME NEW p \in Pods, NEW kind \in Takes, TakeSend(p, kind) PROVE TypeOK'
  <2>1. requests' \subseteq Requests
    BY <1>6, <1>1 DEF TakeSend
  <2>2. Now(p) + Duration \in Nat
    BY DEF Now
  <2> QED BY <1>6, <2>1, <2>2 DEF TakeSend, Phases, Leases
<1>7. ASSUME NEW p \in Pods, BeatSend(p) PROVE TypeOK'
  <2>1. requests' \subseteq Requests
    BY <1>7, <1>1 DEF BeatSend, Leases
  <2> QED BY <1>7, <2>1 DEF BeatSend
<1>8. ASSUME NEW p \in Pods, NEW kind \in OwnWrites, WriteSend(p, kind) PROVE TypeOK'
  <2>1. requests' \subseteq Requests
    BY <1>8, <1>1 DEF WriteSend, Writes, Leases
  <2> QED BY <1>8, <2>1 DEF WriteSend
<1>9. ASSUME NEW p \in Pods, HookSend(p) PROVE TypeOK'
  <2>1. requests' \subseteq Requests
    BY <1>9, <1>1 DEF HookSend, Writes, Leases
  <2> QED BY <1>9, <2>1 DEF HookSend
<1>10. ASSUME NEW p \in Pods, FailSend(p) PROVE TypeOK'
  <2>1. requests' \subseteq Requests
    BY <1>10, <1>1 DEF FailSend, Writes, Leases
  <2> QED BY <1>10, <2>1 DEF FailSend
<1>11. ASSUME NEW p \in Pods, SelfFence(p) \/ Return(p) \/ Raise(p) \/ Cancel(p) PROVE TypeOK'
  BY <1>11 DEF SelfFence, Return, Raise, Cancel, Phases
<1>12. ASSUME NEW p \in Pods, Stopped(p) \/ Crash(p) \/ Settle(p) PROVE TypeOK'
  BY <1>12, <1>2 DEF Stopped, Crash, Settle, Phases
<1>13. ASSUME NEW p \in Pods, Reap(p) PROVE TypeOK'
  BY <1>13 DEF Reap, Statuses, Leases, NoLease
<1>14. ASSUME NEW r \in requests, NEW answered \in BOOLEAN, TakeWins(r, answered) PROVE TypeOK'
  BY <1>14, <1>2, <1>3 DEF TakeWins, Statuses, Phases
<1>15. ASSUME NEW r \in requests, TakeMisses(r) PROVE TypeOK'
  BY <1>15, <1>2, <1>3 DEF TakeMisses
<1>16. ASSUME NEW r \in requests, NEW answered \in BOOLEAN, BeatRenews(r, answered) PROVE TypeOK'
  BY <1>16, <1>3 DEF BeatRenews
<1>17. ASSUME NEW r \in requests, BeatMisses(r) PROVE TypeOK'
  BY <1>17, <1>3 DEF BeatMisses
<1>18. ASSUME NEW r \in requests, NEW answered \in BOOLEAN, WriteLands(r, answered) PROVE TypeOK'
  <2> DEFINE next == IF ~answered THEN "raised"
                     ELSE IF r.kind \in Releasing THEN "tail" ELSE "running"
  <2>1. next \in {"running", "tail", "lost", "raised"} /\ Reaction(r, next)
    BY <1>18 DEF WriteLands
  <2>2. /\ phase' \in [Pods -> Phases] /\ held' \in [Pods -> Leases]
        /\ work' \in [Pods -> {"none", "running", "tail", "returned", "lost", "raised"}]
        /\ beat' \in [Pods -> {"none", "alive", "lost"}]
    BY <2>1, <1>4
  <2>3. status' \in Statuses /\ lease' \in Leases /\ released' \subseteq Nat
    <3>1. CASE r.kind \in Releasing
      <4>1. StatusAfter[r.kind] \in Statuses
        BY <3>1 DEF Releasing, StatusAfter, Statuses
      <4>2. NoLease \in Leases
        BY DEF NoLease, Leases
      <4>3. status' = StatusAfter[r.kind] /\ lease' = NoLease /\ released' = released \union {r.token}
        BY <1>18, <3>1 DEF WriteLands
      <4> QED BY <1>3, <4>1, <4>2, <4>3
    <3>2. CASE r.kind \notin Releasing
      BY <1>18, <3>2 DEF WriteLands
    <3> QED BY <3>1, <3>2
  <2> QED BY <1>18, <1>3, <2>2, <2>3 DEF WriteLands
<1>19. ASSUME NEW r \in requests, WriteMisses(r) PROVE TypeOK'
  <2>1. PICK next \in MissedWrite(r) : Reaction(r, next)
    BY <1>19 DEF WriteMisses
  <2>2. next \in {"running", "tail", "lost", "raised"}
    BY DEF MissedWrite
  <2> QED BY <1>19, <1>3, <1>4, <2>1, <2>2 DEF WriteMisses
<1>20. ASSUME NEW r \in requests, Drop(r) PROVE TypeOK'
  BY <1>20, <1>2, <1>3, <1>4 DEF Drop
<1>21. CASE UNCHANGED vars
  BY <1>21 DEF vars
<1> QED
  BY <1>5, <1>6, <1>7, <1>8, <1>9, <1>10, <1>11, <1>12, <1>13, <1>14, <1>15, <1>16, <1>17,
     <1>18, <1>19, <1>20, <1>21 DEF Next, PodStep, Land

(* Every variable keeps its type. *)
THEOREM TypeCorrect == Spec => []TypeOK
<1>1. Init => TypeOK
  BY DEF Init, TypeOK, Statuses, Leases, NoLease, Phases
<1> QED BY <1>1, TypeStep, PTL DEF Spec

-----------------------------------------------------------------------------
(* A pod that keeps its claim through a step, and one that gives it up.  Only *)
(* sending and winning a take do anything else to a pod.                      *)
Kept(q) ==
  /\ held'[q].token = held[q].token
  /\ \/ phase'[q] = phase[q] /\ (work'[q] = work[q] \/ phase[q] \notin {"idle", "claiming"})
     \/ {phase[q], phase'[q]} \cap {"idle", "claiming"} = {}

Dropped(q) == phase'[q] = "idle" /\ held'[q].token = 0 /\ work'[q] = "none"

PodsKeep == \A q \in Pods : Kept(q) \/ Dropped(q)

(* A step that leaves the coroutines alone keeps every pod as it is. *)
LEMMA UnchangedKeeps ==
  ASSUME UNCHANGED coroutines
  PROVE  PodsKeep
  BY DEF coroutines, PodsKeep, Kept

(* A pod that goes idle gives its claim up, the others keep theirs. *)
LEMMA IdleKeeps ==
  ASSUME TypeOK, NEW p \in Pods, Idle(p)
  PROVE  PodsKeep
  BY DEF TypeOK, Idle, PodsKeep, Kept, Dropped, NoLease

(* The answer to a write changes nobody's claim, or drops one. *)
LEMMA ReactionKeeps ==
  ASSUME TypeOK, TokensOwned, NEW r \in requests, NEW next, Reaction(r, next)
  PROVE  PodsKeep
<1>1. r.pod \in Pods
  BY DEF TypeOK, Requests
<1>2. CASE Awaited(r) /\ r.kind \in OwnWrites
  BY <1>1, <1>2 DEF Reaction, TypeOK, PodsKeep, Kept, Working, Idle
<1> QED BY <1>1, IdleKeeps, UnchangedKeeps DEF Reaction, TypeOK, PodsKeep, Kept

(* The steps that leave minted and granted alone: all but those two. *)
Quiet ==
  \/ Tick
  \/ \E p \in Pods :
       \/ BeatSend(p) \/ SelfFence(p) \/ (\E kind \in OwnWrites : WriteSend(p, kind))
       \/ Return(p) \/ Raise(p) \/ Settle(p) \/ Cancel(p) \/ HookSend(p) \/ Stopped(p)
       \/ FailSend(p) \/ Crash(p) \/ Reap(p)
  \/ \E r \in requests :
       \/ TakeMisses(r)
       \/ (\E answered \in BOOLEAN : BeatRenews(r, answered))
       \/ BeatMisses(r)
       \/ (\E answered \in BOOLEAN : WriteLands(r, answered))
       \/ WriteMisses(r) \/ Drop(r)
  \/ UNCHANGED vars

(* A step sends a take, wins one, or is quiet. *)
LEMMA StepKinds ==
  ASSUME [Next]_vars
  PROVE  \/ \E p \in Pods, kind \in Takes : TakeSend(p, kind)
         \/ \E r \in requests, answered \in BOOLEAN : TakeWins(r, answered)
         \/ Quiet
  BY DEF Next, PodStep, Land, Quiet

(* Quiet steps keep or drop the claims of the pods and grant nothing. *)
LEMMA QuietKeeps ==
  ASSUME TypeOK, TokensOwned, Quiet
  PROVE  PodsKeep /\ UNCHANGED <<minted, granted>>
<1> USE DEF coroutines, history
<1>1. CASE Tick
  BY <1>1, UnchangedKeeps DEF Tick
<1>2. ASSUME NEW p \in Pods,
             BeatSend(p) \/ (\E kind \in OwnWrites : WriteSend(p, kind)) \/ HookSend(p)
               \/ FailSend(p) \/ Reap(p)
      PROVE  PodsKeep /\ UNCHANGED <<minted, granted>>
  BY <1>2, UnchangedKeeps DEF BeatSend, WriteSend, HookSend, FailSend, Reap
<1>3. ASSUME NEW p \in Pods, SelfFence(p) \/ Return(p) \/ Raise(p) \/ Cancel(p)
      PROVE  PodsKeep /\ UNCHANGED <<minted, granted>>
  BY <1>3 DEF SelfFence, Return, Raise, Cancel, TypeOK, PodsKeep, Kept
<1>4. ASSUME NEW p \in Pods, Stopped(p) \/ Crash(p)
      PROVE  PodsKeep /\ UNCHANGED <<minted, granted>>
  BY <1>4, IdleKeeps DEF Stopped, Crash
<1>5. ASSUME NEW p \in Pods, Settle(p)
      PROVE  PodsKeep /\ UNCHANGED <<minted, granted>>
  <2>1. CASE Idle(p)
    BY <1>5, <2>1, IdleKeeps DEF Settle
  <2>2. CASE ~Idle(p)
    BY <1>5, <2>2 DEF Settle, TypeOK, PodsKeep, Kept
  <2> QED BY <2>1, <2>2
<1>6. ASSUME NEW r \in requests, NEW answered \in BOOLEAN, BeatRenews(r, answered)
      PROVE  PodsKeep /\ UNCHANGED <<minted, granted>>
  BY <1>6 DEF BeatRenews, Awaited, NewLease, TypeOK, Requests, PodsKeep, Kept
<1>7. ASSUME NEW r \in requests, TakeMisses(r) \/ BeatMisses(r)
      PROVE  PodsKeep /\ UNCHANGED <<minted, granted>>
  <2>1. r.pod \in Pods
    BY DEF TypeOK, Requests
  <2>2. CASE TakeMisses(r)
    BY <2>1, <2>2, IdleKeeps, UnchangedKeeps DEF TakeMisses
  <2>3. CASE BeatMisses(r)
    BY <2>1, <2>3 DEF BeatMisses, Beating, TypeOK, PodsKeep, Kept
  <2> QED BY <1>7, <2>2, <2>3
<1>8. ASSUME NEW r \in requests, NEW answered \in BOOLEAN, WriteLands(r, answered)
      PROVE  PodsKeep /\ UNCHANGED <<minted, granted>>
  BY <1>8, ReactionKeeps DEF WriteLands
<1>9. ASSUME NEW r \in requests, WriteMisses(r)
      PROVE  PodsKeep /\ UNCHANGED <<minted, granted>>
  BY <1>9, ReactionKeeps DEF WriteMisses
<1>10. ASSUME NEW r \in requests, Drop(r)
       PROVE  PodsKeep /\ UNCHANGED <<minted, granted>>
  <2>1. r.pod \in Pods
    BY DEF TypeOK, Requests
  <2> QED BY <1>10, <2>1, IdleKeeps, UnchangedKeeps, ReactionKeeps DEF Drop
<1>11. CASE UNCHANGED vars
  BY <1>11, UnchangedKeeps DEF vars
<1> QED
  BY <1>1, <1>2, <1>3, <1>4, <1>5, <1>6, <1>7, <1>8, <1>9, <1>10, <1>11 DEF Quiet

-----------------------------------------------------------------------------
(* The tokens, part by part *)

(* Every step keeps grants among the minted tokens. *)
LEMMA MintedStep ==
  ASSUME TypeOK, TokenInv, [Next]_vars
  PROVE  TokensMinted'
<1> USE DEF coroutines, history, document, TokensMinted
<1>0. 0 \notin granted /\ TokensMinted
  BY DEF TokenInv
<1>1. ASSUME NEW p \in Pods, NEW kind \in Takes, TakeSend(p, kind) PROVE TokensMinted'
  <2>1. minted \in Nat /\ MaxClaims \in Nat /\ minted' = minted + 1 /\ minted' <= MaxClaims
    BY <1>1, DurationsAssumption DEF TakeSend, TypeOK
  <2>2. granted \subseteq 1..minted'
    BY <1>0, <2>1
  <2> QED BY <1>0, <1>1, <2>1, <2>2 DEF TakeSend
<1>2. ASSUME NEW r \in requests, NEW answered \in BOOLEAN, TakeWins(r, answered)
      PROVE  TokensMinted'
  <2>1. r.token \in 1..minted
    BY DEF TokenInv, TokensSent
  <2>2. /\ granted' = granted \union {r.token} /\ status' = "leased" /\ lease'.token = r.token
        /\ UNCHANGED <<minted, released, lastWriter>>
    BY <1>2 DEF TakeWins, NewLease
  <2>3. r.token # 0
    BY <2>1 DEF TypeOK
  <2>4. granted' \subseteq 1..minted'
    BY <1>0, <2>1, <2>2
  <2> QED BY <1>0, <2>2, <2>3, <2>4
<1>3. ASSUME NEW r \in requests, NEW answered \in BOOLEAN, BeatRenews(r, answered)
      PROVE  TokensMinted'
  BY <1>0, <1>3 DEF BeatRenews, Fenced, NewLease, TypeOK
<1>4. ASSUME NEW r \in requests, NEW answered \in BOOLEAN, WriteLands(r, answered)
      PROVE  TokensMinted'
  <2>1. r.token \in granted /\ r.token = lease.token /\ status = "leased"
    BY <1>0, <1>4 DEF WriteLands, Fenced, TypeOK
  <2>2. CASE r.kind \in Releasing
    <3>1. status' # "leased" /\ lease'.token = 0
      BY <1>4, <2>2 DEF WriteLands, Releasing, StatusAfter, NoLease
    <3> QED BY <1>0, <1>4, <2>1, <2>2, <3>1 DEF WriteLands
  <2>3. CASE r.kind \notin Releasing
    BY <1>0, <1>4, <2>1, <2>3 DEF WriteLands
  <2> QED BY <2>2, <2>3
<1>5. ASSUME NEW p \in Pods, Reap(p) PROVE TokensMinted'
  BY <1>0, <1>5 DEF Reap, NoLease
<1>6. CASE UNCHANGED <<document, history>>
  BY <1>0, <1>6
<1>7. ASSUME NEW r \in requests, TakeMisses(r) \/ BeatMisses(r) \/ WriteMisses(r) \/ Drop(r)
      PROVE  UNCHANGED <<document, history>>
  BY <1>7 DEF TakeMisses, BeatMisses, WriteMisses, Drop
<1>8. ASSUME NEW p \in Pods,
             \/ BeatSend(p) \/ SelfFence(p) \/ (\E kind \in OwnWrites : WriteSend(p, kind))
             \/ Return(p) \/ Raise(p) \/ Settle(p) \/ Cancel(p) \/ HookSend(p) \/ Stopped(p)
             \/ FailSend(p) \/ Crash(p)
      PROVE  UNCHANGED <<document, history>>
  BY <1>8 DEF BeatSend, SelfFence, WriteSend, Return, Raise, Settle, Cancel, HookSend, Stopped,
              FailSend, Crash
<1>9. Tick \/ UNCHANGED vars => UNCHANGED <<document, history>>
  BY DEF Tick, vars
<1> QED
  BY StepKinds, <1>1, <1>2, <1>3, <1>4, <1>5, <1>6, <1>7, <1>8, <1>9 DEF Quiet

(* Every step keeps the tokens of the pods their own. *)
LEMMA OwnedStep ==
  ASSUME TypeOK, TokenInv, [Next]_vars
  PROVE  TokensOwned'
<1> USE DEF TokensOwned, Holding
<1>0. TokensOwned /\ TokensSent /\ TokensMinted
  BY DEF TokenInv
<1>1. ASSUME NEW p \in Pods, NEW kind \in Takes, TakeSend(p, kind) PROVE TokensOwned'
  BY <1>0, <1>1 DEF TakeSend, TypeOK, Leases
<1>2. ASSUME NEW r \in requests, NEW answered \in BOOLEAN, TakeWins(r, answered)
      PROVE  TokensOwned'
  <2>1. r.pod \in Pods
    BY DEF TypeOK, Requests
  <2>2. CASE Idle(r.pod)
    BY <1>0, <1>2, <2>1, <2>2 DEF TakeWins, Idle, NoLease, TypeOK
  <2>3. CASE ~Idle(r.pod)
    BY <1>0, <1>2, <2>1, <2>3 DEF TakeWins, Awaited, TypeOK, coroutines
  <2> QED BY <2>2, <2>3
<1>3. CASE Quiet
  <2>1. minted' = minted /\ granted' = granted
    BY <1>0, <1>3, QuietKeeps
  <2>2. ASSUME NEW q \in Pods
        PROVE  \/ /\ held'[q].token = held[q].token
                  /\ phase'[q] = "idle" <=> phase[q] = "idle"
                  /\ phase'[q] = "claiming" <=> phase[q] = "claiming"
                  /\ phase'[q] \in {"idle", "claiming"} => work'[q] = work[q]
               \/ phase'[q] = "idle" /\ held'[q].token = 0 /\ work'[q] = "none"
    <3>1. Kept(q) \/ Dropped(q)
      BY <1>0, <1>3, QuietKeeps DEF PodsKeep
    <3>2. CASE Kept(q)
      <4>1. held'[q].token = held[q].token
        BY <3>2 DEF Kept
      <4>2. CASE phase'[q] = phase[q] /\ (work'[q] = work[q] \/ phase[q] \notin {"idle", "claiming"})
        BY <4>1, <4>2
      <4>3. CASE {phase[q], phase'[q]} \cap {"idle", "claiming"} = {}
        <5>1. phase[q] \notin {"idle", "claiming"} /\ phase'[q] \notin {"idle", "claiming"}
          BY <4>3
        <5> QED BY <4>1, <5>1
      <4> QED BY <3>2, <4>2, <4>3 DEF Kept
    <3> QED BY <3>1, <3>2 DEF Dropped
  <2>3. \A q \in Pods : Holding(q)' => Holding(q) /\ held'[q].token = held[q].token
    BY <2>2
  <2>4. ASSUME NEW p \in Pods
        PROVE  /\ phase'[p] = "idle" => held'[p].token = 0
               /\ Holding(p)' => held'[p].token \in 1..minted'
               /\ phase'[p] \notin {"idle", "claiming"} => held'[p].token \in granted'
               /\ phase'[p] \in {"idle", "claiming"} => work'[p] = "none"
    BY <1>0, <2>1, <2>2
  <2>5. \A p, q \in Pods :
          Holding(p)' /\ Holding(q)' /\ held'[p].token = held'[q].token => p = q
    BY <1>0, <2>3
  <2> QED BY <2>4, <2>5
<1> QED BY StepKinds, <1>1, <1>2, <1>3

(* What Quiet steps do to the requests: they answer one, or send one that *)
(* carries the sender's own granted token and its clock.                  *)
LEMMA QuietRequests ==
  ASSUME TypeOK, TokenInv, Quiet
  PROVE  /\ clock' >= clock
         /\ \/ requests' \subseteq requests
            \/ \E p \in Pods, kind \in (Writes \union {"heartbeat"}) :
                 /\ Send(p, kind, held[p].token)
                 /\ kind = "heartbeat" => ~Waiting(p, {"heartbeat"})
                 /\ phase[p] \notin {"idle", "claiming"}
                 /\ UNCHANGED <<clock, phase, held>>
<1> USE DEF coroutines, document, history
<1>1. CASE Tick
  BY <1>1 DEF Tick, TypeOK
<1>2. ASSUME NEW p \in Pods, BeatSend(p)
      PROVE  /\ Send(p, "heartbeat", held[p].token) /\ ~Waiting(p, {"heartbeat"})
             /\ phase[p] \notin {"idle", "claiming"}
             /\ UNCHANGED <<clock, phase, held>>
  BY <1>2 DEF BeatSend, Beating
<1>3. ASSUME NEW p \in Pods, NEW kind \in OwnWrites, WriteSend(p, kind)
      PROVE  /\ Send(p, kind, held[p].token) /\ kind \in Writes
             /\ phase[p] \notin {"idle", "claiming"}
             /\ UNCHANGED <<clock, phase, held>>
  BY <1>3 DEF WriteSend, Working, Writes
<1>4. ASSUME NEW p \in Pods, HookSend(p) \/ FailSend(p)
      PROVE  /\ \E kind \in Writes : Send(p, kind, held[p].token)
             /\ phase[p] \notin {"idle", "claiming"}
             /\ UNCHANGED <<clock, phase, held>>
  <2>1. {"abort", "record"} \subseteq Writes
    BY DEF Writes
  <2> QED BY <1>4, <2>1 DEF HookSend, FailSend
<1>5. ASSUME NEW p \in Pods,
             SelfFence(p) \/ Return(p) \/ Raise(p) \/ Settle(p) \/ Cancel(p) \/ Stopped(p)
               \/ Crash(p) \/ Reap(p)
      PROVE  UNCHANGED <<clock, requests>>
  BY <1>5 DEF SelfFence, Return, Raise, Settle, Cancel, Stopped, Crash, Reap
<1>6. ASSUME NEW r \in requests,
             \/ TakeMisses(r) \/ (\E answered \in BOOLEAN : BeatRenews(r, answered))
             \/ BeatMisses(r) \/ (\E answered \in BOOLEAN : WriteLands(r, answered))
             \/ WriteMisses(r) \/ Drop(r)
      PROVE  requests' \subseteq requests /\ clock' = clock
  BY <1>6 DEF TakeMisses, BeatRenews, BeatMisses, WriteLands, WriteMisses, Drop
<1>7. CASE UNCHANGED vars
  BY <1>7 DEF vars, TypeOK
<1>8. clock \in Nat /\ clock >= clock
  BY DEF TypeOK
<1>9. "heartbeat" \notin Writes
  BY OwnWritesAssumption DEF Writes
<1> QED BY <1>1, <1>2, <1>3, <1>4, <1>5, <1>6, <1>7, <1>8, <1>9 DEF Quiet

(* Every step keeps the requests under the tokens of their senders. *)
LEMMA SentStep ==
  ASSUME TypeOK, TokenInv, [Next]_vars
  PROVE  TokensSent'
<1>0. TokensOwned /\ TokensSent /\ TokensMinted
  BY DEF TokenInv
<1>1. \A r \in requests : r.pod \in Pods /\ r.at \in Nat /\ r.token \in Nat
  BY DEF TypeOK, Requests
<1>2. ASSUME NEW p \in Pods, NEW kind \in Takes, TakeSend(p, kind) PROVE TokensSent'
  <2> DEFINE new == [kind |-> kind, pod |-> p, token |-> minted + 1, at |-> Now(p)]
  <2>1. /\ requests' = requests \union {new} /\ minted' = minted + 1 /\ granted' = granted
        /\ clock' = clock
        /\ phase' = [phase EXCEPT ![p] = "claiming"] /\ phase[p] = "idle"
        /\ held' = [held EXCEPT ![p] = [token |-> minted + 1, expires |-> Now(p) + Duration]]
    BY <1>2 DEF TakeSend, Send
  <2>2. minted \in Nat /\ minted + 1 \notin granted /\ Now(p) \in Nat
    BY <1>0, ClockTyped DEF TypeOK, TokensMinted
  <2>3. \A r \in requests : r.token \in 1..minted /\ r.token # minted + 1
    BY <1>0, <2>2 DEF TokensSent
  <2>4. \A q \in Pods : held[q].token # minted + 1
    BY <1>0, <2>2 DEF TokensOwned, Holding
  <2>5. \A r \in requests' :
          /\ r.token \in 1..minted'
          /\ r.at <= Now(r.pod)'
          /\ r.kind \in Takes => r.token \notin granted'
          /\ r.kind \notin Takes => r.token \in granted'
    BY <1>0, <2>1, <2>2, <2>3 DEF TokensSent, Now
  <2>6. ASSUME NEW r \in requests', NEW q \in Pods, Holding(q)', held'[q].token = r.token
        PROVE  r.pod = q /\ (r.kind \in Takes <=> phase'[q] = "claiming")
    <3>1. CASE q = p
      BY <2>1, <2>3, <2>6, <3>1 DEF TypeOK
    <3>2. CASE q # p
      BY <1>0, <2>1, <2>4, <2>6, <3>2 DEF TypeOK, TokensSent, Holding
    <3> QED BY <3>1, <3>2
  <2>7. \A r, s \in requests' :
          r.kind \in Takes /\ s.kind \in Takes /\ r.token = s.token => r = s
    BY <1>0, <2>1, <2>3 DEF TokensSent
  <2> QED BY <2>5, <2>6, <2>7 DEF TokensSent
<1>3. ASSUME NEW r \in requests, NEW answered \in BOOLEAN, TakeWins(r, answered)
      PROVE  TokensSent'
  <2>1. /\ requests' = requests \ {r} /\ granted' = granted \union {r.token}
        /\ clock' = clock /\ minted' = minted /\ r.kind \in Takes /\ r.pod \in Pods
    BY <1>1, <1>3 DEF TakeWins
  <2>2. r.token \notin granted
    BY <1>0, <2>1 DEF TokensSent
  <2>3. \A s \in requests' : s \in requests /\ s.token # r.token
    BY <1>0, <2>1, <2>2 DEF TokensSent
  <2>4. \A q \in Pods : Holding(q)' => \/ held'[q].token = held[q].token /\ phase'[q] = phase[q] /\ Holding(q)
                                       \/ held'[q].token = r.token
    <3>1. CASE Idle(r.pod)
      BY <1>3, <2>1, <3>1 DEF TakeWins, Idle, TypeOK, Holding
    <3>2. CASE ~Idle(r.pod)
      BY <1>3, <2>1, <3>2 DEF TakeWins, Awaited, TypeOK, Holding, coroutines
    <3> QED BY <3>1, <3>2
  <2> QED BY <1>0, <2>1, <2>3, <2>4 DEF TokensSent, Now
<1>4. CASE Quiet
  <2>0. PodsKeep /\ minted' = minted /\ granted' = granted
    BY <1>0, <1>4, QuietKeeps
  <2>1. clock \in Nat /\ clock' \in Nat /\ clock' >= clock
    BY <1>4, QuietRequests, TypeStep DEF TypeOK
  <2>2. CASE requests' \subseteq requests
    <3>1. \A r \in requests' : r.at <= Now(r.pod)'
      BY <1>0, <1>1, <2>1, <2>2, SkewAssumption DEF TokensSent, Now
    <3>2. ASSUME NEW r \in requests', NEW q \in Pods, Holding(q)', held'[q].token = r.token
          PROVE  r.pod = q /\ (r.kind \in Takes <=> phase'[q] = "claiming")
      <4>1. Kept(q)
        BY <2>0, <3>2 DEF PodsKeep, Dropped, Holding
      <4>2. /\ held[q].token = r.token /\ Holding(q)
            /\ phase'[q] = "claiming" <=> phase[q] = "claiming"
        BY <3>2, <4>1 DEF Kept, Holding
      <4> QED BY <1>0, <2>2, <4>2 DEF TokensSent
    <3>3. \A r \in requests' :
            /\ r.token \in 1..minted'
            /\ r.kind \in Takes => r.token \notin granted'
            /\ r.kind \notin Takes => r.token \in granted'
      BY <1>0, <2>0, <2>2 DEF TokensSent
    <3>4. \A r, s \in requests' :
            r.kind \in Takes /\ s.kind \in Takes /\ r.token = s.token => r = s
      BY <1>0, <2>2 DEF TokensSent
    <3> QED BY <3>1, <3>2, <3>3, <3>4 DEF TokensSent
  <2>3. ASSUME NEW p \in Pods, NEW kind \in (Writes \union {"heartbeat"}),
               Send(p, kind, held[p].token), phase[p] \notin {"idle", "claiming"},
               UNCHANGED <<clock, phase, held>>
        PROVE  TokensSent'
    <3> DEFINE new == [kind |-> kind, pod |-> p, token |-> held[p].token, at |-> Now(p)]
    <3>1. requests' = requests \union {new}
      BY <2>3 DEF Send
    <3>2. kind \notin Takes
      BY OwnWritesAssumption DEF Writes, Takes
    <3>3. held[p].token \in granted /\ held[p].token \in 1..minted /\ Now(p) \in Nat
      BY <1>0, <2>3, ClockTyped DEF TokensOwned, Holding
    <3>4. \A q \in Pods : Holding(q) /\ held[q].token = held[p].token => q = p
      BY <1>0, <2>3 DEF TokensOwned, Holding
    <3>5. \A r \in requests' :
            /\ r.token \in 1..minted'
            /\ r.at <= Now(r.pod)'
            /\ r.kind \in Takes => r.token \notin granted'
            /\ r.kind \notin Takes => r.token \in granted'
      <4>1. clock' = clock /\ Now(p) <= Now(p)
        BY <2>3, <3>3
      <4> QED BY <1>0, <2>0, <3>1, <3>2, <3>3, <4>1 DEF TokensSent, Now
    <3>6. \A r \in requests', q \in Pods : Holding(q)' /\ held'[q].token = r.token
            => r.pod = q /\ (r.kind \in Takes <=> phase'[q] = "claiming")
      BY <1>0, <2>3, <3>1, <3>2, <3>4 DEF TokensSent, Holding
    <3>7. \A r, s \in requests' :
            r.kind \in Takes /\ s.kind \in Takes /\ r.token = s.token => r = s
      BY <1>0, <3>1, <3>2 DEF TokensSent
    <3> QED BY <3>5, <3>6, <3>7 DEF TokensSent
  <2> QED BY <1>4, <2>2, <2>3, QuietRequests
<1> QED BY StepKinds, <1>2, <1>3, <1>4

(* The token invariant holds of every behaviour. *)
LEMMA TokenInvariance == Spec => []TokenInv
<1>1. Init => TokenInv
  BY DurationsAssumption DEF Init, TokenInv, TokensMinted, TokensOwned, TokensSent, Holding, NoLease
<1>2. TypeOK /\ TokenInv /\ [Next]_vars => TokenInv'
  BY MintedStep, OwnedStep, SentStep DEF TokenInv
<1> QED BY <1>1, <1>2, TypeCorrect, PTL DEF Spec

-----------------------------------------------------------------------------
(* The lease implements its promise *)

(* Every step of the lease is a step of the promise, or does not concern it. *)
LEMMA Simulation ==
  ASSUME TypeOK, TokenInv, [Next]_vars
  PROVE  [Job!Next]_(Job!vars)
<1> USE DEF coroutines, history, document
<1> DEFINE st == IF status = "leased" THEN "held" ELSE status
<1>0. TokensOwned /\ TokensSent /\ TokensMinted
  BY DEF TokenInv
<1>1. CASE UNCHANGED <<status, lease, granted, lastWriter>>
  BY <1>1 DEF Job!vars
<1>2. ASSUME NEW r \in requests, NEW answered \in BOOLEAN, TakeWins(r, answered)
      PROVE  Job!Next
  <2>1. r.token \in (1..MaxClaims) \ {0} /\ r.token \notin granted
    BY <1>0, <1>2, DurationsAssumption DEF TokensMinted, TokensSent, TakeWins, TypeOK
  <2>2. st \in {"absent", "open", "held"}
    BY <1>2 DEF TakeWins, Takable
  <2>3. /\ lease'.token = r.token /\ status' = "leased" /\ lastWriter' = lastWriter
        /\ granted' = granted \union {r.token}
    BY <1>2 DEF TakeWins, NewLease
  <2>4. Job!Take(r.token)
    BY <2>1, <2>2, <2>3 DEF Job!Take
  <2> QED BY <2>1, <2>4 DEF Job!Next
<1>3. ASSUME NEW r \in requests, NEW answered \in BOOLEAN, BeatRenews(r, answered)
      PROVE  UNCHANGED Job!vars
  BY <1>3 DEF BeatRenews, Fenced, NewLease, Job!vars
<1>4. ASSUME NEW r \in requests, NEW answered \in BOOLEAN, WriteLands(r, answered)
      PROVE  Job!Next
  <2>1. status = "leased" /\ lease.token = r.token /\ lastWriter' = r.token /\ granted' = granted
    BY <1>4 DEF WriteLands, Fenced
  <2>2. CASE r.kind \in Releasing
    <3>1. status' \in {"open", "done", "failed"} /\ lease'.token = 0
      BY <1>4, <2>2 DEF WriteLands, Releasing, StatusAfter, NoLease
    <3> QED BY <2>1, <3>1 DEF Job!Next, Job!Release
  <2>3. CASE r.kind \notin Releasing
    BY <1>4, <2>1, <2>3 DEF WriteLands, Job!Next, Job!Write
  <2> QED BY <2>2, <2>3
<1>5. ASSUME NEW p \in Pods, Reap(p) PROVE Job!Next
  BY <1>5 DEF Reap, Reapable, NoLease, Job!Next, Job!Expire
<1>6. ASSUME NEW r \in requests, TakeMisses(r) \/ BeatMisses(r) \/ WriteMisses(r) \/ Drop(r)
      PROVE  UNCHANGED <<document, history>>
  BY <1>6 DEF TakeMisses, BeatMisses, WriteMisses, Drop
<1>7. ASSUME NEW p \in Pods,
             \/ BeatSend(p) \/ SelfFence(p) \/ (\E kind \in OwnWrites : WriteSend(p, kind))
             \/ Return(p) \/ Raise(p) \/ Settle(p) \/ Cancel(p) \/ HookSend(p) \/ Stopped(p)
             \/ FailSend(p) \/ Crash(p)
      PROVE  UNCHANGED <<document, history>>
  BY <1>7 DEF BeatSend, SelfFence, WriteSend, Return, Raise, Settle, Cancel, HookSend, Stopped,
              FailSend, Crash
<1>8. Tick \/ UNCHANGED vars => UNCHANGED <<document, history>>
  BY DEF Tick, vars
<1>9. ASSUME NEW p \in Pods, NEW kind \in Takes, TakeSend(p, kind)
      PROVE  UNCHANGED <<status, lease, granted, lastWriter>>
  BY <1>9 DEF TakeSend
<1> QED
  BY StepKinds, <1>1, <1>2, <1>3, <1>4, <1>5, <1>6, <1>7, <1>8, <1>9 DEF Quiet

(* The lease of leased_job.py, with its delayed, lost and unanswered calls,  *)
(* its heartbeats, crashes and reapers, implements the job with one holder. *)
THEOREM Refinement == Spec => ExclusiveJobSpec
<1>1. Init => Job!Init
  BY DEF Init, Job!Init, NoLease
<1>2. TypeOK /\ TokenInv /\ [Next]_vars => [Job!Next]_(Job!vars)
  BY Simulation
<1> QED BY <1>1, <1>2, TypeCorrect, TokenInvariance, PTL DEF Spec, ExclusiveJobSpec, Job!Spec

(* The per-claim token fences: an execution whose lease was taken over or     *)
(* reaped never holds it again, and none of its late writes lands (leased_job *)
(* _fence). This needs no timing assumption.                                  *)
THEOREM SupersededNeverWrites == Spec => NoReturnAfterTakeover
<1> DEFINE A == \A token \in granted :
                  Superseded(token) =>
                    /\ Superseded(token)'
                    /\ lastWriter' = token => lastWriter = token
<1>1. TypeOK /\ TokenInv /\ [Next]_vars => [A]_vars
  <2> SUFFICES ASSUME TypeOK, TokenInv, [Next]_vars, NEW token \in granted, Superseded(token)
               PROVE  Superseded(token)' /\ (lastWriter' = token => lastWriter = token)
    OBVIOUS
  <2>1. token # 0 /\ lease.token # token
    BY DEF TokenInv, TokensMinted, Superseded
  <2>2. [Job!Next]_(Job!vars)
    BY Simulation
  <2>3. /\ granted \subseteq granted'
        /\ lease'.token # token
        /\ lastWriter' = token => lastWriter = token
    BY <2>1, <2>2 DEF Job!Next, Job!vars, Job!Take, Job!Write, Job!Release, Job!Expire
  <2> QED BY <2>3 DEF Superseded
<1> QED BY <1>1, TypeCorrect, TokenInvariance, PTL DEF Spec, NoReturnAfterTakeover

-----------------------------------------------------------------------------
(* Time *)

(* A pod through a step that is neither a take nor a renewal: it goes idle, *)
(* or keeps what it holds and at most winds its execution down.             *)
Steady(q) ==
  \/ phase'[q] = "idle" /\ work'[q] = "none"
  \/ /\ phase[q] # "idle"
     /\ held'[q] = held[q]
     /\ phase'[q] = "claiming" <=> phase[q] = "claiming"
     /\ phase'[q] = "executing" => phase[q] = "executing"
     /\ Working(q)' => Working(q)
  \/ UNCHANGED <<phase[q], held[q], work[q]>>

Renewal == \E r \in requests, answered \in BOOLEAN : BeatRenews(r, answered)

(* A pod that goes idle is steady, and so are the others. *)
LEMMA IdleSteady ==
  ASSUME TypeOK, NEW p \in Pods, Idle(p)
  PROVE  \A q \in Pods : Steady(q)
  BY DEF TypeOK, Idle, Steady

(* A step that leaves phases, leases and executions alone is steady. *)
LEMMA UnchangedSteady ==
  ASSUME UNCHANGED <<phase, held, work>>
  PROVE  \A q \in Pods : Steady(q)
  BY DEF Steady

(* The answer to a write at most winds an execution down. *)
LEMMA ReactionSteady ==
  ASSUME TypeOK, TokenInv, NEW r \in requests, r.kind \in Writes,
         NEW next \in {"running", "tail", "lost", "raised"}, Reaction(r, next)
  PROVE  \A q \in Pods : Steady(q)
<1>1. r.pod \in Pods
  BY DEF TypeOK, Requests
<1>2. CASE Awaited(r) /\ r.kind \in OwnWrites
  <2>1. /\ UNCHANGED <<phase, held>>
        /\ work' = IF Working(r.pod) THEN [work EXCEPT ![r.pod] = next] ELSE work
    BY <1>2 DEF Reaction, Idle
  <2>2. ASSUME NEW q \in Pods PROVE Steady(q)
    <3>1. CASE work'[q] = work[q]
      BY <2>1, <3>1 DEF Steady
    <3>2. CASE work'[q] # work[q]
      <4>1. q = r.pod /\ Working(q)
        BY <1>1, <2>1, <3>2 DEF TypeOK
      <4> QED BY <2>1, <4>1 DEF Steady, Working
    <3> QED BY <3>1, <3>2
  <2> QED BY <2>2
<1>3. CASE Awaited(r) /\ r.kind \notin OwnWrites /\ phase[r.pod] = "cancelling"
  <2>1. phase' = [phase EXCEPT ![r.pod] = "stopping"] /\ UNCHANGED <<held, work, beat>>
    BY <1>3 DEF Reaction
  <2> QED BY <1>1, <1>3, <2>1 DEF Steady, Working, TypeOK
<1>4. CASE Idle(r.pod)
  BY <1>1, <1>4, IdleSteady
<1>5. CASE UNCHANGED coroutines
  BY <1>5, UnchangedSteady DEF coroutines
<1> QED BY <1>2, <1>3, <1>4, <1>5 DEF Reaction

(* Every step that is neither a take nor a renewal is steady. *)
LEMMA QuietSteady ==
  ASSUME TypeOK, TokenInv, Quiet, ~Renewal
  PROVE  \A q \in Pods : Steady(q)
<1> USE DEF coroutines, history
<1>1. ASSUME Tick \/ UNCHANGED vars PROVE \A q \in Pods : Steady(q)
  BY <1>1, UnchangedSteady DEF Tick, vars
<1>2. ASSUME NEW p \in Pods,
             BeatSend(p) \/ (\E kind \in OwnWrites : WriteSend(p, kind)) \/ HookSend(p)
               \/ FailSend(p) \/ Reap(p) \/ SelfFence(p)
      PROVE  \A q \in Pods : Steady(q)
  BY <1>2, UnchangedSteady DEF BeatSend, WriteSend, HookSend, FailSend, Reap, SelfFence
<1>3. ASSUME NEW p \in Pods, Return(p) \/ Raise(p)
      PROVE  \A q \in Pods : Steady(q)
  BY <1>3 DEF Return, Raise, Steady, Working, TypeOK
<1>4. ASSUME NEW p \in Pods, Stopped(p) \/ Crash(p)
      PROVE  \A q \in Pods : Steady(q)
  BY <1>4, IdleSteady DEF Stopped, Crash
<1>5. ASSUME NEW p \in Pods, Settle(p) \/ Cancel(p)
      PROVE  \A q \in Pods : Steady(q)
  <2>1. CASE Idle(p)
    BY <2>1, IdleSteady
  <2>2. CASE ~Idle(p)
    <3>1. /\ phase[p] = "executing" /\ UNCHANGED <<held, work>>
          /\ \E b \in {"stopping", "cancelling", "failing"} : phase' = [phase EXCEPT ![p] = b]
      BY <1>5, <2>2 DEF Settle, Cancel
    <3> QED BY <3>1 DEF Steady, Working, TypeOK
  <2> QED BY <2>1, <2>2
<1>6. ASSUME NEW r \in requests, TakeMisses(r) \/ BeatMisses(r)
      PROVE  \A q \in Pods : Steady(q)
  <2>1. r.pod \in Pods
    BY DEF TypeOK, Requests
  <2> QED BY <1>6, <2>1, IdleSteady, UnchangedSteady DEF TakeMisses, BeatMisses
<1>7. ASSUME NEW r \in requests, NEW answered \in BOOLEAN, WriteLands(r, answered)
      PROVE  \A q \in Pods : Steady(q)
  <2> DEFINE next == IF ~answered THEN "raised"
                     ELSE IF r.kind \in Releasing THEN "tail" ELSE "running"
  <2>1. r.kind \in Writes /\ next \in {"running", "tail", "lost", "raised"} /\ Reaction(r, next)
    BY <1>7 DEF WriteLands
  <2> HIDE DEF next
  <2> QED BY <2>1, ReactionSteady
<1>8. ASSUME NEW r \in requests, WriteMisses(r)
      PROVE  \A q \in Pods : Steady(q)
  <2>1. PICK next \in MissedWrite(r) : Reaction(r, next)
    BY <1>8 DEF WriteMisses
  <2>2. next \in {"running", "tail", "lost", "raised"}
    BY DEF MissedWrite
  <2> QED BY <1>8, <2>1, <2>2, ReactionSteady DEF WriteMisses
<1>9. ASSUME NEW r \in requests, Drop(r)
      PROVE  \A q \in Pods : Steady(q)
  <2>1. r.pod \in Pods
    BY DEF TypeOK, Requests
  <2> QED BY <1>9, <2>1, IdleSteady, UnchangedSteady, ReactionSteady DEF Drop
<1> QED
  BY <1>1, <1>2, <1>3, <1>4, <1>5, <1>6, <1>7, <1>8, <1>9 DEF Quiet, Renewal

(* Nobody works on a job that is free, or whose lease is over on any clock. *)
LEMMA NobodyWorks ==
  ASSUME TypeOK, TokenInv, TimedInv, MarginCovers,
         NEW p \in Pods, Working(p), NEW q \in Pods, NEW at \in Nat, at <= Now(q)
  PROVE  status \notin {"absent", "open"} /\ ~(status = "leased" /\ lease.expires <= at)
<1>1. lease.token = held[p].token \/ status = "failed"
  BY DEF TimedInv, LeaseKept
<1>2. held[p].token # 0
  <2>1. Holding(p)
    BY DEF Working, Holding
  <2> QED BY <2>1 DEF TokenInv, TokensOwned, TypeOK
<1>3. status \notin {"absent", "open"}
  BY <1>1, <1>2 DEF TokenInv, TokensMinted
<1>4. SUFFICES ASSUME status = "leased", lease.expires <= at PROVE FALSE
  BY <1>3
<1>5. held[p].expires <= lease.expires
  BY <1>1, <1>4 DEF TimedInv, ExpiriesAgree
<1>6. /\ held[p].expires \in Nat /\ lease.expires \in Nat /\ clock \in Nat
      /\ Skew[p] \in Nat /\ Skew[q] \in Nat
  BY SkewAssumption DEF TypeOK, Leases
<1>7. Now(p) <= held[p].expires - Margin + Lag + Budget
  <2>1. Now(p) <= Deadline(p) + Lag + (IF phase[p] = "executing" THEN 0 ELSE Budget)
    BY DEF TimedInv, WorkEndsInTime
  <2> QED BY <1>6, <2>1, DurationsAssumption DEF Deadline, Now
<1>8. Skew[q] - Skew[p] + Lag + Budget < Margin
  BY DEF MarginCovers
<1> QED BY <1>4, <1>5, <1>6, <1>7, <1>8, DurationsAssumption DEF Now

(* Nothing a take matches is still being worked on. *)
LEMMA TakableUnworked ==
  ASSUME TypeOK, TokenInv, TimedInv, MarginCovers, NEW r \in requests, Takable(r),
         NEW p \in Pods, Working(p)
  PROVE  FALSE
<1>1. r.pod \in Pods /\ r.at \in Nat /\ r.at <= Now(r.pod)
  BY DEF TypeOK, Requests, TokenInv, TokensSent
<1> QED BY <1>1, NobodyWorks DEF Takable

(* Nor is anything the reaper matches. *)
LEMMA ReapableUnworked ==
  ASSUME TypeOK, TokenInv, TimedInv, MarginCovers, NEW q \in Pods, Reapable(q),
         NEW p \in Pods, Working(p)
  PROVE  FALSE
<1>1. Now(q) \in Nat /\ Now(q) <= Now(q)
  BY ClockTyped
<1> QED BY <1>1, NobodyWorks DEF Reapable

(* The timed invariant through a take that is sent ... *)
LEMMA TimedTakeSend ==
  ASSUME TypeOK, TokenInv, TimedInv, NEW p \in Pods, NEW kind \in Takes, TakeSend(p, kind)
  PROVE  TimedInv'
<1> DEFINE new == [kind |-> kind, pod |-> p, token |-> minted + 1, at |-> Now(p)]
<1>1. /\ requests' = requests \union {new} /\ phase[p] = "idle"
      /\ phase' = [phase EXCEPT ![p] = "claiming"]
      /\ held' = [held EXCEPT ![p] = [token |-> minted + 1, expires |-> Now(p) + Duration]]
      /\ UNCHANGED <<clock, status, lease, work, released, lastWriter>>
  BY DEF TakeSend, Send, document
<1>2. minted \in Nat /\ clock \in Nat /\ Skew[p] \in Nat /\ Now(p) \in Nat
      /\ Duration \in Nat /\ Margin \in Nat /\ Margin < Duration
  BY SkewAssumption, DurationsAssumption DEF TypeOK, Now
<1>3. /\ held'[p] = [token |-> minted + 1, expires |-> Now(p) + Duration]
      /\ phase'[p] = "claiming"
      /\ \A q \in Pods \ {p} : held'[q] = held[q] /\ phase'[q] = phase[q]
      /\ \A q \in Pods : Now(q)' = Now(q)
  BY <1>1 DEF TypeOK, Now
<1>4. \A q \in Pods : Working(q)' => q # p /\ Working(q)
  BY <1>1, <1>3 DEF Working
<1>5. \A r \in requests : r.token # minted + 1
  BY <1>2 DEF TokenInv, TokensSent
<1>6. \A q \in Pods \ {p} : Holding(q) => held[q].token # minted + 1
  BY <1>2 DEF TokenInv, TokensOwned
<1>7. kind # "heartbeat"
  BY DEF Takes
<1>8. ExpiriesAgree'
  <2>1. \A q \in Pods : Holding(q)' => held'[q].expires <= Now(q)' + Duration
    <3>1. ASSUME NEW q \in Pods, q # p, Holding(q)' PROVE held'[q].expires <= Now(q)' + Duration
      BY <1>3, <3>1 DEF Holding, TimedInv, ExpiriesAgree
    <3>2. held'[p].expires <= Now(p)' + Duration
      BY <1>2, <1>3
    <3> QED BY <3>1, <3>2
  <2>2. \A q \in Pods : Working(q)' /\ lease'.token = held'[q].token
          => held'[q].expires <= lease'.expires
    BY <1>1, <1>3, <1>4 DEF TimedInv, ExpiriesAgree
  <2>3. ASSUME NEW r \in requests', NEW q \in Pods, Holding(q)', held'[q].token = r.token
        PROVE  /\ r.kind \in Takes => held'[q].expires = r.at + Duration
               /\ r.kind = "heartbeat" => held'[q].expires <= r.at + Duration
    <3>1. CASE q = p
      BY <1>1, <1>3, <1>5, <1>7, <2>3, <3>1
    <3>2. CASE q # p
      BY <1>1, <1>3, <1>6, <2>3, <3>2 DEF Holding, TimedInv, ExpiriesAgree
    <3> QED BY <3>1, <3>2
  <2> QED BY <2>1, <2>2, <2>3 DEF ExpiriesAgree
<1>9. WorkEndsInTime'
  <2>1. Now(p)' <= Deadline(p)'
    BY <1>2, <1>3 DEF Deadline
  <2> QED BY <1>3, <1>4, <2>1 DEF TimedInv, WorkEndsInTime, Deadline
<1>10. LeaseKept'
  BY <1>1, <1>3, <1>4 DEF TimedInv, LeaseKept
<1>11. OneBeat'
  BY <1>1, <1>7 DEF TimedInv, OneBeat
<1> QED BY <1>8, <1>9, <1>10, <1>11 DEF TimedInv

(* ... through a take that lands ... *)
LEMMA TimedTakeWins ==
  ASSUME TypeOK, TokenInv, TimedInv, MarginCovers,
         NEW r \in requests, NEW answered \in BOOLEAN, TakeWins(r, answered)
  PROVE  TimedInv'
<1>1. /\ r.pod \in Pods /\ r.at \in Nat /\ requests' = requests \ {r} /\ r.kind \in Takes
      /\ lease' = [token |-> r.token, expires |-> r.at + Duration]
      /\ UNCHANGED <<clock, released, lastWriter>>
  BY DEF TakeWins, NewLease, TypeOK, Requests
<1>2. \A q \in Pods : ~Working(q)
  BY TakableUnworked DEF TakeWins
<1>3. \A q \in Pods : Now(q)' = Now(q)
  BY <1>1 DEF Now
<1>4. \/ Idle(r.pod)
      \/ UNCHANGED coroutines
      \/ /\ Awaited(r) /\ held' = held
         /\ phase' = [phase EXCEPT ![r.pod] = "executing"]
         /\ work' = [work EXCEPT ![r.pod] = "running"]
  BY DEF TakeWins
<1>5. Awaited(r) => /\ phase[r.pod] = "claiming" /\ held[r.pod].token = r.token
                    /\ held[r.pod].expires = r.at + Duration
                    /\ Now(r.pod) <= Deadline(r.pod)
  BY <1>1 DEF Awaited, TokenInv, TokensSent, TimedInv, ExpiriesAgree, WorkEndsInTime, Holding
<1>6. ASSUME NEW q \in Pods
      PROVE  /\ Holding(q)' => held'[q] = held[q] /\ Holding(q)
             /\ phase'[q] = "claiming" => phase[q] = "claiming"
             /\ Working(q)' => q = r.pod /\ Awaited(r) /\ phase'[q] = "executing"
  BY <1>1, <1>2, <1>4, <1>5 DEF Idle, coroutines, Holding, Working, TypeOK
<1>7. ExpiriesAgree'
  <2>1. \A q \in Pods : Holding(q)' => held'[q].expires <= Now(q)' + Duration
    BY <1>3, <1>6 DEF TimedInv, ExpiriesAgree
  <2>2. ASSUME NEW q \in Pods, Working(q)' PROVE held'[q].expires <= lease'.expires
    <3>1. Holding(q)' /\ q = r.pod /\ Awaited(r)
      BY <1>6, <2>2 DEF Working, Holding
    <3>2. held'[q].expires = r.at + Duration /\ r.at + Duration \in Nat
      BY <1>1, <1>5, <1>6, <3>1, DurationsAssumption
    <3> QED BY <1>1, <3>2
  <2>3. \A s \in requests', q \in Pods : Holding(q)' /\ held'[q].token = s.token
          => /\ s.kind \in Takes => held'[q].expires = s.at + Duration
             /\ s.kind = "heartbeat" => held'[q].expires <= s.at + Duration
    BY <1>1, <1>6 DEF TimedInv, ExpiriesAgree
  <2> QED BY <2>1, <2>2, <2>3 DEF ExpiriesAgree
<1>8. WorkEndsInTime'
  <2>1. \A q \in Pods : phase'[q] = "claiming" => Now(q)' <= Deadline(q)'
    <3>1. ASSUME NEW q \in Pods, phase'[q] = "claiming" PROVE Now(q)' <= Deadline(q)'
      <4>1. Holding(q)' /\ phase[q] = "claiming"
        BY <1>6, <3>1 DEF Holding
      <4>2. Now(q) <= Deadline(q) /\ held'[q] = held[q]
        BY <1>6, <4>1 DEF TimedInv, WorkEndsInTime
      <4> QED BY <1>3, <4>2 DEF Deadline
    <3> QED BY <3>1
  <2>2. ASSUME NEW q \in Pods, Working(q)'
        PROVE  Now(q)' <= Deadline(q)' + Lag + (IF phase'[q] = "executing" THEN 0 ELSE Budget)
    <3>1. q = r.pod /\ Awaited(r) /\ phase'[q] = "executing" /\ Holding(q)'
      BY <1>6, <2>2 DEF Working, Holding
    <3>2. Now(q)' <= Deadline(q)'
      BY <1>3, <1>5, <1>6, <3>1 DEF Deadline
    <3>3. Now(q)' \in Int /\ Deadline(q)' \in Int /\ Lag \in Nat
      <4>1. held[q].expires \in Nat /\ held'[q] = held[q] /\ Now(q) \in Nat
        BY <1>6, <3>1, ClockTyped DEF TypeOK, Leases
      <4> QED BY <1>3, <4>1, DurationsAssumption DEF Deadline
    <3> QED BY <3>1, <3>2, <3>3
  <2> QED BY <2>1, <2>2 DEF WorkEndsInTime
<1>9. LeaseKept'
  <2>1. ASSUME NEW q \in Pods, Working(q)' PROVE lease'.token = held'[q].token
    <3>1. Holding(q)'
      BY <2>1 DEF Working, Holding
    <3> QED BY <1>1, <1>5, <1>6, <2>1, <3>1
  <2> QED BY <2>1 DEF LeaseKept
<1>10. OneBeat'
  BY <1>1 DEF TimedInv, OneBeat
<1> QED BY <1>7, <1>8, <1>9, <1>10 DEF TimedInv

(* ... through a renewal that lands ... *)
LEMMA TimedRenews ==
  ASSUME TypeOK, TokenInv, TimedInv,
         NEW r \in requests, NEW answered \in BOOLEAN, BeatRenews(r, answered)
  PROVE  TimedInv'
<1>1. /\ r.pod \in Pods /\ r.at \in Nat /\ r.at <= Now(r.pod) /\ requests' = requests \ {r}
      /\ r.kind = "heartbeat" /\ lease.token = r.token
      /\ lease' = [token |-> r.token, expires |-> r.at + Duration]
      /\ UNCHANGED <<clock, status, phase, work, released, lastWriter>>
  BY DEF BeatRenews, Fenced, NewLease, TypeOK, Requests, TokenInv, TokensSent, history
<1>2. \A q \in Pods : /\ Now(q)' = Now(q) /\ Now(q) \in Nat /\ held[q].expires \in Nat
                      /\ Holding(q)' = Holding(q) /\ Working(q)' = Working(q)
  BY <1>1, ClockTyped DEF Now, Holding, Working, TypeOK, Leases
<1>3. \A q \in Pods : Holding(q) /\ held[q].token = r.token
        => q = r.pod /\ held[q].expires <= r.at + Duration
  BY <1>1 DEF TokenInv, TokensSent, TimedInv, ExpiriesAgree
<1>4. \A q \in Pods :
        \/ held'[q] = held[q]
        \/ /\ q = r.pod /\ Holding(q) /\ phase[q] # "claiming" /\ held[q].token = r.token
           /\ held'[q] = [token |-> r.token, expires |-> r.at + Duration]
  <2>1. CASE held' = held
    BY <2>1
  <2>2. CASE held' # held
    <3>1. /\ held' = [held EXCEPT ![r.pod] = [token |-> r.token, expires |-> r.at + Duration]]
          /\ Awaited(r) /\ Beating(r.pod)
      BY <2>2 DEF BeatRenews, NewLease
    <3>2. Holding(r.pod) /\ phase[r.pod] # "claiming" /\ held[r.pod].token = r.token
      BY <3>1 DEF Awaited, Beating, Holding
    <3> QED BY <1>1, <3>1, <3>2 DEF TypeOK
  <2> QED BY <2>1, <2>2
<1>5. \A q \in Pods : Working(q) => Holding(q)
  BY DEF Working, Holding
<1>6. Duration \in Nat /\ Margin \in Nat /\ Lag \in Nat /\ Budget \in Nat
  BY DurationsAssumption
<1>7. ExpiriesAgree'
  <2>1. ASSUME NEW q \in Pods, Holding(q) PROVE held'[q].expires <= Now(q) + Duration
    <3>1. held[q].expires <= Now(q) + Duration
      BY <2>1 DEF TimedInv, ExpiriesAgree
    <3> QED BY <1>1, <1>2, <1>4, <1>6, <3>1
  <2>2. ASSUME NEW q \in Pods, Working(q), lease'.token = held'[q].token
        PROVE  held'[q].expires <= lease'.expires
    <3>1. held[q].token = r.token /\ held[q].expires <= r.at + Duration
      BY <1>1, <1>3, <1>4, <1>5, <2>2
    <3> QED BY <1>1, <1>4, <1>6, <3>1
  <2>3. ASSUME NEW s \in requests', NEW q \in Pods, Holding(q), held'[q].token = s.token
        PROVE  /\ s.kind \in Takes => held'[q].expires = s.at + Duration
               /\ s.kind = "heartbeat" => held'[q].expires <= s.at + Duration
    <3>1. held[q].token = s.token /\ s \in requests /\ s # r
      BY <1>1, <1>4, <2>3
    <3>2. CASE held'[q] = held[q]
      BY <2>3, <3>1, <3>2 DEF TimedInv, ExpiriesAgree
    <3>3. CASE held'[q] # held[q]
      <4>1. s.token = r.token /\ phase[q] # "claiming"
        BY <1>4, <3>1, <3>3
      <4>2. s.kind # "heartbeat"
        BY <1>1, <3>1, <4>1 DEF TimedInv, OneBeat
      <4>3. s.kind \notin Takes
        BY <2>3, <3>1, <4>1 DEF TokenInv, TokensSent
      <4> QED BY <4>2, <4>3
    <3> QED BY <3>2, <3>3
  <2>4. /\ \A q \in Pods : Holding(q)' => held'[q].expires <= Now(q)' + Duration
        /\ \A q \in Pods : Working(q)' /\ lease'.token = held'[q].token
             => held'[q].expires <= lease'.expires
    BY <1>2, <2>1, <2>2
  <2>5. \A s \in requests', q \in Pods : Holding(q)' /\ held'[q].token = s.token
          => /\ s.kind \in Takes => held'[q].expires = s.at + Duration
             /\ s.kind = "heartbeat" => held'[q].expires <= s.at + Duration
    BY <1>2, <2>3
  <2> QED BY <2>4, <2>5 DEF ExpiriesAgree
<1>8. WorkEndsInTime'
  <2>1. ASSUME NEW q \in Pods, Holding(q) PROVE Deadline(q)' >= Deadline(q)
    BY <1>1, <1>2, <1>3, <1>4, <1>6, <2>1 DEF Deadline
  <2>2. ASSUME NEW q \in Pods, phase[q] = "claiming" PROVE Now(q)' <= Deadline(q)'
    <3>1. Now(q) <= Deadline(q) /\ held'[q] = held[q]
      BY <1>4, <2>2 DEF TimedInv, WorkEndsInTime
    <3> QED BY <1>2, <3>1 DEF Deadline
  <2>3. ASSUME NEW q \in Pods, Working(q)
        PROVE  Now(q)' <= Deadline(q)' + Lag + (IF phase'[q] = "executing" THEN 0 ELSE Budget)
    <3>1. Now(q) <= Deadline(q) + Lag + (IF phase[q] = "executing" THEN 0 ELSE Budget)
      BY <2>3 DEF TimedInv, WorkEndsInTime
    <3>2. Deadline(q)' >= Deadline(q) /\ Deadline(q)' \in Int /\ Deadline(q) \in Int
      BY <1>1, <1>2, <1>4, <1>5, <1>6, <2>1, <2>3 DEF Deadline
    <3> QED BY <1>1, <1>2, <1>6, <3>1, <3>2
  <2> QED BY <1>1, <1>2, <2>2, <2>3 DEF WorkEndsInTime
<1>9. LeaseKept'
  BY <1>1, <1>2, <1>4 DEF TimedInv, LeaseKept
<1>10. OneBeat'
  BY <1>1 DEF TimedInv, OneBeat
<1> QED BY <1>7, <1>8, <1>9, <1>10 DEF TimedInv

(* ... and any other step, each part in its turn. *)
LEMMA TimedQuiet ==
  ASSUME ~Stalls, MarginCovers, TypeOK, TokenInv, TimedInv, Quiet, ~Renewal
  PROVE  TimedInv'
<1> USE DEF coroutines, document, history
<1>0. \A q \in Pods : Steady(q)
  BY QuietSteady
<1>1. \A q \in Pods :
        /\ Holding(q)' => held'[q] = held[q] /\ Holding(q)
        /\ phase'[q] = "claiming" => phase[q] = "claiming"
        /\ Working(q)' => Working(q) /\ Holding(q)' /\ held'[q] = held[q]
                          /\ (phase'[q] = "executing" => phase[q] = "executing")
  BY <1>0 DEF Steady, Holding, Working
<1>2. \A q \in Pods : Holding(q) => held[q].token # 0
  BY DEF TokenInv, TokensOwned, TypeOK
<1>3. clock' = clock \/ (clock' = clock + 1 /\ \A p \in Pods : Timely(p))
  <2>1. Tick => clock' = clock + 1 /\ \A p \in Pods : Timely(p)
    BY DEF Tick
  <2>2. ASSUME NEW p \in Pods,
               \/ BeatSend(p) \/ SelfFence(p) \/ (\E kind \in OwnWrites : WriteSend(p, kind))
               \/ Return(p) \/ Raise(p) \/ Settle(p) \/ Cancel(p) \/ HookSend(p) \/ Stopped(p)
               \/ FailSend(p) \/ Crash(p) \/ Reap(p)
        PROVE  clock' = clock
    BY <2>2 DEF BeatSend, SelfFence, WriteSend, Return, Raise, Settle, Cancel, HookSend, Stopped,
                FailSend, Crash, Reap
  <2>3. ASSUME NEW r \in requests,
               \/ TakeMisses(r) \/ BeatMisses(r)
               \/ (\E answered \in BOOLEAN : WriteLands(r, answered))
               \/ WriteMisses(r) \/ Drop(r)
        PROVE  clock' = clock
    BY <2>3 DEF TakeMisses, BeatMisses, WriteLands, WriteMisses, Drop
  <2>4. UNCHANGED vars => clock' = clock
    BY DEF vars
  <2> QED BY <2>1, <2>2, <2>3, <2>4 DEF Quiet, Renewal
<1>4. \A q \in Pods : /\ Now(q) \in Nat /\ held[q].expires \in Nat /\ Now(q)' \in Nat
                      /\ Now(q) <= Now(q)'
                      /\ Now(q)' = Now(q) \/ (Now(q)' = Now(q) + 1 /\ Timely(q))
  BY <1>3, SkewAssumption DEF TypeOK, Leases, Now
<1>5. Duration \in Nat /\ Margin \in Nat /\ Lag \in Nat /\ Budget \in Nat
  BY DurationsAssumption
(* What happens to the document while somebody still works on it. *)
<1>6. ASSUME NEW q \in Pods, Working(q)'
      PROVE  \/ lease' = lease /\ UNCHANGED <<status, released>>
                  /\ (lastWriter' = lastWriter \/ status = "leased")
             \/ /\ lease.token = held[q].token /\ lease'.token = 0
                /\ status' = "failed" /\ held[q].token \in released' /\ lastWriter' = held[q].token
  <2>1. Working(q) /\ Holding(q)
    BY <1>1, <1>6 DEF Working, Holding
  <2>2. ASSUME NEW r \in requests, NEW answered \in BOOLEAN, WriteLands(r, answered),
               r.kind \in Releasing
        PROVE  /\ lease.token = held[q].token /\ lease'.token = 0
               /\ status' = "failed" /\ held[q].token \in released' /\ lastWriter' = held[q].token
    <3>1. /\ status = "leased" /\ lease.token = r.token /\ status' = StatusAfter[r.kind]
          /\ lease' = NoLease /\ released' = released \union {r.token} /\ lastWriter' = r.token
      BY <2>2 DEF WriteLands, Fenced
    <3>2. held[q].token = r.token
      BY <2>1, <3>1 DEF TimedInv, LeaseKept
    <3>3. r.kind \notin Takes /\ r.pod = q
      <4>1. r.kind \in Writes
        BY <2>2 DEF WriteLands
      <4> QED BY <2>1, <3>2, <4>1, OwnWritesAssumption DEF Takes, Writes, TokenInv, TokensSent
    <3>4. CASE r.kind \in OwnWrites
      <4>1. work' = [work EXCEPT ![q] = IF ~answered THEN "raised" ELSE "tail"]
        BY <2>1, <2>2, <3>2, <3>3, <3>4 DEF WriteLands, Reaction, Awaited, Holding, Idle
      <4>2. work'[q] # "running"
        BY <4>1 DEF TypeOK
      <4> QED BY <1>6, <4>2 DEF Working
    <3>5. CASE r.kind \notin OwnWrites
      <4>1. r.kind = "abort"
        BY <2>2, <3>5 DEF WriteLands, Writes, Releasing, StatusAfter
      <4> QED BY <3>1, <3>2, <4>1 DEF StatusAfter, NoLease
    <3> QED BY <3>4, <3>5
  <2>3. ASSUME NEW r \in requests, NEW answered \in BOOLEAN, WriteLands(r, answered),
               r.kind \notin Releasing
        PROVE  lease' = lease /\ UNCHANGED <<status, released>> /\ status = "leased"
    BY <2>3 DEF WriteLands, Fenced
  <2>4. ASSUME NEW p \in Pods, Reap(p) PROVE FALSE
    BY <2>1, <2>4, ReapableUnworked DEF Reap
  <2>5. ASSUME NEW p \in Pods,
               \/ BeatSend(p) \/ SelfFence(p) \/ (\E kind \in OwnWrites : WriteSend(p, kind))
               \/ Return(p) \/ Raise(p) \/ Settle(p) \/ Cancel(p) \/ HookSend(p) \/ Stopped(p)
               \/ FailSend(p) \/ Crash(p)
        PROVE  UNCHANGED <<document, history>>
    BY <2>5 DEF BeatSend, SelfFence, WriteSend, Return, Raise, Settle, Cancel, HookSend, Stopped,
                FailSend, Crash
  <2>6. ASSUME NEW r \in requests, TakeMisses(r) \/ BeatMisses(r) \/ WriteMisses(r) \/ Drop(r)
        PROVE  UNCHANGED <<document, history>>
    BY <2>6 DEF TakeMisses, BeatMisses, WriteMisses, Drop
  <2>7. Tick \/ UNCHANGED vars => UNCHANGED <<document, history>>
    BY DEF Tick, vars
  <2> QED BY <2>2, <2>3, <2>4, <2>5, <2>6, <2>7 DEF Quiet, Renewal
<1>7. \/ requests' \subseteq requests
      \/ \E p \in Pods, kind \in (Writes \union {"heartbeat"}) :
           /\ Send(p, kind, held[p].token)
           /\ kind = "heartbeat" => ~Waiting(p, {"heartbeat"})
           /\ phase[p] \notin {"idle", "claiming"}
           /\ UNCHANGED <<clock, phase, held>>
  BY QuietRequests
<1>8. ExpiriesAgree'
  <2>1. ASSUME NEW q \in Pods, Holding(q)' PROVE held'[q].expires <= Now(q)' + Duration
    <3>1. held[q].expires <= Now(q) + Duration /\ held'[q] = held[q]
      BY <1>1, <2>1 DEF TimedInv, ExpiriesAgree
    <3> QED BY <1>4, <1>5, <3>1
  <2>2. ASSUME NEW q \in Pods, Working(q)', lease'.token = held'[q].token
        PROVE  held'[q].expires <= lease'.expires
    <3>1. Working(q) /\ Holding(q) /\ held'[q] = held[q]
      BY <1>1, <2>2 DEF Working, Holding
    <3>2. lease' = lease
      BY <1>2, <1>6, <2>2, <3>1
    <3> QED BY <2>2, <3>1, <3>2 DEF TimedInv, ExpiriesAgree
  <2>3. ASSUME NEW r \in requests', NEW q \in Pods, Holding(q)', held'[q].token = r.token
        PROVE  /\ r.kind \in Takes => held'[q].expires = r.at + Duration
               /\ r.kind = "heartbeat" => held'[q].expires <= r.at + Duration
    <3>1. held'[q] = held[q] /\ Holding(q)
      BY <1>1, <2>3
    <3>2. CASE r \in requests
      BY <2>3, <3>1, <3>2 DEF TimedInv, ExpiriesAgree
    <3>3. CASE r \notin requests
      <4>1. PICK p \in Pods, kind \in (Writes \union {"heartbeat"}) :
              Send(p, kind, held[p].token) /\ phase[p] \notin {"idle", "claiming"}
        BY <1>7, <3>3
      <4>2. r = [kind |-> kind, pod |-> p, token |-> held[p].token, at |-> Now(p)]
        BY <3>3, <4>1 DEF Send
      <4>3. kind \notin Takes
        BY OwnWritesAssumption DEF Writes, Takes
      <4>4. q = p
        BY <2>3, <3>1, <4>1, <4>2 DEF TokenInv, TokensOwned, Holding
      <4>5. held[q].expires <= Now(p) + Duration
        BY <3>1, <4>4 DEF TimedInv, ExpiriesAgree
      <4> QED BY <3>1, <4>2, <4>3, <4>5
    <3> QED BY <3>2, <3>3
  <2> QED BY <2>1, <2>2, <2>3 DEF ExpiriesAgree
<1>9. WorkEndsInTime'
  <2>1. ASSUME NEW q \in Pods, phase'[q] = "claiming" PROVE Now(q)' <= Deadline(q)'
    <3>1. phase[q] = "claiming" /\ held'[q] = held[q]
      BY <1>1, <2>1 DEF Holding
    <3>2. Now(q) <= Deadline(q)
      BY <3>1 DEF TimedInv, WorkEndsInTime
    <3> QED BY <1>4, <1>5, <3>1, <3>2 DEF Timely, Deadline
  <2>2. ASSUME NEW q \in Pods, Working(q)'
        PROVE  Now(q)' <= Deadline(q)' + Lag + (IF phase'[q] = "executing" THEN 0 ELSE Budget)
    <3>1. Working(q) /\ held'[q] = held[q] /\ (phase'[q] = "executing" => phase[q] = "executing")
      BY <1>1, <2>2
    <3>2. Now(q) <= Deadline(q) + Lag + (IF phase[q] = "executing" THEN 0 ELSE Budget)
      BY <3>1 DEF TimedInv, WorkEndsInTime
    <3>3. Timely(q) =>
            Now(q) < Deadline(q) + Lag + (IF phase[q] = "executing" THEN 0 ELSE Budget)
      BY <3>1 DEF Timely
    <3>4. Deadline(q)' = Deadline(q) /\ Deadline(q) \in Int
      BY <1>4, <1>5, <3>1 DEF Deadline
    <3> QED BY <1>4, <1>5, <3>1, <3>2, <3>3, <3>4
  <2> QED BY <2>1, <2>2 DEF WorkEndsInTime
<1>10. LeaseKept'
  <2>1. ASSUME NEW q \in Pods, Working(q)'
        PROVE  \/ lease'.token = held'[q].token
               \/ /\ status' = "failed" /\ held'[q].token \in released'
                  /\ lastWriter' = held'[q].token
    <3>1. Working(q) /\ held'[q] = held[q]
      BY <1>1, <2>1
    <3> QED BY <1>6, <2>1, <3>1 DEF TimedInv, LeaseKept
  <2> QED BY <2>1 DEF LeaseKept
<1>11. OneBeat'
  <2>1. CASE requests' \subseteq requests
    BY <2>1 DEF TimedInv, OneBeat
  <2>2. ASSUME NEW p \in Pods, NEW kind \in (Writes \union {"heartbeat"}),
               Send(p, kind, held[p].token), kind = "heartbeat" => ~Waiting(p, {"heartbeat"}),
               phase[p] \notin {"idle", "claiming"}
        PROVE  OneBeat'
    <3> DEFINE new == [kind |-> kind, pod |-> p, token |-> held[p].token, at |-> Now(p)]
    <3>1. requests' = requests \union {new}
      BY <2>2 DEF Send
    <3>2. ASSUME NEW r \in requests, r.kind = "heartbeat", r.token = held[p].token
          PROVE  kind # "heartbeat"
      BY <2>2, <3>2 DEF Waiting, TokenInv, TokensSent, Holding
    <3> QED BY <3>1, <3>2 DEF TimedInv, OneBeat
  <2> QED BY <1>7, <2>1, <2>2
<1> QED BY <1>8, <1>9, <1>10, <1>11 DEF TimedInv

(* The timed invariant holds where pods make progress and the margin covers. *)
LEMMA TimedInvariance ==
  ASSUME ~Stalls, MarginCovers
  PROVE  Spec => []TimedInv
<1>1. Init => TimedInv
  BY DurationsAssumption DEF Init, TimedInv, ExpiriesAgree, WorkEndsInTime, LeaseKept, OneBeat,
                             Working, Holding
<1>2. TypeOK /\ TokenInv /\ TimedInv /\ [Next]_vars => TimedInv'
  <2> SUFFICES ASSUME TypeOK, TokenInv, TimedInv, [Next]_vars PROVE TimedInv'
    OBVIOUS
  <2>1. CASE Quiet /\ ~Renewal
    BY <2>1, TimedQuiet
  <2>2. CASE Renewal
    BY <2>2, TimedRenews DEF Renewal
  <2> QED BY StepKinds, TimedTakeSend, TimedTakeWins, <2>1, <2>2
<1> QED BY <1>1, <1>2, TypeCorrect, TokenInvariance, PTL DEF Spec

(* Where pods keep making progress and the self-fence margin covers clock skew, *)
(* a late self-fence and the shutdown budget, an execution holds the lease for  *)
(* as long as it works, and no two pods execute the job at once.                *)
THEOREM Exclusive ==
  ASSUME ~Stalls, MarginCovers
  PROVE  Spec => [](HoldsWhileWorking /\ ExclusiveExecution)
<1>1. TypeOK /\ TokenInv /\ TimedInv => HoldsWhileWorking /\ ExclusiveExecution
  <2> SUFFICES ASSUME TypeOK, TokenInv, TimedInv
               PROVE  HoldsWhileWorking /\ ExclusiveExecution
    OBVIOUS
  <2>1. HoldsWhileWorking
    BY DEF TimedInv, LeaseKept, HoldsWhileWorking
  <2>2. ASSUME NEW p \in Pods, NEW q \in Pods, Working(p), Working(q) PROVE p = q
    <3>1. Holding(p) /\ Holding(q)
      BY <2>2 DEF Working, Holding
    <3>2. held[p].token # 0 /\ held[q].token # 0
      BY <3>1 DEF TokenInv, TokensOwned, TypeOK
    <3>3. held[p].token = held[q].token
      BY <2>2, <3>2 DEF TimedInv, LeaseKept, TokenInv, TokensMinted
    <3> QED BY <3>1, <3>3 DEF TokenInv, TokensOwned
  <2> QED BY <2>1, <2>2 DEF ExclusiveExecution
<1> QED BY <1>1, TypeCorrect, TokenInvariance, TimedInvariance, PTL

(* Under the same assumptions a write that a working execution waits for is *)
(* accepted however late it lands, unless the shutdown hook of the same     *)
(* claim ended the job: the False that transition gives to callers that     *)
(* ignore it never hides a lost job.                                        *)
THEOREM WritesAccepted ==
  ASSUME ~Stalls, MarginCovers
  PROVE  Spec => []WorkersWritesAccepted
<1>1. TypeOK /\ TokenInv /\ TimedInv => WorkersWritesAccepted
  <2> SUFFICES ASSUME TypeOK, TokenInv, TimedInv, NEW r \in requests, Awaited(r),
                      Working(r.pod), r.token \notin released
               PROVE  Fenced(r)
    BY DEF WorkersWritesAccepted
  <2> DEFINE p == r.pod
  <2>1. p \in Pods /\ held[p].token = r.token /\ r.token # 0
    BY DEF TypeOK, Requests, Awaited, TokenInv, TokensSent
  <2>2. lease.token = r.token
    BY <2>1 DEF TimedInv, LeaseKept
  <2>3. status = "leased"
    BY <2>1, <2>2 DEF TokenInv, TokensMinted
  <2>4. held[p].expires <= lease.expires
    BY <2>1, <2>2 DEF TimedInv, ExpiriesAgree
  <2>5. /\ held[p].expires \in Int /\ lease.expires \in Int /\ r.at \in Int
        /\ Now(p) \in Int /\ Skew[p] \in Int
    BY <2>1, SkewAssumption DEF TypeOK, Leases, Requests, Now
  <2>6. Now(p) < held[p].expires
    <3>1. Now(p) <= Deadline(p) + Lag + Budget
      BY <2>1, <2>5, DurationsAssumption DEF TimedInv, WorkEndsInTime, Deadline
    <3>2. Skew[p] - Skew[p] + Lag + Budget < Margin
      BY <2>1 DEF MarginCovers
    <3> QED BY <2>5, <3>1, <3>2, DurationsAssumption DEF Deadline
  <2>7. r.at <= Now(p)
    BY DEF TokenInv, TokensSent
  <2> HIDE DEF p
  <2>8. lease.expires > r.at
    BY <2>4, <2>5, <2>6, <2>7
  <2> QED BY <2>2, <2>3, <2>8 DEF Fenced
<1> QED BY <1>1, TypeCorrect, TokenInvariance, TimedInvariance, PTL

-----------------------------------------------------------------------------
(* What ended stays ended *)

(* A terminal status is final.  The finish and the shutdown hook of one        *)
(* execution, a late claim and the reaper all race to end the job: one of them *)
(* does (every filter of leased_job.py names the status it expects).           *)
THEOREM TerminalIsFinal == Spec => FinishedOnce
<1>1. TypeOK /\ TokenInv /\ [Next]_vars => [(status \in Terminal) => status' = status]_vars
  <2> SUFFICES ASSUME TypeOK, TokenInv, [Next]_vars, status \in Terminal PROVE status' = status
    OBVIOUS
  <2>1. [Job!Next]_(Job!vars)
    BY Simulation
  <2>2. status \in {"done", "failed"}
    BY DEF Terminal
  <2> QED
    BY <2>1, <2>2 DEF Job!Next, Job!vars, Job!Take, Job!Write, Job!Release, Job!Expire
<1> QED BY <1>1, TypeCorrect, TokenInvariance, PTL DEF Spec, FinishedOnce
=============================================================================
