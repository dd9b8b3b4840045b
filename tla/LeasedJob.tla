------------------------------ MODULE LeasedJob ------------------------------
(***************************************************************************)
(* The durable lease of registry_pkgs.database.leased_job: one document in *)
(* MongoDB, the pods that take, renew, write under and release a lease on  *)
(* it (LeasedRepository), the coupling of an execution to its heartbeat    *)
(* (keep_lease_alive, run_with_lease) and the two ways a lease that fell   *)
(* silent is recovered (a re-claim by the poll loop, or the reaper).       *)
(*                                                                         *)
(* Every MongoDB call is two steps, for the code reads its clock before    *)
(* the call and the server evaluates the filter later: a request stamped   *)
(* with the caller's clock enters "requests", and some later step lands    *)
(* it, with or without an answer, or drops it.  A request outlives the     *)
(* coroutine that sent it.                                                 *)
(***************************************************************************)
EXTENDS Integers

CONSTANTS
  Pods,        \* the executors, each with at most one execution of the job
  Skew,        \* Skew[p]: how far the clock of pod p is ahead of "clock"
  Duration,    \* LeaseSpec.duration
  Margin,      \* LeaseSpec.self_fence_margin
  Lag,         \* how late a pod may notice that its self-fence deadline passed
  Budget,      \* how long a cancelled execution may take to end (FINALIZE_BUDGET)
  Polls,       \* TRUE: clients of LeasedJobRunner (skill sync, reindex, leaders);
               \* FALSE: launched jobs (workflow runs, federation syncs)
  OwnWrites,   \* the kinds of fenced write the execution makes
  Stalls,      \* TRUE: a pod may stop making progress for any time
  Horizon,     \* bound: no lease is taken or renewed past this time
  MaxClaims    \* bound: the claims attempted

ASSUME DurationsAssumption ==
  /\ Duration \in Nat /\ Margin \in Nat /\ Lag \in Nat /\ Budget \in Nat
  /\ Margin < Duration
  /\ Horizon \in Nat /\ MaxClaims \in Nat

ASSUME SkewAssumption == Skew \in [Pods -> Nat]

ASSUME OwnWritesAssumption ==
  OwnWrites \subseteq (IF Polls THEN {"progress", "finish"} ELSE {"progress", "finish", "park"})

ASSUME FlagsAssumption == {Polls, Stalls} \subseteq BOOLEAN

VARIABLES
  clock,       \* real time
  status,      \* the document's status, "absent" before it is inserted
  lease,       \* the document's lease fields
  requests,    \* MongoDB calls under way
  phase,       \* where each pod is in the claim / run_with_lease sequence
  held,        \* the Lease each pod holds: token, and expiry as last renewed
  work,        \* the execution coroutine
  beat,        \* the heartbeat coroutine
  minted,      \* tokens minted so far (uuid4().hex: never the same twice)
  granted,     \* history: the tokens that ever held the lease
  released,    \* history: the tokens released by a write of their own execution
  lastWriter   \* history: the token of the last fenced write that landed

document == <<status, lease>>
coroutines == <<phase, held, work, beat>>
history == <<minted, granted, released, lastWriter>>
vars == <<clock, document, requests, coroutines, history>>

-----------------------------------------------------------------------------
(* Leases, requests and clocks *)

Statuses == {"absent", "open", "leased", "done", "failed"}
Terminal == {"done", "failed"}
Phases == {"idle", "claiming", "executing", "cancelling", "stopping", "failing"}

NoLease == [token |-> 0, expires |-> 0]
Leases == [token : Nat, expires : Nat]

Takes == IF Polls THEN {"claim"} ELSE {"acquire", "insert"}
StatusAfter == [finish |-> "done", park |-> "open", abort |-> "failed"]
Releasing == DOMAIN StatusAfter
Writes == OwnWrites \union {"abort", "record"}
Requests ==
  [kind : Takes \union Writes \union {"heartbeat"}, pod : Pods, token : Nat, at : Nat]

Now(p) == clock + Skew[p]

(* What a take or a renewal writes: the expiry counts from the stamp. *)
NewLease(r) == [token |-> r.token, expires |-> r.at + Duration]

Send(p, kind, token) ==
  requests' = requests \union {[kind |-> kind, pod |-> p, token |-> token, at |-> Now(p)]}

Waiting(p, kinds) ==
  \E r \in requests : r.pod = p /\ r.token = held[p].token /\ r.kind \in kinds

(* The pod that sent r still waits for its answer. *)
Awaited(r) == phase[r.pod] # "idle" /\ held[r.pod].token = r.token

FencedWithoutToken(r) == status = "leased" /\ lease.expires > r.at

(* The fence of every write under a held lease. *)
Fenced(r) ==
  /\ status = "leased"
  /\ lease.token = r.token
  /\ lease.expires > r.at

(* The time by which keep_lease_alive gives up. *)
DeadlineWithoutMargin(p) == held[p].expires
Deadline(p) == held[p].expires - Margin

(* The coroutine given to run_with_lease runs and may act on the job. *)
Working(p) == phase[p] \in {"executing", "cancelling", "stopping"} /\ work[p] = "running"

Idle(p) ==
  /\ phase' = [phase EXCEPT ![p] = "idle"]
  /\ held' = [held EXCEPT ![p] = NoLease]
  /\ work' = [work EXCEPT ![p] = "none"]
  /\ beat' = [beat EXCEPT ![p] = "none"]

Init ==
  /\ clock = 0
  /\ status = IF Polls THEN "open" ELSE "absent"
  /\ lease = NoLease
  /\ requests = {}
  /\ phase = [p \in Pods |-> "idle"]
  /\ held = [p \in Pods |-> NoLease]
  /\ work = [p \in Pods |-> "none"]
  /\ beat = [p \in Pods |-> "none"]
  /\ minted = 0
  /\ granted = {}
  /\ released = {}
  /\ lastWriter = 0

-----------------------------------------------------------------------------
(* Taking the lease: claim (poll loop), acquire (a known unleased document) *)
(* and new_lease + insert_fields (a document born leased)                   *)

(* A document id is new when it is inserted, and loaded before an acquire. *)
TakeSend(p, kind) ==
  /\ phase[p] = "idle"
  /\ kind = "insert" => minted = 0
  /\ kind = "acquire" => status # "absent"
  /\ minted < MaxClaims
  /\ Now(p) + Duration <= Horizon
  /\ minted' = minted + 1
  /\ Send(p, kind, minted + 1)
  /\ phase' = [phase EXCEPT ![p] = "claiming"]
  /\ held' = [held EXCEPT ![p] = [token |-> minted + 1, expires |-> Now(p) + Duration]]
  /\ UNCHANGED <<clock, document, work, beat, granted, released, lastWriter>>

TakableInMargin(r) ==
  \/ r.kind \in {"claim", "acquire"} /\ status = "open"
  \/ r.kind = "claim" /\ status = "leased" /\ lease.expires - Margin <= r.at
  \/ r.kind = "insert" /\ status = "absent"

(* What the filter of the call matches. *)
Takable(r) ==
  \/ r.kind \in {"claim", "acquire"} /\ status = "open"
  \/ r.kind = "claim" /\ status = "leased" /\ lease.expires <= r.at
  \/ r.kind = "insert" /\ status = "absent"

(* The call matched: the document is leased.  The pod starts the execution *)
(* and its heartbeat if the answer reaches it; else the lease is nobody's. *)
TakeWins(r, answered) ==
  /\ r.kind \in Takes /\ Takable(r)
  /\ requests' = requests \ {r}
  /\ status' = "leased"
  /\ lease' = NewLease(r)
  /\ granted' = granted \union {r.token}
  /\ IF Awaited(r) /\ answered
       THEN /\ phase' = [phase EXCEPT ![r.pod] = "executing"]
            /\ work' = [work EXCEPT ![r.pod] = "running"]
            /\ beat' = [beat EXCEPT ![r.pod] = "alive"]
            /\ UNCHANGED held
       ELSE IF Awaited(r) THEN Idle(r.pod) ELSE UNCHANGED coroutines
  /\ UNCHANGED <<clock, minted, released, lastWriter>>

TakeMisses(r) ==
  /\ r.kind \in Takes /\ ~Takable(r)
  /\ requests' = requests \ {r}
  /\ IF Awaited(r) THEN Idle(r.pod) ELSE UNCHANGED coroutines
  /\ UNCHANGED <<clock, document, history>>

-----------------------------------------------------------------------------
(* keep_lease_alive *)

Beating(p) == phase[p] \in {"executing", "cancelling"} /\ beat[p] = "alive"

BeatSend(p) ==
  /\ Beating(p) /\ ~Waiting(p, {"heartbeat"})
  /\ Now(p) < Deadline(p)
  /\ Now(p) + Duration <= Horizon
  /\ Send(p, "heartbeat", held[p].token)
  /\ UNCHANGED <<clock, document, coroutines, history>>

(* The renewal landed.  An answered pod knows the new expiry; one that saw *)
(* the call fail keeps the old one and tries again.                        *)
BeatRenews(r, answered) ==
  /\ r.kind = "heartbeat" /\ Fenced(r)
  /\ requests' = requests \ {r}
  /\ lease' = NewLease(r)
  /\ held' = IF Awaited(r) /\ Beating(r.pod) /\ answered
               THEN [held EXCEPT ![r.pod] = NewLease(r)]
               ELSE held
  /\ UNCHANGED <<clock, status, phase, work, beat, history>>

(* The renewal matched nothing: the lease is no longer held. *)
BeatMisses(r) ==
  /\ r.kind = "heartbeat" /\ ~Fenced(r)
  /\ requests' = requests \ {r}
  /\ beat' = IF Awaited(r) /\ Beating(r.pod) THEN [beat EXCEPT ![r.pod] = "lost"] ELSE beat
  /\ UNCHANGED <<clock, document, phase, held, work, history>>

(* No renewal by the deadline, a hung one included: the heartbeat raises. *)
SelfFence(p) ==
  /\ Beating(p)
  /\ Deadline(p) <= Now(p)
  /\ beat' = [beat EXCEPT ![p] = "lost"]
  /\ UNCHANGED <<clock, document, requests, phase, held, work, history>>

-----------------------------------------------------------------------------
(* The execution and its fenced writes *)

(* transition / transition_or_raise by the execution.  In "stopping" it is *)
(* a write of a coroutine that is being cancelled, or of one it detached.  *)
WriteSend(p, kind) ==
  /\ Working(p) /\ ~Waiting(p, OwnWrites)
  /\ Send(p, kind, held[p].token)
  /\ UNCHANGED <<clock, document, coroutines, history>>

(* What the coroutine that waits for the answer to r does with it. *)
Reaction(r, next) ==
  \/ /\ Awaited(r) /\ r.kind \in OwnWrites
     /\ work' = IF Working(r.pod) THEN [work EXCEPT ![r.pod] = next] ELSE work
     /\ UNCHANGED <<phase, held, beat>>
  \/ /\ Awaited(r) /\ r.kind \notin OwnWrites /\ phase[r.pod] = "cancelling"
     /\ phase' = [phase EXCEPT ![r.pod] = "stopping"]
     /\ UNCHANGED <<held, work, beat>>
  \/ /\ Awaited(r) /\ r.kind \notin OwnWrites /\ phase[r.pod] = "failing"
     /\ Idle(r.pod)
  \/ /\ ~Awaited(r) \/ (r.kind \notin OwnWrites /\ phase[r.pod] \notin {"cancelling", "failing"})
     /\ UNCHANGED coroutines

(* The write landed.  A releasing one clears the lease fields. *)
WriteLands(r, answered) ==
  /\ r.kind \in Writes /\ Fenced(r)
  /\ requests' = requests \ {r}
  /\ lastWriter' = r.token
  /\ IF r.kind \in Releasing
       THEN /\ status' = StatusAfter[r.kind]
            /\ lease' = NoLease
            /\ released' = released \union {r.token}
       ELSE UNCHANGED <<document, released>>
  /\ Reaction(r, IF ~answered THEN "raised"
                 ELSE IF r.kind \in Releasing THEN "tail" ELSE "running")
  /\ UNCHANGED <<clock, minted, granted>>

(* The fence did not match: transition_or_raise raises LeaseLostError, and *)
(* a caller of transition may go on as if its write had landed.            *)
MissedWrite(r) == {"lost", IF r.kind \in Releasing THEN "tail" ELSE "running"}

WriteMisses(r) ==
  /\ r.kind \in Writes /\ ~Fenced(r)
  /\ requests' = requests \ {r}
  /\ \E next \in MissedWrite(r) : Reaction(r, next)
  /\ UNCHANGED <<clock, document, history>>

(* The call never reaches MongoDB and its caller sees an exception. *)
Drop(r) ==
  /\ requests' = requests \ {r}
  /\ \/ r.kind \in Takes /\ Awaited(r) /\ Idle(r.pod)
     \/ r.kind \in Takes /\ ~Awaited(r) /\ UNCHANGED coroutines
     \/ r.kind = "heartbeat" /\ UNCHANGED coroutines
     \/ r.kind \in Writes /\ Reaction(r, "raised")
  /\ UNCHANGED <<clock, document, history>>

(* The execution ends: it returns, whatever it wrote, or raises. *)
Return(p) ==
  /\ phase[p] \in {"executing", "cancelling"} /\ work[p] \in {"running", "tail"}
  /\ ~Waiting(p, OwnWrites)
  /\ work' = [work EXCEPT ![p] = "returned"]
  /\ UNCHANGED <<clock, document, requests, phase, held, beat, history>>

Raise(p) ==
  /\ phase[p] \in {"executing", "cancelling"} /\ work[p] \in {"running", "tail"}
  /\ ~Waiting(p, OwnWrites)
  /\ work' = [work EXCEPT ![p] = "raised"]
  /\ UNCHANGED <<clock, document, requests, phase, held, beat, history>>

-----------------------------------------------------------------------------
(* run_with_lease *)

(* asyncio.wait returned: a returned execution wins over a lost heartbeat, *)
(* a lost heartbeat wins over everything else.                             *)
Settle(p) ==
  /\ phase[p] = "executing"
  /\ \/ work[p] = "returned" /\ Idle(p)
     \/ /\ work[p] # "returned" /\ beat[p] = "lost"
        /\ IF work[p] \in {"running", "tail"}
             THEN /\ phase' = [phase EXCEPT ![p] = "stopping"]
                  /\ UNCHANGED <<held, work, beat>>
             ELSE Idle(p)
     \/ work[p] = "lost" /\ beat[p] # "lost" /\ Idle(p)
     \/ /\ work[p] = "raised" /\ beat[p] # "lost"
        /\ phase' = [phase EXCEPT ![p] = "failing"]
        /\ UNCHANGED <<held, work, beat>>
  /\ UNCHANGED <<clock, document, requests, history>>

(* Shutdown cancels the task that runs run_with_lease.  A launched job's   *)
(* hook runs first, with the execution and the heartbeat still running.    *)
Cancel(p) ==
  /\ phase[p] = "executing"
  /\ phase' = [phase EXCEPT ![p] = IF Polls THEN "stopping" ELSE "cancelling"]
  /\ UNCHANGED <<clock, document, requests, held, work, beat, history>>

HookSend(p) ==
  /\ phase[p] = "cancelling" /\ ~Waiting(p, {"abort"})
  /\ Send(p, "abort", held[p].token)
  /\ UNCHANGED <<clock, document, coroutines, history>>

(* The finally block has cancelled both tasks and waited for them. *)
Stopped(p) ==
  /\ phase[p] = "stopping"
  /\ Idle(p)
  /\ UNCHANGED <<clock, document, requests, history>>

(* An execution that raised: a launched job is failed and released, a      *)
(* polled one at most records the error and leaves its lease to expire.    *)
FailSend(p) ==
  /\ phase[p] = "failing" /\ ~Waiting(p, {"abort", "record"})
  /\ Send(p, IF Polls THEN "record" ELSE "abort", held[p].token)
  /\ UNCHANGED <<clock, document, coroutines, history>>

-----------------------------------------------------------------------------
(* The environment: time, crashes, and the reaper *)

(* What is due does not wait: the answer to a claim arrives before the     *)
(* self-fence deadline of the lease it mints, an execution is told to stop *)
(* by Lag after that deadline, and has stopped Budget later: the process   *)
(* exits when a shutdown outlives its budget.                              *)
Timely(p) ==
  /\ phase[p] = "claiming" => Now(p) < Deadline(p)
  /\ Working(p) =>
       Now(p) < Deadline(p) + Lag + (IF phase[p] = "executing" THEN 0 ELSE Budget)

Tick ==
  /\ clock < Horizon
  /\ Stalls \/ \A p \in Pods : Timely(p)
  /\ clock' = clock + 1
  /\ UNCHANGED <<document, requests, coroutines, history>>

(* The process dies; what it sent may still arrive. *)
Crash(p) ==
  /\ phase[p] # "idle"
  /\ Idle(p)
  /\ UNCHANGED <<clock, document, requests, history>>

(* reap_one, by whichever pod's reaper comes first. *)
ReapableWrongStatus(p) == status = "open" /\ lease.expires <= Now(p)
Reapable(p) == status = "leased" /\ lease.expires <= Now(p)

Reap(p) ==
  /\ ~Polls /\ Reapable(p)
  /\ status' = "failed"
  /\ lease' = NoLease
  /\ UNCHANGED <<clock, requests, coroutines, history>>

Land(r) ==
  \/ \E answered \in BOOLEAN : TakeWins(r, answered)
  \/ TakeMisses(r)
  \/ \E answered \in BOOLEAN : BeatRenews(r, answered)
  \/ BeatMisses(r)
  \/ \E answered \in BOOLEAN : WriteLands(r, answered)
  \/ WriteMisses(r)

PodStep(p) ==
  \/ \E kind \in Takes : TakeSend(p, kind)
  \/ BeatSend(p)
  \/ SelfFence(p)
  \/ \E kind \in OwnWrites : WriteSend(p, kind)
  \/ Return(p)
  \/ Raise(p)
  \/ Settle(p)
  \/ Cancel(p)
  \/ HookSend(p)
  \/ Stopped(p)
  \/ FailSend(p)

Next ==
  \/ Tick
  \/ \E p \in Pods : PodStep(p) \/ Crash(p) \/ Reap(p)
  \/ \E r \in requests : Land(r) \/ Drop(r)

Spec == Init /\ [][Next]_vars

(* The event loop runs every ready coroutine, MongoDB answers or fails     *)
(* every call, time passes, and a reaper loop runs in every pod.           *)
Fairness ==
  /\ WF_vars(Tick)
  /\ \A p \in Pods :
       /\ WF_vars(SelfFence(p)) /\ WF_vars(Settle(p)) /\ WF_vars(Stopped(p))
       /\ WF_vars(HookSend(p)) /\ WF_vars(FailSend(p))
       /\ WF_vars(Reap(p))
  /\ WF_vars(\E r \in requests : Land(r) \/ Drop(r))

FairSpec == Spec /\ Fairness

-----------------------------------------------------------------------------
TypeOK ==
  /\ clock \in Nat
  /\ status \in Statuses
  /\ lease \in Leases
  /\ requests \subseteq Requests
  /\ phase \in [Pods -> Phases]
  /\ held \in [Pods -> Leases]
  /\ work \in [Pods -> {"none", "running", "tail", "returned", "lost", "raised"}]
  /\ beat \in [Pods -> {"none", "alive", "lost"}]
  /\ minted \in Nat
  /\ granted \subseteq Nat
  /\ released \subseteq Nat
  /\ lastWriter \in Nat

(* An execution holds the lease for as long as it works, unless a releasing *)
(* write of its own gave it up: nobody reaps or re-claims it under its feet *)
(* (keep_lease_alive: a pod "must stop executing before its lease expires").*)
HoldsWhileWorking ==
  \A p \in Pods :
    Working(p) => lease.token = held[p].token \/ held[p].token \in released

(* Two pods never execute the job at once, whatever the delays of MongoDB. *)
ExclusiveExecution ==
  \A p, q \in Pods : Working(p) /\ Working(q) => p = q

Superseded(token) == token \in granted /\ lease.token # token

(* A claim that lost the document never gets it back and never writes to   *)
(* it again, however late its requests arrive (the per-claim token fence). *)
NoReturnAfterTakeover ==
  [][\A token \in granted :
       Superseded(token) =>
         /\ Superseded(token)'
         /\ lastWriter' = token => lastWriter = token]_vars

(* A terminal status is final: neither the finish and the shutdown hook of *)
(* one execution, nor a late claim, nor the reaper overwrites it.          *)
FinishedOnce == [][(status \in Terminal) => status' = status]_vars

(* A write that a working execution waits for is one MongoDB accepts, or   *)
(* its own hook ended the job: however slow the calls, whoever ignores the *)
(* False of transition loses nothing by it (run_with_lease: a completed    *)
(* execution's "result stands" because its writes were all fenced).        *)
WorkersWritesAccepted ==
  \A r \in requests :
    r.kind \in OwnWrites /\ Awaited(r) /\ Working(r.pod)
      => Fenced(r) \/ r.token \in released

(* A lease nobody executes under does not last, be it that its execution   *)
(* crashed, raised, or returned without releasing it: it is released or    *)
(* reaped.                                                                 *)
AbandonedLeaseEnds ==
  \A token \in 1..MaxClaims :
    (lease.token = token /\ ~\E p \in Pods : Working(p) /\ held[p].token = token)
      ~> (lease.token # token)

(* The inductive invariant, untimed part: what the tokens are. *)

Holding(p) == phase[p] # "idle"

(* Every grant is a minted token and the document's token is a grant. *)
TokensMinted ==
  /\ minted <= MaxClaims
  /\ granted \subseteq 1..minted
  /\ released \subseteq granted
  /\ lastWriter \in granted \union {0}
  /\ lease.token \in granted \union {0}
  /\ status = "leased" <=> lease.token # 0

(* A pod's token is its own, and is granted once its claim was answered. *)
TokensOwned ==
  /\ \A p \in Pods :
       /\ phase[p] = "idle" => held[p].token = 0
       /\ Holding(p) => held[p].token \in 1..minted
       /\ phase[p] \notin {"idle", "claiming"} => held[p].token \in granted
       /\ phase[p] \in {"idle", "claiming"} => work[p] = "none"
  /\ \A p, q \in Pods :
       Holding(p) /\ Holding(q) /\ held[p].token = held[q].token => p = q

(* A request carries the token of its sender, and a take a token nobody *)
(* was granted yet. *)
TokensSent ==
  /\ \A r \in requests :
       /\ r.token \in 1..minted
       /\ r.at <= Now(r.pod)
       /\ r.kind \in Takes => r.token \notin granted
       /\ r.kind \notin Takes => r.token \in granted
       /\ \A p \in Pods :
            Holding(p) /\ held[p].token = r.token
              => /\ r.pod = p
                 /\ r.kind \in Takes <=> phase[p] = "claiming"
  /\ \A r, s \in requests :
       r.kind \in Takes /\ s.kind \in Takes /\ r.token = s.token => r = s

TokenInv == TokensMinted /\ TokensOwned /\ TokensSent

(* The inductive invariant, timed part: what a pod believes of its lease   *)
(* never reaches past what the document says, nor its work past its lease. *)
ExpiriesAgree ==
  /\ \A p \in Pods :
       /\ Holding(p) => held[p].expires <= Now(p) + Duration
       /\ Working(p) /\ lease.token = held[p].token => held[p].expires <= lease.expires
  /\ \A r \in requests : \A p \in Pods :
       Holding(p) /\ held[p].token = r.token
         => /\ r.kind \in Takes => held[p].expires = r.at + Duration
            /\ r.kind = "heartbeat" => held[p].expires <= r.at + Duration

WorkEndsInTime ==
  \A p \in Pods :
    /\ phase[p] = "claiming" => Now(p) <= Deadline(p)
    /\ Working(p) =>
         Now(p) <= Deadline(p) + Lag + (IF phase[p] = "executing" THEN 0 ELSE Budget)

(* Working on a lease given up is possible only behind one's own hook. *)
LeaseKept ==
  \A p \in Pods :
    Working(p) =>
      \/ lease.token = held[p].token
      \/ status = "failed" /\ held[p].token \in released /\ lastWriter = held[p].token

(* A heartbeat waits for its answer before it sends the next renewal. *)
OneBeat ==
  \A r, s \in requests :
    r.kind = "heartbeat" /\ s.kind = "heartbeat" /\ r.token = s.token => r = s

TimedInv == ExpiriesAgree /\ WorkEndsInTime /\ LeaseKept /\ OneBeat

(* The margin covers clock skew, late self-fencing and the shutdown budget. *)
MarginCovers == \A p, q \in Pods : Skew[q] - Skew[p] + Lag + Budget < Margin

(* The lease implements its promise. *)
Job == INSTANCE ExclusiveJob
         WITH Claims <- 1..MaxClaims,
              state <- IF status = "leased" THEN "held" ELSE status,
              holder <- lease.token
ExclusiveJobSpec == Job!Spec
=============================================================================
