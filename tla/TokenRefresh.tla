----------------------------- MODULE TokenRefresh -----------------------------
(***************************************************************************)
(* The OAuth tokens of one user for one MCP server: the calls that use and *)
(* refresh them (MCPOAuthService.get_valid_access_token,                   *)
(* recover_from_unauthorized, _refresh_with_lock), the lease in Redis that *)
(* lets one refresh at a time (refresh_lock), interactive logins with the  *)
(* dynamic registration of a client (ensure_registry_oauth_state), and the *)
(* identity provider, which may rotate the refresh token it is shown.      *)
(*                                                                         *)
(* The access and the refresh token are two documents that one transaction *)
(* compares and writes.  Every commit encrypts anew, so a document is      *)
(* named by its writer: a call, a login, or Base, whose tokens were there  *)
(* before.  A client is named for the login that registered it, a refresh  *)
(* token for the writer that received it.                                  *)
(***************************************************************************)
EXTENDS Naturals

CONSTANTS
  Calls,    \* requests that need the user's access token, on any pod
  Logins,   \* interactive logins
  Base,     \* the login that the initial tokens are from
  None,     \* no document, no token, no client, no owner
  Faults    \* what may go wrong: see FaultsAssumption

Writers == Calls \cup Logins \cup {Base}
Actors == Calls \cup Logins

ASSUME NamesAssumption ==
  /\ Calls \cap Logins = {} /\ Base \notin Actors /\ None \notin Writers

ASSUME FaultsAssumption ==
  Faults \subseteq
    {"crash",      \* a pod dies
     "lapse",      \* a lease expires although its owner still works
     "redis",      \* a command on Redis is not answered in time
     "mongo",      \* a transaction is aborted
     "silence",    \* a refresh request is not answered
     "forget"}     \* the provider forgets a registered client

CommitAttempts == 3   \* LOGIN_TOKEN_COMMIT_MAX_ATTEMPTS
EnsureAttempts == 3   \* ENSURE_STATE_MAX_ATTEMPTS

VARIABLES
  access,     \* whose access token is stored
  refresh,    \* whose refresh token is stored
  expired,    \* that access token is past its expiry
  registry,   \* registryOAuth: the client, and who wrote this revision
  lock,       \* the key in Redis: the call that owns it
  (* the identity provider *)
  registered, \* clients it has registered
  forgotten,  \* clients it no longer knows
  honoured,   \* refresh tokens that are accepted
  (* calls and logins *)
  pc,
  held,       \* the access token a call worked with and was refused
  client,     \* the client an actor works with; its tokens are bound to it
  token,      \* the refresh token an actor received
  grant,      \* the login its tokens go back to
  saw,        \* token_write_snapshot
  seen,       \* the revision of registryOAuth a login has read
  tries,      \* writes of a login that lost their race
  (* history *)
  causes      \* what left a rotated token behind, or mixed two grants

docs == <<access, refresh, expired>>
provider == <<registered, forgotten, honoured>>
received == <<client, token, grant>>
control == <<pc, held, saw, seen, tries>>
vars == <<docs, registry, lock, provider, received, control, causes>>

-----------------------------------------------------------------------------
(* A call holds the lease, and its heartbeat renews it. *)
Holding ==
  {"locked", "snapshot", "reread", "owned", "asking", "answered", "commit",
   "invalidate"}
CallPlaces ==
  Holding \cup {"idle", "using", "rejected", "check", "acquire", "pending", "waiting",
                "releasing", "done", "dead"}
LoginPlaces == {"idle", "ensure", "flow", "invalidate", "store", "commit", "done", "failed"}
Clients == Logins \cup {Base}
Revisions == [client : Clients \cup {None}, by : Writers]
Losses == {"lapse", "dropped", "unanswered", "crash", "deleted"}
Nothing == [access |-> None, refresh |-> None]
Snapshots == [access : Writers \cup {None}, refresh : Writers \cup {None}]

TypeOK ==
  /\ access \in Writers \cup {None} /\ refresh \in Writers \cup {None}
  /\ expired \in BOOLEAN
  /\ registry \in Revisions
  /\ lock \in Calls \cup {None}
  /\ registered \subseteq Clients /\ forgotten \subseteq Clients /\ honoured \subseteq Writers
  /\ pc \in [Actors -> CallPlaces \cup LoginPlaces]
  /\ held \in [Calls -> Writers \cup {None}]
  /\ client \in [Writers -> Clients \cup {None}]
  /\ token \in [Writers -> Writers \cup {None}]
  /\ grant \in [Writers -> Clients]
  /\ saw \in [Actors -> Snapshots]
  /\ seen \in [Logins -> Revisions]
  /\ tries \in [Logins -> 0..CommitAttempts]
  /\ causes \subseteq Losses \cup {"mixed"}

(* The user has logged in before; the access token may have expired since. *)
Init ==
  /\ access = Base /\ refresh = Base /\ expired \in BOOLEAN
  /\ registry = [client |-> Base, by |-> Base]
  /\ lock = None
  /\ registered = {Base} /\ forgotten = {} /\ honoured = {Base}
  /\ pc = [a \in Actors |-> "idle"]
  /\ held = [c \in Calls |-> None]
  /\ client = [w \in Writers |-> IF w = Base THEN Base ELSE None]
  /\ token = [w \in Writers |-> IF w = Base THEN Base ELSE None]
  /\ grant = [w \in Writers |-> Base]
  /\ saw = [a \in Actors |-> Nothing]
  /\ seen = [l \in Logins |-> [client |-> None, by |-> Base]]
  /\ tries = [l \in Logins |-> 0]
  /\ causes = {}

At(a, place) == pc[a] = place
Goto(a, place) == pc' = [pc EXCEPT ![a] = place]
(* The call is over, however it ends: what it read is forgotten.  Under the *)
(* lock, its context managers come first.                                  *)
Leaves(c, place) ==
  /\ Goto(c, place)
  /\ held' = [held EXCEPT ![c] = None] /\ saw' = [saw EXCEPT ![c] = Nothing]
Ends(c) == Leaves(c, "releasing")

Known == registered \ forgotten

-----------------------------------------------------------------------------
(* A call needs an access token. *)

(* get_oauth_access_token, but not the one that was refused.  The binding   *)
(* of an access token is to issuer and resource, which stay as they are.   *)
Fresh(c) == access # None /\ ~expired /\ access # held[c]

(* The refresh token belongs to the client the call refreshes with. *)
Bound(c) == client[c] # None /\ refresh # None /\ client[refresh] = client[c]

(* get_valid_access_token: the stored token, or a refresh with the client   *)
(* of the server document that the call has read.                          *)
Fetch(c) ==
  /\ At(c, "idle")
  /\ client' = [client EXCEPT ![c] = registry.client]
  /\ IF Fresh(c)
       THEN Goto(c, "using") /\ held' = [held EXCEPT ![c] = access]
       ELSE Goto(c, "check") /\ UNCHANGED held
  /\ UNCHANGED <<docs, registry, lock, provider, token, grant, saw, seen, tries, causes>>

Use(c, accepted) ==
  /\ At(c, "using")
  /\ IF accepted THEN Leaves(c, "done") ELSE Goto(c, "rejected") /\ UNCHANGED <<held, saw>>
  /\ UNCHANGED <<docs, registry, lock, provider, received, seen, tries, causes>>

(* delete_access_token_if_matches filters on the ciphertext. *)
DeleteRejected(c) ==
  /\ At(c, "rejected")
  /\ access' = IF access = held[c] THEN None ELSE access
  /\ expired' = (expired /\ access # held[c])
  /\ Goto(c, "check")
  /\ UNCHANGED <<refresh, registry, lock, provider, received, held, saw, seen, tries, causes>>

Check(c) ==
  /\ At(c, "check")
  /\ IF Bound(c) THEN Goto(c, "acquire") /\ UNCHANGED <<held, saw>> ELSE Leaves(c, "done")
  /\ UNCHANGED <<docs, registry, lock, provider, received, seen, tries, causes>>

-----------------------------------------------------------------------------
(* refresh_lock, with wait_for_result *)

AcquirableAnyway == TRUE   \* mutant: SET without NX
Acquirable == lock = None

Acquire(c) ==
  /\ At(c, "acquire")
  /\ \/ Acquirable /\ lock' = c /\ Goto(c, "locked")
     \/ ~Acquirable /\ UNCHANGED lock /\ Goto(c, "waiting")
     \/ "redis" \in Faults /\ UNCHANGED lock /\ Goto(c, "pending")
  /\ UNCHANGED <<docs, registry, provider, received, held, saw, seen, tries, causes>>

(* A SET that was given up may still take effect, before release drained it. *)
Drain(c, landed) ==
  /\ At(c, "pending")
  /\ lock' = IF landed /\ lock = None THEN c ELSE lock
  /\ Ends(c)
  /\ UNCHANGED <<docs, registry, provider, received, seen, tries, causes>>

(* The key is gone, or the call has waited long enough.  Without the lease  *)
(* the tokens of whoever had it will do; there may be none.                *)
StopWaiting(c) ==
  /\ At(c, "waiting")
  /\ Ends(c)
  /\ UNCHANGED <<docs, registry, lock, provider, received, seen, tries, causes>>

(* release: a compare-and-delete, which may fail. *)
Release(c) ==
  /\ At(c, "releasing")
  /\ \/ lock' = IF lock = c THEN None ELSE lock
     \/ "redis" \in Faults /\ UNCHANGED lock
  /\ Goto(c, "done")
  /\ UNCHANGED <<docs, registry, provider, received, held, saw, seen, tries, causes>>

(* The heartbeat keeps the key as long as its owner works. *)
Expire ==
  /\ lock # None
  /\ pc[lock] \in Holding => "lapse" \in Faults
  /\ lock' = None
  /\ causes' = IF pc[lock] \in Holding THEN causes \cup {"lapse"} ELSE causes
  /\ UNCHANGED <<docs, registry, provider, received, control>>

-----------------------------------------------------------------------------
(* _refresh_with_lock, under the lease *)

Recheck(c) ==
  /\ At(c, "locked")
  /\ IF Fresh(c) THEN Ends(c) ELSE Goto(c, "snapshot") /\ UNCHANGED <<held, saw>>
  /\ UNCHANGED <<docs, registry, lock, provider, received, seen, tries, causes>>

Snapshot(c) ==
  /\ At(c, "snapshot")
  /\ saw' = [saw EXCEPT ![c] = [access |-> access, refresh |-> refresh]]
  /\ Goto(c, "reread")
  /\ UNCHANGED <<docs, registry, lock, provider, received, held, seen, tries, causes>>

(* snapshot_matches_refresh compares the tokens, not the documents. *)
Unmoved(c) == saw[c].refresh # None /\ token[saw[c].refresh] = token[refresh]

Reread(c) ==
  /\ At(c, "reread")
  /\ IF Bound(c) /\ Unmoved(c)
       THEN Goto(c, "owned") /\ UNCHANGED <<held, saw>>
       ELSE Ends(c)
  /\ UNCHANGED <<docs, registry, lock, provider, received, seen, tries, causes>>

Used(c) == token[saw[c].refresh]
(* The stored refresh token was exchanged for another one, which is lost. *)
Rotated(c) == token[c] # None /\ token[c] # Used(c)
Left(c, cause) ==
  causes' = IF Rotated(c) /\ refresh = saw[c].refresh THEN causes \cup {cause} ELSE causes

(* ensure_owned, before the request and before the commit. *)
EnsureOwned(c) ==
  /\ pc[c] \in {"owned", "answered"}
  /\ \/ /\ lock = c
        /\ Goto(c, IF At(c, "owned") THEN "asking" ELSE "commit")
        /\ UNCHANGED <<held, saw, causes>>
     \/ /\ lock # c \/ "redis" \in Faults
        /\ Ends(c)
        /\ Left(c, "dropped")
  /\ UNCHANGED <<docs, registry, lock, provider, received, seen, tries>>

(* The provider hands out tokens: it rotates the refresh token, or not. *)
Honours(c) == client[c] \in Known /\ Used(c) \in honoured
HandsOut(c) ==
  /\ grant' = [grant EXCEPT ![c] = grant[saw[c].refresh]]
  /\ \/ token' = [token EXCEPT ![c] = c] /\ honoured' = (honoured \ {Used(c)}) \cup {c}
     \/ token' = [token EXCEPT ![c] = Used(c)] /\ UNCHANGED honoured
  /\ UNCHANGED <<registered, forgotten, client>>

Answer(c) ==
  /\ At(c, "asking") /\ Honours(c)
  /\ HandsOut(c)
  /\ Goto(c, "answered")
  /\ UNCHANGED <<docs, registry, lock, held, saw, seen, tries, causes>>

(* A 4xx.  To be shown a token that was rotated away may make the provider  *)
(* revoke all that its grant led to.                                       *)
Refuse(c) ==
  /\ At(c, "asking") /\ ~Honours(c)
  /\ IF client[c] \in Known
       THEN /\ Ends(c)
            /\ honoured' \in {honoured, {t \in honoured : grant[t] # grant[Used(c)]}}
       ELSE /\ Goto(c, "invalidate")
            /\ UNCHANGED <<honoured, held, saw>>
  /\ UNCHANGED <<docs, registry, lock, registered, forgotten, received, seen, tries, causes>>

(* No answer: the request may have been processed or not. *)
Unanswered(c) ==
  /\ At(c, "asking") /\ "silence" \in Faults
  /\ \/ Honours(c) /\ HandsOut(c)
     \/ UNCHANGED <<provider, received>>
  /\ causes' = causes \cup {"unanswered"}
  /\ Ends(c)
  /\ UNCHANGED <<docs, registry, lock, seen, tries>>

(* invalidate_registry_oauth_client filters on the client. *)
Invalidate(a) ==
  /\ At(a, "invalidate")
  /\ registry' = IF registry.client = client[a] THEN [client |-> None, by |-> a] ELSE registry
  /\ IF a \in Calls THEN Ends(a) ELSE Goto(a, "failed") /\ UNCHANGED <<held, saw>>
  /\ UNCHANGED <<docs, lock, provider, received, seen, tries, causes>>

(* commit_oauth_tokens: both documents are as they were read, or nothing is *)
(* written.  Of a document that was absent and stays so nothing is asked.  *)
MatchesAccess(a) == access = saw[a].access   \* mutant: the other document follows
Matches(a) ==
  /\ access = saw[a].access
  /\ saw[a].refresh # None \/ token[a] # None => refresh = saw[a].refresh

Commit(c) ==
  /\ At(c, "commit")
  /\ \/ /\ Matches(c)
        /\ access' = c /\ refresh' = c /\ expired' = FALSE
        /\ UNCHANGED causes
     \/ /\ ~Matches(c) \/ "mongo" \in Faults
        /\ Left(c, IF Matches(c) THEN "dropped" ELSE "deleted")
        /\ UNCHANGED docs
  /\ Ends(c)
  /\ UNCHANGED <<registry, lock, provider, received, seen, tries>>

-----------------------------------------------------------------------------
(* An interactive login: initiate_oauth_flow and complete_oauth_flow.       *)

StartLogin(l) ==
  /\ At(l, "idle")
  /\ seen' = [seen EXCEPT ![l] = registry]
  /\ Goto(l, "ensure")
  /\ UNCHANGED <<docs, registry, lock, provider, received, held, saw, tries, causes>>

(* The client of the state that was read survives; without one the login    *)
(* registers its own, once, and keeps it for the next attempt.             *)
Candidate(l) == IF seen[l].client = None THEN l ELSE seen[l].client

(* ensure_registry_oauth_state, forced: compare-and-swap on the revision;   *)
(* a write that loses starts over from the winner's state.                 *)
Ensure(l) ==
  /\ At(l, "ensure")
  /\ registered' = registered \cup {Candidate(l)}
  /\ client' = [client EXCEPT ![l] = Candidate(l)]
  /\ IF registry = seen[l]
       THEN /\ registry' = [client |-> Candidate(l), by |-> l]
            /\ Goto(l, "flow")
            /\ tries' = [tries EXCEPT ![l] = 0]
            /\ UNCHANGED seen
       ELSE /\ tries' = [tries EXCEPT ![l] = @ + 1]
            /\ seen' = [seen EXCEPT ![l] = registry]
            /\ Goto(l, IF tries[l] + 1 < EnsureAttempts THEN "ensure" ELSE "failed")
            /\ UNCHANGED registry
  /\ UNCHANGED <<docs, lock, forgotten, honoured, token, grant, held, saw, causes>>

(* The user consents, and the code is exchanged; not every provider grants  *)
(* a refresh token.                                                        *)
Exchange(l) ==
  /\ At(l, "flow")
  /\ IF client[l] \in Known
       THEN /\ \/ token' = [token EXCEPT ![l] = l] /\ honoured' = honoured \cup {l}
               \/ UNCHANGED <<token, honoured>>
            /\ grant' = [grant EXCEPT ![l] = l]
            /\ Goto(l, "store")
       ELSE /\ Goto(l, "invalidate")
            /\ UNCHANGED <<token, honoured, grant>>
  /\ UNCHANGED <<docs, registry, lock, registered, forgotten, client, held, saw, seen, tries, causes>>

(* _store_login_tokens: without the lease, again and again. *)
LoginSnapshot(l) ==
  /\ At(l, "store")
  /\ saw' = [saw EXCEPT ![l] = [access |-> access, refresh |-> refresh]]
  /\ Goto(l, "commit")
  /\ UNCHANGED <<docs, registry, lock, provider, received, held, seen, tries, causes>>

StoredWithNew(l) == IF token[l] = None THEN refresh ELSE l   \* mutant: the old one is kept
StoredRefresh(l) == IF token[l] = None THEN None ELSE l

LoginCommit(l) ==
  /\ At(l, "commit")
  /\ \/ /\ Matches(l)
        /\ access' = l /\ expired' = FALSE
        /\ IF saw[l].refresh = None /\ token[l] = None
             THEN /\ causes' = IF refresh # None THEN causes \cup {"mixed"} ELSE causes
                  /\ UNCHANGED refresh
             ELSE refresh' = StoredRefresh(l) /\ UNCHANGED causes
        /\ Goto(l, "done")
        /\ UNCHANGED tries
     \/ /\ ~Matches(l) \/ "mongo" \in Faults
        /\ tries' = [tries EXCEPT ![l] = @ + 1]
        /\ Goto(l, IF tries[l] + 1 < CommitAttempts THEN "store" ELSE "failed")
        /\ UNCHANGED <<docs, causes>>
  /\ UNCHANGED <<registry, lock, provider, received, held, saw, seen>>

-----------------------------------------------------------------------------
(* The user disconnects: delete_oauth_tokens. *)
Disconnect ==
  /\ access # None \/ refresh # None
  /\ access' = None /\ refresh' = None /\ expired' = FALSE
  /\ UNCHANGED <<registry, lock, provider, received, control, causes>>

AccessExpires ==
  /\ access # None
  /\ expired' = TRUE
  /\ UNCHANGED <<access, refresh, registry, lock, provider, received, control, causes>>

Forget(k) ==
  /\ "forget" \in Faults
  /\ forgotten' = forgotten \cup {k}
  /\ UNCHANGED <<docs, registry, lock, registered, honoured, received, control, causes>>

(* The call's pod dies; a request that is under way may be processed. *)
Crash(c) ==
  /\ "crash" \in Faults
  /\ pc[c] \in CallPlaces \ {"idle", "done", "dead"}
  /\ Leaves(c, "dead")
  /\ \/ /\ At(c, "asking") /\ Honours(c)
        /\ HandsOut(c)
        /\ causes' = causes \cup {"crash"}
     \/ /\ UNCHANGED <<provider, received>>
        /\ IF pc[c] \in {"answered", "commit"} THEN Left(c, "crash") ELSE UNCHANGED causes
  /\ UNCHANGED <<docs, registry, lock, seen, tries>>

-----------------------------------------------------------------------------
CallStep(c) ==
  \/ Fetch(c)
  \/ \E accepted \in BOOLEAN : Use(c, accepted)
  \/ DeleteRejected(c) \/ Check(c)
  \/ Acquire(c) \/ StopWaiting(c) \/ Release(c)
  \/ \E landed \in BOOLEAN : Drain(c, landed)
  \/ Recheck(c) \/ Snapshot(c) \/ Reread(c) \/ EnsureOwned(c)
  \/ Answer(c) \/ Refuse(c) \/ Unanswered(c) \/ Commit(c)
  \/ Crash(c)

LoginStep(l) ==
  StartLogin(l) \/ Ensure(l) \/ Exchange(l) \/ LoginSnapshot(l) \/ LoginCommit(l)

Next ==
  \/ \E c \in Calls : CallStep(c)
  \/ \E l \in Logins : LoginStep(l)
  \/ \E a \in Actors : Invalidate(a)
  \/ \E k \in registered : Forget(k)
  \/ Expire \/ Disconnect \/ AccessExpires

Spec == Init /\ [][Next]_vars

-----------------------------------------------------------------------------
(* Properties *)

(* A refresh replaces only the refresh token it has shown to the provider:  *)
(* never one that a login or another refresh stored meanwhile, however     *)
(* long its request took and whoever has the lease; and it does not bring  *)
(* back an authorisation that the user has taken away.                     *)
RefreshContinuesStored ==
  [][refresh' # refresh /\ refresh' \in Calls =>
       refresh # None /\ saw[refresh'].refresh = refresh]_vars

(* Both documents are of one commit: a login without a refresh token takes  *)
(* the old one away, and no refresh stores half of what it received.       *)
(* There is one way out: the login has found no tokens, another one stores *)
(* both, and a call deletes the new access token, all before its commit,   *)
(* which asks nothing of a refresh token that it does not replace.         *)
OneGrantStored ==
  "mixed" \notin causes /\ access # None /\ refresh # None => access = refresh

(* The provider accepts the refresh token that is stored, or a call is      *)
(* about to store the one it was exchanged for; unless a rotated token was *)
(* left behind: by a lease that lapsed, an owner that died or could not    *)
(* make sure that it still is, an answer that was lost, or, with no fault  *)
(* at all, a refused access token that another call deleted between the    *)
(* snapshot and the commit.                                                *)
StoredIsHonoured ==
  causes \cap Losses = {} /\ refresh # None =>
    \/ token[refresh] \in honoured
    \/ \E c \in Calls : pc[c] \in {"answered", "commit"} /\ saw[c].refresh = refresh
=============================================================================
