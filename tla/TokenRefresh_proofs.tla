-------------------------- MODULE TokenRefresh_proofs --------------------------
(***************************************************************************)
(* What holds of the tokens of TokenRefresh for any number of calls and    *)
(* logins and any faults, in three layers.  Base0: the types, and that a   *)
(* call that refreshes has read a refresh token; from it, that a refresh   *)
(* replaces only what it has shown, and that a pair is of one commit.      *)
(* Stored and Provenance: whoever wrote a document that was read or stored *)
(* has nothing left to do, and a token that was not rotated is of such a   *)
(* writer.  Held, as long as no rotated token was lost: whoever works      *)
(* under the lock owns it, and what it uses and receives is accepted.      *)
(***************************************************************************)
EXTENDS TokenRefresh, TLAPS

(* Loops of a login end after three attempts. *)
Trying == \A l \in Logins : pc[l] \notin {"done", "failed"} => tries[l] < CommitAttempts

Shows == {"owned", "asking", "answered", "commit"}
(* A call that refreshes has read a refresh token. *)
Shown == \A c \in Calls : pc[c] \in Shows => saw[c].refresh \in Writers

LEMMA NoneIsNoWriter ==
  None \notin Writers /\ None \notin Calls /\ None \notin Logins /\ None \notin Clients /\ Base \notin Actors
BY NamesAssumption DEF Writers, Actors, Clients

Places == CallPlaces \cup LoginPlaces

LEMMA GotoTypes ==
  ASSUME TypeOK, NEW a \in Actors, NEW p \in Places, Goto(a, p)
  PROVE  pc' \in [Actors -> Places]
BY DEF TypeOK, Goto, Places

LEMMA LeavesTypes ==
  ASSUME TypeOK, NEW c \in Calls, NEW p \in Places, Leaves(c, p)
  PROVE  /\ pc' \in [Actors -> Places]
         /\ held' \in [Calls -> Writers \cup {None}] /\ saw' \in [Actors -> Snapshots]
BY DEF TypeOK, Goto, Places, Leaves, Actors, Snapshots, Nothing

LEMMA HandsOutTypes ==
  ASSUME TypeOK, Shown, NEW c \in Calls, At(c, "asking"), Honours(c), HandsOut(c)
  PROVE  /\ registered' \subseteq Clients /\ forgotten' \subseteq Clients /\ honoured' \subseteq Writers
         /\ client' \in [Writers -> Clients \cup {None}]
         /\ token' \in [Writers -> Writers \cup {None}] /\ grant' \in [Writers -> Clients]
BY DEF TypeOK, Shown, Shows, At, Honours, HandsOut, Used, Writers

LEMMA TypeStep ==
  ASSUME TypeOK, Trying, Shown, [Next]_vars
  PROVE  TypeOK'
<1>1. ASSUME NEW c \in Calls, Fetch(c) PROVE TypeOK'
  BY <1>1, NoneIsNoWriter
  DEF Fetch, At, Goto, Fresh, docs, provider, received, control, TypeOK, Trying, Shown,
      Shows, Actors, Writers, Clients, Revisions, Snapshots, Nothing, Holding,
      CallPlaces, LoginPlaces, Losses, CommitAttempts, EnsureAttempts
<1>2. ASSUME NEW c \in Calls, NEW accepted \in BOOLEAN, Use(c, accepted) PROVE TypeOK'
  BY <1>2, NoneIsNoWriter
  DEF Use, At, Goto, Leaves, docs, provider, received, control, TypeOK, Trying, Shown,
      Shows, Actors, Writers, Clients, Revisions, Snapshots, Nothing, Holding,
      CallPlaces, LoginPlaces, Losses, CommitAttempts, EnsureAttempts
<1>3. ASSUME NEW c \in Calls, DeleteRejected(c) PROVE TypeOK'
  BY <1>3, NoneIsNoWriter
  DEF DeleteRejected, At, Goto, docs, provider, received, control, TypeOK, Trying,
      Shown, Shows, Actors, Writers, Clients, Revisions, Snapshots, Nothing, Holding,
      CallPlaces, LoginPlaces, Losses, CommitAttempts, EnsureAttempts
<1>4. ASSUME NEW c \in Calls, Check(c) PROVE TypeOK'
  <2>1. UNCHANGED <<docs, registry, lock, provider, received, seen, tries, causes>>
    BY <1>4 DEF Check
  <2>2. pc' \in [Actors -> Places] /\ held' \in [Calls -> Writers \cup {None}]
        /\ saw' \in [Actors -> Snapshots]
    <3>1. CASE Goto(c, "acquire") /\ UNCHANGED <<held, saw>>
      BY <1>4, <3>1, GotoTypes DEF Places, CallPlaces, Holding, Actors, TypeOK
    <3>2. CASE Leaves(c, "done")
      BY <1>4, <3>2, LeavesTypes DEF Places, CallPlaces
    <3> QED BY <1>4, <3>1, <3>2 DEF Check
  <2> QED
    BY <1>4, <2>1, <2>2
    DEF docs, provider, received, TypeOK, Places
<1>5. ASSUME NEW c \in Calls, Acquire(c) PROVE TypeOK'
  BY <1>5, NoneIsNoWriter
  DEF Acquire, At, Goto, Acquirable, docs, provider, received, control, TypeOK, Trying,
      Shown, Shows, Actors, Writers, Clients, Revisions, Snapshots, Nothing, Holding,
      CallPlaces, LoginPlaces, Losses, CommitAttempts, EnsureAttempts
<1>6. ASSUME NEW c \in Calls, NEW landed \in BOOLEAN, Drain(c, landed) PROVE TypeOK'
  BY <1>6, NoneIsNoWriter
  DEF Drain, At, Goto, Ends, Leaves, docs, provider, received, control, TypeOK, Trying,
      Shown, Shows, Actors, Writers, Clients, Revisions, Snapshots, Nothing, Holding,
      CallPlaces, LoginPlaces, Losses, CommitAttempts, EnsureAttempts
<1>7. ASSUME NEW c \in Calls, StopWaiting(c) PROVE TypeOK'
  BY <1>7, NoneIsNoWriter
  DEF StopWaiting, At, Goto, Ends, Leaves, docs, provider, received, control, TypeOK,
      Trying, Shown, Shows, Actors, Writers, Clients, Revisions, Snapshots, Nothing,
      Holding, CallPlaces, LoginPlaces, Losses, CommitAttempts, EnsureAttempts
<1>8. ASSUME NEW c \in Calls, Release(c) PROVE TypeOK'
  BY <1>8, NoneIsNoWriter
  DEF Release, At, Goto, docs, provider, received, control, TypeOK, Trying, Shown,
      Shows, Actors, Writers, Clients, Revisions, Snapshots, Nothing, Holding,
      CallPlaces, LoginPlaces, Losses, CommitAttempts, EnsureAttempts
<1>9. ASSUME NEW c \in Calls, Recheck(c) PROVE TypeOK'
  BY <1>9, NoneIsNoWriter
  DEF Recheck, At, Goto, Fresh, Ends, Leaves, docs, provider, received, control, TypeOK,
      Trying, Shown, Shows, Actors, Writers, Clients, Revisions, Snapshots, Nothing,
      Holding, CallPlaces, LoginPlaces, Losses, CommitAttempts, EnsureAttempts
<1>10. ASSUME NEW c \in Calls, Snapshot(c) PROVE TypeOK'
  BY <1>10, NoneIsNoWriter
  DEF Snapshot, At, Goto, docs, provider, received, control, TypeOK, Trying, Shown,
      Shows, Actors, Writers, Clients, Revisions, Snapshots, Nothing, Holding,
      CallPlaces, LoginPlaces, Losses, CommitAttempts, EnsureAttempts
<1>11. ASSUME NEW c \in Calls, Reread(c) PROVE TypeOK'
  <2>1. UNCHANGED <<docs, registry, lock, provider, received, seen, tries, causes>>
    BY <1>11 DEF Reread, Ends
  <2>2. pc' \in [Actors -> Places] /\ held' \in [Calls -> Writers \cup {None}]
        /\ saw' \in [Actors -> Snapshots]
    <3>1. CASE Goto(c, "owned") /\ UNCHANGED <<held, saw>>
      BY <1>11, <3>1, GotoTypes DEF Places, CallPlaces, Holding, Actors, TypeOK
    <3>2. CASE Leaves(c, "releasing")
      BY <1>11, <3>2, LeavesTypes DEF Places, CallPlaces
    <3> QED BY <1>11, <3>1, <3>2 DEF Reread, Ends
  <2> QED
    BY <1>11, <2>1, <2>2
    DEF docs, provider, received, TypeOK, Places
<1>12. ASSUME NEW c \in Calls, EnsureOwned(c) PROVE TypeOK'
  <2>1. UNCHANGED <<docs, registry, lock, provider, received, seen, tries>>
    BY <1>12 DEF EnsureOwned
  <2>2. causes' \subseteq Losses \cup {"mixed"}
    BY <1>12 DEF EnsureOwned, Left, TypeOK, Losses
  <2>3. pc' \in [Actors -> Places] /\ held' \in [Calls -> Writers \cup {None}]
        /\ saw' \in [Actors -> Snapshots]
    <3>1. CASE Goto(c, IF At(c, "owned") THEN "asking" ELSE "commit") /\ UNCHANGED <<held, saw>>
      <4>1. Goto(c, "asking") \/ Goto(c, "commit")
        BY <3>1
      <4> QED BY <1>12, <3>1, <4>1, GotoTypes DEF Places, CallPlaces, Holding, Actors, TypeOK
    <3>2. CASE Leaves(c, "releasing")
      BY <1>12, <3>2, LeavesTypes DEF Places, CallPlaces
    <3> QED BY <1>12, <3>1, <3>2 DEF EnsureOwned, Ends
  <2> QED
    BY <1>12, <2>1, <2>2, <2>3
    DEF docs, provider, received, TypeOK, Places
<1>13. ASSUME NEW c \in Calls, Answer(c) PROVE TypeOK'
  BY <1>13, NoneIsNoWriter
  DEF Answer, At, Goto, Honours, HandsOut, Used, docs, provider, received, control,
      TypeOK, Trying, Shown, Shows, Actors, Writers, Clients, Revisions, Snapshots,
      Nothing, Holding, CallPlaces, LoginPlaces, Losses, CommitAttempts, EnsureAttempts
<1>14. ASSUME NEW c \in Calls, Refuse(c) PROVE TypeOK'
  BY <1>14, NoneIsNoWriter
  DEF Refuse, At, Goto, Honours, Used, Ends, Leaves, docs, provider, received, control,
      TypeOK, Trying, Shown, Shows, Actors, Writers, Clients, Revisions, Snapshots,
      Nothing, Holding, CallPlaces, LoginPlaces, Losses, CommitAttempts, EnsureAttempts
<1>15. ASSUME NEW c \in Calls, Unanswered(c) PROVE TypeOK'
  BY <1>15, NoneIsNoWriter
  DEF Unanswered, At, Goto, Honours, HandsOut, Used, Ends, Leaves, docs, provider,
      received, control, TypeOK, Trying, Shown, Shows, Actors, Writers, Clients,
      Revisions, Snapshots, Nothing, Holding, CallPlaces, LoginPlaces, Losses,
      CommitAttempts, EnsureAttempts
<1>16. ASSUME NEW c \in Calls, Commit(c) PROVE TypeOK'
  BY <1>16, NoneIsNoWriter
  DEF Commit, At, Goto, Matches, Left, Rotated, Used, Ends, Leaves, docs, provider,
      received, control, TypeOK, Trying, Shown, Shows, Actors, Writers, Clients,
      Revisions, Snapshots, Nothing, Holding, CallPlaces, LoginPlaces, Losses,
      CommitAttempts, EnsureAttempts
<1>17. ASSUME NEW c \in Calls, Crash(c) PROVE TypeOK'
  <2>1. UNCHANGED <<docs, registry, lock, seen, tries>>
    BY <1>17 DEF Crash
  <2>2. causes' \subseteq Losses \cup {"mixed"}
    BY <1>17 DEF Crash, Left, TypeOK, Losses
  <2>3. pc' \in [Actors -> Places] /\ held' \in [Calls -> Writers \cup {None}]
        /\ saw' \in [Actors -> Snapshots]
    BY <1>17, LeavesTypes DEF Crash, Places, CallPlaces
  <2>4. /\ registered' \subseteq Clients /\ forgotten' \subseteq Clients /\ honoured' \subseteq Writers
        /\ client' \in [Writers -> Clients \cup {None}]
        /\ token' \in [Writers -> Writers \cup {None}] /\ grant' \in [Writers -> Clients]
    <3>1. CASE At(c, "asking") /\ Honours(c) /\ HandsOut(c)
      BY <1>17, <3>1, HandsOutTypes
    <3>2. CASE UNCHANGED <<provider, received>>
      BY <3>2 DEF TypeOK, provider, received
    <3> QED BY <1>17, <3>1, <3>2 DEF Crash
  <2> QED
    BY <1>17, <2>1, <2>2, <2>3, <2>4
    DEF docs, provider, received, TypeOK, Places
<1>18. ASSUME NEW l \in Logins, StartLogin(l) PROVE TypeOK'
  BY <1>18, NoneIsNoWriter
  DEF StartLogin, At, Goto, docs, provider, received, control, TypeOK, Trying, Shown,
      Shows, Actors, Writers, Clients, Revisions, Snapshots, Nothing, Holding,
      CallPlaces, LoginPlaces, Losses, CommitAttempts, EnsureAttempts
<1>19. ASSUME NEW l \in Logins, Ensure(l) PROVE TypeOK'
  BY <1>19, NoneIsNoWriter
  DEF Ensure, At, Goto, Candidate, docs, provider, received, control, TypeOK, Trying,
      Shown, Shows, Actors, Writers, Clients, Revisions, Snapshots, Nothing, Holding,
      CallPlaces, LoginPlaces, Losses, CommitAttempts, EnsureAttempts
<1>20. ASSUME NEW l \in Logins, Exchange(l) PROVE TypeOK'
  BY <1>20, NoneIsNoWriter
  DEF Exchange, At, Goto, Known, docs, provider, received, control, TypeOK, Trying,
      Shown, Shows, Actors, Writers, Clients, Revisions, Snapshots, Nothing, Holding,
      CallPlaces, LoginPlaces, Losses, CommitAttempts, EnsureAttempts
<1>21. ASSUME NEW l \in Logins, LoginSnapshot(l) PROVE TypeOK'
  BY <1>21, NoneIsNoWriter
  DEF LoginSnapshot, At, Goto, docs, provider, received, control, TypeOK, Trying, Shown,
      Shows, Actors, Writers, Clients, Revisions, Snapshots, Nothing, Holding,
      CallPlaces, LoginPlaces, Losses, CommitAttempts, EnsureAttempts
<1>22. ASSUME NEW l \in Logins, LoginCommit(l) PROVE TypeOK'
  <2>1. UNCHANGED <<registry, lock, provider, received, held, saw, seen>>
    BY <1>22 DEF LoginCommit
  <2>2. causes' \subseteq Losses \cup {"mixed"}
    BY <1>22 DEF LoginCommit, TypeOK
  <2>3. /\ access' \in Writers \cup {None} /\ refresh' \in Writers \cup {None}
        /\ expired' \in BOOLEAN
    BY <1>22 DEF LoginCommit, StoredRefresh, docs, TypeOK, Writers
  <2>4. pc' \in [Actors -> Places]
    <3>1. Goto(l, "done") \/ Goto(l, "store") \/ Goto(l, "failed")
      BY <1>22 DEF LoginCommit
    <3> QED BY <1>22, <3>1, GotoTypes DEF Places, LoginPlaces, Actors
  <2>5. tries' \in [Logins -> 0..CommitAttempts]
    BY <1>22 DEF LoginCommit, TypeOK, Trying, At, CommitAttempts
  <2> QED
    BY <1>22, <2>1, <2>2, <2>3, <2>4, <2>5
    DEF docs, provider, received, TypeOK, Places
<1>23. ASSUME NEW a \in Actors, Invalidate(a) PROVE TypeOK'
  BY <1>23, NoneIsNoWriter
  DEF Invalidate, At, Goto, Ends, Leaves, docs, provider, received, control, TypeOK,
      Trying, Shown, Shows, Actors, Writers, Clients, Revisions, Snapshots, Nothing,
      Holding, CallPlaces, LoginPlaces, Losses, CommitAttempts, EnsureAttempts
<1>24. ASSUME NEW k \in registered, Forget(k) PROVE TypeOK'
  BY <1>24, NoneIsNoWriter
  DEF Forget, At, Goto, docs, provider, received, control, TypeOK, Trying, Shown, Shows,
      Actors, Writers, Clients, Revisions, Snapshots, Nothing, Holding, CallPlaces,
      LoginPlaces, Losses, CommitAttempts, EnsureAttempts
<1>25. CASE Expire
  BY <1>25, NoneIsNoWriter
  DEF Expire, At, Goto, docs, provider, received, control, TypeOK, Trying, Shown, Shows,
      Actors, Writers, Clients, Revisions, Snapshots, Nothing, Holding, CallPlaces,
      LoginPlaces, Losses, CommitAttempts, EnsureAttempts
<1>26. CASE Disconnect
  BY <1>26, NoneIsNoWriter
  DEF Disconnect, At, Goto, docs, provider, received, control, TypeOK, Trying, Shown,
      Shows, Actors, Writers, Clients, Revisions, Snapshots, Nothing, Holding,
      CallPlaces, LoginPlaces, Losses, CommitAttempts, EnsureAttempts
<1>27. CASE AccessExpires
  BY <1>27, NoneIsNoWriter
  DEF AccessExpires, At, Goto, docs, provider, received, control, TypeOK, Trying, Shown,
      Shows, Actors, Writers, Clients, Revisions, Snapshots, Nothing, Holding,
      CallPlaces, LoginPlaces, Losses, CommitAttempts, EnsureAttempts
<1>28. CASE UNCHANGED vars
  BY <1>28, NoneIsNoWriter
  DEF vars, docs, provider, received, control, TypeOK, Trying, Shown, Shows, Actors,
      Writers, Clients, Revisions, Snapshots, Nothing, Holding, CallPlaces, LoginPlaces,
      Losses, CommitAttempts, EnsureAttempts
<1> QED BY <1>1, <1>2, <1>3, <1>4, <1>5, <1>6, <1>7, <1>8, <1>9, <1>10, <1>11, <1>12,
    <1>13, <1>14, <1>15, <1>16, <1>17, <1>18, <1>19, <1>20, <1>21, <1>22, <1>23, <1>24,
    <1>25, <1>26, <1>27, <1>28
  DEF Next, CallStep, LoginStep

LEMMA TryingStep ==
  ASSUME TypeOK, Trying, [Next]_vars
  PROVE  Trying'
<1>1. ASSUME NEW c \in Calls, Fetch(c) PROVE Trying'
  BY <1>1, NamesAssumption
  DEF Fetch, At, Goto, Fresh, control, TypeOK, Trying, Actors, CommitAttempts,
      EnsureAttempts
<1>2. ASSUME NEW c \in Calls, NEW accepted \in BOOLEAN, Use(c, accepted) PROVE Trying'
  BY <1>2, NamesAssumption
  DEF Use, At, Goto, Leaves, control, TypeOK, Trying, Actors, CommitAttempts,
      EnsureAttempts
<1>3. ASSUME NEW c \in Calls, DeleteRejected(c) PROVE Trying'
  BY <1>3, NamesAssumption
  DEF DeleteRejected, At, Goto, control, TypeOK, Trying, Actors, CommitAttempts,
      EnsureAttempts
<1>4. ASSUME NEW c \in Calls, Check(c) PROVE Trying'
  BY <1>4, NamesAssumption
  DEF Check, At, Goto, Bound, Leaves, control, TypeOK, Trying, Actors, CommitAttempts,
      EnsureAttempts
<1>5. ASSUME NEW c \in Calls, Acquire(c) PROVE Trying'
  BY <1>5, NamesAssumption
  DEF Acquire, At, Goto, Acquirable, control, TypeOK, Trying, Actors, CommitAttempts,
      EnsureAttempts
<1>6. ASSUME NEW c \in Calls, NEW landed \in BOOLEAN, Drain(c, landed) PROVE Trying'
  BY <1>6, NamesAssumption
  DEF Drain, At, Goto, Ends, Leaves, control, TypeOK, Trying, Actors, CommitAttempts,
      EnsureAttempts
<1>7. ASSUME NEW c \in Calls, StopWaiting(c) PROVE Trying'
  BY <1>7, NamesAssumption
  DEF StopWaiting, At, Goto, Ends, Leaves, control, TypeOK, Trying, Actors,
      CommitAttempts, EnsureAttempts
<1>8. ASSUME NEW c \in Calls, Release(c) PROVE Trying'
  BY <1>8, NamesAssumption
  DEF Release, At, Goto, control, TypeOK, Trying, Actors, CommitAttempts, EnsureAttempts
<1>9. ASSUME NEW c \in Calls, Recheck(c) PROVE Trying'
  BY <1>9, NamesAssumption
  DEF Recheck, At, Goto, Fresh, Ends, Leaves, control, TypeOK, Trying, Actors,
      CommitAttempts, EnsureAttempts
<1>10. ASSUME NEW c \in Calls, Snapshot(c) PROVE Trying'
  BY <1>10, NamesAssumption
  DEF Snapshot, At, Goto, control, TypeOK, Trying, Actors, CommitAttempts,
      EnsureAttempts
<1>11. ASSUME NEW c \in Calls, Reread(c) PROVE Trying'
  BY <1>11, NamesAssumption
  DEF Reread, At, Goto, Bound, Unmoved, Ends, Leaves, control, TypeOK, Trying, Actors,
      CommitAttempts, EnsureAttempts
<1>12. ASSUME NEW c \in Calls, EnsureOwned(c) PROVE Trying'
  BY <1>12, NamesAssumption
  DEF EnsureOwned, At, Goto, Ends, Leaves, Left, Rotated, Used, control, TypeOK, Trying,
      Actors, CommitAttempts, EnsureAttempts
<1>13. ASSUME NEW c \in Calls, Answer(c) PROVE Trying'
  BY <1>13, NamesAssumption
  DEF Answer, At, Goto, Honours, HandsOut, Used, control, TypeOK, Trying, Actors,
      CommitAttempts, EnsureAttempts
<1>14. ASSUME NEW c \in Calls, Refuse(c) PROVE Trying'
  BY <1>14, NamesAssumption
  DEF Refuse, At, Goto, Honours, Used, Ends, Leaves, control, TypeOK, Trying, Actors,
      CommitAttempts, EnsureAttempts
<1>15. ASSUME NEW c \in Calls, Unanswered(c) PROVE Trying'
  BY <1>15, NamesAssumption
  DEF Unanswered, At, Goto, Honours, HandsOut, Used, Ends, Leaves, control, TypeOK,
      Trying, Actors, CommitAttempts, EnsureAttempts
<1>16. ASSUME NEW c \in Calls, Commit(c) PROVE Trying'
  BY <1>16, NamesAssumption
  DEF Commit, At, Goto, Matches, Left, Rotated, Used, Ends, Leaves, control, TypeOK,
      Trying, Actors, CommitAttempts, EnsureAttempts
<1>17. ASSUME NEW c \in Calls, Crash(c) PROVE Trying'
  BY <1>17, NamesAssumption
  DEF Crash, At, Goto, Leaves, Honours, HandsOut, Used, Left, Rotated, control, TypeOK,
      Trying, Actors, CommitAttempts, EnsureAttempts
<1>18. ASSUME NEW l \in Logins, StartLogin(l) PROVE Trying'
  BY <1>18, NamesAssumption
  DEF StartLogin, At, Goto, control, TypeOK, Trying, Actors, CommitAttempts,
      EnsureAttempts
<1>19. ASSUME NEW l \in Logins, Ensure(l) PROVE Trying'
  BY <1>19, NamesAssumption
  DEF Ensure, At, Goto, Candidate, control, TypeOK, Trying, Actors, CommitAttempts,
      EnsureAttempts
<1>20. ASSUME NEW l \in Logins, Exchange(l) PROVE Trying'
  BY <1>20, NamesAssumption
  DEF Exchange, At, Goto, Known, control, TypeOK, Trying, Actors, CommitAttempts,
      EnsureAttempts
<1>21. ASSUME NEW l \in Logins, LoginSnapshot(l) PROVE Trying'
  BY <1>21, NamesAssumption
  DEF LoginSnapshot, At, Goto, control, TypeOK, Trying, Actors, CommitAttempts,
      EnsureAttempts
<1>22. ASSUME NEW l \in Logins, LoginCommit(l) PROVE Trying'
  BY <1>22, NamesAssumption
  DEF LoginCommit, At, Goto, Matches, StoredRefresh, control, TypeOK, Trying, Actors,
      CommitAttempts, EnsureAttempts
<1>23. ASSUME NEW a \in Actors, Invalidate(a) PROVE Trying'
  BY <1>23, NamesAssumption
  DEF Invalidate, At, Goto, Ends, Leaves, control, TypeOK, Trying, Actors,
      CommitAttempts, EnsureAttempts
<1>24. ASSUME NEW k \in registered, Forget(k) PROVE Trying'
  BY <1>24, NamesAssumption
  DEF Forget, At, Goto, control, TypeOK, Trying, Actors, CommitAttempts, EnsureAttempts
<1>25. CASE Expire
  BY <1>25, NamesAssumption
  DEF Expire, At, Goto, control, TypeOK, Trying, Actors, CommitAttempts, EnsureAttempts
<1>26. CASE Disconnect
  BY <1>26, NamesAssumption
  DEF Disconnect, At, Goto, control, TypeOK, Trying, Actors, CommitAttempts,
      EnsureAttempts
<1>27. CASE AccessExpires
  BY <1>27, NamesAssumption
  DEF AccessExpires, At, Goto, control, TypeOK, Trying, Actors, CommitAttempts,
      EnsureAttempts
<1>28. CASE UNCHANGED vars
  BY <1>28, NamesAssumption
  DEF vars, control, TypeOK, Trying, Actors, CommitAttempts, EnsureAttempts
<1> QED BY <1>1, <1>2, <1>3, <1>4, <1>5, <1>6, <1>7, <1>8, <1>9, <1>10, <1>11, <1>12,
    <1>13, <1>14, <1>15, <1>16, <1>17, <1>18, <1>19, <1>20, <1>21, <1>22, <1>23, <1>24,
    <1>25, <1>26, <1>27, <1>28
  DEF Next, CallStep, LoginStep

LEMMA ShownStep ==
  ASSUME TypeOK, Shown, [Next]_vars
  PROVE  Shown'
<1>1. ASSUME NEW c \in Calls, Fetch(c) PROVE Shown'
  BY <1>1, NoneIsNoWriter, NamesAssumption
  DEF Fetch, At, Goto, Fresh, control, TypeOK, Shown, Shows, Actors, Snapshots, Nothing
<1>2. ASSUME NEW c \in Calls, NEW accepted \in BOOLEAN, Use(c, accepted) PROVE Shown'
  BY <1>2, NoneIsNoWriter, NamesAssumption
  DEF Use, At, Goto, Leaves, control, TypeOK, Shown, Shows, Actors, Snapshots, Nothing
<1>3. ASSUME NEW c \in Calls, DeleteRejected(c) PROVE Shown'
  BY <1>3, NoneIsNoWriter, NamesAssumption
  DEF DeleteRejected, At, Goto, control, TypeOK, Shown, Shows, Actors, Snapshots,
      Nothing
<1>4. ASSUME NEW c \in Calls, Check(c) PROVE Shown'
  BY <1>4, NoneIsNoWriter, NamesAssumption
  DEF Check, At, Goto, Bound, Leaves, control, TypeOK, Shown, Shows, Actors, Snapshots,
      Nothing
<1>5. ASSUME NEW c \in Calls, Acquire(c) PROVE Shown'
  BY <1>5, NoneIsNoWriter, NamesAssumption
  DEF Acquire, At, Goto, Acquirable, control, TypeOK, Shown, Shows, Actors, Snapshots,
      Nothing
<1>6. ASSUME NEW c \in Calls, NEW landed \in BOOLEAN, Drain(c, landed) PROVE Shown'
  BY <1>6, NoneIsNoWriter, NamesAssumption
  DEF Drain, At, Goto, Ends, Leaves, control, TypeOK, Shown, Shows, Actors, Snapshots,
      Nothing
<1>7. ASSUME NEW c \in Calls, StopWaiting(c) PROVE Shown'
  BY <1>7, NoneIsNoWriter, NamesAssumption
  DEF StopWaiting, At, Goto, Ends, Leaves, control, TypeOK, Shown, Shows, Actors,
      Snapshots, Nothing
<1>8. ASSUME NEW c \in Calls, Release(c) PROVE Shown'
  BY <1>8, NoneIsNoWriter, NamesAssumption
  DEF Release, At, Goto, control, TypeOK, Shown, Shows, Actors, Snapshots, Nothing
<1>9. ASSUME NEW c \in Calls, Recheck(c) PROVE Shown'
  BY <1>9, NoneIsNoWriter, NamesAssumption
  DEF Recheck, At, Goto, Fresh, Ends, Leaves, control, TypeOK, Shown, Shows, Actors,
      Snapshots, Nothing
<1>10. ASSUME NEW c \in Calls, Snapshot(c) PROVE Shown'
  BY <1>10, NoneIsNoWriter, NamesAssumption
  DEF Snapshot, At, Goto, control, TypeOK, Shown, Shows, Actors, Snapshots, Nothing
<1>11. ASSUME NEW c \in Calls, Reread(c) PROVE Shown'
  BY <1>11, NoneIsNoWriter, NamesAssumption
  DEF Reread, At, Goto, Bound, Unmoved, Ends, Leaves, control, TypeOK, Shown, Shows,
      Actors, Snapshots, Nothing
<1>12. ASSUME NEW c \in Calls, EnsureOwned(c) PROVE Shown'
  BY <1>12, NoneIsNoWriter, NamesAssumption
  DEF EnsureOwned, At, Goto, Ends, Leaves, Left, Rotated, Used, control, TypeOK, Shown,
      Shows, Actors, Snapshots, Nothing
<1>13. ASSUME NEW c \in Calls, Answer(c) PROVE Shown'
  BY <1>13, NoneIsNoWriter, NamesAssumption
  DEF Answer, At, Goto, Honours, HandsOut, Used, control, TypeOK, Shown, Shows, Actors,
      Snapshots, Nothing
<1>14. ASSUME NEW c \in Calls, Refuse(c) PROVE Shown'
  BY <1>14, NoneIsNoWriter, NamesAssumption
  DEF Refuse, At, Goto, Honours, Used, Ends, Leaves, control, TypeOK, Shown, Shows,
      Actors, Snapshots, Nothing
<1>15. ASSUME NEW c \in Calls, Unanswered(c) PROVE Shown'
  BY <1>15, NoneIsNoWriter, NamesAssumption
  DEF Unanswered, At, Goto, Honours, HandsOut, Used, Ends, Leaves, control, TypeOK,
      Shown, Shows, Actors, Snapshots, Nothing
<1>16. ASSUME NEW c \in Calls, Commit(c) PROVE Shown'
  BY <1>16, NoneIsNoWriter, NamesAssumption
  DEF Commit, At, Goto, Matches, Left, Rotated, Used, Ends, Leaves, control, TypeOK,
      Shown, Shows, Actors, Snapshots, Nothing
<1>17. ASSUME NEW c \in Calls, Crash(c) PROVE Shown'
  BY <1>17, NoneIsNoWriter, NamesAssumption
  DEF Crash, At, Goto, Leaves, Honours, HandsOut, Used, Left, Rotated, control, TypeOK,
      Shown, Shows, Actors, Snapshots, Nothing
<1>18. ASSUME NEW l \in Logins, StartLogin(l) PROVE Shown'
  BY <1>18, NoneIsNoWriter, NamesAssumption
  DEF StartLogin, At, Goto, control, TypeOK, Shown, Shows, Actors, Snapshots, Nothing
<1>19. ASSUME NEW l \in Logins, Ensure(l) PROVE Shown'
  BY <1>19, NoneIsNoWriter, NamesAssumption
  DEF Ensure, At, Goto, Candidate, control, TypeOK, Shown, Shows, Actors, Snapshots,
      Nothing
<1>20. ASSUME NEW l \in Logins, Exchange(l) PROVE Shown'
  BY <1>20, NoneIsNoWriter, NamesAssumption
  DEF Exchange, At, Goto, Known, control, TypeOK, Shown, Shows, Actors, Snapshots,
      Nothing
<1>21. ASSUME NEW l \in Logins, LoginSnapshot(l) PROVE Shown'
  BY <1>21, NoneIsNoWriter, NamesAssumption
  DEF LoginSnapshot, At, Goto, control, TypeOK, Shown, Shows, Actors, Snapshots, Nothing
<1>22. ASSUME NEW l \in Logins, LoginCommit(l) PROVE Shown'
  BY <1>22, NoneIsNoWriter, NamesAssumption
  DEF LoginCommit, At, Goto, Matches, StoredRefresh, control, TypeOK, Shown, Shows,
      Actors, Snapshots, Nothing
<1>23. ASSUME NEW a \in Actors, Invalidate(a) PROVE Shown'
  BY <1>23, NoneIsNoWriter, NamesAssumption
  DEF Invalidate, At, Goto, Ends, Leaves, control, TypeOK, Shown, Shows, Actors,
      Snapshots, Nothing
<1>24. ASSUME NEW k \in registered, Forget(k) PROVE Shown'
  BY <1>24, NoneIsNoWriter, NamesAssumption
  DEF Forget, At, Goto, control, TypeOK, Shown, Shows, Actors, Snapshots, Nothing
<1>25. CASE Expire
  BY <1>25, NoneIsNoWriter, NamesAssumption
  DEF Expire, At, Goto, control, TypeOK, Shown, Shows, Actors, Snapshots, Nothing
<1>26. CASE Disconnect
  BY <1>26, NoneIsNoWriter, NamesAssumption
  DEF Disconnect, At, Goto, control, TypeOK, Shown, Shows, Actors, Snapshots, Nothing
<1>27. CASE AccessExpires
  BY <1>27, NoneIsNoWriter, NamesAssumption
  DEF AccessExpires, At, Goto, control, TypeOK, Shown, Shows, Actors, Snapshots, Nothing
<1>28. CASE UNCHANGED vars
  BY <1>28, NoneIsNoWriter, NamesAssumption
  DEF vars, control, TypeOK, Shown, Shows, Actors, Snapshots, Nothing
<1> QED BY <1>1, <1>2, <1>3, <1>4, <1>5, <1>6, <1>7, <1>8, <1>9, <1>10, <1>11, <1>12,
    <1>13, <1>14, <1>15, <1>16, <1>17, <1>18, <1>19, <1>20, <1>21, <1>22, <1>23, <1>24,
    <1>25, <1>26, <1>27, <1>28
  DEF Next, CallStep, LoginStep

Base0 == TypeOK /\ Trying /\ Shown

LEMMA InitSound == Init => Base0
BY NoneIsNoWriter
DEF Init, Base0, TypeOK, Trying, Shown, Shows, Actors, Writers, Clients, Revisions, Snapshots,
    Nothing, CallPlaces, LoginPlaces, Losses, CommitAttempts

LEMMA SoundStep == Base0 /\ [Next]_vars => Base0'
BY TypeStep, TryingStep, ShownStep DEF Base0

LEMMA SoundInvariant == Spec => []Base0
BY InitSound, SoundStep, PTL DEF Spec

(* Every variable of the model keeps its type, whatever fails. *)
THEOREM TypeCorrect == Spec => []TypeOK
BY SoundInvariant, PTL DEF Base0

-----------------------------------------------------------------------------
Continues ==
  refresh' # refresh /\ refresh' \in Calls => refresh # None /\ saw[refresh'].refresh = refresh

LEMMA ContinuesStep ==
  ASSUME Base0, [Next]_vars
  PROVE  Continues
<1>1. ASSUME NEW c \in Calls, Fetch(c) PROVE Continues
  BY <1>1, NoneIsNoWriter, NamesAssumption
  DEF Fetch, At, Goto, Fresh, docs, Base0, Continues, Shown, Shows
<1>2. ASSUME NEW c \in Calls, NEW accepted \in BOOLEAN, Use(c, accepted) PROVE Continues
  BY <1>2, NoneIsNoWriter, NamesAssumption
  DEF Use, At, Goto, Leaves, docs, Base0, Continues, Shown, Shows
<1>3. ASSUME NEW c \in Calls, DeleteRejected(c) PROVE Continues
  BY <1>3, NoneIsNoWriter, NamesAssumption
  DEF DeleteRejected, At, Goto, docs, Base0, Continues, Shown, Shows
<1>4. ASSUME NEW c \in Calls, Check(c) PROVE Continues
  BY <1>4, NoneIsNoWriter, NamesAssumption
  DEF Check, At, Goto, Bound, Leaves, docs, Base0, Continues, Shown, Shows
<1>5. ASSUME NEW c \in Calls, Acquire(c) PROVE Continues
  BY <1>5, NoneIsNoWriter, NamesAssumption
  DEF Acquire, At, Goto, Acquirable, docs, Base0, Continues, Shown, Shows
<1>6. ASSUME NEW c \in Calls, NEW landed \in BOOLEAN, Drain(c, landed) PROVE Continues
  BY <1>6, NoneIsNoWriter, NamesAssumption
  DEF Drain, At, Goto, Ends, Leaves, docs, Base0, Continues, Shown, Shows
<1>7. ASSUME NEW c \in Calls, StopWaiting(c) PROVE Continues
  BY <1>7, NoneIsNoWriter, NamesAssumption
  DEF StopWaiting, At, Goto, Ends, Leaves, docs, Base0, Continues, Shown, Shows
<1>8. ASSUME NEW c \in Calls, Release(c) PROVE Continues
  BY <1>8, NoneIsNoWriter, NamesAssumption
  DEF Release, At, Goto, docs, Base0, Continues, Shown, Shows
<1>9. ASSUME NEW c \in Calls, Recheck(c) PROVE Continues
  BY <1>9, NoneIsNoWriter, NamesAssumption
  DEF Recheck, At, Goto, Fresh, Ends, Leaves, docs, Base0, Continues, Shown, Shows
<1>10. ASSUME NEW c \in Calls, Snapshot(c) PROVE Continues
  BY <1>10, NoneIsNoWriter, NamesAssumption
  DEF Snapshot, At, Goto, docs, Base0, Continues, Shown, Shows
<1>11. ASSUME NEW c \in Calls, Reread(c) PROVE Continues
  BY <1>11, NoneIsNoWriter, NamesAssumption
  DEF Reread, At, Goto, Bound, Unmoved, Ends, Leaves, docs, Base0, Continues, Shown,
      Shows
<1>12. ASSUME NEW c \in Calls, EnsureOwned(c) PROVE Continues
  BY <1>12, NoneIsNoWriter, NamesAssumption
  DEF EnsureOwned, At, Goto, Ends, Leaves, Left, Rotated, Used, docs, Base0, Continues,
      Shown, Shows
<1>13. ASSUME NEW c \in Calls, Answer(c) PROVE Continues
  BY <1>13, NoneIsNoWriter, NamesAssumption
  DEF Answer, At, Goto, Honours, HandsOut, Used, docs, Base0, Continues, Shown, Shows
<1>14. ASSUME NEW c \in Calls, Refuse(c) PROVE Continues
  BY <1>14, NoneIsNoWriter, NamesAssumption
  DEF Refuse, At, Goto, Honours, Used, Ends, Leaves, docs, Base0, Continues, Shown,
      Shows
<1>15. ASSUME NEW c \in Calls, Unanswered(c) PROVE Continues
  BY <1>15, NoneIsNoWriter, NamesAssumption
  DEF Unanswered, At, Goto, Honours, HandsOut, Used, Ends, Leaves, docs, Base0,
      Continues, Shown, Shows
<1>16. ASSUME NEW c \in Calls, Commit(c) PROVE Continues
  BY <1>16, NoneIsNoWriter, NamesAssumption
  DEF Commit, At, Goto, Matches, Left, Rotated, Used, Ends, Leaves, docs, Base0,
      Continues, Shown, Shows
<1>17. ASSUME NEW c \in Calls, Crash(c) PROVE Continues
  BY <1>17, NoneIsNoWriter, NamesAssumption
  DEF Crash, At, Goto, Leaves, Honours, HandsOut, Used, Left, Rotated, docs, Base0,
      Continues, Shown, Shows
<1>18. ASSUME NEW l \in Logins, StartLogin(l) PROVE Continues
  BY <1>18, NoneIsNoWriter, NamesAssumption
  DEF StartLogin, At, Goto, docs, Base0, Continues, Shown, Shows
<1>19. ASSUME NEW l \in Logins, Ensure(l) PROVE Continues
  BY <1>19, NoneIsNoWriter, NamesAssumption
  DEF Ensure, At, Goto, Candidate, docs, Base0, Continues, Shown, Shows
<1>20. ASSUME NEW l \in Logins, Exchange(l) PROVE Continues
  BY <1>20, NoneIsNoWriter, NamesAssumption
  DEF Exchange, At, Goto, Known, docs, Base0, Continues, Shown, Shows
<1>21. ASSUME NEW l \in Logins, LoginSnapshot(l) PROVE Continues
  BY <1>21, NoneIsNoWriter, NamesAssumption
  DEF LoginSnapshot, At, Goto, docs, Base0, Continues, Shown, Shows
<1>22. ASSUME NEW l \in Logins, LoginCommit(l) PROVE Continues
  BY <1>22, NoneIsNoWriter, NamesAssumption
  DEF LoginCommit, At, Goto, Matches, StoredRefresh, docs, Base0, Continues, Shown,
      Shows
<1>23. ASSUME NEW a \in Actors, Invalidate(a) PROVE Continues
  BY <1>23, NoneIsNoWriter, NamesAssumption
  DEF Invalidate, At, Goto, Ends, Leaves, docs, Base0, Continues, Shown, Shows
<1>24. ASSUME NEW k \in registered, Forget(k) PROVE Continues
  BY <1>24, NoneIsNoWriter, NamesAssumption
  DEF Forget, At, Goto, docs, Base0, Continues, Shown, Shows
<1>25. CASE Expire
  BY <1>25, NoneIsNoWriter, NamesAssumption
  DEF Expire, At, Goto, docs, Base0, Continues, Shown, Shows
<1>26. CASE Disconnect
  BY <1>26, NoneIsNoWriter, NamesAssumption
  DEF Disconnect, At, Goto, docs, Base0, Continues, Shown, Shows
<1>27. CASE AccessExpires
  BY <1>27, NoneIsNoWriter, NamesAssumption
  DEF AccessExpires, At, Goto, docs, Base0, Continues, Shown, Shows
<1>28. CASE UNCHANGED vars
  BY <1>28, NoneIsNoWriter, NamesAssumption
  DEF vars, docs, Base0, Continues, Shown, Shows
<1> QED BY <1>1, <1>2, <1>3, <1>4, <1>5, <1>6, <1>7, <1>8, <1>9, <1>10, <1>11, <1>12,
    <1>13, <1>14, <1>15, <1>16, <1>17, <1>18, <1>19, <1>20, <1>21, <1>22, <1>23, <1>24,
    <1>25, <1>26, <1>27, <1>28
  DEF Next, CallStep, LoginStep

(* A refresh replaces only the refresh token that it has shown to the       *)
(* provider, whoever has the lease by then, and never brings back an       *)
(* authorisation that was taken away.                                      *)
THEOREM ContinuesStored == Spec => RefreshContinuesStored
<1>1. Base0 /\ [Next]_vars =>
        [refresh' # refresh /\ refresh' \in Calls =>
           refresh # None /\ saw[refresh'].refresh = refresh]_vars
  BY ContinuesStep DEF Continues
<1> QED BY <1>1, SoundInvariant, PTL DEF Spec, RefreshContinuesStored

LEMMA OneGrantStep ==
  ASSUME Base0, OneGrantStored, [Next]_vars
  PROVE  OneGrantStored'
<1>1. ASSUME NEW c \in Calls, Fetch(c) PROVE OneGrantStored'
  BY <1>1, NoneIsNoWriter
  DEF Fetch, At, Goto, Fresh, docs, OneGrantStored
<1>2. ASSUME NEW c \in Calls, NEW accepted \in BOOLEAN, Use(c, accepted) PROVE OneGrantStored'
  BY <1>2, NoneIsNoWriter
  DEF Use, At, Goto, Leaves, docs, OneGrantStored
<1>3. ASSUME NEW c \in Calls, DeleteRejected(c) PROVE OneGrantStored'
  BY <1>3, NoneIsNoWriter
  DEF DeleteRejected, At, Goto, docs, OneGrantStored
<1>4. ASSUME NEW c \in Calls, Check(c) PROVE OneGrantStored'
  BY <1>4, NoneIsNoWriter
  DEF Check, At, Goto, Bound, Leaves, docs, OneGrantStored
<1>5. ASSUME NEW c \in Calls, Acquire(c) PROVE OneGrantStored'
  BY <1>5, NoneIsNoWriter
  DEF Acquire, At, Goto, Acquirable, docs, OneGrantStored
<1>6. ASSUME NEW c \in Calls, NEW landed \in BOOLEAN, Drain(c, landed) PROVE OneGrantStored'
  BY <1>6, NoneIsNoWriter
  DEF Drain, At, Goto, Ends, Leaves, docs, OneGrantStored
<1>7. ASSUME NEW c \in Calls, StopWaiting(c) PROVE OneGrantStored'
  BY <1>7, NoneIsNoWriter
  DEF StopWaiting, At, Goto, Ends, Leaves, docs, OneGrantStored
<1>8. ASSUME NEW c \in Calls, Release(c) PROVE OneGrantStored'
  BY <1>8, NoneIsNoWriter
  DEF Release, At, Goto, docs, OneGrantStored
<1>9. ASSUME NEW c \in Calls, Recheck(c) PROVE OneGrantStored'
  BY <1>9, NoneIsNoWriter
  DEF Recheck, At, Goto, Fresh, Ends, Leaves, docs, OneGrantStored
<1>10. ASSUME NEW c \in Calls, Snapshot(c) PROVE OneGrantStored'
  BY <1>10, NoneIsNoWriter
  DEF Snapshot, At, Goto, docs, OneGrantStored
<1>11. ASSUME NEW c \in Calls, Reread(c) PROVE OneGrantStored'
  BY <1>11, NoneIsNoWriter
  DEF Reread, At, Goto, Bound, Unmoved, Ends, Leaves, docs, OneGrantStored
<1>12. ASSUME NEW c \in Calls, EnsureOwned(c) PROVE OneGrantStored'
  BY <1>12, NoneIsNoWriter
  DEF EnsureOwned, At, Goto, Ends, Leaves, Left, Rotated, Used, docs, OneGrantStored
<1>13. ASSUME NEW c \in Calls, Answer(c) PROVE OneGrantStored'
  BY <1>13, NoneIsNoWriter
  DEF Answer, At, Goto, Honours, HandsOut, Used, docs, OneGrantStored
<1>14. ASSUME NEW c \in Calls, Refuse(c) PROVE OneGrantStored'
  BY <1>14, NoneIsNoWriter
  DEF Refuse, At, Goto, Honours, Used, Ends, Leaves, docs, OneGrantStored
<1>15. ASSUME NEW c \in Calls, Unanswered(c) PROVE OneGrantStored'
  BY <1>15, NoneIsNoWriter
  DEF Unanswered, At, Goto, Honours, HandsOut, Used, Ends, Leaves, docs, OneGrantStored
<1>16. ASSUME NEW c \in Calls, Commit(c) PROVE OneGrantStored'
  BY <1>16, NoneIsNoWriter
  DEF Commit, At, Goto, Matches, Left, Rotated, Used, Ends, Leaves, docs, OneGrantStored
<1>17. ASSUME NEW c \in Calls, Crash(c) PROVE OneGrantStored'
  BY <1>17, NoneIsNoWriter
  DEF Crash, At, Goto, Leaves, Honours, HandsOut, Used, Left, Rotated, docs,
      OneGrantStored
<1>18. ASSUME NEW l \in Logins, StartLogin(l) PROVE OneGrantStored'
  BY <1>18, NoneIsNoWriter
  DEF StartLogin, At, Goto, docs, OneGrantStored
<1>19. ASSUME NEW l \in Logins, Ensure(l) PROVE OneGrantStored'
  BY <1>19, NoneIsNoWriter
  DEF Ensure, At, Goto, Candidate, docs, OneGrantStored
<1>20. ASSUME NEW l \in Logins, Exchange(l) PROVE OneGrantStored'
  BY <1>20, NoneIsNoWriter
  DEF Exchange, At, Goto, Known, docs, OneGrantStored
<1>21. ASSUME NEW l \in Logins, LoginSnapshot(l) PROVE OneGrantStored'
  BY <1>21, NoneIsNoWriter
  DEF LoginSnapshot, At, Goto, docs, OneGrantStored
<1>22. ASSUME NEW l \in Logins, LoginCommit(l) PROVE OneGrantStored'
  BY <1>22, NoneIsNoWriter
  DEF LoginCommit, At, Goto, Matches, StoredRefresh, docs, OneGrantStored
<1>23. ASSUME NEW a \in Actors, Invalidate(a) PROVE OneGrantStored'
  BY <1>23, NoneIsNoWriter
  DEF Invalidate, At, Goto, Ends, Leaves, docs, OneGrantStored
<1>24. ASSUME NEW k \in registered, Forget(k) PROVE OneGrantStored'
  BY <1>24, NoneIsNoWriter
  DEF Forget, At, Goto, docs, OneGrantStored
<1>25. CASE Expire
  BY <1>25, NoneIsNoWriter
  DEF Expire, At, Goto, docs, OneGrantStored
<1>26. CASE Disconnect
  BY <1>26, NoneIsNoWriter
  DEF Disconnect, At, Goto, docs, OneGrantStored
<1>27. CASE AccessExpires
  BY <1>27, NoneIsNoWriter
  DEF AccessExpires, At, Goto, docs, OneGrantStored
<1>28. CASE UNCHANGED vars
  BY <1>28, NoneIsNoWriter
  DEF vars, docs, OneGrantStored
<1> QED BY <1>1, <1>2, <1>3, <1>4, <1>5, <1>6, <1>7, <1>8, <1>9, <1>10, <1>11, <1>12,
    <1>13, <1>14, <1>15, <1>16, <1>17, <1>18, <1>19, <1>20, <1>21, <1>22, <1>23, <1>24,
    <1>25, <1>26, <1>27, <1>28
  DEF Next, CallStep, LoginStep

(* The stored access and refresh token are of one commit, except after a    *)
(* login that found no tokens, received no refresh token and raced with    *)
(* another login and with a call that deleted that one's access token.     *)
THEOREM OneGrant == Spec => []OneGrantStored
<1>1. Init => OneGrantStored
  BY DEF Init, OneGrantStored
<1>2. Base0 /\ OneGrantStored /\ [Next]_vars => OneGrantStored'
  BY OneGrantStep DEF vars, OneGrantStored, docs
<1> QED BY <1>1, <1>2, SoundInvariant, PTL DEF Spec

(* What the actor received is stored for good, or not at all. *)
Over(w) == \/ w = Base
           \/ w \in Actors /\ pc[w] \in {"releasing", "done", "dead"}

LEMMA OverStep ==
  ASSUME Base0, NEW w \in Writers, Over(w), [Next]_vars
  PROVE  Over(w)'
<1>base. CASE w = Base
  BY <1>base DEF Over
<1> SUFFICES ASSUME w # Base
             PROVE  Over(w)'
  BY <1>base
<1> DEFINE Moves == \A a \in Actors : \A p : Goto(a, p) => pc'[w] = IF w = a THEN p ELSE pc[w]
<1>a. Moves
  BY DEF Base0, TypeOK, Goto
<1>b. w \in Actors /\ pc[w] \in {"releasing", "done", "dead"}
  BY DEF Over
<1> HIDE DEF Moves
<1>1. ASSUME NEW c \in Calls, Fetch(c) PROVE Over(w)'
  BY <1>1, <1>a, <1>b
  DEF Fetch, At, control, Moves, Over, Actors, Holding
<1>2. ASSUME NEW c \in Calls, NEW accepted \in BOOLEAN, Use(c, accepted) PROVE Over(w)'
  BY <1>2, <1>a, <1>b
  DEF Use, At, Ends, Leaves, control, Moves, Over, Actors, Holding
<1>3. ASSUME NEW c \in Calls, DeleteRejected(c) PROVE Over(w)'
  BY <1>3, <1>a, <1>b
  DEF DeleteRejected, At, control, Moves, Over, Actors, Holding
<1>4. ASSUME NEW c \in Calls, Check(c) PROVE Over(w)'
  BY <1>4, <1>a, <1>b
  DEF Check, At, Ends, Leaves, control, Moves, Over, Actors, Holding
<1>5. ASSUME NEW c \in Calls, Acquire(c) PROVE Over(w)'
  BY <1>5, <1>a, <1>b
  DEF Acquire, At, control, Moves, Over, Actors, Holding
<1>6. ASSUME NEW c \in Calls, NEW landed \in BOOLEAN, Drain(c, landed) PROVE Over(w)'
  BY <1>6, <1>a, <1>b
  DEF Drain, At, Ends, Leaves, control, Moves, Over, Actors, Holding
<1>7. ASSUME NEW c \in Calls, StopWaiting(c) PROVE Over(w)'
  BY <1>7, <1>a, <1>b
  DEF StopWaiting, At, Ends, Leaves, control, Moves, Over, Actors, Holding
<1>8. ASSUME NEW c \in Calls, Release(c) PROVE Over(w)'
  BY <1>8, <1>a, <1>b
  DEF Release, At, control, Moves, Over, Actors, Holding
<1>9. ASSUME NEW c \in Calls, Recheck(c) PROVE Over(w)'
  BY <1>9, <1>a, <1>b
  DEF Recheck, At, Ends, Leaves, control, Moves, Over, Actors, Holding
<1>10. ASSUME NEW c \in Calls, Snapshot(c) PROVE Over(w)'
  BY <1>10, <1>a, <1>b
  DEF Snapshot, At, control, Moves, Over, Actors, Holding
<1>11. ASSUME NEW c \in Calls, Reread(c) PROVE Over(w)'
  BY <1>11, <1>a, <1>b
  DEF Reread, At, Ends, Leaves, control, Moves, Over, Actors, Holding
<1>12. ASSUME NEW c \in Calls, EnsureOwned(c) PROVE Over(w)'
  BY <1>12, <1>a, <1>b
  DEF EnsureOwned, At, Ends, Leaves, control, Moves, Over, Actors, Holding
<1>13. ASSUME NEW c \in Calls, Answer(c) PROVE Over(w)'
  BY <1>13, <1>a, <1>b
  DEF Answer, At, control, Moves, Over, Actors, Holding
<1>14. ASSUME NEW c \in Calls, Refuse(c) PROVE Over(w)'
  BY <1>14, <1>a, <1>b
  DEF Refuse, At, Ends, Leaves, control, Moves, Over, Actors, Holding
<1>15. ASSUME NEW c \in Calls, Unanswered(c) PROVE Over(w)'
  BY <1>15, <1>a, <1>b
  DEF Unanswered, At, Ends, Leaves, control, Moves, Over, Actors, Holding
<1>16. ASSUME NEW c \in Calls, Commit(c) PROVE Over(w)'
  BY <1>16, <1>a, <1>b
  DEF Commit, At, Ends, Leaves, control, Moves, Over, Actors, Holding
<1>17. ASSUME NEW c \in Calls, Crash(c) PROVE Over(w)'
  BY <1>17, <1>a, <1>b
  DEF Crash, At, Ends, Leaves, control, Moves, Over, Actors, Holding
<1>18. ASSUME NEW l \in Logins, StartLogin(l) PROVE Over(w)'
  BY <1>18, <1>a, <1>b
  DEF StartLogin, At, control, Moves, Over, Actors, Holding
<1>19. ASSUME NEW l \in Logins, Ensure(l) PROVE Over(w)'
  BY <1>19, <1>a, <1>b
  DEF Ensure, At, control, Moves, Over, Actors, Holding
<1>20. ASSUME NEW l \in Logins, Exchange(l) PROVE Over(w)'
  BY <1>20, <1>a, <1>b
  DEF Exchange, At, control, Moves, Over, Actors, Holding
<1>21. ASSUME NEW l \in Logins, LoginSnapshot(l) PROVE Over(w)'
  BY <1>21, <1>a, <1>b
  DEF LoginSnapshot, At, control, Moves, Over, Actors, Holding
<1>22. ASSUME NEW l \in Logins, LoginCommit(l) PROVE Over(w)'
  BY <1>22, <1>a, <1>b
  DEF LoginCommit, At, control, Moves, Over, Actors, Holding
<1>23. ASSUME NEW a \in Actors, Invalidate(a) PROVE Over(w)'
  BY <1>23, <1>a, <1>b
  DEF Invalidate, At, Ends, Leaves, control, Moves, Over, Actors, Holding
<1>24. ASSUME NEW k \in registered, Forget(k) PROVE Over(w)'
  BY <1>24, <1>a, <1>b
  DEF Forget, At, control, Moves, Over, Actors, Holding
<1>25. CASE Expire
  BY <1>25, <1>a, <1>b
  DEF Expire, At, control, Moves, Over, Actors, Holding
<1>26. CASE Disconnect
  BY <1>26, <1>a, <1>b
  DEF Disconnect, At, control, Moves, Over, Actors, Holding
<1>27. CASE AccessExpires
  BY <1>27, <1>a, <1>b
  DEF AccessExpires, At, control, Moves, Over, Actors, Holding
<1>28. CASE UNCHANGED vars
  BY <1>28, <1>a, <1>b
  DEF vars, control, Moves, Over, Actors, Holding
<1> QED BY <1>1, <1>2, <1>3, <1>4, <1>5, <1>6, <1>7, <1>8, <1>9, <1>10, <1>11, <1>12,
    <1>13, <1>14, <1>15, <1>16, <1>17, <1>18, <1>19, <1>20, <1>21, <1>22, <1>23, <1>24,
    <1>25, <1>26, <1>27, <1>28
  DEF Next, CallStep, LoginStep


(* A token goes round among the documents only once its receiver is done. *)
Stored ==
  /\ refresh # None => Over(refresh)
  /\ \A a \in Actors : saw[a].refresh # None => Over(saw[a].refresh)
Provenance ==
  /\ \A w \in Writers : token[w] # None /\ token[w] # w => Over(token[w])
  /\ \A l \in Logins : token[l] \in {None, l}
Sound == Base0 /\ Stored /\ Provenance

LEMMA RefreshStored ==
  ASSUME Base0, Stored, [Next]_vars, refresh' # None
  PROVE  Over(refresh)'
<1>a. refresh' = refresh => Over(refresh)'
  BY OverStep DEF Base0, TypeOK, Stored
<1>1. ASSUME NEW c \in Calls, Fetch(c) PROVE Over(refresh)'
  BY <1>1, <1>a, NoneIsNoWriter
  DEF Fetch, At, Goto, docs, Over, Actors, Base0, TypeOK
<1>2. ASSUME NEW c \in Calls, NEW accepted \in BOOLEAN, Use(c, accepted) PROVE Over(refresh)'
  BY <1>2, <1>a, NoneIsNoWriter
  DEF Use, At, Goto, Ends, Leaves, docs, Over, Actors, Base0, TypeOK
<1>3. ASSUME NEW c \in Calls, DeleteRejected(c) PROVE Over(refresh)'
  BY <1>3, <1>a, NoneIsNoWriter
  DEF DeleteRejected, At, Goto, docs, Over, Actors, Base0, TypeOK
<1>4. ASSUME NEW c \in Calls, Check(c) PROVE Over(refresh)'
  BY <1>4, <1>a, NoneIsNoWriter
  DEF Check, At, Goto, Ends, Leaves, docs, Over, Actors, Base0, TypeOK
<1>5. ASSUME NEW c \in Calls, Acquire(c) PROVE Over(refresh)'
  BY <1>5, <1>a, NoneIsNoWriter
  DEF Acquire, At, Goto, docs, Over, Actors, Base0, TypeOK
<1>6. ASSUME NEW c \in Calls, NEW landed \in BOOLEAN, Drain(c, landed) PROVE Over(refresh)'
  BY <1>6, <1>a, NoneIsNoWriter
  DEF Drain, At, Goto, Ends, Leaves, docs, Over, Actors, Base0, TypeOK
<1>7. ASSUME NEW c \in Calls, StopWaiting(c) PROVE Over(refresh)'
  BY <1>7, <1>a, NoneIsNoWriter
  DEF StopWaiting, At, Goto, Ends, Leaves, docs, Over, Actors, Base0, TypeOK
<1>8. ASSUME NEW c \in Calls, Release(c) PROVE Over(refresh)'
  BY <1>8, <1>a, NoneIsNoWriter
  DEF Release, At, Goto, docs, Over, Actors, Base0, TypeOK
<1>9. ASSUME NEW c \in Calls, Recheck(c) PROVE Over(refresh)'
  BY <1>9, <1>a, NoneIsNoWriter
  DEF Recheck, At, Goto, Ends, Leaves, docs, Over, Actors, Base0, TypeOK
<1>10. ASSUME NEW c \in Calls, Snapshot(c) PROVE Over(refresh)'
  BY <1>10, <1>a, NoneIsNoWriter
  DEF Snapshot, At, Goto, docs, Over, Actors, Base0, TypeOK
<1>11. ASSUME NEW c \in Calls, Reread(c) PROVE Over(refresh)'
  BY <1>11, <1>a, NoneIsNoWriter
  DEF Reread, At, Goto, Ends, Leaves, docs, Over, Actors, Base0, TypeOK
<1>12. ASSUME NEW c \in Calls, EnsureOwned(c) PROVE Over(refresh)'
  BY <1>12, <1>a, NoneIsNoWriter
  DEF EnsureOwned, At, Goto, Ends, Leaves, docs, Over, Actors, Base0, TypeOK
<1>13. ASSUME NEW c \in Calls, Answer(c) PROVE Over(refresh)'
  BY <1>13, <1>a, NoneIsNoWriter
  DEF Answer, At, Goto, docs, Over, Actors, Base0, TypeOK
<1>14. ASSUME NEW c \in Calls, Refuse(c) PROVE Over(refresh)'
  BY <1>14, <1>a, NoneIsNoWriter
  DEF Refuse, At, Goto, Ends, Leaves, docs, Over, Actors, Base0, TypeOK
<1>15. ASSUME NEW c \in Calls, Unanswered(c) PROVE Over(refresh)'
  BY <1>15, <1>a, NoneIsNoWriter
  DEF Unanswered, At, Goto, Ends, Leaves, docs, Over, Actors, Base0, TypeOK
<1>16. ASSUME NEW c \in Calls, Commit(c) PROVE Over(refresh)'
  <2>1. CASE UNCHANGED docs
    BY <2>1, <1>a DEF docs
  <2>2. CASE refresh' = c
    BY <1>16, <2>2, NoneIsNoWriter DEF Over, Actors, Base0, TypeOK, Commit, Ends, Leaves, Goto
  <2> QED BY <1>16, <2>1, <2>2 DEF Commit
<1>17. ASSUME NEW c \in Calls, Crash(c) PROVE Over(refresh)'
  BY <1>17, <1>a, NoneIsNoWriter
  DEF Crash, At, Goto, Ends, Leaves, docs, Over, Actors, Base0, TypeOK
<1>18. ASSUME NEW l \in Logins, StartLogin(l) PROVE Over(refresh)'
  BY <1>18, <1>a, NoneIsNoWriter
  DEF StartLogin, At, Goto, docs, Over, Actors, Base0, TypeOK
<1>19. ASSUME NEW l \in Logins, Ensure(l) PROVE Over(refresh)'
  BY <1>19, <1>a, NoneIsNoWriter
  DEF Ensure, At, Goto, docs, Over, Actors, Base0, TypeOK
<1>20. ASSUME NEW l \in Logins, Exchange(l) PROVE Over(refresh)'
  BY <1>20, <1>a, NoneIsNoWriter
  DEF Exchange, At, Goto, docs, Over, Actors, Base0, TypeOK
<1>21. ASSUME NEW l \in Logins, LoginSnapshot(l) PROVE Over(refresh)'
  BY <1>21, <1>a, NoneIsNoWriter
  DEF LoginSnapshot, At, Goto, docs, Over, Actors, Base0, TypeOK
<1>22. ASSUME NEW l \in Logins, LoginCommit(l) PROVE Over(refresh)'
  <2>1. CASE refresh' = refresh
    BY <2>1, <1>a
  <2>2. CASE refresh' = l /\ Goto(l, "done")
    BY <1>22, <2>2, NoneIsNoWriter DEF Over, Actors, Base0, TypeOK, Goto
  <2> QED BY <1>22, <2>1, <2>2 DEF LoginCommit, StoredRefresh, docs
<1>23. ASSUME NEW a \in Actors, Invalidate(a) PROVE Over(refresh)'
  BY <1>23, <1>a, NoneIsNoWriter
  DEF Invalidate, At, Goto, Ends, Leaves, docs, Over, Actors, Base0, TypeOK
<1>24. ASSUME NEW k \in registered, Forget(k) PROVE Over(refresh)'
  BY <1>24, <1>a, NoneIsNoWriter
  DEF Forget, At, Goto, docs, Over, Actors, Base0, TypeOK
<1>25. CASE Expire
  BY <1>25, <1>a, NoneIsNoWriter
  DEF Expire, At, Goto, docs, Over, Actors, Base0, TypeOK
<1>26. CASE Disconnect
  BY <1>26, <1>a, NoneIsNoWriter
  DEF Disconnect, At, Goto, docs, Over, Actors, Base0, TypeOK
<1>27. CASE AccessExpires
  BY <1>27, <1>a, NoneIsNoWriter
  DEF AccessExpires, At, Goto, docs, Over, Actors, Base0, TypeOK
<1>28. CASE UNCHANGED vars
  BY <1>28, <1>a, NoneIsNoWriter
  DEF vars, docs, Over, Actors, Base0, TypeOK
<1> QED BY <1>1, <1>2, <1>3, <1>4, <1>5, <1>6, <1>7, <1>8, <1>9, <1>10, <1>11, <1>12,
    <1>13, <1>14, <1>15, <1>16, <1>17, <1>18, <1>19, <1>20, <1>21, <1>22, <1>23, <1>24,
    <1>25, <1>26, <1>27, <1>28
  DEF Next, CallStep, LoginStep

LEMMA SawStored ==
  ASSUME Base0, Stored, [Next]_vars, NEW b \in Actors, saw'[b].refresh # None
  PROVE  Over(saw[b].refresh)'
<1>a. saw'[b].refresh = saw[b].refresh => Over(saw[b].refresh)'
  BY OverStep DEF Base0, TypeOK, Stored, Snapshots
<1>b. saw'[b].refresh = refresh => Over(saw[b].refresh)'
  BY OverStep DEF Base0, TypeOK, Stored, Over
<1>c. saw \in [Actors -> Snapshots]
  BY DEF Base0, TypeOK
<1>1. ASSUME NEW c \in Calls, Fetch(c) PROVE Over(saw[b].refresh)'
  BY <1>1, <1>a, <1>b, <1>c
  DEF Fetch, control, Actors, Nothing
<1>2. ASSUME NEW c \in Calls, NEW accepted \in BOOLEAN, Use(c, accepted)
      PROVE Over(saw[b].refresh)'
  BY <1>2, <1>a, <1>b, <1>c
  DEF Use, Ends, Leaves, control, Actors, Nothing
<1>3. ASSUME NEW c \in Calls, DeleteRejected(c) PROVE Over(saw[b].refresh)'
  BY <1>3, <1>a, <1>b, <1>c
  DEF DeleteRejected, control, Actors, Nothing
<1>4. ASSUME NEW c \in Calls, Check(c) PROVE Over(saw[b].refresh)'
  BY <1>4, <1>a, <1>b, <1>c
  DEF Check, Ends, Leaves, control, Actors, Nothing
<1>5. ASSUME NEW c \in Calls, Acquire(c) PROVE Over(saw[b].refresh)'
  BY <1>5, <1>a, <1>b, <1>c
  DEF Acquire, control, Actors, Nothing
<1>6. ASSUME NEW c \in Calls, NEW landed \in BOOLEAN, Drain(c, landed)
      PROVE Over(saw[b].refresh)'
  BY <1>6, <1>a, <1>b, <1>c
  DEF Drain, Ends, Leaves, control, Actors, Nothing
<1>7. ASSUME NEW c \in Calls, StopWaiting(c) PROVE Over(saw[b].refresh)'
  BY <1>7, <1>a, <1>b, <1>c
  DEF StopWaiting, Ends, Leaves, control, Actors, Nothing
<1>8. ASSUME NEW c \in Calls, Release(c) PROVE Over(saw[b].refresh)'
  BY <1>8, <1>a, <1>b, <1>c
  DEF Release, control, Actors, Nothing
<1>9. ASSUME NEW c \in Calls, Recheck(c) PROVE Over(saw[b].refresh)'
  BY <1>9, <1>a, <1>b, <1>c
  DEF Recheck, Ends, Leaves, control, Actors, Nothing
<1>10. ASSUME NEW c \in Calls, Snapshot(c) PROVE Over(saw[b].refresh)'
  BY <1>10, <1>a, <1>b, <1>c
  DEF Snapshot, control, Actors, Nothing
<1>11. ASSUME NEW c \in Calls, Reread(c) PROVE Over(saw[b].refresh)'
  BY <1>11, <1>a, <1>b, <1>c
  DEF Reread, Ends, Leaves, control, Actors, Nothing
<1>12. ASSUME NEW c \in Calls, EnsureOwned(c) PROVE Over(saw[b].refresh)'
  BY <1>12, <1>a, <1>b, <1>c
  DEF EnsureOwned, Ends, Leaves, control, Actors, Nothing
<1>13. ASSUME NEW c \in Calls, Answer(c) PROVE Over(saw[b].refresh)'
  BY <1>13, <1>a, <1>b, <1>c
  DEF Answer, control, Actors, Nothing
<1>14. ASSUME NEW c \in Calls, Refuse(c) PROVE Over(saw[b].refresh)'
  BY <1>14, <1>a, <1>b, <1>c
  DEF Refuse, Ends, Leaves, control, Actors, Nothing
<1>15. ASSUME NEW c \in Calls, Unanswered(c) PROVE Over(saw[b].refresh)'
  BY <1>15, <1>a, <1>b, <1>c
  DEF Unanswered, Ends, Leaves, control, Actors, Nothing
<1>16. ASSUME NEW c \in Calls, Commit(c) PROVE Over(saw[b].refresh)'
  BY <1>16, <1>a, <1>b, <1>c
  DEF Commit, Ends, Leaves, control, Actors, Nothing
<1>17. ASSUME NEW c \in Calls, Crash(c) PROVE Over(saw[b].refresh)'
  BY <1>17, <1>a, <1>b, <1>c
  DEF Crash, Ends, Leaves, control, Actors, Nothing
<1>18. ASSUME NEW l \in Logins, StartLogin(l) PROVE Over(saw[b].refresh)'
  BY <1>18, <1>a, <1>b, <1>c
  DEF StartLogin, control, Actors, Nothing
<1>19. ASSUME NEW l \in Logins, Ensure(l) PROVE Over(saw[b].refresh)'
  BY <1>19, <1>a, <1>b, <1>c
  DEF Ensure, control, Actors, Nothing
<1>20. ASSUME NEW l \in Logins, Exchange(l) PROVE Over(saw[b].refresh)'
  BY <1>20, <1>a, <1>b, <1>c
  DEF Exchange, control, Actors, Nothing
<1>21. ASSUME NEW l \in Logins, LoginSnapshot(l) PROVE Over(saw[b].refresh)'
  BY <1>21, <1>a, <1>b, <1>c
  DEF LoginSnapshot, control, Actors, Nothing
<1>22. ASSUME NEW l \in Logins, LoginCommit(l) PROVE Over(saw[b].refresh)'
  BY <1>22, <1>a, <1>b, <1>c
  DEF LoginCommit, control, Actors, Nothing
<1>23. ASSUME NEW a \in Actors, Invalidate(a) PROVE Over(saw[b].refresh)'
  BY <1>23, <1>a, <1>b, <1>c
  DEF Invalidate, Ends, Leaves, control, Actors, Nothing
<1>24. ASSUME NEW k \in registered, Forget(k) PROVE Over(saw[b].refresh)'
  BY <1>24, <1>a, <1>b, <1>c
  DEF Forget, control, Actors, Nothing
<1>25. CASE Expire
  BY <1>25, <1>a, <1>b, <1>c
  DEF Expire, control, Actors, Nothing
<1>26. CASE Disconnect
  BY <1>26, <1>a, <1>b, <1>c
  DEF Disconnect, control, Actors, Nothing
<1>27. CASE AccessExpires
  BY <1>27, <1>a, <1>b, <1>c
  DEF AccessExpires, control, Actors, Nothing
<1>28. CASE UNCHANGED vars
  BY <1>28, <1>a, <1>b, <1>c
  DEF vars, control, Actors, Nothing
<1> QED BY <1>1, <1>2, <1>3, <1>4, <1>5, <1>6, <1>7, <1>8, <1>9, <1>10, <1>11, <1>12,
    <1>13, <1>14, <1>15, <1>16, <1>17, <1>18, <1>19, <1>20, <1>21, <1>22, <1>23, <1>24,
    <1>25, <1>26, <1>27, <1>28
  DEF Next, CallStep, LoginStep

LEMMA Received ==
  ASSUME Sound, [Next]_vars, NEW a \in Writers, NEW t \in Writers \cup {None},
         token' = [token EXCEPT ![a] = t], t # None /\ t # a => Over(t),
         a \in Logins => t = a
  PROVE  Provenance'
<1>1. \A w \in Writers : Over(w) => Over(w)'
  BY OverStep DEF Sound
<1>2. \A w \in Writers : token'[w] = IF w = a THEN t ELSE token[w]
  BY DEF Sound, Base0, TypeOK
<1>3. ASSUME NEW w \in Writers, token'[w] # None, token'[w] # w
      PROVE  Over(token[w])'
  <2>1. PICK v \in Writers : v = token'[w] /\ Over(v)
    BY <1>2, <1>3 DEF Sound, Base0, TypeOK, Provenance
  <2>2. Over(v)'
    BY <1>1, <2>1
  <2> QED BY <2>1, <2>2 DEF Over
<1>4. ASSUME NEW l \in Logins
      PROVE  token'[l] \in {None, l}
  BY <1>2, <1>4 DEF Sound, Provenance, Writers
<1> QED BY <1>3, <1>4 DEF Provenance

LEMMA ProvenanceStep ==
  ASSUME Sound, [Next]_vars
  PROVE  Provenance'
<1>a. \A w \in Writers : Over(w) => Over(w)'
  BY OverStep DEF Sound
<1>b. UNCHANGED token => Provenance'
  BY <1>a DEF Sound, Base0, TypeOK, Provenance
<1>c. ASSUME NEW c \in Calls, At(c, "asking"), HandsOut(c)
      PROVE  Provenance'
  <2>1. token' = [token EXCEPT ![c] = c] \/ token' = [token EXCEPT ![c] = Used(c)]
    BY <1>c DEF HandsOut
  <2>2. saw[c].refresh \in Writers /\ Over(saw[c].refresh)
    BY <1>c, NoneIsNoWriter DEF Sound, Base0, Shown, Shows, Stored, At, Actors
  <2>3. Used(c) # None => Used(c) \in Writers /\ Over(Used(c))
    BY <2>2 DEF Used, Sound, Base0, TypeOK, Provenance
  <2>4. c \in Writers /\ c \notin Logins
    BY <1>c, NamesAssumption DEF Writers
  <2>5. Used(c) \in Writers \cup {None}
    BY <2>2 DEF Used, Sound, Base0, TypeOK
  <2> QED BY <2>1, <2>3, <2>4, <2>5, Received
<1>1. ASSUME NEW c \in Calls, Fetch(c) PROVE Provenance'
  BY <1>1, <1>b, <1>c
  DEF Fetch, received
<1>2. ASSUME NEW c \in Calls, NEW accepted \in BOOLEAN, Use(c, accepted) PROVE Provenance'
  BY <1>2, <1>b, <1>c
  DEF Use, received
<1>3. ASSUME NEW c \in Calls, DeleteRejected(c) PROVE Provenance'
  BY <1>3, <1>b, <1>c
  DEF DeleteRejected, received
<1>4. ASSUME NEW c \in Calls, Check(c) PROVE Provenance'
  BY <1>4, <1>b, <1>c
  DEF Check, received
<1>5. ASSUME NEW c \in Calls, Acquire(c) PROVE Provenance'
  BY <1>5, <1>b, <1>c
  DEF Acquire, received
<1>6. ASSUME NEW c \in Calls, NEW landed \in BOOLEAN, Drain(c, landed) PROVE Provenance'
  BY <1>6, <1>b, <1>c
  DEF Drain, received
<1>7. ASSUME NEW c \in Calls, StopWaiting(c) PROVE Provenance'
  BY <1>7, <1>b, <1>c
  DEF StopWaiting, received
<1>8. ASSUME NEW c \in Calls, Release(c) PROVE Provenance'
  BY <1>8, <1>b, <1>c
  DEF Release, received
<1>9. ASSUME NEW c \in Calls, Recheck(c) PROVE Provenance'
  BY <1>9, <1>b, <1>c
  DEF Recheck, received
<1>10. ASSUME NEW c \in Calls, Snapshot(c) PROVE Provenance'
  BY <1>10, <1>b, <1>c
  DEF Snapshot, received
<1>11. ASSUME NEW c \in Calls, Reread(c) PROVE Provenance'
  BY <1>11, <1>b, <1>c
  DEF Reread, received
<1>12. ASSUME NEW c \in Calls, EnsureOwned(c) PROVE Provenance'
  BY <1>12, <1>b, <1>c
  DEF EnsureOwned, received
<1>13. ASSUME NEW c \in Calls, Answer(c) PROVE Provenance'
  BY <1>13, <1>b, <1>c
  DEF Answer, received
<1>14. ASSUME NEW c \in Calls, Refuse(c) PROVE Provenance'
  BY <1>14, <1>b, <1>c
  DEF Refuse, received
<1>15. ASSUME NEW c \in Calls, Unanswered(c) PROVE Provenance'
  BY <1>15, <1>b, <1>c
  DEF Unanswered, received
<1>16. ASSUME NEW c \in Calls, Commit(c) PROVE Provenance'
  BY <1>16, <1>b, <1>c
  DEF Commit, received
<1>17. ASSUME NEW c \in Calls, Crash(c) PROVE Provenance'
  BY <1>17, <1>b, <1>c
  DEF Crash, received
<1>18. ASSUME NEW l \in Logins, StartLogin(l) PROVE Provenance'
  BY <1>18, <1>b, <1>c
  DEF StartLogin, received
<1>19. ASSUME NEW l \in Logins, Ensure(l) PROVE Provenance'
  BY <1>19, <1>b, <1>c
  DEF Ensure, received
<1>20. ASSUME NEW l \in Logins, Exchange(l) PROVE Provenance'
  <2>1. l \in Writers /\ (UNCHANGED token \/ token' = [token EXCEPT ![l] = l])
    BY <1>20 DEF Exchange, Writers
  <2>2. CASE token' = [token EXCEPT ![l] = l]
    BY <2>1, <2>2, Received
  <2> QED BY <1>b, <2>1, <2>2
<1>21. ASSUME NEW l \in Logins, LoginSnapshot(l) PROVE Provenance'
  BY <1>21, <1>b, <1>c
  DEF LoginSnapshot, received
<1>22. ASSUME NEW l \in Logins, LoginCommit(l) PROVE Provenance'
  BY <1>22, <1>b, <1>c
  DEF LoginCommit, received
<1>23. ASSUME NEW a \in Actors, Invalidate(a) PROVE Provenance'
  BY <1>23, <1>b, <1>c
  DEF Invalidate, received
<1>24. ASSUME NEW k \in registered, Forget(k) PROVE Provenance'
  BY <1>24, <1>b, <1>c
  DEF Forget, received
<1>25. CASE Expire
  BY <1>25, <1>b, <1>c
  DEF Expire, received
<1>26. CASE Disconnect
  BY <1>26, <1>b, <1>c
  DEF Disconnect, received
<1>27. CASE AccessExpires
  BY <1>27, <1>b, <1>c
  DEF AccessExpires, received
<1>28. CASE UNCHANGED vars
  BY <1>28, <1>b, <1>c
  DEF vars, received
<1> QED BY <1>1, <1>2, <1>3, <1>4, <1>5, <1>6, <1>7, <1>8, <1>9, <1>10, <1>11, <1>12,
    <1>13, <1>14, <1>15, <1>16, <1>17, <1>18, <1>19, <1>20, <1>21, <1>22, <1>23, <1>24,
    <1>25, <1>26, <1>27, <1>28
  DEF Next, CallStep, LoginStep

LEMMA InitSettled ==
  ASSUME Init
  PROVE  Stored /\ Provenance
<1>1. /\ refresh = Base /\ \A a \in Actors : saw[a].refresh = None
      /\ \A w \in Writers : token[w] = IF w = Base THEN Base ELSE None
  BY DEF Init, Nothing
<1>2. Base \notin Logins /\ Logins \subseteq Writers
  BY NamesAssumption DEF Writers, Actors
<1> QED BY <1>1, <1>2 DEF Stored, Provenance, Over

LEMMA AllSoundStep == Sound /\ [Next]_vars => Sound'
<1> SUFFICES ASSUME Sound, [Next]_vars
             PROVE  Sound'
  OBVIOUS
<1>1. Base0'
  BY SoundStep DEF Sound
<1>2. refresh' # None => Over(refresh)'
  BY RefreshStored DEF Sound
<1>3. \A b \in Actors : saw'[b].refresh # None => Over(saw[b].refresh)'
  BY SawStored DEF Sound
<1>4. Stored'
  BY <1>2, <1>3 DEF Stored
<1> QED BY <1>1, <1>4, ProvenanceStep DEF Sound

-----------------------------------------------------------------------------
(* As long as no rotated token was lost *)

Lossless == causes \cap Losses = {}
(* One call at a time is under the lock. *)
Owned == \A c \in Calls : pc[c] \in Holding => lock = c
(* What it is about to show the provider is accepted, and is what is stored *)
(* unless something else is.                                               *)
Usable ==
  \A c \in Calls : pc[c] \in {"reread", "owned", "asking"} /\ saw[c].refresh # None =>
    /\ Used(c) \in honoured
    /\ refresh # None /\ token[refresh] = Used(c) => refresh = saw[c].refresh
(* What it received is accepted. *)
Answered == \A c \in Calls : pc[c] \in {"answered", "commit"} => token[c] \in honoured
Exchanged ==
  \A l \in Logins :
    /\ pc[l] \in {"idle", "ensure", "flow"} => token[l] = None
    /\ pc[l] \in {"store", "commit"} /\ token[l] # None => token[l] \in honoured
Pending(r) == \E c \in Calls : pc[c] \in {"answered", "commit"} /\ saw[c].refresh = r
Honoured == refresh # None => token[refresh] \in honoured \/ Pending(refresh)
Held == Lossless => Owned /\ Usable /\ Answered /\ Exchanged /\ Honoured

LEMMA LossesStay ==
  ASSUME Base0, [Next]_vars, Lossless'
  PROVE  Lossless
<1>1. causes \subseteq causes'
  <2>1. ASSUME NEW c \in Calls, Fetch(c) PROVE causes \subseteq causes'
    BY <2>1
    DEF Fetch
  <2>2. ASSUME NEW c \in Calls, NEW accepted \in BOOLEAN, Use(c, accepted)
        PROVE causes \subseteq causes'
    BY <2>2
    DEF Use
  <2>3. ASSUME NEW c \in Calls, DeleteRejected(c) PROVE causes \subseteq causes'
    BY <2>3
    DEF DeleteRejected
  <2>4. ASSUME NEW c \in Calls, Check(c) PROVE causes \subseteq causes'
    BY <2>4
    DEF Check
  <2>5. ASSUME NEW c \in Calls, Acquire(c) PROVE causes \subseteq causes'
    BY <2>5
    DEF Acquire
  <2>6. ASSUME NEW c \in Calls, NEW landed \in BOOLEAN, Drain(c, landed)
        PROVE causes \subseteq causes'
    BY <2>6
    DEF Drain
  <2>7. ASSUME NEW c \in Calls, StopWaiting(c) PROVE causes \subseteq causes'
    BY <2>7
    DEF StopWaiting
  <2>8. ASSUME NEW c \in Calls, Release(c) PROVE causes \subseteq causes'
    BY <2>8
    DEF Release
  <2>9. ASSUME NEW c \in Calls, Recheck(c) PROVE causes \subseteq causes'
    BY <2>9
    DEF Recheck
  <2>10. ASSUME NEW c \in Calls, Snapshot(c) PROVE causes \subseteq causes'
    BY <2>10
    DEF Snapshot
  <2>11. ASSUME NEW c \in Calls, Reread(c) PROVE causes \subseteq causes'
    BY <2>11
    DEF Reread
  <2>12. ASSUME NEW c \in Calls, EnsureOwned(c) PROVE causes \subseteq causes'
    BY <2>12 DEF EnsureOwned, Left
  <2>13. ASSUME NEW c \in Calls, Answer(c) PROVE causes \subseteq causes'
    BY <2>13
    DEF Answer
  <2>14. ASSUME NEW c \in Calls, Refuse(c) PROVE causes \subseteq causes'
    BY <2>14
    DEF Refuse
  <2>15. ASSUME NEW c \in Calls, Unanswered(c) PROVE causes \subseteq causes'
    BY <2>15
    DEF Unanswered
  <2>16. ASSUME NEW c \in Calls, Commit(c) PROVE causes \subseteq causes'
    BY <2>16 DEF Commit, Left
  <2>17. ASSUME NEW c \in Calls, Crash(c) PROVE causes \subseteq causes'
    BY <2>17 DEF Crash, Left
  <2>18. ASSUME NEW l \in Logins, StartLogin(l) PROVE causes \subseteq causes'
    BY <2>18
    DEF StartLogin
  <2>19. ASSUME NEW l \in Logins, Ensure(l) PROVE causes \subseteq causes'
    BY <2>19
    DEF Ensure
  <2>20. ASSUME NEW l \in Logins, Exchange(l) PROVE causes \subseteq causes'
    BY <2>20
    DEF Exchange
  <2>21. ASSUME NEW l \in Logins, LoginSnapshot(l) PROVE causes \subseteq causes'
    BY <2>21
    DEF LoginSnapshot
  <2>22. ASSUME NEW l \in Logins, LoginCommit(l) PROVE causes \subseteq causes'
    BY <2>22
    DEF LoginCommit
  <2>23. ASSUME NEW a \in Actors, Invalidate(a) PROVE causes \subseteq causes'
    BY <2>23
    DEF Invalidate
  <2>24. ASSUME NEW k \in registered, Forget(k) PROVE causes \subseteq causes'
    BY <2>24
    DEF Forget
  <2>25. CASE Expire
    BY <2>25
    DEF Expire
  <2>26. CASE Disconnect
    BY <2>26
    DEF Disconnect
  <2>27. CASE AccessExpires
    BY <2>27
    DEF AccessExpires
  <2>28. CASE UNCHANGED vars
    BY <2>28
    DEF vars
  <2> QED BY <2>1, <2>2, <2>3, <2>4, <2>5, <2>6, <2>7, <2>8, <2>9, <2>10, <2>11, <2>12,
      <2>13, <2>14, <2>15, <2>16, <2>17, <2>18, <2>19, <2>20, <2>21, <2>22, <2>23, <2>24,
      <2>25, <2>26, <2>27, <2>28
    DEF Next, CallStep, LoginStep
<1> QED BY <1>1 DEF Lossless

LEMMA OwnedStep ==
  ASSUME Sound, Held, [Next]_vars, Lossless'
  PROVE  Owned'
<1> SUFFICES ASSUME NEW d \in Calls, pc'[d] \in Holding
             PROVE  lock' = d
  BY DEF Owned
<1> DEFINE Moves == \A a \in Actors : \A p : Goto(a, p) => pc'[d] = IF d = a THEN p ELSE pc[d]
<1>a. Moves
  BY DEF Sound, Base0, TypeOK, Goto, Actors
<1>b. /\ pc[d] \in Holding => lock = d
      /\ d \in Actors /\ d # None /\ d \notin Logins
  BY LossesStay, NoneIsNoWriter, NamesAssumption DEF Held, Owned, Sound, Actors
<1> HIDE DEF Moves
<1>1. ASSUME NEW c \in Calls, Fetch(c) PROVE lock' = d
  BY <1>1, <1>a, <1>b
  DEF Fetch, At, control, Moves, Actors, Holding
<1>2. ASSUME NEW c \in Calls, NEW accepted \in BOOLEAN, Use(c, accepted) PROVE lock' = d
  BY <1>2, <1>a, <1>b
  DEF Use, At, Ends, Leaves, control, Moves, Actors, Holding
<1>3. ASSUME NEW c \in Calls, DeleteRejected(c) PROVE lock' = d
  BY <1>3, <1>a, <1>b
  DEF DeleteRejected, At, control, Moves, Actors, Holding
<1>4. ASSUME NEW c \in Calls, Check(c) PROVE lock' = d
  BY <1>4, <1>a, <1>b
  DEF Check, At, Ends, Leaves, control, Moves, Actors, Holding
<1>5. ASSUME NEW c \in Calls, Acquire(c) PROVE lock' = d
  BY <1>5, <1>a, <1>b DEF Acquire, Acquirable, Moves, At, Actors, Holding
<1>6. ASSUME NEW c \in Calls, NEW landed \in BOOLEAN, Drain(c, landed) PROVE lock' = d
  BY <1>6, <1>a, <1>b
  DEF Drain, At, Ends, Leaves, control, Moves, Actors, Holding
<1>7. ASSUME NEW c \in Calls, StopWaiting(c) PROVE lock' = d
  BY <1>7, <1>a, <1>b
  DEF StopWaiting, At, Ends, Leaves, control, Moves, Actors, Holding
<1>8. ASSUME NEW c \in Calls, Release(c) PROVE lock' = d
  BY <1>8, <1>a, <1>b
  DEF Release, At, control, Moves, Actors, Holding
<1>9. ASSUME NEW c \in Calls, Recheck(c) PROVE lock' = d
  BY <1>9, <1>a, <1>b
  DEF Recheck, At, Ends, Leaves, control, Moves, Actors, Holding
<1>10. ASSUME NEW c \in Calls, Snapshot(c) PROVE lock' = d
  BY <1>10, <1>a, <1>b
  DEF Snapshot, At, control, Moves, Actors, Holding
<1>11. ASSUME NEW c \in Calls, Reread(c) PROVE lock' = d
  BY <1>11, <1>a, <1>b
  DEF Reread, At, Ends, Leaves, control, Moves, Actors, Holding
<1>12. ASSUME NEW c \in Calls, EnsureOwned(c) PROVE lock' = d
  BY <1>12, <1>a, <1>b
  DEF EnsureOwned, At, Ends, Leaves, control, Moves, Actors, Holding
<1>13. ASSUME NEW c \in Calls, Answer(c) PROVE lock' = d
  BY <1>13, <1>a, <1>b
  DEF Answer, At, control, Moves, Actors, Holding
<1>14. ASSUME NEW c \in Calls, Refuse(c) PROVE lock' = d
  BY <1>14, <1>a, <1>b
  DEF Refuse, At, Ends, Leaves, control, Moves, Actors, Holding
<1>15. ASSUME NEW c \in Calls, Unanswered(c) PROVE lock' = d
  BY <1>15, <1>a, <1>b
  DEF Unanswered, At, Ends, Leaves, control, Moves, Actors, Holding
<1>16. ASSUME NEW c \in Calls, Commit(c) PROVE lock' = d
  BY <1>16, <1>a, <1>b
  DEF Commit, At, Ends, Leaves, control, Moves, Actors, Holding
<1>17. ASSUME NEW c \in Calls, Crash(c) PROVE lock' = d
  BY <1>17, <1>a, <1>b
  DEF Crash, At, Ends, Leaves, control, Moves, Actors, Holding
<1>18. ASSUME NEW l \in Logins, StartLogin(l) PROVE lock' = d
  BY <1>18, <1>a, <1>b
  DEF StartLogin, At, control, Moves, Actors, Holding
<1>19. ASSUME NEW l \in Logins, Ensure(l) PROVE lock' = d
  BY <1>19, <1>a, <1>b
  DEF Ensure, At, control, Moves, Actors, Holding
<1>20. ASSUME NEW l \in Logins, Exchange(l) PROVE lock' = d
  BY <1>20, <1>a, <1>b
  DEF Exchange, At, control, Moves, Actors, Holding
<1>21. ASSUME NEW l \in Logins, LoginSnapshot(l) PROVE lock' = d
  BY <1>21, <1>a, <1>b
  DEF LoginSnapshot, At, control, Moves, Actors, Holding
<1>22. ASSUME NEW l \in Logins, LoginCommit(l) PROVE lock' = d
  BY <1>22, <1>a, <1>b
  DEF LoginCommit, At, control, Moves, Actors, Holding
<1>23. ASSUME NEW a \in Actors, Invalidate(a) PROVE lock' = d
  BY <1>23, <1>a, <1>b
  DEF Invalidate, At, Ends, Leaves, control, Moves, Actors, Holding
<1>24. ASSUME NEW k \in registered, Forget(k) PROVE lock' = d
  BY <1>24, <1>a, <1>b
  DEF Forget, At, control, Moves, Actors, Holding
<1>25. CASE Expire
  <2>1. pc[lock] \in Holding => "lapse" \in causes'
    BY <1>25 DEF Expire
  <2>2. pc[lock] \notin Holding
    BY <2>1 DEF Lossless, Losses
  <2> QED BY <1>25, <1>b, <2>2 DEF Expire, control
<1>26. CASE Disconnect
  BY <1>26, <1>a, <1>b
  DEF Disconnect, At, control, Moves, Actors, Holding
<1>27. CASE AccessExpires
  BY <1>27, <1>a, <1>b
  DEF AccessExpires, At, control, Moves, Actors, Holding
<1>28. CASE UNCHANGED vars
  BY <1>28, <1>a, <1>b
  DEF vars, control, Moves, Actors, Holding
<1> QED BY <1>1, <1>2, <1>3, <1>4, <1>5, <1>6, <1>7, <1>8, <1>9, <1>10, <1>11, <1>12,
    <1>13, <1>14, <1>15, <1>16, <1>17, <1>18, <1>19, <1>20, <1>21, <1>22, <1>23, <1>24,
    <1>25, <1>26, <1>27, <1>28
  DEF Next, CallStep, LoginStep

LEMMA UsedOver ==
  ASSUME Sound, NEW c \in Calls, saw[c].refresh # None
  PROVE  /\ saw[c].refresh \in Writers /\ Over(saw[c].refresh)
         /\ Used(c) # None => Used(c) \in Writers /\ Over(Used(c))
<1>1. saw[c].refresh \in Writers /\ Over(saw[c].refresh)
  BY DEF Sound, Base0, TypeOK, Snapshots, Actors, Stored
<1> QED BY <1>1 DEF Used, Sound, Base0, TypeOK, Provenance

LEMMA NotOver ==
  ASSUME NEW a \in Actors, pc[a] \notin {"releasing", "done", "dead"}
  PROVE  ~Over(a)
BY NamesAssumption DEF Over

LEMMA HeldNow ==
  ASSUME Sound, Held, [Next]_vars, Lossless'
  PROVE  Lossless /\ Owned /\ Usable /\ Answered /\ Exchanged /\ Honoured
BY LossesStay DEF Held, Sound

(* Who is under the lock is there alone. *)
LEMMA Alone ==
  ASSUME Owned, NEW c \in Calls, NEW d \in Calls, pc[c] \in Holding, pc[d] \in Holding
  PROVE  c = d
BY DEF Owned

(* Lossless steps that touch tokens: nobody is refused. *)
TokensStay ==
  \/ UNCHANGED <<token, honoured>>
  \/ \E l \in Logins : /\ Exchange(l) /\ honoured \subseteq honoured'
                       /\ \/ token' = token
                          \/ token' = [token EXCEPT ![l] = l] /\ l \in honoured'
  \/ \E c \in Calls : Answer(c)

LEMMA TokensStep ==
  ASSUME Sound, Held, [Next]_vars, Lossless'
  PROVE  TokensStay
<1>a. UNCHANGED <<token, honoured>> => TokensStay
  BY DEF TokensStay
<1>1. ASSUME NEW c \in Calls, Fetch(c) PROVE TokensStay
  BY <1>1, <1>a
  DEF Fetch, provider, received
<1>2. ASSUME NEW c \in Calls, NEW accepted \in BOOLEAN, Use(c, accepted) PROVE TokensStay
  BY <1>2, <1>a
  DEF Use, provider, received
<1>3. ASSUME NEW c \in Calls, DeleteRejected(c) PROVE TokensStay
  BY <1>3, <1>a
  DEF DeleteRejected, provider, received
<1>4. ASSUME NEW c \in Calls, Check(c) PROVE TokensStay
  BY <1>4, <1>a
  DEF Check, provider, received
<1>5. ASSUME NEW c \in Calls, Acquire(c) PROVE TokensStay
  BY <1>5, <1>a
  DEF Acquire, provider, received
<1>6. ASSUME NEW c \in Calls, NEW landed \in BOOLEAN, Drain(c, landed) PROVE TokensStay
  BY <1>6, <1>a
  DEF Drain, provider, received
<1>7. ASSUME NEW c \in Calls, StopWaiting(c) PROVE TokensStay
  BY <1>7, <1>a
  DEF StopWaiting, provider, received
<1>8. ASSUME NEW c \in Calls, Release(c) PROVE TokensStay
  BY <1>8, <1>a
  DEF Release, provider, received
<1>9. ASSUME NEW c \in Calls, Recheck(c) PROVE TokensStay
  BY <1>9, <1>a
  DEF Recheck, provider, received
<1>10. ASSUME NEW c \in Calls, Snapshot(c) PROVE TokensStay
  BY <1>10, <1>a
  DEF Snapshot, provider, received
<1>11. ASSUME NEW c \in Calls, Reread(c) PROVE TokensStay
  BY <1>11, <1>a
  DEF Reread, provider, received
<1>12. ASSUME NEW c \in Calls, EnsureOwned(c) PROVE TokensStay
  BY <1>12, <1>a
  DEF EnsureOwned, provider, received
<1>13. ASSUME NEW c \in Calls, Answer(c) PROVE TokensStay
  BY <1>13 DEF TokensStay
<1>14. ASSUME NEW c \in Calls, Refuse(c) PROVE TokensStay
  <2>1. saw[c].refresh # None /\ pc[c] = "asking"
    BY <1>14, NoneIsNoWriter DEF Refuse, At, Sound, Base0, Shown, Shows
  <2>2. Used(c) \in honoured
    BY <2>1, HeldNow DEF Usable
  <2>3. client[c] \notin Known
    BY <1>14, <2>2 DEF Refuse, Honours
  <2> QED BY <1>14, <1>a, <2>3 DEF Refuse, received
<1>15. ASSUME NEW c \in Calls, Unanswered(c) PROVE TokensStay
  <2>1. "unanswered" \in causes'
    BY <1>15 DEF Unanswered
  <2> QED BY <2>1 DEF Lossless, Losses
<1>16. ASSUME NEW c \in Calls, Commit(c) PROVE TokensStay
  BY <1>16, <1>a
  DEF Commit, provider, received
<1>17. ASSUME NEW c \in Calls, Crash(c) PROVE TokensStay
  <2>1. CASE causes' = causes \cup {"crash"}
    BY <2>1 DEF Lossless, Losses
  <2>2. CASE UNCHANGED <<provider, received>>
    BY <2>2, <1>a DEF provider, received
  <2> QED BY <1>17, <2>1, <2>2 DEF Crash
<1>18. ASSUME NEW l \in Logins, StartLogin(l) PROVE TokensStay
  BY <1>18, <1>a
  DEF StartLogin, provider, received
<1>19. ASSUME NEW l \in Logins, Ensure(l) PROVE TokensStay
  BY <1>19, <1>a
  DEF Ensure, provider, received
<1>20. ASSUME NEW l \in Logins, Exchange(l) PROVE TokensStay
  BY <1>20 DEF TokensStay, Exchange
<1>21. ASSUME NEW l \in Logins, LoginSnapshot(l) PROVE TokensStay
  BY <1>21, <1>a
  DEF LoginSnapshot, provider, received
<1>22. ASSUME NEW l \in Logins, LoginCommit(l) PROVE TokensStay
  BY <1>22, <1>a
  DEF LoginCommit, provider, received
<1>23. ASSUME NEW a \in Actors, Invalidate(a) PROVE TokensStay
  BY <1>23, <1>a
  DEF Invalidate, provider, received
<1>24. ASSUME NEW k \in registered, Forget(k) PROVE TokensStay
  BY <1>24, <1>a
  DEF Forget, provider, received
<1>25. CASE Expire
  BY <1>25, <1>a
  DEF Expire, provider, received
<1>26. CASE Disconnect
  BY <1>26, <1>a
  DEF Disconnect, provider, received
<1>27. CASE AccessExpires
  BY <1>27, <1>a
  DEF AccessExpires, provider, received
<1>28. CASE UNCHANGED vars
  BY <1>28, <1>a
  DEF vars, provider, received
<1> QED BY <1>1, <1>2, <1>3, <1>4, <1>5, <1>6, <1>7, <1>8, <1>9, <1>10, <1>11, <1>12,
    <1>13, <1>14, <1>15, <1>16, <1>17, <1>18, <1>19, <1>20, <1>21, <1>22, <1>23, <1>24,
    <1>25, <1>26, <1>27, <1>28
  DEF Next, CallStep, LoginStep

(* What an answer does, and to whom. *)
LEMMA AnswerMoves ==
  ASSUME Sound, Held, [Next]_vars, Lossless', NEW c \in Calls, Answer(c)
  PROVE  /\ pc[c] = "asking" /\ UNCHANGED <<refresh, saw>>
         /\ saw[c].refresh \in Writers /\ ~Over(c)
         /\ Used(c) \in honoured /\ Over(Used(c))
         /\ pc' = [pc EXCEPT ![c] = "answered"]
         /\ \A d \in Calls \ {c} : pc[d] \notin Holding
         /\ \A w \in Writers \ {c} : token'[w] = token[w]
         /\ token'[c] \in honoured' /\ honoured \ {Used(c)} \subseteq honoured'
<1>1. /\ pc[c] = "asking" /\ UNCHANGED <<refresh, saw>> /\ pc' = [pc EXCEPT ![c] = "answered"]
      /\ Used(c) \in honoured /\ HandsOut(c)
  BY DEF Answer, At, Goto, docs, Honours
<1>2. saw[c].refresh \in Writers
  BY <1>1 DEF Sound, Base0, Shown, Shows
<1>3. Used(c) # None /\ c \in Writers /\ c \in Actors
  BY <1>1, NoneIsNoWriter DEF Sound, Base0, TypeOK, Writers, Actors
<1>4. Over(Used(c)) /\ ~Over(c)
  BY <1>1, <1>2, <1>3, UsedOver, NotOver, NoneIsNoWriter
<1>5. \A d \in Calls \ {c} : pc[d] \notin Holding
  BY <1>1, HeldNow, Alone DEF Holding
<1>6. /\ \A w \in Writers \ {c} : token'[w] = token[w]
      /\ token'[c] \in honoured' /\ honoured \ {Used(c)} \subseteq honoured'
  BY <1>1, <1>3 DEF HandsOut, Sound, Base0, TypeOK
<1> QED BY <1>1, <1>2, <1>4, <1>5, <1>6

LEMMA ExchangeMoves ==
  ASSUME Sound, Held, [Next]_vars, Lossless', NEW l \in Logins, Exchange(l)
  PROVE  /\ pc[l] = "flow" /\ UNCHANGED <<refresh, saw>> /\ ~Over(l)
         /\ \A w \in Writers \ {l} : token'[w] = token[w]
         /\ honoured \subseteq honoured' /\ (token'[l] # token[l] => l \in honoured' /\ token'[l] = l)
<1>1. pc[l] = "flow" /\ l \in Actors /\ l \in Writers
  BY DEF Exchange, At, Actors, Writers
<1>2. ~Over(l)
  BY <1>1, NotOver
<1> QED BY <1>1, <1>2 DEF Exchange, docs, Sound, Base0, TypeOK

(* Of the tokens that anyone else goes by, only the one that is used moves. *)
LEMMA OthersKeep ==
  ASSUME Sound, Held, [Next]_vars, Lossless', NEW w \in Writers, Over(w)
  PROVE  /\ token'[w] = token[w]
         /\ token[w] \in honoured => \/ token'[w] \in honoured'
                                    \/ \E c \in Calls : Answer(c) /\ token[w] = Used(c)
<1>1. CASE UNCHANGED <<token, honoured>>
  BY <1>1
<1>2. ASSUME NEW l \in Logins, Exchange(l)
      PROVE  token'[w] = token[w] /\ honoured \subseteq honoured'
  BY <1>2, ExchangeMoves
<1>3. ASSUME NEW c \in Calls, Answer(c)
      PROVE  token'[w] = token[w] /\ (token[w] \in honoured => token'[w] \in honoured' \/ token[w] = Used(c))
  BY <1>3, AnswerMoves
<1> QED BY <1>1, <1>2, <1>3, TokensStep DEF TokensStay

LEMMA UsableStep ==
  ASSUME Sound, Held, [Next]_vars, Lossless'
  PROVE  Usable'
<1> SUFFICES ASSUME NEW d \in Calls, pc'[d] \in {"reread", "owned", "asking"},
                    saw'[d].refresh # None
             PROVE  /\ token'[saw'[d].refresh] \in honoured'
                    /\ refresh' # None /\ token'[refresh'] = token'[saw'[d].refresh]
                         => refresh' = saw'[d].refresh
  BY DEF Usable, Used
<1> DEFINE Goal == /\ token'[saw'[d].refresh] \in honoured'
                   /\ refresh' # None /\ token'[refresh'] = token'[saw'[d].refresh]
                        => refresh' = saw'[d].refresh
<1>a. /\ Lossless /\ Owned /\ Usable /\ Answered /\ Exchanged /\ Honoured
      /\ d \in Actors /\ d \notin Logins
  BY HeldNow, NamesAssumption DEF Actors
<1>b. refresh # None => refresh \in Writers /\ Over(refresh)
  BY DEF Sound, Stored, Base0, TypeOK
<1>c. ASSUME pc[d] \in {"reread", "owned", "asking"}, saw'[d] = saw[d]
      PROVE  /\ token'[saw[d].refresh] = token[saw[d].refresh]
             /\ token'[saw[d].refresh] \in honoured'
  <2>1. Used(d) \in honoured /\ saw[d].refresh \in Writers /\ Over(saw[d].refresh)
    BY <1>a, <1>c, UsedOver DEF Usable
  <2>2. ASSUME NEW c \in Calls, Answer(c), c # d
        PROVE  FALSE
    BY <1>c, <2>2, AnswerMoves DEF Holding
  <2>3. ASSUME Answer(d)
        PROVE  FALSE
    BY <2>3, AnswerMoves, <1>a DEF Sound, Base0, TypeOK
  <2> QED BY <2>1, <2>2, <2>3, OthersKeep DEF Used
<1>d. ASSUME pc[d] \in {"reread", "owned", "asking"}, saw'[d] = saw[d], refresh' \in {refresh, None}
      PROVE  Goal
  <2>1. refresh # None => token'[refresh] = token[refresh]
    BY <1>b, OthersKeep
  <2>2. refresh # None /\ token[refresh] = token[saw[d].refresh] => refresh = saw[d].refresh
    BY <1>a, <1>d DEF Usable, Used
  <2> QED BY <1>c, <1>d, <2>1, <2>2
<1>e. ASSUME Snapshot(d)
      PROVE  Goal
  <2>1. saw'[d].refresh = refresh /\ refresh' = refresh /\ pc[d] = "snapshot"
    BY <1>a, <1>e DEF Snapshot, At, Sound, Base0, TypeOK, docs
  <2>2. token[refresh] \in honoured
    BY <1>a, <2>1, Alone DEF Honoured, Pending, Holding
  <2>3. UNCHANGED <<token, honoured>>
    BY <1>e DEF Snapshot, provider, received
  <2> QED BY <2>1, <2>2, <2>3
<1> SUFFICES Goal
  OBVIOUS
<1> HIDE DEF Goal
<1>f. saw \in [Actors -> Snapshots] /\ pc \in [Actors -> Places] /\ None \notin Writers
  BY NoneIsNoWriter DEF Sound, Base0, TypeOK, Places
<1>g. ASSUME NEW a \in Actors, a # d, NEW p, Goto(a, p)
      PROVE  pc'[d] = pc[d]
  BY <1>f, <1>g DEF Goto
<1>h. ASSUME NEW p, Goto(d, p)
      PROVE  pc'[d] = p
  BY <1>a, <1>f, <1>h DEF Goto
<1>1. ASSUME NEW c \in Calls, Fetch(c) PROVE Goal
  BY <1>1, <1>a, <1>d, <1>e, <1>f, <1>g, <1>h
  DEF Fetch, At, docs, control, Actors
<1>2. ASSUME NEW c \in Calls, NEW accepted \in BOOLEAN, Use(c, accepted) PROVE Goal
  BY <1>2, <1>a, <1>d, <1>e, <1>f, <1>g, <1>h
  DEF Use, At, Ends, Leaves, docs, control, Actors
<1>3. ASSUME NEW c \in Calls, DeleteRejected(c) PROVE Goal
  BY <1>3, <1>a, <1>d, <1>e, <1>f, <1>g, <1>h
  DEF DeleteRejected, At, docs, control, Actors
<1>4. ASSUME NEW c \in Calls, Check(c) PROVE Goal
  BY <1>4, <1>a, <1>d, <1>e, <1>f, <1>g, <1>h
  DEF Check, At, Ends, Leaves, docs, control, Actors
<1>5. ASSUME NEW c \in Calls, Acquire(c) PROVE Goal
  BY <1>5, <1>a, <1>d, <1>e, <1>f, <1>g, <1>h
  DEF Acquire, At, docs, control, Actors
<1>6. ASSUME NEW c \in Calls, NEW landed \in BOOLEAN, Drain(c, landed) PROVE Goal
  BY <1>6, <1>a, <1>d, <1>e, <1>f, <1>g, <1>h
  DEF Drain, At, Ends, Leaves, docs, control, Actors
<1>7. ASSUME NEW c \in Calls, StopWaiting(c) PROVE Goal
  BY <1>7, <1>a, <1>d, <1>e, <1>f, <1>g, <1>h
  DEF StopWaiting, At, Ends, Leaves, docs, control, Actors
<1>8. ASSUME NEW c \in Calls, Release(c) PROVE Goal
  BY <1>8, <1>a, <1>d, <1>e, <1>f, <1>g, <1>h
  DEF Release, At, docs, control, Actors
<1>9. ASSUME NEW c \in Calls, Recheck(c) PROVE Goal
  BY <1>9, <1>a, <1>d, <1>e, <1>f, <1>g, <1>h
  DEF Recheck, At, Ends, Leaves, docs, control, Actors
<1>10. ASSUME NEW c \in Calls, Snapshot(c) PROVE Goal
  BY <1>10, <1>a, <1>d, <1>e, <1>f, <1>g, <1>h
  DEF Snapshot, At, docs, control, Actors
<1>11. ASSUME NEW c \in Calls, Reread(c) PROVE Goal
  BY <1>11, <1>a, <1>d, <1>e, <1>f, <1>g, <1>h
  DEF Reread, At, Ends, Leaves, docs, control, Actors
<1>12. ASSUME NEW c \in Calls, EnsureOwned(c) PROVE Goal
  BY <1>12, <1>a, <1>d, <1>e, <1>f, <1>g, <1>h
  DEF EnsureOwned, At, Ends, Leaves, docs, control, Actors
<1>13. ASSUME NEW c \in Calls, Answer(c) PROVE Goal
  BY <1>13, <1>a, <1>d, <1>e, <1>f, <1>g, <1>h
  DEF Answer, At, docs, control, Actors
<1>14. ASSUME NEW c \in Calls, Refuse(c) PROVE Goal
  BY <1>14, <1>a, <1>d, <1>e, <1>f, <1>g, <1>h
  DEF Refuse, At, Ends, Leaves, docs, control, Actors
<1>15. ASSUME NEW c \in Calls, Unanswered(c) PROVE Goal
  BY <1>15, <1>a, <1>d, <1>e, <1>f, <1>g, <1>h
  DEF Unanswered, At, Ends, Leaves, docs, control, Actors
<1>16. ASSUME NEW c \in Calls, Commit(c) PROVE Goal
  <2>1. c # d
    BY <1>16, <1>h DEF Commit, Ends, Leaves
  <2>2. pc[d] \in Holding /\ pc[c] \in Holding
    BY <1>16, <1>g, <2>1 DEF Commit, Ends, Leaves, At, Holding, Actors
  <2> QED BY <1>a, <2>1, <2>2, Alone
<1>17. ASSUME NEW c \in Calls, Crash(c) PROVE Goal
  BY <1>17, <1>a, <1>d, <1>e, <1>f, <1>g, <1>h
  DEF Crash, At, Ends, Leaves, docs, control, Actors
<1>18. ASSUME NEW l \in Logins, StartLogin(l) PROVE Goal
  BY <1>18, <1>a, <1>d, <1>e, <1>f, <1>g, <1>h
  DEF StartLogin, At, docs, control, Actors
<1>19. ASSUME NEW l \in Logins, Ensure(l) PROVE Goal
  BY <1>19, <1>a, <1>d, <1>e, <1>f, <1>g, <1>h
  DEF Ensure, At, docs, control, Actors
<1>20. ASSUME NEW l \in Logins, Exchange(l) PROVE Goal
  BY <1>20, <1>a, <1>d, <1>e, <1>f, <1>g, <1>h
  DEF Exchange, At, docs, control, Actors
<1>21. ASSUME NEW l \in Logins, LoginSnapshot(l) PROVE Goal
  BY <1>21, <1>a, <1>d, <1>e, <1>f, <1>g, <1>h
  DEF LoginSnapshot, At, docs, control, Actors
<1>22. ASSUME NEW l \in Logins, LoginCommit(l) PROVE Goal
  <2>1. pc[l] = "commit" /\ l \in Actors /\ l # d
    BY <1>22, <1>a DEF LoginCommit, At, Actors
  <2>2. pc'[d] = pc[d] /\ UNCHANGED <<saw, token>>
    BY <1>22, <1>g, <2>1 DEF LoginCommit, received
  <2>3. CASE refresh' \in {refresh, None}
    BY <1>d, <2>2, <2>3
  <2>4. CASE refresh' = l /\ token[l] # None
    <3>1. token[l] = l /\ ~Over(l)
      BY <2>1, <2>4, NotOver DEF Sound, Provenance
    <3>2. token'[saw'[d].refresh] = Used(d) /\ token'[saw'[d].refresh] \in honoured'
      BY <1>c, <2>2 DEF Used
    <3>3. Used(d) # l
      BY <1>22, <2>2, <3>1, UsedOver, NoneIsNoWriter
    <3>4. token'[refresh'] = l
      BY <2>2, <2>4, <3>1
    <3> QED BY <3>2, <3>3, <3>4 DEF Goal
  <2> QED BY <1>22, <2>3, <2>4 DEF LoginCommit, StoredRefresh, docs
<1>23. ASSUME NEW a \in Actors, Invalidate(a) PROVE Goal
  BY <1>23, <1>a, <1>d, <1>e, <1>f, <1>g, <1>h
  DEF Invalidate, At, Ends, Leaves, docs, control, Actors
<1>24. ASSUME NEW k \in registered, Forget(k) PROVE Goal
  BY <1>24, <1>a, <1>d, <1>e, <1>f, <1>g, <1>h
  DEF Forget, At, docs, control, Actors
<1>25. CASE Expire
  BY <1>25, <1>a, <1>d, <1>e, <1>f, <1>g, <1>h
  DEF Expire, At, docs, control, Actors
<1>26. CASE Disconnect
  BY <1>26, <1>a, <1>d, <1>e, <1>f, <1>g, <1>h
  DEF Disconnect, At, docs, control, Actors
<1>27. CASE AccessExpires
  BY <1>27, <1>a, <1>d, <1>e, <1>f, <1>g, <1>h
  DEF AccessExpires, At, docs, control, Actors
<1>28. CASE UNCHANGED vars
  BY <1>28, <1>a, <1>d, <1>e, <1>f, <1>g, <1>h
  DEF vars, docs, control, Actors
<1> QED BY <1>1, <1>2, <1>3, <1>4, <1>5, <1>6, <1>7, <1>8, <1>9, <1>10, <1>11, <1>12,
    <1>13, <1>14, <1>15, <1>16, <1>17, <1>18, <1>19, <1>20, <1>21, <1>22, <1>23, <1>24,
    <1>25, <1>26, <1>27, <1>28
  DEF Next, CallStep, LoginStep

LEMMA AnsweredStep ==
  ASSUME Sound, Held, [Next]_vars, Lossless'
  PROVE  Answered'
<1> SUFFICES ASSUME NEW d \in Calls, pc'[d] \in {"answered", "commit"}
             PROVE  token'[d] \in honoured'
  BY DEF Answered
<1>a. Answered /\ d \in Actors /\ d \in Writers /\ d \notin Logins
  BY HeldNow, NamesAssumption DEF Actors, Writers
<1>b. ASSUME pc[d] \in {"answered", "commit"}
      PROVE  token'[d] \in honoured'
  <2>1. token[d] \in honoured
    BY <1>a, <1>b DEF Answered
  <2>2. ASSUME NEW l \in Logins, Exchange(l)
        PROVE  token'[d] = token[d] /\ honoured \subseteq honoured'
    BY <1>a, <2>2, ExchangeMoves
  <2>3. ASSUME NEW c \in Calls, Answer(c)
        PROVE  token'[d] \in honoured'
    BY <1>b, <2>3, AnswerMoves DEF Holding
  <2> QED BY <2>1, <2>2, <2>3, TokensStep DEF TokensStay
<1>f. pc \in [Actors -> Places] /\ None \notin Writers
  BY NoneIsNoWriter DEF Sound, Base0, TypeOK, Places
<1>g. ASSUME NEW a \in Actors, a # d, NEW p, Goto(a, p)
      PROVE  pc'[d] = pc[d]
  BY <1>f, <1>g DEF Goto
<1>h. ASSUME NEW p, Goto(d, p)
      PROVE  pc'[d] = p
  BY <1>a, <1>f, <1>h DEF Goto
<1>1. ASSUME NEW c \in Calls, Fetch(c) PROVE token'[d] \in honoured'
  BY <1>1, <1>a, <1>b, <1>g, <1>h
  DEF Fetch, At, control, Actors
<1>2. ASSUME NEW c \in Calls, NEW accepted \in BOOLEAN, Use(c, accepted)
      PROVE token'[d] \in honoured'
  BY <1>2, <1>a, <1>b, <1>g, <1>h
  DEF Use, At, Ends, Leaves, control, Actors
<1>3. ASSUME NEW c \in Calls, DeleteRejected(c) PROVE token'[d] \in honoured'
  BY <1>3, <1>a, <1>b, <1>g, <1>h
  DEF DeleteRejected, At, control, Actors
<1>4. ASSUME NEW c \in Calls, Check(c) PROVE token'[d] \in honoured'
  BY <1>4, <1>a, <1>b, <1>g, <1>h
  DEF Check, At, Ends, Leaves, control, Actors
<1>5. ASSUME NEW c \in Calls, Acquire(c) PROVE token'[d] \in honoured'
  BY <1>5, <1>a, <1>b, <1>g, <1>h
  DEF Acquire, At, control, Actors
<1>6. ASSUME NEW c \in Calls, NEW landed \in BOOLEAN, Drain(c, landed)
      PROVE token'[d] \in honoured'
  BY <1>6, <1>a, <1>b, <1>g, <1>h
  DEF Drain, At, Ends, Leaves, control, Actors
<1>7. ASSUME NEW c \in Calls, StopWaiting(c) PROVE token'[d] \in honoured'
  BY <1>7, <1>a, <1>b, <1>g, <1>h
  DEF StopWaiting, At, Ends, Leaves, control, Actors
<1>8. ASSUME NEW c \in Calls, Release(c) PROVE token'[d] \in honoured'
  BY <1>8, <1>a, <1>b, <1>g, <1>h
  DEF Release, At, control, Actors
<1>9. ASSUME NEW c \in Calls, Recheck(c) PROVE token'[d] \in honoured'
  BY <1>9, <1>a, <1>b, <1>g, <1>h
  DEF Recheck, At, Ends, Leaves, control, Actors
<1>10. ASSUME NEW c \in Calls, Snapshot(c) PROVE token'[d] \in honoured'
  BY <1>10, <1>a, <1>b, <1>g, <1>h
  DEF Snapshot, At, control, Actors
<1>11. ASSUME NEW c \in Calls, Reread(c) PROVE token'[d] \in honoured'
  BY <1>11, <1>a, <1>b, <1>g, <1>h
  DEF Reread, At, Ends, Leaves, control, Actors
<1>12. ASSUME NEW c \in Calls, EnsureOwned(c) PROVE token'[d] \in honoured'
  BY <1>12, <1>a, <1>b, <1>g, <1>h
  DEF EnsureOwned, At, Ends, Leaves, control, Actors
<1>13. ASSUME NEW c \in Calls, Answer(c) PROVE token'[d] \in honoured'
  BY <1>13, <1>a, <1>b, <1>g, AnswerMoves DEF Answer, Actors
<1>14. ASSUME NEW c \in Calls, Refuse(c) PROVE token'[d] \in honoured'
  BY <1>14, <1>a, <1>b, <1>g, <1>h
  DEF Refuse, At, Ends, Leaves, control, Actors
<1>15. ASSUME NEW c \in Calls, Unanswered(c) PROVE token'[d] \in honoured'
  BY <1>15, <1>a, <1>b, <1>g, <1>h
  DEF Unanswered, At, Ends, Leaves, control, Actors
<1>16. ASSUME NEW c \in Calls, Commit(c) PROVE token'[d] \in honoured'
  BY <1>16, <1>a, <1>b, <1>g, <1>h
  DEF Commit, At, Ends, Leaves, control, Actors
<1>17. ASSUME NEW c \in Calls, Crash(c) PROVE token'[d] \in honoured'
  BY <1>17, <1>a, <1>b, <1>g, <1>h
  DEF Crash, At, Ends, Leaves, control, Actors
<1>18. ASSUME NEW l \in Logins, StartLogin(l) PROVE token'[d] \in honoured'
  BY <1>18, <1>a, <1>b, <1>g, <1>h
  DEF StartLogin, At, control, Actors
<1>19. ASSUME NEW l \in Logins, Ensure(l) PROVE token'[d] \in honoured'
  BY <1>19, <1>a, <1>b, <1>g, <1>h
  DEF Ensure, At, control, Actors
<1>20. ASSUME NEW l \in Logins, Exchange(l) PROVE token'[d] \in honoured'
  BY <1>20, <1>a, <1>b, <1>g, <1>h
  DEF Exchange, At, control, Actors
<1>21. ASSUME NEW l \in Logins, LoginSnapshot(l) PROVE token'[d] \in honoured'
  BY <1>21, <1>a, <1>b, <1>g, <1>h
  DEF LoginSnapshot, At, control, Actors
<1>22. ASSUME NEW l \in Logins, LoginCommit(l) PROVE token'[d] \in honoured'
  BY <1>22, <1>a, <1>b, <1>g, <1>h
  DEF LoginCommit, At, control, Actors
<1>23. ASSUME NEW a \in Actors, Invalidate(a) PROVE token'[d] \in honoured'
  BY <1>23, <1>a, <1>b, <1>g, <1>h
  DEF Invalidate, At, Ends, Leaves, control, Actors
<1>24. ASSUME NEW k \in registered, Forget(k) PROVE token'[d] \in honoured'
  BY <1>24, <1>a, <1>b, <1>g, <1>h
  DEF Forget, At, control, Actors
<1>25. CASE Expire
  BY <1>25, <1>a, <1>b, <1>g, <1>h
  DEF Expire, At, control, Actors
<1>26. CASE Disconnect
  BY <1>26, <1>a, <1>b, <1>g, <1>h
  DEF Disconnect, At, control, Actors
<1>27. CASE AccessExpires
  BY <1>27, <1>a, <1>b, <1>g, <1>h
  DEF AccessExpires, At, control, Actors
<1>28. CASE UNCHANGED vars
  BY <1>28, <1>a, <1>b, <1>g, <1>h
  DEF vars, control, Actors
<1> QED BY <1>1, <1>2, <1>3, <1>4, <1>5, <1>6, <1>7, <1>8, <1>9, <1>10, <1>11, <1>12,
    <1>13, <1>14, <1>15, <1>16, <1>17, <1>18, <1>19, <1>20, <1>21, <1>22, <1>23, <1>24,
    <1>25, <1>26, <1>27, <1>28
  DEF Next, CallStep, LoginStep

LEMMA ExchangedStep ==
  ASSUME Sound, Held, [Next]_vars, Lossless'
  PROVE  Exchanged'
<1> SUFFICES ASSUME NEW d \in Logins
             PROVE  /\ pc'[d] \in {"idle", "ensure", "flow"} => token'[d] = None
                    /\ pc'[d] \in {"store", "commit"} /\ token'[d] # None => token'[d] \in honoured'
  BY DEF Exchanged
<1> DEFINE Goal == /\ pc'[d] \in {"idle", "ensure", "flow"} => token'[d] = None
                   /\ pc'[d] \in {"store", "commit"} /\ token'[d] # None => token'[d] \in honoured'
<1>a. Exchanged /\ d \in Actors /\ d \in Writers /\ d \notin Calls
  BY HeldNow, NamesAssumption DEF Actors, Writers
<1>b. ASSUME ~Exchange(d)
      PROVE  /\ token'[d] = token[d]
             /\ pc[d] \in {"store", "commit"} /\ token[d] # None => token'[d] \in honoured'
  <2>1. ASSUME NEW l \in Logins, Exchange(l)
        PROVE  token'[d] = token[d] /\ honoured \subseteq honoured'
    BY <1>a, <1>b, <2>1, ExchangeMoves
  <2>2. ASSUME NEW c \in Calls, Answer(c)
        PROVE  /\ token'[d] = token[d]
               /\ pc[d] \in {"store", "commit"} /\ token[d] # None => token[d] # Used(c)
    <3>1. token'[d] = token[d] /\ Over(Used(c))
      BY <1>a, <2>2, AnswerMoves
    <3>2. ASSUME pc[d] \in {"store", "commit"}, token[d] # None
          PROVE  token[d] # Used(c)
      <4>1. token[d] = d /\ ~Over(d)
        BY <1>a, <3>2, NotOver DEF Sound, Provenance
      <4> QED BY <3>1, <4>1
    <3> QED BY <3>1, <3>2
  <2>3. ASSUME NEW c \in Calls, Answer(c)
        PROVE  honoured \ {Used(c)} \subseteq honoured'
    BY <2>3, AnswerMoves
  <2> QED BY <1>a, <2>1, <2>2, <2>3, TokensStep DEF TokensStay, Exchanged
<1>c. ASSUME Exchange(d)
      PROVE  Goal
  <2>1. token[d] = None /\ pc[d] = "flow"
    BY <1>a, <1>c, ExchangeMoves DEF Exchanged
  <2>2. pc'[d] \in {"store", "invalidate"}
    BY <1>a, <1>c DEF Exchange, Goto, Sound, Base0, TypeOK
  <2> QED BY <1>c, <2>1, <2>2, ExchangeMoves
<1>d. ASSUME ~Exchange(d), \/ pc'[d] = pc[d] \/ pc'[d] \in {"invalidate", "done", "failed"}
                           \/ pc[d] \in {"idle", "ensure", "flow"} /\ pc'[d] \in {"idle", "ensure", "flow"}
                           \/ pc[d] \in {"store", "commit"} /\ pc'[d] \in {"store", "commit"}
      PROVE  Goal
  BY <1>a, <1>b, <1>d DEF Exchanged
<1> SUFFICES Goal
  OBVIOUS
<1> HIDE DEF Goal
<1>f. pc \in [Actors -> Places] /\ None \notin Writers
  BY NoneIsNoWriter DEF Sound, Base0, TypeOK, Places
<1>g. ASSUME NEW a \in Actors, a # d, NEW p, Goto(a, p)
      PROVE  pc'[d] = pc[d]
  BY <1>f, <1>g DEF Goto
<1>h. ASSUME NEW p, Goto(d, p)
      PROVE  pc'[d] = p
  BY <1>a, <1>f, <1>h DEF Goto
<1>1. ASSUME NEW c \in Calls, Fetch(c) PROVE Goal
  BY <1>1, <1>a, <1>d, <1>g, <1>h
  DEF Fetch, At, control, Actors, Exchange
<1>2. ASSUME NEW c \in Calls, NEW accepted \in BOOLEAN, Use(c, accepted) PROVE Goal
  BY <1>2, <1>a, <1>d, <1>g, <1>h
  DEF Use, At, Ends, Leaves, control, Actors, Exchange
<1>3. ASSUME NEW c \in Calls, DeleteRejected(c) PROVE Goal
  BY <1>3, <1>a, <1>d, <1>g, <1>h
  DEF DeleteRejected, At, control, Actors, Exchange
<1>4. ASSUME NEW c \in Calls, Check(c) PROVE Goal
  BY <1>4, <1>a, <1>d, <1>g, <1>h
  DEF Check, At, Ends, Leaves, control, Actors, Exchange
<1>5. ASSUME NEW c \in Calls, Acquire(c) PROVE Goal
  BY <1>5, <1>a, <1>d, <1>g, <1>h
  DEF Acquire, At, control, Actors, Exchange
<1>6. ASSUME NEW c \in Calls, NEW landed \in BOOLEAN, Drain(c, landed) PROVE Goal
  BY <1>6, <1>a, <1>d, <1>g, <1>h
  DEF Drain, At, Ends, Leaves, control, Actors, Exchange
<1>7. ASSUME NEW c \in Calls, StopWaiting(c) PROVE Goal
  BY <1>7, <1>a, <1>d, <1>g, <1>h
  DEF StopWaiting, At, Ends, Leaves, control, Actors, Exchange
<1>8. ASSUME NEW c \in Calls, Release(c) PROVE Goal
  BY <1>8, <1>a, <1>d, <1>g, <1>h
  DEF Release, At, control, Actors, Exchange
<1>9. ASSUME NEW c \in Calls, Recheck(c) PROVE Goal
  BY <1>9, <1>a, <1>d, <1>g, <1>h
  DEF Recheck, At, Ends, Leaves, control, Actors, Exchange
<1>10. ASSUME NEW c \in Calls, Snapshot(c) PROVE Goal
  BY <1>10, <1>a, <1>d, <1>g, <1>h
  DEF Snapshot, At, control, Actors, Exchange
<1>11. ASSUME NEW c \in Calls, Reread(c) PROVE Goal
  BY <1>11, <1>a, <1>d, <1>g, <1>h
  DEF Reread, At, Ends, Leaves, control, Actors, Exchange
<1>12. ASSUME NEW c \in Calls, EnsureOwned(c) PROVE Goal
  BY <1>12, <1>a, <1>d, <1>g, <1>h
  DEF EnsureOwned, At, Ends, Leaves, control, Actors, Exchange
<1>13. ASSUME NEW c \in Calls, Answer(c) PROVE Goal
  BY <1>13, <1>a, <1>d, <1>g, <1>h
  DEF Answer, At, control, Actors, Exchange
<1>14. ASSUME NEW c \in Calls, Refuse(c) PROVE Goal
  BY <1>14, <1>a, <1>d, <1>g, <1>h
  DEF Refuse, At, Ends, Leaves, control, Actors, Exchange
<1>15. ASSUME NEW c \in Calls, Unanswered(c) PROVE Goal
  BY <1>15, <1>a, <1>d, <1>g, <1>h
  DEF Unanswered, At, Ends, Leaves, control, Actors, Exchange
<1>16. ASSUME NEW c \in Calls, Commit(c) PROVE Goal
  BY <1>16, <1>a, <1>d, <1>g, <1>h
  DEF Commit, At, Ends, Leaves, control, Actors, Exchange
<1>17. ASSUME NEW c \in Calls, Crash(c) PROVE Goal
  BY <1>17, <1>a, <1>d, <1>g, <1>h
  DEF Crash, At, Ends, Leaves, control, Actors, Exchange
<1>18. ASSUME NEW l \in Logins, StartLogin(l) PROVE Goal
  BY <1>18, <1>a, <1>d, <1>g, <1>h
  DEF StartLogin, At, control, Actors, Exchange
<1>19. ASSUME NEW l \in Logins, Ensure(l) PROVE Goal
  BY <1>19, <1>a, <1>d, <1>g, <1>h
  DEF Ensure, At, control, Actors, Exchange
<1>20. ASSUME NEW l \in Logins, Exchange(l) PROVE Goal
  <2>1. CASE l = d
    BY <1>20, <1>c, <2>1
  <2>2. CASE l # d /\ pc'[d] = pc[d]
    BY <1>c, <1>d, <2>2
  <2>3. l # d => pc'[d] = pc[d]
    BY <1>20, <1>g DEF Exchange, Actors
  <2> QED BY <2>1, <2>2, <2>3
<1>21. ASSUME NEW l \in Logins, LoginSnapshot(l) PROVE Goal
  BY <1>21, <1>a, <1>d, <1>g, <1>h
  DEF LoginSnapshot, At, control, Actors, Exchange
<1>22. ASSUME NEW l \in Logins, LoginCommit(l) PROVE Goal
  BY <1>22, <1>a, <1>d, <1>g, <1>h
  DEF LoginCommit, At, control, Actors, Exchange
<1>23. ASSUME NEW a \in Actors, Invalidate(a) PROVE Goal
  BY <1>23, <1>a, <1>d, <1>g, <1>h
  DEF Invalidate, At, Ends, Leaves, control, Actors, Exchange
<1>24. ASSUME NEW k \in registered, Forget(k) PROVE Goal
  BY <1>24, <1>a, <1>d, <1>g, <1>h
  DEF Forget, At, control, Actors, Exchange
<1>25. CASE Expire
  BY <1>25, <1>a, <1>d, <1>g, <1>h
  DEF Expire, At, control, Actors, Exchange
<1>26. CASE Disconnect
  BY <1>26, <1>a, <1>d, <1>g, <1>h
  DEF Disconnect, At, control, Actors, Exchange
<1>27. CASE AccessExpires
  BY <1>27, <1>a, <1>d, <1>g, <1>h
  DEF AccessExpires, At, control, Actors, Exchange
<1>28. CASE UNCHANGED vars
  BY <1>28, <1>c, <1>d DEF vars, control
<1> QED BY <1>1, <1>2, <1>3, <1>4, <1>5, <1>6, <1>7, <1>8, <1>9, <1>10, <1>11, <1>12,
    <1>13, <1>14, <1>15, <1>16, <1>17, <1>18, <1>19, <1>20, <1>21, <1>22, <1>23, <1>24,
    <1>25, <1>26, <1>27, <1>28
  DEF Next, CallStep, LoginStep

(* A call that gives up what it received has received nothing new, or what  *)
(* it was shown is no longer stored.                                       *)
LEMMA NothingLeft ==
  ASSUME Sound, Held, [Next]_vars, Lossless', NEW c \in Calls, NEW x \in Losses, Left(c, x),
         pc[c] \in {"answered", "commit"}, refresh # None, saw[c].refresh = refresh
  PROVE  token[refresh] \in honoured
<1>1. token[c] \in honoured /\ token[c] # None
  BY HeldNow, NoneIsNoWriter DEF Answered, Sound, Base0, TypeOK
<1>2. x \notin causes'
  BY DEF Lossless
<1>3. token[c] = Used(c)
  BY <1>1, <1>2 DEF Left, Rotated
<1> QED BY <1>1, <1>3 DEF Used

LEMMA HonouredStep ==
  ASSUME Sound, Held, [Next]_vars, Lossless', refresh' # None
  PROVE  token'[refresh'] \in honoured' \/ Pending(refresh)'
<1> DEFINE Goal == token'[refresh'] \in honoured' \/ Pending(refresh)'
<1>a. /\ Answered /\ Owned /\ Usable /\ Exchanged /\ Honoured /\ Calls \subseteq Actors
      /\ pc \in [Actors -> Places] /\ saw \in [Actors -> Snapshots]
  BY HeldNow DEF Sound, Base0, TypeOK, Places, Actors
<1>b. ASSUME refresh' = refresh, token[refresh] \in honoured
      PROVE  Goal
  <2>1. refresh \in Writers /\ Over(refresh)
    BY <1>b DEF Sound, Stored, Base0, TypeOK
  <2>2. ASSUME NEW c \in Calls, Answer(c), token[refresh] = Used(c)
        PROVE  Pending(refresh)'
    <3>1. refresh = saw[c].refresh /\ saw' = saw /\ pc'[c] = "answered"
      BY <1>a, <1>b, <2>1, <2>2, AnswerMoves, NoneIsNoWriter DEF Usable
    <3> QED BY <1>b, <3>1 DEF Pending
  <2> QED BY <1>b, <2>1, <2>2, OthersKeep
<1>c. ASSUME NEW c \in Calls, pc[c] \in {"answered", "commit"}, saw[c].refresh = refresh,
             saw' = saw, pc'[c] \in {"answered", "commit"}, refresh' = refresh
      PROVE  Goal
  BY <1>c DEF Pending
<1>d. ASSUME NEW c \in Calls, pc[c] \in {"answered", "commit"}, refresh' = refresh,
             saw[c].refresh = refresh, NEW x \in Losses, Left(c, x)
      PROVE  Goal
  BY <1>b, <1>d, NothingLeft
(* Steps of others leave the call alone that is about to store. *)
<1>e. ASSUME refresh' = refresh,
             NEW b \in Actors, pc[b] \notin {"answered", "commit"} \/ b \in Logins,
             \A a \in Actors \ {b} : pc'[a] = pc[a] /\ saw'[a] = saw[a]
      PROVE  Goal
  <2>1. CASE token[refresh] \in honoured
    BY <1>b, <1>e, <2>1
  <2>2. ASSUME NEW c \in Calls, pc[c] \in {"answered", "commit"}, saw[c].refresh = refresh
        PROVE  Goal
    <3>1. c # b /\ c \in Actors
      BY <1>a, <1>e, <2>2, NamesAssumption
    <3> QED BY <1>e, <2>2, <3>1 DEF Pending
  <2> QED BY <1>a, <1>e, <2>1, <2>2 DEF Honoured, Pending
<1>f. ASSUME refresh' = refresh, UNCHANGED <<pc, saw>>
      PROVE  Goal
  BY <1>a, <1>b, <1>f DEF Honoured, Pending
(* A call that gives up. *)
<1>i. ASSUME NEW c \in Calls, pc[c] \in {"answered", "commit"}, refresh' = refresh,
             \A a \in Actors \ {c} : pc'[a] = pc[a] /\ saw'[a] = saw[a],
             saw[c].refresh = refresh => \E x \in Losses : Left(c, x)
      PROVE  Goal
  <2>1. CASE token[refresh] \in honoured
    BY <1>b, <1>i, <2>1
  <2>2. CASE saw[c].refresh = refresh
    BY <1>d, <1>i, <2>2
  <2>3. ASSUME saw[c].refresh # refresh, Pending(refresh)
        PROVE  Goal
    <3>1. PICK b \in Calls : pc[b] \in {"answered", "commit"} /\ saw[b].refresh = refresh
      BY <2>3 DEF Pending
    <3>2. pc'[b] = pc[b] /\ saw'[b] = saw[b]
      BY <1>a, <1>i, <2>3, <3>1
    <3> QED BY <1>i, <3>1, <3>2 DEF Pending
  <2> QED BY <1>a, <1>i, <2>1, <2>2, <2>3 DEF Honoured
<1>g. ASSUME NEW a \in Actors, NEW p, Goto(a, p)
      PROVE  \A b \in Actors \ {a} : pc'[b] = pc[b]
  BY <1>a, <1>g DEF Goto
<1>h. ASSUME NEW c \in Calls, NEW p, Leaves(c, p)
      PROVE  \A b \in Actors \ {c} : pc'[b] = pc[b] /\ saw'[b] = saw[b]
  BY <1>a, <1>g, <1>h DEF Leaves
<1> SUFFICES Goal
  OBVIOUS
<1> HIDE DEF Goal
<1>1. ASSUME NEW c \in Calls, Fetch(c) PROVE Goal
  <2>1. c \in Actors /\ pc[c] \notin {"answered", "commit"}
    BY <1>1, <1>a DEF Fetch, At, Actors
  <2>2. \A a \in Actors \ {c} : pc'[a] = pc[a] /\ saw'[a] = saw[a]
    BY <1>1, <1>a, <2>1, <1>g, <1>h DEF Fetch, Ends, control
  <2>3. refresh' = refresh
    BY <1>1 DEF Fetch, docs
  <2> QED BY <1>e, <2>1, <2>2, <2>3
<1>2. ASSUME NEW c \in Calls, NEW accepted \in BOOLEAN, Use(c, accepted) PROVE Goal
  <2>1. c \in Actors /\ pc[c] \notin {"answered", "commit"}
    BY <1>2, <1>a DEF Use, At, Actors
  <2>2. \A a \in Actors \ {c} : pc'[a] = pc[a] /\ saw'[a] = saw[a]
    BY <1>2, <1>a, <2>1, <1>g, <1>h DEF Use, Ends, control
  <2>3. refresh' = refresh
    BY <1>2 DEF Use, docs
  <2> QED BY <1>e, <2>1, <2>2, <2>3
<1>3. ASSUME NEW c \in Calls, DeleteRejected(c) PROVE Goal
  <2>1. c \in Actors /\ pc[c] \notin {"answered", "commit"}
    BY <1>3, <1>a DEF DeleteRejected, At, Actors
  <2>2. \A a \in Actors \ {c} : pc'[a] = pc[a] /\ saw'[a] = saw[a]
    BY <1>3, <1>a, <2>1, <1>g, <1>h DEF DeleteRejected, Ends, control
  <2>3. refresh' = refresh
    BY <1>3 DEF DeleteRejected, docs
  <2> QED BY <1>e, <2>1, <2>2, <2>3
<1>4. ASSUME NEW c \in Calls, Check(c) PROVE Goal
  <2>1. c \in Actors /\ pc[c] \notin {"answered", "commit"}
    BY <1>4, <1>a DEF Check, At, Actors
  <2>2. \A a \in Actors \ {c} : pc'[a] = pc[a] /\ saw'[a] = saw[a]
    BY <1>4, <1>a, <2>1, <1>g, <1>h DEF Check, Ends, control
  <2>3. refresh' = refresh
    BY <1>4 DEF Check, docs
  <2> QED BY <1>e, <2>1, <2>2, <2>3
<1>5. ASSUME NEW c \in Calls, Acquire(c) PROVE Goal
  <2>1. c \in Actors /\ pc[c] \notin {"answered", "commit"}
    BY <1>5, <1>a DEF Acquire, At, Actors
  <2>2. \A a \in Actors \ {c} : pc'[a] = pc[a] /\ saw'[a] = saw[a]
    BY <1>5, <1>a, <2>1, <1>g, <1>h DEF Acquire, Ends, control
  <2>3. refresh' = refresh
    BY <1>5 DEF Acquire, docs
  <2> QED BY <1>e, <2>1, <2>2, <2>3
<1>6. ASSUME NEW c \in Calls, NEW landed \in BOOLEAN, Drain(c, landed) PROVE Goal
  <2>1. c \in Actors /\ pc[c] \notin {"answered", "commit"}
    BY <1>6, <1>a DEF Drain, At, Actors
  <2>2. \A a \in Actors \ {c} : pc'[a] = pc[a] /\ saw'[a] = saw[a]
    BY <1>6, <1>a, <2>1, <1>g, <1>h DEF Drain, Ends, control
  <2>3. refresh' = refresh
    BY <1>6 DEF Drain, docs
  <2> QED BY <1>e, <2>1, <2>2, <2>3
<1>7. ASSUME NEW c \in Calls, StopWaiting(c) PROVE Goal
  <2>1. c \in Actors /\ pc[c] \notin {"answered", "commit"}
    BY <1>7, <1>a DEF StopWaiting, At, Actors
  <2>2. \A a \in Actors \ {c} : pc'[a] = pc[a] /\ saw'[a] = saw[a]
    BY <1>7, <1>a, <2>1, <1>g, <1>h DEF StopWaiting, Ends, control
  <2>3. refresh' = refresh
    BY <1>7 DEF StopWaiting, docs
  <2> QED BY <1>e, <2>1, <2>2, <2>3
<1>8. ASSUME NEW c \in Calls, Release(c) PROVE Goal
  <2>1. c \in Actors /\ pc[c] \notin {"answered", "commit"}
    BY <1>8, <1>a DEF Release, At, Actors
  <2>2. \A a \in Actors \ {c} : pc'[a] = pc[a] /\ saw'[a] = saw[a]
    BY <1>8, <1>a, <2>1, <1>g, <1>h DEF Release, Ends, control
  <2>3. refresh' = refresh
    BY <1>8 DEF Release, docs
  <2> QED BY <1>e, <2>1, <2>2, <2>3
<1>9. ASSUME NEW c \in Calls, Recheck(c) PROVE Goal
  <2>1. c \in Actors /\ pc[c] \notin {"answered", "commit"}
    BY <1>9, <1>a DEF Recheck, At, Actors
  <2>2. \A a \in Actors \ {c} : pc'[a] = pc[a] /\ saw'[a] = saw[a]
    BY <1>9, <1>a, <2>1, <1>g, <1>h DEF Recheck, Ends, control
  <2>3. refresh' = refresh
    BY <1>9 DEF Recheck, docs
  <2> QED BY <1>e, <2>1, <2>2, <2>3
<1>10. ASSUME NEW c \in Calls, Snapshot(c) PROVE Goal
  <2>1. c \in Actors /\ pc[c] \notin {"answered", "commit"}
    BY <1>10, <1>a DEF Snapshot, At, Actors
  <2>2. \A a \in Actors \ {c} : pc'[a] = pc[a] /\ saw'[a] = saw[a]
    BY <1>10, <1>a, <2>1, <1>g, <1>h DEF Snapshot, Ends, control
  <2>3. refresh' = refresh
    BY <1>10 DEF Snapshot, docs
  <2> QED BY <1>e, <2>1, <2>2, <2>3
<1>11. ASSUME NEW c \in Calls, Reread(c) PROVE Goal
  <2>1. c \in Actors /\ pc[c] \notin {"answered", "commit"}
    BY <1>11, <1>a DEF Reread, At, Actors
  <2>2. \A a \in Actors \ {c} : pc'[a] = pc[a] /\ saw'[a] = saw[a]
    BY <1>11, <1>a, <2>1, <1>g, <1>h DEF Reread, Ends, control
  <2>3. refresh' = refresh
    BY <1>11 DEF Reread, docs
  <2> QED BY <1>e, <2>1, <2>2, <2>3
<1>12. ASSUME NEW c \in Calls, EnsureOwned(c) PROVE Goal
  <2>1. refresh' = refresh /\ c \in Actors
    BY <1>12, <1>a DEF EnsureOwned, docs
  <2>2. \A a \in Actors \ {c} : pc'[a] = pc[a] /\ saw'[a] = saw[a]
    BY <1>12, <2>1, <1>g, <1>h DEF EnsureOwned, Ends
  <2>3. CASE pc[c] = "owned"
    BY <1>e, <2>1, <2>2, <2>3
  <2>4. CASE pc[c] = "answered" /\ UNCHANGED saw
    <3>1. pc'[c] \in {"answered", "commit"} \/ Left(c, "dropped")
      BY <1>12, <1>a, <2>1, <2>4 DEF EnsureOwned, At, Goto
    <3> QED BY <1>c, <1>i, <2>1, <2>2, <2>4, <3>1 DEF Losses
  <2>5. CASE pc[c] = "answered" /\ Left(c, "dropped")
    BY <1>i, <2>1, <2>2, <2>5 DEF Losses
  <2> QED BY <1>12, <2>3, <2>4, <2>5 DEF EnsureOwned
<1>13. ASSUME NEW c \in Calls, Answer(c) PROVE Goal
  <2>1. c \in Actors /\ pc[c] \notin {"answered", "commit"}
    BY <1>13, <1>a DEF Answer, At, Actors
  <2>2. \A a \in Actors \ {c} : pc'[a] = pc[a] /\ saw'[a] = saw[a]
    BY <1>13, <1>a, <2>1, <1>g, <1>h DEF Answer, Ends, control
  <2>3. refresh' = refresh
    BY <1>13 DEF Answer, docs
  <2> QED BY <1>e, <2>1, <2>2, <2>3
<1>14. ASSUME NEW c \in Calls, Refuse(c) PROVE Goal
  <2>1. c \in Actors /\ pc[c] \notin {"answered", "commit"}
    BY <1>14, <1>a DEF Refuse, At, Actors
  <2>2. \A a \in Actors \ {c} : pc'[a] = pc[a] /\ saw'[a] = saw[a]
    BY <1>14, <1>a, <2>1, <1>g, <1>h DEF Refuse, Ends, control
  <2>3. refresh' = refresh
    BY <1>14 DEF Refuse, docs
  <2> QED BY <1>e, <2>1, <2>2, <2>3
<1>15. ASSUME NEW c \in Calls, Unanswered(c) PROVE Goal
  <2>1. c \in Actors /\ pc[c] \notin {"answered", "commit"}
    BY <1>15, <1>a DEF Unanswered, At, Actors
  <2>2. \A a \in Actors \ {c} : pc'[a] = pc[a] /\ saw'[a] = saw[a]
    BY <1>15, <1>a, <2>1, <1>g, <1>h DEF Unanswered, Ends, control
  <2>3. refresh' = refresh
    BY <1>15 DEF Unanswered, docs
  <2> QED BY <1>e, <2>1, <2>2, <2>3
<1>16. ASSUME NEW c \in Calls, Commit(c) PROVE Goal
  <2>1. c \in Actors /\ pc[c] = "commit"
    BY <1>16, <1>a DEF Commit, At
  <2>2. \A a \in Actors \ {c} : pc'[a] = pc[a] /\ saw'[a] = saw[a]
    BY <1>16, <2>1, <1>g, <1>h DEF Commit, Ends
  <2>3. CASE refresh' = c
    BY <1>16, <1>a, <2>1, <2>3 DEF Commit, Answered, received, provider, Goal
  <2>4. ASSUME refresh' = refresh, NEW x \in Losses, Left(c, x)
        PROVE  Goal
    BY <1>i, <2>1, <2>2, <2>4
  <2> QED BY <1>16, <2>3, <2>4 DEF Commit, docs, Losses
<1>17. ASSUME NEW c \in Calls, Crash(c) PROVE Goal
  <2>1. c \in Actors /\ refresh' = refresh
    BY <1>17, <1>a DEF Crash, docs
  <2>2. \A a \in Actors \ {c} : pc'[a] = pc[a] /\ saw'[a] = saw[a]
    BY <1>17, <2>1, <1>h DEF Crash
  <2>3. CASE pc[c] \notin {"answered", "commit"}
    BY <1>e, <2>1, <2>2, <2>3
  <2>4. CASE pc[c] \in {"answered", "commit"}
    BY <1>17, <1>i, <2>1, <2>2, <2>4 DEF Crash, At, Losses
  <2> QED BY <2>3, <2>4
<1>18. ASSUME NEW l \in Logins, StartLogin(l) PROVE Goal
  <2>1. l \in Actors /\ l \in Logins
    BY <1>18, <1>a DEF StartLogin, At, Actors
  <2>2. \A a \in Actors \ {l} : pc'[a] = pc[a] /\ saw'[a] = saw[a]
    BY <1>18, <1>a, <2>1, <1>g, <1>h DEF StartLogin, Ends, control
  <2>3. refresh' = refresh
    BY <1>18 DEF StartLogin, docs
  <2> QED BY <1>e, <2>1, <2>2, <2>3
<1>19. ASSUME NEW l \in Logins, Ensure(l) PROVE Goal
  <2>1. l \in Actors /\ l \in Logins
    BY <1>19, <1>a DEF Ensure, At, Actors
  <2>2. \A a \in Actors \ {l} : pc'[a] = pc[a] /\ saw'[a] = saw[a]
    BY <1>19, <1>a, <2>1, <1>g, <1>h DEF Ensure, Ends, control
  <2>3. refresh' = refresh
    BY <1>19 DEF Ensure, docs
  <2> QED BY <1>e, <2>1, <2>2, <2>3
<1>20. ASSUME NEW l \in Logins, Exchange(l) PROVE Goal
  <2>1. l \in Actors /\ l \in Logins
    BY <1>20, <1>a DEF Exchange, At, Actors
  <2>2. \A a \in Actors \ {l} : pc'[a] = pc[a] /\ saw'[a] = saw[a]
    BY <1>20, <1>a, <2>1, <1>g, <1>h DEF Exchange, Ends, control
  <2>3. refresh' = refresh
    BY <1>20 DEF Exchange, docs
  <2> QED BY <1>e, <2>1, <2>2, <2>3
<1>21. ASSUME NEW l \in Logins, LoginSnapshot(l) PROVE Goal
  <2>1. l \in Actors /\ l \in Logins
    BY <1>21, <1>a DEF LoginSnapshot, At, Actors
  <2>2. \A a \in Actors \ {l} : pc'[a] = pc[a] /\ saw'[a] = saw[a]
    BY <1>21, <1>a, <2>1, <1>g, <1>h DEF LoginSnapshot, Ends, control
  <2>3. refresh' = refresh
    BY <1>21 DEF LoginSnapshot, docs
  <2> QED BY <1>e, <2>1, <2>2, <2>3
<1>22. ASSUME NEW l \in Logins, LoginCommit(l) PROVE Goal
  <2>1. l \in Actors /\ pc[l] = "commit"
    BY <1>22 DEF LoginCommit, At, Actors
  <2>2. CASE refresh' = refresh
    <3>1. \A a \in Actors \ {l} : pc'[a] = pc[a] /\ saw'[a] = saw[a]
      BY <1>22, <2>1, <1>g DEF LoginCommit
    <3> QED BY <1>e, <2>1, <2>2, <3>1
  <2>3. CASE refresh' = l /\ token[l] # None
    BY <1>22, <1>a, <2>1, <2>3 DEF LoginCommit, Exchanged, received, provider, Goal
  <2> QED BY <1>22, <2>2, <2>3 DEF LoginCommit, StoredRefresh, docs
<1>23. ASSUME NEW a \in Actors, Invalidate(a) PROVE Goal
  <2>1. a \in Logins \/ pc[a] \notin {"answered", "commit"}
    BY <1>23 DEF Invalidate, At
  <2>2. \A b \in Actors \ {a} : pc'[b] = pc[b] /\ saw'[b] = saw[b]
    BY <1>23, <1>g, <1>h DEF Invalidate, Ends
  <2>3. refresh' = refresh
    BY <1>23 DEF Invalidate, docs
  <2> QED BY <1>e, <2>1, <2>2, <2>3
<1>24. ASSUME NEW k \in registered, Forget(k) PROVE Goal
  BY <1>24, <1>f DEF Forget, docs, control
<1>25. CASE Expire
  BY <1>25, <1>f DEF Expire, docs, control
<1>26. CASE Disconnect
  BY <1>26 DEF Disconnect
<1>27. CASE AccessExpires
  BY <1>27, <1>f DEF AccessExpires, docs, control
<1>28. CASE UNCHANGED vars
  BY <1>28, <1>f DEF vars, docs, control
<1> QED BY <1>1, <1>2, <1>3, <1>4, <1>5, <1>6, <1>7, <1>8, <1>9, <1>10, <1>11, <1>12,
    <1>13, <1>14, <1>15, <1>16, <1>17, <1>18, <1>19, <1>20, <1>21, <1>22, <1>23, <1>24,
    <1>25, <1>26, <1>27, <1>28
  DEF Next, CallStep, LoginStep

LEMMA InitHeld ==
  ASSUME Init
  PROVE  Held
<1>1. /\ \A a \in Actors : pc[a] = "idle"
      /\ \A l \in Logins : token[l] = None
      /\ refresh = Base /\ token[Base] = Base /\ Base \in honoured
  BY NamesAssumption DEF Init, Writers, Actors
<1>2. Calls \subseteq Actors /\ Logins \subseteq Actors
  BY DEF Actors
<1>3. Owned /\ Usable /\ Answered
  BY <1>1, <1>2 DEF Owned, Usable, Answered, Holding
<1>4. Exchanged /\ Honoured
  BY <1>1, <1>2 DEF Exchanged, Honoured
<1> QED BY <1>3, <1>4 DEF Held

LEMMA AllHeldStep ==
  ASSUME Sound, Held, [Next]_vars
  PROVE  Held'
<1> SUFFICES ASSUME Lossless'
             PROVE  Owned' /\ Usable' /\ Answered' /\ Exchanged' /\ Honoured'
  BY DEF Held
<1>1. Owned' /\ Usable'
  BY OwnedStep, UsableStep
<1>2. Answered' /\ Exchanged'
  BY AnsweredStep, ExchangedStep
<1>3. Honoured'
  BY HonouredStep DEF Honoured
<1> QED BY <1>1, <1>2, <1>3

LEMMA HeldInvariant == Spec => [](Sound /\ Held)
<1>1. Init => Sound /\ Held
  BY InitSound, InitSettled, InitHeld DEF Sound
<1>2. (Sound /\ Held) /\ [Next]_vars => (Sound /\ Held)'
  BY AllSoundStep, AllHeldStep
<1> QED BY <1>1, <1>2, PTL DEF Spec

(* As long as no rotated token is lost, the provider accepts the refresh    *)
(* token that is stored, or one call is about to replace it: whatever the  *)
(* order of calls, logins, disconnections and expiries, for any number of  *)
(* calls and logins.  What can lose one are the listed causes, no other.   *)
THEOREM StoredHonoured == Spec => []StoredIsHonoured
<1>1. Held => StoredIsHonoured
  BY DEF Held, Lossless, Honoured, Pending, StoredIsHonoured
<1> QED BY <1>1, HeldInvariant, PTL

==============================================================================
