----------------------------- MODULE SesSession -----------------------------
(***************************************************************************)
(* Who holds which pane: the canonical store of the hexe session daemon    *)
(* (SES), through detach, reattach, steal, cleanup, crash and restart.     *)
(*                                                                         *)
(* A pane is a shell in a pod process that outlives everything else.  SES  *)
(* records its state, its owner (a connected frontend, a "client") and the *)
(* session it was last parked in.  A session is held by a client, or is    *)
(* detached: then its record lists the panes parked in it.  A keyed pane   *)
(* (a float named by directory and key) belongs to whoever asks for it.    *)
(*                                                                         *)
(* SES is one thread, so one handler is one action, written as a function  *)
(* from store to store.  Reattaching takes several requests: reattach,     *)
(* adopt for each pane, then register again, which commits.                *)
(*                                                                         *)
(* Left out: names and the resolution of a name to a session (the session  *)
(* is the argument), sub-floats (they die with their parent), set_sticky   *)
(* (whether a pane is keyed is fixed), killing an attached session from    *)
(* the CLI, clients registered with keepalive = 0 (they list and leave),   *)
(* and a graceful disconnect that is not a shutdown, which no frontend in  *)
(* the repository sends.                                                   *)
(*                                                                         *)
(* A definition that nothing uses, next to one that is used, is a mistake  *)
(* the code could have made there: put in its place, it breaks a property. *)
(***************************************************************************)
EXTENDS Naturals, FiniteSets, Functions

CONSTANTS
  Panes,
  Keyed,        \* panes with sticky_pwd and sticky_key, all the same pair
  Sessions,
  NoSession,
  MaxClients,   \* bound: clients one run of the daemon registers
  MaxRestarts,  \* bound: how often the daemon crashes and starts again
  Hazards       \* what may happen beyond the ordinary, see HazardKinds

\* "slow":     a reattach takes more than the 5 s after which its lock expires
\* "partial":  a frontend commits although an adoption it asked for failed
\* "abort":    a frontend gives a reattach up: orphans what it adopted, or quits
\* "stale":    a frontend kills or orphans a pane it lost without noticing
\* "clash":    a session is stolen from a client busy reattaching another one
\* "midcrash": the daemon dies between detach_start and detach_commit
\* "disk":     saving the state may fail
\* "full":     the disk is full, saving always fails
HazardKinds ==
  {"slow", "partial", "abort", "stale", "clash", "midcrash", "disk", "full"}

ASSUME SessionAssumption ==
  /\ Keyed \subseteq Panes
  /\ NoSession \notin Sessions
  /\ MaxClients \in Nat
  /\ MaxRestarts \in Nat
  /\ Hazards \subseteq HazardKinds

NoClient == 0
Clients == 1 .. MaxClients

VARIABLES
  store,     \* what SES holds in memory: panes, clients, detached, dirty
  nextId,    \* the id the next client gets
  locks,     \* locks[s]: the client reattaching session s
  log,       \* log[s]: the transaction on s the log has no commit for
  disk,      \* the state file
  pods,      \* pods[p]: the process of pane p
  restarts   \* how often the daemon was started again

vars == <<store, nextId, locks, log, disk, pods, restarts>>

-----------------------------------------------------------------------------
(* The records of the store and the primitives on them *)

States == {"attached", "detached", "sticky", "orphaned"}

Pane == [state : States, owner : Nat, session : Sessions \union {NoSession},
         timed : BOOLEAN]                              \* orphaned_at is set
Client == [session : Sessions,
           pending : Sessions \union {NoSession},      \* being reattached
           panes : SUBSET Panes,                       \* pane_uuids
           floats : SUBSET Keyed]                      \* keyed floats in its snapshot
Parking == [panes : SUBSET Panes, floats : SUBSET Keyed]

Put(f, x, v) == [y \in DOMAIN f \union {x} |-> IF y = x THEN v ELSE f[y]]
Without(r, P) == [r EXCEPT !.panes = @ \ P, !.floats = @ \ P]
DirtyForgotten(T) == T
Dirty(T) == [T EXCEPT !.dirty = TRUE]

\* PaneState.isValidTransition; an invalid transition is logged and ignored.
CanBecome(old, new) ==
  \/ old = new
  \/ new \in CASE old = "attached" -> {"detached", "sticky", "orphaned"}
               [] old = "detached" -> {"attached", "orphaned"}
               [] old = "sticky"   -> {"attached", "orphaned"}
               [] old = "orphaned" -> {"attached", "sticky"}

Become(r, new) == IF CanBecome(r.state, new) THEN [r EXCEPT !.state = new] ELSE r

\* A pane given up with no session: free for its key, or for anyone.
Idle(p) == IF p \in Keyed THEN "sticky" ELSE "orphaned"
FreedStillOwned(r, p) == [Become(r, Idle(p)) EXCEPT !.session = NoSession, !.timed = TRUE]
Freed(r, p) == [Become(r, Idle(p)) EXCEPT !.owner = NoClient, !.session = NoSession,
                                          !.timed = TRUE]

\* isPaneParked: the session the pane is stamped with lists it.
Parked(T, p) ==
  LET s == T.panes[p].session
  IN s \in DOMAIN T.detached /\ p \in T.detached[s].panes

Alive(p) == pods[p] = "up"

\* killPane for each of P: out of the table, and out of its owner's lists or,
\* unowned, out of the session it is stamped with.
Killed(T, P) ==
  LET gone == P \intersect DOMAIN T.panes
      Of(c) == {p \in gone : T.panes[p].owner = c}
      In(s) == {p \in gone : T.panes[p].owner = NoClient /\ T.panes[p].session = s}
  IN [panes    |-> Restrict(T.panes, DOMAIN T.panes \ gone),
      clients  |-> [c \in DOMAIN T.clients |-> Without(T.clients[c], Of(c))],
      detached |-> [s \in DOMAIN T.detached |-> Without(T.detached[s], In(s))],
      dirty    |-> T.dirty \/ gone # {}]

\* collectDetachPaneUuids: what c owns, by its pane list and its snapshot.
MineInSnapshot(T, c) ==
  {p \in DOMAIN T.panes : T.panes[p].owner = c /\ p \in T.clients[c].floats}
Mine(T, c) ==
  {p \in DOMAIN T.panes :
     /\ T.panes[p].owner = c
     /\ p \in T.clients[c].panes \union T.clients[c].floats}

\* detachSession, detachSessionDirect: park what c owns in s.  A keyed float
\* of its snapshot stays in the record even when someone else has the pane.
Detached(T, c, s) ==
  LET mine == Mine(T, c)
  IN [T EXCEPT
        !.detached = Put(@, s, [panes  |-> mine,
                                floats |-> T.clients[c].floats \intersect DOMAIN T.panes]),
        !.panes = [p \in DOMAIN @ |->
                     IF p \in mine
                       THEN [Become(@[p], "detached") EXCEPT !.session = s, !.owner = NoClient]
                       ELSE @[p]],
        !.dirty = TRUE]

\* removeDetachedSession: forget the record, its panes are no longer parked.
RemovedStampsOnly(T, s) ==
  [T EXCEPT !.panes = [p \in DOMAIN @ |->
                         IF s \in DOMAIN T.detached /\ p \in T.detached[s].panes
                           THEN [@[p] EXCEPT !.session = NoSession] ELSE @[p]]]
Removed(T, s) ==
  IF s \notin DOMAIN T.detached THEN T
  ELSE [T EXCEPT
          !.panes = [p \in DOMAIN @ |->
                       IF p \in T.detached[s].panes
                         THEN [@[p] EXCEPT !.session = NoSession] ELSE @[p]],
          !.detached = Restrict(@, DOMAIN @ \ {s}),
          !.dirty = TRUE]

\* removePaneFromDetachedSessions: unpark p; a session it empties goes too.
Unparked(T, p) ==
  LET lists == {s \in DOMAIN T.detached : p \in T.detached[s].panes}
      empty == {s \in lists : T.detached[s].panes = {p}}
  IN [T EXCEPT
        !.detached = [s \in DOMAIN @ \ empty |->
                        IF s \in lists THEN Without(@[s], {p}) ELSE @[s]],
        !.panes[p].session = NoSession,
        !.dirty = TRUE]

\* stealAttachedPane: take p from whoever owns it.
TakenSilently(T, p) == [T EXCEPT !.panes[p] = Freed(@, p), !.dirty = TRUE]
Taken(T, p) ==
  LET Robbed(c) == [T.clients[c] EXCEPT !.panes = @ \ {p}]
  IN [T EXCEPT
        !.clients = [c \in DOMAIN @ |->
                       IF c = T.panes[p].owner THEN Robbed(c) ELSE @[c]],
        !.panes[p] = Freed(@, p),
        !.dirty = TRUE]

\* attachPane, past its checks.
Attached(T, c, p) ==
  [T EXCEPT
     !.clients[c].panes = @ \union {p},
     !.panes[p] = [Become(@, "attached") EXCEPT !.owner = c, !.timed = FALSE],
     !.dirty = TRUE]

Gone(T, c) == [T EXCEPT !.clients = Restrict(@, DOMAIN @ \ {c})]

\* releaseClientLocks.
UnlockedNone(c) == locks
Unlocked(c) == [s \in Sessions |-> IF locks[s] = c THEN NoClient ELSE locks[s]]

-----------------------------------------------------------------------------
Nothing == [x \in {} |-> {}]
NoLocks == [s \in Sessions |-> NoClient]
NoLog == [s \in Sessions |-> "none"]

Init ==
  /\ store = [panes |-> Nothing, clients |-> Nothing, detached |-> Nothing, dirty |-> FALSE]
  /\ nextId = 1
  /\ locks = NoLocks
  /\ log = NoLog
  /\ disk = [panes |-> Nothing, sessions |-> Nothing]
  /\ pods = [p \in Panes |-> "new"]
  /\ restarts = 0

Live == DOMAIN store.clients

\* A session id a frontend makes up has been used nowhere.
Fresh(s) ==
  /\ s \notin DOMAIN store.detached /\ s \notin DOMAIN disk.sessions
  /\ \A c \in Live : s \notin {store.clients[c].session, store.clients[c].pending}
  /\ \A p \in DOMAIN store.panes : store.panes[p].session # s

\* handleBinaryRegister of a new frontend, under a session id of its own; so
\* does a frontend that was cut off, before it reattaches what it had.
Register(c, s) ==
  /\ c = nextId /\ c \in Clients /\ Fresh(s)
  /\ store' = [store EXCEPT !.clients =
                 Put(@, c, [session |-> s, pending |-> NoSession,
                            panes |-> {}, floats |-> {}])]
  /\ nextId' = nextId + 1
  /\ log' = [log EXCEPT ![s] = "none"]
  /\ locks' = [locks EXCEPT ![s] = NoClient]
  /\ UNCHANGED <<disk, pods, restarts>>

\* findStickyPaneWithAffinity: the panes a keyed request may be given.
Candidates ==
  {p \in Keyed \intersect DOMAIN store.panes :
     store.panes[p].state # "orphaned" /\ Alive(p)}

\* create_pane of a pane no existing one serves, up to finishCreatePane.  A
\* client that is gone by then gets no pane: the pod is killed.
CreatePane(c, p) ==
  /\ c \in Live /\ store.clients[c].pending = NoSession
  /\ pods[p] = "new"
  /\ p \in Keyed => Candidates = {}
  /\ store' = Dirty([store EXCEPT
                !.panes = Put(@, p, [state |-> "attached", owner |-> c,
                                     session |-> NoSession, timed |-> FALSE]),
                !.clients[c].panes = @ \union {p}])
  /\ pods' = [pods EXCEPT ![p] = "up"]
  /\ UNCHANGED <<nextId, locks, log, disk, restarts>>

\* syncFloat: the frontend reports a keyed float it shows.
SyncFloat(c, p) ==
  /\ c \in Live /\ p \in Keyed \intersect store.clients[c].panes
  /\ p \notin store.clients[c].floats
  /\ store' = Dirty([store EXCEPT !.clients[c].floats = @ \union {p}])
  /\ UNCHANGED <<nextId, locks, log, disk, pods, restarts>>

\* find_sticky, and create_pane where a keyed pane exists: hand the pane over,
\* out of a detached session or from its owner.  free is claim_free: take only
\* what no live client holds and no session has parked.
TakeSticky(c, p, free) ==
  /\ c \in Live /\ store.clients[c].pending = NoSession
  /\ p \in Candidates /\ store.panes[p].owner # c
  /\ free => store.panes[p].owner \notin Live /\ ~Parked(store, p)
  /\ LET unparked == IF store.panes[p].state = "detached" \/ Parked(store, p)
                       THEN Unparked(store, p) ELSE store
         taken == IF store.panes[p].owner # NoClient THEN Taken(unparked, p) ELSE unparked
     IN store' = Attached(taken, c, p)
  /\ UNCHANGED <<nextId, locks, log, disk, pods, restarts>>

-----------------------------------------------------------------------------
(* Reattaching *)

\* reattachStealAllowed: a client reattaching a session may take back the
\* keyed floats of its record (for 30 s, longer than a frontend tries).
MayReclaim(c, p) ==
  store.clients[c].pending # NoSession /\ p \in store.clients[c].floats

\* attachPane's checks: not someone else's, not parked in a session that is
\* neither c's nor the one it is reattaching.
MayAttach(c, p) ==
  LET r == store.panes[p]
  IN \/ r.owner \notin {NoClient, c} /\ MayReclaim(c, p)
     \/ /\ r.owner = NoClient
        /\ Parked(store, p) =>
             r.session \in {store.clients[c].session, store.clients[c].pending}

\* What a frontend asks to adopt: the panes and floats of the session it is
\* reattaching, or a pane from the list of orphans.
Wanted(c) ==
  LET s == store.clients[c].pending
  IN IF s \in DOMAIN store.detached
       THEN store.detached[s].panes \union store.clients[c].floats
     ELSE IF s # NoSession THEN store.clients[c].floats
     ELSE {p \in DOMAIN store.panes : store.panes[p].state = "orphaned"}

Adoptable(c) == {p \in Wanted(c) \intersect DOMAIN store.panes : MayAttach(c, p)}

\* handleBinaryAdoptPane.
Adopt(c, p) ==
  /\ c \in Live /\ p \in Adoptable(c)
  /\ store' = Attached(IF store.panes[p].owner # NoClient THEN Taken(store, p) ELSE store,
                       c, p)
  /\ UNCHANGED <<nextId, locks, log, disk, pods, restarts>>

\* pruneDetachedSessionPanes: drop from s what has no process any more.
Pruned(T, s) ==
  LET lost == {p \in T.detached[s].panes : p \notin DOMAIN T.panes \/ ~Alive(p)}
      U == Killed([T EXCEPT !.detached[s] = Without(@, lost \ DOMAIN T.panes)], lost)
      stale == {p \in U.detached[s].floats :
                  p \in DOMAIN U.panes => U.panes[p].owner = NoClient /\ ~Alive(p)}
      V == Killed(U, stale)
  IN [V EXCEPT !.detached[s].floats = @ \ stale]

\* acquireSessionLock: a lock older than 5 s does not count.
MayLockAlways(lk, s) == TRUE
MayLock(lk, s) == lk[s] = NoClient \/ "slow" \in Hazards

\* completeReattach on store T and locks lk: log the start, then take the
\* lock or be refused; the client is handed the record, which stays.
CompleteReattach(T, lk, c, s) ==
  /\ log' = [log EXCEPT ![s] = "reattach"]
  /\ \/ /\ MayLock(lk, s)
        /\ locks' = [lk EXCEPT ![s] = c]
        /\ LET U == Pruned(T, s)
           IN store' = [U EXCEPT !.clients[c].pending = s,
                                 !.clients[c].floats = U.detached[s].floats]
     \/ /\ lk[s] # NoClient
        /\ locks' = lk /\ store' = T

\* Panes that left the table had their pod killed.
Reaped ==
  pods' = [p \in Panes |-> IF p \in DOMAIN store.panes \ DOMAIN store'.panes
                             THEN "dead" ELSE pods[p]]

\* handleBinaryReattach of a client that has just registered: a detached
\* session, else one attached elsewhere, which is detached from its owner
\* first (forceDetachAttachedSession) unless a reattach of it is under way.
Reattach(c, s) ==
  /\ c \in Live /\ store.clients[c].pending = NoSession /\ store.clients[c].panes = {}
  /\ \/ s \in DOMAIN store.detached /\ CompleteReattach(store, locks, c, s)
     \/ /\ s \notin DOMAIN store.detached /\ locks[s] = NoClient
        /\ \E o \in Live \ {c} :
             /\ {x \in Live : store.clients[x].session = s} = {o}
             /\ store.clients[o].pending # NoSession => "clash" \in Hazards
             /\ CompleteReattach(Gone(Detached(store, o, s), o), Unlocked(o), c, s)
  /\ Reaped
  /\ UNCHANGED <<nextId, disk, restarts>>

\* handleBinaryRegister of a reattaching client: it is now the session's, the
\* record goes, and so does the lock, whoever holds it.
Commit(c) ==
  /\ c \in Live /\ store.clients[c].pending # NoSession
  /\ Adoptable(c) # {} => "partial" \in Hazards
  /\ LET s == store.clients[c].pending
     IN /\ store' = Removed([store EXCEPT !.clients[c].session = s,
                                          !.clients[c].pending = NoSession], s)
        /\ log' = [log EXCEPT ![s] = "none"]
        /\ locks' = [locks EXCEPT ![s] = NoClient]
  /\ UNCHANGED <<nextId, disk, pods, restarts>>

\* A client's session, saved so that a crash does not lose it.
Holders(T, s) == {c \in DOMAIN T.clients : /\ T.clients[c].session = s
                                           /\ T.clients[c].panes # {}}
Last(C) == CHOOSE c \in C : \A d \in C : d <= c

\* buildStateJson.  Owners and orphaned_at are not saved.  A session without a
\* snapshot is not saved either; a client has one as soon as it has told SES of
\* its first tab or float, which the model takes to be part of making the pane.
Image(T) ==
  [panes |-> [p \in DOMAIN T.panes |-> [state |-> T.panes[p].state,
                                        session |-> T.panes[p].session]],
   sessions |-> [s \in DOMAIN T.detached \union {x \in Sessions : Holders(T, x) # {}} |->
                   IF s \in DOMAIN T.detached THEN T.detached[s]
                   ELSE LET r == T.clients[Last(Holders(T, s))]
                        IN [panes |-> r.panes, floats |-> r.floats]]]

\* persist.save of T, succeeding.
Saved(T) ==
  /\ "full" \notin Hazards
  /\ disk' = Image(T)
  /\ store' = [T EXCEPT !.dirty = FALSE]

-----------------------------------------------------------------------------
(* Letting go *)

\* handleBinaryDetach: refused while the session is locked; saved before the
\* acknowledgement, unless saving fails.
Detach(c) ==
  /\ c \in Live /\ store.clients[c].pending = NoSession
  /\ LET s == store.clients[c].session
     IN /\ MayLock(locks, s)
        /\ locks' = [Unlocked(c) EXCEPT ![s] = NoClient]
        /\ LET left == Gone(Detached(store, c, s), c)
           IN \/ Saved(left)
              \/ {"disk", "full"} \intersect Hazards # {} /\ store' = left /\ UNCHANGED disk
  /\ UNCHANGED <<nextId, log, pods, restarts>>

\* requesterMayReleasePane, for what a frontend would release: its own panes
\* (it rolls adoptions back only when it gives a reattach up), or by a stale
\* view a pane nobody alive holds.
MayRelease(c, p) ==
  /\ c \in Live /\ p \in DOMAIN store.panes
  /\ \/ store.panes[p].owner = c /\ (store.clients[c].pending # NoSession => "abort" \in Hazards)
     \/ store.panes[p].owner \notin Live /\ "stale" \in Hazards

\* handleBinaryOrphanPane / suspendPane.
Suspend(c, p) ==
  /\ MayRelease(c, p)
  /\ store' = [store EXCEPT
                 !.clients = [x \in Live |-> IF x = store.panes[p].owner
                                               THEN Without(@[x], {p}) ELSE @[x]],
                 !.panes[p] = Freed(@, p),
                 !.dirty = TRUE]
  /\ UNCHANGED <<nextId, locks, log, disk, pods, restarts>>

\* handleBinaryKillPane.
KillPane(c, p) ==
  /\ MayRelease(c, p)
  /\ store' = Killed(store, {p})
  /\ Reaped
  /\ UNCHANGED <<nextId, locks, log, disk, restarts>>

\* shutdownClient: what c owns is killed, save the panes of spare, which wait
\* for their key, with no time limit.
Collected(T, c, spare) ==
  LET mine == Mine(T, c)
      kept == mine \intersect spare
  IN Killed([T EXCEPT
               !.panes = [p \in DOMAIN @ |-> IF p \in kept
                            THEN [Freed(@[p], p) EXCEPT !.timed = FALSE] ELSE @[p]]],
            mine \ kept)

NotCancelled(T, c, s) == T

\* cancelPendingReattach: what c adopted so far goes back to the session.
Cancelled(T, c, s) ==
  IF s \notin DOMAIN T.detached THEN T
  ELSE [T EXCEPT
          !.panes = [p \in DOMAIN @ |->
                       IF p \in T.detached[s].panes /\ @[p].owner \in {NoClient, c}
                         THEN [Become(@[p], "detached") EXCEPT !.session = s,
                                                               !.owner = NoClient]
                         ELSE @[p]],
          !.clients[c].pending = NoSession,
          !.dirty = TRUE]

\* detachSessionDirect logs detach_start and, when it is done, detach_commit.
NeverCommitted(s) == [log EXCEPT ![s] = "detach"]
DetachLogged(s) == [log EXCEPT ![s] = "none"]

\* removeClient: the control connection of c is gone.
Lost(c) ==
  /\ c \in Live
  /\ LET r == store.clients[c]
         left == IF r.pending # NoSession THEN Cancelled(store, c, r.pending)
                 ELSE IF r.panes = {} THEN store
                 ELSE Detached(store, c, r.session)
     IN /\ store' = Gone(left, c)
        /\ log' = IF r.pending = NoSession /\ r.panes # {}
                    THEN DetachLogged(r.session) ELSE log
  /\ locks' = Unlocked(c)
  /\ UNCHANGED <<nextId, disk, pods, restarts>>

\* handleBinaryDisconnect, mode shutdown: the user quits.
Shutdown(c, preserve) ==
  /\ c \in Live
  /\ store.clients[c].pending # NoSession => "abort" \in Hazards
  /\ store' = Dirty(Gone(Collected(store, c, IF preserve THEN Keyed ELSE {}), c))
  /\ locks' = Unlocked(c)
  /\ Reaped
  /\ UNCHANGED <<nextId, log, disk, restarts>>

-----------------------------------------------------------------------------
(* Pods, timers and the command line *)

PodDies(p) ==
  /\ pods[p] = "up"
  /\ pods' = [pods EXCEPT ![p] = "dead"]
  /\ UNCHANGED <<store, nextId, locks, log, disk, restarts>>

\* removePodVtFd, or a backlog replay that finds the pod dead.  SES holds no
\* connection to the pod of a detached pane and does not notice.
PodExit(p) ==
  /\ p \in DOMAIN store.panes /\ ~Alive(p)
  /\ store.panes[p].state # "detached"
  /\ store' = Killed(store, {p})
  /\ UNCHANGED <<nextId, locks, log, disk, pods, restarts>>

\* cleanupOrphanedPanes, once p has been idle for orphan_timeout_hours.
Sweep(p) ==
  /\ p \in DOMAIN store.panes
  /\ store.panes[p].state \in {"orphaned", "sticky"} /\ store.panes[p].timed
  /\ ~(p \in Keyed /\ Alive(p))
  /\ store' = Killed(store, {p})
  /\ Reaped
  /\ UNCHANGED <<nextId, locks, log, disk, restarts>>

\* killDetachedSession from the command line, or cleanupExpiredDetachedSessions.
KillSession(s) ==
  /\ s \in DOMAIN store.detached
  /\ store' = Dirty(Killed([store EXCEPT !.detached = Restrict(@, DOMAIN @ \ {s})],
                           store.detached[s].panes))
  /\ Reaped
  /\ UNCHANGED <<nextId, locks, log, disk, restarts>>

\* killAllOrphanedPanes from the command line.
KillOrphans ==
  LET idle == {p \in DOMAIN store.panes : store.panes[p].state \in {"orphaned", "sticky"}}
  IN /\ idle # {}
     /\ store' = Killed(store, idle)
     /\ Reaped
     /\ UNCHANGED <<nextId, locks, log, disk, restarts>>

-----------------------------------------------------------------------------
(* The state file and the transaction log *)

\* persistNow, from the periodic tick.
Save ==
  /\ store.dirty
  /\ Saved(store)
  /\ UNCHANGED <<nextId, locks, log, pods, restarts>>

\* persist.load: the panes whose pod still answers, none of them owned.
Loaded ==
  [panes    |-> [p \in {x \in DOMAIN disk.panes : Alive(x)} |->
                   LET saved == disk.panes[p]
                   IN [state |-> IF saved.state = "attached" THEN Idle(p) ELSE saved.state,
                       owner |-> NoClient, session |-> saved.session, timed |-> TRUE]],
   clients  |-> Nothing,
   detached |-> disk.sessions,
   dirty    |-> FALSE]

\* reconcileRecoveredSessionPanes: stamp the panes a session lists.
Relinked(T) ==
  LET lists(p) == {s \in DOMAIN T.detached : p \in T.detached[s].panes}
      linked == {p \in DOMAIN T.panes : T.panes[p].session = NoSession /\ lists(p) # {}}
  IN [T EXCEPT
        !.panes = [p \in DOMAIN @ |->
                     IF p \in linked
                       THEN [Become(@[p], "detached") EXCEPT
                               !.session = CHOOSE s \in lists(p) : TRUE, !.timed = FALSE]
                       ELSE @[p]],
        !.dirty = @ \/ linked # {}]

\* recoverFromTransactionLog: a session whose detach was not committed loses
\* its record, and panes still stamped with it are orphaned; one whose reattach
\* was not committed stays as it is.
HalfReattached(lg) == {s \in Sessions : lg[s] # "none"}
HalfDone(lg) == {s \in Sessions : lg[s] = "detach"}
RolledBack(T, lg) ==
  LET half == HalfDone(lg)
      listed == UNION {T.detached[s].panes : s \in half \intersect DOMAIN T.detached}
  IN [T EXCEPT
        !.panes = [p \in DOMAIN @ |->
                     IF p \in listed THEN [@[p] EXCEPT !.session = NoSession]
                     ELSE IF @[p].session \in half
                       THEN [Become(@[p], "orphaned") EXCEPT !.session = NoSession]
                     ELSE @[p]],
        !.detached = Restrict(@, DOMAIN @ \ half),
        !.dirty = @ \/ lg # NoLog]

\* cleanupDetachedSessions: sessions without a live pane are dropped.
Swept(T) ==
  LET dead == {s \in DOMAIN T.detached :
                 \A p \in T.detached[s].panes : p \notin DOMAIN T.panes}
  IN [T EXCEPT !.detached = Restrict(@, DOMAIN @ \ dead), !.dirty = @ \/ dead # {}]

\* The daemon dies, perhaps in the middle of a detach, and is started again.
Restart ==
  /\ restarts < MaxRestarts
  /\ restarts' = restarts + 1
  /\ \E lg \in {log} \union
               {[log EXCEPT ![store.clients[c].session] = "detach"] :
                  c \in {x \in Live : "midcrash" \in Hazards}} :
       store' = Swept(RolledBack(Relinked(Loaded), lg))
  /\ nextId' = 1
  /\ locks' = NoLocks
  /\ log' = NoLog
  /\ UNCHANGED <<disk, pods>>

-----------------------------------------------------------------------------
Next ==
  \/ \E c \in Clients :
       \/ \E s \in Sessions : Register(c, s) \/ Reattach(c, s)
       \/ \E p \in Panes : \/ CreatePane(c, p) \/ SyncFloat(c, p) \/ Adopt(c, p)
                           \/ Suspend(c, p) \/ KillPane(c, p)
                           \/ \E free \in BOOLEAN : TakeSticky(c, p, free)
       \/ Commit(c) \/ Detach(c) \/ Lost(c)
       \/ \E preserve \in BOOLEAN : Shutdown(c, preserve)
  \/ \E p \in Panes : PodDies(p) \/ PodExit(p) \/ Sweep(p)
  \/ \E s \in Sessions : KillSession(s)
  \/ KillOrphans \/ Save \/ Restart

Spec == Init /\ [][Next]_vars

-----------------------------------------------------------------------------
(* Properties *)

Maps(f, S, T) == DOMAIN f \subseteq S /\ \A x \in DOMAIN f : f[x] \in T

TypeOK ==
  /\ Maps(store.panes, Panes, Pane)
  /\ Maps(store.clients, Clients, Client)
  /\ Maps(store.detached, Sessions, Parking)
  /\ store.dirty \in BOOLEAN
  /\ nextId \in 1 .. MaxClients + 1
  /\ locks \in [Sessions -> Clients \union {NoClient}]
  /\ log \in [Sessions -> {"none", "reattach"}]
  /\ Maps(disk.panes, Panes, [state : States, session : Sessions \union {NoSession}])
  /\ Maps(disk.sessions, Sessions, Parking)
  /\ pods \in [Panes -> {"new", "up", "dead"}]
  /\ restarts \in 0 .. MaxRestarts

Owned(c) == {p \in DOMAIN store.panes : store.panes[p].owner = c}

\* A client's list of panes names the panes it owns, no more and no less,
\* whoever steals, adopts, orphans or kills what: attachPane, stealAttachedPane
\* and killPane keep the two tables in step.
ListsAgree == \A c \in Live : store.clients[c].panes = Owned(c)

\* A pane is in state "attached" exactly while it has an owner, although an
\* invalid transition is ignored and the owner is set next to it.
StateMatchesOwner ==
  \A p \in DOMAIN store.panes :
    (store.panes[p].state = "attached") <=> (store.panes[p].owner # NoClient)

\* Two clients never hold one session: attaching to an attached session throws
\* the other frontend out, and the lock keeps racing reattaches apart.
OneClientPerSession ==
  \A c, d \in Live : store.clients[c].session = store.clients[d].session => c = d

\* A session is locked exactly while some client is reattaching it, by that
\* client: no path that removes or commits a client leaves a lock behind, which
\* would block every later attach, and no two clients reattach one session.
ReattachIsExclusive ==
  /\ \A s \in Sessions : locks[s] # NoClient =>
       locks[s] \in Live /\ store.clients[locks[s]].pending = s
  /\ \A c \in Live : store.clients[c].pending # NoSession =>
       locks[store.clients[c].pending] = c

\* A session is detached or held by a client, never both: no frontend works in
\* a session that another may reattach without stealing it.
NotHeldTwice ==
  \A s \in DOMAIN store.detached : \A c \in Live : store.clients[c].session # s

\* A frontend that detaches, is cut off, or has its session stolen, leaves every
\* pane it owned parked in its session for the next one: only a user who quits
\* takes a running pane along.
LeavingParks ==
  [][\A c \in Live \ DOMAIN store'.clients :
       \/ \E preserve \in BOOLEAN : Shutdown(c, preserve)
       \/ restarts' # restarts
       \/ store.clients[c].pending # NoSession
       \/ \A p \in Owned(c) : Alive(p) =>
            p \in DOMAIN store'.panes /\ Parked(store', p)
            /\ store'.panes[p].session = store.clients[c].session]_vars

\* Of what a client adopted before it died only a shared float can stay with it,
\* one that is parked in no session (it came by the snapshot, see NoGhostOwner):
\* whoever goes, robbed or lost in the middle of a reattach, with its session
\* killed meanwhile or not, every other pane is free again (cancelPendingReattach,
\* detachSession).
GhostsAreFloats ==
  \A p \in DOMAIN store.panes :
    \/ store.panes[p].owner \in Live \union {NoClient}
    \/ p \in Keyed /\ ~Parked(store, p)

\* No pane is owned by a client that is gone: such a pane is not swept, nor up
\* for adoption but by its key.  Every way of removing a client is to park or
\* kill what it owned (removeClient, cancelPendingReattach).
NoGhostOwner == \A p \in DOMAIN store.panes : store.panes[p].owner \in Live \union {NoClient}

\* A pane parked in a session and owned by nobody is in state "detached", so
\* that neither the sweep of orphans nor kill-orphans takes it; after a restart
\* reconcileRecoveredSessionPanes is to see to that.
ParkedIsDetached ==
  \A p \in DOMAIN store.panes : \A s \in DOMAIN store.detached :
    p \in store.detached[s].panes /\ store.panes[p].owner = NoClient =>
      store.panes[p].state = "detached"

\* The living panes that a restart from image img could give back to session s.
Surviving(img, s) ==
  IF s \notin DOMAIN img.sessions THEN {}
  ELSE {p \in img.sessions[s].panes \intersect DOMAIN img.panes : Alive(p)}

\* While nothing is marked dirty, every living pane of a session is named by a
\* session of the state file: no handler that changes who holds a pane forgets
\* to mark the store dirty.
CleanMeansSaved ==
  ~store.dirty => UNION {Surviving(Image(store), s) : s \in Sessions}
                    \subseteq UNION {Surviving(disk, s) : s \in Sessions}

\* A crash and restart gives every session of the state file its living panes
\* back, also when it was being reattached: an unfinished reattach is not undone.
RestartKeepsSessions ==
  [][Restart => \A s \in Sessions : Surviving(disk, s) \subseteq Surviving(Image(store'), s)]_vars
=============================================================================
