--------------------------- MODULE SesConnections ---------------------------
(***************************************************************************)
(* What the session daemon (SES) keeps under the number of a descriptor,   *)
(* while the kernel gives the same number to one connection after another. *)
(*                                                                         *)
(* Watchers, half-read frames, unsent replies, clients, waiters and closes *)
(* yet to be made are all found by number.  A connection is closed in one  *)
(* of two ways: at once, and then its number is noted; or by an entry in a *)
(* list, worked off at the start of the next turn of the event loop, which *)
(* skips the numbers noted in the last two turns.  Closed at once, a       *)
(* number is free for the next connection accepted in the same turn.       *)
(*                                                                         *)
(* A turn is Turn, then one step for each entry of the two lists, then any *)
(* number of handlers: a connection accepted, an event of a watcher, the   *)
(* 100 ms tick.  A watcher fires once in a turn at most, and not in the    *)
(* turn that armed it.  Connections are numbered as they come; the number  *)
(* is a ghost by which the properties tell two users of one descriptor     *)
(* apart, SES never sees it.                                               *)
(*                                                                         *)
(* Left out: connections whose handshake arrives in pieces, the uplinks of *)
(* pods (closed like frontends that never register), the queues of the VT  *)
(* channels (dropped where the reply queue is), pauses for back pressure,  *)
(* popups (their one waiter is closed at once), running out of memory.     *)
(***************************************************************************)
EXTENDS Naturals, Sequences, SequencesExt, FiniteSets, FiniteSetsExt

CONSTANTS
  Panes,
  MaxFd,      \* bound: descriptors that are ever open at once
  MaxConns,   \* bound: connections that are ever made
  Requests,   \* how CLI requests end, see RequestKinds
  Faults      \* see FaultKinds

\* "at once": answered and closed in the handler, like notify or kill_session
\* "listed":  answered in the handler, closed by the list, like status
\* "parked":  answered when a frontend answers it, like exit_intent
RequestKinds == {"at once", "listed", "parked"}

\* "gone":    a reply fails, the peer has hung up; but see "refused"
\* "slow":    a frontend does not read, replies to it stay queued; nor does a
\*            pod, the queue of keys to it overflows
\* "long":    a reply to a CLI request does not fit the socket
\* "limit":   a connection is turned away because there are too many
\* "refused": the reply to one turned away fails, its peer has hung up
\* "brief":   a pane is killed or parked in the turn its pod was dialled
\* "quick":   a VT connection breaks while its number is still noted
\* "late":    the watcher of a pod's closed connection fires when its number
\*            has been dialled anew in the same turn
\* "reused":  a number listed for closing as a VT connection is closed at once
\*            and is one again in the same turn
FaultKinds ==
  {"gone", "slow", "long", "limit", "refused", "brief", "quick", "late", "reused"}

ASSUME ConnectionAssumption ==
  /\ MaxFd \in Nat \ {0}
  /\ MaxConns \in Nat \ {0}
  /\ Requests \subseteq RequestKinds
  /\ Faults \subseteq FaultKinds

Fds == 1 .. MaxFd
None == 0
Conns == 1 .. MaxConns

VARIABLES
  ses,      \* the tables, as one record: handlers are functions of it
  next,     \* the number the next connection gets
  polls,    \* watchers whose poll is with the kernel
  ready,    \* what may still fire in this turn: watchers, and the ticker
  closing,  \* the list of closes that is being worked off, if any
  todo,     \* its entries that are still to come
  skipped   \* a history: watchers disarmed by an entry that is then skipped

vars == <<ses, next, polls, ready, closing, todo, skipped>>

Watchers == {"ctl", "vt"} \X Conns
Ticker == <<"tick", None>>
Entry == [fd : Fds, node : Conns \union {None}, whose : Conns \union {None}]
Client == [ctl : Fds, vt : Fds \union {None},
           who : Conns, vtWho : Conns \union {None}]
Waiter == [fd : Fds, owner : Fds, whose : Conns]
Harms == {"foreign close", "crossed bytes", "spliced frame", "overtaken"}

Store == [
  open : [Fds -> Conns \union {None}],      \* the kernel's table
  ctlWatch : [Fds -> Conns \union {None}],  \* ctl_watchers, vt_watchers
  vtWatch : [Fds -> Conns \union {None}],
  ctlHalf : [Fds -> SUBSET Conns],          \* ctl_readers, vt_readers
  vtHalf : [Fds -> SUBSET Conns],
  outq : [Fds -> SUBSET Conns],             \* ctl_out_queues
  unregistered : SUBSET Fds,                \* ctl_unregistered_since
  ctlClose : Seq(Entry), vtClose : Seq(Entry),
  noted : SUBSET Fds, notedBefore : SUBSET Fds,
  toRemove : SUBSET Fds, toAdd : SUBSET Fds,
  clients : SUBSET Client,
  waiters : SUBSET Waiter,
  pod : [Panes -> Fds \union {None}], podWho : [Panes -> Conns \union {None}],
  harm : SUBSET Harms]                      \* a history, see the invariants

Init ==
  /\ ses = [open |-> [f \in Fds |-> None],
            ctlWatch |-> [f \in Fds |-> None], vtWatch |-> [f \in Fds |-> None],
            ctlHalf |-> [f \in Fds |-> {}], vtHalf |-> [f \in Fds |-> {}],
            outq |-> [f \in Fds |-> {}], unregistered |-> {},
            ctlClose |-> <<>>, vtClose |-> <<>>,
            noted |-> {}, notedBefore |-> {}, toRemove |-> {}, toAdd |-> {},
            clients |-> {}, waiters |-> {},
            pod |-> [p \in Panes |-> None], podWho |-> [p \in Panes |-> None],
            harm |-> {}]
  /\ next = 1
  /\ polls = {}
  /\ ready = {}
  /\ closing = "none"
  /\ todo = <<>>
  /\ skipped = {}
-----------------------------------------------------------------------------
(* Closing.                                                                *)

NotNoted(s, fds) == s

\* noteClosedFd
Noted(s, fds) == [s EXCEPT !.noted = s.noted \union fds]

Closed(s, fds) ==
  [s EXCEPT !.open = [f \in Fds |-> IF f \in fds THEN None ELSE s.open[f]]]

ClosedAtOnce(s, fds) == Closed(Noted(s, fds), fds)

\* closedFdNoted
IsNoted(s, f) == f \in s.noted \union s.notedBefore

ListedAgain(list, e) == Append(list, e)

Listed(list, e) == IF \E x \in Range(list) : x.fd = e.fd THEN list ELSE Append(list, e)

EntryOf(s, f, node) ==
  [fd |-> f, node |-> node, whose |-> IF node = None THEN s.open[f] ELSE node]

\* queueCtlClose, queueVtClose: one entry for a number.
CtlListed(s, f, node) ==
  [s EXCEPT !.ctlClose = Listed(s.ctlClose, EntryOf(s, f, node))]
VtListed(s, f, node) ==
  [s EXCEPT !.vtClose = Listed(s.vtClose, EntryOf(s, f, node))]

\* The same for several numbers, in the order of a hash table.
AllListed(s, fds) ==
  LET new == {f \in fds : \A x \in Range(s.ctlClose) : x.fd # f}
  IN [s EXCEPT !.ctlClose = s.ctlClose \o SetToSeq({EntryOf(s, f, None) : f \in new})]

CtlDroppedHalf(s, f) ==
  [s EXCEPT !.ctlHalf[f] = {}, !.unregistered = s.unregistered \ {f}]

\* dropCtlReader, dropVtReader
CtlDropped(s, f) ==
  [s EXCEPT !.ctlHalf[f] = {}, !.outq[f] = {}, !.unregistered = s.unregistered \ {f}]
VtDropped(s, f) == [s EXCEPT !.vtHalf[f] = {}]

\* disarmCtlWatcher, disarmVtWatcher
CtlDisarmed(s, f) == [s EXCEPT !.ctlWatch[f] = None]
VtDisarmed(s, f) == [s EXCEPT !.vtWatch[f] = None]

ReleasedUnlisted(s, f) == [s EXCEPT !.waiters = {w \in s.waiters : w.owner # f}]

\* releasePendingCliWaiters: those who wait for a frontend that has gone are
\* answered and listed for closing.
Released(s, f) ==
  LET mine == {w \in s.waiters : w.owner = f}
  IN AllListed([s EXCEPT !.waiters = s.waiters \ mine], {w.fd : w \in mine})

\* purgeMuxFdState
CtlPurged(s, f) == CtlDisarmed(CtlDropped(Released(s, f), f), f)
VtPurged(s, f) == IF f = None THEN s ELSE VtDisarmed(VtDropped(s, f), f)
Purged(s, c) == VtPurged(CtlPurged(s, c.ctl), c.vt)

\* killPane, detachSession: the connection to the pod goes at once, its
\* watcher and reader when the list of removals is next drained.
PodsClosed(s, ps) ==
  LET fds == {s.pod[p] : p \in ps} \ {None}
  IN [ClosedAtOnce(s, fds) EXCEPT
        !.toRemove = s.toRemove \union fds,
        !.pod = [p \in Panes |-> IF p \in ps THEN None ELSE s.pod[p]],
        !.podWho = [p \in Panes |-> IF p \in ps THEN None ELSE s.podWho[p]]]

\* closeClientFds
ClientClosed(s, c) ==
  [ClosedAtOnce(s, {c.ctl, c.vt} \ {None}) EXCEPT !.clients = s.clients \ {c}]

\* removeClient, detachSession and the like: the panes in parked lose their
\* pods' connections, then the client's descriptors are closed.
Removed(s, c, parked) == ClientClosed(PodsClosed(Purged(s, c), parked), c)

\* Panes whose pod's connection can be closed now, killed or parked.
Parkable(s) ==
  {p \in Panes : s.pod[p] # None /\ ("brief" \in Faults \/ s.pod[p] \notin s.toAdd)}
-----------------------------------------------------------------------------
(* One turn of the event loop, before it waits.                            *)

DisarmedOnly(s) ==
  [s EXCEPT
    !.ctlWatch = [f \in Fds |-> IF f \in s.toRemove THEN None ELSE s.ctlWatch[f]],
    !.vtWatch = [f \in Fds |-> IF f \in s.toRemove THEN None ELSE s.vtWatch[f]],
    !.toRemove = {}]

\* processPendingWatcherUpdates: removals first, then additions.
Disarmed(s) ==
  [s EXCEPT
    !.ctlWatch = [f \in Fds |-> IF f \in s.toRemove THEN None ELSE s.ctlWatch[f]],
    !.vtWatch = [f \in Fds |-> IF f \in s.toRemove THEN None ELSE s.vtWatch[f]],
    !.ctlHalf = [f \in Fds |-> IF f \in s.toRemove THEN {} ELSE s.ctlHalf[f]],
    !.vtHalf = [f \in Fds |-> IF f \in s.toRemove THEN {} ELSE s.vtHalf[f]],
    !.outq = [f \in Fds |-> IF f \in s.toRemove THEN {} ELSE s.outq[f]],
    !.unregistered = s.unregistered \ s.toRemove,
    !.toRemove = {}]

Armed(s) ==
  [s EXCEPT
    !.vtWatch = [f \in Fds |-> IF f \in s.toAdd /\ s.vtWatch[f] = None
                               THEN s.open[f] ELSE s.vtWatch[f]],
    !.pod = [p \in Panes |-> IF s.pod[p] \in s.toAdd /\ s.open[s.pod[p]] = None
                             THEN None ELSE s.pod[p]],
    !.toAdd = {}]

Updated(s) == Armed(Disarmed(s))

Harmed(s, what, happened) ==
  IF happened THEN [s EXCEPT !.harm = s.harm \union {what}] ELSE s

\* What a write to f sends first: the bytes that are queued under f.
Flushed(s, f) ==
  [Harmed(s, "crossed bytes", s.outq[f] \ {s.open[f]} # {}) EXCEPT !.outq[f] = {}]

ClientAt(s, f) == {c \in s.clients : c.ctl = f}

\* What processPendingCtlCloses does about a number that is not noted.
\* parked: the panes whose connection goes with a client that is lost.
CtlGone(s, f, parked) ==
  LET t == Released(CtlDropped(Flushed(s, f), f), f)
  IN IF ClientAt(t, f) = {} THEN Closed(t, {f})
     ELSE Removed(t, CHOOSE c \in ClientAt(t, f) : TRUE, parked)

\* An entry made by a watcher counts while the watcher is the one in place.
\* The watcher is disarmed before the note is looked at.
CtlEntryDone(s, e, parked) ==
  IF e.node # None /\ s.ctlWatch[e.fd] # e.node THEN s
  ELSE
    LET t == CtlDisarmed(s, e.fd)
    IN IF IsNoted(s, e.fd) THEN t
       ELSE CtlGone(Harmed(t, "foreign close", e.whose # s.open[e.fd]), e.fd, parked)

\* removePodVtFd, removeMuxVtFd
VtForgotten(s, f) ==
  [s EXCEPT
     !.pod = [p \in Panes |-> IF s.pod[p] = f THEN None ELSE s.pod[p]],
     !.podWho = [p \in Panes |-> IF s.pod[p] = f THEN None ELSE s.podWho[p]],
     !.clients = {IF c.vt = f THEN [c EXCEPT !.vt = None, !.vtWho = None] ELSE c :
                  c \in s.clients}]

\* What processPendingVtCloses does about a number that is not noted.
VtGone(s, f) == Closed(VtDropped(VtForgotten(s, f), f), {f})

\* processPendingVtCloses
VtEntryDone(s, e) ==
  IF e.node # None /\ s.vtWatch[e.fd] # e.node THEN s
  ELSE
    LET t == VtDisarmed(s, e.fd)
    IN IF IsNoted(s, e.fd) THEN t
       ELSE VtGone(Harmed(t, "foreign close", e.whose # s.open[e.fd]), e.fd)

Rotated(s) == [s EXCEPT !.notedBefore = s.noted, !.noted = {}]

Watched(s) ==
  {<<"ctl", s.ctlWatch[f]>> : f \in Fds} \union {<<"vt", s.vtWatch[f]>> : f \in Fds}

\* Watchers armed by the step from s to t start to poll; of those that were
\* replaced nothing more is heard.
Polling(s, t, ended) ==
  (((polls \intersect Watched(t)) \union (Watched(t) \ Watched(s))) \ ended)
    \intersect Watchers

\* The step of a handler to t, after which the watchers in ended poll no more
\* and those in spent have fired.
Becomes(t, ended, spent) ==
  /\ ses' = t
  /\ polls' = Polling(ses, t, ended)
  /\ ready' = (ready \ (ended \union spent)) \intersect (Watched(t) \union {Ticker})
  /\ UNCHANGED <<closing, todo, skipped>>

\* A turn begins.  Until the lists are worked off nothing fires.
Turn ==
  /\ closing = "none"
  /\ ses' = Updated(ses)
  /\ polls' = Polling(ses, ses', {})
  /\ ready' = {}
  /\ closing' = "ctl"
  /\ todo' = ses.ctlClose
  /\ UNCHANGED <<next, skipped>>

\* The watcher that entry e disarms although its number is noted.
SkippedBy(kind, watch, e) ==
  {w \in Watchers : /\ w = <<kind, watch[e.fd]>>
                    /\ e.node \in {None, w[2]}
                    /\ IsNoted(ses, e.fd)}

CtlClose ==
  /\ closing = "ctl"
  /\ todo # <<>>
  /\ \E parked \in SUBSET Panes : ses' = CtlEntryDone(ses, Head(todo), parked)
  /\ skipped' = skipped \union SkippedBy("ctl", ses.ctlWatch, Head(todo))
  /\ polls' = Polling(ses, ses', {})
  /\ todo' = Tail(todo)
  /\ UNCHANGED <<next, ready, closing>>

\* What releasing waiters has added to the list meanwhile is lost: the loop
\* runs over the entries there were, and then empties the list.
CtlClosesDone ==
  /\ closing = "ctl"
  /\ todo = <<>>
  /\ ses' = [ses EXCEPT !.ctlClose = <<>>]
  /\ closing' = "vt"
  /\ todo' = ses.vtClose
  /\ UNCHANGED <<next, polls, ready, skipped>>

VtClose ==
  /\ closing = "vt"
  /\ todo # <<>>
  /\ ses' = VtEntryDone(ses, Head(todo))
  /\ skipped' = skipped \union SkippedBy("vt", ses.vtWatch, Head(todo))
  /\ polls' = Polling(ses, ses', {})
  /\ todo' = Tail(todo)
  /\ UNCHANGED <<next, ready, closing>>

\* The loop waits: what polls may fire.
VtClosesDone ==
  /\ closing = "vt"
  /\ todo = <<>>
  /\ ses' = Rotated([ses EXCEPT !.vtClose = <<>>])
  /\ ready' = polls \union {Ticker}
  /\ closing' = "none"
  /\ UNCHANGED <<next, polls, todo, skipped>>
-----------------------------------------------------------------------------
(* Connections come.                                                       *)

LowestFree(s) == Min({f \in Fds : s.open[f] = None})

MayListenAt(s, f) == "reused" \in Faults \/ \A e \in Range(s.vtClose) : e.fd # f

CanOpen(s) == closing = "none" /\ next \in Conns /\ \E f \in Fds : s.open[f] = None

Opened(s, c) == [s EXCEPT !.open[LowestFree(s)] = c]

AcceptedLate(s) == Opened(s, next)

\* dispatchNewConnection drains the lists of watchers before it does anything
\* under the number the connection got.
Accepted(s) == Updated(Opened(s, next))

\* A reply to f goes behind what is queued for it (writeCtlBytes); one that
\* fails lists f for closing (sendCtlFrame).
Replied(s, f, outcome) ==
  CASE outcome = "fails" -> CtlListed(s, f, None)
    [] outcome = "stays" -> [s EXCEPT !.outq[f] = s.outq[f] \union {s.open[f]}]
    [] OTHER -> IF s.outq[f] = {} THEN s ELSE [s EXCEPT !.outq[f] = s.outq[f] \union {s.open[f]}]

CliOutcomes ==
  {"sent"} \union (IF "gone" \in Faults THEN {"fails"} ELSE {})
           \union (IF "long" \in Faults THEN {"stays"} ELSE {})
RefusalOutcomes ==
  {"sent"} \union (IF "refused" \in Faults THEN {"fails"} ELSE {})
           \union (IF "long" \in Faults THEN {"stays"} ELSE {})
CtlOutcomes ==
  {"sent"} \union (IF "gone" \in Faults THEN {"fails"} ELSE {})
           \union (IF "slow" \in Faults THEN {"stays"} ELSE {})

\* Turned away: the reply may fail or stay, and the close is not noted.
TurnAway ==
  /\ CanOpen(ses)
  /\ "limit" \in Faults
  /\ LET f == LowestFree(ses) IN
     \E o \in RefusalOutcomes : Becomes(Closed(Replied(Accepted(ses), f, o), {f}), {}, {})
  /\ next' = next + 1

AnsweredAtOnce(t, f) ==
  \E o \in CliOutcomes : Becomes(ClosedAtOnce(Replied(t, f, o), {f}), {}, {})

\* notify; kill_session, kill_target: the frontend is told, its client removed.
CliAtOnce ==
  /\ CanOpen(ses)
  /\ "at once" \in Requests
  /\ LET f == LowestFree(ses)
         s == Accepted(ses)
     IN \/ AnsweredAtOnce(s, f)
        \/ \E c \in s.clients, parked \in SUBSET Parkable(s) :
             AnsweredAtOnce(Removed(s, c, parked), f)
  /\ next' = next + 1

CliListed ==
  /\ CanOpen(ses)
  /\ "listed" \in Requests
  /\ LET f == LowestFree(ses) IN
     \E o \in CliOutcomes :
       Becomes(CtlListed(Replied(Accepted(ses), f, o), f, None), {}, {})
  /\ next' = next + 1

\* exit_intent, float_request: passed on to the frontend by a write of its own,
\* which does not look at what is queued for it.
CliParked ==
  /\ CanOpen(ses)
  /\ "parked" \in Requests
  /\ LET f == LowestFree(ses)
         s == Accepted(ses)
     IN \E c \in s.clients :
          Becomes([Harmed(s, "overtaken", s.outq[c.ctl] # {}) EXCEPT
                     !.waiters = s.waiters \union {[fd |-> f, owner |-> c.ctl, whose |-> next]}],
                  {}, {})
  /\ next' = next + 1

FrontendCtl ==
  /\ CanOpen(ses)
  /\ LET f == LowestFree(ses)
         s == Accepted(ses)
     IN Becomes([s EXCEPT
                   !.ctlWatch[f] = IF s.ctlWatch[f] = None THEN next ELSE s.ctlWatch[f],
                   !.unregistered = s.unregistered \union {f}], {}, {})
  /\ next' = next + 1

FrontendVt ==
  /\ CanOpen(ses)
  /\ LET f == LowestFree(ses)
         s == Accepted(ses)
     IN \E c \in s.clients :
          /\ MayListenAt(s, f)
          /\ LET t == IF c.vt = None THEN s ELSE VtListed(s, c.vt, None)
             IN Becomes([t EXCEPT
                  !.clients = (t.clients \ {c}) \union {[c EXCEPT !.vt = f, !.vtWho = next]},
                  !.vtWatch[f] = IF t.vtWatch[f] = None THEN next ELSE t.vtWatch[f]], {}, {})
  /\ next' = next + 1
-----------------------------------------------------------------------------
(* A watcher fires.  Reading goes on from the half frame kept under f, and *)
(* fails if f is closed: the watcher of a pod's old connection stays until *)
(* the list of removals is drained.                                        *)

CtlReadOn(s, f) ==
  [Harmed(s, "spliced frame", s.ctlHalf[f] \ {s.open[f]} # {}) EXCEPT !.ctlHalf[f] = {}]
VtReadOn(s, f) ==
  [Harmed(s, "spliced frame", s.vtHalf[f] \ {s.open[f]} # {}) EXCEPT !.vtHalf[f] = {}]

CtlFires(f) == ses.ctlWatch[f] # None /\ <<"ctl", ses.ctlWatch[f]>> \in ready

CtlHalf(f) ==
  /\ CtlFires(f)
  /\ LET n == <<"ctl", ses.ctlWatch[f]>>
     IN Becomes([CtlReadOn(ses, f) EXCEPT !.ctlHalf[f] = {ses.open[f]}],
                {}, {n})
  /\ UNCHANGED next

CtlHangup(f) ==
  /\ CtlFires(f)
  /\ LET n == <<"ctl", ses.ctlWatch[f]>>
     IN Becomes(CtlListed(ses, f, n[2]), {n}, {n})
  /\ UNCHANGED next

\* Any request that touches no other descriptor.  The first is register.
CtlRequest(f) ==
  /\ CtlFires(f)
  /\ LET n == <<"ctl", ses.ctlWatch[f]>>
         s == CtlReadOn(ses, f)
         t == IF ClientAt(s, f) # {} THEN s
              ELSE [s EXCEPT !.clients = s.clients \union
                      {[ctl |-> f, vt |-> None, who |-> s.open[f], vtWho |-> None]}]
     IN \E o \in CtlOutcomes : Becomes(Replied(t, f, o), {}, {n})
  /\ UNCHANGED next

\* detach: answered, then both descriptors go (closeDetachedMuxFds).
CtlDetach(f) ==
  /\ CtlFires(f)
  /\ LET n == <<"ctl", ses.ctlWatch[f]>>
         s == CtlReadOn(ses, f)
     IN \E c \in ClientAt(s, f), parked \in SUBSET Parkable(s), o \in CtlOutcomes :
          Becomes(Removed(Replied(s, f, o), c, parked), {n}, {n})
  /\ UNCHANGED next

\* disconnect: the same, but the watcher then lists the number it fired for.
CtlDisconnect(f) ==
  /\ CtlFires(f)
  /\ LET n == <<"ctl", ses.ctlWatch[f]>>
         s == CtlReadOn(ses, f)
     IN \E c \in ClientAt(s, f), parked \in SUBSET Parkable(s), o \in CtlOutcomes :
          Becomes(CtlListed(Removed(Replied(s, f, o), c, parked), f, n[2]), {n}, {n})
  /\ UNCHANGED next

\* reattach by force: the session is taken from another client
\* (forceDetachWithPurge).
CtlSteal(f) ==
  /\ CtlFires(f)
  /\ LET n == <<"ctl", ses.ctlWatch[f]>>
         s == CtlReadOn(ses, f)
     IN \E c \in ClientAt(s, f), d \in s.clients, parked \in SUBSET Parkable(s),
           o \in CtlOutcomes :
          /\ d # c
          /\ Becomes(Replied(Removed(s, d, parked), f, o), {}, {n})
  /\ UNCHANGED next

CtlKill(f) ==
  /\ CtlFires(f)
  /\ LET n == <<"ctl", ses.ctlWatch[f]>>
         s == CtlReadOn(ses, f)
     IN \E c \in ClientAt(s, f), p \in Parkable(s), o \in CtlOutcomes :
          Becomes(Replied(PodsClosed(s, {p}), f, o), {}, {n})
  /\ UNCHANGED next

\* exit_intent_result, float_result
CtlAnswer(f) ==
  /\ CtlFires(f)
  /\ LET n == <<"ctl", ses.ctlWatch[f]>>
         s == CtlReadOn(ses, f)
     IN \E w \in s.waiters, o \in CliOutcomes :
          /\ w.owner = f
          /\ Becomes(CtlListed(Replied([s EXCEPT !.waiters = s.waiters \ {w}], w.fd, o), w.fd, None),
                     {}, {n})
  /\ UNCHANGED next

VtFires(f) ==
  /\ ses.vtWatch[f] # None
  /\ <<"vt", ses.vtWatch[f]>> \in ready
  /\ "late" \in Faults \/ ses.open[f] \in {None, ses.vtWatch[f]}

MayBreak(f) == "quick" \in Faults \/ ~IsNoted(ses, f)

\* Frames of a frontend go to pods, frames of a pod to frontends.
RoutedTo(s, f) ==
  {g \in Fds : \E c \in s.clients, p \in Panes : {c.vt, s.pod[p]} = {f, g}}

\* A number that cannot be written is listed.  A frontend's queue that is full
\* only loses the frame, a pod's lists the pod.
GivesUp(s, g) ==
  /\ "gone" \in Faults \/ ("slow" \in Faults /\ \E p \in Panes : s.pod[p] = g)
  /\ MayBreak(g)

VtRead(f) ==
  /\ VtFires(f)
  /\ ses.open[f] # None
  /\ LET n == <<"vt", ses.vtWatch[f]>>
         s == VtReadOn(ses, f)
     IN \/ Becomes(s, {}, {n})
        \/ Becomes([s EXCEPT !.vtHalf[f] = {s.open[f]}], {}, {n})
        \/ \E g \in RoutedTo(s, f) :
             GivesUp(s, g) /\ Becomes(VtListed(s, g, None), {}, {n})
  /\ UNCHANGED next

VtHangup(f) ==
  /\ VtFires(f)
  /\ MayBreak(f)
  /\ LET n == <<"vt", ses.vtWatch[f]>>
     IN Becomes(VtListed(ses, f, n[2]), {n}, {n})
  /\ UNCHANGED next
-----------------------------------------------------------------------------
(* The tick: frontends that never registered are listed, the queues are    *)
(* flushed, and a pod whose backlog is wanted is dialled.  late: those that *)
(* have had their time, which is longer than a number stays noted.         *)

Reaped(s, late) ==
  AllListed([s EXCEPT !.unregistered =
               (s.unregistered \ late) \ {f \in Fds : ClientAt(s, f) # {}}],
            {f \in late : ClientAt(s, f) = {}})

FlushedAll(s) ==
  LET queued == {f \in Fds : s.outq[f] # {}}
      live == {f \in queued : s.open[f] # None}
      t == Harmed(s, "crossed bytes", \E f \in live : s.outq[f] \ {s.open[f]} # {})
  IN AllListed([t EXCEPT !.outq = [f \in Fds |-> IF f \in live THEN {} ELSE s.outq[f]]],
               queued \ live)

\* connectPodVt: the new connection is made before the old one is closed.
Dialled(s, p, c) ==
  LET f == LowestFree(s)
      t == PodsClosed(Opened(s, c), {p})
  IN [t EXCEPT !.pod[p] = f, !.podWho[p] = c, !.toAdd = t.toAdd \union {f}]

Tick ==
  /\ Ticker \in ready
  /\ \E late \in SUBSET {f \in ses.unregistered : ~IsNoted(ses, f)}, flush \in BOOLEAN :
       LET s == Reaped(ses, late)
           t == IF flush THEN FlushedAll(s) ELSE s
       IN \/ Becomes(t, {}, {Ticker}) /\ UNCHANGED next
          \/ \E p \in Panes :
               /\ CanOpen(t)
               /\ MayListenAt(t, LowestFree(t))
               /\ Becomes(Dialled(t, p, next), {}, {Ticker})
               /\ next' = next + 1

Next ==
  \/ Turn \/ CtlClose \/ CtlClosesDone \/ VtClose \/ VtClosesDone
  \/ TurnAway \/ CliAtOnce \/ CliListed \/ CliParked \/ FrontendCtl \/ FrontendVt
  \/ \E f \in Fds :
       \/ CtlHalf(f) \/ CtlHangup(f) \/ CtlRequest(f) \/ CtlDetach(f)
       \/ CtlDisconnect(f) \/ CtlSteal(f) \/ CtlKill(f) \/ CtlAnswer(f)
       \/ VtRead(f) \/ VtHangup(f)
  \/ Tick

Spec == Init /\ [][Next]_vars
-----------------------------------------------------------------------------
TypeOK ==
  /\ ses \in Store
  /\ todo \in Seq(Entry)
  /\ \A list \in {ses.ctlClose, ses.vtClose, todo} :
       \A i, j \in DOMAIN list : list[i].fd = list[j].fd => i = j
  /\ closing \in {"none", "ctl", "vt"}
  /\ closing # "none" => ready = {}
  /\ next \in 1 .. MaxConns + 1
  /\ ready \subseteq polls \union {Ticker}
  /\ polls \union skipped \subseteq Watchers

\* What SES keeps under a number is about the connection that has the number
\* now: a client, a waiter, a pane's pod never comes to mean somebody else's
\* connection.
RecordsAgree ==
  /\ \A c \in ses.clients :
       /\ ses.open[c.ctl] = c.who
       /\ c.vt # None => ses.open[c.vt] = c.vtWho
  /\ \A w \in ses.waiters : ses.open[w.fd] = w.whose
  /\ \A p \in Panes : ses.pod[p] # None => ses.open[ses.pod[p]] = ses.podWho[p]

\* An entry listed for one connection never closes a later one that got its
\* number (noteClosedFd, closedFdNoted).
NoForeignClose == "foreign close" \notin ses.harm

\* Nobody is sent what was queued for somebody else (dropCtlReader).
NoCrossedBytes == "crossed bytes" \notin ses.harm

\* No frame is read on from the half of somebody else's (dropCtlReader,
\* dropVtReader).
NoSplicedFrame == "spliced frame" \notin ses.harm

\* Once something is queued for a connection everything goes behind it.
NothingOvertakes == "overtaken" \notin ses.harm

IsListed(c) == \E e \in Range(ses.ctlClose) \union Range(ses.vtClose) : e.whose = c

\* SES will still do something about connection c, which has number f.
IsAttended(c, f) ==
  \/ ses.ctlWatch[f] = c /\ <<"ctl", c>> \in polls
  \/ ses.vtWatch[f] = c /\ <<"vt", c>> \in polls
  \/ IsListed(c)
  \/ f \in ses.toAdd \union ses.unregistered
  \/ \E w \in ses.waiters : w.fd = f

\* The connection's watcher ended without its doing only if an entry about the
\* number's earlier connection disarmed it, which processPendingCtlCloses and
\* processPendingVtCloses do before they look at the note.
Heeded(kind, c, f) == <<kind, c>> \in skipped \/ IsAttended(c, f)

\* A frontend that has registered, and a pod that was dialled, are listened to
\* until they are closed, but for those an entry deafened that was skipped:
\* whatever is listed, noted, reused, superseded or half closed, no other step
\* leaves a connection open and unheard (queueCtlClose, noteClosedFd).
FrontendsHeard ==
  /\ \A c \in ses.clients :
       /\ Heeded("ctl", c.who, c.ctl)
       /\ c.vt # None => Heeded("vt", c.vtWho, c.vt)
  /\ \A p \in Panes : ses.pod[p] # None => Heeded("vt", ses.podWho[p], ses.pod[p])

\* What the comment on the note says: an entry whose number may have gone to
\* another connection does nothing to that one.
NoneDeafened ==
  /\ \A c \in ses.clients :
       /\ IsAttended(c.who, c.ctl)
       /\ c.vt # None => IsAttended(c.vtWho, c.vt)
  /\ \A p \in Panes : ses.pod[p] # None => IsAttended(ses.podWho[p], ses.pod[p])

\* The number is kept for a connection that is attended, deafened (see Heeded),
\* or listed with an entry for an earlier one, which queueCtlClose lets stand.
IsKept(f) ==
  \/ \E kind \in {"ctl", "vt"} : Heeded(kind, ses.open[f], f)
  \/ \E e \in Range(ses.ctlClose) \union Range(ses.vtClose) : e.fd = f

\* No handler leaves a descriptor open that nothing will look at again: whoever is
\* refused, answered, superseded, robbed, or has waited for one that has gone, is
\* watched or listed (releasePendingCliWaiters, queueCtlClose).  Only working off
\* the lists can lose one, see NothingLeaks.
HandlersLeakNothing ==
  [][closing = "none" =>
       \A f \in Fds :
         ses'.open[f] # None /\ ~IsKept(f)' =>
           ses.open[f] = ses'.open[f] /\ ~IsKept(f)]_vars

\* No connection is left open that nothing will ever close.
NothingLeaks == \A f \in Fds : ses.open[f] # None => IsAttended(ses.open[f], f)
=============================================================================
