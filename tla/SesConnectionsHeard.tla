------------------------- MODULE SesConnectionsHeard -------------------------
(***************************************************************************)
(* Who is left unheard, and by what: proofs about SesConnections.          *)
(*                                                                         *)
(* Good says whose a number is.  Heard adds that every client and every    *)
(* pane's VT connection has a watcher, and that a watcher polls until an   *)
(* entry is listed that will find it: with its number, and made by itself  *)
(* or by no watcher.  What can deafen a connection is an entry about an    *)
(* earlier one with its number, because the loop disarms by number before  *)
(* it looks at the note; such a watcher is in skipped, and Heard says that *)
(* there is no other way.  It rests on                                     *)
(*   - the removals that wait: they are of no client's watcher, and not of *)
(*     the connection that has the number (NoCtlRemoved, Stale);           *)
(*   - the entries: one for a number whose watcher may still fire in this  *)
(*     turn would find that watcher (CtlReady, VtReady).  So when it fires *)
(*     and the list has an entry already, that entry does for its own; had *)
(*     it been left by another watcher, it would do nothing, and the       *)
(*     connection would be neither watched nor closed.                     *)
(*                                                                         *)
(* C and V are the entries of the two lists still to be worked off, S the  *)
(* watchers that were skipped, D those that poll no more, R those that may *)
(* still fire in this turn.  As Good, Heard is a predicate of the tables:  *)
(* each operation is shown to keep it, and every handler is a composition  *)
(* of operations.                                                          *)
(***************************************************************************)
EXTENDS SesConnectionsProofs

\* f is the number of a client's or a pane's VT connection.
IsRef(s, f) == (\E c \in s.clients : c.vt = f) \/ (\E p \in Panes : s.pod[p] = f)

\* A connection is under one number only, and so is its VT watcher.
OwnNumber(s) ==
  \A f, g \in Fds : s.open[g] # None /\ s.open[g] \in {s.open[f], s.vtWatch[f]} => f = g

\* The removals that wait are not of a client's watcher.
NoCtlRemoved(s) ==
  \A f \in s.toRemove : s.ctlWatch[f] = None /\ \A c \in s.clients : c.ctl # f

\* The list has an entry that finds connection c, which has number f.
Finds(L, f, c) == \E e \in L : e.fd = f /\ e.node \in {None, c} /\ e.whose = c

\* An entry finds the watcher that may still fire under its number.
CtlReady(s, C, R) ==
  \A e \in C : <<"ctl", s.ctlWatch[e.fd]>> \in R =>
    e.node \in {None, s.ctlWatch[e.fd]} /\ e.whose = s.ctlWatch[e.fd]

VtReady(s, V, R) ==
  \A e \in V : <<"vt", s.vtWatch[e.fd]>> \in R =>
    /\ e.node \in {None, s.vtWatch[e.fd]}
    /\ s.vtWatch[e.fd] = s.open[e.fd] => e.whose = s.open[e.fd]

\* A client's watcher is its own, and polls unless its close is listed.
CtlHeard(s, C, S, D) ==
  \A c \in s.clients : <<"ctl", c.who>> \notin S =>
    /\ s.ctlWatch[c.ctl] = c.who
    /\ <<"ctl", c.who>> \in D => Finds(C, c.ctl, c.who)

\* So for VT connections, whose watchers may wait to be added.
VtHeard(s, V, S, D) ==
  \A f \in Fds : IsRef(s, f) /\ <<"vt", s.open[f]>> \notin S =>
    /\ s.vtWatch[f] = s.open[f] \/ f \in s.toAdd
    /\ <<"vt", s.open[f]>> \in D => Finds(V, f, s.open[f])

\* All of it.
Heard(s, C, V, S, D, R) ==
  /\ OwnNumber(s)
  /\ NoCtlRemoved(s)
  /\ CtlReady(s, C, R)
  /\ VtReady(s, V, R)
  /\ CtlHeard(s, C, S, D)
  /\ VtHeard(s, V, S, D)

\* Armed, and polling no more.
Deaf == (Watched(ses) \ polls) \intersect Watchers

\* The inductive invariant, with what is known of polls and of the lists.
IHeard ==
  /\ IInv
  /\ Heard(ses, CtlPending, VtPending, skipped, Deaf, ready)
  /\ polls \subseteq Watched(ses)
  /\ CtlPending \subseteq Range(ses.ctlClose)
  /\ VtPending \subseteq Range(ses.vtClose)

-----------------------------------------------------------------------------
(* What keeps it                                                           *)

LEMMA ClientIs ==
  ASSUME NEW s \in Store, NEW c \in s.clients
  PROVE  /\ c.ctl \in Fds /\ c.who \in Conns /\ c.ctl # None
         /\ c.vt \in Fds \union {None} /\ c.vtWho \in Conns \union {None}
BY DEF Store, Client, Fds, None

\* no watcher, nothing to fire
NoneFires(R) == <<"ctl", None>> \notin R /\ <<"vt", None>> \notin R

\* fewer are deaf, fewer may fire, more were skipped
LEMMA HeardLess ==
  ASSUME NEW s, NEW C, NEW V, NEW S, NEW D, NEW R, Heard(s, C, V, S, D, R),
         NEW T, S \subseteq T, NEW P \in SUBSET D, NEW Q \in SUBSET R
  PROVE  Heard(s, C, V, T, P, Q)
<1>1. CtlReady(s, C, Q) /\ VtReady(s, V, Q)
  BY DEF Heard, CtlReady, VtReady
<1>2. CtlHeard(s, C, T, P) /\ VtHeard(s, V, T, P)
  BY DEF Heard, CtlHeard, VtHeard
<1> QED BY <1>1, <1>2 DEF Heard

\* From s to t connections are closed and forgotten, watchers disarmed: none of
\* those that stay is touched.
Spares(s, t) ==
  /\ \A f \in Fds : /\ t.open[f] \in {None, s.open[f]}
                    /\ t.ctlWatch[f] \in {None, s.ctlWatch[f]}
                    /\ t.vtWatch[f] \in {None, s.vtWatch[f]}
  /\ \A f \in t.toRemove \ s.toRemove :
       t.ctlWatch[f] = None /\ \A d \in t.clients : d.ctl # f
  /\ \A d \in t.clients : \E c \in s.clients :
       d.ctl = c.ctl /\ d.who = c.who /\ t.ctlWatch[c.ctl] = s.ctlWatch[c.ctl]
  /\ \A f \in Fds : IsRef(t, f) =>
       /\ IsRef(s, f)
       /\ t.open[f] = s.open[f]
       /\ t.vtWatch[f] = s.vtWatch[f] \/ s.vtWatch[f] # s.open[f]
       /\ f \in s.toAdd => f \in t.toAdd

\* Entries that nobody of t relies on may be dropped meanwhile.
LEMMA SparesLess ==
  ASSUME NEW s \in Store, NEW t \in Store, NEW C \in SUBSET Entry, NEW V \in SUBSET Entry,
         NEW S, NEW D, NEW R, NoneFires(R), Heard(s, C, V, S, D, R), Spares(s, t),
         NEW X \in SUBSET C, NEW W \in SUBSET V,
         \A d \in t.clients, e \in C \ X :
           <<"ctl", d.who>> \notin S => ~(e.fd = d.ctl /\ e.node \in {None, d.who}),
         \A f \in Fds, e \in V \ W :
           IsRef(t, f) /\ <<"vt", t.open[f]>> \notin S => ~(e.fd = f /\ e.node \in {None, t.open[f]})
  PROVE  Heard(t, X, W, S, D, R)
<1>1. /\ \A e \in C \union V : e.fd \in Fds
      /\ t.toRemove \subseteq Fds
      /\ \A c \in s.clients : c.ctl \in Fds
  BY ClientIs DEF Entry, Store
<1>2. OwnNumber(t)
  BY DEF Heard, OwnNumber, Spares
<1>3. NoCtlRemoved(t)
  <2> SUFFICES ASSUME NEW f \in t.toRemove
               PROVE  t.ctlWatch[f] = None /\ \A d \in t.clients : d.ctl # f
    BY DEF NoCtlRemoved
  <2>1. CASE f \notin s.toRemove
    BY <2>1 DEF Spares
  <2>2. CASE f \in s.toRemove
    BY <2>2, <1>1 DEF Spares, Heard, NoCtlRemoved
  <2> QED BY <2>1, <2>2
<1>4. CtlReady(t, X, R)
  BY <1>1 DEF Heard, CtlReady, Spares, NoneFires
<1>5. VtReady(t, W, R)
  BY <1>1 DEF Heard, VtReady, Spares, NoneFires
<1>8. CtlHeard(t, X, S, D)
  <2> SUFFICES ASSUME NEW d \in t.clients, <<"ctl", d.who>> \notin S
               PROVE  /\ t.ctlWatch[d.ctl] = d.who
                      /\ <<"ctl", d.who>> \in D => Finds(X, d.ctl, d.who)
    BY DEF CtlHeard
  <2>1. PICK c \in s.clients : d.ctl = c.ctl /\ d.who = c.who /\ t.ctlWatch[c.ctl] = s.ctlWatch[c.ctl]
    BY DEF Spares
  <2> QED BY <2>1 DEF Heard, CtlHeard, Finds
<1>9. VtHeard(t, W, S, D)
  BY DEF Heard, VtHeard, Spares, Finds
<1> QED BY <1>2, <1>3, <1>4, <1>5, <1>8, <1>9 DEF Heard

LEMMA SparesHeard ==
  ASSUME NEW s \in Store, NEW t \in Store, NEW C \in SUBSET Entry, NEW V \in SUBSET Entry,
         NEW S, NEW D, NEW R, NoneFires(R), Heard(s, C, V, S, D, R), Spares(s, t)
  PROVE  Heard(t, C, V, S, D, R)
<1>1. C \ C = {} /\ V \ V = {} /\ C \in SUBSET C /\ V \in SUBSET V
  OBVIOUS
<1> QED BY <1>1, SparesLess

\* What the invariant does not look at.
Unheard == {"ctlHalf", "vtHalf", "outq", "unregistered", "ctlClose", "vtClose", "waiters",
  "noted", "notedBefore", "podWho", "harm"}

LEMMA HeardSame ==
  ASSUME NEW s, NEW t, NEW C, NEW V, NEW S, NEW D, NEW R, Heard(s, C, V, S, D, R),
         Differ(s, t, Unheard)
  PROVE  Heard(t, C, V, S, D, R)
<1>1. /\ t.open = s.open /\ t.clients = s.clients /\ t.pod = s.pod
      /\ t.toRemove = s.toRemove /\ t.toAdd = s.toAdd
      /\ t.vtWatch = s.vtWatch /\ t.ctlWatch = s.ctlWatch
  BY DEF Differ, Names, Unheard
<1>2. \A f : IsRef(t, f) <=> IsRef(s, f)
  BY <1>1 DEF IsRef
<1> QED BY <1>1, <1>2 DEF Heard, OwnNumber, NoCtlRemoved, CtlReady, VtReady, CtlHeard, VtHeard

\* Entry e may be added to the one list, to the other.
CtlMayList(s, R, e) ==
  <<"ctl", s.ctlWatch[e.fd]>> \in R =>
    e.node \in {None, s.ctlWatch[e.fd]} /\ e.whose = s.ctlWatch[e.fd]
VtMayList(s, R, e) ==
  <<"vt", s.vtWatch[e.fd]>> \in R =>
    /\ e.node \in {None, s.vtWatch[e.fd]}
    /\ s.vtWatch[e.fd] = s.open[e.fd] => e.whose = s.open[e.fd]

LEMMA CtlAdded ==
  ASSUME NEW s, NEW C, NEW V, NEW S, NEW D, NEW R, Heard(s, C, V, S, D, R),
         NEW E, \A e \in E : CtlMayList(s, R, e)
  PROVE  Heard(s, C \union E, V, S, D, R)
<1>1. CtlReady(s, C \union E, R)
  BY DEF CtlReady, CtlMayList, Heard
<1>2. CtlHeard(s, C \union E, S, D)
  BY DEF CtlHeard, Heard, Finds
<1> QED BY <1>1, <1>2 DEF Heard

LEMMA VtAdded ==
  ASSUME NEW s, NEW C, NEW V, NEW S, NEW D, NEW R, Heard(s, C, V, S, D, R),
         NEW E, \A e \in E : VtMayList(s, R, e)
  PROVE  Heard(s, C, V \union E, S, D, R)
<1>1. VtReady(s, V \union E, R)
  BY DEF VtReady, VtMayList, Heard
<1>2. VtHeard(s, V \union E, S, D)
  BY DEF VtHeard, Heard, Finds
<1> QED BY <1>1, <1>2 DEF Heard

-----------------------------------------------------------------------------
(* A connection comes                                                      *)

\* A client's or a pane's VT connection is open and in use.
LEMMA RefIs ==
  ASSUME NEW s, NEW C, NEW V, NEW K, Good(s, C, V, K), NEW f \in Fds, IsRef(s, f)
  PROVE  VtUse(s, V, f) /\ s.open[f] # None /\ ~CtlUse(s, C, f)
<1>1. VtUse(s, V, f)
  BY DEF IsRef, VtUse
<1> QED BY <1>1 DEF Good, UsedIsOpen, OneUse

\* It gets a number under which nothing is kept but entries to be skipped.
LEMMA OpenedHeard ==
  ASSUME NEW s, NEW C, NEW V, NEW K, Good(s, C, V, K),
         NEW S, NEW D, NEW R, Heard(s, C, V, S, D, R),
         NEW f \in Fds, s.open[f] = None, NEW c \in Conns, c \notin K,
         NEW a \in Store, Differ(s, a, {"open"}), a.open = [s.open EXCEPT ![f] = c]
  PROVE  Heard(a, C, V, S, D, R)
<1>1. /\ a.clients = s.clients /\ a.pod = s.pod
      /\ a.toRemove = s.toRemove /\ a.toAdd = s.toAdd
      /\ a.vtWatch = s.vtWatch /\ a.ctlWatch = s.ctlWatch
  BY DEF Differ, Names
<1>2. s.open \in [Fds -> Conns \union {None}] /\ c # None
  BY DEF Good, Typed, Store, Conns, None
<1>3. a.open[f] = c /\ \A g \in Fds \ {f} : a.open[g] = s.open[g]
  BY <1>2
<1>4. \A g : IsRef(a, g) <=> IsRef(s, g)
  BY <1>1 DEF IsRef
<1>5. \A g \in Fds : s.open[g] # c /\ s.vtWatch[g] # c
  BY <1>2 DEF Good, Typed
<1>6. OwnNumber(a)
  BY <1>1, <1>2, <1>3, <1>5 DEF Heard, OwnNumber
<1>7. VtReady(a, V, R)
  <2>1. \A e \in V : e.fd \in Fds
    BY DEF Good, Typed, Entry
  <2> QED BY <1>1, <1>3, <1>5, <2>1 DEF Heard, VtReady
<1>9. NoCtlRemoved(a) /\ CtlReady(a, C, R) /\ CtlHeard(a, C, S, D)
  BY <1>1, <1>4 DEF Heard, NoCtlRemoved, CtlReady, CtlHeard
<1>10. VtHeard(a, V, S, D)
  <2>1. \A g \in Fds : IsRef(s, g) => g # f
    BY RefIs
  <2> QED BY <1>1, <1>3, <1>4, <2>1 DEF Heard, VtHeard
<1> QED BY <1>6, <1>7, <1>9, <1>10 DEF Heard

\* processPendingWatcherUpdates disarms nothing that is still wanted ...
LEMMA DisarmedHeard ==
  ASSUME NEW s, NEW C, NEW V, NEW K, Good(s, C, V, K),
         NEW S, NEW D, NEW R, NoneFires(R), Heard(s, C, V, S, D, R)
  PROVE  Heard(Disarmed(s), C, V, S, D, R)
<1> DEFINE t == Disarmed(s)
<1>1. s \in Store /\ C \in SUBSET Entry /\ V \in SUBSET Entry
  BY DEF Good, Typed
<1>2. /\ t \in Store
      /\ Differ(s, t, {"ctlWatch", "vtWatch", "ctlHalf", "vtHalf", "outq", "unregistered", "toRemove"})
      /\ t.ctlWatch = [f \in Fds |-> IF f \in s.toRemove THEN None ELSE s.ctlWatch[f]]
      /\ t.vtWatch = [f \in Fds |-> IF f \in s.toRemove THEN None ELSE s.vtWatch[f]]
      /\ t.toRemove = {}
  BY <1>1, DisarmedIs
<1> HIDE DEF t
<1>3. t.clients = s.clients /\ t.pod = s.pod /\ t.open = s.open /\ t.toAdd = s.toAdd
  BY <1>2 DEF Differ, Names
<1>4. \A f : IsRef(t, f) <=> IsRef(s, f)
  BY <1>3 DEF IsRef
<1>5. \A c \in s.clients : t.ctlWatch[c.ctl] = s.ctlWatch[c.ctl]
  BY <1>1, <1>2, ClientIs DEF Heard, NoCtlRemoved
<1>6. ASSUME NEW f \in Fds, IsRef(s, f) PROVE t.vtWatch[f] = s.vtWatch[f] \/ s.vtWatch[f] # s.open[f]
  <2>1. s.open[f] # None
    BY <1>6, RefIs
  <2>2. f \in s.toRemove => s.vtWatch[f] # s.open[f]
    BY <2>1 DEF Good, Stale
  <2> QED BY <1>2, <2>2
<1>7. Spares(s, t)
  BY <1>2, <1>3, <1>4, <1>5, <1>6 DEF Spares
<1> QED BY <1>1, <1>2, <1>7, SparesHeard DEF t

\* ... and arms what was dialled.
LEMMA ArmedHeard ==
  ASSUME NEW s, NEW C, NEW V, NEW K, Good(s, C, V, K),
         NEW S, NEW D, NEW R, Heard(s, C, V, S, D, R), s.toRemove = {},
         \A f \in s.toAdd : s.vtWatch[f] = None => <<"vt", s.open[f]>> \notin R
  PROVE  Heard(Armed(s), C, V, S, D, R)
<1> DEFINE t == Armed(s)
<1>1. s \in Store
  BY DEF Good, Typed
<1>2. /\ t \in Store
      /\ Differ(s, t, {"vtWatch", "pod", "toAdd"})
      /\ t.vtWatch = [f \in Fds |-> IF f \in s.toAdd /\ s.vtWatch[f] = None THEN s.open[f] ELSE s.vtWatch[f]]
      /\ t.pod = [p \in Panes |-> IF s.pod[p] \in s.toAdd /\ s.open[s.pod[p]] = None THEN None ELSE s.pod[p]]
  BY <1>1, ArmedIs
<1> HIDE DEF t
<1>3. /\ t.clients = s.clients /\ t.open = s.open /\ t.ctlWatch = s.ctlWatch
      /\ t.toRemove = s.toRemove
  BY <1>2 DEF Differ, Names
<1>4. \A f \in Fds : IsRef(t, f) => IsRef(s, f)
  <2>1. \A f \in Fds : f # None
    BY DEF Fds, None
  <2> QED BY <1>2, <1>3, <2>1 DEF IsRef
<1>6. OwnNumber(t)
  BY <1>2, <1>3 DEF Heard, OwnNumber
<1>7. VtReady(t, V, R)
  <2>1. \A e \in V : e.fd \in Fds
    BY DEF Good, Typed, Entry
  <2> QED BY <1>2, <1>3, <2>1 DEF Heard, VtReady
<1>8. NoCtlRemoved(t) /\ CtlReady(t, C, R) /\ CtlHeard(t, C, S, D)
  BY <1>3 DEF Heard, NoCtlRemoved, CtlReady, CtlHeard
<1>9. VtHeard(t, V, S, D)
  <2> SUFFICES ASSUME NEW f \in Fds, IsRef(t, f), <<"vt", t.open[f]>> \notin S
               PROVE  /\ t.vtWatch[f] = t.open[f]
                      /\ <<"vt", t.open[f]>> \in D =>
                           Finds(V, f, t.open[f])
    BY DEF VtHeard
  <2>1. /\ s.vtWatch[f] = s.open[f] \/ f \in s.toAdd
        /\ <<"vt", s.open[f]>> \in D => Finds(V, f, s.open[f])
    BY <1>3, <1>4 DEF Heard, VtHeard
  <2>2. s.vtWatch[f] \in {None, s.open[f]}
    BY DEF Good, Own
  <2> QED BY <1>2, <1>3, <2>1, <2>2
<1> QED BY <1>6, <1>7, <1>8, <1>9 DEF Heard, t

-----------------------------------------------------------------------------
(* Connections are closed                                                  *)

\* The connections to pods are no client's, and no other pane's.
LEMMA PodsClosedHeard ==
  ASSUME NEW s, NEW C, NEW V, NEW K, Good(s, C, V, K),
         NEW S, NEW D, NEW R, NoneFires(R), Heard(s, C, V, S, D, R),
         NEW ps \in SUBSET Panes
  PROVE  Heard(PodsClosed(s, ps), C, V, S, D, R)
<1> DEFINE t == PodsClosed(s, ps)
           gone == PodFds(s, ps)
<1>1. s \in Store /\ C \in SUBSET Entry /\ V \in SUBSET Entry
  BY DEF Good, Typed
<1>2. /\ t \in Store
      /\ Differ(s, t, {"open", "noted", "toRemove", "pod", "podWho"})
      /\ t.open = [f \in Fds |-> IF f \in gone THEN None ELSE s.open[f]]
      /\ t.noted = s.noted \union gone
      /\ t.toRemove = s.toRemove \union gone
      /\ t.pod = [p \in Panes |-> IF p \in ps THEN None ELSE s.pod[p]]
  BY <1>1, PodsClosedIs
<1> HIDE DEF t
<1>3. /\ t.clients = s.clients /\ t.notedBefore = s.notedBefore /\ t.toAdd = s.toAdd
      /\ t.ctlWatch = s.ctlWatch /\ t.vtWatch = s.vtWatch
  BY <1>2 DEF Differ, Names
<1>4. ASSUME NEW f \in gone
      PROVE  f \in Fds /\ IsRef(s, f) /\ s.ctlWatch[f] = None /\ \A d \in s.clients : d.ctl # f
  <2>1. f \in Fds /\ IsRef(s, f)
    BY <1>1, <1>4 DEF PodFds, Store, IsRef
  <2>2. ~CtlUse(s, C, f)
    BY <2>1, RefIs
  <2> QED BY <2>1, <2>2 DEF CtlUse
<1>5. ASSUME NEW f \in Fds, IsRef(t, f) PROVE IsRef(s, f) /\ f \notin gone
  <2>1. f # None
    BY DEF Fds, None
  <2>2. IsRef(s, f)
    BY <1>2, <1>3, <1>5, <2>1 DEF IsRef
  <2>3. ASSUME NEW p \in ps, s.pod[p] = f PROVE FALSE
    <3>1. \A q \in Panes : t.pod[q] # f
      BY <1>2, <2>1, <2>3 DEF Good, Apart
    <3>2. \A d \in t.clients : d.vt # f
      BY <1>3, <2>1, <2>3 DEF Good, Apart
    <3> QED BY <1>5, <3>1, <3>2 DEF IsRef
  <2> QED BY <2>2, <2>3 DEF PodFds
<1>7. \A d \in t.clients : \E c \in s.clients :
        d.ctl = c.ctl /\ d.who = c.who /\ t.ctlWatch[c.ctl] = s.ctlWatch[c.ctl]
  BY <1>3
<1> HIDE DEF gone
<1>8. Spares(s, t)
  BY <1>2, <1>3, <1>4, <1>5, <1>7 DEF Spares
<1> QED BY <1>1, <1>2, <1>8, SparesHeard DEF t

\* releasePendingCliWaiters lists connections that were waiting.
WaitersListed(s, t) ==
  \E E \in SUBSET Entry :
    /\ Range(t.ctlClose) = Range(s.ctlClose) \union E
    /\ \A e \in E : e.node = None /\ e.whose = s.open[e.fd] /\ CliUse(s, e.fd)

LEMMA ReleasedLists ==
  ASSUME NEW s \in Store, NEW f
  PROVE  WaitersListed(s, Released(s, f)) /\ Released(s, f).waiters \subseteq s.waiters
<1> DEFINE mine == {w \in s.waiters : w.owner = f}
           fds == {w.fd : w \in mine}
           r == [s EXCEPT !.waiters = s.waiters \ mine]
           t == AllListed(r, fds)
<1>1. t = Released(s, f)
  BY DEF Released
<1>2. r \in Store /\ Differ(s, r, {"waiters"}) /\ r.waiters \subseteq s.waiters
  BY WaitersTakenIs
<1>3. fds \in SUBSET Fds /\ \A g \in fds : CliUse(s, g)
  BY DEF Store, Waiter, CliUse
<1> HIDE DEF r, fds
<1>4. PICK E \in SUBSET Entry :
        /\ Range(t.ctlClose) = Range(r.ctlClose) \union E
        /\ \A e \in E : e.fd \in fds /\ e.whose = r.open[e.fd] /\ e.node = None
        /\ \A d, e \in E : d.fd = e.fd => d = e
        /\ \A e \in E, d \in Range(r.ctlClose) : d.fd # e.fd
  BY <1>2, <1>3, AllListedIs
<1>5. r.ctlClose = s.ctlClose /\ r.open = s.open
  BY <1>2 DEF Differ, Names
<1>6. t.waiters = r.waiters
  <2>1. Differ(r, t, {"ctlClose"})
    BY <1>2, <1>3, AllListedIs
  <2> HIDE DEF t
  <2> QED BY <2>1 DEF Differ, Names
<1> HIDE DEF t
<1> QED BY <1>1, <1>2, <1>3, <1>4, <1>5, <1>6 DEF WaitersListed

\* purgeMuxFdState disarms the client's own watchers.
LEMMA PurgedIs ==
  ASSUME NEW s, NEW C, NEW V, NEW K, Good(s, C, V, K), NEW c \in s.clients
  PROVE  /\ Purged(s, c) \in Store
         /\ Differ(s, Purged(s, c), PurgedFields)
         /\ Purged(s, c).ctlWatch = [s.ctlWatch EXCEPT ![c.ctl] = None]
         /\ \A g \in Fds : /\ Purged(s, c).vtWatch[g] \in {None, s.vtWatch[g]}
                           /\ g # c.vt => Purged(s, c).vtWatch[g] = s.vtWatch[g]
         /\ WaitersListed(s, Purged(s, c))
<1> DEFINE f == c.ctl
           a == Released(s, f)
           b == CtlDropped(a, f)
           d == CtlDisarmed(b, f)
           t == VtPurged(d, c.vt)
<1>1. s \in Store /\ c \in Client
  BY DEF Good, Typed, Store
<1>2. f \in Fds /\ c.vt \in Fds \union {None}
  BY <1>1 DEF Client
<1>3. a \in Store /\ Differ(s, a, {"waiters", "ctlClose"}) /\ WaitersListed(s, a)
  BY <1>1, ReleasedGrows, ReleasedLists
<1> HIDE DEF a
<1>4. b \in Store /\ Differ(a, b, {"ctlHalf", "outq", "unregistered"})
  BY <1>2, <1>3, CtlDroppedIs
<1> HIDE DEF b
<1>5. d \in Store /\ Differ(b, d, {"ctlWatch"}) /\ d.ctlWatch = [b.ctlWatch EXCEPT ![f] = None]
  BY <1>2, <1>4, CtlDisarmedIs
<1> HIDE DEF d
<1>6. t \in Store /\ Differ(d, t, {"vtWatch", "vtHalf"})
  BY <1>2, <1>5, VtPurgedIs
<1>7. t = Purged(s, c)
  BY DEF Purged, CtlPurged, a, b, d
<1>8. \A g \in Fds : t.vtWatch[g] \in {None, d.vtWatch[g]} /\ (g # c.vt => t.vtWatch[g] = d.vtWatch[g])
  <2>1. CASE c.vt = None
    BY <2>1 DEF VtPurged
  <2>2. CASE c.vt # None
    <3> DEFINE g == c.vt
               v == VtDropped(d, g)
               w == VtDisarmed(v, g)
    <3>1. g \in Fds
      BY <1>2, <2>2
    <3>2. v \in Store /\ Differ(d, v, {"vtHalf"})
      BY <1>5, <3>1, VtDroppedIs
    <3>3. w.vtWatch = [v.vtWatch EXCEPT ![g] = None]
      BY <3>1, <3>2, VtDisarmedIs
    <3>4. t = w
      BY <2>2 DEF VtPurged
    <3> HIDE DEF v, w, t, g
    <3>5. v.vtWatch = d.vtWatch /\ d.vtWatch \in [Fds -> Conns \union {None}]
      BY <1>5, <3>2 DEF Differ, Names, Store
    <3>6. \A h \in Fds : t.vtWatch[h] \in {None, d.vtWatch[h]} /\ (h # g => t.vtWatch[h] = d.vtWatch[h])
      BY <3>3, <3>4, <3>5
    <3> QED BY <3>6 DEF g
  <2> QED BY <2>1, <2>2
<1> HIDE DEF t
<1>9. /\ t.ctlClose = a.ctlClose /\ t.ctlWatch = d.ctlWatch
      /\ b.ctlWatch = s.ctlWatch /\ d.vtWatch = s.vtWatch
  BY <1>3, <1>4, <1>5, <1>6 DEF Differ, Names
<1>10. Differ(s, t, PurgedFields)
  BY <1>3, <1>4, <1>5, <1>6 DEF Differ, PurgedFields
<1> QED BY <1>3, <1>5, <1>6, <1>7, <1>8, <1>9, <1>10 DEF WaitersListed

\* The numbers that go with a client.
Gone(s, c, parked) == PodFds(s, parked) \union ({c.ctl, c.vt} \ {None})

LEMMA RemovedIs ==
  ASSUME NEW s, NEW C, NEW V, NEW K, Good(s, C, V, K), NEW c \in s.clients,
         NEW parked \in SUBSET Panes, NEW t, t = Removed(s, c, parked)
  PROVE  /\ t \in Store
         /\ t.open = [f \in Fds |-> IF f \in Gone(s, c, parked) THEN None ELSE s.open[f]]
         /\ t.noted = s.noted \union Gone(s, c, parked)
         /\ t.toRemove = s.toRemove \union PodFds(s, parked)
         /\ t.clients = s.clients \ {c}
         /\ t.pod = [p \in Panes |-> IF p \in parked THEN None ELSE s.pod[p]]
         /\ t.notedBefore = s.notedBefore /\ t.toAdd = s.toAdd /\ t.vtClose = s.vtClose
         /\ t.ctlWatch = [s.ctlWatch EXCEPT ![c.ctl] = None]
         /\ \A g \in Fds : /\ t.vtWatch[g] \in {None, s.vtWatch[g]}
                           /\ g # c.vt => t.vtWatch[g] = s.vtWatch[g]
         /\ WaitersListed(s, t)
<1> DEFINE r == Purged(s, c)
           d == PodsClosed(r, parked)
           u == ClientClosed(d, c)
<1>1. /\ r \in Store
      /\ Differ(s, r, PurgedFields)
      /\ r.ctlWatch = [s.ctlWatch EXCEPT ![c.ctl] = None]
      /\ \A g \in Fds : /\ r.vtWatch[g] \in {None, s.vtWatch[g]}
                        /\ g # c.vt => r.vtWatch[g] = s.vtWatch[g]
      /\ WaitersListed(s, r)
  BY PurgedIs
<1>2. u = t
  BY DEF Removed
<1> HIDE DEF r
<1>3. /\ r.open = s.open /\ r.clients = s.clients /\ r.pod = s.pod
      /\ r.noted = s.noted /\ r.notedBefore = s.notedBefore
      /\ r.toRemove = s.toRemove /\ r.toAdd = s.toAdd /\ r.vtClose = s.vtClose
  BY <1>1 DEF Differ, Names, PurgedFields
<1>4. PodFds(r, parked) = PodFds(s, parked)
  BY <1>3 DEF PodFds
<1>5. /\ d \in Store
      /\ Differ(r, d, {"open", "noted", "toRemove", "pod", "podWho"})
      /\ d.open = [f \in Fds |-> IF f \in PodFds(s, parked) THEN None ELSE r.open[f]]
      /\ d.noted = r.noted \union PodFds(s, parked)
      /\ d.toRemove = r.toRemove \union PodFds(s, parked)
      /\ d.pod = [p \in Panes |-> IF p \in parked THEN None ELSE r.pod[p]]
  <2>1. /\ d \in Store
        /\ Differ(r, d, {"open", "noted", "toRemove", "pod", "podWho"})
        /\ d.open = [f \in Fds |-> IF f \in PodFds(r, parked) THEN None ELSE r.open[f]]
        /\ d.noted = r.noted \union PodFds(r, parked)
        /\ d.toRemove = r.toRemove \union PodFds(r, parked)
        /\ d.pod = [p \in Panes |-> IF p \in parked THEN None ELSE r.pod[p]]
    BY <1>1, PodsClosedIs
  <2> HIDE DEF d
  <2> QED BY <1>4, <2>1
<1> HIDE DEF d
<1>6. /\ d.clients = r.clients /\ d.notedBefore = r.notedBefore /\ d.toAdd = r.toAdd
      /\ d.ctlWatch = r.ctlWatch /\ d.vtWatch = r.vtWatch
      /\ d.ctlClose = r.ctlClose /\ d.vtClose = r.vtClose
  BY <1>5 DEF Differ, Names
<1>7. c \in d.clients
  BY <1>3, <1>6
<1>8. /\ u \in Store
      /\ Differ(d, u, {"open", "noted", "clients"})
      /\ u.open = [f \in Fds |-> IF f \in {c.ctl, c.vt} \ {None} THEN None ELSE d.open[f]]
      /\ u.noted = d.noted \union ({c.ctl, c.vt} \ {None})
      /\ u.clients = d.clients \ {c}
  BY <1>5, <1>7, ClientClosedIs
<1> HIDE DEF u
<1>9. /\ u.notedBefore = d.notedBefore /\ u.toAdd = d.toAdd
      /\ u.ctlWatch = d.ctlWatch /\ u.vtWatch = d.vtWatch
      /\ u.ctlClose = d.ctlClose /\ u.vtClose = d.vtClose
      /\ u.toRemove = d.toRemove /\ u.pod = d.pod
  BY <1>8 DEF Differ, Names
<1>10. u.open = [f \in Fds |-> IF f \in Gone(s, c, parked) THEN None ELSE s.open[f]]
  BY <1>3, <1>5, <1>8 DEF Gone
<1>11. u.noted = s.noted \union Gone(s, c, parked)
  BY <1>3, <1>5, <1>8 DEF Gone
<1>12. WaitersListed(s, u)
  BY <1>1, <1>6, <1>9 DEF WaitersListed
<1> QED BY <1>1, <1>2, <1>3, <1>5, <1>6, <1>8, <1>9, <1>10, <1>11, <1>12

LEMMA RemovedLists ==
  ASSUME NEW s, NEW C, NEW V, NEW K, Good(s, C, V, K), NEW c \in s.clients,
         NEW parked \in SUBSET Panes
  PROVE  /\ Removed(s, c, parked) \in Store
         /\ Removed(s, c, parked).clients = s.clients \ {c}
         /\ Removed(s, c, parked).vtClose = s.vtClose
         /\ WaitersListed(s, Removed(s, c, parked))
<1> DEFINE t == Removed(s, c, parked)
<1>1. /\ t \in Store
      /\ t.open = [f \in Fds |-> IF f \in Gone(s, c, parked) THEN None ELSE s.open[f]]
      /\ t.noted = s.noted \union Gone(s, c, parked)
      /\ t.toRemove = s.toRemove \union PodFds(s, parked)
      /\ t.clients = s.clients \ {c}
      /\ t.pod = [p \in Panes |-> IF p \in parked THEN None ELSE s.pod[p]]
      /\ t.notedBefore = s.notedBefore /\ t.toAdd = s.toAdd /\ t.vtClose = s.vtClose
      /\ t.ctlWatch = [s.ctlWatch EXCEPT ![c.ctl] = None]
      /\ \A g \in Fds : /\ t.vtWatch[g] \in {None, s.vtWatch[g]}
                        /\ g # c.vt => t.vtWatch[g] = s.vtWatch[g]
      /\ WaitersListed(s, t)
  BY RemovedIs
<1> HIDE DEF t
<1>2. t \in Store /\ t.clients = s.clients \ {c} /\ t.vtClose = s.vtClose /\ WaitersListed(s, t)
  BY <1>1
<1> QED BY <1>2 DEF t

\* What goes with a client is nobody else's.
LEMMA RemovedSpares ==
  ASSUME NEW s, NEW C, NEW V, NEW K, Good(s, C, V, K),
         NEW c \in s.clients, NEW parked \in SUBSET Panes
  PROVE  Spares(s, Removed(s, c, parked))
<1> DEFINE t == Removed(s, c, parked)
           gone == Gone(s, c, parked)
<1>1. s \in Store /\ C \in SUBSET Entry /\ V \in SUBSET Entry
  BY DEF Good, Typed
<1>2. /\ t \in Store
      /\ t.open = [f \in Fds |-> IF f \in gone THEN None ELSE s.open[f]]
      /\ t.noted = s.noted \union gone
      /\ t.toRemove = s.toRemove \union PodFds(s, parked)
      /\ t.clients = s.clients \ {c}
      /\ t.pod = [p \in Panes |-> IF p \in parked THEN None ELSE s.pod[p]]
      /\ t.notedBefore = s.notedBefore /\ t.toAdd = s.toAdd
      /\ t.ctlWatch = [s.ctlWatch EXCEPT ![c.ctl] = None]
      /\ \A g \in Fds : /\ t.vtWatch[g] \in {None, s.vtWatch[g]}
                        /\ g # c.vt => t.vtWatch[g] = s.vtWatch[g]
  BY RemovedIs
<1> HIDE DEF t
<1>3. /\ c.ctl \in Fds /\ c.ctl # None /\ c.vt \in Fds \union {None}
      /\ s.ctlWatch \in [Fds -> Conns \union {None}]
      /\ \A d \in s.clients : d.ctl \in Fds
  BY <1>1, ClientIs DEF Store
<1>4. \A f \in PodFds(s, parked) \union ({c.vt} \ {None}) : f \in Fds /\ IsRef(s, f)
  BY <1>1, <1>3 DEF PodFds, Store, IsRef
<1>5. gone = PodFds(s, parked) \union ({c.vt} \ {None}) \union {c.ctl}
  BY <1>3 DEF Gone
<1>6. ASSUME NEW f \in gone
      PROVE  f \in Fds /\ t.ctlWatch[f] = None /\ \A d \in t.clients : d.ctl # f
  <2>1. CASE f = c.ctl
    <3>1. \A d \in t.clients : d.ctl # f
      BY <1>2, <2>1 DEF Good, Apart
    <3> QED BY <1>2, <1>3, <2>1, <3>1
  <2>2. CASE f # c.ctl
    <3>1. f \in Fds /\ IsRef(s, f)
      BY <1>4, <1>5, <2>2
    <3>2. ~CtlUse(s, C, f)
      BY <3>1, RefIs
    <3>3. s.ctlWatch[f] = None /\ \A d \in s.clients : d.ctl # f
      BY <3>2 DEF CtlUse
    <3> QED BY <1>2, <1>3, <3>1, <3>3
  <2> QED BY <2>1, <2>2
<1>7. ASSUME NEW f \in Fds, IsRef(t, f) PROVE IsRef(s, f) /\ f \notin gone /\ f # c.vt
  <2>1. f # None
    BY DEF Fds, None
  <2>2. IsRef(s, f)
    BY <1>2, <1>7, <2>1 DEF IsRef
  <2>3. f # c.ctl
    <3>1. ~CtlUse(s, C, f)
      BY <2>2, RefIs
    <3> QED BY <3>1 DEF CtlUse
  <2>4. ASSUME f = c.vt PROVE FALSE
    <3>1. \A q \in Panes : t.pod[q] # f
      BY <1>2, <2>1, <2>4 DEF Good, Apart
    <3>2. \A d \in t.clients : d.vt # f
      BY <1>2, <2>1, <2>4 DEF Good, Apart
    <3> QED BY <1>7, <3>1, <3>2 DEF IsRef
  <2>5. ASSUME NEW p \in parked, s.pod[p] = f PROVE FALSE
    <3>1. \A q \in Panes : t.pod[q] # f
      BY <1>2, <2>1, <2>5 DEF Good, Apart
    <3>2. \A d \in t.clients : d.vt # f
      BY <1>2, <2>1, <2>5 DEF Good, Apart
    <3> QED BY <1>7, <3>1, <3>2 DEF IsRef
  <2> QED BY <1>5, <2>2, <2>3, <2>4, <2>5 DEF PodFds
<1>8. \A d \in t.clients : d \in s.clients /\ t.ctlWatch[d.ctl] = s.ctlWatch[d.ctl]
  <2>1. \A d \in t.clients : d \in s.clients /\ d.ctl # c.ctl
    BY <1>2 DEF Good, Apart
  <2> QED BY <1>2, <1>3, <2>1
<1>9. \A f \in Fds : t.ctlWatch[f] \in {None, s.ctlWatch[f]}
  BY <1>2, <1>3
<1>11. PodFds(s, parked) \subseteq gone
  BY DEF Gone
<1> HIDE DEF gone
<1>12. Spares(s, t)
  <2>1. \A f \in t.toRemove \ s.toRemove :
          t.ctlWatch[f] = None /\ \A d \in t.clients : d.ctl # f
    BY <1>2, <1>6, <1>11
  <2>3. \A d \in t.clients : \E b \in s.clients :
          d.ctl = b.ctl /\ d.who = b.who /\ t.ctlWatch[b.ctl] = s.ctlWatch[b.ctl]
    BY <1>8
  <2>4. \A f \in Fds : IsRef(t, f) =>
          /\ IsRef(s, f)
          /\ t.open[f] = s.open[f]
          /\ t.vtWatch[f] = s.vtWatch[f] \/ s.vtWatch[f] # s.open[f]
          /\ f \in s.toAdd => f \in t.toAdd
    BY <1>2, <1>7
  <2> QED BY <1>2, <1>9, <2>1, <2>3, <2>4 DEF Spares
<1> QED BY <1>12 DEF t

LEMMA RemovedHeard ==
  ASSUME NEW s, NEW C, NEW V, NEW K, Good(s, C, V, K),
         NEW S, NEW D, NEW R, NoneFires(R), Heard(s, C, V, S, D, R),
         NEW c \in s.clients, NEW parked \in SUBSET Panes
  PROVE  Heard(Removed(s, c, parked), C, V, S, D, R)
<1>1. s \in Store /\ C \in SUBSET Entry /\ V \in SUBSET Entry
  BY DEF Good, Typed
<1>2. Removed(s, c, parked) \in Store
  BY RemovedIs
<1>3. Spares(s, Removed(s, c, parked))
  BY RemovedSpares
<1> QED BY <1>1, <1>2, <1>3, SparesHeard

-----------------------------------------------------------------------------
(* The lists are worked off                                                *)

\* The watcher of f may be gone before the rest.
LEMMA SparesFrom ==
  ASSUME NEW s \in Store, NEW t, NEW u \in Store, NEW f \in Fds,
         Differ(s, t, Unheard \union {"ctlWatch"}), t.ctlWatch = [s.ctlWatch EXCEPT ![f] = None],
         Spares(t, u), \A d \in u.clients : d.ctl # f
  PROVE  Spares(s, u)
<1>1. /\ t.open = s.open /\ t.clients = s.clients /\ t.pod = s.pod
      /\ t.toRemove = s.toRemove /\ t.toAdd = s.toAdd /\ t.vtWatch = s.vtWatch
  BY DEF Differ, Names, Unheard
<1>2. s.ctlWatch \in [Fds -> Conns \union {None}] /\ \A c \in s.clients : c.ctl \in Fds
  BY ClientIs DEF Store
<1>3. \A g \in Fds : t.ctlWatch[g] \in {None, s.ctlWatch[g]} /\ (g # f => t.ctlWatch[g] = s.ctlWatch[g])
  BY <1>2
<1>4. \A g : IsRef(t, g) <=> IsRef(s, g)
  BY <1>1 DEF IsRef
<1>5. \A g \in Fds : u.ctlWatch[g] \in {None, s.ctlWatch[g]}
  BY <1>3 DEF Spares
<1>6. ASSUME NEW d \in u.clients
      PROVE  \E c \in s.clients :
               d.ctl = c.ctl /\ d.who = c.who /\ u.ctlWatch[c.ctl] = s.ctlWatch[c.ctl]
  <2>1. PICK c \in t.clients : d.ctl = c.ctl /\ d.who = c.who /\ u.ctlWatch[c.ctl] = t.ctlWatch[c.ctl]
    BY DEF Spares
  <2> QED BY <2>1, <1>1, <1>2, <1>3
<1> QED BY <1>1, <1>4, <1>5, <1>6 DEF Spares

\* No entry of X is about f.
Spared(X, f) == \A d \in X : d.fd # f

\* f has been closed, with its client if it has one.
HasGone(s, u, f) ==
  /\ u \in Store
  /\ Spares(s, u)
  /\ ClientAt(u, f) = {}
  /\ WaitersListed(s, u)
  /\ u.vtClose = s.vtClose

\* The number of an entry in use is closed and so is its client's other one.
LEMMA CtlGoneHeard ==
  ASSUME NEW s, NEW C, NEW V, NEW K, Good(s, C, V, K), NEW e \in C,
         NEW X \in SUBSET C, Spared(X, e.fd), s.toAdd = {}, ~IsNoted(s, e.fd),
         NEW parked \in SUBSET Panes, NEW u, u = CtlGone(CtlDisarmed(s, e.fd), e.fd, parked)
  PROVE  HasGone(s, u, e.fd)
<1> DEFINE f == e.fd
           t == CtlDisarmed(s, f)
           a == Flushed(t, f)
           b == CtlDropped(a, f)
           r == Released(b, f)
           c == CHOOSE c \in ClientAt(r, f) : TRUE
<1>1. s \in Store /\ f \in Fds
  BY DEF Good, Typed, Entry
<1>2. /\ t \in Store
      /\ Differ(s, t, {"ctlWatch"})
      /\ t.ctlWatch = [s.ctlWatch EXCEPT ![f] = None]
  BY <1>1, CtlDisarmedIs
<1>24. u = CtlGone(t, f, parked)
  OBVIOUS
<1> HIDE DEF t
<1>3. /\ t.open = s.open /\ t.clients = s.clients /\ t.pod = s.pod /\ t.podWho = s.podWho
      /\ t.noted = s.noted /\ t.notedBefore = s.notedBefore
      /\ t.toRemove = s.toRemove /\ t.toAdd = s.toAdd
      /\ t.waiters = s.waiters /\ t.vtWatch = s.vtWatch /\ t.vtHalf = s.vtHalf
      /\ t.ctlClose = s.ctlClose /\ t.vtClose = s.vtClose /\ t.harm = s.harm
      /\ t.ctlHalf = s.ctlHalf /\ t.outq = s.outq /\ t.unregistered = s.unregistered
  BY <1>2 DEF Differ, Names
<1>4. s.ctlWatch \in [Fds -> Conns \union {None}]
  BY <1>1 DEF Store
<1>5. Below(s, t)
  BY <1>2, <1>3, <1>4 DEF Below
<1>6. Good(t, X, V, K)
  <2>1. t.harm \intersect Averted = {}
    BY <1>3 DEF Good
  <2> QED BY <1>5, <2>1, BelowGood
<1>7. /\ a \in Store
      /\ Differ(t, a, {"outq"})
      /\ a.outq = [t.outq EXCEPT ![f] = {}]
  BY <1>1, <1>6, FlushedIs
<1>8. /\ b \in Store
      /\ Differ(a, b, {"ctlHalf", "outq", "unregistered"})
      /\ b.ctlHalf = [a.ctlHalf EXCEPT ![f] = {}]
      /\ b.outq = [a.outq EXCEPT ![f] = {}]
      /\ b.unregistered = a.unregistered \ {f}
  BY <1>1, <1>7, CtlDroppedIs
<1> HIDE DEF a
<1>9. /\ b.open = t.open /\ b.clients = t.clients /\ b.pod = t.pod /\ b.podWho = t.podWho
      /\ b.noted = t.noted /\ b.notedBefore = t.notedBefore
      /\ b.toRemove = t.toRemove /\ b.toAdd = t.toAdd
      /\ b.waiters = t.waiters /\ b.vtWatch = t.vtWatch /\ b.vtHalf = t.vtHalf
      /\ b.ctlClose = t.ctlClose /\ b.vtClose = t.vtClose /\ b.harm = t.harm
      /\ b.ctlWatch = t.ctlWatch /\ a.ctlHalf = t.ctlHalf /\ a.unregistered = t.unregistered
  BY <1>7, <1>8 DEF Differ, Names
<1>10. t.ctlHalf \in [Fds -> SUBSET Conns] /\ t.outq \in [Fds -> SUBSET Conns]
  BY <1>2 DEF Store
<1>11. \A g \in Fds : b.ctlHalf[g] \subseteq t.ctlHalf[g] /\ b.outq[g] \subseteq t.outq[g]
  BY <1>7, <1>8, <1>9, <1>10
<1>12. Below(t, b)
  BY <1>8, <1>9, <1>11 DEF Below
<1>13. Good(b, X, V, K)
  BY <1>6, <1>9, <1>12, BelowGood DEF Good
<1>14. /\ Grows(b, r, X, V, K)
       /\ r \in Store
       /\ Differ(b, r, {"waiters", "ctlClose"})
       /\ WaitersListed(b, r) /\ r.waiters \subseteq b.waiters
  BY <1>8, <1>13, ReleasedGrows, ReleasedLists
<1>15. u = IF ClientAt(r, f) = {} THEN Closed(r, {f}) ELSE Removed(r, c, parked)
  BY <1>24 DEF CtlGone, a, b
<1> HIDE DEF r
<1>16. PICK E \in SUBSET Entry : Good(r, X \union E, V, K)
  BY <1>14 DEF Grows, GrowsBy
<1>17. Differ(s, r, Unheard \union {"ctlWatch"})
  BY <1>2, <1>7, <1>8, <1>14 DEF Differ, Unheard
<1>18. /\ r.open = s.open /\ r.clients = s.clients /\ r.pod = s.pod
       /\ r.noted = s.noted /\ r.notedBefore = s.notedBefore
       /\ r.toRemove = s.toRemove /\ r.toAdd = s.toAdd
       /\ r.vtWatch = s.vtWatch /\ r.ctlWatch = t.ctlWatch /\ r.vtClose = s.vtClose
  BY <1>3, <1>9, <1>14 DEF Differ, Names
<1>19. WaitersListed(s, r)
  <2>1. b.ctlClose = s.ctlClose /\ b.open = s.open /\ b.waiters = s.waiters
    BY <1>3, <1>9
  <2>2. \A g : CliUse(b, g) <=> CliUse(s, g)
    BY <2>1 DEF CliUse
  <2> QED BY <1>14, <2>1, <2>2 DEF WaitersListed
<1> HIDE DEF b
<1>20. ~IsRef(s, f)
  <2>1. CtlUse(s, C, f)
    BY DEF CtlUse
  <2> QED BY <1>1, <2>1, RefIs
<1>23. r.ctlWatch = [s.ctlWatch EXCEPT ![f] = None]
  BY <1>2, <1>18
<1>21. CASE ClientAt(r, f) = {}
  <2>1. /\ u \in Store
        /\ Differ(r, u, {"open"})
        /\ u.open = [g \in Fds |-> IF g \in {f} THEN None ELSE r.open[g]]
    BY <1>1, <1>14, <1>15, <1>21, ClosedIs
  <2>2. /\ u.clients = r.clients /\ u.pod = r.pod /\ u.ctlClose = r.ctlClose /\ u.vtClose = r.vtClose
        /\ u.noted = r.noted /\ u.notedBefore = r.notedBefore
        /\ u.toRemove = r.toRemove /\ u.toAdd = r.toAdd
        /\ u.vtWatch = r.vtWatch /\ u.ctlWatch = r.ctlWatch
    BY <2>1 DEF Differ, Names
  <2>3. \A d \in u.clients : d.ctl # f
    BY <1>21, <2>2 DEF ClientAt
  <2>4. \A g : (IsRef(u, g) <=> IsRef(r, g)) /\ (IsRef(r, g) <=> IsRef(s, g))
    BY <1>18, <2>2 DEF IsRef
  <2>5. \A d \in X : d.fd \in Fds
    BY DEF Good, Typed, Entry
  <2>6. \A g \in Fds : /\ u.open[g] \in {None, r.open[g]}
                       /\ g # f => u.open[g] = r.open[g]
    BY <2>1
  <2>7. Spares(r, u)
    BY <1>20, <2>2, <2>4, <2>5, <2>6 DEF Spares, Spared
  <2>8. Spares(s, u)
    BY <1>1, <1>17, <1>23, <2>1, <2>3, <2>7, SparesFrom
  <2>9. WaitersListed(s, u)
    BY <1>19, <2>2 DEF WaitersListed
  <2>10. ClientAt(u, e.fd) = {}
    BY <2>3 DEF ClientAt
  <2> QED BY <1>18, <2>1, <2>2, <2>8, <2>9, <2>10 DEF HasGone
<1>22. CASE ClientAt(r, f) # {}
  <2>1. u = Removed(r, c, parked)
    BY <1>15, <1>22
  <2>2. c \in r.clients /\ c.ctl = f
    BY <1>22 DEF ClientAt
  <2> HIDE DEF c
  <2>3. Spares(r, u)
    BY <1>16, <2>1, <2>2, RemovedSpares
  <2>4. /\ u \in Store /\ u.clients = r.clients \ {c}
        /\ u.vtClose = r.vtClose
        /\ WaitersListed(r, u)
    <3> DEFINE P == X \union E
    <3>1. Good(r, P, V, K)
      BY <1>16
    <3> HIDE DEF P
    <3> QED BY <2>1, <2>2, <3>1, RemovedLists
  <2>5. \A d \in u.clients : d.ctl # f
    BY <1>16, <2>2, <2>4 DEF Good, Apart
  <2>6. Spares(s, u)
    BY <1>1, <1>17, <1>23, <2>3, <2>4, <2>5, SparesFrom
  <2>9. WaitersListed(s, u)
    <3>1. r.waiters \subseteq s.waiters
      BY <1>3, <1>9, <1>14
    <3>2. PICK A \in SUBSET Entry :
            /\ Range(r.ctlClose) = Range(s.ctlClose) \union A
            /\ \A d \in A : d.node = None /\ d.whose = s.open[d.fd] /\ CliUse(s, d.fd)
      BY <1>19 DEF WaitersListed
    <3>3. PICK B \in SUBSET Entry :
            /\ Range(u.ctlClose) = Range(r.ctlClose) \union B
            /\ \A d \in B : d.node = None /\ d.whose = r.open[d.fd] /\ CliUse(r, d.fd)
      BY <2>4 DEF WaitersListed
    <3>4. \A d \in B : CliUse(s, d.fd)
      BY <3>1, <3>3 DEF CliUse
    <3>5. /\ A \union B \in SUBSET Entry
          /\ Range(u.ctlClose) = Range(s.ctlClose) \union (A \union B)
          /\ \A d \in A \union B : d.node = None /\ d.whose = s.open[d.fd] /\ CliUse(s, d.fd)
      BY <1>18, <3>2, <3>3, <3>4
    <3> QED BY <3>5 DEF WaitersListed
  <2>10. ClientAt(u, e.fd) = {}
    BY <2>5 DEF ClientAt
  <2> QED BY <1>18, <2>4, <2>6, <2>9, <2>10 DEF HasGone
<1> QED BY <1>21, <1>22

\* An entry is done with.
HeardOn(s, u, X, V, T, D, R) ==
  /\ Heard(u, X, V, T, D, R)
  /\ Range(s.ctlClose) \subseteq Range(u.ctlClose)
  /\ u.vtClose = s.vtClose

\* T has the watcher that entry e disarms although its number is noted.
Recorded(s, kind, watch, e, T) ==
  watch[e.fd] # None /\ e.node \in {None, watch[e.fd]} /\ IsNoted(s, e.fd) =>
    <<kind, watch[e.fd]>> \in T

\* An entry is worked off that a client relies on only if the client goes or
\* its watcher is skipped.
LEMMA CtlEntryDoneHeard ==
  ASSUME NEW s, NEW C, NEW V, NEW K, Good(s, C, V, K),
         NEW S, NEW D, NEW R, NoneFires(R), Heard(s, C, V, S, D, R),
         NEW e \in C, NEW X \in SUBSET C, C \ X \subseteq {e}, Spared(X, e.fd),
         NEW T, S \subseteq T, Recorded(s, "ctl", s.ctlWatch, e, T),
         s.toAdd = {}, NEW parked \in SUBSET Panes, NEW u, u = CtlEntryDone(s, e, parked)
  PROVE  HeardOn(s, u, X, V, T, D, R)
<1> DEFINE f == e.fd
           t == CtlDisarmed(s, f)
<1>1. s \in Store /\ C \in SUBSET Entry /\ V \in SUBSET Entry /\ e \in Entry /\ f \in Fds
  BY DEF Good, Typed, Entry
<1>2. Heard(s, C, V, T, D, R)
  <2>1. D \in SUBSET D /\ R \in SUBSET R
    OBVIOUS
  <2> QED BY <2>1, HeardLess
<1>3. ASSUME u \in Store, Spares(s, u),
             \A d \in u.clients : <<"ctl", d.who>> \notin T => ~(e.fd = d.ctl /\ e.node \in {None, d.who})
      PROVE  Heard(u, X, V, T, D, R)
  <2>1. \A d \in u.clients, b \in C \ X :
          <<"ctl", d.who>> \notin T => ~(b.fd = d.ctl /\ b.node \in {None, d.who})
    BY <1>3
  <2>2. V \in SUBSET V /\ V \ V = {}
    OBVIOUS
  <2> QED BY <1>1, <1>2, <1>3, <2>1, <2>2, SparesLess
<1>4. CASE e.node # None /\ s.ctlWatch[f] # e.node
  <2>1. u = s
    BY <1>4 DEF CtlEntryDone
  <2>2. \A d \in s.clients : <<"ctl", d.who>> \notin T => ~(e.fd = d.ctl /\ e.node \in {None, d.who})
    BY <1>2, <1>4 DEF Heard, CtlHeard
  <2>3. Spares(s, s)
    BY DEF Spares
  <2> QED BY <1>1, <1>3, <2>1, <2>2, <2>3 DEF HeardOn
<1>5. CASE ~(e.node # None /\ s.ctlWatch[f] # e.node) /\ IsNoted(s, f)
  <2>1. u = t
    BY <1>5 DEF CtlEntryDone
  <2>2. /\ t \in Store
        /\ Differ(s, t, {"ctlWatch"})
        /\ t.ctlWatch = [s.ctlWatch EXCEPT ![f] = None]
    BY <1>1, CtlDisarmedIs
  <2> HIDE DEF t
  <2>3. /\ t.open = s.open /\ t.clients = s.clients /\ t.pod = s.pod
        /\ t.toRemove = s.toRemove /\ t.toAdd = s.toAdd /\ t.vtWatch = s.vtWatch
        /\ t.ctlClose = s.ctlClose /\ t.vtClose = s.vtClose
    BY <2>2 DEF Differ, Names
  <2>4. /\ s.ctlWatch \in [Fds -> Conns \union {None}]
        /\ \A d \in s.clients : d.ctl \in Fds /\ d.who # None
        /\ \A b \in C \union V : b.fd \in Fds
        /\ s.toRemove \subseteq Fds
    <3>1. \A d \in s.clients : d.ctl \in Fds /\ d.who # None
      BY <1>1, ClientIs DEF Conns, None
    <3>2. s.ctlWatch \in [Fds -> Conns \union {None}] /\ s.toRemove \subseteq Fds
      BY <1>1 DEF Store
    <3>3. \A b \in C \union V : b.fd \in Fds
      BY <1>1 DEF Entry
    <3> QED BY <3>1, <3>2, <3>3
  <2>5. \A g \in Fds : t.ctlWatch[g] \in {None, s.ctlWatch[g]} /\ (g # f => t.ctlWatch[g] = s.ctlWatch[g])
    BY <2>2, <2>4
  <2>6. OwnNumber(t) /\ VtReady(t, V, R)
    BY <1>2, <2>3 DEF Heard, OwnNumber, VtReady
  <2>7. NoCtlRemoved(t) /\ CtlReady(t, X, R)
    BY <1>2, <2>3, <2>4, <2>5 DEF Heard, NoCtlRemoved, CtlReady, NoneFires
  <2>8. CtlHeard(t, X, T, D)
    <3> SUFFICES ASSUME NEW d \in s.clients, <<"ctl", d.who>> \notin T
                 PROVE  /\ t.ctlWatch[d.ctl] = d.who
                        /\ <<"ctl", d.who>> \in D => Finds(X, d.ctl, d.who)
      BY <2>3 DEF CtlHeard
    <3>1. /\ s.ctlWatch[d.ctl] = d.who
          /\ <<"ctl", d.who>> \in D => Finds(C, d.ctl, d.who)
      BY <1>2 DEF Heard, CtlHeard
    <3>2. d.ctl # f
      BY <1>5, <2>4, <3>1 DEF Recorded
    <3> QED BY <2>4, <2>5, <3>1, <3>2 DEF Finds
  <2>9. VtHeard(t, V, T, D)
    <3>1. \A g : IsRef(t, g) <=> IsRef(s, g)
      BY <2>3 DEF IsRef
    <3> QED BY <1>2, <2>3, <3>1 DEF Heard, VtHeard
  <2>10. Heard(t, X, V, T, D, R)
    BY <2>6, <2>7, <2>8, <2>9 DEF Heard
  <2> QED BY <2>1, <2>3, <2>10 DEF HeardOn
<1>6. CASE ~(e.node # None /\ s.ctlWatch[f] # e.node) /\ ~IsNoted(s, f)
  <2>1. e.whose = s.open[f]
    BY <1>6 DEF Good, Due
  <2>2. u = CtlGone(t, f, parked)
    BY <1>6, <2>1 DEF CtlEntryDone, Harmed
  <2>3. HasGone(s, u, e.fd)
    BY <1>6, <2>2, CtlGoneHeard
  <2>4. Range(s.ctlClose) \subseteq Range(u.ctlClose)
    BY <2>3 DEF HasGone, WaitersListed
  <2>5. \A d \in u.clients : d.ctl # e.fd
    BY <2>3 DEF HasGone, ClientAt
  <2> QED BY <1>3, <2>3, <2>4, <2>5 DEF HasGone, HeardOn
<1> QED BY <1>4, <1>5, <1>6 DEF HeardOn

\* The same of the other list.
LEMMA VtEntryDoneHeard ==
  ASSUME NEW s, NEW V, NEW K, Good(s, {}, V, K),
         NEW S, NEW D, NEW R, NoneFires(R), Heard(s, {}, V, S, D, R),
         NEW e \in V, NEW X \in SUBSET V, V \ X \subseteq {e},
         NEW T, S \subseteq T, Recorded(s, "vt", s.vtWatch, e, T),
         s.toAdd = {}, NEW u, u = VtEntryDone(s, e)
  PROVE  /\ Heard(u, {}, X, T, D, R)
         /\ u.ctlClose = s.ctlClose /\ u.vtClose = s.vtClose
<1> DEFINE f == e.fd
           t == VtDisarmed(s, f)
<1>1. s \in Store /\ V \in SUBSET Entry /\ e \in Entry /\ f \in Fds
  BY DEF Good, Typed, Entry
<1>2. Heard(s, {}, V, T, D, R)
  <2>1. D \in SUBSET D /\ R \in SUBSET R
    OBVIOUS
  <2> QED BY <2>1, HeardLess
<1>3. ASSUME u \in Store, Spares(s, u),
             IsRef(u, f) /\ <<"vt", u.open[f]>> \notin T => e.node \notin {None, u.open[f]}
      PROVE  Heard(u, {}, X, T, D, R)
  <2>1. \A g \in Fds, b \in V \ X :
          IsRef(u, g) /\ <<"vt", u.open[g]>> \notin T => ~(b.fd = g /\ b.node \in {None, u.open[g]})
    BY <1>3
  <2>2. {} \in SUBSET Entry /\ {} \in SUBSET {}
    OBVIOUS
  <2>3. \A d \in u.clients, b \in {} \ {} :
          <<"ctl", d.who>> \notin T => ~(b.fd = d.ctl /\ b.node \in {None, d.who})
    OBVIOUS
  <2> QED BY <1>1, <1>2, <1>3, <2>1, <2>2, <2>3, SparesLess
<1>6. \A g \in Fds : IsRef(s, g) /\ <<"vt", s.open[g]>> \notin T => s.vtWatch[g] = s.open[g]
  BY <1>2 DEF Heard, VtHeard
<1>4. CASE e.node # None /\ s.vtWatch[f] # e.node
  <2>1. u = s
    BY <1>4 DEF VtEntryDone
  <2>2. Spares(s, s)
    BY DEF Spares
  <2> QED BY <1>1, <1>3, <1>4, <1>6, <2>1, <2>2
<1>5. CASE ~(e.node # None /\ s.vtWatch[f] # e.node)
  <2>1. /\ t \in Store
        /\ Differ(s, t, {"vtWatch"})
        /\ t.vtWatch = [s.vtWatch EXCEPT ![f] = None]
    BY <1>1, VtDisarmedIs
  <2>2. u = IF IsNoted(s, f) THEN t
            ELSE VtGone(Harmed(t, "foreign close", e.whose # s.open[f]), f)
    BY <1>5 DEF VtEntryDone
  <2> HIDE DEF t
  <2>3. /\ t.open = s.open /\ t.clients = s.clients /\ t.pod = s.pod
        /\ t.noted = s.noted /\ t.notedBefore = s.notedBefore
        /\ t.toRemove = s.toRemove /\ t.toAdd = s.toAdd /\ t.ctlWatch = s.ctlWatch
        /\ t.ctlClose = s.ctlClose /\ t.vtClose = s.vtClose
    BY <2>1 DEF Differ, Names
  <2>4. s.vtWatch \in [Fds -> Conns \union {None}]
    BY <1>1 DEF Store
  <2>5. \A g \in Fds : t.vtWatch[g] \in {None, s.vtWatch[g]} /\ (g # f => t.vtWatch[g] = s.vtWatch[g])
    BY <2>1, <2>4
  <2>6. CASE IsNoted(s, f)
    <3>1. u = t
      BY <2>2, <2>6
    <3>2. \A g : IsRef(t, g) <=> IsRef(s, g)
      BY <2>3 DEF IsRef
    <3>3. /\ \A g \in Fds : IsRef(s, g) => s.open[g] # None
          /\ \A b \in V : b.fd \in Fds
      BY RefIs DEF Good, Typed, Entry
    <3>4. OwnNumber(t) /\ NoCtlRemoved(t)
      BY <1>2, <2>3, <2>5 DEF Heard, OwnNumber, NoCtlRemoved
    <3>5. CtlReady(t, {}, R) /\ VtReady(t, X, R)
      BY <1>2, <2>3, <2>5, <3>3 DEF Heard, CtlReady, VtReady, NoneFires
    <3>6. CtlHeard(t, {}, T, D)
      BY <1>2, <2>3 DEF Heard, CtlHeard
    <3>7. ASSUME NEW g \in Fds, IsRef(s, g), <<"vt", s.open[g]>> \notin T
          PROVE  /\ t.vtWatch[g] = s.open[g]
                 /\ <<"vt", s.open[g]>> \in D => Finds(X, g, s.open[g])
      <4>1. s.vtWatch[g] = s.open[g]
        BY <1>6, <3>7
      <4>2. g # f
        BY <1>5, <2>6, <3>3, <3>7, <4>1 DEF Recorded
      <4>3. <<"vt", s.open[g]>> \in D => Finds(V, g, s.open[g])
        BY <1>2, <3>7 DEF Heard, VtHeard
      <4> QED BY <2>5, <4>1, <4>2, <4>3 DEF Finds
    <3>8. VtHeard(t, X, T, D)
      BY <2>3, <3>2, <3>7 DEF VtHeard
    <3>9. Heard(t, {}, X, T, D, R)
      BY <3>4, <3>5, <3>6, <3>8 DEF Heard
    <3> QED BY <2>3, <3>1, <3>9
  <2>7. CASE ~IsNoted(s, f)
    <3> DEFINE a == VtForgotten(t, f)
               b == VtDropped(a, f)
    <3>1. e.whose = s.open[f]
      BY <2>7 DEF Good, Due
    <3>2. u = Closed(b, {f})
      BY <2>2, <2>7, <3>1 DEF Harmed, VtGone
    <3>3. /\ a \in Store
          /\ Differ(t, a, {"pod", "podWho", "clients"})
          /\ a.pod = [p \in Panes |-> IF t.pod[p] = f THEN None ELSE t.pod[p]]
          /\ a.podWho = [p \in Panes |-> IF t.pod[p] = f THEN None ELSE t.podWho[p]]
          /\ a.clients = {IF c.vt = f THEN Unrouted(c) ELSE c : c \in t.clients}
      BY <1>1, <2>1, VtForgottenIs
    <3> HIDE DEF a
    <3>4. b \in Store /\ Differ(a, b, {"vtHalf"})
      BY <1>1, <3>3, VtDroppedIs
    <3> HIDE DEF b
    <3>5. /\ u \in Store
          /\ Differ(b, u, {"open"})
          /\ u.open = [g \in Fds |-> IF g \in {f} THEN None ELSE b.open[g]]
      BY <1>1, <3>2, <3>4, ClosedIs
    <3>6. Differ(s, u, {"vtWatch", "pod", "podWho", "clients", "vtHalf", "open"})
      BY <2>1, <3>3, <3>4, <3>5 DEF Differ
    <3>7. /\ u.noted = s.noted /\ u.notedBefore = s.notedBefore
          /\ u.toRemove = s.toRemove /\ u.toAdd = s.toAdd /\ u.ctlWatch = s.ctlWatch
          /\ u.ctlClose = s.ctlClose /\ u.vtClose = s.vtClose
      BY <3>6 DEF Differ, Names
    <3>8. /\ u.vtWatch = t.vtWatch /\ u.pod = a.pod /\ u.clients = a.clients /\ b.open = s.open
      BY <2>3, <3>3, <3>4, <3>5 DEF Differ, Names
    <3>9. None # f
      BY <1>1 DEF Fds, None
    <3>10. ASSUME NEW d \in u.clients
           PROVE  \E c \in s.clients :
                    d.ctl = c.ctl /\ d.who = c.who /\ d.vt # f /\ (d.vt # None => d.vt = c.vt)
      <4>1. PICK c \in s.clients : d = IF c.vt = f THEN Unrouted(c) ELSE c
        BY <2>3, <3>3, <3>8
      <4>2. CASE c.vt = f
        BY <3>9, <4>1, <4>2 DEF Unrouted
      <4>3. CASE c.vt # f
        BY <4>1, <4>3
      <4> QED BY <4>2, <4>3
    <3>11. \A p \in Panes : u.pod[p] # f /\ (u.pod[p] # None => u.pod[p] = s.pod[p])
      BY <2>3, <3>3, <3>8, <3>9
    <3>12. \A g \in Fds : IsRef(u, g) => IsRef(s, g) /\ g # f
      <4>1. \A g \in Fds : g # None
        BY DEF Fds, None
      <4> QED BY <3>10, <3>11, <4>1 DEF IsRef
    <3>13. \A g \in Fds : u.open[g] \in {None, s.open[g]} /\ (g # f => u.open[g] = s.open[g])
      BY <3>5, <3>8
    <3>14. \A d \in u.clients : \E c \in s.clients :
             d.ctl = c.ctl /\ d.who = c.who /\ u.ctlWatch[c.ctl] = s.ctlWatch[c.ctl]
      BY <3>7, <3>10
    <3>15. Spares(s, u)
      BY <2>5, <3>7, <3>8, <3>12, <3>13, <3>14 DEF Spares
    <3>16. ~IsRef(u, f)
      BY <1>1, <3>12
    <3> QED BY <1>3, <3>5, <3>7, <3>15, <3>16
  <2> QED BY <2>6, <2>7
<1> QED BY <1>4, <1>5

-----------------------------------------------------------------------------
(* The operations of a handler                                             *)

\* Between two turns all that is listed is still to be worked off.
Hears(s, S, D, R) == Heard(s, Range(s.ctlClose), Range(s.vtClose), S, D, R)

\* What a handler may change freely.
Aside == Unheard \ {"ctlClose", "vtClose"}

LEMMA SameHears ==
  ASSUME NEW s, NEW t, NEW S, NEW D, NEW R, Hears(s, S, D, R), Differ(s, t, Aside)
  PROVE  Hears(t, S, D, R)
<1>1. t.ctlClose = s.ctlClose /\ t.vtClose = s.vtClose
  BY DEF Differ, Names, Aside, Unheard
<1>2. Differ(s, t, Unheard)
  BY DEF Differ, Aside
<1> QED BY <1>1, <1>2, HeardSame DEF Hears

LEMMA HearsLess ==
  ASSUME NEW s, NEW S, NEW D, NEW R, Hears(s, S, D, R), NEW P \in SUBSET D, NEW Q \in SUBSET R
  PROVE  Hears(s, S, P, Q)
<1>1. S \subseteq S
  OBVIOUS
<1> QED BY <1>1, HeardLess DEF Hears

\* A VT watcher that may fire is of the connection that has the number.
FiresOwn(s, R) == \A f \in Fds : <<"vt", s.open[f]>> \in R => s.vtWatch[f] = s.open[f]

\* Nothing of the past is kept under the number of a new connection.
LEMMA AcceptedHears ==
  ASSUME NEW s, NEW K, Fit(s, K), NEW S, NEW D, NEW R, Hears(s, S, D, R),
         NoneFires(R), FiresOwn(s, R), next \in Conns, next \notin K,
         \E f \in Fds : s.open[f] = None, <<"vt", next>> \notin R
  PROVE  Hears(Accepted(s), S, D, R)
<1> DEFINE f == LowestFree(s)
           a == Opened(s, next)
           b == Disarmed(a)
           t == Armed(b)
           C == Range(s.ctlClose)
           V == Range(s.vtClose)
           L == K \union {next}
<1>1. f \in Fds /\ s.open[f] = None
  BY LowestFreeIs
<1>2. s \in Store
  BY FitStore
<1>3. a \in Store /\ Differ(s, a, {"open"}) /\ a.open = [s.open EXCEPT ![f] = next]
  BY <1>1, <1>2, OpenedIs
<1>4. t = Accepted(s)
  BY DEF Accepted, Updated
<1> HIDE DEF a, f
<1>5. Good(s, C, V, K) /\ Heard(s, C, V, S, D, R)
  BY DEF Fit, Hears
<1> HIDE DEF C, V
<1>6. Good(a, C, V, L)
  BY <1>1, <1>3, <1>5, OpenedGood
<1>7. Heard(a, C, V, S, D, R)
  BY <1>1, <1>3, <1>5, OpenedHeard
<1>8. Good(b, C, V, L) /\ Heard(b, C, V, S, D, R)
  BY <1>6, <1>7, DisarmedGood, DisarmedHeard
<1>9. /\ b.toRemove = {} /\ b \in Store
      /\ Differ(a, b, {"ctlWatch", "vtWatch", "ctlHalf", "vtHalf", "outq", "unregistered", "toRemove"})
      /\ b.vtWatch = [g \in Fds |-> IF g \in a.toRemove THEN None ELSE a.vtWatch[g]]
  BY <1>3, DisarmedIs
<1> HIDE DEF b
<1>10. ASSUME NEW g \in b.toAdd, b.vtWatch[g] = None PROVE <<"vt", b.open[g]>> \notin R
  <2>1. /\ b.open = a.open /\ a.vtWatch = s.vtWatch /\ a.toRemove = s.toRemove
        /\ g \in Fds
    BY <1>3, <1>9 DEF Differ, Names, Store
  <2>2. CASE g = f
    <3>1. s.open \in [Fds -> Conns \union {None}]
      BY <1>2 DEF Store
    <3> QED BY <1>3, <2>1, <2>2, <3>1
  <2>3. CASE g # f
    <3>1. b.open[g] = s.open[g]
      BY <1>2, <1>3, <2>1, <2>3 DEF Store
    <3>2. ASSUME s.open[g] # None, s.vtWatch[g] = s.open[g] PROVE FALSE
      <4>1. g \in s.toRemove
        BY <1>9, <1>10, <2>1, <3>2
      <4> QED BY <1>5, <3>2, <4>1 DEF Good, Stale
    <3> QED BY <2>1, <3>1, <3>2 DEF FiresOwn, NoneFires
  <2> QED BY <2>2, <2>3
<1>11. Heard(t, C, V, S, D, R)
  BY <1>8, <1>9, <1>10, ArmedHeard
<1>12. Differ(b, t, {"vtWatch", "pod", "toAdd"})
  BY <1>9, ArmedIs
<1> HIDE DEF t
<1>13. t.ctlClose = s.ctlClose /\ t.vtClose = s.vtClose
  BY <1>3, <1>9, <1>12 DEF Differ, Names
<1> QED BY <1>4, <1>11, <1>13 DEF Hears, C, V

\* What a number that is listed leaves in the list.
LEMMA CtlListedAdds ==
  ASSUME NEW s \in Store, NEW f \in Fds, NEW node \in Conns \union {None}
  PROVE  \/ /\ Range(CtlListed(s, f, node).ctlClose) = Range(s.ctlClose)
            /\ \E x \in Range(s.ctlClose) : x.fd = f
         \/ Range(CtlListed(s, f, node).ctlClose) = Range(s.ctlClose) \union {EntryOf(s, f, node)}
<1> DEFINE e == EntryOf(s, f, node)
           old == s.ctlClose
<1>1. CtlListed(s, f, node).ctlClose = Listed(old, e)
  BY CtlListedIs
<1>2. e \in Entry /\ e.fd = f /\ old \in Seq(Entry)
  BY EntryOfIs DEF Store
<1> HIDE DEF e, old
<1>3. \/ Range(Listed(old, e)) = Range(old) /\ \E x \in Range(old) : x.fd = e.fd
      \/ Range(Listed(old, e)) = Range(old) \union {e} /\ \A x \in Range(old) : x.fd # e.fd
  BY <1>2, ListedIs
<1> QED BY <1>1, <1>2, <1>3 DEF e, old

LEMMA VtListedAdds ==
  ASSUME NEW s \in Store, NEW f \in Fds, NEW node \in Conns \union {None}
  PROVE  \/ /\ Range(VtListed(s, f, node).vtClose) = Range(s.vtClose)
            /\ \E x \in Range(s.vtClose) : x.fd = f
         \/ Range(VtListed(s, f, node).vtClose) = Range(s.vtClose) \union {EntryOf(s, f, node)}
<1> DEFINE e == EntryOf(s, f, node)
           old == s.vtClose
<1>1. VtListed(s, f, node).vtClose = Listed(old, e)
  BY VtListedIs
<1>2. e \in Entry /\ e.fd = f /\ old \in Seq(Entry)
  BY EntryOfIs DEF Store
<1> HIDE DEF e, old
<1>3. \/ Range(Listed(old, e)) = Range(old) /\ \E x \in Range(old) : x.fd = e.fd
      \/ Range(Listed(old, e)) = Range(old) \union {e} /\ \A x \in Range(old) : x.fd # e.fd
  BY <1>2, ListedIs
<1> QED BY <1>1, <1>2, <1>3 DEF e, old

\* A number may be listed.
LEMMA CtlListedHears ==
  ASSUME NEW s \in Store, NEW S, NEW D, NEW R, Hears(s, S, D, R), NEW f \in Fds,
         NEW node \in Conns \union {None}, CtlMayList(s, R, EntryOf(s, f, node))
  PROVE  Hears(CtlListed(s, f, node), S, D, R)
<1> DEFINE t == CtlListed(s, f, node)
           e == EntryOf(s, f, node)
           C == Range(s.ctlClose)
           V == Range(s.vtClose)
<1>1. Range(t.ctlClose) = C \/ Range(t.ctlClose) = C \union {e}
  BY CtlListedAdds
<1>2. Differ(s, t, {"ctlClose"})
  BY CtlListedIs
<1> HIDE DEF t, e
<1>3. t.vtClose = s.vtClose /\ Differ(s, t, Unheard)
  BY <1>2 DEF Differ, Names, Unheard
<1>4. Heard(s, C, V, S, D, R) /\ \A x \in {e} : CtlMayList(s, R, x)
  BY DEF Hears, e
<1> HIDE DEF C, V
<1>5. Heard(s, C \union {e}, V, S, D, R)
  BY <1>4, CtlAdded
<1>6. Heard(t, C, V, S, D, R) /\ Heard(t, C \union {e}, V, S, D, R)
  BY <1>3, <1>4, <1>5, HeardSame
<1> QED BY <1>1, <1>3, <1>6 DEF Hears, t, V

LEMMA VtListedHears ==
  ASSUME NEW s \in Store, NEW S, NEW D, NEW R, Hears(s, S, D, R), NEW f \in Fds,
         NEW node \in Conns \union {None}, VtMayList(s, R, EntryOf(s, f, node))
  PROVE  Hears(VtListed(s, f, node), S, D, R)
<1> DEFINE t == VtListed(s, f, node)
           e == EntryOf(s, f, node)
           C == Range(s.ctlClose)
           V == Range(s.vtClose)
<1>1. Range(t.vtClose) = V \/ Range(t.vtClose) = V \union {e}
  BY VtListedAdds
<1>2. Differ(s, t, {"vtClose"})
  BY VtListedIs
<1> HIDE DEF t, e
<1>3. t.ctlClose = s.ctlClose /\ Differ(s, t, Unheard)
  BY <1>2 DEF Differ, Names, Unheard
<1>4. Heard(s, C, V, S, D, R) /\ \A x \in {e} : VtMayList(s, R, x)
  BY DEF Hears, e
<1> HIDE DEF C, V
<1>5. Heard(s, C, V \union {e}, S, D, R)
  BY <1>4, VtAdded
<1>6. Heard(t, C, V, S, D, R) /\ Heard(t, C, V \union {e}, S, D, R)
  BY <1>3, <1>4, <1>5, HeardSame
<1> QED BY <1>1, <1>3, <1>6 DEF Hears, t, C

\* An entry that names no watcher may always be.
LEMMA MayListAny ==
  ASSUME NEW s, Own(s), NEW R, NoneFires(R), NEW e, e.fd \in Fds, e.node = None, e.whose = s.open[e.fd]
  PROVE  CtlMayList(s, R, e) /\ VtMayList(s, R, e)
BY DEF Own, NoneFires, CtlMayList, VtMayList

\* Several numbers may be listed.
LEMMA AllListedHears ==
  ASSUME NEW s \in Store, Own(s), NEW S, NEW D, NEW R, NoneFires(R), Hears(s, S, D, R),
         NEW fds \in SUBSET Fds
  PROVE  Hears(AllListed(s, fds), S, D, R)
<1> DEFINE t == AllListed(s, fds)
           C == Range(s.ctlClose)
           V == Range(s.vtClose)
<1>1. PICK E \in SUBSET Entry :
        /\ Range(t.ctlClose) = Range(s.ctlClose) \union E
        /\ \A e \in E : e.fd \in fds /\ e.whose = s.open[e.fd] /\ e.node = None
  BY AllListedIs
<1>2. Differ(s, t, {"ctlClose"})
  BY AllListedIs
<1> HIDE DEF t
<1>3. t.vtClose = s.vtClose /\ Differ(s, t, Unheard)
  BY <1>2 DEF Differ, Names, Unheard
<1>4. Heard(s, C, V, S, D, R) /\ \A e \in E : CtlMayList(s, R, e)
  BY <1>1, MayListAny DEF Hears
<1> HIDE DEF C, V
<1>5. Heard(s, C \union E, V, S, D, R)
  BY <1>4, CtlAdded
<1>6. Heard(t, C \union E, V, S, D, R)
  BY <1>3, <1>5, HeardSame
<1> QED BY <1>1, <1>3, <1>6 DEF Hears, t, C, V

\* A client is lost.
LEMMA RemovedHears ==
  ASSUME NEW s, NEW K, Fit(s, K), NEW S, NEW D, NEW R, NoneFires(R), Hears(s, S, D, R),
         NEW c \in s.clients, NEW parked \in SUBSET Panes
  PROVE  Hears(Removed(s, c, parked), S, D, R)
<1> DEFINE t == Removed(s, c, parked)
           C == Range(s.ctlClose)
           V == Range(s.vtClose)
<1>1. s \in Store /\ C \in SUBSET Entry /\ V \in SUBSET Entry
  BY DEF Fit, Good, Typed
<1>2. Good(s, C, V, K) /\ Heard(s, C, V, S, D, R)
  BY DEF Fit, Hears
<1> HIDE DEF C, V
<1>3. t \in Store /\ t.vtClose = s.vtClose /\ WaitersListed(s, t)
  BY <1>2, RemovedLists
<1>4. Spares(s, t)
  BY <1>2, RemovedSpares
<1> HIDE DEF t
<1>5. PICK E \in SUBSET Entry :
        /\ Range(t.ctlClose) = Range(s.ctlClose) \union E
        /\ \A e \in E : e.node = None /\ e.whose = s.open[e.fd] /\ CliUse(s, e.fd)
  BY <1>3 DEF WaitersListed
<1>6. \A e \in E : CtlMayList(s, R, e)
  BY <1>2, <1>5, MayListAny DEF Good, Entry
<1>7. Heard(s, C \union E, V, S, D, R)
  BY <1>2, <1>6, CtlAdded
<1>8. C \union E \in SUBSET Entry /\ C \union E \subseteq Entry
  BY <1>1
<1>9. Heard(t, C \union E, V, S, D, R)
  BY <1>1, <1>3, <1>4, <1>7, <1>8, SparesHeard
<1> QED BY <1>3, <1>5, <1>9 DEF Hears, t, C, V

\* A pane is killed.
LEMMA PodKilledHears ==
  ASSUME NEW s, NEW K, Fit(s, K), NEW S, NEW D, NEW R, NoneFires(R), Hears(s, S, D, R),
         NEW ps \in SUBSET Panes
  PROVE  Hears(PodsClosed(s, ps), S, D, R)
<1> DEFINE t == PodsClosed(s, ps)
<1>1. Heard(t, Range(s.ctlClose), Range(s.vtClose), S, D, R)
  BY PodsClosedHeard DEF Fit, Hears
<1>2. Differ(s, t, {"open", "noted", "toRemove", "pod", "podWho"})
  BY FitStore, PodsClosedIs
<1> HIDE DEF t
<1>3. t.ctlClose = s.ctlClose /\ t.vtClose = s.vtClose
  BY <1>2 DEF Differ, Names
<1> QED BY <1>1, <1>3 DEF Hears, t

\* A connection answered in the handler is closed.
LEMMA AtOnceHears ==
  ASSUME NEW s, NEW K, Fit(s, K), NEW S, NEW D, NEW R, NoneFires(R), Hears(s, S, D, R),
         NEW f, OnlyListed(s, f)
  PROVE  Hears(ClosedAtOnce(s, {f}), S, D, R)
<1> DEFINE t == ClosedAtOnce(s, {f})
           C == Range(s.ctlClose)
           V == Range(s.vtClose)
<1>1. s \in Store /\ f \in Fds /\ ~VtUse(s, V, f)
  BY FitStore DEF OnlyListed, IsCtl, CtlMay
<1>2. /\ t \in Store
      /\ Differ(s, t, {"open", "noted"})
      /\ t.open = [g \in Fds |-> IF g \in {f} THEN None ELSE s.open[g]]
      /\ t.noted = s.noted \union {f}
  BY <1>1, ClosedAtOnceIs
<1> HIDE DEF t
<1>3. /\ t.ctlWatch = s.ctlWatch /\ t.vtWatch = s.vtWatch
      /\ t.vtClose = s.vtClose /\ t.ctlClose = s.ctlClose
      /\ t.notedBefore = s.notedBefore
      /\ t.toRemove = s.toRemove /\ t.toAdd = s.toAdd
      /\ t.clients = s.clients /\ t.pod = s.pod
  BY <1>2 DEF Differ, Names
<1>4. \A g \in Fds : IsRef(t, g) => IsRef(s, g) /\ g # f
  BY <1>1, <1>3 DEF IsRef, VtUse
<1>5. t.ctlWatch[f] = None /\ \A d \in t.clients : d.ctl # f
  BY <1>3 DEF OnlyListed
<1>6. \A g \in Fds : (t.open[g] = None /\ g = f) \/ t.open[g] = s.open[g]
  BY <1>2
<1>7. Spares(s, t)
  BY <1>2, <1>3, <1>4, <1>5, <1>6 DEF Spares
<1>8. C \in SUBSET Entry /\ V \in SUBSET Entry /\ Heard(s, C, V, S, D, R)
  BY DEF Fit, Good, Typed, Hears
<1>9. Heard(t, C, V, S, D, R)
  <2> HIDE DEF C, V
  <2> QED BY <1>1, <1>2, <1>7, <1>8, SparesHeard
<1> QED BY <1>3, <1>9 DEF Hears, t

\* A connection turned away is closed without a note.
LEMMA TurnedAwayHears ==
  ASSUME NEW s, NEW K, Fit(s, K), NEW S, NEW D, NEW R, NoneFires(R), Hears(s, S, D, R),
         NEW f, IsFresh(s, f)
  PROVE  Hears(Closed(s, {f}), S, D, R)
<1> DEFINE t == Closed(s, {f})
           C == Range(s.ctlClose)
           V == Range(s.vtClose)
<1>1. s \in Store /\ f \in Fds /\ ~VtUse(s, V, f)
  BY FitStore DEF IsFresh, Fresh, Used
<1>2. /\ t \in Store
      /\ Differ(s, t, {"open"})
      /\ t.open = [g \in Fds |-> IF g \in {f} THEN None ELSE s.open[g]]
  BY <1>1, ClosedIs
<1> HIDE DEF t
<1>3. /\ t.ctlWatch = s.ctlWatch /\ t.vtWatch = s.vtWatch
      /\ t.vtClose = s.vtClose /\ t.ctlClose = s.ctlClose
      /\ t.noted = s.noted /\ t.notedBefore = s.notedBefore
      /\ t.toRemove = s.toRemove /\ t.toAdd = s.toAdd
      /\ t.clients = s.clients /\ t.pod = s.pod
  BY <1>2 DEF Differ, Names
<1>4. \A g \in Fds : IsRef(t, g) => IsRef(s, g) /\ g # f
  BY <1>1, <1>3 DEF IsRef, VtUse
<1>5. \A g \in Fds : (t.open[g] = None /\ g = f) \/ t.open[g] = s.open[g]
  BY <1>2
<1>6. C \in SUBSET Entry /\ V \in SUBSET Entry /\ Heard(s, C, V, S, D, R)
  BY DEF Fit, Good, Typed, Hears
<1>7. Spares(s, t)
  BY <1>3, <1>4, <1>5 DEF Spares
<1>8. Heard(t, C, V, S, D, R)
  <2> HIDE DEF C, V
  <2> QED BY <1>1, <1>2, <1>6, <1>7, SparesHeard
<1> QED BY <1>3, <1>8 DEF Hears, t

\* A watcher is armed for a number that nobody uses; it fires in a later turn.
LEMMA WatchedHears ==
  ASSUME NEW s \in Store, NEW t, NEW S, NEW D, NEW R, Hears(s, S, D, R), NEW f \in Fds, NEW m \in Conns,
         Differ(s, t, Aside \union {"ctlWatch"}), t.ctlWatch = [s.ctlWatch EXCEPT ![f] = m],
         \A c \in s.clients : c.ctl # f, s.toRemove = {}, <<"ctl", m>> \notin R
  PROVE  Hears(t, S, D, R)
<1> DEFINE C == Range(s.ctlClose)
           V == Range(s.vtClose)
<1>1. /\ t.open = s.open /\ t.clients = s.clients /\ t.pod = s.pod
      /\ t.toRemove = s.toRemove /\ t.toAdd = s.toAdd /\ t.vtWatch = s.vtWatch
      /\ t.ctlClose = s.ctlClose /\ t.vtClose = s.vtClose
  BY DEF Differ, Names, Aside, Unheard
<1>2. s.ctlWatch \in [Fds -> Conns \union {None}]
  BY DEF Store
<1>3. t.ctlWatch[f] = m /\ \A g \in Fds \ {f} : t.ctlWatch[g] = s.ctlWatch[g]
  BY <1>2
<1>4. Heard(s, C, V, S, D, R)
  BY DEF Hears
<1> HIDE DEF C, V
<1>5. \A g : IsRef(t, g) <=> IsRef(s, g)
  BY <1>1 DEF IsRef
<1>6. CtlReady(t, C, R)
  <2>1. C \subseteq Entry
    BY SeqRange DEF C, Store
  <2> QED BY <1>3, <1>4, <2>1 DEF Heard, CtlReady, Entry
<1>7. CtlHeard(t, C, S, D)
  <2>1. \A c \in s.clients : t.ctlWatch[c.ctl] = s.ctlWatch[c.ctl]
    BY <1>3, ClientIs
  <2> QED BY <1>1, <1>4, <2>1 DEF Heard, CtlHeard
<1>8. OwnNumber(t) /\ NoCtlRemoved(t) /\ VtReady(t, V, R) /\ VtHeard(t, V, S, D)
  BY <1>1, <1>4, <1>5 DEF Heard, OwnNumber, NoCtlRemoved, VtReady, VtHeard
<1>9. Heard(t, C, V, S, D, R)
  BY <1>6, <1>7, <1>8 DEF Heard
<1> QED BY <1>1, <1>9 DEF Hears, C, V

\* A client takes a new VT connection.  Nothing is known of the one it had.
LEMMA VtTakenHeard ==
  ASSUME NEW s, NEW t, NEW C, NEW V, NEW K, Good(s, C, V, K),
         NEW S, NEW D, NEW R, Heard(s, C, V, S, D, R),
         NEW f, Fresh(s, C, V, f), <<"vt", s.open[f]>> \notin D \union R,
         NEW c \in s.clients, NEW d, d.ctl = c.ctl, d.who = c.who, d.vt = f,
         Differ(s, t, {"clients", "vtWatch", "vtClose"}), t.clients = (s.clients \ {c}) \union {d},
         t.vtWatch = [s.vtWatch EXCEPT ![f] = s.open[f]]
  PROVE  /\ Heard(t, C, V, S, D, R)
         /\ c.vt # None => ~IsRef(t, c.vt)
<1>1. /\ t.open = s.open /\ t.pod = s.pod /\ t.ctlWatch = s.ctlWatch
      /\ t.noted = s.noted /\ t.notedBefore = s.notedBefore
      /\ t.toRemove = s.toRemove /\ t.toAdd = s.toAdd
  BY DEF Differ, Names
<1>2. s.vtWatch \in [Fds -> Conns \union {None}] /\ f \in Fds
  BY DEF Good, Typed, Store, Fresh
<1>3. t.vtWatch[f] = s.open[f] /\ \A g \in Fds \ {f} : t.vtWatch[g] = s.vtWatch[g]
  BY <1>2
<1>4. ~IsRef(s, f)
  BY DEF Fresh, Used, VtUse, IsRef
<1>5. \A g : IsRef(t, g) => g = f \/ IsRef(s, g)
  BY <1>1 DEF IsRef
<1>8. \A b \in t.clients : \E a \in s.clients : b.ctl = a.ctl /\ b.who = a.who
  OBVIOUS
<1>9. OwnNumber(t)
  BY <1>1, <1>2, <1>3 DEF Heard, OwnNumber
<1>10. NoCtlRemoved(t) /\ CtlReady(t, C, R) /\ CtlHeard(t, C, S, D)
  BY <1>1, <1>8 DEF Heard, NoCtlRemoved, CtlReady, CtlHeard
<1>11. VtReady(t, V, R)
  <2>1. \A e \in V : e.fd \in Fds
    BY DEF Good, Typed, Entry
  <2> QED BY <1>1, <1>3, <2>1 DEF Heard, VtReady
<1>13. VtHeard(t, V, S, D)
  <2> SUFFICES ASSUME NEW g \in Fds, IsRef(t, g), <<"vt", t.open[g]>> \notin S
               PROVE  /\ t.vtWatch[g] = t.open[g] \/ g \in t.toAdd
                      /\ <<"vt", t.open[g]>> \in D =>
                           Finds(V, g, t.open[g])
    BY DEF VtHeard
  <2>1. CASE g = f
    BY <1>1, <1>3, <2>1
  <2>2. CASE g # f
    BY <1>1, <1>3, <1>5, <2>2 DEF Heard, VtHeard
  <2> QED BY <2>1, <2>2
<1>14. Heard(t, C, V, S, D, R)
  BY <1>9, <1>10, <1>11, <1>13 DEF Heard
<1>15. ASSUME c.vt # None PROVE ~IsRef(t, c.vt)
  <2>1. c.vt # f
    BY <1>4 DEF IsRef
  <2>2. Apart(s)
    BY DEF Good
  <2> QED BY <1>1, <1>15, <2>1, <2>2 DEF IsRef, Apart
<1> QED BY <1>14, <1>15

\* A frontend registers.  Its watcher has fired.
LEMMA RegisteredHears ==
  ASSUME NEW s \in Store, NEW t, NEW S, NEW D, NEW R, Hears(s, S, D, R), NEW f \in Fds, NEW c,
         c.ctl = f, c.vt = None, c.who = s.ctlWatch[f], s.ctlWatch[f] # None,
         <<"ctl", s.ctlWatch[f]>> \notin D,
         Differ(s, t, {"clients"}), t.clients = s.clients \union {c}
  PROVE  Hears(t, S, D, R)
<1> DEFINE C == Range(s.ctlClose)
           V == Range(s.vtClose)
<1>1. /\ t.open = s.open /\ t.pod = s.pod /\ t.ctlWatch = s.ctlWatch
      /\ t.noted = s.noted /\ t.notedBefore = s.notedBefore
      /\ t.toRemove = s.toRemove /\ t.toAdd = s.toAdd /\ t.vtWatch = s.vtWatch
      /\ t.ctlClose = s.ctlClose /\ t.vtClose = s.vtClose
  BY DEF Differ, Names
<1>2. Heard(s, C, V, S, D, R)
  BY DEF Hears
<1> HIDE DEF C, V
<1>3. \A g \in Fds : IsRef(t, g) <=> IsRef(s, g)
  <2>1. \A g \in Fds : g # None
    BY DEF Fds, None
  <2> QED BY <1>1, <2>1 DEF IsRef
<1>4. OwnNumber(t) /\ NoCtlRemoved(t) /\ CtlReady(t, C, R) /\ VtReady(t, V, R)
  BY <1>1, <1>2 DEF Heard, OwnNumber, NoCtlRemoved, CtlReady, VtReady
<1>5. CtlHeard(t, C, S, D)
  BY <1>1, <1>2 DEF Heard, CtlHeard
<1>6. VtHeard(t, V, S, D)
  BY <1>1, <1>2, <1>3 DEF Heard, VtHeard
<1>7. Heard(t, C, V, S, D, R)
  BY <1>4, <1>5, <1>6 DEF Heard
<1> QED BY <1>1, <1>7 DEF Hears, C, V

\* A pane's pod is dialled.
LEMMA PodTakenHears ==
  ASSUME NEW s \in Store, NEW t, NEW S, NEW D, NEW R, Hears(s, S, D, R), NEW f \in Fds, NEW p \in Panes,
         <<"vt", s.open[f]>> \notin D,
         Differ(s, t, {"pod", "podWho", "toAdd"}), t.pod = [s.pod EXCEPT ![p] = f],
         t.toAdd = s.toAdd \union {f}
  PROVE  Hears(t, S, D, R)
<1> DEFINE C == Range(s.ctlClose)
           V == Range(s.vtClose)
<1>1. /\ t.open = s.open /\ t.clients = s.clients /\ t.ctlWatch = s.ctlWatch
      /\ t.noted = s.noted /\ t.notedBefore = s.notedBefore
      /\ t.toRemove = s.toRemove /\ t.vtWatch = s.vtWatch
      /\ t.ctlClose = s.ctlClose /\ t.vtClose = s.vtClose
  BY DEF Differ, Names
<1>2. Heard(s, C, V, S, D, R)
  BY DEF Hears
<1> HIDE DEF C, V
<1>3. s.pod \in [Panes -> Fds \union {None}]
  BY DEF Store
<1>4. \A q \in Panes : t.pod[q] = f \/ t.pod[q] = s.pod[q]
  BY <1>3
<1>5. \A g : IsRef(t, g) => g = f \/ IsRef(s, g)
  BY <1>1, <1>4 DEF IsRef
<1>6. /\ OwnNumber(t) /\ NoCtlRemoved(t) /\ CtlReady(t, C, R) /\ VtReady(t, V, R)
      /\ CtlHeard(t, C, S, D)
  BY <1>1, <1>2 DEF Heard, OwnNumber, NoCtlRemoved, CtlReady, VtReady, CtlHeard
<1>7. VtHeard(t, V, S, D)
  BY <1>1, <1>2, <1>5 DEF Heard, VtHeard
<1>8. Heard(t, C, V, S, D, R)
  BY <1>6, <1>7 DEF Heard
<1> QED BY <1>1, <1>8 DEF Hears, C, V

LEMMA DialledHears ==
  ASSUME NEW s, NEW K, Fit(s, K), NEW S, NEW D, NEW R, NoneFires(R), Hears(s, S, D, R),
         NEW c \in Conns, c \notin K,
         \E f \in Fds : s.open[f] = None, s.toAdd = {}, NEW p \in Panes,
         <<"vt", c>> \notin D
  PROVE  Hears(Dialled(s, p, c), S, D, R)
<1> DEFINE f == LowestFree(s)
           a == Opened(s, c)
           t == PodsClosed(a, {p})
           u == PodSet(t, p, f, c)
           C == Range(s.ctlClose)
           V == Range(s.vtClose)
           L == K \union {c}
<1>1. f \in Fds /\ s.open[f] = None
  BY LowestFreeIs
<1>2. s \in Store
  BY FitStore
<1>3. a \in Store /\ Differ(s, a, {"open"}) /\ a.open = [s.open EXCEPT ![f] = c]
  BY <1>1, <1>2, OpenedIs
<1>4. u = Dialled(s, p, c)
  BY DEF Dialled, PodSet
<1> HIDE DEF a, f
<1>5. Good(s, C, V, K) /\ Heard(s, C, V, S, D, R)
  BY DEF Fit, Hears
<1> HIDE DEF C, V
<1>6. Good(a, C, V, L) /\ Fresh(a, C, V, f)
  BY <1>1, <1>3, <1>5, OpenedGood
<1>7. Heard(a, C, V, S, D, R)
  BY <1>1, <1>3, <1>5, OpenedHeard
<1>8. {p} \in SUBSET Panes
  OBVIOUS
<1>9. Heard(t, C, V, S, D, R)
  BY <1>6, <1>7, <1>8, PodsClosedHeard
<1>10. /\ t \in Store
       /\ Differ(a, t, {"open", "noted", "toRemove", "pod", "podWho"})
       /\ t.open = [g \in Fds |-> IF g \in PodFds(a, {p}) THEN None ELSE a.open[g]]
  BY <1>3, <1>8, PodsClosedIs
<1> HIDE DEF t
<1>11. t.ctlClose = s.ctlClose /\ t.vtClose = s.vtClose
  BY <1>3, <1>10 DEF Differ, Names
<1>12. t.open[f] = c
  <2>1. f \notin PodFds(a, {p})
    BY <1>6 DEF Fresh, Used, VtUse, PodFds
  <2> QED BY <1>1, <1>2, <1>3, <1>10, <2>1 DEF Store
<1>13. /\ u \in Store
       /\ Differ(t, u, {"pod", "podWho", "toAdd"})
       /\ u.pod = [t.pod EXCEPT ![p] = f]
       /\ u.podWho = [t.podWho EXCEPT ![p] = c]
       /\ u.toAdd = t.toAdd \union {f}
  BY <1>1, <1>10, PodSetIs
<1> HIDE DEF u
<1>14. Hears(t, S, D, R) /\ <<"vt", t.open[f]>> \notin D
  BY <1>9, <1>11, <1>12 DEF Hears, C, V
<1>15. Hears(u, S, D, R)
  BY <1>1, <1>10, <1>13, <1>14, PodTakenHears
<1> QED BY <1>4, <1>15

\* A watcher ends its polls.  Whom it watched is listed, or is no client.
LEMMA CtlDeafened ==
  ASSUME NEW s, NEW S, NEW D, NEW R, Hears(s, S, D, R), NEW m,
         \A c \in s.clients : c.who = m =>
           Finds(Range(s.ctlClose), c.ctl, m)
  PROVE  Hears(s, S, D \union {<<"ctl", m>>}, R)
<1> DEFINE C == Range(s.ctlClose)
           V == Range(s.vtClose)
           n == <<"ctl", m>>
<1>1. Heard(s, C, V, S, D, R)
  BY DEF Hears
<1>2. \A c \in s.clients : c.who = m => Finds(C, c.ctl, c.who)
  OBVIOUS
<1> HIDE DEF C, V
<1>3. CtlHeard(s, C, S, D \union {n})
  BY <1>1, <1>2 DEF Heard, CtlHeard
<1>4. VtHeard(s, V, S, D \union {n})
  BY <1>1 DEF Heard, VtHeard
<1>5. Heard(s, C, V, S, D \union {n}, R)
  BY <1>1, <1>3, <1>4 DEF Heard
<1> QED BY <1>5 DEF Hears, C, V

LEMMA VtDeafened ==
  ASSUME NEW s, NEW S, NEW D, NEW R, Hears(s, S, D, R), NEW m,
         \A f \in Fds : IsRef(s, f) /\ s.open[f] = m =>
           Finds(Range(s.vtClose), f, m)
  PROVE  Hears(s, S, D \union {<<"vt", m>>}, R)
<1> DEFINE C == Range(s.ctlClose)
           V == Range(s.vtClose)
           n == <<"vt", m>>
<1>1. Heard(s, C, V, S, D, R)
  BY DEF Hears
<1>2. \A f \in Fds : IsRef(s, f) /\ s.open[f] = m =>
        Finds(V, f, s.open[f])
  OBVIOUS
<1> HIDE DEF C, V
<1>3. CtlHeard(s, C, S, D \union {n})
  BY <1>1 DEF Heard, CtlHeard
<1>4. VtHeard(s, V, S, D \union {n})
  BY <1>1, <1>2 DEF Heard, VtHeard
<1>5. Heard(s, C, V, S, D \union {n}, R)
  BY <1>1, <1>3, <1>4 DEF Heard
<1> QED BY <1>5 DEF Hears, C, V

-----------------------------------------------------------------------------
(* The steps                                                               *)

\* A reply leaves bytes in a queue, or an entry in the list.
LEMMA RepliedHears ==
  ASSUME NEW s \in Store, Own(s), NEW S, NEW D, NEW R, NoneFires(R), Hears(s, S, D, R),
         NEW f \in Fds, NEW o \in Outcomes
  PROVE  Hears(Replied(s, f, o), S, D, R)
<1>1. CASE o = "fails"
  <2> DEFINE e == EntryOf(s, f, None)
  <2>1. e.fd = f /\ e.node = None /\ e.whose = s.open[f]
    BY DEF EntryOf
  <2> HIDE DEF e
  <2>2. CtlMayList(s, R, e)
    BY <2>1, MayListAny
  <2>3. Hears(CtlListed(s, f, None), S, D, R)
    BY <2>2, CtlListedHears DEF e
  <2> QED BY <1>1, <2>3 DEF Replied
<1>2. CASE o # "fails"
  <2> DEFINE t == [s EXCEPT !.outq[f] = s.outq[f] \union {s.open[f]}]
  <2>1. Replied(s, f, o) = s \/ Replied(s, f, o) = t
    BY <1>2 DEF Replied
  <2>2. Differ(s, t, {"outq"})
    BY DEF Store, Differ, Names
  <2> HIDE DEF t
  <2>3. Differ(s, t, Aside)
    BY <2>2 DEF Differ, Aside, Unheard
  <2> QED BY <2>1, <2>3, SameHears
<1> QED BY <1>1, <1>2

\* What a handler finds ...
LEMMA HearerFinds ==
  ASSUME IHeard, closing = "none"
  PROVE  /\ Fit(ses, 1 .. next - 1) /\ Hears(ses, skipped, Deaf, ready)
         /\ \A n \in ready : n \notin Deaf
         /\ \A n \in Deaf \union ready : n[2] \in 1 .. next - 1 \/ n = Ticker
         /\ NoneFires(ready) /\ FiresOwn(ses, ready)
<1>1. Fit(ses, 1 .. next - 1)
  BY HandlerFinds DEF IHeard
<1>2. Hears(ses, skipped, Deaf, ready)
  BY DEF IHeard, CtlPending, VtPending, Hears
<1>3. ready \subseteq polls \union {Ticker} /\ polls \subseteq Watchers
  BY DEF IHeard, IInv, TypeOK
<1>4. Ticker \notin Watchers
  BY DEF Ticker, Watchers
<1>5. \A f \in Fds : /\ ses.ctlWatch[f] \in (1 .. next - 1) \union {None}
                     /\ ses.vtWatch[f] \in (1 .. next - 1) \union {None}
  BY <1>1 DEF Fit, Good, Typed, Own
<1>6. \A n \in Watched(ses) : n[2] \in (1 .. next - 1) \union {None}
  BY <1>5 DEF Watched
<1>7. \A n \in Watchers : n[2] # None
  BY DEF Watchers, Conns, None
<1>8. Deaf \subseteq Watched(ses) \intersect Watchers /\ polls \subseteq Watched(ses) /\ Deaf \intersect polls = {}
  BY DEF Deaf, IHeard
<1>9. NoneFires(ready)
  BY <1>3, <1>7 DEF NoneFires, Ticker
<1>10. FiresOwn(ses, ready)
  <2> SUFFICES ASSUME NEW f \in Fds, <<"vt", ses.open[f]>> \in ready
               PROVE  ses.vtWatch[f] = ses.open[f]
    BY DEF FiresOwn
  <2>1. <<"vt", ses.open[f]>> \in Watched(ses) /\ ses.open[f] # None
    BY <1>3, <1>7, <1>8 DEF Ticker
  <2>2. PICK g \in Fds : ses.vtWatch[g] = ses.open[f]
    BY <2>1 DEF Watched
  <2>3. OwnNumber(ses)
    BY <1>2 DEF Hears, Heard
  <2> QED BY <2>1, <2>2, <2>3 DEF OwnNumber
<1> QED BY <1>1, <1>2, <1>3, <1>4, <1>6, <1>7, <1>8, <1>9, <1>10

\* ... and what it has to leave.
LEMMA HearerLeaves ==
  ASSUME IHeard, closing = "none", IInv', NEW t, NEW ended, NEW spent, Becomes(t, ended, spent),
         Hears(t, skipped, Deaf \union ended, ready \ (ended \union spent))
  PROVE  IHeard'
<1>1. /\ ses' = t /\ closing' = closing /\ skipped' = skipped
      /\ polls' = (((polls \intersect Watched(t)) \union (Watched(t) \ Watched(ses))) \ ended)
                    \intersect Watchers
      /\ ready' = (ready \ (ended \union spent)) \intersect (Watched(t) \union {Ticker})
  BY DEF Becomes, Polling
<1>2. Deaf' = (Watched(t) \ polls') \intersect Watchers
  BY <1>1 DEF Deaf, Watched
<1>3. Deaf' \in SUBSET (Deaf \union ended)
  BY <1>1, <1>2 DEF Deaf
<1>4. ready' \in SUBSET (ready \ (ended \union spent))
  BY <1>1
<1>5. Hears(t, skipped, Deaf', ready')
  BY <1>3, <1>4, HearsLess
<1>6. CtlPending' = Range(t.ctlClose) /\ VtPending' = Range(t.vtClose)
  BY <1>1 DEF CtlPending, VtPending
<1>7. polls' \subseteq Watched(t)
  BY <1>1
<1> QED BY <1>1, <1>5, <1>6, <1>7 DEF IHeard, Hears, Heard, OwnNumber

\* The watchers that are deaf after a step of the loop were deaf before it.
LEMMA StillDeaf ==
  ASSUME polls \subseteq Watched(ses), polls' = Polling(ses, ses', {})
  PROVE  Deaf' \in SUBSET Deaf /\ polls' \subseteq Watched(ses')
<1>1. polls' = ((polls \intersect Watched(ses')) \union (Watched(ses') \ Watched(ses))) \intersect Watchers
  BY DEF Polling
<1>2. Deaf' = (Watched(ses') \ polls') \intersect Watchers
  BY DEF Deaf, Watched
<1>3. Deaf' \in SUBSET Deaf
  BY <1>1, <1>2 DEF Deaf
<1> QED BY <1>1, <1>3

\* What a step of the loop has to show.
LEMMA LoopHeard ==
  ASSUME IHeard, IInv', NEW C, NEW V, NEW D, Deaf' \in SUBSET D, ready' = {},
         Heard(ses', C, V, skipped', D, {}), CtlPending' = C, VtPending' = V,
         C \subseteq Range(ses'.ctlClose), V \subseteq Range(ses'.vtClose),
         polls' \subseteq Watched(ses')
  PROVE  IHeard'
<1>1. Heard(ses', CtlPending', VtPending', skipped', Deaf', ready')
  <2>1. skipped' \subseteq skipped' /\ ready' \in SUBSET {}
    OBVIOUS
  <2> QED BY <2>1, HeardLess
<1>2. CtlPending' \subseteq Range(ses'.ctlClose) /\ VtPending' \subseteq Range(ses'.vtClose)
  OBVIOUS
<1> QED BY <1>1, <1>2 DEF IHeard, Heard, OwnNumber

LEMMA TurnHeard == ASSUME IHeard, Turn PROVE IHeard'
<1> DEFINE K == 1 .. next - 1
           C == Range(ses.ctlClose)
           V == Range(ses.vtClose)
           b == Disarmed(ses)
           t == Armed(b)
<1>1. /\ closing = "none" /\ closing' = "ctl"
      /\ ses' = t /\ todo' = ses.ctlClose
      /\ polls' = Polling(ses, ses', {}) /\ ready' = {} /\ skipped' = skipped
  BY DEF Turn, Updated
<1>2. Fit(ses, K) /\ Hears(ses, skipped, Deaf, ready)
  BY <1>1, HearerFinds
<1>3. Good(ses, C, V, K) /\ Heard(ses, C, V, skipped, Deaf, {}) /\ ses \in Store
  <2>1. skipped \subseteq skipped /\ Deaf \in SUBSET Deaf /\ {} \in SUBSET ready
    OBVIOUS
  <2> QED BY <1>2, <2>1, HeardLess, FitStore DEF Fit, Hears
<1>4. Good(b, C, V, K) /\ Heard(b, C, V, skipped, Deaf, {})
  BY <1>3, DisarmedGood, DisarmedHeard DEF NoneFires
<1>5. /\ b.toRemove = {} /\ b \in Store
      /\ Differ(ses, b, {"ctlWatch", "vtWatch", "ctlHalf", "vtHalf", "outq", "unregistered", "toRemove"})
  BY <1>3, DisarmedIs
<1> HIDE DEF b
<1>6. Heard(t, C, V, skipped, Deaf, {})
  BY <1>4, <1>5, ArmedHeard
<1>7. Differ(b, t, {"vtWatch", "pod", "toAdd"})
  BY <1>5, ArmedIs
<1> HIDE DEF t
<1>8. t.ctlClose = ses.ctlClose /\ t.vtClose = ses.vtClose
  BY <1>5, <1>7 DEF Differ, Names
<1>9. CtlPending' = C /\ VtPending' = V
  BY <1>1, <1>8 DEF CtlPending, VtPending
<1>11. IInv'
  BY TurnInv DEF IHeard
<1>12. Deaf' \in SUBSET Deaf /\ polls' \subseteq Watched(ses')
  BY <1>1, StillDeaf DEF IHeard
<1>13. C \subseteq Range(ses'.ctlClose) /\ V \subseteq Range(ses'.vtClose)
  BY <1>1, <1>8
<1> HIDE DEF C, V
<1> QED BY <1>1, <1>6, <1>9, <1>11, <1>12, <1>13, LoopHeard

LEMMA CtlCloseHeard == ASSUME IHeard, CtlClose PROVE IHeard'
<1> DEFINE K == 1 .. next - 1
           e == Head(todo)
           C == Range(todo)
           X == Range(Tail(todo))
           V == Range(ses.vtClose)
<1>1. PICK parked \in SUBSET Panes : ses' = CtlEntryDone(ses, e, parked)
  BY DEF CtlClose
<1>2. /\ closing = "ctl" /\ todo # <<>> /\ closing' = "ctl" /\ todo' = Tail(todo)
      /\ polls' = Polling(ses, ses', {}) /\ ready' = ready
      /\ skipped' = skipped \union SkippedBy("ctl", ses.ctlWatch, e)
  BY DEF CtlClose
<1>3. todo \in Seq(Entry) /\ Distinct(todo) /\ ready = {}
  BY <1>2, TypeDistinct DEF IHeard, IInv, TypeOK
<1>4. e \in Entry /\ C = {e} \union X /\ \A d \in X : d.fd # e.fd
  BY <1>2, <1>3, PopIs
<1>5. /\ Good(ses, C, V, K) /\ ses.toAdd = {} /\ Heard(ses, C, V, skipped, Deaf, {})
      /\ C \subseteq Range(ses.ctlClose)
  BY <1>2, <1>3 DEF IHeard, IInv, TablesGood, CtlPending, VtPending
<1> DEFINE u == ses'
<1> HIDE DEF e, C, X, K, V
<1>6. e \in C /\ X \in SUBSET C /\ C \ X \subseteq {e} /\ Spared(X, e.fd)
  BY <1>4 DEF Spared
<1>14. Recorded(ses, "ctl", ses.ctlWatch, e, skipped') /\ skipped \subseteq skipped'
  <2>1. ses.ctlWatch[e.fd] \in Conns \union {None}
    BY <1>4, <1>5 DEF Good, Typed, Store, Entry
  <2> QED BY <1>2, <2>1 DEF Recorded, SkippedBy, Watchers
<1>7. /\ Heard(u, X, V, skipped', Deaf, {})
      /\ Range(ses.ctlClose) \subseteq Range(u.ctlClose) /\ u.vtClose = ses.vtClose
  <2>1. u = CtlEntryDone(ses, e, parked)
    BY <1>1
  <2> DEFINE T == skipped'
  <2>3. Recorded(ses, "ctl", ses.ctlWatch, e, T) /\ skipped \subseteq T /\ NoneFires({})
    BY <1>14 DEF NoneFires
  <2> HIDE DEF u, T
  <2>2. HeardOn(ses, u, X, V, T, Deaf, {})
    BY <1>5, <1>6, <2>1, <2>3, CtlEntryDoneHeard
  <2> QED BY <2>2 DEF HeardOn, T
<1>8. CtlPending' = X /\ VtPending' = V
  BY <1>2, <1>7 DEF CtlPending, VtPending, X, V
<1>9. X \subseteq Range(ses'.ctlClose) /\ V \subseteq Range(ses'.vtClose)
  BY <1>5, <1>6, <1>7 DEF V
<1>10. IInv'
  BY CtlCloseInv DEF IHeard
<1>11. Deaf' \in SUBSET Deaf /\ polls' \subseteq Watched(ses')
  BY <1>2, StillDeaf DEF IHeard
<1> QED BY <1>2, <1>3, <1>7, <1>8, <1>9, <1>10, <1>11, LoopHeard

LEMMA CtlClosesDoneHeard == ASSUME IHeard, CtlClosesDone PROVE IHeard'
<1> DEFINE V == Range(ses.vtClose)
           t == [ses EXCEPT !.ctlClose = <<>>]
<1>1. /\ closing = "ctl" /\ todo = <<>> /\ closing' = "vt"
      /\ ses' = t /\ todo' = ses.vtClose /\ polls' = polls /\ ready' = ready
      /\ skipped' = skipped
  BY DEF CtlClosesDone
<1>2. ready = {} /\ ses \in Store
  BY <1>1 DEF IHeard, IInv, TypeOK
<1>3. Heard(ses, {}, V, skipped, Deaf, ready)
  BY <1>1, EmptyRange DEF IHeard, CtlPending, VtPending
<1>4. <<>> \in Seq(Entry)
  BY EmptySeq
<1>5. Differ(ses, t, {"ctlClose"}) /\ t.ctlClose = <<>>
  BY <1>2, <1>4, CtlCloseSetIs
<1> HIDE DEF t
<1>6. t.vtClose = ses.vtClose /\ t.ctlWatch = ses.ctlWatch /\ t.vtWatch = ses.vtWatch
      /\ Differ(ses, t, Unheard)
  BY <1>5 DEF Differ, Names, Unheard
<1> HIDE DEF V
<1>7. Heard(t, {}, V, skipped, Deaf, {})
  BY <1>2, <1>3, <1>6, HeardSame
<1>8. CtlPending' = {} /\ VtPending' = V
  BY <1>1, <1>5, EmptyRange DEF CtlPending, VtPending, V
<1>9. Watched(ses') = Watched(ses)
  BY <1>1, <1>6 DEF Watched
<1>10. Deaf' = Deaf
  BY <1>1, <1>6 DEF Deaf, Watched
<1>11. polls' \subseteq Watched(ses')
  BY <1>1, <1>9 DEF IHeard
<1>12. IInv'
  BY CtlClosesDoneInv DEF IHeard
<1>13. {} \subseteq Range(ses'.ctlClose) /\ V \subseteq Range(ses'.vtClose) /\ Deaf' \in SUBSET Deaf
  BY <1>1, <1>6, <1>10 DEF V
<1> QED BY <1>1, <1>2, <1>7, <1>8, <1>11, <1>12, <1>13, LoopHeard

LEMMA VtCloseHeard == ASSUME IHeard, VtClose PROVE IHeard'
<1> DEFINE K == 1 .. next - 1
           e == Head(todo)
           V == Range(todo)
           X == Range(Tail(todo))
<1>1. ses' = VtEntryDone(ses, e)
  BY DEF VtClose
<1>2. /\ closing = "vt" /\ todo # <<>> /\ closing' = "vt" /\ todo' = Tail(todo)
      /\ polls' = Polling(ses, ses', {}) /\ ready' = ready
      /\ skipped' = skipped \union SkippedBy("vt", ses.vtWatch, e)
  BY DEF VtClose
<1>3. todo \in Seq(Entry) /\ Distinct(todo) /\ ready = {}
  BY <1>2, TypeDistinct DEF IHeard, IInv, TypeOK
<1>4. e \in Entry /\ V = {e} \union X
  BY <1>2, <1>3, PopIs
<1>5. /\ Good(ses, {}, V, K) /\ ses.toAdd = {} /\ Heard(ses, {}, V, skipped, Deaf, {})
      /\ V \subseteq Range(ses.vtClose) /\ ses.ctlClose = <<>>
  BY <1>2, <1>3, EmptyRange DEF IHeard, IInv, TablesGood, CtlPending, VtPending
<1> DEFINE u == ses'
<1> HIDE DEF e, V, X, K
<1>6. e \in V /\ X \in SUBSET V /\ V \ X \subseteq {e}
  BY <1>4
<1>14. Recorded(ses, "vt", ses.vtWatch, e, skipped') /\ skipped \subseteq skipped'
  <2>1. ses.vtWatch[e.fd] \in Conns \union {None}
    BY <1>4, <1>5 DEF Good, Typed, Store, Entry
  <2> QED BY <1>2, <2>1 DEF Recorded, SkippedBy, Watchers
<1>7. Heard(u, {}, X, skipped', Deaf, {}) /\ u.ctlClose = ses.ctlClose /\ u.vtClose = ses.vtClose
  <2> DEFINE T == skipped'
  <2>1. u = VtEntryDone(ses, e)
    BY <1>1
  <2>2. Recorded(ses, "vt", ses.vtWatch, e, T) /\ skipped \subseteq T /\ NoneFires({})
    BY <1>14 DEF NoneFires
  <2> HIDE DEF u, T
  <2>3. /\ Heard(u, {}, X, T, Deaf, {})
        /\ u.ctlClose = ses.ctlClose /\ u.vtClose = ses.vtClose
    BY <1>5, <1>6, <2>1, <2>2, VtEntryDoneHeard
  <2> QED BY <2>3 DEF T
<1>8. CtlPending' = {} /\ VtPending' = X
  BY <1>2, <1>5, <1>7, EmptyRange DEF CtlPending, VtPending, X
<1>9. {} \subseteq Range(ses'.ctlClose) /\ X \subseteq Range(ses'.vtClose)
  BY <1>5, <1>6, <1>7
<1>10. IInv'
  BY VtCloseInv DEF IHeard
<1>11. Deaf' \in SUBSET Deaf /\ polls' \subseteq Watched(ses')
  BY <1>2, StillDeaf DEF IHeard
<1> QED BY <1>2, <1>3, <1>7, <1>8, <1>9, <1>10, <1>11, LoopHeard

\* The notes are aged when every entry has been worked off.
LEMMA VtClosesDoneHeard == ASSUME IHeard, VtClosesDone PROVE IHeard'
<1> DEFINE r == [ses EXCEPT !.vtClose = <<>>]
           t == Rotated(r)
<1>1. /\ closing = "vt" /\ todo = <<>> /\ closing' = "none"
      /\ ses' = t /\ polls' = polls /\ skipped' = skipped
  BY DEF VtClosesDone
<1>2. ses \in Store
  BY DEF IHeard, IInv, TypeOK
<1>3. Heard(ses, {}, {}, skipped, Deaf, ready) /\ ses.ctlClose = <<>>
  BY <1>1, EmptyRange DEF IHeard, IInv, TablesGood, CtlPending, VtPending
<1>4. <<>> \in Seq(Entry) /\ Range(<<>>) = {}
  BY EmptySeq, EmptyRange
<1>5. r \in Store /\ Differ(ses, r, {"vtClose"}) /\ r.vtClose = <<>>
  BY <1>2, <1>4, VtCloseSetIs
<1> HIDE DEF r
<1>6. Differ(r, t, {"noted", "notedBefore"}) /\ t.noted = {} /\ t.notedBefore = r.noted
  BY <1>5, RotatedIs
<1> HIDE DEF t
<1>7. /\ t.open = ses.open /\ t.clients = ses.clients /\ t.pod = ses.pod
      /\ t.toRemove = ses.toRemove /\ t.toAdd = ses.toAdd
      /\ t.vtWatch = ses.vtWatch /\ t.ctlWatch = ses.ctlWatch
      /\ t.ctlClose = <<>> /\ t.vtClose = <<>>
  BY <1>3, <1>5, <1>6 DEF Differ, Names
<1>8. CtlPending' = {} /\ VtPending' = {}
  BY <1>1, <1>4, <1>7 DEF CtlPending, VtPending
<1>9. Deaf' = Deaf
  BY <1>1, <1>7 DEF Deaf, Watched
<1>10. polls' \subseteq Watched(ses')
  BY <1>1, <1>7 DEF IHeard, Watched
<1>11. \A f : IsRef(t, f) <=> IsRef(ses, f)
  BY <1>7 DEF IsRef
<1>13. /\ OwnNumber(t) /\ NoCtlRemoved(t)
       /\ CtlHeard(t, {}, skipped, Deaf) /\ VtHeard(t, {}, skipped, Deaf)
  BY <1>3, <1>7, <1>11 DEF Heard, OwnNumber, NoCtlRemoved, CtlHeard, VtHeard
<1>14. CtlReady(t, {}, ready') /\ VtReady(t, {}, ready')
  BY DEF CtlReady, VtReady
<1>15. Heard(t, {}, {}, skipped, Deaf, ready')
  BY <1>13, <1>14 DEF Heard
<1>16. IInv'
  BY VtClosesDoneInv DEF IHeard
<1> QED BY <1>1, <1>8, <1>9, <1>10, <1>15, <1>16 DEF IHeard

LEMMA InitHeard == Init => IHeard
<1> SUFFICES ASSUME Init PROVE IHeard
  OBVIOUS
<1>1. /\ ses.open = [f \in Fds |-> None]
      /\ ses.ctlWatch = [f \in Fds |-> None] /\ ses.vtWatch = [f \in Fds |-> None]
      /\ ses.ctlClose = <<>> /\ ses.vtClose = <<>>
      /\ ses.noted = {} /\ ses.toRemove = {} /\ ses.clients = {}
      /\ ses.pod = [p \in Panes |-> None]
      /\ polls = {} /\ ready = {} /\ closing = "none"
  BY DEF Init
<1>2. CtlPending = {} /\ VtPending = {} /\ Range(ses.ctlClose) = {} /\ Range(ses.vtClose) = {}
  BY <1>1, EmptyRange DEF CtlPending, VtPending
<1>3. \A f \in Fds : ~IsRef(ses, f)
  BY <1>1 DEF IsRef, Fds, None
<1>4. Heard(ses, {}, {}, skipped, Deaf, {})
  BY <1>1, <1>3 DEF Heard, OwnNumber, NoCtlRemoved, CtlReady, VtReady, CtlHeard, VtHeard
<1>5. IInv
  BY InitInv
<1> QED BY <1>1, <1>2, <1>4, <1>5 DEF IHeard

\* What a connection finds that comes, and what it has to leave.
LEMMA ConnHears ==
  ASSUME IHeard, CanOpen(ses)
  PROVE  /\ Hears(Accepted(ses), skipped, Deaf, ready) /\ NoneFires(ready)
         /\ <<"ctl", next>> \notin ready /\ <<"vt", next>> \notin Deaf \union ready
<1>1. closing = "none" /\ next \in Conns /\ \E f \in Fds : ses.open[f] = None
  BY DEF CanOpen
<1> DEFINE K == 1 .. next - 1
<1>2. /\ Fit(ses, K) /\ Hears(ses, skipped, Deaf, ready)
      /\ NoneFires(ready) /\ FiresOwn(ses, ready)
      /\ \A n \in Deaf \union ready : n[2] \in 1 .. next - 1 \/ n = Ticker
  BY <1>1, HearerFinds
<1>3. next \notin K /\ next # None
  BY <1>1, ConnectionAssumption DEF Conns, None
<1>4. \A x \in {"ctl", "vt"} : <<x, next>> \notin Deaf \union ready
  BY <1>2, <1>3 DEF Ticker
<1> HIDE DEF K
<1>5. Hears(Accepted(ses), skipped, Deaf, ready)
  BY <1>1, <1>2, <1>3, <1>4, AcceptedHears
<1> QED BY <1>2, <1>4, <1>5

LEMMA ConnLeavesHeard ==
  ASSUME IHeard, CanOpen(ses), IInv', NEW t, Becomes(t, {}, {}), Hears(t, skipped, Deaf, ready)
  PROVE  IHeard'
<1>1. closing = "none"
  BY DEF CanOpen
<1>2. Deaf \union {} = Deaf /\ ready \ ({} \union {}) = ready
  OBVIOUS
<1>3. Hears(t, skipped, Deaf \union {}, ready \ ({} \union {}))
  BY <1>2
<1> QED BY <1>1, <1>3, HearerLeaves

LEMMA TurnAwayHeard == ASSUME IHeard, Calm, TurnAway PROVE IHeard'
<1> DEFINE f == LowestFree(ses)
           a == Accepted(ses)
           t == Closed(a, {f})
<1>1. CanOpen(ses) /\ IInv
  BY DEF TurnAway, IHeard
<1>2. PICK o \in RefusalOutcomes : Becomes(Closed(Replied(a, f, o), {f}), {}, {})
  BY DEF TurnAway
<1>3. o = "sent"
  BY CliOutcomesAre
<1>4. Fit(a, 1 .. next) /\ IsFresh(a, f) /\ f \in Fds
  BY <1>1, ConnFinds
<1>5. Hears(a, skipped, Deaf, ready) /\ NoneFires(ready)
  BY <1>1, ConnHears
<1> HIDE DEF a, f
<1>6. OnlyListed(a, f)
  BY <1>4, FreshListed
<1>7. Replied(a, f, o) = a
  BY <1>3, <1>6 DEF Replied, OnlyListed
<1>8. Becomes(t, {}, {})
  BY <1>2, <1>7
<1>9. Hears(t, skipped, Deaf, ready)
  BY <1>4, <1>5, TurnedAwayHears
<1>10. IInv'
  BY <1>1, TurnAwayInv
<1> HIDE DEF t
<1> QED BY <1>1, <1>8, <1>9, <1>10, ConnLeavesHeard

LEMMA AnsweredAtOnceHeard ==
  ASSUME IHeard, Calm, CanOpen(ses), IInv', NoneFires(ready), NEW t, NEW f \in Fds, NEW K,
         Fit(t, K), IsFresh(t, f), Hears(t, skipped, Deaf, ready), AnsweredAtOnce(t, f)
  PROVE  IHeard'
<1>1. PICK o \in CliOutcomes : Becomes(ClosedAtOnce(Replied(t, f, o), {f}), {}, {})
  BY DEF AnsweredAtOnce
<1> DEFINE r == Replied(t, f, o)
           u == ClosedAtOnce(r, {f})
<1>2. o \in Outcomes /\ o # "stays"
  BY CliOutcomesAre DEF Outcomes
<1>3. IsCtl(t, f) /\ OnlyListed(t, f)
  BY FreshListed
<1>4. Fit(r, K) /\ OnlyListed(r, f) /\ Hears(r, skipped, Deaf, ready)
  <2>1. t \in Store /\ Own(t)
    BY FitStore DEF Fit, Good
  <2>2. Hears(r, skipped, Deaf, ready)
    BY <1>2, <2>1, RepliedHears
  <2> QED BY <1>2, <1>3, <2>2, RepliedFit
<1>5. Becomes(u, {}, {})
  BY <1>1
<1> HIDE DEF r
<1>6. Hears(u, skipped, Deaf, ready)
  BY <1>4, AtOnceHears
<1> HIDE DEF u
<1> QED BY <1>5, <1>6, ConnLeavesHeard

LEMMA CliAtOnceHeard == ASSUME IHeard, Calm, CliAtOnce PROVE IHeard'
<1> DEFINE f == LowestFree(ses)
           a == Accepted(ses)
<1>1. CanOpen(ses) /\ IInv
  BY DEF CliAtOnce, IHeard
<1>2. AnsweredAtOnce(a, f)
        \/ \E c \in a.clients, parked \in SUBSET Parkable(a) :
             AnsweredAtOnce(Removed(a, c, parked), f)
  BY DEF CliAtOnce
<1>3. Fit(a, 1 .. next) /\ IsFresh(a, f) /\ f \in Fds /\ a.toAdd = {}
  BY <1>1, ConnFinds
<1>4. Hears(a, skipped, Deaf, ready) /\ NoneFires(ready)
  BY <1>1, ConnHears
<1>6. IInv'
  BY <1>1, CliAtOnceInv
<1> HIDE DEF a, f
<1>8. CASE AnsweredAtOnce(a, f)
  BY <1>1, <1>3, <1>4, <1>6, <1>8, AnsweredAtOnceHeard
<1>9. ASSUME NEW c \in a.clients, NEW parked \in SUBSET Parkable(a),
             AnsweredAtOnce(Removed(a, c, parked), f)
      PROVE  IHeard'
  <2> DEFINE t == Removed(a, c, parked)
  <2>1. parked \in SUBSET Panes /\ PodFds(a, parked) \intersect a.toAdd = {}
    BY ParkableIs DEF Calm
  <2>2. Fit(t, 1 .. next) /\ IsFresh(t, f)
    BY <1>3, <2>1, RemovedFit
  <2>3. Hears(t, skipped, Deaf, ready)
    BY <1>3, <1>4, <2>1, RemovedHears
  <2>4. AnsweredAtOnce(t, f)
    BY <1>9
  <2> HIDE DEF t
  <2> QED BY <1>1, <1>3, <1>4, <1>6, <2>2, <2>3, <2>4, AnsweredAtOnceHeard
<1> QED BY <1>2, <1>8, <1>9

LEMMA CliListedHeard == ASSUME IHeard, Calm, CliListed PROVE IHeard'
<1> DEFINE f == LowestFree(ses)
           a == Accepted(ses)
<1>1. CanOpen(ses) /\ IInv
  BY DEF CliListed, IHeard
<1>2. PICK o \in CliOutcomes : Becomes(CtlListed(Replied(a, f, o), f, None), {}, {})
  BY DEF CliListed
<1>3. Fit(a, 1 .. next) /\ IsFresh(a, f) /\ f \in Fds
  BY <1>1, ConnFinds
<1>4. Hears(a, skipped, Deaf, ready) /\ NoneFires(ready)
  BY <1>1, ConnHears
<1>5. IInv'
  BY <1>1, CliListedInv
<1> HIDE DEF a, f
<1> DEFINE r == Replied(a, f, o)
           u == CtlListed(r, f, None)
           e == EntryOf(r, f, None)
<1>6. o \in Outcomes
  BY CliOutcomesAre DEF Outcomes
<1>7. Fit(r, 1 .. next) /\ Hears(r, skipped, Deaf, ready)
  <2>1. a \in Store /\ Own(a)
    BY <1>3, FitStore DEF Fit, Good
  <2>2. Hears(r, skipped, Deaf, ready)
    BY <1>3, <1>4, <1>6, <2>1, RepliedHears
  <2> QED BY <1>3, <1>6, <2>2, FreshListed, RepliedFit
<1>8. Becomes(u, {}, {})
  BY <1>2
<1> HIDE DEF r
<1>9. r \in Store /\ Own(r)
  BY <1>7, FitStore DEF Fit, Good
<1>10. e.fd = f /\ e.node = None /\ e.whose = r.open[f]
  BY DEF EntryOf
<1> HIDE DEF e
<1>11. CtlMayList(r, ready, e)
  BY <1>3, <1>4, <1>9, <1>10, MayListAny
<1>12. Hears(u, skipped, Deaf, ready)
  BY <1>3, <1>7, <1>9, <1>11, CtlListedHears DEF e
<1> HIDE DEF u
<1> QED BY <1>1, <1>5, <1>8, <1>12, ConnLeavesHeard

LEMMA CliParkedHeard == ASSUME IHeard, Calm, CliParked PROVE IHeard'
<1> DEFINE f == LowestFree(ses)
           a == Accepted(ses)
<1>1. CanOpen(ses) /\ IInv
  BY DEF CliParked, IHeard
<1>2. PICK c \in a.clients :
        Becomes([Harmed(a, "overtaken", a.outq[c.ctl] # {}) EXCEPT
                   !.waiters = a.waiters \union {[fd |-> f, owner |-> c.ctl, whose |-> next]}],
                {}, {})
  BY DEF CliParked
<1>3. Fit(a, 1 .. next) /\ f \in Fds /\ next \in Conns
  BY <1>1, ConnFinds
<1>4. Hears(a, skipped, Deaf, ready)
  BY <1>1, ConnHears
<1>5. IInv'
  BY <1>1, CliParkedInv
<1> HIDE DEF a, f
<1> DEFINE w == [fd |-> f, owner |-> c.ctl, whose |-> next]
           overtaken == a.outq[c.ctl] # {}
           h == Harmed(a, "overtaken", overtaken)
           t == [h EXCEPT !.waiters = h.waiters \union {w}]
<1>6. a \in Store
  BY <1>3, FitStore
<1>7. w \in Waiter
  <2>1. c.ctl \in Fds
    BY <1>6 DEF Store, Client
  <2> QED BY <1>3, <2>1 DEF Waiter
<1>8. overtaken \in BOOLEAN /\ "overtaken" \in Harms
  BY DEF Harms
<1> HIDE DEF overtaken
<1>9. h \in Store /\ Differ(a, h, {"harm"})
  BY <1>6, <1>8, HarmedIs
<1>10. Becomes([h EXCEPT !.waiters = a.waiters \union {w}], {}, {})
  BY <1>2 DEF overtaken
<1> HIDE DEF h, w
<1>11. h.waiters = a.waiters
  BY <1>9 DEF Differ, Names
<1>12. Becomes(t, {}, {})
  BY <1>10, <1>11
<1>13. Differ(h, t, {"waiters"})
  BY <1>7, <1>9, WaiterAddedIs
<1> HIDE DEF t
<1>14. Differ(a, t, Aside)
  BY <1>9, <1>13 DEF Differ, Aside, Unheard
<1>15. Hears(t, skipped, Deaf, ready)
  BY <1>4, <1>14, SameHears
<1> QED BY <1>1, <1>5, <1>12, <1>15, ConnLeavesHeard

LEMMA FrontendCtlHeard == ASSUME IHeard, Calm, FrontendCtl PROVE IHeard'
<1> DEFINE f == LowestFree(ses)
           a == Accepted(ses)
           n == IF a.ctlWatch[f] = None THEN next ELSE a.ctlWatch[f]
           t == [a EXCEPT !.ctlWatch[f] = n, !.unregistered = a.unregistered \union {f}]
<1>1. CanOpen(ses) /\ IInv
  BY DEF FrontendCtl, IHeard
<1>2. Becomes(t, {}, {})
  BY DEF FrontendCtl
<1>3. /\ Fit(a, 1 .. next) /\ IsFresh(a, f) /\ f \in Fds
      /\ next \in Conns /\ a.toRemove = {}
  BY <1>1, ConnFinds
<1>4. Hears(a, skipped, Deaf, ready)
  BY <1>1, ConnHears
<1>5. <<"ctl", next>> \notin ready
  BY <1>1, ConnHears
<1>6. IInv'
  BY <1>1, FrontendCtlInv
<1> HIDE DEF a, f
<1>7. OnlyListed(a, f) /\ a \in Store
  BY <1>3, FreshListed, FitStore
<1>8. a.ctlWatch[f] = None /\ \A c \in a.clients : c.ctl # f
  BY <1>7 DEF OnlyListed
<1>9. n = next /\ n \in Conns \union {None}
  BY <1>3, <1>8
<1> HIDE DEF n
<1>10. /\ Differ(a, t, {"ctlWatch", "unregistered"})
       /\ t.ctlWatch = [a.ctlWatch EXCEPT ![f] = n]
  BY <1>3, <1>7, <1>9, FrontendCtlIs
<1> HIDE DEF t
<1>11. Differ(a, t, Aside \union {"ctlWatch"}) /\ t.ctlWatch = [a.ctlWatch EXCEPT ![f] = next]
  BY <1>9, <1>10 DEF Differ, Aside, Unheard
<1>12. Hears(t, skipped, Deaf, ready)
  BY <1>3, <1>4, <1>5, <1>7, <1>8, <1>11, WatchedHears
<1> QED BY <1>1, <1>2, <1>6, <1>12, ConnLeavesHeard

LEMMA FrontendVtHeard == ASSUME IHeard, Calm, FrontendVt PROVE IHeard'
<1> DEFINE f == LowestFree(ses)
           a == Accepted(ses)
           C == Range(a.ctlClose)
           V == Range(a.vtClose)
<1>1. CanOpen(ses) /\ IInv
  BY DEF FrontendVt, IHeard
<1>2. PICK c \in a.clients :
        /\ MayListenAt(a, f)
        /\ LET t == IF c.vt = None THEN a ELSE VtListed(a, c.vt, None)
           IN  Becomes([t EXCEPT
                 !.clients = (t.clients \ {c}) \union {[c EXCEPT !.vt = f, !.vtWho = next]},
                 !.vtWatch[f] = IF t.vtWatch[f] = None THEN next ELSE t.vtWatch[f]], {}, {})
  BY DEF FrontendVt
<1>3. /\ Fit(a, 1 .. next) /\ IsFresh(a, f) /\ f \in Fds /\ a.toRemove = {}
      /\ a.open[f] = next /\ next \in Conns
  BY <1>1, ConnFinds
<1>4. Hears(a, skipped, Deaf, ready) /\ NoneFires(ready)
  BY <1>1, ConnHears
<1>5. <<"vt", next>> \notin Deaf \union ready
  BY <1>1, ConnHears
<1>6. IInv'
  BY <1>1, FrontendVtInv
<1> HIDE DEF a, f
<1> DEFINE b == IF c.vt = None THEN a ELSE VtListed(a, c.vt, None)
           d == [c EXCEPT !.vt = f, !.vtWho = next]
           n == IF b.vtWatch[f] = None THEN next ELSE b.vtWatch[f]
           t == VtTaken(b, c, d, f, n)
<1>8. Fit(b, 1 .. next) /\ Differ(a, b, {"vtClose"})
  BY <1>3, SupersededFit
<1>9. Becomes(t, {}, {})
  BY <1>2 DEF VtTaken
<1>10. a \in Store /\ c \in Client /\ c.vt \in Fds \union {None}
  BY <1>3, FitStore DEF Store, Client
<1>11. Range(b.vtClose) = V \/ (c.vt # None /\ Range(b.vtClose) = V \union {EntryOf(a, c.vt, None)})
  <2>1. CASE c.vt = None
    BY <2>1
  <2>2. CASE c.vt # None
    <3> DEFINE g == c.vt
    <3>1. g \in Fds /\ None \in Conns \union {None} /\ b = VtListed(a, g, None)
      BY <1>10, <2>2
    <3> HIDE DEF g, b
    <3>2. Range(VtListed(a, g, None).vtClose) = Range(a.vtClose)
            \/ Range(VtListed(a, g, None).vtClose) = Range(a.vtClose) \union {EntryOf(a, g, None)}
      BY <1>10, <3>1, VtListedAdds
    <3> QED BY <2>2, <3>1, <3>2 DEF g
  <2> QED BY <2>1, <2>2
<1> HIDE DEF b
<1>12. b.clients = a.clients /\ b.vtWatch = a.vtWatch /\ b.ctlClose = a.ctlClose /\ b \in Store
  BY <1>8, FitStore DEF Differ, Names
<1>13. b.vtWatch[f] = None
  BY <1>3, <1>12 DEF IsFresh, Fresh, Used, VtUse
<1>14. d \in Client /\ d.ctl = c.ctl /\ d.who = c.who /\ d.vt = f
  BY <1>3, <1>10 DEF Client
<1>15. n = next /\ n \in Conns \union {None}
  BY <1>3, <1>13
<1> HIDE DEF d, n
<1>16. /\ Differ(b, t, {"clients", "vtWatch"})
       /\ t.clients = (b.clients \ {c}) \union {d}
       /\ t.vtWatch = [b.vtWatch EXCEPT ![f] = n]
  <2> DEFINE u == VtTaken(b, c, d, f, n)
  <2>1. /\ VtTaken(b, c, d, f, n) \in Store
        /\ Differ(b, VtTaken(b, c, d, f, n), {"clients", "vtWatch"})
        /\ VtTaken(b, c, d, f, n).clients = (b.clients \ {c}) \union {d}
        /\ VtTaken(b, c, d, f, n).vtWatch = [b.vtWatch EXCEPT ![f] = n]
    <3> HIDE DEF t
    <3> QED BY <1>3, <1>10, <1>12, <1>14, <1>15, VtTakenIs
  <2> QED BY <2>1
<1> HIDE DEF t
<1>17. /\ Differ(a, t, {"clients", "vtWatch", "vtClose"})
       /\ t.clients = (a.clients \ {c}) \union {d}
       /\ t.vtWatch = [a.vtWatch EXCEPT ![f] = a.open[f]]
  BY <1>3, <1>8, <1>12, <1>15, <1>16 DEF Differ
<1>18. t.ctlClose = a.ctlClose /\ t.vtClose = b.vtClose
  BY <1>12, <1>16 DEF Differ, Names
<1>19. /\ Heard(a, C, V, skipped, Deaf, ready) /\ Fresh(a, C, V, f) /\ Good(a, C, V, 1 .. next)
  BY <1>3, <1>4 DEF Hears, Fit, IsFresh
<1>20. <<"vt", a.open[f]>> \notin Deaf \union ready
  BY <1>3, <1>5
<1> DEFINE K == 1 .. next
           D == Deaf
           R == ready
           S == skipped
<1> HIDE DEF C, V
<1>21. /\ Heard(t, C, V, skipped, Deaf, ready)
       /\ c.vt # None => ~IsRef(t, c.vt)
  <2>1. Heard(a, C, V, S, D, R) /\ Good(a, C, V, K) /\ <<"vt", a.open[f]>> \notin D \union R
    BY <1>19, <1>20
  <2> HIDE DEF D, R, S, K
  <2>2. Heard(t, C, V, S, D, R) /\ (c.vt # None => ~IsRef(t, c.vt))
    BY <1>14, <1>17, <1>19, <2>1, VtTakenHeard
  <2> QED BY <2>2 DEF D, R, S
<1>22. Heard(t, C, Range(t.vtClose), skipped, Deaf, ready)
  <2>1. CASE Range(b.vtClose) = V
    BY <1>18, <1>21, <2>1
  <2>2. CASE c.vt # None /\ Range(b.vtClose) = V \union {EntryOf(a, c.vt, None)}
    <3> DEFINE e == EntryOf(a, c.vt, None)
    <3>1. e.fd = c.vt /\ e.node = None /\ e.whose = a.open[c.vt] /\ c.vt \in Fds
      BY <1>10, <2>2 DEF EntryOf
    <3> HIDE DEF e
    <3>2. t.open = a.open
      BY <1>17 DEF Differ, Names
    <3>3. \A x \in {e} : VtMayList(t, ready, x)
      BY <3>1, <3>2 DEF VtMayList
    <3>4. Heard(t, C, V \union {e}, skipped, Deaf, ready)
      BY <1>21, <3>3, VtAdded
    <3> QED BY <1>18, <2>2, <3>4 DEF e
  <2> QED BY <1>11, <2>1, <2>2
<1>23. Hears(t, skipped, Deaf, ready)
  BY <1>18, <1>22 DEF Hears, C
<1> QED BY <1>1, <1>6, <1>9, <1>23, ConnLeavesHeard

\* What the watcher of a control connection finds that fires ...
LEMMA CtlHears ==
  ASSUME IHeard, NEW f \in Fds, CtlFires(f)
  PROVE  /\ Hears(ses, skipped, Deaf, ready) /\ Hears(CtlReadOn(ses, f), skipped, Deaf, ready)
         /\ <<"ctl", ses.ctlWatch[f]>> \in ready /\ <<"ctl", ses.ctlWatch[f]>> \notin Deaf
         /\ NoneFires(ready)
<1> DEFINE s == CtlReadOn(ses, f)
<1>1. IInv
  BY DEF IHeard
<1>2. closing = "none" /\ Differ(ses, s, {"ctlHalf"})
  BY <1>1, CtlFinds
<1>3. Hears(ses, skipped, Deaf, ready) /\ NoneFires(ready) /\ \A n \in ready : n \notin Deaf
  BY <1>2, HearerFinds
<1> HIDE DEF s
<1>4. Differ(ses, s, Aside)
  BY <1>2 DEF Differ, Aside, Unheard
<1>5. Hears(s, skipped, Deaf, ready)
  BY <1>3, <1>4, SameHears
<1> QED BY <1>3, <1>5 DEF s, CtlFires

\* ... and any watcher that does has to leave.
LEMMA FiredLeavesHeard ==
  ASSUME IHeard, closing = "none", IInv', NEW t, NEW n, Becomes(t, {}, {n}),
         Hears(t, skipped, Deaf, ready \ {n})
  PROVE  IHeard'
<1>1. Deaf \union {} = Deaf /\ {} \union {n} = {n}
  OBVIOUS
<1>2. Hears(t, skipped, Deaf \union {}, ready \ ({} \union {n}))
  BY <1>1
<1> QED BY <1>2, HearerLeaves

LEMMA EndedLeavesHeard ==
  ASSUME IHeard, closing = "none", IInv', NEW t, NEW n, Becomes(t, {n}, {n}),
         Hears(t, skipped, Deaf \union {n}, ready \ {n})
  PROVE  IHeard'
<1>1. {n} \union {n} = {n}
  OBVIOUS
<1>2. Hears(t, skipped, Deaf \union {n}, ready \ ({n} \union {n}))
  BY <1>1
<1> QED BY <1>2, HearerLeaves

\* A client is found under the number of its connection.
LEMMA NumberIs ==
  ASSUME NEW s, NEW C, NEW V, NEW K, Good(s, C, V, K), NEW S, NEW D, NEW R, Heard(s, C, V, S, D, R),
         NEW f \in Fds, NEW d \in s.clients, d.who = s.open[f]
  PROVE  d.ctl = f
<1>1. s \in Store
  BY DEF Good, Typed
<1>2. d.ctl \in Fds /\ d.who \in Conns
  BY <1>1, ClientIs
<1>3. s.open[d.ctl] = s.open[f] /\ s.open[d.ctl] # None
  BY <1>2 DEF Good, Agree, Conns, None
<1> QED BY <1>2, <1>3 DEF Heard, OwnNumber

LEMMA CtlHalfHeard == ASSUME IHeard, NEW f \in Fds, CtlHalf(f) PROVE IHeard'
<1> DEFINE s == CtlReadOn(ses, f)
           n == <<"ctl", ses.ctlWatch[f]>>
           t == [s EXCEPT !.ctlHalf[f] = {ses.open[f]}]
<1>1. CtlFires(f) /\ Becomes(t, {}, {n}) /\ IInv
  BY DEF CtlHalf, IHeard
<1>2. closing = "none" /\ Fit(s, 1 .. next - 1) /\ ses.open[f] \in Conns
  BY <1>1, CtlFinds
<1>3. Hears(s, skipped, Deaf, ready)
  BY <1>1, CtlHears
<1> HIDE DEF s, n
<1>4. s \in Store /\ {ses.open[f]} \in SUBSET Conns
  BY <1>2, FitStore
<1>5. Differ(s, t, {"ctlHalf"})
  BY <1>4, CtlHalfSetIs
<1> HIDE DEF t
<1>6. Differ(s, t, Aside)
  BY <1>5 DEF Differ, Aside, Unheard
<1>7. Hears(t, skipped, Deaf, ready)
  BY <1>3, <1>6, SameHears
<1>8. Deaf \in SUBSET Deaf /\ ready \ {n} \in SUBSET ready
  OBVIOUS
<1>9. Hears(t, skipped, Deaf, ready \ {n})
  BY <1>7, <1>8, HearsLess
<1>10. IInv'
  BY <1>1, CtlHalfInv
<1> QED BY <1>1, <1>2, <1>9, <1>10, FiredLeavesHeard

LEMMA CtlHangupHeard == ASSUME IHeard, NEW f \in Fds, CtlHangup(f) PROVE IHeard'
<1> DEFINE m == ses.ctlWatch[f]
           n == <<"ctl", m>>
           t == CtlListed(ses, f, m)
           e == EntryOf(ses, f, m)
           C == Range(ses.ctlClose)
           V == Range(ses.vtClose)
           K == 1 .. next - 1
           Q == ready \ {n}
<1>1. CtlFires(f) /\ Becomes(t, {n}, {n}) /\ IInv
  BY DEF CtlHangup, IHeard
<1>2. closing = "none" /\ Fit(ses, K) /\ m = ses.open[f] /\ m \in Conns
  BY <1>1, CtlFinds
<1>3. Hears(ses, skipped, Deaf, ready) /\ n \in ready
  BY <1>1, CtlHears
<1>4. IInv'
  BY <1>1, CtlHangupInv
<1>5. ses \in Store /\ Good(ses, C, V, K) /\ Heard(ses, C, V, skipped, Deaf, ready)
  BY <1>2, <1>3, FitStore DEF Fit, Hears
<1>6. m # None /\ m = ses.ctlWatch[f] /\ n = <<"ctl", m>>
  BY <1>2 DEF Conns, None
<1>7. e.fd = f /\ e.node = m /\ e.whose = m
  BY <1>6 DEF EntryOf
<1> HIDE DEF m, K
<1>10. CtlMayList(ses, Q, e)
  <2> HIDE DEF e, Q
  <2> QED BY <1>6, <1>7 DEF CtlMayList
<1>11. Hears(ses, skipped, Deaf, Q)
  <2>1. Deaf \in SUBSET Deaf /\ Q \in SUBSET ready
    OBVIOUS
  <2> QED BY <1>3, <2>1, HearsLess
<1> HIDE DEF Q
<1>12. Hears(t, skipped, Deaf, Q)
  BY <1>2, <1>5, <1>10, <1>11, CtlListedHears
<1>13. \/ Range(t.ctlClose) = C /\ \E x \in C : x.fd = f
       \/ Range(t.ctlClose) = C \union {e}
  BY <1>2, <1>5, CtlListedAdds
<1>14. t.clients = ses.clients
  <2>1. Differ(ses, t, {"ctlClose"})
    BY <1>2, <1>5, CtlListedIs
  <2> HIDE DEF t
  <2> QED BY <2>1 DEF Differ, Names
<1> HIDE DEF t, e, C, V
<1>15. \A c \in t.clients : c.who = m =>
         Finds(Range(t.ctlClose), c.ctl, m)
  <2> SUFFICES ASSUME NEW c \in ses.clients, c.who = m
               PROVE  Finds(Range(t.ctlClose), c.ctl, m)
    BY <1>14
  <2>1. c.ctl = f
    BY <1>2, <1>5, NumberIs
  <2>2. CASE Range(t.ctlClose) = C \union {e}
    BY <1>7, <2>1, <2>2 DEF Finds
  <2>3. CASE Range(t.ctlClose) = C /\ \E x \in C : x.fd = f
    <3>1. PICK x \in C : x.fd = f
      BY <2>3
    <3>2. x.whose = m /\ x.node \in {None, m}
      BY <1>3, <1>5, <1>6, <3>1 DEF Heard, CtlReady
    <3> QED BY <2>1, <2>3, <3>1, <3>2 DEF Finds
  <2> QED BY <1>13, <2>2, <2>3
<1>16. Hears(t, skipped, Deaf \union {<<"ctl", m>>}, Q)
  BY <1>12, <1>15, CtlDeafened
<1>17. Hears(t, skipped, Deaf \union {n}, ready \ {n})
  BY <1>6, <1>16 DEF Q
<1> HIDE DEF n
<1> QED BY <1>1, <1>2, <1>4, <1>17, EndedLeavesHeard

LEMMA CtlRequestHeard == ASSUME IHeard, Calm, NEW f \in Fds, CtlRequest(f) PROVE IHeard'
<1> DEFINE K == 1 .. next - 1
           s == CtlReadOn(ses, f)
           n == <<"ctl", ses.ctlWatch[f]>>
           c == [ctl |-> f, vt |-> None, who |-> s.open[f], vtWho |-> None]
           t == IF ClientAt(s, f) # {} THEN s ELSE [s EXCEPT !.clients = s.clients \union {c}]
           Q == ready \ {n}
<1>1. CtlFires(f) /\ IInv
  BY DEF CtlRequest, IHeard
<1>2. PICK o \in CtlOutcomes : Becomes(Replied(t, f, o), {}, {n})
  BY DEF CtlRequest
<1>3. /\ closing = "none" /\ Fit(s, K) /\ Differ(ses, s, {"ctlHalf"})
      /\ ses.open[f] \in Conns /\ ses.ctlWatch[f] = ses.open[f]
  BY <1>1, CtlFinds
<1>4. Hears(s, skipped, Deaf, ready) /\ n \in ready /\ n \notin Deaf /\ NoneFires(ready)
  BY <1>1, CtlHears
<1>5. IInv'
  BY <1>1, CtlRequestInv
<1> HIDE DEF s
<1>6. s \in Store /\ s.open[f] \in Conns /\ s.ctlWatch[f] = s.open[f] /\ s.ctlWatch = ses.ctlWatch
  BY <1>3, FitStore DEF Differ, Names
<1>7. /\ s.ctlWatch[f] # None
      /\ <<"ctl", s.ctlWatch[f]>> \in ready /\ <<"ctl", s.ctlWatch[f]>> \notin Deaf
      /\ Q = ready \ {<<"ctl", s.ctlWatch[f]>>}
  BY <1>4, <1>6 DEF Conns, None
<1>8. c \in Client /\ c.ctl = f /\ c.vt = None /\ c.who = s.ctlWatch[f]
  BY <1>6 DEF Client
<1> HIDE DEF c, n, Q
<1>9. Hears(t, skipped, Deaf, Q)
  <2>1. CASE ClientAt(s, f) # {}
    <3>1. Deaf \in SUBSET Deaf /\ Q \in SUBSET ready
      BY DEF Q
    <3>2. Hears(s, skipped, Deaf, Q)
      BY <1>4, <3>1, HearsLess
    <3> QED BY <2>1, <3>2
  <2>2. CASE ClientAt(s, f) = {}
    <3> DEFINE u == [s EXCEPT !.clients = s.clients \union {c}]
    <3>1. Differ(s, u, {"clients"}) /\ u.clients = s.clients \union {c}
      BY <1>6, <1>8, ClientAddedIs
    <3>2. t = u
      BY <2>2
    <3> HIDE DEF u, t
    <3>3. Hears(u, skipped, Deaf, ready)
      BY <1>4, <1>6, <1>7, <1>8, <3>1, RegisteredHears
    <3>4. Deaf \in SUBSET Deaf /\ Q \in SUBSET ready
      BY DEF Q
    <3> QED BY <3>2, <3>3, <3>4, HearsLess
  <2> QED BY <2>1, <2>2
<1>10. t \in Store /\ Own(t)
  <2>1. Own(s)
    BY <1>3 DEF Fit, Good
  <2>2. CASE ClientAt(s, f) # {}
    BY <1>6, <2>1, <2>2
  <2>3. CASE ClientAt(s, f) = {}
    <3> DEFINE u == [s EXCEPT !.clients = s.clients \union {c}]
    <3>1. u \in Store /\ Differ(s, u, {"clients"})
      BY <1>6, <1>8, ClientAddedIs
    <3>2. t = u
      BY <2>3
    <3> HIDE DEF u, t
    <3>3. /\ u.outq = s.outq /\ u.open = s.open /\ u.ctlHalf = s.ctlHalf /\ u.toRemove = s.toRemove
          /\ u.ctlWatch = s.ctlWatch /\ u.vtHalf = s.vtHalf /\ u.vtWatch = s.vtWatch
      BY <3>1 DEF Differ, Names
    <3> QED BY <2>1, <3>1, <3>2, <3>3 DEF Own
  <2> QED BY <2>2, <2>3
<1> DEFINE r == Replied(t, f, o)
<1>11. Becomes(r, {}, {n}) /\ o \in Outcomes /\ NoneFires(Q)
  BY <1>2, <1>4, CtlOutcomesAre DEF NoneFires, Q
<1> HIDE DEF t
<1>12. Hears(r, skipped, Deaf, Q)
  BY <1>9, <1>10, <1>11, RepliedHears
<1> HIDE DEF r
<1> QED BY <1>3, <1>5, <1>11, <1>12, FiredLeavesHeard DEF Q

\* A client that goes leaves nobody who was heard by its watcher.
LEMMA RemovedDeafens ==
  ASSUME NEW s, NEW K, Fit(s, K), NEW S, NEW D, NEW R, NoneFires(R), Hears(s, S, D, R),
         NEW c \in s.clients, NEW parked \in SUBSET Panes, NEW m, m = s.open[c.ctl]
  PROVE  Hears(Removed(s, c, parked), S, D \union {<<"ctl", m>>}, R)
<1> DEFINE t == Removed(s, c, parked)
           C == Range(s.ctlClose)
           V == Range(s.vtClose)
<1>1. Good(s, C, V, K) /\ Heard(s, C, V, S, D, R) /\ s \in Store
  BY FitStore DEF Fit, Hears
<1>2. Hears(t, S, D, R)
  BY RemovedHears
<1>3. t.clients = s.clients \ {c}
  BY <1>1, RemovedLists
<1> HIDE DEF t, C, V
<1>4. c.ctl \in Fds
  BY <1>1, ClientIs
<1>5. \A d \in t.clients : d.who # m
  <2> SUFFICES ASSUME NEW d \in s.clients, d # c, d.who = m PROVE FALSE
    BY <1>3
  <2>1. d.ctl = c.ctl
    BY <1>1, <1>4, NumberIs
  <2> QED BY <1>1, <2>1 DEF Good, Apart
<1>6. \A d \in t.clients : d.who = m =>
        Finds(Range(t.ctlClose), d.ctl, m)
  BY <1>5
<1> QED BY <1>2, <1>6, CtlDeafened DEF t

LEMMA CtlDetachHeard == ASSUME IHeard, Calm, NEW f \in Fds, CtlDetach(f) PROVE IHeard'
<1> DEFINE K == 1 .. next - 1
           s == CtlReadOn(ses, f)
           m == ses.ctlWatch[f]
           n == <<"ctl", m>>
           Q == ready \ {n}
<1>1. CtlFires(f) /\ IInv
  BY DEF CtlDetach, IHeard
<1>2. PICK c \in ClientAt(s, f), parked \in SUBSET Parkable(s), o \in CtlOutcomes :
        Becomes(Removed(Replied(s, f, o), c, parked), {n}, {n})
  BY DEF CtlDetach
<1>3. /\ closing = "none" /\ Fit(s, K) /\ IsCtl(s, f)
      /\ Differ(ses, s, {"ctlHalf"}) /\ m = ses.open[f]
  BY <1>1, CtlFinds
<1>4. Hears(s, skipped, Deaf, ready) /\ NoneFires(ready)
  BY <1>1, CtlHears
<1>5. IInv'
  BY <1>1, CtlDetachInv
<1> DEFINE r == Replied(s, f, o)
           t == Removed(r, c, parked)
<1>6. Becomes(t, {n}, {n})
  BY <1>2
<1>7. o \in Outcomes
  BY CtlOutcomesAre
<1> HIDE DEF s, K, m
<1>8. Deaf \in SUBSET Deaf /\ Q \in SUBSET ready
  OBVIOUS
<1>9. Hears(s, skipped, Deaf, Q) /\ s \in Store /\ Own(s) /\ NoneFires(Q)
  BY <1>3, <1>4, <1>8, HearsLess, FitStore DEF Fit, Good, NoneFires
<1> HIDE DEF Q
<1>10. Hears(r, skipped, Deaf, Q)
  BY <1>7, <1>9, RepliedHears
<1>11. Fit(r, K) /\ Differ(s, r, {"outq", "ctlClose"})
  BY <1>3, <1>7, RepliedFit
<1> HIDE DEF r
<1>12. r.clients = s.clients /\ r.open = ses.open
  BY <1>3, <1>11 DEF Differ, Names
<1>13. c \in r.clients /\ c.ctl = f /\ m = r.open[c.ctl] /\ parked \in SUBSET Panes
  BY <1>2, <1>3, <1>12 DEF ClientAt, Parkable
<1>14. Hears(t, skipped, Deaf \union {<<"ctl", m>>}, Q)
  BY <1>9, <1>10, <1>11, <1>13, RemovedDeafens
<1> HIDE DEF t
<1>15. Hears(t, skipped, Deaf \union {n}, ready \ {n})
  BY <1>14 DEF Q
<1> HIDE DEF n
<1> QED BY <1>3, <1>5, <1>6, <1>15, EndedLeavesHeard

LEMMA CtlDisconnectHeard == ASSUME IHeard, Calm, NEW f \in Fds, CtlDisconnect(f) PROVE IHeard'
<1> DEFINE K == 1 .. next - 1
           s == CtlReadOn(ses, f)
           m == ses.ctlWatch[f]
           n == <<"ctl", m>>
           Q == ready \ {n}
<1>1. CtlFires(f) /\ IInv
  BY DEF CtlDisconnect, IHeard
<1>2. PICK c \in ClientAt(s, f), parked \in SUBSET Parkable(s), o \in CtlOutcomes :
        Becomes(CtlListed(Removed(Replied(s, f, o), c, parked), f, n[2]), {n}, {n})
  BY DEF CtlDisconnect
<1>3. /\ closing = "none" /\ Fit(s, K) /\ IsCtl(s, f)
      /\ Differ(ses, s, {"ctlHalf"}) /\ m = ses.open[f] /\ m \in Conns
  BY <1>1, CtlFinds
<1>4. Hears(s, skipped, Deaf, ready) /\ NoneFires(ready)
  BY <1>1, CtlHears
<1>5. IInv'
  BY <1>1, CtlDisconnectInv
<1> DEFINE r == Replied(s, f, o)
           t == Removed(r, c, parked)
           u == CtlListed(t, f, m)
           e == EntryOf(t, f, m)
<1>6. Becomes(u, {n}, {n})
  BY <1>2
<1>7. o \in Outcomes
  BY CtlOutcomesAre
<1> HIDE DEF s, K, m
<1>8. Deaf \in SUBSET Deaf /\ Q \in SUBSET ready
  OBVIOUS
<1>9. Hears(s, skipped, Deaf, Q) /\ s \in Store /\ Own(s) /\ NoneFires(Q)
  BY <1>3, <1>4, <1>8, HearsLess, FitStore DEF Fit, Good, NoneFires
<1> HIDE DEF Q
<1>10. Hears(r, skipped, Deaf, Q)
  BY <1>7, <1>9, RepliedHears
<1>11. Fit(r, K) /\ Differ(s, r, {"outq", "ctlClose"})
  BY <1>3, <1>7, RepliedFit
<1> HIDE DEF r
<1>12. r.clients = s.clients /\ r.open = ses.open
  BY <1>3, <1>11 DEF Differ, Names
<1>13. c \in r.clients /\ c.ctl = f /\ m = r.open[c.ctl] /\ parked \in SUBSET Panes
  BY <1>2, <1>3, <1>12 DEF ClientAt, Parkable
<1> DEFINE P == Deaf \union {n}
<1>14. Hears(t, skipped, P, Q)
  <2>1. Hears(t, skipped, Deaf \union {<<"ctl", m>>}, Q)
    BY <1>9, <1>10, <1>11, <1>13, RemovedDeafens
  <2> HIDE DEF t
  <2> QED BY <2>1
<1>15. Good(r, Range(r.ctlClose), Range(r.vtClose), K) /\ r \in Store
  BY <1>11, FitStore DEF Fit
<1>16. /\ t \in Store
       /\ t.noted = r.noted \union Gone(r, c, parked)
       /\ t.clients = r.clients \ {c}
       /\ t.ctlWatch = [r.ctlWatch EXCEPT ![c.ctl] = None]
  <2>1. /\ t \in Store
        /\ t.open = [g \in Fds |-> IF g \in Gone(r, c, parked) THEN None ELSE r.open[g]]
        /\ t.noted = r.noted \union Gone(r, c, parked)
        /\ t.toRemove = r.toRemove \union PodFds(r, parked)
        /\ t.clients = r.clients \ {c}
        /\ t.pod = [p \in Panes |-> IF p \in parked THEN None ELSE r.pod[p]]
        /\ t.notedBefore = r.notedBefore /\ t.toAdd = r.toAdd /\ t.vtClose = r.vtClose
        /\ t.ctlWatch = [r.ctlWatch EXCEPT ![c.ctl] = None]
        /\ \A g \in Fds : /\ t.vtWatch[g] \in {None, r.vtWatch[g]}
                          /\ g # c.vt => t.vtWatch[g] = r.vtWatch[g]
        /\ WaitersListed(r, t)
    BY <1>13, <1>15, RemovedIs
  <2> HIDE DEF t
  <2> QED BY <2>1
<1> HIDE DEF t
<1>17. f \in t.noted /\ t.ctlWatch[f] = None /\ \A d \in t.clients : d.ctl # f
  <2>1. f \in Gone(r, c, parked)
    BY <1>13 DEF Gone, Fds, None
  <2>2. t.ctlWatch[f] = None
    BY <1>13, <1>15, <1>16 DEF Store
  <2>3. \A d \in t.clients : d.ctl # f
    BY <1>13, <1>15, <1>16 DEF Good, Apart
  <2> QED BY <1>16, <2>1, <2>2, <2>3
<1>18. m # None /\ e.fd = f /\ e.node = m /\ e.whose = m
  BY <1>3 DEF EntryOf, Conns, None
<1>19. CtlMayList(t, Q, e)
  <2> HIDE DEF e
  <2> QED BY <1>9, <1>17, <1>18 DEF CtlMayList, NoneFires
<1> HIDE DEF P
<1>20. Hears(u, skipped, P, Q)
  BY <1>3, <1>14, <1>16, <1>19, CtlListedHears
<1> HIDE DEF u
<1>21. Hears(u, skipped, Deaf \union {n}, ready \ {n})
  BY <1>20 DEF P, Q
<1> HIDE DEF n
<1> QED BY <1>3, <1>5, <1>6, <1>21, EndedLeavesHeard

LEMMA CtlStealHeard == ASSUME IHeard, Calm, NEW f \in Fds, CtlSteal(f) PROVE IHeard'
<1> DEFINE K == 1 .. next - 1
           s == CtlReadOn(ses, f)
           n == <<"ctl", ses.ctlWatch[f]>>
           Q == ready \ {n}
<1>1. CtlFires(f) /\ IInv
  BY DEF CtlSteal, IHeard
<1>2. PICK d \in s.clients, parked \in SUBSET Parkable(s), o \in CtlOutcomes :
        Becomes(Replied(Removed(s, d, parked), f, o), {}, {n})
  BY DEF CtlSteal
<1>3. closing = "none" /\ Fit(s, K)
  BY <1>1, CtlFinds
<1>4. Hears(s, skipped, Deaf, ready) /\ NoneFires(ready)
  BY <1>1, CtlHears
<1>5. IInv'
  BY <1>1, CtlStealInv
<1> DEFINE t == Removed(s, d, parked)
           u == Replied(t, f, o)
<1>6. Becomes(u, {}, {n})
  BY <1>2
<1>7. o \in Outcomes
  BY CtlOutcomesAre
<1> HIDE DEF s, K
<1>8. Deaf \in SUBSET Deaf /\ Q \in SUBSET ready
  OBVIOUS
<1>9. Hears(s, skipped, Deaf, Q) /\ NoneFires(Q)
  BY <1>4, <1>8, HearsLess DEF NoneFires
<1> HIDE DEF Q
<1>10. parked \in SUBSET Panes /\ PodFds(s, parked) \intersect s.toAdd = {}
  BY ParkableIs DEF Calm
<1>11. Hears(t, skipped, Deaf, Q)
  BY <1>3, <1>9, <1>10, RemovedHears
<1>12. t \in Store /\ Own(t)
  <2>1. Fit(t, K)
    BY <1>3, <1>10, RemovedFit
  <2> HIDE DEF t
  <2> QED BY <2>1, FitStore DEF Fit, Good
<1> HIDE DEF t
<1>13. Hears(u, skipped, Deaf, Q)
  BY <1>1, <1>7, <1>9, <1>11, <1>12, RepliedHears
<1> HIDE DEF u, n
<1> QED BY <1>3, <1>5, <1>6, <1>13, FiredLeavesHeard DEF Q

LEMMA CtlKillHeard == ASSUME IHeard, Calm, NEW f \in Fds, CtlKill(f) PROVE IHeard'
<1> DEFINE K == 1 .. next - 1
           s == CtlReadOn(ses, f)
           n == <<"ctl", ses.ctlWatch[f]>>
           Q == ready \ {n}
<1>1. CtlFires(f) /\ IInv
  BY DEF CtlKill, IHeard
<1>2. PICK p \in Parkable(s), o \in CtlOutcomes :
        Becomes(Replied(PodsClosed(s, {p}), f, o), {}, {n})
  BY DEF CtlKill
<1>3. closing = "none" /\ Fit(s, K)
  BY <1>1, CtlFinds
<1>4. Hears(s, skipped, Deaf, ready) /\ NoneFires(ready)
  BY <1>1, CtlHears
<1>5. IInv'
  BY <1>1, CtlKillInv
<1> DEFINE t == PodsClosed(s, {p})
           u == Replied(t, f, o)
<1>6. Becomes(u, {}, {n})
  BY <1>2
<1>7. o \in Outcomes
  BY CtlOutcomesAre
<1> HIDE DEF s, K
<1>8. Deaf \in SUBSET Deaf /\ Q \in SUBSET ready
  OBVIOUS
<1>9. Hears(s, skipped, Deaf, Q) /\ NoneFires(Q)
  BY <1>4, <1>8, HearsLess DEF NoneFires
<1> HIDE DEF Q
<1>10. {p} \in SUBSET Panes /\ PodFds(s, {p}) \intersect s.toAdd = {}
  <2>1. {p} \in SUBSET Parkable(s)
    OBVIOUS
  <2> QED BY <2>1, ParkableIs DEF Calm
<1>11. Hears(t, skipped, Deaf, Q)
  BY <1>3, <1>9, <1>10, PodKilledHears
<1>12. t \in Store /\ Own(t)
  <2>1. Fit(t, K)
    BY <1>3, <1>10, PodKilledFit
  <2> HIDE DEF t
  <2> QED BY <2>1, FitStore DEF Fit, Good
<1> HIDE DEF t
<1>13. Hears(u, skipped, Deaf, Q)
  BY <1>1, <1>7, <1>9, <1>11, <1>12, RepliedHears
<1> HIDE DEF u, n
<1> QED BY <1>3, <1>5, <1>6, <1>13, FiredLeavesHeard DEF Q

LEMMA CtlAnswerHeard == ASSUME IHeard, Calm, NEW f \in Fds, CtlAnswer(f) PROVE IHeard'
<1> DEFINE K == 1 .. next - 1
           s == CtlReadOn(ses, f)
           n == <<"ctl", ses.ctlWatch[f]>>
           Q == ready \ {n}
<1>1. CtlFires(f) /\ IInv
  BY DEF CtlAnswer, IHeard
<1>2. PICK w \in s.waiters, o \in CliOutcomes :
        Becomes(CtlListed(Replied([s EXCEPT !.waiters = s.waiters \ {w}], w.fd, o), w.fd, None),
                {}, {n})
  BY DEF CtlAnswer
<1>3. closing = "none" /\ Fit(s, K)
  BY <1>1, CtlFinds
<1>4. Hears(s, skipped, Deaf, ready) /\ NoneFires(ready)
  BY <1>1, CtlHears
<1>5. IInv'
  BY <1>1, CtlAnswerInv
<1> DEFINE t == [s EXCEPT !.waiters = s.waiters \ {w}]
           g == w.fd
           r == Replied(t, g, o)
           u == CtlListed(r, g, None)
           e == EntryOf(r, g, None)
<1>6. Becomes(u, {}, {n})
  BY <1>2
<1>7. o \in Outcomes
  BY CliOutcomesAre DEF Outcomes
<1> HIDE DEF s, K
<1>8. Deaf \in SUBSET Deaf /\ Q \in SUBSET ready
  OBVIOUS
<1>9. Hears(s, skipped, Deaf, Q) /\ s \in Store /\ Own(s) /\ NoneFires(Q)
  BY <1>3, <1>4, <1>8, HearsLess, FitStore DEF Fit, Good, NoneFires
<1> HIDE DEF Q
<1>10. g \in Fds /\ CliUse(s, g)
  BY <1>9 DEF Store, Waiter, CliUse
<1>11. s.open[g] # None /\ ~VtUse(s, Range(s.vtClose), g)
  BY <1>3, <1>10, UsesMay DEF Fit
<1>12. t \in Store /\ Differ(s, t, {"waiters"}) /\ t.waiters = s.waiters \ {w}
  BY <1>9, WaitersTakenIs
<1> HIDE DEF t
<1>13. Hears(t, skipped, Deaf, Q)
  <2>1. Differ(s, t, Aside)
    BY <1>12 DEF Differ, Aside, Unheard
  <2> QED BY <1>9, <2>1, SameHears
<1>14. /\ t.open = s.open /\ t.clients = s.clients /\ t.pod = s.pod /\ t.podWho = s.podWho
       /\ t.noted = s.noted /\ t.notedBefore = s.notedBefore
       /\ t.toRemove = s.toRemove /\ t.toAdd = s.toAdd
       /\ t.vtWatch = s.vtWatch /\ t.ctlWatch = s.ctlWatch
       /\ t.ctlClose = s.ctlClose /\ t.vtClose = s.vtClose /\ t.harm = s.harm
       /\ t.ctlHalf = s.ctlHalf /\ t.vtHalf = s.vtHalf
       /\ t.outq = s.outq /\ t.unregistered = s.unregistered
  BY <1>12 DEF Differ, Names
<1>15. Own(t)
  BY <1>9, <1>14 DEF Own
<1>16. Fit(t, K)
  <2>1. Below(s, t)
    BY <1>12, <1>14 DEF Below
  <2> QED BY <1>3, <1>14, <2>1, BelowFit DEF Fit, Good
<1>17. IsCtl(t, g)
  <2>1. ~CliUse(t, g)
    BY <1>3, <1>12 DEF CliUse, Fit, Good, Apart
  <2> QED BY <1>10, <1>11, <1>14, <2>1 DEF IsCtl, CtlMay, VtUse, IsNoted
<1> HIDE DEF g
<1>18. Hears(r, skipped, Deaf, Q)
  BY <1>7, <1>9, <1>10, <1>12, <1>13, <1>15, RepliedHears
<1>19. Fit(r, K)
  BY <1>7, <1>10, <1>16, <1>17, RepliedFit
<1> HIDE DEF r
<1>20. r \in Store /\ Own(r)
  BY <1>19, FitStore DEF Fit, Good
<1>21. e.fd = g /\ e.node = None /\ e.whose = r.open[g]
  BY DEF EntryOf
<1>22. CtlMayList(r, Q, e)
  <2> HIDE DEF e
  <2> QED BY <1>9, <1>10, <1>20, <1>21, MayListAny
<1>23. Hears(u, skipped, Deaf, Q)
  BY <1>10, <1>18, <1>20, <1>22, CtlListedHears
<1> HIDE DEF u, n
<1> QED BY <1>3, <1>5, <1>6, <1>23, FiredLeavesHeard DEF Q

LEMMA VtReadHeard == ASSUME IHeard, Calm, NEW f \in Fds, VtRead(f) PROVE IHeard'
<1> DEFINE K == 1 .. next - 1
           s == VtReadOn(ses, f)
           n == <<"vt", ses.vtWatch[f]>>
           t == [s EXCEPT !.vtHalf[f] = {s.open[f]}]
           Q == ready \ {n}
<1>1. VtFires(f) /\ ses.open[f] # None /\ IInv
  BY DEF VtRead, IHeard
<1>2. \/ Becomes(s, {}, {n})
      \/ Becomes(t, {}, {n})
      \/ \E g \in RoutedTo(s, f) : GivesUp(s, g) /\ Becomes(VtListed(s, g, None), {}, {n})
  BY DEF VtRead
<1>3. /\ closing = "none" /\ Fit(ses, K)
      /\ "late" \in Faults \/ ses.open[f] = ses.vtWatch[f]
  BY <1>1, VtFinds DEF VtFires
<1>4. Hears(ses, skipped, Deaf, ready) /\ NoneFires(ready)
  BY <1>3, HearerFinds
<1>5. IInv'
  BY <1>1, VtReadInv
<1>6. Fit(s, K) /\ Differ(ses, s, {"vtHalf", "harm"})
  BY <1>1, <1>3, VtReadOnFit
<1> HIDE DEF s, K
<1>7. s \in Store /\ Own(s) /\ s.open = ses.open
  BY <1>6, FitStore DEF Differ, Names, Fit, Good
<1>8. Deaf \in SUBSET Deaf /\ Q \in SUBSET ready
  OBVIOUS
<1>9. Hears(s, skipped, Deaf, Q)
  <2>1. Differ(ses, s, Aside)
    BY <1>6 DEF Differ, Aside, Unheard
  <2>2. Hears(s, skipped, Deaf, ready)
    BY <1>4, <2>1, SameHears
  <2> QED BY <1>8, <2>2, HearsLess
<1>10. CASE Becomes(s, {}, {n})
  <2> HIDE DEF n
  <2> QED BY <1>3, <1>5, <1>9, <1>10, FiredLeavesHeard
<1>11. CASE Becomes(t, {}, {n})
  <2> DEFINE q == {s.open[f]}
  <2>1. q \in SUBSET Conns
    BY <1>1, <1>7 DEF Store
  <2>2. Differ(s, t, {"vtHalf"})
    BY <1>7, <2>1, VtHalfSetIs
  <2>3. Becomes(t, {}, {n})
    BY <1>11
  <2> HIDE DEF t, n
  <2>4. Differ(s, t, Aside)
    BY <2>2 DEF Differ, Aside, Unheard
  <2> HIDE DEF Q
  <2>5. Hears(t, skipped, Deaf, Q)
    BY <1>9, <2>4, SameHears
  <2> QED BY <1>3, <1>5, <2>3, <2>5, FiredLeavesHeard DEF Q
<1>12. ASSUME NEW g \in RoutedTo(s, f), GivesUp(s, g), Becomes(VtListed(s, g, None), {}, {n})
       PROVE  IHeard'
  <2> DEFINE u == VtListed(s, g, None)
             e == EntryOf(s, g, None)
  <2>1. g \in Fds
    BY <1>12 DEF RoutedTo
  <2>2. NoneFires(Q)
    BY <1>4 DEF NoneFires
  <2>3. e.fd = g /\ e.node = None /\ e.whose = s.open[g]
    BY DEF EntryOf
  <2>4. VtMayList(s, Q, e)
    <3> HIDE DEF e, Q
    <3> QED BY <1>7, <2>1, <2>2, <2>3, MayListAny
  <2> HIDE DEF Q
  <2>5. Hears(u, skipped, Deaf, Q)
    BY <1>7, <1>9, <2>1, <2>4, VtListedHears
  <2>6. Becomes(u, {}, {n})
    BY <1>12
  <2> HIDE DEF u, n
  <2> QED BY <1>3, <1>5, <2>5, <2>6, FiredLeavesHeard DEF Q
<1> QED BY <1>2, <1>10, <1>11, <1>12

LEMMA VtHangupHeard == ASSUME IHeard, Calm, NEW f \in Fds, VtHangup(f) PROVE IHeard'
<1> DEFINE m == ses.vtWatch[f]
           n == <<"vt", m>>
           t == VtListed(ses, f, m)
           e == EntryOf(ses, f, m)
           V == Range(ses.vtClose)
           Q == ready \ {n}
<1>1. VtFires(f) /\ Becomes(t, {n}, {n}) /\ IInv
  BY DEF VtHangup, IHeard
<1>3. closing = "none" /\ Fit(ses, 1 .. next - 1) /\ m \in Conns
  BY <1>1, VtFinds
<1>4. Hears(ses, skipped, Deaf, ready)
  BY <1>3, HearerFinds
<1>5. IInv'
  BY <1>1, VtHangupInv
<1>6. /\ ses \in Store /\ m # None /\ m = ses.vtWatch[f]
      /\ n = <<"vt", m>> /\ n \in ready
  BY <1>1, <1>3, FitStore DEF Conns, None, VtFires
<1>7. OwnNumber(ses) /\ VtReady(ses, V, ready)
  BY <1>4 DEF Hears, Heard
<1>8. e.fd = f /\ e.node = m /\ e.whose = m
  BY <1>6 DEF EntryOf
<1> HIDE DEF m
<1>9. VtMayList(ses, Q, e)
  <2> HIDE DEF e, Q
  <2> QED BY <1>6, <1>8 DEF VtMayList
<1>10. Deaf \in SUBSET Deaf /\ Q \in SUBSET ready
  OBVIOUS
<1>11. Hears(ses, skipped, Deaf, Q)
  BY <1>4, <1>10, HearsLess
<1> HIDE DEF Q
<1>12. Hears(t, skipped, Deaf, Q)
  BY <1>3, <1>6, <1>9, <1>11, VtListedHears
<1>13. \/ Range(t.vtClose) = V /\ \E x \in V : x.fd = f
       \/ Range(t.vtClose) = V \union {e}
  BY <1>3, <1>6, VtListedAdds
<1>14. t.open = ses.open
  <2>1. Differ(ses, t, {"vtClose"})
    BY <1>3, <1>6, VtListedIs
  <2> HIDE DEF t
  <2> QED BY <2>1 DEF Differ, Names
<1> HIDE DEF t, e
<1>15. \A g \in Fds : IsRef(t, g) /\ t.open[g] = m => Finds(Range(t.vtClose), g, m)
  <2> SUFFICES ASSUME NEW g \in Fds, ses.open[g] = m
               PROVE  Finds(Range(t.vtClose), g, m)
    BY <1>14
  <2>1. g = f
    BY <1>6, <1>7 DEF OwnNumber
  <2>2. CASE Range(t.vtClose) = V \union {e}
    BY <1>8, <2>1, <2>2 DEF Finds
  <2>3. CASE Range(t.vtClose) = V /\ \E x \in V : x.fd = f
    <3>1. PICK x \in V : x.fd = f
      BY <2>3
    <3>2. x.whose = m /\ x.node \in {None, m}
      BY <1>6, <1>7, <2>1, <3>1 DEF VtReady
    <3> QED BY <2>1, <2>3, <3>1, <3>2 DEF Finds
  <2> QED BY <1>13, <2>2, <2>3
<1> HIDE DEF V
<1>16. Hears(t, skipped, Deaf \union {<<"vt", m>>}, Q)
  BY <1>12, <1>15, VtDeafened
<1>17. Hears(t, skipped, Deaf \union {n}, ready \ {n})
  BY <1>16 DEF Q
<1> HIDE DEF n
<1> QED BY <1>1, <1>3, <1>5, <1>17, EndedLeavesHeard

\* Whoever never registered is listed, unless its number is noted.
LEMMA ReapedHears ==
  ASSUME NEW s, NEW K, Fit(s, K), NEW S, NEW D, NEW R, NoneFires(R), Hears(s, S, D, R),
         NEW late \in SUBSET {f \in s.unregistered : ~IsNoted(s, f)}
  PROVE  Hears(Reaped(s, late), S, D, R)
<1> DEFINE u == (s.unregistered \ late) \ {f \in Fds : ClientAt(s, f) # {}}
           fds == {f \in late : ClientAt(s, f) = {}}
           r == [s EXCEPT !.unregistered = u]
           t == AllListed(r, fds)
<1>1. s \in Store /\ s.unregistered \subseteq Fds /\ Own(s)
  <2>1. s \in Store /\ Own(s)
    BY FitStore DEF Fit, Good
  <2> QED BY <2>1 DEF Store
<1>2. u \in SUBSET Fds /\ fds \in SUBSET Fds
  BY <1>1
<1>3. Reaped(s, late) = t
  BY DEF Reaped
<1> HIDE DEF u, fds
<1>4. r \in Store /\ Differ(s, r, {"unregistered"})
  BY <1>1, <1>2, UnregisteredSetIs
<1> HIDE DEF r
<1>5. Differ(s, r, Aside)
  BY <1>4 DEF Differ, Aside, Unheard
<1>6. Hears(r, S, D, R)
  BY <1>5, SameHears
<1>7. Own(r)
  <2>1. /\ r.open = s.open /\ r.ctlHalf = s.ctlHalf /\ r.toRemove = s.toRemove
        /\ r.ctlWatch = s.ctlWatch /\ r.vtHalf = s.vtHalf /\ r.vtWatch = s.vtWatch
        /\ r.outq = s.outq
    BY <1>4 DEF Differ, Names
  <2> QED BY <1>1, <2>1 DEF Own
<1>8. Hears(t, S, D, R)
  BY <1>2, <1>4, <1>6, <1>7, AllListedHears
<1> QED BY <1>3, <1>8

LEMMA FlushedAllHears ==
  ASSUME NEW s, NEW K, Fit(s, K), NEW S, NEW D, NEW R, NoneFires(R), Hears(s, S, D, R)
  PROVE  Hears(FlushedAll(s), S, D, R)
<1> DEFINE queued == {f \in Fds : s.outq[f] # {}}
           live == {f \in queued : s.open[f] # None}
           q == [f \in Fds |-> IF f \in live THEN {} ELSE s.outq[f]]
           r == [s EXCEPT !.outq = q]
           t == AllListed(r, {})
<1>1. s \in Store /\ Own(s)
  BY FitStore DEF Fit, Good
<1>2. \A f \in queued : s.open[f] # None /\ s.outq[f] \subseteq {s.open[f]}
  BY DEF Fit, Good, Own, UsedIsOpen, CtlUse
<1>3. queued \ live = {} /\ ~(\E f \in live : s.outq[f] \ {s.open[f]} # {})
  BY <1>2
<1>4. FlushedAll(s) = t
  BY <1>3 DEF FlushedAll, Harmed
<1> HIDE DEF live
<1>5. q \in [Fds -> SUBSET Conns]
  BY <1>1 DEF Store
<1>11. \A f \in Fds : q[f] \subseteq {s.open[f]}
  BY <1>1 DEF Own
<1> HIDE DEF q
<1>6. r \in Store /\ Differ(s, r, {"outq"}) /\ r.outq = q
  BY <1>1, <1>5, AllOutqSetIs DEF Store
<1> HIDE DEF r
<1>7. Differ(s, r, Aside)
  BY <1>6 DEF Differ, Aside, Unheard
<1>8. Hears(r, S, D, R)
  BY <1>7, SameHears
<1>9. {} \in SUBSET Fds /\ Own(r)
  <2>1. /\ r.open = s.open /\ r.ctlHalf = s.ctlHalf /\ r.toRemove = s.toRemove
        /\ r.ctlWatch = s.ctlWatch /\ r.vtHalf = s.vtHalf /\ r.vtWatch = s.vtWatch
    BY <1>6 DEF Differ, Names
  <2> QED BY <1>1, <1>6, <1>11, <2>1 DEF Own
<1>10. Hears(t, S, D, R)
  BY <1>6, <1>8, <1>9, AllListedHears
<1> QED BY <1>4, <1>10

LEMMA TickHeard == ASSUME IHeard, Calm, Tick PROVE IHeard'
<1> DEFINE K == 1 .. next - 1
           Q == ready \ {Ticker}
<1>1. Ticker \in ready /\ closing = "none" /\ IInv
  BY DEF Tick, IHeard, IInv, TypeOK
<1>2. PICK late \in SUBSET {f \in ses.unregistered : ~IsNoted(ses, f)}, flush \in BOOLEAN :
        LET s == Reaped(ses, late)
            t == IF flush THEN FlushedAll(s) ELSE s
        IN \/ Becomes(t, {}, {Ticker})
           \/ \E p \in Panes : CanOpen(t) /\ Becomes(Dialled(t, p, next), {}, {Ticker})
  BY DEF Tick
<1> DEFINE s == Reaped(ses, late)
           t == IF flush THEN FlushedAll(s) ELSE s
<1>3. \/ Becomes(t, {}, {Ticker})
      \/ \E p \in Panes : CanOpen(t) /\ Becomes(Dialled(t, p, next), {}, {Ticker})
  BY <1>2
<1>4. /\ Fit(ses, K) /\ ses.toAdd = {} /\ late \in SUBSET ses.unregistered
  BY <1>1, HandlerFinds
<1>5. /\ Hears(ses, skipped, Deaf, ready) /\ NoneFires(ready)
      /\ \A n \in Deaf \union ready : n[2] \in 1 .. next - 1 \/ n = Ticker
  BY <1>1, HearerFinds
<1>6. IInv'
  BY <1>1, TickInv
<1> HIDE DEF K
<1>7. Deaf \in SUBSET Deaf /\ Q \in SUBSET ready
  OBVIOUS
<1>8. Hears(ses, skipped, Deaf, Q) /\ NoneFires(Q)
  BY <1>5, <1>7, HearsLess DEF NoneFires
<1> HIDE DEF Q
<1>9. Fit(s, K) /\ Differ(ses, s, {"unregistered", "ctlClose"}) /\ Hears(s, skipped, Deaf, Q)
  BY <1>4, <1>8, ReapedFit, ReapedHears
<1> HIDE DEF s
<1>10. s.toAdd = {}
  BY <1>4, <1>9 DEF Differ, Names
<1>11. Fit(t, K) /\ t.toAdd = {} /\ Hears(t, skipped, Deaf, Q)
  <2>1. CASE flush
    <3> DEFINE u == FlushedAll(s)
    <3>1. Fit(u, K) /\ Differ(s, u, {"outq", "ctlClose"}) /\ Hears(u, skipped, Deaf, Q)
      BY <1>8, <1>9, FlushedAllFit, FlushedAllHears
    <3>2. t = u
      BY <2>1
    <3> HIDE DEF u
    <3> QED BY <1>10, <3>1, <3>2 DEF Differ, Names
  <2>2. CASE ~flush
    BY <1>9, <1>10, <2>2
  <2> QED BY <2>1, <2>2
<1> HIDE DEF t
<1>12. CASE Becomes(t, {}, {Ticker})
  BY <1>1, <1>6, <1>11, <1>12, FiredLeavesHeard DEF Q
<1>13. ASSUME NEW p \in Panes, CanOpen(t),
              Becomes(Dialled(t, p, next), {}, {Ticker})
       PROVE  IHeard'
  <2> DEFINE u == Dialled(t, p, next)
  <2>1. next \in Conns /\ \E f \in Fds : t.open[f] = None
    BY <1>13 DEF CanOpen
  <2>2. next \notin K /\ next # None
    BY <2>1, ConnectionAssumption DEF Conns, K, None
  <2>4. \A x \in {"ctl", "vt"} : <<x, next>> \notin Deaf \union ready
    BY <1>5, <2>2 DEF Ticker, K
  <2>5. <<"vt", next>> \notin Deaf
    BY <2>4
  <2>6. Hears(u, skipped, Deaf, Q)
    BY <1>8, <1>11, <2>1, <2>2, <2>5, DialledHears
  <2>7. Becomes(u, {}, {Ticker})
    BY <1>13
  <2> HIDE DEF u
  <2> QED BY <1>1, <1>6, <2>6, <2>7, FiredLeavesHeard DEF Q
<1> QED BY <1>3, <1>12, <1>13

LEMMA NextHeard == ASSUME IHeard, Calm, Next PROVE IHeard'
<1>1. CASE Turn BY <1>1, TurnHeard
<1>2. CASE CtlClose BY <1>2, CtlCloseHeard
<1>3. CASE CtlClosesDone BY <1>3, CtlClosesDoneHeard
<1>4. CASE VtClose BY <1>4, VtCloseHeard
<1>5. CASE VtClosesDone BY <1>5, VtClosesDoneHeard
<1>6. CASE TurnAway BY <1>6, TurnAwayHeard
<1>7. CASE CliAtOnce BY <1>7, CliAtOnceHeard
<1>8. CASE CliListed BY <1>8, CliListedHeard
<1>9. CASE CliParked BY <1>9, CliParkedHeard
<1>10. CASE FrontendCtl BY <1>10, FrontendCtlHeard
<1>11. CASE FrontendVt BY <1>11, FrontendVtHeard
<1>12. ASSUME NEW f \in Fds,
              \/ CtlHalf(f) \/ CtlHangup(f) \/ CtlRequest(f) \/ CtlDetach(f)
              \/ CtlDisconnect(f) \/ CtlSteal(f) \/ CtlKill(f) \/ CtlAnswer(f)
              \/ VtRead(f) \/ VtHangup(f)
       PROVE  IHeard'
  BY <1>12, CtlHalfHeard, CtlHangupHeard, CtlRequestHeard, CtlDetachHeard, CtlDisconnectHeard,
     CtlStealHeard, CtlKillHeard, CtlAnswerHeard, VtReadHeard, VtHangupHeard
<1>13. CASE Tick BY <1>13, TickHeard
<1> QED BY <1>1, <1>2, <1>3, <1>4, <1>5, <1>6, <1>7, <1>8, <1>9, <1>10, <1>11, <1>12, <1>13
        DEF Next

LEMMA StutterHeard == ASSUME IHeard, UNCHANGED vars PROVE IHeard'
<1>1. IInv'
  BY StutterInv DEF IHeard
<1>2. /\ ses' = ses /\ todo' = todo /\ closing' = closing /\ polls' = polls /\ ready' = ready
      /\ skipped' = skipped
  BY DEF vars
<1>3. CtlPending' = CtlPending /\ VtPending' = VtPending /\ Deaf' = Deaf
  BY <1>2 DEF CtlPending, VtPending, Deaf, Watched
<1> QED BY <1>1, <1>2, <1>3 DEF IHeard, Heard, OwnNumber, Watched

\* IHeard holds in every state: whatever the handlers list, close, reuse and
\* disarm, a client or a pane's VT connection keeps a watcher that polls, or an
\* entry that will find it, or was disarmed by a skipped entry (server.zig,
\* processPendingCtlCloses).
THEOREM HeardInvariant == Calm => (Spec => []IHeard)
<1> SUFFICES ASSUME Calm PROVE Spec => []IHeard
  OBVIOUS
<1>1. Init => IHeard
  BY InitHeard
<1>2. IHeard /\ [Next]_vars => IHeard'
  BY NextHeard, StutterHeard
<1> QED BY <1>1, <1>2, PTL DEF Spec

\* What it says of a client's connection, and of a VT connection.
LEMMA CtlAttended ==
  ASSUME IHeard, NEW c \in ses.clients
  PROVE  Heeded("ctl", c.who, c.ctl)
<1> SUFFICES ASSUME <<"ctl", c.who>> \notin skipped PROVE IsAttended(c.who, c.ctl)
  BY DEF Heeded
<1>1. /\ ses \in Store /\ Agree(ses)
      /\ Heard(ses, CtlPending, VtPending, skipped, Deaf, ready)
      /\ CtlPending \subseteq Range(ses.ctlClose)
  BY DEF IHeard, IInv, TypeOK, TablesGood, Good
<1>2. c.ctl \in Fds /\ c.who \in Conns /\ ses.open[c.ctl] = c.who
  BY <1>1, ClientIs DEF Agree
<1>3. ses.ctlWatch[c.ctl] = c.who
  BY <1>1 DEF Heard, CtlHeard
<1> DEFINE n == <<"ctl", c.who>>
<1>4. n \in Watched(ses) /\ n \in Watchers
  BY <1>2, <1>3 DEF Watched, Watchers, Conns, None
<1>5. CASE n \in polls
  BY <1>3, <1>5 DEF IsAttended
<1>6. CASE n \notin polls
  <2>1. n \in Deaf
    BY <1>4, <1>6 DEF Deaf
  <2>2. PICK e \in CtlPending : e.whose = c.who
    BY <1>1, <2>1 DEF Heard, CtlHeard, Finds
  <2> QED BY <1>1, <2>2 DEF IsAttended, IsListed
<1> QED BY <1>5, <1>6

LEMMA VtAttended ==
  ASSUME IHeard, NEW f \in Fds, IsRef(ses, f)
  PROVE  Heeded("vt", ses.open[f], f)
<1> SUFFICES ASSUME <<"vt", ses.open[f]>> \notin skipped PROVE IsAttended(ses.open[f], f)
  BY DEF Heeded
<1>1. /\ ses \in Store /\ Good(ses, CtlPending, VtPending, 1 .. next - 1)
      /\ Heard(ses, CtlPending, VtPending, skipped, Deaf, ready)
      /\ VtPending \subseteq Range(ses.vtClose)
  BY DEF IHeard, IInv, TypeOK, TablesGood
<1>2. ses.open[f] \in Conns /\ ses.open[f] # None
  BY <1>1, RefIs DEF Store
<1> DEFINE n == <<"vt", ses.open[f]>>
<1>3. CASE f \in ses.toAdd
  BY <1>3 DEF IsAttended
<1>4. CASE ses.vtWatch[f] = ses.open[f]
  <2>1. n \in Watched(ses) /\ n \in Watchers
    BY <1>2, <1>4 DEF Watched, Watchers
  <2>2. CASE n \in polls
    BY <1>4, <2>2 DEF IsAttended
  <2>3. CASE n \notin polls
    <3>1. n \in Deaf
      BY <2>1, <2>3 DEF Deaf
    <3>2. PICK e \in VtPending : e.whose = ses.open[f]
      BY <1>1, <3>1 DEF Heard, VtHeard, Finds
    <3> QED BY <1>1, <3>2 DEF IsAttended, IsListed
  <2> QED BY <2>2, <2>3
<1> QED BY <1>1, <1>3, <1>4 DEF Heard, VtHeard

\* Every frontend that has registered, and every pod that was dialled, is
\* listened to or about to be closed (handleBinaryCtlMessage, dispatchBinaryVt,
\* connectPodVt), replies that fail, numbers used again at once and late frames
\* included: the only step that can leave it open and unheard is the disarming of
\* its watcher by an entry about the number's earlier connection, one that is
\* skipped (processPendingCtlCloses, processPendingVtCloses).
THEOREM FrontendsAreHeard == Calm => (Spec => []FrontendsHeard)
<1> SUFFICES ASSUME Calm PROVE Spec => []FrontendsHeard
  OBVIOUS
<1>1. IHeard => FrontendsHeard
  <2> SUFFICES ASSUME IHeard PROVE FrontendsHeard
    OBVIOUS
  <2>1. ses \in Store /\ Agree(ses)
    BY DEF IHeard, IInv, TypeOK, TablesGood, Good
  <2>2. ASSUME NEW c \in ses.clients, c.vt # None PROVE Heeded("vt", c.vtWho, c.vt)
    <3>1. c.vt \in Fds /\ IsRef(ses, c.vt) /\ ses.open[c.vt] = c.vtWho
      BY <2>1, <2>2, ClientIs DEF Agree, IsRef
    <3> QED BY <3>1, VtAttended
  <2>3. ASSUME NEW p \in Panes, ses.pod[p] # None PROVE Heeded("vt", ses.podWho[p], ses.pod[p])
    <3>1. ses.pod[p] \in Fds /\ IsRef(ses, ses.pod[p]) /\ ses.open[ses.pod[p]] = ses.podWho[p]
      BY <2>1, <2>3 DEF Agree, IsRef, Store
    <3> QED BY <3>1, VtAttended
  <2> QED BY <2>2, <2>3, CtlAttended DEF FrontendsHeard
<1> QED BY <1>1, HeardInvariant, PTL
=============================================================================
