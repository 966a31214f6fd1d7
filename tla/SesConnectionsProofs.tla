------------------------ MODULE SesConnectionsProofs ------------------------
(***************************************************************************)
(* Whose descriptor it is: proofs about SesConnections.                    *)
(*                                                                         *)
(* Good is the invariant of the tables.  A number is used by one kind of   *)
(* connection at most: as a control connection (its watcher, reader, queue *)
(* or client), as a VT connection (a client's or a pane's) or by a waiter. *)
(* A number that is used is open, and what is kept under it is of the one  *)
(* that has it now.  Two things may be out of date, and both are bounded:  *)
(* an entry of a list of closes whose number is noted, which is skipped,   *)
(* and the watcher of a pod's closed connection until the removals are     *)
(* drained, and its number is noted as well.  So everything rests on the   *)
(* notes outliving the entries: the lists are worked off, in order, before *)
(* the notes are aged.                                                     *)
(*                                                                         *)
(* C and V are the entries that are still to be worked off, K the          *)
(* connections made so far.  Good is a predicate of the tables and not of  *)
(* the variables: a handler passes through several tables in one step, and *)
(* each operation of the model is shown to keep Good by itself.            *)
(*                                                                         *)
(* Calm says which faults the theorems allow: with "long", with "brief",   *)
(* and with "refused" a property is false.                                 *)
(***************************************************************************)
EXTENDS SesConnections, FiniteSetTheorems, SequenceTheorems, WellFoundedInduction, TLAPS

\* Tables as functions of the names of their fields.
Names == {"open", "ctlWatch", "vtWatch", "ctlHalf", "vtHalf", "outq", "unregistered", "ctlClose",
  "vtClose", "noted", "notedBefore", "toRemove", "toAdd", "clients", "waiters", "pod", "podWho", "harm"}
Differ(s, t, changed) == \A x \in Names \ changed : t[x] = s[x]

\* Nothing but those fields.
Whole(s) == s = [x \in Names |-> s[x]]

Fields(s) ==
  /\ s.open \in [Fds -> Conns \union {None}]
  /\ s.ctlWatch \in [Fds -> Conns \union {None}]
  /\ s.vtWatch \in [Fds -> Conns \union {None}]
  /\ s.ctlHalf \in [Fds -> SUBSET Conns]
  /\ s.vtHalf \in [Fds -> SUBSET Conns]
  /\ s.outq \in [Fds -> SUBSET Conns]
  /\ s.unregistered \in SUBSET Fds
  /\ s.ctlClose \in Seq(Entry)
  /\ s.vtClose \in Seq(Entry)
  /\ s.noted \in SUBSET Fds
  /\ s.notedBefore \in SUBSET Fds
  /\ s.toRemove \in SUBSET Fds
  /\ s.toAdd \in SUBSET Fds
  /\ s.clients \in SUBSET Client
  /\ s.waiters \in SUBSET Waiter
  /\ s.pod \in [Panes -> Fds \union {None}]
  /\ s.podWho \in [Panes -> Conns \union {None}]
  /\ s.harm \in SUBSET Harms

\* The record type, one field at a time.
LEMMA StoreIs == ASSUME NEW s PROVE s \in Store <=> Whole(s) /\ Fields(s)
  BY DEF Store, Whole, Fields, Names

\* The connections to the pods of some panes.
PodFds(s, ps) == {s.pod[p] : p \in ps} \ {None}

\* f is in use as a control connection, as a VT connection, by a waiter.  The
\* watcher and the half of a number that is to be removed do not count.
CtlUse(s, C, f) ==
  \/ s.ctlWatch[f] # None
  \/ s.ctlHalf[f] # {}
  \/ s.outq[f] # {}
  \/ f \in s.unregistered
  \/ \E c \in s.clients : c.ctl = f
  \/ \E e \in C : e.fd = f /\ ~IsNoted(s, f)

VtUse(s, V, f) ==
  \/ f \notin s.toRemove /\ s.vtWatch[f] # None
  \/ f \notin s.toRemove /\ s.vtHalf[f] # {}
  \/ \E c \in s.clients : c.vt = f
  \/ \E p \in Panes : s.pod[p] = f
  \/ \E e \in V : e.fd = f /\ ~IsNoted(s, f)

CliUse(s, f) == \E w \in s.waiters : w.fd = f

\* Connections have numbers that were given.
Typed(s, C, V, K) ==
  /\ s \in Store
  /\ C \subseteq Entry
  /\ V \subseteq Entry
  /\ K \subseteq Conns
  /\ \A f \in Fds : s.open[f] \in K \union {None} /\ s.vtWatch[f] \in K \union {None}

\* RecordsAgree, of any tables.
Agree(s) ==
  /\ \A c \in s.clients :
       /\ s.open[c.ctl] = c.who
       /\ c.vt # None => s.open[c.vt] = c.vtWho
  /\ \A w \in s.waiters : s.open[w.fd] = w.whose
  /\ \A p \in Panes : s.pod[p] # None => s.open[s.pod[p]] = s.podWho[p]

\* No two records have the same number.
Apart(s) ==
  /\ \A c, d \in s.clients : c.ctl = d.ctl => c = d
  /\ \A c, d \in s.clients : c.vt = d.vt /\ c.vt # None => c = d
  /\ \A c \in s.clients, p \in Panes : c.vt = s.pod[p] => c.vt = None
  /\ \A p, q \in Panes : s.pod[p] = s.pod[q] /\ s.pod[p] # None => p = q
  /\ \A v, w \in s.waiters : v.fd = w.fd => v = w

\* What is in use is open.
UsedIsOpen(s, C, V) ==
  \A f \in Fds : CtlUse(s, C, f) \/ VtUse(s, V, f) \/ CliUse(s, f) => s.open[f] # None

\* Nothing is in use in two ways.
OneUse(s, C, V) ==
  \A f \in Fds :
    /\ ~(CtlUse(s, C, f) /\ VtUse(s, V, f))
    /\ ~(CtlUse(s, C, f) /\ CliUse(s, f))
    /\ ~(VtUse(s, V, f) /\ CliUse(s, f))

\* Queues, halves and watchers are the connection's own.
Own(s) ==
  \A f \in Fds :
    /\ s.outq[f] \subseteq {s.open[f]}
    /\ s.ctlHalf[f] \subseteq {s.open[f]}
    /\ s.ctlWatch[f] \in {None, s.open[f]}
    /\ f \notin s.toRemove => s.vtHalf[f] \subseteq {s.open[f]}
    /\ f \notin s.toRemove => s.vtWatch[f] \in {None, s.open[f]}

\* What is to be removed has been noted and is not the one watched; what is to
\* be armed is the connection of some pane.
Stale(s) ==
  /\ \A f \in s.toRemove : IsNoted(s, f) /\ (s.open[f] = None \/ s.open[f] # s.vtWatch[f])
  /\ \A f \in s.toAdd : \E p \in Panes : s.pod[p] = f

\* Entries are skipped or are about the connection that has the number.
Due(s, E) ==
  /\ \A e \in E : IsNoted(s, e.fd) \/ e.whose = s.open[e.fd]
  /\ \A d, e \in E : d.fd = e.fd /\ ~IsNoted(s, e.fd) => d = e

\* The harms that do not happen.
Averted == {"foreign close", "crossed bytes"} \union
           (IF "late" \in Faults THEN {} ELSE {"spliced frame"})

Good(s, C, V, K) ==
  /\ Typed(s, C, V, K)
  /\ Agree(s)
  /\ Apart(s)
  /\ UsedIsOpen(s, C, V)
  /\ OneUse(s, C, V)
  /\ Own(s)
  /\ Stale(s)
  /\ Due(s, C)
  /\ Due(s, V)
  /\ s.harm \intersect Averted = {}

\* The entries that are still to be worked off.
CtlPending == IF closing = "ctl" THEN Range(todo) ELSE Range(ses.ctlClose)
VtPending == IF closing = "vt" THEN Range(todo) ELSE Range(ses.vtClose)

\* The operations, one field at a time.
LEMMA PodsClosedIs ==
  ASSUME NEW s \in Store, NEW ps \in SUBSET Panes
  PROVE  /\ PodsClosed(s, ps) \in Store
         /\ Differ(s, PodsClosed(s, ps), {"open", "noted", "toRemove", "pod", "podWho"})
         /\ PodsClosed(s, ps).open = [f \in Fds |-> IF f \in PodFds(s, ps) THEN None ELSE s.open[f]]
         /\ PodsClosed(s, ps).noted = s.noted \union PodFds(s, ps)
         /\ PodsClosed(s, ps).toRemove = s.toRemove \union PodFds(s, ps)
         /\ PodsClosed(s, ps).pod = [p \in Panes |-> IF p \in ps THEN None ELSE s.pod[p]]
         /\ PodsClosed(s, ps).podWho = [p \in Panes |-> IF p \in ps THEN None ELSE s.podWho[p]]
<1> DEFINE t == PodsClosed(s, ps)
<1>1. Whole(s) /\ Fields(s)
  BY StoreIs
<1>2. Whole(t)
  BY <1>1 DEF Whole, PodsClosed, PodFds, ClosedAtOnce, Closed, Noted
<1>3. Differ(s, t, {"open", "noted", "toRemove", "pod", "podWho"})
  BY <1>1 DEF Whole, Differ, Names, PodsClosed, PodFds, ClosedAtOnce, Closed, Noted
<1>4. /\ t.open = [f \in Fds |-> IF f \in PodFds(s, ps) THEN None ELSE s.open[f]]
      /\ t.noted = s.noted \union PodFds(s, ps)
      /\ t.toRemove = s.toRemove \union PodFds(s, ps)
      /\ t.pod = [p \in Panes |-> IF p \in ps THEN None ELSE s.pod[p]]
      /\ t.podWho = [p \in Panes |-> IF p \in ps THEN None ELSE s.podWho[p]]
  BY <1>1 DEF Whole, PodsClosed, PodFds, ClosedAtOnce, Closed, Noted
<1> HIDE DEF t
<1>5. PodFds(s, ps) \in SUBSET Fds
  BY <1>1, <1>4 DEF Fields, PodFds
<1>6. t.open \in [Fds -> Conns \union {None}]
  BY <1>1, <1>4, <1>5 DEF Fields
<1>7. t.pod \in [Panes -> Fds \union {None}] /\ t.podWho \in [Panes -> Conns \union {None}]
  BY <1>1, <1>4, <1>5, <1>6 DEF Fields
<1>8. Fields(t)
  BY <1>1, <1>3, <1>4, <1>5, <1>6, <1>7 DEF Fields, Differ, Names
<1> QED
  BY <1>2, <1>3, <1>4, <1>8, StoreIs DEF t

LEMMA ClosedIs ==
  ASSUME NEW s \in Store, NEW fds \in SUBSET Fds
  PROVE  /\ Closed(s, fds) \in Store
         /\ Differ(s, Closed(s, fds), {"open"})
         /\ Closed(s, fds).open = [f \in Fds |-> IF f \in fds THEN None ELSE s.open[f]]
<1> DEFINE t == Closed(s, fds)
<1>1. Whole(s) /\ Fields(s)
  BY StoreIs
<1>2. Whole(t)
  BY <1>1 DEF Whole, Closed
<1>3. Differ(s, t, {"open"})
  BY <1>1 DEF Whole, Differ, Names, Closed
<1>4. /\ t.open = [f \in Fds |-> IF f \in fds THEN None ELSE s.open[f]]
  BY <1>1 DEF Whole, Closed
<1> HIDE DEF t
<1>5. t.open \in [Fds -> Conns \union {None}]
  BY <1>1, <1>4 DEF Fields
<1>6. Fields(t)
  BY <1>1, <1>3, <1>4, <1>5 DEF Fields, Differ, Names
<1> QED
  BY <1>2, <1>3, <1>4, <1>6, StoreIs DEF t

LEMMA ClosedAtOnceIs ==
  ASSUME NEW s \in Store, NEW fds \in SUBSET Fds
  PROVE  /\ ClosedAtOnce(s, fds) \in Store
         /\ Differ(s, ClosedAtOnce(s, fds), {"open", "noted"})
         /\ ClosedAtOnce(s, fds).open = [f \in Fds |-> IF f \in fds THEN None ELSE s.open[f]]
         /\ ClosedAtOnce(s, fds).noted = s.noted \union fds
<1> DEFINE t == ClosedAtOnce(s, fds)
<1>1. Whole(s) /\ Fields(s)
  BY StoreIs
<1>2. Whole(t)
  BY <1>1 DEF Whole, ClosedAtOnce, Closed, Noted
<1>3. Differ(s, t, {"open", "noted"})
  BY <1>1 DEF Whole, Differ, Names, ClosedAtOnce, Closed, Noted
<1>4. /\ t.open = [f \in Fds |-> IF f \in fds THEN None ELSE s.open[f]]
      /\ t.noted = s.noted \union fds
  BY <1>1 DEF Whole, ClosedAtOnce, Closed, Noted
<1> HIDE DEF t
<1>5. t.open \in [Fds -> Conns \union {None}]
  BY <1>1, <1>4 DEF Fields
<1>6. Fields(t)
  BY <1>1, <1>3, <1>4, <1>5 DEF Fields, Differ, Names
<1> QED
  BY <1>2, <1>3, <1>4, <1>6, StoreIs DEF t

LEMMA CtlDisarmedIs ==
  ASSUME NEW s \in Store, NEW f \in Fds
  PROVE  /\ CtlDisarmed(s, f) \in Store
         /\ Differ(s, CtlDisarmed(s, f), {"ctlWatch"})
         /\ CtlDisarmed(s, f).ctlWatch = [s.ctlWatch EXCEPT ![f] = None]
<1> DEFINE t == CtlDisarmed(s, f)
<1>1. Whole(s) /\ Fields(s)
  BY StoreIs
<1>2. Whole(t)
  BY <1>1 DEF Whole, CtlDisarmed
<1>3. Differ(s, t, {"ctlWatch"})
  BY <1>1 DEF Whole, Differ, Names, CtlDisarmed
<1>4. /\ t.ctlWatch = [s.ctlWatch EXCEPT ![f] = None]
  BY <1>1 DEF Whole, CtlDisarmed
<1> HIDE DEF t
<1>5. t.ctlWatch \in [Fds -> Conns \union {None}]
  BY <1>1, <1>4 DEF Fields
<1>6. Fields(t)
  BY <1>1, <1>3, <1>4, <1>5 DEF Fields, Differ, Names
<1> QED
  BY <1>2, <1>3, <1>4, <1>6, StoreIs DEF t

LEMMA VtDisarmedIs ==
  ASSUME NEW s \in Store, NEW f \in Fds
  PROVE  /\ VtDisarmed(s, f) \in Store
         /\ Differ(s, VtDisarmed(s, f), {"vtWatch"})
         /\ VtDisarmed(s, f).vtWatch = [s.vtWatch EXCEPT ![f] = None]
<1> DEFINE t == VtDisarmed(s, f)
<1>1. Whole(s) /\ Fields(s)
  BY StoreIs
<1>2. Whole(t)
  BY <1>1 DEF Whole, VtDisarmed
<1>3. Differ(s, t, {"vtWatch"})
  BY <1>1 DEF Whole, Differ, Names, VtDisarmed
<1>4. /\ t.vtWatch = [s.vtWatch EXCEPT ![f] = None]
  BY <1>1 DEF Whole, VtDisarmed
<1> HIDE DEF t
<1>5. t.vtWatch \in [Fds -> Conns \union {None}]
  BY <1>1, <1>4 DEF Fields
<1>6. Fields(t)
  BY <1>1, <1>3, <1>4, <1>5 DEF Fields, Differ, Names
<1> QED
  BY <1>2, <1>3, <1>4, <1>6, StoreIs DEF t

LEMMA CtlDroppedIs ==
  ASSUME NEW s \in Store, NEW f \in Fds
  PROVE  /\ CtlDropped(s, f) \in Store
         /\ Differ(s, CtlDropped(s, f), {"ctlHalf", "outq", "unregistered"})
         /\ CtlDropped(s, f).ctlHalf = [s.ctlHalf EXCEPT ![f] = {}]
         /\ CtlDropped(s, f).outq = [s.outq EXCEPT ![f] = {}]
         /\ CtlDropped(s, f).unregistered = s.unregistered \ {f}
<1> DEFINE t == CtlDropped(s, f)
<1>1. Whole(s) /\ Fields(s)
  BY StoreIs
<1>2. Whole(t)
  BY <1>1 DEF Whole, CtlDropped
<1>3. Differ(s, t, {"ctlHalf", "outq", "unregistered"})
  BY <1>1 DEF Whole, Differ, Names, CtlDropped
<1>4. /\ t.ctlHalf = [s.ctlHalf EXCEPT ![f] = {}]
      /\ t.outq = [s.outq EXCEPT ![f] = {}]
      /\ t.unregistered = s.unregistered \ {f}
  BY <1>1 DEF Whole, CtlDropped
<1> HIDE DEF t
<1>5. t.ctlHalf \in [Fds -> SUBSET Conns]
  BY <1>1, <1>4 DEF Fields
<1>6. t.outq \in [Fds -> SUBSET Conns]
  BY <1>1, <1>4, <1>5 DEF Fields
<1>7. Fields(t)
  BY <1>1, <1>3, <1>4, <1>5, <1>6 DEF Fields, Differ, Names
<1> QED
  BY <1>2, <1>3, <1>4, <1>7, StoreIs DEF t

LEMMA VtDroppedIs ==
  ASSUME NEW s \in Store, NEW f \in Fds
  PROVE  /\ VtDropped(s, f) \in Store
         /\ Differ(s, VtDropped(s, f), {"vtHalf"})
         /\ VtDropped(s, f).vtHalf = [s.vtHalf EXCEPT ![f] = {}]
<1> DEFINE t == VtDropped(s, f)
<1>1. Whole(s) /\ Fields(s)
  BY StoreIs
<1>2. Whole(t)
  BY <1>1 DEF Whole, VtDropped
<1>3. Differ(s, t, {"vtHalf"})
  BY <1>1 DEF Whole, Differ, Names, VtDropped
<1>4. /\ t.vtHalf = [s.vtHalf EXCEPT ![f] = {}]
  BY <1>1 DEF Whole, VtDropped
<1> HIDE DEF t
<1>5. t.vtHalf \in [Fds -> SUBSET Conns]
  BY <1>1, <1>4 DEF Fields
<1>6. Fields(t)
  BY <1>1, <1>3, <1>4, <1>5 DEF Fields, Differ, Names
<1> QED
  BY <1>2, <1>3, <1>4, <1>6, StoreIs DEF t

LEMMA ClientClosedIs ==
  ASSUME NEW s \in Store, NEW c \in s.clients
  PROVE  /\ ClientClosed(s, c) \in Store
         /\ Differ(s, ClientClosed(s, c), {"open", "noted", "clients"})
         /\ ClientClosed(s, c).open = [f \in Fds |-> IF f \in {c.ctl, c.vt} \ {None} THEN None ELSE s.open[f]]
         /\ ClientClosed(s, c).noted = s.noted \union ({c.ctl, c.vt} \ {None})
         /\ ClientClosed(s, c).clients = s.clients \ {c}
<1> DEFINE t == ClientClosed(s, c)
<1>1. Whole(s) /\ Fields(s)
  BY StoreIs
<1>2. Whole(t)
  BY <1>1 DEF Whole, ClientClosed, ClosedAtOnce, Closed, Noted
<1>3. Differ(s, t, {"open", "noted", "clients"})
  BY <1>1 DEF Whole, Differ, Names, ClientClosed, ClosedAtOnce, Closed, Noted
<1>4. /\ t.open = [f \in Fds |-> IF f \in {c.ctl, c.vt} \ {None} THEN None ELSE s.open[f]]
      /\ t.noted = s.noted \union ({c.ctl, c.vt} \ {None})
      /\ t.clients = s.clients \ {c}
  BY <1>1 DEF Whole, ClientClosed, ClosedAtOnce, Closed, Noted
<1> HIDE DEF t
<1>5. {c.ctl, c.vt} \ {None} \in SUBSET Fds
  BY <1>1, <1>4 DEF Fields, Client
<1>6. t.open \in [Fds -> Conns \union {None}]
  BY <1>1, <1>4, <1>5 DEF Fields
<1>7. Fields(t)
  BY <1>1, <1>3, <1>4, <1>5, <1>6 DEF Fields, Differ, Names
<1> QED
  BY <1>2, <1>3, <1>4, <1>7, StoreIs DEF t

LEMMA DisarmedIs ==
  ASSUME NEW s \in Store
  PROVE  /\ Disarmed(s) \in Store
         /\ Differ(s, Disarmed(s), {"ctlWatch", "vtWatch", "ctlHalf", "vtHalf", "outq", "unregistered", "toRemove"})
         /\ Disarmed(s).ctlWatch = [f \in Fds |-> IF f \in s.toRemove THEN None ELSE s.ctlWatch[f]]
         /\ Disarmed(s).vtWatch = [f \in Fds |-> IF f \in s.toRemove THEN None ELSE s.vtWatch[f]]
         /\ Disarmed(s).ctlHalf = [f \in Fds |-> IF f \in s.toRemove THEN {} ELSE s.ctlHalf[f]]
         /\ Disarmed(s).vtHalf = [f \in Fds |-> IF f \in s.toRemove THEN {} ELSE s.vtHalf[f]]
         /\ Disarmed(s).outq = [f \in Fds |-> IF f \in s.toRemove THEN {} ELSE s.outq[f]]
         /\ Disarmed(s).unregistered = s.unregistered \ s.toRemove
         /\ Disarmed(s).toRemove = {}
<1> DEFINE t == Disarmed(s)
<1>1. Whole(s) /\ Fields(s)
  BY StoreIs
<1>2. Whole(t)
  BY <1>1 DEF Whole, Disarmed
<1>3. Differ(s, t, {"ctlWatch", "vtWatch", "ctlHalf", "vtHalf", "outq", "unregistered", "toRemove"})
  BY <1>1 DEF Whole, Differ, Names, Disarmed
<1>4. /\ t.ctlWatch = [f \in Fds |-> IF f \in s.toRemove THEN None ELSE s.ctlWatch[f]]
      /\ t.vtWatch = [f \in Fds |-> IF f \in s.toRemove THEN None ELSE s.vtWatch[f]]
      /\ t.ctlHalf = [f \in Fds |-> IF f \in s.toRemove THEN {} ELSE s.ctlHalf[f]]
      /\ t.vtHalf = [f \in Fds |-> IF f \in s.toRemove THEN {} ELSE s.vtHalf[f]]
      /\ t.outq = [f \in Fds |-> IF f \in s.toRemove THEN {} ELSE s.outq[f]]
      /\ t.unregistered = s.unregistered \ s.toRemove
      /\ t.toRemove = {}
  BY <1>1 DEF Whole, Disarmed
<1> HIDE DEF t
<1>5. t.ctlWatch \in [Fds -> Conns \union {None}]
  BY <1>1, <1>4 DEF Fields
<1>6. t.vtWatch \in [Fds -> Conns \union {None}]
  BY <1>1, <1>4, <1>5 DEF Fields
<1>7. t.ctlHalf \in [Fds -> SUBSET Conns]
  BY <1>1, <1>4, <1>5, <1>6 DEF Fields
<1>8. t.vtHalf \in [Fds -> SUBSET Conns]
  BY <1>1, <1>4, <1>5, <1>6, <1>7 DEF Fields
<1>9. t.outq \in [Fds -> SUBSET Conns]
  BY <1>1, <1>4, <1>5, <1>6, <1>7, <1>8 DEF Fields
<1>10. Fields(t)
  BY <1>1, <1>3, <1>4, <1>5, <1>6, <1>7, <1>8, <1>9 DEF Fields, Differ, Names
<1> QED
  BY <1>2, <1>3, <1>4, <1>10, StoreIs DEF t

LEMMA ArmedIs ==
  ASSUME NEW s \in Store
  PROVE  /\ Armed(s) \in Store
         /\ Differ(s, Armed(s), {"vtWatch", "pod", "toAdd"})
         /\ Armed(s).vtWatch = [f \in Fds |-> IF f \in s.toAdd /\ s.vtWatch[f] = None THEN s.open[f] ELSE s.vtWatch[f]]
         /\ Armed(s).pod = [p \in Panes |-> IF s.pod[p] \in s.toAdd /\ s.open[s.pod[p]] = None THEN None ELSE s.pod[p]]
         /\ Armed(s).toAdd = {}
<1> DEFINE t == Armed(s)
<1>1. Whole(s) /\ Fields(s)
  BY StoreIs
<1>2. Whole(t)
  BY <1>1 DEF Whole, Armed
<1>3. Differ(s, t, {"vtWatch", "pod", "toAdd"})
  BY <1>1 DEF Whole, Differ, Names, Armed
<1>4. /\ t.vtWatch = [f \in Fds |-> IF f \in s.toAdd /\ s.vtWatch[f] = None THEN s.open[f] ELSE s.vtWatch[f]]
      /\ t.pod = [p \in Panes |-> IF s.pod[p] \in s.toAdd /\ s.open[s.pod[p]] = None THEN None ELSE s.pod[p]]
      /\ t.toAdd = {}
  BY <1>1 DEF Whole, Armed
<1> HIDE DEF t
<1>5. t.vtWatch \in [Fds -> Conns \union {None}]
  BY <1>1, <1>4 DEF Fields
<1>6. t.pod \in [Panes -> Fds \union {None}]
  BY <1>1, <1>4, <1>5 DEF Fields
<1>7. Fields(t)
  BY <1>1, <1>3, <1>4, <1>5, <1>6 DEF Fields, Differ, Names
<1> QED
  BY <1>2, <1>3, <1>4, <1>7, StoreIs DEF t

LEMMA RotatedIs ==
  ASSUME NEW s \in Store
  PROVE  /\ Rotated(s) \in Store
         /\ Differ(s, Rotated(s), {"noted", "notedBefore"})
         /\ Rotated(s).noted = {}
         /\ Rotated(s).notedBefore = s.noted
<1> DEFINE t == Rotated(s)
<1>1. Whole(s) /\ Fields(s)
  BY StoreIs
<1>2. Whole(t)
  BY <1>1 DEF Whole, Rotated
<1>3. Differ(s, t, {"noted", "notedBefore"})
  BY <1>1 DEF Whole, Differ, Names, Rotated
<1>4. /\ t.noted = {}
      /\ t.notedBefore = s.noted
  BY <1>1 DEF Whole, Rotated
<1> HIDE DEF t
<1>5. Fields(t)
  BY <1>1, <1>3, <1>4 DEF Fields, Differ, Names
<1> QED
  BY <1>2, <1>3, <1>4, <1>5, StoreIs DEF t

LEMMA OpenedIs ==
  ASSUME NEW s \in Store, NEW c \in Conns, LowestFree(s) \in Fds
  PROVE  /\ Opened(s, c) \in Store
         /\ Differ(s, Opened(s, c), {"open"})
         /\ Opened(s, c).open = [s.open EXCEPT ![LowestFree(s)] = c]
<1> DEFINE t == Opened(s, c)
<1>1. Whole(s) /\ Fields(s)
  BY StoreIs
<1>2. Whole(t)
  BY <1>1 DEF Whole, Opened
<1>3. Differ(s, t, {"open"})
  BY <1>1 DEF Whole, Differ, Names, Opened
<1>4. /\ t.open = [s.open EXCEPT ![LowestFree(s)] = c]
  BY <1>1 DEF Whole, Opened
<1> HIDE DEF t
<1>5. t.open \in [Fds -> Conns \union {None}]
  BY <1>1, <1>4 DEF Fields
<1>6. Fields(t)
  BY <1>1, <1>3, <1>4, <1>5 DEF Fields, Differ, Names
<1> QED
  BY <1>2, <1>3, <1>4, <1>6, StoreIs DEF t

LEMMA CtlListedIs ==
  ASSUME NEW s \in Store, NEW f \in Fds, NEW node \in Conns \union {None}
  PROVE  /\ CtlListed(s, f, node) \in Store
         /\ Differ(s, CtlListed(s, f, node), {"ctlClose"})
         /\ CtlListed(s, f, node).ctlClose = Listed(s.ctlClose, EntryOf(s, f, node))
<1> DEFINE t == CtlListed(s, f, node)
<1>1. Whole(s) /\ Fields(s)
  BY StoreIs
<1>2. Whole(t)
  BY <1>1 DEF Whole, CtlListed
<1>3. Differ(s, t, {"ctlClose"})
  BY <1>1 DEF Whole, Differ, Names, CtlListed
<1>4. /\ t.ctlClose = Listed(s.ctlClose, EntryOf(s, f, node))
  BY <1>1 DEF Whole, CtlListed
<1> HIDE DEF t
<1>5. EntryOf(s, f, node) \in Entry
  BY <1>1, <1>4 DEF Fields, EntryOf, Entry
<1>6. t.ctlClose \in Seq(Entry)
  BY <1>1, <1>4, <1>5 DEF Fields, Listed
<1>7. Fields(t)
  BY <1>1, <1>3, <1>4, <1>5, <1>6 DEF Fields, Differ, Names
<1> QED
  BY <1>2, <1>3, <1>4, <1>7, StoreIs DEF t

LEMMA VtListedIs ==
  ASSUME NEW s \in Store, NEW f \in Fds, NEW node \in Conns \union {None}
  PROVE  /\ VtListed(s, f, node) \in Store
         /\ Differ(s, VtListed(s, f, node), {"vtClose"})
         /\ VtListed(s, f, node).vtClose = Listed(s.vtClose, EntryOf(s, f, node))
<1> DEFINE t == VtListed(s, f, node)
<1>1. Whole(s) /\ Fields(s)
  BY StoreIs
<1>2. Whole(t)
  BY <1>1 DEF Whole, VtListed
<1>3. Differ(s, t, {"vtClose"})
  BY <1>1 DEF Whole, Differ, Names, VtListed
<1>4. /\ t.vtClose = Listed(s.vtClose, EntryOf(s, f, node))
  BY <1>1 DEF Whole, VtListed
<1> HIDE DEF t
<1>5. EntryOf(s, f, node) \in Entry
  BY <1>1, <1>4 DEF Fields, EntryOf, Entry
<1>6. t.vtClose \in Seq(Entry)
  BY <1>1, <1>4, <1>5 DEF Fields, Listed
<1>7. Fields(t)
  BY <1>1, <1>3, <1>4, <1>5, <1>6 DEF Fields, Differ, Names
<1> QED
  BY <1>2, <1>3, <1>4, <1>7, StoreIs DEF t

LEMMA WaitersTakenIs ==
  ASSUME NEW s \in Store, NEW W
  PROVE  /\ [s EXCEPT !.waiters = s.waiters \ W] \in Store
         /\ Differ(s, [s EXCEPT !.waiters = s.waiters \ W], {"waiters"})
         /\ [s EXCEPT !.waiters = s.waiters \ W].waiters = s.waiters \ W
<1> DEFINE t == [s EXCEPT !.waiters = s.waiters \ W]
<1>1. Whole(s) /\ Fields(s)
  BY StoreIs
<1>2. Whole(t)
  BY <1>1 DEF Whole
<1>3. Differ(s, t, {"waiters"})
  BY <1>1 DEF Whole, Differ, Names
<1>4. /\ t.waiters = s.waiters \ W
  BY <1>1 DEF Whole
<1> HIDE DEF t
<1>5. Fields(t)
  BY <1>1, <1>3, <1>4 DEF Fields, Differ, Names
<1> QED
  BY <1>2, <1>3, <1>4, <1>5, StoreIs DEF t

LEMMA HarmedIs ==
  ASSUME NEW s \in Store, NEW what \in Harms, NEW happened \in BOOLEAN
  PROVE  /\ Harmed(s, what, happened) \in Store
         /\ Differ(s, Harmed(s, what, happened), {"harm"})
         /\ Harmed(s, what, happened).harm = IF happened THEN s.harm \union {what} ELSE s.harm
<1> DEFINE t == Harmed(s, what, happened)
<1>1. Whole(s) /\ Fields(s)
  BY StoreIs
<1>2. Whole(t)
  BY <1>1 DEF Whole, Harmed
<1>3. Differ(s, t, {"harm"})
  BY <1>1 DEF Whole, Differ, Names, Harmed
<1>4. /\ t.harm = IF happened THEN s.harm \union {what} ELSE s.harm
  BY <1>1 DEF Whole, Harmed
<1> HIDE DEF t
<1>5. Fields(t)
  BY <1>1, <1>3, <1>4 DEF Fields, Differ, Names
<1> QED
  BY <1>2, <1>3, <1>4, <1>5, StoreIs DEF t

\* t is s with less in it.
Below(s, t) ==
  /\ t \in Store
  /\ t.open = s.open /\ t.clients = s.clients /\ t.pod = s.pod /\ t.podWho = s.podWho
  /\ t.noted = s.noted /\ t.notedBefore = s.notedBefore
  /\ t.toRemove = s.toRemove /\ t.toAdd = s.toAdd
  /\ t.waiters \subseteq s.waiters /\ t.unregistered \subseteq s.unregistered
  /\ \A f \in Fds :
       /\ t.ctlWatch[f] \in {None, s.ctlWatch[f]} /\ t.vtWatch[f] \in {None, s.vtWatch[f]}
       /\ t.ctlHalf[f] \subseteq s.ctlHalf[f] /\ t.vtHalf[f] \subseteq s.vtHalf[f]
       /\ t.outq[f] \subseteq s.outq[f]

LEMMA BelowGood ==
  ASSUME NEW s, NEW t, NEW C, NEW V, NEW K, Good(s, C, V, K), Below(s, t),
         NEW D \in SUBSET C, NEW W \in SUBSET V, t.harm \intersect Averted = {}
  PROVE  Good(t, D, W, K)
<1>1. Typed(t, D, W, K)
  BY DEF Below, Good, Typed
<1>2. ASSUME NEW f \in Fds
      PROVE  /\ CtlUse(t, D, f) => CtlUse(s, C, f)
             /\ VtUse(t, W, f) => VtUse(s, V, f)
             /\ CliUse(t, f) => CliUse(s, f)
  <2>1. CtlUse(t, D, f) => CtlUse(s, C, f)
    BY DEF Below, CtlUse, IsNoted
  <2>2. VtUse(t, W, f) => VtUse(s, V, f)
    BY DEF Below, VtUse, IsNoted
  <2>3. CliUse(t, f) => CliUse(s, f)
    BY DEF Below, CliUse
  <2> QED BY <2>1, <2>2, <2>3
<1>3. Agree(t) /\ Apart(t)
  BY DEF Below, Good, Agree, Apart
<1>4. UsedIsOpen(t, D, W) /\ OneUse(t, D, W)
  BY <1>2 DEF Below, Good, UsedIsOpen, OneUse
<1>5. Own(t)
  <2> SUFFICES ASSUME NEW f \in Fds
      PROVE /\ t.outq[f] \subseteq {t.open[f]}
            /\ t.ctlHalf[f] \subseteq {t.open[f]}
            /\ t.ctlWatch[f] \in {None, t.open[f]}
            /\ f \notin t.toRemove => t.vtHalf[f] \subseteq {t.open[f]}
            /\ f \notin t.toRemove => t.vtWatch[f] \in {None, t.open[f]}
    BY DEF Own
  <2>1. /\ s.outq[f] \subseteq {s.open[f]}
        /\ s.ctlHalf[f] \subseteq {s.open[f]}
        /\ s.ctlWatch[f] \in {None, s.open[f]}
        /\ f \notin s.toRemove => s.vtHalf[f] \subseteq {s.open[f]}
        /\ f \notin s.toRemove => s.vtWatch[f] \in {None, s.open[f]}
    BY DEF Good, Own
  <2>2. /\ t.open = s.open /\ t.toRemove = s.toRemove
        /\ t.ctlWatch[f] \in {None, s.ctlWatch[f]} /\ t.vtWatch[f] \in {None, s.vtWatch[f]}
        /\ t.ctlHalf[f] \subseteq s.ctlHalf[f] /\ t.vtHalf[f] \subseteq s.vtHalf[f]
        /\ t.outq[f] \subseteq s.outq[f]
    BY DEF Below
  <2> QED BY <2>1, <2>2
<1>6. Stale(t)
  <2>1. ASSUME NEW f \in t.toRemove
        PROVE  IsNoted(t, f) /\ (t.open[f] = None \/ t.open[f] # t.vtWatch[f])
    <3>1. f \in s.toRemove /\ f \in Fds
      BY DEF Below, Good, Typed, Store
    <3>2. /\ IsNoted(s, f) /\ (s.open[f] = None \/ s.open[f] # s.vtWatch[f])
          /\ t.vtWatch[f] \in {None, s.vtWatch[f]}
          /\ t.open = s.open /\ t.noted = s.noted /\ t.notedBefore = s.notedBefore
      BY <3>1 DEF Below, Good, Stale
    <3> QED BY <3>2 DEF IsNoted
  <2>2. \A f \in t.toAdd : \E p \in Panes : t.pod[p] = f
    BY DEF Below, Good, Stale
  <2> QED BY <2>1, <2>2 DEF Stale
<1>7. Due(t, D) /\ Due(t, W)
  BY DEF Below, Good, Due, IsNoted
<1> QED
  BY <1>1, <1>3, <1>4, <1>5, <1>6, <1>7 DEF Good

\* t is s without the connections that have the numbers gone.
Fewer(s, t, gone) ==
  /\ t \in Store /\ gone \subseteq Fds
  /\ t.open = [f \in Fds |-> IF f \in gone THEN None ELSE s.open[f]]
  /\ t.ctlWatch = s.ctlWatch /\ t.vtWatch = s.vtWatch
  /\ t.ctlHalf = s.ctlHalf /\ t.vtHalf = s.vtHalf /\ t.outq = s.outq
  /\ t.unregistered = s.unregistered /\ t.waiters = s.waiters /\ t.harm = s.harm
  /\ t.notedBefore = s.notedBefore /\ t.toAdd = s.toAdd
  /\ s.noted \subseteq t.noted /\ s.toRemove \subseteq t.toRemove
  /\ t.toRemove \subseteq s.toRemove \union (gone \intersect t.noted)
  /\ t.clients \subseteq s.clients
  /\ \A p \in Panes : t.pod[p] = None \/ (t.pod[p] = s.pod[p] /\ t.podWho[p] = s.podWho[p])
  /\ \A p \in Panes : t.pod[p] = s.pod[p] \/ s.pod[p] \in gone

\* nothing in t uses the numbers that have been closed.
Unused(t, D, W, gone) ==
  \A f \in gone : ~CtlUse(t, D, f) /\ ~VtUse(t, W, f) /\ ~CliUse(t, f)

LEMMA FewerGood ==
  ASSUME NEW s, NEW t, NEW C, NEW V, NEW K, Good(s, C, V, K),
         NEW gone, Fewer(s, t, gone), gone \intersect s.toAdd = {},
         NEW D \in SUBSET C, NEW W \in SUBSET V, Unused(t, D, W, gone)
  PROVE  Good(t, D, W, K)
<1>1. Typed(t, D, W, K)
  BY DEF Fewer, Good, Typed
<1>2. ASSUME NEW f \in Fds
      PROVE  /\ CtlUse(t, D, f) => CtlUse(s, C, f) /\ f \notin gone
             /\ VtUse(t, W, f) => VtUse(s, V, f) /\ f \notin gone
             /\ CliUse(t, f) => CliUse(s, f) /\ f \notin gone
  <2>1. CtlUse(t, D, f) => CtlUse(s, C, f)
    BY DEF Fewer, CtlUse, IsNoted
  <2>2. VtUse(t, W, f) => VtUse(s, V, f)
    BY DEF Fewer, VtUse, IsNoted, None, Fds
  <2>3. CliUse(t, f) => CliUse(s, f)
    BY DEF Fewer, CliUse
  <2> QED BY <2>1, <2>2, <2>3 DEF Unused
<1>3. \A f \in Fds : f \notin gone => s.open[f] = t.open[f]
  BY DEF Fewer
<1>4. Agree(t)
  <2>1. ASSUME NEW c \in t.clients PROVE t.open[c.ctl] = c.who /\ (c.vt # None => t.open[c.vt] = c.vtWho)
    <3>1. c \in s.clients /\ c \in Client
      BY DEF Fewer, Store
    <3>2. c.ctl \in Fds /\ c.ctl \notin gone
      BY <3>1, <1>2 DEF Client, CtlUse
    <3>3. c.vt # None => c.vt \in Fds /\ c.vt \notin gone
      BY <3>1, <1>2 DEF Client, VtUse
    <3> QED BY <3>1, <3>2, <3>3, <1>3 DEF Good, Agree
  <2>2. ASSUME NEW w \in t.waiters PROVE t.open[w.fd] = w.whose
    <3>1. w \in s.waiters /\ w \in Waiter
      BY DEF Fewer, Store
    <3>2. w.fd \in Fds /\ w.fd \notin gone
      BY <3>1, <1>2 DEF Waiter, CliUse
    <3> QED BY <3>1, <3>2, <1>3 DEF Good, Agree
  <2>3. ASSUME NEW p \in Panes, t.pod[p] # None PROVE t.open[t.pod[p]] = t.podWho[p]
    <3>1. t.pod[p] = s.pod[p] /\ t.podWho[p] = s.podWho[p]
      BY <2>3 DEF Fewer
    <3>2. t.pod[p] \in Fds /\ t.pod[p] \notin gone
      BY <2>3, <1>2 DEF Fewer, Store, VtUse
    <3> QED BY <3>1, <3>2, <1>3, <2>3 DEF Good, Agree
  <2> QED BY <2>1, <2>2, <2>3 DEF Agree
<1>5. Apart(t)
  BY DEF Fewer, Good, Apart
<1>6. UsedIsOpen(t, D, W) /\ OneUse(t, D, W)
  BY <1>2, <1>3 DEF Good, UsedIsOpen, OneUse
<1>7. Own(t)
  <2> SUFFICES ASSUME NEW f \in Fds
      PROVE /\ t.outq[f] \subseteq {t.open[f]}
            /\ t.ctlHalf[f] \subseteq {t.open[f]}
            /\ t.ctlWatch[f] \in {None, t.open[f]}
            /\ f \notin t.toRemove => t.vtHalf[f] \subseteq {t.open[f]}
            /\ f \notin t.toRemove => t.vtWatch[f] \in {None, t.open[f]}
    BY DEF Own
  <2>1. CASE f \in gone
    BY <2>1 DEF Unused, CtlUse, VtUse
  <2>2. CASE f \notin gone
    BY <2>2, <1>3 DEF Fewer, Good, Own
  <2> QED BY <2>1, <2>2
<1>8. Stale(t)
  <2>1. ASSUME NEW f \in t.toRemove
        PROVE IsNoted(t, f) /\ (t.open[f] = None \/ t.open[f] # t.vtWatch[f])
    <3>1. f \in Fds
      BY DEF Fewer, Store
    <3> QED BY <3>1 DEF Fewer, Good, Stale, IsNoted
  <2>2. ASSUME NEW f \in t.toAdd PROVE \E p \in Panes : t.pod[p] = f
    <3>1. PICK p \in Panes : s.pod[p] = f
      BY DEF Fewer, Good, Stale
    <3>2. f \notin gone
      BY DEF Fewer
    <3> QED BY <3>1, <3>2 DEF Fewer
  <2> QED BY <2>1, <2>2 DEF Stale
<1>9. Due(t, D) /\ Due(t, W)
  <2>1. ASSUME NEW e \in D \union W
        PROVE /\ IsNoted(s, e.fd) => IsNoted(t, e.fd)
              /\ IsNoted(t, e.fd) \/ s.open[e.fd] = t.open[e.fd]
    <3>1. e.fd \in Fds
      BY DEF Good, Typed, Entry
    <3>2. IsNoted(s, e.fd) => IsNoted(t, e.fd)
      BY DEF Fewer, IsNoted
    <3>3. e.fd \in gone => IsNoted(t, e.fd)
      BY DEF Unused, CtlUse, VtUse
    <3> QED BY <3>1, <3>2, <3>3, <1>3
  <2> QED BY <2>1 DEF Good, Due
<1>10. t.harm \intersect Averted = {}
  BY DEF Good, Fewer
<1> QED
  BY <1>1, <1>4, <1>5, <1>6, <1>7, <1>8, <1>9, <1>10 DEF Good

\* One entry for a number.
Distinct(list) == \A i, j \in DOMAIN list : list[i].fd = list[j].fd => i = j

LEMMA SeqRange ==
  ASSUME NEW list \in Seq(Entry)
  PROVE  /\ Range(list) = {list[i] : i \in 1 .. Len(list)}
         /\ Range(list) \subseteq Entry
         /\ DOMAIN list = 1 .. Len(list)
         /\ Len(list) \in Nat
BY LenProperties DEF Range

LEMMA DistinctRange ==
  ASSUME NEW list \in Seq(Entry), Distinct(list), NEW x \in Range(list), NEW y \in Range(list), x.fd = y.fd
  PROVE  x = y
BY DEF Distinct, Range

LEMMA EmptyRange == Range(<<>>) = {} /\ Distinct(<<>>)
BY DEF Range, Distinct

\* queueCtlClose keeps that.
LEMMA ListedIs ==
  ASSUME NEW list \in Seq(Entry), NEW e \in Entry
  PROVE  /\ Listed(list, e) \in Seq(Entry)
         /\ \/ Range(Listed(list, e)) = Range(list) /\ \E x \in Range(list) : x.fd = e.fd
            \/ /\ Range(Listed(list, e)) = Range(list) \union {e}
               /\ \A x \in Range(list) : x.fd # e.fd
         /\ Distinct(list) => Distinct(Listed(list, e))
<1>1. CASE \E x \in Range(list) : x.fd = e.fd
  BY <1>1 DEF Listed
<1>2. CASE \A x \in Range(list) : x.fd # e.fd
  <2> DEFINE l == Append(list, e)
  <2>1. Listed(list, e) = l
    BY <1>2 DEF Listed
  <2>2. /\ l \in Seq(Entry) /\ Len(l) = Len(list) + 1
        /\ \A i \in 1 .. Len(list) : l[i] = list[i]
        /\ l[Len(list) + 1] = e
    BY AppendProperties
  <2> HIDE DEF l
  <2>3. Len(list) \in Nat /\ DOMAIN list = 1 .. Len(list) /\ DOMAIN l = 1 .. Len(list) + 1
    BY <2>2, LenProperties
  <2>4. Range(l) = Range(list) \union {e}
    <3>1. \A i \in 1 .. Len(list) + 1 : i \in 1 .. Len(list) \/ i = Len(list) + 1
      BY <2>3
    <3>2. \A i \in 1 .. Len(list) : i \in 1 .. Len(list) + 1
      BY <2>3
    <3>3. Len(list) + 1 \in 1 .. Len(list) + 1
      BY <2>3
    <3> QED BY <2>2, <2>3, <3>1, <3>2, <3>3, Zenon DEF Range
  <2>5. Distinct(list) => Distinct(l)
    <3> SUFFICES ASSUME Distinct(list), NEW i \in 1 .. Len(list) + 1, NEW j \in 1 .. Len(list) + 1,
                        l[i].fd = l[j].fd
                 PROVE i = j
      BY <2>3 DEF Distinct
    <3>1. \A k \in 1 .. Len(list) : list[k] \in Range(list)
      BY <2>3 DEF Range
    <3>2. CASE i \in 1 .. Len(list) /\ j \in 1 .. Len(list)
      BY <3>2, <2>2, <2>3 DEF Distinct
    <3>3. CASE i \in 1 .. Len(list) /\ j = Len(list) + 1
      BY <3>3, <3>1, <2>2, <1>2
    <3>4. CASE j \in 1 .. Len(list) /\ i = Len(list) + 1
      BY <3>4, <3>1, <2>2, <1>2
    <3>5. CASE i = Len(list) + 1 /\ j = Len(list) + 1
      BY <3>5
    <3> QED BY <3>2, <3>3, <3>4, <3>5, <2>3
  <2> QED BY <2>1, <2>2, <2>4, <2>5, <1>2
<1> QED BY <1>1, <1>2

LEMMA SetToSeqIs ==
  ASSUME NEW S, IsFiniteSet(S)
  PROVE  /\ Cardinality(S) \in Nat
         /\ SetToSeq(S) \in [1 .. Cardinality(S) -> S]
         /\ \A i, j \in 1 .. Cardinality(S) : SetToSeq(S)[i] = SetToSeq(S)[j] => i = j
         /\ \A x \in S : \E i \in 1 .. Cardinality(S) : SetToSeq(S)[i] = x
<1> DEFINE n == Cardinality(S)
           q == SetToSeq(S)
<1>1. n \in Nat /\ ExistsBijection(1 .. n, S)
  BY FS_CardinalityType
<1>2. \E f \in [1 .. n -> S] : IsInjective(f)
  BY <1>1 DEF ExistsBijection, Bijection, Injection
<1>3. q \in [1 .. n -> S] /\ IsInjective(q)
  BY <1>2 DEF SetToSeq
<1>4. q \in Injection(1 .. n, S)
  BY <1>3 DEF Injection
<1>5. IsFiniteSet(1 .. n) /\ Cardinality(1 .. n) = n
  BY <1>1, FS_Interval
<1>6. q \in Surjection(1 .. n, S)
  BY <1>4, <1>5, FS_Injection
<1>7. \A x \in S : \E i \in 1 .. n : q[i] = x
  BY <1>6, Zenon DEF Surjection
<1> HIDE DEF q
<1>8. \A i, j \in 1 .. n : q[i] = q[j] => i = j
  BY <1>3 DEF IsInjective
<1> QED BY <1>1, <1>3, <1>7, <1>8 DEF q

LEMMA AppendedIs ==
  ASSUME NEW list \in Seq(Entry), NEW E \in SUBSET Entry, IsFiniteSet(E),
         \A x \in E, y \in Range(list) : x.fd # y.fd,
         \A x, y \in E : x.fd = y.fd => x = y
  PROVE  /\ list \o SetToSeq(E) \in Seq(Entry)
         /\ Range(list \o SetToSeq(E)) = Range(list) \union E
         /\ Distinct(list) => Distinct(list \o SetToSeq(E))
<1> DEFINE q == SetToSeq(E)
           n == Cardinality(E)
           m == Len(list)
           l == list \o q
<1>1. /\ n \in Nat
      /\ q \in [1 .. n -> E]
      /\ \A i, j \in 1 .. n : q[i] = q[j] => i = j
      /\ \A x \in E : \E i \in 1 .. n : q[i] = x
  BY SetToSeqIs
<1> HIDE DEF q, n
<1>2. q \in Seq(E) /\ Len(q) = n
  BY <1>1
<1>3. q \in Seq(Entry)
  BY <1>2, SeqMonotonic
<1>4. m \in Nat /\ DOMAIN list = 1 .. m
  BY LenProperties
<1>5. /\ l \in Seq(Entry) /\ Len(l) = m + n
      /\ \A i \in 1 .. m + n : l[i] = IF i <= m THEN list[i] ELSE q[i - m]
  BY <1>2, <1>3, ConcatProperties
<1>6. DOMAIN l = 1 .. m + n
  BY <1>5, LenProperties
<1> HIDE DEF l, m
<1>7. \A i \in 1 .. m : i \in 1 .. m + n /\ l[i] = list[i]
  BY <1>1, <1>4, <1>5
<1>8. \A i \in 1 .. n : m + i \in 1 .. m + n /\ l[m + i] = q[i]
  BY <1>1, <1>4, <1>5
<1>9. \A i \in 1 .. m + n : i \in 1 .. m \/ \E k \in 1 .. n : i = m + k
  <2> SUFFICES ASSUME NEW i \in 1 .. m + n, i \notin 1 .. m PROVE i - m \in 1 .. n /\ i = m + (i - m)
    OBVIOUS
  <2> QED BY <1>1, <1>4
<1>10. Range(l) = Range(list) \union E
  <2>1. ASSUME NEW x \in Range(l) PROVE x \in Range(list) \union E
    <3>1. PICK i \in 1 .. m + n : x = l[i]
      BY <1>6 DEF Range
    <3>2. CASE i \in 1 .. m
      BY <3>1, <3>2, <1>7, <1>4 DEF Range
    <3>3. CASE \E k \in 1 .. n : i = m + k
      BY <3>1, <3>3, <1>8, <1>1
    <3> QED BY <3>2, <3>3, <1>9
  <2>2. ASSUME NEW x \in Range(list) PROVE x \in Range(l)
    BY <1>4, <1>6, <1>7 DEF Range
  <2>3. ASSUME NEW x \in E PROVE x \in Range(l)
    BY <1>1, <1>6, <1>8 DEF Range
  <2> QED BY <2>1, <2>2, <2>3
<1>11. Distinct(list) => Distinct(l)
  <2> SUFFICES ASSUME Distinct(list), NEW i \in 1 .. m + n, NEW j \in 1 .. m + n, l[i].fd = l[j].fd
               PROVE i = j
    BY <1>6 DEF Distinct
  <2>1. \A k \in 1 .. m : list[k] \in Range(list)
    BY <1>4 DEF Range
  <2>2. CASE i \in 1 .. m /\ j \in 1 .. m
    BY <2>2, <1>7, <1>4 DEF Distinct
  <2>3. ASSUME i \in 1 .. m, NEW k \in 1 .. n, j = m + k PROVE FALSE
    BY <2>3, <2>1, <1>7, <1>8, <1>1
  <2>4. ASSUME j \in 1 .. m, NEW k \in 1 .. n, i = m + k PROVE FALSE
    BY <2>4, <2>1, <1>7, <1>8, <1>1
  <2>5. ASSUME NEW k \in 1 .. n, i = m + k, NEW h \in 1 .. n, j = m + h PROVE i = j
    <3>1. q[k].fd = q[h].fd /\ q[k] \in E /\ q[h] \in E
      BY <2>5, <1>8, <1>1
    <3>2. k = h
      BY <3>1, <1>1
    <3> QED BY <3>2, <2>5
  <2> QED BY <2>2, <2>3, <2>4, <2>5, <1>9
<1> QED BY <1>5, <1>10, <1>11 DEF l, q

LEMMA PopIs ==
  ASSUME NEW list \in Seq(Entry), list # <<>>
  PROVE  /\ Head(list) \in Entry
         /\ Tail(list) \in Seq(Entry)
         /\ Range(list) = {Head(list)} \union Range(Tail(list))
         /\ Distinct(list) => /\ Distinct(Tail(list))
                              /\ \A x \in Range(Tail(list)) : x.fd # Head(list).fd
<1> DEFINE r == Tail(list)
           n == Len(list)
<1>1. /\ n \in Nat \ {0} /\ DOMAIN list = 1 .. n
      /\ Head(list) \in Entry /\ r \in Seq(Entry) /\ Len(r) = n - 1
      /\ \A i \in 1 .. n - 1 : r[i] = list[i + 1]
  BY HeadTailProperties, LenProperties, EmptySeq
<1>2. Head(list) = list[1] /\ 1 \in 1 .. n
  BY <1>1
<1>3. DOMAIN r = 1 .. n - 1
  BY <1>1, LenProperties
<1> HIDE DEF r, n
<1>4. \A i \in 1 .. n - 1 : i + 1 \in 1 .. n /\ r[i] = list[i + 1]
  BY <1>1
<1>5. \A i \in 1 .. n : i = 1 \/ \E k \in 1 .. n - 1 : i = k + 1
  <2> SUFFICES ASSUME NEW i \in 1 .. n, i # 1 PROVE i - 1 \in 1 .. n - 1 /\ i = (i - 1) + 1
    OBVIOUS
  <2> QED BY <1>1
<1>6. Range(list) = {Head(list)} \union Range(r)
  <2>1. ASSUME NEW x \in Range(list) PROVE x \in {Head(list)} \union Range(r)
    <3>1. PICK i \in 1 .. n : x = list[i]
      BY <1>1 DEF Range
    <3> QED BY <3>1, <1>2, <1>3, <1>4, <1>5 DEF Range
  <2>2. ASSUME NEW x \in Range(r) PROVE x \in Range(list)
    <3>1. PICK i \in 1 .. n - 1 : x = r[i]
      BY <1>3 DEF Range
    <3> QED BY <3>1, <1>1, <1>4 DEF Range
  <2>3. Head(list) \in Range(list)
    BY <1>1, <1>2 DEF Range
  <2> QED BY <2>1, <2>2, <2>3
<1>7. Distinct(list) => Distinct(r)
  <2> SUFFICES ASSUME Distinct(list), NEW i \in 1 .. n - 1, NEW j \in 1 .. n - 1, r[i].fd = r[j].fd
               PROVE i = j
    BY <1>3 DEF Distinct
  <2>1. i + 1 \in DOMAIN list /\ j + 1 \in DOMAIN list /\ list[i + 1].fd = list[j + 1].fd
    BY <1>1, <1>4
  <2>2. i + 1 = j + 1
    BY <2>1, Zenon DEF Distinct
  <2> QED BY <2>2, <1>1
<1>8. Distinct(list) => \A x \in Range(r) : x.fd # Head(list).fd
  <2> SUFFICES ASSUME Distinct(list), NEW i \in 1 .. n - 1, r[i].fd = Head(list).fd PROVE FALSE
    BY <1>3 DEF Range
  <2>1. i + 1 \in DOMAIN list /\ 1 \in DOMAIN list /\ list[i + 1].fd = list[1].fd
    BY <1>1, <1>2, <1>4
  <2>2. i + 1 = 1
    BY <2>1, Zenon DEF Distinct
  <2> QED BY <2>2, <1>1
<1> QED BY <1>1, <1>6, <1>7, <1>8 DEF r

\* More operations, one field at a time.
LEMMA WaiterAddedIs ==
  ASSUME NEW s \in Store, NEW w \in Waiter
  PROVE  /\ [s EXCEPT !.waiters = s.waiters \union {w}] \in Store
         /\ Differ(s, [s EXCEPT !.waiters = s.waiters \union {w}], {"waiters"})
         /\ [s EXCEPT !.waiters = s.waiters \union {w}].waiters = s.waiters \union {w}
<1> DEFINE t == [s EXCEPT !.waiters = s.waiters \union {w}]
<1>1. Whole(s) /\ Fields(s)
  BY StoreIs
<1>2. Whole(t)
  BY <1>1 DEF Whole
<1>3. Differ(s, t, {"waiters"})
  BY <1>1 DEF Whole, Differ, Names
<1>4. /\ t.waiters = s.waiters \union {w}
  BY <1>1 DEF Whole
<1> HIDE DEF t
<1>5. Fields(t)
  BY <1>1, <1>3, <1>4 DEF Fields, Differ, Names
<1> QED
  BY <1>2, <1>3, <1>4, <1>5, StoreIs DEF t

LEMMA OutqSetIs ==
  ASSUME NEW s \in Store, NEW f \in Fds, NEW q \in SUBSET Conns
  PROVE  /\ [s EXCEPT !.outq[f] = q] \in Store
         /\ Differ(s, [s EXCEPT !.outq[f] = q], {"outq"})
         /\ [s EXCEPT !.outq[f] = q].outq = [s.outq EXCEPT ![f] = q]
<1> DEFINE t == [s EXCEPT !.outq[f] = q]
<1>1. Whole(s) /\ Fields(s)
  BY StoreIs
<1>2. Whole(t)
  BY <1>1 DEF Whole
<1>3. Differ(s, t, {"outq"})
  BY <1>1 DEF Whole, Differ, Names
<1>4. /\ t.outq = [s.outq EXCEPT ![f] = q]
  BY <1>1 DEF Whole
<1> HIDE DEF t
<1>5. t.outq \in [Fds -> SUBSET Conns]
  BY <1>1, <1>4 DEF Fields
<1>6. Fields(t)
  BY <1>1, <1>3, <1>4, <1>5 DEF Fields, Differ, Names
<1> QED
  BY <1>2, <1>3, <1>4, <1>6, StoreIs DEF t

LEMMA CtlHalfSetIs ==
  ASSUME NEW s \in Store, NEW f \in Fds, NEW q \in SUBSET Conns
  PROVE  /\ [s EXCEPT !.ctlHalf[f] = q] \in Store
         /\ Differ(s, [s EXCEPT !.ctlHalf[f] = q], {"ctlHalf"})
         /\ [s EXCEPT !.ctlHalf[f] = q].ctlHalf = [s.ctlHalf EXCEPT ![f] = q]
<1> DEFINE t == [s EXCEPT !.ctlHalf[f] = q]
<1>1. Whole(s) /\ Fields(s)
  BY StoreIs
<1>2. Whole(t)
  BY <1>1 DEF Whole
<1>3. Differ(s, t, {"ctlHalf"})
  BY <1>1 DEF Whole, Differ, Names
<1>4. /\ t.ctlHalf = [s.ctlHalf EXCEPT ![f] = q]
  BY <1>1 DEF Whole
<1> HIDE DEF t
<1>5. t.ctlHalf \in [Fds -> SUBSET Conns]
  BY <1>1, <1>4 DEF Fields
<1>6. Fields(t)
  BY <1>1, <1>3, <1>4, <1>5 DEF Fields, Differ, Names
<1> QED
  BY <1>2, <1>3, <1>4, <1>6, StoreIs DEF t

LEMMA VtHalfSetIs ==
  ASSUME NEW s \in Store, NEW f \in Fds, NEW q \in SUBSET Conns
  PROVE  /\ [s EXCEPT !.vtHalf[f] = q] \in Store
         /\ Differ(s, [s EXCEPT !.vtHalf[f] = q], {"vtHalf"})
         /\ [s EXCEPT !.vtHalf[f] = q].vtHalf = [s.vtHalf EXCEPT ![f] = q]
<1> DEFINE t == [s EXCEPT !.vtHalf[f] = q]
<1>1. Whole(s) /\ Fields(s)
  BY StoreIs
<1>2. Whole(t)
  BY <1>1 DEF Whole
<1>3. Differ(s, t, {"vtHalf"})
  BY <1>1 DEF Whole, Differ, Names
<1>4. /\ t.vtHalf = [s.vtHalf EXCEPT ![f] = q]
  BY <1>1 DEF Whole
<1> HIDE DEF t
<1>5. t.vtHalf \in [Fds -> SUBSET Conns]
  BY <1>1, <1>4 DEF Fields
<1>6. Fields(t)
  BY <1>1, <1>3, <1>4, <1>5 DEF Fields, Differ, Names
<1> QED
  BY <1>2, <1>3, <1>4, <1>6, StoreIs DEF t

LEMMA FrontendCtlIs ==
  ASSUME NEW s \in Store, NEW f \in Fds, NEW n \in Conns \union {None}
  PROVE  /\ [s EXCEPT !.ctlWatch[f] = n, !.unregistered = s.unregistered \union {f}] \in Store
         /\ Differ(s, [s EXCEPT !.ctlWatch[f] = n, !.unregistered = s.unregistered \union {f}], {"ctlWatch", "unregistered"})
         /\ [s EXCEPT !.ctlWatch[f] = n, !.unregistered = s.unregistered \union {f}].ctlWatch = [s.ctlWatch EXCEPT ![f] = n]
         /\ [s EXCEPT !.ctlWatch[f] = n, !.unregistered = s.unregistered \union {f}].unregistered = s.unregistered \union {f}
<1> DEFINE t == [s EXCEPT !.ctlWatch[f] = n, !.unregistered = s.unregistered \union {f}]
<1>1. Whole(s) /\ Fields(s)
  BY StoreIs
<1>2. Whole(t)
  BY <1>1 DEF Whole
<1>3. Differ(s, t, {"ctlWatch", "unregistered"})
  BY <1>1 DEF Whole, Differ, Names
<1>4. /\ t.ctlWatch = [s.ctlWatch EXCEPT ![f] = n]
      /\ t.unregistered = s.unregistered \union {f}
  BY <1>1 DEF Whole
<1> HIDE DEF t
<1>5. t.ctlWatch \in [Fds -> Conns \union {None}]
  BY <1>1, <1>4 DEF Fields
<1>6. Fields(t)
  BY <1>1, <1>3, <1>4, <1>5 DEF Fields, Differ, Names
<1> QED
  BY <1>2, <1>3, <1>4, <1>6, StoreIs DEF t

LEMMA FrontendVtIs ==
  ASSUME NEW s \in Store, NEW f \in Fds, NEW c, NEW d \in Client, NEW n \in Conns \union {None}
  PROVE  /\ [s EXCEPT !.clients = (s.clients \ {c}) \union {d}, !.vtWatch[f] = n] \in Store
         /\ Differ(s, [s EXCEPT !.clients = (s.clients \ {c}) \union {d}, !.vtWatch[f] = n], {"clients", "vtWatch"})
         /\ [s EXCEPT !.clients = (s.clients \ {c}) \union {d}, !.vtWatch[f] = n].clients = (s.clients \ {c}) \union {d}
         /\ [s EXCEPT !.clients = (s.clients \ {c}) \union {d}, !.vtWatch[f] = n].vtWatch = [s.vtWatch EXCEPT ![f] = n]
<1> DEFINE t == [s EXCEPT !.clients = (s.clients \ {c}) \union {d}, !.vtWatch[f] = n]
<1>1. Whole(s) /\ Fields(s)
  BY StoreIs
<1>2. Whole(t)
  BY <1>1 DEF Whole
<1>3. Differ(s, t, {"clients", "vtWatch"})
  BY <1>1 DEF Whole, Differ, Names
<1>4. /\ t.clients = (s.clients \ {c}) \union {d}
      /\ t.vtWatch = [s.vtWatch EXCEPT ![f] = n]
  BY <1>1 DEF Whole
<1> HIDE DEF t
<1>5. t.vtWatch \in [Fds -> Conns \union {None}]
  BY <1>1, <1>4 DEF Fields
<1>6. Fields(t)
  BY <1>1, <1>3, <1>4, <1>5 DEF Fields, Differ, Names
<1> QED
  BY <1>2, <1>3, <1>4, <1>6, StoreIs DEF t

LEMMA ClientAddedIs ==
  ASSUME NEW s \in Store, NEW c \in Client
  PROVE  /\ [s EXCEPT !.clients = s.clients \union {c}] \in Store
         /\ Differ(s, [s EXCEPT !.clients = s.clients \union {c}], {"clients"})
         /\ [s EXCEPT !.clients = s.clients \union {c}].clients = s.clients \union {c}
<1> DEFINE t == [s EXCEPT !.clients = s.clients \union {c}]
<1>1. Whole(s) /\ Fields(s)
  BY StoreIs
<1>2. Whole(t)
  BY <1>1 DEF Whole
<1>3. Differ(s, t, {"clients"})
  BY <1>1 DEF Whole, Differ, Names
<1>4. /\ t.clients = s.clients \union {c}
  BY <1>1 DEF Whole
<1> HIDE DEF t
<1>5. Fields(t)
  BY <1>1, <1>3, <1>4 DEF Fields, Differ, Names
<1> QED
  BY <1>2, <1>3, <1>4, <1>5, StoreIs DEF t

LEMMA UnregisteredSetIs ==
  ASSUME NEW s \in Store, NEW u \in SUBSET Fds
  PROVE  /\ [s EXCEPT !.unregistered = u] \in Store
         /\ Differ(s, [s EXCEPT !.unregistered = u], {"unregistered"})
         /\ [s EXCEPT !.unregistered = u].unregistered = u
<1> DEFINE t == [s EXCEPT !.unregistered = u]
<1>1. Whole(s) /\ Fields(s)
  BY StoreIs
<1>2. Whole(t)
  BY <1>1 DEF Whole
<1>3. Differ(s, t, {"unregistered"})
  BY <1>1 DEF Whole, Differ, Names
<1>4. /\ t.unregistered = u
  BY <1>1 DEF Whole
<1> HIDE DEF t
<1>5. Fields(t)
  BY <1>1, <1>3, <1>4 DEF Fields, Differ, Names
<1> QED
  BY <1>2, <1>3, <1>4, <1>5, StoreIs DEF t

LEMMA AllOutqSetIs ==
  ASSUME NEW s \in Store, NEW q \in [Fds -> SUBSET Conns]
  PROVE  /\ [s EXCEPT !.outq = q] \in Store
         /\ Differ(s, [s EXCEPT !.outq = q], {"outq"})
         /\ [s EXCEPT !.outq = q].outq = q
<1> DEFINE t == [s EXCEPT !.outq = q]
<1>1. Whole(s) /\ Fields(s)
  BY StoreIs
<1>2. Whole(t)
  BY <1>1 DEF Whole
<1>3. Differ(s, t, {"outq"})
  BY <1>1 DEF Whole, Differ, Names
<1>4. /\ t.outq = q
  BY <1>1 DEF Whole
<1> HIDE DEF t
<1>5. Fields(t)
  BY <1>1, <1>3, <1>4 DEF Fields, Differ, Names
<1> QED
  BY <1>2, <1>3, <1>4, <1>5, StoreIs DEF t

LEMMA CtlCloseSetIs ==
  ASSUME NEW s \in Store, NEW list \in Seq(Entry)
  PROVE  /\ [s EXCEPT !.ctlClose = list] \in Store
         /\ Differ(s, [s EXCEPT !.ctlClose = list], {"ctlClose"})
         /\ [s EXCEPT !.ctlClose = list].ctlClose = list
<1> DEFINE t == [s EXCEPT !.ctlClose = list]
<1>1. Whole(s) /\ Fields(s)
  BY StoreIs
<1>2. Whole(t)
  BY <1>1 DEF Whole
<1>3. Differ(s, t, {"ctlClose"})
  BY <1>1 DEF Whole, Differ, Names
<1>4. /\ t.ctlClose = list
  BY <1>1 DEF Whole
<1> HIDE DEF t
<1>5. Fields(t)
  BY <1>1, <1>3, <1>4 DEF Fields, Differ, Names
<1> QED
  BY <1>2, <1>3, <1>4, <1>5, StoreIs DEF t

LEMMA VtCloseSetIs ==
  ASSUME NEW s \in Store, NEW list \in Seq(Entry)
  PROVE  /\ [s EXCEPT !.vtClose = list] \in Store
         /\ Differ(s, [s EXCEPT !.vtClose = list], {"vtClose"})
         /\ [s EXCEPT !.vtClose = list].vtClose = list
<1> DEFINE t == [s EXCEPT !.vtClose = list]
<1>1. Whole(s) /\ Fields(s)
  BY StoreIs
<1>2. Whole(t)
  BY <1>1 DEF Whole
<1>3. Differ(s, t, {"vtClose"})
  BY <1>1 DEF Whole, Differ, Names
<1>4. /\ t.vtClose = list
  BY <1>1 DEF Whole
<1> HIDE DEF t
<1>5. Fields(t)
  BY <1>1, <1>3, <1>4 DEF Fields, Differ, Names
<1> QED
  BY <1>2, <1>3, <1>4, <1>5, StoreIs DEF t

\* A pane's connection to its pod is f.
PodSet(s, p, f, c) ==
  [s EXCEPT !.pod[p] = f, !.podWho[p] = c, !.toAdd = s.toAdd \union {f}]

LEMMA PodSetIs ==
  ASSUME NEW s \in Store, NEW p \in Panes, NEW f \in Fds, NEW c \in Conns
  PROVE  /\ PodSet(s, p, f, c) \in Store
         /\ Differ(s, PodSet(s, p, f, c), {"pod", "podWho", "toAdd"})
         /\ PodSet(s, p, f, c).pod = [s.pod EXCEPT ![p] = f]
         /\ PodSet(s, p, f, c).podWho = [s.podWho EXCEPT ![p] = c]
         /\ PodSet(s, p, f, c).toAdd = s.toAdd \union {f}
<1> DEFINE t == PodSet(s, p, f, c)
<1>1. Whole(s) /\ Fields(s)
  BY StoreIs
<1>2. Whole(t)
  BY <1>1 DEF Whole, PodSet
<1>3. Differ(s, t, {"pod", "podWho", "toAdd"})
  BY <1>1 DEF Whole, Differ, Names, PodSet
<1>4. /\ t.pod = [s.pod EXCEPT ![p] = f]
      /\ t.podWho = [s.podWho EXCEPT ![p] = c]
      /\ t.toAdd = s.toAdd \union {f}
  BY <1>1 DEF Whole, PodSet
<1> HIDE DEF t
<1>5. t.pod \in [Panes -> Fds \union {None}] /\ t.podWho \in [Panes -> Conns \union {None}]
  BY <1>1, <1>4 DEF Fields
<1>6. Fields(t)
  BY <1>1, <1>3, <1>4, <1>5 DEF Fields, Differ, Names
<1> QED
  BY <1>2, <1>3, <1>4, <1>6, StoreIs DEF t

\* a client without its VT connection
Unrouted(c) == [ctl |-> c.ctl, vt |-> None, who |-> c.who, vtWho |-> None]

LEMMA UnroutedIs ==
  ASSUME NEW c \in Client
  PROVE  /\ Unrouted(c) = [c EXCEPT !.vt = None, !.vtWho = None]
         /\ Unrouted(c) \in Client
<1>1. Unrouted(c) \in Client
  BY DEF Unrouted, Client
<1> DEFINE d == [c EXCEPT !.vt = None, !.vtWho = None]
<1>2. d \in Client
  BY DEF Client
<1>3. d.ctl = c.ctl /\ d.vt = None /\ d.who = c.who /\ d.vtWho = None
  BY DEF Client
<1> HIDE DEF d
<1>4. d = [ctl |-> d.ctl, vt |-> d.vt, who |-> d.who, vtWho |-> d.vtWho]
  BY <1>2 DEF Client
<1> QED BY <1>1, <1>3, <1>4 DEF Unrouted, d

LEMMA VtForgottenIs ==
  ASSUME NEW s \in Store, NEW f \in Fds
  PROVE  /\ VtForgotten(s, f) \in Store
         /\ Differ(s, VtForgotten(s, f), {"pod", "podWho", "clients"})
         /\ VtForgotten(s, f).pod = [p \in Panes |-> IF s.pod[p] = f THEN None ELSE s.pod[p]]
         /\ VtForgotten(s, f).podWho = [p \in Panes |-> IF s.pod[p] = f THEN None ELSE s.podWho[p]]
         /\ VtForgotten(s, f).clients = {IF c.vt = f THEN Unrouted(c) ELSE c : c \in s.clients}
<1> DEFINE t == VtForgotten(s, f)
<1>1. Whole(s) /\ Fields(s)
  BY StoreIs
<1>2. Whole(t)
  BY <1>1 DEF Whole, VtForgotten
<1>3. Differ(s, t, {"pod", "podWho", "clients"})
  BY <1>1 DEF Whole, Differ, Names, VtForgotten
<1>4. /\ t.pod = [p \in Panes |-> IF s.pod[p] = f THEN None ELSE s.pod[p]]
      /\ t.podWho = [p \in Panes |-> IF s.pod[p] = f THEN None ELSE s.podWho[p]]
  BY <1>1 DEF Whole, VtForgotten
<1>5. t.clients = {IF c.vt = f THEN [c EXCEPT !.vt = None, !.vtWho = None] ELSE c : c \in s.clients}
  BY <1>1 DEF Whole, VtForgotten
<1> HIDE DEF t
<1>6. \A c \in s.clients : c \in Client
  BY <1>1 DEF Fields
<1>7. \A c \in s.clients : Unrouted(c) = [c EXCEPT !.vt = None, !.vtWho = None] /\ Unrouted(c) \in Client
  BY <1>6, UnroutedIs
<1>8. t.clients = {IF c.vt = f THEN Unrouted(c) ELSE c : c \in s.clients}
  BY <1>5, <1>7, Zenon
<1>9. t.clients \in SUBSET Client
  BY <1>6, <1>7, <1>8
<1>10. t.pod \in [Panes -> Fds \union {None}] /\ t.podWho \in [Panes -> Conns \union {None}]
  BY <1>1, <1>4 DEF Fields
<1>11. Fields(t)
  BY <1>1, <1>3, <1>9, <1>10 DEF Fields, Differ, Names
<1> QED
  BY <1>2, <1>3, <1>4, <1>8, <1>11, StoreIs DEF t

-----------------------------------------------------------------------------
(* What a number may be used as                                            *)

\* f is a connection that may be used as a control, a VT or a waiting one.
CtlMay(s, V, f) == f \in Fds /\ s.open[f] # None /\ ~VtUse(s, V, f) /\ ~CliUse(s, f)
VtMay(s, C, f) == f \in Fds /\ s.open[f] # None /\ ~CtlUse(s, C, f) /\ ~CliUse(s, f)

Used(s, C, V, f) == CtlUse(s, C, f) \/ VtUse(s, V, f) \/ CliUse(s, f)
Fresh(s, C, V, f) == f \in Fds /\ s.open[f] # None /\ ~Used(s, C, V, f)

LEMMA UsesMay ==
  ASSUME NEW s, NEW C, NEW V, NEW K, Good(s, C, V, K), NEW f \in Fds
  PROVE  /\ CtlUse(s, C, f) => CtlMay(s, V, f)
         /\ VtUse(s, V, f) => VtMay(s, C, f)
         /\ Fresh(s, C, V, f) => CtlMay(s, V, f) /\ VtMay(s, C, f)
         /\ CliUse(s, f) => s.open[f] # None /\ ~CtlUse(s, C, f) /\ ~VtUse(s, V, f)
BY DEF Good, UsedIsOpen, OneUse, CtlMay, VtMay, Fresh, Used

\* Entries may be added to the list of control closes ...
LEMMA CtlDueGood ==
  ASSUME NEW s, NEW C, NEW V, NEW K, Good(s, C, V, K), NEW E \in SUBSET Entry,
         \A e \in E :
           IsNoted(s, e.fd) \/ (/\ CtlMay(s, V, e.fd)
                                /\ e.whose = s.open[e.fd]
                                /\ \A d \in C \union E : d.fd = e.fd => d = e)
  PROVE  Good(s, C \union E, V, K)
<1>1. Typed(s, C \union E, V, K)
  BY DEF Good, Typed
<1>2. \A f \in Fds : CtlUse(s, C \union E, f) => CtlUse(s, C, f) \/ CtlMay(s, V, f)
  BY DEF CtlUse
<1>3. UsedIsOpen(s, C \union E, V)
  BY <1>2 DEF Good, UsedIsOpen, CtlMay
<1>4. OneUse(s, C \union E, V)
  BY <1>2 DEF Good, OneUse, CtlMay
<1>5. Due(s, C \union E)
  BY DEF Good, Due
<1> QED
  BY <1>1, <1>3, <1>4, <1>5 DEF Good

\* ... and to the list of VT closes.
LEMMA VtDueGood ==
  ASSUME NEW s, NEW C, NEW V, NEW K, Good(s, C, V, K), NEW E \in SUBSET Entry,
         \A e \in E :
           IsNoted(s, e.fd) \/ (/\ VtMay(s, C, e.fd)
                                /\ e.whose = s.open[e.fd]
                                /\ \A d \in V \union E : d.fd = e.fd => d = e)
  PROVE  Good(s, C, V \union E, K)
<1>1. Typed(s, C, V \union E, K)
  BY DEF Good, Typed
<1>2. \A f \in Fds : VtUse(s, V \union E, f) => VtUse(s, V, f) \/ VtMay(s, C, f)
  BY DEF VtUse
<1>3. UsedIsOpen(s, C, V \union E)
  BY <1>2 DEF Good, UsedIsOpen, VtMay
<1>4. OneUse(s, C, V \union E)
  BY <1>2 DEF Good, OneUse, VtMay
<1>5. Due(s, V \union E)
  BY DEF Good, Due
<1> QED
  BY <1>1, <1>3, <1>4, <1>5 DEF Good

\* A control connection may get a watcher, a reader, a queue.
CtlMore(s, t, f) ==
  /\ t \in Store
  /\ Differ(s, t, {"ctlWatch", "ctlHalf", "outq", "unregistered"})
  /\ t.unregistered \subseteq s.unregistered \union {f}
  /\ \A g \in Fds \ {f} :
       /\ t.ctlWatch[g] = s.ctlWatch[g]
       /\ t.ctlHalf[g] = s.ctlHalf[g]
       /\ t.outq[g] = s.outq[g]
  /\ t.ctlWatch[f] \in {None, s.open[f]}
  /\ t.ctlHalf[f] \subseteq {s.open[f]}
  /\ t.outq[f] \subseteq {s.open[f]}

LEMMA CtlMoreGood ==
  ASSUME NEW s, NEW t, NEW C, NEW V, NEW K, Good(s, C, V, K),
         NEW f, CtlMay(s, V, f), CtlMore(s, t, f)
  PROVE  Good(t, C, V, K)
<1>1. /\ t \in Store /\ t.open = s.open /\ t.vtWatch = s.vtWatch /\ t.vtHalf = s.vtHalf
      /\ t.clients = s.clients /\ t.waiters = s.waiters /\ t.pod = s.pod /\ t.podWho = s.podWho
      /\ t.noted = s.noted /\ t.notedBefore = s.notedBefore
      /\ t.toRemove = s.toRemove /\ t.toAdd = s.toAdd /\ t.harm = s.harm
  BY DEF CtlMore, Differ, Names
<1>2. \A g \in Fds : /\ CtlUse(t, C, g) => CtlUse(s, C, g) \/ g = f
                     /\ VtUse(t, V, g) <=> VtUse(s, V, g)
                     /\ CliUse(t, g) <=> CliUse(s, g)
  BY <1>1 DEF CtlMore, CtlUse, VtUse, CliUse, IsNoted
<1>3. Typed(t, C, V, K)
  BY <1>1 DEF Good, Typed
<1>4. Agree(t) /\ Apart(t)
  BY <1>1 DEF Good, Agree, Apart
<1>5. UsedIsOpen(t, C, V) /\ OneUse(t, C, V)
  BY <1>1, <1>2 DEF Good, UsedIsOpen, OneUse, CtlMay
<1>6. Own(t)
  BY <1>1 DEF Good, Own, CtlMore
<1>7. Stale(t) /\ Due(t, C) /\ Due(t, V)
  BY <1>1 DEF Good, Stale, Due, IsNoted
<1> QED
  BY <1>1, <1>3, <1>4, <1>5, <1>6, <1>7 DEF Good

\* A VT connection may get half a frame.
VtMore(s, t, f) ==
  /\ t \in Store
  /\ Differ(s, t, {"vtHalf"})
  /\ \A g \in Fds \ {f} : t.vtHalf[g] = s.vtHalf[g]
  /\ t.vtHalf[f] \subseteq {s.open[f]}

LEMMA VtMoreGood ==
  ASSUME NEW s, NEW t, NEW C, NEW V, NEW K, Good(s, C, V, K),
         NEW f \in Fds, f \in s.toRemove \/ VtMay(s, C, f), VtMore(s, t, f)
  PROVE  Good(t, C, V, K)
<1>1. /\ t \in Store /\ t.open = s.open /\ t.vtWatch = s.vtWatch /\ t.ctlWatch = s.ctlWatch
      /\ t.ctlHalf = s.ctlHalf /\ t.outq = s.outq /\ t.unregistered = s.unregistered
      /\ t.clients = s.clients /\ t.waiters = s.waiters /\ t.pod = s.pod /\ t.podWho = s.podWho
      /\ t.noted = s.noted /\ t.notedBefore = s.notedBefore
      /\ t.toRemove = s.toRemove /\ t.toAdd = s.toAdd /\ t.harm = s.harm
  BY DEF VtMore, Differ, Names
<1>2. \A g \in Fds : /\ CtlUse(t, C, g) <=> CtlUse(s, C, g)
                     /\ VtUse(t, V, g) => VtUse(s, V, g) \/ (g = f /\ f \notin s.toRemove)
                     /\ CliUse(t, g) <=> CliUse(s, g)
  BY <1>1 DEF VtMore, CtlUse, VtUse, CliUse, IsNoted
<1>3. Typed(t, C, V, K)
  BY <1>1 DEF Good, Typed
<1>4. Agree(t) /\ Apart(t)
  BY <1>1 DEF Good, Agree, Apart
<1>5. UsedIsOpen(t, C, V) /\ OneUse(t, C, V)
  BY <1>1, <1>2 DEF Good, UsedIsOpen, OneUse, VtMay
<1>6. Own(t)
  BY <1>1 DEF Good, Own, VtMore
<1>7. Stale(t) /\ Due(t, C) /\ Due(t, V)
  BY <1>1 DEF Good, Stale, Due, IsNoted
<1> QED
  BY <1>1, <1>3, <1>4, <1>5, <1>6, <1>7 DEF Good

-----------------------------------------------------------------------------
(* What keeps the tables good                                              *)

\* register: a client for a connection that has none.
LEMMA ClientAddedGood ==
  ASSUME NEW s, NEW t, NEW C, NEW V, NEW K, Good(s, C, V, K),
         NEW f, CtlMay(s, V, f), ClientAt(s, f) = {},
         NEW c \in Client, c.ctl = f, c.vt = None, c.who = s.open[f],
         t \in Store, Differ(s, t, {"clients"}), t.clients = s.clients \union {c}
  PROVE  Good(t, C, V, K)
<1>1. /\ t.open = s.open /\ t.vtWatch = s.vtWatch /\ t.vtHalf = s.vtHalf
      /\ t.ctlWatch = s.ctlWatch /\ t.ctlHalf = s.ctlHalf /\ t.outq = s.outq /\ t.unregistered = s.unregistered
      /\ t.waiters = s.waiters /\ t.pod = s.pod /\ t.podWho = s.podWho
      /\ t.noted = s.noted /\ t.notedBefore = s.notedBefore
      /\ t.toRemove = s.toRemove /\ t.toAdd = s.toAdd /\ t.harm = s.harm
  BY DEF Differ, Names
<1>2. \A g \in Fds : /\ CtlUse(t, C, g) => CtlUse(s, C, g) \/ g = f
                     /\ VtUse(t, V, g) => VtUse(s, V, g)
                     /\ CliUse(t, g) <=> CliUse(s, g)
  <2> SUFFICES ASSUME NEW g \in Fds
      PROVE  /\ CtlUse(t, C, g) => CtlUse(s, C, g) \/ g = f
             /\ VtUse(t, V, g) => VtUse(s, V, g)
             /\ CliUse(t, g) <=> CliUse(s, g)
    OBVIOUS
  <2>1. CtlUse(t, C, g) => CtlUse(s, C, g) \/ g = f
    BY <1>1 DEF CtlUse, IsNoted
  <2>2. c.vt # g
    BY DEF Fds, None
  <2>3. VtUse(t, V, g) => VtUse(s, V, g)
    BY <1>1, <2>2 DEF VtUse, IsNoted
  <2> QED BY <1>1, <2>1, <2>3 DEF CliUse
<1>3. Typed(t, C, V, K)
  BY <1>1 DEF Good, Typed
<1>4. Agree(t)
  BY <1>1 DEF Good, Agree
<1>5. Apart(t)
  BY <1>1 DEF Good, Apart, ClientAt
<1>6. UsedIsOpen(t, C, V) /\ OneUse(t, C, V)
  BY <1>1, <1>2 DEF Good, UsedIsOpen, OneUse, CtlMay
<1>7. Own(t) /\ Stale(t) /\ Due(t, C) /\ Due(t, V)
  BY <1>1 DEF Good, Own, Stale, Due, IsNoted
<1> QED
  BY <1>1, <1>3, <1>4, <1>5, <1>6, <1>7 DEF Good

\* A fresh connection may wait.
LEMMA WaiterAddedGood ==
  ASSUME NEW s, NEW t, NEW C, NEW V, NEW K, Good(s, C, V, K),
         NEW f, Fresh(s, C, V, f),
         NEW w \in Waiter, w.fd = f, w.whose = s.open[f],
         t \in Store, Differ(s, t, {"waiters"}), t.waiters = s.waiters \union {w}
  PROVE  Good(t, C, V, K)
<1>1. /\ t.open = s.open /\ t.vtWatch = s.vtWatch /\ t.vtHalf = s.vtHalf
      /\ t.ctlWatch = s.ctlWatch /\ t.ctlHalf = s.ctlHalf /\ t.outq = s.outq /\ t.unregistered = s.unregistered
      /\ t.clients = s.clients /\ t.pod = s.pod /\ t.podWho = s.podWho
      /\ t.noted = s.noted /\ t.notedBefore = s.notedBefore
      /\ t.toRemove = s.toRemove /\ t.toAdd = s.toAdd /\ t.harm = s.harm
  BY DEF Differ, Names
<1>2. \A g \in Fds : /\ CtlUse(t, C, g) <=> CtlUse(s, C, g)
                     /\ VtUse(t, V, g) <=> VtUse(s, V, g)
                     /\ CliUse(t, g) => CliUse(s, g) \/ g = f
  BY <1>1 DEF CtlUse, VtUse, CliUse, IsNoted
<1>3. Typed(t, C, V, K)
  BY <1>1 DEF Good, Typed
<1>4. Agree(t)
  BY <1>1 DEF Good, Agree
<1>5. Apart(t)
  BY <1>1 DEF Good, Apart, Fresh, Used, CliUse
<1>6. UsedIsOpen(t, C, V) /\ OneUse(t, C, V)
  BY <1>1, <1>2 DEF Good, UsedIsOpen, OneUse, Fresh, Used
<1>7. Own(t) /\ Stale(t) /\ Due(t, C) /\ Due(t, V)
  BY <1>1 DEF Good, Own, Stale, Due, IsNoted
<1> QED
  BY <1>1, <1>3, <1>4, <1>5, <1>6, <1>7 DEF Good

\* A fresh connection may become a client's VT connection.
LEMMA FrontendVtGood ==
  ASSUME NEW s, NEW t, NEW C, NEW V, NEW K, Good(s, C, V, K),
         NEW f, Fresh(s, C, V, f), f \notin s.toRemove,
         NEW c \in s.clients, NEW d \in Client,
         d.ctl = c.ctl, d.who = c.who, d.vt = f, d.vtWho = s.open[f],
         t \in Store, Differ(s, t, {"clients", "vtWatch"}),
         t.clients = (s.clients \ {c}) \union {d},
         \A g \in Fds \ {f} : t.vtWatch[g] = s.vtWatch[g],
         t.vtWatch[f] = s.open[f]
  PROVE  Good(t, C, V, K)
<1>1. /\ t.open = s.open /\ t.vtHalf = s.vtHalf
      /\ t.ctlWatch = s.ctlWatch /\ t.ctlHalf = s.ctlHalf /\ t.outq = s.outq /\ t.unregistered = s.unregistered
      /\ t.waiters = s.waiters /\ t.pod = s.pod /\ t.podWho = s.podWho
      /\ t.noted = s.noted /\ t.notedBefore = s.notedBefore
      /\ t.toRemove = s.toRemove /\ t.toAdd = s.toAdd /\ t.harm = s.harm
  BY DEF Differ, Names
<1>2. \A g \in Fds : /\ CtlUse(t, C, g) <=> CtlUse(s, C, g)
                     /\ VtUse(t, V, g) => VtUse(s, V, g) \/ g = f
                     /\ CliUse(t, g) <=> CliUse(s, g)
  <2> SUFFICES ASSUME NEW g \in Fds
      PROVE  /\ CtlUse(t, C, g) <=> CtlUse(s, C, g)
             /\ VtUse(t, V, g) => VtUse(s, V, g) \/ g = f
             /\ CliUse(t, g) <=> CliUse(s, g)
    OBVIOUS
  <2>1. CtlUse(t, C, g) <=> CtlUse(s, C, g)
    BY <1>1 DEF CtlUse, IsNoted
  <2>2. VtUse(t, V, g) => VtUse(s, V, g) \/ g = f
    BY <1>1 DEF VtUse, IsNoted
  <2> QED BY <1>1, <2>1, <2>2 DEF CliUse
<1>3. Typed(t, C, V, K)
  BY <1>1 DEF Good, Typed, Fresh
<1>4. Agree(t)
  BY <1>1 DEF Good, Agree
<1>5. Apart(t)
  <2>1. \A e \in s.clients : e.vt # f
    BY DEF Fresh, Used, VtUse
  <2>2. \A p \in Panes : s.pod[p] # f
    BY DEF Fresh, Used, VtUse
  <2> QED BY <1>1, <2>1, <2>2 DEF Good, Apart
<1>6. UsedIsOpen(t, C, V) /\ OneUse(t, C, V)
  BY <1>1, <1>2 DEF Good, UsedIsOpen, OneUse, Fresh, Used
<1>7. Own(t)
  BY <1>1 DEF Good, Own
<1>8. Stale(t)
  <2>1. \A g \in s.toRemove : g \in Fds /\ g # f
    BY DEF Good, Typed, Store
  <2> QED BY <1>1, <2>1 DEF Good, Stale, IsNoted
<1>9. Due(t, C) /\ Due(t, V)
  BY <1>1 DEF Good, Due, IsNoted
<1> QED
  BY <1>1, <1>3, <1>4, <1>5, <1>6, <1>7, <1>8, <1>9 DEF Good

\* The lowest free number is one.
LEMMA LowestFreeIs ==
  ASSUME NEW s, \E f \in Fds : s.open[f] = None
  PROVE  LowestFree(s) \in Fds /\ s.open[LowestFree(s)] = None
<1> DEFINE S == {f \in Fds : s.open[f] = None}
<1>1. S # {} /\ S \subseteq Nat
  BY DEF Fds
<1>2. PICK x \in S : \A y \in S : <<y, x>> \notin OpToRel(<, Nat)
  <2> HIDE DEF S
  <2> QED BY <1>1, WFMin, NatLessThanWellFounded
<1>3. ASSUME NEW y \in S
      PROVE  x <= y
  <2>1. x \in Nat /\ y \in Nat
    BY <1>1
  <2>2. ~(y < x)
    BY <2>1, <1>2 DEF OpToRel
  <2> QED BY <2>1, <2>2
<1> HIDE DEF S
<1>4. Min(S) \in S
  BY <1>3 DEF Min
<1> QED BY <1>4 DEF LowestFree, S

\* The kernel gives out a number that nothing uses.
LEMMA OpenedGood ==
  ASSUME NEW s, NEW t, NEW C, NEW V, NEW K, Good(s, C, V, K),
         NEW f \in Fds, s.open[f] = None, NEW c \in Conns, c \notin K,
         t \in Store, Differ(s, t, {"open"}), t.open = [s.open EXCEPT ![f] = c]
  PROVE  /\ Good(t, C, V, K \union {c})
         /\ Fresh(t, C, V, f)
<1>1. /\ t.vtWatch = s.vtWatch /\ t.vtHalf = s.vtHalf
      /\ t.ctlWatch = s.ctlWatch /\ t.ctlHalf = s.ctlHalf /\ t.outq = s.outq /\ t.unregistered = s.unregistered
      /\ t.clients = s.clients /\ t.waiters = s.waiters /\ t.pod = s.pod /\ t.podWho = s.podWho
      /\ t.noted = s.noted /\ t.notedBefore = s.notedBefore
      /\ t.toRemove = s.toRemove /\ t.toAdd = s.toAdd /\ t.harm = s.harm
  BY DEF Differ, Names
<1>2. s.open \in [Fds -> Conns \union {None}]
  BY DEF Good, Typed, Store
<1>3. t.open[f] = c /\ c # None /\ \A g \in Fds \ {f} : t.open[g] = s.open[g]
  BY <1>2 DEF Conns, None
<1>4. \A g \in Fds : /\ CtlUse(t, C, g) <=> CtlUse(s, C, g)
                     /\ VtUse(t, V, g) <=> VtUse(s, V, g)
                     /\ CliUse(t, g) <=> CliUse(s, g)
  BY <1>1 DEF CtlUse, VtUse, CliUse, IsNoted
<1>5. ~CtlUse(s, C, f) /\ ~VtUse(s, V, f) /\ ~CliUse(s, f)
  BY DEF Good, UsedIsOpen
<1>6. Fresh(t, C, V, f)
  BY <1>3, <1>4, <1>5 DEF Fresh, Used
<1>7. Typed(t, C, V, K \union {c})
  BY <1>1, <1>3 DEF Good, Typed
<1>8. Agree(t)
  <2>1. \A d \in s.clients : d.ctl \in Fds /\ d.ctl # f /\ d.vt \in Fds \union {None} /\ d.vt # f
    BY <1>5 DEF Good, Typed, Store, Client, CtlUse, VtUse
  <2>2. \A w \in s.waiters : w.fd \in Fds /\ w.fd # f
    BY <1>5 DEF Good, Typed, Store, Waiter, CliUse
  <2>3. \A p \in Panes : s.pod[p] \in Fds \union {None} /\ s.pod[p] # f
    BY <1>5 DEF Good, Typed, Store, VtUse
  <2> QED BY <1>1, <1>3, <2>1, <2>2, <2>3 DEF Good, Agree
<1>9. Apart(t)
  BY <1>1 DEF Good, Apart
<1>10. UsedIsOpen(t, C, V) /\ OneUse(t, C, V)
  BY <1>3, <1>4 DEF Good, UsedIsOpen, OneUse
<1>11. Own(t)
  BY <1>1, <1>3, <1>5 DEF Good, Own, CtlUse, VtUse
<1>12. Stale(t)
  <2>1. \A g \in s.toRemove : g \in Fds
    BY DEF Good, Typed, Store
  <2>2. s.vtWatch[f] # c
    BY <1>3 DEF Good, Typed
  <2> QED BY <1>1, <1>3, <2>1, <2>2 DEF Good, Stale, IsNoted
<1>13. Due(t, C) /\ Due(t, V)
  <2>1. \A e \in C \union V : e.fd \in Fds
    BY DEF Good, Typed, Entry
  <2>2. \A e \in C \union V : e.fd = f => IsNoted(s, f)
    BY <1>5 DEF CtlUse, VtUse
  <2> QED BY <1>1, <1>3, <2>1, <2>2 DEF Good, Due, IsNoted
<1> QED
  BY <1>1, <1>6, <1>7, <1>8, <1>9, <1>10, <1>11, <1>12, <1>13 DEF Good

\* The removals are drained.
LEMMA DisarmedGood ==
  ASSUME NEW s, NEW C, NEW V, NEW K, Good(s, C, V, K)
  PROVE  /\ Good(Disarmed(s), C, V, K)
         /\ \A f \in Fds : Fresh(s, C, V, f) => Fresh(Disarmed(s), C, V, f)
<1> DEFINE t == Disarmed(s)
<1>1. s \in Store
  BY DEF Good, Typed
<1>2. /\ t \in Store
      /\ Differ(s, t, {"ctlWatch", "vtWatch", "ctlHalf", "vtHalf", "outq", "unregistered", "toRemove"})
      /\ t.toRemove = {} /\ t.unregistered = s.unregistered \ s.toRemove
  BY <1>1, DisarmedIs
<1>3. /\ t.ctlWatch = [f \in Fds |-> IF f \in s.toRemove THEN None ELSE s.ctlWatch[f]]
      /\ t.vtWatch = [f \in Fds |-> IF f \in s.toRemove THEN None ELSE s.vtWatch[f]]
      /\ t.ctlHalf = [f \in Fds |-> IF f \in s.toRemove THEN {} ELSE s.ctlHalf[f]]
      /\ t.vtHalf = [f \in Fds |-> IF f \in s.toRemove THEN {} ELSE s.vtHalf[f]]
      /\ t.outq = [f \in Fds |-> IF f \in s.toRemove THEN {} ELSE s.outq[f]]
  BY <1>1, DisarmedIs
<1> HIDE DEF t
<1>4. \A f \in Fds :
        /\ t.ctlWatch[f] = IF f \in s.toRemove THEN None ELSE s.ctlWatch[f]
        /\ t.vtWatch[f] = IF f \in s.toRemove THEN None ELSE s.vtWatch[f]
        /\ t.ctlHalf[f] = IF f \in s.toRemove THEN {} ELSE s.ctlHalf[f]
        /\ t.vtHalf[f] = IF f \in s.toRemove THEN {} ELSE s.vtHalf[f]
        /\ t.outq[f] = IF f \in s.toRemove THEN {} ELSE s.outq[f]
  BY <1>3
<1>5. /\ t.open = s.open /\ t.clients = s.clients /\ t.waiters = s.waiters
      /\ t.pod = s.pod /\ t.podWho = s.podWho
      /\ t.noted = s.noted /\ t.notedBefore = s.notedBefore
      /\ t.toAdd = s.toAdd /\ t.harm = s.harm
  BY <1>2 DEF Differ, Names
<1>6. \A f \in Fds : /\ CtlUse(t, C, f) => CtlUse(s, C, f)
                     /\ VtUse(t, V, f) => VtUse(s, V, f)
                     /\ CliUse(t, f) => CliUse(s, f)
  <2> SUFFICES ASSUME NEW f \in Fds
      PROVE  /\ CtlUse(t, C, f) => CtlUse(s, C, f)
             /\ VtUse(t, V, f) => VtUse(s, V, f)
             /\ CliUse(t, f) => CliUse(s, f)
    OBVIOUS
  <2>1. CtlUse(t, C, f) => CtlUse(s, C, f)
    BY <1>2, <1>4, <1>5 DEF CtlUse, IsNoted
  <2>2. VtUse(t, V, f) => VtUse(s, V, f)
    BY <1>2, <1>4, <1>5 DEF VtUse, IsNoted
  <2>3. CliUse(t, f) => CliUse(s, f)
    BY <1>5 DEF CliUse
  <2> QED BY <2>1, <2>2, <2>3
<1>7. Typed(t, C, V, K)
  BY <1>2, <1>4, <1>5 DEF Good, Typed
<1>8. Agree(t) /\ Apart(t)
  BY <1>5 DEF Good, Agree, Apart
<1>9. UsedIsOpen(t, C, V) /\ OneUse(t, C, V)
  BY <1>5, <1>6 DEF Good, UsedIsOpen, OneUse
<1>10. Own(t)
  BY <1>4, <1>5 DEF Good, Own
<1>11. Stale(t) /\ Due(t, C) /\ Due(t, V)
  BY <1>2, <1>5 DEF Good, Stale, Due, IsNoted
<1>12. Good(t, C, V, K)
  BY <1>5, <1>7, <1>8, <1>9, <1>10, <1>11 DEF Good
<1>13. \A f \in Fds : Fresh(s, C, V, f) => Fresh(t, C, V, f)
  BY <1>5, <1>6 DEF Fresh, Used
<1> QED BY <1>12, <1>13 DEF t

\* The additions are drained.
LEMMA ArmedGood ==
  ASSUME NEW s, NEW C, NEW V, NEW K, Good(s, C, V, K), s.toRemove = {}
  PROVE  /\ Good(Armed(s), C, V, K)
         /\ \A f \in Fds : Fresh(s, C, V, f) => Fresh(Armed(s), C, V, f)
<1> DEFINE t == Armed(s)
<1>1. s \in Store
  BY DEF Good, Typed
<1>2. /\ t \in Store
      /\ Differ(s, t, {"vtWatch", "pod", "toAdd"})
      /\ t.toAdd = {}
      /\ t.pod = [p \in Panes |-> IF s.pod[p] \in s.toAdd /\ s.open[s.pod[p]] = None THEN None ELSE s.pod[p]]
  BY <1>1, ArmedIs
<1>3. \A f \in Fds :
        t.vtWatch[f] = IF f \in s.toAdd /\ s.vtWatch[f] = None THEN s.open[f] ELSE s.vtWatch[f]
  BY <1>1, ArmedIs
<1> HIDE DEF t
<1>4. /\ t.open = s.open /\ t.clients = s.clients /\ t.waiters = s.waiters
      /\ t.ctlWatch = s.ctlWatch /\ t.ctlHalf = s.ctlHalf /\ t.outq = s.outq /\ t.unregistered = s.unregistered
      /\ t.vtHalf = s.vtHalf /\ t.podWho = s.podWho
      /\ t.noted = s.noted /\ t.notedBefore = s.notedBefore
      /\ t.toRemove = s.toRemove /\ t.harm = s.harm
  BY <1>2 DEF Differ, Names
<1>5. \A p \in Panes : s.pod[p] # None => s.open[s.pod[p]] # None
  <2> SUFFICES ASSUME NEW p \in Panes, s.pod[p] # None PROVE s.open[s.pod[p]] # None
    OBVIOUS
  <2>1. s.pod[p] \in Fds
    BY <1>1 DEF Store
  <2> QED BY <2>1 DEF Good, UsedIsOpen, VtUse
<1>6. t.pod = s.pod
  <2>1. s.pod \in [Panes -> Fds \union {None}] /\ s.toAdd \subseteq Fds /\ None \notin Fds
    BY <1>1 DEF Store, Fds, None
  <2>2. \A p \in Panes : t.pod[p] = s.pod[p]
    BY <1>2, <1>5, <2>1
  <2> QED BY <1>2, <2>1, <2>2
<1>7. \A f \in Fds : f \in s.toAdd => VtUse(s, V, f)
  BY DEF Good, Stale, VtUse
<1>8. \A f \in Fds : /\ CtlUse(t, C, f) <=> CtlUse(s, C, f)
                     /\ VtUse(t, V, f) => VtUse(s, V, f)
                     /\ CliUse(t, f) <=> CliUse(s, f)
  <2> SUFFICES ASSUME NEW f \in Fds
      PROVE  /\ CtlUse(t, C, f) <=> CtlUse(s, C, f)
             /\ VtUse(t, V, f) => VtUse(s, V, f)
             /\ CliUse(t, f) <=> CliUse(s, f)
    OBVIOUS
  <2>1. CtlUse(t, C, f) <=> CtlUse(s, C, f)
    BY <1>4 DEF CtlUse, IsNoted
  <2>2. VtUse(t, V, f) => VtUse(s, V, f)
    <3>1. CASE f \in s.toAdd
      BY <3>1, <1>7
    <3>2. CASE f \notin s.toAdd
      BY <3>2, <1>3, <1>4, <1>6 DEF VtUse, IsNoted
    <3> QED BY <3>1, <3>2
  <2>3. CliUse(t, f) <=> CliUse(s, f)
    BY <1>4 DEF CliUse
  <2> QED BY <2>1, <2>2, <2>3
<1>9. Typed(t, C, V, K)
  BY <1>2, <1>3, <1>4 DEF Good, Typed
<1>10. Agree(t) /\ Apart(t)
  BY <1>4, <1>6 DEF Good, Agree, Apart
<1>11. UsedIsOpen(t, C, V) /\ OneUse(t, C, V)
  BY <1>4, <1>8 DEF Good, UsedIsOpen, OneUse
<1>12. Own(t)
  BY <1>3, <1>4 DEF Good, Own
<1>13. Stale(t) /\ Due(t, C) /\ Due(t, V)
  BY <1>2, <1>4 DEF Good, Stale, Due, IsNoted
<1>14. Good(t, C, V, K)
  BY <1>4, <1>9, <1>10, <1>11, <1>12, <1>13 DEF Good
<1>15. \A f \in Fds : Fresh(s, C, V, f) => Fresh(t, C, V, f)
  BY <1>4, <1>8 DEF Fresh, Used
<1> QED BY <1>14, <1>15 DEF t

\* The notes may be aged once the lists are empty.
LEMMA RotatedGood ==
  ASSUME NEW s, NEW C, NEW V, NEW K, Good(s, C, V, K), s.toRemove \subseteq s.noted
  PROVE  Good(Rotated(s), {}, {}, K)
<1> DEFINE t == Rotated(s)
<1>1. s \in Store
  BY DEF Good, Typed
<1>2. /\ t \in Store
      /\ Differ(s, t, {"noted", "notedBefore"})
      /\ t.noted = {} /\ t.notedBefore = s.noted
  BY <1>1, RotatedIs
<1> HIDE DEF t
<1>3. /\ t.open = s.open /\ t.clients = s.clients /\ t.waiters = s.waiters
      /\ t.ctlWatch = s.ctlWatch /\ t.ctlHalf = s.ctlHalf /\ t.outq = s.outq /\ t.unregistered = s.unregistered
      /\ t.vtWatch = s.vtWatch /\ t.vtHalf = s.vtHalf /\ t.pod = s.pod /\ t.podWho = s.podWho
      /\ t.toAdd = s.toAdd /\ t.toRemove = s.toRemove /\ t.harm = s.harm
  BY <1>2 DEF Differ, Names
<1>4. \A f \in Fds : /\ CtlUse(t, {}, f) => CtlUse(s, C, f)
                     /\ VtUse(t, {}, f) => VtUse(s, V, f)
                     /\ CliUse(t, f) => CliUse(s, f)
  BY <1>3 DEF CtlUse, VtUse, CliUse
<1>5. Typed(t, {}, {}, K)
  BY <1>2, <1>3 DEF Good, Typed
<1>6. Agree(t) /\ Apart(t)
  BY <1>3 DEF Good, Agree, Apart
<1>7. UsedIsOpen(t, {}, {}) /\ OneUse(t, {}, {})
  BY <1>3, <1>4 DEF Good, UsedIsOpen, OneUse
<1>8. Own(t) /\ Due(t, {})
  BY <1>3 DEF Good, Own, Due
<1>9. Stale(t)
  BY <1>2, <1>3 DEF Good, Stale, IsNoted
<1> QED
  BY <1>3, <1>5, <1>6, <1>7, <1>8, <1>9 DEF Good, t

\* a pane gets the number f of a connection that is new
LEMMA PodSetGood ==
  ASSUME NEW s, NEW t, NEW C, NEW V, NEW K, Good(s, C, V, K),
         NEW f, Fresh(s, C, V, f), NEW p \in Panes, s.pod[p] = None,
         NEW c, c = s.open[f],
         t \in Store, Differ(s, t, {"pod", "podWho", "toAdd"}),
         t.pod = [s.pod EXCEPT ![p] = f], t.podWho = [s.podWho EXCEPT ![p] = c],
         t.toAdd = s.toAdd \union {f}
  PROVE  Good(t, C, V, K)
<1>1. /\ t.open = s.open /\ t.clients = s.clients /\ t.waiters = s.waiters
      /\ t.ctlWatch = s.ctlWatch /\ t.ctlHalf = s.ctlHalf /\ t.outq = s.outq /\ t.unregistered = s.unregistered
      /\ t.vtWatch = s.vtWatch /\ t.vtHalf = s.vtHalf
      /\ t.noted = s.noted /\ t.notedBefore = s.notedBefore
      /\ t.toRemove = s.toRemove /\ t.harm = s.harm
  BY DEF Differ, Names
<1>2. s \in Store /\ f \in Fds
  BY DEF Good, Typed, Fresh
<1>3. /\ t.pod[p] = f /\ t.podWho[p] = c
      /\ \A q \in Panes \ {p} : t.pod[q] = s.pod[q] /\ t.podWho[q] = s.podWho[q]
  BY <1>2 DEF Store
<1>4. \A g \in Fds : /\ CtlUse(t, C, g) <=> CtlUse(s, C, g)
                     /\ VtUse(t, V, g) => VtUse(s, V, g) \/ g = f
                     /\ CliUse(t, g) <=> CliUse(s, g)
  <2> SUFFICES ASSUME NEW g \in Fds
      PROVE  /\ CtlUse(t, C, g) <=> CtlUse(s, C, g)
             /\ VtUse(t, V, g) => VtUse(s, V, g) \/ g = f
             /\ CliUse(t, g) <=> CliUse(s, g)
    OBVIOUS
  <2>1. CtlUse(t, C, g) <=> CtlUse(s, C, g)
    BY <1>1 DEF CtlUse, IsNoted
  <2>2. VtUse(t, V, g) => VtUse(s, V, g) \/ g = f
    BY <1>1, <1>3 DEF VtUse, IsNoted
  <2> QED BY <1>1, <2>1, <2>2 DEF CliUse
<1>5. Typed(t, C, V, K)
  BY <1>1 DEF Good, Typed
<1>6. Agree(t)
  BY <1>1, <1>3 DEF Good, Agree
<1>7. \A d \in s.clients : d.vt # f
  BY DEF Fresh, Used, VtUse
<1>8. \A q \in Panes : s.pod[q] # f
  BY DEF Fresh, Used, VtUse
<1>9. Apart(t)
  BY <1>1, <1>3, <1>7, <1>8 DEF Good, Apart
<1>10. UsedIsOpen(t, C, V) /\ OneUse(t, C, V)
  BY <1>1, <1>4 DEF Good, UsedIsOpen, OneUse, Fresh, Used
<1>11. Own(t) /\ Due(t, C) /\ Due(t, V)
  BY <1>1 DEF Good, Own, Due, IsNoted
<1>12. Stale(t)
  <2>1. \A g \in s.toRemove : IsNoted(t, g) /\ (t.open[g] = None \/ t.open[g] # t.vtWatch[g])
    BY <1>1 DEF Good, Stale, IsNoted
  <2>2. ASSUME NEW g \in t.toAdd PROVE \E q \in Panes : t.pod[q] = g
    <3>1. CASE g = f
      BY <3>1, <1>3
    <3>2. CASE g # f
      <4>1. PICK q \in Panes : s.pod[q] = g
        BY <3>2 DEF Good, Stale
      <4>2. q # p
        BY <4>1, <1>2, <2>2, <3>2 DEF Store, Fds, None
      <4> QED BY <4>1, <4>2, <1>3
    <3> QED BY <3>1, <3>2
  <2> QED BY <1>1, <2>1, <2>2 DEF Stale
<1> QED
  BY <1>1, <1>5, <1>6, <1>9, <1>10, <1>11, <1>12 DEF Good

-----------------------------------------------------------------------------
(* Lists                                                                   *)

LEMMA EntryOfIs ==
  ASSUME NEW s \in Store, NEW f \in Fds, NEW node \in Conns \union {None}
  PROVE  /\ EntryOf(s, f, node) \in Entry
         /\ EntryOf(s, f, node).fd = f
         /\ EntryOf(s, f, node).node = node
         /\ EntryOf(s, f, node).whose = IF node = None THEN s.open[f] ELSE node
<1>1. s.open[f] \in Conns \union {None}
  BY DEF Store
<1> QED BY <1>1 DEF EntryOf, Entry

\* There are finitely many numbers, so a set of them can be listed.
LEMMA FdsFinite == ASSUME NEW S \in SUBSET Fds PROVE IsFiniteSet(S)
<1>1. IsFiniteSet(Fds)
  BY ConnectionAssumption, FS_Interval DEF Fds
<1> QED BY <1>1, FS_Subset

LEMMA EntriesFinite ==
  ASSUME NEW s, NEW fds \in SUBSET Fds
  PROVE  IsFiniteSet({EntryOf(s, f, None) : f \in fds})
<1> DEFINE E == {EntryOf(s, f, None) : f \in fds}
           g == [f \in fds |-> EntryOf(s, f, None)]
<1>1. g \in Surjection(fds, E)
  BY DEF Surjection
<1>2. IsFiniteSet(fds)
  BY FdsFinite
<1> HIDE DEF g, E
<1>3. IsFiniteSet(E)
  BY <1>1, <1>2, FS_Surjection
<1> QED BY <1>3 DEF E

LEMMA AllListedIs ==
  ASSUME NEW s \in Store, NEW fds \in SUBSET Fds
  PROVE  /\ AllListed(s, fds) \in Store
         /\ Differ(s, AllListed(s, fds), {"ctlClose"})
         /\ Distinct(s.ctlClose) => Distinct(AllListed(s, fds).ctlClose)
         /\ \E E \in SUBSET Entry :
              /\ Range(AllListed(s, fds).ctlClose) = Range(s.ctlClose) \union E
              /\ \A e \in E : e.fd \in fds /\ e.whose = s.open[e.fd] /\ e.node = None
              /\ \A d, e \in E : d.fd = e.fd => d = e
              /\ \A e \in E, d \in Range(s.ctlClose) : d.fd # e.fd
<1> DEFINE new == {f \in fds : \A x \in Range(s.ctlClose) : x.fd # f}
           E == {EntryOf(s, f, None) : f \in new}
           list == s.ctlClose \o SetToSeq(E)
<1>1. s.ctlClose \in Seq(Entry)
  BY DEF Store
<1>2. \A f \in new : EntryOf(s, f, None) \in Entry /\ EntryOf(s, f, None).fd = f
                     /\ EntryOf(s, f, None).whose = s.open[f] /\ EntryOf(s, f, None).node = None
  BY EntryOfIs DEF None
<1>3. E \in SUBSET Entry
  BY <1>2
<1>4. \A e \in E : e.fd \in new /\ e.whose = s.open[e.fd] /\ e.node = None /\ e = EntryOf(s, e.fd, None)
  BY <1>2
<1>5. IsFiniteSet(E)
  BY EntriesFinite
<1>6. AllListed(s, fds) = [s EXCEPT !.ctlClose = list]
  BY DEF AllListed
<1> HIDE DEF E
<1>7. \A e \in E, d \in Range(s.ctlClose) : d.fd # e.fd
  BY <1>4
<1>8. \A d, e \in E : d.fd = e.fd => d = e
  BY <1>4
<1> HIDE DEF new
<1>9. /\ list \in Seq(Entry)
      /\ Range(list) = Range(s.ctlClose) \union E
      /\ Distinct(s.ctlClose) => Distinct(list)
  BY <1>1, <1>3, <1>5, <1>7, <1>8, AppendedIs
<1> HIDE DEF list
<1>10. /\ [s EXCEPT !.ctlClose = list] \in Store
       /\ Differ(s, [s EXCEPT !.ctlClose = list], {"ctlClose"})
       /\ [s EXCEPT !.ctlClose = list].ctlClose = list
  BY <1>9, CtlCloseSetIs
<1>11. \A e \in E : e.fd \in fds /\ e.whose = s.open[e.fd] /\ e.node = None
  BY <1>4 DEF new
<1> QED BY <1>3, <1>6, <1>7, <1>8, <1>9, <1>10, <1>11

\* The numbers in fds may be listed: they are noted, or may be used as control
\* connections and have no entry among those that are pending but not listed.
MayList(s, C, V, fds) ==
  \A f \in fds : IsNoted(s, f) \/ (/\ CtlMay(s, V, f)
                                   /\ \A d \in C : d.fd = f => d \in Range(s.ctlClose))

\* Nothing but the lists has changed.
ListOnly(s, t) == t \in Store /\ Differ(s, t, {"ctlClose", "vtClose"})

LEMMA ListOnlyGood ==
  ASSUME NEW s, NEW t, NEW C, NEW V, NEW K, Good(s, C, V, K), ListOnly(s, t)
  PROVE  Good(t, C, V, K)
<1>1. Below(s, t) /\ t.harm = s.harm
  BY DEF ListOnly, Below, Differ, Names, Good, Typed
<1>2. C \in SUBSET C /\ V \in SUBSET V /\ t.harm \intersect Averted = {}
  BY <1>1 DEF Good
<1> QED BY <1>1, <1>2, BelowGood

LEMMA AllListedGood ==
  ASSUME NEW s, NEW C, NEW V, NEW K, Good(s, C, V, K),
         NEW fds \in SUBSET Fds, MayList(s, C, V, fds)
  PROVE  \E E \in SUBSET Entry :
           /\ Good(AllListed(s, fds), C \union E, V, K)
           /\ Range(AllListed(s, fds).ctlClose) = Range(s.ctlClose) \union E
           /\ \A e \in E : e.fd \in fds
<1> DEFINE t == AllListed(s, fds)
<1>1. s \in Store
  BY DEF Good, Typed
<1>2. t \in Store /\ Differ(s, t, {"ctlClose"})
  BY <1>1, AllListedIs
<1>3. PICK E \in SUBSET Entry :
        /\ Range(t.ctlClose) = Range(s.ctlClose) \union E
        /\ \A e \in E : e.fd \in fds /\ e.whose = s.open[e.fd] /\ e.node = None
        /\ \A d, e \in E : d.fd = e.fd => d = e
        /\ \A e \in E, d \in Range(s.ctlClose) : d.fd # e.fd
  BY <1>1, AllListedIs
<1> HIDE DEF t
<1>4. ASSUME NEW e \in E, ~IsNoted(s, e.fd)
      PROVE /\ CtlMay(s, V, e.fd)
            /\ e.whose = s.open[e.fd]
            /\ \A d \in C \union E : d.fd = e.fd => d = e
  BY <1>3, <1>4 DEF MayList
<1>5. Good(s, C \union E, V, K)
  BY <1>4, CtlDueGood
<1>6. ListOnly(s, t)
  BY <1>2 DEF ListOnly, Differ
<1>7. Good(t, C \union E, V, K)
  BY <1>5, <1>6, ListOnlyGood
<1> QED BY <1>3, <1>7 DEF t

-----------------------------------------------------------------------------
(* The way through a handler                                               *)

\* From s to t something is closed; the entries E are listed.
GrowsBy(s, t, C, V, K, E) ==
  /\ E \subseteq Entry
  /\ t.vtClose = s.vtClose /\ t.toAdd = s.toAdd /\ t.notedBefore = s.notedBefore
  /\ s.noted \subseteq t.noted
  /\ t.toRemove \subseteq s.toRemove \union t.noted
  /\ Distinct(s.ctlClose) => Distinct(t.ctlClose)
  /\ Range(t.ctlClose) \subseteq Range(s.ctlClose) \union E
  /\ \A f \in Fds : ~Used(s, C, V, f) => t.open[f] = s.open[f] /\ ~Used(t, C \union E, V, f)
  /\ Good(t, C \union E, V, K)

Grows(s, t, C, V, K) == \E E \in SUBSET Entry : GrowsBy(s, t, C, V, K, E)

\* Such ways can be joined.
LEMMA GrowsTrans ==
  ASSUME NEW s, NEW t, NEW u, NEW C, NEW V, NEW K, NEW E,
         GrowsBy(s, t, C, V, K, E), Grows(t, u, C \union E, V, K)
  PROVE  Grows(s, u, C, V, K)
<1>1. PICK F \in SUBSET Entry : GrowsBy(t, u, C \union E, V, K, F)
  BY DEF Grows
<1>2. (C \union E) \union F = C \union (E \union F) /\ E \union F \in SUBSET Entry
  BY DEF GrowsBy
<1>3. Good(u, C \union (E \union F), V, K)
  BY <1>1, <1>2 DEF GrowsBy
<1>4. \A f \in Fds : ~Used(s, C, V, f) => u.open[f] = s.open[f] /\ ~Used(u, C \union (E \union F), V, f)
  BY <1>1, <1>2 DEF GrowsBy
<1>5. GrowsBy(s, u, C, V, K, E \union F)
  BY <1>1, <1>2, <1>3, <1>4 DEF GrowsBy
<1> QED BY <1>2, <1>5 DEF Grows

LEMMA BelowGrows ==
  ASSUME NEW s, NEW t, NEW C, NEW V, NEW K, Good(s, C, V, K), Below(s, t),
         t.harm \intersect Averted = {}, t.vtClose = s.vtClose, t.ctlClose = s.ctlClose
  PROVE  GrowsBy(s, t, C, V, K, {})
<1>1. Good(t, C, V, K)
  BY BelowGood
<1>2. C \union {} = C
  OBVIOUS
<1>3. \A f \in Fds : Used(t, C, V, f) => Used(s, C, V, f)
  <2> SUFFICES ASSUME NEW f \in Fds
      PROVE  /\ CtlUse(t, C, f) => CtlUse(s, C, f)
             /\ VtUse(t, V, f) => VtUse(s, V, f)
             /\ CliUse(t, f) => CliUse(s, f)
    BY DEF Used
  <2>1. CtlUse(t, C, f) => CtlUse(s, C, f)
    BY DEF Below, CtlUse, IsNoted
  <2>2. VtUse(t, V, f) => VtUse(s, V, f)
    BY DEF Below, VtUse, IsNoted
  <2>3. CliUse(t, f) => CliUse(s, f)
    BY DEF Below, CliUse
  <2> QED BY <2>1, <2>2, <2>3
<1>4. s.noted = t.noted /\ t.toAdd = s.toAdd /\ t.notedBefore = s.notedBefore
      /\ t.toRemove = s.toRemove /\ t.open = s.open
  BY DEF Below
<1> QED BY <1>1, <1>2, <1>3, <1>4 DEF GrowsBy

LEMMA FewerGrows ==
  ASSUME NEW s, NEW t, NEW C, NEW V, NEW K, Good(s, C, V, K),
         NEW gone, Fewer(s, t, gone), gone \intersect s.toAdd = {}, Unused(t, C, V, gone),
         t.vtClose = s.vtClose, t.ctlClose = s.ctlClose,
         \A f \in gone : Used(s, C, V, f)
  PROVE  GrowsBy(s, t, C, V, K, {})
<1>1. Good(t, C, V, K)
  BY FewerGood
<1>2. C \union {} = C
  OBVIOUS
<1>3. \A f \in Fds : Used(t, C, V, f) => Used(s, C, V, f)
  <2> SUFFICES ASSUME NEW f \in Fds
      PROVE  /\ CtlUse(t, C, f) => CtlUse(s, C, f)
             /\ VtUse(t, V, f) => VtUse(s, V, f)
             /\ CliUse(t, f) => CliUse(s, f)
    BY DEF Used
  <2>1. CtlUse(t, C, f) => CtlUse(s, C, f)
    BY DEF Fewer, CtlUse, IsNoted
  <2>2. VtUse(t, V, f) => VtUse(s, V, f)
    BY DEF Fewer, VtUse, IsNoted, None, Fds
  <2>3. CliUse(t, f) => CliUse(s, f)
    BY DEF Fewer, CliUse
  <2> QED BY <2>1, <2>2, <2>3
<1>4. s.noted \subseteq t.noted /\ t.toAdd = s.toAdd /\ t.notedBefore = s.notedBefore
      /\ t.toRemove \subseteq s.toRemove \union t.noted
  BY DEF Fewer
<1>5. \A f \in Fds : ~Used(s, C, V, f) => t.open[f] = s.open[f]
  BY DEF Fewer
<1> QED BY <1>1, <1>2, <1>3, <1>4, <1>5 DEF GrowsBy

\* releasePendingCliWaiters lists connections that were waiting.
LEMMA ReleasedGrows ==
  ASSUME NEW s, NEW C, NEW V, NEW K, Good(s, C, V, K), NEW f
  PROVE  /\ Grows(s, Released(s, f), C, V, K)
         /\ Released(s, f) \in Store
         /\ Differ(s, Released(s, f), {"waiters", "ctlClose"})
<1> DEFINE mine == {w \in s.waiters : w.owner = f}
           fds == {w.fd : w \in mine}
           r == [s EXCEPT !.waiters = s.waiters \ mine]
           t == AllListed(r, fds)
<1>1. s \in Store
  BY DEF Good, Typed
<1>2. r \in Store /\ Differ(s, r, {"waiters"}) /\ r.waiters = s.waiters \ mine
  BY <1>1, WaitersTakenIs
<1>3. t = Released(s, f)
  BY DEF Released
<1>4. \A w \in s.waiters : w.fd \in Fds
  BY <1>1 DEF Store, Waiter
<1>5. fds \in SUBSET Fds
  BY <1>4
<1>6. \A g \in fds : \E w \in mine : w.fd = g
  OBVIOUS
<1>7. \A w \in mine : w \in s.waiters /\ w \notin r.waiters
  BY <1>2
<1>8. r.waiters \subseteq s.waiters
  BY <1>2
<1> HIDE DEF r, mine, fds
<1>9. Below(s, r) /\ r.harm = s.harm /\ r.ctlClose = s.ctlClose /\ r.vtClose = s.vtClose
  BY <1>2, <1>8 DEF Below, Differ, Names
<1>10. GrowsBy(s, r, C, V, K, {})
  BY <1>9, BelowGrows DEF Good
<1>11. Good(r, C, V, K)
  BY <1>9, BelowGood DEF Good
<1>12. ASSUME NEW g \in fds
       PROVE  CliUse(s, g) /\ ~CliUse(r, g)
  <2>1. PICK w \in mine : w.fd = g
    BY <1>6
  <2>2. \A v \in s.waiters : v.fd = g => v = w
    <3>1. w \in s.waiters
      BY <2>1, <1>7
    <3>2. \A v, x \in s.waiters : v.fd = x.fd => v = x
      BY DEF Good, Apart
    <3> QED BY <3>1, <3>2, <2>1
  <2> QED BY <2>1, <2>2, <1>7, <1>8 DEF CliUse
<1>13. MayList(r, C, V, fds)
  <2> SUFFICES ASSUME NEW g \in fds, ~IsNoted(r, g)
      PROVE  CtlMay(r, V, g) /\ \A d \in C : d.fd # g
    BY DEF MayList
  <2>1. g \in Fds /\ CliUse(s, g) /\ ~CliUse(r, g)
    BY <1>5, <1>12
  <2>2. s.open[g] # None /\ ~CtlUse(s, C, g) /\ ~VtUse(s, V, g)
    BY <2>1 DEF Good, UsedIsOpen, OneUse
  <2>3. ~IsNoted(s, g) /\ r.open[g] = s.open[g]
    BY <1>9 DEF Below, IsNoted
  <2>4. \A d \in C : d.fd # g
    BY <2>2, <2>3 DEF CtlUse
  <2>5. ~VtUse(r, V, g)
    BY <2>1, <2>2, <1>9 DEF Below, VtUse, IsNoted
  <2> QED BY <2>1, <2>2, <2>3, <2>4, <2>5 DEF CtlMay
<1>14. t \in Store /\ Differ(r, t, {"ctlClose"}) /\ (Distinct(r.ctlClose) => Distinct(t.ctlClose))
  BY <1>2, <1>5, AllListedIs
<1>15. PICK E \in SUBSET Entry :
         /\ Good(t, C \union E, V, K)
         /\ Range(t.ctlClose) = Range(r.ctlClose) \union E
         /\ \A e \in E : e.fd \in fds
  BY <1>5, <1>11, <1>13, AllListedGood
<1> HIDE DEF t
<1>16. /\ t.open = r.open /\ t.ctlWatch = r.ctlWatch /\ t.vtWatch = r.vtWatch
       /\ t.ctlHalf = r.ctlHalf /\ t.vtHalf = r.vtHalf /\ t.outq = r.outq
       /\ t.unregistered = r.unregistered /\ t.vtClose = r.vtClose
       /\ t.noted = r.noted /\ t.notedBefore = r.notedBefore
       /\ t.toRemove = r.toRemove /\ t.toAdd = r.toAdd
       /\ t.clients = r.clients /\ t.waiters = r.waiters /\ t.pod = r.pod
  BY <1>14 DEF Differ, Names
<1>17. \A g \in Fds : Used(t, C \union E, V, g) => Used(s, C, V, g)
  <2> SUFFICES ASSUME NEW g \in Fds, g \notin fds
      PROVE  Used(t, C \union E, V, g) => Used(r, C, V, g)
    BY <1>10, <1>12 DEF Used, GrowsBy
  <2>1. CtlUse(t, C \union E, g) => CtlUse(r, C, g)
    BY <1>15, <1>16 DEF CtlUse, IsNoted
  <2>2. VtUse(t, V, g) => VtUse(r, V, g)
    BY <1>16 DEF VtUse, IsNoted
  <2>3. CliUse(t, g) => CliUse(r, g)
    BY <1>16 DEF CliUse
  <2> QED BY <2>1, <2>2, <2>3 DEF Used
<1>18. GrowsBy(s, t, C, V, K, E)
  BY <1>9, <1>14, <1>15, <1>16, <1>17 DEF GrowsBy, Below
<1>19. Differ(s, t, {"waiters", "ctlClose"})
  BY <1>2, <1>14 DEF Differ
<1> QED BY <1>3, <1>14, <1>18, <1>19 DEF Grows

\* Nothing of client c is left but its entry.
Bare(s, c) ==
  /\ s.ctlWatch[c.ctl] = None /\ s.ctlHalf[c.ctl] = {} /\ s.outq[c.ctl] = {}
  /\ c.ctl \notin s.unregistered
  /\ c.vt # None => s.vtWatch[c.vt] = None /\ s.vtHalf[c.vt] = {}

\* purgeMuxFdState ...
LEMMA CtlPurgedGrows ==
  ASSUME NEW s, NEW C, NEW V, NEW K, Good(s, C, V, K), NEW f \in Fds
  PROVE  /\ Grows(s, CtlPurged(s, f), C, V, K)
         /\ CtlPurged(s, f) \in Store
         /\ Differ(s, CtlPurged(s, f), {"waiters", "ctlClose", "ctlHalf", "outq", "unregistered", "ctlWatch"})
         /\ CtlPurged(s, f).ctlWatch[f] = None /\ CtlPurged(s, f).ctlHalf[f] = {}
         /\ CtlPurged(s, f).outq[f] = {} /\ f \notin CtlPurged(s, f).unregistered
<1> DEFINE r == Released(s, f)
           d == CtlDropped(r, f)
           t == CtlDisarmed(d, f)
<1>1. /\ Grows(s, r, C, V, K)
      /\ r \in Store
      /\ Differ(s, r, {"waiters", "ctlClose"})
  BY ReleasedGrows
<1>2. /\ d \in Store
      /\ Differ(r, d, {"ctlHalf", "outq", "unregistered"})
      /\ d.ctlHalf = [r.ctlHalf EXCEPT ![f] = {}]
      /\ d.outq = [r.outq EXCEPT ![f] = {}]
      /\ d.unregistered = r.unregistered \ {f}
  BY <1>1, CtlDroppedIs
<1>3. /\ t \in Store
      /\ Differ(d, t, {"ctlWatch"})
      /\ t.ctlWatch = [d.ctlWatch EXCEPT ![f] = None]
  BY <1>2, CtlDisarmedIs
<1>4. t = CtlPurged(s, f)
  BY DEF CtlPurged
<1> HIDE DEF r, d, t
<1>5. /\ t.open = r.open /\ t.clients = r.clients /\ t.pod = r.pod /\ t.podWho = r.podWho
      /\ t.noted = r.noted /\ t.notedBefore = r.notedBefore
      /\ t.toRemove = r.toRemove /\ t.toAdd = r.toAdd
      /\ t.waiters = r.waiters /\ t.vtWatch = r.vtWatch /\ t.vtHalf = r.vtHalf
      /\ t.ctlClose = r.ctlClose /\ t.vtClose = r.vtClose /\ t.harm = r.harm
      /\ t.ctlHalf = d.ctlHalf /\ t.outq = d.outq /\ t.unregistered = d.unregistered
      /\ d.ctlWatch = r.ctlWatch
  BY <1>2, <1>3 DEF Differ, Names
<1>6. /\ r.ctlHalf \in [Fds -> SUBSET Conns] /\ r.outq \in [Fds -> SUBSET Conns]
      /\ r.ctlWatch \in [Fds -> Conns \union {None}]
  BY <1>1 DEF Store
<1>7. \A g \in Fds : /\ t.ctlWatch[g] \in {None, r.ctlWatch[g]}
                     /\ t.ctlHalf[g] \subseteq r.ctlHalf[g]
                     /\ t.outq[g] \subseteq r.outq[g]
  BY <1>2, <1>3, <1>5, <1>6
<1>8. /\ t.ctlWatch[f] = None /\ t.ctlHalf[f] = {}
      /\ t.outq[f] = {} /\ f \notin t.unregistered
  BY <1>2, <1>3, <1>5, <1>6
<1>9. Below(r, t)
  BY <1>2, <1>3, <1>5, <1>7 DEF Below
<1>10. PICK E \in SUBSET Entry : GrowsBy(s, r, C, V, K, E)
  BY <1>1 DEF Grows
<1>11. Good(r, C \union E, V, K)
  BY <1>10 DEF GrowsBy
<1>12. GrowsBy(r, t, C \union E, V, K, {})
  BY <1>5, <1>9, <1>11, BelowGrows DEF Good
<1>13. Grows(s, t, C, V, K)
  BY <1>10, <1>12, GrowsTrans DEF Grows
<1>14. Differ(s, t, {"waiters", "ctlClose", "ctlHalf", "outq", "unregistered", "ctlWatch"})
  BY <1>1, <1>2, <1>3 DEF Differ
<1> QED BY <1>3, <1>4, <1>8, <1>13, <1>14

LEMMA VtPurgedIs ==
  ASSUME NEW s \in Store, NEW f \in Fds \union {None}
  PROVE  /\ VtPurged(s, f) \in Store
         /\ Differ(s, VtPurged(s, f), {"vtWatch", "vtHalf"})
         /\ \A g \in Fds : /\ VtPurged(s, f).vtWatch[g] \in {None, s.vtWatch[g]}
                           /\ VtPurged(s, f).vtHalf[g] \subseteq s.vtHalf[g]
         /\ f # None => VtPurged(s, f).vtWatch[f] = None /\ VtPurged(s, f).vtHalf[f] = {}
<1>1. CASE f = None
  BY <1>1 DEF VtPurged, Differ
<1>2. CASE f # None
  <2> DEFINE d == VtDropped(s, f)
             t == VtDisarmed(d, f)
  <2>1. f \in Fds
    BY <1>2
  <2>2. d \in Store /\ Differ(s, d, {"vtHalf"}) /\ d.vtHalf = [s.vtHalf EXCEPT ![f] = {}]
    BY <2>1, VtDroppedIs
  <2>3. t \in Store /\ Differ(d, t, {"vtWatch"}) /\ t.vtWatch = [d.vtWatch EXCEPT ![f] = None]
    BY <2>1, <2>2, VtDisarmedIs
  <2>4. t = VtPurged(s, f)
    BY <1>2 DEF VtPurged
  <2> HIDE DEF d, t
  <2>5. d.vtWatch = s.vtWatch /\ t.vtHalf = d.vtHalf
    BY <2>2, <2>3 DEF Differ, Names
  <2>6. s.vtWatch \in [Fds -> Conns \union {None}] /\ s.vtHalf \in [Fds -> SUBSET Conns]
    BY DEF Store
  <2>7. \A g \in Fds : t.vtWatch[g] \in {None, s.vtWatch[g]} /\ t.vtHalf[g] \subseteq s.vtHalf[g]
    BY <2>2, <2>3, <2>5, <2>6
  <2>8. t.vtWatch[f] = None /\ t.vtHalf[f] = {}
    BY <2>1, <2>2, <2>3, <2>5, <2>6
  <2>9. Differ(s, t, {"vtWatch", "vtHalf"})
    BY <2>2, <2>3 DEF Differ
  <2> QED BY <2>3, <2>4, <2>7, <2>8, <2>9
<1> QED BY <1>1, <1>2

PurgedFields == {"waiters", "ctlClose", "ctlHalf", "outq", "unregistered", "ctlWatch", "vtWatch", "vtHalf"}

\* ... and the same of both connections.
LEMMA PurgedGrows ==
  ASSUME NEW s, NEW C, NEW V, NEW K, Good(s, C, V, K), NEW c \in Client
  PROVE  /\ Grows(s, Purged(s, c), C, V, K)
         /\ Purged(s, c) \in Store
         /\ Differ(s, Purged(s, c), PurgedFields)
         /\ Bare(Purged(s, c), c)
<1> DEFINE f == c.ctl
           g == c.vt
           r == CtlPurged(s, f)
           t == VtPurged(r, g)
<1>1. f \in Fds /\ g \in Fds \union {None}
  BY DEF Client
<1>2. /\ Grows(s, r, C, V, K)
      /\ r \in Store
      /\ Differ(s, r, {"waiters", "ctlClose", "ctlHalf", "outq", "unregistered", "ctlWatch"})
      /\ r.ctlWatch[f] = None /\ r.ctlHalf[f] = {}
      /\ r.outq[f] = {} /\ f \notin r.unregistered
  BY <1>1, CtlPurgedGrows
<1>3. /\ t \in Store
      /\ Differ(r, t, {"vtWatch", "vtHalf"})
      /\ \A h \in Fds : t.vtWatch[h] \in {None, r.vtWatch[h]} /\ t.vtHalf[h] \subseteq r.vtHalf[h]
      /\ g # None => t.vtWatch[g] = None /\ t.vtHalf[g] = {}
  BY <1>1, <1>2, VtPurgedIs
<1>4. t = Purged(s, c)
  BY DEF Purged
<1> HIDE DEF r, t
<1>5. /\ t.open = r.open /\ t.clients = r.clients /\ t.pod = r.pod /\ t.podWho = r.podWho
      /\ t.noted = r.noted /\ t.notedBefore = r.notedBefore
      /\ t.toRemove = r.toRemove /\ t.toAdd = r.toAdd
      /\ t.waiters = r.waiters /\ t.ctlWatch = r.ctlWatch /\ t.ctlHalf = r.ctlHalf
      /\ t.outq = r.outq /\ t.unregistered = r.unregistered
      /\ t.ctlClose = r.ctlClose /\ t.vtClose = r.vtClose /\ t.harm = r.harm
  BY <1>3 DEF Differ, Names
<1>6. Below(r, t)
  BY <1>3, <1>5 DEF Below
<1>7. PICK E \in SUBSET Entry : GrowsBy(s, r, C, V, K, E)
  BY <1>2 DEF Grows
<1>8. Good(r, C \union E, V, K)
  BY <1>7 DEF GrowsBy
<1>9. GrowsBy(r, t, C \union E, V, K, {})
  BY <1>5, <1>6, <1>8, BelowGrows DEF Good
<1>10. Grows(s, t, C, V, K)
  BY <1>7, <1>9, GrowsTrans DEF Grows
<1>11. Differ(s, t, PurgedFields)
  BY <1>2, <1>3 DEF Differ, PurgedFields
<1>12. Bare(t, c)
  BY <1>2, <1>3, <1>5 DEF Bare
<1> QED BY <1>3, <1>4, <1>10, <1>11, <1>12

\* killPane, detachSession: the connections to pods are closed and noted.
LEMMA PodsClosedGrows ==
  ASSUME NEW s, NEW C, NEW V, NEW K, Good(s, C, V, K),
         NEW ps \in SUBSET Panes, PodFds(s, ps) \intersect s.toAdd = {}
  PROVE  /\ GrowsBy(s, PodsClosed(s, ps), C, V, K, {})
         /\ PodsClosed(s, ps) \in Store
         /\ Differ(s, PodsClosed(s, ps), {"open", "noted", "toRemove", "pod", "podWho"})
         /\ \A p \in ps : PodsClosed(s, ps).pod[p] = None
<1> DEFINE t == PodsClosed(s, ps)
           gone == PodFds(s, ps)
<1>1. s \in Store
  BY DEF Good, Typed
<1>2. /\ t \in Store
      /\ Differ(s, t, {"open", "noted", "toRemove", "pod", "podWho"})
      /\ t.open = [f \in Fds |-> IF f \in gone THEN None ELSE s.open[f]]
      /\ t.noted = s.noted \union gone
      /\ t.toRemove = s.toRemove \union gone
      /\ t.pod = [p \in Panes |-> IF p \in ps THEN None ELSE s.pod[p]]
      /\ t.podWho = [p \in Panes |-> IF p \in ps THEN None ELSE s.podWho[p]]
  BY <1>1, PodsClosedIs
<1> HIDE DEF t
<1>3. gone \subseteq Fds /\ \A f \in gone : f # None /\ \E p \in ps : s.pod[p] = f
  BY <1>1 DEF Store, PodFds
<1>4. \A p \in Panes : t.pod[p] = s.pod[p] \/ s.pod[p] \in gone
  <2> SUFFICES ASSUME NEW p \in Panes, p \in ps, s.pod[p] # None PROVE s.pod[p] \in gone
    BY <1>2
  <2> QED BY DEF PodFds
<1> HIDE DEF gone
<1>5. /\ t.ctlWatch = s.ctlWatch /\ t.vtWatch = s.vtWatch
      /\ t.ctlHalf = s.ctlHalf /\ t.vtHalf = s.vtHalf /\ t.outq = s.outq
      /\ t.unregistered = s.unregistered /\ t.waiters = s.waiters /\ t.harm = s.harm
      /\ t.notedBefore = s.notedBefore /\ t.toAdd = s.toAdd /\ t.clients = s.clients
      /\ t.ctlClose = s.ctlClose /\ t.vtClose = s.vtClose
  BY <1>2 DEF Differ, Names
<1>6. Fewer(s, t, gone)
  BY <1>2, <1>3, <1>4, <1>5 DEF Fewer
<1>7. \A f \in gone : VtUse(s, V, f)
  BY <1>3 DEF VtUse
<1>8. Unused(t, C, V, gone)
  <2> SUFFICES ASSUME NEW f \in gone PROVE ~CtlUse(t, C, f) /\ ~VtUse(t, V, f) /\ ~CliUse(t, f)
    BY DEF Unused
  <2>1. f \in Fds /\ f # None /\ f \in t.noted /\ f \in t.toRemove
    BY <1>2, <1>3
  <2>2. ~CtlUse(s, C, f) /\ ~CliUse(s, f)
    BY <2>1, <1>7 DEF Good, OneUse
  <2>3. ~CtlUse(t, C, f) /\ ~CliUse(t, f)
    BY <2>1, <2>2, <1>5 DEF CtlUse, CliUse, IsNoted
  <2>4. PICK p \in ps : s.pod[p] = f
    BY <1>3
  <2>5. \A d \in s.clients : d.vt # f
    BY <2>1, <2>4 DEF Good, Apart
  <2>6. \A q \in Panes : t.pod[q] # f
    <3> SUFFICES ASSUME NEW q \in Panes, t.pod[q] = f PROVE FALSE
      OBVIOUS
    <3>1. q \notin ps /\ s.pod[q] = f
      BY <1>2, <2>1
    <3>2. q = p
      BY <3>1, <2>1, <2>4 DEF Good, Apart
    <3> QED BY <3>1, <3>2
  <2>7. ~VtUse(t, V, f)
    BY <2>1, <2>5, <2>6, <1>5 DEF VtUse, IsNoted
  <2> QED BY <2>3, <2>7
<1>9. gone \intersect s.toAdd = {}
  BY DEF gone
<1>10. \A f \in gone : Used(s, C, V, f)
  BY <1>7 DEF Used
<1>11. GrowsBy(s, t, C, V, K, {})
  BY <1>5, <1>6, <1>8, <1>9, <1>10, FewerGrows
<1>12. \A p \in ps : t.pod[p] = None
  BY <1>2
<1> QED BY <1>2, <1>11, <1>12 DEF t

\* closeClientFds
LEMMA ClientClosedGrows ==
  ASSUME NEW s, NEW C, NEW V, NEW K, Good(s, C, V, K), NEW c \in s.clients, Bare(s, c)
  PROVE  /\ GrowsBy(s, ClientClosed(s, c), C, V, K, {})
         /\ ClientClosed(s, c) \in Store
         /\ ClientClosed(s, c).clients = s.clients \ {c}
         /\ {c.ctl, c.vt} \ {None} \subseteq ClientClosed(s, c).noted
<1> DEFINE t == ClientClosed(s, c)
           gone == {c.ctl, c.vt} \ {None}
<1>1. s \in Store /\ c \in Client
  BY DEF Good, Typed, Store
<1>2. /\ t \in Store
      /\ Differ(s, t, {"open", "noted", "clients"})
      /\ t.open = [f \in Fds |-> IF f \in gone THEN None ELSE s.open[f]]
      /\ t.noted = s.noted \union gone
      /\ t.clients = s.clients \ {c}
  BY <1>1, ClientClosedIs
<1> HIDE DEF t
<1>3. c.ctl \in Fds /\ c.ctl # None /\ c.vt \in Fds \union {None} /\ gone \subseteq Fds
  BY <1>1 DEF Client, Fds, None
<1>4. /\ t.ctlWatch = s.ctlWatch /\ t.vtWatch = s.vtWatch
      /\ t.ctlHalf = s.ctlHalf /\ t.vtHalf = s.vtHalf /\ t.outq = s.outq
      /\ t.unregistered = s.unregistered /\ t.waiters = s.waiters /\ t.harm = s.harm
      /\ t.notedBefore = s.notedBefore /\ t.toAdd = s.toAdd /\ t.toRemove = s.toRemove
      /\ t.ctlClose = s.ctlClose /\ t.vtClose = s.vtClose
      /\ t.pod = s.pod /\ t.podWho = s.podWho
  BY <1>2 DEF Differ, Names
<1>5. Fewer(s, t, gone)
  BY <1>2, <1>3, <1>4 DEF Fewer
<1>6. CtlUse(s, C, c.ctl) /\ (c.vt # None => VtUse(s, V, c.vt))
  BY DEF CtlUse, VtUse
<1>7. ~CtlUse(t, C, c.ctl) /\ ~VtUse(t, V, c.ctl) /\ ~CliUse(t, c.ctl)
  <2>1. c.ctl \in t.noted
    BY <1>2, <1>3
  <2>2. ~VtUse(s, V, c.ctl) /\ ~CliUse(s, c.ctl)
    BY <1>3, <1>6 DEF Good, OneUse
  <2>3. \A d \in t.clients : d.ctl # c.ctl
    BY <1>2 DEF Good, Apart
  <2>4. ~CtlUse(t, C, c.ctl)
    BY <2>1, <2>3, <1>4 DEF CtlUse, IsNoted, Bare
  <2>5. ~VtUse(t, V, c.ctl) /\ ~CliUse(t, c.ctl)
    BY <2>1, <2>2, <1>2, <1>4 DEF VtUse, CliUse, IsNoted
  <2> QED BY <2>4, <2>5
<1>8. ASSUME c.vt # None PROVE ~CtlUse(t, C, c.vt) /\ ~VtUse(t, V, c.vt) /\ ~CliUse(t, c.vt)
  <2>1. c.vt \in Fds /\ c.vt \in t.noted
    BY <1>2, <1>3, <1>8
  <2>2. ~CtlUse(s, C, c.vt) /\ ~CliUse(s, c.vt)
    BY <2>1, <1>6, <1>8 DEF Good, OneUse
  <2>3. \A d \in t.clients : d.vt # c.vt
    BY <1>2, <1>8 DEF Good, Apart
  <2>4. \A p \in Panes : s.pod[p] # c.vt
    BY <1>8 DEF Good, Apart
  <2>5. ~VtUse(t, V, c.vt)
    BY <2>1, <2>3, <2>4, <1>4, <1>8 DEF VtUse, IsNoted, Bare
  <2>6. ~CtlUse(t, C, c.vt) /\ ~CliUse(t, c.vt)
    BY <2>1, <2>2, <1>2, <1>4 DEF CtlUse, CliUse, IsNoted
  <2> QED BY <2>5, <2>6
<1>9. Unused(t, C, V, gone) /\ \A f \in gone : Used(s, C, V, f)
  BY <1>6, <1>7, <1>8 DEF Unused, Used
<1>10. gone \intersect s.toAdd = {}
  <2> SUFFICES ASSUME NEW f \in s.toAdd, f \in gone PROVE FALSE
    OBVIOUS
  <2>1. PICK p \in Panes : s.pod[p] = f
    BY DEF Good, Stale
  <2>2. CASE f = c.ctl
    <3>1. VtUse(s, V, c.ctl)
      BY <2>1, <2>2 DEF VtUse
    <3> QED BY <3>1, <1>3, <1>6 DEF Good, OneUse
  <2>3. CASE f = c.vt
    BY <2>1, <2>3 DEF Good, Apart
  <2> QED BY <2>2, <2>3
<1>11. GrowsBy(s, t, C, V, K, {})
  BY <1>4, <1>5, <1>9, <1>10, FewerGrows
<1> QED BY <1>2, <1>11 DEF t

-----------------------------------------------------------------------------
(* Working off the lists                                                   *)

\* removeClient, from the purge to the close.
LEMMA RemovedGrows ==
  ASSUME NEW s, NEW C, NEW V, NEW K, Good(s, C, V, K), NEW c \in s.clients,
         NEW parked \in SUBSET Panes, PodFds(s, parked) \intersect s.toAdd = {}
  PROVE  /\ Grows(s, Removed(s, c, parked), C, V, K)
         /\ Removed(s, c, parked) \in Store
         /\ Removed(s, c, parked).clients = s.clients \ {c}
         /\ {c.ctl, c.vt} \ {None} \subseteq Removed(s, c, parked).noted
<1> DEFINE r == Purged(s, c)
           d == PodsClosed(r, parked)
           t == ClientClosed(d, c)
<1>1. c \in Client
  BY DEF Good, Typed, Store
<1>2. /\ Grows(s, r, C, V, K)
      /\ Differ(s, r, PurgedFields)
      /\ Bare(r, c)
  BY <1>1, PurgedGrows
<1>3. r.pod = s.pod /\ r.toAdd = s.toAdd /\ r.clients = s.clients
  BY <1>2 DEF Differ, Names, PurgedFields
<1>4. t = Removed(s, c, parked)
  BY DEF Removed
<1>5. PICK E \in SUBSET Entry : GrowsBy(s, r, C, V, K, E)
  BY <1>2 DEF Grows
<1>6. Good(r, C \union E, V, K)
  BY <1>5 DEF GrowsBy
<1>7. PodFds(r, parked) \intersect r.toAdd = {}
  BY <1>3 DEF PodFds
<1> HIDE DEF r
<1>8. /\ GrowsBy(r, d, C \union E, V, K, {})
      /\ Differ(r, d, {"open", "noted", "toRemove", "pod", "podWho"})
  BY <1>6, <1>7, PodsClosedGrows
<1> HIDE DEF d
<1>9. d.clients = s.clients /\ Bare(d, c)
  BY <1>2, <1>3, <1>8 DEF Differ, Names, Bare
<1>10. (C \union E) \union {} = C \union E
  OBVIOUS
<1>11. Good(d, C \union E, V, K)
  BY <1>8, <1>10 DEF GrowsBy
<1>12. /\ GrowsBy(d, t, C \union E, V, K, {})
       /\ t \in Store
       /\ t.clients = d.clients \ {c}
       /\ {c.ctl, c.vt} \ {None} \subseteq t.noted
  BY <1>9, <1>11, ClientClosedGrows
<1> HIDE DEF t
<1>13. Grows(r, t, C \union E, V, K)
  BY <1>8, <1>10, <1>12, GrowsTrans DEF Grows
<1>14. Grows(s, t, C, V, K)
  BY <1>5, <1>13, GrowsTrans
<1> QED BY <1>4, <1>9, <1>12, <1>14

\* Entries can be left out.
LEMMA PendingGood ==
  ASSUME NEW s, NEW C, NEW V, NEW K, Good(s, C, V, K), NEW D \in SUBSET C, NEW W \in SUBSET V
  PROVE  Good(s, D, W, K)
<1>1. Below(s, s) /\ s.harm \intersect Averted = {}
  BY DEF Below, Good, Typed
<1> QED BY <1>1, BelowGood

\* A write sends nothing but its own.
LEMMA FlushedIs ==
  ASSUME NEW s, NEW C, NEW V, NEW K, Good(s, C, V, K), NEW f \in Fds
  PROVE  /\ Flushed(s, f) \in Store
         /\ Differ(s, Flushed(s, f), {"outq"})
         /\ Flushed(s, f).outq = [s.outq EXCEPT ![f] = {}]
<1>1. s \in Store /\ ~(s.outq[f] \ {s.open[f]} # {})
  BY DEF Good, Typed, Own
<1>2. Flushed(s, f) = [s EXCEPT !.outq[f] = {}]
  BY <1>1 DEF Flushed, Harmed
<1>3. {} \in SUBSET Conns
  OBVIOUS
<1> QED BY <1>1, <1>2, <1>3, OutqSetIs

\* What working off an entry leaves alone.
Passed(s, t) ==
  /\ t.vtClose = s.vtClose /\ t.toAdd = s.toAdd
  /\ s.noted \subseteq t.noted
  /\ t.toRemove \subseteq s.toRemove \union t.noted
  /\ Distinct(s.ctlClose) => Distinct(t.ctlClose)

\* f has lost its watcher; D is what else is pending.
LEMMA CtlGoneGood ==
  ASSUME NEW s, NEW D, NEW V, NEW K, Good(s, D, V, K), NEW f \in Fds,
         ~VtUse(s, V, f), ~CliUse(s, f), s.ctlWatch[f] = None,
         \A d \in D : d.fd # f, s.toAdd = {}, NEW parked \in SUBSET Panes
  PROVE  /\ \E E \in SUBSET Entry : Good(CtlGone(s, f, parked), D \union E, V, K)
         /\ Passed(s, CtlGone(s, f, parked))
<1> DEFINE a == Flushed(s, f)
           b == CtlDropped(a, f)
           t == Released(b, f)
           c == CHOOSE c \in ClientAt(t, f) : TRUE
<1>1. /\ a \in Store
      /\ Differ(s, a, {"outq"})
      /\ a.outq = [s.outq EXCEPT ![f] = {}]
  BY FlushedIs
<1>2. /\ b \in Store
      /\ Differ(a, b, {"ctlHalf", "outq", "unregistered"})
      /\ b.ctlHalf = [a.ctlHalf EXCEPT ![f] = {}]
      /\ b.outq = [a.outq EXCEPT ![f] = {}]
      /\ b.unregistered = a.unregistered \ {f}
  BY <1>1, CtlDroppedIs
<1> HIDE DEF a
<1>3. /\ b.open = s.open /\ b.clients = s.clients /\ b.pod = s.pod /\ b.podWho = s.podWho
      /\ b.noted = s.noted /\ b.notedBefore = s.notedBefore
      /\ b.toRemove = s.toRemove /\ b.toAdd = s.toAdd
      /\ b.waiters = s.waiters /\ b.vtWatch = s.vtWatch /\ b.vtHalf = s.vtHalf
      /\ b.ctlClose = s.ctlClose /\ b.vtClose = s.vtClose /\ b.harm = s.harm
      /\ b.ctlWatch = s.ctlWatch /\ a.ctlHalf = s.ctlHalf /\ a.unregistered = s.unregistered
  BY <1>1, <1>2 DEF Differ, Names
<1>4. s.ctlHalf \in [Fds -> SUBSET Conns] /\ s.outq \in [Fds -> SUBSET Conns]
  BY DEF Good, Typed, Store
<1>5. /\ \A g \in Fds : b.ctlHalf[g] \subseteq s.ctlHalf[g] /\ b.outq[g] \subseteq s.outq[g]
      /\ b.ctlHalf[f] = {} /\ b.outq[f] = {} /\ f \notin b.unregistered
  BY <1>1, <1>2, <1>3, <1>4
<1>6. Below(s, b)
  BY <1>2, <1>3, <1>5 DEF Below
<1> HIDE DEF b
<1>7. Good(b, D, V, K)
  BY <1>3, <1>6, BelowGood DEF Good
<1>8. /\ Grows(b, t, D, V, K)
      /\ t \in Store
      /\ Differ(b, t, {"waiters", "ctlClose"})
  BY <1>7, ReleasedGrows
<1>9. CtlGone(s, f, parked) = IF ClientAt(t, f) = {} THEN Closed(t, {f}) ELSE Removed(t, c, parked)
  BY DEF CtlGone, a, b
<1> HIDE DEF t
<1>10. /\ t.ctlWatch = b.ctlWatch /\ t.vtWatch = b.vtWatch
       /\ t.ctlHalf = b.ctlHalf /\ t.vtHalf = b.vtHalf /\ t.outq = b.outq
       /\ t.unregistered = b.unregistered /\ t.vtClose = b.vtClose
       /\ t.noted = b.noted /\ t.notedBefore = b.notedBefore
       /\ t.toRemove = b.toRemove /\ t.toAdd = b.toAdd
       /\ t.clients = b.clients /\ t.pod = b.pod /\ t.podWho = b.podWho
  BY <1>8 DEF Differ, Names
<1>11. PICK E \in SUBSET Entry : GrowsBy(b, t, D, V, K, E)
  BY <1>8 DEF Grows
<1>12. Good(t, D \union E, V, K)
  BY <1>11 DEF GrowsBy
<1>13. Passed(s, t)
  BY <1>3, <1>11 DEF Passed, GrowsBy
<1>14. CASE ClientAt(t, f) = {}
  <2> DEFINE u == Closed(t, {f})
  <2>1. u = CtlGone(s, f, parked)
    BY <1>9, <1>14
  <2>2. /\ u \in Store
        /\ Differ(t, u, {"open"})
        /\ u.open = [g \in Fds |-> IF g \in {f} THEN None ELSE t.open[g]]
    BY <1>8, ClosedIs
  <2> HIDE DEF u
  <2>3. /\ u.ctlWatch = t.ctlWatch /\ u.vtWatch = t.vtWatch
        /\ u.ctlHalf = t.ctlHalf /\ u.vtHalf = t.vtHalf /\ u.outq = t.outq
        /\ u.unregistered = t.unregistered /\ u.vtClose = t.vtClose /\ u.ctlClose = t.ctlClose
        /\ u.noted = t.noted /\ u.notedBefore = t.notedBefore
        /\ u.toRemove = t.toRemove /\ u.toAdd = t.toAdd /\ u.waiters = t.waiters
        /\ u.clients = t.clients /\ u.pod = t.pod /\ u.podWho = t.podWho /\ u.harm = t.harm
    BY <2>2 DEF Differ, Names
  <2>4. ~Used(b, D, V, f)
    <3>1. \A d \in s.clients : d.ctl # f
      BY <1>3, <1>10, <1>14 DEF ClientAt
    <3>2. ~CtlUse(b, D, f)
      BY <3>1, <1>3, <1>5 DEF CtlUse
    <3>3. ~VtUse(b, V, f) /\ ~CliUse(b, f)
      BY <1>3 DEF VtUse, CliUse, IsNoted
    <3> QED BY <3>2, <3>3 DEF Used
  <2>5. ~Used(t, D \union E, V, f)
    BY <2>4, <1>11 DEF GrowsBy
  <2>6. Unused(u, D \union E, V, {f})
    BY <2>3, <2>5 DEF Unused, Used, CtlUse, VtUse, CliUse, IsNoted
  <2>7. Fewer(t, u, {f})
    BY <2>2, <2>3 DEF Fewer
  <2>8. {f} \intersect t.toAdd = {}
    BY <1>3, <1>10
  <2>9. Good(u, D \union E, V, K)
    BY <1>12, <2>6, <2>7, <2>8, FewerGood
  <2>10. Passed(s, u)
    BY <1>13, <2>3 DEF Passed
  <2> QED BY <2>1, <2>9, <2>10
<1>15. CASE ClientAt(t, f) # {}
  <2> DEFINE u == Removed(t, c, parked)
  <2>1. u = CtlGone(s, f, parked)
    BY <1>9, <1>15
  <2>2. c \in t.clients
    BY <1>15 DEF ClientAt
  <2>3. PodFds(t, parked) \intersect t.toAdd = {}
    BY <1>3, <1>10
  <2> HIDE DEF c
  <2>4. Grows(t, u, D \union E, V, K)
    BY <1>12, <2>2, <2>3, RemovedGrows
  <2> HIDE DEF u
  <2>5. PICK F \in SUBSET Entry : GrowsBy(t, u, D \union E, V, K, F)
    BY <2>4 DEF Grows
  <2>6. Good(u, (D \union E) \union F, V, K)
    BY <2>5 DEF GrowsBy
  <2>7. (D \union E) \union F = D \union (E \union F) /\ E \union F \in SUBSET Entry
    OBVIOUS
  <2>8. Passed(s, u)
    BY <1>13, <2>5 DEF Passed, GrowsBy
  <2> QED BY <2>1, <2>6, <2>7, <2>8
<1> QED BY <1>14, <1>15

\* ... and of any entry.
LEMMA CtlEntryDoneGood ==
  ASSUME NEW s, NEW C, NEW V, NEW K, Good(s, C, V, K), NEW e \in C,
         NEW D \in SUBSET C, \A d \in D : d.fd # e.fd,
         s.toAdd = {}, NEW parked \in SUBSET Panes
  PROVE  Good(CtlEntryDone(s, e, parked), D, V, K) /\ Passed(s, CtlEntryDone(s, e, parked))
<1> DEFINE f == e.fd
           t == CtlDisarmed(s, f)
<1>1. s \in Store /\ e \in Entry /\ f \in Fds
  BY DEF Good, Typed, Entry
<1>2. CASE e.node # None /\ s.ctlWatch[f] # e.node
  <2>1. CtlEntryDone(s, e, parked) = s
    BY <1>2 DEF CtlEntryDone
  <2> QED BY <2>1, PendingGood DEF Passed
<1>3. CASE ~(e.node # None /\ s.ctlWatch[f] # e.node)
  <2>1. /\ t \in Store
        /\ Differ(s, t, {"ctlWatch"})
        /\ t.ctlWatch = [s.ctlWatch EXCEPT ![f] = None]
    BY <1>1, CtlDisarmedIs
  <2>2. CtlEntryDone(s, e, parked) =
          IF IsNoted(s, f) THEN t
          ELSE CtlGone(Harmed(t, "foreign close", e.whose # s.open[f]), f, parked)
    BY <1>3 DEF CtlEntryDone
  <2> HIDE DEF t
  <2>3. /\ t.open = s.open /\ t.clients = s.clients /\ t.pod = s.pod /\ t.podWho = s.podWho
        /\ t.noted = s.noted /\ t.notedBefore = s.notedBefore
        /\ t.toRemove = s.toRemove /\ t.toAdd = s.toAdd
        /\ t.waiters = s.waiters /\ t.vtWatch = s.vtWatch /\ t.vtHalf = s.vtHalf
        /\ t.ctlClose = s.ctlClose /\ t.vtClose = s.vtClose /\ t.harm = s.harm
        /\ t.ctlHalf = s.ctlHalf /\ t.outq = s.outq /\ t.unregistered = s.unregistered
    BY <2>1 DEF Differ, Names
  <2>4. s.ctlWatch \in [Fds -> Conns \union {None}]
    BY <1>1 DEF Store
  <2>5. Below(s, t) /\ t.ctlWatch[f] = None
    BY <2>1, <2>3, <2>4, <1>1 DEF Below
  <2>6. Good(t, D, V, K)
    BY <2>3, <2>5, BelowGood DEF Good
  <2>7. Passed(s, t)
    BY <2>3 DEF Passed
  <2>8. CASE IsNoted(s, f)
    BY <2>2, <2>6, <2>7, <2>8
  <2>9. CASE ~IsNoted(s, f)
    <3>1. e.whose = s.open[f]
      BY <2>9 DEF Good, Due
    <3>2. CtlEntryDone(s, e, parked) = CtlGone(t, f, parked)
      BY <2>2, <2>9, <3>1 DEF Harmed
    <3>3. ~VtUse(s, V, f) /\ ~CliUse(s, f)
      BY <2>9, <1>1 DEF Good, OneUse, CtlUse
    <3>4. ~VtUse(t, V, f) /\ ~CliUse(t, f)
      BY <3>3, <2>3 DEF VtUse, CliUse, IsNoted
    <3>5. /\ \E E \in SUBSET Entry : Good(CtlGone(t, f, parked), D \union E, V, K)
          /\ Passed(t, CtlGone(t, f, parked))
      BY <1>1, <2>3, <2>5, <2>6, <3>4, CtlGoneGood
    <3>6. Good(CtlGone(t, f, parked), D, V, K)
      BY <3>5, PendingGood
    <3>7. Passed(s, CtlGone(t, f, parked))
      BY <2>3, <3>5 DEF Passed
    <3> QED BY <3>2, <3>6, <3>7
  <2> QED BY <2>8, <2>9
<1> QED BY <1>2, <1>3

\* removePodVtFd, removeMuxVtFd
LEMMA VtForgottenGood ==
  ASSUME NEW s, NEW C, NEW V, NEW K, Good(s, C, V, K), NEW f \in Fds, s.toAdd = {}
  PROVE  /\ Good(VtForgotten(s, f), C, V, K)
         /\ Differ(s, VtForgotten(s, f), {"pod", "podWho", "clients"})
         /\ \A p \in Panes : VtForgotten(s, f).pod[p] # f
         /\ \A c \in VtForgotten(s, f).clients : c.vt # f
         /\ \A g \in Fds : CtlUse(VtForgotten(s, f), C, g) => CtlUse(s, C, g)
<1> DEFINE t == VtForgotten(s, f)
<1>1. s \in Store
  BY DEF Good, Typed
<1>2. /\ t \in Store
      /\ Differ(s, t, {"pod", "podWho", "clients"})
      /\ t.pod = [p \in Panes |-> IF s.pod[p] = f THEN None ELSE s.pod[p]]
      /\ t.podWho = [p \in Panes |-> IF s.pod[p] = f THEN None ELSE s.podWho[p]]
      /\ t.clients = {IF c.vt = f THEN Unrouted(c) ELSE c : c \in s.clients}
  BY <1>1, VtForgottenIs
<1> HIDE DEF t
<1>3. /\ t.open = s.open /\ t.ctlWatch = s.ctlWatch /\ t.vtWatch = s.vtWatch
      /\ t.ctlHalf = s.ctlHalf /\ t.vtHalf = s.vtHalf /\ t.outq = s.outq
      /\ t.unregistered = s.unregistered /\ t.waiters = s.waiters
      /\ t.noted = s.noted /\ t.notedBefore = s.notedBefore
      /\ t.toRemove = s.toRemove /\ t.toAdd = s.toAdd /\ t.harm = s.harm
  BY <1>2 DEF Differ, Names
<1>4. None # f
  BY DEF Fds, None
<1>5. ASSUME NEW d \in t.clients
      PROVE  \E c \in s.clients : /\ d.ctl = c.ctl /\ d.who = c.who
                                  /\ d.vt # f
                                  /\ d.vt # None => d = c
                                  /\ (d = IF c.vt = f THEN Unrouted(c) ELSE c)
  <2>1. PICK c \in s.clients : d = IF c.vt = f THEN Unrouted(c) ELSE c
    BY <1>2
  <2>2. CASE c.vt = f
    <3>1. d.ctl = c.ctl /\ d.who = c.who /\ d.vt = None
      BY <2>1, <2>2 DEF Unrouted
    <3> QED BY <2>1, <3>1, <1>4
  <2>3. CASE c.vt # f
    BY <2>1, <2>3
  <2> QED BY <2>2, <2>3
<1>6. \A p \in Panes : t.pod[p] # f /\ (t.pod[p] # None => t.pod[p] = s.pod[p] /\ t.podWho[p] = s.podWho[p])
  BY <1>2, <1>4
<1>7. ASSUME NEW g \in Fds
      PROVE  /\ CtlUse(t, C, g) => CtlUse(s, C, g)
             /\ VtUse(t, V, g) => VtUse(s, V, g)
             /\ CliUse(t, g) => CliUse(s, g)
  <2>1. CtlUse(t, C, g) => CtlUse(s, C, g)
    BY <1>3, <1>5 DEF CtlUse, IsNoted
  <2>2. g # None
    BY DEF Fds, None
  <2>3. (\E d \in t.clients : d.vt = g) => \E c \in s.clients : c.vt = g
    BY <2>2, <1>5
  <2>4. (\E p \in Panes : t.pod[p] = g) => \E p \in Panes : s.pod[p] = g
    BY <2>2, <1>6
  <2>5. VtUse(t, V, g) => VtUse(s, V, g)
    BY <1>3, <2>3, <2>4 DEF VtUse, IsNoted
  <2>6. CliUse(t, g) => CliUse(s, g)
    BY <1>3 DEF CliUse
  <2> QED BY <2>1, <2>5, <2>6
<1>8. Typed(t, C, V, K)
  BY <1>2, <1>3 DEF Good, Typed
<1>9. Agree(t)
  <2>1. ASSUME NEW d \in t.clients PROVE t.open[d.ctl] = d.who /\ (d.vt # None => t.open[d.vt] = d.vtWho)
    <3>1. PICK c \in s.clients : d.ctl = c.ctl /\ d.who = c.who /\ (d.vt # None => d = c)
      BY <1>5
    <3> QED BY <3>1, <1>3 DEF Good, Agree
  <2>2. \A w \in t.waiters : t.open[w.fd] = w.whose
    BY <1>3 DEF Good, Agree
  <2>3. \A p \in Panes : t.pod[p] # None => t.open[t.pod[p]] = t.podWho[p]
    BY <1>3, <1>6 DEF Good, Agree
  <2> QED BY <2>1, <2>2, <2>3 DEF Agree
<1>10. Apart(t)
  <2>1. ASSUME NEW d \in t.clients, NEW e \in t.clients, d.ctl = e.ctl PROVE d = e
    <3>1. PICK c \in s.clients : d.ctl = c.ctl /\ (d = IF c.vt = f THEN Unrouted(c) ELSE c)
      BY <1>5
    <3>2. PICK b \in s.clients : e.ctl = b.ctl /\ (e = IF b.vt = f THEN Unrouted(b) ELSE b)
      BY <1>5
    <3>3. c = b
      BY <2>1, <3>1, <3>2 DEF Good, Apart
    <3> QED BY <3>1, <3>2, <3>3
  <2>2. ASSUME NEW d \in t.clients, NEW e \in t.clients, d.vt = e.vt, d.vt # None PROVE d = e
    BY <2>2, <1>5 DEF Good, Apart
  <2>3. ASSUME NEW d \in t.clients, NEW p \in Panes, d.vt = t.pod[p], d.vt # None PROVE FALSE
    <3>1. d \in s.clients /\ d.vt = s.pod[p]
      BY <2>3, <1>5, <1>6
    <3> QED BY <3>1, <2>3 DEF Good, Apart
  <2>4. \A p, q \in Panes : t.pod[p] = t.pod[q] /\ t.pod[p] # None => p = q
    BY <1>6 DEF Good, Apart
  <2>5. \A v, w \in t.waiters : v.fd = w.fd => v = w
    BY <1>3 DEF Good, Apart
  <2> QED BY <2>1, <2>2, <2>3, <2>4, <2>5 DEF Apart
<1>11. UsedIsOpen(t, C, V) /\ OneUse(t, C, V)
  BY <1>3, <1>7 DEF Good, UsedIsOpen, OneUse
<1>12. Own(t) /\ Stale(t) /\ Due(t, C) /\ Due(t, V)
  BY <1>3 DEF Good, Own, Stale, Due, IsNoted
<1>13. Good(t, C, V, K)
  BY <1>3, <1>8, <1>9, <1>10, <1>11, <1>12 DEF Good
<1>14. \A p \in Panes : t.pod[p] # f
  BY <1>6
<1>15. \A c \in t.clients : c.vt # f
  BY <1>5
<1> QED BY <1>2, <1>7, <1>13, <1>14, <1>15 DEF t

\* processPendingVtCloses
LEMMA VtEntryDoneGood ==
  ASSUME NEW s, NEW C, NEW V, NEW K, Good(s, C, V, K), NEW e \in V,
         NEW W \in SUBSET V, \A d \in W : d.fd # e.fd, s.toAdd = {}
  PROVE  /\ Good(VtEntryDone(s, e), C, W, K)
         /\ Differ(s, VtEntryDone(s, e), {"vtWatch", "vtHalf", "pod", "podWho", "clients", "open"})
<1> DEFINE f == e.fd
           t == VtDisarmed(s, f)
<1>1. s \in Store /\ e \in Entry /\ f \in Fds
  BY DEF Good, Typed, Entry
<1>2. CASE e.node # None /\ s.vtWatch[f] # e.node
  <2>1. VtEntryDone(s, e) = s
    BY <1>2 DEF VtEntryDone
  <2> QED BY <2>1, PendingGood DEF Differ
<1>3. CASE ~(e.node # None /\ s.vtWatch[f] # e.node)
  <2>1. /\ t \in Store
        /\ Differ(s, t, {"vtWatch"})
        /\ t.vtWatch = [s.vtWatch EXCEPT ![f] = None]
    BY <1>1, VtDisarmedIs
  <2>2. VtEntryDone(s, e) =
          IF IsNoted(s, f) THEN t
          ELSE VtGone(Harmed(t, "foreign close", e.whose # s.open[f]), f)
    BY <1>3 DEF VtEntryDone
  <2> HIDE DEF t
  <2>3. /\ t.open = s.open /\ t.clients = s.clients /\ t.pod = s.pod /\ t.podWho = s.podWho
        /\ t.noted = s.noted /\ t.notedBefore = s.notedBefore
        /\ t.toRemove = s.toRemove /\ t.toAdd = s.toAdd
        /\ t.waiters = s.waiters /\ t.ctlWatch = s.ctlWatch /\ t.ctlHalf = s.ctlHalf
        /\ t.ctlClose = s.ctlClose /\ t.vtClose = s.vtClose /\ t.harm = s.harm
        /\ t.vtHalf = s.vtHalf /\ t.outq = s.outq /\ t.unregistered = s.unregistered
    BY <2>1 DEF Differ, Names
  <2>4. s.vtWatch \in [Fds -> Conns \union {None}]
    BY <1>1 DEF Store
  <2>5. Below(s, t) /\ t.vtWatch[f] = None
    BY <2>1, <2>3, <2>4, <1>1 DEF Below
  <2>6. Good(t, C, W, K)
    BY <2>3, <2>5, BelowGood DEF Good
  <2>7. CASE IsNoted(s, f)
    BY <2>1, <2>2, <2>6, <2>7 DEF Differ
  <2>8. CASE ~IsNoted(s, f)
    <3> DEFINE a == VtForgotten(t, f)
               b == VtDropped(a, f)
               u == Closed(b, {f})
    <3>1. e.whose = s.open[f]
      BY <2>8 DEF Good, Due
    <3>2. VtEntryDone(s, e) = u
      BY <2>2, <2>8, <3>1 DEF Harmed, VtGone
    <3>3. ~CtlUse(s, C, f) /\ ~CliUse(s, f)
      BY <2>8, <1>1 DEF Good, OneUse, VtUse
    <3>4. ~CtlUse(t, C, f)
      BY <3>3, <2>3 DEF CtlUse, IsNoted
    <3>5. /\ Good(a, C, W, K)
          /\ Differ(t, a, {"pod", "podWho", "clients"})
          /\ \A p \in Panes : a.pod[p] # f
          /\ \A c \in a.clients : c.vt # f
          /\ CtlUse(a, C, f) => CtlUse(t, C, f)
      BY <1>1, <2>3, <2>6, VtForgottenGood
    <3> HIDE DEF a
    <3>6. a \in Store
      BY <3>5 DEF Good, Typed
    <3>7. b \in Store /\ Differ(a, b, {"vtHalf"}) /\ b.vtHalf = [a.vtHalf EXCEPT ![f] = {}]
      BY <1>1, <3>6, VtDroppedIs
    <3> HIDE DEF b
    <3>8. /\ u \in Store
          /\ Differ(b, u, {"open"})
          /\ u.open = [g \in Fds |-> IF g \in {f} THEN None ELSE b.open[g]]
      BY <1>1, <3>7, ClosedIs
    <3> HIDE DEF u
    <3>9. /\ b.open = a.open /\ b.clients = a.clients /\ b.pod = a.pod /\ b.podWho = a.podWho
          /\ b.noted = a.noted /\ b.notedBefore = a.notedBefore
          /\ b.toRemove = a.toRemove /\ b.toAdd = a.toAdd
          /\ b.waiters = a.waiters /\ b.ctlWatch = a.ctlWatch /\ b.ctlHalf = a.ctlHalf
          /\ b.harm = a.harm /\ b.vtWatch = a.vtWatch /\ b.outq = a.outq /\ b.unregistered = a.unregistered
      BY <3>7 DEF Differ, Names
    <3>10. a.vtHalf \in [Fds -> SUBSET Conns]
      BY <3>6 DEF Store
    <3>11. Below(a, b) /\ b.vtHalf[f] = {}
      BY <3>7, <3>9, <3>10, <1>1 DEF Below
    <3>12. Good(b, C, W, K)
      BY <3>5, <3>9, <3>11, BelowGood DEF Good
    <3>13. /\ u.clients = b.clients /\ u.pod = b.pod /\ u.podWho = b.podWho
           /\ u.noted = b.noted /\ u.notedBefore = b.notedBefore
           /\ u.toRemove = b.toRemove /\ u.toAdd = b.toAdd /\ u.vtHalf = b.vtHalf
           /\ u.waiters = b.waiters /\ u.ctlWatch = b.ctlWatch /\ u.ctlHalf = b.ctlHalf
           /\ u.harm = b.harm /\ u.vtWatch = b.vtWatch /\ u.outq = b.outq /\ u.unregistered = b.unregistered
      BY <3>8 DEF Differ, Names
    <3>14. a.vtWatch = t.vtWatch /\ a.waiters = t.waiters /\ a.toAdd = t.toAdd
      BY <3>5 DEF Differ, Names
    <3>15. Unused(u, C, W, {f})
      <4>1. ~CtlUse(u, C, f)
        BY <3>4, <3>5, <3>9, <3>13 DEF CtlUse, IsNoted
      <4>2. ~VtUse(u, W, f)
        BY <2>5, <3>5, <3>9, <3>11, <3>13, <3>14 DEF VtUse
      <4>3. ~CliUse(u, f)
        BY <3>3, <2>3, <3>9, <3>13, <3>14 DEF CliUse
      <4> QED BY <4>1, <4>2, <4>3 DEF Unused
    <3>16. Fewer(b, u, {f})
      BY <1>1, <3>8, <3>13 DEF Fewer
    <3>17. {f} \intersect b.toAdd = {}
      BY <2>3, <3>9, <3>14
    <3>18. Good(u, C, W, K)
      BY <3>12, <3>15, <3>16, <3>17, FewerGood
    <3>19. Differ(s, u, {"vtWatch", "vtHalf", "pod", "podWho", "clients", "open"})
      BY <2>1, <3>5, <3>7, <3>8 DEF Differ
    <3> QED BY <3>2, <3>18, <3>19
  <2> QED BY <2>7, <2>8
<1> QED BY <1>2, <1>3

-----------------------------------------------------------------------------
(* The tables between two steps                                            *)

\* The tables as a handler finds and leaves them.
Fit(s, K) ==
  /\ Good(s, Range(s.ctlClose), Range(s.vtClose), K)
  /\ Distinct(s.ctlClose)
  /\ Distinct(s.vtClose)

\* What f may be used as.
IsCtl(s, f) == CtlMay(s, Range(s.vtClose), f)
IsVt(s, f) == VtMay(s, Range(s.ctlClose), f)
IsFresh(s, f) == Fresh(s, Range(s.ctlClose), Range(s.vtClose), f)

\* Nothing but an entry that is listed.
OnlyListed(s, f) ==
  /\ IsCtl(s, f)
  /\ s.ctlWatch[f] = None /\ s.ctlHalf[f] = {} /\ s.outq[f] = {}
  /\ f \notin s.unregistered
  /\ \A c \in s.clients : c.ctl # f

LEMMA FitStore == ASSUME NEW s, NEW K, Fit(s, K) PROVE s \in Store
BY DEF Fit, Good, Typed

\* What the lemmas about Good say of the tables between two steps.
LEMMA GrowsFit ==
  ASSUME NEW s, NEW t, NEW K, Fit(s, K),
         Grows(s, t, Range(s.ctlClose), Range(s.vtClose), K)
  PROVE  /\ Fit(t, K)
         /\ \A f \in Fds : IsFresh(s, f) => IsFresh(t, f)
         /\ t.toAdd = s.toAdd
<1> DEFINE C == Range(s.ctlClose)
           V == Range(s.vtClose)
<1>1. PICK E \in SUBSET Entry : GrowsBy(s, t, C, V, K, E)
  BY DEF Grows
<1>2. /\ Good(t, C \union E, V, K)
      /\ t.vtClose = s.vtClose /\ t.toAdd = s.toAdd
      /\ Distinct(s.ctlClose) => Distinct(t.ctlClose)
      /\ Range(t.ctlClose) \subseteq C \union E
      /\ \A f \in Fds : ~Used(s, C, V, f) => t.open[f] = s.open[f] /\ ~Used(t, C \union E, V, f)
  BY <1>1 DEF GrowsBy
<1>3. Good(t, Range(t.ctlClose), Range(t.vtClose), K)
  BY <1>2, PendingGood
<1>4. Fit(t, K)
  BY <1>2, <1>3 DEF Fit
<1>5. \A f \in Fds : CtlUse(t, Range(t.ctlClose), f) => CtlUse(t, C \union E, f)
  BY <1>2 DEF CtlUse
<1>6. \A f \in Fds : IsFresh(s, f) => IsFresh(t, f)
  BY <1>2, <1>5 DEF IsFresh, Fresh, Used
<1> QED BY <1>2, <1>4, <1>6

LEMMA BelowFit ==
  ASSUME NEW s, NEW t, NEW K, Fit(s, K), Below(s, t), t.harm \intersect Averted = {},
         t.ctlClose = s.ctlClose, t.vtClose = s.vtClose
  PROVE  Fit(t, K)
<1>1. Good(t, Range(s.ctlClose), Range(s.vtClose), K)
  BY BelowGood DEF Fit
<1> QED BY <1>1 DEF Fit

\* A number that is noted, or in use in this way, can be listed.
LEMMA CtlListedFit ==
  ASSUME NEW s, NEW K, Fit(s, K), NEW f \in Fds, NEW node \in Conns \union {None},
         IsNoted(s, f) \/ (IsCtl(s, f) /\ node \in {None, s.open[f]})
  PROVE  /\ Fit(CtlListed(s, f, node), K)
         /\ Differ(s, CtlListed(s, f, node), {"ctlClose"})
         /\ Range(CtlListed(s, f, node).ctlClose) \subseteq
              Range(s.ctlClose) \union {EntryOf(s, f, node)}
<1> DEFINE t == CtlListed(s, f, node)
           e == EntryOf(s, f, node)
           C == Range(s.ctlClose)
           V == Range(s.vtClose)
<1>1. s \in Store /\ s.ctlClose \in Seq(Entry)
  BY FitStore DEF Store
<1>2. t \in Store /\ Differ(s, t, {"ctlClose"}) /\ t.ctlClose = Listed(s.ctlClose, e)
  BY <1>1, CtlListedIs
<1>3. e \in Entry /\ e.fd = f /\ e.node = node /\ (e.whose = IF node = None THEN s.open[f] ELSE node)
  BY <1>1, EntryOfIs
<1> HIDE DEF t, e
<1>4. /\ \/ Range(t.ctlClose) = C /\ \E x \in C : x.fd = f
         \/ Range(t.ctlClose) = C \union {e} /\ \A x \in C : x.fd # f
      /\ Distinct(s.ctlClose) => Distinct(t.ctlClose)
  <2> DEFINE old == s.ctlClose
  <2> HIDE DEF old
  <2>1. /\ \/ Range(Listed(old, e)) = Range(old) /\ \E x \in Range(old) : x.fd = e.fd
           \/ /\ Range(Listed(old, e)) = Range(old) \union {e}
              /\ \A x \in Range(old) : x.fd # e.fd
        /\ Distinct(old) => Distinct(Listed(old, e))
    <3>1. old \in Seq(Entry)
      BY <1>1 DEF old
    <3> QED BY <3>1, <1>3, ListedIs
  <2> QED BY <1>2, <1>3, <2>1 DEF old
<1>5. ListOnly(s, t) /\ t.vtClose = s.vtClose
  BY <1>2 DEF ListOnly, Differ, Names
<1>6. Good(t, Range(t.ctlClose), V, K)
  <2>1. CASE Range(t.ctlClose) = C
    BY <2>1, <1>5, ListOnlyGood DEF Fit
  <2>2. CASE Range(t.ctlClose) = C \union {e} /\ \A x \in C : x.fd # f
    <3>1. {e} \in SUBSET Entry
      BY <1>3
    <3>2. \A d \in {e} : IsNoted(s, d.fd) \/ (/\ CtlMay(s, V, d.fd)
                                              /\ d.whose = s.open[d.fd]
                                              /\ \A x \in C \union {e} : x.fd = d.fd => x = d)
      BY <2>2, <1>3 DEF IsCtl
    <3>3. Good(s, C \union {e}, V, K)
      BY <3>1, <3>2, CtlDueGood DEF Fit
    <3> QED BY <2>2, <3>3, <1>5, ListOnlyGood
  <2> QED BY <1>4, <2>1, <2>2
<1>7. Fit(t, K)
  BY <1>4, <1>5, <1>6 DEF Fit
<1>8. Range(t.ctlClose) \subseteq C \union {e}
  BY <1>4
<1> QED BY <1>2, <1>7, <1>8 DEF t, e

LEMMA VtListedFit ==
  ASSUME NEW s, NEW K, Fit(s, K), NEW f \in Fds, NEW node \in Conns \union {None},
         IsNoted(s, f) \/ (IsVt(s, f) /\ node \in {None, s.open[f]})
  PROVE  /\ Fit(VtListed(s, f, node), K)
         /\ Differ(s, VtListed(s, f, node), {"vtClose"})
         /\ Range(VtListed(s, f, node).vtClose) \subseteq
              Range(s.vtClose) \union {EntryOf(s, f, node)}
<1> DEFINE t == VtListed(s, f, node)
           e == EntryOf(s, f, node)
           C == Range(s.ctlClose)
           V == Range(s.vtClose)
<1>1. s \in Store /\ s.vtClose \in Seq(Entry)
  BY FitStore DEF Store
<1>2. t \in Store /\ Differ(s, t, {"vtClose"}) /\ t.vtClose = Listed(s.vtClose, e)
  BY <1>1, VtListedIs
<1>3. e \in Entry /\ e.fd = f /\ e.node = node /\ (e.whose = IF node = None THEN s.open[f] ELSE node)
  BY <1>1, EntryOfIs
<1> HIDE DEF t, e
<1>4. /\ \/ Range(t.vtClose) = V /\ \E x \in V : x.fd = f
         \/ Range(t.vtClose) = V \union {e} /\ \A x \in V : x.fd # f
      /\ Distinct(s.vtClose) => Distinct(t.vtClose)
  <2> DEFINE old == s.vtClose
  <2> HIDE DEF old
  <2>1. /\ \/ Range(Listed(old, e)) = Range(old) /\ \E x \in Range(old) : x.fd = e.fd
           \/ /\ Range(Listed(old, e)) = Range(old) \union {e}
              /\ \A x \in Range(old) : x.fd # e.fd
        /\ Distinct(old) => Distinct(Listed(old, e))
    <3>1. old \in Seq(Entry)
      BY <1>1 DEF old
    <3> QED BY <3>1, <1>3, ListedIs
  <2> QED BY <1>2, <1>3, <2>1 DEF old
<1>5. ListOnly(s, t) /\ t.ctlClose = s.ctlClose
  BY <1>2 DEF ListOnly, Differ, Names
<1>6. Good(t, C, Range(t.vtClose), K)
  <2>1. CASE Range(t.vtClose) = V
    BY <2>1, <1>5, ListOnlyGood DEF Fit
  <2>2. CASE Range(t.vtClose) = V \union {e} /\ \A x \in V : x.fd # f
    <3>1. {e} \in SUBSET Entry
      BY <1>3
    <3>2. \A d \in {e} : IsNoted(s, d.fd) \/ (/\ VtMay(s, C, d.fd)
                                              /\ d.whose = s.open[d.fd]
                                              /\ \A x \in V \union {e} : x.fd = d.fd => x = d)
      BY <2>2, <1>3 DEF IsVt
    <3>3. Good(s, C, V \union {e}, K)
      BY <3>1, <3>2, VtDueGood DEF Fit
    <3> QED BY <2>2, <3>3, <1>5, ListOnlyGood
  <2> QED BY <1>4, <2>1, <2>2
<1>7. Fit(t, K)
  BY <1>4, <1>5, <1>6 DEF Fit
<1>8. Range(t.vtClose) \subseteq V \union {e}
  BY <1>4
<1> QED BY <1>2, <1>7, <1>8 DEF t, e

LEMMA CtlMoreFit ==
  ASSUME NEW s, NEW t, NEW K, Fit(s, K), NEW f, IsCtl(s, f), CtlMore(s, t, f)
  PROVE  Fit(t, K)
<1>1. Good(t, Range(s.ctlClose), Range(s.vtClose), K)
  BY CtlMoreGood DEF Fit, IsCtl
<1>2. t.ctlClose = s.ctlClose /\ t.vtClose = s.vtClose
  BY DEF CtlMore, Differ, Names
<1> QED BY <1>1, <1>2 DEF Fit

Outcomes == {"sent", "fails", "stays"}

\* A reply lists the number or leaves bytes in its queue.
LEMMA RepliedFit ==
  ASSUME NEW s, NEW K, Fit(s, K), NEW f \in Fds, IsCtl(s, f), NEW o \in Outcomes
  PROVE  /\ Fit(Replied(s, f, o), K)
         /\ Differ(s, Replied(s, f, o), {"outq", "ctlClose"})
         /\ OnlyListed(s, f) /\ o # "stays" => OnlyListed(Replied(s, f, o), f)
         /\ s.outq[f] = {} /\ o = "sent" => Replied(s, f, o) = s
<1>1. s \in Store
  BY FitStore
<1>2. CASE o = "fails"
  <2>1. Replied(s, f, o) = CtlListed(s, f, None)
    BY <1>2 DEF Replied
  <2>2. /\ Fit(CtlListed(s, f, None), K)
        /\ Differ(s, CtlListed(s, f, None), {"ctlClose"})
    BY CtlListedFit
  <2> DEFINE t == CtlListed(s, f, None)
  <2> HIDE DEF t
  <2>3. OnlyListed(s, f) => OnlyListed(t, f)
    BY <2>2 DEF OnlyListed, IsCtl, CtlMay, VtUse, CliUse, IsNoted, Differ, Names, t
  <2> QED BY <1>2, <2>1, <2>2, <2>3 DEF Differ, t
<1> DEFINE t == [s EXCEPT !.outq[f] = s.outq[f] \union {s.open[f]}]
<1>3. s.open[f] \in Conns /\ s.outq[f] \in SUBSET Conns /\ s.outq[f] \subseteq {s.open[f]}
  BY <1>1 DEF Fit, Good, Own, Store, IsCtl, CtlMay
<1>4. s.outq[f] \union {s.open[f]} \in SUBSET Conns
  BY <1>3
<1>5. /\ t \in Store
      /\ Differ(s, t, {"outq"})
      /\ t.outq = [s.outq EXCEPT ![f] = s.outq[f] \union {s.open[f]}]
  BY <1>1, <1>4, OutqSetIs
<1>6. o = "stays" => Replied(s, f, o) = t
  BY DEF Replied
<1>7. o = "sent" => Replied(s, f, o) = IF s.outq[f] = {} THEN s ELSE t
  BY DEF Replied
<1> HIDE DEF t
<1>8. /\ t.ctlHalf = s.ctlHalf /\ t.ctlWatch = s.ctlWatch /\ t.unregistered = s.unregistered
  BY <1>5 DEF Differ, Names
<1>9. s.outq \in [Fds -> SUBSET Conns]
  BY <1>1 DEF Store
<1>10. t.outq[f] \subseteq {s.open[f]} /\ \A g \in Fds \ {f} : t.outq[g] = s.outq[g]
  BY <1>3, <1>5, <1>9
<1>11. s.ctlWatch[f] \in {None, s.open[f]} /\ s.ctlHalf[f] \subseteq {s.open[f]}
  BY DEF Fit, Good, Own
<1>12. Differ(s, t, {"ctlWatch", "ctlHalf", "outq", "unregistered"})
  BY <1>5 DEF Differ
<1>13. CtlMore(s, t, f)
  BY <1>5, <1>8, <1>10, <1>11, <1>12 DEF CtlMore
<1>14. Fit(t, K)
  BY <1>13, CtlMoreFit
<1>15. Differ(s, t, {"outq", "ctlClose"}) /\ Differ(s, s, {"outq", "ctlClose"})
  BY <1>5 DEF Differ
<1>16. CASE o = "stays"
  BY <1>6, <1>14, <1>15, <1>16
<1>17. CASE o = "sent"
  BY <1>7, <1>14, <1>15, <1>17 DEF OnlyListed
<1> QED BY <1>2, <1>16, <1>17 DEF Outcomes

\* A connection comes: nothing is kept under its number.
LEMMA AcceptedFit ==
  ASSUME NEW s, NEW K, Fit(s, K), next \in Conns, next \notin K,
         \E f \in Fds : s.open[f] = None
  PROVE  /\ Fit(Accepted(s), K \union {next})
         /\ LowestFree(s) \in Fds
         /\ IsFresh(Accepted(s), LowestFree(s))
         /\ Accepted(s).open[LowestFree(s)] = next
         /\ Accepted(s).toRemove = {} /\ Accepted(s).toAdd = {}
<1> DEFINE f == LowestFree(s)
           a == Opened(s, next)
           b == Disarmed(a)
           t == Armed(b)
           C == Range(s.ctlClose)
           V == Range(s.vtClose)
           L == K \union {next}
<1>1. f \in Fds /\ s.open[f] = None
  BY LowestFreeIs
<1>2. s \in Store
  BY FitStore
<1>3. a \in Store /\ Differ(s, a, {"open"}) /\ a.open = [s.open EXCEPT ![f] = next]
  BY <1>1, <1>2, OpenedIs
<1>4. t = Accepted(s)
  BY DEF Accepted, Updated
<1> HIDE DEF a
<1>5. Good(a, C, V, L) /\ Fresh(a, C, V, f)
  BY <1>1, <1>3, OpenedGood DEF Fit
<1>6. Good(b, C, V, L) /\ Fresh(b, C, V, f)
  BY <1>1, <1>5, DisarmedGood
<1>7. /\ b.toRemove = {}
      /\ Differ(a, b, {"ctlWatch", "vtWatch", "ctlHalf", "vtHalf", "outq", "unregistered", "toRemove"})
      /\ b \in Store
  BY <1>3, DisarmedIs
<1> HIDE DEF b
<1>8. Good(t, C, V, L) /\ Fresh(t, C, V, f)
  BY <1>1, <1>6, <1>7, ArmedGood
<1>9. t.toAdd = {} /\ Differ(b, t, {"vtWatch", "pod", "toAdd"})
  BY <1>7, ArmedIs
<1> HIDE DEF t
<1>10. /\ t.toRemove = {} /\ t.open = a.open
       /\ t.ctlClose = s.ctlClose /\ t.vtClose = s.vtClose
  BY <1>3, <1>7, <1>9 DEF Differ, Names
<1>11. t.open[f] = next
  BY <1>1, <1>2, <1>3, <1>10 DEF Store
<1>12. Fit(t, L) /\ IsFresh(t, f)
  BY <1>8, <1>10 DEF Fit, IsFresh
<1> QED BY <1>1, <1>4, <1>9, <1>10, <1>11, <1>12

LEMMA IsCtlSame ==
  ASSUME NEW s, NEW t, NEW f, IsCtl(s, f),
         Differ(s, t, {"ctlWatch", "ctlHalf", "outq", "unregistered", "ctlClose", "harm"})
  PROVE  IsCtl(t, f)
<1>1. /\ t.open = s.open /\ t.vtWatch = s.vtWatch /\ t.vtHalf = s.vtHalf
      /\ t.clients = s.clients /\ t.waiters = s.waiters /\ t.pod = s.pod
      /\ t.noted = s.noted /\ t.notedBefore = s.notedBefore
      /\ t.toRemove = s.toRemove /\ t.vtClose = s.vtClose
  BY DEF Differ, Names
<1> QED BY <1>1 DEF IsCtl, CtlMay, VtUse, CliUse, IsNoted

\* What uses a number may go on to use it.
LEMMA IsCtlUse ==
  ASSUME NEW s, NEW K, Fit(s, K), NEW f \in Fds,
         s.ctlWatch[f] # None \/ f \in s.unregistered \/ \E c \in s.clients : c.ctl = f
  PROVE  IsCtl(s, f) /\ s.ctlWatch[f] \in {None, s.open[f]}
<1>1. CtlUse(s, Range(s.ctlClose), f)
  BY DEF CtlUse
<1>2. IsCtl(s, f)
  BY <1>1, UsesMay DEF Fit, IsCtl
<1> QED BY <1>2 DEF Fit, Good, Own

LEMMA IsVtUse ==
  ASSUME NEW s, NEW K, Fit(s, K), NEW f \in Fds,
         (\E c \in s.clients : c.vt = f) \/ (\E p \in Panes : s.pod[p] = f)
  PROVE  IsVt(s, f)
<1>1. VtUse(s, Range(s.vtClose), f)
  BY DEF VtUse
<1> QED BY <1>1, UsesMay DEF Fit, IsVt

\* Reading on from a half.
LEMMA CtlReadOnFit ==
  ASSUME NEW s, NEW K, Fit(s, K), NEW f \in Fds
  PROVE  /\ Fit(CtlReadOn(s, f), K)
         /\ Differ(s, CtlReadOn(s, f), {"ctlHalf"})
         /\ CtlReadOn(s, f).ctlHalf = [s.ctlHalf EXCEPT ![f] = {}]
<1> DEFINE t == [s EXCEPT !.ctlHalf[f] = {}]
<1>1. s \in Store /\ ~(s.ctlHalf[f] \ {s.open[f]} # {})
  BY FitStore DEF Fit, Good, Own
<1>2. CtlReadOn(s, f) = t
  BY <1>1 DEF CtlReadOn, Harmed
<1>3. {} \in SUBSET Conns
  OBVIOUS
<1>4. t \in Store /\ Differ(s, t, {"ctlHalf"}) /\ t.ctlHalf = [s.ctlHalf EXCEPT ![f] = {}]
  BY <1>1, <1>3, CtlHalfSetIs
<1> HIDE DEF t
<1>5. s.ctlHalf \in [Fds -> SUBSET Conns]
  BY <1>1 DEF Store
<1>6. \A g \in Fds : t.ctlHalf[g] \subseteq s.ctlHalf[g]
  BY <1>4, <1>5
<1>7. Below(s, t) /\ t.harm = s.harm /\ t.ctlClose = s.ctlClose /\ t.vtClose = s.vtClose
  BY <1>4, <1>6 DEF Below, Differ, Names
<1>8. Fit(t, K)
  BY <1>7, BelowFit DEF Fit, Good
<1> QED BY <1>2, <1>4, <1>8

LEMMA VtReadOnFit ==
  ASSUME NEW s, NEW K, Fit(s, K), NEW f \in Fds, s.open[f] # None,
         "late" \in Faults \/ s.open[f] = s.vtWatch[f]
  PROVE  /\ Fit(VtReadOn(s, f), K)
         /\ Differ(s, VtReadOn(s, f), {"vtHalf", "harm"})
<1> DEFINE spliced == s.vtHalf[f] \ {s.open[f]} # {}
           a == Harmed(s, "spliced frame", spliced)
           t == [a EXCEPT !.vtHalf[f] = {}]
<1>1. s \in Store
  BY FitStore
<1>2. VtReadOn(s, f) = t
  BY DEF VtReadOn
<1>3. spliced \in BOOLEAN /\ "spliced frame" \in Harms
  BY DEF Harms
<1>4. spliced => "late" \in Faults
  <2> SUFFICES ASSUME s.open[f] = s.vtWatch[f] PROVE ~spliced
    OBVIOUS
  <2>1. f \notin s.toRemove
    BY DEF Fit, Good, Stale
  <2> QED BY <2>1 DEF Fit, Good, Own
<1> HIDE DEF spliced
<1>5. /\ a \in Store
      /\ Differ(s, a, {"harm"})
      /\ a.harm = IF spliced THEN s.harm \union {"spliced frame"} ELSE s.harm
  BY <1>1, <1>3, HarmedIs
<1>6. a.harm \intersect Averted = {}
  BY <1>4, <1>5 DEF Averted, Fit, Good
<1> HIDE DEF a
<1>7. {} \in SUBSET Conns
  OBVIOUS
<1>8. t \in Store /\ Differ(a, t, {"vtHalf"}) /\ t.vtHalf = [a.vtHalf EXCEPT ![f] = {}]
  BY <1>5, <1>7, VtHalfSetIs
<1> HIDE DEF t
<1>9. a.vtHalf = s.vtHalf /\ s.vtHalf \in [Fds -> SUBSET Conns]
  BY <1>1, <1>5 DEF Differ, Names, Store
<1>10. \A g \in Fds : t.vtHalf[g] \subseteq s.vtHalf[g]
  BY <1>8, <1>9
<1>11. /\ t.open = s.open /\ t.clients = s.clients /\ t.pod = s.pod /\ t.podWho = s.podWho
       /\ t.noted = s.noted /\ t.notedBefore = s.notedBefore
       /\ t.toRemove = s.toRemove /\ t.toAdd = s.toAdd
       /\ t.waiters = s.waiters /\ t.vtWatch = s.vtWatch /\ t.ctlWatch = s.ctlWatch
       /\ t.ctlClose = s.ctlClose /\ t.vtClose = s.vtClose /\ t.harm = a.harm
       /\ t.ctlHalf = s.ctlHalf /\ t.outq = s.outq /\ t.unregistered = s.unregistered
  BY <1>5, <1>8 DEF Differ, Names
<1>12. Below(s, t)
  BY <1>8, <1>10, <1>11 DEF Below
<1>13. Fit(t, K)
  BY <1>6, <1>11, <1>12, BelowFit
<1>14. Differ(s, t, {"vtHalf", "harm"})
  BY <1>5, <1>8 DEF Differ
<1> QED BY <1>2, <1>13, <1>14

\* What is to be armed is in use.
LEMMA NotDialled ==
  ASSUME NEW s, NEW K, Fit(s, K), NEW f \in Fds, ~VtUse(s, Range(s.vtClose), f)
  PROVE  f \notin s.toAdd
BY DEF Fit, Good, Stale, VtUse

\* A connection nothing is kept for can be closed without a note ...
LEMMA ClosedFreshFit ==
  ASSUME NEW s, NEW K, Fit(s, K), NEW f, IsFresh(s, f)
  PROVE  Fit(Closed(s, {f}), K)
<1> DEFINE t == Closed(s, {f})
           C == Range(s.ctlClose)
           V == Range(s.vtClose)
<1>1. s \in Store /\ f \in Fds /\ f \notin s.toAdd
  BY FitStore, NotDialled DEF IsFresh, Fresh, Used
<1>2. /\ t \in Store
      /\ Differ(s, t, {"open"})
      /\ t.open = [g \in Fds |-> IF g \in {f} THEN None ELSE s.open[g]]
  BY <1>1, ClosedIs
<1> HIDE DEF t
<1>3. /\ t.ctlWatch = s.ctlWatch /\ t.vtWatch = s.vtWatch
      /\ t.ctlHalf = s.ctlHalf /\ t.vtHalf = s.vtHalf /\ t.outq = s.outq
      /\ t.unregistered = s.unregistered /\ t.vtClose = s.vtClose /\ t.ctlClose = s.ctlClose
      /\ t.noted = s.noted /\ t.notedBefore = s.notedBefore
      /\ t.toRemove = s.toRemove /\ t.toAdd = s.toAdd /\ t.waiters = s.waiters
      /\ t.clients = s.clients /\ t.pod = s.pod /\ t.podWho = s.podWho /\ t.harm = s.harm
  BY <1>2 DEF Differ, Names
<1>4. Fewer(s, t, {f})
  BY <1>1, <1>2, <1>3 DEF Fewer
<1>5. ~Used(s, C, V, f)
  BY DEF IsFresh, Fresh
<1>6. Unused(t, C, V, {f})
  BY <1>3, <1>5 DEF Unused, Used, CtlUse, VtUse, CliUse, IsNoted
<1>7. Good(t, C, V, K)
  BY <1>1, <1>4, <1>6, FewerGood DEF Fit
<1> QED BY <1>3, <1>7 DEF Fit, t

\* ... and one that is only listed with a note.
LEMMA AtOnceFit ==
  ASSUME NEW s, NEW K, Fit(s, K), NEW f, OnlyListed(s, f)
  PROVE  Fit(ClosedAtOnce(s, {f}), K)
<1> DEFINE t == ClosedAtOnce(s, {f})
           C == Range(s.ctlClose)
           V == Range(s.vtClose)
<1>1. s \in Store /\ f \in Fds /\ f \notin s.toAdd /\ ~VtUse(s, V, f) /\ ~CliUse(s, f)
  BY FitStore, NotDialled DEF OnlyListed, IsCtl, CtlMay
<1>2. /\ t \in Store
      /\ Differ(s, t, {"open", "noted"})
      /\ t.open = [g \in Fds |-> IF g \in {f} THEN None ELSE s.open[g]]
      /\ t.noted = s.noted \union {f}
  BY <1>1, ClosedAtOnceIs
<1> HIDE DEF t
<1>3. /\ t.ctlWatch = s.ctlWatch /\ t.vtWatch = s.vtWatch
      /\ t.ctlHalf = s.ctlHalf /\ t.vtHalf = s.vtHalf /\ t.outq = s.outq
      /\ t.unregistered = s.unregistered /\ t.vtClose = s.vtClose /\ t.ctlClose = s.ctlClose
      /\ t.notedBefore = s.notedBefore
      /\ t.toRemove = s.toRemove /\ t.toAdd = s.toAdd /\ t.waiters = s.waiters
      /\ t.clients = s.clients /\ t.pod = s.pod /\ t.podWho = s.podWho /\ t.harm = s.harm
  BY <1>2 DEF Differ, Names
<1>4. Fewer(s, t, {f})
  BY <1>1, <1>2, <1>3 DEF Fewer
<1>5. ~CtlUse(t, C, f)
  BY <1>2, <1>3 DEF OnlyListed, CtlUse, IsNoted
<1>6. ~VtUse(t, V, f) /\ ~CliUse(t, f)
  BY <1>1, <1>2, <1>3 DEF VtUse, CliUse, IsNoted
<1>7. Unused(t, C, V, {f})
  BY <1>5, <1>6 DEF Unused
<1>8. Good(t, C, V, K)
  BY <1>1, <1>4, <1>7, FewerGood DEF Fit
<1> QED BY <1>3, <1>8 DEF Fit, t

LEMMA FreshListed ==
  ASSUME NEW s, NEW K, Fit(s, K), NEW f, IsFresh(s, f)
  PROVE  IsCtl(s, f) /\ IsVt(s, f) /\ OnlyListed(s, f)
<1>1. f \in Fds
  BY DEF IsFresh, Fresh
<1>2. IsCtl(s, f) /\ IsVt(s, f)
  BY <1>1, UsesMay DEF Fit, IsFresh, IsCtl, IsVt
<1> QED BY <1>2 DEF IsFresh, Fresh, Used, CtlUse, OnlyListed

LEMMA ParkableIs ==
  ASSUME "brief" \notin Faults, NEW s, NEW ps \in SUBSET Parkable(s)
  PROVE  ps \in SUBSET Panes /\ PodFds(s, ps) \intersect s.toAdd = {}
BY DEF Parkable, PodFds

LEMMA RemovedFit ==
  ASSUME NEW s, NEW K, Fit(s, K), NEW c \in s.clients,
         NEW parked \in SUBSET Panes, PodFds(s, parked) \intersect s.toAdd = {}
  PROVE  /\ Fit(Removed(s, c, parked), K)
         /\ \A f \in Fds : IsFresh(s, f) => IsFresh(Removed(s, c, parked), f)
         /\ Removed(s, c, parked).toAdd = s.toAdd
         /\ Removed(s, c, parked).clients = s.clients \ {c}
         /\ c.ctl \in Fds /\ IsNoted(Removed(s, c, parked), c.ctl)
<1> DEFINE t == Removed(s, c, parked)
<1>1. /\ Grows(s, t, Range(s.ctlClose), Range(s.vtClose), K)
      /\ t.clients = s.clients \ {c}
      /\ {c.ctl, c.vt} \ {None} \subseteq t.noted
  BY RemovedGrows DEF Fit
<1> HIDE DEF t
<1>2. /\ Fit(t, K)
      /\ \A f \in Fds : IsFresh(s, f) => IsFresh(t, f)
      /\ t.toAdd = s.toAdd
  BY <1>1, GrowsFit
<1>3. c.ctl \in Fds /\ c.ctl # None
  BY FitStore DEF Store, Client, Fds, None
<1> QED BY <1>1, <1>2, <1>3 DEF IsNoted, t

LEMMA PodKilledFit ==
  ASSUME NEW s, NEW K, Fit(s, K), NEW ps \in SUBSET Panes, PodFds(s, ps) \intersect s.toAdd = {}
  PROVE  /\ Fit(PodsClosed(s, ps), K)
         /\ Differ(s, PodsClosed(s, ps), {"open", "noted", "toRemove", "pod", "podWho"})
         /\ \A p \in ps : PodsClosed(s, ps).pod[p] = None
         /\ \A f \in Fds : IsFresh(s, f) => IsFresh(PodsClosed(s, ps), f)
<1> DEFINE t == PodsClosed(s, ps)
<1>1. /\ GrowsBy(s, t, Range(s.ctlClose), Range(s.vtClose), K, {})
      /\ Differ(s, t, {"open", "noted", "toRemove", "pod", "podWho"})
      /\ \A p \in ps : t.pod[p] = None
  BY PodsClosedGrows DEF Fit
<1> HIDE DEF t
<1>2. Fit(t, K) /\ \A f \in Fds : IsFresh(s, f) => IsFresh(t, f)
  BY <1>1, GrowsFit DEF Grows
<1> QED BY <1>1, <1>2 DEF t

LEMMA AllListedFit ==
  ASSUME NEW s, NEW K, Fit(s, K), NEW fds \in SUBSET Fds,
         \A f \in fds : IsNoted(s, f) \/ IsCtl(s, f)
  PROVE  /\ Fit(AllListed(s, fds), K)
         /\ Differ(s, AllListed(s, fds), {"ctlClose"})
<1> DEFINE t == AllListed(s, fds)
           C == Range(s.ctlClose)
           V == Range(s.vtClose)
<1>1. s \in Store
  BY FitStore
<1>2. Differ(s, t, {"ctlClose"}) /\ (Distinct(s.ctlClose) => Distinct(t.ctlClose))
  BY <1>1, AllListedIs
<1>3. MayList(s, C, V, fds)
  BY DEF MayList, IsCtl
<1>4. Good(s, C, V, K)
  BY DEF Fit
<1>5. PICK E \in SUBSET Entry : Good(t, C \union E, V, K) /\ Range(t.ctlClose) = C \union E
  <2> HIDE DEF V
  <2>1. \E E \in SUBSET Entry :
           /\ Good(t, C \union E, V, K)
           /\ Range(t.ctlClose) = C \union E
           /\ \A e \in E : e.fd \in fds
    BY <1>3, <1>4, AllListedGood
  <2> QED BY <2>1
<1> HIDE DEF t
<1>6. t.vtClose = s.vtClose
  BY <1>2 DEF Differ, Names
<1>7. Fit(t, K)
  BY <1>2, <1>5, <1>6 DEF Fit
<1> QED BY <1>2, <1>7 DEF t

\* The three parts of the tick.
LEMMA ReapedFit ==
  ASSUME NEW s, NEW K, Fit(s, K), NEW late \in SUBSET s.unregistered
  PROVE  /\ Fit(Reaped(s, late), K)
         /\ Differ(s, Reaped(s, late), {"unregistered", "ctlClose"})
<1> DEFINE u == (s.unregistered \ late) \ {f \in Fds : ClientAt(s, f) # {}}
           fds == {f \in late : ClientAt(s, f) = {}}
           r == [s EXCEPT !.unregistered = u]
           t == AllListed(r, fds)
<1>1. s \in Store /\ s.unregistered \subseteq Fds
  BY FitStore DEF Store
<1>2. u \in SUBSET Fds /\ u \subseteq s.unregistered /\ fds \in SUBSET Fds /\ fds \subseteq s.unregistered
  BY <1>1
<1>3. Reaped(s, late) = t
  BY DEF Reaped
<1> HIDE DEF u, fds
<1>4. r \in Store /\ Differ(s, r, {"unregistered"}) /\ r.unregistered = u
  BY <1>1, <1>2, UnregisteredSetIs
<1> HIDE DEF r
<1>5. Below(s, r) /\ r.harm = s.harm /\ r.ctlClose = s.ctlClose /\ r.vtClose = s.vtClose
  BY <1>2, <1>4 DEF Below, Differ, Names
<1>6. Fit(r, K)
  BY <1>5, BelowFit DEF Fit, Good
<1>7. ASSUME NEW f \in fds PROVE IsCtl(r, f)
  <2>1. f \in Fds /\ f \in s.unregistered
    BY <1>2
  <2>2. IsCtl(s, f)
    BY <2>1, IsCtlUse
  <2>3. Differ(s, r, {"ctlWatch", "ctlHalf", "outq", "unregistered", "ctlClose", "harm"})
    BY <1>4 DEF Differ
  <2> QED BY <2>2, <2>3, IsCtlSame
<1>8. Fit(t, K) /\ Differ(r, t, {"ctlClose"})
  BY <1>2, <1>6, <1>7, AllListedFit
<1> HIDE DEF t
<1>9. Differ(s, t, {"unregistered", "ctlClose"})
  BY <1>4, <1>8 DEF Differ
<1> QED BY <1>3, <1>8, <1>9

LEMMA FlushedAllFit ==
  ASSUME NEW s, NEW K, Fit(s, K)
  PROVE  /\ Fit(FlushedAll(s), K)
         /\ Differ(s, FlushedAll(s), {"outq", "ctlClose"})
<1> DEFINE queued == {f \in Fds : s.outq[f] # {}}
           live == {f \in queued : s.open[f] # None}
           q == [f \in Fds |-> IF f \in live THEN {} ELSE s.outq[f]]
           r == [s EXCEPT !.outq = q]
           t == AllListed(r, {})
<1>1. s \in Store
  BY FitStore
<1>2. \A f \in queued : s.open[f] # None /\ s.outq[f] \subseteq {s.open[f]}
  BY DEF Fit, Good, Own, UsedIsOpen, CtlUse
<1>3. queued \ live = {} /\ ~(\E f \in live : s.outq[f] \ {s.open[f]} # {})
  BY <1>2
<1>4. FlushedAll(s) = t
  BY <1>3 DEF FlushedAll, Harmed
<1> HIDE DEF live
<1>5. q \in [Fds -> SUBSET Conns] /\ \A f \in Fds : q[f] \subseteq s.outq[f]
  BY <1>1 DEF Store
<1> HIDE DEF q
<1>6. r \in Store /\ Differ(s, r, {"outq"}) /\ r.outq = q
  BY <1>1, <1>5, AllOutqSetIs
<1> HIDE DEF r
<1>7. Below(s, r) /\ r.harm = s.harm /\ r.ctlClose = s.ctlClose /\ r.vtClose = s.vtClose
  BY <1>5, <1>6 DEF Below, Differ, Names
<1>8. Fit(r, K)
  BY <1>7, BelowFit DEF Fit, Good
<1>9. {} \in SUBSET Fds /\ \A f \in {} : IsNoted(r, f) \/ IsCtl(r, f)
  OBVIOUS
<1>10. Fit(t, K) /\ Differ(r, t, {"ctlClose"})
  BY <1>8, <1>9, AllListedFit
<1> HIDE DEF t
<1>11. Differ(s, t, {"outq", "ctlClose"})
  BY <1>6, <1>10 DEF Differ
<1> QED BY <1>4, <1>10, <1>11

LEMMA DialledFit ==
  ASSUME NEW s, NEW K, Fit(s, K), NEW c \in Conns, c \notin K,
         \E f \in Fds : s.open[f] = None, s.toAdd = {}, NEW p \in Panes
  PROVE  Fit(Dialled(s, p, c), K \union {c})
<1> DEFINE f == LowestFree(s)
           a == Opened(s, c)
           t == PodsClosed(a, {p})
           u == PodSet(t, p, f, c)
           L == K \union {c}
<1>1. f \in Fds /\ s.open[f] = None
  BY LowestFreeIs
<1>2. s \in Store
  BY FitStore
<1>3. a \in Store /\ Differ(s, a, {"open"}) /\ a.open = [s.open EXCEPT ![f] = c]
  BY <1>1, <1>2, OpenedIs
<1>4. u = Dialled(s, p, c)
  BY DEF Dialled, PodSet
<1> HIDE DEF a
<1>5. Good(a, Range(s.ctlClose), Range(s.vtClose), L) /\ Fresh(a, Range(s.ctlClose), Range(s.vtClose), f)
  BY <1>1, <1>3, OpenedGood DEF Fit
<1>6. a.ctlClose = s.ctlClose /\ a.vtClose = s.vtClose /\ a.toAdd = {}
  BY <1>3 DEF Differ, Names
<1>7. Fit(a, L) /\ IsFresh(a, f)
  BY <1>5, <1>6 DEF Fit, IsFresh
<1>8. a.open[f] = c
  BY <1>1, <1>2, <1>3 DEF Store
<1>9. PodFds(a, {p}) \intersect a.toAdd = {} /\ {p} \in SUBSET Panes
  BY <1>6
<1>10. /\ Fit(t, L)
       /\ Differ(a, t, {"open", "noted", "toRemove", "pod", "podWho"})
       /\ \A q \in {p} : t.pod[q] = None
       /\ IsFresh(t, f)
  BY <1>1, <1>7, <1>9, PodKilledFit
<1>11. t.open = [g \in Fds |-> IF g \in PodFds(a, {p}) THEN None ELSE a.open[g]]
  BY <1>3, <1>9, PodsClosedIs
<1>12. f \notin PodFds(a, {p})
  BY <1>7 DEF IsFresh, Fresh, Used, VtUse, PodFds
<1> HIDE DEF t
<1>13. t.open[f] = c
  BY <1>1, <1>8, <1>11, <1>12
<1>14. t \in Store
  BY <1>10, FitStore
<1> HIDE DEF f
<1>15. /\ u \in Store
       /\ Differ(t, u, {"pod", "podWho", "toAdd"})
       /\ u.pod = [t.pod EXCEPT ![p] = f]
       /\ u.podWho = [t.podWho EXCEPT ![p] = c]
       /\ u.toAdd = t.toAdd \union {f}
  BY <1>1, <1>14, PodSetIs
<1> HIDE DEF u
<1>16. Good(u, Range(t.ctlClose), Range(t.vtClose), L)
  BY <1>10, <1>13, <1>15, PodSetGood DEF Fit, IsFresh
<1>17. u.ctlClose = t.ctlClose /\ u.vtClose = t.vtClose
  BY <1>15 DEF Differ, Names
<1> QED BY <1>4, <1>10, <1>16, <1>17 DEF Fit

-----------------------------------------------------------------------------
(* The invariant                                                           *)

\* The faults under which the tables stay in order.
Calm == Faults \intersect {"long", "brief", "refused"} = {}

\* The tables are good in every state, and the lists of watchers are drained
\* when they have to be.
TablesGood ==
  /\ Good(ses, CtlPending, VtPending, 1 .. next - 1)
  /\ Ticker \in ready \/ closing # "none" => ses.toAdd = {}
  /\ closing # "none" => ses.toRemove \subseteq ses.noted
  /\ closing = "vt" => ses.ctlClose = <<>>

IInv == TypeOK /\ TablesGood

LEMMA TypeDistinct ==
  ASSUME TypeOK PROVE Distinct(ses.ctlClose) /\ Distinct(ses.vtClose) /\ Distinct(todo)
BY DEF TypeOK, Distinct

LEMMA DistinctType ==
  ASSUME NEW a, NEW b, NEW c
  PROVE  Distinct(a) /\ Distinct(b) /\ Distinct(c) <=>
         \A list \in {a, b, c} : \A i, j \in DOMAIN list : list[i].fd = list[j].fd => i = j
BY DEF Distinct

\* It holds at first.
LEMMA InitInv == Init => IInv
<1> SUFFICES ASSUME Init PROVE IInv
  OBVIOUS
<1>1. /\ ses.open = [f \in Fds |-> None]
      /\ ses.ctlWatch = [f \in Fds |-> None] /\ ses.vtWatch = [f \in Fds |-> None]
      /\ ses.ctlHalf = [f \in Fds |-> {}] /\ ses.vtHalf = [f \in Fds |-> {}]
      /\ ses.outq = [f \in Fds |-> {}] /\ ses.unregistered = {}
      /\ ses.ctlClose = <<>> /\ ses.vtClose = <<>>
      /\ ses.noted = {} /\ ses.notedBefore = {} /\ ses.toRemove = {} /\ ses.toAdd = {}
      /\ ses.clients = {} /\ ses.waiters = {}
      /\ ses.pod = [p \in Panes |-> None] /\ ses.podWho = [p \in Panes |-> None]
      /\ ses.harm = {}
  BY DEF Init
<1>2. /\ next = 1 /\ polls = {} /\ ready = {} /\ closing = "none" /\ todo = <<>>
      /\ skipped = {}
  BY DEF Init
<1>3. Whole(ses)
  BY DEF Init, Whole, Names
<1>4. <<>> \in Seq(Entry)
  BY EmptySeq
<1>5. Fields(ses)
  BY <1>1, <1>4 DEF Fields
<1>6. ses \in Store
  BY <1>3, <1>5, StoreIs
<1>7. Range(ses.ctlClose) = {} /\ Range(ses.vtClose) = {} /\ Distinct(<<>>)
  BY <1>1, EmptyRange
<1>8. TypeOK
  <2>1. next \in 1 .. MaxConns + 1
    BY <1>2, ConnectionAssumption
  <2>2. \A list \in {ses.ctlClose, ses.vtClose, todo} :
          \A i, j \in DOMAIN list : list[i].fd = list[j].fd => i = j
    BY <1>1, <1>2, <1>7 DEF Distinct
  <2> QED BY <1>2, <1>4, <1>6, <2>1, <2>2 DEF TypeOK
<1>9. CtlPending = {} /\ VtPending = {} /\ 1 .. next - 1 = {}
  BY <1>2, <1>7 DEF CtlPending, VtPending
<1>10. \A f \in Fds : ~CtlUse(ses, {}, f) /\ ~VtUse(ses, {}, f) /\ ~CliUse(ses, f)
  <2> SUFFICES ASSUME NEW f \in Fds
      PROVE ~CtlUse(ses, {}, f) /\ ~VtUse(ses, {}, f) /\ ~CliUse(ses, f)
    OBVIOUS
  <2>1. f # None
    BY DEF Fds, None
  <2>2. ~CtlUse(ses, {}, f) /\ ~CliUse(ses, f)
    BY <1>1 DEF CtlUse, CliUse
  <2>3. ~VtUse(ses, {}, f)
    BY <1>1, <2>1 DEF VtUse
  <2> QED BY <2>2, <2>3
<1>11. Typed(ses, {}, {}, {})
  BY <1>1, <1>6 DEF Typed
<1>12. Agree(ses) /\ Apart(ses)
  BY <1>1 DEF Agree, Apart
<1>13. UsedIsOpen(ses, {}, {}) /\ OneUse(ses, {}, {})
  BY <1>10 DEF UsedIsOpen, OneUse
<1>14. Own(ses) /\ Stale(ses) /\ Due(ses, {}) /\ ses.harm \intersect Averted = {}
  BY <1>1 DEF Own, Stale, Due
<1>15. Good(ses, {}, {}, {})
  BY <1>11, <1>12, <1>13, <1>14 DEF Good
<1>16. TablesGood
  BY <1>1, <1>2, <1>9, <1>15 DEF TablesGood
<1> QED BY <1>8, <1>16 DEF IInv

\* What a handler finds, and what it has to leave.
LEMMA HandlerFinds ==
  ASSUME IInv, closing = "none"
  PROVE  /\ Fit(ses, 1 .. next - 1)
         /\ Ticker \in ready => ses.toAdd = {}
BY TypeDistinct DEF IInv, TablesGood, CtlPending, VtPending, Fit

LEMMA HandlerLeaves ==
  ASSUME IInv, closing = "none", NEW t, NEW ended, NEW spent, Becomes(t, ended, spent),
         next' \in 1 .. MaxConns + 1, Fit(t, 1 .. next' - 1),
         Ticker \in ready \ spent => t.toAdd = {}
  PROVE  IInv'
<1>1. /\ ses' = t /\ closing' = closing /\ todo' = todo /\ skipped' = skipped
      /\ polls' = Polling(ses, t, ended)
      /\ ready' = (ready \ (ended \union spent)) \intersect (Watched(t) \union {Ticker})
  BY DEF Becomes
<1>2. polls' \subseteq Watchers /\ polls' = (((polls \intersect Watched(t)) \union (Watched(t) \ Watched(ses))) \ ended) \intersect Watchers
  BY <1>1 DEF Polling
<1>3. ready \subseteq polls \union {Ticker} /\ polls \subseteq Watchers
  BY DEF IInv, TypeOK
<1>4. ready' \subseteq polls' \union {Ticker}
  BY <1>1, <1>2, <1>3
<1>5. t \in Store /\ Distinct(t.ctlClose) /\ Distinct(t.vtClose) /\ Distinct(todo)
  BY FitStore, TypeDistinct DEF Fit, IInv
<1>6. \A list \in {t.ctlClose, t.vtClose, todo} :
        \A i, j \in DOMAIN list : list[i].fd = list[j].fd => i = j
  BY <1>5, DistinctType
<1>7. TypeOK'
  BY <1>1, <1>2, <1>4, <1>5, <1>6 DEF TypeOK, IInv
<1>8. Good(t, Range(t.ctlClose), Range(t.vtClose), 1 .. next' - 1)
  BY DEF Fit
<1>9. CtlPending' = Range(t.ctlClose) /\ VtPending' = Range(t.vtClose)
  BY <1>1 DEF CtlPending, VtPending
<1>10. Ticker \in ready' => t.toAdd = {}
  BY <1>1
<1>11. TablesGood'
  BY <1>1, <1>8, <1>9, <1>10 DEF TablesGood
<1> QED BY <1>7, <1>11 DEF IInv

-----------------------------------------------------------------------------
(* The loop                                                                *)

\* What a step of the loop has to show.
LEMMA LoopLeaves ==
  ASSUME IInv, NEW C, NEW V,
         ses' \in Store, Distinct(ses'.ctlClose), Distinct(ses'.vtClose),
         todo' \in Seq(Entry), Distinct(todo'),
         closing' \in {"ctl", "vt"}, ready' = {}, polls' = Polling(ses, ses', {}) \/ polls' = polls,
         next' = next,
         Good(ses', C, V, 1 .. next - 1), CtlPending' \in SUBSET C, VtPending' \in SUBSET V,
         ses'.toAdd = {}, ses'.toRemove \subseteq ses'.noted,
         closing' = "vt" => ses'.ctlClose = <<>>, skipped' \in SUBSET (skipped \union Watchers)
  PROVE  IInv'
<1>1. polls' \union skipped' \subseteq Watchers
  BY DEF Polling, IInv, TypeOK
<1>2. \A list \in {ses'.ctlClose, ses'.vtClose, todo'} :
        \A i, j \in DOMAIN list : list[i].fd = list[j].fd => i = j
  BY DistinctType
<1>3. TypeOK'
  BY <1>1, <1>2 DEF TypeOK, IInv
<1>4. Good(ses', CtlPending', VtPending', 1 .. next - 1)
  BY PendingGood
<1>5. TablesGood'
  BY <1>4 DEF TablesGood
<1> QED BY <1>3, <1>5 DEF IInv

\* Each step keeps it: the loop,
LEMMA TurnInv == ASSUME IInv, Turn PROVE IInv'
<1> DEFINE K == 1 .. next - 1
           C == Range(ses.ctlClose)
           V == Range(ses.vtClose)
           b == Disarmed(ses)
           t == Armed(b)
<1>1. /\ closing = "none" /\ closing' = "ctl"
      /\ ses' = t /\ todo' = ses.ctlClose /\ next' = next
      /\ polls' = Polling(ses, ses', {}) /\ ready' = {}
      /\ skipped' \in SUBSET (skipped \union Watchers)
  BY DEF Turn, Updated
<1>2. Fit(ses, K)
  BY <1>1, HandlerFinds
<1>3. ses \in Store
  BY <1>2, FitStore
<1>4. Good(b, C, V, K)
  BY <1>2, DisarmedGood DEF Fit
<1>5. /\ b.toRemove = {} /\ b \in Store
      /\ Differ(ses, b, {"ctlWatch", "vtWatch", "ctlHalf", "vtHalf", "outq", "unregistered", "toRemove"})
  BY <1>3, DisarmedIs
<1> HIDE DEF b
<1>6. Good(t, C, V, K)
  BY <1>4, <1>5, ArmedGood
<1>7. t.toAdd = {} /\ t \in Store /\ Differ(b, t, {"vtWatch", "pod", "toAdd"})
  BY <1>5, ArmedIs
<1> HIDE DEF t
<1>8. t.toRemove = {} /\ t.ctlClose = ses.ctlClose /\ t.vtClose = ses.vtClose
  BY <1>5, <1>7 DEF Differ, Names
<1>9. CtlPending' = C /\ VtPending' = V
  BY <1>1, <1>8 DEF CtlPending, VtPending
<1>10. ses.ctlClose \in Seq(Entry)
  BY <1>3 DEF Store
<1>11. Distinct(ses.ctlClose) /\ Distinct(ses.vtClose)
  BY <1>2 DEF Fit
<1> HIDE DEF C, V, K
<1> QED BY <1>1, <1>6, <1>7, <1>8, <1>9, <1>10, <1>11, LoopLeaves DEF K

LEMMA CtlCloseInv == ASSUME IInv, CtlClose PROVE IInv'
<1> DEFINE K == 1 .. next - 1
           e == Head(todo)
           D == Range(Tail(todo))
           V == Range(ses.vtClose)
<1>1. PICK parked \in SUBSET Panes : ses' = CtlEntryDone(ses, e, parked)
  BY DEF CtlClose
<1> DEFINE t == CtlEntryDone(ses, e, parked)
<1>2. /\ closing = "ctl" /\ todo # <<>> /\ closing' = "ctl"
      /\ ses' = t /\ todo' = Tail(todo) /\ next' = next
      /\ polls' = Polling(ses, ses', {}) /\ ready' = ready
      /\ skipped' \in SUBSET (skipped \union Watchers)
  BY <1>1 DEF CtlClose, SkippedBy
<1>3. /\ todo \in Seq(Entry) /\ Distinct(todo) /\ ready = {}
      /\ Distinct(ses.ctlClose) /\ Distinct(ses.vtClose)
  BY <1>2, TypeDistinct DEF IInv, TypeOK
<1>4. /\ e \in Entry /\ Tail(todo) \in Seq(Entry)
      /\ Range(todo) = {e} \union D
      /\ Distinct(Tail(todo)) /\ \A d \in D : d.fd # e.fd
  BY <1>2, <1>3, PopIs
<1>5. /\ Good(ses, {e} \union D, V, K) /\ ses.toAdd = {} /\ ses.toRemove \subseteq ses.noted
  BY <1>2, <1>4 DEF IInv, TablesGood, CtlPending, VtPending
<1> HIDE DEF e, D, V, K
<1>6. Good(t, D, V, K) /\ Passed(ses, t)
  <2>1. e \in {e} \union D /\ D \in SUBSET ({e} \union D)
    OBVIOUS
  <2> QED BY <2>1, <1>4, <1>5, CtlEntryDoneGood
<1> HIDE DEF t
<1>7. t \in Store
  BY <1>6 DEF Good, Typed
<1>8. CtlPending' = D /\ VtPending' = V
  BY <1>2, <1>6 DEF CtlPending, VtPending, D, V, Passed
<1>9. /\ t.toAdd = {} /\ t.toRemove \subseteq t.noted
      /\ Distinct(t.ctlClose) /\ Distinct(t.vtClose)
  BY <1>3, <1>5, <1>6 DEF Passed
<1> QED BY <1>2, <1>3, <1>4, <1>6, <1>7, <1>8, <1>9, LoopLeaves DEF K

LEMMA CtlClosesDoneInv == ASSUME IInv, CtlClosesDone PROVE IInv'
<1> DEFINE K == 1 .. next - 1
           V == Range(ses.vtClose)
           t == [ses EXCEPT !.ctlClose = <<>>]
<1>1. /\ closing = "ctl" /\ todo = <<>> /\ closing' = "vt"
      /\ ses' = t /\ todo' = ses.vtClose /\ next' = next
      /\ polls' = polls /\ ready' = ready
      /\ skipped' \in SUBSET (skipped \union Watchers)
  BY DEF CtlClosesDone
<1>2. /\ ready = {} /\ ses \in Store /\ Distinct(ses.vtClose)
  BY <1>1, TypeDistinct DEF IInv, TypeOK
<1>3. /\ Good(ses, {}, V, K) /\ ses.toAdd = {} /\ ses.toRemove \subseteq ses.noted
  BY <1>1, EmptyRange DEF IInv, TablesGood, CtlPending, VtPending
<1>4. <<>> \in Seq(Entry)
  BY EmptySeq
<1>5. t \in Store /\ Differ(ses, t, {"ctlClose"}) /\ t.ctlClose = <<>>
  BY <1>2, <1>4, CtlCloseSetIs
<1> HIDE DEF t
<1>6. ListOnly(ses, t) /\ t.vtClose = ses.vtClose /\ t.toAdd = {} /\ t.toRemove \subseteq t.noted
  BY <1>3, <1>5 DEF ListOnly, Differ, Names
<1> HIDE DEF V, K
<1>7. Good(t, {}, V, K)
  BY <1>3, <1>6, ListOnlyGood
<1>8. CtlPending' = {} /\ VtPending' = V
  BY <1>1, <1>5, EmptyRange DEF CtlPending, VtPending, V
<1>9. ses.vtClose \in Seq(Entry) /\ Distinct(<<>>)
  BY <1>2, EmptyRange DEF Store
<1> QED BY <1>1, <1>2, <1>5, <1>6, <1>7, <1>8, <1>9, LoopLeaves DEF K

LEMMA VtCloseInv == ASSUME IInv, VtClose PROVE IInv'
<1> DEFINE K == 1 .. next - 1
           e == Head(todo)
           W == Range(Tail(todo))
           C == Range(ses.ctlClose)
           t == VtEntryDone(ses, e)
<1>1. /\ closing = "vt" /\ todo # <<>> /\ closing' = "vt"
      /\ ses' = t /\ todo' = Tail(todo) /\ next' = next
      /\ polls' = Polling(ses, ses', {}) /\ ready' = ready
      /\ skipped' \in SUBSET (skipped \union Watchers)
  BY DEF VtClose, SkippedBy
<1>2. /\ todo \in Seq(Entry) /\ Distinct(todo) /\ ready = {}
      /\ Distinct(ses.ctlClose) /\ Distinct(ses.vtClose)
  BY <1>1, TypeDistinct DEF IInv, TypeOK
<1>3. /\ e \in Entry /\ Tail(todo) \in Seq(Entry)
      /\ Range(todo) = {e} \union W
      /\ Distinct(Tail(todo)) /\ \A d \in W : d.fd # e.fd
  BY <1>1, <1>2, PopIs
<1>4. /\ Good(ses, C, {e} \union W, K) /\ ses.toAdd = {} /\ ses.toRemove \subseteq ses.noted
      /\ ses.ctlClose = <<>>
  BY <1>1, <1>3 DEF IInv, TablesGood, CtlPending, VtPending
<1> HIDE DEF e, W, C, K
<1>5. /\ Good(t, C, W, K)
      /\ Differ(ses, t, {"vtWatch", "vtHalf", "pod", "podWho", "clients", "open"})
  <2>1. e \in {e} \union W /\ W \in SUBSET ({e} \union W)
    OBVIOUS
  <2> QED BY <2>1, <1>3, <1>4, VtEntryDoneGood
<1> HIDE DEF t
<1>6. t \in Store
  BY <1>5 DEF Good, Typed
<1>7. /\ t.toAdd = {} /\ t.toRemove \subseteq t.noted
      /\ t.ctlClose = ses.ctlClose /\ t.vtClose = ses.vtClose
  BY <1>4, <1>5 DEF Differ, Names
<1>8. CtlPending' = C /\ VtPending' = W
  BY <1>1, <1>7 DEF CtlPending, VtPending, C, W
<1> QED BY <1>1, <1>2, <1>3, <1>4, <1>5, <1>6, <1>7, <1>8, LoopLeaves DEF K

LEMMA VtClosesDoneInv == ASSUME IInv, VtClosesDone PROVE IInv'
<1> DEFINE K == 1 .. next - 1
           C == Range(ses.ctlClose)
           r == [ses EXCEPT !.vtClose = <<>>]
           t == Rotated(r)
<1>1. /\ closing = "vt" /\ todo = <<>> /\ closing' = "none"
      /\ ses' = t /\ todo' = todo /\ next' = next
      /\ polls' = polls /\ ready' = polls \union {Ticker} /\ skipped' = skipped
  BY DEF VtClosesDone
<1>2. /\ ses \in Store
  BY DEF IInv, TypeOK
<1>3. /\ Good(ses, C, {}, K) /\ ses.toAdd = {} /\ ses.toRemove \subseteq ses.noted
      /\ ses.ctlClose = <<>>
  BY <1>1, EmptyRange DEF IInv, TablesGood, CtlPending, VtPending
<1>4. <<>> \in Seq(Entry) /\ Distinct(<<>>) /\ Range(<<>>) = {}
  BY EmptySeq, EmptyRange
<1>5. r \in Store /\ Differ(ses, r, {"vtClose"}) /\ r.vtClose = <<>>
  BY <1>2, <1>4, VtCloseSetIs
<1> HIDE DEF r
<1>6. ListOnly(ses, r) /\ r.ctlClose = <<>> /\ r.toAdd = {} /\ r.toRemove \subseteq r.noted
  BY <1>3, <1>5 DEF ListOnly, Differ, Names
<1> HIDE DEF C, K
<1>7. Good(r, C, {}, K)
  BY <1>3, <1>6, ListOnlyGood
<1>8. Good(t, {}, {}, K)
  BY <1>6, <1>7, RotatedGood
<1>9. Differ(r, t, {"noted", "notedBefore"}) /\ t \in Store
  BY <1>5, RotatedIs
<1> HIDE DEF t
<1>10. t.toAdd = {} /\ t.ctlClose = <<>> /\ t.vtClose = <<>>
  BY <1>5, <1>6, <1>9 DEF Differ, Names
<1>11. CtlPending' = {} /\ VtPending' = {}
  BY <1>1, <1>4, <1>10 DEF CtlPending, VtPending
<1>12. TablesGood'
  BY <1>1, <1>8, <1>10, <1>11 DEF TablesGood, K
<1>13. \A list \in {t.ctlClose, t.vtClose, todo} :
         \A i, j \in DOMAIN list : list[i].fd = list[j].fd => i = j
  BY <1>1, <1>4, <1>10, DistinctType
<1>14. TypeOK'
  BY <1>1, <1>9, <1>13 DEF IInv, TypeOK
<1> QED BY <1>12, <1>14 DEF IInv

-----------------------------------------------------------------------------
(* Connections come                                                        *)

\* What a connection that is accepted finds, and what it has to leave.
LEMMA ConnFinds ==
  ASSUME IInv, CanOpen(ses)
  PROVE  /\ closing = "none" /\ next \in Conns
         /\ Fit(Accepted(ses), 1 .. next)
         /\ LowestFree(ses) \in Fds
         /\ IsFresh(Accepted(ses), LowestFree(ses))
         /\ Accepted(ses).open[LowestFree(ses)] = next
         /\ Accepted(ses).toRemove = {} /\ Accepted(ses).toAdd = {}
<1>1. closing = "none" /\ next \in Conns /\ \E f \in Fds : ses.open[f] = None
  BY DEF CanOpen
<1> DEFINE K == 1 .. next - 1
<1>2. Fit(ses, K)
  BY <1>1, HandlerFinds
<1>3. next \notin K /\ K \union {next} = 1 .. next
  BY <1>1, ConnectionAssumption DEF Conns
<1> HIDE DEF K
<1>4. /\ Fit(Accepted(ses), K \union {next})
      /\ LowestFree(ses) \in Fds
      /\ IsFresh(Accepted(ses), LowestFree(ses))
      /\ Accepted(ses).open[LowestFree(ses)] = next
      /\ Accepted(ses).toRemove = {} /\ Accepted(ses).toAdd = {}
  BY <1>1, <1>2, <1>3, AcceptedFit
<1> QED BY <1>1, <1>3, <1>4

LEMMA ConnLeaves ==
  ASSUME IInv, CanOpen(ses), NEW t, Becomes(t, {}, {}), next' = next + 1,
         Fit(t, 1 .. next), t.toAdd = {}
  PROVE  IInv'
<1>1. closing = "none" /\ next \in Conns
  BY DEF CanOpen
<1>2. next' \in 1 .. MaxConns + 1 /\ 1 .. next' - 1 = 1 .. next
  BY <1>1, ConnectionAssumption DEF Conns
<1>3. Fit(t, 1 .. next' - 1)
  BY <1>2
<1> QED BY <1>1, <1>2, <1>3, HandlerLeaves

LEMMA CliOutcomesAre ==
  ASSUME Calm
  PROVE  /\ CliOutcomes \subseteq {"sent", "fails"}
         /\ RefusalOutcomes = {"sent"}
BY DEF Calm, CliOutcomes, RefusalOutcomes

\* connections that come,
LEMMA TurnAwayInv == ASSUME IInv, Calm, TurnAway PROVE IInv'
<1> DEFINE f == LowestFree(ses)
           a == Accepted(ses)
           t == Closed(a, {f})
<1>1. CanOpen(ses) /\ next' = next + 1
  BY DEF TurnAway
<1>2. PICK o \in RefusalOutcomes : Becomes(Closed(Replied(a, f, o), {f}), {}, {})
  BY DEF TurnAway
<1>3. o = "sent"
  BY CliOutcomesAre
<1>4. Fit(a, 1 .. next) /\ IsFresh(a, f) /\ f \in Fds /\ a.toAdd = {}
  BY <1>1, ConnFinds
<1> HIDE DEF a, f
<1>5. IsCtl(a, f) /\ OnlyListed(a, f)
  BY <1>4, FreshListed
<1>6. a.outq[f] = {}
  BY <1>5 DEF OnlyListed
<1>7. Replied(a, f, o) = a
  BY <1>3, <1>4, <1>5, <1>6, RepliedFit DEF Outcomes
<1>8. Becomes(t, {}, {})
  BY <1>2, <1>7
<1>9. Fit(t, 1 .. next)
  BY <1>4, ClosedFreshFit
<1>10. a \in Store /\ {f} \in SUBSET Fds
  BY <1>4, FitStore
<1>11. Differ(a, t, {"open"})
  BY <1>10, ClosedIs
<1> HIDE DEF t
<1>12. t.toAdd = {}
  BY <1>4, <1>11 DEF Differ, Names
<1> QED BY <1>1, <1>8, <1>9, <1>12, ConnLeaves

LEMMA AnsweredAtOnceInv ==
  ASSUME IInv, Calm, CanOpen(ses), next' = next + 1, NEW t, NEW f \in Fds,
         Fit(t, 1 .. next), IsFresh(t, f), t.toAdd = {}, AnsweredAtOnce(t, f)
  PROVE  IInv'
<1>1. PICK o \in CliOutcomes : Becomes(ClosedAtOnce(Replied(t, f, o), {f}), {}, {})
  BY DEF AnsweredAtOnce
<1> DEFINE r == Replied(t, f, o)
           u == ClosedAtOnce(r, {f})
<1>2. o \in Outcomes /\ o # "stays"
  BY CliOutcomesAre DEF Outcomes
<1>3. IsCtl(t, f) /\ OnlyListed(t, f)
  BY FreshListed
<1>4. Fit(r, 1 .. next) /\ OnlyListed(r, f) /\ Differ(t, r, {"outq", "ctlClose"})
  BY <1>2, <1>3, RepliedFit
<1>5. Becomes(u, {}, {})
  BY <1>1
<1> HIDE DEF r
<1>6. r.toAdd = {} /\ r \in Store /\ {f} \in SUBSET Fds
  BY <1>4, FitStore DEF Differ, Names
<1>7. Fit(u, 1 .. next)
  BY <1>4, AtOnceFit
<1>8. Differ(r, u, {"open", "noted"})
  BY <1>6, ClosedAtOnceIs
<1> HIDE DEF u
<1>9. u.toAdd = {}
  BY <1>6, <1>8 DEF Differ, Names
<1> QED BY <1>5, <1>7, <1>9, ConnLeaves

LEMMA CliAtOnceInv == ASSUME IInv, Calm, CliAtOnce PROVE IInv'
<1> DEFINE f == LowestFree(ses)
           a == Accepted(ses)
<1>1. CanOpen(ses) /\ next' = next + 1
  BY DEF CliAtOnce
<1>2. AnsweredAtOnce(a, f)
        \/ \E c \in a.clients, parked \in SUBSET Parkable(a) :
             AnsweredAtOnce(Removed(a, c, parked), f)
  BY DEF CliAtOnce
<1>3. Fit(a, 1 .. next) /\ IsFresh(a, f) /\ f \in Fds /\ a.toAdd = {}
  BY <1>1, ConnFinds
<1> HIDE DEF a, f
<1>4. CASE AnsweredAtOnce(a, f)
  BY <1>1, <1>3, <1>4, AnsweredAtOnceInv
<1>5. ASSUME NEW c \in a.clients, NEW parked \in SUBSET Parkable(a),
             AnsweredAtOnce(Removed(a, c, parked), f)
      PROVE  IInv'
  <2> DEFINE t == Removed(a, c, parked)
  <2>1. parked \in SUBSET Panes /\ PodFds(a, parked) \intersect a.toAdd = {}
    BY ParkableIs DEF Calm
  <2>2. Fit(t, 1 .. next) /\ IsFresh(t, f) /\ t.toAdd = {}
    BY <1>3, <2>1, RemovedFit
  <2> HIDE DEF t
  <2>3. AnsweredAtOnce(t, f)
    BY <1>5 DEF t
  <2> QED BY <1>1, <1>3, <2>2, <2>3, AnsweredAtOnceInv
<1> QED BY <1>2, <1>4, <1>5

LEMMA CliListedInv == ASSUME IInv, Calm, CliListed PROVE IInv'
<1> DEFINE f == LowestFree(ses)
           a == Accepted(ses)
<1>1. CanOpen(ses) /\ next' = next + 1
  BY DEF CliListed
<1>2. PICK o \in CliOutcomes : Becomes(CtlListed(Replied(a, f, o), f, None), {}, {})
  BY DEF CliListed
<1>3. Fit(a, 1 .. next) /\ IsFresh(a, f) /\ f \in Fds /\ a.toAdd = {}
  BY <1>1, ConnFinds
<1> HIDE DEF a, f
<1> DEFINE r == Replied(a, f, o)
           u == CtlListed(r, f, None)
<1>4. o \in Outcomes /\ o # "stays"
  BY CliOutcomesAre DEF Outcomes
<1>5. IsCtl(a, f) /\ OnlyListed(a, f)
  BY <1>3, FreshListed
<1>6. Fit(r, 1 .. next) /\ OnlyListed(r, f) /\ Differ(a, r, {"outq", "ctlClose"})
  BY <1>3, <1>4, <1>5, RepliedFit
<1>7. Becomes(u, {}, {})
  BY <1>2
<1> HIDE DEF r
<1>8. IsCtl(r, f)
  BY <1>6 DEF OnlyListed
<1>9. Fit(u, 1 .. next) /\ Differ(r, u, {"ctlClose"})
  BY <1>3, <1>6, <1>8, CtlListedFit
<1>10. u.toAdd = {}
  BY <1>3, <1>6, <1>9 DEF Differ, Names
<1> HIDE DEF u
<1> QED BY <1>1, <1>7, <1>9, <1>10, ConnLeaves

LEMMA CliParkedInv == ASSUME IInv, Calm, CliParked PROVE IInv'
<1> DEFINE f == LowestFree(ses)
           a == Accepted(ses)
<1>1. CanOpen(ses) /\ next' = next + 1
  BY DEF CliParked
<1>2. PICK c \in a.clients :
        Becomes([Harmed(a, "overtaken", a.outq[c.ctl] # {}) EXCEPT
                   !.waiters = a.waiters \union {[fd |-> f, owner |-> c.ctl, whose |-> next]}],
                {}, {})
  BY DEF CliParked
<1>3. /\ Fit(a, 1 .. next) /\ IsFresh(a, f) /\ f \in Fds /\ a.toAdd = {}
      /\ a.open[f] = next /\ next \in Conns
  BY <1>1, ConnFinds
<1> HIDE DEF a, f
<1> DEFINE w == [fd |-> f, owner |-> c.ctl, whose |-> next]
           overtaken == a.outq[c.ctl] # {}
           h == Harmed(a, "overtaken", overtaken)
           t == [h EXCEPT !.waiters = h.waiters \union {w}]
<1>4. a \in Store /\ a.harm \intersect Averted = {}
  BY <1>3, FitStore DEF Fit, Good
<1>5. c.ctl \in Fds
  BY <1>4 DEF Store, Client
<1>6. w \in Waiter /\ w.fd = f /\ w.whose = next
  BY <1>3, <1>5 DEF Waiter
<1>7. overtaken \in BOOLEAN /\ "overtaken" \in Harms /\ "overtaken" \notin Averted
  BY DEF Harms, Averted
<1> HIDE DEF overtaken
<1>8. /\ h \in Store /\ Differ(a, h, {"harm"})
      /\ h.harm = IF overtaken THEN a.harm \union {"overtaken"} ELSE a.harm
  BY <1>4, <1>7, HarmedIs
<1>9. Becomes([h EXCEPT !.waiters = a.waiters \union {w}], {}, {})
  BY <1>2 DEF overtaken
<1> HIDE DEF h, w
<1>10. h.harm \intersect Averted = {}
  BY <1>4, <1>7, <1>8
<1>11. /\ h.open = a.open /\ h.clients = a.clients /\ h.pod = a.pod /\ h.podWho = a.podWho
       /\ h.noted = a.noted /\ h.notedBefore = a.notedBefore
       /\ h.toRemove = a.toRemove /\ h.toAdd = a.toAdd
       /\ h.waiters = a.waiters /\ h.vtWatch = a.vtWatch /\ h.ctlWatch = a.ctlWatch
       /\ h.ctlClose = a.ctlClose /\ h.vtClose = a.vtClose
       /\ h.ctlHalf = a.ctlHalf /\ h.vtHalf = a.vtHalf
       /\ h.outq = a.outq /\ h.unregistered = a.unregistered
  BY <1>8 DEF Differ, Names
<1>12. Below(a, h)
  BY <1>8, <1>11 DEF Below
<1>13. Fit(h, 1 .. next)
  BY <1>3, <1>10, <1>11, <1>12, BelowFit
<1>14. IsFresh(h, f)
  BY <1>3, <1>11 DEF IsFresh, Fresh, Used, CtlUse, VtUse, CliUse, IsNoted
<1>15. t \in Store /\ Differ(h, t, {"waiters"}) /\ t.waiters = h.waiters \union {w}
  BY <1>6, <1>8, WaiterAddedIs
<1>16. Becomes(t, {}, {})
  BY <1>9, <1>11
<1> HIDE DEF t
<1>17. h.open[f] = next
  BY <1>3, <1>11
<1>18. Good(t, Range(h.ctlClose), Range(h.vtClose), 1 .. next)
  BY <1>6, <1>13, <1>14, <1>15, <1>17, WaiterAddedGood DEF Fit, IsFresh
<1>19. t.ctlClose = h.ctlClose /\ t.vtClose = h.vtClose /\ t.toAdd = {}
  BY <1>3, <1>11, <1>15 DEF Differ, Names
<1>20. Fit(t, 1 .. next)
  BY <1>13, <1>18, <1>19 DEF Fit
<1> QED BY <1>1, <1>16, <1>19, <1>20, ConnLeaves

LEMMA FrontendCtlInv == ASSUME IInv, Calm, FrontendCtl PROVE IInv'
<1> DEFINE f == LowestFree(ses)
           a == Accepted(ses)
           n == IF a.ctlWatch[f] = None THEN next ELSE a.ctlWatch[f]
           t == [a EXCEPT !.ctlWatch[f] = n, !.unregistered = a.unregistered \union {f}]
<1>1. CanOpen(ses) /\ next' = next + 1
  BY DEF FrontendCtl
<1>2. Becomes(t, {}, {})
  BY DEF FrontendCtl
<1>3. /\ Fit(a, 1 .. next) /\ IsFresh(a, f) /\ f \in Fds /\ a.toAdd = {}
      /\ a.open[f] = next /\ next \in Conns
  BY <1>1, ConnFinds
<1> HIDE DEF a, f
<1>4. IsCtl(a, f) /\ OnlyListed(a, f) /\ a \in Store
  BY <1>3, FreshListed, FitStore
<1>5. a.ctlWatch[f] = None /\ a.ctlHalf[f] = {} /\ a.outq[f] = {}
  BY <1>4 DEF OnlyListed
<1>6. n = next /\ n \in Conns \union {None}
  BY <1>3, <1>5
<1> HIDE DEF n
<1>7. /\ t \in Store
      /\ Differ(a, t, {"ctlWatch", "unregistered"})
      /\ t.ctlWatch = [a.ctlWatch EXCEPT ![f] = n]
      /\ t.unregistered = a.unregistered \union {f}
  BY <1>3, <1>4, <1>6, FrontendCtlIs
<1> HIDE DEF t
<1>8. t.ctlHalf = a.ctlHalf /\ t.outq = a.outq /\ t.toAdd = {}
  BY <1>3, <1>7 DEF Differ, Names
<1>9. a.ctlWatch \in [Fds -> Conns \union {None}]
  BY <1>4 DEF Store
<1>10. t.ctlWatch[f] = next /\ \A g \in Fds \ {f} : t.ctlWatch[g] = a.ctlWatch[g]
  BY <1>3, <1>6, <1>7, <1>9
<1>11. Differ(a, t, {"ctlWatch", "ctlHalf", "outq", "unregistered"})
  BY <1>7 DEF Differ
<1>12. CtlMore(a, t, f)
  BY <1>3, <1>5, <1>7, <1>8, <1>10, <1>11 DEF CtlMore
<1>13. Fit(t, 1 .. next)
  BY <1>3, <1>4, <1>12, CtlMoreFit
<1> QED BY <1>1, <1>2, <1>8, <1>13, ConnLeaves

\* A client's VT connection is f, watched by n.
VtTaken(s, c, d, f, n) ==
  [s EXCEPT !.clients = (s.clients \ {c}) \union {d}, !.vtWatch[f] = n]

LEMMA VtTakenIs ==
  ASSUME NEW s \in Store, NEW f \in Fds, NEW c \in Client, NEW d \in Client, NEW n \in Conns \union {None}
  PROVE  /\ VtTaken(s, c, d, f, n) \in Store
         /\ Differ(s, VtTaken(s, c, d, f, n), {"clients", "vtWatch"})
         /\ VtTaken(s, c, d, f, n).clients = (s.clients \ {c}) \union {d}
         /\ VtTaken(s, c, d, f, n).vtWatch = [s.vtWatch EXCEPT ![f] = n]
BY FrontendVtIs DEF VtTaken

\* The VT connection a client had is listed for closing.
LEMMA SupersededFit ==
  ASSUME NEW s, NEW K, Fit(s, K), NEW f \in Fds, IsFresh(s, f), NEW c \in s.clients
  PROVE  LET t == IF c.vt = None THEN s ELSE VtListed(s, c.vt, None)
         IN  Fit(t, K) /\ IsFresh(t, f) /\ Differ(s, t, {"vtClose"})
<1>1. CASE c.vt = None
  BY <1>1 DEF Differ
<1>2. CASE c.vt # None
  <2> DEFINE g == c.vt
             t == VtListed(s, g, None)
             e == EntryOf(s, g, None)
  <2>1. s \in Store
    BY FitStore
  <2>2. g \in Fds /\ \E d \in s.clients : d.vt = g
    BY <1>2, <2>1 DEF Store, Client
  <2>3. IsVt(s, g) /\ None \in Conns \union {None}
    BY <2>2, IsVtUse
  <2>4. g # f
    BY <2>2 DEF IsFresh, Fresh, Used, VtUse
  <2> HIDE DEF g
  <2>5. /\ Fit(t, K) /\ Differ(s, t, {"vtClose"})
        /\ Range(t.vtClose) \subseteq Range(s.vtClose) \union {e}
    BY <2>2, <2>3, VtListedFit
  <2>6. e.fd = g
    BY <2>1, <2>2, <2>3, EntryOfIs
  <2> HIDE DEF t, e
  <2>7. /\ t.open = s.open /\ t.vtWatch = s.vtWatch /\ t.vtHalf = s.vtHalf
        /\ t.ctlWatch = s.ctlWatch /\ t.ctlHalf = s.ctlHalf /\ t.outq = s.outq
        /\ t.unregistered = s.unregistered /\ t.clients = s.clients /\ t.waiters = s.waiters
        /\ t.pod = s.pod /\ t.noted = s.noted /\ t.notedBefore = s.notedBefore
        /\ t.toRemove = s.toRemove /\ t.ctlClose = s.ctlClose
    BY <2>5 DEF Differ, Names
  <2>8. VtUse(t, Range(t.vtClose), f) => VtUse(s, Range(s.vtClose), f)
    BY <2>4, <2>5, <2>6, <2>7 DEF VtUse, IsNoted
  <2>9. /\ CtlUse(t, Range(t.ctlClose), f) <=> CtlUse(s, Range(s.ctlClose), f)
        /\ CliUse(t, f) <=> CliUse(s, f)
    BY <2>7 DEF CtlUse, CliUse, IsNoted
  <2>10. IsFresh(t, f)
    BY <2>7, <2>8, <2>9 DEF IsFresh, Fresh, Used
  <2> QED BY <1>2, <2>5, <2>10 DEF t, g
<1> QED BY <1>1, <1>2

LEMMA FrontendVtInv == ASSUME IInv, Calm, FrontendVt PROVE IInv'
<1> DEFINE f == LowestFree(ses)
           a == Accepted(ses)
<1>1. CanOpen(ses) /\ next' = next + 1
  BY DEF FrontendVt
<1>2. PICK c \in a.clients :
        LET t == IF c.vt = None THEN a ELSE VtListed(a, c.vt, None)
        IN  Becomes([t EXCEPT
              !.clients = (t.clients \ {c}) \union {[c EXCEPT !.vt = f, !.vtWho = next]},
              !.vtWatch[f] = IF t.vtWatch[f] = None THEN next ELSE t.vtWatch[f]], {}, {})
  BY DEF FrontendVt
<1>3. /\ Fit(a, 1 .. next) /\ IsFresh(a, f) /\ f \in Fds /\ a.toAdd = {} /\ a.toRemove = {}
      /\ a.open[f] = next /\ next \in Conns
  BY <1>1, ConnFinds
<1> HIDE DEF a, f
<1> DEFINE b == IF c.vt = None THEN a ELSE VtListed(a, c.vt, None)
           d == [c EXCEPT !.vt = f, !.vtWho = next]
           n == IF b.vtWatch[f] = None THEN next ELSE b.vtWatch[f]
           t == VtTaken(b, c, d, f, n)
<1>4. Fit(b, 1 .. next) /\ IsFresh(b, f) /\ Differ(a, b, {"vtClose"})
  BY <1>3, SupersededFit
<1>5. Becomes(t, {}, {})
  BY <1>2 DEF VtTaken
<1> HIDE DEF b
<1>6. /\ b.toRemove = {} /\ b.toAdd = {} /\ b.open[f] = next /\ b.clients = a.clients
      /\ b \in Store
  BY <1>3, <1>4, FitStore DEF Differ, Names
<1>7. b.vtWatch[f] = None
  BY <1>4, <1>6 DEF IsFresh, Fresh, Used, VtUse
<1>8. c \in Client
  BY <1>6 DEF Store
<1>9. d \in Client /\ d.ctl = c.ctl /\ d.who = c.who /\ d.vt = f /\ d.vtWho = next
  BY <1>3, <1>8 DEF Client
<1>10. n = next /\ n \in Conns \union {None}
  BY <1>3, <1>7
<1> HIDE DEF d, n
<1>11. b \in Store /\ f \in Fds /\ d \in Client /\ n \in Conns \union {None}
  BY <1>3, <1>6, <1>9, <1>10
<1>12. /\ t \in Store
       /\ Differ(b, t, {"clients", "vtWatch"})
       /\ t.clients = (b.clients \ {c}) \union {d}
       /\ t.vtWatch = [b.vtWatch EXCEPT ![f] = n]
  <2>1. /\ VtTaken(b, c, d, f, n) \in Store
        /\ Differ(b, VtTaken(b, c, d, f, n), {"clients", "vtWatch"})
        /\ VtTaken(b, c, d, f, n).clients = (b.clients \ {c}) \union {d}
        /\ VtTaken(b, c, d, f, n).vtWatch = [b.vtWatch EXCEPT ![f] = n]
    <3> HIDE DEF t
    <3> QED BY <1>8, <1>11, VtTakenIs
  <2> QED BY <2>1
<1> HIDE DEF t
<1>13. b.vtWatch \in [Fds -> Conns \union {None}]
  BY <1>6 DEF Store
<1>14. t.vtWatch[f] = b.open[f] /\ \A g \in Fds \ {f} : t.vtWatch[g] = b.vtWatch[g]
  BY <1>3, <1>6, <1>10, <1>12, <1>13
<1>15. f \notin b.toRemove /\ c \in b.clients /\ d.vtWho = b.open[f]
  BY <1>6, <1>9
<1>16. Good(t, Range(b.ctlClose), Range(b.vtClose), 1 .. next)
  <2> DEFINE C == Range(b.ctlClose)
             V == Range(b.vtClose)
             K == 1 .. next
  <2>1. Good(b, C, V, K) /\ Fresh(b, C, V, f)
    BY <1>4 DEF Fit, IsFresh
  <2> HIDE DEF C, V, K
  <2>2. d.vtWho = b.open[f] /\ t.vtWatch[f] = b.open[f]
    BY <1>14, <1>15
  <2>3. Good(t, C, V, K)
    <3>1. f \notin b.toRemove /\ c \in b.clients /\ d \in Client /\ t \in Store
      BY <1>9, <1>12, <1>15
    <3>2. d.ctl = c.ctl /\ d.who = c.who /\ d.vt = f
      BY <1>9
    <3>3. Differ(b, t, {"clients", "vtWatch"}) /\ t.clients = (b.clients \ {c}) \union {d}
      BY <1>12
    <3>4. \A g \in Fds \ {f} : t.vtWatch[g] = b.vtWatch[g]
      BY <1>14
    <3> QED BY <2>1, <2>2, <3>1, <3>2, <3>3, <3>4, FrontendVtGood
  <2> QED BY <2>3 DEF C, V, K
<1>17. t.ctlClose = b.ctlClose /\ t.vtClose = b.vtClose /\ t.toAdd = {}
  BY <1>6, <1>12 DEF Differ, Names
<1>18. Fit(t, 1 .. next)
  BY <1>4, <1>16, <1>17 DEF Fit
<1> QED BY <1>1, <1>5, <1>17, <1>18, ConnLeaves

-----------------------------------------------------------------------------
(* A watcher fires                                                         *)

\* What the watcher of a control connection finds when it fires.
LEMMA CtlFinds ==
  ASSUME IInv, NEW f \in Fds, CtlFires(f)
  PROVE  /\ closing = "none"
         /\ Fit(ses, 1 .. next - 1) /\ IsCtl(ses, f)
         /\ ses.ctlWatch[f] = ses.open[f] /\ ses.open[f] \in Conns
         /\ Fit(CtlReadOn(ses, f), 1 .. next - 1) /\ IsCtl(CtlReadOn(ses, f), f)
         /\ Differ(ses, CtlReadOn(ses, f), {"ctlHalf"})
<1> DEFINE s == CtlReadOn(ses, f)
           K == 1 .. next - 1
<1>1. closing = "none" /\ ses.ctlWatch[f] # None
  BY DEF CtlFires, IInv, TypeOK
<1>2. Fit(ses, K)
  BY <1>1, HandlerFinds
<1> HIDE DEF K
<1>3. IsCtl(ses, f) /\ ses.ctlWatch[f] = ses.open[f]
  BY <1>1, <1>2, IsCtlUse
<1>4. ses \in Store
  BY <1>2, FitStore
<1>5. ses.open[f] \in Conns
  BY <1>1, <1>3, <1>4 DEF Store
<1>6. Fit(s, K) /\ Differ(ses, s, {"ctlHalf"})
  BY <1>2, CtlReadOnFit
<1> HIDE DEF s
<1>7. s.ctlWatch = ses.ctlWatch
  BY <1>6 DEF Differ, Names
<1>8. IsCtl(s, f)
  BY <1>1, <1>6, <1>7, IsCtlUse
<1> QED BY <1>1, <1>2, <1>3, <1>5, <1>6, <1>8 DEF s, K

LEMMA FiredLeaves ==
  ASSUME IInv, closing = "none", NEW t, NEW ended, NEW spent, Becomes(t, ended, spent),
         next' = next, Fit(t, 1 .. next - 1), t.toAdd = ses.toAdd
  PROVE  IInv'
<1>1. next' \in 1 .. MaxConns + 1
  BY DEF IInv, TypeOK
<1>2. Ticker \in ready => t.toAdd = {}
  BY HandlerFinds
<1> QED BY <1>1, <1>2, HandlerLeaves

LEMMA CtlOutcomesAre == CtlOutcomes \subseteq Outcomes
BY DEF CtlOutcomes, Outcomes

\* requests,
LEMMA CtlHalfInv == ASSUME IInv, NEW f \in Fds, CtlHalf(f) PROVE IInv'
<1> DEFINE K == 1 .. next - 1
           s == CtlReadOn(ses, f)
           n == <<"ctl", ses.ctlWatch[f]>>
           t == [s EXCEPT !.ctlHalf[f] = {ses.open[f]}]
<1>1. CtlFires(f) /\ next' = next /\ Becomes(t, {}, {n})
  BY DEF CtlHalf
<1>2. /\ closing = "none" /\ Fit(s, K) /\ IsCtl(s, f)
      /\ Differ(ses, s, {"ctlHalf"}) /\ ses.open[f] \in Conns
  BY <1>1, CtlFinds
<1> HIDE DEF s, n
<1>3. s \in Store /\ {ses.open[f]} \in SUBSET Conns
  BY <1>2, FitStore
<1>4. t \in Store /\ Differ(s, t, {"ctlHalf"}) /\ t.ctlHalf = [s.ctlHalf EXCEPT ![f] = {ses.open[f]}]
  BY <1>3, CtlHalfSetIs
<1> HIDE DEF t
<1>5. s.open = ses.open /\ s.toAdd = ses.toAdd
  BY <1>2 DEF Differ, Names
<1>6. /\ t.ctlWatch = s.ctlWatch /\ t.outq = s.outq /\ t.unregistered = s.unregistered
      /\ t.toAdd = s.toAdd
  BY <1>4 DEF Differ, Names
<1>7. s.ctlHalf \in [Fds -> SUBSET Conns]
  BY <1>3 DEF Store
<1>8. t.ctlHalf[f] = {s.open[f]} /\ \A g \in Fds \ {f} : t.ctlHalf[g] = s.ctlHalf[g]
  BY <1>4, <1>5, <1>7
<1>9. s.ctlWatch[f] \in {None, s.open[f]} /\ s.outq[f] \subseteq {s.open[f]}
  BY <1>2 DEF Fit, Good, Own
<1>10. Differ(s, t, {"ctlWatch", "ctlHalf", "outq", "unregistered"})
  BY <1>4 DEF Differ
<1>11. CtlMore(s, t, f)
  BY <1>4, <1>6, <1>8, <1>9, <1>10 DEF CtlMore
<1>12. Fit(t, K)
  BY <1>2, <1>11, CtlMoreFit
<1> QED BY <1>1, <1>2, <1>5, <1>6, <1>12, FiredLeaves

LEMMA CtlHangupInv == ASSUME IInv, NEW f \in Fds, CtlHangup(f) PROVE IInv'
<1> DEFINE K == 1 .. next - 1
           n == <<"ctl", ses.ctlWatch[f]>>
           t == CtlListed(ses, f, ses.ctlWatch[f])
<1>1. CtlFires(f) /\ next' = next /\ Becomes(t, {n}, {n})
  BY DEF CtlHangup
<1>2. /\ closing = "none" /\ Fit(ses, K) /\ IsCtl(ses, f)
      /\ ses.ctlWatch[f] = ses.open[f] /\ ses.open[f] \in Conns
  BY <1>1, CtlFinds
<1> HIDE DEF n
<1>3. Fit(t, K) /\ Differ(ses, t, {"ctlClose"})
  BY <1>2, CtlListedFit
<1> HIDE DEF t
<1>4. t.toAdd = ses.toAdd
  BY <1>3 DEF Differ, Names
<1> QED BY <1>1, <1>2, <1>3, <1>4, FiredLeaves

LEMMA CtlRequestInv == ASSUME IInv, NEW f \in Fds, CtlRequest(f) PROVE IInv'
<1> DEFINE K == 1 .. next - 1
           s == CtlReadOn(ses, f)
           n == <<"ctl", ses.ctlWatch[f]>>
           c == [ctl |-> f, vt |-> None, who |-> s.open[f], vtWho |-> None]
           t == IF ClientAt(s, f) # {} THEN s ELSE [s EXCEPT !.clients = s.clients \union {c}]
<1>1. CtlFires(f) /\ next' = next
  BY DEF CtlRequest
<1>2. PICK o \in CtlOutcomes : Becomes(Replied(t, f, o), {}, {n})
  BY DEF CtlRequest
<1>3. /\ closing = "none" /\ Fit(s, K) /\ IsCtl(s, f)
      /\ Differ(ses, s, {"ctlHalf"}) /\ ses.open[f] \in Conns
      /\ ses.ctlWatch[f] = ses.open[f]
  BY <1>1, CtlFinds
<1> HIDE DEF s, n
<1>4. s \in Store /\ s.open = ses.open /\ s.ctlWatch = ses.ctlWatch /\ s.toAdd = ses.toAdd
  BY <1>3, FitStore DEF Differ, Names
<1>5. s.ctlWatch[f] # None
  BY <1>3, <1>4 DEF Conns, None
<1>6. c \in Client /\ c.ctl = f /\ c.vt = None /\ c.who = s.open[f]
  BY <1>3, <1>4 DEF Client
<1> HIDE DEF c
<1>7. Fit(t, K) /\ t.ctlWatch = s.ctlWatch /\ t.toAdd = s.toAdd
  <2>1. CASE ClientAt(s, f) # {}
    BY <1>3, <2>1
  <2>2. CASE ClientAt(s, f) = {}
    <3> DEFINE u == [s EXCEPT !.clients = s.clients \union {c}]
               C == Range(s.ctlClose)
               V == Range(s.vtClose)
    <3>1. u \in Store /\ Differ(s, u, {"clients"}) /\ u.clients = s.clients \union {c}
      BY <1>4, <1>6, ClientAddedIs
    <3>2. t = u
      BY <2>2
    <3> HIDE DEF u
    <3>3. Good(s, C, V, K) /\ CtlMay(s, V, f)
      BY <1>3 DEF Fit, IsCtl
    <3> HIDE DEF C, V, K
    <3>4. Good(u, C, V, K)
      BY <1>6, <2>2, <3>1, <3>3, ClientAddedGood
    <3>5. /\ u.ctlClose = s.ctlClose /\ u.vtClose = s.vtClose
          /\ u.ctlWatch = s.ctlWatch /\ u.toAdd = s.toAdd
      BY <3>1 DEF Differ, Names
    <3>6. Fit(u, K)
      BY <1>3, <3>4, <3>5 DEF Fit, C, V
    <3> QED BY <3>2, <3>5, <3>6
  <2> QED BY <2>1, <2>2
<1> DEFINE r == Replied(t, f, o)
<1>8. Becomes(r, {}, {n})
  BY <1>2
<1> HIDE DEF t
<1>9. IsCtl(t, f) /\ o \in Outcomes
  BY <1>5, <1>7, IsCtlUse, CtlOutcomesAre
<1>10. Fit(r, K) /\ Differ(t, r, {"outq", "ctlClose"})
  BY <1>7, <1>9, RepliedFit
<1> HIDE DEF r
<1>11. r.toAdd = ses.toAdd
  BY <1>4, <1>7, <1>10 DEF Differ, Names
<1> QED BY <1>1, <1>3, <1>8, <1>10, <1>11, FiredLeaves

LEMMA CtlDetachInv == ASSUME IInv, Calm, NEW f \in Fds, CtlDetach(f) PROVE IInv'
<1> DEFINE K == 1 .. next - 1
           s == CtlReadOn(ses, f)
           n == <<"ctl", ses.ctlWatch[f]>>
<1>1. CtlFires(f) /\ next' = next
  BY DEF CtlDetach
<1>2. PICK c \in ClientAt(s, f), parked \in SUBSET Parkable(s), o \in CtlOutcomes :
        Becomes(Removed(Replied(s, f, o), c, parked), {n}, {n})
  BY DEF CtlDetach
<1>3. closing = "none" /\ Fit(s, K) /\ IsCtl(s, f) /\ Differ(ses, s, {"ctlHalf"})
  BY <1>1, CtlFinds
<1> DEFINE r == Replied(s, f, o)
           t == Removed(r, c, parked)
<1>4. Becomes(t, {n}, {n})
  BY <1>2
<1> HIDE DEF s, n, K
<1>5. o \in Outcomes
  BY CtlOutcomesAre
<1>6. Fit(r, K) /\ Differ(s, r, {"outq", "ctlClose"})
  BY <1>3, <1>5, RepliedFit
<1> HIDE DEF r
<1>7. r.clients = s.clients /\ r.pod = s.pod /\ r.toAdd = ses.toAdd /\ s.toAdd = ses.toAdd
  BY <1>3, <1>6 DEF Differ, Names
<1>8. parked \in SUBSET Panes /\ PodFds(s, parked) \intersect s.toAdd = {}
  BY ParkableIs DEF Calm
<1>9. c \in r.clients /\ PodFds(r, parked) \intersect r.toAdd = {}
  BY <1>2, <1>7, <1>8 DEF PodFds, ClientAt
<1>10. Fit(t, K) /\ t.toAdd = r.toAdd
  BY <1>6, <1>8, <1>9, RemovedFit
<1> HIDE DEF t
<1>11. t.toAdd = ses.toAdd
  BY <1>7, <1>10
<1> QED BY <1>1, <1>3, <1>4, <1>10, <1>11, FiredLeaves DEF K

LEMMA CtlDisconnectInv == ASSUME IInv, Calm, NEW f \in Fds, CtlDisconnect(f) PROVE IInv'
<1> DEFINE K == 1 .. next - 1
           s == CtlReadOn(ses, f)
           m == ses.ctlWatch[f]
           n == <<"ctl", m>>
<1>1. CtlFires(f) /\ next' = next
  BY DEF CtlDisconnect
<1>2. PICK c \in ClientAt(s, f), parked \in SUBSET Parkable(s), o \in CtlOutcomes :
        Becomes(CtlListed(Removed(Replied(s, f, o), c, parked), f, n[2]), {n}, {n})
  BY DEF CtlDisconnect
<1>3. /\ closing = "none" /\ Fit(s, K) /\ IsCtl(s, f) /\ Differ(ses, s, {"ctlHalf"})
      /\ m \in Conns
  BY <1>1, CtlFinds
<1> DEFINE r == Replied(s, f, o)
           t == Removed(r, c, parked)
           u == CtlListed(t, f, m)
<1>4. Becomes(u, {n}, {n})
  BY <1>2
<1> HIDE DEF s, n, K, m
<1>5. o \in Outcomes
  BY CtlOutcomesAre
<1>6. Fit(r, K) /\ Differ(s, r, {"outq", "ctlClose"})
  BY <1>3, <1>5, RepliedFit
<1> HIDE DEF r
<1>7. r.clients = s.clients /\ r.pod = s.pod /\ r.toAdd = ses.toAdd /\ s.toAdd = ses.toAdd
  BY <1>3, <1>6 DEF Differ, Names
<1>8. parked \in SUBSET Panes /\ PodFds(s, parked) \intersect s.toAdd = {}
  BY ParkableIs DEF Calm
<1>9. c \in r.clients /\ PodFds(r, parked) \intersect r.toAdd = {} /\ c.ctl = f
  BY <1>2, <1>7, <1>8 DEF PodFds, ClientAt
<1>10. Fit(t, K) /\ t.toAdd = r.toAdd /\ IsNoted(t, c.ctl)
  BY <1>6, <1>8, <1>9, RemovedFit
<1> HIDE DEF t
<1>11. IsNoted(t, f)
  BY <1>9, <1>10
<1>12. Fit(u, K) /\ Differ(t, u, {"ctlClose"})
  BY <1>3, <1>10, <1>11, CtlListedFit
<1> HIDE DEF u
<1>13. u.toAdd = ses.toAdd
  BY <1>7, <1>10, <1>12 DEF Differ, Names
<1> QED BY <1>1, <1>3, <1>4, <1>12, <1>13, FiredLeaves DEF K

LEMMA CtlStealInv == ASSUME IInv, Calm, NEW f \in Fds, CtlSteal(f) PROVE IInv'
<1> DEFINE K == 1 .. next - 1
           s == CtlReadOn(ses, f)
           n == <<"ctl", ses.ctlWatch[f]>>
<1>1. CtlFires(f) /\ next' = next
  BY DEF CtlSteal
<1>2. PICK c \in ClientAt(s, f), d \in s.clients, parked \in SUBSET Parkable(s), o \in CtlOutcomes :
        d # c /\ Becomes(Replied(Removed(s, d, parked), f, o), {}, {n})
  BY DEF CtlSteal
<1>3. closing = "none" /\ Fit(s, K) /\ Differ(ses, s, {"ctlHalf"})
  BY <1>1, CtlFinds
<1> DEFINE t == Removed(s, d, parked)
           u == Replied(t, f, o)
<1>4. Becomes(u, {}, {n})
  BY <1>2
<1> HIDE DEF s, n, K
<1>5. parked \in SUBSET Panes /\ PodFds(s, parked) \intersect s.toAdd = {}
  BY ParkableIs DEF Calm
<1>6. Fit(t, K) /\ t.toAdd = s.toAdd /\ t.clients = s.clients \ {d}
  BY <1>3, <1>5, RemovedFit
<1> HIDE DEF t
<1>7. c \in t.clients /\ c.ctl = f
  BY <1>2, <1>6 DEF ClientAt
<1>8. IsCtl(t, f) /\ o \in Outcomes
  BY <1>6, <1>7, IsCtlUse, CtlOutcomesAre
<1>9. Fit(u, K) /\ Differ(t, u, {"outq", "ctlClose"})
  BY <1>6, <1>8, RepliedFit
<1> HIDE DEF u
<1>10. u.toAdd = ses.toAdd
  BY <1>3, <1>6, <1>9 DEF Differ, Names
<1> QED BY <1>1, <1>3, <1>4, <1>9, <1>10, FiredLeaves DEF K

LEMMA CtlKillInv == ASSUME IInv, Calm, NEW f \in Fds, CtlKill(f) PROVE IInv'
<1> DEFINE K == 1 .. next - 1
           s == CtlReadOn(ses, f)
           n == <<"ctl", ses.ctlWatch[f]>>
<1>1. CtlFires(f) /\ next' = next
  BY DEF CtlKill
<1>2. PICK p \in Parkable(s), o \in CtlOutcomes :
        Becomes(Replied(PodsClosed(s, {p}), f, o), {}, {n})
  BY DEF CtlKill
<1>3. /\ closing = "none" /\ Fit(s, K) /\ Differ(ses, s, {"ctlHalf"})
      /\ ses.ctlWatch[f] \in Conns
  BY <1>1, CtlFinds
<1> DEFINE t == PodsClosed(s, {p})
           u == Replied(t, f, o)
<1>4. Becomes(u, {}, {n})
  BY <1>2
<1> HIDE DEF s, n, K
<1>5. {p} \in SUBSET Panes /\ PodFds(s, {p}) \intersect s.toAdd = {}
  <2>1. {p} \in SUBSET Parkable(s)
    OBVIOUS
  <2> QED BY <2>1, ParkableIs DEF Calm
<1>6. Fit(t, K) /\ Differ(s, t, {"open", "noted", "toRemove", "pod", "podWho"})
  BY <1>3, <1>5, PodKilledFit
<1> HIDE DEF t
<1>7. t.ctlWatch = ses.ctlWatch /\ t.toAdd = ses.toAdd
  BY <1>3, <1>6 DEF Differ, Names
<1>8. t.ctlWatch[f] # None
  BY <1>3, <1>7 DEF Conns, None
<1>9. IsCtl(t, f) /\ o \in Outcomes
  BY <1>6, <1>8, IsCtlUse, CtlOutcomesAre
<1>10. Fit(u, K) /\ Differ(t, u, {"outq", "ctlClose"})
  BY <1>6, <1>9, RepliedFit
<1> HIDE DEF u
<1>11. u.toAdd = ses.toAdd
  BY <1>7, <1>10 DEF Differ, Names
<1> QED BY <1>1, <1>3, <1>4, <1>10, <1>11, FiredLeaves DEF K

LEMMA CtlAnswerInv == ASSUME IInv, Calm, NEW f \in Fds, CtlAnswer(f) PROVE IInv'
<1> DEFINE K == 1 .. next - 1
           s == CtlReadOn(ses, f)
           n == <<"ctl", ses.ctlWatch[f]>>
<1>1. CtlFires(f) /\ next' = next
  BY DEF CtlAnswer
<1>2. PICK w \in s.waiters, o \in CliOutcomes :
        Becomes(CtlListed(Replied([s EXCEPT !.waiters = s.waiters \ {w}], w.fd, o), w.fd, None),
                {}, {n})
  BY DEF CtlAnswer
<1>3. closing = "none" /\ Fit(s, K) /\ Differ(ses, s, {"ctlHalf"})
  BY <1>1, CtlFinds
<1> DEFINE t == [s EXCEPT !.waiters = s.waiters \ {w}]
           g == w.fd
           r == Replied(t, g, o)
           u == CtlListed(r, g, None)
<1>4. Becomes(u, {}, {n})
  BY <1>2
<1> HIDE DEF s, n, K
<1>5. s \in Store /\ s.waiters \subseteq Waiter
  BY <1>3, FitStore DEF Store
<1>6. g \in Fds /\ CliUse(s, g)
  BY <1>5 DEF Waiter, CliUse
<1>7. s.open[g] # None /\ ~VtUse(s, Range(s.vtClose), g)
  BY <1>3, <1>6, UsesMay DEF Fit
<1>8. t \in Store /\ Differ(s, t, {"waiters"}) /\ t.waiters = s.waiters \ {w}
  BY <1>5, WaitersTakenIs
<1> HIDE DEF t
<1>9. /\ t.open = s.open /\ t.clients = s.clients /\ t.pod = s.pod /\ t.podWho = s.podWho
      /\ t.noted = s.noted /\ t.notedBefore = s.notedBefore
      /\ t.toRemove = s.toRemove /\ t.toAdd = s.toAdd
      /\ t.vtWatch = s.vtWatch /\ t.ctlWatch = s.ctlWatch
      /\ t.ctlClose = s.ctlClose /\ t.vtClose = s.vtClose /\ t.harm = s.harm
      /\ t.ctlHalf = s.ctlHalf /\ t.vtHalf = s.vtHalf
      /\ t.outq = s.outq /\ t.unregistered = s.unregistered
  BY <1>8 DEF Differ, Names
<1>10. Below(s, t)
  BY <1>8, <1>9 DEF Below
<1>11. Fit(t, K)
  BY <1>3, <1>9, <1>10, BelowFit DEF Fit, Good
<1>12. ~CliUse(t, g)
  BY <1>3, <1>8 DEF CliUse, Fit, Good, Apart
<1>13. IsCtl(t, g)
  BY <1>6, <1>7, <1>9, <1>12 DEF IsCtl, CtlMay, VtUse, IsNoted
<1>14. o \in Outcomes
  BY CliOutcomesAre DEF Outcomes
<1> HIDE DEF g
<1>15. Fit(r, K) /\ Differ(t, r, {"outq", "ctlClose"})
  BY <1>6, <1>11, <1>13, <1>14, RepliedFit
<1> HIDE DEF r
<1>16. Differ(t, r, {"ctlWatch", "ctlHalf", "outq", "unregistered", "ctlClose", "harm"})
  BY <1>15 DEF Differ
<1>17. IsCtl(r, g)
  BY <1>13, <1>16, IsCtlSame
<1>18. Fit(u, K) /\ Differ(r, u, {"ctlClose"})
  BY <1>6, <1>15, <1>17, CtlListedFit
<1> HIDE DEF u
<1>19. u.toAdd = ses.toAdd
  BY <1>3, <1>9, <1>15, <1>18 DEF Differ, Names
<1> QED BY <1>1, <1>3, <1>4, <1>18, <1>19, FiredLeaves DEF K

\* frames of a VT connection,
LEMMA VtFinds ==
  ASSUME IInv, NEW f \in Fds, VtFires(f)
  PROVE  /\ closing = "none" /\ ses.vtWatch[f] \in Conns
         /\ Fit(ses, 1 .. next - 1)
         /\ \/ IsNoted(ses, f) /\ f \in ses.toRemove
            \/ IsVt(ses, f) /\ ses.vtWatch[f] = ses.open[f]
<1> DEFINE K == 1 .. next - 1
<1>1. closing = "none" /\ ses.vtWatch[f] # None
  BY DEF VtFires, IInv, TypeOK
<1>2. Fit(ses, K)
  BY <1>1, HandlerFinds
<1> HIDE DEF K
<1>3. ses.vtWatch[f] \in Conns
  BY <1>1, <1>2, FitStore DEF Store
<1>4. CASE f \in ses.toRemove
  BY <1>1, <1>2, <1>3, <1>4 DEF Fit, Good, Stale, K
<1>5. CASE f \notin ses.toRemove
  <2>1. VtUse(ses, Range(ses.vtClose), f)
    BY <1>1, <1>5 DEF VtUse
  <2>2. IsVt(ses, f)
    BY <1>2, <2>1, UsesMay DEF Fit, IsVt
  <2>3. ses.vtWatch[f] = ses.open[f]
    BY <1>1, <1>2, <1>5 DEF Fit, Good, Own
  <2> QED BY <1>1, <1>2, <1>3, <2>2, <2>3 DEF K
<1> QED BY <1>4, <1>5

LEMMA VtReadInv == ASSUME IInv, NEW f \in Fds, VtRead(f) PROVE IInv'
<1> DEFINE K == 1 .. next - 1
           s == VtReadOn(ses, f)
           n == <<"vt", ses.vtWatch[f]>>
           t == [s EXCEPT !.vtHalf[f] = {s.open[f]}]
<1>1. VtFires(f) /\ ses.open[f] # None /\ next' = next
  BY DEF VtRead
<1>2. \/ Becomes(s, {}, {n})
      \/ Becomes(t, {}, {n})
      \/ \E g \in RoutedTo(s, f) : Becomes(VtListed(s, g, None), {}, {n})
  BY DEF VtRead
<1>3. /\ closing = "none" /\ Fit(ses, K) /\ ses.vtWatch[f] # None
      /\ "late" \in Faults \/ ses.open[f] = ses.vtWatch[f]
  BY <1>1, VtFinds DEF VtFires, Conns, None
<1>4. Fit(s, K) /\ Differ(ses, s, {"vtHalf", "harm"})
  BY <1>1, <1>3, VtReadOnFit
<1> HIDE DEF s, n, K
<1>5. /\ s.toAdd = ses.toAdd /\ s.open = ses.open /\ s.vtWatch = ses.vtWatch
      /\ s.toRemove = ses.toRemove /\ s \in Store
  BY <1>4, FitStore DEF Differ, Names
<1>6. CASE Becomes(s, {}, {n})
  BY <1>1, <1>3, <1>4, <1>5, <1>6, FiredLeaves DEF K
<1>7. CASE Becomes(t, {}, {n})
  <2> DEFINE C == Range(s.ctlClose)
             V == Range(s.vtClose)
             q == {s.open[f]}
  <2>1. q \in SUBSET Conns
    BY <1>1, <1>5 DEF Store
  <2>2. t \in Store /\ Differ(s, t, {"vtHalf"}) /\ t.vtHalf = [s.vtHalf EXCEPT ![f] = q]
    BY <1>5, <2>1, VtHalfSetIs
  <2>3. Becomes(t, {}, {n})
    BY <1>7
  <2> HIDE DEF t
  <2>4. s.vtHalf \in [Fds -> SUBSET Conns]
    BY <1>5 DEF Store
  <2>5. VtMore(s, t, f)
    BY <2>2, <2>4 DEF VtMore
  <2>6. Good(s, C, V, K)
    BY <1>4 DEF Fit
  <2>7. f \in s.toRemove \/ VtMay(s, C, f)
    <3>1. f \notin s.toRemove => VtUse(s, V, f)
      BY <1>3, <1>5 DEF VtUse
    <3> HIDE DEF C, V
    <3> QED BY <2>6, <3>1, UsesMay
  <2> HIDE DEF C, V
  <2>8. Good(t, C, V, K)
    BY <2>5, <2>6, <2>7, VtMoreGood
  <2>9. t.ctlClose = s.ctlClose /\ t.vtClose = s.vtClose /\ t.toAdd = s.toAdd
    BY <2>2 DEF Differ, Names
  <2>10. Fit(t, K)
    BY <1>4, <2>8, <2>9 DEF Fit, C, V
  <2> QED BY <1>1, <1>3, <1>5, <2>3, <2>9, <2>10, FiredLeaves DEF K
<1>8. ASSUME NEW g \in RoutedTo(s, f), Becomes(VtListed(s, g, None), {}, {n})
      PROVE  IInv'
  <2> DEFINE u == VtListed(s, g, None)
  <2>1. g \in Fds /\ ((\E c \in s.clients : c.vt = g) \/ (\E p \in Panes : s.pod[p] = g))
    <3>1. g \in Fds
      BY DEF RoutedTo
    <3>2. PICK c \in s.clients, p \in Panes : {c.vt, s.pod[p]} = {f, g}
      BY DEF RoutedTo
    <3>3. g = c.vt \/ g = s.pod[p]
      BY <3>2
    <3> QED BY <3>1, <3>3
  <2>2. IsVt(s, g)
    BY <1>4, <2>1, IsVtUse
  <2>3. Fit(u, K) /\ Differ(s, u, {"vtClose"})
    BY <1>4, <2>1, <2>2, VtListedFit
  <2>4. Becomes(u, {}, {n})
    BY <1>8
  <2> HIDE DEF u
  <2>5. u.toAdd = ses.toAdd
    BY <1>5, <2>3 DEF Differ, Names
  <2> QED BY <1>1, <1>3, <2>3, <2>4, <2>5, FiredLeaves DEF K
<1> QED BY <1>2, <1>6, <1>7, <1>8

LEMMA VtHangupInv == ASSUME IInv, NEW f \in Fds, VtHangup(f) PROVE IInv'
<1> DEFINE K == 1 .. next - 1
           n == <<"vt", ses.vtWatch[f]>>
           t == VtListed(ses, f, ses.vtWatch[f])
<1>1. VtFires(f) /\ next' = next /\ Becomes(t, {n}, {n})
  BY DEF VtHangup
<1>2. /\ closing = "none" /\ Fit(ses, K) /\ ses.vtWatch[f] \in Conns
      /\ IsNoted(ses, f) \/ (IsVt(ses, f) /\ ses.vtWatch[f] = ses.open[f])
  BY <1>1, VtFinds
<1> HIDE DEF n, K
<1>3. Fit(t, K) /\ Differ(ses, t, {"vtClose"})
  BY <1>2, VtListedFit
<1> HIDE DEF t
<1>4. t.toAdd = ses.toAdd
  BY <1>3 DEF Differ, Names
<1> QED BY <1>1, <1>2, <1>3, <1>4, FiredLeaves DEF K

\* and the tick.
LEMMA TickInv == ASSUME IInv, Tick PROVE IInv'
<1> DEFINE K == 1 .. next - 1
<1>1. Ticker \in ready /\ closing = "none"
  BY DEF Tick, IInv, TypeOK
<1>2. PICK late \in SUBSET {f \in ses.unregistered : ~IsNoted(ses, f)}, flush \in BOOLEAN :
        LET s == Reaped(ses, late)
            t == IF flush THEN FlushedAll(s) ELSE s
        IN \/ Becomes(t, {}, {Ticker}) /\ UNCHANGED next
           \/ \E p \in Panes : /\ CanOpen(t)
                               /\ Becomes(Dialled(t, p, next), {}, {Ticker})
                               /\ next' = next + 1
  BY DEF Tick
<1> DEFINE s == Reaped(ses, late)
           t == IF flush THEN FlushedAll(s) ELSE s
<1>3. \/ Becomes(t, {}, {Ticker}) /\ next' = next
      \/ \E p \in Panes : /\ CanOpen(t)
                          /\ Becomes(Dialled(t, p, next), {}, {Ticker})
                          /\ next' = next + 1
  BY <1>2
<1>4. Fit(ses, K) /\ ses.toAdd = {} /\ late \in SUBSET ses.unregistered
  BY <1>1, HandlerFinds
<1> HIDE DEF K
<1>5. Fit(s, K) /\ Differ(ses, s, {"unregistered", "ctlClose"})
  BY <1>4, ReapedFit
<1> HIDE DEF s
<1>6. s.toAdd = {}
  BY <1>4, <1>5 DEF Differ, Names
<1>7. Fit(t, K) /\ t.toAdd = {}
  <2>1. CASE flush
    <3> DEFINE u == FlushedAll(s)
    <3>1. Fit(u, K) /\ Differ(s, u, {"outq", "ctlClose"})
      BY <1>5, FlushedAllFit
    <3>2. t = u
      BY <2>1
    <3> HIDE DEF u
    <3> QED BY <1>6, <3>1, <3>2 DEF Differ, Names
  <2>2. CASE ~flush
    BY <1>5, <1>6, <2>2
  <2> QED BY <2>1, <2>2
<1> HIDE DEF t
<1>8. CASE Becomes(t, {}, {Ticker}) /\ next' = next
  BY <1>1, <1>4, <1>7, <1>8, FiredLeaves DEF K
<1>9. ASSUME NEW p \in Panes, CanOpen(t), Becomes(Dialled(t, p, next), {}, {Ticker}),
             next' = next + 1
      PROVE  IInv'
  <2> DEFINE u == Dialled(t, p, next)
  <2>1. next \in Conns /\ \E f \in Fds : t.open[f] = None
    BY <1>9 DEF CanOpen
  <2>2. next \notin K
    BY <2>1, ConnectionAssumption DEF Conns, K
  <2>3. Fit(u, K \union {next})
    BY <1>7, <2>1, <2>2, DialledFit
  <2>4. Becomes(u, {}, {Ticker})
    BY <1>9
  <2> HIDE DEF u
  <2>5. next' \in 1 .. MaxConns + 1 /\ 1 .. next' - 1 = K \union {next}
    BY <1>9, <2>1, ConnectionAssumption DEF Conns, K
  <2>6. Fit(u, 1 .. next' - 1) /\ Ticker \notin ready \ {Ticker}
    BY <2>3, <2>5
  <2> QED BY <1>1, <2>4, <2>5, <2>6, HandlerLeaves
<1> QED BY <1>3, <1>8, <1>9

LEMMA NextInv == ASSUME IInv, Calm, Next PROVE IInv'
<1>1. CASE Turn BY <1>1, TurnInv
<1>2. CASE CtlClose BY <1>2, CtlCloseInv
<1>3. CASE CtlClosesDone BY <1>3, CtlClosesDoneInv
<1>4. CASE VtClose BY <1>4, VtCloseInv
<1>5. CASE VtClosesDone BY <1>5, VtClosesDoneInv
<1>6. CASE TurnAway BY <1>6, TurnAwayInv
<1>7. CASE CliAtOnce BY <1>7, CliAtOnceInv
<1>8. CASE CliListed BY <1>8, CliListedInv
<1>9. CASE CliParked BY <1>9, CliParkedInv
<1>10. CASE FrontendCtl BY <1>10, FrontendCtlInv
<1>11. CASE FrontendVt BY <1>11, FrontendVtInv
<1>12. ASSUME NEW f \in Fds,
              \/ CtlHalf(f) \/ CtlHangup(f) \/ CtlRequest(f) \/ CtlDetach(f)
              \/ CtlDisconnect(f) \/ CtlSteal(f) \/ CtlKill(f) \/ CtlAnswer(f)
              \/ VtRead(f) \/ VtHangup(f)
       PROVE  IInv'
  BY <1>12, CtlHalfInv, CtlHangupInv, CtlRequestInv, CtlDetachInv, CtlDisconnectInv,
     CtlStealInv, CtlKillInv, CtlAnswerInv, VtReadInv, VtHangupInv
<1>13. CASE Tick BY <1>13, TickInv
<1> QED BY <1>1, <1>2, <1>3, <1>4, <1>5, <1>6, <1>7, <1>8, <1>9, <1>10, <1>11, <1>12, <1>13
        DEF Next

LEMMA StutterInv == ASSUME IInv, UNCHANGED vars PROVE IInv'
BY DEF vars, IInv, TypeOK, TablesGood, CtlPending, VtPending

\* The inductive invariant, under every fault that Calm allows.
THEOREM Invariant == Calm => (Spec => []IInv)
<1> SUFFICES ASSUME Calm PROVE Spec => []IInv
  OBVIOUS
<1>1. Init => IInv
  BY InitInv
<1>2. IInv /\ [Next]_vars => IInv'
  BY NextInv, StutterInv
<1> QED BY <1>1, <1>2, PTL DEF Spec

-----------------------------------------------------------------------------
(* What follows                                                            *)

\* The tables keep their types, and a list of closes has one entry for a
\* number (queueCtlClose, queueVtClose).
THEOREM TablesAreTyped == Calm => (Spec => []TypeOK)
<1>1. IInv => TypeOK
  BY DEF IInv
<1> QED BY <1>1, Invariant, PTL

\* Clients, waiters and panes never come to mean somebody else's connection,
\* however descriptors are closed and given out again.
THEOREM RecordsKeep == Calm => (Spec => []RecordsAgree)
<1>1. IInv => RecordsAgree
  BY DEF IInv, TablesGood, Good, Agree, RecordsAgree
<1> QED BY <1>1, Invariant, PTL

\* No entry of a list of closes outlives the connection it was made for: what
\* is not noted (noteClosedFd) is still the one that was listed.
THEOREM ClosesAreOwn == Calm => (Spec => []NoForeignClose)
<1>1. IInv => NoForeignClose
  BY DEF IInv, TablesGood, Good, Averted, NoForeignClose
<1> QED BY <1>1, Invariant, PTL

\* The bytes queued under a number are the ones of its connection
\* (dropCtlReader empties the queue with everything else).
THEOREM BytesAreOwn == Calm => (Spec => []NoCrossedBytes)
<1>1. IInv => NoCrossedBytes
  BY DEF IInv, TablesGood, Good, Averted, NoCrossedBytes
<1> QED BY <1>1, Invariant, PTL

\* A half-read frame is read on by its own connection only, unless the watcher
\* of a pod's closed connection fires for the one dialled anew.
THEOREM FramesAreOwn == Calm /\ "late" \notin Faults => (Spec => []NoSplicedFrame)
<1> SUFFICES ASSUME Calm, "late" \notin Faults PROVE Spec => []NoSplicedFrame
  OBVIOUS
<1>1. IInv => NoSplicedFrame
  BY DEF IInv, TablesGood, Good, Averted, NoSplicedFrame
<1> QED BY <1>1, Invariant, PTL
=============================================================================
