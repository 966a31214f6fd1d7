----------------------------- MODULE PaneSpawn -----------------------------
(***************************************************************************)
(* How the session daemon (SES) creates a pane without waiting for it.     *)
(*                                                                         *)
(* create_pane forks a pod and keeps it in a list of spawns in flight.     *)
(* The reply is sent when the pod has said hello, when it has failed or    *)
(* when its time is up: by the handler itself if the pod is quick, by the  *)
(* 100 ms tick otherwise.  Meanwhile the frontend may hang up, be robbed   *)
(* of its session or have it killed, and the number of its connection may  *)
(* be given to another.  Connections are numbered as they come, which SES  *)
(* never sees; it knows them by descriptor and clients by an id that is    *)
(* never used again.                                                       *)
(*                                                                         *)
(* A frontend waits for the reply to create_pane before it sends anything  *)
(* else on its control channel.  What becomes of the panes of a client     *)
(* that leaves is module SesSession's subject; here they are killed or     *)
(* kept without an owner.  Left out: names, the environment, the limit on  *)
(* panes of a session, the watchers (module SesConnections).               *)
(***************************************************************************)
EXTENDS Naturals, FiniteSets, FiniteSetsExt

CONSTANTS
  MaxFd,      \* bound: descriptors that are ever open at once
  MaxConns,   \* bound: connections that are ever made
  MaxPods,    \* bound: pods that are ever forked
  Keys,       \* of per-directory floats: directory and key
  NoKey,      \* the key of any other pane
  Faults      \* see FaultKinds

\* "deaf":     a pod that has said hello cannot be dialled
\* "together": a float is asked for while its pod is being spawned
FaultKinds == {"deaf", "together"}

ASSUME SpawnAssumption ==
  /\ MaxFd \in Nat \ {0}
  /\ MaxConns \in Nat \ {0}
  /\ MaxPods \in Nat \ {0}
  /\ NoKey \notin Keys
  /\ Faults \subseteq FaultKinds

Fds == 1 .. MaxFd
Conns == 1 .. MaxConns
Pods == 1 .. MaxPods
None == 0
NoFlight == [who |-> None, fd |-> None, key |-> NoKey, late |-> FALSE]
NoPane == [owner |-> None, key |-> NoKey, kept |-> FALSE]

VARIABLES
  ses,      \* the tables of SES and the pods, as one record
  next,     \* the number the next connection gets
  forked,   \* how many pods have been forked
  hungUp    \* connections whose peer has closed its end

vars == <<ses, next, forked, hungUp>>

Client == [fd : Fds, who : Conns]

Store == [
  open : [Fds -> Conns \union {None}],      \* the kernel's table
  noted : SUBSET Fds, notedBefore : SUBSET Fds,   \* the closed-fd log
  closes : SUBSET Fds,                      \* pending_ctl_close_fds
  clients : SUBSET Client,
  flight : [Pods -> [who : Conns \union {None}, fd : Fds \union {None},
                     key : Keys \union {NoKey}, late : BOOLEAN]],
  pane : [Pods -> [owner : Conns \union {None}, key : Keys \union {NoKey},
                   kept : BOOLEAN]],
  alive : SUBSET Pods,
  said : [Pods -> {"nothing", "hello", "noise"}],
  told : [Pods -> {"nothing", "pane", "error"}],  \* histories: what the
  strangers : SUBSET Conns]                 \* requester heard, who else did

Init ==
  /\ ses = [open |-> [f \in Fds |-> None], noted |-> {}, notedBefore |-> {},
            closes |-> {}, clients |-> {},
            flight |-> [p \in Pods |-> NoFlight], pane |-> [p \in Pods |-> NoPane],
            alive |-> {}, said |-> [p \in Pods |-> "nothing"],
            told |-> [p \in Pods |-> "nothing"], strangers |-> {}]
  /\ next = 1
  /\ forked = 0
  /\ hungUp = {}
-----------------------------------------------------------------------------
\* The function f, except where g says otherwise.
Put(f, g) ==
  [x \in DOMAIN f \union DOMAIN g |-> IF x \in DOMAIN g THEN g[x] ELSE f[x]]

Open(s) == {s.open[f] : f \in Fds} \ {None}

InFlight(s) == {p \in Pods : s.flight[p] # NoFlight}

\* A frontend blocks on its request.
Waits(s, c) == \E p \in InFlight(s) : s.flight[p].who = c.who

IsNoted(s, f) == f \in s.noted \union s.notedBefore

\* sendCtlFrame: a write that fails lists the descriptor for closing.
Unwritable(s, fs) == {f \in fs : s.open[f] \in hungUp \union {None}}

Written(s, f) == [s EXCEPT !.closes = @ \union Unwritable(s, {f})]

\* replyDeferred goes by the descriptor, unless it is noted as closed.
Sent(s, P) == {p \in P : ~IsNoted(s, s.flight[p].fd)}
Heard(s, P) == {p \in Sent(s, P) : s.open[s.flight[p].fd] = s.flight[p].who}
Overheard(s, P) ==
  {s.open[s.flight[p].fd] : p \in Sent(s, P) \ Heard(s, P)} \ {None}

StillOnTheList(s, P) == s.flight

OffTheList(s, P) == Put(s.flight, [p \in P |-> NoFlight])

\* abortCreatePane, killPane: the pods are terminated.
AbortedOnly(s, P) == s.alive

Aborted(s, P) == s.alive \ P

\* The pane finishCreatePane inserts, for good unless it cannot be dialled or
\* given to the client.
Inserted(s, p) == [owner |-> s.flight[p].who, key |-> s.flight[p].key, kept |-> TRUE]

IsClient(s, c) == \E x \in s.clients : x.who = c

Finished(s, P, deaf) == {p \in P \ deaf : p \in s.alive /\ IsClient(s, s.flight[p].who)}

\* The spawns that have made a pane and those that failed (failPendingSpawn)
\* are over: whoever asked is told.
Answered(s, made, failed) ==
  LET over == made \union failed
  IN [s EXCEPT
        !.flight = OffTheList(s, over),
        !.said = Put(@, [p \in over |-> "nothing"]),
        !.pane = Put(@, [p \in made |-> Inserted(s, p)]),
        !.alive = Aborted(s, failed),
        !.told = Put(@, [p \in Heard(s, over) |-> IF p \in made THEN "pane" ELSE "error"]),
        !.closes = @ \union Unwritable(s, {s.flight[p].fd : p \in Sent(s, over)}),
        !.strangers = @ \union Overheard(s, over)]

NeverExpired(s, p) == FALSE

Expired(s, p) == s.flight[p].late

\* processPendingSpawns.  What it does for one spawn touches nothing it reads
\* for another.  deaf: the pods that cannot be dialled.
Processed(s, deaf) ==
  LET ready == {p \in InFlight(s) : s.said[p] = "hello"}
      made == Finished(s, ready, deaf)
      over == {p \in InFlight(s) \ ready :
                 s.said[p] = "noise" \/ p \notin s.alive \/ Expired(s, p)}
  IN Answered(s, made, (ready \ made) \union over)

DeafPods == IF "deaf" \in Faults THEN SUBSET Pods ELSE {{}}

PurgedKeeping(s, C) == s

\* purgeClientFdState: spawns in flight for the clients are cancelled
\* (cancelPendingSpawnsForClient).
Purged(s, C) ==
  Answered(s, {}, {p \in InFlight(s) : \E c \in C : s.flight[p].who = c.who})

Owned(s, C) == {p \in Pods : \E c \in C : s.pane[p].owner = c.who}

\* The clients go, of their panes those in killed with them.
Left(s, C, killed) ==
  LET fds == {c.fd : c \in C}
  IN [s EXCEPT
        !.pane = Put(@, [p \in Owned(s, C) |-> IF p \in killed THEN NoPane
                                               ELSE [s.pane[p] EXCEPT !.owner = None]]),
        !.alive = Aborted(s, killed),
        !.clients = @ \ C,
        !.open = Put(@, [f \in fds |-> None]),
        !.noted = @ \union fds]

Removed(s, C, killed) == Left(Purged(s, C), C, killed)

-----------------------------------------------------------------------------
(* The loop of SES.                                                        *)

\* processPendingCtlCloses, rotateClosedFdLog.  Clients that are lost have
\* their panes parked, or killed if they have no session.  What is listed
\* meanwhile goes with the list.
Turn ==
  /\ ses.closes # {} \/ ses.noted # {} \/ ses.notedBefore # {}
  /\ LET fs == {f \in ses.closes : ~IsNoted(ses, f)}
         lost == {c \in ses.clients : c.fd \in fs}
     IN \E parked \in SUBSET lost :
          LET t == Removed(ses, lost, Owned(ses, lost \ parked))
          IN ses' = [t EXCEPT
                       !.open = Put(@, [f \in fs |-> None]),
                       !.closes = {}, !.notedBefore = t.noted, !.noted = {}]
  /\ UNCHANGED <<next, forked, hungUp>>

\* The part of the tick that is about spawns.
Tick ==
  /\ InFlight(ses) # {}
  /\ \E deaf \in DeafPods : ses' = Processed(ses, deaf)
  /\ UNCHANGED <<next, forked, hungUp>>

LowestFree(s) == Min({f \in Fds : s.open[f] = None})

Connect ==
  /\ next \in Conns
  /\ \E f \in Fds : ses.open[f] = None
  /\ LET f == LowestFree(ses)
     IN ses' = [ses EXCEPT !.open[f] = next,
                           !.clients = @ \union {[fd |-> f, who |-> next]}]
  /\ next' = next + 1
  /\ UNCHANGED <<forked, hungUp>>

\* The watcher of the control channel sees the end of the stream.
HangupSeen(f) ==
  /\ ses.open[f] \in hungUp
  /\ f \notin ses.closes
  /\ ses' = [ses EXCEPT !.closes = @ \union {f}]
  /\ UNCHANGED <<next, forked, hungUp>>

\* findStickyPaneWithAffinity: attached, parked or free, if its pod lives.
Reusable(s, k) == {p \in s.alive : s.pane[p].kept /\ s.pane[p].key = k}

\* create_pane for a float that has a pane already: it is taken over.
Reuse(c, k) ==
  /\ c \in ses.clients /\ ~Waits(ses, c)
  /\ k \in Keys
  /\ \E p \in Reusable(ses, k) :
       ses' = Written([ses EXCEPT !.pane[p].owner = c.who], c.fd)
  /\ UNCHANGED <<next, forked, hungUp>>

\* create_pane (beginCreatePane, trackPendingSpawn).  The pod gets a moment
\* to say hello, then every spawn in flight is looked at.  A frontend registers
\* before it asks, and by then its number is no longer noted.
Create(c, k) ==
  /\ c \in ses.clients /\ ~Waits(ses, c) /\ ~IsNoted(ses, c.fd)
  /\ k = NoKey \/ Reusable(ses, k) = {}
  /\ "together" \in Faults \/ k = NoKey \/ \A p \in InFlight(ses) : ses.flight[p].key # k
  /\ forked < MaxPods
  /\ LET p == forked + 1
     IN \E said \in {"nothing", "hello", "noise"}, deaf \in DeafPods :
          ses' = Processed([ses EXCEPT
                              !.flight[p] = [who |-> c.who, fd |-> c.fd, key |-> k,
                                             late |-> FALSE],
                              !.alive = @ \union {p}, !.said[p] = said], deaf)
  /\ forked' = forked + 1
  /\ UNCHANGED <<next, hungUp>>

\* detach and disconnect, by a frontend that waits for nothing.
Detach(c) ==
  /\ c \in ses.clients /\ ~Waits(ses, c)
  /\ ses' = Left(Written(ses, c.fd), {c}, {})
  /\ UNCHANGED <<next, forked, hungUp>>

Disconnect(c) ==
  /\ c \in ses.clients /\ ~Waits(ses, c)
  /\ \E killed \in SUBSET Owned(ses, {c}) :
       ses' = Removed(Written(ses, c.fd), {c}, killed)
  /\ UNCHANGED <<next, forked, hungUp>>

\* reattach by force: the session of another client is taken
\* (forceDetachWithPurge).
Steal(c, d) ==
  /\ {c, d} \subseteq ses.clients /\ c # d /\ ~Waits(ses, d)
  /\ ses' = Written(Removed(ses, {c}, {}), d.fd)
  /\ UNCHANGED <<next, forked, hungUp>>

\* kill_session, from the command line (killAttachedSessionAt)
KillSession(c) ==
  /\ c \in ses.clients
  /\ ses' = Removed(ses, {c}, Owned(ses, {c}))
  /\ UNCHANGED <<next, forked, hungUp>>

Adopt(c, p) ==
  /\ c \in ses.clients /\ ~Waits(ses, c)
  /\ ses.pane[p].kept /\ ses.pane[p].owner = None
  /\ ses' = Written([ses EXCEPT !.pane[p].owner = c.who], c.fd)
  /\ UNCHANGED <<next, forked, hungUp>>

\* The connection of a pod whose shell has ended is closed, and its pane goes.
PaneGone(p) ==
  /\ ses.pane[p].kept /\ p \notin ses.alive
  /\ ses' = [ses EXCEPT !.pane[p] = NoPane]
  /\ UNCHANGED <<next, forked, hungUp>>
-----------------------------------------------------------------------------
(* Peers and pods.                                                         *)

HangUp(c) ==
  /\ c \in Open(ses) \ hungUp
  /\ hungUp' = (hungUp \union {c}) \intersect Open(ses)
  /\ UNCHANGED <<ses, next, forked>>

Says(p) ==
  /\ p \in ses.alive \intersect InFlight(ses)
  /\ ses.said[p] = "nothing"
  /\ \E what \in {"hello", "noise"} : ses' = [ses EXCEPT !.said[p] = what]
  /\ UNCHANGED <<next, forked, hungUp>>

Dies(p) ==
  /\ p \in ses.alive
  /\ ses' = [ses EXCEPT !.alive = @ \ {p}]
  /\ UNCHANGED <<next, forked, hungUp>>

\* ses_spawn_timeout has passed.
TimeIsUp(p) ==
  /\ p \in InFlight(ses) /\ ~ses.flight[p].late
  /\ ses' = [ses EXCEPT !.flight[p].late = TRUE]
  /\ UNCHANGED <<next, forked, hungUp>>

Next ==
  \/ Turn \/ Tick \/ Connect
  \/ \E f \in Fds : HangupSeen(f)
  \/ \E c \in Client :
       \/ \E k \in Keys : Reuse(c, k)
       \/ \E k \in Keys \union {NoKey} : Create(c, k)
       \/ Detach(c) \/ Disconnect(c) \/ KillSession(c)
       \/ \E d \in Client : Steal(c, d)
       \/ \E p \in Pods : Adopt(c, p)
  \/ \E c \in Conns : HangUp(c)
  \/ \E p \in Pods : PaneGone(p) \/ Says(p) \/ Dies(p) \/ TimeIsUp(p)

\* The clock runs, and the ticker of SES goes on whatever else it does.
Fairness == WF_vars(Tick) /\ \A p \in Pods : WF_vars(TimeIsUp(p))

Spec == Init /\ [][Next]_vars /\ Fairness
-----------------------------------------------------------------------------
TypeOK ==
  /\ ses \in Store
  /\ next \in 1 .. MaxConns + 1
  /\ forked \in 0 .. MaxPods
  /\ hungUp \subseteq Conns
  /\ \A p \in Pods : ses.flight[p] = NoFlight \/ ses.pane[p] = NoPane

\* Every pod that lives is either being waited for or in the store: none is
\* left with a terminal and a shell where no sweep can find it.
NoOrphanPod == ses.alive \subseteq InFlight(ses) \union {p \in Pods : ses.pane[p].kept}

\* A late reply never reaches a connection that took over the number of the
\* one that asked (replyDeferred).
AnswersGoHome == ses.strangers = {}

\* A spawn never outlives its client and never makes a pane for one that has
\* gone or lost its session (cancelPendingSpawnsForClient).
NoPaneForTheGone ==
  \A p \in Pods :
    /\ ses.pane[p].owner # None => IsClient(ses, ses.pane[p].owner)
    /\ ses.flight[p] # NoFlight => IsClient(ses, ses.flight[p].who)

\* A frontend that was told of an error has no pane and no pod to show for it.
ErrorsAreTrue ==
  \A p \in Pods : ses.told[p] = "error" => ~ses.pane[p].kept /\ p \notin ses.alive

\* Nobody is told twice what became of one request, and no request is dropped
\* in silence while the one who asked is still there.
AnsweredOnce ==
  [][\A p \in Pods :
       /\ ses.told[p] # "nothing" => ses'.told[p] = ses.told[p]
       /\ p \in InFlight(ses) \ InFlight(ses') => ses'.told[p] # "nothing"]_vars

\* A per-directory float has one process, whoever asks for it.
OneProcessPerKey ==
  \A k \in Keys : Cardinality(Reusable(ses, k)) <= 1

\* Every request is decided, however long the pod takes.
EveryRequestEnds == \A p \in Pods : p \in InFlight(ses) ~> p \notin InFlight(ses)
=============================================================================
