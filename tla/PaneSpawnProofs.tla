-------------------------- MODULE PaneSpawnProofs --------------------------
(***************************************************************************)
(* Theorems about PaneSpawn, for every number of descriptors, connections  *)
(* and pods, every set of keys and every set of faults.                    *)
(*                                                                         *)
(* Every operation of SES maps a table that is Sound to one that is Sound  *)
(* (the lemmas ...Sound, about any table), and so does every step (the     *)
(* lemmas ...Keeps, about ses and ses').                                   *)
(***************************************************************************)
EXTENDS PaneSpawn, WellFoundedInduction, TLAPS

-----------------------------------------------------------------------------
(* The operations on the tables, field by field *)

Flight == [who : Conns \union {None}, fd : Fds \union {None},
           key : Keys \union {NoKey}, late : BOOLEAN]
Pane == [owner : Conns \union {None}, key : Keys \union {NoKey}, kept : BOOLEAN]

\* The fields of a store have their types.
LEMMA StoreFields ==
  ASSUME NEW s \in Store
  PROVE  /\ s.open \in [Fds -> Conns \union {None}]
         /\ s.noted \subseteq Fds /\ s.notedBefore \subseteq Fds /\ s.closes \subseteq Fds
         /\ s.clients \subseteq Client
         /\ s.flight \in [Pods -> Flight] /\ s.pane \in [Pods -> Pane]
         /\ s.alive \subseteq Pods
         /\ s.said \in [Pods -> {"nothing", "hello", "noise"}]
         /\ s.told \in [Pods -> {"nothing", "pane", "error"}]
         /\ s.strangers \subseteq Conns
BY DEF Store, Flight, Pane

LEMMA NothingTyped == NoFlight \in Flight /\ NoPane \in Pane
BY DEF NoFlight, NoPane, Flight, Pane

\* Spawns that are over.
LEMMA AnsweredFacts ==
  ASSUME NEW s \in Store, NEW made \in SUBSET InFlight(s), NEW failed \in SUBSET InFlight(s),
         \A p \in made \union failed : s.flight[p].fd \in Fds
  PROVE  LET t == Answered(s, made, failed)
             over == made \union failed
         IN /\ t \in Store
            /\ t.open = s.open /\ t.noted = s.noted /\ t.notedBefore = s.notedBefore
            /\ t.clients = s.clients
            /\ t.alive = s.alive \ failed
            /\ t.strangers = s.strangers \union Overheard(s, over)
            /\ \A p \in Pods :
                 /\ t.flight[p] = IF p \in over THEN NoFlight ELSE s.flight[p]
                 /\ t.pane[p] = IF p \in made THEN Inserted(s, p) ELSE s.pane[p]
                 /\ t.told[p] = IF p \notin Heard(s, over) THEN s.told[p]
                                ELSE IF p \in made THEN "pane" ELSE "error"
<1> DEFINE over == made \union failed
           inserted == [p \in made |-> Inserted(s, p)]
           said == [p \in Heard(s, over) |-> IF p \in made THEN "pane" ELSE "error"]
           fl == Put(s.flight, [p \in over |-> NoFlight])
           sa == Put(s.said, [p \in over |-> "nothing"])
           pa == Put(s.pane, inserted)
           al == s.alive \ failed
           to == Put(s.told, said)
           cl == s.closes \union Unwritable(s, {s.flight[p].fd : p \in Sent(s, over)})
           st == s.strangers \union Overheard(s, over)
           t == Answered(s, made, failed)
<1>t. t = [s EXCEPT !.flight = fl, !.said = sa, !.pane = pa, !.alive = al,
                    !.told = to, !.closes = cl, !.strangers = st]
  BY DEF Answered, OffTheList, Aborted
<1>1. over \subseteq Pods /\ made \subseteq Pods /\ Heard(s, over) \subseteq Pods
  BY DEF InFlight, Heard, Sent
<1>2. /\ s.flight \in [Pods -> Flight] /\ s.pane \in [Pods -> Pane]
      /\ s.said \in [Pods -> {"nothing", "hello", "noise"}]
      /\ s.told \in [Pods -> {"nothing", "pane", "error"}]
      /\ s.alive \subseteq Pods /\ s.closes \subseteq Fds /\ s.strangers \subseteq Conns
      /\ s.open \in [Fds -> Conns \union {None}]
  BY StoreFields
<1>3. \A p \in Pods : Inserted(s, p) \in Pane
  BY <1>2 DEF Inserted, Flight, Pane
<1>a. DOMAIN inserted = made /\ \A p \in made : inserted[p] = Inserted(s, p)
  OBVIOUS
<1>b. /\ DOMAIN said = Heard(s, over)
      /\ \A p \in Heard(s, over) : said[p] = IF p \in made THEN "pane" ELSE "error"
  OBVIOUS
<1>cl. cl \in SUBSET Fds
  <2>1. \A p \in Sent(s, over) : s.flight[p].fd \in Fds
    BY DEF Sent
  <2>2. Unwritable(s, {s.flight[p].fd : p \in Sent(s, over)}) \subseteq Fds
    BY <2>1 DEF Unwritable
  <2>3. QED
    BY <2>2, <1>2
<1>st. st \in SUBSET Conns
  <2>1. \A p \in Sent(s, over) : s.open[s.flight[p].fd] \in Conns \union {None}
    BY <1>2 DEF Sent
  <2>2. Overheard(s, over) \subseteq Conns
    BY <2>1 DEF Overheard
  <2>3. QED
    BY <2>2, <1>2
<1>al. al \in SUBSET Pods
  BY <1>2
<1> HIDE DEF inserted, said
<1>4. /\ fl \in [Pods -> Flight]
      /\ \A p \in Pods : fl[p] = IF p \in over THEN NoFlight ELSE s.flight[p]
  <2>1. DOMAIN s.flight \union over = Pods
    BY <1>1, <1>2
  <2> HIDE DEF over
  <2>2. QED
    BY <2>1, <1>1, <1>2, NothingTyped DEF Put
<1>5. sa \in [Pods -> {"nothing", "hello", "noise"}]
  <2>1. DOMAIN s.said \union over = Pods
    BY <1>1, <1>2
  <2> HIDE DEF over
  <2>2. QED
    BY <2>1, <1>1, <1>2 DEF Put
<1>6. /\ pa \in [Pods -> Pane]
      /\ \A p \in Pods : pa[p] = IF p \in made THEN Inserted(s, p) ELSE s.pane[p]
  <2>1. /\ pa \in [Pods -> Pane]
        /\ \A p \in Pods : pa[p] = IF p \in DOMAIN inserted THEN inserted[p] ELSE s.pane[p]
    <3>1. DOMAIN s.pane \union DOMAIN inserted = Pods
      BY <1>1, <1>2, <1>a
    <3>2. QED
      BY <3>1, <1>1, <1>2, <1>3, <1>a DEF Put
  <2>2. QED
    BY <2>1, <1>a
<1>7. /\ to \in [Pods -> {"nothing", "pane", "error"}]
      /\ \A p \in Pods : to[p] = IF p \notin Heard(s, over) THEN s.told[p]
                                 ELSE IF p \in made THEN "pane" ELSE "error"
  <2>1. /\ to \in [Pods -> {"nothing", "pane", "error"}]
        /\ \A p \in Pods : to[p] = IF p \in DOMAIN said THEN said[p] ELSE s.told[p]
    <3>1. DOMAIN s.told \union DOMAIN said = Pods
      BY <1>1, <1>2, <1>b
    <3>2. QED
      BY <3>1, <1>1, <1>2, <1>b DEF Put
  <2>2. QED
    BY <2>1, <1>b
<1> HIDE DEF over, fl, sa, pa, al, to, cl, st, t
<1>8. /\ t \in Store
      /\ t.open = s.open /\ t.noted = s.noted /\ t.notedBefore = s.notedBefore
      /\ t.clients = s.clients
      /\ t.flight = fl /\ t.pane = pa /\ t.alive = al /\ t.told = to /\ t.strangers = st
  <2>1. /\ fl \in [Pods -> Flight] /\ sa \in [Pods -> {"nothing", "hello", "noise"}]
        /\ pa \in [Pods -> Pane] /\ to \in [Pods -> {"nothing", "pane", "error"}]
    BY <1>4, <1>5, <1>6, <1>7
  <2>2. QED
    BY <2>1, <1>t, <1>al, <1>cl, <1>st DEF Store, Flight, Pane
<1>20. QED
  BY <1>8, <1>4, <1>6, <1>7 DEF t, al, st, over

\* Clients that leave.
LEMMA LeftFacts ==
  ASSUME NEW s \in Store, NEW C \in SUBSET s.clients, NEW killed \in SUBSET Pods
  PROVE  LET t == Left(s, C, killed)
         IN /\ t \in Store
            /\ t.clients = s.clients \ C /\ t.alive = s.alive \ killed
            /\ t.noted = s.noted \union {c.fd : c \in C}
            /\ t.notedBefore = s.notedBefore
            /\ t.flight = s.flight /\ t.told = s.told /\ t.strangers = s.strangers
            /\ \A f \in Fds : t.open[f] = IF f \in {c.fd : c \in C} THEN None ELSE s.open[f]
            /\ \A p \in Pods :
                 /\ p \in Owned(s, C) =>
                      t.pane[p] = IF p \in killed THEN NoPane
                                  ELSE [s.pane[p] EXCEPT !.owner = None]
                 /\ p \notin Owned(s, C) => t.pane[p] = s.pane[p]
<1> DEFINE fds == {c.fd : c \in C}
           left == [p \in Owned(s, C) |-> IF p \in killed THEN NoPane
                                          ELSE [s.pane[p] EXCEPT !.owner = None]]
           pa == Put(s.pane, left)
           al == s.alive \ killed
           cs == s.clients \ C
           op == Put(s.open, [f \in fds |-> None])
           no == s.noted \union fds
           t == Left(s, C, killed)
<1>t. t = [s EXCEPT !.pane = pa, !.alive = al, !.clients = cs, !.open = op, !.noted = no]
  BY DEF Left, Aborted
<1>1. /\ s.open \in [Fds -> Conns \union {None}] /\ s.pane \in [Pods -> Pane]
      /\ s.noted \subseteq Fds /\ s.clients \subseteq Client /\ s.alive \subseteq Pods
  BY StoreFields
<1>2. fds \subseteq Fds
  BY <1>1 DEF Client
<1>3. Owned(s, C) \subseteq Pods
  BY DEF Owned
<1>4. /\ DOMAIN left = Owned(s, C)
      /\ \A p \in Owned(s, C) :
           left[p] = IF p \in killed THEN NoPane ELSE [s.pane[p] EXCEPT !.owner = None]
  OBVIOUS
<1>5. \A p \in Pods : [s.pane[p] EXCEPT !.owner = None] \in Pane
  BY <1>1 DEF Pane
<1>6. \A p \in Owned(s, C) : left[p] \in Pane
  BY <1>3, <1>4, <1>5, NothingTyped
<1> HIDE DEF left
<1>7. /\ pa \in [Pods -> Pane]
      /\ \A p \in Pods : pa[p] = IF p \in DOMAIN left THEN left[p] ELSE s.pane[p]
  <2>1. DOMAIN s.pane \union DOMAIN left = Pods
    BY <1>1, <1>3, <1>4
  <2>2. QED
    BY <2>1, <1>1, <1>4, <1>6 DEF Put
<1>8. /\ op \in [Fds -> Conns \union {None}]
      /\ \A f \in Fds : op[f] = IF f \in fds THEN None ELSE s.open[f]
  <2>1. DOMAIN s.open \union fds = Fds
    BY <1>1, <1>2
  <2> HIDE DEF fds
  <2>2. QED
    BY <2>1, <1>1, <1>2 DEF Put
<1>9. al \in SUBSET Pods /\ cs \in SUBSET Client /\ no \in SUBSET Fds
  BY <1>1, <1>2
<1> HIDE DEF fds, pa, al, cs, op, no, t
<1>10. /\ t \in Store
       /\ t.open = op /\ t.noted = no /\ t.notedBefore = s.notedBefore
       /\ t.clients = cs /\ t.flight = s.flight /\ t.pane = pa /\ t.alive = al
       /\ t.told = s.told /\ t.strangers = s.strangers
  <2>1. pa \in [Pods -> Pane] /\ op \in [Fds -> Conns \union {None}]
    BY <1>7, <1>8
  <2>2. QED
    BY <2>1, <1>t, <1>9 DEF Store, Flight, Pane
<1>11. \A p \in Pods :
         /\ p \in Owned(s, C) =>
              t.pane[p] = IF p \in killed THEN NoPane
                          ELSE [s.pane[p] EXCEPT !.owner = None]
         /\ p \notin Owned(s, C) => t.pane[p] = s.pane[p]
  BY <1>4, <1>7, <1>10
<1>12. QED
  BY <1>8, <1>10, <1>11 DEF t, al, cs, no, fds
-----------------------------------------------------------------------------
(* The inductive invariant *)

\* A client is known by the connection that has its descriptor.
Seated(s) == \A c \in s.clients : s.open[c.fd] = c.who

\* What is true of one spawn: while it is in flight nobody has been told, the
\* client that asked is there and the log does not have its descriptor; once it
\* is over its pod is in the store or dead.
PodSound(s, p) ==
  /\ s.flight[p] # NoFlight =>
       /\ s.pane[p] = NoPane /\ s.told[p] = "nothing"
       /\ [fd |-> s.flight[p].fd, who |-> s.flight[p].who] \in s.clients
       /\ ~IsNoted(s, s.flight[p].fd)
  /\ s.pane[p].owner # None => IsClient(s, s.pane[p].owner)
  /\ p \in s.alive => s.flight[p] # NoFlight \/ s.pane[p].kept
  /\ s.told[p] = "error" => ~s.pane[p].kept /\ p \notin s.alive

\* Pods that have yet to be forked have left no trace.
Fresh(s, k) ==
  \A p \in Pods : p > k =>
    /\ s.flight[p] = NoFlight /\ s.pane[p] = NoPane
    /\ s.told[p] = "nothing"

Sound(s) ==
  /\ s \in Store
  /\ Seated(s)
  /\ \A p \in Pods : PodSound(s, p)
  /\ s.strangers = {}

IInv ==
  /\ Sound(ses) /\ Fresh(ses, forked)
  /\ next \in 1 .. MaxConns + 1
  /\ forked \in 0 .. MaxPods
  /\ hungUp \subseteq Conns
-----------------------------------------------------------------------------
(* The operations preserve it *)

\* What nobody may see twice and nobody may miss, from one step to the next.
Reported(s, t) ==
  \A p \in Pods :
    /\ s.told[p] # "nothing" => t.told[p] = s.told[p]
    /\ p \in InFlight(s) \ InFlight(t) => t.told[p] # "nothing"

SoundStep(s, t) ==
  /\ Sound(t)
  /\ \A k \in Nat : Fresh(s, k) => Fresh(t, k)
  /\ Reported(s, t)

\* Spawns that are answered are heard, all of them by those who asked.
LEMMA AllHeard ==
  ASSUME NEW s, Sound(s), NEW P \in SUBSET InFlight(s)
  PROVE  /\ Heard(s, P) = P /\ Overheard(s, P) = {}
         /\ \A p \in P : s.flight[p].fd \in Fds
<1>1. ASSUME NEW p \in P
      PROVE  /\ ~IsNoted(s, s.flight[p].fd) /\ s.flight[p].fd \in Fds
             /\ s.open[s.flight[p].fd] = s.flight[p].who
  <2>1. p \in Pods /\ s.flight[p] # NoFlight
    BY DEF InFlight
  <2>2. /\ ~IsNoted(s, s.flight[p].fd)
        /\ [fd |-> s.flight[p].fd, who |-> s.flight[p].who] \in s.clients
    BY <2>1 DEF Sound, PodSound
  <2>3. s.clients \subseteq Client
    BY StoreFields DEF Sound
  <2>4. QED
    BY <2>2, <2>3 DEF Sound, Seated, Client
<1>2. Sent(s, P) = P /\ Heard(s, P) = P
  BY <1>1 DEF Sent, Heard
<1>3. QED
  BY <1>1, <1>2 DEF Overheard

\* The spawns that are over leave the list, and nothing else about it changes.
Off(s, t, over) ==
  /\ t.clients = s.clients
  /\ InFlight(t) = InFlight(s) \ over
  /\ \A p \in InFlight(t) : t.flight[p] = s.flight[p]

LEMMA AnsweredSound ==
  ASSUME NEW s, Sound(s), NEW made \in SUBSET InFlight(s),
         NEW failed \in SUBSET InFlight(s), made \intersect failed = {}
  PROVE  /\ SoundStep(s, Answered(s, made, failed))
         /\ Off(s, Answered(s, made, failed), made \union failed)
<1> DEFINE t == Answered(s, made, failed)
           over == made \union failed
<1>1. s \in Store
  BY DEF Sound
<1>2. /\ Heard(s, over) = over /\ Overheard(s, over) = {}
      /\ \A p \in over : s.flight[p].fd \in Fds
  BY AllHeard
<1>3. /\ t \in Store
      /\ t.open = s.open /\ t.noted = s.noted /\ t.notedBefore = s.notedBefore
      /\ t.clients = s.clients
      /\ t.alive = s.alive \ failed
      /\ t.strangers = s.strangers \union Overheard(s, over)
      /\ \A p \in Pods :
           /\ t.flight[p] = IF p \in over THEN NoFlight ELSE s.flight[p]
           /\ t.pane[p] = IF p \in made THEN Inserted(s, p) ELSE s.pane[p]
           /\ t.told[p] = IF p \notin Heard(s, over) THEN s.told[p]
                          ELSE IF p \in made THEN "pane" ELSE "error"
  BY <1>1, <1>2, AnsweredFacts
<1>4. made \subseteq Pods /\ failed \subseteq Pods
  BY DEF InFlight
<1> HIDE DEF t
<1>5. Seated(t) /\ t.strangers = {}
  BY <1>2, <1>3 DEF Sound, Seated
<1>6. ASSUME NEW p \in Pods
      PROVE  PodSound(t, p)
  <2>1. PodSound(s, p)
    BY DEF Sound
  <2>2. \A x : IsClient(t, x) = IsClient(s, x)
    BY <1>3 DEF IsClient
  <2>3. \A f : IsNoted(t, f) = IsNoted(s, f)
    BY <1>3 DEF IsNoted
  <2>4. CASE p \notin over
    <3>1. t.flight[p] = s.flight[p] /\ t.pane[p] = s.pane[p] /\ t.told[p] = s.told[p]
      BY <2>4, <1>2, <1>3
    <3>2. QED
      BY <3>1, <2>1, <2>2, <2>3, <2>4, <1>3 DEF PodSound
  <2>5. CASE p \in made
    <3>1. t.flight[p] = NoFlight /\ t.pane[p] = Inserted(s, p) /\ t.told[p] = "pane"
      BY <2>5, <1>2, <1>3
    <3>2. IsClient(s, s.flight[p].who)
      BY <2>1, <2>5 DEF PodSound, IsClient, InFlight
    <3>3. QED
      BY <3>1, <3>2, <2>2 DEF PodSound, Inserted
  <2>6. CASE p \in failed
    <3>1. /\ t.flight[p] = NoFlight /\ t.pane[p] = s.pane[p] /\ p \notin t.alive
      BY <2>6, <1>2, <1>3
    <3>2. s.pane[p] = NoPane
      BY <2>1, <2>6 DEF PodSound, InFlight
    <3>3. QED
      BY <3>1, <3>2 DEF PodSound, NoPane
  <2>7. QED
    BY <2>4, <2>5, <2>6
<1>7. \A k \in Nat : Fresh(s, k) => Fresh(t, k)
  BY <1>2, <1>3 DEF Fresh, InFlight
<1>8. Reported(s, t)
  BY <1>2, <1>3, <1>4 DEF Reported, InFlight, Sound, PodSound
<1>9. /\ InFlight(t) = InFlight(s) \ over
      /\ \A p \in InFlight(t) : t.flight[p] = s.flight[p]
  BY <1>3, <1>4 DEF InFlight
<1>10. QED
  BY <1>3, <1>5, <1>6, <1>7, <1>8, <1>9 DEF SoundStep, Sound, Off, t

LEMMA LeftSound ==
  ASSUME NEW s, Sound(s), NEW C \in SUBSET s.clients, NEW killed \in SUBSET Pods,
         \A p \in InFlight(s) : \A c \in C : s.flight[p].who # c.who
  PROVE  SoundStep(s, Left(s, C, killed))
<1> DEFINE t == Left(s, C, killed)
           fds == {c.fd : c \in C}
<1>1. s \in Store /\ s.clients \subseteq Client /\ s.pane \in [Pods -> Pane]
  BY StoreFields DEF Sound
<1>2. /\ t \in Store
      /\ t.clients = s.clients \ C /\ t.alive = s.alive \ killed
      /\ t.noted = s.noted \union fds
      /\ t.notedBefore = s.notedBefore
      /\ t.flight = s.flight /\ t.told = s.told /\ t.strangers = s.strangers
      /\ \A f \in Fds : t.open[f] = IF f \in fds THEN None ELSE s.open[f]
      /\ \A p \in Pods :
           /\ p \in Owned(s, C) =>
                t.pane[p] = IF p \in killed THEN NoPane
                            ELSE [s.pane[p] EXCEPT !.owner = None]
           /\ p \notin Owned(s, C) => t.pane[p] = s.pane[p]
  BY <1>1, LeftFacts
<1> HIDE DEF t
\* No other client has the descriptor of one that leaves.
<1>3. ASSUME NEW c \in s.clients, c.fd \in fds
      PROVE  \E d \in C : d.who = c.who
  BY <1>1, <1>3 DEF Sound, Seated, Client
<1>4. ASSUME NEW p \in Pods
      PROVE  PodSound(t, p)
  <2>1. PodSound(s, p)
    BY DEF Sound
  <2>2. ASSUME s.flight[p] # NoFlight
        PROVE  /\ t.pane[p] = NoPane
               /\ [fd |-> s.flight[p].fd, who |-> s.flight[p].who] \in t.clients
               /\ ~IsNoted(t, s.flight[p].fd)
    <3> DEFINE c == [fd |-> s.flight[p].fd, who |-> s.flight[p].who]
    <3>1. /\ s.pane[p] = NoPane /\ c \in s.clients /\ ~IsNoted(s, s.flight[p].fd)
          /\ p \in InFlight(s)
      BY <2>1, <2>2 DEF PodSound, InFlight
    <3>2. \A d \in C : d.who # s.flight[p].who
      BY <3>1
    <3>3. c \notin C /\ c.fd \notin fds
      BY <3>1, <3>2, <1>3
    <3>4. p \notin Owned(s, C)
      BY <3>1, <1>1 DEF Owned, NoPane, Client, Conns, None
    <3>5. QED
      BY <3>1, <3>3, <3>4, <1>2 DEF IsNoted
  <2>3. ASSUME t.pane[p].owner # None
        PROVE  IsClient(t, t.pane[p].owner)
    <3>1. p \notin Owned(s, C)
      <4>1. s.pane[p] \in Pane
        BY <1>1
      <4>2. [s.pane[p] EXCEPT !.owner = None].owner = None /\ NoPane.owner = None
        BY <4>1 DEF Pane, NoPane
      <4>3. QED
        BY <4>2, <2>3, <1>2
    <3>2. t.pane[p] = s.pane[p] /\ IsClient(s, s.pane[p].owner)
      BY <3>1, <2>1, <2>3, <1>2 DEF PodSound
    <3>3. \A d \in C : s.pane[p].owner # d.who
      BY <3>1 DEF Owned
    <3>4. QED
      BY <3>2, <3>3, <1>2 DEF IsClient
  <2>4. p \in t.alive => t.flight[p] # NoFlight \/ t.pane[p].kept
    <3>1. s.pane[p] \in Pane
      BY <1>1
    <3>2. QED
      BY <3>1, <2>1, <1>2 DEF PodSound, Pane
  <2>5. t.told[p] = "error" => ~t.pane[p].kept /\ p \notin t.alive
    <3>1. s.pane[p] \in Pane
      BY <1>1
    <3>2. [s.pane[p] EXCEPT !.owner = None].kept = s.pane[p].kept /\ ~NoPane.kept
      BY <3>1 DEF Pane, NoPane
    <3>3. s.told[p] = "error" => ~s.pane[p].kept /\ p \notin s.alive
      BY <2>1 DEF PodSound
    <3>4. ASSUME t.told[p] = "error"
          PROVE  ~t.pane[p].kept
      <4>1. CASE p \in Owned(s, C)
        BY <4>1, <3>2, <3>3, <3>4, <1>2
      <4>2. CASE p \notin Owned(s, C)
        BY <4>2, <3>3, <3>4, <1>2
      <4>3. QED
        BY <4>1, <4>2
    <3>5. QED
      BY <3>3, <3>4, <1>2
  <2>6. QED
    BY <2>1, <2>2, <2>3, <2>4, <2>5, <1>2 DEF PodSound
<1>5. Seated(t)
  BY <1>1, <1>2, <1>3 DEF Sound, Seated, Client
<1>6. \A k \in Nat : Fresh(s, k) => Fresh(t, k)
  <2>1. SUFFICES ASSUME NEW k \in Nat, Fresh(s, k), NEW p \in Pods, p > k
                 PROVE  t.flight[p] = NoFlight /\ t.pane[p] = NoPane /\ t.told[p] = "nothing"
    BY DEF Fresh
  <2>2. s.flight[p] = NoFlight /\ s.pane[p] = NoPane /\ s.told[p] = "nothing"
    BY <2>1 DEF Fresh
  <2>3. p \notin Owned(s, C)
    BY <2>2, <1>1 DEF Owned, NoPane, Client, Conns, None
  <2>4. QED
    BY <2>2, <2>3, <1>2
<1>7. Reported(s, t)
  BY <1>2 DEF Reported, InFlight
<1>8. QED
  BY <1>2, <1>4, <1>5, <1>6, <1>7 DEF SoundStep, Sound, t

LEMMA SoundSteps ==
  ASSUME NEW s, NEW t, NEW u, SoundStep(s, t), SoundStep(t, u)
  PROVE  SoundStep(s, u)
BY DEF SoundStep, Reported, InFlight

\* What pods have said and which descriptors are to be closed is free.
LEMMA SameTables ==
  ASSUME NEW s, Sound(s), NEW t \in Store,
         t.open = s.open, t.noted = s.noted, t.notedBefore = s.notedBefore,
         t.clients = s.clients, t.flight = s.flight, t.pane = s.pane,
         t.alive = s.alive, t.told = s.told, t.strangers = s.strangers
  PROVE  SoundStep(s, t)
<1>1. \A p \in Pods : PodSound(t, p)
  BY DEF Sound, PodSound, IsClient, IsNoted
<1>2. Seated(t) /\ t.strangers = {}
  BY DEF Sound, Seated
<1>3. Reported(s, t) /\ \A k \in Nat : Fresh(s, k) => Fresh(t, k)
  BY DEF Reported, Fresh, InFlight
<1>4. QED
  BY <1>1, <1>2, <1>3 DEF SoundStep, Sound

LEMMA WrittenSound ==
  ASSUME NEW s, Sound(s), NEW f \in Fds
  PROVE  /\ SoundStep(s, Written(s, f))
         /\ Written(s, f).clients = s.clients /\ Written(s, f).flight = s.flight
<1> DEFINE cl == s.closes \union Unwritable(s, {f})
           t == Written(s, f)
<1>1. s \in Store /\ s.closes \subseteq Fds
  BY StoreFields DEF Sound
<1>2. cl \in SUBSET Fds
  BY <1>1 DEF Unwritable
<1>3. t = [s EXCEPT !.closes = cl]
  BY DEF Written
<1> HIDE DEF cl, t
<1>4. /\ t \in Store
      /\ t.open = s.open /\ t.noted = s.noted /\ t.notedBefore = s.notedBefore
      /\ t.clients = s.clients /\ t.flight = s.flight /\ t.pane = s.pane
      /\ t.alive = s.alive /\ t.told = s.told /\ t.strangers = s.strangers
  BY <1>1, <1>2, <1>3 DEF Store
<1>5. SoundStep(s, t)
  BY <1>4, SameTables
<1>6. QED
  BY <1>4, <1>5 DEF t

LEMMA ProcessedSound ==
  ASSUME NEW s, Sound(s), NEW deaf
  PROVE  SoundStep(s, Processed(s, deaf))
<1> DEFINE ready == {p \in InFlight(s) : s.said[p] = "hello"}
           made == Finished(s, ready, deaf)
           over == {p \in InFlight(s) \ ready :
                      s.said[p] = "noise" \/ p \notin s.alive \/ Expired(s, p)}
           failed == (ready \ made) \union over
<1>1. Processed(s, deaf) = Answered(s, made, failed)
  BY DEF Processed
<1>2. made \in SUBSET InFlight(s) /\ failed \in SUBSET InFlight(s)
  BY DEF Finished
<1>3. made \intersect failed = {}
  BY DEF Finished
<1> HIDE DEF made, failed
<1>4. QED
  BY <1>1, <1>2, <1>3, AnsweredSound

LEMMA PurgedSound ==
  ASSUME NEW s, Sound(s), NEW C \in SUBSET s.clients
  PROVE  LET t == Purged(s, C)
         IN /\ SoundStep(s, t) /\ t.clients = s.clients
            /\ \A p \in InFlight(t) : \A c \in C : t.flight[p].who # c.who
<1> DEFINE P == {p \in InFlight(s) : \E c \in C : s.flight[p].who = c.who}
           t == Purged(s, C)
<1>1. t = Answered(s, {}, P)
  BY DEF Purged
<1>2. P \in SUBSET InFlight(s)
  OBVIOUS
<1>3. \A p \in Pods : p \in P <=>
        s.flight[p] # NoFlight /\ \E c \in C : s.flight[p].who = c.who
  BY DEF InFlight
<1> HIDE DEF P, t
<1>4. {} \in SUBSET InFlight(s) /\ {} \intersect P = {}
  OBVIOUS
<1>5. SoundStep(s, Answered(s, {}, P)) /\ Off(s, Answered(s, {}, P), {} \union P)
  BY <1>2, <1>4, AnsweredSound
<1>6. SoundStep(s, t) /\ Off(s, t, P)
  BY <1>1, <1>5
<1>9. \A p \in InFlight(t) : \A c \in C : t.flight[p].who # c.who
  BY <1>3, <1>6 DEF InFlight, Off
<1>10. QED
  BY <1>6, <1>9 DEF Off, t

LEMMA RemovedSound ==
  ASSUME NEW s, Sound(s), NEW C \in SUBSET s.clients, NEW killed \in SUBSET Pods
  PROVE  LET t == Removed(s, C, killed)
         IN SoundStep(s, t) /\ t.clients = s.clients \ C
<1> DEFINE u == Purged(s, C)
           t == Left(u, C, killed)
<1>1. /\ SoundStep(s, u) /\ u.clients = s.clients
      /\ \A p \in InFlight(u) : \A c \in C : u.flight[p].who # c.who
  BY PurgedSound
<1> HIDE DEF u
<1>2. Sound(u) /\ C \in SUBSET u.clients
  BY <1>1 DEF SoundStep
<1>3. SoundStep(u, t)
  BY <1>1, <1>2, LeftSound
<1>4. t.clients = u.clients \ C
  BY <1>2, LeftFacts DEF Sound
<1> HIDE DEF t
<1>5. SoundStep(s, t)
  BY <1>1, <1>3, SoundSteps
<1>6. QED
  BY <1>1, <1>4, <1>5 DEF t, u, Removed

\* The log of closed descriptors is rotated once their clients are gone.
LEMMA RotatedSound ==
  ASSUME NEW s, Sound(s), NEW fs \in SUBSET Fds, \A c \in s.clients : c.fd \notin fs,
         NEW t, t = [s EXCEPT !.open = Put(@, [f \in fs |-> None]),
                              !.closes = {}, !.notedBefore = s.noted, !.noted = {}]
  PROVE  SoundStep(s, t)
<1> DEFINE op == Put(s.open, [f \in fs |-> None])
<1>1. /\ s \in Store /\ s.clients \subseteq Client /\ s.noted \subseteq Fds
      /\ s.open \in [Fds -> Conns \union {None}]
  BY StoreFields DEF Sound
<1>2. /\ op \in [Fds -> Conns \union {None}]
      /\ \A f \in Fds : op[f] = IF f \in fs THEN None ELSE s.open[f]
  <2>1. DOMAIN s.open \union fs = Fds
    BY <1>1
  <2>2. QED
    BY <2>1, <1>1 DEF Put
<1>3. t = [s EXCEPT !.open = op, !.closes = {}, !.notedBefore = s.noted, !.noted = {}]
  OBVIOUS
<1> HIDE DEF op
<1>4. /\ t \in Store
      /\ t.open = op /\ t.noted = {} /\ t.notedBefore = s.noted
      /\ t.clients = s.clients /\ t.flight = s.flight /\ t.pane = s.pane
      /\ t.alive = s.alive /\ t.told = s.told /\ t.strangers = s.strangers
  BY <1>1, <1>2, <1>3 DEF Store
<1>5. Seated(t)
  BY <1>1, <1>2, <1>4 DEF Sound, Seated, Client
<1>6. ASSUME NEW p \in Pods
      PROVE  PodSound(t, p)
  BY <1>4 DEF Sound, PodSound, IsClient, IsNoted
<1>7. Reported(s, t) /\ \A k \in Nat : Fresh(s, k) => Fresh(t, k)
  BY <1>4 DEF Reported, Fresh, InFlight
<1>8. QED
  BY <1>4, <1>5, <1>6, <1>7 DEF SoundStep, Sound

\* A connection takes a descriptor that is free, and a client has it.
LEMMA ConnectedSound ==
  ASSUME NEW s, Sound(s), NEW f \in Fds, s.open[f] = None, NEW n \in Conns,
         NEW t, t = [s EXCEPT !.open[f] = n,
                              !.clients = @ \union {[fd |-> f, who |-> n]}]
  PROVE  SoundStep(s, t)
<1>1. /\ s \in Store /\ s.clients \subseteq Client
      /\ s.open \in [Fds -> Conns \union {None}]
  BY StoreFields DEF Sound
<1>2. [fd |-> f, who |-> n] \in Client
  BY DEF Client
<1>3. /\ t \in Store
      /\ t.open = [s.open EXCEPT ![f] = n] /\ t.noted = s.noted
      /\ t.notedBefore = s.notedBefore
      /\ t.clients = s.clients \union {[fd |-> f, who |-> n]}
      /\ t.flight = s.flight /\ t.pane = s.pane
      /\ t.alive = s.alive /\ t.told = s.told /\ t.strangers = s.strangers
  BY <1>1, <1>2 DEF Store
<1>4. \A c \in s.clients : c.fd # f
  BY <1>1 DEF Sound, Seated, Client, Conns, None
<1>5. Seated(t)
  BY <1>1, <1>3, <1>4 DEF Sound, Seated, Client
<1>6. ASSUME NEW p \in Pods
      PROVE  PodSound(t, p)
  BY <1>3 DEF Sound, PodSound, IsClient, IsNoted
<1>7. Reported(s, t) /\ \A k \in Nat : Fresh(s, k) => Fresh(t, k)
  BY <1>3 DEF Reported, Fresh, InFlight
<1>8. QED
  BY <1>3, <1>5, <1>6, <1>7 DEF SoundStep, Sound

\* A pane in the store is given to a client.
LEMMA GivenSound ==
  ASSUME NEW s, Sound(s), NEW p \in Pods, s.pane[p].kept, NEW c \in s.clients
  PROVE  /\ SoundStep(s, [s EXCEPT !.pane[p].owner = c.who])
         /\ [s EXCEPT !.pane[p].owner = c.who].clients = s.clients
<1> DEFINE t == [s EXCEPT !.pane[p].owner = c.who]
           pa == [s.pane EXCEPT ![p].owner = c.who]
<1>1. /\ s \in Store /\ s.clients \subseteq Client /\ s.pane \in [Pods -> Pane]
  BY StoreFields DEF Sound
<1>2. /\ pa \in [Pods -> Pane]
      /\ pa[p].owner = c.who /\ pa[p].kept
      /\ \A q \in Pods \ {p} : pa[q] = s.pane[q]
  BY <1>1 DEF Pane, Client
<1>3. t = [s EXCEPT !.pane = pa]
  BY <1>1 DEF Store
<1> HIDE DEF pa, t
<1>4. /\ t \in Store
      /\ t.open = s.open /\ t.noted = s.noted /\ t.notedBefore = s.notedBefore
      /\ t.clients = s.clients /\ t.flight = s.flight /\ t.pane = pa
      /\ t.alive = s.alive /\ t.told = s.told /\ t.strangers = s.strangers
  BY <1>1, <1>2, <1>3 DEF Store, Pane
<1>5. s.flight[p] = NoFlight /\ s.told[p] # "error" /\ s.pane[p] # NoPane
  <2>1. PodSound(s, p) /\ s.pane[p] # NoPane
    BY DEF Sound, NoPane
  <2>2. QED
    BY <2>1 DEF PodSound
<1>6. ASSUME NEW q \in Pods
      PROVE  PodSound(t, q)
  <2>1. CASE q = p
    BY <2>1, <1>2, <1>4, <1>5 DEF PodSound, IsClient
  <2>2. CASE q # p
    BY <2>2, <1>2, <1>4 DEF Sound, PodSound, IsClient, IsNoted
  <2>3. QED
    BY <2>1, <2>2
<1>7. Seated(t) /\ Reported(s, t)
  BY <1>4 DEF Sound, Seated, Reported, InFlight
<1>8. \A k \in Nat : Fresh(s, k) => Fresh(t, k)
  BY <1>2, <1>4, <1>5 DEF Fresh
<1>9. QED
  BY <1>4, <1>6, <1>7, <1>8 DEF SoundStep, Sound, t

\* A pod is forked for a client whose descriptor the log does not have.
LEMMA ForkedSound ==
  ASSUME NEW s, Sound(s), NEW k \in Nat, Fresh(s, k), k + 1 \in Pods,
         NEW c \in s.clients, ~IsNoted(s, c.fd),
         NEW key \in Keys \union {NoKey}, NEW said \in {"nothing", "hello", "noise"},
         NEW t, t = [s EXCEPT !.flight[k + 1] = [who |-> c.who, fd |-> c.fd, key |-> key,
                                                 late |-> FALSE],
                              !.alive = @ \union {k + 1}, !.said[k + 1] = said]
  PROVE  Sound(t) /\ Fresh(t, k + 1) /\ Reported(s, t)
<1> DEFINE p == k + 1
           new == [who |-> c.who, fd |-> c.fd, key |-> key, late |-> FALSE]
           fl == [s.flight EXCEPT ![p] = new]
           al == s.alive \union {p}
           sa == [s.said EXCEPT ![p] = said]
<1>1. /\ s \in Store /\ s.clients \subseteq Client
      /\ s.flight \in [Pods -> Flight]
      /\ s.said \in [Pods -> {"nothing", "hello", "noise"}] /\ s.alive \subseteq Pods
  BY StoreFields DEF Sound
<1>2. new \in Flight /\ new # NoFlight /\ new.fd = c.fd /\ new.who = c.who
  BY <1>1 DEF Flight, Client, NoFlight, Conns, None
<1>3. p \in Pods /\ p > k
  OBVIOUS
<1>4. t = [s EXCEPT !.flight = fl, !.alive = al, !.said = sa]
  BY <1>1 DEF Store
<1>5. c = [fd |-> c.fd, who |-> c.who]
  BY <1>1 DEF Client
<1>6. s.flight[p] = NoFlight /\ s.pane[p] = NoPane /\ s.told[p] = "nothing"
  BY <1>3 DEF Fresh
<1> HIDE DEF p, new
<1>7. /\ t \in Store
      /\ t.open = s.open /\ t.noted = s.noted /\ t.notedBefore = s.notedBefore
      /\ t.clients = s.clients /\ t.flight = [s.flight EXCEPT ![p] = new]
      /\ t.pane = s.pane /\ t.alive = s.alive \union {p}
      /\ t.told = s.told /\ t.strangers = s.strangers
  <2>1. /\ fl \in [Pods -> Flight] /\ al \in SUBSET Pods
        /\ sa \in [Pods -> {"nothing", "hello", "noise"}]
    BY <1>1, <1>2, <1>3
  <2> HIDE DEF fl, al, sa
  <2>2. /\ t \in Store
        /\ t.open = s.open /\ t.noted = s.noted /\ t.notedBefore = s.notedBefore
        /\ t.clients = s.clients /\ t.flight = fl
        /\ t.pane = s.pane /\ t.alive = al
        /\ t.told = s.told /\ t.strangers = s.strangers
    BY <1>1, <1>4, <2>1 DEF Store, Flight
  <2>3. QED
    BY <2>2 DEF fl, al
<1>8. ASSUME NEW q \in Pods
      PROVE  PodSound(t, q)
  <2>1. CASE q = p
    <3>1. t.flight[q] = new /\ t.pane[q] = NoPane /\ t.told[q] = "nothing"
      BY <2>1, <1>1, <1>6, <1>7
    <3>2. [fd |-> new.fd, who |-> new.who] \in t.clients /\ ~IsNoted(t, new.fd)
      BY <1>2, <1>5, <1>7 DEF IsNoted
    <3>3. NoPane.owner = None /\ t.flight[q] # NoFlight
      BY <3>1, <1>2 DEF NoPane
    <3>4. QED
      BY <3>1, <3>2, <3>3 DEF PodSound
  <2>2. CASE q # p
    <3>1. /\ t.flight[q] = s.flight[q] /\ t.pane[q] = s.pane[q] /\ t.told[q] = s.told[q]
          /\ q \in t.alive <=> q \in s.alive
      BY <2>2, <1>1, <1>7
    <3>2. /\ \A x : IsClient(t, x) = IsClient(s, x)
          /\ \A f : IsNoted(t, f) = IsNoted(s, f)
      BY <1>7 DEF IsClient, IsNoted
    <3>3. PodSound(s, q) /\ t.clients = s.clients
      BY <1>7 DEF Sound
    <3>4. QED
      BY <3>1, <3>2, <3>3 DEF PodSound
  <2>3. QED
    BY <2>1, <2>2
<1>9. Seated(t)
  BY <1>7 DEF Sound, Seated
<1>10. Reported(s, t)
  BY <1>1, <1>2, <1>6, <1>7 DEF Reported, InFlight
<1>11. Fresh(t, k + 1)
  <2>1. ASSUME NEW q \in Pods, q > k + 1
        PROVE  t.flight[q] = s.flight[q] /\ q > k
    BY <2>1, <1>1, <1>7 DEF p, Pods
  <2>2. QED
    BY <2>1, <1>7 DEF Fresh
<1>12. QED
  BY <1>7, <1>8, <1>9, <1>10, <1>11 DEF Sound

LEMMA GoneSound ==
  ASSUME NEW s, Sound(s), NEW p \in Pods, p \notin s.alive, s.flight[p] = NoFlight,
         NEW t, t = [s EXCEPT !.pane[p] = NoPane]
  PROVE  SoundStep(s, t)
<1> DEFINE pa == [s.pane EXCEPT ![p] = NoPane]
<1>1. s \in Store /\ s.pane \in [Pods -> Pane]
  BY StoreFields DEF Sound
<1>2. /\ pa \in [Pods -> Pane] /\ pa[p] = NoPane
      /\ \A q \in Pods \ {p} : pa[q] = s.pane[q]
  BY <1>1, NothingTyped
<1>3. t = [s EXCEPT !.pane = pa]
  BY <1>1 DEF Store
<1> HIDE DEF pa
<1>4. /\ t \in Store
      /\ t.open = s.open /\ t.noted = s.noted /\ t.notedBefore = s.notedBefore
      /\ t.clients = s.clients /\ t.flight = s.flight /\ t.pane = pa
      /\ t.alive = s.alive /\ t.told = s.told /\ t.strangers = s.strangers
  BY <1>1, <1>2, <1>3 DEF Store, Pane
<1>5. ASSUME NEW q \in Pods
      PROVE  PodSound(t, q)
  <2>1. CASE q = p
    BY <2>1, <1>2, <1>4 DEF PodSound, NoPane
  <2>2. CASE q # p
    BY <2>2, <1>2, <1>4 DEF Sound, PodSound, IsClient, IsNoted
  <2>3. QED
    BY <2>1, <2>2
<1>6. Seated(t) /\ Reported(s, t)
  BY <1>4 DEF Sound, Seated, Reported, InFlight
<1>7. \A k \in Nat : Fresh(s, k) => Fresh(t, k)
  BY <1>2, <1>4 DEF Fresh
<1>8. QED
  BY <1>4, <1>5, <1>6, <1>7 DEF SoundStep, Sound

LEMMA DeadSound ==
  ASSUME NEW s, Sound(s), NEW p, NEW t, t = [s EXCEPT !.alive = @ \ {p}]
  PROVE  SoundStep(s, t)
<1>1. s \in Store
  BY DEF Sound
<1>2. /\ t \in Store
      /\ t.open = s.open /\ t.noted = s.noted /\ t.notedBefore = s.notedBefore
      /\ t.clients = s.clients /\ t.flight = s.flight /\ t.pane = s.pane
      /\ t.alive = s.alive \ {p} /\ t.told = s.told /\ t.strangers = s.strangers
  BY <1>1 DEF Store
<1>3. \A q \in Pods : PodSound(t, q)
  BY <1>2 DEF Sound, PodSound, IsClient, IsNoted
<1>4. Seated(t) /\ Reported(s, t) /\ \A k \in Nat : Fresh(s, k) => Fresh(t, k)
  BY <1>2 DEF Sound, Seated, Reported, InFlight, Fresh
<1>5. QED
  BY <1>2, <1>3, <1>4 DEF SoundStep, Sound

LEMMA LateSound ==
  ASSUME NEW s, Sound(s), NEW p \in InFlight(s), NEW t, t = [s EXCEPT !.flight[p].late = TRUE]
  PROVE  SoundStep(s, t)
<1> DEFINE fl == [s.flight EXCEPT ![p].late = TRUE]
<1>1. s \in Store /\ s.flight \in [Pods -> Flight] /\ p \in Pods /\ s.flight[p] # NoFlight
  BY StoreFields DEF Sound, InFlight
<1>2. /\ fl \in [Pods -> Flight]
      /\ fl[p] # NoFlight /\ fl[p].fd = s.flight[p].fd /\ fl[p].who = s.flight[p].who
      /\ \A q \in Pods \ {p} : fl[q] = s.flight[q]
  BY <1>1 DEF Flight, NoFlight
<1>3. t = [s EXCEPT !.flight = fl]
  BY <1>1 DEF Store
<1> HIDE DEF fl
<1>4. /\ t \in Store
      /\ t.open = s.open /\ t.noted = s.noted /\ t.notedBefore = s.notedBefore
      /\ t.clients = s.clients /\ t.flight = fl /\ t.pane = s.pane
      /\ t.alive = s.alive /\ t.told = s.told /\ t.strangers = s.strangers
  BY <1>1, <1>2, <1>3 DEF Store, Flight
<1>5. ASSUME NEW q \in Pods
      PROVE  PodSound(t, q)
  <2>1. /\ t.flight[q] = NoFlight <=> s.flight[q] = NoFlight
        /\ t.flight[q].fd = s.flight[q].fd /\ t.flight[q].who = s.flight[q].who
    BY <1>1, <1>2, <1>4
  <2>2. PodSound(s, q)
    BY DEF Sound
  <2>3. QED
    BY <2>1, <2>2, <1>4 DEF PodSound, IsClient, IsNoted
<1>6. \A q \in Pods : t.flight[q] = NoFlight <=> s.flight[q] = NoFlight
  BY <1>1, <1>2, <1>4
<1>7. Seated(t) /\ Reported(s, t) /\ \A k \in Nat : Fresh(s, k) => Fresh(t, k)
  BY <1>4, <1>6 DEF Sound, Seated, Reported, InFlight, Fresh
<1>8. QED
  BY <1>4, <1>5, <1>7 DEF SoundStep, Sound

LEMMA SaidSound ==
  ASSUME NEW s, Sound(s), NEW p \in Pods, NEW what \in {"hello", "noise"},
         NEW t, t = [s EXCEPT !.said[p] = what]
  PROVE  SoundStep(s, t)
<1> DEFINE sa == [s.said EXCEPT ![p] = what]
<1>1. s \in Store /\ s.said \in [Pods -> {"nothing", "hello", "noise"}]
  BY StoreFields DEF Sound
<1>2. sa \in [Pods -> {"nothing", "hello", "noise"}] /\ t = [s EXCEPT !.said = sa]
  BY <1>1 DEF Store
<1> HIDE DEF sa
<1>3. /\ t \in Store
      /\ t.open = s.open /\ t.noted = s.noted /\ t.notedBefore = s.notedBefore
      /\ t.clients = s.clients /\ t.flight = s.flight /\ t.pane = s.pane
      /\ t.alive = s.alive /\ t.told = s.told /\ t.strangers = s.strangers
  BY <1>1, <1>2 DEF Store
<1>4. QED
  BY <1>3, SameTables

LEMMA ListedSound ==
  ASSUME NEW s, Sound(s), NEW f \in Fds, NEW t, t = [s EXCEPT !.closes = @ \union {f}]
  PROVE  SoundStep(s, t)
<1>1. s \in Store
  BY DEF Sound
<1>2. /\ t \in Store
      /\ t.open = s.open /\ t.noted = s.noted /\ t.notedBefore = s.notedBefore
      /\ t.clients = s.clients /\ t.flight = s.flight /\ t.pane = s.pane
      /\ t.alive = s.alive /\ t.told = s.told /\ t.strangers = s.strangers
  BY <1>1 DEF Store
<1>3. QED
  BY <1>2, SameTables

LEMMA LowestFreeIsFree ==
  ASSUME NEW s, \E f \in Fds : s.open[f] = None
  PROVE  LowestFree(s) \in Fds /\ s.open[LowestFree(s)] = None
<1> DEFINE F == {f \in Fds : s.open[f] = None}
<1>1. F \subseteq Nat /\ F # {}
  BY SpawnAssumption DEF Fds
<1>2. PICK x \in F : \A y \in F : <<y, x>> \notin OpToRel(<, Nat)
  <2> HIDE DEF F
  <2>1. QED
    BY <1>1, WFMin, NatLessThanWellFounded
<1>3. ASSUME NEW y \in F
      PROVE  x <= y
  <2>1. x \in Nat /\ y \in Nat
    BY <1>1
  <2>2. ~(y < x)
    BY <2>1, <1>2 DEF OpToRel
  <2>3. QED
    BY <2>1, <2>2
<1> HIDE DEF F
<1>4. Min(F) \in F
  BY <1>3 DEF Min
<1>5. QED
  BY <1>4 DEF F, LowestFree
-----------------------------------------------------------------------------
(* The steps *)

LEMMA Starts == Init => IInv
<1> SUFFICES ASSUME Init PROVE IInv
  OBVIOUS
<1>1. NoFlight \in Flight /\ NoPane \in Pane
  BY NothingTyped
<1>2. ses \in Store
  BY <1>1 DEF Init, Store, Flight, Pane
<1>3. Sound(ses) /\ Fresh(ses, forked)
  BY <1>2 DEF Init, Sound, Seated, PodSound, Fresh, NoPane
<1>4. QED
  BY <1>3, SpawnAssumption DEF Init, IInv, Conns

\* A step that leaves the rest alone.
LEMMA SesKeeps ==
  ASSUME IInv, SoundStep(ses, ses'), UNCHANGED <<next, forked>>, hungUp' \subseteq Conns
  PROVE  IInv' /\ Reported(ses, ses')
<1>1. forked \in Nat
  BY SpawnAssumption DEF IInv
<1>2. Sound(ses') /\ Fresh(ses', forked) /\ Reported(ses, ses')
  BY <1>1 DEF SoundStep, IInv
<1>3. QED
  BY <1>2 DEF IInv

LEMMA TurnKeeps == IInv /\ Turn => SoundStep(ses, ses')
<1> SUFFICES ASSUME IInv, Turn PROVE SoundStep(ses, ses')
  OBVIOUS
<1> DEFINE fs == {f \in ses.closes : ~IsNoted(ses, f)}
           lost == {c \in ses.clients : c.fd \in fs}
<1>1. Sound(ses)
  BY DEF IInv
<1>2. PICK parked \in SUBSET lost :
        LET t == Removed(ses, lost, Owned(ses, lost \ parked))
        IN ses' = [t EXCEPT !.open = Put(@, [f \in fs |-> None]),
                            !.closes = {}, !.notedBefore = t.noted, !.noted = {}]
  BY DEF Turn
<1> DEFINE t == Removed(ses, lost, Owned(ses, lost \ parked))
<1>3. lost \in SUBSET ses.clients /\ Owned(ses, lost \ parked) \in SUBSET Pods
  BY DEF Owned
<1>4. SoundStep(ses, t) /\ t.clients = ses.clients \ lost
  <2> HIDE DEF lost
  <2>1. QED
    BY <1>1, <1>3, RemovedSound
<1>5. fs \in SUBSET Fds
  BY <1>1, StoreFields DEF Sound
<1>6. \A c \in t.clients : c.fd \notin fs
  BY <1>4
<1>7. ses' = [t EXCEPT !.open = Put(@, [f \in fs |-> None]),
                       !.closes = {}, !.notedBefore = t.noted, !.noted = {}]
  BY <1>2
<1> HIDE DEF t, fs, lost
<1>8. SoundStep(t, ses')
  <2>1. Sound(t)
    BY <1>4 DEF SoundStep
  <2>2. QED
    BY <2>1, <1>5, <1>6, <1>7, RotatedSound
<1>9. QED
  BY <1>4, <1>8, SoundSteps

LEMMA TickKeeps == IInv /\ Tick => SoundStep(ses, ses')
BY ProcessedSound DEF IInv, Tick

LEMMA ConnectKeeps == IInv /\ Connect => IInv' /\ Reported(ses, ses')
<1> SUFFICES ASSUME IInv, Connect PROVE IInv' /\ Reported(ses, ses')
  OBVIOUS
<1> DEFINE f == LowestFree(ses)
<1>1. f \in Fds /\ ses.open[f] = None
  BY LowestFreeIsFree DEF Connect
<1>2. ses' = [ses EXCEPT !.open[f] = next,
                         !.clients = @ \union {[fd |-> f, who |-> next]}]
  BY DEF Connect
<1>3. Sound(ses) /\ next \in Conns
  BY DEF IInv, Connect
<1> HIDE DEF f
<1>4. SoundStep(ses, ses')
  BY <1>1, <1>2, <1>3, ConnectedSound
<1>5. forked \in Nat /\ next' \in 1 .. MaxConns + 1
  BY SpawnAssumption DEF IInv, Connect, Conns
<1>6. QED
  BY <1>4, <1>5 DEF SoundStep, IInv, Connect

LEMMA HangupSeenKeeps ==
  ASSUME NEW f \in Fds, IInv, HangupSeen(f)
  PROVE  SoundStep(ses, ses')
BY ListedSound DEF IInv, HangupSeen

\* A pane that is given away, by create_pane or adopt_pane, and the reply.
LEMMA GivenKeeps ==
  ASSUME IInv, NEW c \in ses.clients, NEW p \in Pods, ses.pane[p].kept,
         ses' = Written([ses EXCEPT !.pane[p].owner = c.who], c.fd)
  PROVE  SoundStep(ses, ses')
<1> DEFINE t == [ses EXCEPT !.pane[p].owner = c.who]
<1>1. Sound(ses) /\ ses.clients \subseteq Client
  BY StoreFields DEF IInv, Sound
<1>2. SoundStep(ses, t)
  BY <1>1, GivenSound
<1>3. c.fd \in Fds /\ ses' = Written(t, c.fd)
  BY <1>1 DEF Client
<1> HIDE DEF t
<1>4. Sound(t)
  BY <1>2 DEF SoundStep
<1>5. SoundStep(t, ses')
  BY <1>3, <1>4, WrittenSound
<1>6. QED
  BY <1>2, <1>5, SoundSteps

LEMMA ReuseKeeps ==
  ASSUME NEW c \in Client, NEW k \in Keys, IInv, Reuse(c, k)
  PROVE  SoundStep(ses, ses')
<1>1. PICK p \in Reusable(ses, k) :
        ses' = Written([ses EXCEPT !.pane[p].owner = c.who], c.fd)
  BY DEF Reuse
<1>2. p \in Pods /\ ses.pane[p].kept /\ c \in ses.clients
  BY StoreFields DEF Reuse, Reusable, IInv, Sound
<1>3. QED
  BY <1>1, <1>2, GivenKeeps

LEMMA AdoptKeeps ==
  ASSUME NEW c \in Client, NEW p \in Pods, IInv, Adopt(c, p)
  PROVE  SoundStep(ses, ses')
BY GivenKeeps DEF Adopt

LEMMA CreateKeeps ==
  ASSUME NEW c \in Client, NEW k \in Keys \union {NoKey}, IInv, Create(c, k)
  PROVE  IInv' /\ Reported(ses, ses')
<1>1. PICK said \in {"nothing", "hello", "noise"}, deaf \in DeafPods :
        ses' = Processed([ses EXCEPT
                            !.flight[forked + 1] = [who |-> c.who, fd |-> c.fd, key |-> k,
                                                    late |-> FALSE],
                            !.alive = @ \union {forked + 1},
                            !.said[forked + 1] = said], deaf)
  BY DEF Create
<1> DEFINE t == [ses EXCEPT
                   !.flight[forked + 1] = [who |-> c.who, fd |-> c.fd, key |-> k,
                                           late |-> FALSE],
                   !.alive = @ \union {forked + 1}, !.said[forked + 1] = said]
<1>2. /\ Sound(ses) /\ Fresh(ses, forked)
      /\ c \in ses.clients /\ ~IsNoted(ses, c.fd)
  BY DEF IInv, Create
<1>3. forked \in Nat /\ forked + 1 \in Pods
  BY SpawnAssumption DEF IInv, Create, Pods
<1>4. Sound(t) /\ Fresh(t, forked + 1) /\ Reported(ses, t)
  <2>1. t = [ses EXCEPT
               !.flight[forked + 1] = [who |-> c.who, fd |-> c.fd, key |-> k, late |-> FALSE],
               !.alive = @ \union {forked + 1}, !.said[forked + 1] = said]
    OBVIOUS
  <2> HIDE DEF t
  <2>2. QED
    BY <2>1, <1>2, <1>3, ForkedSound
<1>5. ses' = Processed(t, deaf)
  BY <1>1
<1> HIDE DEF t
<1>6. SoundStep(t, ses')
  BY <1>4, <1>5, ProcessedSound
<1>7. Reported(ses, ses')
  BY <1>4, <1>6 DEF Reported, SoundStep, InFlight
<1>8. Sound(ses') /\ Fresh(ses', forked + 1)
  BY <1>3, <1>4, <1>6 DEF SoundStep
<1>9. forked' = forked + 1 /\ forked + 1 \in 0 .. MaxPods
  BY <1>3, SpawnAssumption DEF Create, Pods
<1>10. QED
  BY <1>7, <1>8, <1>9 DEF IInv, Create

\* The clients C go after something was written to f.
LEMMA WrittenThenRemoved ==
  ASSUME NEW s, Sound(s), NEW f \in Fds, NEW C \in SUBSET s.clients, NEW killed \in SUBSET Pods
  PROVE  SoundStep(s, Removed(Written(s, f), C, killed))
<1> DEFINE t == Written(s, f)
<1>1. SoundStep(s, t) /\ t.clients = s.clients
  BY WrittenSound
<1> HIDE DEF t
<1>2. SoundStep(t, Removed(t, C, killed))
  BY <1>1, RemovedSound DEF SoundStep
<1>3. SoundStep(s, Removed(t, C, killed))
  BY <1>1, <1>2, SoundSteps
<1>4. QED
  BY <1>3 DEF t

LEMMA DetachKeeps ==
  ASSUME NEW c \in Client, IInv, Detach(c)
  PROVE  SoundStep(ses, ses')
<1> DEFINE t == Written(ses, c.fd)
<1>1. c.fd \in Fds /\ c \in ses.clients /\ Sound(ses)
  BY DEF Client, Detach, IInv
<1>2. SoundStep(ses, t) /\ t.clients = ses.clients /\ t.flight = ses.flight
  BY <1>1, WrittenSound
<1>3. \A p \in InFlight(ses) : ses.flight[p].who # c.who
  BY DEF Detach, Waits
<1>4. ses' = Left(t, {c}, {})
  BY DEF Detach
<1> HIDE DEF t
<1>5. \A p \in InFlight(t) : \A d \in {c} : t.flight[p].who # d.who
  BY <1>2, <1>3 DEF InFlight
<1>6. SoundStep(t, ses')
  <2>1. Sound(t) /\ {c} \in SUBSET t.clients /\ {} \in SUBSET Pods
    BY <1>1, <1>2 DEF SoundStep
  <2>2. QED
    BY <2>1, <1>4, <1>5, LeftSound
<1>7. QED
  BY <1>2, <1>6, SoundSteps

LEMMA DisconnectKeeps ==
  ASSUME NEW c \in Client, IInv, Disconnect(c)
  PROVE  SoundStep(ses, ses')
<1>1. PICK killed \in SUBSET Owned(ses, {c}) :
        ses' = Removed(Written(ses, c.fd), {c}, killed)
  BY DEF Disconnect
<1>2. killed \in SUBSET Pods /\ c.fd \in Fds /\ {c} \in SUBSET ses.clients /\ Sound(ses)
  BY DEF Owned, Client, Disconnect, IInv
<1>3. QED
  BY <1>1, <1>2, WrittenThenRemoved

LEMMA StealKeeps ==
  ASSUME NEW c \in Client, NEW d \in Client, IInv, Steal(c, d)
  PROVE  SoundStep(ses, ses')
<1> DEFINE t == Removed(ses, {c}, {})
<1>1. d.fd \in Fds /\ {c} \in SUBSET ses.clients /\ Sound(ses) /\ {} \in SUBSET Pods
  BY DEF Client, Steal, IInv
<1>2. SoundStep(ses, t)
  BY <1>1, RemovedSound
<1>3. ses' = Written(t, d.fd)
  BY DEF Steal
<1> HIDE DEF t
<1>4. SoundStep(t, ses')
  BY <1>1, <1>2, <1>3, WrittenSound DEF SoundStep
<1>5. QED
  BY <1>2, <1>4, SoundSteps

LEMMA KillSessionKeeps ==
  ASSUME NEW c \in Client, IInv, KillSession(c)
  PROVE  SoundStep(ses, ses')
<1>1. {c} \in SUBSET ses.clients /\ Sound(ses) /\ Owned(ses, {c}) \in SUBSET Pods
  BY DEF KillSession, IInv, Owned
<1>2. ses' = Removed(ses, {c}, Owned(ses, {c}))
  BY DEF KillSession
<1>3. QED
  BY <1>1, <1>2, RemovedSound

LEMMA PaneGoneKeeps ==
  ASSUME NEW p \in Pods, IInv, PaneGone(p)
  PROVE  SoundStep(ses, ses')
<1>1. Sound(ses) /\ PodSound(ses, p)
  BY DEF IInv, Sound
<1>2. p \notin ses.alive /\ ses.flight[p] = NoFlight /\ ses' = [ses EXCEPT !.pane[p] = NoPane]
  BY <1>1 DEF PaneGone, PodSound, NoPane
<1>3. QED
  BY <1>1, <1>2, GoneSound

LEMMA SaysKeeps ==
  ASSUME NEW p \in Pods, IInv, Says(p)
  PROVE  SoundStep(ses, ses')
<1>1. PICK what \in {"hello", "noise"} : ses' = [ses EXCEPT !.said[p] = what]
  BY DEF Says
<1>2. QED
  BY <1>1, SaidSound DEF IInv

LEMMA DiesKeeps ==
  ASSUME NEW p \in Pods, IInv, Dies(p)
  PROVE  SoundStep(ses, ses')
BY DeadSound DEF IInv, Dies

LEMMA TimeIsUpKeeps ==
  ASSUME NEW p \in Pods, IInv, TimeIsUp(p)
  PROVE  SoundStep(ses, ses')
BY LateSound DEF IInv, TimeIsUp

LEMMA HangUpKeeps ==
  ASSUME NEW c \in Conns, IInv, HangUp(c)
  PROVE  IInv' /\ Reported(ses, ses')
BY DEF HangUp, IInv, Reported

LEMMA StutterKeeps ==
  ASSUME IInv, UNCHANGED vars
  PROVE  IInv' /\ Reported(ses, ses')
BY DEF vars, IInv, Reported

LEMMA NextKeeps == IInv /\ [Next]_vars => IInv' /\ Reported(ses, ses')
<1> SUFFICES ASSUME IInv, [Next]_vars PROVE IInv' /\ Reported(ses, ses')
  OBVIOUS
<1>0. hungUp \subseteq Conns
  BY DEF IInv
<1>1. CASE Turn
  BY <1>0, <1>1, TurnKeeps, SesKeeps DEF Turn
<1>2. CASE Tick
  BY <1>0, <1>2, TickKeeps, SesKeeps DEF Tick
<1>3. CASE Connect
  BY <1>3, ConnectKeeps
<1>4. ASSUME NEW f \in Fds, HangupSeen(f) PROVE IInv' /\ Reported(ses, ses')
  BY <1>0, <1>4, HangupSeenKeeps, SesKeeps DEF HangupSeen
<1>5. ASSUME NEW c \in Client, NEW k \in Keys, Reuse(c, k)
      PROVE  IInv' /\ Reported(ses, ses')
  BY <1>0, <1>5, ReuseKeeps, SesKeeps DEF Reuse
<1>6. ASSUME NEW c \in Client, NEW k \in Keys \union {NoKey}, Create(c, k)
      PROVE  IInv' /\ Reported(ses, ses')
  BY <1>6, CreateKeeps
<1>7. ASSUME NEW c \in Client, Detach(c) PROVE IInv' /\ Reported(ses, ses')
  BY <1>0, <1>7, DetachKeeps, SesKeeps DEF Detach
<1>8. ASSUME NEW c \in Client, Disconnect(c) PROVE IInv' /\ Reported(ses, ses')
  BY <1>0, <1>8, DisconnectKeeps, SesKeeps DEF Disconnect
<1>9. ASSUME NEW c \in Client, KillSession(c) PROVE IInv' /\ Reported(ses, ses')
  BY <1>0, <1>9, KillSessionKeeps, SesKeeps DEF KillSession
<1>10. ASSUME NEW c \in Client, NEW d \in Client, Steal(c, d)
       PROVE  IInv' /\ Reported(ses, ses')
  BY <1>0, <1>10, StealKeeps, SesKeeps DEF Steal
<1>11. ASSUME NEW c \in Client, NEW p \in Pods, Adopt(c, p)
       PROVE  IInv' /\ Reported(ses, ses')
  BY <1>0, <1>11, AdoptKeeps, SesKeeps DEF Adopt
<1>12. ASSUME NEW c \in Conns, HangUp(c) PROVE IInv' /\ Reported(ses, ses')
  BY <1>12, HangUpKeeps
<1>13. ASSUME NEW p \in Pods, PaneGone(p) PROVE IInv' /\ Reported(ses, ses')
  BY <1>0, <1>13, PaneGoneKeeps, SesKeeps DEF PaneGone
<1>14. ASSUME NEW p \in Pods, Says(p) PROVE IInv' /\ Reported(ses, ses')
  BY <1>0, <1>14, SaysKeeps, SesKeeps DEF Says
<1>15. ASSUME NEW p \in Pods, Dies(p) PROVE IInv' /\ Reported(ses, ses')
  BY <1>0, <1>15, DiesKeeps, SesKeeps DEF Dies
<1>16. ASSUME NEW p \in Pods, TimeIsUp(p) PROVE IInv' /\ Reported(ses, ses')
  BY <1>0, <1>16, TimeIsUpKeeps, SesKeeps DEF TimeIsUp
<1>17. CASE UNCHANGED vars
  BY <1>17, StutterKeeps
<1>18. QED
  BY <1>1, <1>2, <1>3, <1>4, <1>5, <1>6, <1>7, <1>8, <1>9, <1>10, <1>11, <1>12,
     <1>13, <1>14, <1>15, <1>16, <1>17 DEF Next
-----------------------------------------------------------------------------
(* The theorems *)

LEMMA Invariance == Spec => []IInv
<1>1. IInv /\ [Next]_vars => IInv'
  BY NextKeeps
<1>2. QED
  BY <1>1, Starts, PTL DEF Spec

\* The tables keep their types, and no pod has a pane while it is in flight.
THEOREM TablesAreTyped == Spec => []TypeOK
<1>1. IInv => TypeOK
  BY DEF IInv, TypeOK, Sound, PodSound
<1>2. QED
  BY <1>1, Invariance, PTL

\* No pod lives that is neither awaited nor in the store (failPendingSpawn
\* kills what it gives up).
THEOREM PodsAreAccountedFor == Spec => []NoOrphanPod
<1>1. IInv => NoOrphanPod
  <2>1. SUFFICES ASSUME IInv, NEW p \in ses.alive
                 PROVE  p \in InFlight(ses) \union {q \in Pods : ses.pane[q].kept}
    BY DEF NoOrphanPod
  <2>2. p \in Pods /\ PodSound(ses, p)
    BY <2>1, StoreFields DEF IInv, Sound
  <2>3. QED
    BY <2>1, <2>2 DEF PodSound, InFlight
<1>2. QED
  BY <1>1, Invariance, PTL

\* A late reply reaches the connection that asked or none (replyDeferred).
THEOREM RepliesGoHome == Spec => []AnswersGoHome
<1>1. IInv => AnswersGoHome
  BY DEF IInv, AnswersGoHome, Sound
<1>2. QED
  BY <1>1, Invariance, PTL

\* A client that has gone has no spawn in flight and no pane
\* (cancelPendingSpawnsForClient).
THEOREM SpawnsEndWithTheirClient == Spec => []NoPaneForTheGone
<1>1. IInv => NoPaneForTheGone
  BY DEF IInv, NoPaneForTheGone, Sound, PodSound, IsClient
<1>2. QED
  BY <1>1, Invariance, PTL

\* What was reported as an error has left neither a pane nor a pod.
THEOREM FailuresLeaveNothing == Spec => []ErrorsAreTrue
<1>1. IInv => ErrorsAreTrue
  BY DEF IInv, ErrorsAreTrue, Sound, PodSound
<1>2. QED
  BY <1>1, Invariance, PTL

\* Every request is answered once, at the step that takes it off the list.
THEOREM EachAnsweredOnce == Spec => AnsweredOnce
<1> DEFINE Step == \A p \in Pods :
                     /\ ses.told[p] # "nothing" => ses'.told[p] = ses.told[p]
                     /\ p \in InFlight(ses) \ InFlight(ses') => ses'.told[p] # "nothing"
<1>1. IInv /\ [Next]_vars => [Step]_vars
  BY NextKeeps DEF Reported
<1>2. QED
  BY <1>1, Invariance, PTL DEF Spec, AnsweredOnce
=============================================================================
