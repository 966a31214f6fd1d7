-------------------------- MODULE SesSessionHolding --------------------------
(***************************************************************************)
(* Who holds a session, what a frontend leaves behind and what a restart   *)
(* finds: proofs about SesSession on top of SesSessionProofs.              *)
(*                                                                         *)
(* Exclusive strengthens the three properties about sessions to something  *)
(* inductive: no client works in a session that another one is             *)
(* reattaching.  Without that a commit could make two holders of one.      *)
(* It is a predicate of a store and its locks, because a reattach that     *)
(* steals passes through a store of its own, without the robbed client.    *)
(*                                                                         *)
(* LocksHold is assumed where the lock of a reattach matters: with "slow"  *)
(* in Hazards the properties are false, as a run of SesSession shows.      *)
(***************************************************************************)
EXTENDS SesSessionProofs

-----------------------------------------------------------------------------
(* Who holds which session *)

\* U leaves every client its session, and detaches none.
Settled(T, U) == SameClients(T, U) /\ DOMAIN U.detached \subseteq DOMAIN T.detached

\* Most handlers move panes about and leave the sessions alone.
LEMMA SettledTwice ==
  ASSUME NEW T, NEW U, NEW V, Settled(T, U), Settled(U, V)
  PROVE  Settled(T, V)
BY DEF Settled, SameClients

LEMMA SyncFloatSettled ==
  ASSUME IsStore(store), NEW c, NEW p, SyncFloat(c, p)
  PROVE  Settled(store, store')
<1> DEFINE r == [store.clients[c] EXCEPT !.floats = @ \union {p}]
           U == [store EXCEPT !.clients[c] = r]
<1>1. c \in DOMAIN store.clients /\ p \in Keyed
  BY DEF SyncFloat, Live
<1>2. store.clients[c] \in Client
  BY <1>1, StoreFacts
<1>3. /\ r \in Client /\ r.session = store.clients[c].session
      /\ r.pending = store.clients[c].pending
  BY <1>1, <1>2 DEF Client
<1>4. store' = Dirty(U)
  BY <1>1, StoreFacts DEF SyncFloat
<1> HIDE DEF r
<1>5. /\ IsStore(U) /\ U.detached = store.detached
      /\ U.clients = [store.clients EXCEPT ![c] = r]
  BY <1>1, <1>3, ClientFacts
<1> HIDE DEF U
<1>6. store'.clients = U.clients /\ store'.detached = U.detached
  BY <1>4, <1>5, DirtyFacts
<1>7. QED
  BY <1>1, <1>3, <1>5, <1>6, StoreFacts DEF Settled, SameClients

\* Taking a pane over, from whoever has it.
LEMMA AttachedSettled ==
  ASSUME NEW T, IsStore(T), NEW c \in DOMAIN T.clients, NEW p \in DOMAIN T.panes
  PROVE  Settled(T, Attached(T, c, p))
BY AttachedFacts DEF Settled

\* Nor does a steal, or a kill.
LEMMA TakenSettled ==
  ASSUME NEW T, IsStore(T), NEW p \in DOMAIN T.panes
  PROVE  /\ Settled(T, Taken(T, p)) /\ IsStore(Taken(T, p))
         /\ DOMAIN Taken(T, p).panes = DOMAIN T.panes
BY TakenFacts DEF Settled

LEMMA TakeStickySettled ==
  ASSUME IsStore(store), NEW c, NEW p, NEW free, TakeSticky(c, p, free)
  PROVE  Settled(store, store')
<1> DEFINE U == IF store.panes[p].state = "detached" \/ Parked(store, p)
                  THEN Unparked(store, p) ELSE store
           V == IF store.panes[p].owner # NoClient THEN Taken(U, p) ELSE U
<1>1. c \in DOMAIN store.clients /\ p \in DOMAIN store.panes /\ store' = Attached(V, c, p)
  BY DEF TakeSticky, Live, Candidates
<1>2. /\ Settled(store, U) /\ IsStore(U) /\ p \in DOMAIN U.panes
      /\ c \in DOMAIN U.clients
  BY <1>1, UnparkedFacts DEF Settled, SameClients
<1> HIDE DEF U
<1>3. Settled(U, V) /\ IsStore(V) /\ p \in DOMAIN V.panes /\ c \in DOMAIN V.clients
  BY <1>2, TakenSettled DEF Settled, SameClients
<1> HIDE DEF V
<1>4. Settled(V, store')
  BY <1>1, <1>3, AttachedSettled
<1>5. QED
  BY <1>2, <1>3, <1>4, SettledTwice

LEMMA AdoptSettled ==
  ASSUME IsStore(store), NEW c, NEW p, Adopt(c, p)
  PROVE  Settled(store, store')
<1> DEFINE V == IF store.panes[p].owner # NoClient THEN Taken(store, p) ELSE store
<1>1. c \in DOMAIN store.clients /\ p \in DOMAIN store.panes /\ store' = Attached(V, c, p)
  BY DEF Adopt, Live, Adoptable
<1>2. Settled(store, V) /\ IsStore(V) /\ p \in DOMAIN V.panes /\ c \in DOMAIN V.clients
  BY <1>1, TakenSettled DEF Settled, SameClients
<1> HIDE DEF V
<1>3. Settled(V, store')
  BY <1>1, <1>2, AttachedSettled
<1>4. QED
  BY <1>2, <1>3, SettledTwice

LEMMA SuspendSettled ==
  ASSUME IsStore(store), NEW c, NEW p, Suspend(c, p)
  PROVE  Settled(store, store')
<1> DEFINE clients == [x \in Live |-> IF x = store.panes[p].owner
                                        THEN Without(store.clients[x], {p})
                                        ELSE store.clients[x]]
<1>1. store'.clients = clients /\ store'.detached = store.detached
  BY StoreFacts DEF Suspend
<1>2. \A x \in DOMAIN store.clients :
        /\ clients[x].session = store.clients[x].session
        /\ clients[x].pending = store.clients[x].pending
  BY StoreFacts, WithoutClient DEF Live
<1>3. QED
  BY <1>1, <1>2 DEF Settled, SameClients, Live

LEMMA KilledSettled ==
  ASSUME NEW T, IsStore(T), NEW P
  PROVE  Settled(T, Killed(T, P)) /\ IsStore(Killed(T, P))
BY KilledFacts DEF Loses, Settled

LEMMA KillSessionSettled ==
  ASSUME IsStore(store), NEW s, KillSession(s)
  PROVE  Settled(store, store')
<1> DEFINE detached == [t \in DOMAIN store.detached \ {s} |-> store.detached[t]]
           U == [store EXCEPT !.detached = detached]
           V == Killed(U, store.detached[s].panes)
<1>1. store' = Dirty(V)
  BY DEF KillSession, Restrict
<1>2. IsTable(detached, Sessions, Parking) /\ DOMAIN detached \subseteq DOMAIN store.detached
  BY StoreFacts DEF IsTable
<1> HIDE DEF detached
<1>3. U = [store EXCEPT !.detached = detached]
  OBVIOUS
<1> HIDE DEF U
<1>4. IsStore(U) /\ U.detached = detached /\ U.clients = store.clients
  BY <1>2, <1>3, StoreFacts DEF IsStore
<1>5. Settled(store, U)
  BY <1>2, <1>4 DEF Settled, SameClients
<1>6. Settled(U, V) /\ IsStore(V)
  BY <1>4, KilledSettled
<1> HIDE DEF V
<1>7. Settled(V, Dirty(V))
  BY <1>6, DirtyFacts DEF Settled, SameClients
<1>8. QED
  BY <1>1, <1>5, <1>6, <1>7, SettledTwice

\* A session is held, detached or being reattached, by one client at most.
Exclusive(T, lk) ==
  /\ \A c, d \in DOMAIN T.clients : T.clients[c].session = T.clients[d].session => c = d
  /\ \A s \in Sessions : lk[s] # NoClient =>
       lk[s] \in DOMAIN T.clients /\ T.clients[lk[s]].pending = s
  /\ \A c \in DOMAIN T.clients : T.clients[c].pending # NoSession =>
       lk[T.clients[c].pending] = c
  /\ \A s \in DOMAIN T.detached : \A c \in DOMAIN T.clients : T.clients[c].session # s
  /\ \A c, d \in DOMAIN T.clients : T.clients[c].session # T.clients[d].pending

\* Such handlers keep sessions exclusive.
LEMMA SettledExclusive ==
  ASSUME NEW T, NEW U, NEW lk, Exclusive(T, lk), Settled(T, U)
  PROVE  Exclusive(U, lk)
BY DEF Exclusive, Settled, SameClients

\* The sessions in a client's record are sessions.
LEMMA ClientsFacts ==
  ASSUME NEW T, Sound(T)
  PROVE  /\ DOMAIN T.clients \subseteq Clients /\ DOMAIN T.detached \subseteq Sessions
         /\ \A c \in DOMAIN T.clients :
              /\ T.clients[c].session \in Sessions
              /\ T.clients[c].pending \in Sessions \union {NoSession}
<1>1. IsStore(T)
  BY DEF Sound
<1>2. QED
  BY <1>1, StoreFacts DEF Client

\* U is T without client c, whose session may have become detached.
Leaves(T, U, c) ==
  /\ c \in DOMAIN T.clients
  /\ DOMAIN U.clients = DOMAIN T.clients \ {c}
  /\ \A d \in DOMAIN T.clients \ {c} : /\ U.clients[d].session = T.clients[d].session
                                       /\ U.clients[d].pending = T.clients[d].pending
  /\ DOMAIN U.detached \subseteq DOMAIN T.detached \union {T.clients[c].session}

\* The locks of c are gone, and perhaps that of session t.
Released(lk, lk2, c, t) ==
  \A s \in Sessions : \/ lk2[s] = IF lk[s] = c THEN NoClient ELSE lk[s]
                      \/ s = t /\ lk2[s] = NoClient

\* With c gone, nobody holds its session, so that it may be detached.
LEMMA LeaverExclusive ==
  ASSUME NEW T, NEW U, NEW c, NEW lk, NEW lk2, Sound(T), Exclusive(T, lk),
         Leaves(T, U, c), Released(lk, lk2, c, T.clients[c].session)
  PROVE  Exclusive(U, lk2)
<1> USE DEF Leaves, Released
<1>0. \A d \in DOMAIN T.clients : T.clients[d].pending \in Sessions \union {NoSession}
  BY ClientsFacts
<1>1. ASSUME NEW d \in DOMAIN U.clients, U.clients[d].pending # NoSession
      PROVE  lk2[U.clients[d].pending] = d
  <2>1. /\ d \in DOMAIN T.clients /\ d # c /\ U.clients[d].pending = T.clients[d].pending
        /\ T.clients[d].pending \in Sessions
    BY <1>0, <1>1
  <2>2. lk[T.clients[d].pending] = d /\ T.clients[d].pending # T.clients[c].session
    BY <1>1, <2>1 DEF Exclusive
  <2>3. QED
    BY <2>1, <2>2
<1>2. ASSUME NEW s \in Sessions, lk2[s] # NoClient
      PROVE  lk2[s] \in DOMAIN U.clients /\ U.clients[lk2[s]].pending = s
  <2>1. lk2[s] = lk[s] /\ lk[s] # c
    BY <1>2
  <2>2. lk[s] \in DOMAIN T.clients /\ T.clients[lk[s]].pending = s
    BY <1>2, <2>1 DEF Exclusive
  <2>3. QED
    BY <2>1, <2>2
<1>3. /\ \A d, e \in DOMAIN U.clients : U.clients[d].session = U.clients[e].session => d = e
      /\ \A d, e \in DOMAIN U.clients : U.clients[d].session # U.clients[e].pending
  BY DEF Exclusive
<1>4. \A s \in DOMAIN U.detached : \A d \in DOMAIN U.clients : U.clients[d].session # s
  BY DEF Exclusive
<1>5. QED
  BY <1>1, <1>2, <1>3, <1>4 DEF Exclusive

\* Nobody else works in s or waits for it when c is given it to reattach.
LEMMA HandedExclusive ==
  ASSUME NEW T, Sound(T), NEW lk \in [Sessions -> Clients \union {NoClient}],
         Exclusive(T, lk), NEW c \in DOMAIN T.clients,
         T.clients[c].pending = NoSession, NEW s \in DOMAIN T.detached, lk[s] = NoClient
  PROVE  Exclusive(Handed(T, c, s), [lk EXCEPT ![s] = c])
<1> DEFINE U == Handed(T, c, s)
           lk2 == [lk EXCEPT ![s] = c]
<1>1. /\ DOMAIN U.clients = DOMAIN T.clients
      /\ \A d \in DOMAIN T.clients : /\ U.clients[d].session = T.clients[d].session
                                     /\ U.clients[d].pending
                                          = IF d = c THEN s ELSE T.clients[d].pending
      /\ DOMAIN U.detached = DOMAIN T.detached
  BY HandedFacts
<1>2. s \in Sessions /\ IsStore(T)
  BY StoreFacts DEF Sound
<1>3. \A d \in DOMAIN T.clients : T.clients[d].pending \in Sessions \union {NoSession}
  BY <1>2, StoreFacts DEF Client
<1>4. lk2[s] = c /\ \A t \in Sessions \ {s} : lk2[t] = lk[t]
  BY <1>2
<1>5. c # NoClient
  BY <1>2, NoClientFacts, StoreFacts
<1> HIDE DEF U, lk2
<1>6. ASSUME NEW t \in Sessions, lk2[t] # NoClient
      PROVE  lk2[t] \in DOMAIN U.clients /\ U.clients[lk2[t]].pending = t
  <2>1. CASE t = s
    BY <1>1, <1>4, <2>1
  <2>2. CASE t # s
    <3>1. lk2[t] \in DOMAIN T.clients /\ T.clients[lk2[t]].pending = t
      BY <1>4, <1>6, <2>2 DEF Exclusive
    <3>2. lk2[t] # c
      BY <3>1, SessionAssumption
    <3>3. QED
      BY <1>1, <3>1, <3>2
  <2>3. QED
    BY <2>1, <2>2
<1>7. ASSUME NEW d \in DOMAIN U.clients, U.clients[d].pending # NoSession
      PROVE  lk2[U.clients[d].pending] = d
  <2>1. CASE d = c
    BY <1>1, <1>4, <2>1
  <2>2. CASE d # c
    <3>1. /\ U.clients[d].pending = T.clients[d].pending /\ T.clients[d].pending \in Sessions
          /\ lk[T.clients[d].pending] = d
      BY <1>1, <1>3, <1>7, <2>2 DEF Exclusive
    <3>2. d # NoClient
      BY <1>1, <1>2, NoClientFacts, StoreFacts
    <3>3. QED
      BY <1>4, <3>1, <3>2
  <2>3. QED
    BY <2>1, <2>2
<1>8. /\ \A d, e \in DOMAIN U.clients : U.clients[d].session = U.clients[e].session => d = e
      /\ \A d, e \in DOMAIN U.clients : U.clients[d].session # U.clients[e].pending
      /\ \A t \in DOMAIN U.detached : \A d \in DOMAIN U.clients : U.clients[d].session # t
  BY <1>1 DEF Exclusive
<1>9. Exclusive(U, lk2)
  BY <1>6, <1>7, <1>8 DEF Exclusive
<1>10. QED
  BY <1>9 DEF U, lk2

\* No reattach takes longer than its lock holds.
LocksHold == "slow" \notin Hazards

\* Only a lock that is free, or has expired, is taken.
LEMMA MayLockIsFree ==
  ASSUME LocksHold, NEW lk, NEW s, MayLock(lk, s)
  PROVE  lk[s] = NoClient
BY DEF LocksHold, MayLock

\* A reattach that is granted or refused keeps sessions exclusive,
LEMMA CompletedExclusive ==
  ASSUME LocksHold, NEW T, Sound(T), NEW lk \in [Sessions -> Clients \union {NoClient}],
         Exclusive(T, lk), NEW c \in DOMAIN T.clients, T.clients[c].pending = NoSession,
         NEW s \in DOMAIN T.detached, CompleteReattach(T, lk, c, s)
  PROVE  Exclusive(store', locks')
<1>1. CASE MayLock(lk, s) /\ locks' = [lk EXCEPT ![s] = c] /\ store' = Handed(T, c, s)
  BY <1>1, MayLockIsFree, HandedExclusive
<1>2. CASE locks' = lk /\ store' = T
  BY <1>2
<1>3. QED
  BY <1>1, <1>2, CompleteReattachCases

\* ... also one that has to rob the holder first.
LEMMA ReattachExclusive ==
  ASSUME LocksHold, Inv, Exclusive(store, locks), NEW c, NEW s \in Sessions, Reattach(c, s)
  PROVE  Exclusive(store', locks')
<1>1. /\ c \in DOMAIN store.clients /\ store.clients[c].pending = NoSession /\ Reattached(c, s)
      /\ Sound(store) /\ locks \in [Sessions -> Clients \union {NoClient}]
  BY ReattachIsReattached DEF Live, Inv, Typed
<1>2. CASE s \in DOMAIN store.detached
  BY <1>1, <1>2, CompletedExclusive DEF Reattached
<1>3. CASE s \notin DOMAIN store.detached
  <2>1. PICK o \in Live \ {c} : /\ {x \in Live : store.clients[x].session = s} = {o}
                                /\ CompleteReattach(Stolen(store, o, s), Unlocked(o), c, s)
    BY <1>1, <1>3 DEF Reattached
  <2>2. o \in DOMAIN store.clients /\ store.clients[o].session = s
    BY <2>1 DEF Live
  <2> DEFINE T == Stolen(store, o, s)
             lk == Unlocked(o)
  <2>3. /\ Follows(store, T)
        /\ DOMAIN T.clients = DOMAIN store.clients \ {o}
        /\ \A d \in DOMAIN store.clients \ {o} : T.clients[d] = store.clients[d]
        /\ DOMAIN T.detached = DOMAIN store.detached \union {s}
    BY <1>1, <2>2, StolenFacts
  <2>4. lk \in [Sessions -> Clients \union {NoClient}] /\ Released(locks, lk, o, s)
    BY <1>1 DEF Unlocked, Released
  <2> HIDE DEF T, lk
  <2>5. Exclusive(T, lk)
    <3>1. Leaves(store, T, o)
      BY <2>2, <2>3 DEF Leaves
    <3>2. QED
      BY <1>1, <2>2, <2>4, <3>1, LeaverExclusive
  <2>6. CompleteReattach(T, lk, c, s)
    BY <2>1 DEF T, lk
  <2>7. Sound(T) /\ c \in DOMAIN T.clients /\ T.clients[c].pending = NoSession
        /\ s \in DOMAIN T.detached
    BY <1>1, <2>1, <2>3 DEF Follows
  <2>8. QED
    BY <2>4, <2>5, <2>6, <2>7, CompletedExclusive
<1>4. QED
  BY <1>2, <1>3

\* A made-up session id is nobody else's.
LEMMA RegisterExclusive ==
  ASSUME Inv, Exclusive(store, locks), NEW c \in Clients, NEW s \in Sessions, Register(c, s)
  PROVE  Exclusive(store', locks')
<1>1. Sound(store) /\ c = nextId /\ c \in Nat
  BY NoClientFacts DEF Inv, Register
<1>2. c \notin DOMAIN store.clients /\ OwnedIn(store, c) = {}
  BY <1>1 DEF Inv, Known, OwnedIn
<1>3. /\ store'.detached = store.detached
      /\ DOMAIN store'.clients = DOMAIN store.clients \union {c}
      /\ \A d \in DOMAIN store.clients : store'.clients[d] = store.clients[d]
      /\ store'.clients[c].session = s /\ store'.clients[c].pending = NoSession
  BY <1>1, <1>2, RegisterKeeps
<1>4. /\ s \notin DOMAIN store.detached
      /\ \A d \in DOMAIN store.clients : s # store.clients[d].session /\ s # store.clients[d].pending
  BY DEF Register, Fresh, Live
<1>5. locks' = [locks EXCEPT ![s] = NoClient] /\ locks \in [Sessions -> Clients \union {NoClient}]
  BY DEF Register, Inv, Typed
<1>6. \A t \in Sessions : locks'[t] = IF t = s THEN NoClient ELSE locks[t]
  BY <1>5
<1>7. /\ NoSession \notin Sessions
      /\ \A d \in DOMAIN store.clients : store.clients[d].session \in Sessions
      /\ \A d \in DOMAIN store.clients : store.clients[d].pending \in Sessions \union {NoSession}
  BY <1>1, ClientsFacts, SessionAssumption
<1>8. ASSUME NEW t \in Sessions, locks'[t] # NoClient
      PROVE  locks'[t] \in DOMAIN store'.clients /\ store'.clients[locks'[t]].pending = t
  BY <1>3, <1>6, <1>8 DEF Exclusive
<1>9. ASSUME NEW d \in DOMAIN store'.clients, store'.clients[d].pending # NoSession
      PROVE  locks'[store'.clients[d].pending] = d
  BY <1>3, <1>4, <1>6, <1>7, <1>9 DEF Exclusive
<1>10. \A d, e \in DOMAIN store'.clients :
         /\ store'.clients[d].session = store'.clients[e].session => d = e
         /\ store'.clients[d].session # store'.clients[e].pending
  BY <1>3, <1>4, <1>7 DEF Exclusive
<1>11. \A t \in DOMAIN store'.detached : \A d \in DOMAIN store'.clients :
         store'.clients[d].session # t
  BY <1>3, <1>4 DEF Exclusive
<1>12. QED
  BY <1>8, <1>9, <1>10, <1>11 DEF Exclusive

\* At the commit nobody works in s, and nobody else waits for it.
LEMMA CommitExclusive ==
  ASSUME Inv, Exclusive(store, locks), NEW c, Commit(c)
  PROVE  Exclusive(store', locks')
<1> DEFINE s == store.clients[c].pending
<1>1. Sound(store)
  BY DEF Inv
<1>2. /\ c \in DOMAIN store.clients /\ s # NoSession
      /\ DOMAIN store'.clients = DOMAIN store.clients
      /\ \A d \in DOMAIN store.clients \ {c} : store'.clients[d] = store.clients[d]
      /\ store'.clients[c].session = s /\ store'.clients[c].pending = NoSession
      /\ DOMAIN store'.detached = DOMAIN store.detached \ {s}
  BY <1>1, CommitFacts
<1>3. locks' = [locks EXCEPT ![s] = NoClient] /\ locks \in [Sessions -> Clients \union {NoClient}]
  BY DEF Commit, Inv, Typed
<1> HIDE DEF s
<1>4. \A t \in Sessions : locks'[t] = IF t = s THEN NoClient ELSE locks[t]
  BY <1>3
<1>5. /\ NoSession \notin Sessions /\ s \in Sessions
      /\ \A d \in DOMAIN store.clients : store.clients[d].session \in Sessions
      /\ \A d \in DOMAIN store.clients : store.clients[d].pending \in Sessions \union {NoSession}
  BY <1>1, <1>2, ClientsFacts, SessionAssumption DEF s
<1>6. /\ locks[s] = c
      /\ \A d \in DOMAIN store.clients : store.clients[d].pending = s => d = c
      /\ \A d \in DOMAIN store.clients : store.clients[d].session # s
      /\ \A t \in Sessions : locks[t] = c => t = s
  <2>1. c # NoClient
    BY <1>1, <1>2, NoClientFacts, ClientsFacts
  <2>2. QED
    BY <1>2, <1>5, <2>1 DEF Exclusive, s
<1>7. ASSUME NEW t \in Sessions, locks'[t] # NoClient
      PROVE  locks'[t] \in DOMAIN store'.clients /\ store'.clients[locks'[t]].pending = t
  <2>1. t # s /\ locks'[t] = locks[t]
    BY <1>4, <1>7
  <2>2. locks[t] \in DOMAIN store.clients /\ store.clients[locks[t]].pending = t
    BY <1>7, <2>1 DEF Exclusive
  <2>3. locks[t] # c
    BY <1>6, <2>1
  <2>4. QED
    BY <1>2, <2>1, <2>2, <2>3
<1>8. ASSUME NEW d \in DOMAIN store'.clients, store'.clients[d].pending # NoSession
      PROVE  locks'[store'.clients[d].pending] = d
  <2>1. /\ d # c /\ d \in DOMAIN store.clients
        /\ store'.clients[d].pending = store.clients[d].pending
    BY <1>2, <1>8
  <2>2. store.clients[d].pending \in Sessions /\ store.clients[d].pending # s
    BY <1>5, <1>6, <1>8, <2>1
  <2>3. locks[store.clients[d].pending] = d
    BY <1>8, <2>1 DEF Exclusive
  <2>4. QED
    BY <1>4, <2>1, <2>2, <2>3
<1>9. \A d, e \in DOMAIN store'.clients :
        /\ store'.clients[d].session = store'.clients[e].session => d = e
        /\ store'.clients[d].session # store'.clients[e].pending
  BY <1>2, <1>5, <1>6 DEF Exclusive
<1>10. \A t \in DOMAIN store'.detached : \A d \in DOMAIN store'.clients :
         store'.clients[d].session # t
  BY <1>2, <1>6 DEF Exclusive
<1>11. QED
  BY <1>7, <1>8, <1>9, <1>10 DEF Exclusive

LEMMA DetachExclusive ==
  ASSUME Inv, Exclusive(store, locks), NEW c, Detach(c)
  PROVE  Exclusive(store', locks')
<1>1. Sound(store)
  BY DEF Inv
<1>2. Leaves(store, store', c)
  BY <1>1, DetachFacts DEF Leaves
<1>3. Released(locks, locks', c, store.clients[c].session)
  BY DEF Detach, Unlocked, Released
<1>4. QED
  BY <1>1, <1>2, <1>3, LeaverExclusive

LEMMA LostExclusive ==
  ASSUME Inv, Exclusive(store, locks), NEW c, Lost(c)
  PROVE  Exclusive(store', locks')
<1>1. Sound(store)
  BY DEF Inv
<1>2. Leaves(store, store', c)
  BY <1>1, LostFacts DEF Leaves
<1>3. Released(locks, locks', c, store.clients[c].session)
  BY DEF Lost, Unlocked, Released
<1>4. QED
  BY <1>1, <1>2, <1>3, LeaverExclusive

LEMMA ShutdownExclusive ==
  ASSUME Inv, Exclusive(store, locks), NEW c, NEW preserve, Shutdown(c, preserve)
  PROVE  Exclusive(store', locks')
<1>1. Sound(store)
  BY DEF Inv
<1>2. Leaves(store, store', c)
  BY <1>1, ShutdownFacts DEF Leaves
<1>3. Released(locks, locks', c, store.clients[c].session)
  BY DEF Shutdown, Unlocked, Released
<1>4. QED
  BY <1>1, <1>2, <1>3, LeaverExclusive

LEMMA RestartExclusive ==
  ASSUME Inv, Restart
  PROVE  Exclusive(store', locks')
<1>1. PICK lg : store' = Swept(RolledBack(Relinked(Loaded), lg))
  BY DEF Restart
<1>2. DOMAIN store'.clients = {}
  BY <1>1, RestartedFacts DEF Inv, Typed, Deserted
<1>3. \A s \in Sessions : locks'[s] = NoClient
  BY DEF Restart, NoLocks
<1>4. QED
  BY <1>2, <1>3 DEF Exclusive

\* Every step keeps sessions exclusive.
LEMMA NextExclusive ==
  ASSUME LocksHold, Inv, Exclusive(store, locks), [Next]_vars
  PROVE  Exclusive(store', locks')
<1>1. IsStore(store)
  BY DEF Inv, Sound
<1>2. ASSUME Settled(store, store'), locks' = locks
      PROVE  Exclusive(store', locks')
  BY <1>2, SettledExclusive
<1>3. ASSUME store' = store, locks' = locks
      PROVE  Exclusive(store', locks')
  BY <1>3
<1>4. ASSUME NEW c \in Clients, NEW p \in Panes, SyncFloat(c, p)
      PROVE  Exclusive(store', locks')
  BY <1>1, <1>2, <1>4, SyncFloatSettled DEF SyncFloat
<1>5. ASSUME NEW c \in Clients, NEW p \in Panes, NEW free \in BOOLEAN, TakeSticky(c, p, free)
      PROVE  Exclusive(store', locks')
  BY <1>1, <1>2, <1>5, TakeStickySettled DEF TakeSticky
<1>6. ASSUME NEW c \in Clients, NEW p \in Panes, Adopt(c, p)
      PROVE  Exclusive(store', locks')
  BY <1>1, <1>2, <1>6, AdoptSettled DEF Adopt
<1>7. ASSUME NEW c \in Clients, NEW p \in Panes, Suspend(c, p)
      PROVE  Exclusive(store', locks')
  BY <1>1, <1>2, <1>7, SuspendSettled DEF Suspend
<1>8. ASSUME NEW c \in Clients, NEW p \in Panes, KillPane(c, p)
      PROVE  Exclusive(store', locks')
  BY <1>1, <1>2, <1>8, KilledSettled DEF KillPane
<1>9. ASSUME NEW c \in Clients, NEW p \in Panes, CreatePane(c, p)
      PROVE  Exclusive(store', locks')
  <2>1. p \notin DOMAIN store.panes /\ Sound(store)
    BY <1>9 DEF CreatePane, Inv, Known
  <2>2. Settled(store, store')
    BY <1>9, <2>1, CreatePaneKeeps DEF Settled
  <2>3. QED
    BY <1>2, <1>9, <2>2 DEF CreatePane
<1>10. ASSUME NEW p \in Panes, PodDies(p) PROVE Exclusive(store', locks')
  BY <1>3, <1>10 DEF PodDies
<1>11. ASSUME NEW p \in Panes, PodExit(p) PROVE Exclusive(store', locks')
  BY <1>1, <1>2, <1>11, KilledSettled DEF PodExit
<1>12. ASSUME NEW p \in Panes, Sweep(p) PROVE Exclusive(store', locks')
  BY <1>1, <1>2, <1>12, KilledSettled DEF Sweep
<1>13. ASSUME NEW s \in Sessions, KillSession(s) PROVE Exclusive(store', locks')
  BY <1>1, <1>2, <1>13, KillSessionSettled DEF KillSession
<1>14. CASE KillOrphans
  <2> DEFINE idle == {p \in DOMAIN store.panes : store.panes[p].state \in {"orphaned", "sticky"}}
  <2>1. store' = Killed(store, idle)
    BY <1>14 DEF KillOrphans
  <2>2. QED
    BY <1>1, <1>2, <1>14, <2>1, KilledSettled DEF KillOrphans
<1>15. CASE Save
  <2>1. store' = [store EXCEPT !.dirty = FALSE]
    BY <1>15 DEF Save, Saved
  <2>2. Settled(store, store')
    BY <1>1, <2>1, StoreFacts DEF Settled, SameClients
  <2>3. QED
    BY <1>2, <1>15, <2>2 DEF Save
<1>16. CASE UNCHANGED vars
  BY <1>3, <1>16 DEF vars
<1>17. QED
  BY <1>4, <1>5, <1>6, <1>7, <1>8, <1>9, <1>10, <1>11, <1>12, <1>13, <1>14, <1>15, <1>16,
     RegisterExclusive, ReattachExclusive, CommitExclusive, DetachExclusive, LostExclusive,
     ShutdownExclusive, RestartExclusive DEF Next

LEMMA ExclusiveHolds ==
  ASSUME LocksHold
  PROVE  Spec => []Exclusive(store, locks)
<1>1. Init => Exclusive(store, locks)
  BY DEF Init, Nothing, NoLocks, Exclusive
<1>2. Inv /\ Exclusive(store, locks) /\ [Next]_vars => Exclusive(store, locks)'
  BY NextExclusive
<1>3. QED
  BY <1>1, <1>2, InvHolds, PTL DEF Spec

\* Two clients never hold one session, as long as no reattach outlives its lock:
\* whoever attaches to an attached session throws the other frontend out, and
\* the lock keeps racing reattaches apart.
THEOREM OneHolder == LocksHold => (Spec => []OneClientPerSession)
<1> SUFFICES ASSUME LocksHold PROVE Spec => []OneClientPerSession
  OBVIOUS
<1>1. Exclusive(store, locks) => OneClientPerSession
  BY DEF Exclusive, OneClientPerSession, Live
<1>2. QED
  BY <1>1, ExclusiveHolds, PTL

\* A lock is held exactly by the client that is reattaching the session, as long
\* as no reattach outlives its lock: no way a client ends leaves a lock behind.
THEOREM NoLockLeftBehind == LocksHold => (Spec => []ReattachIsExclusive)
<1> SUFFICES ASSUME LocksHold PROVE Spec => []ReattachIsExclusive
  OBVIOUS
<1>1. Exclusive(store, locks) => ReattachIsExclusive
  BY DEF Exclusive, ReattachIsExclusive, Live
<1>2. QED
  BY <1>1, ExclusiveHolds, PTL

\* A detached session is held by no client, as long as no reattach outlives its
\* lock: what is up for reattaching is nobody's at work.
THEOREM DetachedIsFree == LocksHold => (Spec => []NotHeldTwice)
<1> SUFFICES ASSUME LocksHold PROVE Spec => []NotHeldTwice
  OBVIOUS
<1>1. Exclusive(store, locks) => NotHeldTwice
  BY DEF Exclusive, NotHeldTwice, Live
<1>2. QED
  BY <1>1, ExclusiveHolds, PTL

-----------------------------------------------------------------------------
(* What a frontend leaves behind, and what a restart finds *)

\* What c owned is in session s, as far as its process lives.
AllParked(c, s) ==
  \A p \in Owned(c) : Alive(p) =>
    /\ p \in DOMAIN store'.panes /\ Parked(store', p)
    /\ store'.panes[p].session = s

\* collectDetachPaneUuids finds all a client owns, as the lists agree.
LEMMA OwnedIsMine ==
  ASSUME Sound(store), NEW c \in DOMAIN store.clients
  PROVE  Owned(c) = Mine(store, c)
BY DEF Sound, Lists, OwnedIn, Owned, Mine

\* The client that a reattach robs loses no living pane,
LEMMA ReattachParks ==
  ASSUME Sound(store), NEW c, NEW s \in Sessions, Reattach(c, s),
         NEW o \in Live \ DOMAIN store'.clients
  PROVE  AllParked(o, store.clients[o].session)
<1>1. c \in DOMAIN store.clients /\ Reattached(c, s)
  BY ReattachIsReattached DEF Live
<1>2. ASSUME NEW T, NEW lk, CompleteReattach(T, lk, c, s), Sound(T), c \in DOMAIN T.clients,
             s \in DOMAIN T.detached
      PROVE  /\ DOMAIN store'.clients = DOMAIN T.clients
             /\ \A p \in DOMAIN T.panes : Alive(p) =>
                  /\ p \in DOMAIN store'.panes /\ store'.panes[p] = T.panes[p]
                  /\ DOMAIN store'.detached = DOMAIN T.detached
                  /\ \A t \in DOMAIN T.detached :
                       p \in T.detached[t].panes => p \in store'.detached[t].panes
  <2>1. store' = Handed(T, c, s) \/ store' = T
    BY <1>2, CompleteReattachCases
  <2>2. CASE store' = T
    BY <2>2
  <2>3. CASE store' = Handed(T, c, s)
    BY <1>2, <2>3, HandedFacts
  <2>4. QED
    BY <2>1, <2>2, <2>3
<1>3. CASE s \in DOMAIN store.detached
  BY <1>1, <1>2, <1>3 DEF Reattached, Live
<1>4. CASE s \notin DOMAIN store.detached
  <2>1. PICK x \in Live \ {c} : /\ {y \in Live : store.clients[y].session = s} = {x}
                                /\ CompleteReattach(Stolen(store, x, s), Unlocked(x), c, s)
    BY <1>1, <1>4 DEF Reattached
  <2> DEFINE T == Stolen(store, x, s)
  <2>2. x \in DOMAIN store.clients /\ store.clients[x].session = s
    BY <2>1 DEF Live
  <2>3. /\ Follows(store, T)
        /\ DOMAIN T.clients = DOMAIN store.clients \ {x}
        /\ DOMAIN T.detached = DOMAIN store.detached \union {s}
        /\ DOMAIN T.panes = DOMAIN store.panes
        /\ \A p \in Mine(store, x) : T.panes[p].session = s /\ p \in T.detached[s].panes
    BY <2>2, StolenFacts
  <2>4. CompleteReattach(T, Unlocked(x), c, s)
    BY <2>1
  <2> HIDE DEF T
  <2>5. /\ DOMAIN store'.clients = DOMAIN T.clients
        /\ \A p \in DOMAIN T.panes : Alive(p) =>
             /\ p \in DOMAIN store'.panes /\ store'.panes[p] = T.panes[p]
             /\ DOMAIN store'.detached = DOMAIN T.detached
             /\ \A t \in DOMAIN T.detached :
                  p \in T.detached[t].panes => p \in store'.detached[t].panes
    BY <1>1, <1>2, <2>1, <2>3, <2>4 DEF Follows
  <2>6. o = x
    BY <2>3, <2>5 DEF Live
  <2>7. Owned(o) = Mine(store, x) /\ Mine(store, x) \subseteq DOMAIN store.panes
    BY <2>2, <2>6, OwnedIsMine DEF Mine
  <2>8. QED
    BY <2>2, <2>3, <2>5, <2>6, <2>7 DEF AllParked, Parked
<1>5. QED
  BY <1>3, <1>4

\* ... nor one that detaches,
LEMMA DetachParks ==
  ASSUME Sound(store), NEW c, Detach(c), NEW o \in Live \ DOMAIN store'.clients
  PROVE  AllParked(o, store.clients[o].session)
<1>1. /\ c \in DOMAIN store.clients /\ o = c /\ Owned(c) = Mine(store, c)
      /\ Mine(store, c) \subseteq DOMAIN store.panes
  BY DetachFacts, OwnedIsMine DEF Live, Mine
<1>2. QED
  BY <1>1, DetachFacts DEF AllParked, Parked

\* ... nor one whose connection is gone.
LEMMA LostParks ==
  ASSUME Sound(store), NEW c, Lost(c), NEW o \in Live \ DOMAIN store'.clients,
         store.clients[o].pending = NoSession
  PROVE  AllParked(o, store.clients[o].session)
<1>1. /\ c \in DOMAIN store.clients /\ o = c /\ Owned(c) = Mine(store, c)
      /\ Mine(store, c) \subseteq DOMAIN store.panes
  BY LostFacts, OwnedIsMine DEF Live, Mine
<1>2. store.clients[c].panes = {} => Mine(store, c) = {}
  BY <1>1 DEF Sound, Lists, OwnedIn, Mine
<1>3. QED
  BY <1>1, <1>2, LostFacts DEF AllParked, Parked

\* So no step loses a living pane of a client that leaves.
LEMMA NextParks ==
  ASSUME Inv, [Next]_vars, NEW o \in Live \ DOMAIN store'.clients
  PROVE  \/ \E preserve \in BOOLEAN : Shutdown(o, preserve)
         \/ restarts' # restarts
         \/ store.clients[o].pending # NoSession
         \/ AllParked(o, store.clients[o].session)
<1> DEFINE Goal == \/ \E preserve \in BOOLEAN : Shutdown(o, preserve)
                   \/ restarts' # restarts
                   \/ store.clients[o].pending # NoSession
                   \/ AllParked(o, store.clients[o].session)
<1> SUFFICES Goal
  OBVIOUS
<1>1. IsStore(store) /\ Sound(store)
  BY DEF Inv, Sound
<1>2. ASSUME Settled(store, store') PROVE Goal
  BY <1>2 DEF Settled, SameClients, Live
<1>3. ASSUME NEW c \in Clients, NEW s \in Sessions, Register(c, s) PROVE Goal
  <2>1. c = nextId /\ c \in Nat
    BY <1>3, NoClientFacts DEF Register
  <2>2. c \notin DOMAIN store.clients /\ OwnedIn(store, c) = {}
    BY <2>1 DEF Inv, Known, OwnedIn
  <2>3. QED
    BY <1>1, <1>3, <2>2, RegisterKeeps DEF Live
<1>4. ASSUME NEW c \in Clients, NEW s \in Sessions, Reattach(c, s) PROVE Goal
  BY <1>1, <1>4, ReattachParks
<1>5. ASSUME NEW c \in Clients, NEW p \in Panes, CreatePane(c, p) PROVE Goal
  <2>1. p \notin DOMAIN store.panes
    BY <1>5 DEF CreatePane, Inv, Known
  <2>2. QED
    BY <1>1, <1>5, <2>1, CreatePaneKeeps DEF SameClients, Live
<1>6. ASSUME NEW c \in Clients, NEW p \in Panes, SyncFloat(c, p) PROVE Goal
  BY <1>1, <1>2, <1>6, SyncFloatSettled
<1>7. ASSUME NEW c \in Clients, NEW p \in Panes, Adopt(c, p) PROVE Goal
  BY <1>1, <1>2, <1>7, AdoptSettled
<1>8. ASSUME NEW c \in Clients, NEW p \in Panes, Suspend(c, p) PROVE Goal
  BY <1>1, <1>2, <1>8, SuspendSettled
<1>9. ASSUME NEW c \in Clients, NEW p \in Panes, KillPane(c, p) PROVE Goal
  BY <1>1, <1>2, <1>9, KilledSettled DEF KillPane
<1>10. ASSUME NEW c \in Clients, NEW p \in Panes, NEW free \in BOOLEAN, TakeSticky(c, p, free)
       PROVE  Goal
  BY <1>1, <1>2, <1>10, TakeStickySettled
<1>11. ASSUME NEW c \in Clients, Commit(c) PROVE Goal
  BY <1>1, <1>11, CommitFacts DEF Live
<1>12. ASSUME NEW c \in Clients, Detach(c) PROVE Goal
  BY <1>1, <1>12, DetachParks
<1>13. ASSUME NEW c \in Clients, Lost(c) PROVE Goal
  BY <1>1, <1>13, LostParks
<1>14. ASSUME NEW c \in Clients, NEW preserve \in BOOLEAN, Shutdown(c, preserve) PROVE Goal
  <2>1. o = c
    BY <1>1, <1>14, ShutdownFacts DEF Live
  <2>2. QED
    BY <1>14, <2>1
<1>15. ASSUME NEW p \in Panes, PodDies(p) \/ PodExit(p) \/ Sweep(p) PROVE Goal
  <2>1. CASE PodDies(p)
    BY <2>1 DEF PodDies, Live
  <2>2. CASE PodExit(p)
    BY <1>1, <1>2, <2>2, KilledSettled DEF PodExit
  <2>3. CASE Sweep(p)
    BY <1>1, <1>2, <2>3, KilledSettled DEF Sweep
  <2>4. QED
    BY <1>15, <2>1, <2>2, <2>3
<1>16. ASSUME NEW s \in Sessions, KillSession(s) PROVE Goal
  BY <1>1, <1>2, <1>16, KillSessionSettled
<1>17. CASE KillOrphans
  <2> DEFINE idle == {p \in DOMAIN store.panes : store.panes[p].state \in {"orphaned", "sticky"}}
  <2>1. store' = Killed(store, idle)
    BY <1>17 DEF KillOrphans
  <2>2. QED
    BY <1>1, <1>2, <2>1, KilledSettled
<1>18. CASE Save
  <2>1. store' = [store EXCEPT !.dirty = FALSE]
    BY <1>18 DEF Save, Saved
  <2>2. QED
    BY <1>1, <2>1, StoreFacts DEF Live
<1>19. CASE Restart
  BY <1>19 DEF Restart, Inv, Typed
<1>20. CASE UNCHANGED vars
  BY <1>20 DEF vars, Live
<1>21. QED
  BY <1>3, <1>4, <1>5, <1>6, <1>7, <1>8, <1>9, <1>10, <1>11, <1>12, <1>13, <1>14, <1>15,
     <1>16, <1>17, <1>18, <1>19, <1>20 DEF Next

\* A frontend that detaches, is cut off or has its session stolen leaves every
\* running pane it owned parked in its session, under every hazard: only a user
\* who quits, a restart of SES or an unfinished reattach is excepted.
THEOREM NothingLeftBehind == Spec => LeavingParks
<1>1. Inv /\ [Next]_vars =>
        \A c \in Live \ DOMAIN store'.clients :
          \/ \E preserve \in BOOLEAN : Shutdown(c, preserve)
          \/ restarts' # restarts
          \/ store.clients[c].pending # NoSession
          \/ \A p \in Owned(c) : Alive(p) =>
               p \in DOMAIN store'.panes /\ Parked(store', p)
               /\ store'.panes[p].session = store.clients[c].session
  BY NextParks DEF AllParked
<1>2. QED
  BY <1>1, InvHolds, PTL DEF Spec, LeavingParks

\* The daemon does not die between the two records of a detach.
CleanDetach == "midcrash" \notin Hazards

\* What the state file names, and lives, is there after a restart.
LEMMA RestartGivesBack ==
  ASSUME CleanDetach, Inv, Restart, NEW s \in Sessions
  PROVE  Surviving(disk, s) \subseteq Surviving(Image(store'), s)
<1>1. PICK lg \in {log} \union
             {[log EXCEPT ![store.clients[c].session] = "detach"] :
                c \in {x \in Live : "midcrash" \in Hazards}} :
        store' = Swept(RolledBack(Relinked(Loaded), lg))
  BY DEF Restart
<1>2. lg = log
  BY <1>1 DEF CleanDetach
<1>3. HalfDone(lg) = {}
  BY <1>2 DEF HalfDone, Inv, Typed
<1>4. /\ IsStore(store') /\ DOMAIN store'.panes = {p \in DOMAIN disk.panes : Alive(p)}
      /\ \A t \in DOMAIN disk.sessions : \A p \in disk.sessions[t].panes \intersect DOMAIN store'.panes :
           t \in DOMAIN store'.detached /\ store'.detached[t] = disk.sessions[t]
  BY <1>1, <1>3, RestartedFacts DEF Inv, Typed, Deserted
<1>5. /\ DOMAIN Image(store').panes = DOMAIN store'.panes
      /\ DOMAIN store'.detached \subseteq DOMAIN Image(store').sessions
      /\ \A t \in DOMAIN store'.detached : Image(store').sessions[t] = store'.detached[t]
  BY <1>4, ImageFacts
<1>6. ASSUME NEW p \in Surviving(disk, s)
      PROVE  p \in Surviving(Image(store'), s)
  <2>1. /\ s \in DOMAIN disk.sessions /\ Alive(p) /\ p \in DOMAIN store'.panes
        /\ p \in disk.sessions[s].panes
    BY <1>4, <1>6 DEF Surviving
  <2>2. s \in DOMAIN store'.detached /\ store'.detached[s] = disk.sessions[s]
    BY <1>4, <2>1
  <2>3. QED
    BY <1>5, <2>1, <2>2 DEF Surviving
<1>7. QED
  BY <1>6

\* A restart gives every session of the state file its living panes back, also
\* one that was being reattached, unless the daemon died in the middle of a detach.
THEOREM RestartRecovers == CleanDetach => (Spec => RestartKeepsSessions)
<1> SUFFICES ASSUME CleanDetach PROVE Spec => RestartKeepsSessions
  OBVIOUS
<1>1. Inv /\ [Next]_vars =>
        (Restart => \A s \in Sessions : Surviving(disk, s) \subseteq Surviving(Image(store'), s))
  BY RestartGivesBack
<1>2. QED
  BY <1>1, InvHolds, PTL DEF Spec, RestartKeepsSessions

-----------------------------------------------------------------------------
(* What is not dirty is saved *)

\* The panes that T holds for somebody: parked in a session or listed by a client.
Covered(T) ==
  {p \in DOMAIN T.panes : \/ \E s \in DOMAIN T.detached : p \in T.detached[s].panes
                          \/ \E c \in DOMAIN T.clients : p \in T.clients[c].panes}

\* The panes that the state file img names in a session.
Stored(img) ==
  {p \in DOMAIN img.panes : \E s \in DOMAIN img.sessions : p \in img.sessions[s].panes}

\* The two sides of CleanMeansSaved, without the sessions.
LEMMA SurvivingIsStored ==
  ASSUME NEW img, IsImage(img)
  PROVE  UNION {Surviving(img, s) : s \in Sessions} = {p \in Stored(img) : Alive(p)}
BY DEF Surviving, Stored, IsImage, IsTable

\* With one client to a session, the state file names what the store holds.
LEMMA ImageStores ==
  ASSUME NEW T, Sound(T), NEW lk, Exclusive(T, lk)
  PROVE  Stored(Image(T)) = Covered(T)
<1> DEFINE I == Image(T)
           held(s) == LET r == T.clients[Last(Holders(T, s))]
                      IN [panes |-> r.panes, floats |-> r.floats]
<1>1. /\ DOMAIN I.panes = DOMAIN T.panes
      /\ DOMAIN I.sessions = DOMAIN T.detached \union {x \in Sessions : Holders(T, x) # {}}
      /\ \A s \in DOMAIN I.sessions :
           I.sessions[s] = IF s \in DOMAIN T.detached THEN T.detached[s] ELSE held(s)
  BY DEF Image
<1>2. \A s : held(s).panes = T.clients[Last(Holders(T, s))].panes
  OBVIOUS
<1>3. /\ \A s : Holders(T, s) \subseteq DOMAIN T.clients /\ Holders(T, s) \subseteq Clients
      /\ \A c \in DOMAIN T.clients : T.clients[c].session \in Sessions
  BY ClientsFacts DEF Holders
<1>4. \A s : Holders(T, s) # {} => Last(Holders(T, s)) \in DOMAIN T.clients
  BY <1>3, LastIsOne
<1>5. ASSUME NEW c \in DOMAIN T.clients, T.clients[c].panes # {}
      PROVE  LET s == T.clients[c].session
             IN /\ s \in Sessions /\ s \notin DOMAIN T.detached
                /\ Holders(T, s) # {} /\ Last(Holders(T, s)) = c
  <2> DEFINE s == T.clients[c].session
  <2>1. c \in Holders(T, s) /\ \A d \in Holders(T, s) : d = c
    BY <1>5 DEF Holders, Exclusive
  <2>2. Last(Holders(T, s)) \in Holders(T, s)
    BY <1>3, <2>1, LastIsOne
  <2>3. QED
    BY <1>3, <2>1, <2>2 DEF Exclusive
<1> HIDE DEF I, held
<1>6. Stored(I) \subseteq Covered(T)
  BY <1>1, <1>2, <1>4 DEF Stored, Covered
<1>7. ASSUME NEW p \in Covered(T) PROVE p \in Stored(I)
  <2>1. CASE \E s \in DOMAIN T.detached : p \in T.detached[s].panes
    BY <1>1, <2>1 DEF Stored, Covered
  <2>2. CASE \E c \in DOMAIN T.clients : p \in T.clients[c].panes
    <3>1. PICK c \in DOMAIN T.clients : p \in T.clients[c].panes
      BY <2>2
    <3> DEFINE s == T.clients[c].session
    <3>2. /\ s \in Sessions /\ s \notin DOMAIN T.detached
          /\ Holders(T, s) # {} /\ Last(Holders(T, s)) = c
      BY <1>5, <3>1
    <3> HIDE DEF s
    <3>3. s \in DOMAIN I.sessions /\ I.sessions[s].panes = T.clients[c].panes
      BY <1>1, <1>2, <3>2
    <3>4. QED
      BY <1>1, <3>1, <3>3 DEF Stored, Covered
  <2>3. QED
    BY <2>1, <2>2 DEF Covered
<1>8. QED
  BY <1>6, <1>7 DEF I

\* U holds no pane that T did not hold.
NoMore(T, U) == Covered(U) \subseteq Covered(T)

\* Losing panes covers no new one.
LEMMA LosesNoMore ==
  ASSUME NEW T, NEW U, Loses(T, U)
  PROVE  NoMore(T, U) /\ (~U.dirty => ~T.dirty)
<1>1. NoMore(T, U)
  BY DEF Loses, SameClients, NoMore, Covered
<1>2. QED
  BY <1>1 DEF Loses

LEMMA HandedNoMore ==
  ASSUME NEW T, Sound(T), NEW c \in DOMAIN T.clients, NEW s \in DOMAIN T.detached
  PROVE  NoMore(T, Handed(T, c, s)) /\ (~Handed(T, c, s).dirty => ~T.dirty)
<1> DEFINE U == Pruned(T, s)
           r == [U.clients[c] EXCEPT !.pending = s, !.floats = U.detached[s].floats]
           V == [U EXCEPT !.clients[c] = r]
<1>1. Loses(T, U)
  BY PrunedFacts DEF Sound
<1>2. IsStore(U) /\ c \in DOMAIN U.clients /\ s \in DOMAIN U.detached
  BY <1>1 DEF Loses, SameClients
<1>3. V = Handed(T, c, s)
  BY <1>2, StoreFacts DEF Handed
<1> HIDE DEF U
<1>4. U.clients[c] \in Client /\ U.detached[s] \in Parking /\ s \in Sessions
  BY <1>2, StoreFacts
<1>5. r \in Client /\ r.panes = U.clients[c].panes
  BY <1>4 DEF Client, Parking
<1> HIDE DEF r
<1>6. /\ V.panes = U.panes /\ V.detached = U.detached /\ V.dirty = U.dirty
      /\ V.clients = [U.clients EXCEPT ![c] = r]
  BY <1>2, <1>5, ClientFacts
<1>7. /\ DOMAIN V.clients = DOMAIN U.clients
      /\ \A d \in DOMAIN U.clients : V.clients[d].panes = U.clients[d].panes
  BY <1>2, <1>5, <1>6, StoreFacts
<1> HIDE DEF V
<1>8. NoMore(U, V)
  BY <1>6, <1>7 DEF NoMore, Covered
<1>9. QED
  BY <1>1, <1>3, <1>6, <1>8, LosesNoMore DEF NoMore

\* A step of SES after which the store is not marked dirty.
Quiet(T, U) == ~U.dirty => NoMore(T, U) /\ ~T.dirty

LEMMA ReattachQuiet ==
  ASSUME Sound(store), NEW c, NEW s \in Sessions, Reattach(c, s)
  PROVE  Quiet(store, store')
<1>1. c \in DOMAIN store.clients /\ Reattached(c, s)
  BY ReattachIsReattached DEF Live
<1>2. ASSUME NEW T, NEW lk, CompleteReattach(T, lk, c, s), Sound(T), c \in DOMAIN T.clients,
             s \in DOMAIN T.detached
      PROVE  Quiet(T, store')
  <2>1. store' = Handed(T, c, s) \/ store' = T
    BY <1>2, CompleteReattachCases
  <2>2. CASE store' = T
    BY <2>2 DEF Quiet, NoMore
  <2>3. CASE store' = Handed(T, c, s)
    BY <1>2, <2>3, HandedNoMore DEF Quiet
  <2>4. QED
    BY <2>1, <2>2, <2>3
<1>3. CASE s \in DOMAIN store.detached
  BY <1>1, <1>2, <1>3 DEF Reattached, Live
<1>4. CASE s \notin DOMAIN store.detached
  <2>1. PICK x \in Live \ {c} : CompleteReattach(Stolen(store, x, s), Unlocked(x), c, s)
    BY <1>1, <1>4 DEF Reattached
  <2> DEFINE D == Detached(store, x, s)
             T == Stolen(store, x, s)
  <2>2. x \in DOMAIN store.clients /\ IsStore(store)
    BY <2>1 DEF Live, Sound
  <2>3. /\ Follows(store, T) /\ c \in DOMAIN T.clients /\ s \in DOMAIN T.detached
    BY <1>1, <2>1, <2>2, StolenFacts DEF Live
  <2>4. D.dirty /\ IsStore(D)
    BY <2>2, DetachedFacts
  <2>5. T = Gone(D, x)
    BY DEF Stolen
  <2> HIDE DEF D
  <2>6. T.dirty
    BY <2>4, <2>5, GoneFacts
  <2>7. CompleteReattach(T, Unlocked(x), c, s)
    BY <2>1
  <2> HIDE DEF T
  <2>8. Quiet(T, store')
    BY <1>2, <2>3, <2>7 DEF Follows
  <2>9. QED
    BY <2>6, <2>8 DEF Quiet
<1>5. QED
  BY <1>3, <1>4

\* A commit hands the panes of c from the session it came with to the one it takes.
LEMMA CommitQuiet ==
  ASSUME Sound(store), NEW c, Commit(c)
  PROVE  Quiet(store, store')
<1> DEFINE s == store.clients[c].pending
           r == [store.clients[c] EXCEPT !.session = s, !.pending = NoSession]
           U == [store EXCEPT !.clients[c] = r]
<1>1. c \in DOMAIN store.clients /\ s # NoSession /\ IsStore(store)
  BY DEF Commit, Live, Sound
<1>2. r \in Client /\ r.panes = store.clients[c].panes
  <2>1. store.clients[c] \in Client
    BY <1>1, StoreFacts
  <2>2. s \in Sessions
    BY <1>1, <2>1 DEF Client
  <2> HIDE DEF s
  <2>3. QED
    BY <2>1, <2>2 DEF Client
<1>3. store' = Removed(U, s)
  BY <1>1, StoreFacts DEF Commit
<1> HIDE DEF r, s
<1>4. /\ IsStore(U) /\ U.panes = store.panes /\ U.detached = store.detached
      /\ U.dirty = store.dirty /\ U.clients = [store.clients EXCEPT ![c] = r]
  BY <1>1, <1>2, ClientFacts
<1>5. /\ DOMAIN U.clients = DOMAIN store.clients
      /\ \A d \in DOMAIN store.clients : U.clients[d].panes = store.clients[d].panes
  BY <1>1, <1>2, <1>4, StoreFacts
<1> HIDE DEF U
<1>6. NoMore(store, U)
  BY <1>4, <1>5 DEF NoMore, Covered
<1>7. Removed(U, s).dirty \/ Removed(U, s) = U
  BY <1>4, RemovedFacts
<1>8. QED
  BY <1>3, <1>4, <1>6, <1>7 DEF Quiet

\* A client that is gone without a trace held nothing.
LEMMA LostQuiet ==
  ASSUME Sound(store), NEW c, Lost(c)
  PROVE  Quiet(store, store')
<1> DEFINE r == store.clients[c]
           s == store.clients[c].session
<1>1. c \in DOMAIN store.clients /\ IsStore(store)
  BY DEF Lost, Live, Sound
<1>2. /\ s \in Sessions /\ (r.pending # NoSession => r.pending \in Sessions)
  BY <1>1, StoreFacts DEF Client
<1>3. Quiet(store, Gone(store, c))
  <2> DEFINE U == Gone(store, c)
  <2>1. /\ U.panes = store.panes /\ U.detached = store.detached /\ U.dirty = store.dirty
        /\ DOMAIN U.clients = DOMAIN store.clients \ {c}
        /\ \A d \in DOMAIN store.clients \ {c} : U.clients[d] = store.clients[d]
    BY <1>1, GoneFacts
  <2> HIDE DEF U
  <2>2. Quiet(store, U)
    BY <2>1 DEF Quiet, NoMore, Covered
  <2>3. QED
    BY <2>2 DEF U
<1>4. CASE r.pending # NoSession
  <2>1. store' = Gone(Cancelled(store, c, r.pending), c)
    BY <1>4 DEF Lost
  <2>2. store'.dirty \/ r.pending \notin DOMAIN store.detached
    BY <1>1, <1>2, <1>4, <2>1, CancelledLetsGo
  <2>3. r.pending \notin DOMAIN store.detached => store' = Gone(store, c)
    BY <2>1 DEF Cancelled
  <2>4. QED
    BY <1>3, <2>2, <2>3 DEF Quiet
<1>5. CASE r.pending = NoSession /\ r.panes = {}
  BY <1>3, <1>5 DEF Lost
<1>6. CASE r.pending = NoSession /\ r.panes # {}
  <2> DEFINE D == Detached(store, c, s)
  <2>1. store' = Gone(D, c)
    BY <1>6 DEF Lost
  <2>2. D.dirty /\ IsStore(D)
    BY <1>1, <1>2, DetachedFacts
  <2> HIDE DEF D
  <2>3. store'.dirty
    BY <2>1, <2>2, GoneFacts
  <2>4. QED
    BY <2>3 DEF Quiet
<1>7. QED
  BY <1>4, <1>5, <1>6

\* What lives is in the state file, unless the store is marked dirty.
Safe == ~store.dirty => {p \in Covered(store) : Alive(p)} \subseteq Stored(disk)

\* A step that covers no new pane need not mark the store dirty.
LEMMA QuietSafe ==
  ASSUME Safe, Quiet(store, store'), disk' = disk,
         \A p \in Covered(store) : Alive(p)' => Alive(p)
  PROVE  Safe'
BY DEF Safe, Quiet, NoMore

LEMMA DirtySafe == store'.dirty => Safe'
BY DEF Safe

\* Reaping kills, it brings no pod to life.
LEMMA ReapedAlive ==
  ASSUME Inv, pods' = pods \/ Reaped, NEW p \in Covered(store), Alive(p)'
  PROVE  Alive(p)
<1>1. p \in Panes
  BY StoreFacts DEF Inv, Sound, Covered
<1>2. QED
  BY <1>1 DEF Reaped, Alive

\* Saving makes the file agree.
LEMMA SavedSafe ==
  ASSUME NEW T, Sound(T), NEW lk, Exclusive(T, lk), Saved(T)
  PROVE  Safe'
<1>1. disk' = Image(T) /\ store' = [T EXCEPT !.dirty = FALSE]
  BY DEF Saved
<1>2. store'.panes = T.panes /\ store'.clients = T.clients /\ store'.detached = T.detached
  BY <1>1, StoreFacts DEF Sound
<1>3. Covered(store') = Covered(T) /\ Stored(disk') = Covered(T)
  BY <1>1, <1>2, ImageStores DEF Covered
<1>4. QED
  BY <1>3 DEF Safe

LEMMA DetachSafe ==
  ASSUME Inv, Exclusive(store, locks), NEW c, Detach(c)
  PROVE  Safe'
<1> DEFINE s == store.clients[c].session
           D == Detached(store, c, s)
           U == Stolen(store, c, s)
<1>1. Sound(store) /\ IsStore(store) /\ c \in DOMAIN store.clients
  BY DEF Inv, Sound, Detach, Live
<1>2. s \in Sessions
  BY <1>1, ClientsFacts
<1>3. Saved(U) \/ store' = U
  BY DEF Detach, Stolen
<1>4. /\ Follows(store, U) /\ DOMAIN U.clients = DOMAIN store.clients \ {c}
      /\ \A d \in DOMAIN store.clients \ {c} : U.clients[d] = store.clients[d]
      /\ DOMAIN U.detached = DOMAIN store.detached \union {s}
  BY <1>1, <1>2, StolenFacts
<1>5. D.dirty /\ IsStore(D) /\ U = Gone(D, c)
  BY <1>1, <1>2, DetachedFacts DEF Stolen
<1> HIDE DEF U, D
<1>6. U.dirty
  BY <1>5, GoneFacts
<1>7. Leaves(store, U, c)
  BY <1>1, <1>4 DEF Leaves
<1>8. Released(locks, Unlocked(c), c, s)
  BY DEF Released, Unlocked
<1> HIDE DEF s
<1>9. Exclusive(U, Unlocked(c))
  BY <1>1, <1>7, <1>8, LeaverExclusive DEF s
<1>10. Sound(U)
  BY <1>4 DEF Follows
<1>11. CASE Saved(U)
  BY <1>9, <1>10, <1>11, SavedSafe
<1>12. CASE store' = U
  BY <1>6, <1>12, DirtySafe
<1>13. QED
  BY <1>3, <1>11, <1>12

\* A restart holds nothing that is not in the file.
LEMMA RestartSafe ==
  ASSUME Inv, Restart
  PROVE  Safe'
<1>1. PICK lg : store' = Swept(RolledBack(Relinked(Loaded), lg))
  BY DEF Restart
<1>2. disk' = disk /\ IsImage(disk)
  BY DEF Restart, Inv, Typed
<1> DEFINE R == Relinked(Loaded)
           B == RolledBack(R, lg)
<1>3. Deserted(R) /\ R.detached = disk.sessions
  BY <1>2, LoadedFacts, RelinkedFacts
<1> HIDE DEF R
<1>4. /\ Deserted(B) /\ DOMAIN B.detached \subseteq DOMAIN R.detached
      /\ \A s \in DOMAIN B.detached : B.detached[s] = R.detached[s]
  BY <1>3, RolledBackFacts
<1> HIDE DEF B
<1>5. store' = Swept(B)
  BY <1>1 DEF B, R
<1>6. /\ DOMAIN store'.detached \subseteq DOMAIN B.detached
      /\ \A s \in DOMAIN store'.detached : store'.detached[s] = B.detached[s]
  BY <1>4, <1>5, SweptFacts
<1>7. DOMAIN store'.clients = {} /\ DOMAIN store'.panes \subseteq DOMAIN disk.panes
  BY <1>1, <1>2, RestartedFacts DEF Deserted
<1>8. Covered(store') \subseteq Stored(disk)
  BY <1>3, <1>4, <1>6, <1>7 DEF Covered, Stored
<1>9. QED
  BY <1>2, <1>8 DEF Safe

\* Every step marks the store dirty or covers no new pane.
LEMMA NextSafe ==
  ASSUME Inv, Exclusive(store, locks), Safe, [Next]_vars
  PROVE  Safe'
<1>1. IsStore(store) /\ Sound(store)
  BY DEF Inv, Sound
<1>2. ASSUME Quiet(store, store'), disk' = disk, pods' = pods \/ Reaped PROVE Safe'
  BY <1>2, QuietSafe, ReapedAlive
<1>3. ASSUME NEW c \in Clients, NEW s \in Sessions, Register(c, s) PROVE Safe'
  <2>1. Sound(store) /\ c = nextId /\ c \in Nat
    BY <1>1, <1>3, NoClientFacts DEF Register
  <2>2. c \notin DOMAIN store.clients /\ OwnedIn(store, c) = {}
    BY <2>1 DEF Inv, Known, OwnedIn
  <2>3. /\ Sound(store') /\ store'.panes = store.panes /\ store'.detached = store.detached
        /\ DOMAIN store'.clients = DOMAIN store.clients \union {c}
        /\ \A d \in DOMAIN store.clients : store'.clients[d] = store.clients[d]
    BY <1>3, <2>1, <2>2, RegisterKeeps
  <2>4. store'.clients[c].panes = {}
    BY <2>2, <2>3 DEF Sound, Lists, OwnedIn
  <2>5. store'.dirty = store.dirty /\ disk' = disk /\ pods' = pods
    BY <1>1, <1>3, StoreFacts DEF Register
  <2>6. Quiet(store, store')
    BY <2>3, <2>4, <2>5 DEF Quiet, NoMore, Covered
  <2>7. QED
    BY <1>2, <2>5, <2>6
<1>4. ASSUME NEW c \in Clients, NEW s \in Sessions, Reattach(c, s) PROVE Safe'
  BY <1>1, <1>2, <1>4, ReattachQuiet DEF Reattach
<1>5. ASSUME NEW c \in Clients, NEW p \in Panes, CreatePane(c, p) PROVE Safe'
  <2>1. store'.dirty
    BY <1>1, <1>5, StoreFacts DEF CreatePane, Dirty
  <2>2. QED
    BY <2>1, DirtySafe
<1>6. ASSUME NEW c \in Clients, NEW p \in Panes, SyncFloat(c, p) PROVE Safe'
  <2>1. store'.dirty
    BY <1>1, <1>6, StoreFacts DEF SyncFloat, Dirty
  <2>2. QED
    BY <2>1, DirtySafe
<1>7. ASSUME NEW T, IsStore(T), NEW c \in DOMAIN T.clients, NEW p \in DOMAIN T.panes,
             store' = Attached(T, c, p)
      PROVE  Safe'
  BY <1>7, AttachedFacts, DirtySafe
<1>8. ASSUME NEW c \in Clients, NEW p \in Panes, Adopt(c, p) PROVE Safe'
  <2> DEFINE V == IF store.panes[p].owner # NoClient THEN Taken(store, p) ELSE store
  <2>1. c \in DOMAIN store.clients /\ p \in DOMAIN store.panes /\ store' = Attached(V, c, p)
    BY <1>8 DEF Adopt, Live, Adoptable
  <2>2. IsStore(V) /\ p \in DOMAIN V.panes /\ c \in DOMAIN V.clients
    BY <1>1, <2>1, TakenSettled DEF Settled, SameClients
  <2> HIDE DEF V
  <2>3. QED
    BY <1>7, <2>1, <2>2
<1>9. ASSUME NEW c \in Clients, NEW p \in Panes, NEW free \in BOOLEAN, TakeSticky(c, p, free)
      PROVE  Safe'
  <2> DEFINE U == IF store.panes[p].state = "detached" \/ Parked(store, p)
                    THEN Unparked(store, p) ELSE store
             V == IF store.panes[p].owner # NoClient THEN Taken(U, p) ELSE U
  <2>1. c \in DOMAIN store.clients /\ p \in DOMAIN store.panes /\ store' = Attached(V, c, p)
    BY <1>9 DEF TakeSticky, Live, Candidates
  <2>2. IsStore(U) /\ p \in DOMAIN U.panes /\ c \in DOMAIN U.clients
    BY <1>1, <2>1, UnparkedFacts
  <2> HIDE DEF U
  <2>3. IsStore(V) /\ p \in DOMAIN V.panes /\ c \in DOMAIN V.clients
    BY <2>2, TakenSettled DEF Settled, SameClients
  <2> HIDE DEF V
  <2>4. QED
    BY <1>7, <2>1, <2>3
<1>10. ASSUME NEW c \in Clients, Commit(c) PROVE Safe'
  BY <1>1, <1>2, <1>10, CommitQuiet DEF Commit
<1>11. ASSUME NEW c \in Clients, NEW p \in Panes, Suspend(c, p) PROVE Safe'
  <2>1. store'.dirty
    BY <1>1, <1>11, StoreFacts DEF Suspend
  <2>2. QED
    BY <2>1, DirtySafe
<1>12. ASSUME NEW P, store' = Killed(store, P), disk' = disk, pods' = pods \/ Reaped PROVE Safe'
  <2>1. Quiet(store, store')
    BY <1>1, <1>12, KilledFacts, LosesNoMore DEF Quiet
  <2>2. QED
    BY <1>2, <1>12, <2>1
<1>13. ASSUME NEW c \in Clients, NEW p \in Panes, KillPane(c, p) PROVE Safe'
  BY <1>12, <1>13 DEF KillPane
<1>14. ASSUME NEW c \in Clients, Detach(c) PROVE Safe'
  BY <1>14, DetachSafe
<1>15. ASSUME NEW c \in Clients, Lost(c) PROVE Safe'
  BY <1>1, <1>2, <1>15, LostQuiet DEF Lost
<1>16. ASSUME NEW c \in Clients, NEW preserve \in BOOLEAN, Shutdown(c, preserve) PROVE Safe'
  <2> DEFINE U == Collected(store, c, IF preserve THEN Keyed ELSE {})
  <2>1. c \in DOMAIN store.clients /\ store' = Dirty(Gone(U, c))
    BY <1>16 DEF Shutdown, Live
  <2>2. store'.dirty
    BY <1>1, <2>1, CollectedLetsGo
  <2>3. QED
    BY <2>2, DirtySafe
<1>17. ASSUME NEW p \in Panes, PodDies(p) PROVE Safe'
  <2>1. store' = store /\ disk' = disk /\ \A q : Alive(q)' => Alive(q)
    BY <1>17 DEF PodDies, Alive, Inv, Typed
  <2>2. QED
    BY <2>1 DEF Safe, Covered
<1>18. ASSUME NEW p \in Panes, PodExit(p) \/ Sweep(p) PROVE Safe'
  BY <1>12, <1>18 DEF PodExit, Sweep
<1>19. ASSUME NEW s \in Sessions, KillSession(s) PROVE Safe'
  <2> DEFINE detached == [t \in DOMAIN store.detached \ {s} |-> store.detached[t]]
             U == [store EXCEPT !.detached = detached]
             V == Killed(U, store.detached[s].panes)
  <2>1. store' = Dirty(V)
    BY <1>19 DEF KillSession, Restrict
  <2>2. V = [panes |-> V.panes, clients |-> V.clients, detached |-> V.detached, dirty |-> V.dirty]
    BY DEF Killed
  <2> HIDE DEF V
  <2>3. store'.dirty
    BY <2>1, <2>2 DEF Dirty
  <2>4. QED
    BY <2>3, DirtySafe
<1>20. CASE KillOrphans
  <2> DEFINE idle == {p \in DOMAIN store.panes : store.panes[p].state \in {"orphaned", "sticky"}}
  <2>1. store' = Killed(store, idle) /\ disk' = disk /\ Reaped
    BY <1>20 DEF KillOrphans
  <2>2. QED
    BY <1>12, <2>1
<1>21. CASE Save
  BY <1>1, <1>21, SavedSafe DEF Save
<1>22. CASE Restart
  BY <1>22, RestartSafe
<1>23. CASE UNCHANGED vars
  BY <1>23 DEF vars, Safe, Covered, Stored, Alive
<1>24. QED
  BY <1>3, <1>4, <1>5, <1>6, <1>8, <1>9, <1>10, <1>11, <1>13, <1>14, <1>15, <1>16, <1>17,
     <1>18, <1>19, <1>20, <1>21, <1>22, <1>23 DEF Next

\* While nothing is marked dirty, every living pane that some session holds is
\* named by a session of the state file, as long as no reattach outlives its
\* lock: no handler forgets to mark the store.
THEOREM CleanIsSaved == LocksHold => (Spec => []CleanMeansSaved)
<1> SUFFICES ASSUME LocksHold PROVE Spec => []CleanMeansSaved
  OBVIOUS
<1>1. Init => Safe
  BY DEF Init, Nothing, Safe, Covered
<1>2. Inv /\ Exclusive(store, locks) /\ Safe /\ [Next]_vars => Safe'
  BY NextSafe
<1>3. Inv /\ Exclusive(store, locks) /\ Safe => CleanMeansSaved
  <2> SUFFICES ASSUME Inv, Exclusive(store, locks), Safe PROVE CleanMeansSaved
    OBVIOUS
  <2>1. IsImage(disk) /\ IsImage(Image(store))
    BY ImageFacts DEF Inv, Sound, Typed
  <2>2. Stored(Image(store)) = Covered(store)
    BY ImageStores DEF Inv
  <2>3. QED
    BY <2>1, <2>2, SurvivingIsStored DEF CleanMeansSaved, Safe
<1>4. QED
  BY <1>1, <1>2, <1>3, InvHolds, ExclusiveHolds, PTL DEF Spec
=============================================================================
