-------------------------- MODULE SesSessionProofs --------------------------
(***************************************************************************)
(* Proofs about SesSession for any panes, sessions, clients and restarts,  *)
(* and any hazards: the store is well typed, the lists of the clients name *)
(* what they own, and "attached" means owned.                              *)
(*                                                                         *)
(* The handlers of SES are built from a few functions on the store, so the *)
(* proof is too.  Each function has a lemma that says what it does to the  *)
(* tables (KilledFacts, DetachedFacts, ...); a relation between two stores *)
(* says what a handler may do (Loses: panes are gone from every list;      *)
(* LetsGo: a client is gone and owns nothing; Follows: nothing new came    *)
(* in), and what follows a sound store is sound.                           *)
(*                                                                         *)
(* Inv is the inductive invariant.  Lists and Marked are not inductive by  *)
(* themselves: a client that registers must own nothing yet, and a pane    *)
(* that is created must not be in the table, which Known gives (ids are    *)
(* handed out once, and a pane in the table has had its process started);  *)
(* a restart reads the state file, which Typed keeps well formed.          *)
(***************************************************************************)
EXTENDS SesSession, WellFoundedInduction, TLAPS

IsTable(f, S, V) == f \in [DOMAIN f -> V] /\ DOMAIN f \subseteq S

IsStore(T) ==
  /\ T = [panes |-> T.panes, clients |-> T.clients,
          detached |-> T.detached, dirty |-> T.dirty]
  /\ IsTable(T.panes, Panes, Pane)
  /\ IsTable(T.clients, Clients, Client)
  /\ IsTable(T.detached, Sessions, Parking)
  /\ T.dirty \in BOOLEAN

OwnedIn(T, c) == {p \in DOMAIN T.panes : T.panes[p].owner = c}

\* U has the clients of T, each in the session it was in.
SameClients(T, U) ==
  /\ DOMAIN U.clients = DOMAIN T.clients
  /\ \A c \in DOMAIN T.clients : /\ U.clients[c].session = T.clients[c].session
                                 /\ U.clients[c].pending = T.clients[c].pending

-----------------------------------------------------------------------------
(* Records *)

\* Panes taken out of the lists of a client, or of a parking.
LEMMA WithoutClient ==
  ASSUME NEW P, NEW r \in Client
  PROVE  /\ Without(r, P) \in Client
         /\ Without(r, P).session = r.session /\ Without(r, P).pending = r.pending
         /\ Without(r, P).panes = r.panes \ P
         /\ Without(r, P).floats = r.floats \ P
BY DEF Without, Client

LEMMA WithoutParking ==
  ASSUME NEW P, NEW r \in Parking
  PROVE  /\ Without(r, P) \in Parking
         /\ Without(r, P).panes = r.panes \ P
         /\ Without(r, P).floats = r.floats \ P
BY DEF Without, Parking

\* A transition changes the state or nothing.
LEMMA BecomeFacts ==
  ASSUME NEW r \in Pane, NEW new \in States
  PROVE  /\ Become(r, new) \in Pane
         /\ Become(r, new).owner = r.owner /\ Become(r, new).session = r.session
         /\ Become(r, new).timed = r.timed
         /\ Become(r, new).state \in {r.state, new}
         /\ CanBecome(r.state, new) => Become(r, new).state = new
BY DEF Become, Pane

\* Every state may follow "attached", and "attached" every state.
LEMMA FromAttached ==
  ASSUME NEW new \in States
  PROVE  CanBecome("attached", new) /\ \A old \in States : CanBecome(old, "attached")
BY DEF CanBecome, States

\* No client has the id that stands for nobody.
LEMMA NoClientFacts == NoClient \in Nat /\ NoClient \notin Clients /\ Clients \subseteq Nat
BY SessionAssumption DEF NoClient, Clients

\* A pane that is given up has no owner and no session.
LEMMA FreedFacts ==
  ASSUME NEW r \in Pane, NEW p
  PROVE  /\ Freed(r, p) \in Pane
         /\ Freed(r, p).owner = NoClient /\ Freed(r, p).session = NoSession
         /\ Freed(r, p).state # "attached"
<1>1. Idle(p) \in States /\ Idle(p) # "attached"
  BY DEF Idle, States
<1>2. Become(r, Idle(p)) \in Pane /\ Become(r, Idle(p)).state # "attached"
  BY <1>1, BecomeFacts, FromAttached
<1>3. QED
  BY <1>2, NoClientFacts DEF Freed, Pane

\* A pane that is parked: in state "detached" unless that is no legal transition.
LEMMA ParkFacts ==
  ASSUME NEW r \in Pane, NEW s \in Sessions
  PROVE  LET q == [Become(r, "detached") EXCEPT !.session = s, !.owner = NoClient]
         IN q \in Pane /\ q.owner = NoClient /\ q.session = s /\ q.state # "attached"
<1>1. "detached" \in States
  BY DEF States
<1>2. Become(r, "detached") \in Pane /\ Become(r, "detached").state # "attached"
  BY <1>1, BecomeFacts, FromAttached
<1>3. QED
  BY <1>2, NoClientFacts DEF Pane

\* A pane that is attached is in state "attached", whatever it was in.
LEMMA AttachFacts ==
  ASSUME NEW r \in Pane, NEW c \in Clients
  PROVE  LET q == [Become(r, "attached") EXCEPT !.owner = c, !.timed = FALSE]
         IN q \in Pane /\ q.owner = c /\ q.session = r.session /\ q.state = "attached"
<1>1. "attached" \in States /\ r.state \in States
  BY DEF States, Pane
<1>2. Become(r, "attached") \in Pane /\ Become(r, "attached").state = "attached"
      /\ Become(r, "attached").session = r.session
  BY <1>1, BecomeFacts, FromAttached
<1>3. QED
  BY <1>2, NoClientFacts DEF Pane

-----------------------------------------------------------------------------
(* What the handlers' building blocks do to a store *)

\* What being a store means, in the form the proofs below use.
LEMMA StoreFacts ==
  ASSUME NEW T, IsStore(T)
  PROVE  /\ T = [panes |-> T.panes, clients |-> T.clients,
                 detached |-> T.detached, dirty |-> T.dirty]
         /\ T.panes \in [DOMAIN T.panes -> Pane] /\ DOMAIN T.panes \subseteq Panes
         /\ T.clients \in [DOMAIN T.clients -> Client] /\ DOMAIN T.clients \subseteq Clients
         /\ T.detached \in [DOMAIN T.detached -> Parking] /\ DOMAIN T.detached \subseteq Sessions
         /\ T.dirty \in BOOLEAN
BY DEF IsStore, IsTable

\* A store put together from tables is a store, and its parts are these tables.
LEMMA StoreOf ==
  ASSUME NEW P, NEW C, NEW D, NEW d, NEW T,
         T = [panes |-> P, clients |-> C, detached |-> D, dirty |-> d]
  PROVE  /\ T.panes = P /\ T.clients = C /\ T.detached = D /\ T.dirty = d
         /\ IsTable(P, Panes, Pane) /\ IsTable(C, Clients, Client)
            /\ IsTable(D, Sessions, Parking) /\ d \in BOOLEAN => IsStore(T)
BY DEF IsStore

\* U is T without some panes, which are in nobody's list any more.
Loses(T, U) ==
  /\ IsStore(U) /\ SameClients(T, U)
  /\ DOMAIN U.panes \subseteq DOMAIN T.panes
  /\ \A p \in DOMAIN U.panes : U.panes[p] = T.panes[p]
  /\ \A c \in DOMAIN T.clients :
       U.clients[c].panes = T.clients[c].panes \ {p \in OwnedIn(T, c) : p \notin DOMAIN U.panes}
  /\ DOMAIN U.detached = DOMAIN T.detached
  /\ \A s \in DOMAIN T.detached :
       /\ U.detached[s].panes \subseteq T.detached[s].panes
       /\ T.detached[s].panes \intersect DOMAIN U.panes \subseteq U.detached[s].panes
  /\ U.dirty \/ (U.dirty = T.dirty /\ DOMAIN U.panes = DOMAIN T.panes)

\* Losing panes twice is losing panes.
LEMMA LosesTwice ==
  ASSUME NEW T, NEW U, NEW V, Loses(T, U), Loses(U, V)
  PROVE  Loses(T, V)
<1>1. SameClients(T, V)
  BY DEF Loses, SameClients
<1>2. /\ DOMAIN V.panes \subseteq DOMAIN T.panes
      /\ \A p \in DOMAIN V.panes : V.panes[p] = T.panes[p]
  BY DEF Loses
<1>3. ASSUME NEW c \in DOMAIN T.clients
      PROVE  V.clients[c].panes
               = T.clients[c].panes \ {p \in OwnedIn(T, c) : p \notin DOMAIN V.panes}
  BY <1>3 DEF Loses, SameClients, OwnedIn
<1>4. DOMAIN V.detached = DOMAIN T.detached
  BY DEF Loses
<1>5. ASSUME NEW s \in DOMAIN T.detached
      PROVE  /\ V.detached[s].panes \subseteq T.detached[s].panes
             /\ T.detached[s].panes \intersect DOMAIN V.panes \subseteq V.detached[s].panes
  BY <1>5 DEF Loses
<1>6. V.dirty \/ (V.dirty = T.dirty /\ DOMAIN V.panes = DOMAIN T.panes)
  BY DEF Loses
<1>7. QED
  BY <1>1, <1>2, <1>3, <1>4, <1>5, <1>6 DEF Loses

\* killPane takes exactly the panes it is given.
LEMMA KilledFacts ==
  ASSUME NEW T, IsStore(T), NEW P
  PROVE  /\ Loses(T, Killed(T, P))
         /\ DOMAIN Killed(T, P).panes = DOMAIN T.panes \ P
         /\ P \intersect DOMAIN T.panes # {} => Killed(T, P).dirty
<1> DEFINE gone == P \intersect DOMAIN T.panes
           Of(c) == {p \in gone : T.panes[p].owner = c}
           In(s) == {p \in gone : T.panes[p].owner = NoClient /\ T.panes[p].session = s}
           U == Killed(T, P)
           panes == [p \in DOMAIN T.panes \ gone |-> T.panes[p]]
           clients == [c \in DOMAIN T.clients |-> Without(T.clients[c], Of(c))]
           detached == [s \in DOMAIN T.detached |-> Without(T.detached[s], In(s))]
           dirty == T.dirty \/ gone # {}
<1>1. U = [panes |-> panes, clients |-> clients, detached |-> detached, dirty |-> dirty]
  BY DEF Killed, Restrict
<1>2. DOMAIN T.panes \ gone = DOMAIN T.panes \ P
  OBVIOUS
<1>3. \A c : Of(c) = {p \in OwnedIn(T, c) : p \notin DOMAIN T.panes \ P}
  BY DEF OwnedIn
<1>4. \A s : In(s) \subseteq P
  OBVIOUS
<1>5. /\ IsTable(panes, Panes, Pane)
      /\ DOMAIN panes = DOMAIN T.panes \ P
      /\ \A p \in DOMAIN T.panes \ P : panes[p] = T.panes[p]
  BY <1>2, StoreFacts DEF IsTable
<1> HIDE DEF Of, In
<1>6. /\ IsTable(clients, Clients, Client)
      /\ DOMAIN clients = DOMAIN T.clients
      /\ \A c \in DOMAIN T.clients :
           /\ clients[c].session = T.clients[c].session
           /\ clients[c].pending = T.clients[c].pending
           /\ clients[c].panes
                = T.clients[c].panes \ {p \in OwnedIn(T, c) : p \notin DOMAIN T.panes \ P}
  BY <1>3, StoreFacts, WithoutClient DEF IsTable
<1>7. /\ IsTable(detached, Sessions, Parking)
      /\ DOMAIN detached = DOMAIN T.detached
      /\ \A s \in DOMAIN T.detached :
           /\ detached[s].panes \subseteq T.detached[s].panes
           /\ T.detached[s].panes \ P \subseteq detached[s].panes
  BY <1>4, StoreFacts, WithoutParking DEF IsTable
<1>8. dirty \in BOOLEAN /\ (~dirty => dirty = T.dirty /\ gone = {})
  BY StoreFacts
<1>9. gone = {} => DOMAIN T.panes \ P = DOMAIN T.panes
  OBVIOUS
<1> HIDE DEF U, panes, clients, detached, dirty
<1>10. U.panes = panes /\ U.clients = clients /\ U.detached = detached /\ U.dirty = dirty
  BY <1>1, StoreOf
<1>11. IsStore(U)
  BY <1>1, <1>5, <1>6, <1>7, <1>8, StoreOf
<1>12. SameClients(T, U)
  BY <1>6, <1>10 DEF SameClients
<1>13. U.dirty \/ (U.dirty = T.dirty /\ DOMAIN U.panes = DOMAIN T.panes)
  BY <1>5, <1>8, <1>9, <1>10
<1>14. Loses(T, U)
  BY <1>5, <1>6, <1>7, <1>10, <1>11, <1>12, <1>13 DEF Loses
<1>15. QED
  BY <1>5, <1>10, <1>14 DEF U, dirty

\* detachSession parks what c owns in s and no other pane.
LEMMA DetachedFacts ==
  ASSUME NEW T, IsStore(T), NEW c \in DOMAIN T.clients, NEW s \in Sessions
  PROVE  /\ IsStore(Detached(T, c, s)) /\ Detached(T, c, s).clients = T.clients
         /\ DOMAIN Detached(T, c, s).panes = DOMAIN T.panes
         /\ \A p \in DOMAIN T.panes \ Mine(T, c) : Detached(T, c, s).panes[p] = T.panes[p]
         /\ \A p \in Mine(T, c) : /\ Detached(T, c, s).panes[p].owner = NoClient
                                  /\ Detached(T, c, s).panes[p].session = s
                                  /\ Detached(T, c, s).panes[p].state # "attached"
         /\ DOMAIN Detached(T, c, s).detached = DOMAIN T.detached \union {s}
         /\ Detached(T, c, s).detached[s].panes = Mine(T, c)
         /\ Detached(T, c, s).dirty
<1> DEFINE U == Detached(T, c, s)
           parking == [panes |-> Mine(T, c), floats |-> T.clients[c].floats \intersect DOMAIN T.panes]
           park(p) == [Become(T.panes[p], "detached") EXCEPT !.session = s, !.owner = NoClient]
           panes == [p \in DOMAIN T.panes |-> IF p \in Mine(T, c) THEN park(p) ELSE T.panes[p]]
           detached == Put(T.detached, s, parking)
<1>1. U = [T EXCEPT !.detached = detached, !.panes = panes, !.dirty = TRUE]
  BY DEF Detached
<1>2. Mine(T, c) \subseteq DOMAIN T.panes
  BY DEF Mine
<1>3. parking \in Parking
  BY <1>2, StoreFacts DEF Parking, Client
<1>4. \A p \in DOMAIN T.panes :
        park(p) \in Pane /\ park(p).owner = NoClient /\ park(p).session = s
        /\ park(p).state # "attached"
  BY StoreFacts, ParkFacts
<1>5. parking.panes = Mine(T, c)
  OBVIOUS
<1> HIDE DEF parking, park
<1>6. /\ IsTable(panes, Panes, Pane) /\ DOMAIN panes = DOMAIN T.panes
      /\ \A p \in DOMAIN T.panes \ Mine(T, c) : panes[p] = T.panes[p]
      /\ \A p \in Mine(T, c) : panes[p].owner = NoClient /\ panes[p].session = s
                               /\ panes[p].state # "attached"
  BY <1>2, <1>4, StoreFacts DEF IsTable
<1>7. /\ IsTable(detached, Sessions, Parking) /\ detached[s] = parking
      /\ DOMAIN detached = DOMAIN T.detached \union {s}
  BY <1>3, StoreFacts DEF IsTable, Put
<1>8. IsTable(T.clients, Clients, Client)
  BY DEF IsStore
<1> HIDE DEF panes, detached, U
<1>9. /\ U.panes = panes /\ U.clients = T.clients /\ U.detached = detached /\ U.dirty
      /\ IsStore(U)
  BY <1>1, <1>6, <1>7, <1>8, StoreFacts DEF IsStore
<1>10. QED
  BY <1>5, <1>6, <1>7, <1>9 DEF U

\* A client that is gone takes no pane with it.
LEMMA GoneFacts ==
  ASSUME NEW T, IsStore(T), NEW c
  PROVE  /\ IsStore(Gone(T, c))
         /\ Gone(T, c).panes = T.panes /\ Gone(T, c).detached = T.detached
         /\ Gone(T, c).dirty = T.dirty
         /\ DOMAIN Gone(T, c).clients = DOMAIN T.clients \ {c}
         /\ \A d \in DOMAIN T.clients \ {c} : Gone(T, c).clients[d] = T.clients[d]
<1> DEFINE clients == [d \in DOMAIN T.clients \ {c} |-> T.clients[d]]
<1>1. Gone(T, c) = [T EXCEPT !.clients = clients]
  BY DEF Gone, Restrict
<1>2. IsTable(clients, Clients, Client)
  BY StoreFacts DEF IsTable
<1> HIDE DEF clients
<1>3. /\ Gone(T, c).panes = T.panes /\ Gone(T, c).detached = T.detached
      /\ Gone(T, c).dirty = T.dirty /\ Gone(T, c).clients = clients
      /\ IsStore(Gone(T, c))
  BY <1>1, <1>2, StoreFacts DEF IsStore
<1>4. QED
  BY <1>3 DEF clients

\* Forgetting a session's record unstamps the panes it lists.
LEMMA RemovedFacts ==
  ASSUME NEW T, IsStore(T), NEW s
  PROVE  /\ IsStore(Removed(T, s)) /\ Removed(T, s).clients = T.clients
         /\ DOMAIN Removed(T, s).panes = DOMAIN T.panes
         /\ \A p \in DOMAIN T.panes : /\ Removed(T, s).panes[p].owner = T.panes[p].owner
                                      /\ Removed(T, s).panes[p].state = T.panes[p].state
         /\ DOMAIN Removed(T, s).detached = DOMAIN T.detached \ {s}
         /\ \A t \in DOMAIN T.detached \ {s} : Removed(T, s).detached[t] = T.detached[t]
         /\ Removed(T, s).dirty \/ (Removed(T, s) = T /\ s \notin DOMAIN T.detached)
<1>1. CASE s \notin DOMAIN T.detached
  <2>1. Removed(T, s) = T
    BY <1>1 DEF Removed
  <2>2. QED
    BY <1>1, <2>1
<1>2. CASE s \in DOMAIN T.detached
  <2> DEFINE U == Removed(T, s)
             panes == [p \in DOMAIN T.panes |->
                         IF p \in T.detached[s].panes
                           THEN [T.panes[p] EXCEPT !.session = NoSession] ELSE T.panes[p]]
             detached == [t \in DOMAIN T.detached \ {s} |-> T.detached[t]]
  <2>1. U = [T EXCEPT !.panes = panes, !.detached = detached, !.dirty = TRUE]
    BY <1>2 DEF Removed, Restrict
  <2>2. \A r \in Pane : /\ [r EXCEPT !.session = NoSession] \in Pane
                        /\ [r EXCEPT !.session = NoSession].owner = r.owner
                        /\ [r EXCEPT !.session = NoSession].state = r.state
    BY DEF Pane
  <2>3. /\ IsTable(panes, Panes, Pane) /\ DOMAIN panes = DOMAIN T.panes
        /\ \A p \in DOMAIN T.panes : panes[p].owner = T.panes[p].owner
                                     /\ panes[p].state = T.panes[p].state
    BY <2>2, StoreFacts DEF IsTable
  <2>4. /\ IsTable(detached, Sessions, Parking) /\ DOMAIN detached = DOMAIN T.detached \ {s}
        /\ \A t \in DOMAIN T.detached \ {s} : detached[t] = T.detached[t]
    BY StoreFacts DEF IsTable
  <2> HIDE DEF panes, detached, U
  <2>5. /\ U.panes = panes /\ U.clients = T.clients /\ U.detached = detached /\ U.dirty
        /\ IsStore(U)
    BY <2>1, <2>3, <2>4, StoreFacts DEF IsStore
  <2>6. QED
    BY <2>3, <2>4, <2>5 DEF U
<1>3. QED
  BY <1>1, <1>2

\* Unparking a pane changes neither owner nor state of any.
LEMMA UnparkedFacts ==
  ASSUME NEW T, IsStore(T), NEW p \in DOMAIN T.panes
  PROVE  /\ IsStore(Unparked(T, p)) /\ Unparked(T, p).clients = T.clients
         /\ DOMAIN Unparked(T, p).panes = DOMAIN T.panes
         /\ \A q \in DOMAIN T.panes : /\ Unparked(T, p).panes[q].owner = T.panes[q].owner
                                      /\ Unparked(T, p).panes[q].state = T.panes[q].state
         /\ DOMAIN Unparked(T, p).detached \subseteq DOMAIN T.detached
         /\ Unparked(T, p).dirty
<1> DEFINE U == Unparked(T, p)
           lists == {s \in DOMAIN T.detached : p \in T.detached[s].panes}
           empty == {s \in lists : T.detached[s].panes = {p}}
           panes == [T.panes EXCEPT ![p].session = NoSession]
           detached == [s \in DOMAIN T.detached \ empty |->
                          IF s \in lists THEN Without(T.detached[s], {p}) ELSE T.detached[s]]
<1>1. U = [T EXCEPT !.detached = detached, !.panes = panes, !.dirty = TRUE]
  BY DEF Unparked
<1>2. \A r \in Pane : /\ [r EXCEPT !.session = NoSession] \in Pane
                      /\ [r EXCEPT !.session = NoSession].owner = r.owner
                      /\ [r EXCEPT !.session = NoSession].state = r.state
  BY DEF Pane
<1>3. /\ IsTable(panes, Panes, Pane) /\ DOMAIN panes = DOMAIN T.panes
      /\ \A q \in DOMAIN T.panes : panes[q].owner = T.panes[q].owner
                                   /\ panes[q].state = T.panes[q].state
  BY <1>2, StoreFacts DEF IsTable
<1>4. IsTable(detached, Sessions, Parking) /\ DOMAIN detached \subseteq DOMAIN T.detached
  BY StoreFacts, WithoutParking DEF IsTable
<1> HIDE DEF panes, detached, U
<1>5. /\ U.panes = panes /\ U.clients = T.clients /\ U.detached = detached /\ U.dirty
      /\ IsStore(U)
  BY <1>1, <1>3, <1>4, StoreFacts DEF IsStore
<1>6. QED
  BY <1>3, <1>4, <1>5 DEF U

\* A steal frees one pane and takes it off the list of its owner.
LEMMA TakenFacts ==
  ASSUME NEW T, IsStore(T), NEW p \in DOMAIN T.panes
  PROVE  /\ IsStore(Taken(T, p)) /\ SameClients(T, Taken(T, p))
         /\ \A c \in DOMAIN T.clients :
              Taken(T, p).clients[c].panes
                = IF c = T.panes[p].owner THEN T.clients[c].panes \ {p} ELSE T.clients[c].panes
         /\ DOMAIN Taken(T, p).panes = DOMAIN T.panes
         /\ \A q \in DOMAIN T.panes \ {p} : Taken(T, p).panes[q] = T.panes[q]
         /\ Taken(T, p).panes[p] = Freed(T.panes[p], p)
         /\ Taken(T, p).detached = T.detached
         /\ Taken(T, p).dirty
<1> DEFINE U == Taken(T, p)
           clients == [c \in DOMAIN T.clients |->
                         IF c = T.panes[p].owner THEN [T.clients[c] EXCEPT !.panes = @ \ {p}]
                         ELSE T.clients[c]]
           panes == [T.panes EXCEPT ![p] = Freed(@, p)]
<1>1. U = [T EXCEPT !.clients = clients, !.panes = panes, !.dirty = TRUE]
  BY DEF Taken
<1>2. \A r \in Client : /\ [r EXCEPT !.panes = @ \ {p}] \in Client
                        /\ [r EXCEPT !.panes = @ \ {p}].session = r.session
                        /\ [r EXCEPT !.panes = @ \ {p}].pending = r.pending
                        /\ [r EXCEPT !.panes = @ \ {p}].panes = r.panes \ {p}
  BY DEF Client
<1>3. /\ IsTable(clients, Clients, Client) /\ DOMAIN clients = DOMAIN T.clients
      /\ \A c \in DOMAIN T.clients :
           /\ clients[c].session = T.clients[c].session
           /\ clients[c].pending = T.clients[c].pending
           /\ clients[c].panes
                = IF c = T.panes[p].owner THEN T.clients[c].panes \ {p} ELSE T.clients[c].panes
  BY <1>2, StoreFacts DEF IsTable
<1>4. /\ IsTable(panes, Panes, Pane) /\ DOMAIN panes = DOMAIN T.panes
      /\ \A q \in DOMAIN T.panes \ {p} : panes[q] = T.panes[q]
      /\ panes[p] = Freed(T.panes[p], p)
  BY StoreFacts, FreedFacts DEF IsTable
<1> HIDE DEF panes, clients, U
<1>5. /\ U.panes = panes /\ U.clients = clients /\ U.detached = T.detached /\ U.dirty
      /\ IsStore(U)
  BY <1>1, <1>3, <1>4, StoreFacts DEF IsStore
<1>6. QED
  BY <1>3, <1>4, <1>5 DEF U, SameClients

\* Attaching gives one pane to c and puts it on its list.
LEMMA AttachedFacts ==
  ASSUME NEW T, IsStore(T), NEW c \in DOMAIN T.clients, NEW p \in DOMAIN T.panes
  PROVE  /\ IsStore(Attached(T, c, p)) /\ SameClients(T, Attached(T, c, p))
         /\ \A d \in DOMAIN T.clients :
              Attached(T, c, p).clients[d].panes
                = IF d = c THEN T.clients[d].panes \union {p} ELSE T.clients[d].panes
         /\ DOMAIN Attached(T, c, p).panes = DOMAIN T.panes
         /\ \A q \in DOMAIN T.panes \ {p} : Attached(T, c, p).panes[q] = T.panes[q]
         /\ Attached(T, c, p).panes[p].owner = c
         /\ Attached(T, c, p).panes[p].session = T.panes[p].session
         /\ Attached(T, c, p).panes[p].state = "attached"
         /\ Attached(T, c, p).detached = T.detached
         /\ Attached(T, c, p).dirty
<1> DEFINE U == Attached(T, c, p)
           client == [T.clients[c] EXCEPT !.panes = @ \union {p}]
           clients == [T.clients EXCEPT ![c] = client]
           pane == [Become(T.panes[p], "attached") EXCEPT !.owner = c, !.timed = FALSE]
           panes == [T.panes EXCEPT ![p] = pane]
<1>1. U = [T EXCEPT !.clients = clients, !.panes = panes, !.dirty = TRUE]
  BY DEF Attached
<1>2. p \in Panes /\ c \in Clients /\ T.panes[p] \in Pane
  BY StoreFacts
<1>3. /\ client \in Client /\ client.panes = T.clients[c].panes \union {p}
      /\ client.session = T.clients[c].session /\ client.pending = T.clients[c].pending
  BY <1>2, StoreFacts DEF Client
<1> HIDE DEF client
<1>4. /\ IsTable(clients, Clients, Client) /\ DOMAIN clients = DOMAIN T.clients
      /\ \A d \in DOMAIN T.clients \ {c} : clients[d] = T.clients[d]
      /\ clients[c] = client
  BY <1>3, StoreFacts DEF IsTable
<1>5. /\ pane \in Pane /\ pane.owner = c /\ pane.session = T.panes[p].session
      /\ pane.state = "attached"
  BY <1>2, AttachFacts
<1> HIDE DEF pane
<1>6. /\ IsTable(panes, Panes, Pane) /\ DOMAIN panes = DOMAIN T.panes
      /\ \A q \in DOMAIN T.panes \ {p} : panes[q] = T.panes[q]
      /\ panes[p] = pane
  BY <1>5, StoreFacts DEF IsTable
<1> HIDE DEF panes, clients, U
<1>7. /\ U.panes = panes /\ U.clients = clients /\ U.detached = T.detached /\ U.dirty
      /\ IsStore(U)
  BY <1>1, <1>4, <1>6, StoreFacts DEF IsStore
<1>8. SameClients(T, U)
  BY <1>3, <1>4, <1>7 DEF SameClients
<1>9. \A d \in DOMAIN T.clients :
        U.clients[d].panes = IF d = c THEN T.clients[d].panes \union {p} ELSE T.clients[d].panes
  BY <1>3, <1>4, <1>7
<1>10. QED
  BY <1>5, <1>6, <1>7, <1>8, <1>9 DEF U

\* A session's record may forget panes that are in the table no more.
LEMMA RecordForgets ==
  ASSUME NEW T, IsStore(T), NEW s \in DOMAIN T.detached, NEW r \in Parking,
         r.panes \subseteq T.detached[s].panes,
         T.detached[s].panes \intersect DOMAIN T.panes \subseteq r.panes
  PROVE  LET U == [T EXCEPT !.detached[s] = r]
         IN  Loses(T, U) /\ U.panes = T.panes /\ U.clients = T.clients
             /\ U.detached = [T.detached EXCEPT ![s] = r]
<1> DEFINE U == [T EXCEPT !.detached[s] = r]
           detached == [T.detached EXCEPT ![s] = r]
<1>1. U = [T EXCEPT !.detached = detached]
  BY StoreFacts
<1>2. /\ IsTable(detached, Sessions, Parking) /\ DOMAIN detached = DOMAIN T.detached
      /\ \A t \in DOMAIN T.detached :
           /\ detached[t].panes \subseteq T.detached[t].panes
           /\ T.detached[t].panes \intersect DOMAIN T.panes \subseteq detached[t].panes
  BY StoreFacts DEF IsTable
<1> HIDE DEF detached, U
<1>3. /\ IsStore(U) /\ U.panes = T.panes /\ U.clients = T.clients
      /\ U.detached = detached /\ U.dirty = T.dirty
  BY <1>1, <1>2, StoreFacts DEF IsStore
<1>4. \A c \in DOMAIN T.clients : {p \in OwnedIn(T, c) : p \notin DOMAIN T.panes} = {}
  BY DEF OwnedIn
<1>5. Loses(T, U)
  BY <1>2, <1>3, <1>4 DEF Loses, SameClients
<1>6. QED
  BY <1>3, <1>5 DEF U, detached

\* Pruning a session takes no pane whose process lives.
LEMMA PrunedFacts ==
  ASSUME NEW T, IsStore(T), NEW s \in DOMAIN T.detached
  PROVE  /\ Loses(T, Pruned(T, s))
         /\ \A p \in DOMAIN T.panes : Alive(p) => p \in DOMAIN Pruned(T, s).panes
<1> DEFINE lost == {p \in T.detached[s].panes : p \notin DOMAIN T.panes \/ ~Alive(p)}
           bare == Without(T.detached[s], lost \ DOMAIN T.panes)
           R == [T EXCEPT !.detached[s] = bare]
           U == Killed(R, lost)
           stale == {p \in U.detached[s].floats :
                       p \in DOMAIN U.panes => U.panes[p].owner = NoClient /\ ~Alive(p)}
           V == Killed(U, stale)
           thin == [V.detached[s] EXCEPT !.floats = @ \ stale]
           W == [V EXCEPT !.detached[s] = thin]
<1>1. T.detached[s] \in Parking
  BY StoreFacts
<1>2. /\ bare \in Parking /\ bare.panes \subseteq T.detached[s].panes
      /\ T.detached[s].panes \intersect DOMAIN T.panes \subseteq bare.panes
  BY <1>1, WithoutParking
<1>3. Loses(T, R) /\ R.panes = T.panes /\ IsStore(R)
  <2> HIDE DEF bare
  <2>1. QED
    BY <1>2, RecordForgets DEF Loses
<1>4. Loses(R, U) /\ DOMAIN U.panes = DOMAIN R.panes \ lost /\ IsStore(U)
  <2> HIDE DEF R, lost
  <2>1. QED
    BY <1>3, KilledFacts DEF Loses
<1>5. Loses(U, V) /\ DOMAIN V.panes = DOMAIN U.panes \ stale /\ IsStore(V)
  <2> HIDE DEF U, stale
  <2>1. QED
    BY <1>4, KilledFacts DEF Loses
<1>6. s \in DOMAIN V.detached /\ V.detached[s] \in Parking
  <2>1. s \in DOMAIN V.detached
    BY <1>3, <1>4, <1>5 DEF Loses
  <2>2. QED
    BY <1>5, <2>1, StoreFacts
<1> HIDE DEF V, stale
<1>7. thin \in Parking /\ thin.panes = V.detached[s].panes
  BY <1>6 DEF Parking
<1>8. Loses(V, W) /\ W.panes = V.panes
  <2> HIDE DEF thin
  <2>1. QED
    BY <1>5, <1>6, <1>7, RecordForgets
<1>9. Pruned(T, s) = W
  BY <1>5, <1>6, StoreFacts DEF Pruned, V, stale
<1>10. Loses(T, W)
  <2> HIDE DEF R, U, W
  <2>1. QED
    BY <1>3, <1>4, <1>5, <1>8, LosesTwice
<1>11. \A p \in DOMAIN T.panes : Alive(p) => p \in DOMAIN W.panes
  <2>1. \A p \in DOMAIN T.panes : Alive(p) => p \in DOMAIN U.panes /\ p \notin stale
    BY <1>3, <1>4 DEF stale
  <2> HIDE DEF U, W
  <2>2. QED
    BY <1>5, <1>8, <2>1
<1>12. QED
  BY <1>9, <1>10, <1>11

\* U is T after client c let go of what it owned, and is gone.
LetsGo(T, U, c) ==
  /\ IsStore(U)
  /\ DOMAIN U.panes \subseteq DOMAIN T.panes
  /\ \A p \in DOMAIN T.panes :
       T.panes[p].owner \notin {NoClient, c} => p \in DOMAIN U.panes /\ U.panes[p] = T.panes[p]
  /\ \A p \in DOMAIN U.panes :
       \/ U.panes[p] = T.panes[p]
       \/ U.panes[p].owner = NoClient /\ U.panes[p].state # "attached"
  /\ DOMAIN U.clients = DOMAIN T.clients \ {c}
  /\ \A d \in DOMAIN U.clients : /\ U.clients[d].session = T.clients[d].session
                                 /\ U.clients[d].pending = T.clients[d].pending
                                 /\ U.clients[d].panes = T.clients[d].panes

\* Four ways for a client to go: it owns nothing, it parks what it owns,
LEMMA GoneLetsGo ==
  ASSUME NEW T, IsStore(T), NEW c
  PROVE  LetsGo(T, Gone(T, c), c)
BY GoneFacts DEF LetsGo

\* ... in its session,
LEMMA DetachedLetsGo ==
  ASSUME NEW T, IsStore(T), NEW c \in DOMAIN T.clients, NEW s \in Sessions
  PROVE  LetsGo(T, Gone(Detached(T, c, s), c), c)
<1> DEFINE D == Detached(T, c, s)
<1>1. /\ IsStore(D) /\ D.clients = T.clients /\ DOMAIN D.panes = DOMAIN T.panes
      /\ \A p \in DOMAIN T.panes \ Mine(T, c) : D.panes[p] = T.panes[p]
      /\ \A p \in Mine(T, c) : D.panes[p].owner = NoClient /\ D.panes[p].state # "attached"
  BY DetachedFacts
<1>2. \A p \in Mine(T, c) : p \in DOMAIN T.panes /\ T.panes[p].owner = c
  BY DEF Mine
<1> HIDE DEF D
<1> DEFINE G == Gone(D, c)
<1>3. /\ IsStore(G) /\ G.panes = D.panes /\ DOMAIN G.clients = DOMAIN T.clients \ {c}
      /\ \A d \in DOMAIN T.clients \ {c} : G.clients[d] = T.clients[d]
  BY <1>1, GoneFacts
<1> HIDE DEF G
<1>4. LetsGo(T, G, c)
  BY <1>1, <1>2, <1>3 DEF LetsGo
<1>5. QED
  BY <1>4 DEF G, D

\* ... or in the session it was reattaching, which keeps its record,
LEMMA CancelledLetsGo ==
  ASSUME NEW T, IsStore(T), NEW c \in DOMAIN T.clients, NEW s \in Sessions
  PROVE  /\ LetsGo(T, Gone(Cancelled(T, c, s), c), c)
         /\ Gone(Cancelled(T, c, s), c).detached = T.detached
         /\ Gone(Cancelled(T, c, s), c).dirty \/ s \notin DOMAIN T.detached
<1>1. CASE s \notin DOMAIN T.detached
  BY <1>1, GoneLetsGo, GoneFacts DEF Cancelled
<1>2. CASE s \in DOMAIN T.detached
  <2> DEFINE D == Cancelled(T, c, s)
             back == {p \in DOMAIN T.panes : p \in T.detached[s].panes
                                             /\ T.panes[p].owner \in {NoClient, c}}
             park(p) == [Become(T.panes[p], "detached") EXCEPT !.session = s, !.owner = NoClient]
             panes == [p \in DOMAIN T.panes |-> IF p \in back THEN park(p) ELSE T.panes[p]]
             client == [T.clients[c] EXCEPT !.pending = NoSession]
             clients == [T.clients EXCEPT ![c] = client]
  <2>1. D = [T EXCEPT !.panes = panes, !.clients = clients, !.dirty = TRUE]
    BY <1>2, StoreFacts DEF Cancelled
  <2>2. client \in Client
    BY StoreFacts DEF Client
  <2>3. \A p \in DOMAIN T.panes : /\ park(p) \in Pane /\ park(p).owner = NoClient
                                  /\ park(p).state # "attached"
    BY StoreFacts, ParkFacts
  <2> HIDE DEF client, park
  <2>4. /\ IsTable(panes, Panes, Pane) /\ DOMAIN panes = DOMAIN T.panes
        /\ \A p \in DOMAIN T.panes : panes[p] = IF p \in back THEN park(p) ELSE T.panes[p]
    BY <2>3, StoreFacts DEF IsTable
  <2>5. /\ IsTable(clients, Clients, Client) /\ DOMAIN clients = DOMAIN T.clients
        /\ \A d \in DOMAIN T.clients \ {c} : clients[d] = T.clients[d]
    BY <2>2, StoreFacts DEF IsTable
  <2> HIDE DEF panes, clients, D
  <2>6. /\ D.panes = panes /\ D.clients = clients /\ D.detached = T.detached /\ D.dirty
        /\ IsStore(D)
    BY <2>1, <2>4, <2>5, StoreFacts DEF IsStore
  <2> DEFINE G == Gone(D, c)
  <2>7. /\ IsStore(G) /\ G.panes = panes /\ G.detached = T.detached /\ G.dirty
        /\ DOMAIN G.clients = DOMAIN T.clients \ {c}
        /\ \A d \in DOMAIN T.clients \ {c} : G.clients[d] = T.clients[d]
    BY <2>5, <2>6, GoneFacts
  <2> HIDE DEF G
  <2>8. \A p \in DOMAIN T.panes : p \in back => T.panes[p].owner \in {NoClient, c}
    OBVIOUS
  <2> HIDE DEF back
  <2>9. LetsGo(T, G, c)
    BY <2>3, <2>4, <2>7, <2>8 DEF LetsGo
  <2>10. QED
    BY <2>7, <2>9 DEF G, D
<1>3. QED
  BY <1>1, <1>2

LEMMA DirtyFacts ==
  ASSUME NEW T, IsStore(T)
  PROVE  /\ IsStore(Dirty(T)) /\ Dirty(T).panes = T.panes /\ Dirty(T).clients = T.clients
         /\ Dirty(T).detached = T.detached /\ Dirty(T).dirty
BY StoreFacts DEF Dirty, IsStore

\* ... or its user quits, and what it owned is killed or freed.
LEMMA CollectedLetsGo ==
  ASSUME NEW T, IsStore(T), NEW c \in DOMAIN T.clients, NEW spare
  PROVE  /\ LetsGo(T, Dirty(Gone(Collected(T, c, spare), c)), c)
         /\ Dirty(Gone(Collected(T, c, spare), c)).dirty
         /\ DOMAIN Dirty(Gone(Collected(T, c, spare), c)).detached = DOMAIN T.detached
<1> DEFINE mine == Mine(T, c)
           kept == mine \intersect spare
           free(p) == [Freed(T.panes[p], p) EXCEPT !.timed = FALSE]
           panes == [p \in DOMAIN T.panes |-> IF p \in kept THEN free(p) ELSE T.panes[p]]
           R == [T EXCEPT !.panes = panes]
           D == Killed(R, mine \ kept)
           G == Dirty(Gone(D, c))
<1>1. D = Collected(T, c, spare)
  BY StoreFacts DEF Collected
<1>2. \A p \in DOMAIN T.panes : /\ free(p) \in Pane /\ free(p).owner = NoClient
                                /\ free(p).state # "attached"
  <2>1. \A r \in Pane : /\ [r EXCEPT !.timed = FALSE] \in Pane
                        /\ [r EXCEPT !.timed = FALSE].owner = r.owner
                        /\ [r EXCEPT !.timed = FALSE].state = r.state
    BY DEF Pane
  <2>2. QED
    BY <2>1, StoreFacts, FreedFacts
<1> HIDE DEF free
<1>3. /\ IsTable(panes, Panes, Pane) /\ DOMAIN panes = DOMAIN T.panes
      /\ \A p \in DOMAIN T.panes : panes[p] = IF p \in kept THEN free(p) ELSE T.panes[p]
  BY <1>2, StoreFacts DEF IsTable
<1> HIDE DEF panes
<1>4. /\ IsStore(R) /\ R.panes = panes /\ R.clients = T.clients /\ R.detached = T.detached
  BY <1>3, StoreFacts DEF IsStore
<1>5. \A p \in mine : p \in DOMAIN T.panes /\ T.panes[p].owner = c
  BY DEF Mine
<1> HIDE DEF R, mine
<1>6. Loses(R, D) /\ DOMAIN D.panes = DOMAIN R.panes \ (mine \ kept)
  BY <1>4, KilledFacts
<1>7. c \in Clients
  BY StoreFacts
<1> HIDE DEF D
<1>8. /\ IsStore(D) /\ DOMAIN D.panes = DOMAIN T.panes \ (mine \ kept)
      /\ \A p \in DOMAIN D.panes : D.panes[p] = IF p \in kept THEN free(p) ELSE T.panes[p]
      /\ DOMAIN D.clients = DOMAIN T.clients /\ DOMAIN D.detached = DOMAIN T.detached
  BY <1>3, <1>4, <1>6 DEF Loses, SameClients
<1>9. ASSUME NEW d \in DOMAIN T.clients \ {c}
      PROVE  /\ D.clients[d].session = T.clients[d].session
             /\ D.clients[d].pending = T.clients[d].pending
             /\ D.clients[d].panes = T.clients[d].panes
  <2>1. {p \in OwnedIn(R, d) : p \notin DOMAIN D.panes} = {}
    BY <1>3, <1>4, <1>5, <1>8 DEF OwnedIn
  <2>2. D.clients[d].panes
          = R.clients[d].panes \ {p \in OwnedIn(R, d) : p \notin DOMAIN D.panes}
    BY <1>4, <1>6 DEF Loses
  <2>3. D.clients[d].panes = T.clients[d].panes
    BY <1>4, <2>1, <2>2
  <2>4. QED
    BY <1>4, <1>6, <2>3 DEF Loses, SameClients
<1>10. /\ IsStore(G) /\ G.panes = D.panes /\ G.detached = D.detached /\ G.dirty
       /\ DOMAIN G.clients = DOMAIN D.clients \ {c}
       /\ \A d \in DOMAIN D.clients \ {c} : G.clients[d] = D.clients[d]
  BY <1>8, GoneFacts, DirtyFacts
<1> HIDE DEF G
<1>11. LetsGo(T, G, c)
  <2>1. \A p \in DOMAIN T.panes :
          T.panes[p].owner \notin {NoClient, c} => p \in DOMAIN G.panes /\ G.panes[p] = T.panes[p]
    BY <1>5, <1>8, <1>10
  <2>2. \A p \in DOMAIN G.panes :
          \/ G.panes[p] = T.panes[p]
          \/ G.panes[p].owner = NoClient /\ G.panes[p].state # "attached"
    BY <1>2, <1>8, <1>10
  <2>3. QED
    BY <1>8, <1>9, <1>10, <2>1, <2>2 DEF LetsGo
<1>12. QED
  BY <1>1, <1>8, <1>10, <1>11 DEF G

-----------------------------------------------------------------------------
(* Ownership *)

Lists(T) == \A c \in DOMAIN T.clients : T.clients[c].panes = OwnedIn(T, c)

Marked(T) ==
  \A p \in DOMAIN T.panes : T.panes[p].state = "attached" <=> T.panes[p].owner # NoClient

Sound(T) == IsStore(T) /\ Lists(T) /\ Marked(T)

\* Neither losing panes nor losing a client unsettles a store.
LEMMA LosesKeeps ==
  ASSUME NEW T, NEW U, Sound(T), Loses(T, U)
  PROVE  Sound(U)
BY DEF Sound, Lists, Marked, Loses, SameClients, OwnedIn

LEMMA LetsGoKeeps ==
  ASSUME NEW T, NEW U, NEW c, Sound(T), LetsGo(T, U, c)
  PROVE  Sound(U)
<1>1. ASSUME NEW d \in DOMAIN U.clients PROVE U.clients[d].panes = OwnedIn(U, d)
  <2>1. d \in DOMAIN T.clients /\ d # c /\ d # NoClient
    BY <1>1, NoClientFacts, StoreFacts DEF LetsGo, Sound
  <2>2. OwnedIn(U, d) = OwnedIn(T, d)
    BY <2>1 DEF LetsGo, OwnedIn
  <2>3. QED
    BY <1>1, <2>1, <2>2 DEF LetsGo, Sound, Lists
<1>2. Marked(U)
  BY DEF LetsGo, Sound, Marked
<1>3. QED
  BY <1>1, <1>2 DEF LetsGo, Sound, Lists

\* A pane nobody owns, or c itself, is attached to c.
LEMMA AttachedKeeps ==
  ASSUME NEW T, Sound(T), NEW c \in DOMAIN T.clients, NEW p \in DOMAIN T.panes,
         T.panes[p].owner \in {NoClient, c}
  PROVE  Sound(Attached(T, c, p))
<1> DEFINE U == Attached(T, c, p)
<1>1. c # NoClient /\ \A d \in DOMAIN T.clients : d # NoClient
  BY NoClientFacts, StoreFacts DEF Sound
<1>2. /\ IsStore(U) /\ SameClients(T, U)
      /\ \A d \in DOMAIN T.clients :
           U.clients[d].panes = IF d = c THEN T.clients[d].panes \union {p} ELSE T.clients[d].panes
      /\ DOMAIN U.panes = DOMAIN T.panes
      /\ \A q \in DOMAIN T.panes \ {p} : U.panes[q] = T.panes[q]
      /\ U.panes[p].owner = c
      /\ U.panes[p].session = T.panes[p].session
      /\ U.panes[p].state = "attached"
      /\ U.detached = T.detached
      /\ U.dirty
  <2>1. IsStore(T)
    BY DEF Sound
  <2>2. QED
    BY <2>1, AttachedFacts
<1> HIDE DEF U
<1>3. \A d \in DOMAIN T.clients :
        OwnedIn(U, d) = IF d = c THEN OwnedIn(T, d) \union {p} ELSE OwnedIn(T, d)
  BY <1>1, <1>2 DEF OwnedIn
<1>4. Lists(U) /\ Marked(U)
  BY <1>1, <1>2, <1>3 DEF Sound, Lists, Marked, SameClients
<1>5. QED
  BY <1>2, <1>4 DEF Sound, U

\* A stolen pane is nobody's, and on nobody's list.
LEMMA TakenKeeps ==
  ASSUME NEW T, Sound(T), NEW p \in DOMAIN T.panes
  PROVE  Sound(Taken(T, p)) /\ Taken(T, p).panes[p].owner = NoClient
<1> DEFINE U == Taken(T, p)
<1>1. \A d \in DOMAIN T.clients : d # NoClient
  BY NoClientFacts, StoreFacts DEF Sound
<1>2. /\ IsStore(U) /\ SameClients(T, U)
      /\ \A d \in DOMAIN T.clients :
           U.clients[d].panes
             = IF d = T.panes[p].owner THEN T.clients[d].panes \ {p} ELSE T.clients[d].panes
      /\ DOMAIN U.panes = DOMAIN T.panes
      /\ \A q \in DOMAIN T.panes \ {p} : U.panes[q] = T.panes[q]
      /\ U.panes[p] = Freed(T.panes[p], p)
  <2>1. IsStore(T)
    BY DEF Sound
  <2>2. QED
    BY <2>1, TakenFacts
<1> HIDE DEF U
<1>3. U.panes[p].owner = NoClient /\ U.panes[p].state # "attached"
  BY <1>2, FreedFacts, StoreFacts DEF Sound
<1>4. \A d \in DOMAIN T.clients :
        OwnedIn(U, d) = IF d = T.panes[p].owner THEN OwnedIn(T, d) \ {p} ELSE OwnedIn(T, d)
  BY <1>1, <1>2, <1>3 DEF OwnedIn
<1>5. Lists(U) /\ Marked(U)
  <2>1. Lists(U)
    BY <1>2, <1>4 DEF Sound, Lists, SameClients
  <2>2. Marked(U)
    BY <1>2, <1>3 DEF Sound, Marked
  <2>3. QED
    BY <2>1, <2>2
<1>6. QED
  BY <1>2, <1>3, <1>5 DEF Sound, U

\* Owners, states and client lists as they were.
LEMMA SameOwnersKeep ==
  ASSUME NEW T, NEW U, Sound(T), IsStore(U),
         DOMAIN U.panes = DOMAIN T.panes, DOMAIN U.clients = DOMAIN T.clients,
         \A p \in DOMAIN T.panes : /\ U.panes[p].owner = T.panes[p].owner
                                   /\ U.panes[p].state = T.panes[p].state,
         \A c \in DOMAIN T.clients : U.clients[c].panes = T.clients[c].panes
  PROVE  Sound(U)
BY DEF Sound, Lists, Marked, OwnedIn

\* U may follow T: it is sound, and has no pane, client or owner that T lacked.
Follows(T, U) ==
  /\ Sound(U)
  /\ DOMAIN U.panes \subseteq DOMAIN T.panes
  /\ DOMAIN U.clients \subseteq DOMAIN T.clients
  /\ \A p \in DOMAIN U.panes :
       U.panes[p].owner \in {NoClient, T.panes[p].owner} \union DOMAIN T.clients

\* What may follow, step by step, may follow.
LEMMA FollowsTwice ==
  ASSUME NEW T, NEW U, NEW V, Follows(T, U), Follows(U, V)
  PROVE  Follows(T, V)
BY DEF Follows

LEMMA LosesFollows ==
  ASSUME NEW T, NEW U, Sound(T), Loses(T, U)
  PROVE  Follows(T, U)
<1>1. Sound(U)
  BY LosesKeeps
<1>2. QED
  BY <1>1 DEF Follows, Loses, SameClients

LEMMA LetsGoFollows ==
  ASSUME NEW T, NEW U, NEW c, Sound(T), LetsGo(T, U, c)
  PROVE  Follows(T, U)
<1>1. Sound(U)
  BY LetsGoKeeps
<1>2. QED
  BY <1>1 DEF Follows, LetsGo

LEMMA SameOwnersFollows ==
  ASSUME NEW T, NEW U, Sound(T), IsStore(U),
         DOMAIN U.panes = DOMAIN T.panes, DOMAIN U.clients = DOMAIN T.clients,
         \A p \in DOMAIN T.panes : /\ U.panes[p].owner = T.panes[p].owner
                                   /\ U.panes[p].state = T.panes[p].state,
         \A c \in DOMAIN T.clients : U.clients[c].panes = T.clients[c].panes
  PROVE  Follows(T, U)
<1>1. Sound(U)
  BY SameOwnersKeep
<1>2. QED
  BY <1>1 DEF Follows

LEMMA AttachedFollows ==
  ASSUME NEW T, Sound(T), NEW c \in DOMAIN T.clients, NEW p \in DOMAIN T.panes,
         T.panes[p].owner \in {NoClient, c}
  PROVE  Follows(T, Attached(T, c, p))
<1> DEFINE U == Attached(T, c, p)
<1>1. Sound(U)
  BY AttachedKeeps
<1>2. /\ SameClients(T, U) /\ DOMAIN U.panes = DOMAIN T.panes
      /\ \A q \in DOMAIN T.panes \ {p} : U.panes[q] = T.panes[q]
      /\ U.panes[p].owner = c
  <2>1. IsStore(T)
    BY DEF Sound
  <2>2. QED
    BY <2>1, AttachedFacts
<1> HIDE DEF U
<1>3. Follows(T, U)
  BY <1>1, <1>2 DEF Follows, SameClients
<1>4. QED
  BY <1>3 DEF U

LEMMA TakenFollows ==
  ASSUME NEW T, Sound(T), NEW p \in DOMAIN T.panes
  PROVE  Follows(T, Taken(T, p))
<1> DEFINE U == Taken(T, p)
<1>1. Sound(U) /\ U.panes[p].owner = NoClient
  BY TakenKeeps
<1>2. /\ SameClients(T, U) /\ DOMAIN U.panes = DOMAIN T.panes
      /\ \A q \in DOMAIN T.panes \ {p} : U.panes[q] = T.panes[q]
  <2>1. IsStore(T)
    BY DEF Sound
  <2>2. QED
    BY <2>1, TakenFacts
<1> HIDE DEF U
<1>3. Follows(T, U)
  BY <1>1, <1>2 DEF Follows, SameClients
<1>4. QED
  BY <1>3 DEF U

\* Another record for one client that is listed with the same panes.
LEMMA ClientFacts ==
  ASSUME NEW T, IsStore(T), NEW c \in DOMAIN T.clients, NEW r \in Client
  PROVE  LET U == [T EXCEPT !.clients[c] = r]
         IN  /\ IsStore(U) /\ U.panes = T.panes /\ U.detached = T.detached
             /\ U.dirty = T.dirty /\ U.clients = [T.clients EXCEPT ![c] = r]
<1> DEFINE clients == [T.clients EXCEPT ![c] = r]
           U == [T EXCEPT !.clients = clients]
<1>1. IsTable(clients, Clients, Client)
  BY StoreFacts DEF IsTable
<1> HIDE DEF clients
<1>2. /\ IsStore(U) /\ U.panes = T.panes /\ U.detached = T.detached
      /\ U.dirty = T.dirty /\ U.clients = clients
  BY <1>1, StoreFacts DEF IsStore
<1>3. U = [T EXCEPT !.clients[c] = r]
  BY DEF clients
<1>4. QED
  BY <1>2, <1>3 DEF clients

LEMMA ClientFollows ==
  ASSUME NEW T, Sound(T), NEW c \in DOMAIN T.clients, NEW r \in Client,
         r.panes = T.clients[c].panes
  PROVE  Follows(T, [T EXCEPT !.clients[c] = r])
<1> DEFINE U == [T EXCEPT !.clients[c] = r]
<1>1. /\ IsStore(U) /\ U.panes = T.panes /\ U.clients = [T.clients EXCEPT ![c] = r]
  BY ClientFacts DEF Sound
<1> HIDE DEF U
<1>2. /\ DOMAIN U.clients = DOMAIN T.clients
      /\ \A d \in DOMAIN T.clients : U.clients[d].panes = T.clients[d].panes
  BY <1>1, StoreFacts DEF Sound
<1>3. Follows(T, U)
  BY <1>1, <1>2, SameOwnersFollows
<1>4. QED
  BY <1>3 DEF U

LEMMA DirtyFollows ==
  ASSUME NEW T, Sound(T)
  PROVE  Follows(T, Dirty(T)) /\ Follows(T, [T EXCEPT !.dirty = FALSE])
<1>1. /\ IsStore(Dirty(T)) /\ Dirty(T).panes = T.panes /\ Dirty(T).clients = T.clients
  BY DirtyFacts DEF Sound
<1> DEFINE U == [T EXCEPT !.dirty = FALSE]
<1>2. IsStore(U) /\ U.panes = T.panes /\ U.clients = T.clients
  <2>1. IsStore(T)
    BY DEF Sound
  <2>2. U = [T EXCEPT !.dirty = FALSE]
    OBVIOUS
  <2> HIDE DEF U
  <2>3. QED
    BY <2>1, <2>2, StoreFacts DEF IsStore
<1> HIDE DEF U
<1>3. Follows(T, Dirty(T)) /\ Follows(T, U)
  BY <1>1, <1>2, SameOwnersFollows
<1>4. QED
  BY <1>3 DEF U

-----------------------------------------------------------------------------
(* What the handlers do to the store *)

\* syncFloat: only the snapshot of a client changes.
LEMMA SyncFloatFollows ==
  ASSUME Sound(store), NEW c, NEW p, SyncFloat(c, p)
  PROVE  Follows(store, store')
<1> DEFINE r == [store.clients[c] EXCEPT !.floats = @ \union {p}]
           U == [store EXCEPT !.clients[c] = r]
<1>1. c \in DOMAIN store.clients /\ p \in Keyed
  BY DEF SyncFloat, Live
<1>2. r \in Client /\ r.panes = store.clients[c].panes
  BY <1>1, StoreFacts DEF Sound, Client
<1>3. store' = Dirty(U)
  BY StoreFacts, <1>1 DEF SyncFloat, Sound
<1> HIDE DEF r
<1>4. Follows(store, U)
  BY <1>1, <1>2, ClientFollows
<1> HIDE DEF U
<1>5. Follows(U, Dirty(U))
  BY <1>4, DirtyFollows DEF Follows
<1>6. QED
  BY <1>3, <1>4, <1>5, FollowsTwice

\* A keyed pane is unparked, stolen if it has an owner, and attached.
LEMMA TakeStickyFollows ==
  ASSUME Sound(store), NEW c, NEW p, NEW free, TakeSticky(c, p, free)
  PROVE  Follows(store, store')
<1> DEFINE U == IF store.panes[p].state = "detached" \/ Parked(store, p)
                  THEN Unparked(store, p) ELSE store
           V == IF store.panes[p].owner # NoClient THEN Taken(U, p) ELSE U
<1>1. c \in DOMAIN store.clients /\ p \in DOMAIN store.panes /\ store' = Attached(V, c, p)
  BY DEF TakeSticky, Live, Candidates
<1>2. Follows(store, store)
  BY DEF Follows
<1>3. Follows(store, Unparked(store, p))
  <2> DEFINE W == Unparked(store, p)
  <2>1. /\ IsStore(W) /\ W.clients = store.clients /\ DOMAIN W.panes = DOMAIN store.panes
        /\ \A q \in DOMAIN store.panes : /\ W.panes[q].owner = store.panes[q].owner
                                         /\ W.panes[q].state = store.panes[q].state
    BY <1>1, UnparkedFacts DEF Sound
  <2> HIDE DEF W
  <2>2. Follows(store, W)
    BY <2>1, SameOwnersFollows
  <2>3. QED
    BY <2>2 DEF W
<1>4. /\ Follows(store, U) /\ DOMAIN U.panes = DOMAIN store.panes
      /\ DOMAIN U.clients = DOMAIN store.clients /\ U.panes[p].owner = store.panes[p].owner
  BY <1>1, <1>2, <1>3, UnparkedFacts DEF Sound
<1> HIDE DEF U
<1>5. /\ Follows(U, V) /\ V.panes[p].owner = NoClient
      /\ p \in DOMAIN V.panes /\ c \in DOMAIN V.clients
  <2>1. CASE store.panes[p].owner # NoClient
    <3>1. Sound(U) /\ p \in DOMAIN U.panes
      BY <1>1, <1>4 DEF Follows
    <3>2. Follows(U, Taken(U, p)) /\ Taken(U, p).panes[p].owner = NoClient
      BY <3>1, TakenFollows, TakenKeeps
    <3>3. SameClients(U, Taken(U, p)) /\ DOMAIN Taken(U, p).panes = DOMAIN U.panes
      BY <3>1, TakenFacts DEF Sound
    <3>4. QED
      BY <1>1, <1>4, <2>1, <3>2, <3>3 DEF SameClients
  <2>2. CASE store.panes[p].owner = NoClient
    BY <1>1, <1>4, <2>2 DEF Follows
  <2>3. QED
    BY <2>1, <2>2
<1> HIDE DEF V
<1>6. Follows(V, Attached(V, c, p))
  BY <1>5, AttachedFollows DEF Follows
<1>7. QED
  BY <1>1, <1>4, <1>5, <1>6, FollowsTwice

\* An adopted pane is stolen if it has an owner, and attached.
LEMMA AdoptFollows ==
  ASSUME Sound(store), NEW c, NEW p, Adopt(c, p)
  PROVE  Follows(store, store')
<1> DEFINE V == IF store.panes[p].owner # NoClient THEN Taken(store, p) ELSE store
<1>1. c \in DOMAIN store.clients /\ p \in DOMAIN store.panes /\ store' = Attached(V, c, p)
  BY DEF Adopt, Live, Adoptable
<1>2. /\ Follows(store, V) /\ V.panes[p].owner = NoClient
      /\ p \in DOMAIN V.panes /\ c \in DOMAIN V.clients
  <2>1. CASE store.panes[p].owner # NoClient
    <3>1. Follows(store, Taken(store, p)) /\ Taken(store, p).panes[p].owner = NoClient
      BY <1>1, TakenFollows, TakenKeeps
    <3>2. SameClients(store, Taken(store, p)) /\ DOMAIN Taken(store, p).panes = DOMAIN store.panes
      BY <1>1, TakenFacts DEF Sound
    <3>3. QED
      BY <1>1, <2>1, <3>1, <3>2 DEF SameClients
  <2>2. CASE store.panes[p].owner = NoClient
    BY <1>1, <2>2 DEF Follows
  <2>3. QED
    BY <2>1, <2>2
<1> HIDE DEF V
<1>3. Follows(V, Attached(V, c, p))
  BY <1>2, AttachedFollows DEF Follows
<1>4. QED
  BY <1>1, <1>2, <1>3, FollowsTwice

\* A suspended pane leaves its owner and its owner's list.
LEMMA SuspendFollows ==
  ASSUME Sound(store), NEW c, NEW p, Suspend(c, p)
  PROVE  Follows(store, store')
<1> DEFINE o == store.panes[p].owner
           clients == [x \in Live |-> IF x = o THEN Without(store.clients[x], {p})
                                               ELSE store.clients[x]]
           free == Freed(store.panes[p], p)
           panes == [store.panes EXCEPT ![p] = free]
           U == [store EXCEPT !.clients = clients, !.panes = panes, !.dirty = TRUE]
<1>1. p \in DOMAIN store.panes /\ store' = U
  BY DEF Suspend, MayRelease
<1>2. free \in Pane /\ free.owner = NoClient /\ free.state # "attached"
  BY <1>1, FreedFacts, StoreFacts DEF Sound
<1> HIDE DEF free
<1>3. /\ IsTable(panes, Panes, Pane) /\ DOMAIN panes = DOMAIN store.panes
      /\ \A q \in DOMAIN store.panes \ {p} : panes[q] = store.panes[q]
      /\ panes[p] = free
  BY <1>1, <1>2, StoreFacts DEF Sound, IsTable
<1>4. /\ IsTable(clients, Clients, Client) /\ DOMAIN clients = DOMAIN store.clients
      /\ \A d \in DOMAIN store.clients :
           clients[d].panes = IF d = o THEN store.clients[d].panes \ {p}
                              ELSE store.clients[d].panes
  <2>1. IsStore(store)
    BY DEF Sound
  <2>2. DOMAIN clients = DOMAIN store.clients
    BY DEF Live
  <2>3. ASSUME NEW d \in DOMAIN store.clients
        PROVE  /\ clients[d] \in Client
               /\ clients[d].panes = IF d = o THEN store.clients[d].panes \ {p}
                                     ELSE store.clients[d].panes
    <3>1. store.clients[d] \in Client
      BY <2>1, <2>3, StoreFacts
    <3>2. QED
      BY <2>3, <3>1, WithoutClient DEF Live
  <2>4. DOMAIN clients \subseteq Clients
    BY <2>1, <2>2, StoreFacts
  <2> HIDE DEF o
  <2>5. clients \in [DOMAIN clients -> Client]
    BY <2>2, <2>3
  <2>6. QED
    BY <2>2, <2>3, <2>4, <2>5 DEF IsTable
<1> HIDE DEF panes, clients
<1>5. IsStore(U) /\ U.panes = panes /\ U.clients = clients
  <2>1. IsStore(store)
    BY DEF Sound
  <2>2. U = [store EXCEPT !.clients = clients, !.panes = panes, !.dirty = TRUE]
    OBVIOUS
  <2> HIDE DEF U
  <2>3. QED
    BY <1>3, <1>4, <2>1, <2>2, StoreFacts DEF IsStore
<1> HIDE DEF U
<1>6. \A d \in DOMAIN store.clients : d # NoClient
  BY NoClientFacts, StoreFacts DEF Sound
<1>7. \A d \in DOMAIN store.clients :
        OwnedIn(U, d) = IF d = o THEN OwnedIn(store, d) \ {p} ELSE OwnedIn(store, d)
  BY <1>1, <1>2, <1>3, <1>5, <1>6 DEF OwnedIn
<1>8. Lists(U)
  BY <1>4, <1>5, <1>7 DEF Sound, Lists
<1>9. Marked(U)
  BY <1>2, <1>3, <1>5 DEF Sound, Marked
<1>10. Follows(store, U)
  BY <1>2, <1>3, <1>4, <1>5, <1>8, <1>9 DEF Sound, Follows
<1>11. QED
  BY <1>1, <1>10

\* Killing takes panes out of the table and off the lists.
LEMMA KillFollows ==
  ASSUME Sound(store), NEW P, store' = Killed(store, P)
  PROVE  Follows(store, store')
BY KilledFacts, LosesFollows DEF Sound

\* A session that is killed goes with the panes it lists.
LEMMA KillSessionFollows ==
  ASSUME Sound(store), NEW s, KillSession(s)
  PROVE  Follows(store, store')
<1> DEFINE detached == [t \in DOMAIN store.detached \ {s} |-> store.detached[t]]
           U == [store EXCEPT !.detached = detached]
           V == Killed(U, store.detached[s].panes)
<1>1. store' = Dirty(V)
  BY DEF KillSession, Restrict
<1>2. IsTable(detached, Sessions, Parking)
  BY StoreFacts DEF Sound, IsTable
<1> HIDE DEF detached
<1>3. IsStore(U) /\ U.panes = store.panes /\ U.clients = store.clients
  BY <1>2, StoreFacts DEF Sound, IsStore
<1> HIDE DEF U
<1>4. Follows(store, U)
  BY <1>3, SameOwnersFollows
<1>5. Follows(U, V)
  BY <1>4, KilledFacts, LosesFollows DEF Follows, Sound
<1> HIDE DEF V
<1>6. Follows(V, Dirty(V))
  BY <1>5, DirtyFollows DEF Follows
<1>7. QED
  BY <1>1, <1>4, <1>5, <1>6, FollowsTwice


\* The client that reattaches s is handed the session's record.
Handed(T, c, s) ==
  LET U == Pruned(T, s)
  IN [U EXCEPT !.clients[c].pending = s, !.clients[c].floats = U.detached[s].floats]

\* Being handed a record, c waits for s, and no living pane is lost.
LEMMA HandedFacts ==
  ASSUME NEW T, Sound(T), NEW c \in DOMAIN T.clients, NEW s \in DOMAIN T.detached
  PROVE  /\ Follows(T, Handed(T, c, s))
         /\ DOMAIN Handed(T, c, s).clients = DOMAIN T.clients
         /\ \A d \in DOMAIN T.clients :
              /\ Handed(T, c, s).clients[d].session = T.clients[d].session
              /\ Handed(T, c, s).clients[d].pending
                   = IF d = c THEN s ELSE T.clients[d].pending
         /\ DOMAIN Handed(T, c, s).detached = DOMAIN T.detached
         /\ \A p \in DOMAIN T.panes : Alive(p) =>
              /\ p \in DOMAIN Handed(T, c, s).panes
              /\ Handed(T, c, s).panes[p] = T.panes[p]
              /\ \A t \in DOMAIN T.detached :
                   p \in T.detached[t].panes => p \in Handed(T, c, s).detached[t].panes
<1> DEFINE U == Pruned(T, s)
           r == [U.clients[c] EXCEPT !.pending = s, !.floats = U.detached[s].floats]
           V == [U EXCEPT !.clients[c] = r]
<1>1. Loses(T, U) /\ \A p \in DOMAIN T.panes : Alive(p) => p \in DOMAIN U.panes
  BY PrunedFacts DEF Sound
<1>2. Follows(T, U)
  BY <1>1, LosesFollows
<1> HIDE DEF U
<1>3. IsStore(U) /\ c \in DOMAIN U.clients /\ s \in DOMAIN U.detached
  BY <1>1 DEF Loses, SameClients
<1>4. U.clients[c] \in Client /\ U.detached[s] \in Parking /\ s \in Sessions
  BY <1>3, StoreFacts
<1>5. /\ r \in Client /\ r.panes = U.clients[c].panes
      /\ r.session = U.clients[c].session /\ r.pending = s
  BY <1>4 DEF Client, Parking
<1>6. V = Handed(T, c, s)
  BY <1>3, StoreFacts DEF Handed, U
<1> HIDE DEF r
<1>7. /\ V.panes = U.panes /\ V.detached = U.detached
      /\ V.clients = [U.clients EXCEPT ![c] = r]
  BY <1>3, <1>5, ClientFacts
<1>8. Follows(U, V)
  BY <1>2, <1>3, <1>5, ClientFollows DEF Follows
<1> HIDE DEF V
<1>9. Follows(T, V)
  BY <1>2, <1>8, FollowsTwice
<1>10. /\ DOMAIN V.clients = DOMAIN T.clients
       /\ \A d \in DOMAIN T.clients : /\ V.clients[d].session = T.clients[d].session
                                      /\ V.clients[d].pending
                                           = IF d = c THEN s ELSE T.clients[d].pending
  BY <1>1, <1>3, <1>5, <1>7, StoreFacts DEF Loses, SameClients
<1>11. DOMAIN V.detached = DOMAIN T.detached
  BY <1>1, <1>7 DEF Loses
<1>12. ASSUME NEW p \in DOMAIN T.panes, Alive(p)
       PROVE  /\ p \in DOMAIN V.panes /\ V.panes[p] = T.panes[p]
              /\ \A t \in DOMAIN T.detached :
                   p \in T.detached[t].panes => p \in V.detached[t].panes
  BY <1>1, <1>7, <1>12 DEF Loses
<1>13. QED
  BY <1>6, <1>9, <1>10, <1>11, <1>12

\* A session stolen from the client o that holds it.
Stolen(T, o, s) == Gone(Detached(T, o, s), o)

\* What the robbed client owned is parked in s.
LEMMA StolenFacts ==
  ASSUME NEW T, Sound(T), NEW o \in DOMAIN T.clients, NEW s \in Sessions
  PROVE  /\ Follows(T, Stolen(T, o, s))
         /\ DOMAIN Stolen(T, o, s).clients = DOMAIN T.clients \ {o}
         /\ \A d \in DOMAIN T.clients \ {o} : Stolen(T, o, s).clients[d] = T.clients[d]
         /\ DOMAIN Stolen(T, o, s).detached = DOMAIN T.detached \union {s}
         /\ DOMAIN Stolen(T, o, s).panes = DOMAIN T.panes
         /\ \A p \in Mine(T, o) : /\ Stolen(T, o, s).panes[p].session = s
                                  /\ p \in Stolen(T, o, s).detached[s].panes
<1> DEFINE D == Detached(T, o, s)
           U == Gone(D, o)
<1>1. IsStore(T)
  BY DEF Sound
<1>2. /\ IsStore(D) /\ D.clients = T.clients /\ DOMAIN D.panes = DOMAIN T.panes
      /\ \A p \in Mine(T, o) : D.panes[p].session = s
      /\ DOMAIN D.detached = DOMAIN T.detached \union {s} /\ D.detached[s].panes = Mine(T, o)
  BY <1>1, DetachedFacts
<1>3. LetsGo(T, U, o)
  BY <1>1, DetachedLetsGo
<1> HIDE DEF D
<1>4. /\ U.panes = D.panes /\ U.detached = D.detached
      /\ DOMAIN U.clients = DOMAIN D.clients \ {o}
      /\ \A d \in DOMAIN D.clients \ {o} : U.clients[d] = D.clients[d]
  BY <1>2, GoneFacts
<1> HIDE DEF U
<1>5. Follows(T, U)
  BY <1>3, LetsGoFollows
<1>6. U = Stolen(T, o, s)
  BY DEF U, D, Stolen
<1>7. QED
  BY <1>2, <1>4, <1>5, <1>6

\* What a reattach does: nothing yet, or it is given the record of s, which may
\* have to be taken from the client o first.
Reattached(c, s) ==
  \/ s \in DOMAIN store.detached /\ CompleteReattach(store, locks, c, s)
  \/ /\ s \notin DOMAIN store.detached /\ locks[s] = NoClient
     /\ \E o \in Live \ {c} :
          /\ {x \in Live : store.clients[x].session = s} = {o}
          /\ CompleteReattach(Stolen(store, o, s), Unlocked(o), c, s)

LEMMA ReattachIsReattached ==
  ASSUME NEW c, NEW s, Reattach(c, s)
  PROVE  c \in Live /\ store.clients[c].pending = NoSession /\ Reattached(c, s)
BY DEF Reattach, Reattached, Stolen

\* A reattach is granted or, the session being locked, refused.
LEMMA CompleteReattachCases ==
  ASSUME NEW T, NEW lk, NEW c, NEW s, CompleteReattach(T, lk, c, s)
  PROVE  \/ /\ MayLock(lk, s) /\ locks' = [lk EXCEPT ![s] = c] /\ store' = Handed(T, c, s)
         \/ lk[s] # NoClient /\ locks' = lk /\ store' = T
BY DEF CompleteReattach, Handed

LEMMA ReattachFollows ==
  ASSUME Sound(store), NEW c, NEW s \in Sessions, Reattach(c, s)
  PROVE  Follows(store, store')
<1>1. c \in DOMAIN store.clients /\ Reattached(c, s)
  BY ReattachIsReattached DEF Live
<1>2. ASSUME NEW T, NEW lk, Sound(T), c \in DOMAIN T.clients, s \in DOMAIN T.detached,
             CompleteReattach(T, lk, c, s)
      PROVE  Follows(T, store')
  <2>1. store' = Handed(T, c, s) \/ store' = T
    BY <1>2, CompleteReattachCases
  <2>2. Follows(T, Handed(T, c, s))
    BY <1>2, HandedFacts
  <2>3. Follows(T, T)
    BY <1>2 DEF Follows
  <2>4. QED
    BY <2>1, <2>2, <2>3
<1>3. CASE s \in DOMAIN store.detached
  BY <1>1, <1>2, <1>3 DEF Reattached
<1>4. CASE s \notin DOMAIN store.detached
  <2>1. PICK o \in Live \ {c} : CompleteReattach(Stolen(store, o, s), Unlocked(o), c, s)
    BY <1>1, <1>4 DEF Reattached
  <2> DEFINE T == Stolen(store, o, s)
  <2>2. /\ Follows(store, T) /\ c \in DOMAIN T.clients /\ s \in DOMAIN T.detached
    BY <1>1, <2>1, StolenFacts DEF Live
  <2> HIDE DEF T
  <2>3. Follows(T, store')
    BY <1>2, <2>1, <2>2 DEF Follows, T
  <2>4. QED
    BY <2>2, <2>3, FollowsTwice
<1>5. QED
  BY <1>3, <1>4

\* A commit: c holds s, the record is gone.
LEMMA CommitFacts ==
  ASSUME Sound(store), NEW c, Commit(c)
  PROVE  /\ Follows(store, store')
         /\ c \in DOMAIN store.clients /\ store.clients[c].pending # NoSession
         /\ DOMAIN store'.clients = DOMAIN store.clients
         /\ \A d \in DOMAIN store.clients \ {c} : store'.clients[d] = store.clients[d]
         /\ store'.clients[c].session = store.clients[c].pending
         /\ store'.clients[c].pending = NoSession
         /\ DOMAIN store'.detached = DOMAIN store.detached \ {store.clients[c].pending}
<1> DEFINE s == store.clients[c].pending
           r == [store.clients[c] EXCEPT !.session = s, !.pending = NoSession]
           U == [store EXCEPT !.clients[c] = r]
<1>1. c \in DOMAIN store.clients /\ s # NoSession /\ IsStore(store)
  BY DEF Commit, Live, Sound
<1>2. r \in Client /\ r.panes = store.clients[c].panes /\ r.session = s /\ r.pending = NoSession
  <2>1. store.clients[c] \in Client
    BY <1>1, StoreFacts
  <2>2. s \in Sessions
    BY <1>1, <2>1 DEF Client
  <2> HIDE DEF s
  <2>3. QED
    BY <2>1, <2>2 DEF Client
<1>3. store' = Removed(U, s)
  BY <1>1, StoreFacts DEF Commit
<1> HIDE DEF r, s
<1>4. /\ U.detached = store.detached /\ U.clients = [store.clients EXCEPT ![c] = r]
  BY <1>1, <1>2, ClientFacts
<1>5. Follows(store, U)
  BY <1>1, <1>2, ClientFollows
<1> HIDE DEF U
<1> DEFINE V == Removed(U, s)
<1>6. /\ IsStore(V) /\ V.clients = U.clients
      /\ DOMAIN V.panes = DOMAIN U.panes
      /\ \A p \in DOMAIN U.panes : /\ V.panes[p].owner = U.panes[p].owner
                                   /\ V.panes[p].state = U.panes[p].state
      /\ DOMAIN V.detached = DOMAIN U.detached \ {s}
  BY <1>5, RemovedFacts DEF Follows, Sound
<1> HIDE DEF V
<1>7. Follows(U, V)
  BY <1>5, <1>6, SameOwnersFollows DEF Follows
<1>8. Follows(store, V)
  BY <1>5, <1>7, FollowsTwice
<1>9. QED
  BY <1>1, <1>2, <1>3, <1>4, <1>6, <1>8, StoreFacts DEF V, s

\* Detach: the client is gone, what it owned is parked in its session.
LEMMA DetachFacts ==
  ASSUME Sound(store), NEW c, Detach(c)
  PROVE  /\ Follows(store, store')
         /\ c \in DOMAIN store.clients
         /\ DOMAIN store'.clients = DOMAIN store.clients \ {c}
         /\ \A d \in DOMAIN store.clients \ {c} : store'.clients[d] = store.clients[d]
         /\ DOMAIN store'.detached
              = DOMAIN store.detached \union {store.clients[c].session}
         /\ DOMAIN store'.panes = DOMAIN store.panes
         /\ \A p \in Mine(store, c) :
              /\ store'.panes[p].session = store.clients[c].session
              /\ p \in store'.detached[store.clients[c].session].panes
<1> DEFINE s == store.clients[c].session
           U == Stolen(store, c, s)
           V == [U EXCEPT !.dirty = FALSE]
<1>1. c \in DOMAIN store.clients /\ IsStore(store)
  BY DEF Detach, Live, Sound
<1>2. s \in Sessions
  BY <1>1, StoreFacts DEF Client
<1>3. store' = U \/ store' = V
  BY DEF Detach, Saved, Stolen
<1> HIDE DEF s
<1>4. /\ Follows(store, U)
      /\ DOMAIN U.clients = DOMAIN store.clients \ {c}
      /\ \A d \in DOMAIN store.clients \ {c} : U.clients[d] = store.clients[d]
      /\ DOMAIN U.detached = DOMAIN store.detached \union {s}
      /\ DOMAIN U.panes = DOMAIN store.panes
      /\ \A p \in Mine(store, c) : U.panes[p].session = s /\ p \in U.detached[s].panes
  BY <1>1, <1>2, StolenFacts
<1> HIDE DEF U
<1>5. Follows(U, V)
  BY <1>4, DirtyFollows DEF Follows
<1>6. Follows(store, V)
  BY <1>4, <1>5, FollowsTwice
<1>7. V.clients = U.clients /\ V.detached = U.detached /\ V.panes = U.panes
  <2>1. IsStore(U)
    BY <1>4 DEF Follows, Sound
  <2>2. V = [U EXCEPT !.dirty = FALSE]
    OBVIOUS
  <2> HIDE DEF V
  <2>3. QED
    BY <2>1, <2>2, StoreFacts
<1> HIDE DEF V
<1>8. QED
  BY <1>1, <1>3, <1>4, <1>6, <1>7 DEF s

\* A client is removed: its session, or the one it was reattaching, is detached.
LEMMA LostFacts ==
  ASSUME Sound(store), NEW c, Lost(c)
  PROVE  /\ Follows(store, store')
         /\ c \in DOMAIN store.clients
         /\ DOMAIN store'.clients = DOMAIN store.clients \ {c}
         /\ \A d \in DOMAIN store.clients \ {c} :
              /\ store'.clients[d].session = store.clients[d].session
              /\ store'.clients[d].pending = store.clients[d].pending
         /\ DOMAIN store'.detached
              \subseteq DOMAIN store.detached \union {store.clients[c].session}
         /\ store.clients[c].pending = NoSession =>
              /\ DOMAIN store'.panes = DOMAIN store.panes
              /\ \A p \in Mine(store, c) : store.clients[c].panes # {} =>
                   /\ store'.panes[p].session = store.clients[c].session
                   /\ store.clients[c].session \in DOMAIN store'.detached
                   /\ p \in store'.detached[store.clients[c].session].panes
<1> DEFINE r == store.clients[c]
           s == store.clients[c].session
<1>1. c \in DOMAIN store.clients /\ IsStore(store)
  BY DEF Lost, Live, Sound
<1>2. /\ s \in Sessions /\ (r.pending # NoSession => r.pending \in Sessions)
  BY <1>1, StoreFacts DEF Client
<1>3. CASE r.pending # NoSession
  <2> DEFINE U == Gone(Cancelled(store, c, r.pending), c)
  <2>1. store' = U
    BY <1>3 DEF Lost
  <2>2. LetsGo(store, U, c) /\ U.detached = store.detached
    BY <1>1, <1>2, <1>3, CancelledLetsGo
  <2> HIDE DEF U
  <2>3. Follows(store, U)
    BY <2>2, LetsGoFollows
  <2>4. QED
    BY <1>1, <1>3, <2>1, <2>2, <2>3 DEF LetsGo
<1>4. CASE r.pending = NoSession /\ r.panes = {}
  <2> DEFINE U == Gone(store, c)
  <2>1. store' = U
    BY <1>4 DEF Lost
  <2>2. LetsGo(store, U, c) /\ U.detached = store.detached /\ U.panes = store.panes
    BY <1>1, GoneLetsGo, GoneFacts
  <2> HIDE DEF U
  <2>3. Follows(store, U)
    BY <2>2, LetsGoFollows
  <2>4. QED
    BY <1>1, <1>4, <2>1, <2>2, <2>3 DEF LetsGo
<1>5. CASE r.pending = NoSession /\ r.panes # {}
  <2> DEFINE U == Stolen(store, c, s)
  <2>1. store' = U
    BY <1>5 DEF Lost, Stolen
  <2> HIDE DEF s
  <2>2. /\ Follows(store, U)
        /\ DOMAIN U.clients = DOMAIN store.clients \ {c}
        /\ \A d \in DOMAIN store.clients \ {c} : U.clients[d] = store.clients[d]
        /\ DOMAIN U.detached = DOMAIN store.detached \union {s}
        /\ DOMAIN U.panes = DOMAIN store.panes
        /\ \A p \in Mine(store, c) : U.panes[p].session = s /\ p \in U.detached[s].panes
    BY <1>1, <1>2, StolenFacts
  <2> HIDE DEF U
  <2>3. QED
    BY <1>1, <2>1, <2>2 DEF s
<1>6. QED
  BY <1>3, <1>4, <1>5

\* Shutdown: the client is gone, and no session becomes detached.
LEMMA ShutdownFacts ==
  ASSUME Sound(store), NEW c, NEW preserve, Shutdown(c, preserve)
  PROVE  /\ Follows(store, store')
         /\ c \in DOMAIN store.clients
         /\ DOMAIN store'.clients = DOMAIN store.clients \ {c}
         /\ \A d \in DOMAIN store.clients \ {c} :
              /\ store'.clients[d].session = store.clients[d].session
              /\ store'.clients[d].pending = store.clients[d].pending
         /\ DOMAIN store'.detached = DOMAIN store.detached
<1> DEFINE spare == IF preserve THEN Keyed ELSE {}
           U == Dirty(Gone(Collected(store, c, spare), c))
<1>1. c \in DOMAIN store.clients /\ IsStore(store) /\ store' = U
  BY DEF Shutdown, Live, Sound
<1> HIDE DEF spare
<1>2. LetsGo(store, U, c) /\ DOMAIN U.detached = DOMAIN store.detached
  BY <1>1, CollectedLetsGo
<1> HIDE DEF U
<1>3. Follows(store, U)
  BY <1>2, LetsGoFollows
<1>4. QED
  BY <1>1, <1>2, <1>3 DEF LetsGo

\* A new client starts with nothing.
LEMMA RegisterKeeps ==
  ASSUME Sound(store), NEW c, NEW s \in Sessions, Register(c, s),
         c \notin DOMAIN store.clients, OwnedIn(store, c) = {}
  PROVE  /\ Sound(store') /\ store'.panes = store.panes /\ store'.detached = store.detached
         /\ DOMAIN store'.clients = DOMAIN store.clients \union {c}
         /\ \A d \in DOMAIN store.clients : store'.clients[d] = store.clients[d]
         /\ store'.clients[c].session = s /\ store'.clients[c].pending = NoSession
<1> DEFINE r == [session |-> s, pending |-> NoSession, panes |-> {}, floats |-> {}]
           clients == Put(store.clients, c, r)
           U == [store EXCEPT !.clients = clients]
<1>1. c \in Clients /\ store' = U /\ IsStore(store)
  BY DEF Register, Sound
<1>2. r \in Client /\ r.session = s /\ r.pending = NoSession /\ r.panes = {}
  BY DEF Client
<1> HIDE DEF r
<1>3. /\ IsTable(clients, Clients, Client)
      /\ DOMAIN clients = DOMAIN store.clients \union {c}
      /\ \A d \in DOMAIN store.clients : clients[d] = store.clients[d]
      /\ clients[c] = r
  BY <1>1, <1>2, StoreFacts DEF IsTable, Put
<1> HIDE DEF clients
<1>4. U = [store EXCEPT !.clients = clients]
  OBVIOUS
<1> HIDE DEF U
<1>5. /\ IsStore(U) /\ U.panes = store.panes /\ U.detached = store.detached
      /\ U.clients = clients
  BY <1>1, <1>3, <1>4, StoreFacts DEF IsStore
<1>6. \A d : OwnedIn(U, d) = OwnedIn(store, d)
  BY <1>5 DEF OwnedIn
<1>7. Lists(U) /\ Marked(U)
  BY <1>2, <1>3, <1>5, <1>6 DEF Sound, Lists, Marked
<1>8. QED
  BY <1>1, <1>2, <1>3, <1>5, <1>7 DEF Sound

\* A new pane is attached to the client that asked for it.
LEMMA CreatePaneKeeps ==
  ASSUME Sound(store), NEW c, NEW p \in Panes, CreatePane(c, p), p \notin DOMAIN store.panes
  PROVE  /\ Sound(store') /\ SameClients(store, store') /\ store'.detached = store.detached
         /\ DOMAIN store'.panes = DOMAIN store.panes \union {p}
         /\ \A q \in DOMAIN store.panes : store'.panes[q] = store.panes[q]
         /\ store'.panes[p].owner = c /\ c \in DOMAIN store.clients
<1> DEFINE n == [state |-> "attached", owner |-> c, session |-> NoSession, timed |-> FALSE]
           r == [store.clients[c] EXCEPT !.panes = @ \union {p}]
           panes == Put(store.panes, p, n)
           clients == [store.clients EXCEPT ![c] = r]
           T == [store EXCEPT !.panes = panes, !.clients = clients]
           U == Dirty(T)
<1>1. c \in DOMAIN store.clients /\ IsStore(store)
  BY DEF CreatePane, Live, Sound
<1>2. store' = U
  BY <1>1, StoreFacts DEF CreatePane
<1>3. c \in Clients /\ c # NoClient /\ c \in Nat
  BY <1>1, NoClientFacts, StoreFacts
<1>4. n \in Pane /\ n.owner = c /\ n.state = "attached"
  BY <1>3 DEF Pane, States
<1>5. store.clients[c] \in Client
  BY <1>1, StoreFacts
<1>6. /\ r \in Client /\ r.session = store.clients[c].session
      /\ r.pending = store.clients[c].pending /\ r.panes = store.clients[c].panes \union {p}
  BY <1>5 DEF Client
<1> HIDE DEF n, r
<1>7. /\ IsTable(panes, Panes, Pane) /\ DOMAIN panes = DOMAIN store.panes \union {p}
      /\ \A q \in DOMAIN store.panes : panes[q] = store.panes[q]
      /\ panes[p] = n
  BY <1>1, <1>4, StoreFacts DEF IsTable, Put
<1>8. /\ IsTable(clients, Clients, Client) /\ DOMAIN clients = DOMAIN store.clients
      /\ \A d \in DOMAIN store.clients \ {c} : clients[d] = store.clients[d]
      /\ clients[c] = r
  BY <1>1, <1>6, StoreFacts DEF IsTable
<1> HIDE DEF panes, clients
<1>9. T = [store EXCEPT !.panes = panes, !.clients = clients]
  OBVIOUS
<1> HIDE DEF T
<1>10. /\ IsStore(T) /\ T.panes = panes /\ T.clients = clients /\ T.detached = store.detached
  BY <1>1, <1>7, <1>8, <1>9, StoreFacts DEF IsStore
<1>11. /\ IsStore(U) /\ U.panes = panes /\ U.clients = clients /\ U.detached = store.detached
  BY <1>10, DirtyFacts
<1> HIDE DEF U
<1>12. \A d : OwnedIn(U, d) = IF d = c THEN OwnedIn(store, d) \union {p} ELSE OwnedIn(store, d)
  BY <1>4, <1>7, <1>11 DEF OwnedIn
<1>13. Lists(U)
  BY <1>6, <1>8, <1>11, <1>12 DEF Sound, Lists
<1>14. Marked(U)
  BY <1>3, <1>4, <1>7, <1>11 DEF Sound, Marked
<1>15. SameClients(store, U)
  BY <1>6, <1>8, <1>11 DEF SameClients
<1>16. QED
  BY <1>1, <1>2, <1>4, <1>7, <1>11, <1>13, <1>14, <1>15 DEF Sound

-----------------------------------------------------------------------------
(* Saving and starting again *)

SavedPane == [state : States, session : Sessions \union {NoSession}]

IsImage(img) == IsTable(img.panes, Panes, SavedPane) /\ IsTable(img.sessions, Sessions, Parking)

\* A set of clients that is not empty has a last one.
LEMMA LastIsOne ==
  ASSUME NEW C, C \subseteq Clients, C # {}
  PROVE  Last(C) \in C
<1> DEFINE back == {MaxClients - c : c \in C}
<1>1. back \subseteq Nat /\ back # {}
  BY SessionAssumption DEF Clients
<1>2. PICK b \in back : \A y \in back : <<y, b>> \notin OpToRel(<, Nat)
  BY <1>1, NatLessThanWellFounded, WFMin
<1>3. PICK c \in C : b = MaxClients - c
  OBVIOUS
<1>4. \A d \in C : d <= c
  <2>1. ASSUME NEW d \in C PROVE d <= c
    <3>1. MaxClients - d \in back /\ MaxClients - d \in Nat /\ b \in Nat
      BY <1>1
    <3>2. ~ (MaxClients - d < b)
      BY <1>2, <3>1 DEF OpToRel
    <3>3. QED
      BY <1>3, <3>1, <3>2, SessionAssumption DEF Clients
  <2>2. QED
    BY <2>1
<1>5. QED
  BY <1>4 DEF Last

\* What is saved is well formed and has every record of a detached session.
LEMMA ImageFacts ==
  ASSUME NEW T, IsStore(T)
  PROVE  /\ IsImage(Image(T))
         /\ DOMAIN Image(T).panes = DOMAIN T.panes
         /\ DOMAIN T.detached \subseteq DOMAIN Image(T).sessions
         /\ \A s \in DOMAIN T.detached : Image(T).sessions[s] = T.detached[s]
<1> DEFINE panes == [p \in DOMAIN T.panes |-> [state |-> T.panes[p].state,
                                               session |-> T.panes[p].session]]
           Held(s) == LET r == T.clients[Last(Holders(T, s))]
                      IN [panes |-> r.panes, floats |-> r.floats]
           sessions == [s \in DOMAIN T.detached \union {x \in Sessions : Holders(T, x) # {}} |->
                          IF s \in DOMAIN T.detached THEN T.detached[s] ELSE Held(s)]
<1>1. Image(T) = [panes |-> panes, sessions |-> sessions]
  BY DEF Image
<1>2. IsTable(panes, Panes, SavedPane) /\ DOMAIN panes = DOMAIN T.panes
  BY StoreFacts DEF IsTable, SavedPane, Pane
<1>3. ASSUME NEW s, Holders(T, s) # {}
      PROVE  Held(s) \in Parking
  <2>1. Holders(T, s) \subseteq DOMAIN T.clients
    BY DEF Holders
  <2>2. Last(Holders(T, s)) \in DOMAIN T.clients
    BY <1>3, <2>1, LastIsOne, StoreFacts
  <2>3. T.clients[Last(Holders(T, s))] \in Client
    BY <2>2, StoreFacts
  <2>4. QED
    BY <2>3 DEF Client, Parking
<1> HIDE DEF Held
<1>4. /\ IsTable(sessions, Sessions, Parking) /\ DOMAIN T.detached \subseteq DOMAIN sessions
      /\ \A s \in DOMAIN T.detached : sessions[s] = T.detached[s]
  BY <1>3, StoreFacts DEF IsTable
<1> HIDE DEF panes, sessions
<1>5. QED
  BY <1>1, <1>2, <1>4 DEF IsImage

\* Nobody is connected: no client, no owner.
Deserted(T) ==
  /\ IsStore(T) /\ DOMAIN T.clients = {}
  /\ \A p \in DOMAIN T.panes : T.panes[p].owner = NoClient /\ T.panes[p].state # "attached"

LEMMA DesertedIsSound ==
  ASSUME NEW T, Deserted(T)
  PROVE  Sound(T)
BY DEF Deserted, Sound, Lists, Marked

\* Loading finds the panes whose process lives, and every record.
LEMMA LoadedFacts ==
  ASSUME IsImage(disk)
  PROVE  /\ Deserted(Loaded)
         /\ DOMAIN Loaded.panes = {p \in DOMAIN disk.panes : Alive(p)}
         /\ Loaded.detached = disk.sessions
<1> DEFINE load(p) == [state |-> IF disk.panes[p].state = "attached" THEN Idle(p)
                                 ELSE disk.panes[p].state,
                       owner |-> NoClient, session |-> disk.panes[p].session, timed |-> TRUE]
           panes == [p \in {x \in DOMAIN disk.panes : Alive(x)} |-> load(p)]
<1>1. Loaded = [panes |-> panes, clients |-> Nothing, detached |-> disk.sessions, dirty |-> FALSE]
  BY DEF Loaded
<1>2. /\ disk.panes \in [DOMAIN disk.panes -> SavedPane] /\ DOMAIN disk.panes \subseteq Panes
      /\ IsTable(disk.sessions, Sessions, Parking)
  BY DEF IsImage, IsTable
<1>3. \A p \in DOMAIN disk.panes :
        load(p) \in Pane /\ load(p).owner = NoClient /\ load(p).state # "attached"
  <2>1. \A p : Idle(p) \in States /\ Idle(p) # "attached"
    BY DEF Idle, States
  <2>2. QED
    BY <1>2, <2>1, NoClientFacts DEF Pane, SavedPane
<1> HIDE DEF load
<1>4. /\ IsTable(panes, Panes, Pane) /\ DOMAIN panes = {p \in DOMAIN disk.panes : Alive(p)}
      /\ \A p \in DOMAIN panes : panes[p].owner = NoClient /\ panes[p].state # "attached"
  BY <1>2, <1>3 DEF IsTable
<1> HIDE DEF panes
<1>5. IsTable(Nothing, Clients, Client) /\ DOMAIN Nothing = {}
  BY DEF IsTable, Nothing
<1> HIDE DEF Loaded
<1>6. /\ Loaded.panes = panes /\ Loaded.detached = disk.sessions /\ DOMAIN Loaded.clients = {}
      /\ IsStore(Loaded)
  BY <1>1, <1>2, <1>4, <1>5 DEF IsStore
<1>7. QED
  BY <1>4, <1>6 DEF Deserted

\* Relinking stamps panes and changes no record.
LEMMA RelinkedFacts ==
  ASSUME NEW T, Deserted(T)
  PROVE  /\ Deserted(Relinked(T)) /\ DOMAIN Relinked(T).panes = DOMAIN T.panes
         /\ Relinked(T).detached = T.detached
<1> DEFINE lists(p) == {s \in DOMAIN T.detached : p \in T.detached[s].panes}
           linked == {p \in DOMAIN T.panes : T.panes[p].session = NoSession /\ lists(p) # {}}
           back(p) == [Become(T.panes[p], "detached") EXCEPT
                         !.session = CHOOSE s \in lists(p) : TRUE, !.timed = FALSE]
           panes == [p \in DOMAIN T.panes |-> IF p \in linked THEN back(p) ELSE T.panes[p]]
           dirty == T.dirty \/ linked # {}
           U == Relinked(T)
<1>1. U = [T EXCEPT !.panes = panes, !.dirty = dirty]
  BY DEF Relinked
<1>2. IsStore(T) /\ DOMAIN T.clients = {}
  BY DEF Deserted
<1>3. ASSUME NEW p \in linked
      PROVE  back(p) \in Pane /\ back(p).owner = NoClient /\ back(p).state # "attached"
  <2> DEFINE t == CHOOSE s \in lists(p) : TRUE
  <2>1. t \in lists(p)
    OBVIOUS
  <2>2. t \in Sessions
    BY <1>2, <2>1, StoreFacts
  <2> HIDE DEF lists
  <2>3. "detached" \in States /\ T.panes[p] \in Pane
    BY <1>2, StoreFacts DEF States
  <2>4. /\ Become(T.panes[p], "detached") \in Pane
        /\ Become(T.panes[p], "detached").owner = T.panes[p].owner
        /\ Become(T.panes[p], "detached").state \in {T.panes[p].state, "detached"}
    BY <2>3, BecomeFacts
  <2>5. T.panes[p].owner = NoClient /\ T.panes[p].state # "attached"
    BY DEF Deserted
  <2>6. \A x \in Sessions, q \in Pane :
          /\ [q EXCEPT !.session = x, !.timed = FALSE] \in Pane
          /\ [q EXCEPT !.session = x, !.timed = FALSE].owner = q.owner
          /\ [q EXCEPT !.session = x, !.timed = FALSE].state = q.state
    BY DEF Pane
  <2> DEFINE q == Become(T.panes[p], "detached")
  <2>7. q \in Pane /\ q.owner = NoClient /\ q.state # "attached"
    BY <2>4, <2>5
  <2>8. back(p) = [q EXCEPT !.session = t, !.timed = FALSE]
    OBVIOUS
  <2> HIDE DEF t, back, q
  <2>9. QED
    BY <2>2, <2>6, <2>7, <2>8
<1> HIDE DEF back, linked
<1>4. /\ IsTable(panes, Panes, Pane) /\ DOMAIN panes = DOMAIN T.panes
      /\ \A p \in DOMAIN T.panes : panes[p].owner = NoClient /\ panes[p].state # "attached"
  BY <1>2, <1>3, StoreFacts DEF IsTable, Deserted
<1>5. dirty \in BOOLEAN
  BY <1>2, StoreFacts
<1> HIDE DEF panes, dirty, U
<1>6. /\ IsStore(U) /\ U.panes = panes /\ U.detached = T.detached /\ U.clients = T.clients
  BY <1>1, <1>2, <1>4, <1>5, StoreFacts DEF IsStore
<1>7. QED
  BY <1>2, <1>4, <1>6 DEF Deserted, U

\* Rolling back drops the half-done sessions and no other.
LEMMA RolledBackFacts ==
  ASSUME NEW T, NEW lg, Deserted(T)
  PROVE  /\ Deserted(RolledBack(T, lg)) /\ DOMAIN RolledBack(T, lg).panes = DOMAIN T.panes
         /\ DOMAIN RolledBack(T, lg).detached = DOMAIN T.detached \ HalfDone(lg)
         /\ \A s \in DOMAIN T.detached \ HalfDone(lg) :
              RolledBack(T, lg).detached[s] = T.detached[s]
<1> DEFINE half == HalfDone(lg)
           listed == UNION {T.detached[s].panes : s \in half \intersect DOMAIN T.detached}
           bare(p) == [T.panes[p] EXCEPT !.session = NoSession]
           free(p) == [Become(T.panes[p], "orphaned") EXCEPT !.session = NoSession]
           panes == [p \in DOMAIN T.panes |->
                       IF p \in listed THEN bare(p)
                       ELSE IF T.panes[p].session \in half THEN free(p) ELSE T.panes[p]]
           detached == [s \in DOMAIN T.detached \ half |-> T.detached[s]]
           dirty == T.dirty \/ lg # NoLog
           U == RolledBack(T, lg)
<1>1. U = [T EXCEPT !.panes = panes, !.detached = detached, !.dirty = dirty]
  BY DEF RolledBack, Restrict
<1>2. IsStore(T) /\ DOMAIN T.clients = {}
  BY DEF Deserted
<1>3. ASSUME NEW p \in DOMAIN T.panes
      PROVE  /\ bare(p) \in Pane /\ bare(p).owner = NoClient /\ bare(p).state # "attached"
             /\ free(p) \in Pane /\ free(p).owner = NoClient /\ free(p).state # "attached"
  <2>1. "orphaned" \in States /\ T.panes[p] \in Pane
    BY <1>2, StoreFacts DEF States
  <2>2. /\ Become(T.panes[p], "orphaned") \in Pane
        /\ Become(T.panes[p], "orphaned").owner = T.panes[p].owner
        /\ Become(T.panes[p], "orphaned").state \in {T.panes[p].state, "orphaned"}
    BY <2>1, BecomeFacts
  <2>3. T.panes[p].owner = NoClient /\ T.panes[p].state # "attached"
    BY DEF Deserted
  <2>4. QED
    BY <2>1, <2>2, <2>3 DEF Pane
<1> HIDE DEF bare, free, listed
<1>4. /\ IsTable(panes, Panes, Pane) /\ DOMAIN panes = DOMAIN T.panes
      /\ \A p \in DOMAIN T.panes : panes[p].owner = NoClient /\ panes[p].state # "attached"
  BY <1>2, <1>3, StoreFacts DEF IsTable, Deserted
<1>5. /\ IsTable(detached, Sessions, Parking) /\ DOMAIN detached = DOMAIN T.detached \ half
      /\ \A s \in DOMAIN T.detached \ half : detached[s] = T.detached[s]
  BY <1>2, StoreFacts DEF IsTable
<1>6. dirty \in BOOLEAN
  BY <1>2, StoreFacts
<1> HIDE DEF panes, detached, dirty, U, half
<1>7. /\ IsStore(U) /\ U.panes = panes /\ U.detached = detached /\ U.clients = T.clients
  BY <1>1, <1>2, <1>4, <1>5, <1>6, StoreFacts DEF IsStore
<1>8. QED
  BY <1>2, <1>4, <1>5, <1>7 DEF Deserted, U, half

\* Sweeping keeps every record that lists a pane of the table.
LEMMA SweptFacts ==
  ASSUME NEW T, Deserted(T)
  PROVE  /\ Deserted(Swept(T)) /\ Swept(T).panes = T.panes
         /\ DOMAIN Swept(T).detached \subseteq DOMAIN T.detached
         /\ \A s \in DOMAIN Swept(T).detached : Swept(T).detached[s] = T.detached[s]
         /\ \A s \in DOMAIN T.detached : \A p \in T.detached[s].panes \intersect DOMAIN T.panes :
              s \in DOMAIN Swept(T).detached /\ Swept(T).detached[s] = T.detached[s]
<1> DEFINE dead == {s \in DOMAIN T.detached :
                      \A p \in T.detached[s].panes : p \notin DOMAIN T.panes}
           detached == [s \in DOMAIN T.detached \ dead |-> T.detached[s]]
           dirty == T.dirty \/ dead # {}
           U == Swept(T)
<1>1. U = [T EXCEPT !.detached = detached, !.dirty = dirty]
  BY DEF Swept, Restrict
<1>2. IsStore(T) /\ DOMAIN T.clients = {}
  BY DEF Deserted
<1>3. /\ IsTable(detached, Sessions, Parking) /\ DOMAIN detached \subseteq DOMAIN T.detached
      /\ \A s \in DOMAIN detached : detached[s] = T.detached[s]
      /\ \A s \in DOMAIN T.detached : \A p \in T.detached[s].panes \intersect DOMAIN T.panes :
           s \in DOMAIN detached /\ detached[s] = T.detached[s]
  BY <1>2, StoreFacts DEF IsTable
<1>4. dirty \in BOOLEAN
  BY <1>2, StoreFacts
<1> HIDE DEF detached, dirty, U
<1>5. /\ IsStore(U) /\ U.panes = T.panes /\ U.detached = detached /\ U.clients = T.clients
  BY <1>1, <1>2, <1>3, <1>4, StoreFacts DEF IsStore
<1>6. QED
  BY <1>2, <1>3, <1>5 DEF Deserted, U

\* What a restart from the state file makes of it, read with the log lg.
LEMMA RestartedFacts ==
  ASSUME NEW lg, IsImage(disk), NEW U, U = Swept(RolledBack(Relinked(Loaded), lg))
  PROVE  /\ Deserted(U)
         /\ DOMAIN U.panes = {p \in DOMAIN disk.panes : Alive(p)}
         /\ \A s \in DOMAIN disk.sessions \ HalfDone(lg) :
              \A p \in disk.sessions[s].panes \intersect DOMAIN U.panes :
                s \in DOMAIN U.detached /\ U.detached[s] = disk.sessions[s]
<1> DEFINE R == Relinked(Loaded)
           B == RolledBack(R, lg)
<1>1. /\ Deserted(Loaded) /\ DOMAIN Loaded.panes = {p \in DOMAIN disk.panes : Alive(p)}
      /\ Loaded.detached = disk.sessions
  BY LoadedFacts
<1>2. Deserted(R) /\ DOMAIN R.panes = DOMAIN Loaded.panes /\ R.detached = Loaded.detached
  BY <1>1, RelinkedFacts
<1> HIDE DEF R
<1>3. /\ Deserted(B) /\ DOMAIN B.panes = DOMAIN R.panes
      /\ DOMAIN B.detached = DOMAIN R.detached \ HalfDone(lg)
      /\ \A s \in DOMAIN R.detached \ HalfDone(lg) : B.detached[s] = R.detached[s]
  BY <1>2, RolledBackFacts
<1> HIDE DEF B
<1>4. U = Swept(B)
  BY DEF B, R
<1>5. /\ Deserted(Swept(B)) /\ Swept(B).panes = B.panes
      /\ \A s \in DOMAIN B.detached : \A p \in B.detached[s].panes \intersect DOMAIN B.panes :
           s \in DOMAIN Swept(B).detached /\ Swept(B).detached[s] = B.detached[s]
  BY <1>3, SweptFacts
<1>6. QED
  BY <1>1, <1>2, <1>3, <1>4, <1>5

-----------------------------------------------------------------------------
(* The invariant *)

\* A pane in the table has a process, or had one; ids are given once.
Known ==
  /\ \A p \in DOMAIN store.panes : pods[p] # "new" /\ store.panes[p].owner < nextId
  /\ \A c \in DOMAIN store.clients : c < nextId

Typed ==
  /\ nextId \in 1 .. MaxClients + 1
  /\ locks \in [Sessions -> Clients \union {NoClient}]
  /\ log \in [Sessions -> {"none", "reattach"}]
  /\ IsImage(disk)
  /\ pods \in [Panes -> {"new", "up", "dead"}]
  /\ restarts \in 0 .. MaxRestarts

Inv == Sound(store) /\ Known /\ Typed

LEMMA InitInv == Init => Inv
<1> SUFFICES ASSUME Init PROVE Inv
  OBVIOUS
<1>1. \A S, V : IsTable(Nothing, S, V)
  BY DEF Nothing, IsTable
<1>2. DOMAIN Nothing = {}
  BY DEF Nothing
<1>3. IsStore(store) /\ DOMAIN store.panes = {} /\ DOMAIN store.clients = {}
  BY <1>1, <1>2 DEF Init, IsStore
<1>4. Sound(store) /\ Known
  BY <1>3 DEF Sound, Lists, Marked, Known
<1>5. Typed
  BY <1>1, SessionAssumption DEF Init, Typed, IsImage, NoLocks, NoLog
<1>6. QED
  BY <1>4, <1>5 DEF Inv

\* Pods only ever come up, and die.
LEMMA PodsOnlyDie ==
  ASSUME Inv,
         pods' = pods \/ Reaped \/ \E p : pods' = [pods EXCEPT ![p] = "dead"]
  PROVE  /\ pods' \in [Panes -> {"new", "up", "dead"}]
         /\ \A p \in Panes : pods[p] # "new" => pods'[p] # "new"
BY DEF Inv, Typed, Reaped

\* A step that brings in nothing new keeps panes and ids known.
LEMMA FollowsKnown ==
  ASSUME Inv, Follows(store, store'), nextId' = nextId,
         \A p \in Panes : pods[p] # "new" => pods'[p] # "new"
  PROVE  Sound(store)' /\ Known'
<1>1. DOMAIN store.panes \subseteq Panes
  BY StoreFacts DEF Inv, Sound
<1>2. 0 < nextId
  BY DEF Inv, Typed
<1>3. ASSUME NEW p \in DOMAIN store'.panes
      PROVE  pods'[p] # "new" /\ store'.panes[p].owner < nextId
  <2>1. p \in DOMAIN store.panes /\ p \in Panes
    BY <1>1 DEF Follows
  <2>2. store'.panes[p].owner \in {NoClient, store.panes[p].owner} \union DOMAIN store.clients
    BY DEF Follows
  <2>3. QED
    BY <1>2, <2>1, <2>2 DEF Inv, Known, NoClient
<1>4. \A c \in DOMAIN store'.clients : c < nextId
  BY DEF Follows, Inv, Known
<1>5. QED
  BY <1>3, <1>4 DEF Follows, Known

\* The handlers that release a lock or take one.
LEMMA UnlockedFacts ==
  ASSUME Typed, NEW c
  PROVE  Unlocked(c) \in [Sessions -> Clients \union {NoClient}]
BY DEF Typed, Unlocked

LEMMA RegisterInv ==
  ASSUME Inv, NEW c \in Clients, NEW s \in Sessions, Register(c, s)
  PROVE  Inv'
<1>1. Sound(store) /\ c = nextId /\ c \in Nat /\ nextId' = nextId + 1 /\ pods' = pods
  BY NoClientFacts DEF Inv, Register
<1>2. c \notin DOMAIN store.clients /\ OwnedIn(store, c) = {}
  BY <1>1 DEF Inv, Known, OwnedIn
<1>3. /\ Sound(store') /\ store'.panes = store.panes
      /\ DOMAIN store'.clients = DOMAIN store.clients \union {c}
  BY <1>1, <1>2, RegisterKeeps
<1>4. Known'
  <2>1. /\ DOMAIN store.clients \subseteq Nat
        /\ \A p \in DOMAIN store.panes : store.panes[p].owner \in Nat
    BY <1>1, NoClientFacts, StoreFacts DEF Sound, Pane
  <2>2. QED
    BY <1>1, <1>3, <2>1 DEF Inv, Known
<1>5. Typed'
  BY <1>1, SessionAssumption DEF Inv, Typed, Register, Clients, NoClient
<1>6. QED
  BY <1>3, <1>4, <1>5 DEF Inv

LEMMA CreatePaneInv ==
  ASSUME Inv, NEW c \in Clients, NEW p \in Panes, CreatePane(c, p)
  PROVE  Inv'
<1>1. Sound(store) /\ p \notin DOMAIN store.panes
  BY DEF Inv, Known, CreatePane
<1>2. /\ Sound(store') /\ SameClients(store, store')
      /\ DOMAIN store'.panes = DOMAIN store.panes \union {p}
      /\ \A q \in DOMAIN store.panes : store'.panes[q] = store.panes[q]
      /\ store'.panes[p].owner = c /\ c \in DOMAIN store.clients
  BY <1>1, CreatePaneKeeps
<1>3. pods' = [pods EXCEPT ![p] = "up"] /\ nextId' = nextId
  BY DEF CreatePane
<1>4. DOMAIN store.panes \subseteq Panes
  BY <1>1, StoreFacts DEF Sound
<1>5. Known'
  BY <1>2, <1>3, <1>4 DEF Inv, Known, Typed, SameClients
<1>6. Typed'
  BY <1>3 DEF Inv, Typed, CreatePane
<1>7. QED
  BY <1>2, <1>5, <1>6 DEF Inv

LEMMA ReattachInv ==
  ASSUME Inv, NEW c \in Clients, NEW s \in Sessions, Reattach(c, s)
  PROVE  Inv'
<1>1. Follows(store, store')
  BY ReattachFollows DEF Inv
<1>2. Sound(store)' /\ Known'
  BY <1>1, PodsOnlyDie, FollowsKnown DEF Reattach
<1>3. ASSUME NEW T, NEW lk \in [Sessions -> Clients \union {NoClient}],
             CompleteReattach(T, lk, c, s)
      PROVE  /\ locks' \in [Sessions -> Clients \union {NoClient}]
             /\ log' \in [Sessions -> {"none", "reattach"}]
  <2>1. locks' = lk \/ locks' = [lk EXCEPT ![s] = c]
    BY <1>3, CompleteReattachCases
  <2>2. log' = [log EXCEPT ![s] = "reattach"]
    BY <1>3 DEF CompleteReattach
  <2>3. QED
    BY <2>1, <2>2 DEF Inv, Typed
<1>4. /\ locks' \in [Sessions -> Clients \union {NoClient}]
      /\ log' \in [Sessions -> {"none", "reattach"}]
  <2>1. Reattached(c, s)
    BY ReattachIsReattached
  <2>2. locks \in [Sessions -> Clients \union {NoClient}] /\ Typed
    BY DEF Inv, Typed
  <2>3. QED
    BY <1>3, <2>1, <2>2, UnlockedFacts DEF Reattached
<1>5. pods' \in [Panes -> {"new", "up", "dead"}]
  BY PodsOnlyDie DEF Reattach
<1>6. Typed'
  BY <1>4, <1>5 DEF Inv, Typed, Reattach
<1>7. QED
  BY <1>2, <1>6 DEF Inv

LEMMA DetachInv ==
  ASSUME Inv, NEW c, Detach(c)
  PROVE  Inv'
<1>1. Follows(store, store')
  BY DetachFacts DEF Inv
<1>2. Sound(store)' /\ Known'
  BY <1>1, PodsOnlyDie, FollowsKnown DEF Detach
<1> DEFINE s == store.clients[c].session
           left == Gone(Detached(store, c, s), c)
<1>3. s \in Sessions
  BY StoreFacts DEF Detach, Live, Inv, Sound, Client
<1>4. locks' \in [Sessions -> Clients \union {NoClient}]
  BY <1>3, UnlockedFacts DEF Inv, Detach
<1>5. disk' = Image(left) \/ disk' = disk
  BY DEF Detach, Saved
<1>6. IsStore(left)
  BY <1>3, DetachedLetsGo DEF Inv, Sound, Detach, Live, LetsGo
<1> HIDE DEF left
<1>7. IsImage(disk)'
  BY <1>5, <1>6, ImageFacts DEF Inv, Typed, IsImage
<1>8. Typed'
  BY <1>4, <1>7 DEF Inv, Typed, Detach
<1>9. QED
  BY <1>2, <1>8 DEF Inv

LEMMA SaveInv ==
  ASSUME Inv, Save
  PROVE  Inv'
<1>1. store' = [store EXCEPT !.dirty = FALSE] /\ disk' = Image(store)
  BY DEF Save, Saved
<1>2. Follows(store, store')
  BY <1>1, DirtyFollows DEF Inv
<1>3. Sound(store)' /\ Known'
  BY <1>2, PodsOnlyDie, FollowsKnown DEF Save
<1>4. IsImage(disk)'
  BY <1>1, ImageFacts DEF Inv, Sound, IsImage
<1>5. Typed'
  BY <1>4 DEF Inv, Typed, Save
<1>6. QED
  BY <1>3, <1>5 DEF Inv

LEMMA RestartInv ==
  ASSUME Inv, Restart
  PROVE  Inv'
<1>1. PICK lg : store' = Swept(RolledBack(Relinked(Loaded), lg))
  BY DEF Restart
<1>2. /\ Deserted(store') /\ DOMAIN store'.panes = {p \in DOMAIN disk.panes : Alive(p)}
  BY <1>1, RestartedFacts DEF Inv, Typed
<1>3. Sound(store)'
  BY <1>2, DesertedIsSound
<1>4. nextId' = 1 /\ pods' = pods
  BY DEF Restart
<1>5. Known'
  BY <1>2, <1>4 DEF Deserted, Known, Alive, NoClient
<1>6. Typed'
  BY SessionAssumption DEF Inv, Typed, Restart, NoLocks, NoLog
<1>7. QED
  BY <1>3, <1>5, <1>6 DEF Inv

LEMMA NextInv == Inv /\ [Next]_vars => Inv'
<1> SUFFICES ASSUME Inv, [Next]_vars PROVE Inv'
  OBVIOUS
<1>1. Sound(store)
  BY DEF Inv
<1>2. ASSUME Follows(store, store'), nextId' = nextId, UNCHANGED <<disk, restarts>>,
             pods' = pods \/ Reaped,
             locks' = locks \/ (\E c : locks' = Unlocked(c))
               \/ (\E s \in Sessions : locks' = [locks EXCEPT ![s] = NoClient]),
             log' = log \/ \E s \in Sessions : log' = [log EXCEPT ![s] = "none"]
      PROVE  Inv'
  <2>1. pods' \in [Panes -> {"new", "up", "dead"}] /\ Sound(store)' /\ Known'
    BY <1>2, PodsOnlyDie, FollowsKnown
  <2>2. Typed'
    BY <1>2, <2>1, UnlockedFacts DEF Inv, Typed
  <2>3. QED
    BY <2>1, <2>2 DEF Inv
<1>3. ASSUME NEW c \in Clients, NEW p \in Panes, SyncFloat(c, p) PROVE Inv'
  BY <1>1, <1>2, <1>3, SyncFloatFollows DEF SyncFloat
<1>4. ASSUME NEW c \in Clients, NEW p \in Panes, NEW free \in BOOLEAN, TakeSticky(c, p, free)
      PROVE  Inv'
  BY <1>1, <1>2, <1>4, TakeStickyFollows DEF TakeSticky
<1>5. ASSUME NEW c \in Clients, NEW p \in Panes, Adopt(c, p) PROVE Inv'
  BY <1>1, <1>2, <1>5, AdoptFollows DEF Adopt
<1>6. ASSUME NEW c \in Clients, Commit(c) PROVE Inv'
  <2>1. store.clients[c].pending \in Sessions
    <3>1. c \in DOMAIN store.clients /\ store.clients[c].pending # NoSession
      BY <1>6 DEF Commit, Live
    <3>2. store.clients[c] \in Client
      BY <1>1, <3>1, StoreFacts DEF Sound
    <3>3. QED
      BY <3>1, <3>2 DEF Client
  <2>2. Follows(store, store')
    BY <1>1, <1>6, CommitFacts
  <2>3. QED
    BY <1>2, <1>6, <2>1, <2>2 DEF Commit
<1>7. ASSUME NEW c \in Clients, NEW p \in Panes, Suspend(c, p) PROVE Inv'
  BY <1>1, <1>2, <1>7, SuspendFollows DEF Suspend
<1>8. ASSUME NEW c \in Clients, NEW p \in Panes, KillPane(c, p) PROVE Inv'
  BY <1>1, <1>2, <1>8, KillFollows DEF KillPane
<1>9. ASSUME NEW c \in Clients, Lost(c) PROVE Inv'
  <2>1. Follows(store, store') /\ c \in DOMAIN store.clients
    BY <1>1, <1>9, LostFacts
  <2>2. store.clients[c].session \in Sessions
    BY <1>1, <2>1, StoreFacts DEF Sound, Client
  <2>3. log' = log \/ log' = [log EXCEPT ![store.clients[c].session] = "none"]
    BY <1>9 DEF Lost, DetachLogged
  <2>4. QED
    BY <1>2, <1>9, <2>1, <2>2, <2>3 DEF Lost
<1>10. ASSUME NEW c \in Clients, NEW preserve \in BOOLEAN, Shutdown(c, preserve) PROVE Inv'
  BY <1>1, <1>2, <1>10, ShutdownFacts DEF Shutdown
<1>11. ASSUME NEW p \in Panes, PodDies(p) PROVE Inv'
  <2>1. Follows(store, store')
    BY <1>1, <1>11 DEF PodDies, Follows
  <2>2. /\ pods' \in [Panes -> {"new", "up", "dead"}] /\ Sound(store)' /\ Known'
    BY <1>11, <2>1, PodsOnlyDie, FollowsKnown DEF PodDies
  <2>3. QED
    BY <1>11, <2>2 DEF Inv, Typed, PodDies
<1>12. ASSUME NEW p \in Panes, PodExit(p) PROVE Inv'
  BY <1>1, <1>2, <1>12, KillFollows DEF PodExit
<1>13. ASSUME NEW p \in Panes, Sweep(p) PROVE Inv'
  BY <1>1, <1>2, <1>13, KillFollows DEF Sweep
<1>14. ASSUME NEW s \in Sessions, KillSession(s) PROVE Inv'
  BY <1>1, <1>2, <1>14, KillSessionFollows DEF KillSession
<1>15. CASE KillOrphans
  <2> DEFINE idle == {p \in DOMAIN store.panes : store.panes[p].state \in {"orphaned", "sticky"}}
  <2>1. store' = Killed(store, idle)
    BY <1>15 DEF KillOrphans
  <2>2. QED
    BY <1>1, <1>2, <1>15, <2>1, KillFollows DEF KillOrphans
<1>16. CASE UNCHANGED vars
  BY <1>16 DEF vars, Inv, Sound, Known, Typed, IsStore, Lists, Marked, OwnedIn, IsImage
<1>17. QED
  BY <1>3, <1>4, <1>5, <1>6, <1>7, <1>8, <1>9, <1>10, <1>11, <1>12, <1>13, <1>14, <1>15,
     <1>16, RegisterInv, CreatePaneInv, ReattachInv, DetachInv, SaveInv, RestartInv DEF Next

\* The invariant holds in every reachable state.
LEMMA InvHolds == Spec => []Inv
BY InitInv, NextInv, PTL DEF Spec

-----------------------------------------------------------------------------
(* What it says *)

LEMMA TableMaps ==
  ASSUME NEW f, NEW S, NEW V, IsTable(f, S, V)
  PROVE  Maps(f, S, V)
BY DEF IsTable, Maps

\* Every reachable state of the store, the locks, the log and the state file is
\* well typed, for any panes, sessions, clients, restarts and hazards.
THEOREM TypeCorrect == Spec => []TypeOK
<1>1. Inv => TypeOK
  BY TableMaps DEF Inv, Sound, IsStore, Typed, IsImage, TypeOK, SavedPane
<1>2. QED
  BY <1>1, InvHolds, PTL

\* A client's list of panes names exactly the panes it owns: no steal, adoption,
\* orphaning or kill lets the two tables of SES drift apart.
THEOREM ListsAlwaysAgree == Spec => []ListsAgree
<1>1. Inv => ListsAgree
  BY DEF Inv, Sound, Lists, OwnedIn, ListsAgree, Owned, Live
<1>2. QED
  BY <1>1, InvHolds, PTL

\* A pane is "attached" exactly while it has an owner, although invalid
\* transitions of its state are ignored while the owner is set beside it.
THEOREM StateAlwaysMatchesOwner == Spec => []StateMatchesOwner
<1>1. Inv => StateMatchesOwner
  BY DEF Inv, Sound, Marked, StateMatchesOwner
<1>2. QED
  BY <1>1, InvHolds, PTL
=============================================================================
