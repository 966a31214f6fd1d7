-------------------------- MODULE InputPathProofs --------------------------
(***************************************************************************)
(* Proofs about InputPath for every set of panes, every capacity and every *)
(* mix of faults: type correctness, that a pod never types a key twice or  *)
(* two keys in the wrong order, and what the replay ring holds; then that  *)
(* a key reaches its own pane, that the path implements the input log of   *)
(* its two ends, and that it loses nothing before the first fault.         *)
(*                                                                         *)
(* InOrder is not inductive: the pod compares a frame with the last one it *)
(* applied, and adopts any other epoch.  What makes that safe is that all  *)
(* frames in flight carry the epoch of the frontend that is attached now,  *)
(* because the streams of an earlier one die with its connections          *)
(* (InFlightCurrent), and that dedup really is the last frame applied, of  *)
(* an epoch not newer than the frontend's (DedupIsNewest).                 *)
(*                                                                         *)
(* Frames are routed by the pane id they were stamped with, so that a key  *)
(* reaches its own pane, and the input log, hold only while the ids stand: *)
(* StableIds assumes that SES does not restart.  It is not a convenience:  *)
(* persist.load gives every pane a new id, and a run of InputPath shows    *)
(* the key that goes astray.                                               *)
(***************************************************************************)
EXTENDS InputPath, TLAPS, SequenceTheorems

CurrentFrame == {f \in Frame : f.epoch = epoch}

InFlightCurrent ==
  /\ queue \in Seq(CurrentFrame)
  /\ replay \in Seq(CurrentFrame)
  /\ up \in Seq(CurrentFrame)
  /\ podq \in [Panes -> Seq(CurrentFrame)]

DedupIsNewest ==
  \A p \in Panes :
    /\ dedup[p].epoch <= epoch
    /\ \A i \in DOMAIN applied[p] :
         ~ Precedes(<<dedup[p].epoch, dedup[p].seq>>, Key(applied[p][i]))

-----------------------------------------------------------------------------
(* The queue operators keep sequences over any set of frames. *)

\* A flush writes between none and all of the frames of the queue.
LEMMA WritesInRange ==
  ASSUME NEW q, Len(q) \in Nat, NEW partial \in BOOLEAN, NEW w \in Writes(q, partial)
  PROVE  w[1] \in 0 .. Len(q) /\ w[2] \in BOOLEAN
BY DEF Writes

\* The two parts of a split queue hold frames of the queue only.
LEMMA SplitKeeps ==
  ASSUME NEW S, NEW q \in Seq(S), NEW n \in 0 .. Len(q)
  PROVE  Written(q, n) \in Seq(S) /\ Unwritten(q, n) \in Seq(S)
<1>1. Len(q) \in Nat /\ \A i \in 1 .. Len(q) : q[i] \in S
  BY LenProperties, ElementOfSeq
<1>2. Written(q, n) \in Seq(S)
  BY <1>1, SubSeqProperties DEF Written
<1>3. Unwritten(q, n) \in Seq(S)
  BY <1>1, SubSeqProperties DEF Unwritten
<1>4. QED
  BY <1>2, <1>3

\* flushToFd only moves frames from the live queue to the socket.
LEMMA FlushKeeps ==
  ASSUME NEW S, NEW q \in Seq(S), up \in Seq(S), NEW partial \in BOOLEAN,
         FlushTo(q, partial)
  PROVE  queue' \in Seq(S) /\ up' \in Seq(S) /\ headPartial' \in BOOLEAN
<1>1. CASE vtUp
  <2>1. PICK w \in Writes(q, partial) :
          /\ up' = up \o Written(q, w[1])
          /\ queue' = Unwritten(q, w[1])
          /\ headPartial' = w[2]
    BY <1>1 DEF FlushTo
  <2>2. w[1] \in 0 .. Len(q) /\ w[2] \in BOOLEAN
    BY WritesInRange, LenProperties
  <2>3. Written(q, w[1]) \in Seq(S) /\ Unwritten(q, w[1]) \in Seq(S)
    BY <2>2, SplitKeeps
  <2>4. QED
    BY <2>1, <2>2, <2>3, ConcatProperties
<1>2. CASE ~vtUp
  BY <1>2 DEF FlushTo
<1>3. QED
  BY <1>1, <1>2

\* The flush after a reconnect puts frames of the live queue on the socket.
LEMMA ReopenKeeps ==
  ASSUME NEW S, queue \in Seq(S), headPartial \in BOOLEAN, torn \in BOOLEAN, Reopened
  PROVE  /\ queue' \in Seq(S) /\ up' \in Seq(S) /\ headPartial' \in BOOLEAN
         /\ torn' \in BOOLEAN /\ vtUp' \in BOOLEAN
         /\ toMux' \in Seq(PaneIds) /\ asked' \subseteq Panes
<1>1. PICK w \in Writes(queue, headPartial) :
        /\ up' = Written(queue, w[1])
        /\ torn' = (torn \/ headPartial \/ w[2])
        /\ queue' = <<>> /\ headPartial' = FALSE
        /\ vtUp' = TRUE /\ toMux' = <<>>
        /\ asked' = Panes
  BY DEF Reopened
<1>2. w[1] \in 0 .. Len(queue) /\ w[2] \in BOOLEAN
  BY WritesInRange, LenProperties
<1>3. Written(queue, w[1]) \in Seq(S)
  BY <1>2, SplitKeeps
<1>4. QED
  BY <1>1, <1>2, <1>3, EmptySeq

\* The ring keeps to its cap and to the frames put into it.
LEMMA RetainKeeps ==
  ASSUME NEW S, NEW ring \in Seq(S), NEW f \in S
  PROVE  /\ Retained(ring, f) \in Seq(S)
         /\ Len(ring) <= ReplayCap => Len(Retained(ring, f)) <= ReplayCap
<1>0. Len(ring) \in Nat /\ ReplayCap \in Nat \ {0}
  BY LenProperties, PathAssumption DEF PathAssumption
<1>1. CASE Len(ring) < ReplayCap
  BY <1>0, <1>1, AppendProperties DEF Retained
<1>2. CASE ~(Len(ring) < ReplayCap)
  <2>1. ring # <<>>
    BY <1>0, <1>2, EmptySeq
  <2>2. Tail(ring) \in Seq(S) /\ Len(Tail(ring)) = Len(ring) - 1
    BY <2>1, HeadTailProperties
  <2>3. /\ Append(Tail(ring), f) \in Seq(S)
        /\ Len(Append(Tail(ring), f)) = Len(ring)
    BY <2>2, <1>0, AppendProperties
  <2>4. QED
    BY <2>3, <1>2 DEF Retained
<1>3. QED
  BY <1>1, <1>2

-----------------------------------------------------------------------------
(* Type correctness *)

\* What the resets put in place of the queues and connections.
LEMMA ResetTypes ==
  /\ <<>> \in Seq(Frame) /\ <<>> \in Seq(PaneIds)
  /\ Disconnected \in [Panes -> BOOLEAN]
  /\ NoFrames \in [Panes -> Seq(Frame)]
<1>1. <<>> \in Seq(Frame) /\ <<>> \in Seq(PaneIds)
  BY EmptySeq
<1>2. QED
  BY <1>1 DEF Disconnected, NoFrames

\* A part of the state that a step leaves alone keeps its types.
LEMMA TypesUnchanged ==
  /\ FrontendTypes /\ UNCHANGED frontend => FrontendTypes'
  /\ LinkTypes /\ UNCHANGED link => LinkTypes'
  /\ SesTypes /\ UNCHANGED ses => SesTypes'
  /\ PodTypes /\ UNCHANGED pod => PodTypes'
  /\ HistoryTypes /\ UNCHANGED <<typed, faults, torn>> => HistoryTypes'
BY DEF FrontendTypes, LinkTypes, SesTypes, PodTypes, HistoryTypes,
       frontend, link, ses, pod

\* SES forgetting one pod, or all of them, keeps SES's types.
LEMMA DropPodTypes ==
  ASSUME SesTypes, NEW p \in Panes, DropPod(p), UNCHANGED podId
  PROVE  SesTypes'
BY ResetTypes DEF SesTypes, DropPod

LEMMA LetGoTypes ==
  ASSUME SesTypes, podId' \in Injections(Panes, PaneIds),
         podConn' = Disconnected, podq' = NoFrames, ending' = {},
         needsReplay' \subseteq Panes
  PROVE  SesTypes'
BY ResetTypes DEF SesTypes

LEMMA UnlinkTypes ==
  ASSUME LinkTypes, Unlinked, ctlUp' \in BOOLEAN
  PROVE  LinkTypes'
BY ResetTypes DEF LinkTypes, Unlinked

LEMMA FaultTypes ==
  ASSUME HistoryTypes, NEW kind, Fault(kind), UNCHANGED <<typed, torn>>
  PROVE  HistoryTypes'
BY DEF HistoryTypes, Fault

\* Every step keeps the types.
LEMMA TypeStep ==
  ASSUME TypeOK, [Next]_vars
  PROVE  TypeOK'
<1> USE TypesUnchanged DEF TypeOK
<1>0. /\ queue \in Seq(Frame) /\ replay \in Seq(Frame) /\ up \in Seq(Frame)
      /\ toMux \in Seq(PaneIds) /\ headPartial \in BOOLEAN /\ torn \in BOOLEAN
      /\ podq \in [Panes -> Seq(Frame)] /\ applied \in [Panes -> Seq(Frame)]
      /\ Len(replay) <= ReplayCap /\ asked \subseteq Panes
      /\ podId \in Injections(Panes, PaneIds) /\ podId \in [Panes -> PaneIds]
      /\ needsReplay \subseteq Panes /\ faults \in Nat /\ epoch \in Nat
  BY DEF FrontendTypes, LinkTypes, SesTypes, PodTypes, HistoryTypes, Injections
<1>1. ASSUME NEW p \in Panes, Type(p)  PROVE TypeOK'
  <2> DEFINE f == [id |-> view[p], epoch |-> epoch, seq |-> nextSeq + 1, pane |-> p]
  <2>0. nextSeq' \in 0 .. MaxSeq
    BY <1>1, PathAssumption DEF Type, PathAssumption, FrontendTypes
  <2>1. f \in Frame /\ Key(f) \in Nat \X Nat
    BY <1>1 DEF Type, Frame, Key, FrontendTypes
  <2>2. /\ FlushTo(Append(queue, f), headPartial)
        /\ replay' = Retained(replay, f)
        /\ typed' = [typed EXCEPT ![p] = Append(@, Key(f))]
        /\ UNCHANGED <<epoch, view, asked, vtUp, ctlUp, toMux, ses, pod, faults, torn>>
    BY <1>1 DEF Type
  <2> HIDE DEF f
  <2>3. queue' \in Seq(Frame) /\ up' \in Seq(Frame) /\ headPartial' \in BOOLEAN
    <3>1. Append(queue, f) \in Seq(Frame)
      BY <1>0, <2>1, AppendProperties
    <3>2. QED
      BY <1>0, <2>2, <3>1, FlushKeeps
  <2>4. replay' \in Seq(Frame) /\ Len(replay') <= ReplayCap
    BY <1>0, <2>1, <2>2, RetainKeeps
  <2>5. HistoryTypes'
    <3>1. typed \in [Panes -> Seq(Nat \X Nat)]
      BY DEF HistoryTypes
    <3>2. Append(typed[p], Key(f)) \in Seq(Nat \X Nat)
      BY <2>1, <3>1, AppendProperties
    <3>3. QED
      BY <2>2, <3>1, <3>2 DEF HistoryTypes
  <2>6. FrontendTypes' /\ LinkTypes'
    BY <2>0, <2>2, <2>3, <2>4 DEF FrontendTypes, LinkTypes
  <2>7. QED
    BY <2>2, <2>5, <2>6
<1>2. CASE Flush
  <2>1. queue' \in Seq(Frame) /\ up' \in Seq(Frame) /\ headPartial' \in BOOLEAN
    BY <1>0, <1>2, FlushKeeps DEF Flush
  <2>2. FrontendTypes' /\ LinkTypes'
    BY <1>2, <2>1 DEF Flush, FrontendTypes, LinkTypes
  <2>3. QED
    BY <1>2, <2>2 DEF Flush
<1>3. CASE MuxBacklogEnd
  <2>1. toMux' \in Seq(PaneIds)
    BY <1>0, <1>3, HeadTailProperties DEF MuxBacklogEnd, Rebuilt
  <2>2. /\ queue' \in Seq(Frame) /\ up' \in Seq(Frame) /\ headPartial' \in BOOLEAN
        /\ asked' \subseteq Panes /\ torn' \in BOOLEAN
    <3>1. CASE FlushTo(replay, FALSE) /\ asked' \subseteq Panes /\ torn' = (torn \/ headPartial)
      BY <1>0, <3>1, FlushKeeps
    <3>2. CASE UNCHANGED <<asked, torn, queue, headPartial, up>>
      BY <1>0, <3>2
    <3>3. QED
      BY <1>0, <1>3, <3>1, <3>2 DEF MuxBacklogEnd, Rebuilt
  <2>3. FrontendTypes' /\ LinkTypes' /\ HistoryTypes'
    BY <1>3, <2>1, <2>2 DEF MuxBacklogEnd, Rebuilt, FrontendTypes, LinkTypes, HistoryTypes
  <2>4. QED
    BY <1>3, <2>3 DEF MuxBacklogEnd, Rebuilt
<1>4. CASE SesRoute
  <2>1. up # <<>> /\ up' = Tail(up)
    BY <1>4 DEF SesRoute
  <2>2. Head(up) \in Frame /\ up' \in Seq(Frame)
    BY <1>0, <2>1, HeadTailProperties
  <2>3. UNCHANGED <<frontend, vtUp, ctlUp, toMux, podId, pod, typed, torn>>
    BY <1>4 DEF SesRoute
  <2>4. CASE UNCHANGED <<podConn, podq, ending, needsReplay, faults>>
    BY <2>2, <2>3, <2>4 DEF LinkTypes, SesTypes, HistoryTypes
  <2>5. CASE \E q \in Panes : DropPod(q) /\ faults' = faults + 1
    <3>1. SesTypes' /\ HistoryTypes'
      BY <2>3, <2>5, DropPodTypes DEF HistoryTypes
    <3>2. QED
      BY <2>2, <2>3, <3>1 DEF LinkTypes
  <2>6. CASE \E q \in Panes : /\ podq' = [podq EXCEPT ![q] = Append(@, Head(up))]
                             /\ UNCHANGED <<podConn, ending, needsReplay, faults>>
    <3>1. \A q \in Panes : Append(podq[q], Head(up)) \in Seq(Frame)
      BY <1>0, <2>2, AppendProperties
    <3>2. podq' \in [Panes -> Seq(Frame)]
      BY <1>0, <2>6, <3>1
    <3>3. QED
      BY <2>2, <2>3, <2>6, <3>2 DEF LinkTypes, SesTypes, HistoryTypes
  <2>7. QED
    BY <1>4, <2>4, <2>5, <2>6 DEF SesRoute, Routed
<1>5. ASSUME NEW p \in Panes, RedialPod(p)  PROVE TypeOK'
  <2>1. SesTypes'
    BY <1>5, ResetTypes DEF RedialPod, SesTypes
  <2>2. QED
    BY <1>5, <2>1 DEF RedialPod
<1>6. ASSUME NEW p \in Panes, SesForwardEnd(p)  PROVE TypeOK'
  <2>1. toMux' \in Seq(PaneIds)
    BY <1>0, <1>6, AppendProperties DEF SesForwardEnd, Forwarded
  <2>2. LinkTypes' /\ SesTypes'
    BY <1>6, <2>1 DEF SesForwardEnd, LinkTypes, SesTypes
  <2>3. QED
    BY <1>6, <2>2 DEF SesForwardEnd
<1>7. ASSUME NEW p \in Panes, PodRead(p)  PROVE TypeOK'
  <2> DEFINE f == Head(podq[p])
  <2>1. f \in Frame /\ Tail(podq[p]) \in Seq(Frame)
    BY <1>0, <1>7, HeadTailProperties DEF PodRead
  <2>2. podq' \in [Panes -> Seq(Frame)]
    BY <1>0, <1>7, <2>1 DEF PodRead
  <2>3. \/ UNCHANGED pod
        \/ /\ dedup' = [dedup EXCEPT ![p] = [epoch |-> f.epoch, seq |-> f.seq]]
           /\ applied' = [applied EXCEPT ![p] = Append(@, f)]
    BY <1>7 DEF PodRead
  <2> HIDE DEF f
  <2>4. Append(applied[p], f) \in Seq(Frame)
    BY <1>0, <2>1, AppendProperties
  <2>5. [epoch |-> f.epoch, seq |-> f.seq] \in [epoch : Nat, seq : Nat]
    BY <2>1 DEF Frame
  <2>6. PodTypes'
    BY <2>3, <2>4, <2>5 DEF PodTypes
  <2>7. SesTypes'
    BY <1>7, <2>2 DEF PodRead, SesTypes
  <2>8. QED
    BY <1>7, <2>6, <2>7 DEF PodRead
<1>8. CASE ReconnectVtOnly
  <2>1. /\ queue' \in Seq(Frame) /\ up' \in Seq(Frame) /\ headPartial' \in BOOLEAN
        /\ torn' \in BOOLEAN /\ vtUp' \in BOOLEAN
        /\ toMux' \in Seq(PaneIds) /\ asked' \subseteq Panes
    BY <1>0, <1>8, ReopenKeeps DEF ReconnectVtOnly
  <2>2. FrontendTypes' /\ LinkTypes' /\ HistoryTypes'
    BY <1>8, <2>1 DEF ReconnectVtOnly, FrontendTypes, LinkTypes, HistoryTypes
  <2>3. QED
    BY <1>8, <2>2 DEF ReconnectVtOnly
<1>9. CASE FullReattach
  <2>1. /\ queue' \in Seq(Frame) /\ up' \in Seq(Frame) /\ headPartial' \in BOOLEAN
        /\ torn' \in BOOLEAN /\ vtUp' \in BOOLEAN
        /\ toMux' \in Seq(PaneIds) /\ asked' \subseteq Panes
    BY <1>0, <1>9, ReopenKeeps DEF FullReattach
  <2>2. view' \in [Panes -> PaneIds \union {NoId}]
    BY <1>0, <1>9 DEF FullReattach
  <2>3. FrontendTypes' /\ LinkTypes' /\ HistoryTypes'
    BY <1>9, <2>1, <2>2 DEF FullReattach, FrontendTypes, LinkTypes, HistoryTypes
  <2>4. SesTypes'
    BY <1>0, <1>9, LetGoTypes DEF FullReattach
  <2>5. QED
    BY <1>9, <2>3, <2>4 DEF FullReattach
<1>10. CASE VtLost
  <2>1. LinkTypes'
    BY <1>10, UnlinkTypes DEF VtLost, LinkTypes
  <2>2. FrontendTypes'
    <3>1. queue' \in Seq(Frame) /\ headPartial' \in BOOLEAN
      BY <1>0, <1>10, ResetTypes DEF VtLost
    <3>2. QED
      BY <1>10, <3>1 DEF VtLost, FrontendTypes
  <2>3. HistoryTypes'
    BY <1>10, FaultTypes DEF VtLost
  <2>4. QED
    BY <1>10, <2>1, <2>2, <2>3 DEF VtLost
<1>11. CASE CtlLost
  <2>1. LinkTypes' /\ HistoryTypes'
    <3>1. LinkTypes'
      BY <1>11, UnlinkTypes DEF CtlLost
    <3>2. HistoryTypes'
      BY <1>11, FaultTypes DEF CtlLost
    <3>3. QED
      BY <3>1, <3>2
  <2>2. SesTypes'
    BY <1>0, <1>11, LetGoTypes DEF CtlLost, SesLetsGo
  <2>3. QED
    BY <1>11, <2>1, <2>2 DEF CtlLost
<1>12. CASE SesRestart
  <2>1. LinkTypes' /\ HistoryTypes'
    <3>1. LinkTypes'
      BY <1>12, UnlinkTypes DEF SesRestart
    <3>2. HistoryTypes'
      BY <1>12, FaultTypes DEF SesRestart
    <3>3. QED
      BY <3>1, <3>2
  <2>2. SesTypes'
    BY <1>12, LetGoTypes DEF SesRestart
  <2>3. QED
    BY <1>12, <2>1, <2>2 DEF SesRestart
<1>13. CASE FrontendRestart
  <2>1. Len(<<>>) <= ReplayCap /\ 0 \in 0 .. MaxSeq
    BY PathAssumption DEF PathAssumption
  <2>2. FrontendTypes'
    <3>1. [q \in Panes |-> NoId] \in [Panes -> PaneIds \union {NoId}]
      OBVIOUS
    <3>2. /\ epoch' = epoch + 1 /\ nextSeq' = 0 /\ asked' = {}
          /\ queue' = <<>> /\ headPartial' = FALSE /\ replay' = <<>>
          /\ view' = [q \in Panes |-> NoId]
      BY <1>13 DEF FrontendRestart
    <3>3. epoch' \in Nat
      BY <1>0, <3>2
    <3>4. nextSeq' \in 0 .. MaxSeq /\ asked' \subseteq Panes /\ headPartial' \in BOOLEAN
      BY <2>1, <3>2
    <3>5. queue' \in Seq(Frame)
      BY <3>2, ResetTypes
    <3>6. replay' \in Seq(Frame) /\ Len(replay') <= ReplayCap
      BY <2>1, <3>2, ResetTypes
    <3>7. view' \in [Panes -> PaneIds \union {NoId}]
      BY <3>1, <3>2
    <3>8. QED
      BY <3>3, <3>4, <3>5, <3>6, <3>7 DEF FrontendTypes
  <2>3. LinkTypes' /\ HistoryTypes'
    <3>1. LinkTypes'
      BY <1>13, UnlinkTypes DEF FrontendRestart
    <3>2. HistoryTypes'
      BY <1>13, FaultTypes DEF FrontendRestart
    <3>3. QED
      BY <3>1, <3>2
  <2>4. SesTypes'
    BY <1>0, <1>13, LetGoTypes DEF FrontendRestart, SesLetsGo
  <2>5. QED
    BY <1>13, <2>2, <2>3, <2>4 DEF FrontendRestart
<1>14. ASSUME NEW p \in Panes, PodVtLost(p)  PROVE TypeOK'
  <2>1. SesTypes' /\ HistoryTypes'
    BY <1>14, DropPodTypes DEF PodVtLost, Fault, HistoryTypes
  <2>2. QED
    BY <1>14, <2>1 DEF PodVtLost
<1>15. ASSUME NEW p \in Panes, EndDropped(p)  PROVE TypeOK'
  <2>1. SesTypes' /\ HistoryTypes'
    BY <1>15 DEF EndDropped, Fault, SesTypes, HistoryTypes
  <2>2. QED
    BY <1>15, <2>1 DEF EndDropped
<1>16. ASSUME NEW p \in Panes, PtyFull(p)  PROVE TypeOK'
  <2>1. Head(podq[p]) \in Frame /\ Tail(podq[p]) \in Seq(Frame)
    BY <1>0, <1>16, HeadTailProperties DEF PtyFull
  <2>2. SesTypes'
    BY <1>0, <1>16, <2>1 DEF PtyFull, SesTypes
  <2>3. PodTypes'
    BY <1>16, <2>1 DEF PtyFull, PodTypes, Frame
  <2>4. HistoryTypes'
    BY <1>16, FaultTypes DEF PtyFull
  <2>5. QED
    BY <1>16, <2>2, <2>3, <2>4 DEF PtyFull
<1>17. CASE UNCHANGED vars
  BY <1>17 DEF vars
<1>18. QED
  BY <1>1, <1>2, <1>3, <1>4, <1>5, <1>6, <1>7, <1>8, <1>9, <1>10, <1>11, <1>12,
     <1>13, <1>14, <1>15, <1>16, <1>17 DEF Next

LEMMA TypeInit == Init => TypeOK
<1>1. SUFFICES ASSUME Init PROVE TypeOK
  OBVIOUS
<1>2. podId \in Injections(Panes, PaneIds) /\ podId \in [Panes -> PaneIds]
  BY <1>1 DEF Init, Injections
<1>3. <<>> \in Seq(Nat \X Nat)
  BY EmptySeq
<1>4. Len(<<>>) <= ReplayCap /\ 0 \in 0 .. MaxSeq
  BY PathAssumption DEF PathAssumption
<1>5. QED
  BY <1>1, <1>2, <1>3, <1>4, ResetTypes
  DEF Init, TypeOK, FrontendTypes, LinkTypes, SesTypes, PodTypes, HistoryTypes

\* Every variable keeps to its type through every operation, reconnect and
\* restart; in particular the replay ring never outgrows its cap.
THEOREM TypeCorrect == Spec => []TypeOK
<1>1. TypeOK /\ [Next]_vars => TypeOK'
  BY TypeStep
<1>2. QED
  BY TypeInit, <1>1, PTL DEF Spec

-----------------------------------------------------------------------------
(* No key twice, no two keys in the wrong order *)

\* While no other frontend takes over, the frames of this one stay current.
LEMMA CurrentStays == UNCHANGED epoch => CurrentFrame' = CurrentFrame
BY DEF CurrentFrame, Frame

\* Dropping streams leaves only current frames.
LEMMA CurrentReset ==
  <<>> \in Seq(CurrentFrame) /\ NoFrames \in [Panes -> Seq(CurrentFrame)]
<1>1. <<>> \in Seq(CurrentFrame)
  BY EmptySeq
<1>2. QED
  BY <1>1 DEF NoFrames

\* Every step keeps all frames in flight at the epoch of the frontend.
LEMMA InFlightStep ==
  ASSUME TypeOK, InFlightCurrent, [Next]_vars
  PROVE  InFlightCurrent'
<1>0. /\ queue \in Seq(CurrentFrame) /\ replay \in Seq(CurrentFrame)
      /\ up \in Seq(CurrentFrame) /\ podq \in [Panes -> Seq(CurrentFrame)]
      /\ headPartial \in BOOLEAN /\ torn \in BOOLEAN
  BY DEF InFlightCurrent, TypeOK, FrontendTypes, HistoryTypes
<1>1. ASSUME NEW p \in Panes, Type(p)  PROVE InFlightCurrent'
  <2> DEFINE f == [id |-> view[p], epoch |-> epoch, seq |-> nextSeq + 1, pane |-> p]
  <2>1. f \in CurrentFrame
    BY <1>1 DEF Type, CurrentFrame, Frame, TypeOK, FrontendTypes
  <2>2. /\ FlushTo(Append(queue, f), headPartial)
        /\ replay' = Retained(replay, f)
        /\ UNCHANGED <<epoch, podq>>
    BY <1>1 DEF Type, ses
  <2> HIDE DEF f
  <2>3. Append(queue, f) \in Seq(CurrentFrame)
    BY <1>0, <2>1, AppendProperties
  <2>4. queue' \in Seq(CurrentFrame) /\ up' \in Seq(CurrentFrame)
    BY <1>0, <2>2, <2>3, FlushKeeps
  <2>5. replay' \in Seq(CurrentFrame)
    BY <1>0, <2>1, <2>2, RetainKeeps
  <2>6. QED
    BY <1>0, <2>2, <2>4, <2>5, CurrentStays DEF InFlightCurrent
<1>2. CASE Flush
  <2>1. queue' \in Seq(CurrentFrame) /\ up' \in Seq(CurrentFrame)
    BY <1>0, <1>2, FlushKeeps DEF Flush
  <2>2. QED
    BY <1>0, <1>2, <2>1, CurrentStays DEF Flush, InFlightCurrent, ses
<1>3. CASE MuxBacklogEnd
  <2>1. queue' \in Seq(CurrentFrame) /\ up' \in Seq(CurrentFrame)
    <3>1. CASE FlushTo(replay, FALSE)
      BY <1>0, <3>1, FlushKeeps
    <3>2. CASE UNCHANGED <<queue, up>>
      BY <1>0, <3>2
    <3>3. QED
      BY <1>3, <3>1, <3>2 DEF MuxBacklogEnd, Rebuilt
  <2>2. QED
    BY <1>0, <1>3, <2>1, CurrentStays DEF MuxBacklogEnd, Rebuilt, InFlightCurrent, ses
<1>4. CASE SesRoute
  <2>1. up # <<>> /\ up' = Tail(up) /\ UNCHANGED <<epoch, queue, replay>>
    BY <1>4 DEF SesRoute, frontend
  <2>2. Head(up) \in CurrentFrame /\ up' \in Seq(CurrentFrame)
    BY <1>0, <2>1, HeadTailProperties
  <2>3. podq' \in [Panes -> Seq(CurrentFrame)]
    <3>1. \A q \in Panes : Append(podq[q], Head(up)) \in Seq(CurrentFrame)
      BY <1>0, <2>2, AppendProperties
    <3>2. \/ podq' = podq
          \/ \E q \in Panes : podq' = [podq EXCEPT ![q] = Append(@, Head(up))]
          \/ \E q \in Panes : podq' = [podq EXCEPT ![q] = <<>>]
      BY <1>4 DEF SesRoute, Routed, DropPod
    <3>3. QED
      BY <1>0, <3>1, <3>2, CurrentReset
  <2>4. QED
    BY <1>0, <2>1, <2>2, <2>3, CurrentStays DEF InFlightCurrent
<1>5. ASSUME NEW p \in Panes, podq' = [podq EXCEPT ![p] = <<>>],
             UNCHANGED <<epoch, queue, replay, up>>
      PROVE  InFlightCurrent'
  BY <1>0, <1>5, CurrentReset, CurrentStays DEF InFlightCurrent
<1>6. ASSUME NEW p \in Panes, PodRead(p) \/ PtyFull(p)  PROVE InFlightCurrent'
  <2>1. Tail(podq[p]) \in Seq(CurrentFrame)
    BY <1>0, <1>6, HeadTailProperties DEF PodRead, PtyFull
  <2>2. podq' \in [Panes -> Seq(CurrentFrame)]
    BY <1>0, <1>6, <2>1 DEF PodRead, PtyFull
  <2>3. QED
    BY <1>0, <1>6, <2>2, CurrentStays DEF PodRead, PtyFull, InFlightCurrent, frontend, link
<1>7. CASE ReconnectVtOnly
  <2>1. queue' \in Seq(CurrentFrame) /\ up' \in Seq(CurrentFrame)
    BY <1>0, <1>7, ReopenKeeps DEF ReconnectVtOnly
  <2>2. QED
    BY <1>0, <1>7, <2>1, CurrentStays DEF ReconnectVtOnly, InFlightCurrent, ses
<1>8. CASE FullReattach
  <2>1. queue' \in Seq(CurrentFrame) /\ up' \in Seq(CurrentFrame)
    BY <1>0, <1>8, ReopenKeeps DEF FullReattach
  <2>2. QED
    BY <1>0, <1>8, <2>1, CurrentStays, CurrentReset DEF FullReattach, InFlightCurrent
<1>9. CASE VtLost
  BY <1>0, <1>9, CurrentStays, CurrentReset DEF VtLost, Unlinked, InFlightCurrent, ses
<1>10. ASSUME podq' = NoFrames, up' = <<>>, UNCHANGED <<epoch, queue, replay>>
       PROVE  InFlightCurrent'
  BY <1>0, <1>10, CurrentStays, CurrentReset DEF InFlightCurrent
<1>11. CASE FrontendRestart
  <2>1. /\ queue' = <<>> /\ replay' = <<>> /\ up' = <<>> /\ podq' = NoFrames
    BY <1>11 DEF FrontendRestart, Unlinked, SesLetsGo
  <2>2. <<>> \in Seq(CurrentFrame') /\ NoFrames \in [Panes -> Seq(CurrentFrame')]
    <3>1. <<>> \in Seq(CurrentFrame')
      BY EmptySeq
    <3>2. QED
      BY <3>1 DEF NoFrames
  <2>3. QED
    BY <2>1, <2>2 DEF InFlightCurrent
<1>12. CASE UNCHANGED <<epoch, queue, replay, up, podq>>
  BY <1>0, <1>12, CurrentStays DEF InFlightCurrent
<1>13. ASSUME NEW p \in Panes,
              RedialPod(p) \/ PodVtLost(p) \/ SesForwardEnd(p) \/ EndDropped(p)
       PROVE  InFlightCurrent'
  BY <1>5, <1>12, <1>13
     DEF RedialPod, PodVtLost, DropPod, SesForwardEnd, Forwarded, EndDropped, frontend, link
<1>14. CASE CtlLost \/ SesRestart
  BY <1>10, <1>14 DEF CtlLost, SesRestart, SesLetsGo, Unlinked, frontend
<1>15. CASE UNCHANGED vars
  BY <1>12, <1>15 DEF vars, frontend, link, ses
<1>16. QED
  BY <1>1, <1>2, <1>3, <1>4, <1>6, <1>7, <1>8, <1>9, <1>11, <1>13, <1>14, <1>15
     DEF Next

\* dedup follows the frames applied, and the frames applied are in order.
AppliedOrder == DedupIsNewest /\ InOrder

\* The pod applies a current frame that its filter accepts, which is later
\* than the last one it applied and so than all before it.
LEMMA ReadKeepsOrder ==
  ASSUME TypeOK, InFlightCurrent, AppliedOrder, NEW p \in Panes, PodRead(p)
  PROVE  AppliedOrder'
<1> DEFINE f == Head(podq[p])
           d == dedup[p]
<1>1. podq[p] \in Seq(CurrentFrame) /\ podq[p] # <<>>
  BY DEF InFlightCurrent, PodRead
<1>2. f \in Frame /\ f.epoch = epoch
  <2>1. f \in CurrentFrame
    BY <1>1, HeadTailProperties
  <2>2. QED
    BY <2>1 DEF CurrentFrame
<1>3. /\ applied \in [Panes -> Seq(Frame)]
      /\ dedup \in [Panes -> [epoch : Nat, seq : Nat]] /\ epoch \in Nat
  BY DEF TypeOK, PodTypes, FrontendTypes
<1>4. UNCHANGED epoch
  BY DEF PodRead, frontend
<1>5. CASE ~Accepts(d, f)
  <2>1. UNCHANGED <<dedup, applied>>
    BY <1>5 DEF PodRead, pod
  <2>2. QED
    BY <1>4, <2>1 DEF AppliedOrder, DedupIsNewest, InOrder
<1>6. CASE Accepts(d, f)
  <2>1. /\ dedup' = [dedup EXCEPT ![p] = [epoch |-> f.epoch, seq |-> f.seq]]
        /\ applied' = [applied EXCEPT ![p] = Append(@, f)]
    BY <1>6 DEF PodRead
  <2> HIDE DEF f
  <2>2. d.epoch <= epoch /\ d.epoch \in Nat /\ d.seq \in Nat
    BY <1>3 DEF AppliedOrder, DedupIsNewest
  <2>3. Precedes(<<d.epoch, d.seq>>, Key(f))
    BY <1>2, <1>6, <2>2 DEF Accepts, Precedes, Key, Frame
  <2>4. applied[p] \in Seq(Frame) /\ Len(applied[p]) \in Nat
    BY <1>3, LenProperties
  <2>5. /\ applied'[p] = Append(applied[p], f)
        /\ Len(applied'[p]) = Len(applied[p]) + 1
        /\ \A i \in 1 .. Len(applied[p]) : applied'[p][i] = applied[p][i]
        /\ applied'[p][Len(applied[p]) + 1] = f
        /\ DOMAIN applied'[p] = 1 .. Len(applied[p]) + 1
        /\ DOMAIN applied[p] = 1 .. Len(applied[p])
    <3>1. applied'[p] = Append(applied[p], f)
      BY <1>3, <2>1
    <3>2. Append(applied[p], f) \in Seq(Frame)
      BY <1>2, <2>4, AppendProperties
    <3>3. QED
      BY <1>2, <2>4, <3>1, <3>2, AppendProperties, LenProperties
  <2>6. \A i \in 1 .. Len(applied[p]) :
          /\ applied[p][i] \in Frame
          /\ ~ Precedes(<<d.epoch, d.seq>>, Key(applied[p][i]))
    BY <2>4, <2>5, ElementOfSeq DEF AppliedOrder, DedupIsNewest
  <2>7. \A i \in 1 .. Len(applied[p]) : Precedes(Key(applied[p][i]), Key(f))
    BY <1>2, <2>2, <2>3, <2>6 DEF Precedes, Key, Frame
  <2>8. \A q \in Panes : q # p => applied'[q] = applied[q] /\ dedup'[q] = dedup[q]
    BY <1>3, <2>1
  <2>9. dedup'[p].epoch = f.epoch /\ dedup'[p].seq = f.seq
    BY <1>3, <2>1
  <2>10. DedupIsNewest'
    <3>1. \A q \in Panes : q # p =>
            /\ dedup'[q].epoch <= epoch'
            /\ \A i \in DOMAIN applied'[q] :
                 ~ Precedes(<<dedup'[q].epoch, dedup'[q].seq>>, Key(applied'[q][i]))
      BY <1>4, <2>8 DEF AppliedOrder, DedupIsNewest
    <3>2. dedup'[p].epoch <= epoch'
      BY <1>2, <1>3, <1>4, <2>9
    <3>3. ASSUME NEW i \in DOMAIN applied'[p]
          PROVE  ~ Precedes(<<f.epoch, f.seq>>, Key(applied'[p][i]))
      <4>1. CASE i \in 1 .. Len(applied[p])
        <5>1. Precedes(Key(applied'[p][i]), Key(f)) /\ applied'[p][i] \in Frame
          BY <2>5, <2>6, <2>7, <4>1
        <5>2. QED
          BY <1>2, <5>1 DEF Precedes, Key, Frame
      <4>2. CASE i = Len(applied[p]) + 1
        BY <1>2, <2>5, <4>2 DEF Precedes, Key, Frame
      <4>3. QED
        BY <2>4, <2>5, <3>3, <4>1, <4>2
    <3>4. QED
      BY <2>9, <3>1, <3>2, <3>3 DEF DedupIsNewest
  <2>11. InOrder'
    <3>1. ASSUME NEW q \in Panes, q # p,
                 NEW i \in DOMAIN applied'[q], NEW j \in DOMAIN applied'[q], i < j
          PROVE  Precedes(Key(applied'[q][i]), Key(applied'[q][j]))
      BY <2>8, <3>1 DEF AppliedOrder, InOrder
    <3>2. ASSUME NEW i \in DOMAIN applied'[p], NEW j \in DOMAIN applied'[p], i < j
          PROVE  Precedes(Key(applied'[p][i]), Key(applied'[p][j]))
      <4>1. CASE j \in 1 .. Len(applied[p])
        <5>1. i \in 1 .. Len(applied[p])
          BY <2>4, <2>5, <3>2, <4>1
        <5>2. QED
          BY <2>5, <3>2, <4>1, <5>1 DEF AppliedOrder, InOrder
      <4>2. CASE j = Len(applied[p]) + 1
        <5>1. i \in 1 .. Len(applied[p])
          BY <2>4, <2>5, <3>2, <4>2
        <5>2. QED
          BY <2>5, <2>7, <4>2, <5>1
      <4>3. QED
        BY <2>4, <2>5, <3>2, <4>1, <4>2
    <3>3. QED
      BY <3>1, <3>2 DEF InOrder
  <2>12. QED
    BY <2>10, <2>11 DEF AppliedOrder
<1>7. QED
  BY <1>5, <1>6

\* A frame whose bytes are dropped only moves the filter on.
LEMMA DropKeepsOrder ==
  ASSUME TypeOK, InFlightCurrent, AppliedOrder, NEW p \in Panes, PtyFull(p)
  PROVE  AppliedOrder'
<1> DEFINE f == Head(podq[p])
           d == dedup[p]
<1>1. f \in CurrentFrame
  BY HeadTailProperties DEF PtyFull, InFlightCurrent
<1>2. /\ f.epoch = epoch /\ f.epoch \in Nat /\ f.seq \in Nat
      /\ d.epoch \in Nat /\ d.seq \in Nat
  BY <1>1 DEF CurrentFrame, Frame, TypeOK, PodTypes
<1>3. /\ dedup' = [dedup EXCEPT ![p] = [epoch |-> f.epoch, seq |-> f.seq]]
      /\ UNCHANGED <<epoch, applied>> /\ Accepts(d, f)
  BY DEF PtyFull, frontend
<1>4. /\ dedup \in [Panes -> [epoch : Nat, seq : Nat]] /\ epoch \in Nat
      /\ applied \in [Panes -> Seq(Frame)]
  BY DEF TypeOK, PodTypes, FrontendTypes
<1> HIDE DEF f
<1>5. /\ dedup'[p].epoch = f.epoch /\ dedup'[p].seq = f.seq
      /\ \A q \in Panes : q # p => dedup'[q] = dedup[q]
  BY <1>3, <1>4
<1>6. ASSUME NEW i \in DOMAIN applied[p]
      PROVE  ~ Precedes(<<f.epoch, f.seq>>, Key(applied[p][i]))
  <2>1. applied[p][i] \in Frame
    BY <1>4
  <2>2. ~ Precedes(<<d.epoch, d.seq>>, Key(applied[p][i])) /\ d.epoch <= epoch
    BY DEF AppliedOrder, DedupIsNewest
  <2> QED BY <1>2, <1>3, <2>1, <2>2 DEF Precedes, Key, Frame, Accepts
<1>7. DedupIsNewest'
  BY <1>2, <1>3, <1>5, <1>6 DEF AppliedOrder, DedupIsNewest
<1>8. InOrder'
  BY <1>3 DEF AppliedOrder, InOrder
<1> QED BY <1>7, <1>8 DEF AppliedOrder

LEMMA OrderStep ==
  ASSUME TypeOK, InFlightCurrent, AppliedOrder, [Next]_vars
  PROVE  AppliedOrder'
<1>1. CASE UNCHANGED <<epoch, dedup, applied>>
  BY <1>1 DEF AppliedOrder, DedupIsNewest, InOrder
<1>2. CASE FrontendRestart
  <2>1. epoch' = epoch + 1 /\ UNCHANGED <<dedup, applied>>
    BY <1>2 DEF FrontendRestart, pod
  <2>2. epoch \in Nat /\ \A p \in Panes : dedup[p].epoch \in Nat
    BY DEF TypeOK, FrontendTypes, PodTypes
  <2>3. \A p \in Panes : dedup'[p].epoch <= epoch'
    <3>1. \A p \in Panes : dedup[p].epoch <= epoch
      BY DEF AppliedOrder, DedupIsNewest
    <3>2. QED
      BY <2>1, <2>2, <3>1
  <2>4. QED
    BY <2>1, <2>3 DEF AppliedOrder, DedupIsNewest, InOrder
<1>3. ASSUME NEW p \in Panes, PodRead(p)  PROVE AppliedOrder'
  BY <1>3, ReadKeepsOrder
<1>4. CASE UNCHANGED vars
  BY <1>1, <1>4 DEF vars, frontend, pod
<1>5. CASE Flush \/ MuxBacklogEnd \/ SesRoute \/ ReconnectVtOnly \/ FullReattach
  BY <1>1, <1>5
     DEF Flush, MuxBacklogEnd, SesRoute, ReconnectVtOnly, FullReattach, frontend, pod
<1>6. CASE VtLost \/ CtlLost \/ SesRestart
  BY <1>1, <1>6 DEF VtLost, CtlLost, SesRestart, frontend, pod
<1>7. ASSUME NEW p \in Panes,
             \/ Type(p) \/ RedialPod(p) \/ SesForwardEnd(p)
             \/ PodVtLost(p) \/ EndDropped(p)
      PROVE  AppliedOrder'
  BY <1>1, <1>7
     DEF Type, RedialPod, SesForwardEnd, PodVtLost, EndDropped, frontend, pod
<1>8. ASSUME NEW p \in Panes, PtyFull(p)  PROVE AppliedOrder'
  BY <1>8, DropKeepsOrder
<1>9. QED
  BY <1>2, <1>3, <1>4, <1>5, <1>6, <1>7, <1>8 DEF Next

LEMMA OrderInit == Init => InFlightCurrent /\ AppliedOrder
<1>1. SUFFICES ASSUME Init PROVE InFlightCurrent /\ AppliedOrder
  OBVIOUS
<1>2. InFlightCurrent
  <2>1. podq = NoFrames /\ queue = <<>> /\ replay = <<>> /\ up = <<>>
    BY <1>1 DEF Init, NoFrames
  <2>2. QED
    BY <2>1, CurrentReset DEF InFlightCurrent
<1>3. AppliedOrder
  BY <1>1 DEF Init, AppliedOrder, DedupIsNewest, InOrder
<1>4. QED
  BY <1>2, <1>3

\* A pod never gives its shell a key twice or two keys in the wrong order,
\* whatever connections are lost, queues overflow and frontends take over:
\* the (epoch, seq) filter of input_dedup.zig suffices, because a frontend's
\* frames die with the connections of its session before the next one types.
THEOREM InputInOrder == Spec => []InOrder
<1>1. Init => TypeOK /\ InFlightCurrent /\ AppliedOrder
  BY TypeInit, OrderInit
<1>2. TypeOK /\ InFlightCurrent /\ AppliedOrder /\ [Next]_vars
        => (TypeOK /\ InFlightCurrent /\ AppliedOrder)'
  BY TypeStep, InFlightStep, OrderStep
<1>3. AppliedOrder => InOrder
  BY DEF AppliedOrder
<1>4. QED
  BY <1>1, <1>2, <1>3, PTL DEF Spec

\* SES does not restart, and no pane gets another id.
StableIds == "ses" \notin Faults

-----------------------------------------------------------------------------
(* The replay ring *)

\* The newest frames of a process that has stamped n of them.
Newest(ring, e, n) ==
  /\ Len(ring) = IF n < ReplayCap THEN n ELSE ReplayCap
  /\ \A i \in DOMAIN ring : Key(ring[i]) = <<e, n - Len(ring) + i>>

\* Retaining the next frame stamped keeps the ring the newest frames.
LEMMA RetainNewest ==
  ASSUME NEW ring \in Seq(Frame), NEW f \in Frame, NEW e, NEW n \in Nat,
         Newest(ring, e, n), Key(f) = <<e, n + 1>>
  PROVE  Newest(Retained(ring, f), e, n + 1)
<1>0. ReplayCap \in Nat \ {0}
  BY PathAssumption DEF PathAssumption
<1>1. Len(ring) \in Nat /\ DOMAIN ring = 1 .. Len(ring)
  BY LenProperties
<1>2. Len(ring) = IF n < ReplayCap THEN n ELSE ReplayCap
  BY DEF Newest
<1>3. \A i \in 1 .. Len(ring) : Key(ring[i]) = <<e, n - Len(ring) + i>>
  BY <1>1 DEF Newest
<1>4. CASE n < ReplayCap
  <2> DEFINE s == Append(ring, f)
  <2>1. /\ s \in Seq(Frame) /\ Len(s) = Len(ring) + 1
        /\ \A i \in 1 .. Len(ring) : s[i] = ring[i]
        /\ s[Len(ring) + 1] = f
    BY AppendProperties
  <2>2. Retained(ring, f) = s
    BY <1>2, <1>4 DEF Retained
  <2> HIDE DEF s
  <2>3. DOMAIN s = 1 .. n + 1 /\ Len(s) = n + 1
    BY <1>2, <1>4, <2>1, LenProperties
  <2>4. \A i \in 1 .. n : Key(s[i]) = <<e, i>>
    BY <1>2, <1>3, <1>4, <2>1
  <2>5. Key(s[n + 1]) = <<e, n + 1>>
    BY <1>2, <1>4, <2>1
  <2>6. \A i \in DOMAIN s : Key(s[i]) = <<e, (n + 1) - Len(s) + i>>
    BY <2>3, <2>4, <2>5
  <2>7. Len(s) = IF n + 1 < ReplayCap THEN n + 1 ELSE ReplayCap
    BY <1>0, <1>4, <2>3
  <2>8. QED
    BY <2>2, <2>6, <2>7 DEF Newest
<1>5. CASE ~(n < ReplayCap)
  <2> DEFINE t == Tail(ring)
             s == Append(t, f)
  <2>1. ring # <<>> /\ Len(ring) = ReplayCap
    BY <1>0, <1>2, <1>5, EmptySeq
  <2>2. /\ t \in Seq(Frame) /\ Len(t) = ReplayCap - 1
        /\ \A i \in 1 .. Len(t) : t[i] = ring[i + 1]
    BY <2>1, HeadTailProperties
  <2> HIDE DEF t
  <2>3. /\ s \in Seq(Frame) /\ Len(s) = Len(t) + 1
        /\ \A i \in 1 .. Len(t) : s[i] = t[i]
        /\ s[Len(t) + 1] = f
    BY <2>2, AppendProperties
  <2>4. Retained(ring, f) = s
    BY <2>1 DEF Retained, t
  <2> HIDE DEF s
  <2>5. DOMAIN s = 1 .. ReplayCap /\ Len(s) = ReplayCap
    BY <1>0, <2>2, <2>3, LenProperties
  <2>6. ASSUME NEW i \in 1 .. ReplayCap
        PROVE  Key(s[i]) = <<e, (n + 1) - ReplayCap + i>>
    <3>1. CASE i \in 1 .. ReplayCap - 1
      <4>1. s[i] = ring[i + 1] /\ i + 1 \in 1 .. Len(ring)
        BY <1>0, <2>1, <2>2, <2>3, <3>1
      <4>2. Key(ring[i + 1]) = <<e, n - ReplayCap + (i + 1)>>
        BY <1>3, <2>1, <4>1
      <4>3. n - ReplayCap + (i + 1) = (n + 1) - ReplayCap + i
        BY <1>0
      <4>4. QED
        BY <4>1, <4>2, <4>3
    <3>2. CASE i = ReplayCap
      <4>1. s[i] = f
        BY <1>0, <2>2, <2>3, <3>2
      <4>2. (n + 1) - ReplayCap + i = n + 1
        BY <1>0, <3>2
      <4>3. QED
        BY <4>1, <4>2
    <3>3. QED
      BY <1>0, <3>1, <3>2
  <2>7. Len(s) = IF n + 1 < ReplayCap THEN n + 1 ELSE ReplayCap
    BY <1>0, <1>5, <2>5
  <2>8. QED
    BY <2>4, <2>5, <2>6, <2>7 DEF Newest
<1>6. QED
  BY <1>4, <1>5

\* Only typing and a new frontend process touch the ring.
LEMMA RingSteps ==
  ASSUME [Next]_vars
  PROVE  \/ UNCHANGED <<epoch, nextSeq, replay>>
         \/ FrontendRestart
         \/ \E p \in Panes : Type(p)
BY DEF Next, vars, frontend, Flush, MuxBacklogEnd, SesRoute, ReconnectVtOnly,
       FullReattach, VtLost, CtlLost, SesRestart, RedialPod, SesForwardEnd,
       PodRead, PodVtLost, EndDropped, PtyFull

LEMMA RingStep ==
  ASSUME TypeOK, RingIsNewest, [Next]_vars
  PROVE  RingIsNewest'
<1>0. replay \in Seq(Frame) /\ epoch \in Nat /\ nextSeq \in Nat
  BY PathAssumption DEF PathAssumption, TypeOK, FrontendTypes
<1>1. CASE UNCHANGED <<epoch, nextSeq, replay>>
  BY <1>1 DEF RingIsNewest
<1>2. CASE FrontendRestart
  <2>1. replay' = <<>> /\ nextSeq' = 0
    BY <1>2 DEF FrontendRestart
  <2>2. Len(<<>>) = 0 /\ DOMAIN <<>> = {}
    OBVIOUS
  <2>3. 0 < ReplayCap
    BY PathAssumption DEF PathAssumption
  <2>4. QED
    BY <2>1, <2>2, <2>3 DEF RingIsNewest
<1>3. ASSUME NEW p \in Panes, Type(p)  PROVE RingIsNewest'
  <2> DEFINE f == [id |-> view[p], epoch |-> epoch, seq |-> nextSeq + 1, pane |-> p]
  <2>1. /\ replay' = Retained(replay, f) /\ nextSeq' = nextSeq + 1 /\ epoch' = epoch
    BY <1>3 DEF Type
  <2>2. f \in Frame
    BY <1>0, <1>3 DEF Type, Frame, TypeOK, FrontendTypes
  <2>3. Key(f) = <<epoch, nextSeq + 1>>
    BY DEF Key
  <2> HIDE DEF f
  <2>4. Newest(replay, epoch, nextSeq)
    BY DEF RingIsNewest, Newest
  <2>5. Newest(Retained(replay, f), epoch, nextSeq + 1)
    BY <1>0, <2>2, <2>3, <2>4, RetainNewest
  <2>6. QED
    BY <2>1, <2>5 DEF RingIsNewest, Newest
<1>4. QED
  BY <1>1, <1>2, <1>3, RingSteps

\* The replay ring always holds exactly the newest frames of the process, as
\* many as its cap allows, so that a reconnect can resend anything within the
\* window (retainForReplay), for every cap.
THEOREM RingHoldsNewest == Spec => []RingIsNewest
<1>1. Init => TypeOK /\ RingIsNewest
  <2>1. Init => RingIsNewest
    <3>1. 0 < ReplayCap /\ Len(<<>>) = 0 /\ DOMAIN <<>> = {}
      BY PathAssumption DEF PathAssumption
    <3>2. QED
      BY <3>1 DEF Init, RingIsNewest
  <2>2. QED
    BY <2>1, TypeInit
<1>2. TypeOK /\ RingIsNewest /\ [Next]_vars => (TypeOK /\ RingIsNewest)'
  BY TypeStep, RingStep
<1>3. QED
  BY <1>1, <1>2, PTL DEF Spec

-----------------------------------------------------------------------------
(* Every frame is where it belongs *)

Of(T, p) == {f \in T : f.pane = p}

\* The frames of T may be in flight: those for a pane at its pod, and only
\* those given to its shell.
Carried(T) ==
  /\ queue \in Seq(T) /\ replay \in Seq(T) /\ up \in Seq(T)
  /\ \A p \in Panes : podq[p] \in Seq(Of(T, p)) /\ applied[p] \in Seq(Of(T, p))

\* The frames that typing has made: stamped with the id of their pane, with a
\* key that was typed into it.
Stamped ==
  {f \in Frame : /\ f.id = podId[f.pane]
                 /\ \E i \in DOMAIN typed[f.pane] : typed[f.pane][i] = Key(f)}

ViewHolds == \A p \in Panes : view[p] \in {NoId, podId[p]}

AtHome == ViewHolds /\ Carried(Stamped)

\* More frames that may be in flight take nothing back.
LEMMA CarriedWider ==
  ASSUME TypeOK, NEW S, NEW T, S \subseteq T, Carried(S)
  PROVE  Carried(T)
<1>1. \A s : s \in Seq(S) => s \in Seq(T)
  <2>1. SUFFICES ASSUME NEW s \in Seq(S) PROVE s \in Seq(T)
    OBVIOUS
  <2>2. QED
    OBVIOUS
<1>2. \A p \in Panes : \A s : s \in Seq(Of(S, p)) => s \in Seq(Of(T, p))
  <2>1. \A p \in Panes : Of(S, p) \subseteq Of(T, p)
    BY DEF Of
  <2>2. SUFFICES ASSUME NEW p \in Panes, NEW s \in Seq(Of(S, p)) PROVE s \in Seq(Of(T, p))
    OBVIOUS
  <2>3. QED
    BY <2>1
<1>3. QED
  BY <1>1, <1>2 DEF Carried

\* Dropping streams leaves nothing out of place.
LEMMA NothingCarried ==
  ASSUME NEW T
  PROVE  <<>> \in Seq(T) /\ \A p \in Panes : NoFrames[p] \in Seq(Of(T, p))
<1>1. <<>> \in Seq(T) /\ \A p \in Panes : <<>> \in Seq(Of(T, p))
  BY EmptySeq
<1>2. QED
  BY <1>1 DEF NoFrames

\* While the ids stand, a step moves frames only to where they belong, if the
\* frame that typing makes belongs there.
LEMMA CarriedStep ==
  ASSUME TypeOK, StableIds, [Next]_vars,
         NEW T, \A f \in T : f \in Frame /\ f.id = podId[f.pane], Carried(T),
         \A p \in Panes : Type(p) =>
           [id |-> view[p], epoch |-> epoch, seq |-> nextSeq + 1, pane |-> p] \in T
  PROVE  Carried(T)'
<1>0. /\ queue \in Seq(T) /\ replay \in Seq(T) /\ up \in Seq(T)
      /\ \A p \in Panes : podq[p] \in Seq(Of(T, p)) /\ applied[p] \in Seq(Of(T, p))
      /\ headPartial \in BOOLEAN /\ torn \in BOOLEAN
      /\ podq \in [Panes -> Seq(Frame)] /\ applied \in [Panes -> Seq(Frame)]
      /\ podId \in Injections(Panes, PaneIds)
  BY DEF Carried, TypeOK, FrontendTypes, HistoryTypes, SesTypes, PodTypes
<1>1. ASSUME NEW p \in Panes, Type(p)  PROVE Carried(T)'
  <2> DEFINE f == [id |-> view[p], epoch |-> epoch, seq |-> nextSeq + 1, pane |-> p]
  <2>1. f \in T
    BY <1>1
  <2>2. /\ FlushTo(Append(queue, f), headPartial)
        /\ replay' = Retained(replay, f)
        /\ UNCHANGED <<podq, applied>>
    BY <1>1 DEF Type, ses, pod
  <2> HIDE DEF f
  <2>3. Append(queue, f) \in Seq(T)
    BY <1>0, <2>1, AppendProperties
  <2>4. queue' \in Seq(T) /\ up' \in Seq(T)
    BY <1>0, <2>2, <2>3, FlushKeeps
  <2>5. replay' \in Seq(T)
    BY <1>0, <2>1, <2>2, RetainKeeps
  <2>6. QED
    BY <1>0, <2>2, <2>4, <2>5 DEF Carried
<1>2. CASE Flush
  <2>1. queue' \in Seq(T) /\ up' \in Seq(T)
    BY <1>0, <1>2, FlushKeeps DEF Flush
  <2>2. QED
    BY <1>0, <1>2, <2>1 DEF Flush, Carried, ses, pod
<1>3. CASE MuxBacklogEnd
  <2>1. queue' \in Seq(T) /\ up' \in Seq(T)
    <3>1. CASE FlushTo(replay, FALSE)
      BY <1>0, <3>1, FlushKeeps
    <3>2. CASE UNCHANGED <<queue, up>>
      BY <1>0, <3>2
    <3>3. QED
      BY <1>3, <3>1, <3>2 DEF MuxBacklogEnd, Rebuilt
  <2>2. UNCHANGED <<replay, podq, applied>>
    BY <1>3 DEF MuxBacklogEnd, ses, pod
  <2>3. QED
    BY <1>0, <2>1, <2>2 DEF Carried
<1>4. CASE SesRoute
  <2>1. up # <<>> /\ up' = Tail(up) /\ UNCHANGED <<queue, replay, applied>>
    BY <1>4 DEF SesRoute, frontend, pod
  <2>2. Head(up) \in T /\ up' \in Seq(T)
    BY <1>0, <2>1, HeadTailProperties
  <2>3. ASSUME NEW q \in Panes, podId[q] = Head(up).id
        PROVE  Append(podq[q], Head(up)) \in Seq(Of(T, q))
    <3>1. Head(up) \in Frame /\ podId[Head(up).pane] = podId[q]
      BY <2>2, <2>3
    <3>2. Head(up).pane = q
      BY <1>0, <3>1 DEF Injections, Frame
    <3>3. Head(up) \in Of(T, q)
      BY <2>2, <3>2 DEF Of
    <3>4. QED
      BY <1>0, <3>3, AppendProperties
  <2>4. \A p \in Panes : podq'[p] \in Seq(Of(T, p))
    <3>1. \/ podq' = podq
          \/ \E q \in Panes : /\ podId[q] = Head(up).id
                              /\ podq' = [podq EXCEPT ![q] = Append(@, Head(up))]
          \/ \E q \in Panes : podq' = [podq EXCEPT ![q] = <<>>]
      BY <1>4 DEF SesRoute, Routed, DropPod
    <3>2. \A p \in Panes : <<>> \in Seq(Of(T, p))
      BY EmptySeq
    <3>3. QED
      BY <1>0, <2>3, <3>1, <3>2
  <2>5. QED
    BY <1>0, <2>1, <2>2, <2>4 DEF Carried
<1>5. ASSUME NEW p \in Panes, podq' = [podq EXCEPT ![p] = <<>>],
             UNCHANGED <<queue, replay, up, applied>>
      PROVE  Carried(T)'
  <2>1. \A q \in Panes : <<>> \in Seq(Of(T, q))
    BY EmptySeq
  <2>2. \A q \in Panes : podq'[q] \in Seq(Of(T, q))
    BY <1>0, <1>5, <2>1
  <2>3. QED
    BY <1>0, <1>5, <2>2 DEF Carried
<1>6. ASSUME NEW p \in Panes, PodRead(p) \/ PtyFull(p)  PROVE Carried(T)'
  <2>1. /\ podq[p] # <<>>
        /\ podq' = [podq EXCEPT ![p] = Tail(@)]
        /\ \/ UNCHANGED applied
           \/ applied' = [applied EXCEPT ![p] = Append(@, Head(podq[p]))]
        /\ UNCHANGED <<queue, replay, up>>
    BY <1>6 DEF PodRead, PtyFull, frontend, link, pod
  <2>2. Head(podq[p]) \in Of(T, p) /\ Tail(podq[p]) \in Seq(Of(T, p))
    BY <1>0, <2>1, HeadTailProperties
  <2>3. Append(applied[p], Head(podq[p])) \in Seq(Of(T, p))
    BY <1>0, <2>2, AppendProperties
  <2>4. \A q \in Panes : podq'[q] \in Seq(Of(T, q)) /\ applied'[q] \in Seq(Of(T, q))
    BY <1>0, <2>1, <2>2, <2>3
  <2>5. QED
    BY <1>0, <2>1, <2>4 DEF Carried
<1>7. CASE ReconnectVtOnly
  <2>1. queue' \in Seq(T) /\ up' \in Seq(T)
    BY <1>0, <1>7, ReopenKeeps DEF ReconnectVtOnly
  <2>2. UNCHANGED <<replay, podq, applied>>
    BY <1>7 DEF ReconnectVtOnly, ses, pod
  <2>3. QED
    BY <1>0, <2>1, <2>2 DEF Carried
<1>8. CASE FullReattach
  <2>1. queue' \in Seq(T) /\ up' \in Seq(T)
    BY <1>0, <1>8, ReopenKeeps DEF FullReattach
  <2>2. podq' = NoFrames /\ UNCHANGED <<replay, applied>>
    BY <1>8 DEF FullReattach, pod
  <2>3. QED
    BY <1>0, <2>1, <2>2, NothingCarried DEF Carried
<1>9. CASE VtLost
  <2>1. /\ queue' = <<>> \/ queue' = queue
        /\ up' = <<>> /\ UNCHANGED <<replay, podq, applied>>
    BY <1>9 DEF VtLost, Unlinked, ses, pod
  <2>2. QED
    BY <1>0, <2>1, NothingCarried DEF Carried
<1>10. CASE CtlLost \/ FrontendRestart
  <2>1. /\ queue' = <<>> \/ queue' = queue
        /\ replay' = <<>> \/ replay' = replay
        /\ up' = <<>> /\ podq' = NoFrames /\ UNCHANGED applied
    BY <1>10 DEF CtlLost, FrontendRestart, SesLetsGo, Unlinked, frontend, pod
  <2>2. QED
    BY <1>0, <2>1, NothingCarried DEF Carried
<1>11. ~SesRestart
  BY DEF SesRestart, Fault, StableIds
<1>12. CASE UNCHANGED <<queue, replay, up, podq, applied>>
  BY <1>0, <1>12 DEF Carried
<1>13. ASSUME NEW p \in Panes,
              RedialPod(p) \/ PodVtLost(p) \/ SesForwardEnd(p) \/ EndDropped(p)
       PROVE  Carried(T)'
  BY <1>5, <1>12, <1>13
     DEF RedialPod, PodVtLost, DropPod, SesForwardEnd, EndDropped, frontend, link, pod
<1>14. CASE UNCHANGED vars
  BY <1>12, <1>14 DEF vars, frontend, link, ses, pod
<1>15. QED
  BY <1>1, <1>2, <1>3, <1>4, <1>6, <1>7, <1>8, <1>9, <1>10, <1>11, <1>13, <1>14
     DEF Next

\* Only a restart of SES gives panes new ids, and only typing adds keys.
LEMMA IdsStand ==
  ASSUME StableIds, [Next]_vars
  PROVE  /\ UNCHANGED podId
         /\ UNCHANGED view \/ view' = podId \/ view' = [p \in Panes |-> NoId]
         /\ \/ UNCHANGED typed
            \/ \E p \in Panes : Type(p)
BY DEF StableIds, Next, vars, frontend, ses, Flush, MuxBacklogEnd, SesRoute,
       ReconnectVtOnly, FullReattach, VtLost, CtlLost, SesRestart, FrontendRestart,
       Type, RedialPod, SesForwardEnd, PodRead, PodVtLost, EndDropped, PtyFull, Fault

\* A key typed joins those of its pane, at the end.
LEMMA TypedGrows ==
  ASSUME TypeOK, NEW p \in Panes, Type(p)
  PROVE  LET key == <<epoch, nextSeq + 1>>
             n   == Len(typed[p])
         IN /\ typed' = [typed EXCEPT ![p] = Append(@, key)]
            /\ n \in Nat /\ DOMAIN typed[p] = 1 .. n
            /\ DOMAIN typed'[p] = 1 .. n + 1
            /\ \A i \in 1 .. n : typed'[p][i] = typed[p][i]
            /\ typed'[p][n + 1] = key
            /\ \A q \in Panes : q # p => typed'[q] = typed[q]
<1> DEFINE key == <<epoch, nextSeq + 1>>
           s   == typed[p]
<1>1. /\ typed \in [Panes -> Seq(Nat \X Nat)] /\ key \in Nat \X Nat
      /\ s \in Seq(Nat \X Nat)
  BY PathAssumption DEF PathAssumption, TypeOK, FrontendTypes, HistoryTypes
<1>2. typed' = [typed EXCEPT ![p] = Append(@, key)]
  BY DEF Type, Key
<1>3. typed'[p] = Append(s, key) /\ \A q \in Panes : q # p => typed'[q] = typed[q]
  BY <1>1, <1>2
<1> HIDE DEF key, s
<1>4. /\ Append(s, key) \in Seq(Nat \X Nat)
      /\ Len(Append(s, key)) = Len(s) + 1
      /\ \A i \in 1 .. Len(s) : Append(s, key)[i] = s[i]
      /\ Append(s, key)[Len(s) + 1] = key
  BY <1>1, AppendProperties
<1>5. /\ Len(s) \in Nat /\ DOMAIN s = 1 .. Len(s)
      /\ DOMAIN Append(s, key) = 1 .. Len(s) + 1
  BY <1>1, <1>4, LenProperties
<1>6. QED
  BY <1>2, <1>3, <1>4, <1>5 DEF s, key

\* What typing has made stays made.
LEMMA StampedGrows ==
  ASSUME TypeOK, StableIds, [Next]_vars
  PROVE  Stamped \subseteq Stamped'
<1>1. CASE UNCHANGED typed
  BY <1>1, IdsStand DEF Stamped
<1>2. ASSUME NEW p \in Panes, Type(p)  PROVE Stamped \subseteq Stamped'
  <2>1. /\ DOMAIN typed[p] \subseteq DOMAIN typed'[p]
        /\ \A i \in DOMAIN typed[p] : typed'[p][i] = typed[p][i]
        /\ \A q \in Panes : q # p => typed'[q] = typed[q]
    BY <1>2, TypedGrows
  <2>2. QED
    BY <2>1, IdsStand DEF Stamped, Frame
<1>3. QED
  BY <1>1, <1>2, IdsStand

\* The frame of a key typed is stamped with the id of its pane.
LEMMA TypeStamps ==
  ASSUME TypeOK, StableIds, ViewHolds, NEW p \in Panes, Type(p)
  PROVE  [id |-> view[p], epoch |-> epoch, seq |-> nextSeq + 1, pane |-> p] \in Stamped'
<1> DEFINE f == [id |-> view[p], epoch |-> epoch, seq |-> nextSeq + 1, pane |-> p]
<1>1. f \in Frame
  BY PathAssumption DEF PathAssumption, Type, Frame, TypeOK, FrontendTypes
<1>2. f.id = podId'[f.pane]
  BY DEF ViewHolds, Type, ses
<1>3. \E i \in DOMAIN typed'[p] : typed'[p][i] = <<epoch, nextSeq + 1>>
  BY TypedGrows
<1>4. QED
  BY <1>1, <1>2, <1>3 DEF Stamped, Key

LEMMA AtHomeStep ==
  ASSUME TypeOK, StableIds, AtHome, [Next]_vars
  PROVE  AtHome'
<1>1. ViewHolds'
  <2>1. podId \in [Panes -> PaneIds]
    BY DEF TypeOK, SesTypes, Injections
  <2>2. QED
    BY <2>1, IdsStand DEF AtHome, ViewHolds
<1>0. PICK T : T = Stamped'
  OBVIOUS
<1>2. \A f \in T : f \in Frame /\ f.id = podId[f.pane]
  BY <1>0, IdsStand DEF Stamped
<1>3. \A p \in Panes : Type(p) =>
        [id |-> view[p], epoch |-> epoch, seq |-> nextSeq + 1, pane |-> p] \in T
  BY <1>0, TypeStamps DEF AtHome
<1>4. Carried(T)
  BY <1>0, StampedGrows, CarriedWider DEF AtHome
<1>5. Carried(T)'
  BY <1>2, <1>3, <1>4, CarriedStep
<1>6. QED
  BY <1>0, <1>1, <1>5 DEF AtHome, Carried

LEMMA AtHomeInit == Init => AtHome
<1>1. SUFFICES ASSUME Init PROVE AtHome
  OBVIOUS
<1>2. queue = <<>> /\ replay = <<>> /\ up = <<>> /\ podq = NoFrames /\ applied = NoFrames
  BY <1>1 DEF Init, NoFrames
<1>3. Carried(Stamped)
  BY <1>2, NothingCarried DEF Carried
<1>4. QED
  BY <1>1, <1>3 DEF Init, AtHome, ViewHolds

\* A key reaches the shell of the pane it was typed into and no other, while
\* the pane ids stand: whatever is lost or resent in between, routeMuxToPod
\* finds for the id on the frame the pod of the pane it was stamped for.
THEOREM KeysReachTheirPane == StableIds => (Spec => []OwnKeysOnly)
<1> SUFFICES ASSUME StableIds PROVE Spec => []OwnKeysOnly
  OBVIOUS
<1>1. Init => TypeOK /\ AtHome
  BY TypeInit, AtHomeInit
<1>2. TypeOK /\ AtHome /\ [Next]_vars => (TypeOK /\ AtHome)'
  BY TypeStep, AtHomeStep
<1>3. TypeOK /\ AtHome => OwnKeysOnly
  <2>1. SUFFICES ASSUME TypeOK, AtHome, NEW p \in Panes, NEW i \in DOMAIN applied[p]
                 PROVE  applied[p][i].pane = p
    BY DEF OwnKeysOnly
  <2>2. applied[p] \in Seq(Of(Stamped, p))
    BY <2>1 DEF AtHome, Carried
  <2>3. applied[p][i] \in Of(Stamped, p)
    BY <2>2, LenProperties, ElementOfSeq
  <2>4. QED
    BY <2>3 DEF Of
<1>4. QED
  BY <1>1, <1>2, <1>3, PTL DEF Spec

-----------------------------------------------------------------------------
(* The keys typed are distinct, and each one later than those before it. *)

PossibleKeys == (1 .. MaxFaults + 1) \X (1 .. MaxSeq)

\* Each fault makes at most one new frontend process.
EpochBounded == epoch \in 1 .. faults + 1 /\ faults <= MaxFaults

TypedInOrder ==
  \A p \in Panes : \A i \in DOMAIN typed[p] :
    /\ typed[p][i] \in PossibleKeys
    /\ ~ Precedes(<<epoch, nextSeq>>, typed[p][i])
    /\ \A j \in DOMAIN typed[p] : i < j => Precedes(typed[p][i], typed[p][j])

TypedSound == EpochBounded /\ TypedInOrder

LEMMA TypedStep ==
  ASSUME TypeOK, TypedSound, [Next]_vars
  PROVE  TypedSound'
<1>0. /\ epoch \in Nat /\ nextSeq \in 0 .. MaxSeq /\ faults \in Nat
      /\ MaxSeq \in Nat /\ MaxFaults \in Nat
      /\ typed \in [Panes -> Seq(Nat \X Nat)]
  BY PathAssumption DEF PathAssumption, TypeOK, FrontendTypes, HistoryTypes
<1>1. EpochBounded'
  <2>1. \/ UNCHANGED <<epoch, faults>>
        \/ faults < MaxFaults /\ faults' = faults + 1 /\ epoch' \in {epoch, epoch + 1}
    BY DEF Next, vars, frontend, Flush, MuxBacklogEnd, SesRoute, ReconnectVtOnly,
       FullReattach, VtLost, CtlLost, SesRestart, FrontendRestart, Type, RedialPod,
       SesForwardEnd, PodRead, PodVtLost, EndDropped, PtyFull, Fault
  <2>2. QED
    BY <1>0, <2>1 DEF TypedSound, EpochBounded
<1>2. \/ UNCHANGED <<epoch, nextSeq, typed>>
      \/ epoch' = epoch + 1 /\ nextSeq' = 0 /\ UNCHANGED typed
      \/ \E p \in Panes : Type(p)
  BY DEF Next, vars, frontend, Flush, MuxBacklogEnd, SesRoute, ReconnectVtOnly,
     FullReattach, VtLost, CtlLost, SesRestart, FrontendRestart, RedialPod,
     SesForwardEnd, PodRead, PodVtLost, EndDropped, PtyFull
<1>3. CASE UNCHANGED <<epoch, nextSeq, typed>>
  BY <1>1, <1>3 DEF TypedSound, TypedInOrder
<1>4. CASE epoch' = epoch + 1 /\ nextSeq' = 0 /\ UNCHANGED typed
  <2>1. \A k \in PossibleKeys :
          ~ Precedes(<<epoch, nextSeq>>, k) => ~ Precedes(<<epoch', nextSeq'>>, k)
    BY <1>0, <1>4 DEF PossibleKeys, Precedes
  <2>2. QED
    BY <1>1, <1>4, <2>1 DEF TypedSound, TypedInOrder
<1>5. ASSUME NEW p \in Panes, Type(p)  PROVE TypedSound'
  <2> DEFINE key == <<epoch, nextSeq + 1>>
             n   == Len(typed[p])
  <2>1. /\ n \in Nat /\ DOMAIN typed[p] = 1 .. n /\ DOMAIN typed'[p] = 1 .. n + 1
        /\ \A i \in 1 .. n : typed'[p][i] = typed[p][i]
        /\ typed'[p][n + 1] = key
        /\ \A q \in Panes : q # p => typed'[q] = typed[q]
    BY <1>5, TypedGrows
  <2>2. epoch' = epoch /\ nextSeq' = nextSeq + 1 /\ nextSeq < MaxSeq
    BY <1>5 DEF Type
  <2>3. key \in PossibleKeys
    BY <1>0, <2>2 DEF TypedSound, EpochBounded, PossibleKeys
  <2>4. \A k \in PossibleKeys : ~ Precedes(<<epoch, nextSeq>>, k) =>
          Precedes(k, key) /\ ~ Precedes(<<epoch', nextSeq'>>, k)
    BY <1>0, <2>2 DEF PossibleKeys, Precedes
  <2>5. ~ Precedes(<<epoch', nextSeq'>>, key)
    BY <1>0, <2>2 DEF Precedes
  <2> HIDE DEF key, n
  <2>6. \A q \in Panes : \A i \in DOMAIN typed[q] :
          /\ typed[q][i] \in PossibleKeys
          /\ Precedes(typed[q][i], key)
          /\ ~ Precedes(<<epoch', nextSeq'>>, typed[q][i])
          /\ \A j \in DOMAIN typed[q] : i < j => Precedes(typed[q][i], typed[q][j])
    BY <2>4 DEF TypedSound, TypedInOrder
  <2>7. ASSUME NEW i \in 1 .. n + 1
        PROVE  /\ typed'[p][i] \in PossibleKeys
               /\ ~ Precedes(<<epoch', nextSeq'>>, typed'[p][i])
               /\ \A j \in 1 .. n + 1 : i < j => Precedes(typed'[p][i], typed'[p][j])
    <3>1. CASE i \in 1 .. n
      <4>1. ASSUME NEW j \in 1 .. n + 1, i < j
            PROVE  Precedes(typed'[p][i], typed'[p][j])
        <5>1. CASE j \in 1 .. n
          BY <2>1, <2>6, <3>1, <4>1, <5>1
        <5>2. CASE j = n + 1
          BY <2>1, <2>6, <3>1, <5>2
        <5>3. QED
          BY <2>1, <5>1, <5>2
      <4>2. QED
        BY <2>1, <2>6, <3>1, <4>1
    <3>2. CASE i = n + 1
      <4>1. \A j \in 1 .. n + 1 : ~(i < j)
        BY <2>1, <3>2
      <4>2. QED
        BY <2>1, <2>3, <2>5, <3>2, <4>1
    <3>3. QED
      BY <2>1, <3>1, <3>2
  <2>8. TypedInOrder'
    BY <2>1, <2>6, <2>7 DEF TypedInOrder
  <2>9. QED
    BY <1>1, <2>8 DEF TypedSound
<1>6. QED
  BY <1>2, <1>3, <1>4, <1>5

LEMMA TypedInit == Init => TypedSound
BY PathAssumption DEF PathAssumption, Init, TypedSound, EpochBounded, TypedInOrder

-----------------------------------------------------------------------------
(* The path implements the input log. *)

Ascending(s) == \A i, j \in DOMAIN s : i < j => Precedes(s[i], s[j])

\* How many of the keys t typed into a pane its shell is past, given frames a.
PassedOf(t, a) ==
  IF a = <<>> THEN 0 ELSE CHOOSE i \in DOMAIN t : t[i] = Key(a[Len(a)])

LEMMA PassedIsOf ==
  /\ PassedKeys = [p \in Panes |-> PassedOf(typed[p], applied[p])]
  /\ PassedKeys' = [p \in Panes |-> PassedOf(typed'[p], applied'[p])]
BY DEF PassedKeys, PassedOf

\* Keys in ascending order differ, and their order is that of their places.
LEMMA OneKey ==
  ASSUME NEW s \in Seq(Nat \X Nat), Ascending(s),
         NEW i \in DOMAIN s, NEW j \in DOMAIN s
  PROVE  /\ s[i] = s[j] => i = j
         /\ Precedes(s[i], s[j]) => i < j
<1>1. i \in Nat /\ j \in Nat /\ s[i] \in Nat \X Nat /\ s[j] \in Nat \X Nat
  BY LenProperties, ElementOfSeq
<1>2. /\ i < j => Precedes(s[i], s[j])
      /\ j < i => Precedes(s[j], s[i])
  BY DEF Ascending
<1>3. QED
  BY <1>1, <1>2 DEF Precedes

\* The place of the last key received is where the shell is.
LEMMA LastIsPassed ==
  ASSUME NEW s \in Seq(Nat \X Nat), Ascending(s), NEW a, a # <<>>,
         NEW i \in DOMAIN s, s[i] = Key(a[Len(a)])
  PROVE  PassedOf(s, a) = i
<1> DEFINE last == Key(a[Len(a)])
<1>1. PassedOf(s, a) = CHOOSE j \in DOMAIN s : s[j] = last
  BY DEF PassedOf
<1> HIDE DEF last
<1>2. s[i] = last
  BY DEF last
<1>3. PassedOf(s, a) \in DOMAIN s /\ s[PassedOf(s, a)] = last
  BY <1>1, <1>2
<1>4. QED
  BY <1>2, <1>3, OneKey

LEMMA TypedAscends ==
  ASSUME TypeOK, TypedInOrder, NEW p \in Panes
  PROVE  typed[p] \in Seq(Nat \X Nat) /\ Ascending(typed[p])
BY DEF TypeOK, HistoryTypes, TypedInOrder, Ascending

\* Every frame applied was typed.
LEMMA AppliedWasTyped ==
  ASSUME TypeOK, AtHome, NEW p \in Panes, NEW i \in DOMAIN applied[p]
  PROVE  \E j \in DOMAIN typed[p] : typed[p][j] = Key(applied[p][i])
<1>1. applied[p] \in Seq(Of(Stamped, p))
  BY DEF AtHome, Carried
<1>2. applied[p][i] \in Of(Stamped, p)
  BY <1>1, LenProperties, ElementOfSeq
<1>3. QED
  BY <1>2 DEF Of, Stamped

LogVars == <<typed, ReceivedKeys, PassedKeys>>

\* What a pod applies is a later key of its pane.
LEMMA ReadReceives ==
  ASSUME TypeOK, TypeOK', InFlightCurrent, AppliedOrder, AppliedOrder', AtHome,
         AtHome', TypedInOrder, NEW p \in Panes, PodRead(p)
  PROVE  Log!Receive(p) \/ UNCHANGED LogVars
<1> DEFINE f == Head(podq[p])
           n == Len(applied[p])
<1>1. UNCHANGED typed
  BY DEF PodRead
<1>2. CASE UNCHANGED applied
  <2>1. UNCHANGED <<ReceivedKeys, PassedKeys>>
    BY <1>1, <1>2 DEF ReceivedKeys, PassedKeys
  <2>2. QED
    BY <1>1, <2>1 DEF LogVars
<1>3. CASE applied' = [applied EXCEPT ![p] = Append(@, f)]
  <2>1. /\ podq[p] \in Seq(Of(Stamped, p)) /\ podq[p] # <<>>
        /\ applied \in [Panes -> Seq(Frame)]
    BY DEF AtHome, Carried, PodRead, TypeOK, PodTypes
  <2>2. f \in Of(Stamped, p)
    BY <2>1, HeadTailProperties
  <2> HIDE DEF f
  <2>3. f \in Frame /\ \E j \in DOMAIN typed[p] : typed[p][j] = Key(f)
    BY <2>2 DEF Of, Stamped
  <2>4. PICK j \in DOMAIN typed[p] : typed[p][j] = Key(f)
    BY <2>3
  <2>5. /\ applied'[p] = Append(applied[p], f)
        /\ \A q \in Panes : q # p => applied'[q] = applied[q]
    BY <1>3, <2>1
  <2>6. /\ n \in Nat /\ DOMAIN applied[p] = 1 .. n
        /\ applied'[p] \in Seq(Frame) /\ applied'[p] # <<>>
        /\ Len(applied'[p]) = n + 1 /\ DOMAIN applied'[p] = 1 .. n + 1
        /\ \A i \in 1 .. n : applied'[p][i] = applied[p][i]
        /\ applied'[p][n + 1] = f
    <3>1. applied[p] \in Seq(Frame)
      BY <2>1
    <3>2. /\ Append(applied[p], f) \in Seq(Frame) /\ Append(applied[p], f) # <<>>
          /\ Len(Append(applied[p], f)) = n + 1
          /\ \A i \in 1 .. n : Append(applied[p], f)[i] = applied[p][i]
          /\ Append(applied[p], f)[n + 1] = f
      BY <2>3, <3>1, AppendProperties
    <3>3. QED
      BY <2>5, <3>1, <3>2, LenProperties
  <2> HIDE DEF n
  <2>7. j > PassedKeys[p]
    <3>1. CASE applied[p] = <<>>
      <4>1. PassedKeys[p] = 0
        BY <3>1, PassedIsOf DEF PassedOf
      <4>2. typed[p] \in Seq(Nat \X Nat)
        BY DEF TypeOK, HistoryTypes
      <4>3. j \in Nat /\ j >= 1
        BY <4>2, LenProperties
      <4>4. QED
        BY <4>1, <4>3
    <3>2. CASE applied[p] # <<>>
      <4>1. n \in DOMAIN applied[p] /\ n = Len(applied[p])
        BY <2>1, <2>6, <3>2, EmptySeq DEF n
      <4>2. PICK i \in DOMAIN typed[p] : typed[p][i] = Key(applied[p][n])
        BY <4>1, AppliedWasTyped
      <4>3. PassedKeys[p] = i
        BY <3>2, <4>1, <4>2, TypedAscends, LastIsPassed, PassedIsOf
      <4>4. Precedes(Key(applied[p][n]), Key(f))
        <5>1. n \in DOMAIN applied'[p] /\ n + 1 \in DOMAIN applied'[p] /\ n < n + 1
          BY <2>6, <4>1
        <5>2. Precedes(Key(applied'[p][n]), Key(applied'[p][n + 1]))
          BY <5>1 DEF AppliedOrder, InOrder
        <5>3. QED
          BY <2>6, <4>1, <5>2
      <4>5. i < j
        BY <2>4, <4>2, <4>4, TypedAscends, OneKey
      <4>6. i \in Nat /\ j \in Nat
        <5>1. typed[p] \in Seq(Nat \X Nat)
          BY DEF TypeOK, HistoryTypes
        <5>2. QED
          BY <5>1, LenProperties
      <4>7. QED
        BY <4>3, <4>5, <4>6
    <3>3. QED
      BY <3>1, <3>2
  <2>8. ReceivedKeys' = [ReceivedKeys EXCEPT ![p] = Append(@, typed[p][j])]
    <3> DEFINE r == [i \in DOMAIN applied[p] |-> Key(applied[p][i])]
               s == [i \in DOMAIN applied'[p] |-> Key(applied'[p][i])]
    <3>1. \A i \in 1 .. n : applied[p][i] \in Frame
      BY <2>1, <2>6, ElementOfSeq DEF n
    <3>2. r \in Seq(Nat \X Nat) /\ Len(r) = n
      <4>1. \A g \in Frame : Key(g) \in Nat \X Nat
        BY DEF Key, Frame
      <4>2. r \in [1 .. n -> Nat \X Nat]
        BY <2>6, <3>1, <4>1
      <4>3. QED
        BY <2>6, <4>2
    <3>3. Key(f) \in Nat \X Nat
      BY <2>3 DEF Key, Frame
    <3>4. s = Append(r, Key(f))
      <4> DEFINE a == Append(r, Key(f))
      <4> HIDE DEF r
      <4>1. /\ a \in Seq(Nat \X Nat) /\ Len(a) = n + 1
            /\ \A i \in 1 .. n : a[i] = r[i]
            /\ a[n + 1] = Key(f)
        BY <3>2, <3>3, AppendProperties
      <4> HIDE DEF a
      <4>2. DOMAIN a = 1 .. n + 1 /\ a = [i \in 1 .. n + 1 |-> a[i]]
        <5>1. a \in [1 .. n + 1 -> Nat \X Nat]
          BY <4>1, LenProperties
        <5>2. QED
          BY <5>1
      <4>3. \A i \in 1 .. n + 1 : Key(applied'[p][i]) = a[i]
        <5>1. \A i \in 1 .. n : Key(applied'[p][i]) = a[i]
          BY <2>6, <4>1 DEF r
        <5>2. Key(applied'[p][n + 1]) = a[n + 1]
          BY <2>6, <4>1
        <5>3. QED
          BY <2>6, <5>1, <5>2
      <4>4. s = a
        BY <2>6, <4>2, <4>3
      <4>5. QED
        BY <4>4 DEF a
    <3>5. ReceivedKeys'[p] = s /\ ReceivedKeys[p] = r
      BY DEF ReceivedKeys
    <3> HIDE DEF r, s
    <3>6. \A q \in Panes : q # p => ReceivedKeys'[q] = ReceivedKeys[q]
      BY <2>5 DEF ReceivedKeys
    <3>7. /\ ReceivedKeys = [q \in Panes |-> ReceivedKeys[q]]
          /\ ReceivedKeys' = [q \in Panes |-> ReceivedKeys'[q]]
      BY DEF ReceivedKeys
    <3>8. QED
      BY <2>4, <3>4, <3>5, <3>6, <3>7
  <2>9. PassedKeys' = [PassedKeys EXCEPT ![p] = j]
    <3>1. PassedKeys'[p] = j
      <4>1. Key(applied'[p][Len(applied'[p])]) = typed[p][j]
        BY <2>4, <2>6
      <4>2. PassedOf(typed[p], applied'[p]) = j
        BY <2>6, <4>1, TypedAscends, LastIsPassed
      <4>3. QED
        BY <1>1, <4>2, PassedIsOf
    <3>2. \A q \in Panes : q # p => PassedKeys'[q] = PassedKeys[q]
      BY <1>1, <2>5, PassedIsOf
    <3>3. QED
      BY <3>1, <3>2, PassedIsOf
  <2>10. QED
    BY <1>1, <2>7, <2>8, <2>9 DEF Log!Receive
<1>4. applied' = [applied EXCEPT ![p] = Append(@, f)] \/ UNCHANGED applied
  BY DEF PodRead, pod
<1>5. QED
  BY <1>2, <1>3, <1>4

\* A key typed is a new one, and moves nothing at the other end.
LEMMA TypeLogs ==
  ASSUME TypeOK, TypeOK', AtHome, AtHome', TypedSound, TypedSound',
         NEW p \in Panes, Type(p)
  PROVE  Log!TypeKey(p)
<1> DEFINE key == <<epoch, nextSeq + 1>>
           n   == Len(typed[p])
<1>1. /\ typed' = [typed EXCEPT ![p] = Append(@, key)]
      /\ n \in Nat /\ DOMAIN typed[p] = 1 .. n
      /\ DOMAIN typed'[p] = 1 .. n + 1
      /\ \A i \in 1 .. n : typed'[p][i] = typed[p][i]
      /\ typed'[p][n + 1] = key
      /\ \A q \in Panes : q # p => typed'[q] = typed[q]
  BY TypedGrows
<1>2. UNCHANGED applied
  BY DEF Type, pod
<1>3. epoch \in Nat /\ nextSeq \in Nat
  BY PathAssumption DEF PathAssumption, TypeOK, FrontendTypes
<1>4. key \in PossibleKeys
  <2>1. n + 1 \in DOMAIN typed'[p]
    BY <1>1
  <2>2. typed'[p][n + 1] \in PossibleKeys
    BY <2>1 DEF TypedSound, TypedInOrder
  <2>3. QED
    BY <1>1, <2>2
<1>5. \A q \in Panes : \A i \in DOMAIN typed[q] : typed[q][i] # key
  <2>1. \A q \in Panes : \A i \in DOMAIN typed[q] : ~ Precedes(<<epoch, nextSeq>>, typed[q][i])
    BY DEF TypedSound, TypedInOrder
  <2>2. Precedes(<<epoch, nextSeq>>, key)
    BY <1>3 DEF Precedes
  <2>3. QED
    BY <2>1, <2>2
<1>6. UNCHANGED ReceivedKeys
  BY <1>2 DEF ReceivedKeys
<1>7. UNCHANGED PassedKeys
  <2>1. ASSUME NEW q \in Panes  PROVE PassedKeys'[q] = PassedKeys[q]
    <3>1. CASE applied[q] = <<>>
      BY <1>2, <3>1, PassedIsOf DEF PassedOf
    <3>2. CASE applied[q] # <<>>
      <4>1. Len(applied[q]) \in DOMAIN applied[q]
        <5>1. applied[q] \in Seq(Frame)
          BY DEF TypeOK, PodTypes
        <5>2. QED
          BY <3>2, <5>1, EmptySeq, LenProperties
      <4>2. PICK i \in DOMAIN typed[q] : typed[q][i] = Key(applied[q][Len(applied[q])])
        BY <4>1, AppliedWasTyped
      <4>3. i \in DOMAIN typed'[q] /\ typed'[q][i] = typed[q][i]
        BY <1>1
      <4>4. PassedOf(typed[q], applied[q]) = i
        BY <3>2, <4>2, TypedAscends, LastIsPassed DEF TypedSound
      <4>5. PassedOf(typed'[q], applied[q]) = i
        <5>1. typed'[q] \in Seq(Nat \X Nat) /\ Ascending(typed'[q])
          BY DEF TypeOK, HistoryTypes, TypedSound, TypedInOrder, Ascending
        <5>2. typed'[q][i] = Key(applied[q][Len(applied[q])])
          BY <4>2, <4>3
        <5>3. QED
          BY <3>2, <4>3, <5>1, <5>2, LastIsPassed
      <4>6. QED
        BY <1>2, <4>4, <4>5, PassedIsOf
    <3>3. QED
      BY <3>1, <3>2
  <2>2. QED
    BY <2>1, PassedIsOf
<1>8. QED
  BY <1>1, <1>4, <1>5, <1>6, <1>7 DEF Log!TypeKey, PossibleKeys

\* Every step of the path is a step of the log, or none.
LEMMA LogStep ==
  ASSUME TypeOK, TypeOK', InFlightCurrent, AppliedOrder, AppliedOrder',
         AtHome, AtHome', TypedSound, TypedSound', [Next]_vars
  PROVE  [Log!Next]_LogVars
<1>1. \/ UNCHANGED <<typed, applied>>
      \/ \E p \in Panes : Type(p) \/ PodRead(p)
  BY DEF Next, vars, pod, Flush, MuxBacklogEnd, SesRoute, ReconnectVtOnly, FullReattach,
     VtLost, CtlLost, SesRestart, FrontendRestart, RedialPod, SesForwardEnd,
     PodVtLost, EndDropped, PtyFull
<1>2. CASE UNCHANGED <<typed, applied>>
  BY <1>2, PassedIsOf DEF LogVars, ReceivedKeys
<1>3. ASSUME NEW p \in Panes, Type(p)  PROVE Log!Next
  BY <1>3, TypeLogs DEF Log!Next
<1>4. ASSUME NEW p \in Panes, PodRead(p)  PROVE [Log!Next]_LogVars
  BY <1>4, ReadReceives DEF Log!Next, TypedSound
<1>5. QED
  BY <1>1, <1>2, <1>3, <1>4

\* While the pane ids stand, the path from the keyboard to the shells is the
\* input log: the keys a shell receives are keys typed into its pane, in their
\* order, some of them perhaps lost.  No reconnect, resend, overflow or change
\* of frontend shows at the ends as anything else.
THEOREM PathImplementsLog == StableIds => (Spec => ImplementsInputLog)
<1> SUFFICES ASSUME StableIds PROVE Spec => ImplementsInputLog
  OBVIOUS
<1> DEFINE IInv == TypeOK /\ InFlightCurrent /\ AppliedOrder /\ AtHome /\ TypedSound
<1>1. Init => IInv
  BY TypeInit, OrderInit, AtHomeInit, TypedInit
<1>2. IInv /\ [Next]_vars => IInv'
  BY TypeStep, InFlightStep, OrderStep, AtHomeStep, TypedStep
<1>3. Init => Log!Init
  BY PassedIsOf DEF Init, Log!Init, ReceivedKeys, PassedOf
<1>4. IInv /\ IInv' /\ [Next]_vars => [Log!Next]_(Log!vars)
  BY LogStep DEF LogVars, Log!vars
<1>5. QED
  BY <1>1, <1>2, <1>3, <1>4, PTL DEF Spec, ImplementsInputLog, Log!Spec
-----------------------------------------------------------------------------
(* Nothing is lost before the first fault. *)

\* The keys for pane p in a sequence of frames, and that they ascend.
KeysOf(s, p) == {Key(s[i]) : i \in PlacesFor(s, p)}

InKeyOrder(s, p) ==
  \A i, j \in PlacesFor(s, p) : i < j => Precedes(Key(s[i]), Key(s[j]))

AllPrecede(A, B) == \A a \in A : \A b \in B : Precedes(a, b)

\* To pane p the two sequences are the same.
Alike(s, t, p) == KeysOf(s, p) = KeysOf(t, p) /\ (InKeyOrder(s, p) <=> InKeyOrder(t, p))

\* Joined sequences hold the keys of both, in order if each one is and the
\* keys of the first precede those of the second.
LEMMA JoinedKeys ==
  ASSUME NEW s \in Seq(Frame), NEW t \in Seq(Frame), NEW p
  PROVE  /\ KeysOf(s \o t, p) = KeysOf(s, p) \union KeysOf(t, p)
         /\ InKeyOrder(s \o t, p) <=>
              /\ InKeyOrder(s, p) /\ InKeyOrder(t, p)
              /\ AllPrecede(KeysOf(s, p), KeysOf(t, p))
<1> DEFINE u == s \o t
           m == Len(s)
           n == Len(t)
<1>1. /\ m \in Nat /\ n \in Nat /\ DOMAIN s = 1 .. m /\ DOMAIN t = 1 .. n
      /\ DOMAIN u = 1 .. m + n
      /\ \A i \in 1 .. m + n : u[i] = IF i <= m THEN s[i] ELSE t[i - m]
  BY ConcatProperties, LenProperties
<1> HIDE DEF u, m, n
<1>2. \A i \in 1 .. m : i \in 1 .. m + n /\ u[i] = s[i]
  BY <1>1
<1>3. \A j \in 1 .. n : m + j \in 1 .. m + n /\ u[m + j] = t[j]
  BY <1>1
<1>4. \A i \in 1 .. m + n : i \in 1 .. m \/ \E j \in 1 .. n : i = m + j
  <2>1. SUFFICES ASSUME NEW i \in 1 .. m + n, ~(i <= m)  PROVE \E j \in 1 .. n : i = m + j
    BY <1>1
  <2>2. i - m \in 1 .. n /\ i = m + (i - m)
    BY <1>1, <2>1
  <2>3. QED
    BY <2>2
<1>5. /\ PlacesFor(s, p) = {i \in 1 .. m : s[i].pane = p}
      /\ PlacesFor(t, p) = {i \in 1 .. n : t[i].pane = p}
      /\ PlacesFor(u, p) = {i \in 1 .. m + n : u[i].pane = p}
  BY <1>1 DEF PlacesFor
<1>6. /\ \A i \in PlacesFor(s, p) : i \in PlacesFor(u, p) /\ u[i] = s[i]
      /\ \A j \in PlacesFor(t, p) : m + j \in PlacesFor(u, p) /\ u[m + j] = t[j]
      /\ \A i \in PlacesFor(u, p) :
           i \in PlacesFor(s, p) \/ \E j \in PlacesFor(t, p) : i = m + j
  BY <1>2, <1>3, <1>4, <1>5
<1>7. KeysOf(u, p) = KeysOf(s, p) \union KeysOf(t, p)
  BY <1>6 DEF KeysOf
<1>8. ASSUME InKeyOrder(u, p)
      PROVE  InKeyOrder(s, p) /\ InKeyOrder(t, p) /\ AllPrecede(KeysOf(s, p), KeysOf(t, p))
  <2>1. InKeyOrder(s, p)
    BY <1>6, <1>8 DEF InKeyOrder
  <2>2. InKeyOrder(t, p)
    <3>1. \A i, j \in PlacesFor(t, p) : i < j => m + i < m + j
      BY <1>1, <1>5
    <3>2. QED
      BY <1>6, <1>8, <3>1 DEF InKeyOrder
  <2>3. ASSUME NEW i \in PlacesFor(s, p), NEW j \in PlacesFor(t, p)
        PROVE  Precedes(Key(s[i]), Key(t[j]))
    <3>1. i < m + j
      BY <1>1, <1>5
    <3>2. QED
      BY <1>6, <1>8, <3>1 DEF InKeyOrder
  <2>4. QED
    BY <2>1, <2>2, <2>3 DEF AllPrecede, KeysOf
<1>9. ASSUME InKeyOrder(s, p), InKeyOrder(t, p), AllPrecede(KeysOf(s, p), KeysOf(t, p)),
             NEW i \in PlacesFor(u, p), NEW j \in PlacesFor(u, p), i < j
      PROVE  Precedes(Key(u[i]), Key(u[j]))
  <2>1. CASE i \in PlacesFor(s, p) /\ j \in PlacesFor(s, p)
    BY <1>6, <1>9, <2>1 DEF InKeyOrder
  <2>2. CASE i \in PlacesFor(s, p) /\ \E k \in PlacesFor(t, p) : j = m + k
    <3>1. PICK k \in PlacesFor(t, p) : j = m + k
      BY <2>2
    <3>2. Key(s[i]) \in KeysOf(s, p) /\ Key(t[k]) \in KeysOf(t, p)
      BY <2>2 DEF KeysOf
    <3>3. u[i] = s[i] /\ u[j] = t[k]
      BY <1>6, <2>2, <3>1
    <3>4. QED
      BY <1>9, <3>2, <3>3 DEF AllPrecede
  <2>3. CASE (\E k \in PlacesFor(t, p) : i = m + k) /\ j \in PlacesFor(s, p)
    BY <1>1, <1>5, <1>9, <2>3
  <2>4. ASSUME NEW k \in PlacesFor(t, p), i = m + k, NEW l \in PlacesFor(t, p), j = m + l
        PROVE  Precedes(Key(u[i]), Key(u[j]))
    <3>1. k < l
      BY <1>1, <1>5, <1>9, <2>4
    <3>2. QED
      BY <1>6, <1>9, <2>4, <3>1 DEF InKeyOrder
  <2>5. QED
    BY <1>6, <2>1, <2>2, <2>3, <2>4
<1>10. QED
  BY <1>7, <1>8, <1>9 DEF u, InKeyOrder

\* What is alike stays alike among the same neighbours.
LEMMA AlikeBetween ==
  ASSUME NEW s \in Seq(Frame), NEW t \in Seq(Frame), NEW p, Alike(s, t, p),
         NEW a \in Seq(Frame), NEW b \in Seq(Frame)
  PROVE  Alike((a \o s) \o b, (a \o t) \o b, p)
<1>1. ASSUME NEW c \in Seq(Frame), NEW d \in Seq(Frame), NEW e \in Seq(Frame),
             Alike(c, d, p)
      PROVE  Alike(e \o c, e \o d, p) /\ Alike(c \o e, d \o e, p)
  <2>1. /\ KeysOf(e \o c, p) = KeysOf(e, p) \union KeysOf(c, p)
        /\ InKeyOrder(e \o c, p) <=>
             /\ InKeyOrder(e, p) /\ InKeyOrder(c, p)
             /\ AllPrecede(KeysOf(e, p), KeysOf(c, p))
    BY JoinedKeys
  <2>2. /\ KeysOf(e \o d, p) = KeysOf(e, p) \union KeysOf(d, p)
        /\ InKeyOrder(e \o d, p) <=>
             /\ InKeyOrder(e, p) /\ InKeyOrder(d, p)
             /\ AllPrecede(KeysOf(e, p), KeysOf(d, p))
    BY JoinedKeys
  <2>3. /\ KeysOf(c \o e, p) = KeysOf(c, p) \union KeysOf(e, p)
        /\ InKeyOrder(c \o e, p) <=>
             /\ InKeyOrder(c, p) /\ InKeyOrder(e, p)
             /\ AllPrecede(KeysOf(c, p), KeysOf(e, p))
    BY JoinedKeys
  <2>4. /\ KeysOf(d \o e, p) = KeysOf(d, p) \union KeysOf(e, p)
        /\ InKeyOrder(d \o e, p) <=>
             /\ InKeyOrder(d, p) /\ InKeyOrder(e, p)
             /\ AllPrecede(KeysOf(d, p), KeysOf(e, p))
    BY JoinedKeys
  <2>5. QED
    BY <1>1, <2>1, <2>2, <2>3, <2>4 DEF Alike
<1>2. a \o s \in Seq(Frame) /\ a \o t \in Seq(Frame)
  BY ConcatProperties
<1>3. QED
  BY <1>1, <1>2

\* The head of a queue is nothing to the panes it is not for.
LEMMA OthersSkip ==
  ASSUME NEW s \in Seq(Frame), s # <<>>, NEW p, Head(s).pane # p
  PROVE  Alike(s, Tail(s), p)
<1> DEFINE t == Tail(s)
           n == Len(s)
<1>1. /\ n \in Nat \ {0} /\ DOMAIN s = 1 .. n
      /\ t \in Seq(Frame) /\ Len(t) = n - 1 /\ DOMAIN t = 1 .. n - 1
      /\ \A i \in 1 .. n - 1 : t[i] = s[i + 1]
      /\ s[1].pane # p
  BY LenProperties, EmptySeq, HeadTailProperties
<1> HIDE DEF t, n
<1>2. \A i \in PlacesFor(t, p) : i \in Nat /\ i + 1 \in PlacesFor(s, p) /\ s[i + 1] = t[i]
  BY <1>1 DEF PlacesFor
<1>3. ASSUME NEW i \in PlacesFor(s, p)
      PROVE  i \in Nat /\ i - 1 \in PlacesFor(t, p) /\ t[i - 1] = s[i]
  <2>1. i \in 1 .. n /\ i # 1 /\ s[i].pane = p
    BY <1>1 DEF PlacesFor
  <2>2. i - 1 \in 1 .. n - 1 /\ (i - 1) + 1 = i
    BY <1>1, <2>1
  <2>3. t[i - 1] = s[i]
    BY <1>1, <2>2
  <2>4. QED
    BY <1>1, <2>1, <2>2, <2>3 DEF PlacesFor
<1>4. KeysOf(s, p) = KeysOf(t, p)
  BY <1>2, <1>3 DEF KeysOf
<1>5. ASSUME InKeyOrder(s, p), NEW i \in PlacesFor(t, p), NEW j \in PlacesFor(t, p), i < j
      PROVE  Precedes(Key(t[i]), Key(t[j]))
  <2>1. i + 1 < j + 1
    BY <1>2, <1>5
  <2>2. QED
    BY <1>2, <1>5, <2>1 DEF InKeyOrder
<1>6. ASSUME InKeyOrder(t, p), NEW i \in PlacesFor(s, p), NEW j \in PlacesFor(s, p), i < j
      PROVE  Precedes(Key(s[i]), Key(s[j]))
  <2>1. i - 1 < j - 1
    BY <1>3, <1>6
  <2>2. QED
    BY <1>3, <1>6, <2>1 DEF InKeyOrder
<1>7. QED
  BY <1>4, <1>5, <1>6 DEF Alike, InKeyOrder, t

\* A frame put at the end adds its key for its own pane only.
LEMMA AddedKey ==
  ASSUME NEW s \in Seq(Frame), NEW f \in Frame, NEW p
  PROVE  /\ f.pane # p => Alike(Append(s, f), s, p)
         /\ f.pane = p => KeysOf(Append(s, f), p) = KeysOf(s, p) \union {Key(f)}
         /\ f.pane = p /\ InKeyOrder(s, p) /\ (\A k \in KeysOf(s, p) : Precedes(k, Key(f)))
              => InKeyOrder(Append(s, f), p)
<1> DEFINE t == <<f>>
<1>1. t \in Seq(Frame) /\ Append(s, f) = s \o t
  BY AppendIsConcat
<1>2. DOMAIN t = {1} /\ t[1] = f
  OBVIOUS
<1> HIDE DEF t
<1>3. InKeyOrder(t, p)
  BY <1>2 DEF InKeyOrder, PlacesFor
<1>4. /\ f.pane # p => KeysOf(t, p) = {}
      /\ f.pane = p => KeysOf(t, p) = {Key(f)}
  <2>1. f.pane # p => PlacesFor(t, p) = {}
    BY <1>2 DEF PlacesFor
  <2>2. f.pane = p => PlacesFor(t, p) = {1}
    BY <1>2 DEF PlacesFor
  <2>3. QED
    BY <1>2, <2>1, <2>2 DEF KeysOf
<1>5. /\ KeysOf(Append(s, f), p) = KeysOf(s, p) \union KeysOf(t, p)
      /\ InKeyOrder(Append(s, f), p) <=>
           InKeyOrder(s, p) /\ AllPrecede(KeysOf(s, p), KeysOf(t, p))
  BY <1>1, <1>3, JoinedKeys
<1>6. QED
  BY <1>4, <1>5 DEF Alike, AllPrecede

\* Taking the head of a queue to the end of the one before leaves the two
\* together as they are.
LEMMA HeadMoves ==
  ASSUME NEW S, NEW a \in Seq(S), NEW s \in Seq(S), s # <<>>
  PROVE  Append(a, Head(s)) \o Tail(s) = a \o s
<1> DEFINE h == <<Head(s)>>
           t == Tail(s)
<1>1. Head(s) \in S /\ t \in Seq(S) /\ h \in Seq(S)
  BY HeadTailProperties
<1>2. Append(a, Head(s)) = a \o h
  BY <1>1, AppendIsConcat
<1>3. h \o t = s
  <2>1. /\ Len(h) = 1 /\ h[1] = s[1]
        /\ Len(s) \in Nat \ {0} /\ Len(t) = Len(s) - 1
        /\ \A i \in 1 .. Len(t) : t[i] = s[i + 1]
    BY LenProperties, EmptySeq, HeadTailProperties
  <2>2. /\ h \o t \in Seq(S) /\ Len(h \o t) = Len(h) + Len(t)
        /\ \A i \in 1 .. Len(h) + Len(t) :
             (h \o t)[i] = IF i <= Len(h) THEN h[i] ELSE t[i - Len(h)]
    BY <1>1, ConcatProperties
  <2> DEFINE u == h \o t
  <2> HIDE DEF h, t, u
  <2>3. u \in Seq(S) /\ Len(u) = Len(s)
    BY <2>1, <2>2 DEF u
  <2>4. ASSUME NEW i \in 1 .. Len(s)  PROVE u[i] = s[i]
    <3>1. u[i] = IF i <= 1 THEN h[i] ELSE t[i - 1]
      BY <2>1, <2>2 DEF u
    <3>2. CASE i = 1
      BY <2>1, <3>1, <3>2
    <3>3. CASE i # 1
      <4>1. i - 1 \in 1 .. Len(t) /\ ~(i <= 1) /\ (i - 1) + 1 = i
        BY <2>1, <3>3
      <4>2. QED
        BY <2>1, <3>1, <4>1
    <3>4. QED
      BY <3>2, <3>3
  <2>5. QED
    BY <2>3, <2>4, SeqEqual DEF u
<1>4. QED
  BY <1>1, <1>2, <1>3, ConcatAssociative

\* A flush moves frames from the live queue to the end of what is on its way,
\* whatever part of it the socket takes.
LEMMA FlushMoves ==
  ASSUME NEW q \in Seq(Frame), up \in Seq(Frame), NEW partial \in BOOLEAN,
         FlushTo(q, partial)
  PROVE  up' \o queue' = up \o q
<1>1. CASE vtUp
  <2>1. PICK w \in Writes(q, partial) :
          /\ up' = up \o Written(q, w[1])
          /\ queue' = Unwritten(q, w[1])
    BY <1>1 DEF FlushTo
  <2> DEFINE n == w[1]
             a == Written(q, n)
             b == Unwritten(q, n)
  <2>2. Len(q) \in Nat /\ n \in 0 .. Len(q)
    BY WritesInRange, LenProperties
  <2>3. a \in Seq(Frame) /\ b \in Seq(Frame)
    BY <2>2, SplitKeeps
  <2>4. a \o b = q
    <3>1. /\ Len(a) = n /\ \A i \in 1 .. n : a[i] = q[i]
          /\ Len(b) = Len(q) - n /\ \A i \in 1 .. Len(q) - n : b[i] = q[n + i]
      <4>1. \A i \in 1 .. Len(q) : q[i] \in Frame
        BY ElementOfSeq
      <4>2. Len(a) = n /\ \A i \in 1 .. n : a[i] = q[i]
        BY <2>2, <4>1, SubSeqProperties DEF Written
      <4>3. Len(b) = Len(q) - n /\ \A i \in 1 .. Len(q) - n : b[i] = q[n + i]
        BY <2>2, <4>1, SubSeqProperties DEF Unwritten
      <4>4. QED
        BY <4>2, <4>3
    <3>2. /\ a \o b \in Seq(Frame) /\ Len(a \o b) = Len(a) + Len(b)
          /\ \A i \in 1 .. Len(a) + Len(b) :
               (a \o b)[i] = IF i <= Len(a) THEN a[i] ELSE b[i - Len(a)]
      BY <2>3, ConcatProperties
    <3> DEFINE u == a \o b
    <3> HIDE DEF n, a, b, u
    <3>3. u \in Seq(Frame) /\ Len(u) = Len(q)
      BY <2>2, <3>1, <3>2 DEF u
    <3>4. ASSUME NEW i \in 1 .. Len(q)  PROVE u[i] = q[i]
      <4>1. u[i] = IF i <= n THEN a[i] ELSE b[i - n]
        BY <2>2, <3>1, <3>2 DEF u
      <4>2. CASE i <= n
        BY <2>2, <3>1, <4>1, <4>2
      <4>3. CASE ~(i <= n)
        <5>1. i - n \in 1 .. Len(q) - n /\ n + (i - n) = i
          BY <2>2, <4>3
        <5>2. QED
          BY <3>1, <4>1, <4>3, <5>1
      <4>4. QED
        BY <4>2, <4>3
    <3>5. QED
      BY <3>3, <3>4, SeqEqual DEF u
  <2>5. (up \o a) \o b = up \o (a \o b)
    BY <2>3, ConcatAssociative
  <2>6. QED
    BY <2>1, <2>4, <2>5
<1>2. CASE ~vtUp
  BY <1>2 DEF FlushTo
<1>3. QED
  BY <1>1, <1>2

Path(p) == ((applied[p] \o podq[p]) \o up) \o queue

Addressed == {f \in Frame : f.id = podId[f.pane]}

\* What is so until something goes wrong: every channel is up, no repair is
\* under way, every frame in flight names the pane it goes to, and a pod's
\* filter stands at a frame that the pod has applied.
Undisturbed ==
  /\ vtUp /\ ctlUp /\ toMux = <<>> /\ needsReplay = {} /\ ending = {}
  /\ podConn = [p \in Panes |-> TRUE] /\ view = podId
  /\ queue \in Seq(Addressed) /\ up \in Seq(Addressed)
  /\ \A p \in Panes : podq[p] \in Seq(Of(Addressed, p))
  /\ \A p \in Panes :
       \/ dedup[p].epoch = 0
       \/ <<dedup[p].epoch, dedup[p].seq>> \in KeysOf(applied[p], p)

TypedKeys(p) == {typed[p][m] : m \in DOMAIN typed[p]}

AllOnTheWay ==
  \A p \in Panes : KeysOf(Path(p), p) = TypedKeys(p) /\ InKeyOrder(Path(p), p)

Calm == faults = 0 => Undisturbed /\ AllOnTheWay

\* A step that is no fault, from a state without one, is typing, a flush, or
\* the way of one frame through SES or a pod.
LEMMA CalmSteps ==
  ASSUME TypeOK, Undisturbed, faults = 0, faults' = 0, [Next]_vars
  PROVE  \/ UNCHANGED vars \/ Flush \/ SesRoute
         \/ \E p \in Panes : Type(p) \/ PodRead(p)
BY DEF Undisturbed, Next, MuxBacklogEnd, ReconnectVtOnly, FullReattach, VtLost, CtlLost,
   SesRestart, FrontendRestart, RedialPod, SesForwardEnd, PodVtLost, EndDropped, PtyFull, Fault

\* Of three queues in a row it does not matter which two are taken together.
LEMMA ThreeInARow ==
  \A c, d, e \in Seq(Frame) : (c \o d) \o e = c \o (d \o e)
<1>1. SUFFICES ASSUME NEW c \in Seq(Frame), NEW d \in Seq(Frame), NEW e \in Seq(Frame)
               PROVE  (c \o d) \o e = c \o (d \o e)
  OBVIOUS
<1>2. QED
  BY ConcatAssociative

\* The parts of a path.
LEMMA PathParts ==
  ASSUME TypeOK, NEW p \in Panes
  PROVE  /\ applied[p] \in Seq(Frame) /\ podq[p] \in Seq(Frame)
         /\ up \in Seq(Frame) /\ queue \in Seq(Frame)
         /\ applied[p] \o podq[p] \in Seq(Frame)
         /\ up \o queue \in Seq(Frame)
         /\ Path(p) \in Seq(Frame)
         /\ Path(p) = (applied[p] \o podq[p]) \o (up \o queue)
<1>1. /\ applied[p] \in Seq(Frame) /\ podq[p] \in Seq(Frame)
      /\ up \in Seq(Frame) /\ queue \in Seq(Frame)
  BY DEF TypeOK, PodTypes, SesTypes, LinkTypes, FrontendTypes
<1>2. applied[p] \o podq[p] \in Seq(Frame) /\ up \o queue \in Seq(Frame)
  BY <1>1, ConcatProperties
<1>3. (applied[p] \o podq[p]) \o up \in Seq(Frame)
  BY <1>1, <1>2, ConcatProperties
<1>4. Path(p) \in Seq(Frame)
  BY <1>1, <1>3, ConcatProperties DEF Path
<1>5. Path(p) = (applied[p] \o podq[p]) \o (up \o queue)
  <2> DEFINE a == applied[p] \o podq[p]
  <2>1. a \in Seq(Frame) /\ Path(p) = (a \o up) \o queue
    BY <1>2 DEF Path
  <2> HIDE DEF a
  <2>2. (a \o up) \o queue = a \o (up \o queue)
    BY <1>1, <2>1, ThreeInARow
  <2>3. QED
    BY <2>1, <2>2 DEF a
<1>6. QED
  BY <1>1, <1>2, <1>4, <1>5

\* A key typed enters the path at its end, later than all before it.
LEMMA TypeOnTheWay ==
  ASSUME TypeOK, TypeOK', TypedSound, Undisturbed, AllOnTheWay, NEW p \in Panes, Type(p)
  PROVE  Undisturbed' /\ AllOnTheWay'
<1> DEFINE f == [id |-> view[p], epoch |-> epoch, seq |-> nextSeq + 1, pane |-> p]
<1>1. /\ f \in Frame /\ f.pane = p /\ Key(f) = <<epoch, nextSeq + 1>>
      /\ f \in Addressed
  BY PathAssumption
     DEF PathAssumption, Type, Key, Frame, Addressed, Undisturbed, TypeOK, FrontendTypes
<1>2. /\ FlushTo(Append(queue, f), headPartial)
      /\ UNCHANGED <<view, vtUp, ctlUp, toMux, podId, podConn, needsReplay, podq, ending,
                     dedup, applied>>
  BY DEF Type, ses, pod
<1> HIDE DEF f
<1>3. /\ queue \in Seq(Frame) /\ up \in Seq(Frame) /\ headPartial \in BOOLEAN
      /\ epoch \in Nat /\ nextSeq \in Nat
  BY PathAssumption DEF PathAssumption, TypeOK, FrontendTypes, LinkTypes
<1>4. Undisturbed'
  <2>1. Append(queue, f) \in Seq(Addressed)
    BY <1>1, AppendProperties DEF Undisturbed
  <2>2. queue' \in Seq(Addressed) /\ up' \in Seq(Addressed)
    BY <1>2, <1>3, <2>1, FlushKeeps DEF Undisturbed
  <2>3. Addressed' = Addressed
    BY <1>2 DEF Addressed
  <2>4. QED
    BY <1>2, <2>2, <2>3 DEF Undisturbed
<1>5. up' \o queue' = Append(up \o queue, f)
  <2>1. Append(queue, f) \in Seq(Frame) /\ Append(queue, f) = queue \o <<f>>
        /\ up \o queue \in Seq(Frame) /\ <<f>> \in Seq(Frame)
    BY <1>1, <1>3, AppendProperties, AppendIsConcat, ConcatProperties
  <2>2. up' \o queue' = up \o (queue \o <<f>>)
    BY <1>2, <1>3, <2>1, FlushMoves
  <2>3. up \o (queue \o <<f>>) = (up \o queue) \o <<f>>
    BY <1>3, <2>1, ConcatAssociative
  <2>4. QED
    BY <1>1, <2>1, <2>2, <2>3, AppendIsConcat
<1>6. ASSUME NEW q \in Panes  PROVE Path(q)' = Append(Path(q), f)
  <2> DEFINE a == applied[q] \o podq[q]
             b == up \o queue
  <2>1. Path(q) = a \o b /\ a \in Seq(Frame) /\ b \in Seq(Frame)
    BY PathParts
  <2>2. Path(q)' = (applied'[q] \o podq'[q]) \o (up' \o queue')
    <3>1. /\ applied'[q] \in Seq(Frame) /\ podq'[q] \in Seq(Frame)
          /\ up' \in Seq(Frame) /\ queue' \in Seq(Frame)
      BY DEF TypeOK, PodTypes, SesTypes, LinkTypes, FrontendTypes
    <3>2. applied'[q] \o podq'[q] \in Seq(Frame)
      BY <3>1, ConcatProperties
    <3>3. QED
      BY <3>1, <3>2, ThreeInARow DEF Path
  <2>3. Path(q)' = a \o Append(b, f)
    BY <1>2, <1>5, <2>2
  <2> HIDE DEF a, b
  <2>4. /\ <<f>> \in Seq(Frame) /\ Append(b, f) = b \o <<f>>
        /\ a \o b \in Seq(Frame)
    BY <1>1, <2>1, AppendIsConcat, ConcatProperties
  <2>5. a \o (b \o <<f>>) = (a \o b) \o <<f>>
    BY <2>1, <2>4, ConcatAssociative
  <2>6. QED
    BY <1>1, <2>1, <2>3, <2>4, <2>5, AppendIsConcat
<1>7. /\ TypedKeys(p)' = TypedKeys(p) \union {Key(f)}
      /\ \A q \in Panes : q # p => TypedKeys(q)' = TypedKeys(q)
      /\ \A k \in TypedKeys(p) : Precedes(k, Key(f))
  <2> DEFINE n == Len(typed[p])
  <2>1. /\ n \in Nat /\ DOMAIN typed[p] = 1 .. n /\ DOMAIN typed'[p] = 1 .. n + 1
        /\ \A i \in 1 .. n : typed'[p][i] = typed[p][i]
        /\ typed'[p][n + 1] = Key(f)
        /\ \A q \in Panes : q # p => typed'[q] = typed[q]
    BY <1>1, TypedGrows
  <2> HIDE DEF n
  <2>2. 1 .. n + 1 = 1 .. n \union {n + 1}
    BY <2>1
  <2>3. TypedKeys(p)' = TypedKeys(p) \union {Key(f)}
    BY <2>1, <2>2 DEF TypedKeys
  <2>4. \A q \in Panes : q # p => TypedKeys(q)' = TypedKeys(q)
    BY <2>1 DEF TypedKeys
  <2>5. \A k \in PossibleKeys : ~ Precedes(<<epoch, nextSeq>>, k) => Precedes(k, Key(f))
    BY <1>1, <1>3 DEF PossibleKeys, Precedes
  <2>6. \A k \in TypedKeys(p) : Precedes(k, Key(f))
    BY <2>5 DEF TypedKeys, TypedSound, TypedInOrder
  <2>7. QED
    BY <2>3, <2>4, <2>6
<1>8. ASSUME NEW q \in Panes
      PROVE  KeysOf(Path(q)', q) = TypedKeys(q)' /\ InKeyOrder(Path(q)', q)
  <2>1. Path(q) \in Seq(Frame) /\ KeysOf(Path(q), q) = TypedKeys(q) /\ InKeyOrder(Path(q), q)
    BY PathParts DEF AllOnTheWay
  <2>2. CASE q = p
    <3>1. \A k \in KeysOf(Path(q), q) : Precedes(k, Key(f))
      BY <1>7, <2>1, <2>2
    <3>2. KeysOf(Append(Path(q), f), q) = KeysOf(Path(q), q) \union {Key(f)}
      BY <1>1, <2>1, <2>2, AddedKey
    <3>3. InKeyOrder(Append(Path(q), f), q)
      BY <1>1, <2>1, <2>2, <3>1, AddedKey
    <3>4. QED
      BY <1>6, <1>7, <2>1, <2>2, <3>2, <3>3
  <2>3. CASE q # p
    <3>1. Alike(Append(Path(q), f), Path(q), q)
      BY <1>1, <2>1, <2>3, AddedKey
    <3>2. QED
      BY <1>6, <1>7, <2>1, <2>3, <3>1 DEF Alike
  <2>4. QED
    BY <2>2, <2>3
<1>9. AllOnTheWay'
  BY <1>8 DEF AllOnTheWay, KeysOf, InKeyOrder
<1>10. QED
  BY <1>4, <1>9

\* As long as the paths and what was typed stay, nothing is lost.
LEMMA SamePaths ==
  ASSUME AllOnTheWay,
         \A q \in Panes : Path(q)' = Path(q) /\ TypedKeys(q)' = TypedKeys(q)
  PROVE  AllOnTheWay'
<1>1. ASSUME NEW q \in Panes
      PROVE  KeysOf(Path(q)', q) = TypedKeys(q)' /\ InKeyOrder(Path(q)', q)
  BY DEF AllOnTheWay
<1>2. QED
  BY <1>1 DEF AllOnTheWay, KeysOf, InKeyOrder

\* A flush leaves every path as it is.
LEMMA FlushOnTheWay ==
  ASSUME TypeOK, TypeOK', Undisturbed, AllOnTheWay, Flush
  PROVE  Undisturbed' /\ AllOnTheWay'
<1>1. /\ FlushTo(queue, headPartial)
      /\ UNCHANGED <<view, vtUp, ctlUp, toMux, podId, podConn, needsReplay, podq, ending,
                     dedup, applied, typed>>
  BY DEF Flush, ses, pod
<1>2. queue \in Seq(Frame) /\ up \in Seq(Frame) /\ headPartial \in BOOLEAN
  BY DEF TypeOK, FrontendTypes, LinkTypes
<1>3. Undisturbed'
  <2>1. queue' \in Seq(Addressed) /\ up' \in Seq(Addressed)
    BY <1>1, <1>2, FlushKeeps DEF Undisturbed
  <2>2. Addressed' = Addressed
    BY <1>1 DEF Addressed
  <2>3. QED
    BY <1>1, <2>1, <2>2 DEF Undisturbed
<1>4. up' \o queue' = up \o queue
  BY <1>1, <1>2, FlushMoves
<1>5. ASSUME NEW q \in Panes  PROVE Path(q)' = Path(q)
  <2>1. Path(q) = (applied[q] \o podq[q]) \o (up \o queue)
    BY PathParts
  <2>2. /\ applied[q] \o podq[q] \in Seq(Frame)
        /\ up' \in Seq(Frame) /\ queue' \in Seq(Frame)
    BY PathParts DEF TypeOK, FrontendTypes, LinkTypes
  <2>3. Path(q)' = (applied[q] \o podq[q]) \o (up' \o queue')
    BY <1>1, <2>2, ThreeInARow DEF Path
  <2>4. QED
    BY <1>4, <2>1, <2>3
<1>6. AllOnTheWay'
  <2>1. \A q \in Panes : TypedKeys(q)' = TypedKeys(q)
    BY <1>1 DEF TypedKeys
  <2>2. QED
    BY <1>5, <2>1, SamePaths
<1>7. QED
  BY <1>3, <1>6

\* SES takes the head of what is on its way to the pod of its own pane: that
\* pane's path stays as it is, and to the others the frame was nothing.
LEMMA RouteOnTheWay ==
  ASSUME TypeOK, TypeOK', Undisturbed, AllOnTheWay, faults = 0, faults' = 0, SesRoute
  PROVE  Undisturbed' /\ AllOnTheWay'
<1> DEFINE h == Head(up)
<1>1. /\ up # <<>> /\ up' = Tail(up)
      /\ UNCHANGED <<view, vtUp, ctlUp, toMux, podId, dedup, applied, typed, queue>>
  BY DEF SesRoute, frontend, pod
<1>2. /\ up \in Seq(Frame) /\ queue \in Seq(Frame)
      /\ podq \in [Panes -> Seq(Frame)] /\ applied \in [Panes -> Seq(Frame)]
      /\ podId \in Injections(Panes, PaneIds)
  BY DEF TypeOK, FrontendTypes, LinkTypes, SesTypes, PodTypes
<1>3. h \in Addressed /\ Tail(up) \in Seq(Addressed)
  BY <1>1, HeadTailProperties DEF Undisturbed
<1>4. PICK p \in Panes : h \in Frame /\ h.pane = p /\ h.id = podId[p]
  BY <1>3 DEF Addressed, Frame
<1>5. Routed(h) = {p}
  BY <1>2, <1>4 DEF Routed, Undisturbed, Injections
<1>6. /\ podq' = [podq EXCEPT ![p] = Append(@, h)]
      /\ UNCHANGED <<podConn, ending, needsReplay>>
  <2>1. \/ Routed(h) = {}
        \/ \E q \in Routed(h) :
             \/ /\ podq' = [podq EXCEPT ![q] = Append(@, h)]
                /\ UNCHANGED <<podConn, ending, needsReplay>>
             \/ faults' = faults + 1
    BY DEF SesRoute
  <2>2. faults' # faults + 1
    OBVIOUS
  <2>3. QED
    BY <1>5, <2>1, <2>2
<1> HIDE DEF h
<1>7. /\ podq'[p] = Append(podq[p], h)
      /\ \A q \in Panes : q # p => podq'[q] = podq[q]
  BY <1>2, <1>4, <1>6
<1>8. Undisturbed'
  <2>1. Addressed' = Addressed
    BY <1>1 DEF Addressed
  <2>2. podq[p] \in Seq(Of(Addressed, p)) /\ h \in Of(Addressed, p)
    BY <1>3, <1>4 DEF Undisturbed, Of
  <2>3. podq'[p] \in Seq(Of(Addressed, p))
    BY <1>7, <2>2, AppendProperties
  <2>4. \A q \in Panes : podq'[q] \in Seq(Of(Addressed, q))
    BY <1>7, <2>3 DEF Undisturbed
  <2>5. QED
    BY <1>1, <1>3, <1>6, <2>1, <2>4 DEF Undisturbed
<1>9. Path(p)' = Path(p)
  <2> DEFINE a == applied[p]
             b == podq[p]
             t == Tail(up)
  <2>1. /\ a \in Seq(Frame) /\ b \in Seq(Frame) /\ t \in Seq(Frame)
        /\ Append(b, h) \in Seq(Frame) /\ up \in Seq(Frame)
    BY <1>1, <1>2, <1>4, HeadTailProperties, AppendProperties
  <2>2. Append(b, h) \o t = b \o up
    BY <1>1, <1>2, <2>1, HeadMoves DEF h
  <2>3. Path(p) = ((a \o b) \o up) \o queue
    BY DEF Path
  <2>4. Path(p)' = ((a \o Append(b, h)) \o t) \o queue
    BY <1>1, <1>7 DEF Path
  <2> HIDE DEF a, b, t
  <2>5. (a \o Append(b, h)) \o t = a \o (Append(b, h) \o t)
    BY <2>1, ThreeInARow
  <2>6. (a \o b) \o up = a \o (b \o up)
    BY <2>1, ThreeInARow
  <2>7. QED
    BY <2>2, <2>3, <2>4, <2>5, <2>6
<1>10. ASSUME NEW q \in Panes, q # p  PROVE Alike(Path(q), Path(q)', q)
  <2> DEFINE a == applied[q] \o podq[q]
  <2>1. a \in Seq(Frame) /\ Tail(up) \in Seq(Frame)
    BY <1>1, <1>2, PathParts, HeadTailProperties
  <2>2. Path(q) = (a \o up) \o queue /\ Path(q)' = (a \o Tail(up)) \o queue
    BY <1>1, <1>7, <1>10 DEF Path
  <2> HIDE DEF a
  <2>3. Alike(up, Tail(up), q)
    BY <1>1, <1>2, <1>10, <1>4, OthersSkip DEF h
  <2>4. QED
    BY <1>2, <2>1, <2>2, <2>3, AlikeBetween
<1>11. ASSUME NEW q \in Panes
       PROVE  KeysOf(Path(q)', q) = TypedKeys(q)' /\ InKeyOrder(Path(q)', q)
  <2>1. KeysOf(Path(q), q) = TypedKeys(q) /\ InKeyOrder(Path(q), q)
    BY DEF AllOnTheWay
  <2>2. TypedKeys(q)' = TypedKeys(q)
    BY <1>1 DEF TypedKeys
  <2>3. QED
    BY <1>9, <1>10, <2>1, <2>2 DEF Alike
<1>12. AllOnTheWay'
  BY <1>11 DEF AllOnTheWay, KeysOf, InKeyOrder
<1>13. QED
  BY <1>8, <1>12

\* A pod takes what comes to it: the head of its queue is later than all it
\* has applied, and so than what its filter stands at.
LEMMA ReadOnTheWay ==
  ASSUME TypeOK, TypeOK', TypedSound, Undisturbed, AllOnTheWay, NEW p \in Panes, PodRead(p)
  PROVE  Undisturbed' /\ AllOnTheWay'
<1> DEFINE h == Head(podq[p])
           d == dedup[p]
           a == applied[p]
           b == podq[p]
           c == up \o queue
<1>1. /\ a \in Seq(Frame) /\ b \in Seq(Frame) /\ b # <<>> /\ c \in Seq(Frame)
      /\ Path(p) = (a \o b) \o c
      /\ d \in [epoch : Nat, seq : Nat]
      /\ podq \in [Panes -> Seq(Frame)] /\ applied \in [Panes -> Seq(Frame)]
      /\ dedup \in [Panes -> [epoch : Nat, seq : Nat]]
  BY PathParts DEF PodRead, TypeOK, PodTypes, SesTypes
<1>2. h \in Of(Addressed, p) /\ Tail(b) \in Seq(Of(Addressed, p))
  BY <1>1, HeadTailProperties DEF Undisturbed
<1>3. h \in Frame /\ h.pane = p /\ Key(h) = <<h.epoch, h.seq>>
  BY <1>2 DEF Of, Addressed, Key
<1> HIDE DEF c
<1>4. Key(h) \in KeysOf(b, p)
  <2>1. 1 \in DOMAIN b /\ b[1] = h
    BY <1>1, LenProperties, EmptySeq, HeadTailProperties
  <2>2. QED
    BY <1>3, <2>1 DEF KeysOf, PlacesFor
<1>5. /\ AllPrecede(KeysOf(a, p), KeysOf(b, p))
      /\ KeysOf(b, p) \subseteq TypedKeys(p)
  <2>1. a \o b \in Seq(Frame)
    BY <1>1, ConcatProperties
  <2>2. KeysOf(Path(p), p) = TypedKeys(p) /\ InKeyOrder(Path(p), p)
    BY DEF AllOnTheWay
  <2> DEFINE e == a \o b
  <2> HIDE DEF a, b, e
  <2>3. /\ KeysOf(e \o c, p) = KeysOf(e, p) \union KeysOf(c, p)
        /\ InKeyOrder(e \o c, p) => InKeyOrder(e, p)
    <3>1. e \in Seq(Frame) /\ c \in Seq(Frame)
      BY <1>1, <2>1 DEF e
    <3>2. QED
      BY <3>1, JoinedKeys
  <2>4. /\ KeysOf(a \o b, p) = KeysOf(a, p) \union KeysOf(b, p)
        /\ InKeyOrder(a \o b, p) => AllPrecede(KeysOf(a, p), KeysOf(b, p))
    BY <1>1, JoinedKeys
  <2>5. QED
    BY <1>1, <2>2, <2>3, <2>4 DEF e
<1>6. Accepts(d, h)
  <2>1. CASE d.epoch = 0
    <3>1. Key(h) \in PossibleKeys
      BY <1>4, <1>5 DEF TypedKeys, TypedSound, TypedInOrder
    <3>2. h.epoch # 0
      BY <1>3, <3>1 DEF PossibleKeys
    <3>3. QED
      BY <2>1, <3>2 DEF Accepts
  <2>2. CASE d.epoch # 0
    <3>1. <<d.epoch, d.seq>> \in KeysOf(a, p)
      BY <2>2 DEF Undisturbed
    <3>2. Precedes(<<d.epoch, d.seq>>, Key(h))
      BY <1>4, <1>5, <3>1 DEF AllPrecede
    <3>3. d.epoch \in Nat /\ d.seq \in Nat /\ h.epoch \in Nat /\ h.seq \in Nat
      BY <1>1, <1>3 DEF Frame
    <3>4. QED
      BY <1>3, <3>2, <3>3 DEF Precedes, Accepts
  <2>3. QED
    BY <2>1, <2>2
<1>7. /\ dedup' = [dedup EXCEPT ![p] = [epoch |-> h.epoch, seq |-> h.seq]]
      /\ applied' = [applied EXCEPT ![p] = Append(@, h)]
      /\ podq' = [podq EXCEPT ![p] = Tail(@)]
      /\ UNCHANGED <<view, vtUp, ctlUp, toMux, podId, podConn, needsReplay, ending,
                     typed, queue, up>>
  BY <1>6 DEF PodRead, frontend, link
<1> HIDE DEF h, d
<1>8. /\ applied'[p] = Append(a, h) /\ podq'[p] = Tail(b)
      /\ dedup'[p].epoch = h.epoch /\ dedup'[p].seq = h.seq
      /\ \A q \in Panes : q # p => /\ applied'[q] = applied[q] /\ podq'[q] = podq[q]
                                   /\ dedup'[q] = dedup[q]
  BY <1>1, <1>7
<1>9. Undisturbed'
  <2>1. Addressed' = Addressed
    BY <1>7 DEF Addressed
  <2>2. \A q \in Panes : podq'[q] \in Seq(Of(Addressed, q))
    BY <1>2, <1>8 DEF Undisturbed
  <2>3. <<dedup'[p].epoch, dedup'[p].seq>> \in KeysOf(applied'[p], p)
    <3>1. KeysOf(Append(a, h), p) = KeysOf(a, p) \union {Key(h)}
      BY <1>1, <1>3, AddedKey
    <3>2. QED
      BY <1>3, <1>8, <3>1
  <2>4. \A q \in Panes :
          \/ dedup'[q].epoch = 0
          \/ <<dedup'[q].epoch, dedup'[q].seq>> \in KeysOf(applied'[q], q)
    BY <1>8, <2>3 DEF Undisturbed
  <2>5. \A q \in Panes : KeysOf(applied[q], q)' = KeysOf(applied'[q], q)
    BY DEF KeysOf
  <2>6. QED
    BY <1>7, <2>1, <2>2, <2>4, <2>5 DEF Undisturbed
<1>10. ASSUME NEW q \in Panes  PROVE Path(q)' = Path(q)
  <2>1. CASE q = p
    <3>1. Append(a, h) \o Tail(b) = a \o b
      BY <1>1, HeadMoves DEF h
    <3>2. QED
      BY <1>7, <1>8, <2>1, <3>1 DEF Path
  <2>2. CASE q # p
    BY <1>7, <1>8, <2>2 DEF Path
  <2>3. QED
    BY <2>1, <2>2
<1>11. \A q \in Panes : TypedKeys(q)' = TypedKeys(q)
  BY <1>7 DEF TypedKeys
<1>12. AllOnTheWay'
  BY <1>10, <1>11, SamePaths
<1>13. QED
  BY <1>9, <1>12

LEMMA CalmStep ==
  ASSUME TypeOK, TypeOK', TypedSound, Calm, [Next]_vars
  PROVE  Calm'
<1>1. SUFFICES ASSUME faults' = 0  PROVE Undisturbed' /\ AllOnTheWay'
  BY DEF Calm
<1>2. faults = 0
  <2>1. UNCHANGED faults \/ faults' = faults + 1
    BY DEF Next, vars, Flush, MuxBacklogEnd, SesRoute, ReconnectVtOnly, FullReattach,
       VtLost, CtlLost, SesRestart, FrontendRestart, Type, RedialPod, SesForwardEnd,
       PodRead, PodVtLost, EndDropped, PtyFull, Fault
  <2>2. faults \in Nat
    BY DEF TypeOK, HistoryTypes
  <2>3. QED
    BY <1>1, <2>1, <2>2
<1>3. Undisturbed /\ AllOnTheWay
  BY <1>2 DEF Calm
<1>4. CASE UNCHANGED vars
  <2>1. Undisturbed'
    <3>1. Addressed' = Addressed
      BY <1>4 DEF vars, ses, Addressed
    <3>2. QED
      BY <1>3, <1>4, <3>1 DEF vars, frontend, link, ses, pod, Undisturbed
  <2>2. \A q \in Panes : Path(q)' = Path(q) /\ TypedKeys(q)' = TypedKeys(q)
    BY <1>4 DEF vars, frontend, link, ses, pod, Path, TypedKeys
  <2>3. AllOnTheWay'
    BY <1>3, <2>2, SamePaths
  <2>4. QED
    BY <2>1, <2>3
<1>5. QED
  BY <1>1, <1>2, <1>3, <1>4, CalmSteps, TypeOnTheWay, FlushOnTheWay, RouteOnTheWay,
     ReadOnTheWay

LEMMA CalmInit == Init => Calm
<1>1. SUFFICES ASSUME Init PROVE Undisturbed /\ AllOnTheWay
  BY DEF Calm
<1>2. Undisturbed
  <2>1. <<>> \in Seq(Addressed) /\ \A p \in Panes : <<>> \in Seq(Of(Addressed, p))
    BY EmptySeq
  <2>2. QED
    BY <1>1, <2>1 DEF Init, Undisturbed
<1>3. ASSUME NEW p \in Panes
      PROVE  KeysOf(Path(p), p) = TypedKeys(p) /\ InKeyOrder(Path(p), p)
  <2>1. Path(p) = <<>>
    <3>1. <<>> \o <<>> = <<>>
      BY EmptySeq, ConcatEmptySeq
    <3>2. QED
      BY <1>1, <3>1 DEF Init, Path
  <2>2. typed[p] = <<>> /\ DOMAIN <<>> = {}
    BY <1>1 DEF Init
  <2>3. QED
    BY <2>1, <2>2 DEF KeysOf, InKeyOrder, PlacesFor, TypedKeys
<1>4. QED
  BY <1>2, <1>3 DEF AllOnTheWay

\* Until the first connection is lost or the first queue overflows, every key
\* typed into a pane is at its shell or on its way there, once and in the
\* order typed, for every size of queue and every way in which the socket
\* takes the bytes.  SES may hold any ids: none change before a fault.
THEOREM NothingLostUntilFault == Spec => []LosslessUntilFault
<1>1. Init => TypeOK /\ TypedSound /\ Calm
  BY TypeInit, TypedInit, CalmInit
<1>2. TypeOK /\ TypedSound /\ Calm /\ [Next]_vars => (TypeOK /\ TypedSound /\ Calm)'
  BY TypeStep, TypedStep, CalmStep
<1>3. TypeOK /\ TypedSound /\ Calm => LosslessUntilFault
  <2>1. SUFFICES ASSUME TypeOK, TypedSound, Calm, faults = 0, NEW p \in Panes
                 PROVE  LET path == applied[p] \o podq[p] \o up \o queue
                            mine == PlacesFor(path, p)
                            keys == DOMAIN typed[p]
                        IN /\ \A i \in mine : \E m \in keys : Key(path[i]) = typed[p][m]
                           /\ \A m \in keys : \E i \in mine : Key(path[i]) = typed[p][m]
                           /\ \A i, j \in mine : \A m, n \in keys :
                                Key(path[i]) = typed[p][m] /\ Key(path[j]) = typed[p][n]
                                  => (i < j <=> m < n)
    BY DEF LosslessUntilFault
  <2> DEFINE path == Path(p)
             mine == PlacesFor(path, p)
             keys == DOMAIN typed[p]
  <2>2. /\ KeysOf(path, p) = TypedKeys(p) /\ InKeyOrder(path, p)
        /\ path \in Seq(Frame)
    BY <2>1, PathParts DEF Calm, AllOnTheWay
  <2>3. typed[p] \in Seq(Nat \X Nat) /\ Ascending(typed[p])
    BY <2>1, TypedAscends DEF TypedSound
  <2> HIDE DEF path
  <2>4. /\ \A i \in mine : \E m \in keys : Key(path[i]) = typed[p][m]
        /\ \A m \in keys : \E i \in mine : Key(path[i]) = typed[p][m]
    BY <2>2 DEF KeysOf, TypedKeys
  <2>5. ASSUME NEW i \in mine, NEW j \in mine, NEW m \in keys, NEW n \in keys,
               Key(path[i]) = typed[p][m], Key(path[j]) = typed[p][n]
        PROVE  i < j <=> m < n
    <3>1. i < j => m < n
      BY <2>2, <2>3, <2>5, OneKey DEF InKeyOrder
    <3>2. j < i => n < m
      BY <2>2, <2>3, <2>5, OneKey DEF InKeyOrder
    <3>3. i = j => m = n
      BY <2>3, <2>5, OneKey
    <3>4. i \in Nat /\ j \in Nat /\ m \in Nat /\ n \in Nat
      <4>1. DOMAIN path = 1 .. Len(path) /\ DOMAIN typed[p] = 1 .. Len(typed[p])
        BY <2>2, <2>3, LenProperties
      <4>2. i \in DOMAIN path /\ j \in DOMAIN path
        BY DEF PlacesFor
      <4>3. QED
        BY <4>1, <4>2
    <3>5. QED
      BY <3>1, <3>2, <3>3, <3>4
  <2>6. QED
    BY <2>4, <2>5 DEF path, Path
<1>4. QED
  BY <1>1, <1>2, <1>3, PTL DEF Spec
=============================================================================
