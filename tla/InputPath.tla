------------------------------ MODULE InputPath ------------------------------
(***************************************************************************)
(* The way of a keystroke through hexe: frontend -> SES -> pod -> PTY.     *)
(*                                                                         *)
(* The frontend multiplexes the input of every pane over one VT socket to  *)
(* SES (vt_write_queue.zig).  Every frame is stamped (epoch, seq), with    *)
(* one counter for all panes, and copied into a bounded replay ring.  SES  *)
(* routes a frame by its 16-bit pane id to the pod connection it holds     *)
(* for that id, or drops it.  The pod drops a frame whose seq is not above *)
(* the last one it applied (input_dedup.zig).  Each time a pod connection  *)
(* is re-dialled it replays its output and ends with backlog_end, upon     *)
(* which the frontend sends its whole ring again.                          *)
(*                                                                         *)
(* Output frames carry no state the input path reads and are left out,     *)
(* except backlog_end.  A connection is lost at an instant, with what is   *)
(* in flight on it; bytes the receiver still reads from a closed socket    *)
(* are bytes it read just before, since such a read touches nothing else.  *)
(*                                                                         *)
(* A definition that nothing uses, next to one that is used, is a mistake  *)
(* the code could have made there: put in its place, it breaks a property. *)
(***************************************************************************)
EXTENDS Naturals, Sequences, FiniteSets

CONSTANTS
  Panes,         \* the panes of one session
  PaneIds,       \* the routing ids SES may hand out (u16 in the code)
  ReplayCap,     \* frames the replay ring retains (REPLAY_CAP_BYTES)
  QueueCap,      \* frames the frontend's live queue accepts
  PodQueueCap,   \* frames SES queues for one pod (POD_VT_QUEUE_MAX_BYTES)
  WriteUnit,     \* what one write to the SES socket may take, see Writes
  Faults,        \* the kinds of fault that can happen
  MaxFaults,     \* bound: how many faults happen
  MaxSeq,        \* bound: how many keys one frontend process types
  QuietTyping    \* TRUE: the user types only while nothing is being repaired

FaultKinds == {"vt", "ctl", "ses", "frontend", "pod", "end", "pty"}

ASSUME PathAssumption ==
  /\ ReplayCap \in Nat \ {0}
  /\ QueueCap \in Nat \ {0}
  /\ PodQueueCap \in Nat \ {0}
  /\ MaxFaults \in Nat
  /\ MaxSeq \in Nat
  /\ WriteUnit \in {"all", "frames", "bytes"}
  /\ Faults \subseteq FaultKinds
  /\ QuietTyping \in BOOLEAN
  /\ PaneIds \subseteq Nat \ {0}

VARIABLES
  epoch, nextSeq,   \* the frontend process's identity and its frame counter
  queue,            \* its live queue, unsent frames
  headPartial,      \* part of the head of queue is already on the socket
  replay,           \* its replay ring
  view,             \* view[p]: the pane id the frontend uses for pane p
  asked,            \* panes whose backlog it asked for and has not seen end
  vtUp, ctlUp,      \* its VT and control channels to SES are alive
  up,               \* frames on their way from the frontend to SES
  toMux,            \* pane ids of the backlog_end frames on their way back
  podId,            \* podId[p]: the pane id SES routes by
  podConn,          \* podConn[p]: SES holds a VT connection to p's pod
  needsReplay,      \* panes whose pod SES will dial again
  podq,             \* podq[p]: frames between SES and the pod of p
  ending,           \* panes whose pod has sent backlog_end to SES
  dedup,            \* dedup[p]: epoch and seq the pod last applied
  applied,          \* applied[p]: history, the frames given to the PTY of p
  typed,            \* typed[p]: history, the keys typed into p
  faults,           \* how many faults and queue overflows have happened
  torn              \* history: SES's frame reader was handed bytes of two
                    \* frames as one; what follows then means nothing

frontend == <<epoch, nextSeq, queue, headPartial, replay, view, asked>>
link     == <<vtUp, ctlUp, up, toMux>>
ses      == <<podId, podConn, needsReplay, podq, ending>>
pod      == <<dedup, applied>>
vars     == <<frontend, link, ses, pod, typed, faults, torn>>

NoId == 0            \* in view: this process has not attached the pane
Key(f) == <<f.epoch, f.seq>>

\* One input frame; pane is the pane it was typed into, which is not sent.
Frame == [id : PaneIds, epoch : Nat, seq : Nat, pane : Panes]

Injections(S, T) == {f \in [S -> T] : \A x, y \in S : f[x] = f[y] => x = y}

\* Nothing is being repaired: every channel is up, every replay has ended.
Settled ==
  /\ vtUp /\ ctlUp
  /\ needsReplay = {} /\ ending = {} /\ toMux = <<>>
  /\ \A p \in Panes : podConn[p]

Init ==
  /\ epoch = 1 /\ nextSeq = 0
  /\ queue = <<>> /\ headPartial = FALSE /\ replay = <<>>
  /\ vtUp = TRUE /\ ctlUp = TRUE /\ up = <<>> /\ toMux = <<>>
  /\ podId \in Injections(Panes, PaneIds)
  /\ view = podId /\ asked = {}
  /\ podConn = [p \in Panes |-> TRUE]
  /\ needsReplay = {} /\ ending = {}
  /\ podq = [p \in Panes |-> <<>>]
  /\ dedup = [p \in Panes |-> [epoch |-> 0, seq |-> 0]]
  /\ applied = [p \in Panes |-> <<>>]
  /\ typed = [p \in Panes |-> <<>>]
  /\ faults = 0 /\ torn = FALSE

-----------------------------------------------------------------------------
(* The frontend's write queue *)

\* What one flush may do to queue q: how many whole frames it writes, and
\* whether it leaves part of the next one on the socket.
Writes(q, partial) ==
  {w \in (0 .. Len(q)) \X BOOLEAN :
     /\ WriteUnit = "all" => w[1] = Len(q)
     /\ WriteUnit # "bytes" => ~w[2]
     /\ w[2] => w[1] < Len(q)
     /\ w[1] = 0 /\ partial => w[2]}

Written(q, n) == SubSeq(q, 1, n)
UnwrittenSkips(q, n) == SubSeq(q, n + 2, Len(q))
Unwritten(q, n) == SubSeq(q, n + 1, Len(q))

\* flushToFd: push the live queue onto the socket, as far as it takes it.
FlushTo(q, partial) ==
  IF vtUp
    THEN \E w \in Writes(q, partial) :
           /\ up' = up \o Written(q, w[1])
           /\ queue' = Unwritten(q, w[1])
           /\ headPartial' = w[2]
    ELSE /\ queue' = q /\ headPartial' = partial /\ UNCHANGED up

\* retainForReplay: append, dropping the oldest frames beyond the cap.
RetainedAll(ring, f) == Append(ring, f)
RetainedOldest(ring, f) == IF Len(ring) < ReplayCap THEN Append(ring, f) ELSE ring
Retained(ring, f) ==
  IF Len(ring) < ReplayCap THEN Append(ring, f) ELSE Append(Tail(ring), f)

\* writePaneInput: flush, stamp and queue the frame unless the live queue is
\* full (the key is then dropped with a notice, unstamped), flush again.  The
\* frame goes in whether or not there is a connection.  The first flush is the
\* Flush step taken just before.
Type(p) ==
  /\ nextSeq < MaxSeq /\ view[p] # NoId
  /\ QuietTyping => Settled
  /\ LET f == [id |-> view[p], epoch |-> epoch, seq |-> nextSeq + 1, pane |-> p]
     IN /\ Len(queue) < QueueCap
        /\ nextSeq' = nextSeq + 1
        /\ replay' = Retained(replay, f)
        /\ typed' = [typed EXCEPT ![p] = Append(@, Key(f))]
        /\ FlushTo(Append(queue, f), headPartial)
  /\ UNCHANGED <<epoch, view, asked, vtUp, ctlUp, toMux, ses, pod, faults, torn>>

\* flushPendingMuxVtWrites, from the main loop.
Flush ==
  /\ vtUp /\ queue # <<>>
  /\ FlushTo(queue, headPartial)
  /\ UNCHANGED <<epoch, nextSeq, replay, view, asked, vtUp, ctlUp, toMux,
                 ses, pod, typed, faults, torn>>

\* rebuildForReconnect: the live queue is cleared, the whole ring takes its place.
Rebuilt == replay

\* backlog_end of some pane: rebuild the live queue and flush.  A head frame
\* part of which is on this same socket is cut.
MuxBacklogEnd ==
  /\ vtUp /\ toMux # <<>>
  /\ toMux' = Tail(toMux)
  /\ \/ \E p \in Panes :
          /\ view[p] = Head(toMux)
          /\ asked' = asked \ {p}
          /\ torn' = (torn \/ headPartial)
          /\ FlushTo(Rebuilt, FALSE)
     \/ /\ \A p \in Panes : view[p] # Head(toMux)
        /\ UNCHANGED <<asked, torn, queue, headPartial, up>>
  /\ UNCHANGED <<epoch, nextSeq, replay, view, vtUp, ctlUp, ses, pod, typed, faults>>

-----------------------------------------------------------------------------
(* SES *)

Disconnected == [p \in Panes |-> FALSE]
NoFrames == [p \in Panes |-> <<>>]

\* removePodVtFd with the pod alive: forget the connection, dial again later.
DropPod(p) ==
  /\ podConn' = [podConn EXCEPT ![p] = FALSE]
  /\ podq' = [podq EXCEPT ![p] = <<>>]
  /\ ending' = ending \ {p}
  /\ needsReplay' = needsReplay \union {p}

\* pane_id_to_pod_vt: the pod connection a frame is routed to, if there is one.
Routed(f) == {p \in Panes : podConn[p] /\ podId[p] = f.id}

\* routeMuxToPod: a frame for an id without a pod connection is dropped; one
\* that overflows the pod's queue is dropped with the connection (within the
\* bound on faults; beyond it SES waits for the pod to read).
SesRoute ==
  /\ up # <<>>
  /\ up' = Tail(up)
  /\ \/ /\ Routed(Head(up)) = {}
        /\ UNCHANGED <<podConn, podq, ending, needsReplay, faults>>
     \/ \E p \in Routed(Head(up)) :
          IF Len(podq[p]) < PodQueueCap
            THEN /\ podq' = [podq EXCEPT ![p] = Append(@, Head(up))]
                 /\ UNCHANGED <<podConn, ending, needsReplay, faults>>
            ELSE faults < MaxFaults /\ DropPod(p) /\ faults' = faults + 1
  /\ UNCHANGED <<frontend, vtUp, ctlUp, toMux, podId, pod, typed, torn>>

\* processBacklogReplays for one pane whose owner has a VT channel: dial the
\* pod, which drops its old connection with everything unread on it, replays
\* its backlog on the new one and ends it with backlog_end.
RedialPod(p) ==
  /\ p \in needsReplay /\ vtUp
  /\ needsReplay' = needsReplay \ {p}
  /\ podConn' = [podConn EXCEPT ![p] = TRUE]
  /\ podq' = [podq EXCEPT ![p] = <<>>]
  /\ ending' = ending \union {p}
  /\ UNCHANGED <<frontend, link, podId, pod, typed, faults, torn>>

\* routePodToMux of a backlog_end: queued for the owner, or discarded when
\* there is no VT channel to send it on.
Forwarded(p) == IF vtUp THEN Append(toMux, podId[p]) ELSE toMux

SesForwardEnd(p) ==
  /\ p \in ending
  /\ ending' = ending \ {p}
  /\ toMux' = Forwarded(p)
  /\ UNCHANGED <<frontend, vtUp, ctlUp, up, podId, podConn, needsReplay, podq,
                 pod, typed, faults, torn>>

-----------------------------------------------------------------------------
(* The pod *)

\* InputDedup.accept: a new epoch is adopted, an old seq is a duplicate.
AcceptsAgain(d, f) == d.epoch # f.epoch \/ f.seq >= d.seq
AcceptsOther(d, f) == d.epoch # f.epoch \/ f.seq # d.seq
Accepts(d, f) == d.epoch # f.epoch \/ f.seq > d.seq

\* handleFrame / applyInputFrame.
PodRead(p) ==
  /\ podq[p] # <<>>
  /\ podq' = [podq EXCEPT ![p] = Tail(@)]
  /\ LET f == Head(podq[p])
     IN IF Accepts(dedup[p], f)
          THEN /\ dedup' = [dedup EXCEPT ![p] = [epoch |-> f.epoch, seq |-> f.seq]]
               /\ applied' = [applied EXCEPT ![p] = Append(@, f)]
          ELSE UNCHANGED pod
  /\ UNCHANGED <<frontend, link, podId, podConn, needsReplay, ending,
                 typed, faults, torn>>

-----------------------------------------------------------------------------
(* Reconnecting *)

\* maybeReconnectSes, cheap repair: reopen the VT channel and ask for the
\* backlogs (SES acknowledges the request and does nothing else).  The loop
\* then flushes the stale live queue onto the new socket before it notices
\* the new connection and clears the queue.
Reopened ==
  \E w \in Writes(queue, headPartial) :
    /\ up' = Written(queue, w[1])
    /\ torn' = (torn \/ headPartial \/ w[2])
    /\ queue' = <<>> /\ headPartial' = FALSE
    /\ vtUp' = TRUE /\ toMux' = <<>>
    /\ asked' = Panes

ReconnectVtOnly ==
  /\ ~vtUp /\ ctlUp
  /\ Reopened
  /\ UNCHANGED <<epoch, nextSeq, replay, view, ctlUp, ses, pod, typed, faults>>

\* maybeReconnectSes, full recovery: register afresh, reattach the session
\* (SES drops its pod connections as it detaches it from whoever held it) and
\* adopt every pane, which makes SES dial every pod again.
FullReattach ==
  /\ ~vtUp
  /\ Reopened
  /\ ctlUp' = TRUE
  /\ view' = podId
  /\ podConn' = Disconnected /\ podq' = NoFrames /\ ending' = {}
  /\ needsReplay' = Panes
  /\ UNCHANGED <<epoch, nextSeq, replay, podId, pod, typed, faults>>

-----------------------------------------------------------------------------
(* Faults *)

Fault(kind) ==
  /\ kind \in Faults /\ faults < MaxFaults
  /\ faults' = faults + 1

Unlinked == vtUp' = FALSE /\ up' = <<>> /\ toMux' = <<>>

\* SES forgets the client: its session is detached, its pods disconnected.
SesLetsGo ==
  /\ podConn' = Disconnected /\ podq' = NoFrames /\ ending' = {}
  /\ UNCHANGED needsReplay

\* The VT channel alone is lost.  A failed write clears the live queue, an
\* end of file leaves it.
VtLost ==
  /\ vtUp /\ Fault("vt") /\ Unlinked
  /\ \/ queue' = <<>> /\ headPartial' = FALSE
     \/ UNCHANGED <<queue, headPartial>>
  /\ UNCHANGED <<epoch, nextSeq, replay, view, asked, ctlUp, ses, pod, typed, torn>>

\* The control channel is lost, and the VT channel with it.
CtlLost ==
  /\ ctlUp /\ Fault("ctl") /\ Unlinked
  /\ ctlUp' = FALSE
  /\ SesLetsGo
  /\ UNCHANGED <<frontend, podId, pod, typed, torn>>

\* SES dies and is started again: persist.load gives every pane a fresh id.
SesRestart ==
  /\ Fault("ses") /\ Unlinked
  /\ ctlUp' = FALSE
  /\ podConn' = Disconnected /\ podq' = NoFrames /\ ending' = {}
  /\ needsReplay' = {}
  /\ podId' \in Injections(Panes, PaneIds)
  /\ UNCHANGED <<frontend, pod, typed, torn>>

\* The frontend dies; another process attaches the session in its place.
FrontendRestart ==
  /\ Fault("frontend") /\ Unlinked
  /\ ctlUp' = FALSE
  /\ SesLetsGo
  /\ epoch' = epoch + 1 /\ nextSeq' = 0
  /\ queue' = <<>> /\ headPartial' = FALSE /\ replay' = <<>>
  /\ asked' = {} /\ view' = [p \in Panes |-> NoId]
  /\ UNCHANGED <<podId, pod, typed, torn>>

\* The connection between SES and a live pod is lost.
PodVtLost(p) ==
  /\ podConn[p] /\ Fault("pod")
  /\ DropPod(p)
  /\ UNCHANGED <<frontend, link, podId, pod, typed, torn>>

\* enqueueMuxVtFrame on a full queue drops a backlog_end without a trace.
EndDropped(p) ==
  /\ p \in ending /\ Fault("end")
  /\ ending' = ending \ {p}
  /\ UNCHANGED <<frontend, link, podId, podConn, needsReplay, podq, pod, typed, torn>>

\* queuePtyWrite with a shell that reads nothing and a full write buffer: the
\* frame, or the rest of it, is dropped after applyInputFrame let it through.
PtyFull(p) ==
  /\ podq[p] # <<>> /\ Fault("pty")
  /\ podq' = [podq EXCEPT ![p] = Tail(@)]
  /\ LET f == Head(podq[p])
     IN /\ Accepts(dedup[p], f)
        /\ dedup' = [dedup EXCEPT ![p] = [epoch |-> f.epoch, seq |-> f.seq]]
  /\ UNCHANGED <<frontend, link, podId, podConn, needsReplay, ending, applied, typed, torn>>

-----------------------------------------------------------------------------
Repair == ReconnectVtOnly \/ FullReattach

Next ==
  \/ Flush \/ MuxBacklogEnd \/ SesRoute \/ ReconnectVtOnly \/ FullReattach
  \/ VtLost \/ CtlLost \/ SesRestart \/ FrontendRestart
  \/ \E p \in Panes : \/ Type(p) \/ RedialPod(p) \/ SesForwardEnd(p)
                      \/ PodRead(p) \/ PodVtLost(p) \/ EndDropped(p)
                      \/ PtyFull(p)

Spec == Init /\ [][Next]_vars

\* The event loops turn: a readable socket is read, a writable one flushed,
\* the 100 ms tick dials pods, the frontend keeps trying to reconnect.
Fairness ==
  /\ WF_vars(Flush) /\ WF_vars(MuxBacklogEnd) /\ WF_vars(SesRoute) /\ WF_vars(Repair)
  /\ \A p \in Panes : /\ WF_vars(RedialPod(p)) /\ WF_vars(SesForwardEnd(p))
                      /\ WF_vars(PodRead(p))

FairSpec == Spec /\ Fairness

-----------------------------------------------------------------------------
(* Properties *)

FrontendTypes ==
  /\ epoch \in Nat /\ nextSeq \in 0 .. MaxSeq
  /\ queue \in Seq(Frame) /\ headPartial \in BOOLEAN
  /\ replay \in Seq(Frame) /\ Len(replay) <= ReplayCap
  /\ view \in [Panes -> PaneIds \union {NoId}] /\ asked \subseteq Panes

LinkTypes ==
  /\ vtUp \in BOOLEAN /\ ctlUp \in BOOLEAN
  /\ up \in Seq(Frame) /\ toMux \in Seq(PaneIds)

SesTypes ==
  /\ podId \in Injections(Panes, PaneIds) /\ podConn \in [Panes -> BOOLEAN]
  /\ needsReplay \subseteq Panes /\ ending \subseteq Panes
  /\ podq \in [Panes -> Seq(Frame)]

PodTypes ==
  /\ dedup \in [Panes -> [epoch : Nat, seq : Nat]]
  /\ applied \in [Panes -> Seq(Frame)]

HistoryTypes ==
  /\ typed \in [Panes -> Seq(Nat \X Nat)]
  /\ faults \in Nat /\ torn \in BOOLEAN

TypeOK == FrontendTypes /\ LinkTypes /\ SesTypes /\ PodTypes /\ HistoryTypes

Precedes(a, b) == a[1] < b[1] \/ (a[1] = b[1] /\ a[2] < b[2])

\* No pod gives its PTY the same key twice or two keys in the wrong order,
\* through every reconnect and every frontend that takes the session over:
\* input_dedup.zig's accept, with the replays of vt_write_queue.zig.
InOrder ==
  \A p \in Panes : \A i, j \in DOMAIN applied[p] :
    i < j => Precedes(Key(applied[p][i]), Key(applied[p][j]))

\* A key reaches the shell of the pane it was typed into and no other, the
\* frames resent from the ring included (routeMuxToPod goes by the pane id the
\* frame was stamped with).
OwnKeysOnly ==
  \A p \in Panes : \A i \in DOMAIN applied[p] : applied[p][i].pane = p

\* The places of sequence s that hold a frame for pane p.
PlacesFor(s, p) == {i \in DOMAIN s : s[i].pane = p}

\* While no connection was lost and no queue overflowed, every key typed into
\* a pane is at its shell or on its way there, once and in the order typed:
\* partial writes, frames of other panes and pod queues neither lose, repeat
\* nor reorder it.
LosslessUntilFault ==
  faults = 0 =>
    \A p \in Panes :
      LET path == applied[p] \o podq[p] \o up \o queue
          mine == PlacesFor(path, p)
          keys == DOMAIN typed[p]
      IN /\ \A i \in mine : \E m \in keys : Key(path[i]) = typed[p][m]
         /\ \A m \in keys : \E i \in mine : Key(path[i]) = typed[p][m]
         /\ \A i, j \in mine : \A m, n \in keys :
              Key(path[i]) = typed[p][m] /\ Key(path[j]) = typed[p][n] => (i < j <=> m < n)

\* The ring always holds exactly the newest frames of this process, so a
\* reconnect can resend anything within the window (retainForReplay).
RingIsNewest ==
  /\ Len(replay) = IF nextSeq < ReplayCap THEN nextSeq ELSE ReplayCap
  /\ \A i \in DOMAIN replay :
       Key(replay[i]) = <<epoch, nextSeq - Len(replay) + i>>

\* A frame that is still in the replay ring can still be delivered: the pod
\* has applied it or would accept it.  vt_write_queue.zig promises that
\* replayed frames go out before any new input.
NothingOvertaken ==
  \A p \in Panes : \A i \in DOMAIN replay :
    replay[i].pane = p =>
      \/ \E j \in DOMAIN applied[p] : Key(applied[p][j]) = Key(replay[i])
      \/ Accepts(dedup[p], replay[i])

\* What the pod's filter has let through last was given to the PTY, so that a
\* frame it would drop as a repeat has reached the shell: applyInputFrame says
\* that this makes input exactly-once.
AcceptedIsApplied ==
  \A p \in Panes :
    \/ dedup[p].epoch = 0
    \/ \E i \in DOMAIN applied[p] : Key(applied[p][i]) = <<dedup[p].epoch, dedup[p].seq>>

\* SES never takes bytes of two different frames for one (the reason why
\* rebuildForReconnect drops a half-written head frame).
StreamInFrame == ~torn

\* Every key typed into a pane arrives at its shell in the end.
EveryKeyArrives ==
  \A p \in Panes : \A n \in 1 .. MaxSeq :
    (Len(typed[p]) >= n)
      ~> (\E i \in DOMAIN applied[p] :
            Len(typed[p]) >= n /\ Key(applied[p][i]) = typed[p][n])

\* When the frontend asks SES to replay the backlogs, every pane's replay ends.
ReplayIsAnswered == (asked # {}) ~> (asked = {})

-----------------------------------------------------------------------------
(* Refinement: the path implements the input log of its two ends. *)

ReceivedKeys == [p \in Panes |-> [i \in DOMAIN applied[p] |-> Key(applied[p][i])]]

PassedKeys ==
  [p \in Panes |->
     IF applied[p] = <<>> THEN 0
     ELSE CHOOSE i \in DOMAIN typed[p] :
            typed[p][i] = Key(applied[p][Len(applied[p])])]

Log == INSTANCE InputLog WITH
         Keys     <- (1 .. MaxFaults + 1) \X (1 .. MaxSeq),
         received <- ReceivedKeys,
         passed   <- PassedKeys

ImplementsInputLog == Log!Spec
=============================================================================
