----------------------------- MODULE PodOutput -----------------------------
(***************************************************************************)
(* The output side of a pod (modules/pod/main.zig, buffering.zig): what    *)
(* the shell writes goes to a ring, to the one viewer (SES, on behalf of a *)
(* frontend) and to observers; a new connection is first given a replay of *)
(* the ring.                                                               *)
(*                                                                         *)
(* Output is a sequence of units, each a byte string of one kind: a line   *)
(* (it ends in LF), text without LF, a switch to or from the alternate     *)
(* screen, a clearing of the scrollback, the opening or closing of a       *)
(* string sequence such as an image.  Caps and offsets count units.        *)
(*                                                                         *)
(* A peer that has failed one write fails all later ones, so that only     *)
(* whole replays are ever seen: a connection is given all of it or closed. *)
(***************************************************************************)
EXTENDS Naturals, Sequences, FiniteSetsExt

CONSTANTS
  Viewer,          \* the connection of the viewer; a new one takes its place
  Observers,       \* connections of observers
  None,
  Kinds,           \* the kinds of units the shell writes
  RingCap,         \* the ring (4 MiB)
  TailCap,         \* REPLAY_TAIL_CAP
  AlignScan,       \* REPLAY_ALIGN_SCAN
  SwitchInPrompt,  \* the screen is switched while password mode is on
  MaxOut,          \* bound: units the shell writes
  MaxUnread,       \* bound: units the pod has yet to read
  MaxFlips         \* bound: how often the tty hides or shows what is typed

Switches == {"enter", "leave"}
AllKinds == Switches \union {"line", "text", "clear", "open", "close"}

ASSUME OutputAssumption ==
  /\ Viewer \notin Observers /\ Kinds \subseteq AllKinds
  /\ RingCap \in Nat \ {0} /\ TailCap \in 1 .. RingCap /\ AlignScan \in Nat
  /\ SwitchInPrompt \in BOOLEAN
  /\ MaxOut \in Nat /\ MaxUnread \in Nat /\ MaxFlips \in Nat

VARIABLES
  out,          \* history: all that the shell has written
  hidden,       \* the tty is canonical and does not echo
  flips,
  shell,        \* the shell runs
  read,         \* how much of out the pod has read
  ring,         \* backlog, as positions in out
  backlogAbs,   \* units recorded so far, still in the ring or not
  alt,          \* alt_tracker: in_alt and alt_enter_offset
  passwordMode,
  sealed,       \* history: the last unit read before or during a prompt
  veiled,       \* history: the units read during prompts
  shareBlocked,
  watching,     \* client and observers: the connections that are open
  stream,       \* what each of them has been sent
  head,         \* history: the oldest unit of the ring when it was accepted
  attached,     \* vt_client_ever_attached
  phase         \* of the main loop, see Running

shellVars == <<out, hidden, flips, shell>>
ringVars == <<read, ring, backlogAbs, alt, veiled>>
promptVars == <<passwordMode, sealed>>
connVars == <<watching, stream, head, attached>>
podVars == <<ringVars, promptVars, shareBlocked, connVars>>
vars == <<shellVars, podVars, phase>>

Conns == {Viewer} \union Observers

MainScreen == [in |-> FALSE, enter |-> None]

Init ==
  /\ out = <<>> /\ hidden = FALSE /\ flips = 0 /\ shell = TRUE
  /\ read = 0 /\ ring = <<>> /\ backlogAbs = 0 /\ alt = MainScreen
  /\ passwordMode = FALSE /\ sealed = 0 /\ veiled = {} /\ shareBlocked = FALSE
  /\ watching = {} /\ attached = FALSE
  /\ stream = [c \in Conns |-> <<>>] /\ head = [c \in Conns |-> 0]
  /\ phase = "run"

\* The loop serves its watchers, the shell alive or ("linger") dead and the pod
\* waiting for a first viewer; else it flushes the dead shell's output or has ended.
Running == phase \in {"run", "linger"}

Output(i) == [type |-> "output", at |-> i]
Frame(type) == [type |-> type, at |-> 0]

Last(S) == IF S = {} THEN 0 ELSE Max(S)
First(S) == IF S = {} THEN 0 ELSE Min(S)

\* Output that a string sequence, opened and not closed, swallows.
Opener(i) == Last({j \in 1 .. i - 1 : out[j] \in {"open", "close"}})
InString(i) == Opener(i) # 0 /\ out[Opener(i)] = "open"

-----------------------------------------------------------------------------
(* The shell *)

\* The program in the pane writes to its tty; a string sequence contains text only.
ShellWrites(kind) ==
  /\ shell /\ Len(out) < MaxOut /\ Len(out) - read < MaxUnread
  /\ out' = Append(out, kind)
  /\ IF InString(Len(out) + 1) THEN kind \in {"text", "close"} ELSE kind # "close"
  /\ kind \in Switches => SwitchInPrompt \/ ~(passwordMode \/ hidden)
  /\ UNCHANGED <<hidden, flips, shell, podVars, phase>>

\* A password prompt turns the echo off, and on again.
ShellFlipsEcho ==
  /\ shell /\ flips < MaxFlips
  /\ SwitchInPrompt \/ \A i \in read + 1 .. Len(out) : out[i] \notin Switches
  /\ hidden' = ~hidden /\ flips' = flips + 1
  /\ UNCHANGED <<out, shell, podVars, phase>>

ShellExits ==
  /\ shell /\ shell' = FALSE
  /\ UNCHANGED <<out, hidden, flips, podVars, phase>>

-----------------------------------------------------------------------------
(* Output *)

\* The state of the connections after `items` were written to those watching
\* and the connections of `lost` were closed.
Sent(items, lost) ==
  /\ watching' = watching \ lost
  /\ stream' = [c \in Conns |-> IF c \in watching \ lost THEN stream[c] \o items[c] ELSE <<>>]
  /\ head' = [c \in Conns |-> IF c \in watching \ lost THEN head[c] ELSE 0]

\* writeFrameBounded, to the viewer and to each observer; any write may fail,
\* and closes the connection.
Deliver(toViewer, toObservers) ==
  LET items == [c \in Conns |-> IF c = Viewer THEN toViewer ELSE toObservers]
  IN \E lost \in SUBSET {c \in watching : items[c] # <<>>} : Sent(items, lost)

Closed(gone) == Sent([c \in Conns |-> <<>>], gone)

\* RingBuffer.append, which drops the oldest.
AppendedUncapped(r, i) == Append(r, i)
AppendedIfRoom(r, i) == IF Len(r) < RingCap THEN Append(r, i) ELSE r
Appended(r, i) == IF Len(r) < RingCap THEN Append(r, i) ELSE Append(Tail(r), i)

\* AltScreenTracker.feed, at the offset the unit has if it is recorded.
Tracked(kind) ==
  CASE kind = "enter" -> [in |-> TRUE, enter |-> backlogAbs]
    [] kind = "leave" -> MainScreen
    [] OTHER          -> alt

\* processPtyOutput: a clearing of the scrollback empties the ring; nothing is
\* recorded or broadcast during a password prompt.
ProcessPtyOutput ==
  /\ read < Len(out)
  /\ LET i == read + 1
         scanned == IF out[i] = "clear" THEN <<>> ELSE ring
     IN /\ read' = i
        /\ alt' = Tracked(out[i])
        /\ IF passwordMode
             THEN /\ ring' = scanned /\ sealed' = i /\ veiled' = veiled \union {i}
                  /\ UNCHANGED backlogAbs
                  /\ Deliver(<<Output(i)>>, <<>>)
             ELSE /\ ring' = Appended(scanned, i) /\ backlogAbs' = backlogAbs + 1
                  /\ UNCHANGED <<sealed, veiled>>
                  /\ Deliver(<<Output(i)>>, <<Output(i)>>)
  /\ UNCHANGED <<shellVars, passwordMode, shareBlocked, attached, phase>>

\* ptyCallback
PtyRead == phase = "run" /\ ProcessPtyOutput

-----------------------------------------------------------------------------
(* Password mode *)

\* pollPasswordMode
Polled(keys) == hidden

\* applyPasswordMode clears what was recorded up to the prompt.
RingKept(on) == ring
RingAtPrompt(on) == IF on /\ ~passwordMode THEN <<>> ELSE ring

\* setPasswordMode tells viewer and observers of a change; keys that follow are
\* broadcast unless there is a prompt.  handleFrame would set the mode on a
\* viewer's word too; no frontend sends that frame, and the model has none.
Poll(keys) ==
  /\ Running
  /\ LET on   == Polled(keys)
         told == IF on = passwordMode THEN <<>> ELSE <<Frame(IF on THEN "password" ELSE "plain")>>
     IN /\ passwordMode' = on
        /\ ring' = RingAtPrompt(on)
        /\ sealed' = IF on = passwordMode THEN sealed ELSE read
        /\ Deliver(told, told \o (IF on THEN <<>> ELSE keys))
  /\ UNCHANGED <<shellVars, read, backlogAbs, alt, veiled, shareBlocked, attached, phase>>

\* timerCallback, every 100 ms
Tick == hidden # passwordMode /\ Poll(<<>>)

\* queuePtyWrite, of keys from the viewer or from an input connection.  Keys
\* that are typed in the open are not kept in stream.
QueuePtyWrite == Poll(IF hidden THEN <<Frame("secret")>> ELSE <<>>)

-----------------------------------------------------------------------------
(* Replaying the ring to a new connection *)

RingStart == backlogAbs - Len(ring)

\* copyOut, unless in password mode.
Replayable == IF passwordMode THEN <<>> ELSE ring

\* replaySkipBytes: begin where the alternate screen was entered, and replay no
\* more than the newest TailCap.
CapSkip == IF Len(Replayable) > TailCap THEN Len(Replayable) - TailCap ELSE 0
ReplaySkip ==
  IF /\ alt.in /\ alt.enter # None /\ alt.enter >= RingStart
     /\ alt.enter - RingStart < Len(Replayable) /\ alt.enter - RingStart > CapSkip
    THEN alt.enter - RingStart ELSE CapSkip

\* alignReplayToLine: the cut line is left out.
AlignedToLine(skip) ==
  LET nl == First({i \in skip + 1 .. skip + AlignScan :
                      i <= Len(Replayable) /\ out[Replayable[i]] = "line"})
  IN IF skip \in 1 .. Len(Replayable) - 1 /\ nl # 0 THEN nl ELSE skip

\* alignReplayOutOfStringSeq: where a cut string sequence ends, or else it is
\* opened again.
CutString(skip) ==
  LET o == Last({i \in 1 .. skip : out[Replayable[i]] \in {"open", "close"}})
  IN skip \in 1 .. Len(Replayable) - 1 /\ o # 0 /\ out[Replayable[o]] = "open"
Terminator(skip) ==
  First({i \in skip + 1 .. Len(Replayable) : out[Replayable[i]] = "close"})
NotOutOfString(skip) == skip
OutOfString(skip) == IF CutString(skip) /\ Terminator(skip) # 0 THEN Terminator(skip) ELSE skip
Reopened(skip) == IF CutString(skip) /\ Terminator(skip) = 0 THEN <<Frame("reopen")>> ELSE <<>>

\* replayNeedsAltEnter
NeedsNoAltEnter(skip) == FALSE
NeedsAltEnter(skip) ==
  alt.in /\ (alt.enter = None \/ alt.enter < RingStart \/ alt.enter - RingStart < skip)

Replay ==
  LET cut  == AlignedToLine(ReplaySkip)
      skip == OutOfString(cut)
  IN (IF NeedsAltEnter(skip) THEN <<Frame("enter")>> ELSE <<>>)
     \o Reopened(cut)
     \o [i \in 1 .. Len(Replayable) - skip |-> Output(Replayable[skip + i])]
     \o <<Frame("backlog_end")>>

RingHead == IF Replayable = <<>> THEN read + 1 ELSE Replayable[1]

\* c is given the replay; a write to it that fails closes it.
Accepted(c) ==
  \/ /\ watching' = watching \union {c}
     /\ stream' = [stream EXCEPT ![c] = Replay]
     /\ head' = [head EXCEPT ![c] = RingHead]
  \/ Closed({c})

\* acceptVtClient; a viewer that was there is closed first.
AcceptVtClient ==
  /\ Running
  /\ Accepted(Viewer)
  /\ attached' \in {attached \/ Viewer \in watching', TRUE}
  /\ UNCHANGED <<shellVars, ringVars, promptVars, shareBlocked, phase>>

\* acceptObserver.  Observers are the MAX_OBSERVERS places there are: with none
\* free an observer is refused, which changes nothing here.
AcceptObserver(c) ==
  /\ Running /\ c \notin watching /\ ~shareBlocked
  /\ Accepted(c)
  /\ UNCHANGED <<shellVars, ringVars, promptVars, shareBlocked, attached, phase>>

\* setShareBlocked
SetShareBlocked(blocked) ==
  /\ Running
  /\ shareBlocked' = blocked
  /\ Closed(IF blocked THEN Observers ELSE {})
  /\ UNCHANGED <<shellVars, ringVars, promptVars, attached, phase>>

\* clientCallback: the viewer hangs up.
ClientGone ==
  /\ Running /\ Viewer \in watching
  /\ Closed({Viewer})
  /\ UNCHANGED <<shellVars, ringVars, promptVars, shareBlocked, attached, phase>>

-----------------------------------------------------------------------------
(* The end of the shell *)

Seen == Viewer \in watching \/ attached

\* run finds the shell dead and flushes what is left of its output.
ShellReaped ==
  /\ ~shell /\ (phase = "run" \/ (phase = "linger" /\ Seen))
  /\ phase' = "flush"
  /\ UNCHANGED <<shellVars, podVars>>

FlushRemainingPtyOutput == phase = "flush" /\ ProcessPtyOutput

FlushedAtOnce == TRUE
FlushedAll == read = Len(out)

\* A pod that has had a viewer ends, and takes no more connections.  This is
\* the orderly end; a poll or read of the pty that fails ends the loop with no
\* flush, and is left out.
Flushed ==
  /\ phase = "flush" /\ FlushedAll
  /\ phase' = IF Seen THEN "end" ELSE "linger"
  /\ UNCHANGED <<shellVars, podVars>>

\* POD_EXIT_ATTACH_GRACE_MS have passed.
GraceOver ==
  /\ phase = "linger" /\ phase' = "end"
  /\ UNCHANGED <<shellVars, podVars>>

Next ==
  \/ \E kind \in Kinds : ShellWrites(kind)
  \/ ShellFlipsEcho \/ ShellExits
  \/ PtyRead \/ Tick \/ QueuePtyWrite
  \/ AcceptVtClient \/ \E c \in Observers : AcceptObserver(c)
  \/ \E blocked \in BOOLEAN : SetShareBlocked(blocked)
  \/ ClientGone
  \/ ShellReaped \/ FlushRemainingPtyOutput \/ Flushed \/ GraceOver

Spec == Init /\ [][Next]_vars

-----------------------------------------------------------------------------
(* Properties *)

ItemsOf(c) == {stream[c][k] : k \in DOMAIN stream[c]}
Outputs(c) == {k \in DOMAIN stream[c] : stream[c][k].type = "output"}

TypeOK ==
  /\ out \in Seq(Kinds) /\ read \in 0 .. Len(out)
  /\ ring \in Seq(1 .. read) /\ Len(ring) <= RingCap /\ Len(ring) <= backlogAbs
  /\ watching \subseteq Conns
  /\ alt.in \in BOOLEAN /\ passwordMode \in BOOLEAN /\ phase \in {"run", "flush", "linger", "end"}
  /\ \A c \in Conns \ watching : stream[c] = <<>>

\* The viewer sees the output without gaps or repetitions up to the last unit
\* the pod has read, from the replay into the live stream, whenever it attached.
\* It sees nothing of it only when the replay was cut behind the last line.
ViewerSeesAll ==
  Viewer \in watching =>
    LET seen == Outputs(Viewer)
        at(k) == stream[Viewer][k].at
    IN /\ \A k \in seen : at(k) = read \/ \E l \in seen : k < l /\ at(l) = at(k) + 1
       /\ \A k, l \in seen : k < l => at(k) < at(l)
       /\ ring # <<>> /\ out[read] \notin {"line", "close"} => seen # {}

\* A fresh terminal that is fed a replay and what follows is on the screen,
\* main or alternate, that the program in the pane is on.
ScreenOf(kinds) ==
  LET s == Last({i \in DOMAIN kinds : kinds[i] \in Switches})
  IN IF s = 0 THEN "leave" ELSE kinds[s]
KindsSent(c) ==
  [k \in DOMAIN stream[c] |->
     IF stream[c][k].type = "output" THEN out[stream[c][k].at] ELSE stream[c][k].type]
ScreenAgrees ==
  \A c \in watching : ScreenOf(KindsSent(c)) = ScreenOf(SubSeq(out, 1, read))

\* A replay that is cut inside an image does not print the rest of it, unless
\* the beginning had left the ring or was withheld for a password prompt.
NoTornString ==
  \A c \in watching : Outputs(c) # {} =>
    LET first == stream[c][Min(Outputs(c))].at
    IN InString(first) =>
         Opener(first) < head[c] \/ Opener(first) \in veiled \/ Frame("reopen") \in ItemsOf(c)

\* What was on the screen up to the end of a password prompt can no longer be
\* replayed, and observers are sent neither output nor keys during one.
PromptsStayHidden ==
  /\ \A k \in DOMAIN ring : ring[k] > sealed
  /\ \A c \in watching \ {Viewer} :
       Frame("secret") \notin ItemsOf(c) /\ \A i \in veiled : Output(i) \notin ItemsOf(c)

\* The pod does not end before all that the shell wrote has been passed on.
LastWordsPassedOn == phase = "end" => read = Len(out)

\* A program that switches screens is shown from where it did: what it painted
\* since is in the replay, as far as the ring and the cap on replays allow.
PaintIsWhole ==
  \A c \in watching :
    LET e == Last({i \in 1 .. read : out[i] = "enter"})
        first == stream[c][Min(Outputs(c))].at
    IN /\ ScreenOf(SubSeq(out, 1, read)) = "enter" /\ e >= head[c]
       /\ Outputs(c) # {} /\ read - e < TailCap
       => first <= e

=============================================================================
