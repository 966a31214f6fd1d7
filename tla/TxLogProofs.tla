---------------------------- MODULE TxLogProofs ----------------------------
(***************************************************************************)
(* Proofs about TxLog for any sessions, thresholds and number of crashes:  *)
(* type correctness, that the daemon never appends behind the rest of a    *)
(* torn record, and that a recovery rolls back the detach a crash          *)
(* interrupted and no other.                                               *)
(*                                                                         *)
(* All but type correctness assume CleanCrashes: no record is torn in an   *)
(* empty file, and no write fails under a daemon that lives on.  The code  *)
(* excludes neither; TLC finds what is lost with them (see the README).    *)
(*                                                                         *)
(* What a recovery finds depends on the last record on each session.  The  *)
(* invariant says that there is one if there is any (HasLast), that of     *)
(* every session but the one whose detach is under way it is not the start *)
(* of a detach (OthersSettled), and of that one it is (OpenOn).            *)
(***************************************************************************)
EXTENDS TxLog, TLAPS, SequenceTheorems

CleanCrashes == Faults \subseteq {"tear", "empty"}

Entries == Record \union {Torn}

-----------------------------------------------------------------------------
(* Type correctness *)

LEMMA EntryIsRecord ==
  ASSUME NEW s \in Sessions, NEW type \in Starts \union Commits
  PROVE  /\ Entry(type, s) \in Record
         /\ Entry(type, s).type = type /\ Entry(type, s).session = s
BY DEF Entry, Record

LEMMA OpenedIsSeq ==
  ASSUME TypeOK
  PROVE  Opened \in Seq(Entries) /\ (Opened = file \/ Opened = <<>>)
BY DEF TypeOK, Opened, Entries

LEMMA AppendIsSeq ==
  ASSUME NEW f \in Seq(Entries), NEW r \in Entries
  PROVE  Append(f, r) \in Seq(Entries)
BY AppendProperties

\* Whatever a write leaves, it is a file, and the counter stays a number.
LEMMA LeftoverIsSeq ==
  ASSUME TypeOK, NEW r \in Record, NEW f \in Leftover(r)
  PROVE  f \in Seq(Entries)
<1>1. r \in Entries /\ Torn \in Entries
  BY DEF Entries
<1>2. f \in {Opened, Append(Opened, r), Append(Opened, Torn)}
  BY DEF Leftover
<1>3. QED
  BY <1>1, <1>2, OpenedIsSeq, AppendIsSeq

LEMMA WrittenIsTyped ==
  ASSUME TypeOK, NEW r \in Record, Written(r)
  PROVE  file' \in Seq(Entries) /\ header' \in BOOLEAN /\ openTx' \in Nat
<1>1. r \in Entries /\ openTx \in Nat
  BY DEF Entries, TypeOK
<1>2. Counted(r) \in Nat
  BY <1>1 DEF Counted
<1>3. Append(Opened, r) \in Seq(Entries) /\ <<>> \in Seq(Entries)
  BY <1>1, OpenedIsSeq, AppendIsSeq, EmptySeq
<1>4. \A f \in Leftover(r) : f \in Seq(Entries)
  BY LeftoverIsSeq
<1>5. CASE openTx' = Counted(r)
  BY <1>1, <1>2, <1>3, <1>4, <1>5 DEF Written
<1>6. CASE openTx' = openTx
  BY <1>1, <1>2, <1>3, <1>4, <1>6 DEF Written
<1>7. QED
  BY <1>5, <1>6 DEF Written

LEMMA CutShortIsTyped ==
  ASSUME TypeOK, NEW r \in Record, NEW done \in BOOLEAN, CutShort(r, done)
  PROVE  /\ file' \in Seq(Entries) /\ header' \in BOOLEAN
         /\ crashes' \in 0 .. MaxCrashes /\ up' = FALSE
<1>1. r \in Entries
  BY DEF Entries
<1>2. Append(Opened, r) \in Seq(Entries) /\ <<>> \in Seq(Entries)
  BY <1>1, OpenedIsSeq, AppendIsSeq, EmptySeq
<1>3. \A f \in Leftover(r) : f \in Seq(Entries)
  BY LeftoverIsSeq
<1>4. crashes' \in 0 .. MaxCrashes /\ up' = FALSE
  BY LogAssumption DEF CutShort, TypeOK
<1>5. file' \in Seq(Entries) /\ header' \in BOOLEAN
  BY <1>2, <1>3 DEF CutShort
<1>6. QED
  BY <1>4, <1>5

LEMMA RecoverIsTyped == TypeOK /\ Recover => TypeOK'
<1>1. SUFFICES ASSUME TypeOK, Recover PROVE TypeOK'
  OBVIOUS
<1>2. file' \in Seq(Entries)
  BY <1>1, OpenedIsSeq, EmptySeq DEF Recover, Emptied
<1>3. found' \subseteq Sessions /\ doing' \in Sessions \union {NoSession}
  BY <1>1 DEF Recover
<1>4. QED
  BY <1>1, <1>2, <1>3 DEF TypeOK, Recover, Entries

LEMMA TypeStep == TypeOK /\ [Next]_vars => TypeOK'
<1>1. SUFFICES ASSUME TypeOK, [Next]_vars PROVE TypeOK'
  OBVIOUS
<1>2. ASSUME NEW r \in Record, doing' \in Sessions \union {NoSession},
             \/ Written(r) /\ UNCHANGED <<up, found, crashes>>
             \/ \E done \in BOOLEAN : CutShort(r, done)
      PROVE  TypeOK'
  <2>1. CASE Written(r) /\ UNCHANGED <<up, found, crashes>>
    BY <1>1, <1>2, <2>1, WrittenIsTyped DEF TypeOK, Entries
  <2>2. ASSUME NEW done \in BOOLEAN, CutShort(r, done) PROVE TypeOK'
    <3>1. UNCHANGED <<openTx, found>>
      BY <2>2 DEF CutShort
    <3>2. QED
      BY <1>1, <1>2, <2>2, <3>1, CutShortIsTyped DEF TypeOK, Entries
  <2>3. QED
    BY <1>2, <2>1, <2>2
<1>3. doing \in Sessions \union {NoSession}
  BY <1>1 DEF TypeOK
<1>4. ASSUME NEW s \in Sessions, DetachStart(s) PROVE TypeOK'
  <2>1. Entry("detach_start", s) \in Record
    BY EntryIsRecord DEF Starts
  <2>2. doing' \in Sessions \union {NoSession}
    BY <1>3, <1>4 DEF DetachStart
  <2>3. QED
    BY <1>2, <1>4, <2>1, <2>2 DEF DetachStart
<1>5. CASE DetachCommit
  <2>1. Entry("detach_commit", doing) \in Record
    BY <1>3, <1>5, EntryIsRecord DEF DetachCommit, Commits
  <2>2. doing' \in Sessions \union {NoSession}
    BY <1>3, <1>5 DEF DetachCommit
  <2>3. QED
    BY <1>2, <1>5, <2>1, <2>2 DEF DetachCommit
<1>6. ASSUME NEW s \in Sessions, NEW type \in Starts \union Commits, Reattaching(s, type)
      PROVE  TypeOK'
  <2>1. Entry(type, s) \in Record /\ doing' = doing
    BY <1>6, EntryIsRecord DEF Reattaching
  <2>2. QED
    BY <1>2, <1>3, <1>6, <2>1 DEF Reattaching
<1>7. ASSUME NEW s \in Sessions, ReattachStart(s) \/ Register(s) PROVE TypeOK'
  BY <1>6, <1>7 DEF ReattachStart, Register, Starts, Commits
<1>8. CASE Crash
  <2>1. crashes' \in 0 .. MaxCrashes
    BY <1>1, <1>8, LogAssumption DEF Crash, TypeOK
  <2>2. QED
    BY <1>1, <1>8, <2>1 DEF Crash, TypeOK
<1>9. CASE Recover
  BY <1>1, <1>9, RecoverIsTyped
<1>10. CASE UNCHANGED vars
  BY <1>1, <1>10 DEF vars, TypeOK
<1>11. QED
  BY <1>1, <1>4, <1>5, <1>7, <1>8, <1>9, <1>10 DEF Next

LEMMA TypeInit == Init => TypeOK
<1>1. SUFFICES ASSUME Init PROVE TypeOK
  OBVIOUS
<1>2. ASSUME NEW s \in Sessions PROVE <<Entry("detach_start", s)>> \in Seq(Entries)
  <2>1. Entry("detach_start", s) \in Entries
    BY EntryIsRecord DEF Starts, Entries
  <2>2. <<Entry("detach_start", s)>> = Append(<<>>, Entry("detach_start", s))
    OBVIOUS
  <2>3. QED
    BY <2>1, <2>2, EmptySeq, AppendIsSeq
<1>3. file \in Seq(Entries)
  BY <1>1, <1>2, EmptySeq DEF Init
<1>4. 0 \in 0 .. MaxCrashes
  BY LogAssumption
<1>5. found \subseteq Sessions /\ crashes \in 0 .. MaxCrashes /\ openTx \in Nat
  BY <1>1, <1>4 DEF Init
<1>6. QED
  BY <1>1, <1>3, <1>5 DEF Init, TypeOK, Entries

\* The log is well typed whatever its faults: a sequence of records, whole or
\* torn, and a counter of open transactions that never wraps below zero.
THEOREM TypeCorrect == Spec => []TypeOK
BY TypeInit, TypeStep, PTL DEF Spec
-----------------------------------------------------------------------------
(* The last record on a session *)

LastOn(f, s, i) ==
  /\ i \in DOMAIN f /\ f[i].session = s
  /\ \A j \in DOMAIN f : f[j].session = s => j <= i

HasLast(f) ==
  \A s \in Sessions :
    (\E j \in DOMAIN f : f[j].session = s) => \E i \in DOMAIN f : LastOn(f, s, i)

OthersSettled(f, d) ==
  \A s \in Sessions \ {d} : \A i \in DOMAIN f :
    LastOn(f, s, i) => f[i].type # "detach_start"

OpenOn(f, d) == \E i \in DOMAIN f : LastOn(f, d, i) /\ f[i].type = "detach_start"

\* The facts about Append that the lemmas below need.
LEMMA AppendFacts ==
  ASSUME NEW f \in Seq(Entries), NEW r \in Entries
  PROVE  LET g == Append(f, r) IN
         /\ Len(f) \in Nat /\ DOMAIN f = 1 .. Len(f)
         /\ g \in Seq(Entries) /\ Len(g) = Len(f) + 1
         /\ DOMAIN g = 1 .. Len(f) + 1
         /\ \A i \in 1 .. Len(f) : g[i] = f[i]
         /\ g[Len(f) + 1] = r
BY AppendProperties, LenProperties

\* The record appended is the last on its own session ...
LEMMA LastOnOwn ==
  ASSUME NEW f \in Seq(Entries), NEW r \in Entries, NEW i
  PROVE  LastOn(Append(f, r), r.session, i) <=> i = Len(f) + 1
BY AppendFacts DEF LastOn

\* ... and changes nothing for the others.
LEMMA LastOnOther ==
  ASSUME NEW f \in Seq(Entries), NEW r \in Entries, NEW s, s # r.session, NEW i
  PROVE  /\ LastOn(Append(f, r), s, i) <=> LastOn(f, s, i)
         /\ LastOn(f, s, i) => Append(f, r)[i] = f[i]
BY AppendFacts DEF LastOn

LEMMA AppendHasLast ==
  ASSUME NEW f \in Seq(Entries), NEW r \in Entries, HasLast(f)
  PROVE  HasLast(Append(f, r))
<1> DEFINE g == Append(f, r)
<1>1. SUFFICES ASSUME NEW s \in Sessions, NEW j \in DOMAIN g, g[j].session = s
               PROVE  \E i \in DOMAIN g : LastOn(g, s, i)
  BY DEF HasLast
<1>2. CASE s = r.session
  <2>1. LastOn(g, s, Len(f) + 1)
    BY <1>2, LastOnOwn
  <2>2. QED
    BY <2>1 DEF LastOn
<1>3. CASE s # r.session
  <2>1. j \in DOMAIN f /\ f[j].session = s
    BY <1>1, <1>3, AppendFacts
  <2>2. PICK i \in DOMAIN f : LastOn(f, s, i)
    BY <2>1 DEF HasLast
  <2>3. LastOn(g, s, i)
    BY <1>3, <2>2, LastOnOther
  <2>4. QED
    BY <2>3 DEF LastOn
<1>4. QED
  BY <1>2, <1>3

\* A record settles the sessions other than d, unless it starts a detach of one.
LEMMA AppendSettles ==
  ASSUME NEW f \in Seq(Entries), NEW r \in Entries, NEW c, NEW d,
         OthersSettled(f, c),
         c = d \/ c \notin Sessions \/ r.session = c,
         r.type # "detach_start" \/ r.session = d
  PROVE  OthersSettled(Append(f, r), d)
<1> DEFINE g == Append(f, r)
<1>1. SUFFICES ASSUME NEW s \in Sessions \ {d}, NEW i \in DOMAIN g, LastOn(g, s, i)
               PROVE  g[i].type # "detach_start"
  BY DEF OthersSettled
<1>2. CASE s = r.session
  <2>1. i = Len(f) + 1
    BY <1>1, <1>2, LastOnOwn
  <2>2. QED
    BY <1>2, <2>1, AppendFacts
<1>3. CASE s # r.session
  <2>1. LastOn(f, s, i) /\ g[i] = f[i]
    BY <1>1, <1>3, LastOnOther
  <2>2. i \in DOMAIN f /\ s # c
    BY <1>3, <2>1 DEF LastOn
  <2>3. QED
    BY <2>1, <2>2 DEF OthersSettled
<1>4. QED
  BY <1>2, <1>3

\* Starting a detach opens it; the rest of a torn record does not settle it.
LEMMA AppendOpens ==
  ASSUME NEW f \in Seq(Entries), NEW r \in Entries, NEW d,
         \/ r.session = d /\ r.type = "detach_start"
         \/ r.session # d /\ OpenOn(f, d)
  PROVE  OpenOn(Append(f, r), d)
<1> DEFINE g == Append(f, r)
<1>1. CASE r.session = d /\ r.type = "detach_start"
  <2>1. LastOn(g, d, Len(f) + 1)
    BY <1>1, LastOnOwn
  <2>2. g[Len(f) + 1].type = "detach_start" /\ Len(f) + 1 \in DOMAIN g
    BY <1>1, <2>1, AppendFacts
  <2>3. QED
    BY <2>1, <2>2 DEF OpenOn
<1>2. CASE r.session # d /\ OpenOn(f, d)
  <2>1. PICK i \in DOMAIN f : LastOn(f, d, i) /\ f[i].type = "detach_start"
    BY <1>2 DEF OpenOn
  <2>2. LastOn(g, d, i) /\ g[i] = f[i]
    BY <1>2, <2>1, LastOnOther
  <2>3. i \in DOMAIN g
    BY <2>2 DEF LastOn
  <2>4. QED
    BY <2>1, <2>2, <2>3 DEF OpenOn
<1>3. QED
  BY <1>1, <1>2

-----------------------------------------------------------------------------
(* The invariant *)

SettledBut(f, d) ==
  /\ HasLast(f) /\ OthersSettled(f, d)
  /\ d # NoSession => OpenOn(f, d)

RestIsLast == \A i \in DOMAIN file : file[i] = Torn => i = Len(file) /\ i > 1 /\ ~up

LogInv == RestIsLast /\ SettledBut(Opened, doing)

LEMMA EmptySettled == SettledBut(<<>>, NoSession)
BY DEF SettledBut, HasLast, OthersSettled

LEMMA TornSettled ==
  ASSUME NEW f \in Seq(Entries), NEW d \in Sessions \union {NoSession}, SettledBut(f, d)
  PROVE  SettledBut(Append(f, Torn), d)
<1>1. Torn \in Entries /\ Torn.session = NoSession /\ Torn.type # "detach_start"
  BY DEF Entries, Torn
<1>2. HasLast(Append(f, Torn)) /\ OthersSettled(Append(f, Torn), d)
  BY <1>1, AppendHasLast, AppendSettles DEF SettledBut
<1>3. d # NoSession => OpenOn(Append(f, Torn), d)
  BY <1>1, AppendOpens DEF SettledBut
<1>4. QED
  BY <1>2, <1>3 DEF SettledBut

LEMMA RecordSettled ==
  ASSUME NEW f \in Seq(Entries), NEW r \in Record,
         NEW c \in Sessions \union {NoSession}, NEW d \in Sessions \union {NoSession},
         SettledBut(f, c),
         c = NoSession \/ r.session = c,
         r.type = "detach_start" => r.session = d,
         d # NoSession => r.type = "detach_start"
  PROVE  SettledBut(Append(f, r), d)
<1>1. r \in Entries /\ NoSession \notin Sessions
  BY LogAssumption DEF Entries
<1>2. HasLast(Append(f, r)) /\ OthersSettled(Append(f, r), d)
  BY <1>1, AppendHasLast, AppendSettles DEF SettledBut
<1>3. d # NoSession => OpenOn(Append(f, r), d)
  BY <1>1, AppendOpens
<1>4. QED
  BY <1>2, <1>3 DEF SettledBut

\* A running daemon writes behind whole records only.
LEMMA OpenedIsWhole ==
  ASSUME TypeOK, RestIsLast, up
  PROVE  \A i \in DOMAIN Opened : Opened[i] # Torn
BY DEF Opened, RestIsLast

\* No crash in a file that is written to leaves the rest of a record anywhere
\* but at its end.
LEMMA RestStaysLast ==
  ASSUME TypeOK, RestIsLast, up, NEW r \in Record,
         \/ file' = <<>> \/ file' = Opened \/ file' = Append(Opened, r)
         \/ Opened # <<>> /\ file' = Append(Opened, Torn) /\ ~up'
  PROVE  RestIsLast'
<1>1. Opened \in Seq(Entries) /\ r \in Entries /\ Torn \in Entries
  BY OpenedIsSeq DEF Entries
<1>2. r # Torn
  BY DEF Record, Torn, Starts, Commits
<1>3. \A i \in DOMAIN Opened : Opened[i] # Torn
  BY OpenedIsWhole
<1>4. CASE file' = <<>> \/ file' = Opened
  BY <1>3, <1>4 DEF RestIsLast
<1>5. CASE file' = Append(Opened, r)
  BY <1>1, <1>2, <1>3, <1>5, AppendFacts DEF RestIsLast
<1>6. CASE Opened # <<>> /\ file' = Append(Opened, Torn) /\ ~up'
  <2>1. Len(Opened) # 0
    BY <1>1, <1>6, EmptySeq
  <2>2. QED
    BY <1>1, <1>3, <1>6, <2>1, AppendFacts DEF RestIsLast
<1>7. QED
  BY <1>4, <1>5, <1>6

LEMMA WrittenLeaves ==
  ASSUME CleanCrashes, TypeOK, RestIsLast, up, NEW r \in Record, Written(r), up' = up
  PROVE  /\ RestIsLast'
         /\ \/ Opened' = Append(Opened, r)
            \/ Opened' = <<>> /\ r.type \in Commits
<1>1. "disk" \notin Faults
  BY DEF CleanCrashes
<1>2. \/ file' = Append(Opened, r) /\ header' = TRUE
      \/ file' = <<>> /\ r.type \in Commits
  BY <1>1 DEF Written, MayCompact
<1>3. RestIsLast'
  BY <1>2, RestStaysLast
<1>4. QED
  BY <1>2, <1>3 DEF Opened

LEMMA CutShortLeaves ==
  ASSUME CleanCrashes, TypeOK, RestIsLast, up, NEW r \in Record,
         NEW done \in BOOLEAN, CutShort(r, done)
  PROVE  /\ RestIsLast'
         /\ \/ done /\ Opened' = Append(Opened, r)
            \/ done /\ Opened' = <<>> /\ r.type \in Commits
            \/ ~done /\ (Opened' = Opened \/ Opened' = Append(Opened, Torn))
<1>1. "first" \notin Faults
  BY DEF CleanCrashes
<1>2. Leftover(r) \ {Append(Opened, r)}
        \subseteq {Opened} \union (IF Opened # <<>> THEN {Append(Opened, Torn)} ELSE {})
  BY <1>1 DEF Leftover
<1>3. up' = FALSE
  BY DEF CutShort
<1>4. \/ done /\ header' = TRUE /\ file' = Append(Opened, r)
      \/ done /\ file' = <<>> /\ r.type \in Commits
      \/ ~done /\ header' = TRUE /\ file' = Opened
      \/ ~done /\ header' = TRUE /\ Opened # <<>> /\ file' = Append(Opened, Torn)
  BY <1>2 DEF CutShort, MayCompact
<1>5. RestIsLast'
  BY <1>3, <1>4, RestStaysLast
<1>6. QED
  BY <1>4, <1>5 DEF Opened

\* One write of the daemon, completed or cut short, that makes doing' what it
\* says: the invariant in its two cases.
LEMMA WriteKeeps ==
  ASSUME CleanCrashes, TypeOK, LogInv, up, NEW r \in Record,
         NEW d \in Sessions \union {NoSession},
         doing = NoSession \/ r.session = doing,
         r.type = "detach_start" => r.session = d,
         d # NoSession => r.type = "detach_start"
  PROVE  /\ Written(r) /\ up' = up /\ doing' = d => LogInv'
         /\ \A done \in BOOLEAN :
              CutShort(r, done) /\ doing' = (IF done THEN d ELSE doing) => LogInv'
<1>1. Opened \in Seq(Entries) /\ doing \in Sessions \union {NoSession} /\ RestIsLast
  BY OpenedIsSeq DEF TypeOK, LogInv
<1>2. SettledBut(Append(Opened, r), d)
  BY <1>1, RecordSettled DEF LogInv
<1>3. r.type \in Commits => SettledBut(<<>>, d)
  <2>1. r.type \in Commits => r.type # "detach_start"
    BY DEF Commits
  <2>2. QED
    BY <2>1, EmptySettled
<1>4. ASSUME Written(r), up' = up, doing' = d PROVE LogInv'
  <2>1. /\ RestIsLast'
        /\ \/ Opened' = Append(Opened, r)
           \/ Opened' = <<>> /\ r.type \in Commits
    BY <1>1, <1>4, WrittenLeaves
  <2>2. SettledBut(Opened', doing')
    BY <1>2, <1>3, <1>4, <2>1
  <2>3. QED
    BY <2>1, <2>2 DEF LogInv, SettledBut, HasLast, OthersSettled, OpenOn, LastOn
<1>5. ASSUME NEW done \in BOOLEAN, CutShort(r, done),
             doing' = IF done THEN d ELSE doing
      PROVE  LogInv'
  <2>1. /\ RestIsLast'
        /\ \/ done /\ Opened' = Append(Opened, r)
           \/ done /\ Opened' = <<>> /\ r.type \in Commits
           \/ ~done /\ (Opened' = Opened \/ Opened' = Append(Opened, Torn))
    BY <1>1, <1>5, CutShortLeaves
  <2>2. SettledBut(Opened, doing) /\ SettledBut(Append(Opened, Torn), doing)
    BY <1>1, TornSettled DEF LogInv
  <2>3. SettledBut(Opened', doing')
    BY <1>2, <1>3, <1>5, <2>1, <2>2
  <2>4. QED
    BY <2>1, <2>3 DEF LogInv, SettledBut, HasLast, OthersSettled, OpenOn, LastOn
<1>6. QED
  BY <1>4, <1>5

-----------------------------------------------------------------------------
(* Recovery *)

RestAtEnd(f) == \A i \in DOMAIN f : f[i] = Torn => i = Len(f) /\ i > 1

\* What is read of a file that ends in the rest of a record is all before it.
LEMMA WholeFacts ==
  ASSUME NEW f \in Seq(Entries), RestAtEnd(f)
  PROVE  /\ Whole(f) \in Seq(Entries)
         /\ Len(Whole(f)) <= Len(f)
         /\ Whole(f) = <<>> => f = <<>>
         /\ \A s \in Sessions : \A i :
              /\ i \in DOMAIN Whole(f) /\ Whole(f)[i].session = s
                   <=> i \in DOMAIN f /\ f[i].session = s
              /\ i \in DOMAIN Whole(f) => Whole(f)[i] = f[i]
<1> DEFINE bad == {i \in DOMAIN f : f[i] = Torn}
<1>1. Len(f) \in Nat /\ DOMAIN f = 1 .. Len(f)
  BY LenProperties
<1>2. bad \subseteq {Len(f)} /\ (bad # {} => Len(f) > 1)
  BY <1>1 DEF RestAtEnd
<1>3. CASE bad = {}
  <2>1. Whole(f) = f
    BY <1>3 DEF Whole
  <2>2. QED
    BY <1>1, <2>1
<1>4. CASE bad # {}
  <2>1. bad = {Len(f)} /\ f[Len(f)] = Torn
    BY <1>1, <1>2, <1>4
  <2>2. (CHOOSE i \in bad : \A j \in bad : i <= j) = Len(f)
    BY <1>1, <2>1
  <2>3. Whole(f) = SubSeq(f, 1, Len(f) - 1)
    BY <1>4, <2>2 DEF Whole
  <2>4. \A i \in 1 .. Len(f) - 1 : f[i] \in Entries
    BY <1>1, ElementOfSeq
  <2>5. /\ Whole(f) \in Seq(Entries) /\ Len(Whole(f)) = Len(f) - 1
        /\ \A i \in 1 .. Len(f) - 1 : Whole(f)[i] = f[i]
    BY <1>1, <1>2, <1>4, <2>3, <2>4, SubSeqProperties
  <2>6. DOMAIN Whole(f) = 1 .. Len(f) - 1
    BY <2>5, LenProperties
  <2>7. \A s \in Sessions : f[Len(f)].session # s
    BY <2>1, LogAssumption DEF Torn
  <2>8. Whole(f) # <<>>
    BY <1>1, <1>2, <1>4, <2>5, EmptySeq
  <2>9. QED
    BY <1>1, <2>5, <2>6, <2>7, <2>8
<1>5. QED
  BY <1>3, <1>4

LEMMA OpenedEndsSo ==
  ASSUME TypeOK, RestIsLast
  PROVE  Opened \in Seq(Entries) /\ RestAtEnd(Opened)
BY OpenedIsSeq DEF Opened, RestIsLast, RestAtEnd

\* A log that is not too long is read to its last whole record.
LEMMA ReadFacts ==
  ASSUME TypeOK, RestIsLast
  PROVE  /\ ~ReadTruncated(Opened) <=> Len(Whole(Opened)) <= ReplayCap
         /\ ~ReadTruncated(Opened) => ReadAll(Opened) = Whole(Opened)
         /\ ReadAll(Opened) = <<>> => Opened = <<>>
<1> DEFINE w == Whole(Opened)
<1>1. w \in Seq(Entries) /\ Len(w) \in Nat /\ ReplayCap \in Nat
  BY OpenedEndsSo, WholeFacts, LenProperties, LogAssumption
<1>2. CASE Len(w) <= ReplayCap
  <2>1. ReadAll(Opened) = w
    BY <1>1, <1>2 DEF ReadAll
  <2>2. QED
    BY <1>1, <1>2, <2>1, OpenedEndsSo, WholeFacts DEF ReadTruncated
<1>3. CASE Len(w) > ReplayCap
  <2>1. ReadAll(Opened) = SubSeq(w, 1, ReplayCap + 1)
    BY <1>1, <1>3 DEF ReadAll
  <2>2. \A i \in 1 .. ReplayCap + 1 : w[i] \in Entries
    BY <1>1, <1>3, ElementOfSeq
  <2>3. Len(ReadAll(Opened)) = ReplayCap + 1
    BY <1>1, <2>1, <2>2, SubSeqProperties
  <2>4. ReadAll(Opened) # <<>>
    BY <1>1, <2>3, EmptySeq
  <2>5. QED
    BY <1>1, <1>3, <2>3, <2>4 DEF ReadTruncated
<1>4. QED
  BY <1>1, <1>2, <1>3

\* The last record on s in f is of some type.
LastIs(f, s, type) == \E i \in DOMAIN f : LastOn(f, s, i) /\ f[i].type = type

\* An operation on a session is found open if the last record on it began one.
LEMMA IncompleteIsLast ==
  ASSUME NEW f \in Seq(Entries), RestAtEnd(f), HasLast(f), NEW s \in Sessions,
         NEW type \in Starts
  PROVE  Incomplete(Whole(f), s) = type <=> LastIs(f, s, type)
<1> DEFINE w == Whole(f)
           on == {i \in DOMAIN w : w[i].session = s}
           last == CHOOSE i \in on : \A j \in on : j <= i
<1>1. /\ on = {i \in DOMAIN f : f[i].session = s}
      /\ \A i \in on : w[i] = f[i]
  BY WholeFacts
<1>2. \A i : LastOn(f, s, i) <=> i \in on /\ \A j \in on : j <= i
  BY <1>1 DEF LastOn
<1>3. DOMAIN f = 1 .. Len(f) /\ Len(f) \in Nat
  BY LenProperties
<1>4. CASE on = {}
  <2>1. Incomplete(w, s) = "none"
    BY <1>4 DEF Incomplete
  <2>2. QED
    BY <1>2, <1>4, <2>1 DEF LastIs, Starts
<1>5. CASE on # {}
  <2>1. \E i \in on : \A j \in on : j <= i
    BY <1>1, <1>2, <1>5 DEF HasLast
  <2>2. last \in on /\ \A j \in on : j <= last
    BY <2>1
  <2>3. \A i : LastOn(f, s, i) <=> i = last
    BY <1>1, <1>2, <1>3, <2>2
  <2>4. Incomplete(w, s) = type <=> w[last].type = type
    BY <1>5 DEF Incomplete, Starts
  <2>5. QED
    BY <1>1, <2>2, <2>3, <2>4 DEF LastIs
<1>6. QED
  BY <1>4, <1>5

LEMMA RecoverKeeps == TypeOK /\ LogInv /\ Recover => LogInv'
<1>1. SUFFICES ASSUME TypeOK, LogInv, Recover PROVE LogInv'
  OBVIOUS
<1>2. file' = <<>>
  BY <1>1, ReadFacts DEF Recover, Emptied, LogInv
<1>3. Opened' = <<>> /\ doing' = NoSession
  BY <1>1, <1>2 DEF Opened, Recover
<1>4. SettledBut(Opened', doing')
  BY <1>3, EmptySettled
<1>5. RestIsLast'
  BY <1>2 DEF RestIsLast
<1>6. QED
  BY <1>4, <1>5 DEF LogInv, SettledBut, HasLast, OthersSettled, OpenOn, LastOn

LEMMA LogInit == Init => LogInv
<1>1. SUFFICES ASSUME Init PROVE LogInv
  OBVIOUS
<1>2. Opened = <<>> /\ doing = NoSession
  BY <1>1 DEF Init, Opened
<1>3. \A s \in Sessions : Entry("detach_start", s) # Torn
  BY LogAssumption DEF Entry, Torn
<1>4. RestIsLast
  BY <1>1, <1>3 DEF Init, RestIsLast
<1>5. QED
  BY <1>2, <1>4, EmptySettled DEF LogInv

LEMMA LogStep == CleanCrashes /\ TypeOK /\ LogInv /\ [Next]_vars => LogInv'
<1>1. SUFFICES ASSUME CleanCrashes, TypeOK, LogInv, [Next]_vars PROVE LogInv'
  OBVIOUS
<1>2. doing \in Sessions \union {NoSession} /\ NoSession \notin Sessions
  BY <1>1, LogAssumption DEF TypeOK
<1>3. ASSUME NEW s \in Sessions, DetachStart(s) PROVE LogInv'
  <2> DEFINE r == Entry("detach_start", s)
  <2>1. r \in Record /\ r.type = "detach_start" /\ r.session = s
    BY EntryIsRecord DEF Starts
  <2>2. up /\ doing = NoSession
    BY <1>3 DEF DetachStart
  <2>3. /\ Written(r) /\ up' = up /\ doing' = s => LogInv'
        /\ \A done \in BOOLEAN :
             CutShort(r, done) /\ doing' = (IF done THEN s ELSE doing) => LogInv'
    BY <1>1, <1>2, <2>1, <2>2, WriteKeeps
  <2>4. QED
    BY <1>3, <2>3 DEF DetachStart
<1>4. CASE DetachCommit
  <2> DEFINE r == Entry("detach_commit", doing)
  <2>1. up /\ doing \in Sessions
    BY <1>2, <1>4 DEF DetachCommit
  <2>2. r \in Record /\ r.type = "detach_commit" /\ r.session = doing
    BY <2>1, EntryIsRecord DEF Commits
  <2>3. /\ Written(r) /\ up' = up /\ doing' = NoSession => LogInv'
        /\ \A done \in BOOLEAN :
             CutShort(r, done) /\ doing' = (IF done THEN NoSession ELSE doing) => LogInv'
    BY <1>1, <1>2, <2>1, <2>2, WriteKeeps
  <2>4. QED
    BY <1>4, <2>3 DEF DetachCommit
<1>5. ASSUME NEW s \in Sessions, NEW type \in {"reattach_start", "reattach_commit"},
             Reattaching(s, type)
      PROVE  LogInv'
  <2> DEFINE r == Entry(type, s)
  <2>1. r \in Record /\ r.type = type
    BY EntryIsRecord DEF Starts, Commits
  <2>2. up /\ doing = NoSession /\ doing' = NoSession
    BY <1>5 DEF Reattaching
  <2>3. /\ Written(r) /\ up' = up /\ doing' = NoSession => LogInv'
        /\ \A done \in BOOLEAN :
             CutShort(r, done) /\ doing' = (IF done THEN NoSession ELSE doing) => LogInv'
    BY <1>1, <1>2, <2>1, <2>2, WriteKeeps
  <2>4. QED
    BY <1>5, <2>2, <2>3 DEF Reattaching
<1>6. ASSUME NEW s \in Sessions, ReattachStart(s) \/ Register(s) PROVE LogInv'
  BY <1>5, <1>6 DEF ReattachStart, Register
<1>7. CASE Crash
  BY <1>1, <1>7
     DEF Crash, LogInv, RestIsLast, Opened, SettledBut, HasLast, OthersSettled, OpenOn, LastOn
<1>8. CASE Recover
  BY <1>1, <1>8, RecoverKeeps
<1>9. CASE UNCHANGED vars
  BY <1>1, <1>9
     DEF vars, LogInv, RestIsLast, Opened, SettledBut, HasLast, OthersSettled, OpenOn, LastOn
<1>10. QED
  BY <1>1, <1>3, <1>4, <1>6, <1>7, <1>8, <1>9 DEF Next

LEMMA LogInvariant == CleanCrashes => (Spec => [](TypeOK /\ LogInv))
<1>1. SUFFICES ASSUME CleanCrashes PROVE Spec => [](TypeOK /\ LogInv)
  OBVIOUS
<1>2. Init => TypeOK /\ LogInv
  BY TypeInit, LogInit
<1>3. TypeOK /\ LogInv /\ [Next]_vars => (TypeOK /\ LogInv)'
  BY <1>1, TypeStep, LogStep
<1>4. QED
  BY <1>2, <1>3, PTL DEF Spec

-----------------------------------------------------------------------------
(* What the log promises *)

LEMMA RecoverFinds ==
  ASSUME TypeOK, LogInv, Recover
  PROVE  /\ found' \subseteq {doing}
         /\ doing # NoSession /\ Len(file) <= ReplayCap => doing \in found'
<1>1. RestIsLast /\ SettledBut(Opened, doing)
  BY DEF LogInv
<1>2. \A s \in Sessions : OpenOn(Opened, s) => s = doing
  BY <1>1 DEF OpenOn, SettledBut, OthersSettled
<1>3. CASE ReadTruncated(Opened)
  <2>1. found' = {}
    BY <1>3 DEF Recover
  <2>2. Len(Opened) > ReplayCap
    <3>1. Len(Whole(Opened)) > ReplayCap
      BY <1>1, <1>3, ReadFacts, OpenedEndsSo, WholeFacts, LenProperties, LogAssumption
    <3>2. Len(Opened) \in Nat /\ Len(Whole(Opened)) \in Nat /\ ReplayCap \in Nat
      BY <1>1, OpenedEndsSo, WholeFacts, LenProperties, LogAssumption
    <3>3. QED
      BY <1>1, <3>1, <3>2, OpenedEndsSo, WholeFacts
  <2>3. Len(file) > ReplayCap
    <3>1. Opened = file
      BY <2>2, LogAssumption DEF Opened
    <3>2. QED
      BY <2>2, <3>1
  <2>4. Len(file) \in Nat /\ ReplayCap \in Nat
    BY LenProperties, LogAssumption DEF TypeOK
  <2>5. QED
    BY <2>1, <2>3, <2>4
<1>4. CASE ~ReadTruncated(Opened)
  <2>1. found' = {s \in Sessions : OpenOn(Opened, s)}
    <3>1. \A s \in Sessions :
            Incomplete(Whole(Opened), s) = "detach_start" <=> OpenOn(Opened, s)
      BY <1>1, OpenedEndsSo, IncompleteIsLast DEF SettledBut, Starts, LastIs, OpenOn
    <3>2. QED
      BY <1>1, <1>4, <3>1, ReadFacts DEF Recover
  <2>2. doing # NoSession => doing \in Sessions /\ OpenOn(Opened, doing)
    BY <1>1 DEF TypeOK, SettledBut
  <2>3. QED
    BY <1>2, <2>1, <2>2
<1>5. QED
  BY <1>3, <1>4

\* The daemon never appends behind the rest of a torn record, so that all it
\* writes is read back: recovery empties the file before anything is written.
THEOREM LogIsReadable == CleanCrashes => (Spec => []WrittenIsRead)
<1>1. SUFFICES ASSUME CleanCrashes PROVE Spec => []WrittenIsRead
  OBVIOUS
<1>2. LogInv => WrittenIsRead
  BY DEF LogInv, RestIsLast, WrittenIsRead
<1>3. QED
  BY <1>1, <1>2, LogInvariant, PTL

\* No recovery rolls back a detach that was completed, whatever was compacted,
\* torn or too long to be read, and however often the daemon died.
THEOREM CompletedStays == CleanCrashes => (Spec => NoFalseRollback)
<1>1. SUFFICES ASSUME CleanCrashes PROVE Spec => NoFalseRollback
  OBVIOUS
<1>2. TypeOK /\ LogInv /\ [Next]_vars => [Recover => found' \subseteq {doing}]_vars
  BY RecoverFinds
<1>3. QED
  BY <1>1, <1>2, LogInvariant, PTL DEF Spec, NoFalseRollback

\* The detach that a crash interrupted is found by the next recovery, unless
\* the log is longer than what a recovery reads.
THEOREM InterruptedFound == CleanCrashes => (Spec => InterruptedIsFound)
<1>1. SUFFICES ASSUME CleanCrashes PROVE Spec => InterruptedIsFound
  OBVIOUS
<1>2. TypeOK /\ LogInv /\ [Next]_vars
        => [Recover /\ doing # NoSession /\ Len(file) <= ReplayCap
              => doing \in found']_vars
  BY RecoverFinds
<1>3. QED
  BY <1>1, <1>2, LogInvariant, PTL DEF Spec, InterruptedIsFound

-----------------------------------------------------------------------------
(* The log implements the set of open transactions. *)

OpenAt(f, s) ==
  IF LastIs(f, s, "detach_start") THEN "detach"
  ELSE IF LastIs(f, s, "reattach_start") THEN "reattach" ELSE "none"

LEMMA OpenOfIsAt ==
  ASSUME NEW f \in Seq(Entries), RestAtEnd(f), HasLast(f)
  PROVE  OpenOf(f) = [s \in Sessions |-> OpenAt(f, s)]
<1>1. \A s \in Sessions :
        /\ Incomplete(Whole(f), s) = "detach_start" <=> LastIs(f, s, "detach_start")
        /\ Incomplete(Whole(f), s) = "reattach_start" <=> LastIs(f, s, "reattach_start")
  BY IncompleteIsLast DEF Starts
<1> DEFINE told(s) == CASE Incomplete(Whole(f), s) = "detach_start"   -> "detach"
                        [] Incomplete(Whole(f), s) = "reattach_start" -> "reattach"
                        [] OTHER -> "none"
<1>2. OpenOf(f) = [s \in Sessions |-> told(s)]
  BY DEF OpenOf
<1>3. \A s \in Sessions : told(s) = OpenAt(f, s)
  BY <1>1 DEF OpenAt
<1> HIDE DEF told
<1>4. QED
  BY <1>2, <1>3

\* A record says of its own session what is open there now, and of no other.
LEMMA AppendOpenAt ==
  ASSUME NEW f \in Seq(Entries), NEW r \in Entries, NEW s
  PROVE  OpenAt(Append(f, r), s) =
           IF s # r.session THEN OpenAt(f, s)
           ELSE IF r.type = "detach_start" THEN "detach"
           ELSE IF r.type = "reattach_start" THEN "reattach" ELSE "none"
<1> DEFINE g == Append(f, r)
<1>1. CASE s # r.session
  <2>1. \A i : /\ LastOn(g, s, i) <=> LastOn(f, s, i)
               /\ LastOn(f, s, i) => g[i] = f[i]
    BY <1>1, LastOnOther
  <2> HIDE DEF g
  <2>2. \A type : LastIs(g, s, type) <=> LastIs(f, s, type)
    BY <2>1 DEF LastIs, LastOn
  <2>3. QED
    BY <1>1, <2>2 DEF OpenAt, g
<1>2. CASE s = r.session
  <2>1. /\ \A i : LastOn(g, s, i) <=> i = Len(f) + 1
        /\ g[Len(f) + 1] = r /\ Len(f) + 1 \in DOMAIN g
    <3>1. \A i : LastOn(g, s, i) <=> i = Len(f) + 1
      BY <1>2, LastOnOwn
    <3>2. g[Len(f) + 1] = r /\ Len(f) + 1 \in DOMAIN g
      BY AppendFacts
    <3>3. QED
      BY <3>1, <3>2
  <2> HIDE DEF g
  <2>2. \A type : LastIs(g, s, type) <=> r.type = type
    BY <2>1 DEF LastIs
  <2>3. QED
    BY <1>2, <2>2 DEF OpenAt, g
<1>3. QED
  BY <1>1, <1>2

LEMMA EmptyOpenAt == \A s : OpenAt(<<>>, s) = "none"
BY DEF OpenAt, LastIs

LEMMA TornOpenAt ==
  ASSUME NEW f \in Seq(Entries), NEW s \in Sessions
  PROVE  OpenAt(Append(f, Torn), s) = OpenAt(f, s)
<1>1. Torn \in Entries /\ Torn.session # s
  BY LogAssumption DEF Entries, Torn
<1>2. QED
  BY <1>1, AppendOpenAt

\* What is open, in this state and the next.
LEMMA OpenNow ==
  ASSUME TypeOK, LogInv
  PROVE  OpenOf(Opened) = [s \in Sessions |-> OpenAt(Opened, s)]
BY OpenedEndsSo, OpenOfIsAt DEF LogInv, SettledBut

LEMMA OpenNext ==
  ASSUME TypeOK', LogInv'
  PROVE  OpenOf(Opened)' = [s \in Sessions |-> OpenAt(Opened', s)]
<1>1. Opened' \in Seq(Entries) /\ RestAtEnd(Opened')
  BY EmptySeq DEF TypeOK, Opened, Entries, LogInv, RestIsLast, RestAtEnd
<1>2. HasLast(Opened')
  BY DEF LogInv, SettledBut, HasLast, LastOn
<1>3. OpenOf(Opened)' = OpenOf(Opened')
  BY DEF OpenOf, Whole, Incomplete
<1>4. QED
  BY <1>1, <1>2, <1>3, OpenOfIsAt

\* One write of the daemon, completed or cut short, begins or settles what its
\* record says, or is lost with the daemon.
LEMMA WriteImplements ==
  ASSUME CleanCrashes, TypeOK, TypeOK', LogInv, LogInv', up,
         NEW r \in Record, doing = NoSession \/ r.session = doing,
         \/ Written(r) /\ UNCHANGED <<up, found>>
         \/ \E done \in BOOLEAN : CutShort(r, done)
  PROVE  Abstract!Next
<1>0. /\ Opened \in Seq(Entries) /\ r \in Entries /\ r.session \in Sessions
      /\ RestIsLast /\ SettledBut(Opened, doing)
  BY OpenedIsSeq DEF Entries, Record, LogInv
<1> DEFINE open == OpenOf(Opened)
           s == r.session
<1>1. /\ open = [t \in Sessions |-> OpenAt(Opened, t)]
      /\ open' = [t \in Sessions |-> OpenAt(Opened', t)]
  BY OpenNow, OpenNext
<1>2. /\ UNCHANGED found /\ up' \in {up, FALSE}
      /\ \/ Opened' = Append(Opened, r)
         \/ Opened' = <<>> /\ r.type \in Commits
         \/ ~up' /\ (Opened' = Opened \/ Opened' = Append(Opened, Torn))
  <2>1. CASE Written(r) /\ UNCHANGED <<up, found>>
    BY <1>0, <2>1, WrittenLeaves
  <2>2. ASSUME NEW done \in BOOLEAN, CutShort(r, done)
        PROVE  /\ UNCHANGED found /\ up' = FALSE
               /\ \/ Opened' = Append(Opened, r)
                  \/ Opened' = <<>> /\ r.type \in Commits
                  \/ Opened' = Opened \/ Opened' = Append(Opened, Torn)
    <3>1. UNCHANGED found /\ up' = FALSE
      BY <2>2 DEF CutShort
    <3>2. QED
      BY <1>0, <2>2, <3>1, CutShortLeaves
  <2>3. QED
    BY <2>1, <2>2
<1> HIDE DEF open
<1>3. ASSUME Opened' = Append(Opened, r), r.type \in Starts  PROVE Abstract!Begin(s)
  <2>1. \A t \in Sessions : open'[t] =
          IF t # s THEN open[t] ELSE IF r.type = "detach_start" THEN "detach" ELSE "reattach"
    BY <1>0, <1>1, <1>3, AppendOpenAt DEF Starts
  <2>2. open' = [open EXCEPT ![s] = IF r.type = "detach_start" THEN "detach" ELSE "reattach"]
    BY <1>1, <2>1
  <2>3. QED
    BY <1>2, <2>2 DEF Abstract!Begin, open
<1>4. ASSUME Opened' = Append(Opened, r), r.type \in Commits  PROVE Abstract!Settle(s)
  <2>1. \A t \in Sessions : open'[t] = IF t # s THEN open[t] ELSE "none"
    BY <1>0, <1>1, <1>4, AppendOpenAt DEF Commits
  <2>2. open' = [t \in Sessions |-> IF t \in {} \union {s} THEN "none" ELSE open[t]]
    BY <1>1, <2>1
  <2>3. QED
    BY <1>2, <2>2 DEF Abstract!Settle, open
<1>5. ASSUME Opened' = <<>>, r.type \in Commits  PROVE Abstract!Settle(s)
  <2> DEFINE F == {t \in Sessions : open[t] = "reattach"}
  <2>1. \A t \in Sessions : open'[t] = "none"
    BY <1>1, <1>5, EmptyOpenAt
  <2>2. \A t \in Sessions : t # s => open[t] # "detach"
    <3>1. \A t \in Sessions : t # doing => ~ LastIs(Opened, t, "detach_start")
      BY <1>0 DEF SettledBut, OthersSettled, LastIs
    <3>2. doing = NoSession => \A t \in Sessions : t # doing
      BY LogAssumption
    <3>3. QED
      BY <1>1, <3>1, <3>2 DEF OpenAt
  <2>3. \A t \in Sessions : t \notin F \union {s} => open[t] = "none"
    <3>1. \A t \in Sessions : open[t] \in {"detach", "reattach", "none"}
      BY <1>1 DEF OpenAt
    <3>2. QED
      BY <2>2, <3>1
  <2>4. open' = [t \in Sessions |-> IF t \in F \union {s} THEN "none" ELSE open[t]]
    BY <1>1, <2>1, <2>3
  <2>5. QED
    BY <1>2, <2>4 DEF Abstract!Settle, open
<1>6. ASSUME ~up', Opened' = Opened \/ Opened' = Append(Opened, Torn)
      PROVE  Abstract!Crash
  <2>1. \A t \in Sessions : OpenAt(Opened', t) = OpenAt(Opened, t)
    BY <1>0, <1>6, TornOpenAt
  <2>2. open' = open
    BY <1>1, <2>1
  <2>3. up' = FALSE
    BY <1>6 DEF TypeOK
  <2>4. QED
    BY <1>2, <2>2, <2>3 DEF Abstract!Crash, open
<1>7. r.type \in Starts \/ r.type \in Commits
  BY DEF Record
<1>8. CASE Abstract!Begin(s) \/ Abstract!Settle(s)
  BY <1>0, <1>2, <1>8 DEF Abstract!Next, Abstract!Stop
<1>9. CASE Abstract!Crash
  BY <1>9 DEF Abstract!Next
<1>10. QED
  BY <1>2, <1>3, <1>4, <1>5, <1>6, <1>7, <1>8, <1>9

\* A recovery finds the detaches that are open, or acts on none.
LEMMA RecoverImplements ==
  ASSUME TypeOK, TypeOK', LogInv, LogInv', Recover
  PROVE  Abstract!Recover
<1>1. /\ OpenOf(Opened) = [t \in Sessions |-> OpenAt(Opened, t)]
      /\ OpenOf(Opened)' = [t \in Sessions |-> OpenAt(Opened', t)]
  BY OpenNow, OpenNext
<1>2. Opened' = <<>>
  <2>1. file' = <<>>
    BY ReadFacts DEF Recover, Emptied, LogInv
  <2>2. QED
    BY <2>1 DEF Opened
<1>3. OpenOf(Opened)' = Abstract!Settled
  BY <1>1, <1>2, EmptyOpenAt DEF Abstract!Settled
<1>4. ~ReadTruncated(Opened) =>
        found' = {s \in Sessions : OpenOf(Opened)[s] = "detach"}
  <2>1. \A s \in Sessions :
          Incomplete(Whole(Opened), s) = "detach_start" <=> OpenOf(Opened)[s] = "detach"
    <3>1. \A s \in Sessions : Incomplete(Whole(Opened), s) = "detach_start"
                                <=> LastIs(Opened, s, "detach_start")
      BY OpenedEndsSo, IncompleteIsLast DEF LogInv, SettledBut, Starts
    <3>2. QED
      BY <1>1, <3>1 DEF OpenAt
  <2>2. ~ReadTruncated(Opened) => ReadAll(Opened) = Whole(Opened)
    BY ReadFacts DEF LogInv
  <2>3. QED
    BY <2>1, <2>2 DEF Recover
<1>5. ReadTruncated(Opened) => found' = {}
  BY DEF Recover
<1>6. ~up /\ up' = TRUE
  BY DEF Recover
<1>7. QED
  BY <1>3, <1>4, <1>5, <1>6 DEF Abstract!Recover

LEMMA NextImplements ==
  ASSUME CleanCrashes, TypeOK, TypeOK', LogInv, LogInv', [Next]_vars
  PROVE  [Abstract!Next]_(Abstract!vars)
<1>1. doing \in Sessions \union {NoSession} /\ NoSession \notin Sessions
  BY LogAssumption DEF TypeOK
<1>2. ASSUME NEW s \in Sessions, DetachStart(s) PROVE Abstract!Next
  <2>1. Entry("detach_start", s) \in Record
    BY EntryIsRecord DEF Starts
  <2>2. QED
    BY <1>2, <2>1, WriteImplements DEF DetachStart
<1>3. CASE DetachCommit
  <2>1. doing \in Sessions
    BY <1>1, <1>3 DEF DetachCommit
  <2>2. Entry("detach_commit", doing) \in Record /\ Entry("detach_commit", doing).session = doing
    BY <2>1, EntryIsRecord DEF Commits
  <2>3. QED
    BY <1>3, <2>2, WriteImplements DEF DetachCommit
<1>4. ASSUME NEW s \in Sessions, NEW type \in {"reattach_start", "reattach_commit"},
             Reattaching(s, type)
      PROVE  Abstract!Next
  <2>1. Entry(type, s) \in Record
    BY EntryIsRecord DEF Starts, Commits
  <2>2. QED
    BY <1>4, <2>1, WriteImplements DEF Reattaching
<1>5. ASSUME NEW s \in Sessions, ReattachStart(s) \/ Register(s) PROVE Abstract!Next
  BY <1>4, <1>5 DEF ReattachStart, Register
<1>6. CASE Crash
  <2>1. UNCHANGED OpenOf(Opened)
    BY <1>6 DEF Crash, Opened, OpenOf, Whole, Incomplete
  <2>2. QED
    BY <1>6, <2>1 DEF Crash, Abstract!Next, Abstract!Crash
<1>7. CASE Recover
  BY <1>7, RecoverImplements DEF Abstract!Next
<1>8. CASE UNCHANGED vars
  BY <1>8 DEF vars, Abstract!vars, Opened, OpenOf, Whole, Incomplete
<1>9. QED
  BY <1>2, <1>3, <1>5, <1>6, <1>7, <1>8 DEF Next

\* To the rest of SES the log is the set of operations begun and not settled:
\* wherever it is emptied, torn by a crash or read in part, a recovery acts on
\* the detaches that are open or on none.
THEOREM LogImplementsTransactions == CleanCrashes => (Spec => ImplementsOpenTransactions)
<1>1. SUFFICES ASSUME CleanCrashes PROVE Spec => ImplementsOpenTransactions
  OBVIOUS
<1>2. Init => Abstract!Init
  <2>1. SUFFICES ASSUME Init PROVE Abstract!Init
    OBVIOUS
  <2>2. OpenOf(Opened) = [s \in Sessions |-> OpenAt(Opened, s)]
    BY <2>1, TypeInit, LogInit, OpenNow
  <2>3. Opened = <<>>
    BY <2>1 DEF Init, Opened
  <2>4. QED
    BY <2>1, <2>2, <2>3, EmptyOpenAt DEF Init, Abstract!Init, Abstract!Settled
<1>3. TypeOK /\ LogInv /\ (TypeOK /\ LogInv)' /\ [Next]_vars
        => [Abstract!Next]_(Abstract!vars)
  BY <1>1, NextImplements
<1>4. Spec => [](TypeOK /\ LogInv)
  BY <1>1, LogInvariant
<1>5. QED
  BY <1>2, <1>3, <1>4, PTL DEF Spec, ImplementsOpenTransactions, Abstract!Spec
=============================================================================
