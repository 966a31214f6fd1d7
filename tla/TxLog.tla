------------------------------- MODULE TxLog -------------------------------
(***************************************************************************)
(* The transaction log of SES (txlog.zig): an append-only file of begun    *)
(* and settled operations on sessions, read when the daemon starts.        *)
(*                                                                         *)
(* A record is written by two writes, its header and its payload, so that  *)
(* a crash or a full disk can leave part of it.  Records appended behind   *)
(* such a part are read as the rest of it and come out as nonsense, upon   *)
(* which the reader stops.  The file is emptied after a recovery, and when *)
(* it has grown past a threshold while the counter of open transactions is *)
(* zero.                                                                   *)
(*                                                                         *)
(* A detach writes its start and its commit in one handler; only a crash   *)
(* comes in between.  A reattach is settled by a later request, or never.  *)
(*                                                                         *)
(* A definition that nothing uses, next to one that is used, is a mistake  *)
(* the code could have made there: put in its place, it breaks a property. *)
(***************************************************************************)
EXTENDS Naturals, Sequences

CONSTANTS
  Sessions,
  NoSession,
  CompactAbove, \* records beyond which a settled log is emptied (1 MiB)
  ReplayCap,    \* records a recovery reads at most (10 MiB)
  MaxLen,       \* bound: records in the file
  MaxCrashes,   \* bound: how often the daemon dies
  Faults        \* what may go wrong, see FaultKinds

\* "tear":  a crash leaves part of a record behind other records
\* "first": a crash leaves part of the first record of the file
\* "empty": the file of a settled log cannot be emptied
\* "disk":  a write fails while the daemon lives on
FaultKinds == {"tear", "first", "empty", "disk"}

ASSUME LogAssumption ==
  /\ NoSession \notin Sessions
  /\ CompactAbove \in Nat /\ ReplayCap \in Nat
  /\ MaxLen \in Nat /\ MaxCrashes \in Nat
  /\ Faults \subseteq FaultKinds

VARIABLES
  file,     \* the records in the file, oldest first; a part of one is Torn
  header,   \* the file begins with FILE_HEADER
  openTx,   \* open_transactions
  up,       \* the daemon runs
  doing,    \* history: the session whose detach is begun and not settled
  found,    \* history: the sessions the last recovery rolled back
  crashes

vars == <<file, header, openTx, up, doing, found, crashes>>

Starts == {"detach_start", "reattach_start"}
Commits == {"detach_commit", "reattach_commit"}
Record == [type : Starts \union Commits, session : Sessions]
Torn == [type |-> "torn", session |-> NoSession]

Entry(type, s) == [type |-> type, session |-> s]

\* The daemon is about to start; the file may be one of an old build, whose
\* records have no header before them.
Init ==
  /\ file \in {<<>>} \union {<<Entry("detach_start", s)>> : s \in Sessions}
  /\ header = FALSE /\ openTx = 0
  /\ up = FALSE /\ doing = NoSession /\ found = {} /\ crashes = 0

-----------------------------------------------------------------------------
(* Reading *)

\* ensureCompatibleFile, before the first access: a file without the header
\* is emptied.
Opened == IF header THEN file ELSE <<>>

\* readAll: the records up to the first that makes no sense, and not many more
\* than ReplayCap.
Whole(f) ==
  LET bad == {i \in DOMAIN f : f[i] = Torn}
  IN IF bad = {} THEN f ELSE SubSeq(f, 1, (CHOOSE i \in bad : \A j \in bad : i <= j) - 1)
ReadAll(f) ==
  IF Len(Whole(f)) > ReplayCap THEN SubSeq(Whole(f), 1, ReplayCap + 1) ELSE Whole(f)

ReadNotTruncated(f) == FALSE
ReadTruncated(f) == Len(ReadAll(f)) > ReplayCap

\* findIncompleteOperations: what the last record on each session leaves open.
Incomplete(entries, s) ==
  LET on == {i \in DOMAIN entries : entries[i].session = s}
      last == CHOOSE i \in on : \A j \in on : j <= i
  IN IF on # {} /\ entries[last].type \in Starts THEN entries[last].type ELSE "none"

-----------------------------------------------------------------------------
(* Writing *)

\* What a write that is not completed, or not reported as done, may leave.
Leftover(r) ==
  {Opened, Append(Opened, r)} \union
  (IF (Opened = <<>> /\ "first" \in Faults) \/ (Opened # <<>> /\ "tear" \in Faults)
     THEN {Append(Opened, Torn)} ELSE {})

\* The counter saturates at zero: a frontend that registers writes a commit
\* that has no start.
CountedBelowZero(r) == IF r.type \in Starts THEN openTx + 1 ELSE openTx - 1
Counted(r) ==
  IF r.type \in Starts THEN openTx + 1 ELSE IF openTx > 0 THEN openTx - 1 ELSE 0

MayCompactAny(r) == Len(Opened) + 1 > CompactAbove
MayCompact(r) ==
  /\ r.type \in Commits /\ Counted(r) = 0
  /\ Len(Opened) + 1 > CompactAbove

\* write, which compacts a settled log on its way out.
Written(r) ==
  /\ Len(file) < MaxLen
  /\ \/ /\ openTx' = Counted(r)
        /\ \/ ~MayCompact(r) /\ file' = Append(Opened, r) /\ header' = TRUE
           \/ MayCompact(r) /\ file' = <<>> /\ header' = TRUE
           \/ "empty" \in Faults /\ MayCompact(r)
              /\ \/ file' = Append(Opened, r) /\ header' = TRUE
                 \/ file' = <<>> /\ header' = FALSE
     \/ /\ "disk" \in Faults
        /\ file' \in Leftover(r) /\ header' = TRUE
        /\ UNCHANGED openTx

\* write cut short by a crash; done tells whether the record is in the file.
CutShort(r, done) ==
  /\ Len(file) < MaxLen /\ crashes < MaxCrashes
  /\ \/ ~done /\ file' \in Leftover(r) \ {Append(Opened, r)} /\ header' = TRUE
     \/ done /\ file' = Append(Opened, r) /\ header' = TRUE
     \/ done /\ MayCompact(r) /\ file' = <<>> /\ header' = FALSE
  /\ crashes' = crashes + 1 /\ up' = FALSE
  /\ UNCHANGED <<openTx, found>>

\* detachSessionDirect, up to its first change of the store.
DetachStart(s) ==
  /\ up /\ doing = NoSession
  /\ LET r == Entry("detach_start", s)
     IN \/ Written(r) /\ doing' = s /\ UNCHANGED <<up, found, crashes>>
        \/ \E done \in BOOLEAN : CutShort(r, done) /\ doing' = IF done THEN s ELSE doing

\* detachSessionDirect, when it is done.
DetachCommit ==
  /\ up /\ doing # NoSession
  /\ LET r == Entry("detach_commit", doing)
     IN \/ Written(r) /\ doing' = NoSession /\ UNCHANGED <<up, found, crashes>>
        \/ \E done \in BOOLEAN : CutShort(r, done) /\ doing' = IF done THEN NoSession ELSE doing

\* completeReattach (reattach_start), whether or not it is refused afterwards,
\* and handleBinaryRegister (reattach_commit), of a reattach or of any frontend.
Reattaching(s, type) ==
  /\ up /\ doing = NoSession
  /\ LET r == Entry(type, s)
     IN \/ Written(r) /\ UNCHANGED <<up, found, crashes>>
        \/ \E done \in BOOLEAN : CutShort(r, done)
  /\ UNCHANGED doing

ReattachStart(s) == Reattaching(s, "reattach_start")
Register(s) == Reattaching(s, "reattach_commit")

-----------------------------------------------------------------------------
(* Crash and recovery *)

\* The daemon dies between two writes.
Crash ==
  /\ up /\ crashes < MaxCrashes
  /\ up' = FALSE /\ crashes' = crashes + 1
  /\ UNCHANGED <<file, header, openTx, doing, found>>

\* recoverFromTransactionLog in a new daemon; one that dies in the middle of
\* it leaves the file as it was, or emptied when all was done but the save.
\* A log from which no record can be read is left as it is.
Kept == Opened
Emptied == IF ReadAll(Opened) = <<>> THEN Opened ELSE <<>>

Recover ==
  /\ ~up /\ up' = TRUE
  /\ found' = IF ReadTruncated(Opened) THEN {}
              ELSE {s \in Sessions : Incomplete(ReadAll(Opened), s) = "detach_start"}
  /\ file' = Emptied /\ header' = TRUE
  /\ openTx' = 0 /\ doing' = NoSession
  /\ UNCHANGED crashes

Next ==
  \/ \E s \in Sessions : DetachStart(s) \/ ReattachStart(s) \/ Register(s)
  \/ DetachCommit \/ Crash \/ Recover

Spec == Init /\ [][Next]_vars

-----------------------------------------------------------------------------
(* Properties *)

TypeOK ==
  /\ file \in Seq(Record \union {Torn})
  /\ header \in BOOLEAN /\ up \in BOOLEAN
  /\ openTx \in Nat
  /\ doing \in Sessions \union {NoSession}
  /\ found \subseteq Sessions
  /\ crashes \in 0 .. MaxCrashes

\* What the daemon wrote while it ran is read back: it never appends behind
\* the rest of a torn record.
WrittenIsRead ==
  \A i \in DOMAIN file : file[i] = Torn => i = Len(file) /\ ~up

\* A recovery never rolls back a detach that was completed, however often the
\* daemon crashed before, wherever the log was emptied, and also when it had
\* grown past what a recovery reads.
NoFalseRollback == [][Recover => found' \subseteq {doing}]_vars

\* A detach that a crash interrupted is found and rolled back by the recovery
\* that follows, unless the log has grown past what a recovery reads.
InterruptedIsFound ==
  [][Recover /\ doing # NoSession /\ Len(file) <= ReplayCap => doing \in found']_vars

\* To the rest of SES the file is the set of operations that are open.
OpenOf(f) ==
  [s \in Sessions |-> CASE Incomplete(Whole(f), s) = "detach_start"   -> "detach"
                        [] Incomplete(Whole(f), s) = "reattach_start" -> "reattach"
                        [] OTHER -> "none"]

Abstract == INSTANCE OpenTransactions WITH open <- OpenOf(Opened), running <- up

ImplementsOpenTransactions == Abstract!Spec
=============================================================================
