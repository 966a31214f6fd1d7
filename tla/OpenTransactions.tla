-------------------------- MODULE OpenTransactions --------------------------
(***************************************************************************)
(* What SES needs from its transaction log, without the file: which        *)
(* operations on a session are begun and not settled, and that a daemon    *)
(* started after a crash finds the detaches among them.                    *)
(***************************************************************************)
CONSTANTS Sessions

VARIABLES
  open,    \* open[s]: the operation on s that is begun and not settled
  running, \* the daemon is up
  found    \* the sessions the last recovery rolled back

vars == <<open, running, found>>

Settled == [s \in Sessions |-> "none"]

Init == open = Settled /\ running = FALSE /\ found = {}

Begin(s) ==
  /\ running
  /\ \E kind \in {"detach", "reattach"} : open' = [open EXCEPT ![s] = kind]
  /\ UNCHANGED found

\* Settling may also forget reattaches, which need no rolling back.
Settle(s) ==
  /\ running
  /\ \E F \in SUBSET {t \in Sessions : open[t] = "reattach"} :
       open' = [t \in Sessions |-> IF t \in F \union {s} THEN "none" ELSE open[t]]
  /\ UNCHANGED found

\* Any step may be the daemon's last.
Stop == running' \in {running, FALSE}

Crash == running /\ running' = FALSE /\ UNCHANGED <<open, found>>

\* A log too large to be read as a whole is not acted on.
Recover ==
  /\ ~running /\ running' = TRUE
  /\ found' \in {{}, {s \in Sessions : open[s] = "detach"}}
  /\ open' = Settled

Next ==
  \/ \E s \in Sessions : (Begin(s) \/ Settle(s)) /\ Stop
  \/ Crash \/ Recover

Spec == Init /\ [][Next]_vars
=============================================================================
