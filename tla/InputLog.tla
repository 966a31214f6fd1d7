------------------------------ MODULE InputLog ------------------------------
(***************************************************************************)
(* What the keystroke path of hexe promises one pane, seen from the two    *)
(* ends only: the user types keys, the pane's shell receives keys.  A key  *)
(* may be lost (the replay window is finite), but what the shell receives  *)
(* is a subsequence of what was typed into that pane: nothing arrives      *)
(* twice, nothing arrives out of order, nothing typed elsewhere arrives.   *)
(***************************************************************************)
EXTENDS Naturals, Sequences

CONSTANTS
  Panes,   \* the panes of one frontend
  Keys     \* the keystrokes the user can make, each one distinct

VARIABLES
  typed,     \* typed[p]:   the keys typed into pane p, oldest first
  received,  \* received[p]: the keys the shell of pane p was given
  passed     \* passed[p]:  how many keys of typed[p] are received or given up

vars == <<typed, received, passed>>

Init ==
  /\ typed    = [p \in Panes |-> <<>>]
  /\ received = [p \in Panes |-> <<>>]
  /\ passed   = [p \in Panes |-> 0]

\* The user types one more key, never one that was typed before.
TypeKey(p) ==
  \E key \in Keys :
    /\ \A q \in Panes : \A i \in DOMAIN typed[q] : typed[q][i] # key
    /\ typed' = [typed EXCEPT ![p] = Append(@, key)]
    /\ UNCHANGED <<received, passed>>

\* The shell is given some later key; the keys skipped over are lost for good.
Receive(p) ==
  \E i \in DOMAIN typed[p] :
    /\ i > passed[p]
    /\ received' = [received EXCEPT ![p] = Append(@, typed[p][i])]
    /\ passed' = [passed EXCEPT ![p] = i]
    /\ UNCHANGED typed

Next == \E p \in Panes : TypeKey(p) \/ Receive(p)

Spec == Init /\ [][Next]_vars
=============================================================================
