---------------------------- MODULE MCSesSession ----------------------------
(* SesSession on small instances; the configurations give the constants. *)
EXTENDS SesSession, TLC

\* Sessions differ by nothing but their name.
SessionSymmetry == Permutations(Sessions)
=============================================================================
