------------------------------- MODULE ScanLog -------------------------------
(***************************************************************************)
(* What the data path promises the log: scans may be missing, but each one  *)
(* that is logged is a scan that was sent, whole, and later than the last.  *)
(***************************************************************************)
EXTENDS Naturals, Sequences, SequencesExt

VARIABLES
  sent,    \* number of scans whose transmission has begun
  log      \* the scans logged, in order

vars == <<sent, log>>

Init == sent = 0 /\ log = <<>>

Send == sent' = sent + 1 /\ UNCHANGED log

Log ==
  /\ \E k \in 1..sent : /\ log # <<>> => k > Last(log)
                        /\ log' = Append(log, k)
  /\ UNCHANGED sent

Next == Send \/ Log

Spec == Init /\ [][Next]_vars
=============================================================================
