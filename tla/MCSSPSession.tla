---------------------------- MODULE MCSSPSession ----------------------------
(* One channel of three samples and three of one make scans of the same size. *)
EXTENDS SSPSession
MCWants == {[ns |-> 3, ne |-> 1]}
MCOtherWants == {[ns |-> 1, ne |-> 7]}
=============================================================================
