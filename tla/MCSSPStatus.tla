----------------------------- MODULE MCSSPStatus -----------------------------
(* A small instance of SSPStatus: strings of one, two and three digits. *)
EXTENDS SSPStatus

MCStatusCodes == {<<1>>, <<3, 2>>}
MCErrorCodes == {<<1>>, <<2, 1, 3>>}
=============================================================================
