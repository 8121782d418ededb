--------------------------- MODULE MCProtoControl ---------------------------
(* Lengths of no and of one sample, one that is too long, and a negative one. *)
EXTENDS ProtoControl
MCCommands == [op : {"NS"}, v : {1, 3, -1}] \cup [op : {"UP"}, v : {1}]
  \cup [op : {"EN", "DA", "EX", "TE"}, v : {0}]
=============================================================================
