--------------------------- MODULE MCScanTransfer ---------------------------
(* Small instances of ScanTransfer. *)
EXTENDS ScanTransfer
=============================================================================
