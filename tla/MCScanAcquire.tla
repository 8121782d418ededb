---------------------------- MODULE MCScanAcquire ----------------------------
(* Small instances of ScanAcquire. *)
EXTENDS ScanAcquire
=============================================================================
