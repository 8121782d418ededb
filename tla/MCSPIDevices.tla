----------------------------- MODULE MCSPIDevices -----------------------------
(* All boards; dividers at their limits, an even and an odd one. *)
EXTENDS SPIDevices

MCBoards == Firmware \cup Prototypes
MCDividers == {1, 2, 3, 32}
===============================================================================
