------------------------------ MODULE SSPEeprom ------------------------------
(***************************************************************************)
(* The configuration EEPROM and its driver (ssp_eeprom.c).  The driver     *)
(* starts a transfer and waits for one of three flags, which the interrupt *)
(* handlers set; the flags are shared by all threads.  A configuration is  *)
(* written page by page, header and checksum first.  Here field f of the   *)
(* configuration stands for what is on page f; the last page is used only  *)
(* if its field is not empty (0).  The checksum is taken to tell           *)
(* configurations apart: it is the configuration.                          *)
(*                                                                         *)
(* A transfer that the device does not acknowledge ends with a status      *)
(* event; so may any transfer here.  A power cut in the middle of a page   *)
(* may leave it as it was, written or damaged.                             *)
(***************************************************************************)
EXTENDS Naturals, Sequences

CONSTANTS Users,     \* the threads that may call the driver
          LastPage,  \* a configuration's pages are 0..LastPage
          EEPages,   \* the pages of the EEPROM (EE_TOTAL_SIZE)
          MaxValue   \* field values are 0..MaxValue

ASSUME EepromAssumption ==
  LastPage \in Nat \ {0} /\ EEPages \in Nat /\ EEPages > LastPage /\ MaxValue \in Nat \ {0}

VARIABLES mem,            \* the pages: the field, and on page 0 the header
          bus,            \* the transfer under way
          send_complete, recv_complete, status_events,
          ee              \* ee[u]: what u is doing in the driver

eeVars == <<mem, bus, send_complete, recv_complete, status_events, ee>>

Pages == 0..LastPage
Field == Pages
Value == 0..MaxValue
Junk == MaxValue + 1
Config == [Field -> Value]

\* EE_DefaultConfig.
Default == [f \in Field |-> 0]

\* The header: the number of pages in use, and the checksum over them.
PagesOf(c) == IF c[LastPage] = 0 THEN LastPage ELSE LastPage + 1
fletcher16(c, n) == [f \in 0..n - 1 |-> c[f]]
Header(c) == [n |-> PagesOf(c), sum |-> fletcher16(c, PagesOf(c))]
NoHeader == [n |-> 0, sum |-> <<>>]

\* A damaged header has a size that is refused, or one that is not; its checksum
\* matches nothing.
DamagedHeader == {NoHeader, [n |-> EEPages, sum |-> <<>>]}
Damaged(p) == {[val |-> Junk, hdr |-> h] : h \in IF p = 0 THEN DamagedHeader ELSE {NoHeader}}

Idle == [at |-> "idle", page |-> 0, n |-> 0, rv |-> TRUE]
NoTransfer == [op |-> "none"]

EepromTypeOK ==
  /\ \A p \in Pages : mem[p].val \in Value \cup {Junk}
  /\ bus.op \in {"none", "send", "address", "recv"}
  /\ {send_complete, recv_complete, status_events} \subseteq BOOLEAN
  /\ \A u \in Users :
       /\ ee[u].at \in {"idle", "send", "sending", "address", "addressing", "recv",
                        "receiving", "done"}
       /\ ee[u].page \in 0..LastPage + 1 /\ ee[u].n \in 0..LastPage + 1

\* EE_Init, with a blank memory.
EepromInit ==
  /\ mem = [p \in Pages |-> [val |-> Junk, hdr |-> NoHeader]]
  /\ bus = NoTransfer
  /\ send_complete = FALSE /\ recv_complete = FALSE /\ status_events = FALSE
  /\ ee = [u \in Users |-> Idle]

At(u, a) == ee[u].at = a
Go(u, a) == ee' = [ee EXCEPT ![u].at = a]
Return(u, ok) == ee' = [ee EXCEPT ![u].at = "done", ![u].rv = ok]

\* Iic_Write: flags down, then the transfer, unless the bus is busy.
Iic_Write(u, transfer, next) ==
  /\ send_complete' = FALSE /\ status_events' = FALSE
  /\ IF bus = NoTransfer THEN bus' = transfer /\ Go(u, next)
                         ELSE UNCHANGED bus /\ Return(u, FALSE)

\* EE_Write: one page of the buffer (c, with header h) after the other.
SendPage(u, c, h) ==
  /\ At(u, "send")
  /\ LET p == ee[u].page
     IN Iic_Write(u, [op |-> "send", page |-> p,
                      data |-> [val |-> c[p], hdr |-> IF p = 0 THEN h ELSE NoHeader]],
                  "sending")
  /\ UNCHANGED <<mem, recv_complete>>

\* Mutant: the wait is for completion only.
Over_Sent == send_complete
Over == send_complete \/ status_events

\* Mutant: an event ends the wait, whether or not the page was written.
Written_Anyway == TRUE
Written == send_complete
PageSent(u) ==
  /\ At(u, "sending") /\ Over
  /\ IF ~Written THEN Return(u, FALSE)
     ELSE IF ee[u].page + 1 = ee[u].n THEN Return(u, TRUE)
     ELSE ee' = [ee EXCEPT ![u].at = "send", ![u].page = @ + 1]
  /\ UNCHANGED <<mem, bus, send_complete, recv_complete, status_events>>

\* EE_Read: the address is written, then the pages are received at once.
SendAddress(u) ==
  /\ At(u, "address")
  /\ Iic_Write(u, [op |-> "address"], "addressing")
  /\ recv_complete' = FALSE /\ UNCHANGED mem
AddressSent(u) ==
  /\ At(u, "addressing") /\ Over
  /\ IF send_complete THEN Go(u, "recv") ELSE Return(u, FALSE)
  /\ UNCHANGED <<mem, bus, send_complete, recv_complete, status_events>>
MasterRecv(u) ==
  /\ At(u, "recv")
  /\ IF bus = NoTransfer THEN bus' = [op |-> "recv"] /\ Go(u, "receiving")
                         ELSE UNCHANGED bus /\ Return(u, FALSE)
  /\ UNCHANGED <<mem, send_complete, recv_complete, status_events>>
Received(u) ==
  /\ At(u, "receiving") /\ (recv_complete \/ status_events)
  /\ Return(u, recv_complete)
  /\ UNCHANGED <<mem, bus, send_complete, recv_complete, status_events>>

\* The interrupt handlers: the transfer is complete, or failed.
Complete ==
  /\ bus # NoTransfer /\ bus' = NoTransfer
  /\ mem' = IF bus.op = "send" THEN [mem EXCEPT ![bus.page] = bus.data] ELSE mem
  /\ IF bus.op = "recv" THEN recv_complete' = TRUE /\ UNCHANGED send_complete
                        ELSE send_complete' = TRUE /\ UNCHANGED recv_complete
  /\ UNCHANGED <<status_events, ee>>
StatusEvent ==
  /\ bus # NoTransfer /\ bus' = NoTransfer /\ status_events' = TRUE
  /\ UNCHANGED <<mem, send_complete, recv_complete, ee>>

\* Only the memory survives a power cut, and perhaps not the page being written.
EepromCut ==
  /\ IF bus.op # "send" THEN UNCHANGED mem
     ELSE \E d \in {mem[bus.page], bus.data} \cup Damaged(bus.page) :
            mem' = [mem EXCEPT ![bus.page] = d]
  /\ bus' = NoTransfer
  /\ send_complete' = FALSE /\ recv_complete' = FALSE /\ status_events' = FALSE
  /\ ee' = [u \in Users |-> Idle]

\* EE_ReadConfig's tests: the size in the header, then the checksum.  A size up to
\* the EEPROM's own passes; what is then read beyond a configuration does not get
\* past the checksum, and where it is put (behind SSP_Config) is left out.
SizeOK == mem[0].hdr.n \in LastPage..EEPages
\* Mutant: the size is all that is tested.
ChecksumOK_Size == TRUE
ChecksumOK ==
  mem[0].hdr.sum = [f \in 0..mem[0].hdr.n - 1 |-> IF f \in Pages THEN mem[f].val ELSE Junk]
Stored == [f \in Field |-> IF f < mem[0].hdr.n THEN mem[f].val ELSE 0]
==============================================================================
