------------------------------ MODULE SPIDevices ------------------------------
(***************************************************************************)
(* The SPI bus of the SSP boards (ad9510_if.c): udpThread programs the     *)
(* AD9510 clock generator and reads two temperature sensors, a transfer at *)
(* a time, while SpiHandler runs in the interrupt of the SPI driver.  The  *)
(* firmware waits for a transfer on spi_sem, which only its completion     *)
(* posts; the drivers of the older prototypes wait for a flag, which any   *)
(* status event clears.  The driver (xspi) and the chips are external; the *)
(* values the sensors return are left out.                                 *)
(***************************************************************************)
EXTENDS Naturals, Sequences

CONSTANTS Boards,    \* the boards to consider, among those below
          Dividers,  \* values of NF, the divider a client asks for
          MaxFaults  \* bound on the status events that are not completions

Firmware == {"SSP", "SSP_PMT", "SSP_PROTO_A", "ssp_proto_b"}  \* spi_sem
Prototypes == {"ssp_proto_402", "xSSP"}                       \* TransferInProgress

ASSUME SPIAssumption ==
  Boards \subseteq Firmware \cup Prototypes /\ Dividers \subseteq 1..32 /\ MaxFaults \in Nat

VARIABLES
  board,    \* which of the drivers was built
  started,  \* SPI_system_init reached XSpi_Start
  task,     \* what udpThread is doing, and with which arguments
  todo,     \* the driver calls it still has to make
  phase,    \* "ready", "armed" (the flag is set) or "waiting" for a transfer
  buf,      \* the bytes to send, static in ad9510_Write
  slave,    \* the slave selected, or None
  moving,   \* the slave of the transfer in progress, or None
  spi_sem, TransferInProgress,
  written,  \* the AD9510's registers, as last written
  active,   \* and as last executed, which is what its outputs obey
  faults

vars == <<board, started, task, todo, phase, buf, slave, moving, spi_sem,
          TransferInProgress, written, active, faults>>

None == "none"
Channels == 0..7
Selected == {"AD9510", "MAX6661", "MAX6628"}

-----------------------------------------------------------------------------
(* What the drivers send.  A register write is its address and its value.  *)

OutputReg(ch) == \h3C + ch
DividerReg(ch) == \h48 + 2 * ch
BypassReg(ch) == \h49 + 2 * ch
ClockReg == \h45
StatusReg == \h08
SyncReg == \h58
ExecuteReg == \h5A
Regs == {OutputReg(ch) : ch \in Channels} \cup {DividerReg(ch) : ch \in Channels}
          \cup {BypassReg(ch) : ch \in Channels} \cup {ClockReg, StatusReg, SyncReg}

\* The channels that run when a client enables those of ne.
Enabled(b, ne) ==
  IF ne = {} THEN {}
  ELSE CASE b = "SSP" -> (ne \cup {0, 6}) \cap {0, 1, 2, 5, 6}
         [] b = "SSP_PMT" -> (ne \cup {5, 6}) \cap {0, 5, 6}
         [] b = "SSP_PROTO_A" -> {0}
         [] b = "ssp_proto_b" -> ne \cap {0, 1, 2, 5, 6}

\* Mutant: an odd period is cut.
DivideBy_Even(d) ==
  IF d <= 1 THEN <<0, \h80>> ELSE <<(d \div 2 - 1) * 16 + d \div 2 - 1, 0>>

\* The two divider registers: the low and the high count, and the bypass.
DivideBy(d) ==
  IF d <= 1 THEN <<0, \h80>>
  ELSE LET n == IF d > 32 THEN 32 ELSE d
       IN  <<(n \div 2 - 1) * 16 + (n + 1) \div 2 - 1, 0>>

\* The divider of a channel; the QCLI's clock, on channel 6, is fixed.
Divisor(b, en, div, ch) ==
  IF b # "ssp_proto_b" /\ ch \notin en THEN 0
  ELSE IF b # "ssp_proto_b" /\ ch = 6 THEN 25 ELSE div

Outputs(en) ==
  [i \in 1..8 |-> LET ch == i - 1 IN
     <<OutputReg(ch), IF ch <= 3 THEN 8 + IF ch \in en THEN 0 ELSE 2
                      ELSE 2 + IF ch \in en THEN 0 ELSE 1>>]

DividerWrites(b, en, div) ==
  [i \in 1..16 |->
     LET ch == (i - 1) \div 2
         code == DivideBy(Divisor(b, en, div, ch))
     IN  IF i % 2 = 1 THEN <<DividerReg(ch), code[1]>> ELSE <<BypassReg(ch), code[2]>>]

\* Mutant: the outputs are not held in sync while the dividers change.
Finish_Unsynced(en) ==
  << <<ClockReg, IF en # {} THEN \h1D ELSE \h3F>>, <<StatusReg, IF en # {} THEN 0 ELSE \h2C>>,
     <<ExecuteReg, 1>>, <<SyncReg, 4>>, <<SyncReg, 0>>, <<ExecuteReg, 1>> >>

\* The clock input, the status LED, and the new settings executed while the
\* outputs are held in sync.
Finish(en) ==
  << <<ClockReg, IF en # {} THEN \h1D ELSE \h3F>>, <<StatusReg, IF en # {} THEN 0 ELSE \h2C>>,
     <<SyncReg, 4>>, <<ExecuteReg, 1>>, <<SyncReg, 0>>, <<ExecuteReg, 1>> >>

\* The prototypes' fixed settings: outputs 0 and 5 (402) or 0 alone (xSSP).
Fixed402 ==
  << <<\h3C, \h08>>, <<\h3D, \h0A>>, <<\h3E, \h0A>>, <<\h3F, \h0A>>, <<\h40, 3>>,
     <<\h41, 2>>, <<\h42, 3>>, <<\h43, 3>>, <<\h48, \h99>>, <<\h52, \h44>>,
     <<StatusReg, \h2C>>, <<ExecuteReg, 1>> >>
FixedXSSP ==
  << <<\h3C, \h08>>, <<\h3D, \h0A>>, <<\h3E, \h0A>>, <<\h3F, \h0A>>, <<\h40, 3>>,
     <<\h42, 3>>, <<\h43, 3>>, <<\h48, \h44>>, <<\h52, \h44>>,
     <<StatusReg, \h2C>>, <<ExecuteReg, 1>> >>

AD9510Writes(b, ne, div) ==
  CASE b = "ssp_proto_402" -> Fixed402
    [] b = "xSSP" -> FixedXSSP
    [] OTHER -> LET en == Enabled(b, ne)
                IN  Outputs(en) \o DividerWrites(b, en, div) \o Finish(en)

-----------------------------------------------------------------------------
(* The tasks of udpThread, as the driver calls they make *)

Select(s) == <<"select", s>>
Send(bytes) == <<"send", bytes>>
SendAll(writes) == [i \in DOMAIN writes |-> Send(writes[i])]

InitCalls(b, ne, div) ==
  (IF b \in Firmware THEN <<Select("AD9510")>> ELSE <<>>) \o SendAll(AD9510Writes(b, ne, div))

AD9510_Init(ne, div) ==
  task' = [do |-> "init", ne |-> ne, div |-> div] /\ todo' = InitCalls(board, ne, div)

\* Mutant: the slave is not selected.
MAX6628_Read_Unselected ==
  task' = [do |-> "MAX6628"] /\ todo' = <<Send(<<"temp">>), Select(None)>>

MAX6628_Read ==
  /\ task' = [do |-> "MAX6628"]
  /\ todo' = <<Select("MAX6628"), Send(<<"temp">>), Select(None)>>

MAX6661_Read ==
  /\ task' = [do |-> "MAX6661"]
  /\ todo' = <<Select("MAX6661"), Send(<<"RRH">>), Send(<<"RRL">>), Select(None)>>

ad9510_Read(reg) == task' = [do |-> "read"] /\ todo' = <<Send(<<reg>>)>>

\* xSSP has no threads: once it is set up, it reads back a register each time
\* a button is pushed.
main_xSSP == board = "xSSP" /\ \E ch \in Channels : ad9510_Read(OutputReg(ch))

Ready == phase = "ready" /\ todo = <<>>

\* xfr_enable and xfr_disable, or check_temps, between scans.
NextTask ==
  /\ Ready
  /\ \/ /\ board \in Firmware
        /\ \/ \E ne \in (SUBSET (0..2)) \ {{}}, div \in Dividers : AD9510_Init(ne, div)
           \/ AD9510_Init({}, 1)
     \/ board \in {"SSP", "SSP_PMT"} /\ task.do # "MAX6628" /\ MAX6628_Read
     \/ board \in {"SSP", "SSP_PMT"} /\ task.do = "MAX6628" /\ MAX6661_Read
     \/ main_xSSP
  /\ UNCHANGED <<board, started, phase, buf, slave, moving, spi_sem, TransferInProgress,
                 written, active, faults>>

-----------------------------------------------------------------------------
(* The driver calls.  XSpi_SetSlaveSelect refuses while a transfer is in   *)
(* progress; XSpi_Transfer also when not started or with no slave.         *)

Call(name) == phase = "ready" /\ todo # <<>> /\ Head(todo)[1] = name

\* Every task that selects a slave returns if it cannot.
DoSelect ==
  /\ Call("select")
  /\ IF moving = None
     THEN slave' = Head(todo)[2] /\ todo' = Tail(todo)
     ELSE slave' = slave /\ todo' = <<>>
  /\ UNCHANGED <<board, started, task, phase, buf, moving, spi_sem, TransferInProgress,
                 written, active, faults>>

Accepted == started /\ moving = None /\ slave # None

\* A refused write is skipped by AD9510_Init; a refused read ends its task,
\* which leaves its slave selected.
SendAndPend ==
  /\ board \in Firmware /\ Call("send")
  /\ buf' = Head(todo)[2]
  /\ IF Accepted
     THEN moving' = slave /\ phase' = "waiting" /\ UNCHANGED todo
     ELSE /\ todo' = IF task.do = "init" THEN Tail(todo) ELSE <<>>
          /\ UNCHANGED <<moving, phase>>
  /\ UNCHANGED <<board, started, task, slave, spi_sem, TransferInProgress, written, active, faults>>

\* sem_wait(&spi_sem), without a timeout.
Pend ==
  /\ board \in Firmware /\ phase = "waiting" /\ spi_sem > 0
  /\ spi_sem' = spi_sem - 1 /\ phase' = "ready" /\ todo' = Tail(todo)
  /\ UNCHANGED <<board, started, task, buf, slave, moving, TransferInProgress, written, active, faults>>

SetFlag ==
  /\ board \in Prototypes /\ Call("send")
  /\ buf' = Head(todo)[2] /\ TransferInProgress' = TRUE /\ phase' = "armed"
  /\ UNCHANGED <<board, started, task, todo, slave, moving, spi_sem, written, active, faults>>

\* The prototypes drop what XSpi_Transfer returns.
SendIgnored ==
  /\ phase = "armed" /\ phase' = "waiting"
  /\ moving' = IF Accepted THEN slave ELSE moving
  /\ UNCHANGED <<board, started, task, todo, buf, slave, spi_sem, TransferInProgress,
                 written, active, faults>>

Spin ==
  /\ board \in Prototypes /\ phase = "waiting" /\ ~TransferInProgress
  /\ phase' = "ready" /\ todo' = Tail(todo)
  /\ UNCHANGED <<board, started, task, buf, slave, moving, spi_sem, TransferInProgress,
                 written, active, faults>>

-----------------------------------------------------------------------------
(* The interrupt: the driver calls SpiHandler with a status event *)

\* Mutant: any event posts, as any event clears the prototypes' flag.
SpiHandler_sem_Any(done) == spi_sem' = spi_sem + 1

SpiHandler_sem(done) == spi_sem' = IF done THEN spi_sem + 1 ELSE spi_sem
SpiHandler_flag(done) == TransferInProgress' = FALSE

SpiHandler(done) ==
  \/ board \in Firmware /\ SpiHandler_sem(done) /\ UNCHANGED TransferInProgress
  \/ board \in Prototypes /\ SpiHandler_flag(done) /\ UNCHANGED spi_sem

\* The bytes that reach the AD9510 write a register or execute the writes.
Receive ==
  IF moving = "AD9510" /\ Len(buf) = 2
  THEN IF buf[1] = ExecuteReg
       THEN active' = written /\ UNCHANGED written
       ELSE written' = [written EXCEPT ![buf[1]] = buf[2]] /\ UNCHANGED active
  ELSE UNCHANGED <<written, active>>

TransferDone ==
  /\ moving # None /\ moving' = None
  /\ Receive /\ SpiHandler(TRUE)
  /\ UNCHANGED <<board, started, task, todo, phase, buf, slave, faults>>

\* A receive overrun leaves the transfer going; a mode fault aborts it.
StatusEvent ==
  /\ moving # None /\ faults < MaxFaults /\ faults' = faults + 1
  /\ moving' \in {moving, None}
  /\ SpiHandler(FALSE)
  /\ UNCHANGED <<board, started, task, todo, phase, buf, slave, written, active>>

-----------------------------------------------------------------------------

\* SPI_system_init selects the AD9510 last and then starts the device.  Its
\* callers drop its result and go on to AD9510_Init(0, 1); xSSP gives up.
SPI_system_init ==
  /\ board \in Boards /\ started \in (IF board = "xSSP" THEN {TRUE} ELSE BOOLEAN)
  /\ slave \in IF started THEN {"AD9510"} ELSE {"AD9510", None}
  /\ phase = "ready" /\ buf = <<>> /\ moving = None
  /\ spi_sem = 0 /\ TransferInProgress = FALSE /\ faults = 0

\* The chip keeps its registers over a restart of the processor; 0 stands for
\* what they held.
Init ==
  /\ SPI_system_init
  /\ task = [do |-> "init", ne |-> {}, div |-> 1]
  /\ todo = InitCalls(board, {}, 1)
  /\ written = [r \in Regs |-> 0] /\ active = written

Driver == DoSelect \/ SendAndPend \/ Pend \/ SetFlag \/ SendIgnored \/ Spin
Interrupt == TransferDone \/ StatusEvent

Next == NextTask \/ Driver \/ Interrupt
Spec == Init /\ [][Next]_vars

-----------------------------------------------------------------------------
(* Properties *)

\* The firmware goes on to its next driver call only when the transfer it
\* started has ended, and with no completion left over to end the next wait
\* early, whatever other status events the interrupt reports (ad9510_if.c:416).
InStep ==
  (board \in Firmware \/ faults = 0) =>
    /\ phase = "ready" => moving = None /\ spi_sem = 0
    /\ moving # None /\ phase = "waiting" => spi_sem = 0

\* Every transfer goes to the chip its task is about, in whatever order tasks
\* follow each other and whatever the one before left selected: the sensors' none,
\* the clock generator's its own chip.  (A refused read leaves a sensor selected,
\* but the driver refuses only what it will go on refusing: no transfer follows.)
RightSlave ==
  moving # None => moving = IF task.do \in {"init", "read"} THEN "AD9510" ELSE task.do

\* What a divider makes of its two registers: it is high and low for the two
\* counts plus one (ad9510_if.c:217).
Ratio(counts, bypass) == IF bypass = \h80 THEN 1 ELSE (counts \div 16 + 1) + ((counts % 16) + 1)

\* When AD9510_Init returns, the outputs the client asked for, and no other,
\* run at the 100 MHz clock divided by NF, the QCLI's by 25, and the outputs
\* are not held in sync: no register write was lost or misplaced on the way.
Clocked ==
  Ready /\ started /\ task.do = "init" /\ board \in Firmware =>
    LET en == Enabled(board, task.ne) IN
    /\ \A ch \in Channels :
         /\ active[OutputReg(ch)] \in (IF ch <= 3 THEN {8, 10} ELSE {2, 3})
         /\ (active[OutputReg(ch)] \in {8, 2}) <=> ch \in en
         /\ ch \in en => Ratio(active[DividerReg(ch)], active[BypassReg(ch)])
                           = IF ch = 6 /\ board # "ssp_proto_b" THEN 25 ELSE task.div
    /\ active[SyncReg] = 0 /\ active[ClockReg] = IF en = {} THEN \h3F ELSE \h1D

\* The outputs change their dividers or their power only while held in sync,
\* so that they start aligned (ad9510_if.c:294-297).
Synced ==
  [][(board \in Firmware /\ \E r \in Regs \ {SyncReg} : active'[r] # active[r])
       => (active'[SyncReg] = 4)]_vars
===============================================================================
