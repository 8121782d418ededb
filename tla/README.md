# arp-fpga in TLA+

The repository holds the FPGA projects of the Anderson group: the SSP (Scan
Signal Processor), a data-acquisition board whose MicroBlaze runs a small
multi-threaded server, with its prototypes; the Linux programs that control and log
it; a web server that configures it; and `syscon_usb`, a bridge from USB to an
instrument bus. This project models all of these programs, on both sides of the wire.

Sections: 1 the system, 2 the modules, 3 the runs, 4 what they found, 5 the proofs,
6 what is not modelled, 7 the plan.

## 1. The system

### Components

| Component | State | Operations | Talks to |
|---|---|---|---|
| **Control plane** (`ssp_ad.c`, `ssp_intr.c`) | `cfg_sem`, `udp_sem`, `tcp_sem`; `ssp_config`; the one `rcv_msg`; the cached control register; scan-core registers | `main_main` start-up; `tcpThread`: recv, parse, reply; `udpThread`: enable, trigger, disable | clients by TCP; `udpThread` by semaphores; hardware by registers |
| **Acquisition** (`udpThread`, `ssp_read_fifo`) | `scan[]`, `words_read`, `words_remaining`; the FIFO | poll, partial reads, completion | scan core FIFO; scan transfer |
| **Scan transfer** (`sendfrags`; `ssp_log.c`, `ssp_raw_log.c`) | `scan[]`, serial number; `scan_buf`, `cur_word`, `scan_OK`, `frag_hold` | send whole or in fragments; reassemble in place; log | UDP |
| **Status LEDs** (`ssp_status.c`) | two lists, two cursors, one element cursor | `status_set`, `status_error`, `status_thread` | every thread, by a mutex |
| **SPI devices** (`ad9510_if.c`, four copies, six boards) | slave selected, transfer under way, `spi_sem` or `TransferInProgress`, the clock generator's registers | `SPI_system_init`, `AD9510_Init`, temperature reads, `SpiHandler` | SPI driver and interrupt |
| **EEPROM** (`ssp_eeprom.c`) | completion flags of the interrupt handlers; the memory | `EE_Read`, `EE_Write`, `EE_ReadConfig`, `EE_WriteConfig`, default | IIC driver, interrupts |
| **Configuration server** (`SSP_Config`) | the form's fields, `SSP_Config`, one thread per connection | start-up, parse, validate, update, write | browsers; EEPROM |
| **Client tools** (`ssp_log`, `ssp_raw_log`, `ssp_sim`, `ssp_cmd`, `ssp_get`) | PID file, lock files, the data file's index, their sockets | start-up, configuration, reception, `move_lock`, `IX:`, clean-up, signals | the command port, UDP, each other by files and signals |
| **Prototype firmware** (`ssp_proto_402`, `ssp_proto_a`) | one `udp_sem`, `udpThreadCmd`, the registers | commands, scan interrupt, `udpThread`'s two main loops | clients; scan core |
| **Ethernet simulators** (`simeth`, `simeth_2`) | the same without a command variable | TCP threads that enable and disable themselves, interrupt, `udpThread` | `ssp_get` |
| **Subbus server** (`usb_subbus.c`) | command buffer, time-out counter, interrupt table, `fail_reg`, control word | main loop, every command, `intr_service`, `read_multi` | USB FIFO, subbus, watchdog |
| **syscon watchdog** (`syscon_tick_beh.vhdl`, `syscon_arch.vhd`) | its registers | one clock | control word; command outputs |

`PROJECT.json` lists these and the parts that are not modelled, with the reason, and
the hazards of the code, each at its line with the properties that catch it.
`ssp_fpga_1ap_sw` (the PMT board) and `ssp_proto_b` hold the same code as
`ssp_fpga_sw`, the latter before the temperature sensors were added; their boards
differ in clock settings, which `SPIDevices` has as separate boards.

### What is hard, and what makes each component correct

Every client has a thread of its own; these threads share a message buffer, a
configuration and a two-semaphore hand-over to `udpThread`. The configuration
reaches the hardware field by field. Scans cross an unreliable network in
fragments that overlay each other in the buffers at both ends. A failure (a send,
an SPI interrupt that never comes) ends or blocks a thread the others wait for.
Client programs tell each other where they are by files, and are ended by signals.

* Control plane: one request at a time between the threads; nothing but the trigger
  changes while acquiring; registers hold what was configured (but for NetSamples, see
  section 4) and change under reset only; each command is answered by what it did.
* Acquisition: what is sent is one scan of the core, whole, whatever was broken
  off before.
* Transfer: what is logged was sent, whole and in order; damage is bounded.
* Status: every stored error is displayed, whole; cursors stay inside the lists.
* SPI: one transfer at a time, each to its chip; clocks come out as asked, aligned.
* EEPROM and its server: after any interruption the configuration read is one that was
  submitted whole, or the default; every browser is answered.
* Clients: lock files name what is open; a run streams what it was started for.
* Prototypes, simulators: no wake-up is lost; a datagram has consecutive words of one
  acquisition, and is one scan if the core and `udpThread` have the same length.
* Subbus: command outputs never outlive the host that ticks, and never come back unasked.

## 2. Modules

| Module | Models | Relation |
|---|---|---|
| `SSPService` | what the command port promises: each command takes effect at one moment and is answered by what it did | abstract |
| `SSPControl` | `main_main`, `tcpThread`, `parse_cmds`, `udpThread`'s commands, registers | implements `SSPService` |
| `SSPSession` | `ssp_log`, `ssp_raw_log`, `ssp_sim`, `ssp_cmd` as clients of the service, their files and signals | implements `SSPService` at its other side |
| `ScanLog` | what the data path promises: each scan logged is one that was begun, later than the last | abstract |
| `ScanAcquire` | scan core FIFO, `ssp_read_fifo`, `udpThread`'s buffer | implements `ScanLog` |
| `ScanTransfer` | `sendfrags`, the network, both loggers | implements `ScanLog` when datagrams are lost only |
| `SSPStatus` | `ssp_status.c` | |
| `SPIDevices` | the four `ad9510_if.c` | |
| `SSPEeprom` | `ssp_eeprom.c` and the memory, with power cuts | component of `SSPConfigServer` |
| `SSPConfigServer` | `SSP_Config.c`, `http.c` | composes `SSPEeprom` with the connections |
| `ProtoControl` | `ssp_proto_402`, `ssp_proto_a` | |
| `SimEth` | `simeth`, `simeth_2`, `ssp_get` | |
| `SysconTick` | the watchdog, one action per clock | component of `UsbSubbus` |
| `UsbSubbus` | `usb_subbus.c` | composes `SysconTick` with the server |
| `*_proofs` | theorems about the module they are named after; `Devices_proofs`, about `SPIDevices`, `SSPStatus` and `SimEth` | |
| `MC*` | command sets, requests and small instances for TLC | |

A definition whose comment begins with *Mutant* is a deliberately wrong variant
of the definition after it. No action uses it; it shows that the properties
notice such a mistake.

### `SSPControl`

A step is the code between two points where another thread may run or shared data
is touched. `pc[t]` is where a `tcpThread` is:

| `pc` | next in the code | action |
|---|---|---|
| `none` | no connection | `Accept` (`serverAppThread` starts a thread) |
| `recv` | `recv()` into the static `rcv_msg` | `Recv`, `Hangup` |
| `lock` | `sem_wait(&cfg_sem)` | `Lock` |
| `parse` | `parse_cmds()` | `ParseEN`, `ParseEX`, `ParseDA`, `ParseN`, `ParseTrigger`, `ParseBad` |
| `post`, `await` | the two semaphores of `enq_udpcmd()` | `Post`, `Await` |
| `unlock` | `sem_post(&cfg_sem)` | `Unlock` |
| `format`, `send` | reply digits into `rcv_msg`; `send()` | `Format`, `Send` |

`udp` is where `udpThread` is: `init`, `bind`, `idle` (`sem_wait`), the steps of
`xfr_enable` (`reset`, `load`, `trigger`, `release`), `enabled` (before the answer),
`run` (the `while (enabled)` loop), `quench` (in `xfr_disable`), `answer`,
`stopped`. `control` is the static cache in `set_ssp_control`, `hw` what the
registers hold; a write is skipped when the cache has the value already, as in
the code. `sent`, `got` and `did` record what a client sent, what it received and
what its thread executed; no action reads them.

Abstractions: a command is its two letters and what follows them (a number, a
formatted reply, nothing); the parse of the buffer is one step, since it holds
`cfg_sem` and is a few instructions long; the writes of `xfr_enable` between two
reset writes are one step; `AD9510_Init` is one write of the enabled channels and
the divisor (`SPIDevices` has it in full); acquisition appears as `run` only
(`ScanAcquire` has it in full). `udp_sem`'s first use, as the start-up hand-shake, is
direct: `main_main` has the higher priority and is waiting, so `udpThread` cannot take
back what it posts.

### `ScanAcquire`

The core (`CoreStart`, `CorePut`) writes scans into the FIFO, skipping those that do
not fit, as `src/ssp/doc/ssp_documentation.leo:437` and `703` say; reset empties
it. `udpThread` reads Empty (`Poll`), PercentFull (`Count`) and each word
(`ReadWord`) in steps of their own, and then goes on (`Partial`) or sends
(`Complete`). PercentFull has one bit in the core's VHDL (`rd_data_count(0)`), so one
or two words are read at a time. A word is `[scan, i]`; what `udpThread` adds to
words 1, 2 and 6 of a complete scan is left out. The core is taken to use the
configured length, although the code's last write leaves the trigger level in its length
register (section 4): what is shown of acquisition is shown for the code as it would be
with that write in its own register. The TRIGGER command does not touch
this state and is in `SSPControl` only.

### `ScanTransfer`

`StartScan` and `SendFrag` are `udpThread`'s choice between `sendto` and `sendfrags`, and
one turn of the loop in `sendfrags`; `Lose`, `Swap` and `Duplicate` are the network;
`ReceiveWhole` and `ReceiveFrag` one turn of the loop of `ssp_log` or `ssp_raw_log`,
which differ in what ends a scan (`Resets`). Both buffers are kept word by word, because
header and data share words on purpose: a fragment's header overwrites the last word
of the fragment before, and the receiver saves that word in `frag_hold`. The sizes are
constants, with the relations of the header files (`SSP_CLIENT_BUF_LENGTH`, at most
`F + 1` words in a datagram).

### `SSPStatus`

Each action is a section under `status_mutex`: a turn of `status_thread`, a
`status_set` that clears, one that appends, a `status_error`. `n_status_sets` and
`n_error_sets` are the lengths of the lists; a report that does not fit is dropped, as
in the code.

### `SPIDevices`

`udpThread`'s tasks (program the clocks, read a temperature, read a register, find the
devices) are sequences of driver calls, `todo`: select a slave, send bytes. The
register writes of `AD9510_Init` are spelled out, with the divider arithmetic, because
`Clocked` compares what the outputs then do with what the client asked for. A call is
two steps, `SendAndPend` and `Pend` in the firmware, `SetFlag`, `SendIgnored` and `Spin`
in the prototypes that wait for a flag; the interrupt (`TransferDone`, `StatusEvent`)
comes between any two. The chip executes writes only when its register 5A is written
(`active`, as against `written`). A transfer that is refused breaks the task off and
leaves the slave selected, as in the code.

### `SSPEeprom` and `SSPConfigServer`

The driver goes page by page: start a transfer, wait for one of the flags that the
interrupt handlers set. `PowerCut` may strike between any two steps; the page being
written is then old, new or damaged. `main_main` reads header, then body (`Start`,
`HeaderRead`, `Loaded` or `Defaulted`) and opens the port. A connection's thread parses
assignment by assignment into the shared form (`parse_get`), copies field by field
(`fields_update`), computes and stores the header (`Sum`, `Sign`), and writes. A
configuration is a function from pages to values and the checksum is the configuration
itself: what distinguishes configurations, not how fletcher16 does, is modelled. With
`InTurn` a form arrives only while no other is being handled.

### `SSPSession`

One run after another of a logger or the simulator, a step per system call that other
programs can see: `OpenPid`, `WritePid`, `CreateLock`, the three steps of `move_lock`
(`RenameLock`, `AssignPrev` and, on clean-up, `UnlinkOld` and `UnlinkNew`), a command sent
(`SendNext`) and answered (`Answered`), a scan received, an index set by `IX:`
(`SetIndex`). `Interrupt` is SIGINT, from a terminal or from `ssp_cmd DA` by the PID file
(`ReadPid`, `Kill`), between any two steps. `OtherSends` is any other client. The SSP is a
monitor that obeys one command at a time (`Serve`), which is what `SSPControl` is shown
to implement; that it is the same service is itself checked (`ImplementsService`).

### `ProtoControl` and `SimEth`

`ProtoControl`: a TCP thread stores a command (`udpThreadCmd`), posts `udp_sem` and
answers at once; the scan interrupt (`sg_handler`) posts the same semaphore; `udpThread`
takes posts (`UdpWait`), tests the command (`UdpCheck`), enables (`XfrEnable`, with the
length read twice), disables and drains, reads scans and sends. Start-up is included: the
semaphore is first used as a hand-shake. `SimEth`: TCP threads write the registers
themselves, so that an old connection's thread can disable what a new one has enabled;
the handler's two calls are two steps, in one order in `simeth` and in the other in
`simeth_2`. The other end is `ssp_get`, with its script of commands, in several runs.

### `SysconTick` and `UsbSubbus`

`SysconTick!Clock` is one clock edge: every register gets its next value from the old
ones. `UsbSubbus` runs the server's loop beside it: `Receive`, `Flush` or `Idle` (a byte, a
byte thrown away, none), `ReadStatus`, then `intr_service` and `Watch`, which use the status
that was read, whatever happened since. `T` waits for the acknowledge (`Arming`), `M` reads
address by address (`Range`, `ReadOne`, `RangeDone`), with addresses that wrap. The host sends
lines; the rest of a line whose beginning was dropped reads as some other command.
`Tick` lets up to `TwoSec + 4` clocks be counted (`quiet`); the count saturates.

## 3. Runs

| Run | Question | Bounds |
|---|---|---|
| `control` | Do two clients and `udpThread` share semaphores, configuration and registers correctly, implement `SSPService`, and is every command answered unless `udpThread` stopped? | 2 threads; EN, DA, NP; all faults; 182,614 states |
| `control_replies` | Is every command, with numbers in and out of range or missing, answered by a code that fits it and does what it says? | 1 thread; 17 commands; 1,302,938 states |
| `control_gone` | Does 410 answer EX only? **Violated**, see section 4 | 2 threads; EX, DA |
| `acquire` | Are the scans sent whole, in order, and all those in the FIFO? | lengths 3, 4; FIFO of 6; 4 scans; enabled twice |
| `transfer` | Is what either logger logs whole, in order when datagrams are lost only, and damage bounded by the faults? | scans of 1, 2, 3 datagrams; 4 scans; 4 faults; 877,732 states |
| `status` | Are the cursors in bounds and every stored report shown? | lists of 3; strings of 1 to 3 digits |
| `spi` | Do the drivers stay in step with their transfers, address the right chip, and produce the clocks asked for, aligned? | all six boards; dividers 1, 2, 3, 32; one status event |
| `config` | Is a configuration in force one that was submitted whole, does it survive power cuts, and is every form handled, if forms come in turn? | 3 pages; 2 connections; 6 requests; 1 cut; damaged headers of sizes up to 4 |
| `session` | Do lock files name what is open, are none left over, and does an undisturbed run get what it was started for? | 2 runs; 1 command of another client; 2 interruptions; 4,422,690 states |
| `proto` | Is no wake-up lost, has each datagram consecutive words of one acquisition (one scan if the two lengths agree), and does the 402 get to every command? | 2 connections; 4 commands; both firmwares; lengths 0, 1, -1 and one refused; 1,748,665 states |
| `simeth` | The same for the simulators; does a run of `ssp_get` end? | 2 runs; both programs; 296,526 states |
| `subbus` | Are the command outputs watched, do interrupts have owners, is M bounded, is a timeout noticed and never undone unasked? | 3 boards, one absent; 4 hosts; 441,069 states |

Every property holds, but that of `control_gone`. Deadlock is not checked where the
system may stop: `udpThread` or the server may have ended, or a bounded number of
commands, scans or runs has been processed.

**Why the bounds are enough.** Threads of `SSPControl` meet only at the semaphores
and in `rcv_msg`; two of them give every pair of positions, and the theorems hold for
any number. The two command sets are complementary: interleaving needs commands of
each *kind* (enqueued, direct, refused), ranges need every command but no second
client. Nothing in `SSPControl` is bounded, so its behaviours may be of any length.
In `ScanAcquire` a FIFO of six words holds one scan and part of another, so that scans
are skipped, split across reads and broken off; lengths 3 and 4 make the last read
one word or two. In `ScanTransfer` a scan has a first, a middle and a last fragment,
the last shorter than the others or not; four scans let faults spoil one, affect the
next, and show that the receiver recovers; `SNModulus` exceeds the scans sent, so serial
numbers do not repeat. `SSPStatus` is unbounded but for the list lengths, and three
entries have a first, an inner and a last. `SPIDevices` has no bound but the status
events; the dividers are both limits, an even and an odd one. In `SSPConfigServer` three
pages are the header's, one that is always written and the one whose use depends on its
content; one cut damages one page, and what follows a second cut is what follows the
first, since the memory is all that survives. In `SSPSession` the second run meets what
the first left. `ProtoControl`'s and `SimEth`'s lengths are no sample and one, and one
that is refused; in `ProtoControl` also a negative one, which is accepted, and of which the
core's register keeps the low bits (`NSRange`); a semaphore count that saturates stands for a larger one, since a
`udpThread` that has more posts than causes only wakes for nothing. In `UsbSubbus` two
seconds are two clocks and two minutes three: enough for every order of the three
registers a tick goes through and the timeout; four addresses make ranges wrap; four hosts
each exercise one part of the server, because the parts share only the control word and
the loop.

**Fairness.** xilkernel schedules by priority in `ssp_fpga_sw` (`SCHED_PRIO`,
`src/ssp/fpga_sw/ssp_fpga_sw/system.mss`): `main_main` 4, `serverAppThread` and the
`tcpThread`s 1, `udpThread` 5. A `tcpThread` runs when it can (weak fairness), and gives
way to `udpThread` by waiting: for `recv`, or for `tcp_sem`. So `udpThread` gets to run
(weak fairness). A semaphore's queue is served in order, so a thread waiting for
`cfg_sem` is not overtaken for ever (strong fairness on `Lock`). Nothing makes a client
connect, send or hang up, enable or disable. `status_thread` has no priority of its
own and runs when the others wait; `udpThread` sleeps 100 ms whenever the FIFO is
empty. That it is empty again and again, i.e. that the firmware keeps up with the
core, is an assumption of `SSPStatus` (weak fairness on `status_thread`). In
`ScanAcquire`, the core ends a scan that it has begun, and `udpThread` goes on reading.
`SSP_Config` is scheduled round robin (xilkernel's default): weak fairness for each
thread, and a transfer ends with completion or with a status event. In `ProtoControl` the
core goes on, the handler and `udpThread` run, and a thread that has stored a command
posts. In `SimEth` the handler interrupts the threads again and again but returns, hence
strong fairness for the threads; the network loses datagrams but not all of them (strong
fairness on the send that arrives). In `UsbSubbus` the loop and the clock run for ever;
the host and the boards may be silent. `SPIDevices` and `SSPSession` state safety only.

## 4. What the checks found

* **`control_gone`** `rcv_msg` is one buffer for all connections. A command that
  arrives while another thread waits for `cfg_sem` replaces that thread's command;
  a client that sent DA is told 410 and disconnected because another sent EX. The
  other side of it: `ImplementsService` holds with two clients only for the command
  *executed* (`did`), not for the one that was sent. `ReplyFits`, which is about
  the one that was sent, holds with one client.

What else came up while modelling, and how the models treat it:

* `ssp_ll_triggerlevel` stores the trigger level through the NetSamples address
  (`ssp_intr.c:49`-`54`, `200`), and `xfr_enable` calls it after it has loaded NetSamples; a T
  command while enabled stores there again, outside reset. So the core is never given the
  length of NS, "Net samples per scan" (`ssp_documentation.leo:540`), but the level.
  Modelled: `AcquiresAsConfigured` and `LoadedUnderReset` leave the register out, and
  `TriggerApplied` says, and `Triggered` proves, that it holds the level. With
  `hw.netsamples = cfg.NS` added, `AcquiresAsConfigured` fails: TLC sends NS, NP and EN and
  finds the core enabled with 0, the level, for a length.
* EN is accepted with NA and NC at their initial 0. Modelled.
* After one failed `sendto` `udpThread` has ended and no client is answered any more.
  Modelled; `Answered` excepts it.
* The guard words behind `scan[]` begin where the longest scan ends, so such a scan is
  reported as an overrun (`ssp_ad.c:310`). The print is left out.
* `ssp_status.c:9` says that errors will overwrite older ones when the list is full;
  `status_error` drops the new one. Modelled.
* `SSP_Config`'s connections share the form without a lock (`http.c:552`, with comments at
  417 and 554): with `InTurn = FALSE`, `OnlySubmitted` fails. The run has `InTurn = TRUE`.
* `EE_ReadConfig` takes the length from the header before the checksum has vouched for it,
  up to the size of the EEPROM, 512, and reads as many bytes into a configuration of 114
  (`ssp_eeprom.c:205`, `211`). Modelled is that such a header passes (`SizeOK`) and the checksum
  then refuses it; what the excess overwrites is not.
* `usb_subbus.c:491`: the timer is never reset, against the comment at 492; modelled
  (`Idle`), and harmless but for the lines it drops. `409`-`412`: T waits for the time-out
  bit to clear without having read it anew; modelled (`Arming`).
* `MAX6661_Read` returns `buf[0]`, the byte that came while the address was sent
  (`ad9510_if.c:390`, compare 385). Sensor values are left out.
* `ssp_raw_log.c:320`: the bound is tested after a `continue` that skips it. Modelled
  (`Resets`); the room suffices without it (`InBuffer`).
* `ssp_cmd DA`, EN by another client or SIGINT can leave the SSP enabled behind a logger;
  answers 503 to NS and NE are ignored; a data file cut short by an interruption between
  rename and assignment of `IX:` keeps its lock; a second SIGINT ends the clean-up.
  Modelled; the properties name these exceptions.
* Prototypes: NS: accepts 4000, beyond their `MAX_SCAN_LENGTH` 2048, and negative numbers,
  since the comparison is signed (`ssp_ad.c:416`): then no datagram is sent; the length is read
  twice in `xfr_init` (`ssp_intr.c:97`, `98`), so that an NS in between leaves the core with one
  length and `udpThread` with another, and datagrams begin anywhere in a scan; two connections overwrite each other's command, though both are
  answered 200; `ssp_proto_a` looks at commands once per wake-up, so a stream of scans
  starves DA; EN is answered 200 though `udpThread` is gone after a failed bind; `main_main`
  waits for ever when `ethernet_init` fails. Modelled; `WholeDatagrams` says what holds whatever
  the lengths and claims one whole scan only when they agree; `Obeyed` is about the 402.
* Simulators: `simeth` loses the interrupt of a scan that ends between the post and the
  acknowledge, and lags one scan behind from then on; posts left over from one acquisition
  misalign the scans of the next; a connection that ends disables acquisition even when the
  next run has enabled it. Modelled; `NoLag` is about `simeth_2`, and `Finishes` excepts
  the last.

## 5. Proofs

All in TLAPS, for every value of the constants that satisfies the assumptions
of the module: commands are letters and perhaps a number, faults are among those
named (`SSPControl`); scans have at least a word, the FIFO holds at least four
(`ScanAcquire`); lengths are positive and lists have room for one entry
(`ScanTransfer`, `SSPStatus`); boards and dividers are those of the code
(`SPIDevices`); a request is one or more assignments, and `main_main` is no connection
(`SSPConfigServer`), and the EEPROM has more pages than it (`SSPEeprom`); the runs' indices fit
16 bits (`SSPSession`); lengths are integers (`ProtoControl`) or natural numbers (`SimEth`); bounds are natural numbers (all). Hypotheses beyond these stand in the theorem and are named below.

| Theorem | States | From |
|---|---|---|
| `SSPControl_proofs!Typing` | `[]TypeOK` | inductive by itself |
| `ConfigLock` | `[]MutualExclusion` | `LockInv` |
| `OneRequest` | `[]Rendezvous` | `LockInv`, `TokenInv` |
| `CodesSuit` | `[]NeverRefused` | `EnInv` |
| `Frozen` | `ConfigFrozen` | `IInv` |
| `Configured`, `Triggered` | `[]AcquiresAsConfigured`, `[]TriggerApplied` | `IInv`, `StageInv` |
| `UnderReset` | `LoadedUnderReset` | `ResetInv` |
| `RepliesFit` | `[]ReplyFits`, with one client | `DueInv` |
| `SSPControl_proofs!Implements` | `ImplementsService` | `IInv`, `StageInv`, `ServiceInv` |
| `SSPSession_proofs!Sessions`, `LockNames`, `CleansUp` | `[]TypeOK`, `[]LockNamesOpen`, `[]NoLeftovers` | `SessionInv` |
| `SSPSession_proofs!Streams`, `ServesClients` | `[]StreamsToMe`, `ImplementsService` | `StreamInv`, `TypeOK` |
| `ScanAcquire_proofs!BufferInBounds`, `NeverUnderflows` | `[]TypeOK`, `[]NoUnderflow` | `Room`, `Available` |
| `ScanAcquire_proofs!RefinesLog` | `ImplementsLog` | `StreamInv` |
| `ScanTransfer_proofs!LoggedWhole`, `InBuffer` | `[]WholeScans`, `[]TypeOK` | `SentInv`, `RecvInv` |
| `ScanTransfer_proofs!LogsInOrder` | `ImplementsLog` | `SentInv`, `RecvInv`, `OrderInv` |
| `ScanTransfer_proofs!Recovers` | `[]DamageBounded` | `SentInv`, `RecvInv`, `DamageInv` |
| `SSPConfigServer_proofs!FoundAgain`, `InForce` | `Durable`, `[]OnlySubmitted`, with forms in turn | `DriverInv`, `KeptInv`, `FormInv` |
| `Devices_proofs!KeepsStep`, `ToItsSlave` | `[]InStep`, `[]RightSlave` | `WaitInv`, `SlaveInv` |
| `Devices_proofs!ClocksRun`, `ChangesInSync` | `[]Clocked`, `Synced` | `WaitInv`, `ClockInv` |
| `Devices_proofs!CursorsInBounds`, `Unbroken` | `[]CursorsOK`, `ErrorUnbroken` | inductive by itself |
| `Devices_proofs!SendsWholeScans` | `[]WholeDatagrams` of `SimEth` | `ClientInv`, `StartInv`, `FlowInv` |
| `Devices_proofs!NeverLags` | `[]NoLag`, with `SemRoom` | the same |
| `UsbSubbus_proofs!Typing`, `EnabledHaveOwners`, `ReadsBounded` | `[]TypeOK`, `[]OwnersKnown`, `[]MultiBounded` | `BoardInv`, `MultiInv` |
| `UsbSubbus_proofs!OutputsWatched`, `RestartNeedsConsent` | `[]CommandsWatched`, `NoSilentRestart` | `TickInv`, `ConsentInv` |
| `ProtoControl_proofs!NeverAsleep`, `OneWholeScan` | `[]NoLostWakeup`, `[]WholeDatagrams` | `FifoInv`, `StreamInv`, `WaitInv`, `PostInv` |

**Control plane.** `MutualExclusion` speaks of pairs of threads; `LockInv` names the one
thread that holds `cfg_sem`, which makes the induction work for any number of threads.
`Rendezvous` is not inductive: that only the holder of `cfg_sem` can post `udp_sem` is
needed, and `TokenInv` follows the single request from `udp_sem` through `udpThread` to
`tcp_sem`. `EnInv` relates EN, the command code under way and where `udpThread` is: EN is
tested by a thread under `cfg_sem`, and nobody can change it before `udpThread` takes the
code. From these `ConfigFrozen` follows: a writer of a configuration field holds
`cfg_sem` with EN clear, so no request is under way. `StageInv` says, for each stage of
`xfr_enable`, which registers hold their field already (NetSamples TL, from `set_trigger` on), and that the cache `control` agrees with the register. The refinement of `SSPService` maps each parse of a command
that is not handed over to the service's step, each command that is to the moment
`udpThread` settles its reply, everything else to a stutter. `ServiceInv` supplies that a command handed over is
the one whose code is in `CC`, that its reply is settled once `udpThread` has set it, and
that the values in the configuration are within the service's limits. `DueInv`, for
`RepliesFit`, follows one command from the client back to it: it is parsed as it was
sent, its code suits it, its digits are what is sent. It needs `ServiceInv` (the reply
that `udpThread` settles is 200) and that there is one client, since `rcv_msg` is one
buffer: `control_gone` shows what two of them do.

**Sessions.** `SessionInv` has a part for each of the questions and is proved in one
induction. `WireInv`: what a run has yet to send is a suffix of its own settings, in
their order, and what it waits for is the answer to the first of them. `LockInv` says at
each step of a run which of its two indices has the lock file, `LeftInv` that there
is no other but those recorded in `stale`. `AloneInv`: unless somebody interfered, each
setting has reached the SSP that is no longer among those to be sent (`Pending`). The
refinement maps each command the SSP obeys to the service's step, all else to stutters.

**Acquisition.** The FIFO has room for what the core has begun (`Room`) and holds the
words that have been asked for (`Available`): only `udpThread` removes words, and it asks
for two only of a FIFO that is half full. `StreamInv`, for `RefinesLog`, reads
what `udpThread` has gathered, the FIFO and what the core has begun as one stream: each
word is the successor of the one before, or the first of a later scan behind the last of
an earlier one. A completed scan is then whole and newer than those sent.

**Transfer.** `SentInv`: the words of the scan that have still to be sent are
intact in the sender's buffer, the ones overwritten by headers are those sent before; so
every datagram in the network is a fragment, or the whole, of some scan sent. `RecvInv`:
while a scan is begun and nothing was out of place, the buffer below `cur_word` holds its
words, and the one that the next header will overlay waits in `frag_hold`. Both theorems
assume `MaxScans < SNModulus`: serial numbers do not repeat; they assume nothing about the
faults. `LogsInOrder` has the same hypothesis. `OrderInv`: while datagrams have only been
lost, the serial numbers in the network rise, strictly behind the last datagram of a scan,
and what is logged is older than all of them; so a scan that completes is later
than the last one logged. `Recovers` is about any faults. A scan is *intact* while behind
each of its fragments in the network comes the next one (or it is still to be sent), and
its first fragment has still to arrive or the receiver has all before the one at the
head. `DamageInv`: a set of scans, no more than the faults cost, contains every scan that is
neither logged nor intact. A fault at the head touches the scans of the datagrams it moves, no
others; and an intact scan is logged or goes on whatever the receiver was doing, since
offset 0 always starts a scan. When nothing is under way no scan is intact, so those
not logged are in the set.

**Configuration server.** `FoundAgain` follows a write through the driver: `DriverInv` has,
for every point in it, how many pages are in the memory; `SignInv`, that the header written
is that of the configuration written; `KeptInv`, that a configuration once written whole
stays, pages and header, until the next is signed. `InForce` follows a form from the
request through the fields to the configuration (`FormInv`): what a thread has parsed is
in the form, what it has copied is in the configuration, and what is read at the start is
matched by its header. Both assume `InTurn`; without it they are false (section 4).
`InForce` assumes `WholeForms` too: a good request sets every field, and no request sets a
field twice, as a browser submits a form. Requests that are not good may lack fields.

**SPI.** `WaitInv`: between calls no transfer is under way and no completion is left over; while
one is under way `spi_sem` is zero. `SlaveInv`: a task selects its own chip and no other, and
has done so, or is about to, when it sends. `ClockInv` relates the calls that are left
in `todo` to the register writes that the chip has received (`Progress`), a completion not
yet taken counting as one received. When `todo` is empty all 30 have arrived, and that
these make the outputs run at the clock asked for (`ClockedThen`) is arithmetic on the
dividers. `Synced` follows from the same count: the writes to other registers are executed
at the moment that `SyncReg` comes to hold 4.

**Status.** `CursorsOK` says enough to be inductive: that at most one list is on display
is what lets both share `cur_elt`.

**Subbus.** `TickInv` bounds the watchdog's count by the time since the last T, through the
three registers a tick passes; `ConsentInv` says at each stage of the control word, of
`Ctrl_int` and of `TickEnbl` that without the host's consent the outputs cannot come on.

**Prototypes.** `StreamInv`: once `xfr_init` has drained the FIFO, its words are all of the length
that the core was given, each the successor of the one before, and the core's next follows the
last; so a datagram has consecutive words whatever the two lengths are. `FifoInv`: if they agree
the FIFO begins with the first word of a scan, so a datagram is that scan. `WaitInv`: a whole scan that `udpThread` has not seen has
its interrupt or its post. `PostInv`: so does a command, or its sender is about to post.

**Simulators.** Anybody may write the registers here, but the first acquisition is
undisturbed until its own client ends. `ClientInv` follows each conversation: NS has been
obeyed before EN is, and no thread is in `xfr_init` or `xfr_enable` except for a
client that waits for EN's answer. Hence (`StartInv`) exactly one thread begins the first
acquisition, with the length that all later NS repeat, and until it starts the generator
nothing has been generated, posted or read. `FlowInv` counts the scans from then on: the FIFO holds q
whole scans and the words of the next that are there, consecutive from 0; the posts that
`udpThread` has had or will get for scans it has not read (`Owed`: in the semaphore, in its hands, in
the handler, pending) are at most q, so each read finds a whole scan at the head. In
`simeth_2` they are exactly q while the interrupt is on. The equality needs `SemRoom`, that
`MaxSem` posts are as many as the scans for which the FIFO has room: `MaxSem` bounds the model, the
code's semaphore has no such limit. The run's values satisfy it (4 words < 4 scans of 2).

Model-checked only:

* Every liveness property (`Answered`, `EveryScanSent`, `ErrorsShown`, `StatusesShown`,
  `Served`, `Obeyed`, `Finishes`, `Noticed`): out of TLAPS's reach.

## 6. Not modelled

* Failures of `accept`, `malloc` and `mem_malloc`, and of `recv` in the servers; the race of a
  new thread with `serverAppThread` for the variable that holds its socket.
* Serial numbers that repeat after 16384 scans, and datagrams from anybody but the SSP.
* The EEPROM's reads across a block boundary: a configuration fits one block. Only a damaged
  header can ask for more (section 4); then the second read does not wait (`ssp_eeprom.c:130`),
  and bytes that a configuration does not have are read past the end of `SSP_Config`.
* `SSP_Config`'s pages, and forms that arrive at the same time (section 4). `process_http`'s
  three calls of `strtok` (`http.c:627`-`629`) share a pointer and are one step: harmless only
  for requests that do not arrive together. For names like `IPx`, which no browser sends
  from this form, `ipaddr_in` tests an index that was never set (`http.c:336`-`339`).
* EX, several clients at once, and failing `sendto` in `SimEth`; the variant of the firmware
  compiled with `BENCHMARK_UDP`; diagnostic prints, the overrun print among them.
* Sensor values; the clients' numerics (ring-down fit), file formats and command lines.
* In `UsbSubbus`, the values read; a bus cycle is one step, and syscon's bus state machine
  and the indexers of `idx_fpga_lib` are not modelled. The host is taken never to send W to a
  board's interrupt register (`usb_subbus.c:371`-`373`): that would enable a board that has no
  entry in the table, and `OwnersKnown` would not hold. The zero that ends a line of 256 bytes
  is stored one past `cmd[256]` (`481`): what it overwrites is not modelled.
* The scan core and other generated or vendor cores; they are external, as their drivers
  use them. The copies of the VHDL library, the benchmarks and examples.

Assumptions made where the code leaves timing to the hardware: a scan of the simulators
takes longer than the handler takes to be entered, and than it takes from its acknowledgement
to its end (with a FIFO of four scans, two of which may end meanwhile, `NoLag` fails
otherwise; with the assumption both invariants hold there too: `FifoSize = 8`, `MaxSem = 6`,
2,996,872 states, without `Finishes` and too long for the regular run); `main_main` waits
already when `udpThread` posts at start-up; a page of the EEPROM is written in whole, not at all, or damaged.

## 7. Plan

Done: the control plane, acquisition, transfer, status, SPI, EEPROM and its server, client
sessions, prototypes, simulators, subbus server and watchdog; theorems about all of them:
every safety property that a run checks and finds true is proved.

Left:

1. `ScanTransfer`'s theorems with serial numbers that repeat: a bound on how far the
   network falls behind in place of `MaxScans < SNModulus`.
2. syscon's bus cycles (`syscon_arch.vhd`) under `UsbSubbus`, so that `pulse_rdwr` is the
   hand-shake it is; the indexer's step generation and limits (`limits_fsm.vhd`).
3. Two forms at once in `SSPConfigServer`, against a service that takes them one by one.
