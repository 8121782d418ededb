------------------------------- MODULE UsbSubbus -------------------------------
(***************************************************************************)
(* The subbus server of syscon_usb (usb_subbus.c): one loop that takes the *)
(* host's command lines byte by byte from the USB FIFO, obeys and answers  *)
(* them, reports the boards' interrupts and looks after the watchdog of    *)
(* SysconTick, which runs beside it.  A turn of the loop has three steps:  *)
(* a byte or none (Receive, Idle), the status word read once (ReadStatus), *)
(* and its use (Watch); T and M add steps of their own.                    *)
(*                                                                         *)
(* A line is a command and a number of bytes; what is left of a line whose *)
(* beginning was thrown away reads as junk or as a command made of hex     *)
(* digits (the A of RA, say).  A subbus cycle (pulse_rdwr) is one step:    *)
(* syscon always ends it.                                                  *)
(***************************************************************************)
EXTENDS SysconTick, Sequences, FiniteSets

CONSTANTS Boards,       \* bd_intrs, in the order of the table: a sequence
          Present,      \* the boards that are there and acknowledge
          RecvBufSize,  \* RECV_BUF_SIZE
          RcvTimeout,   \* CMD_RCV_TIMEOUT, in turns of the loop
          AddrMod,      \* subbus addresses are numbers modulo AddrMod (2^16)
          MaxCount,     \* the greatest count M accepts (50)
          MaxRanges,    \* bound: the ranges in one M command
          Hosts         \* the hosts: the commands (cmds) and line lengths (lens) of each

BoardSet == {Boards[i] : i \in DOMAIN Boards}

\* The command lines that parse_command tells apart.  Commands that only read
\* are all <<"R">>; <<"junk">> is a line that is no command.
Commands ==
  {<<"R">>, <<"NOP">>, <<"junk">>, <<"B">>, <<"A">>, <<"T">>, <<"M">>}
    \cup ({"F"} \X SUBSET {1, 2, 4, 8}) \cup ({"C", "S"} \X {0, 1}) \cup ({"i", "u"} \X BoardSet)

ASSUME SubbusAssumption ==
  /\ RecvBufSize \in Nat \ {0} /\ RcvTimeout \in Nat /\ AddrMod \in Nat \ {0}
  /\ MaxCount \in Nat /\ MaxRanges \in Nat \ {0}
  /\ \A h \in Hosts : h.cmds \subseteq Commands /\ h.lens \subseteq Nat

VARIABLES
  host,     \* the host at work
  line,     \* the line under way: its command, its bytes, those received
  pc,       \* where the loop is
  byteNum,  \* cmd_byte_num
  timer,    \* cmd_rcv_timer
  status,   \* subb_status: the timeout and interrupt bits last read
  fail,     \* the bits set in fail_reg
  active,   \* interrupts[].active
  intrEn,   \* IntrCtrl's IntrEn on each board
  ireq,     \* the boards' interrupt requests
  multi,    \* read_multi's variables
  said,     \* the last line sent to the host: a reply, an error, an interrupt
  settle,   \* clocks since the loop last wrote the control word, up to 2
  quiet,    \* history: clocks since the last T was obeyed
  consent   \* history: C1 was obeyed since a timeout last caught the commands enabled

loopVars == <<host, line, pc, byteNum, timer, status, fail, active, intrEn, ireq, multi, said>>
vars == <<ctrl, tickVars, loopVars, settle, quiet, consent>>

MaxQuiet == TwoSec + 4
NoMulti == [asked |-> 0, reads |-> 0, left |-> 0, count |-> 0, start |-> 0,
            addr |-> 0, incr |-> 0, end |-> 0, rep |-> 0]

\* What the rest of a line can read as: no command, the empty line, or hex
\* digits that are a command, when the host's arguments are such.
HexCommands == {<<"A">>, <<"B">>, <<"C", 1>>, <<"F", {1}>>}
Tails == {<<"junk">>, <<"NOP">>} \cup (HexCommands \cap host.cmds)

TypeOK ==
  /\ TickTypeOK
  /\ host \in Hosts
  /\ line \in [cmd: Commands, len: Nat, got: Nat] /\ line.got <= line.len
  /\ pc \in {"poll", "flush", "arming", "range", "loop", "status", "service", "watch"}
  /\ byteNum \in 0..RecvBufSize - 1 /\ timer \in 0..RcvTimeout
  /\ status \subseteq {"INTR", "TWOSECTO"} /\ fail \subseteq {1, 2, 4, 8}
  /\ active \in [BoardSet -> BOOLEAN] /\ intrEn \in [BoardSet -> BOOLEAN]
  /\ ireq \in [BoardSet -> BOOLEAN]
  /\ multi \in [asked: Nat, reads: Nat, left: Nat, count: Nat, start: Nat, addr: Nat,
                incr: Nat, end: Nat, rep: Nat]
  /\ settle \in 0..2 /\ quiet \in 0..MaxQuiet /\ consent \in BOOLEAN

Init ==
  /\ ctrl = {} /\ TickInit
  /\ host \in Hosts /\ line = [cmd |-> <<"NOP">>, len |-> 0, got |-> 0]
  /\ pc = "poll" /\ byteNum = 0 /\ timer = 0 /\ status = {} /\ fail = {}
  /\ active = [b \in BoardSet |-> FALSE] /\ intrEn = active /\ ireq = active
  /\ multi = NoMulti /\ said = <<"reply">>
  /\ settle = 2 /\ quiet = MaxQuiet /\ consent = FALSE

-------------------------------------------------------------------------------
(* The environment: the host's lines, the boards' requests, the clock.     *)

HostSends ==
  /\ line.got = line.len
  /\ \E c \in host.cmds, n \in host.lens :
       line' = [cmd |-> IF n <= RecvBufSize THEN c ELSE <<"junk">>, len |-> n, got |-> 0]
  /\ UNCHANGED <<ctrl, tickVars, host, pc, byteNum, timer, status, fail, active, intrEn,
                 ireq, multi, said, settle, quiet, consent>>

\* A board asks for service, or has been served.
Request(b) ==
  /\ ireq' = [ireq EXCEPT ![b] = ~@]
  /\ b \in Present /\ <<"i", b>> \in host.cmds
  /\ UNCHANGED <<ctrl, tickVars, host, line, pc, byteNum, timer, status, fail, active,
                 intrEn, multi, said, settle, quiet, consent>>

Tick ==
  /\ Clock
  /\ settle' = IF settle < 2 THEN settle + 1 ELSE 2
  /\ quiet' = IF quiet < MaxQuiet THEN quiet + 1 ELSE MaxQuiet
  /\ consent' = (consent /\ ~(Expire /\ "CE" \in ctrlInt))
  /\ UNCHANGED <<ctrl, loopVars>>

-------------------------------------------------------------------------------
(* parse_command: one operator per command.  Each says what it leaves as   *)
(* it is; all leave the clock, the host and the timer alone.               *)

Say(x) == said' = x
Reply == <<"reply">>
Error == <<"E">>
Same(v) == UNCHANGED v
\* XGpio_DiscreteWrite to the control word.
Put(c) == ctrl' = c /\ settle' = 0

\* R, W, f, V, D and the empty line change nothing (a W to a board's interrupt
\* register, which belongs to i and u, is not sent); an unknown command or a
\* wrong argument is answered by an error.
Query(c) ==
  /\ c[1] \in {"R", "NOP", "junk"} /\ pc' = "status"
  /\ Say(IF c[1] = "junk" THEN Error ELSE Reply)
  /\ Same(<<ctrl, settle, fail, active, intrEn, multi, quiet, consent>>)

SetFail(c) ==
  /\ c[1] = "F" /\ pc' = "status"
  /\ fail' = (fail \cap {2, 4}) \cup (c[2] \cap {1, 8})
  /\ Say(Reply) /\ Same(<<ctrl, settle, active, intrEn, multi, quiet, consent>>)

\* C and S: command enable and command strobe, on for a non-zero argument.
SetBit(c) ==
  /\ c[1] \in {"C", "S"} /\ pc' = "status"
  /\ LET bit == IF c[1] = "C" THEN "CE" ELSE "CS"
     IN Put(IF c[2] = 1 THEN ctrl \cup {bit} ELSE ctrl \ {bit})
  /\ consent' = (consent \/ c = <<"C", 1>>)
  /\ Say(Reply) /\ Same(<<fail, active, intrEn, multi, quiet>>)

\* Mutant: the table is cleared, and the boards are not reset.
Reset_KeepsBoards(c) ==
  /\ c[1] = "B" /\ pc' = "status" /\ Put({})
  /\ active' = [b \in BoardSet |-> FALSE]
  /\ Say(Reply) /\ Same(<<intrEn, fail, multi, quiet, consent>>)

\* B: subbus_reset's RST pulse clears every IntrEn; then init_interrupts.
Reset(c) ==
  /\ c[1] = "B" /\ pc' = "status" /\ Put({})
  /\ active' = [b \in BoardSet |-> FALSE] /\ intrEn' = [b \in BoardSet |-> FALSE]
  /\ Say(Reply) /\ Same(<<fail, multi, quiet, consent>>)

Disarm(c) ==
  /\ c[1] = "A" /\ pc' = "status" /\ Put(ctrl \ {"ARM", "CE"})
  /\ Say(Reply) /\ Same(<<fail, active, intrEn, multi, quiet, consent>>)

\* T toggles TICK and arms; it is not answered.  When it arms, the timeout is
\* polled until it is clear (Arming).
TickCmd(c) ==
  /\ c[1] = "T" /\ pc' = IF "ARM" \in ctrl THEN "status" ELSE "arming"
  /\ Put((IF "TICK" \in ctrl THEN ctrl \ {"TICK"} ELSE ctrl \cup {"TICK"}) \cup {"ARM"})
  /\ quiet' = 0 /\ Same(<<said, fail, active, intrEn, multi, consent>>)

\* A bus cycle reaches the boards that are there, and reports that it has.
Acknowledged(b) == b \in Present

\* intr_attach and intr_detach: the entry is set, then the board's enable bit
\* is written over the subbus, and reaches it if the board is there.
Attach(c) ==
  /\ c[1] = "i" /\ pc' = "status"
  /\ active' = [active EXCEPT ![c[2]] = TRUE]
  /\ intrEn' = [intrEn EXCEPT ![c[2]] = @ \/ Acknowledged(c[2])]
  /\ Say(IF Acknowledged(c[2]) THEN Reply ELSE Error)
  /\ Same(<<ctrl, settle, fail, multi, quiet, consent>>)
Detach(c) ==
  /\ c[1] = "u" /\ pc' = "status"
  /\ active' = [active EXCEPT ![c[2]] = FALSE]
  /\ intrEn' = [intrEn EXCEPT ![c[2]] = @ /\ ~Acknowledged(c[2])]
  /\ Say(IF Acknowledged(c[2]) THEN Reply ELSE Error)
  /\ Same(<<ctrl, settle, fail, multi, quiet, consent>>)

\* M<count>#<range>{,<range>}: read_multi begins.  A count above MaxCount is an error.
Multi(c) ==
  /\ c[1] = "M" /\ pc' = "range"
  /\ \E n \in 0..MaxCount, r \in 1..MaxRanges :
       multi' = [NoMulti EXCEPT !.asked = n, !.count = n, !.left = r]
  /\ Same(<<ctrl, settle, said, fail, active, intrEn, quiet, consent>>)

parse_command(c) ==
  \/ Query(c) \/ SetFail(c) \/ SetBit(c) \/ Reset(c) \/ Disarm(c) \/ TickCmd(c)
  \/ Attach(c) \/ Detach(c) \/ Multi(c)

-------------------------------------------------------------------------------
(* read_multi, range by range and address by address.                      *)

multiRest == <<ctrl, tickVars, host, line, byteNum, timer, status, fail, active, intrEn,
               ireq, settle, quiet, consent>>

\* <addr>:<incr>:<addr>, <count>@<addr> or <addr>.
RangeArgs(a, i, e, r) ==
  multi' = [multi EXCEPT !.start = a, !.addr = a, !.incr = i, !.end = e, !.rep = r]

Range ==
  /\ pc = "range"
  /\ \/ \E a, e \in 0..AddrMod - 1, i \in 0..AddrMod \div 2 - 1 :
          RangeArgs(a, i, e, multi.count) /\ pc' = "loop" /\ UNCHANGED said
     \/ \E a \in 0..AddrMod - 1, r \in 0..multi.count :
          RangeArgs(a, 0, a, r) /\ pc' = "loop" /\ UNCHANGED said
     \/ \E a \in 0..AddrMod - 1 :
          RangeArgs(a, 0, a, 1) /\ pc' = "loop" /\ UNCHANGED said
     \/ Say(Error) /\ multi' = NoMulti /\ pc' = "status"
  /\ UNCHANGED multiRest

\* The for loop's condition, and its end after `count' reads in all.
InRange == multi.addr >= multi.start /\ multi.addr <= multi.end /\ multi.rep > 0

\* Mutant: the limit on the reads in all is not tested.
Spent_Never == FALSE
Spent == multi.count = 0
ReadOne ==
  /\ pc = "loop" /\ InRange
  /\ IF Spent
     THEN Say(Error) /\ multi' = NoMulti /\ pc' = "status"
     ELSE /\ multi' = [multi EXCEPT !.reads = @ + 1, !.count = @ - 1, !.rep = @ - 1,
                                    !.addr = (@ + multi.incr) % AddrMod]
          /\ UNCHANGED <<said, pc>>
  /\ UNCHANGED multiRest

\* A comma leads to the next range, a newline ends the answer, all else is an error.
RangeDone ==
  /\ pc = "loop" /\ ~InRange
  /\ IF multi.left > 1
     THEN multi' = [multi EXCEPT !.left = @ - 1] /\ pc' = "range" /\ UNCHANGED said
     ELSE multi' = NoMulti /\ pc' = "status" /\ (Say(Reply) \/ Say(Error))
  /\ UNCHANGED multiRest

-------------------------------------------------------------------------------
(* main.                                                                   *)

mainRest == <<tickVars, host, ireq, status>>

Full == byteNum + 1 >= RecvBufSize

\* A byte is there.  The newline that ends a line whose bytes are all in cmd[]
\* completes its command; the rest of a line completes some tail.  (A line that fills
\* cmd[] has its terminating zero stored one byte past it, which is left out.)
Receive ==
  /\ pc = "poll" /\ line.got < line.len
  /\ line' = [line EXCEPT !.got = @ + 1]
  /\ IF line'.got = line.len
     THEN /\ byteNum' = 0
          /\ \E c \in IF byteNum + 1 = line.len THEN {line.cmd} ELSE Tails : parse_command(c)
     ELSE /\ IF Full
             THEN Say(Error) /\ byteNum' = 0 /\ pc' = "flush"
             ELSE byteNum' = byteNum + 1 /\ pc' = "status" /\ UNCHANGED said
          /\ Same(<<ctrl, settle, fail, active, intrEn, multi, quiet, consent>>)
  /\ UNCHANGED <<mainRest, timer>>

\* After an overlong line, bytes are thrown away up to the newline, or until
\* none is there.
Flush ==
  /\ pc = "flush"
  /\ \/ /\ line.got < line.len /\ line' = [line EXCEPT !.got = @ + 1]
        /\ pc' = IF line'.got = line.len THEN "status" ELSE "flush"
     \/ pc' = "status" /\ UNCHANGED line
  /\ UNCHANGED <<mainRest, ctrl, byteNum, timer, fail, active, intrEn, multi, said, settle,
                 quiet, consent>>

\* No byte is there: with a command begun the timer, which nothing resets,
\* counts; past the limit the bytes received are dropped with error 2.
TimedOut == timer + 1 > RcvTimeout
Idle ==
  /\ pc = "poll" /\ pc' = "status"
  /\ IF byteNum > 0
     THEN /\ timer' = IF TimedOut THEN timer ELSE timer + 1
          /\ IF TimedOut THEN Say(Error) /\ byteNum' = 0 ELSE UNCHANGED <<said, byteNum>>
     ELSE UNCHANGED <<timer, said, byteNum>>
  /\ UNCHANGED <<mainRest, ctrl, line, fail, active, intrEn, multi, settle, quiet, consent>>

\* T armed: up to 20 reads of the status, which take the two clocks the
\* timeout needs to clear; if it has not cleared, the diagnostic lamp is lit.
Arming ==
  /\ pc = "arming" /\ pc' = "status"
  /\ \/ ~twoSecTO /\ UNCHANGED fail
     \/ twoSecTO /\ settle = 2 /\ fail' = fail \cup {2}
  /\ UNCHANGED <<mainRest, ctrl, line, byteNum, timer, active, intrEn, multi, said, settle,
                 quiet, consent>>

\* The status is read once a turn, at least a clock after the last write.
Pending == {i \in DOMAIN Boards : intrEn[Boards[i]] /\ ireq[Boards[i]]}
ReadStatus ==
  /\ pc = "status" /\ settle >= 1
  /\ status' = {s \in {"INTR", "TWOSECTO"} :
                  IF s = "INTR" THEN Pending # {} ELSE twoSecTO}
  /\ pc' = IF Pending # {} THEN "service" ELSE "watch"
  /\ UNCHANGED <<ctrl, tickVars, host, line, byteNum, timer, fail, active, intrEn, ireq,
                 multi, said, settle, quiet, consent>>

First(S) == CHOOSE i \in S : \A j \in S : i <= j

\* intr_service reads the requests afresh (syscon always acknowledges that)
\* and reports the first that has an active entry.
intr_service ==
  /\ pc = "service" /\ pc' = "watch"
  /\ LET served == {i \in Pending : active[Boards[i]]}
     IN IF served = {} THEN UNCHANGED said
        ELSE Say(<<"I", Boards[First(served)]>>)
  /\ UNCHANGED <<mainRest, ctrl, line, byteNum, timer, fail, active, intrEn, multi, settle,
                 quiet, consent>>

\* Mutant: only the watchdog is disarmed.
Revoked_ArmOnly == {"ARM"}
Revoked == {"ARM", "CE"}

\* The timeout read before the interrupts were served disarms the watchdog
\* and takes the commands away.
Watch ==
  /\ pc = "watch" /\ pc' = "poll"
  /\ IF "TWOSECTO" \in status /\ "ARM" \in ctrl
     THEN Put(ctrl \ Revoked) /\ fail' = fail \cup {4}
     ELSE UNCHANGED <<ctrl, settle, fail>>
  /\ UNCHANGED <<mainRest, line, byteNum, timer, active, intrEn, multi, said, quiet, consent>>

main == \/ Receive \/ Flush \/ Idle \/ Arming \/ Range \/ ReadOne \/ RangeDone
        \/ ReadStatus \/ intr_service \/ Watch

Next == HostSends \/ Tick \/ (\E b \in BoardSet : Request(b)) \/ main

\* The loop and the clock run for ever; the host and the boards may be silent.
Spec == Init /\ [][Next]_vars /\ WF_vars(main) /\ WF_vars(Tick)

-------------------------------------------------------------------------------
(* Properties.                                                             *)

\* The command outputs are live only within two seconds (and the registers'
\* three clocks) of the last T: of the firmware's bits and the watchdog's,
\* none can hold them on for a host that has stopped ticking.
CommandsWatched == cmdEnbl => quiet <= TwoSec + 3

\* After a two-second timeout that caught the commands enabled they come on
\* again only for a host that has sent C1 since, whatever raced with it.
NoSilentRestart == [][cmdEnbl' /\ ~cmdEnbl => consent]_vars

\* A board whose interrupt is enabled has an active entry: every request that
\* reaches the status has somebody to be reported to.
OwnersKnown == \A b \in BoardSet : intrEn[b] => active[b]

\* An M command reads at most as often as its count allows, over all its
\* ranges, whatever their increments wrap to.
MultiBounded == multi.reads <= multi.asked

\* A timeout that catches the commands enabled is noticed: they are taken
\* away and the operator must enable them again.
Noticed == twoSecTO /\ {"ARM", "CE"} \subseteq ctrl ~> "CE" \notin ctrl \/ ~twoSecTO

===============================================================================
