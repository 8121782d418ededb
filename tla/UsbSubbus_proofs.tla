---------------------------- MODULE UsbSubbus_proofs ----------------------------
(* Proofs about UsbSubbus, for any boards, hosts, buffer sizes and time-outs.  *)
EXTENDS UsbSubbus, TLAPS

-----------------------------------------------------------------------------
(* Type correctness *)

\* What the rest of a line reads as is a command line too.
LEMMA TailsAreCommands == ASSUME host \in Hosts PROVE Tails \subseteq Commands
  BY SubbusAssumption DEF Tails, HexCommands, Commands

\* The watchdog's registers keep their types: in particular its count stops
\* once two minutes have passed.
LEMMA ClockType ==
  ASSUME TickTypeOK, Clock, ctrl' \subseteq CtrlBits
  PROVE  TickTypeOK'
<1> USE DEF TickTypeOK
<1>1. ctrlInt' \subseteq CtrlBits
  BY DEF Clock
<1>2. /\ ticked' \in BOOLEAN /\ twoSecTO' \in BOOLEAN /\ tickEnbl' \in BOOLEAN
      /\ armed' \in BOOLEAN /\ cmdEnbl' \in BOOLEAN /\ twoMinTO' \in BOOLEAN
  BY DEF Clock, Accept, Expire, Counting, TickEnblNext, CmdEnblNext
<1>3. tickCnt' \in 0..TwoMin + 1 /\ (tickCnt' > TwoMin => twoMinTO')
  <2>1. CASE Accept
    BY <2>1, TimesAssumption DEF Clock
  <2>2. CASE ~Accept /\ twoMinTO
    BY <2>2, TimesAssumption DEF Clock, Counting
  <2>3. CASE ~Accept /\ ~twoMinTO
    <3>1. tickCnt' = tickCnt + 1 /\ tickCnt \in 0..TwoMin
      BY <2>3, TimesAssumption DEF Clock, Counting
    <3>2. tickCnt + 1 \in 0..TwoMin + 1 /\ (tickCnt + 1 > TwoMin => tickCnt = TwoMin)
      BY <3>1, TimesAssumption
    <3>3. tickCnt = TwoMin => twoMinTO'
      BY <2>3, TimesAssumption DEF Clock, Expire
    <3> QED
      BY <3>1, <3>2, <3>3
  <2> QED
    BY <2>1, <2>2, <2>3
<1> QED
  BY <1>1, <1>2, <1>3

\* The variables that only the main loop changes, in groups.
LoopTypes ==
  /\ host \in Hosts
  /\ line \in [cmd: Commands, len: Nat, got: Nat] /\ line.got <= line.len
  /\ byteNum \in 0..RecvBufSize - 1 /\ timer \in 0..RcvTimeout
  /\ status \subseteq {"INTR", "TWOSECTO"}
PcTypes == pc \in {"poll", "flush", "arming", "range", "loop", "status", "service", "watch"}
WordTypes ==
  /\ ctrl \subseteq CtrlBits /\ settle \in 0..2
  /\ quiet \in 0..MaxQuiet /\ consent \in BOOLEAN
BoardTypes ==
  /\ active \in [BoardSet -> BOOLEAN] /\ intrEn \in [BoardSet -> BOOLEAN]
  /\ fail \subseteq {1, 2, 4, 8}
MultiTypes ==
  multi \in [asked: Nat, reads: Nat, left: Nat, count: Nat, start: Nat, addr: Nat,
             incr: Nat, end: Nat, rep: Nat]

\* Every command line keeps the types of what it changes.
LEMMA CommandType ==
  ASSUME TypeOK, NEW c \in Commands, parse_command(c)
  PROVE  PcTypes' /\ WordTypes' /\ BoardTypes' /\ MultiTypes'
<1> USE DEF TypeOK, TickTypeOK, PcTypes, WordTypes, BoardTypes, MultiTypes, Same
<1>1. CASE Query(c)
  BY <1>1 DEF Query
<1>2. CASE SetFail(c)
  BY <1>2 DEF SetFail
<1>3. CASE SetBit(c)
  BY <1>3 DEF SetBit, Put, CtrlBits
<1>4. CASE Reset(c)
  BY <1>4 DEF Reset, Put, CtrlBits
<1>5. CASE Disarm(c)
  BY <1>5 DEF Disarm, Put, CtrlBits
<1>6. CASE TickCmd(c)
  <2>1. quiet' \in 0..MaxQuiet
    BY <1>6, TimesAssumption DEF TickCmd, MaxQuiet
  <2> QED
    BY <1>6, <2>1 DEF TickCmd, Put, CtrlBits
<1>7. CASE Attach(c)
  BY <1>7 DEF Attach, Acknowledged
<1>8. CASE Detach(c)
  BY <1>8 DEF Detach, Acknowledged
<1>9. CASE Multi(c)
  <2>1. PICK n \in 0..MaxCount, r \in 1..MaxRanges :
          multi' = [NoMulti EXCEPT !.asked = n, !.count = n, !.left = r]
    BY <1>9 DEF Multi
  <2>2. n \in Nat /\ r \in Nat
    BY SubbusAssumption
  <2>3. MultiTypes'
    BY <2>1, <2>2 DEF NoMulti
  <2> QED
    BY <1>9, <2>3 DEF Multi
<1> QED
  BY <1>1, <1>2, <1>3, <1>4, <1>5, <1>6, <1>7, <1>8, <1>9 DEF parse_command

\* The types hold when main starts, with the watchdog timed out.
LEMMA InitType == Init => TypeOK
<1> SUFFICES ASSUME Init PROVE TypeOK
  OBVIOUS
<1>1. TickTypeOK
  <2>1. 0 \in 0..TwoMin + 1 /\ ~(0 > TwoMin)
    BY TimesAssumption
  <2> QED
    BY <2>1 DEF Init, TickInit, TickTypeOK
<1>2. line \in [cmd: Commands, len: Nat, got: Nat] /\ line.got <= line.len
  BY DEF Init, Commands
<1>3. byteNum \in 0..RecvBufSize - 1 /\ timer \in 0..RcvTimeout
  BY SubbusAssumption DEF Init
<1>4. quiet \in 0..MaxQuiet
  BY TimesAssumption DEF Init, MaxQuiet
<1>5. /\ active \in [BoardSet -> BOOLEAN] /\ intrEn \in [BoardSet -> BOOLEAN]
      /\ ireq \in [BoardSet -> BOOLEAN]
  BY DEF Init
<1>6. MultiTypes
  BY DEF Init, NoMulti, MultiTypes
<1>7. /\ host \in Hosts /\ status \subseteq {"INTR", "TWOSECTO"}
      /\ fail \subseteq {1, 2, 4, 8} /\ settle \in 0..2
  BY DEF Init
<1>8. PcTypes /\ consent \in BOOLEAN
  BY DEF Init, PcTypes
<1> QED
  BY <1>1, <1>2, <1>3, <1>4, <1>5, <1>6, <1>7, <1>8 DEF TypeOK, MultiTypes, PcTypes

\* Every action keeps every type.
LEMMA TypeStep == ASSUME TypeOK, [Next]_vars PROVE TypeOK'
<1> USE DEF TypeOK, TickTypeOK
<1>1. CASE HostSends
  <2>1. PICK c \in host.cmds, n \in host.lens :
          line' = [cmd |-> IF n <= RecvBufSize THEN c ELSE <<"junk">>, len |-> n, got |-> 0]
    BY <1>1 DEF HostSends
  <2>2. c \in Commands /\ n \in Nat /\ <<"junk">> \in Commands
    BY SubbusAssumption DEF Commands
  <2>3. line' \in [cmd: Commands, len: Nat, got: Nat] /\ line'.got <= line'.len
    BY <2>1, <2>2
  <2> QED
    BY <1>1, <2>3 DEF HostSends, tickVars
<1>2. ASSUME NEW b \in BoardSet, Request(b) PROVE TypeOK'
  BY <1>2 DEF Request, tickVars
<1>3. CASE Tick
  <2>1. TickTypeOK'
    BY <1>3, ClockType DEF Tick
  <2>2. settle' \in 0..2 /\ quiet' \in 0..MaxQuiet /\ consent' \in BOOLEAN
    BY <1>3, TimesAssumption DEF Tick, MaxQuiet
  <2> QED
    BY <1>3, <2>1, <2>2 DEF Tick, loopVars
<1>4. CASE Receive
  <2>1. line' = [line EXCEPT !.got = @ + 1] /\ line.got < line.len
    BY <1>4 DEF Receive
  <2>2. line' \in [cmd: Commands, len: Nat, got: Nat] /\ line'.got <= line'.len
    BY <2>1
  <2>3. byteNum' \in 0..RecvBufSize - 1
    BY <1>4, SubbusAssumption DEF Receive, Full
  <2>4. /\ pc' \in {"poll", "flush", "arming", "range", "loop", "status", "service", "watch"}
        /\ ctrl' \subseteq CtrlBits /\ settle' \in 0..2
        /\ quiet' \in 0..MaxQuiet /\ consent' \in BOOLEAN
        /\ active' \in [BoardSet -> BOOLEAN] /\ intrEn' \in [BoardSet -> BOOLEAN]
        /\ fail' \subseteq {1, 2, 4, 8} /\ MultiTypes'
    <3>1. CASE line'.got = line.len
      <4>1. PICK c \in Commands : parse_command(c)
        BY <1>4, <3>1, TailsAreCommands DEF Receive
      <4> QED
        BY <4>1, CommandType DEF PcTypes, WordTypes, BoardTypes
    <3>2. CASE line'.got # line.len
      BY <1>4, <3>2 DEF Receive, Same, MultiTypes
    <3> QED
      BY <3>1, <3>2
  <2> QED
    BY <1>4, <2>2, <2>3, <2>4 DEF Receive, mainRest, tickVars, MultiTypes
<1>5. CASE Flush
  <2>1. line' \in [cmd: Commands, len: Nat, got: Nat] /\ line'.got <= line'.len
    BY <1>5 DEF Flush
  <2> QED
    BY <1>5, <2>1 DEF Flush, mainRest, tickVars
<1>6. CASE Idle
  <2>1. timer' \in 0..RcvTimeout /\ byteNum' \in 0..RecvBufSize - 1
    BY <1>6, SubbusAssumption DEF Idle, TimedOut
  <2> QED
    BY <1>6, <2>1 DEF Idle, mainRest, tickVars
<1>7. CASE Arming
  BY <1>7 DEF Arming, mainRest, tickVars
<1>8. CASE Range
  <2>1. MultiTypes'
    <3>1. MultiTypes
      BY DEF MultiTypes
    <3>2. ASSUME NEW a \in Nat, NEW i \in Nat, NEW e \in Nat, NEW r \in Nat,
                 RangeArgs(a, i, e, r)
          PROVE  MultiTypes'
      BY <3>1, <3>2 DEF MultiTypes, RangeArgs
    <3>3. CASE \E a, e \in 0..AddrMod - 1, i \in 0..AddrMod \div 2 - 1 :
                 RangeArgs(a, i, e, multi.count)
      <4>1. PICK a \in 0..AddrMod - 1, e \in 0..AddrMod - 1, i \in 0..AddrMod \div 2 - 1 :
              RangeArgs(a, i, e, multi.count)
        BY <3>3
      <4>2. a \in Nat /\ e \in Nat /\ i \in Nat /\ multi.count \in Nat
        OBVIOUS
      <4> QED
        BY <3>2, <4>1, <4>2
    <3>4. CASE \E a \in 0..AddrMod - 1, r \in 0..multi.count : RangeArgs(a, 0, a, r)
      BY <3>2, <3>4
    <3>5. CASE \E a \in 0..AddrMod - 1 : RangeArgs(a, 0, a, 1)
      BY <3>2, <3>5
    <3>6. CASE multi' = NoMulti
      BY <3>6 DEF MultiTypes, NoMulti
    <3> QED
      BY <1>8, <3>3, <3>4, <3>5, <3>6 DEF Range
  <2> QED
    BY <1>8, <2>1 DEF Range, multiRest, MultiTypes, tickVars
<1>9. CASE ReadOne
  <2>1. (multi.addr + multi.incr) % AddrMod \in Nat
    BY SubbusAssumption
  <2>2. MultiTypes'
    <3>1. CASE Spent
      BY <1>9, <3>1 DEF ReadOne, MultiTypes, NoMulti
    <3>2. CASE ~Spent
      <4>1. multi.rep > 0 /\ multi.count # 0
        BY <1>9, <3>2 DEF ReadOne, InRange, Spent
      <4>2. multi.reads + 1 \in Nat /\ multi.count - 1 \in Nat /\ multi.rep - 1 \in Nat
        BY <4>1
      <4>3. multi' = [multi EXCEPT !.reads = multi.reads + 1, !.count = multi.count - 1,
                        !.rep = multi.rep - 1, !.addr = (multi.addr + multi.incr) % AddrMod]
        BY <1>9, <3>2 DEF ReadOne
      <4> QED
        BY <2>1, <4>2, <4>3 DEF MultiTypes
    <3> QED
      BY <3>1, <3>2
  <2> QED
    BY <1>9, <2>2 DEF ReadOne, multiRest, MultiTypes, tickVars
<1>10. CASE RangeDone
  <2>1. MultiTypes'
    BY <1>10 DEF RangeDone, MultiTypes, NoMulti
  <2> QED
    BY <1>10, <2>1 DEF RangeDone, multiRest, MultiTypes, tickVars
<1>11. CASE ReadStatus
  BY <1>11 DEF ReadStatus, tickVars
<1>12. CASE intr_service
  BY <1>12 DEF intr_service, mainRest, tickVars
<1>13. CASE Watch
  <2>1. CASE "TWOSECTO" \in status /\ "ARM" \in ctrl
    <3>1. ctrl' \subseteq CtrlBits /\ settle' \in 0..2 /\ fail' \subseteq {1, 2, 4, 8}
      <4>1. ctrl' = ctrl \ Revoked /\ settle' = 0 /\ fail' = fail \cup {4}
        BY <1>13, <2>1 DEF Watch, Put
      <4> QED
        BY <4>1
    <3> QED
      BY <1>13, <3>1 DEF Watch, mainRest, tickVars
  <2>2. CASE ~("TWOSECTO" \in status /\ "ARM" \in ctrl)
    BY <1>13, <2>2 DEF Watch, mainRest, tickVars
  <2> QED
    BY <2>1, <2>2
<1>14. CASE UNCHANGED vars
  BY <1>14 DEF vars, loopVars, tickVars
<1> QED
  BY <1>1, <1>2, <1>3, <1>4, <1>5, <1>6, <1>7, <1>8, <1>9, <1>10, <1>11, <1>12, <1>13,
     <1>14 DEF Next, main

\* Every variable of the server and of the watchdog keeps its type.
THEOREM Typing == Spec => []TypeOK
  BY InitType, TypeStep, PTL DEF Spec

-----------------------------------------------------------------------------
(* Interrupts *)

\* OwnersKnown in inductive form: a board that is not there cannot be enabled,
\* so that a detach that it does not acknowledge leaves nothing behind.
BoardInv == \A b \in BoardSet : intrEn[b] => active[b] /\ b \in Present

\* Attach, detach and reset keep each board's enable bit within the table.
LEMMA CommandBoards ==
  ASSUME TypeOK, BoardInv, NEW c \in Commands, parse_command(c)
  PROVE  BoardInv'
<1> USE DEF BoardInv, TypeOK, Same
<1>1. CASE Attach(c)
  <2> SUFFICES ASSUME NEW b \in BoardSet, intrEn'[b] PROVE active'[b] /\ b \in Present
    OBVIOUS
  <2>1. CASE b = c[2]
    BY <1>1, <2>1 DEF Attach, Acknowledged
  <2>2. CASE b # c[2]
    BY <1>1, <2>2 DEF Attach
  <2> QED
    BY <2>1, <2>2
<1>2. CASE Detach(c)
  <2> SUFFICES ASSUME NEW b \in BoardSet, intrEn'[b] PROVE active'[b] /\ b \in Present
    OBVIOUS
  <2>1. CASE b = c[2]
    BY <1>2, <2>1 DEF Detach, Acknowledged
  <2>2. CASE b # c[2]
    BY <1>2, <2>2 DEF Detach
  <2> QED
    BY <2>1, <2>2
<1>3. CASE Reset(c)
  BY <1>3 DEF Reset
<1>4. CASE Query(c) \/ SetFail(c) \/ SetBit(c) \/ Disarm(c) \/ TickCmd(c) \/ Multi(c)
  BY <1>4 DEF Query, SetFail, SetBit, Disarm, TickCmd, Multi
<1> QED
  BY <1>1, <1>2, <1>3, <1>4 DEF parse_command

\* Nothing but a command touches the table or the boards' enable bits.
LEMMA BoardStep == ASSUME TypeOK, BoardInv, [Next]_vars PROVE BoardInv'
<1>1. CASE Receive
  <2>1. CASE line'.got = line.len
    <3>1. PICK c \in Commands : parse_command(c)
      <4>1. line.cmd \in Commands /\ Tails \subseteq Commands
        BY TailsAreCommands DEF TypeOK
      <4> QED
        BY <1>1, <2>1, <4>1 DEF Receive
    <3> QED
      BY <3>1, CommandBoards
  <2>2. CASE line'.got # line.len
    BY <1>1, <2>2 DEF Receive, BoardInv, Same
  <2> QED
    BY <2>1, <2>2
<1>2. ASSUME [Next]_vars, ~Receive PROVE active' = active /\ intrEn' = intrEn
  BY <1>2 DEF Next, main, vars, loopVars, HostSends, Request, Tick, Flush, Idle, Arming,
     Range, ReadOne, RangeDone, multiRest, ReadStatus, intr_service, Watch
<1> QED
  BY <1>1, <1>2 DEF BoardInv

\* A board whose interrupt is enabled always has an active entry in the table.
THEOREM EnabledHaveOwners == Spec => []OwnersKnown
<1>1. Init => BoardInv
  BY DEF Init, BoardInv
<1>2. BoardInv => OwnersKnown
  BY DEF BoardInv, OwnersKnown
<1> QED
  BY InitType, TypeStep, BoardStep, <1>1, <1>2, PTL DEF Spec

-----------------------------------------------------------------------------
(* Reading many *)

\* What has been read and what may still be read make up what was asked for.
MultiInv == multi.reads + multi.count = multi.asked

\* Each read is paid for by one of the count, whichever range it belongs to.
LEMMA MultiStep == ASSUME TypeOK, MultiInv, [Next]_vars PROVE MultiInv'
<1> USE DEF MultiInv
<1>0. MultiTypes
  BY DEF TypeOK, MultiTypes
<1>1. ASSUME NEW c, parse_command(c) PROVE MultiInv'
  <2>1. CASE Multi(c)
    <3>1. PICK n \in 0..MaxCount, r \in 1..MaxRanges :
            multi' = [NoMulti EXCEPT !.asked = n, !.count = n, !.left = r]
      BY <2>1 DEF Multi
    <3> QED
      BY <3>1, SubbusAssumption DEF NoMulti
  <2>2. CASE ~Multi(c)
    BY <1>1, <2>2 DEF parse_command, Query, SetFail, SetBit, Reset, Disarm, TickCmd, Attach,
       Detach, Same
  <2> QED
    BY <2>1, <2>2
<1>2. CASE Receive
  BY <1>1, <1>2 DEF Receive, Same
<1>3. CASE Range
  <2>1. (\E a, i, e, r : RangeArgs(a, i, e, r)) \/ multi' = NoMulti
    BY <1>3 DEF Range
  <2>2. ASSUME NEW a, NEW i, NEW e, NEW r, RangeArgs(a, i, e, r) PROVE MultiInv'
    BY <1>0, <2>2 DEF RangeArgs, MultiTypes
  <2> QED
    BY <2>1, <2>2 DEF NoMulti
<1>4. CASE ReadOne
  <2>1. CASE Spent
    BY <1>4, <2>1 DEF ReadOne, NoMulti
  <2>2. CASE ~Spent
    <3>1. multi'.reads = multi.reads + 1 /\ multi'.count = multi.count - 1
          /\ multi'.asked = multi.asked
      BY <1>0, <1>4, <2>2 DEF ReadOne, MultiTypes
    <3>2. \A m, n, k \in Nat : m + n = k => (m + 1) + (n - 1) = k
      OBVIOUS
    <3> QED
      BY <1>0, <3>1, <3>2 DEF MultiTypes
  <2> QED
    BY <2>1, <2>2
<1>5. CASE RangeDone
  BY <1>0, <1>5 DEF RangeDone, NoMulti, MultiTypes
<1>6. ASSUME [Next]_vars, ~Receive, ~Range, ~ReadOne, ~RangeDone PROVE multi' = multi
  BY <1>6 DEF Next, main, vars, loopVars, HostSends, Request, Tick, Flush, Idle, Arming,
     ReadStatus, intr_service, Watch
<1> QED
  BY <1>2, <1>3, <1>4, <1>5, <1>6

\* An M command never reads more often than its count allows.
THEOREM ReadsBounded == Spec => []MultiBounded
<1>1. Init => MultiInv
  BY DEF Init, MultiInv, NoMulti
<1>2. TypeOK /\ MultiInv => MultiBounded
  BY DEF TypeOK, MultiInv, MultiBounded
<1> QED
  BY InitType, TypeStep, MultiStep, <1>1, <1>2, PTL DEF Spec

-----------------------------------------------------------------------------
(* The watchdog *)

\* What a turn of the loop may do to the control word: C1 alone sets CE, T
\* alone sets ARM or changes TICK, and both leave their mark in the history.
LoopWrites ==
  /\ consent => consent'
  /\ "CE" \in ctrl' => "CE" \in ctrl \/ consent'
  /\ \/ quiet' = 0
     \/ quiet' = quiet /\ ("ARM" \in ctrl' =>
                             "ARM" \in ctrl /\ ("TICK" \in ctrl' <=> "TICK" \in ctrl))

\* Every command writes the control word in this way.
LEMMA CommandWrites ==
  ASSUME TypeOK, NEW c \in Commands, parse_command(c)
  PROVE  LoopWrites
<1> USE DEF LoopWrites, Same
<1>1. CASE SetBit(c)
  <2>1. c[1] = "C" /\ c[2] = 1 => c = <<"C", 1>>
    BY <1>1 DEF Commands, SetBit
  <2>2. c[1] = "C" /\ c[2] # 1 => "CE" \notin ctrl'
    BY <1>1 DEF SetBit, Put
  <2>3. c[1] # "C" => ("CE" \in ctrl' => "CE" \in ctrl)
    BY <1>1 DEF SetBit, Put
  <2>4. ("ARM" \in ctrl' <=> "ARM" \in ctrl) /\ ("TICK" \in ctrl' <=> "TICK" \in ctrl)
    BY <1>1 DEF SetBit, Put
  <2>5. quiet' = quiet /\ (consent' <=> consent \/ c = <<"C", 1>>)
    BY <1>1 DEF SetBit
  <2> QED
    BY <2>1, <2>2, <2>3, <2>4, <2>5
<1>2. CASE Reset(c)
  BY <1>2 DEF Reset, Put
<1>3. CASE Disarm(c)
  BY <1>3 DEF Disarm, Put
<1>4. CASE TickCmd(c)
  BY <1>4 DEF TickCmd, Put
<1>5. CASE Query(c) \/ SetFail(c) \/ Attach(c) \/ Detach(c) \/ Multi(c)
  <2>1. ctrl' = ctrl /\ quiet' = quiet /\ consent' = consent
    BY <1>5 DEF Query, SetFail, Attach, Detach, Multi
  <2> QED
    BY <2>1
<1> QED
  BY <1>1, <1>2, <1>3, <1>4, <1>5 DEF parse_command

\* A step is a clock of the watchdog, or leaves it alone and writes in this way.
LEMMA NextWrites ==
  ASSUME TypeOK, [Next]_vars
  PROVE  Tick \/ (UNCHANGED tickVars /\ LoopWrites)
<1>1. CASE Receive
  <2>1. UNCHANGED tickVars
    BY <1>1 DEF Receive, mainRest
  <2>2. CASE line'.got = line.len
    <3>1. PICK c \in Commands : parse_command(c)
      <4>1. line.cmd \in Commands /\ Tails \subseteq Commands
        BY TailsAreCommands DEF TypeOK
      <4> QED
        BY <1>1, <2>2, <4>1 DEF Receive
    <3> QED
      BY <2>1, <3>1, CommandWrites
  <2>3. CASE line'.got # line.len
    BY <1>1, <2>1, <2>3 DEF Receive, Same, LoopWrites
  <2> QED
    BY <2>2, <2>3
<1>2. CASE Watch
  <2>1. UNCHANGED tickVars /\ quiet' = quiet /\ consent' = consent
        /\ (ctrl' = ctrl \/ ctrl' = ctrl \ {"ARM", "CE"})
    BY <1>2 DEF Watch, mainRest, Put, Revoked
  <2> QED
    BY <2>1 DEF LoopWrites
<1>3. ASSUME [Next]_vars, ~Tick, ~Receive, ~Watch
      PROVE  UNCHANGED tickVars /\ ctrl' = ctrl /\ quiet' = quiet /\ consent' = consent
  BY <1>3 DEF Next, main, vars, HostSends, Request, Flush, Idle, Arming, Range, ReadOne,
     RangeDone, multiRest, ReadStatus, intr_service, mainRest
<1> QED
  BY <1>1, <1>2, <1>3 DEF LoopWrites

\* A change of TICK under way is younger than the clocks it has passed, and
\* the count of an armed watchdog than the last T by no more than two.
TickInv ==
  /\ "ARM" \in ctrl /\ ~("TICK" \in ctrl <=> "TICK" \in ctrlInt) => quiet = 0
  /\ "ARM" \in ctrlInt /\ ~("TICK" \in ctrlInt <=> ticked) => quiet <= 1
  /\ armed => ~twoMinTO /\ tickCnt <= TwoSec /\ quiet <= tickCnt + 2
  /\ cmdEnbl => quiet <= TwoSec + 3

\* The watchdog and the loop keep it: a clock adds one to each side.
LEMMA TickStep == ASSUME TypeOK, TickInv, [Next]_vars PROVE TickInv'
<1>1. CASE UNCHANGED tickVars /\ LoopWrites
  <2>1. quiet' = 0 \/ quiet' = quiet
    BY <1>1 DEF LoopWrites
  <2>2. TwoSec \in Nat /\ tickCnt \in Nat
    BY TimesAssumption DEF TypeOK, TickTypeOK
  <2>3. CASE quiet' = 0
    <3>1. 0 <= 1 /\ 0 <= tickCnt + 2 /\ 0 <= TwoSec + 3
      BY <2>2
    <3> QED
      BY <1>1, <2>3, <3>1 DEF TickInv, tickVars
  <2>4. CASE quiet' = quiet /\ quiet' # 0
    BY <1>1, <2>4 DEF TickInv, tickVars, LoopWrites
  <2> QED
    BY <2>1, <2>3, <2>4
<1>2. CASE Tick
  <2>0. /\ quiet \in Nat /\ tickCnt \in Nat /\ TwoSec \in Nat /\ TwoMin \in Nat /\ TwoSec < TwoMin
        /\ quiet' = (IF quiet < TwoSec + 4 THEN quiet + 1 ELSE TwoSec + 4)
        /\ ctrl' = ctrl /\ Clock
    BY <1>2, TimesAssumption DEF Tick, TypeOK, TickTypeOK, MaxQuiet
  <2>1. \A n \in Nat : quiet <= n => quiet' <= n + 1
    BY <2>0
  <2>2. ctrlInt' = ctrl /\ (ticked' <=> "TICK" \in ctrlInt)
    BY <2>0 DEF Clock
  <2>3. "ARM" \in ctrlInt' /\ ~("TICK" \in ctrlInt' <=> ticked') => quiet' <= 1
    <3>1. quiet = 0 => quiet' <= 0 + 1
      BY <2>0
    <3> QED
      BY <2>2, <3>1 DEF TickInv
  <2>4. armed' => ~twoMinTO' /\ tickCnt' <= TwoSec /\ quiet' <= tickCnt' + 2
    <3>1. CASE Accept
      <4>1. tickCnt' = 0 /\ ~twoMinTO'
        BY <2>0, <3>1 DEF Clock
      <4>2. quiet <= 1
        BY <3>1 DEF Accept, TickInv, TypeOK, TickTypeOK
      <4>3. quiet' <= 1 + 1
        BY <2>1, <4>2
      <4>4. 0 <= TwoSec /\ 0 + 2 = 1 + 1
        BY <2>0
      <4> QED
        BY <4>1, <4>3, <4>4
    <3>2. CASE ~Accept /\ armed /\ ~Expire
      <4>1. ~twoMinTO /\ tickCnt <= TwoSec /\ quiet <= tickCnt + 2
        BY <3>2 DEF TickInv
      <4>2. tickCnt # TwoSec /\ tickCnt' = tickCnt + 1
        BY <2>0, <3>2, <4>1 DEF Clock, Counting, Expire
      <4>3. tickCnt + 1 <= TwoSec /\ tickCnt # TwoMin
        BY <2>0, <4>1, <4>2
      <4>4. ~twoMinTO'
        BY <2>0, <3>2, <4>1, <4>3 DEF Clock
      <4>5. quiet' <= (tickCnt + 2) + 1 /\ (tickCnt + 2) + 1 = (tickCnt + 1) + 2
        BY <2>0, <2>1, <4>1
      <4> QED
        BY <4>2, <4>3, <4>4, <4>5
    <3>3. armed' => Accept \/ (armed /\ ~Expire)
      BY <2>0 DEF Clock
    <3> QED
      BY <3>1, <3>2, <3>3
  <2>5. cmdEnbl' => quiet' <= TwoSec + 3
    <3>1. cmdEnbl' => armed
      BY <2>0 DEF Clock, CmdEnblNext
    <3>2. armed => quiet <= TwoSec + 2
      BY <2>0 DEF TickInv
    <3>3. TwoSec + 2 \in Nat /\ (TwoSec + 2) + 1 = TwoSec + 3
      BY <2>0
    <3> QED
      BY <2>1, <3>1, <3>2, <3>3
  <2>6. "ARM" \in ctrl' /\ ~("TICK" \in ctrl' <=> "TICK" \in ctrlInt') => quiet' = 0
    BY <2>0, <2>2
  <2> QED
    BY <2>3, <2>4, <2>5, <2>6 DEF TickInv
<1> QED
  BY <1>1, <1>2, NextWrites

\* The command outputs are never live for a host that has stopped ticking for
\* two seconds and the three clocks of the registers.
THEOREM OutputsWatched == Spec => []CommandsWatched
<1>1. Init => TickInv
  BY DEF Init, TickInit, TickInv
<1>2. TickInv => CommandsWatched
  BY DEF TickInv, CommandsWatched
<1> QED
  BY InitType, TypeStep, TickStep, <1>1, <1>2, PTL DEF Spec

\* Without consent since the timeout, CE is off, or else still on from before:
\* then ticks do not count, so that the watchdog cannot be armed again.
ConsentInv ==
  /\ ~consent /\ "CE" \in ctrl => "CE" \in ctrlInt /\ ~tickEnbl /\ ~armed
  /\ "CE" \in ctrlInt /\ armed => consent

\* The watchdog and the loop keep it.
LEMMA ConsentStep == ASSUME TypeOK, ConsentInv, [Next]_vars PROVE ConsentInv'
<1> USE DEF ConsentInv, TypeOK, TickTypeOK
<1>1. CASE UNCHANGED tickVars /\ LoopWrites
  BY <1>1 DEF tickVars, LoopWrites
<1>2. CASE Tick
  <2>1. /\ ctrl' = ctrl /\ ctrlInt' = ctrl
        /\ tickEnbl' <=> TickEnblNext
        /\ armed' <=> (Accept \/ (armed /\ ~Expire))
        /\ consent' <=> (consent /\ ~(Expire /\ "CE" \in ctrlInt))
    BY <1>2 DEF Tick, Clock
  <2>2. (Expire => ~Accept) /\ (Accept => tickEnbl)
    BY DEF Expire, Counting, Accept
  <2> QED
    BY <2>1, <2>2 DEF TickEnblNext
<1> QED
  BY <1>1, <1>2, NextWrites

\* After a timeout that caught them enabled, the command outputs come on again
\* only for a host that has sent C1 since.
THEOREM RestartNeedsConsent == Spec => NoSilentRestart
<1>1. Init => ConsentInv
  BY DEF Init, TickInit, ConsentInv
<1>2. ASSUME TypeOK, ConsentInv, [Next]_vars
      PROVE  [cmdEnbl' /\ ~cmdEnbl => consent]_vars
  <2>1. CASE UNCHANGED tickVars
    BY <2>1 DEF tickVars
  <2>2. CASE Tick
    <3>1. cmdEnbl' <=> "ARM" \in ctrlInt /\ armed /\ "CE" \in ctrlInt
      BY <2>2 DEF Tick, Clock, CmdEnblNext
    <3> QED
      BY <1>2, <3>1 DEF ConsentInv
  <2> QED
    BY <1>2, <2>1, <2>2, NextWrites
<1> QED
  BY InitType, TypeStep, ConsentStep, <1>1, <1>2, PTL DEF Spec, NoSilentRestart
===============================================================================
