----------------------------- MODULE Devices_proofs -----------------------------
(***************************************************************************)
(* Proofs about the devices on the boards: the SPI chips (SPIDevices) for   *)
(* any choice of boards, dividers and faults, the LED display (SSPStatus)   *)
(* for any strings and lists of any length, and the ethernet simulators     *)
(* (SimEth) for any number of clients, length of scan and size of the FIFO. *)
(***************************************************************************)
EXTENDS SPIDevices, SSPStatus, SimEth, Integers, SequenceTheorems, TLAPS

\* No board has both kinds of driver.
LEMMA TwoKinds == Firmware \cap Prototypes = {}
  BY DEF Firmware, Prototypes

-----------------------------------------------------------------------------
(* Waiting for a transfer *)

\* What each wait stands on.  spi_sem: it is posted once for each transfer that
\* a waiting thread has started, and taken at once.  TransferInProgress: it is
\* set before the transfer and, without faults, cleared only as that ends.
WaitInv ==
  /\ board \in Firmware \cup Prototypes /\ faults \in Nat
  /\ phase \in {"ready", "armed", "waiting"} /\ spi_sem \in 0..1
  /\ board \in Firmware => /\ phase # "armed"
                           /\ phase = "ready" => moving = None /\ spi_sem = 0
                           /\ moving # None => spi_sem = 0
  /\ board \in Prototypes => spi_sem = 0
  /\ board \in Prototypes /\ faults = 0 =>
       /\ phase # "waiting" => moving = None
       /\ phase = "armed" \/ moving # None => TransferInProgress = TRUE

\* The first call of the start-up finds no transfer and no completion.
LEMMA WaitInit == Init => WaitInv
  BY SPIAssumption DEF Init, SPI_system_init, WaitInv

\* Each action keeps the wait in step with the transfer it waits for.
LEMMA WaitStep == ASSUME WaitInv, [Next]_vars PROVE WaitInv'
<1> USE TwoKinds DEF WaitInv
<1>1. CASE NextTask \/ UNCHANGED vars
  BY <1>1 DEF NextTask, vars
<1>2. CASE DoSelect
  BY <1>2 DEF DoSelect
<1>3. CASE SendAndPend
  BY <1>3 DEF SendAndPend, Call
<1>4. CASE Pend
  BY <1>4 DEF Pend
<1>5. CASE SetFlag
  BY <1>5 DEF SetFlag, Call
<1>6. CASE SendIgnored
  BY <1>6 DEF SendIgnored
<1>7. CASE Spin
  BY <1>7 DEF Spin
<1>8. CASE TransferDone
  BY <1>8 DEF TransferDone, SpiHandler, SpiHandler_sem, SpiHandler_flag
<1>9. CASE StatusEvent
  BY <1>9 DEF StatusEvent, SpiHandler, SpiHandler_sem, SpiHandler_flag
<1> QED
  BY <1>1, <1>2, <1>3, <1>4, <1>5, <1>6, <1>7, <1>8, <1>9 DEF Next, Driver, Interrupt

\* The firmware is never ahead of the transfer it has started, and no
\* completion is left over for its next wait, whatever the interrupt reports;
\* the prototypes are in step as long as it reports completions only.
THEOREM KeepsStep == Spec => []InStep
<1>1. WaitInv => InStep
  BY DEF WaitInv, InStep
<1> QED
  BY WaitInit, WaitStep, <1>1, PTL DEF Spec

-----------------------------------------------------------------------------
(* Selecting the slave *)

\* The chip that a task is about.
TaskSlave == IF task.do \in {"init", "read"} THEN "AD9510" ELSE task.do

Bytes == (Int \X Int) \cup {<<r>> : r \in Int} \cup {<<"temp">>, <<"RRH">>, <<"RRL">>}
Calls == ({"select"} \X (Selected \cup {None})) \cup ({"send"} \X Bytes)

\* A task selects its own slave before it sends, and no other.
CallsFor(s, chip) ==
  s \in Seq(Calls) /\ \A i \in 1..Len(s) : s[i][1] = "select" => s[i][2] \in {chip, None}
SlaveInv ==
  /\ CallsFor(todo, TaskSlave)
  /\ phase # "ready" => todo # <<>> /\ Head(todo)[1] # "select"
  /\ slave \in {TaskSlave, None} \/ todo = <<>> \/ Head(todo)[1] = "select"
  /\ moving \in {TaskSlave, None}
  /\ board \in Prototypes => slave \in {"AD9510", None} /\ task.do \in {"init", "read"}

\* The registers that AD9510_Init writes are a sequence of addresses and values.
LEMMA WritesAreBytes ==
  ASSUME NEW b \in Firmware \cup Prototypes, NEW ne, NEW div \in Int
  PROVE  AD9510Writes(b, ne, div) \in Seq(Int \X Int)
<1>1. CASE b = "ssp_proto_402"
  BY <1>1 DEF AD9510Writes, Fixed402, StatusReg, ExecuteReg
<1>2. CASE b = "xSSP"
  BY <1>2 DEF AD9510Writes, FixedXSSP, StatusReg, ExecuteReg
<1>3. CASE b \in Firmware
  <2> DEFINE en == Enabled(b, ne)
  <2>1. Outputs(en) \in Seq(Int \X Int)
    BY DEF Outputs, OutputReg
  <2>2. DividerWrites(b, en, div) \in Seq(Int \X Int)
    <3>1. ASSUME NEW ch \in Int PROVE Divisor(b, en, div, ch) \in Int
      BY <1>3 DEF Divisor, Firmware
    <3>2. ASSUME NEW d \in Int PROVE DivideBy(d)[1] \in Int /\ DivideBy(d)[2] \in Int
      BY DEF DivideBy
    <3>3. ASSUME NEW i \in 1..16
          PROVE  DividerWrites(b, en, div)[i] \in Int \X Int
      BY <3>1, <3>2 DEF DividerWrites, DividerReg, BypassReg
    <3> QED
      BY <3>3 DEF DividerWrites
  <2>3. Finish(en) \in Seq(Int \X Int)
    BY DEF Finish, ClockReg, StatusReg, SyncReg, ExecuteReg
  <2>4. AD9510Writes(b, ne, div) = Outputs(en) \o DividerWrites(b, en, div) \o Finish(en)
    BY <1>3 DEF AD9510Writes, Firmware
  <2> HIDE DEF en
  <2> QED
    BY <2>1, <2>2, <2>3, <2>4
<1> QED
  BY <1>1, <1>2, <1>3 DEF Prototypes

\* So are the calls that send them, and none of these selects.
LEMMA SendAllIsCalls ==
  ASSUME NEW w \in Seq(Int \X Int)
  PROVE  /\ SendAll(w) \in Seq(Calls) /\ Len(SendAll(w)) = Len(w)
         /\ \A i \in 1..Len(w) : SendAll(w)[i][1] = "send"
<1>1. DOMAIN w = 1..Len(w) /\ Len(w) \in Nat
  OBVIOUS
<1>2. SendAll(w) = [i \in 1..Len(w) |-> <<"send", w[i]>>]
  BY <1>1 DEF SendAll, Send
<1>3. ASSUME NEW i \in 1..Len(w) PROVE <<"send", w[i]>> \in Calls
  BY DEF Calls, Bytes
<1> QED
  BY <1>1, <1>2, <1>3

\* A sequence with one element before it.
LEMMA Prepend ==
  ASSUME NEW S, NEW x \in S, NEW s \in Seq(S)
  PROVE  /\ <<x>> \o s \in Seq(S) /\ Len(<<x>> \o s) = Len(s) + 1
         /\ (<<x>> \o s)[1] = x
         /\ \A i \in 2..Len(s) + 1 : (<<x>> \o s)[i] = s[i - 1]
<1>1. <<x>> \in Seq(S) /\ Len(<<x>>) = 1 /\ <<x>>[1] = x
  OBVIOUS
<1> QED
  BY <1>1, ConcatProperties

\* The calls that AD9510_Init makes begin with its own slave, where they select.
LEMMA InitCallsOK ==
  ASSUME NEW b \in Firmware \cup Prototypes, NEW ne, NEW div \in Int
  PROVE  LET calls == InitCalls(b, ne, div) IN
         /\ calls \in Seq(Calls)
         /\ \A i \in 1..Len(calls) : calls[i][1] = "select" => calls[i][2] = "AD9510"
         /\ b \in Firmware => calls # <<>> /\ Head(calls)[1] = "select"
<1> DEFINE sends == SendAll(AD9510Writes(b, ne, div))
           first == Select("AD9510")
           calls == InitCalls(b, ne, div)
<1>1. sends \in Seq(Calls) /\ \A i \in 1..Len(sends) : sends[i][1] = "send"
  BY WritesAreBytes, SendAllIsCalls
<1>2. first \in Calls /\ first[1] = "select" /\ first[2] = "AD9510"
  BY DEF Select, Calls, Selected
<1>3. /\ b \in Firmware => calls = <<first>> \o sends
      /\ b \notin Firmware => calls = <<>> \o sends
  BY DEF InitCalls
<1> HIDE DEF sends, first, calls
<1>4. CASE b \in Firmware
  <2>1. /\ calls \in Seq(Calls) /\ Len(calls) = Len(sends) + 1 /\ calls[1] = first
        /\ \A i \in 2..Len(sends) + 1 : calls[i] = sends[i - 1]
    <3>1. calls = <<first>> \o sends
      BY <1>3, <1>4
    <3>2. first \in Calls /\ sends \in Seq(Calls)
      BY <1>1, <1>2
    <3>3. /\ <<first>> \o sends \in Seq(Calls) /\ Len(<<first>> \o sends) = Len(sends) + 1
          /\ (<<first>> \o sends)[1] = first
          /\ \A i \in 2..Len(sends) + 1 : (<<first>> \o sends)[i] = sends[i - 1]
      BY <3>2, Prepend
    <3> QED
      BY <3>1, <3>3, Zenon
  <2>2. Len(sends) \in Nat
    BY <1>1
  <2>3. \A i \in 1..Len(calls) : calls[i][1] = "select" => i = 1
    <3> SUFFICES ASSUME NEW i \in 2..Len(calls) PROVE calls[i][1] # "select"
      BY <2>1, <2>2
    <3>1. i - 1 \in 1..Len(sends)
      BY <2>1, <2>2
    <3> QED
      BY <1>1, <2>1, <3>1
  <2>4. calls # <<>> /\ Head(calls) = calls[1]
    BY <2>1, <2>2
  <2> QED
    BY <1>2, <2>1, <2>3, <2>4 DEF calls
<1>5. CASE b \notin Firmware
  <2>1. calls = sends
    BY <1>1, <1>3, <1>5, ConcatEmptySeq
  <2> QED
    BY <1>1, <1>5, <2>1 DEF calls
<1> QED
  BY <1>4, <1>5

\* udpThread starts, as after each task, with the calls of AD9510_Init.
LEMMA SlaveInit == Init => SlaveInv
<1> SUFFICES ASSUME Init PROVE SlaveInv
  OBVIOUS
<1>1. board \in Firmware \cup Prototypes
  BY SPIAssumption DEF Init, SPI_system_init
<1>2. /\ todo \in Seq(Calls)
      /\ \A i \in 1..Len(todo) : todo[i][1] = "select" => todo[i][2] = "AD9510"
      /\ board \in Firmware => todo # <<>> /\ Head(todo)[1] = "select"
  <2>1. todo = InitCalls(board, {}, 1) /\ 1 \in Int
    BY DEF Init
  <2> QED
    BY <1>1, <2>1, InitCallsOK
<1>3. task.do = "init" /\ TaskSlave = "AD9510" /\ moving = None /\ slave \in {"AD9510", None}
  BY DEF Init, SPI_system_init, TaskSlave
<1>4. phase = "ready"
  BY DEF Init, SPI_system_init
<1> QED
  BY <1>1, <1>2, <1>3, <1>4 DEF SlaveInv, CallsFor

\* A call taken off the list leaves the rest of it as it was.
LEMMA RestOfCalls ==
  ASSUME NEW s \in Seq(Calls), s # <<>>
  PROVE  /\ Tail(s) \in Seq(Calls) /\ Len(Tail(s)) = Len(s) - 1 /\ Len(s) \in Nat \ {0}
         /\ \A i \in 1..Len(Tail(s)) : Tail(s)[i] = s[i + 1]
         /\ Head(s) = s[1]
  OBVIOUS

\* What is left of a task's calls are calls of that task.
LEMMA RestIsFor ==
  ASSUME NEW chip, NEW s, CallsFor(s, chip)
  PROVE  /\ CallsFor(<<>>, chip)
         /\ s # <<>> => CallsFor(Tail(s), chip)
         /\ s # <<>> /\ Head(s)[1] = "select" => Head(s)[2] \in {chip, None}
<1>1. CallsFor(<<>>, chip)
  BY DEF CallsFor
<1>2. ASSUME s # <<>> PROVE CallsFor(Tail(s), chip)
  <2>1. /\ Tail(s) \in Seq(Calls) /\ Len(Tail(s)) = Len(s) - 1 /\ Len(s) \in Nat \ {0}
        /\ \A i \in 1..Len(Tail(s)) : Tail(s)[i] = s[i + 1]
    BY <1>2, RestOfCalls DEF CallsFor
  <2>2. ASSUME NEW i \in 1..Len(Tail(s)) PROVE i + 1 \in 1..Len(s)
    BY <2>1
  <2> QED
    BY <2>1, <2>2 DEF CallsFor
<1>3. ASSUME s # <<>>, Head(s)[1] = "select" PROVE Head(s)[2] \in {chip, None}
  <2>1. Head(s) = s[1] /\ 1 \in 1..Len(s)
    BY <1>3, RestOfCalls DEF CallsFor
  <2> QED
    BY <1>3, <2>1 DEF CallsFor
<1> QED
  BY <1>1, <1>2, <1>3

\* A task of the firmware begins with a selection; from then on its own slave
\* is selected, or none.  The prototypes have one slave and one kind of task.
LEMMA SlaveStep == ASSUME WaitInv, SlaveInv, [Next]_vars PROVE SlaveInv'
<1>1. CASE NextTask
  <2>1. moving' = moving /\ slave' = slave /\ board' = board /\ phase' = phase /\ phase = "ready"
        /\ (board \in Firmware => moving = None)
    BY <1>1 DEF NextTask, Ready, WaitInv
  <2>2. ASSUME NEW ne, NEW div \in Int, AD9510_Init(ne, div) PROVE SlaveInv'
    <3>1. task'.do = "init" /\ TaskSlave' = "AD9510"
      BY <2>2 DEF AD9510_Init, TaskSlave
    <3>2. board \in Firmware \cup Prototypes
      BY DEF WaitInv
    <3>3. /\ todo' \in Seq(Calls)
          /\ \A i \in 1..Len(todo') : todo'[i][1] = "select" => todo'[i][2] = "AD9510"
          /\ board \in Firmware => Head(todo')[1] = "select"
      BY <2>2, <3>2, InitCallsOK DEF AD9510_Init
    <3> QED
      BY <2>1, <3>1, <3>2, <3>3, TwoKinds DEF SlaveInv, TaskSlave, CallsFor
  <2>3. CASE board \in Firmware /\ MAX6628_Read
    BY <2>1, <2>3, TwoKinds DEF MAX6628_Read, SlaveInv, CallsFor, TaskSlave, Select, Send, Calls, Bytes, Selected
  <2>4. CASE board \in Firmware /\ MAX6661_Read
    BY <2>1, <2>4, TwoKinds DEF MAX6661_Read, SlaveInv, CallsFor, TaskSlave, Select, Send, Calls, Bytes, Selected
  <2>5. CASE main_xSSP
    <3>1. PICK ch \in Channels : ad9510_Read(OutputReg(ch)) /\ board = "xSSP"
      BY <2>5 DEF main_xSSP
    <3>2. <<OutputReg(ch)>> \in Bytes
      BY DEF OutputReg, Channels, Bytes
    <3>3. board \in Prototypes /\ board \notin Firmware
      BY <3>1, TwoKinds DEF Prototypes
    <3>4. moving \in {"AD9510", None} /\ slave \in {"AD9510", None}
      BY <3>3 DEF SlaveInv, TaskSlave
    <3>5. task'.do = "read" /\ TaskSlave' = "AD9510" /\ todo' = <<Send(<<OutputReg(ch)>>)>>
      BY <3>1 DEF ad9510_Read, TaskSlave
    <3>6. todo' \in Seq(Calls) /\ Len(todo') = 1 /\ todo'[1][1] = "send"
      BY <3>2, <3>5 DEF Send, Calls
    <3> QED
      BY <2>1, <3>3, <3>4, <3>5, <3>6 DEF SlaveInv, CallsFor
  <2>6. {"SSP", "SSP_PMT"} \subseteq Firmware /\ 1 \in Int /\ Dividers \subseteq Int
    BY SPIAssumption DEF Firmware
  <2> QED
    BY <1>1, <2>2, <2>3, <2>4, <2>5, <2>6 DEF NextTask
<1>2. /\ CallsFor(<<>>, TaskSlave)
      /\ todo # <<>> => CallsFor(Tail(todo), TaskSlave)
      /\ todo # <<>> /\ Head(todo)[1] = "select" => Head(todo)[2] \in {TaskSlave, None}
  BY RestIsFor DEF SlaveInv
<1>0. task' = task /\ board' = board => TaskSlave' = TaskSlave
  BY DEF TaskSlave
<1> USE <1>0, <1>2 DEF SlaveInv
<1>3. CASE DoSelect
  <2>1. board \in Prototypes => TaskSlave = "AD9510"
    BY DEF TaskSlave
  <2> QED
    BY <1>3, <2>1 DEF DoSelect, Call
<1>4. CASE SendAndPend
  <2>1. /\ todo # <<>> /\ Head(todo)[1] # "select" /\ slave \in {TaskSlave, None}
        /\ phase = "ready" /\ slave' = slave /\ TaskSlave' = TaskSlave /\ board' = board
        /\ task' = task
    BY <1>4 DEF SendAndPend, Call
  <2>2. \/ moving' = slave /\ todo' = todo
        \/ moving' = moving /\ phase' = phase /\ todo' \in {Tail(todo), <<>>}
    BY <1>4 DEF SendAndPend
  <2> QED
    BY <2>1, <2>2
<1>5. CASE Pend
  BY <1>5 DEF Pend
<1>6. CASE SetFlag
  BY <1>6 DEF SetFlag, Call
<1>7. CASE SendIgnored
  BY <1>7 DEF SendIgnored, Accepted
<1>8. CASE Spin
  BY <1>8 DEF Spin
<1>9. CASE TransferDone
  BY <1>9 DEF TransferDone
<1>10. CASE StatusEvent
  BY <1>10 DEF StatusEvent
<1>11. CASE UNCHANGED vars
  BY <1>11 DEF vars
<1> QED
  BY <1>1, <1>3, <1>4, <1>5, <1>6, <1>7, <1>8, <1>9, <1>10, <1>11 DEF Next, Driver, Interrupt

\* No transfer ever goes to a chip that its task is not about.
THEOREM ToItsSlave == Spec => []RightSlave
<1>1. SlaveInv => RightSlave
  BY DEF SlaveInv, TaskSlave, RightSlave
<1> QED
  BY WaitInit, WaitStep, SlaveInit, SlaveStep, <1>1, PTL DEF Spec

-----------------------------------------------------------------------------
(* Programming the clocks: the writes of AD9510_Init *)

\* Sequences, one behind the other.
LEMMA Joined ==
  ASSUME NEW S, NEW s \in Seq(S), NEW t \in Seq(S)
  PROVE  /\ s \o t \in Seq(S) /\ Len(s \o t) = Len(s) + Len(t)
         /\ \A i \in 1..Len(s) : (s \o t)[i] = s[i]
         /\ \A i \in 1..Len(t) : (s \o t)[Len(s) + i] = t[i]
<1>1. /\ s \o t \in Seq(S) /\ Len(s \o t) = Len(s) + Len(t)
      /\ \A i \in 1..Len(s) + Len(t) :
           (s \o t)[i] = IF i <= Len(s) THEN s[i] ELSE t[i - Len(s)]
  BY ConcatProperties
<1>2. Len(s) \in Nat /\ Len(t) \in Nat
  BY LenProperties
<1>3. ASSUME NEW i \in 1..Len(t) PROVE (s \o t)[Len(s) + i] = t[i]
  <2>1. /\ Len(s) + i \in 1..Len(s) + Len(t) /\ ~(Len(s) + i <= Len(s))
        /\ Len(s) + i - Len(s) = i
    BY <1>2
  <2> QED
    BY <1>1, <2>1
<1> QED
  BY <1>1, <1>2, <1>3

\* The writes of AD9510_Init in the firmware.
OwnWrites(b, en, div) == Outputs(en) \o DividerWrites(b, en, div) \o Finish(en)

\* The registers they go to, and what an output's register holds.
Address(i) ==
  CASE i \in 1..8 -> \h3B + i
    [] i \in 9..24 -> \h3F + i
    [] i = 25 -> ClockReg
    [] i = 26 -> StatusReg
    [] i \in {27, 29} -> SyncReg
    [] OTHER -> ExecuteReg
Power(en, ch) ==
  IF ch <= 3 THEN 8 + IF ch \in en THEN 0 ELSE 2 ELSE 2 + IF ch \in en THEN 0 ELSE 1

\* There are 30: eight outputs, their dividers, the clock input, and the end, which
\* executes them twice.
Settings(w, b, en, div) ==
  /\ Len(w) = 30
  /\ \A i \in 1..30 : w[i] = <<Address(i), w[i][2]>>
  /\ w[27][2] = 4 /\ w[29][2] = 0 /\ w[25][2] = IF en # {} THEN \h1D ELSE \h3F
  /\ \A ch \in Channels : \E i, j, k \in 1..26 :
       /\ w[i] = <<OutputReg(ch), Power(en, ch)>>
       /\ w[j] = <<DividerReg(ch), DivideBy(Divisor(b, en, div, ch))[1]>>
       /\ w[k] = <<BypassReg(ch), DivideBy(Divisor(b, en, div, ch))[2]>>

\* These are the writes that the firmware's driver makes.
LEMMA WritesAt ==
  ASSUME NEW b \in Firmware, NEW en, NEW div \in Nat
  PROVE  Settings(OwnWrites(b, en, div), b, en, div)
<1> DEFINE w == OwnWrites(b, en, div)
           o == Outputs(en)
           d == DividerWrites(b, en, div)
           f == Finish(en)
           od == o \o d
           P == Int \X Int
<1>1. o \in Seq(P) /\ Len(o) = 8
  BY DEF Outputs, OutputReg
<1>2. d \in Seq(P) /\ Len(d) = 16
  <2>1. ASSUME NEW ch \in Int PROVE Divisor(b, en, div, ch) \in Int
    BY DEF Divisor, Firmware
  <2>2. ASSUME NEW n \in Int PROVE DivideBy(n)[1] \in Int /\ DivideBy(n)[2] \in Int
    BY DEF DivideBy
  <2>3. ASSUME NEW i \in 1..16 PROVE d[i] \in P
    BY <2>1, <2>2 DEF DividerWrites, DividerReg, BypassReg
  <2> QED
    BY <2>3 DEF DividerWrites
<1>3. f \in Seq(P) /\ Len(f) = 6
  BY DEF Finish, ClockReg, StatusReg, SyncReg, ExecuteReg
<1>4. w = od \o f
  BY DEF OwnWrites
<1> HIDE DEF w, o, d, f, P, od
<1>0. o \in Seq(P) /\ d \in Seq(P) /\ f \in Seq(P)
  BY <1>1, <1>2, <1>3
<1>5. /\ od \in Seq(P) /\ Len(od) = 8 + 16
      /\ \A i \in 1..8 : od[i] = o[i]
      /\ \A i \in 1..16 : od[8 + i] = d[i]
  <2>1. /\ o \o d \in Seq(P) /\ Len(o \o d) = Len(o) + Len(d)
        /\ \A i \in 1..Len(o) : (o \o d)[i] = o[i]
        /\ \A i \in 1..Len(d) : (o \o d)[Len(o) + i] = d[i]
    BY <1>0, Joined
  <2> QED
    BY <1>1, <1>2, <2>1 DEF od
<1>6. /\ w \in Seq(P) /\ Len(w) = 24 + 6
      /\ \A i \in 1..24 : w[i] = od[i]
      /\ \A i \in 1..6 : w[24 + i] = f[i]
  <2>1. Len(od) = 24
    BY <1>5
  <2>2. /\ od \o f \in Seq(P) /\ Len(od \o f) = Len(od) + Len(f)
        /\ \A i \in 1..Len(od) : (od \o f)[i] = od[i]
        /\ \A i \in 1..Len(f) : (od \o f)[Len(od) + i] = f[i]
    <3>1. od \in Seq(P)
      BY <1>5
    <3> QED
      BY <1>0, <3>1, Joined
  <2> QED
    BY <1>3, <1>4, <2>1, <2>2
<1>7. /\ \A i \in 1..8 : w[i] = o[i]
      /\ \A i \in 1..16 : w[8 + i] = d[i]
  <2>1. ASSUME NEW i \in 1..8 PROVE w[i] = o[i]
    <3>1. i \in 1..24
      OBVIOUS
    <3> QED
      BY <1>5, <1>6, <3>1
  <2>2. ASSUME NEW i \in 1..16 PROVE w[8 + i] = d[i]
    <3>1. 8 + i \in 1..24
      OBVIOUS
    <3> QED
      BY <1>5, <1>6, <3>1
  <2> QED
    BY <2>1, <2>2
<1>8. \A i \in 9..24 : w[i] = d[i - 8]
  <2> SUFFICES ASSUME NEW i \in 9..24 PROVE w[i] = d[i - 8]
    OBVIOUS
  <2>1. i - 8 \in 1..16 /\ 8 + (i - 8) = i
    OBVIOUS
  <2> QED
    BY <1>7, <2>1
<1>9. \A i \in 1..8 : o[i] = <<OutputReg(i - 1), Power(en, i - 1)>>
  BY DEF o, Outputs, Power
<1>10. ASSUME NEW ch \in Channels
       PROVE  /\ d[2 * ch + 1] = <<DividerReg(ch), DivideBy(Divisor(b, en, div, ch))[1]>>
              /\ d[2 * ch + 2] = <<BypassReg(ch), DivideBy(Divisor(b, en, div, ch))[2]>>
  <2>1. /\ ch \in 0..7 /\ 2 * ch + 1 \in 1..16 /\ 2 * ch + 2 \in 1..16
        /\ (2 * ch + 1 - 1) \div 2 = ch /\ (2 * ch + 2 - 1) \div 2 = ch
        /\ (2 * ch + 1) % 2 = 1 /\ (2 * ch + 2) % 2 # 1
    BY DEF Channels
  <2>2. d[2 * ch + 1] = <<DividerReg(ch), DivideBy(Divisor(b, en, div, ch))[1]>>
    BY <2>1 DEF d, DividerWrites
  <2>3. d[2 * ch + 2] = <<BypassReg(ch), DivideBy(Divisor(b, en, div, ch))[2]>>
    BY <2>1 DEF d, DividerWrites
  <2> QED
    BY <2>2, <2>3
<1>11. ASSUME NEW ch \in Channels
       PROVE  \E i, j, k \in 1..26 :
                /\ w[i] = <<OutputReg(ch), Power(en, ch)>>
                /\ w[j] = <<DividerReg(ch), DivideBy(Divisor(b, en, div, ch))[1]>>
                /\ w[k] = <<BypassReg(ch), DivideBy(Divisor(b, en, div, ch))[2]>>
  <2>0. ch \in 0..7
    BY DEF Channels
  <2>1. PICK i \in 1..8 : i - 1 = ch
    BY <2>0
  <2>2. PICK j \in 9..24 : j - 8 = 2 * ch + 1
    BY <2>0
  <2>3. PICK k \in 9..24 : k - 8 = 2 * ch + 2
    BY <2>0
  <2>4. w[i] = <<OutputReg(i - 1), Power(en, i - 1)>> /\ w[j] = d[j - 8] /\ w[k] = d[k - 8]
    BY <1>7, <1>8, <1>9
  <2>5. /\ w[i] = <<OutputReg(ch), Power(en, ch)>>
        /\ w[j] = <<DividerReg(ch), DivideBy(Divisor(b, en, div, ch))[1]>>
        /\ w[k] = <<BypassReg(ch), DivideBy(Divisor(b, en, div, ch))[2]>>
    BY <1>10, <2>1, <2>2, <2>3, <2>4
  <2>6. i \in 1..26 /\ j \in 1..26 /\ k \in 1..26
    OBVIOUS
  <2> QED
    BY <2>5, <2>6
<1>12. /\ w[25] = <<ClockReg, IF en # {} THEN \h1D ELSE \h3F>>
       /\ w[26] = <<StatusReg, IF en # {} THEN 0 ELSE \h2C>>
       /\ w[27] = <<SyncReg, 4>> /\ w[28] = <<ExecuteReg, 1>>
       /\ w[29] = <<SyncReg, 0>> /\ w[30] = <<ExecuteReg, 1>>
  <2>1. /\ w[25] = f[1] /\ w[26] = f[2] /\ w[27] = f[3] /\ w[28] = f[4] /\ w[29] = f[5]
        /\ w[30] = f[6]
    BY <1>6
  <2> QED
    BY <2>1 DEF f, Finish
<1>13. ASSUME NEW i \in 1..30 PROVE w[i] = <<Address(i), w[i][2]>>
  <2>1. CASE i \in 1..8
    <3>1. w[i] = <<OutputReg(i - 1), Power(en, i - 1)>> /\ OutputReg(i - 1) = \h3B + i
      BY <1>7, <1>9, <2>1 DEF OutputReg
    <3> QED
      BY <2>1, <3>1 DEF Address
  <2>2. CASE i \in 9..24
    <3>1. w[i] = d[i - 8]
      BY <1>8, <2>2
    <3>2. PICK ch \in Channels : i - 8 = 2 * ch + 1 \/ i - 8 = 2 * ch + 2
      <4>1. (i - 9) \div 2 \in Channels
        BY <2>2 DEF Channels
      <4>2. \/ i - 8 = 2 * ((i - 9) \div 2) + 1
            \/ i - 8 = 2 * ((i - 9) \div 2) + 2
        BY <2>2
      <4> QED
        BY <4>1, <4>2
    <3>3. Address(i) = \h3F + i
      BY <2>2 DEF Address
    <3>4. CASE i - 8 = 2 * ch + 1
      <4>1. w[i] = <<DividerReg(ch), DivideBy(Divisor(b, en, div, ch))[1]>>
        BY <1>10, <3>1, <3>4
      <4>2. DividerReg(ch) = \h3F + i
        BY <2>2, <3>2, <3>4 DEF DividerReg, Channels
      <4> QED
        BY <3>3, <4>1, <4>2
    <3>5. CASE i - 8 = 2 * ch + 2
      <4>1. w[i] = <<BypassReg(ch), DivideBy(Divisor(b, en, div, ch))[2]>>
        BY <1>10, <3>1, <3>5
      <4>2. BypassReg(ch) = \h3F + i
        BY <2>2, <3>2, <3>5 DEF BypassReg, Channels
      <4> QED
        BY <3>3, <4>1, <4>2
    <3> QED
      BY <3>2, <3>4, <3>5
  <2>3. CASE i \in 25..30
    <3>1. i = 25 \/ i = 26 \/ i = 27 \/ i = 28 \/ i = 29 \/ i = 30
      BY <2>3
    <3> QED
      BY <1>12, <3>1 DEF Address
  <2> QED
    BY <2>1, <2>2, <2>3
<1>14. w[27][2] = 4 /\ w[29][2] = 0 /\ w[25][2] = IF en # {} THEN \h1D ELSE \h3F
  BY <1>12
<1>15. Len(w) = 30
  BY <1>6
<1>16. Settings(w, b, en, div)
  BY <1>11, <1>13, <1>14, <1>15 DEF Settings
<1> QED
  BY <1>16 DEF w

\* No register is written twice, except to release the synchronisation.
LEMMA Addresses ==
  /\ \A i \in 1..30 : /\ Address(i) = ExecuteReg <=> i \in {28, 30}
                      /\ Address(i) # ExecuteReg => Address(i) \in Regs
  /\ Address(27) = SyncReg /\ Address(29) = SyncReg /\ Address(25) = ClockReg
  /\ \A i, j \in 1..30 :
       i < j /\ i # 27 /\ i # 28 => Address(i) # Address(j)
<1> USE DEF Address, ClockReg, StatusReg, SyncReg, ExecuteReg
<1>1. ASSUME NEW i \in 1..30
      PROVE  Address(i) = ExecuteReg <=> i \in {28, 30}
  OBVIOUS
<1>2. ASSUME NEW i \in 1..30, Address(i) # ExecuteReg PROVE Address(i) \in Regs
  <2>1. CASE i \in 1..8
    <3>1. Address(i) = OutputReg(i - 1) /\ i - 1 \in Channels
      BY <2>1 DEF OutputReg, Channels
    <3> QED
      BY <3>1 DEF Regs
  <2>2. CASE i \in 9..24
    <3>1. (i - 9) \div 2 \in Channels
      BY <2>2 DEF Channels
    <3>2. \/ Address(i) = DividerReg((i - 9) \div 2)
          \/ Address(i) = BypassReg((i - 9) \div 2)
      BY <2>2 DEF DividerReg, BypassReg
    <3> QED
      BY <3>1, <3>2 DEF Regs
  <2>3. CASE i \in 25..30
    BY <1>2, <2>3 DEF Regs
  <2> QED
    BY <2>1, <2>2, <2>3
<1>3. ASSUME NEW i \in 1..30, NEW j \in 1..30, i < j, i # 27, i # 28
      PROVE  Address(i) # Address(j)
  BY <1>3
<1> QED
  BY <1>1, <1>2, <1>3

-----------------------------------------------------------------------------
(* How far they have come *)

\* The writes of the task at hand, and how many of them have reached the chip: the
\* first call selects it, and a completion not yet taken stands for one more.
Wr == OwnWrites(board, Enabled(board, task.ne), task.div)
Left(s) == Len(s)
Arrived == (IF spi_sem = 1 THEN 31 ELSE 30) - Left(todo)

\* Registers m hold the first n writes of w, the last one where they are to the same.
Stands(w, n, m) ==
  \A i \in 1..n : i \notin {28, 30} /\ (i = 27 => n <= 28) => m[Address(i)] = w[i][2]

\* A chip with registers m that obeys a, after n writes of w.
Holds(w, n, m, a) ==
  /\ DOMAIN m = Regs /\ DOMAIN a = Regs
  /\ Stands(w, n, m)
  /\ n \in 28..29 => \A r \in Regs \ {SyncReg} : a[r] = m[r]
  /\ n = 30 => a = m

\* s is the rest of the 31 calls c.
LastOf(s, c) ==
  /\ Left(s) \in Nat /\ Left(s) <= 31
  /\ \A i \in 1..Left(s) : s[i] = c[31 - Left(s) + i]

\* The calls still to be made are the last of InitCalls, what is being sent is the
\* next write, and the chip holds those before it.
Progress ==
  /\ task.div \in Nat /\ 1 <= task.div /\ task.div <= 32
  /\ LastOf(todo, InitCalls(board, task.ne, task.div))
  /\ Left(todo) = 31 => phase = "ready"
  /\ Left(todo) <= 30 => slave = "AD9510"
  /\ phase = "waiting" => Left(todo) >= 1 /\ buf = Wr[31 - Left(todo)]
  /\ Holds(Wr, Arrived, written, active)

ClockInv ==
  /\ DOMAIN written = Regs /\ DOMAIN active = Regs
  /\ ~started => moving = None
  /\ board \in Firmware => task.do \in {"init", "MAX6628", "MAX6661"}
  /\ board \in Firmware /\ started /\ task.do = "init" => Progress

\* A change of what the chip obeys, other than its synchronisation, is made while it
\* is held in sync.
InSync == (\E r \in Regs \ {SyncReg} : active'[r] # active[r]) => active'[SyncReg] = 4

\* The next write reaches the chip.
LEMMA OneMore ==
  ASSUME NEW b \in Firmware, NEW en, NEW div \in Nat, NEW n \in Nat, n <= 29,
         Holds(OwnWrites(b, en, div), n, written, active), buf = OwnWrites(b, en, div)[n + 1],
         moving = "AD9510", Receive
  PROVE  Holds(OwnWrites(b, en, div), n + 1, written', active') /\ InSync
<1> DEFINE w == OwnWrites(b, en, div)
           a == Address(n + 1)
<1>a. n + 1 \in 1..30
  OBVIOUS
<1>b. Settings(w, b, en, div)
  BY WritesAt
<1> HIDE DEF w, a
<1>1. w[n + 1] = <<a, w[n + 1][2]>> /\ w[27][2] = 4 /\ n + 1 \in 1..30
  BY <1>a, <1>b DEF Settings, a
<1>3. buf[1] = a /\ buf[2] = w[n + 1][2] /\ Len(buf) = 2
  <2>1. buf = w[n + 1]
    BY DEF w
  <2> QED
    BY <1>1, <2>1
<1>4. /\ DOMAIN written = Regs /\ DOMAIN active = Regs /\ Stands(w, n, written)
      /\ n \in 28..29 => \A r \in Regs \ {SyncReg} : active[r] = written[r]
  BY DEF Holds, w
<1> SUFFICES /\ DOMAIN written' = Regs /\ DOMAIN active' = Regs
             /\ Stands(w, n + 1, written')
             /\ n + 1 \in 28..29 => \A r \in Regs \ {SyncReg} : active'[r] = written'[r]
             /\ n + 1 = 30 => active' = written'
             /\ InSync
  BY DEF Holds, w
<1>5. CASE n + 1 \in {28, 30}
  <2>1. a = ExecuteReg
    BY <1>1, <1>5, Addresses DEF a
  <2>2. active' = written /\ written' = written
    BY <1>3, <2>1 DEF Receive
  <2>3. Stands(w, n + 1, written')
    <3>1. \A i \in 1..n+1 : i \notin {28, 30} => i \in 1..n
      BY <1>5
    <3> QED
      BY <1>4, <1>5, <2>2, <3>1 DEF Stands
  <2>4. InSync
    <3>1. CASE n + 1 = 28
      <4>1. 27 \in 1..n /\ n <= 28
        BY <3>1
      <4>2. written[Address(27)] = w[27][2]
        BY <1>4, <4>1 DEF Stands
      <4> QED
        BY <1>1, <2>2, <4>2, Addresses DEF InSync
    <3>2. CASE n + 1 = 30
      BY <1>4, <2>2, <3>2 DEF InSync
    <3> QED
      BY <1>5, <3>1, <3>2
  <2> QED
    BY <1>4, <1>5, <2>2, <2>3, <2>4
<1>6. CASE n + 1 \notin {28, 30}
  <2>1. a # ExecuteReg /\ a \in Regs
    BY <1>1, <1>6, Addresses DEF a
  <2>2. active' = active /\ written' = [written EXCEPT ![a] = w[n + 1][2]]
    BY <1>3, <2>1 DEF Receive
  <2>3. ASSUME NEW i \in 1..n+1, i \notin {28, 30}, i = 27 => n + 1 <= 28
        PROVE  written'[Address(i)] = w[i][2]
    <3>1. CASE i = n + 1
      BY <1>4, <2>1, <2>2, <3>1 DEF a
    <3>2. CASE i # n + 1
      <4>1. i \in 1..n /\ i < n + 1 /\ i # 27 /\ i # 28 /\ i \in 1..30 /\ n <= 29
        BY <1>6, <2>3, <3>2
      <4>2. Address(i) # a
        BY <1>1, <4>1, Addresses DEF a
      <4>3. written[Address(i)] = w[i][2]
        BY <1>4, <2>3, <4>1 DEF Stands
      <4>4. Address(i) \in Regs
        BY <2>3, <4>1, Addresses
      <4> QED
        BY <1>4, <2>2, <4>2, <4>3, <4>4
    <3> QED
      BY <3>1, <3>2
  <2>4. ASSUME n + 1 \in 28..29, NEW r \in Regs \ {SyncReg} PROVE active'[r] = written'[r]
    <3>1. n + 1 = 29 /\ n \in 28..29
      BY <1>6, <2>4
    <3>2. a = SyncReg
      BY <3>1, Addresses DEF a
    <3> QED
      BY <1>4, <2>2, <3>1, <3>2
  <2> QED
    BY <1>4, <1>6, <2>2, <2>3, <2>4 DEF Stands, InSync
<1> QED
  BY <1>5, <1>6

\* What AD9510_Init calls in the firmware: it selects the chip and sends the writes.
LEMMA CallsAt ==
  ASSUME NEW b \in Firmware, NEW ne, NEW div \in Nat
  PROVE  LET calls == InitCalls(b, ne, div)
             w == OwnWrites(b, Enabled(b, ne), div)
         IN  /\ Len(calls) = 31 /\ calls[1] = Select("AD9510")
             /\ \A i \in 2..31 : calls[i] = Send(w[i - 1])
<1> DEFINE w == OwnWrites(b, Enabled(b, ne), div)
           sends == SendAll(w)
           first == Select("AD9510")
           calls == InitCalls(b, ne, div)
<1>1. AD9510Writes(b, ne, div) = w
  BY DEF AD9510Writes, OwnWrites, Firmware
<1>2. calls = <<first>> \o sends
  BY <1>1 DEF InitCalls
<1>3. Len(w) = 30
  <2>1. Settings(w, b, Enabled(b, ne), div)
    BY WritesAt
  <2> QED
    BY <2>1 DEF Settings
<1>4. w \in Seq(Int \X Int)
  <2>1. b \in Firmware \cup Prototypes /\ div \in Int
    OBVIOUS
  <2>2. AD9510Writes(b, ne, div) \in Seq(Int \X Int)
    BY <2>1, WritesAreBytes
  <2> QED
    BY <1>1, <2>2
<1>5. first \in Calls
  BY DEF Select, Calls, Selected
<1> HIDE DEF w
<1>6. sends \in Seq(Calls) /\ Len(sends) = 30
  BY <1>3, <1>4, SendAllIsCalls
<1>7. \A i \in 1..30 : sends[i] = Send(w[i])
  <2>1. DOMAIN w = 1..30
    BY <1>3, <1>4
  <2> QED
    BY <2>1 DEF SendAll
<1> HIDE DEF sends, first, calls
<1>8. /\ Len(calls) = 31 /\ calls[1] = first
      /\ \A i \in 2..31 : calls[i] = sends[i - 1]
  <2>0. sends \in Seq(Calls)
    BY <1>6
  <2>1. /\ Len(<<first>> \o sends) = Len(sends) + 1 /\ (<<first>> \o sends)[1] = first
        /\ \A i \in 2..Len(sends) + 1 : (<<first>> \o sends)[i] = sends[i - 1]
    BY <1>5, <2>0, Prepend
  <2>2. ASSUME NEW i \in 2..31 PROVE calls[i] = sends[i - 1]
    <3>1. i \in 2..Len(sends) + 1
      BY <1>6
    <3> QED
      BY <1>2, <2>1, <3>1
  <2>3. Len(sends) + 1 = 31
    BY <1>6
  <2> QED
    BY <1>2, <2>1, <2>2, <2>3
<1>9. ASSUME NEW i \in 2..31 PROVE calls[i] = Send(w[i - 1])
  <2>1. i - 1 \in 1..30
    OBVIOUS
  <2> QED
    BY <1>7, <1>8, <2>1
<1> QED
  BY <1>8, <1>9 DEF calls, w, first

\* With none of them made, all of them are left.
LEMMA AllLeft ==
  ASSUME NEW b \in Firmware, NEW ne, NEW div \in Nat, 1 <= div, div <= 32, NEW t,
         t = [do |-> "init", ne |-> ne, div |-> div], NEW s, s = InitCalls(b, ne, div)
  PROVE  t.do = "init" /\ t.div = div /\ Left(s) = 31 /\ LastOf(s, InitCalls(b, t.ne, t.div))
<1>1. Left(s) = 31
  BY CallsAt DEF Left
<1>2. t.ne = ne /\ t.div = div /\ t.do = "init"
  OBVIOUS
<1>3. ASSUME NEW i \in 1..31 PROVE s[i] = s[31 - 31 + i]
  <2>1. 31 - 31 + i = i
    OBVIOUS
  <2> QED
    BY <2>1
<1> QED
  BY <1>1, <1>2, <1>3 DEF LastOf

\* With the first made, one less.
LEMMA OneLess ==
  ASSUME NEW c, NEW s \in Seq(Calls), LastOf(s, c), s # <<>>
  PROVE  /\ LastOf(Tail(s), c) /\ Left(Tail(s)) = Left(s) - 1
         /\ Left(s) \in Nat /\ 1 <= Left(s) /\ Left(s) <= 31
         /\ Head(s) = c[32 - Left(s)]
<1>0. /\ Len(Tail(s)) = Len(s) - 1 /\ Head(s) = s[1] /\ Len(s) \in Nat \ {0}
      /\ \A i \in 1..Len(Tail(s)) : Tail(s)[i] = s[i + 1]
  BY RestOfCalls
<1>1. /\ Left(Tail(s)) = Left(s) - 1 /\ Head(s) = s[1]
      /\ Left(s) \in Nat /\ 1 <= Left(s) /\ Left(s) <= 31
      /\ \A i \in 1..Left(Tail(s)) : Tail(s)[i] = s[i + 1]
  <2>1. /\ Left(Tail(s)) = Left(s) - 1 /\ Left(s) \in Nat \ {0}
        /\ \A i \in 1..Left(Tail(s)) : Tail(s)[i] = s[i + 1]
    BY <1>0 DEF Left
  <2>2. Left(s) <= 31
    BY DEF LastOf
  <2>3. 1 <= Left(s)
    BY <2>1
  <2> QED
    BY <1>0, <2>1, <2>2, <2>3
<1>2. Head(s) = c[32 - Left(s)]
  <2>1. 1 \in 1..Left(s) /\ 31 - Left(s) + 1 = 32 - Left(s)
    BY <1>1
  <2> QED
    BY <1>1, <2>1 DEF LastOf
<1>3. ASSUME NEW i \in 1..Left(Tail(s)) PROVE Tail(s)[i] = c[31 - Left(Tail(s)) + i]
  <2>1. i + 1 \in 1..Left(s) /\ 31 - Left(s) + (i + 1) = 31 - Left(Tail(s)) + i
    BY <1>1
  <2> QED
    BY <1>1, <2>1 DEF LastOf
<1>4. Left(Tail(s)) \in Nat /\ Left(Tail(s)) <= 31
  BY <1>1
<1>5. LastOf(Tail(s), c)
  BY <1>3, <1>4 DEF LastOf
<1> QED
  BY <1>1, <1>2, <1>5

\* The start-up has sent nothing.
LEMMA ClockInit == Init => ClockInv
<1> SUFFICES ASSUME Init PROVE ClockInv
  OBVIOUS
<1>1. /\ DOMAIN written = Regs /\ DOMAIN active = Regs /\ moving = None
      /\ phase = "ready" /\ spi_sem = 0 /\ todo = InitCalls(board, {}, 1)
      /\ task = [do |-> "init", ne |-> {}, div |-> 1]
  BY DEF Init, SPI_system_init
<1>2. ASSUME board \in Firmware PROVE Progress
  <2>1. 1 \in Nat /\ 1 <= 1 /\ 1 <= 32
    OBVIOUS
  <2>2. /\ task.div = 1 /\ Left(todo) = 31
        /\ LastOf(todo, InitCalls(board, task.ne, task.div))
    BY <1>1, <1>2, <2>1, AllLeft
  <2>3. Arrived = -1
    BY <1>1, <2>2 DEF Arrived
  <2>4. Holds(Wr, Arrived, written, active)
    BY <1>1, <2>3 DEF Holds, Stands
  <2> QED
    BY <1>1, <2>2, <2>4 DEF Progress
<1> QED
  BY <1>1, <1>2 DEF ClockInv

\* The chip follows the calls, a completion that is not yet taken counting as made.
LEMMA ClockStep ==
  ASSUME WaitInv, SlaveInv, ClockInv, [Next]_vars
  PROVE  ClockInv' /\ (board \in Firmware => InSync)
<1> DEFINE Own == board \in Firmware /\ started /\ task.do = "init"
           calls == InitCalls(board, task.ne, task.div)
<1>a. ASSUME Own
      PROVE  /\ board \in Firmware /\ phase \in {"ready", "waiting"} /\ spi_sem \in 0..1
             /\ phase = "ready" => moving = None /\ spi_sem = 0
             /\ moving # None => spi_sem = 0
             /\ moving \in {"AD9510", None}
             /\ todo \in Seq(Calls)
  BY <1>a DEF WaitInv, SlaveInv, CallsFor, TaskSlave
<1>p. ASSUME Own
      PROVE  /\ task.div \in Nat /\ 1 <= task.div /\ task.div <= 32
             /\ LastOf(todo, calls) /\ Left(todo) \in Nat /\ Left(todo) <= 31
             /\ Left(todo) = 31 => phase = "ready"
             /\ Left(todo) <= 30 => slave = "AD9510"
             /\ phase = "waiting" => Left(todo) >= 1
             /\ phase = "waiting" => buf = Wr[31 - Left(todo)]
             /\ Holds(Wr, Arrived, written, active)
  <2>1. Progress
    BY <1>p DEF ClockInv
  <2>2. LastOf(todo, calls)
    BY <2>1 DEF Progress
  <2>3. Left(todo) \in Nat /\ Left(todo) <= 31
    BY <2>2 DEF LastOf
  <2> QED
    BY <2>1, <2>2, <2>3 DEF Progress
<1>q. ASSUME board' = board, task' = task,
             task.div \in Nat, 1 <= task.div, task.div <= 32, LastOf(todo', calls),
             Left(todo') = 31 => phase' = "ready",
             Left(todo') <= 30 => slave' = "AD9510",
             phase' = "waiting" => Left(todo') >= 1 /\ buf' = Wr[31 - Left(todo')],
             Holds(Wr, Arrived', written', active')
      PROVE  Progress'
  <2>1. Wr' = Wr /\ InitCalls(board, task.ne, task.div)' = calls
    BY <1>q DEF Wr
  <2> HIDE DEF calls
  <2> QED
    BY <1>q, <2>1 DEF Progress
<1>b. active' = active => InSync
  BY DEF InSync
<1>d. ASSUME Own, todo # <<>>
      PROVE  /\ LastOf(Tail(todo), calls) /\ Left(Tail(todo)) = Left(todo) - 1
             /\ Left(todo) \in Nat /\ 1 <= Left(todo) /\ Left(todo) <= 31
             /\ Left(todo) = 31 => Head(todo) = Select("AD9510")
             /\ Left(todo) # 31 => Head(todo) = Send(Wr[31 - Left(todo)])
  <2>1. /\ LastOf(Tail(todo), calls) /\ Left(Tail(todo)) = Left(todo) - 1
        /\ Left(todo) \in Nat /\ 1 <= Left(todo) /\ Left(todo) <= 31 /\ Head(todo) = calls[32 - Left(todo)]
    BY <1>a, <1>d, <1>p, OneLess
  <2>2. calls[1] = Select("AD9510") /\ \A i \in Nat : 2 <= i /\ i <= 31 => calls[i] = Send(Wr[i - 1])
    <3>1. task.div \in Nat /\ board \in Firmware
      BY <1>a, <1>d, <1>p
    <3> QED
      BY <3>1, CallsAt DEF Wr
  <2> HIDE DEF calls
  <2>3. ASSUME Left(todo) # 31 PROVE Head(todo) = Send(Wr[31 - Left(todo)])
    <3>1. 32 - Left(todo) \in Nat /\ 2 <= 32 - Left(todo) /\ 32 - Left(todo) <= 31 /\ 32 - Left(todo) - 1 = 31 - Left(todo)
      BY <2>1, <2>3
    <3> QED
      BY <2>1, <2>2, <3>1
  <2>4. ASSUME Left(todo) = 31 PROVE Head(todo) = Select("AD9510")
    <3>1. 32 - Left(todo) = 1
      BY <2>4
    <3> QED
      BY <2>1, <2>2, <3>1
  <2> QED
    BY <2>1, <2>3, <2>4
<1>o. Own <=> board \in Firmware /\ started /\ task.do = "init"
  OBVIOUS
<1> HIDE DEF calls, Own
<1>1. CASE NextTask
  <2>1. /\ written' = written /\ active' = active /\ moving' = moving /\ board' = board
        /\ started' = started /\ phase' = phase /\ spi_sem' = spi_sem /\ phase = "ready"
    BY <1>1 DEF NextTask, Ready
  <2>2. ASSUME board \in Firmware, NEW ne, NEW div \in Nat, 1 <= div, div <= 32, AD9510_Init(ne, div)
        PROVE  Progress' /\ task'.do = "init"
    <3>1. /\ task' = [do |-> "init", ne |-> ne, div |-> div]
          /\ todo' = InitCalls(board, ne, div)
      BY <2>2 DEF AD9510_Init
    <3>2. spi_sem = 0 /\ DOMAIN written = Regs /\ DOMAIN active = Regs
      BY <2>1, <2>2 DEF WaitInv, ClockInv
    <3>3. /\ task'.do = "init" /\ task'.div = div /\ Left(todo') = 31
          /\ LastOf(todo', InitCalls(board, task'.ne, task'.div))
      BY <2>2, <3>1, AllLeft
    <3>4. Arrived' = -1
      BY <2>1, <3>2, <3>3 DEF Arrived
    <3>5. Holds(Wr', Arrived', written', active')
      BY <2>1, <3>2, <3>4 DEF Holds, Stands
    <3> QED
      BY <2>1, <2>2, <3>3, <3>5 DEF Progress
  <2>3. ASSUME board \in Firmware, MAX6628_Read \/ MAX6661_Read
        PROVE  task'.do \in {"MAX6628", "MAX6661"}
    BY <2>3 DEF MAX6628_Read, MAX6661_Read
  <2>4. ASSUME board \in Firmware, main_xSSP PROVE FALSE
    BY <2>4, TwoKinds DEF main_xSSP, Prototypes
  <2>5. ASSUME NEW div \in Dividers PROVE div \in Nat /\ 1 <= div /\ div <= 32
    BY SPIAssumption
  <2>6. ASSUME board \in Firmware
        PROVE  (Progress' /\ task'.do = "init") \/ task'.do \in {"MAX6628", "MAX6661"}
    BY <1>1, <2>2, <2>3, <2>4, <2>5, <2>6 DEF NextTask
  <2> QED
    BY <1>b, <2>1, <2>6 DEF ClockInv
<1>2. CASE DoSelect
  <2>1. /\ written' = written /\ active' = active /\ moving' = moving /\ board' = board
        /\ started' = started /\ phase' = phase /\ spi_sem' = spi_sem /\ phase = "ready"
        /\ task' = task /\ todo # <<>> /\ Head(todo)[1] = "select"
        /\ moving = None => slave' = Head(todo)[2] /\ todo' = Tail(todo)
    BY <1>2 DEF DoSelect, Call
  <2>2. ASSUME Own PROVE Progress'
    <3>1. Left(todo) = 31 /\ Head(todo)[2] = "AD9510"
      BY <1>d, <2>1, <2>2 DEF Send, Select
    <3>2. LastOf(Tail(todo), calls) /\ Left(Tail(todo)) = 30
      BY <1>d, <2>1, <2>2, <3>1
    <3>3. moving = None /\ spi_sem = 0
      BY <1>a, <2>1, <2>2
    <3>4. slave' = "AD9510" /\ LastOf(todo', calls) /\ Left(todo') = 30 /\ spi_sem' = 0
      BY <2>1, <3>1, <3>2, <3>3
    <3>5. Arrived' = 0
      BY <3>4 DEF Arrived
    <3>6. Holds(Wr, Arrived', written', active')
      BY <2>1, <3>5 DEF Holds, Stands, ClockInv
    <3>7. phase' = "ready" /\ task.div \in Nat /\ 1 <= task.div /\ task.div <= 32
      BY <1>p, <2>1, <2>2
    <3> QED
      BY <1>q, <2>1, <3>4, <3>6, <3>7
  <2> QED
    BY <1>b, <1>o, <2>1, <2>2 DEF ClockInv
<1>3. CASE SendAndPend
  <2>1. /\ written' = written /\ active' = active /\ board' = board
        /\ started' = started /\ spi_sem' = spi_sem /\ phase = "ready" /\ slave' = slave
        /\ task' = task /\ todo # <<>> /\ Head(todo)[1] = "send" /\ buf' = Head(todo)[2]
        /\ ~started => moving' = moving
        /\ started /\ moving = None /\ slave # None =>
             moving' = slave /\ phase' = "waiting" /\ todo' = todo
    BY <1>3 DEF SendAndPend, Call, Accepted
  <2>2. ASSUME Own PROVE Progress'
    <3>1. Left(todo) \in Nat /\ 1 <= Left(todo) /\ Left(todo) <= 31 /\ Left(todo) # 31
      BY <1>d, <2>1, <2>2 DEF Select
    <3>2. Head(todo) = Send(Wr[31 - Left(todo)]) /\ Left(todo) \in Nat /\ 1 <= Left(todo) /\ Left(todo) <= 30
      BY <1>d, <2>1, <2>2, <3>1
    <3>3. slave = "AD9510" /\ moving = None /\ slave # None
      BY <1>a, <1>p, <2>1, <2>2, <3>2 DEF None
    <3>4. phase' = "waiting" /\ todo' = todo /\ buf' = Wr[31 - Left(todo)]
      BY <1>o, <2>1, <2>2, <3>2, <3>3 DEF Send
    <3>5. Arrived' = Arrived
      BY <2>1, <3>4 DEF Arrived
    <3>6. task.div \in Nat /\ 1 <= task.div /\ task.div <= 32 /\ LastOf(todo', calls) /\ Holds(Wr, Arrived', written', active')
      BY <1>p, <2>1, <2>2, <3>4, <3>5
    <3>7. Left(todo') \in Nat /\ 1 <= Left(todo') /\ Left(todo') <= 30 /\ buf' = Wr[31 - Left(todo')]
      BY <3>2, <3>4
    <3> QED
      BY <1>q, <2>1, <3>3, <3>4, <3>6, <3>7
  <2> QED
    BY <1>b, <1>o, <2>1, <2>2 DEF ClockInv
<1>4. CASE Pend
  <2>1. /\ written' = written /\ active' = active /\ board' = board /\ moving' = moving
        /\ started' = started /\ spi_sem' = spi_sem - 1 /\ phase = "waiting"
        /\ slave' = slave /\ task' = task /\ todo' = Tail(todo) /\ phase' = "ready"
        /\ spi_sem > 0
    BY <1>4 DEF Pend
  <2>2. ASSUME Own PROVE Progress'
    <3>1. spi_sem = 1 /\ spi_sem' = 0
      BY <1>a, <2>1, <2>2
    <3>2. Left(todo) \in Nat /\ 1 <= Left(todo) /\ Left(todo) <= 30
      BY <1>p, <2>1, <2>2
    <3>0. todo # <<>>
      <4>1. Left(<<>>) = 0
        BY DEF Left
      <4> QED
        BY <3>2, <4>1
    <3>3. LastOf(todo', calls) /\ Left(todo') = Left(todo) - 1
      BY <1>d, <2>1, <2>2, <3>0
    <3>4. Arrived' = Arrived
      BY <3>1, <3>2, <3>3 DEF Arrived
    <3>5. task.div \in Nat /\ 1 <= task.div /\ task.div <= 32 /\ Holds(Wr, Arrived', written', active') /\ slave' = "AD9510"
      BY <1>p, <2>1, <2>2, <3>2, <3>4
    <3>6. phase' # "waiting"
      BY <2>1
    <3> QED
      BY <1>q, <2>1, <3>3, <3>5, <3>6
  <2> QED
    BY <1>b, <1>o, <2>1, <2>2 DEF ClockInv
<1>5. CASE SetFlag \/ Spin
  BY <1>5, <1>b, TwoKinds DEF SetFlag, Spin, ClockInv
<1>6. CASE SendIgnored
  BY <1>6, <1>b DEF SendIgnored, Accepted, ClockInv, WaitInv
<1>7. CASE TransferDone
  <2>1. /\ board' = board /\ moving # None /\ moving' = None /\ started' = started
        /\ slave' = slave /\ task' = task /\ todo' = todo /\ phase' = phase /\ buf' = buf
        /\ Receive /\ started
        /\ board \in Firmware => spi_sem' = spi_sem + 1
    BY <1>7, TwoKinds DEF TransferDone, SpiHandler, SpiHandler_sem, ClockInv
  <2>2. DOMAIN written' = Regs /\ DOMAIN active' = Regs
    BY <2>1 DEF Receive, ClockInv
  <2>3. ASSUME Own PROVE Progress' /\ InSync
    <3>1. moving = "AD9510" /\ phase = "waiting" /\ spi_sem = 0 /\ spi_sem' = 1
      BY <1>a, <2>1, <2>3
    <3>2. Left(todo) \in Nat /\ 1 <= Left(todo) /\ Left(todo) <= 30
      BY <1>p, <2>3, <3>1
    <3>0. 30 - Left(todo) \in Nat /\ 30 - Left(todo) <= 29
      BY <3>2
    <3>3. PICK n \in Nat : n = 30 - Left(todo) /\ n <= 29
      BY <3>0
    <3>4. Arrived = n /\ Arrived' = n + 1 /\ 31 - Left(todo) = n + 1
      BY <2>1, <3>1, <3>2, <3>3 DEF Arrived
    <3>5. Holds(Wr, n, written, active) /\ buf = Wr[n + 1]
      BY <1>p, <2>3, <3>1, <3>4
    <3>6. board \in Firmware /\ task.div \in Nat
      BY <1>o, <1>p, <2>3
    <3>7. Holds(Wr, n + 1, written', active') /\ InSync
      BY <2>1, <3>1, <3>3, <3>5, <3>6, OneMore DEF Wr
    <3>8. /\ task.div \in Nat /\ 1 <= task.div /\ task.div <= 32 /\ LastOf(todo', calls) /\ Left(todo') \in Nat /\ 1 <= Left(todo') /\ Left(todo') <= 30
          /\ slave' = "AD9510" /\ buf' = Wr[31 - Left(todo')]
      BY <1>p, <2>1, <2>3, <3>1, <3>2
    <3>9. Holds(Wr, Arrived', written', active')
      BY <3>4, <3>7
    <3> QED
      BY <1>q, <2>1, <3>7, <3>8, <3>9
  <2>4. ASSUME board \in Firmware, task.do # "init" PROVE active' = active
    BY <2>1, <2>4 DEF ClockInv, SlaveInv, TaskSlave, Receive
  <2> QED
    BY <1>b, <1>o, <2>1, <2>2, <2>3, <2>4 DEF ClockInv
<1>8. CASE StatusEvent
  <2>1. /\ board' = board /\ moving' \in {moving, None} /\ started' = started
        /\ slave' = slave /\ task' = task /\ todo' = todo /\ phase' = phase /\ buf' = buf
        /\ written' = written /\ active' = active
        /\ board \in Firmware => spi_sem' = spi_sem
    BY <1>8, TwoKinds DEF StatusEvent, SpiHandler, SpiHandler_sem
  <2>2. ASSUME Own PROVE Progress'
    <3>1. Arrived' = Arrived
      BY <1>a, <2>1, <2>2 DEF Arrived
    <3> QED
      BY <1>p, <1>q, <2>1, <2>2, <3>1
  <2> QED
    BY <1>b, <1>o, <2>1, <2>2 DEF ClockInv
<1>9. CASE UNCHANGED vars
  <2>1. ASSUME Own PROVE Progress'
    <3>1. Arrived' = Arrived
      BY <1>9 DEF vars, Arrived
    <3> QED
      BY <1>9, <1>p, <1>q, <2>1, <3>1 DEF vars
  <2> QED
    BY <1>9, <1>b, <1>o, <2>1 DEF vars, ClockInv
<1> QED
  BY <1>1, <1>2, <1>3, <1>4, <1>5, <1>6, <1>7, <1>8, <1>9 DEF Next, Driver, Interrupt

\* No divider is lost: its two counts and its bypass make the number they were made from.
LEMMA RatioOf == \A d \in 1..32 : Ratio(DivideBy(d)[1], DivideBy(d)[2]) = d
<1> SUFFICES ASSUME NEW d \in 1..32 PROVE Ratio(DivideBy(d)[1], DivideBy(d)[2]) = d
  OBVIOUS
<1>1. CASE d = 1
  BY <1>1 DEF Ratio, DivideBy
<1>2. CASE d > 1
  <2> DEFINE lo == d \div 2 - 1
             hi == (d + 1) \div 2 - 1
  <2>1. DivideBy(d) = <<lo * 16 + hi, 0>>
    <3>1. lo * 16 + hi = lo * 16 + (d + 1) \div 2 - 1
      BY <1>2
    <3> QED
      BY <1>2, <3>1 DEF DivideBy
  <2>2. lo \in Nat /\ hi \in Nat /\ hi < 16 /\ lo + 1 + (hi + 1) = d
    BY <1>2
  <2> HIDE DEF lo, hi
  <2>3. (lo * 16 + hi) \div 16 = lo /\ (lo * 16 + hi) % 16 = hi
    BY <2>2
  <2>4. DivideBy(d)[1] = lo * 16 + hi /\ DivideBy(d)[2] # \h80
    BY <2>1
  <2> QED
    BY <2>2, <2>3, <2>4 DEF Ratio
<1> QED
  BY <1>1, <1>2

\* With all the writes made, the chip obeys what the client has asked for.
LEMMA ClockedThen == ASSUME WaitInv, ClockInv PROVE Clocked
<1> SUFFICES ASSUME phase = "ready", todo = <<>>, started, task.do = "init",
                    board \in Firmware
             PROVE  LET en == Enabled(board, task.ne) IN
                    /\ \A ch \in Channels :
                         /\ active[OutputReg(ch)] \in (IF ch <= 3 THEN {8, 10} ELSE {2, 3})
                         /\ (active[OutputReg(ch)] \in {8, 2}) <=> ch \in en
                         /\ ch \in en => Ratio(active[DividerReg(ch)], active[BypassReg(ch)])
                                 = IF ch = 6 /\ board # "ssp_proto_b" THEN 25 ELSE task.div
                    /\ active[SyncReg] = 0
                    /\ active[ClockReg] = IF en = {} THEN \h3F ELSE \h1D
  BY DEF Clocked, Ready
<1> DEFINE en == Enabled(board, task.ne)
           w == OwnWrites(board, en, task.div)
<1>1. Progress /\ spi_sem = 0
  BY DEF ClockInv, WaitInv
<1>2. Arrived = 30
  <2>1. Left(todo) = 0
    BY DEF Left
  <2> QED
    BY <1>1, <2>1 DEF Arrived
<1>3. Stands(w, 30, active)
  BY <1>1, <1>2 DEF Progress, Holds, Wr
<1>4. Settings(w, board, en, task.div)
  <2>1. task.div \in Nat
    BY <1>1 DEF Progress
  <2> QED
    BY <2>1, WritesAt
<1>5. task.div \in 1..32
  <2>1. task.div \in Nat /\ 1 <= task.div /\ task.div <= 32
    BY <1>1 DEF Progress
  <2>2. ASSUME NEW d, d \in Nat, 1 <= d, d <= 32 PROVE d \in 1..32
    BY <2>2
  <2> HIDE DEF en, w
  <2> QED
    BY <2>1, <2>2
<1> HIDE DEF en, w
<1>6. \A i \in 1..30 : i \notin {27, 28, 30} => active[Address(i)] = w[i][2]
  BY <1>3 DEF Stands
<1>7. ASSUME NEW i \in 1..26, NEW r, NEW v, w[i] = <<r, v>> PROVE active[r] = v
  <2>1. i \in 1..30 /\ i \notin {27, 28, 30}
    OBVIOUS
  <2>2. w[i] = <<Address(i), w[i][2]>>
    BY <1>4, <2>1 DEF Settings
  <2>3. Address(i) = r /\ w[i][2] = v
    BY <1>7, <2>2
  <2> QED
    BY <1>6, <2>1, <2>3
<1>8. ASSUME NEW ch \in Channels
      PROVE  /\ active[OutputReg(ch)] = Power(en, ch)
             /\ active[DividerReg(ch)] = DivideBy(Divisor(board, en, task.div, ch))[1]
             /\ active[BypassReg(ch)] = DivideBy(Divisor(board, en, task.div, ch))[2]
  <2>1. \E i, j, k \in 1..26 :
          /\ w[i] = <<OutputReg(ch), Power(en, ch)>>
          /\ w[j] = <<DividerReg(ch), DivideBy(Divisor(board, en, task.div, ch))[1]>>
          /\ w[k] = <<BypassReg(ch), DivideBy(Divisor(board, en, task.div, ch))[2]>>
    BY <1>4 DEF Settings
  <2>2. PICK i \in 1..26 : w[i] = <<OutputReg(ch), Power(en, ch)>>
    BY <2>1
  <2>3. PICK j \in 1..26 :
          w[j] = <<DividerReg(ch), DivideBy(Divisor(board, en, task.div, ch))[1]>>
    BY <2>1
  <2>4. PICK k \in 1..26 :
          w[k] = <<BypassReg(ch), DivideBy(Divisor(board, en, task.div, ch))[2]>>
    BY <2>1
  <2>5. active[OutputReg(ch)] = Power(en, ch)
    BY <1>7, <2>2
  <2>6. active[DividerReg(ch)] = DivideBy(Divisor(board, en, task.div, ch))[1]
    BY <1>7, <2>3
  <2>7. active[BypassReg(ch)] = DivideBy(Divisor(board, en, task.div, ch))[2]
    BY <1>7, <2>4
  <2> QED
    BY <2>5, <2>6, <2>7
<1>9. ASSUME NEW ch \in Channels
      PROVE  /\ active[OutputReg(ch)] \in (IF ch <= 3 THEN {8, 10} ELSE {2, 3})
             /\ (active[OutputReg(ch)] \in {8, 2}) <=> ch \in en
  <2>1. ch \in 0..7
    BY DEF Channels
  <2> QED
    BY <1>8, <2>1 DEF Power
<1>10. ASSUME NEW ch \in Channels, ch \in en
       PROVE  Ratio(active[DividerReg(ch)], active[BypassReg(ch)])
                = IF ch = 6 /\ board # "ssp_proto_b" THEN 25 ELSE task.div
  <2>1. Divisor(board, en, task.div, ch)
          = IF ch = 6 /\ board # "ssp_proto_b" THEN 25 ELSE task.div
    BY <1>10 DEF Divisor
  <2>2. Divisor(board, en, task.div, ch) \in 1..32
    BY <1>5, <2>1
  <2> QED
    BY <1>8, <2>1, <2>2, RatioOf
<1>11. active[SyncReg] = 0
  <2>1. 29 \in 1..30 /\ 29 \notin {27, 28, 30} /\ Address(29) = SyncReg
    BY Addresses
  <2>2. w[29][2] = 0
    BY <1>4 DEF Settings
  <2> QED
    BY <1>6, <2>1, <2>2
<1>12. active[ClockReg] = IF en = {} THEN \h3F ELSE \h1D
  <2>1. 25 \in 1..30 /\ 25 \notin {27, 28, 30} /\ Address(25) = ClockReg
    BY Addresses
  <2>2. w[25][2] = IF en # {} THEN \h1D ELSE \h3F
    BY <1>4 DEF Settings
  <2> QED
    BY <1>6, <2>1, <2>2
<1> QED
  BY <1>9, <1>10, <1>11, <1>12 DEF en

\* When AD9510_Init returns, the chip makes the clocks that the client has asked for,
\* whatever the interrupt reported while it was programmed.
THEOREM ClocksRun == Spec => []Clocked
<1>1. WaitInv /\ ClockInv => Clocked
  BY ClockedThen
<1> QED
  BY WaitInit, WaitStep, SlaveInit, SlaveStep, ClockInit, ClockStep, <1>1, PTL DEF Spec

\* The firmware never changes its clocks while they run: their new settings are
\* executed while the outputs are held in sync.
THEOREM ChangesInSync == Spec => Synced
<1>1. WaitInv /\ SlaveInv /\ ClockInv /\ [Next]_vars =>
        [(board \in Firmware /\ \E r \in Regs \ {SyncReg} : active'[r] # active[r])
           => (active'[SyncReg] = 4)]_vars
  BY ClockStep DEF InSync
<1> QED
  BY WaitInit, WaitStep, SlaveInit, SlaveStep, ClockInit, ClockStep, <1>1, PTL
  DEF Spec, Synced
-----------------------------------------------------------------------------
(* The LED display *)

\* The strings are sequences, so that their lengths are natural numbers.
LEMMA CodeLen ==
  \A c \in StatusCodes \cup ErrorCodes : c \in Seq(1..15) /\ Len(c) \in Nat
  BY StatusAssumption

\* CursorsOK is inductive: no other fact about the display is needed.
LEMMA CursorsInit == ASSUME StatusInit PROVE CursorsOK
<1>1. <<1>> \in StatusCodes
  BY StatusAssumption
<1>2. <<<<1>>>> \in Seq(StatusCodes) /\ Len(<<<<1>>>>) = 1 /\ <<>> \in Seq(ErrorCodes)
      /\ Len(<<>>) = 0
  BY <1>1
<1>. QED
  BY <1>2, StatusAssumption DEF StatusInit, CursorsOK, n_status_sets, n_error_sets,
     InError, InStatus

\* Every string in the lists has a length.
LEMMA ListLen ==
  ASSUME CursorsOK
  PROVE  /\ \A i \in 1..n_error_sets : Len(error_list[i]) \in Nat
         /\ \A i \in 1..n_status_sets : Len(status_list[i]) \in Nat
<1>1. \A i \in 1..Len(error_list) : error_list[i] \in ErrorCodes
  BY DEF CursorsOK
<1>2. \A i \in 1..Len(status_list) : status_list[i] \in StatusCodes
  BY DEF CursorsOK
<1>. QED
  BY <1>1, <1>2, CodeLen DEF n_error_sets, n_status_sets

\* A turn of status_thread keeps the cursors where they may be.
LEMMA ThreadStep == ASSUME CursorsOK, status_thread PROVE CursorsOK'
<1>. DEFINE Cursors(e, s, i) ==
       /\ e \in Nat /\ s \in Nat /\ i \in Nat
       /\ e <= n_error_sets /\ s <= n_status_sets
       /\ ~(e < n_error_sets /\ s < n_status_sets)
       /\ i <= IF e < n_error_sets THEN Len(error_list[e + 1])
               ELSE IF s < n_status_sets THEN Len(status_list[s + 1]) ELSE 0
<1>1. n_status_sets \in Nat /\ n_error_sets \in Nat /\ n_status_sets > 0
  BY DEF CursorsOK, n_status_sets, n_error_sets
<1>2. Cursors(cur_error_set, cur_status_set, cur_elt)
  BY DEF CursorsOK, InError, InStatus
<1>3. /\ cur_error_set + 1 \in 1..n_error_sets \/ ~InError
      /\ cur_status_set + 1 \in 1..n_status_sets \/ ~InStatus
  BY <1>1, <1>2 DEF InError, InStatus
<1>4. /\ InError => Len(error_list[cur_error_set + 1]) \in Nat
      /\ InStatus => Len(status_list[cur_status_set + 1]) \in Nat
      /\ Len(status_list[1]) \in Nat
      /\ n_error_sets > 0 => Len(error_list[1]) \in Nat
  BY <1>1, <1>3, ListLen
<1>. SUFFICES Cursors(cur_error_set', cur_status_set', cur_elt')
  BY DEF CursorsOK, status_thread, InError, InStatus, n_error_sets,
     n_status_sets
<1>. HIDE DEF Cursors
<1>5. CASE InError /\ Digit(error_list[cur_error_set + 1], TRUE)
  BY <1>1, <1>2, <1>4, <1>5 DEF Digit, InError, Cursors
<1>6. CASE InError /\ EndOfError
  <2>1. CASE cur_error_set + 1 = n_error_sets
    BY <1>1, <1>2, <1>4, <1>6, <2>1 DEF EndOfError, InError, Cursors
  <2>2. CASE cur_error_set + 1 # n_error_sets
    <3>1. cur_error_set + 2 \in 1..n_error_sets
      BY <1>1, <1>2, <1>6, <2>2 DEF InError, Cursors
    <3>2. Len(error_list[cur_error_set + 2]) \in Nat
      BY <3>1, ListLen
    <3>. QED
      BY <1>1, <1>2, <1>6, <2>2, <3>2 DEF EndOfError, InError, Cursors
  <2>. QED
    BY <2>1, <2>2
<1>7. CASE ~InError /\ InStatus /\ Digit(status_list[cur_status_set + 1], FALSE)
  BY <1>1, <1>2, <1>4, <1>7 DEF Digit, InError, InStatus, Cursors
<1>8. CASE ~InError /\ InStatus /\ EndOfStatus
  <2>1. CASE cur_status_set + 1 = n_status_sets
    BY <1>1, <1>2, <1>4, <1>8, <2>1 DEF EndOfStatus, InError, InStatus, Cursors
  <2>2. CASE cur_status_set + 1 # n_status_sets
    <3>1. cur_status_set + 2 \in 1..n_status_sets
      BY <1>1, <1>2, <1>8, <2>2 DEF InStatus, Cursors
    <3>2. Len(status_list[cur_status_set + 2]) \in Nat
      BY <3>1, ListLen
    <3>. QED
      BY <1>1, <1>2, <1>8, <2>2, <3>2 DEF EndOfStatus, InError, InStatus, Cursors
  <2>. QED
    BY <2>1, <2>2
<1>9. CASE ~InError /\ ~InStatus /\ Restart
  BY <1>1, <1>2, <1>4, <1>9 DEF Restart, InError, InStatus, Cursors
<1>. QED
  BY <1>5, <1>6, <1>7, <1>8, <1>9 DEF status_thread

\* So do the calls of the other threads that replace or lengthen the statuses;
\* a list on display keeps its strings where they are.
LEMMA StatusStep ==
  ASSUME CursorsOK, NEW c \in StatusCodes, clear_status(c) \/ append_status(c)
  PROVE  CursorsOK'
<1>1. CASE clear_status(c)
  <2>1. status_list' \in Seq(StatusCodes) /\ Len(status_list') = 1
    BY <1>1 DEF clear_status
  <2>2. InStatus => ~InError
    BY DEF CursorsOK
  <2>3. InError' = InError /\ InStatus' = FALSE
    BY <1>1, <2>1 DEF clear_status, InError, InStatus, n_error_sets,
       n_status_sets
  <2>4. cur_elt' <= IF InError THEN Len(error_list[cur_error_set + 1]) ELSE 0
    <3>1. CASE InError
      BY <1>1, <2>2, <3>1 DEF CursorsOK, clear_status
    <3>2. CASE ~InError
      BY <1>1, <3>2 DEF CursorsOK, clear_status
    <3>. QED
      BY <3>1, <3>2
  <2>5. cur_elt' \in Nat /\ cur_status_set' = 1
    BY <1>1 DEF CursorsOK, clear_status
  <2>6. UNCHANGED <<error_list, cur_error_set>>
    BY <1>1 DEF clear_status
  <2>. QED
    BY <2>1, <2>3, <2>4, <2>5, <2>6, StatusAssumption DEF CursorsOK, n_error_sets,
       n_status_sets
<1>2. CASE append_status(c)
  <2>1. /\ status_list' \in Seq(StatusCodes) /\ Len(status_list') = Len(status_list) + 1
        /\ \A i \in 1..Len(status_list) : status_list'[i] = status_list[i]
    BY <1>2 DEF append_status, CursorsOK
  <2>2. UNCHANGED <<error_list, cur_error_set, cur_elt>>
    BY <1>2 DEF append_status
  <2>3. cur_status_set \in Nat /\ Len(status_list) \in Nat
        /\ cur_status_set <= Len(status_list)
    BY DEF CursorsOK, n_status_sets
  <2>4. InStatus' = InStatus /\ cur_status_set' \in Nat
        /\ cur_status_set' <= Len(status_list')
    BY <1>2, <2>1, <2>3 DEF append_status, InStatus, n_status_sets
  <2>5. InStatus => /\ cur_status_set' = cur_status_set
                    /\ status_list'[cur_status_set + 1] = status_list[cur_status_set + 1]
    BY <1>2, <2>1, <2>3 DEF append_status, InStatus, n_status_sets
  <2>6. Len(status_list') \in 1..MAX_STATUS_SETS
    BY <1>2, <2>1, <2>3, StatusAssumption DEF append_status, n_status_sets
  <2>7. InError' = InError
    BY <2>2 DEF InError, n_error_sets
  <2>. QED
    BY <2>1, <2>2, <2>4, <2>5, <2>6, <2>7 DEF CursorsOK, n_error_sets, n_status_sets
<1>. QED
  BY <1>1, <1>2

\* And a new error keeps them, although it lengthens the list that may be on
\* display.
LEMMA ErrorStep ==
  ASSUME CursorsOK, NEW c \in ErrorCodes, status_error(c)
  PROVE  CursorsOK'
<1>1. /\ error_list' \in Seq(ErrorCodes) /\ Len(error_list') = Len(error_list) + 1
      /\ \A i \in 1..Len(error_list) : error_list'[i] = error_list[i]
  BY DEF status_error, CursorsOK
<1>2. UNCHANGED <<status_list, cur_status_set, cur_elt>>
  BY DEF status_error
<1>3. cur_error_set \in Nat /\ Len(error_list) \in Nat /\ cur_error_set <= Len(error_list)
  BY DEF CursorsOK, n_error_sets
<1>4. InError' = InError /\ cur_error_set' \in Nat /\ cur_error_set' <= Len(error_list')
  BY <1>1, <1>3 DEF status_error, InError, n_error_sets
<1>5. InError => /\ cur_error_set' = cur_error_set
                 /\ error_list'[cur_error_set + 1] = error_list[cur_error_set + 1]
  BY <1>1, <1>3 DEF status_error, InError, n_error_sets
<1>6. Len(error_list') \in 0..MAX_ERROR_SETS
  BY <1>1, <1>3, StatusAssumption DEF status_error, n_error_sets
<1>7. InStatus' = InStatus
  BY <1>2 DEF InStatus, n_status_sets
<1>. QED
  BY <1>1, <1>2, <1>4, <1>5, <1>6, <1>7 DEF CursorsOK, n_error_sets, n_status_sets

\* The display's cursors never leave the lists, nor cur_elt the string shown.
THEOREM CursorsInBounds == StatusSpec => []CursorsOK
<1>1. CursorsOK /\ [StatusNext]_statusVars => CursorsOK'
  <2>. SUFFICES ASSUME CursorsOK, [StatusNext]_statusVars PROVE CursorsOK'
    OBVIOUS
  <2>1. CASE StatusNext
    BY <2>1, ThreadStep, StatusStep, ErrorStep DEF StatusNext
  <2>2. CASE UNCHANGED statusVars
    BY <2>2 DEF statusVars, CursorsOK, n_status_sets, n_error_sets, InError,
       InStatus
  <2>. QED
    BY <2>1, <2>2
<1>. QED
  BY <1>1, CursorsInit, PTL DEF StatusSpec

\* What is on display is an error until its last digit has been shown.
THEOREM Unbroken == StatusSpec => ErrorUnbroken
<1>. DEFINE Break == InError /\ cur_elt > 0 /\ cur_elt' = 0
                       => cur_elt = Len(error_list[cur_error_set + 1])
<1>1. CursorsOK /\ [StatusNext]_statusVars => [Break]_statusVars
  <2>. SUFFICES ASSUME CursorsOK, StatusNext, InError, cur_elt > 0, cur_elt' = 0
                PROVE  cur_elt = Len(error_list[cur_error_set + 1])
    OBVIOUS
  <2>0. cur_elt \in Nat /\ ~InStatus
    BY DEF CursorsOK
  <2>1. CASE status_thread
    <3>1. ~Digit(error_list[cur_error_set + 1], TRUE)
      BY <2>0 DEF Digit, Led
    <3>. QED
      BY <2>1, <3>1 DEF status_thread, EndOfError
  <2>2. ASSUME NEW c \in StatusCodes, clear_status(c) \/ append_status(c) PROVE FALSE
    BY <2>0, <2>2 DEF clear_status, append_status
  <2>3. ASSUME NEW c \in ErrorCodes, status_error(c) PROVE FALSE
    BY <2>0, <2>3 DEF status_error
  <2>. QED
    BY <2>1, <2>2, <2>3 DEF StatusNext
<1>. QED
  BY <1>1, CursorsInBounds, PTL DEF StatusSpec, ErrorUnbroken

-----------------------------------------------------------------------------
(* The ethernet simulators: definitions *)

\* The length that ssp_get's NS: leaves.
X == IF SCAN_LENGTH > MAX_NS THEN 0 ELSE SCAN_LENGTH

\* A thread between xfr_init()'s first write and its last.
Beginning == {"drain", "intr_on", "go"}

\* A client and its thread, up to the answer to EN.
Conversing(c) ==
  /\ client[c].pc \in 0..6
  /\ client[c].pc < 6 => conn[c] # "closed"
  /\ client[c].pc = 0 => tcp[c].pc = "none" /\ conn[c] = "none"
                         /\ client[c].cmd = Nothing /\ client[c].reply = 0
  /\ client[c].pc \in 1..3 =>
       \/ client[c].cmd = Script[client[c].pc] /\ client[c].reply = 0 /\ tcp[c].pc \in {"none", "recv"}
       \/ client[c].cmd = Nothing /\ (client[c].reply = 0 \/ tcp[c].pc = "recv")
  /\ client[c].pc >= 4 => client[c].cmd \in {Nothing, "DA"}
  /\ client[c].pc >= 3 \/ (client[c].pc = 2 /\ client[c].cmd = Nothing) => scan_xmit_length = X
  /\ tcp[c].pc \in Beginning \cup {"init"} => client[c].pc = 3

ClientTypes ==
  /\ DOMAIN client = Clients /\ DOMAIN tcp = Clients /\ DOMAIN conn = Clients
  /\ \A c \in Clients : /\ DOMAIN client[c] = {"pc", "cmd", "reply", "taken"}
                        /\ DOMAIN tcp[c] = {"pc", "rv", "closing"}

ClientInv ==
  /\ ClientTypes
  /\ \A c \in Clients : Conversing(c)

\* Nothing has been generated yet.
Fresh ==
  /\ ~enable /\ at = 0 /\ fifo = <<>> /\ scan = <<>>
  /\ ~intr.pending /\ intr.handler = "idle" /\ udp_sem = 0 /\ udp \notin {"read", "send"}

StartInv ==
  /\ starts \in 0..2
  /\ starts = 0 => Fresh /\ \A t \in Clients : tcp[t].pc \notin Beginning
  /\ starts = 1 => /\ scan_xmit_length = X /\ netsamples = X
                   /\ \A t \in Clients : tcp[t].pc \in Beginning => Fresh
                   /\ \A s, t \in Clients : tcp[s].pc \in Beginning /\ tcp[t].pc \in Beginning => s = t

\* The scans that udpThread has been told of or will be, and has not read.
One(b) == IF b THEN 1 ELSE 0
Owed ==
  udp_sem + One(udp = "read") + One(intr.handler = "post")
          + One(intr.pending /\ intr.handler # "ack")

\* The words of q scans.
Scans(q) == q * (X + 1)

\* The semaphore counts as many scans as the FIFO holds.
SemRoom == FifoSize < Scans(MaxSem + 1)

\* The FIFO holds q whole scans and the words of the next that are there.  No post
\* is without a scan; in simeth_2 no scan is without a post.
Holding(q) ==
  /\ Len(fifo) = Scans(q) + at
  /\ Owed <= q
  /\ SemRoom /\ two /\ intr.enabled => Owed = q

\* The words of each scan are consecutive, from 0.
Ordered ==
  \A i \in 1..Len(fifo), k \in Nat :
    Scans(k) < i /\ i <= Scans(k) + X + 1 => fifo[i] = i - 1 - Scans(k)

FlowTypes ==
  /\ program \in Programs
  /\ intr.pending \in BOOLEAN /\ intr.enabled \in BOOLEAN
  /\ DOMAIN intr = {"enabled", "pending", "handler"}
  /\ intr.handler \in {"idle", "post", "ack"} /\ (two => intr.handler # "ack")
  /\ udp_sem \in 0..MaxSem

FlowInv ==
  starts <= 1 =>
    /\ at \in 0..X /\ fifo \in Seq(Nat)
    /\ Len(fifo) <= FifoSize /\ (at > 0 => Len(fifo) - at + X + 1 <= FifoSize)
    /\ \E q \in Nat : Holding(q)
    /\ Ordered
    /\ scan = <<>> \/ (scan \in Seq(Nat) /\ Len(scan) = X + 1)
    /\ udp = "send" => scan = [i \in 1..X + 1 |-> i - 1]

SimInv == ClientInv /\ StartInv /\ FlowTypes /\ FlowInv

-----------------------------------------------------------------------------
(* The clients and their threads *)

\* A step of another connection leaves this one as it is, but for the length, that
\* NS: may set.
LEMMA OthersConverse ==
  ASSUME NEW d \in Clients, Conversing(d), UNCHANGED <<client[d], tcp[d], conn[d]>>,
         scan_xmit_length' = scan_xmit_length \/ scan_xmit_length' = X
  PROVE  Conversing(d)'
BY DEF Conversing

\* A step of one connection.
LEMMA OneConverses ==
  ASSUME ClientInv, NEW c \in Clients, ClientTypes', Conversing(c)',
         \A d \in Clients \ {c} : UNCHANGED <<client[d], tcp[d], conn[d]>>,
         scan_xmit_length' = scan_xmit_length \/ scan_xmit_length' = X
  PROVE  ClientInv'
BY OthersConverse DEF ClientInv

\* Where a conversation is between Connect and the answer to EN.
LEMMA ClientStep == ASSUME ClientInv, [SimNext]_simVars PROVE ClientInv'
<1> USE DEF Nothing
<1>1. CASE UNCHANGED <<client, tcp, conn, scan_xmit_length>>
  BY <1>1 DEF ClientInv, ClientTypes, Conversing
<1>2. CASE StartUp \/ GenerateWord \/ Handler \/ UdpThread \/ UNCHANGED simVars
  BY <1>1, <1>2 DEF StartUp, main_main, ethernet_init, EthernetFails, UdpReady, UdpBindFails,
     MainServes, ServerListens, ServerFails, StartupFrame, GenerateWord, Handler, sg_handler,
     AcknowledgeLast, PostLast, HandlerFrame, UdpThread, UdpBinds, UdpWait, UdpRead, UdpSend,
     UdpLost, simVars, set, users
<1>3. ASSUME NEW c \in Clients, Accept(c) PROVE ClientInv'
  <2>1. ClientTypes' /\ scan_xmit_length' = scan_xmit_length
    BY <1>3 DEF ClientInv, ClientTypes, Accept, Beginning
  <2>2. \A d \in Clients \ {c} : UNCHANGED <<client[d], tcp[d], conn[d]>>
    BY <1>3 DEF ClientInv, ClientTypes, Accept
  <2>3. Conversing(c)'
    BY <1>3 DEF ClientInv, ClientTypes, Accept, Conversing, Beginning
  <2> QED
    BY <2>1, <2>2, <2>3, OneConverses
<1>4. ASSUME NEW c \in Clients, TcpParse(c) PROVE ClientInv'
  <2>1. ClientTypes' /\ (scan_xmit_length' = scan_xmit_length \/ scan_xmit_length' = X)
    BY <1>4 DEF ClientInv, ClientTypes, TcpParse, ParseUP, ParseNS, ParseEN, ParseDA, Answer,
       TcpGoto, TcpAt, Disable, set, Beginning, X
  <2>2. \A d \in Clients \ {c} : UNCHANGED <<client[d], tcp[d], conn[d]>>
    BY <1>4 DEF ClientInv, ClientTypes, TcpParse, ParseUP, ParseNS, ParseEN, ParseDA, Answer,
       TcpGoto, TcpAt
  <2>3. Conversing(c)'
    <3> USE <1>4, <2>1 DEF ClientInv, ClientTypes, TcpParse, Answer, TcpGoto, TcpAt, Conversing,
            Beginning, X
    <3>0. scan_xmit_length = X => scan_xmit_length' = X
      OBVIOUS
    <3>1. CASE ParseUP(c)
      BY <3>0, <3>1 DEF ParseUP, Script
    <3>2. CASE ParseNS(c)
      BY <3>2 DEF ParseNS, Script
    <3>3. CASE ParseEN(c)
      BY <3>0, <3>3 DEF ParseEN, Script
    <3>4. CASE ParseDA(c)
      BY <3>0, <3>4 DEF ParseDA, Script, Disable
    <3> QED
      BY <3>1, <3>2, <3>3, <3>4
  <2> QED
    BY <2>1, <2>2, <2>3, OneConverses
<1>5. ASSUME NEW c \in Clients, Xfr(c) \/ TcpReply(c) \/ TcpClosed(c) PROVE ClientInv'
  <2>0. /\ UNCHANGED <<conn, scan_xmit_length>>
        /\ Xfr(c) \/ TcpClosed(c) => UNCHANGED client
    BY <1>5 DEF Xfr, XfrInit, drain_fifo, XfrEnableInterrupt, XfrEnable, XfrDisableInterrupt,
       XfrDisable, TcpReply, TcpClosed, TcpFrame, set, users
  <2>1. ClientTypes'
    BY <1>5, <2>0 DEF ClientInv, ClientTypes, Xfr, XfrInit, drain_fifo, XfrEnableInterrupt, XfrEnable,
       XfrDisableInterrupt, XfrDisable, TcpReply, TcpClosed, Disabled, Disable, Answer, TcpGoto, TcpAt,
       Beginning
  <2>2. \A d \in Clients \ {c} : UNCHANGED <<client[d], tcp[d], conn[d]>>
    BY <1>5, <2>0 DEF ClientInv, ClientTypes, Xfr, XfrInit, drain_fifo, XfrEnableInterrupt, XfrEnable,
       XfrDisableInterrupt, XfrDisable, TcpReply, TcpClosed, Disabled, Answer, TcpGoto, TcpAt
  <2>3. Conversing(c)'
    <3> USE <2>0 DEF ClientInv, ClientTypes, Answer, TcpGoto, TcpAt, Conversing, Beginning
    <3>1. CASE XfrInit(c) \/ drain_fifo(c) \/ XfrEnableInterrupt(c)
      BY <3>1 DEF XfrInit, drain_fifo, XfrEnableInterrupt, Xfr
    <3>2. CASE XfrEnable(c)
      BY <3>2 DEF XfrEnable, Xfr
    <3>3. CASE XfrDisableInterrupt(c) \/ XfrDisable(c)
      <4>1. client' = client /\ tcp[c].pc \in {"intr_off", "stop"}
        BY <3>3 DEF XfrDisableInterrupt, XfrDisable, Xfr
      <4>2. tcp'[c].pc \in {"intr_off", "stop", "gone", "reply"}
        <5>1. Disabled(c) => tcp'[c].pc \in {"gone", "reply"}
          <6>1. Disabled(c) => tcp' = [tcp EXCEPT ![c].pc = "gone"] \/ Answer(c, 200)
            BY Zenon DEF Disabled
          <6>2. tcp' = [tcp EXCEPT ![c].pc = "gone"] => tcp'[c].pc = "gone"
            OBVIOUS
          <6>3. Answer(c, 200) => tcp'[c].pc = "reply"
            OBVIOUS
          <6> QED
            BY <6>1, <6>2, <6>3, Zenon
        <5>2. Disabled(c) \/ tcp' = [tcp EXCEPT ![c].pc = "stop"] \/ tcp' = [tcp EXCEPT ![c].pc = "intr_off"]
          BY <3>3 DEF XfrDisableInterrupt, XfrDisable
        <5> QED
          BY <5>1, <5>2
      <4> QED
        BY <4>1, <4>2
    <3>4. CASE TcpReply(c)
      BY <3>4 DEF TcpReply
    <3>5. CASE TcpClosed(c)
      BY <3>5 DEF TcpClosed, Disable
    <3> QED
      BY <1>5, <3>1, <3>2, <3>3, <3>4, <3>5 DEF Xfr
  <2> QED
    BY <2>0, <2>1, <2>2, <2>3, OneConverses
<1>6. ASSUME NEW c \in Clients, Connect(c) \/ ssp_get(c) PROVE ClientInv'
  <2>0. UNCHANGED <<tcp, scan_xmit_length>>
    BY <1>6 DEF Connect, ssp_get, NextCommand, UdpReceive, set
  <2>1. ClientTypes'
    BY <1>6, <2>0 DEF ClientInv, ClientTypes, Connect, ssp_get, NextCommand, UdpReceive, Proceed,
       Script, Active
  <2>2. \A d \in Clients \ {c} : UNCHANGED <<client[d], tcp[d], conn[d]>>
    BY <1>6, <2>0 DEF ClientInv, ClientTypes, Connect, ssp_get, NextCommand, UdpReceive, Proceed
  <2>3. Conversing(c)'
    <3> USE <2>0 DEF ClientInv, ClientTypes, Conversing, Beginning, Proceed, Script
    <3>1. CASE Connect(c)
      BY <3>1 DEF Connect
    <3>2. CASE NextCommand(c)
      BY <3>2 DEF NextCommand, Active
    <3>3. CASE UdpReceive(c)
      <4>1. client[c].pc = 4 /\ client[c].cmd \in {Nothing, "DA"}
        BY <3>3 DEF UdpReceive, Active
      <4>2. client'[c].pc \in 4..5 /\ client'[c].cmd \in {Nothing, "DA"}
        <5>1. CASE client[c].taken = n_scans
          <6>1. Proceed(c, 5)
            BY <3>3, <4>1, <5>1 DEF UdpReceive
          <6>2. client' = [client EXCEPT ![c] = [@ EXCEPT !.pc = 5, !.reply = 0, !.cmd = "DA"]]
            BY <6>1
          <6> QED
            BY <6>2
        <5>2. CASE client[c].taken # n_scans
          BY <3>3, <4>1, <5>2 DEF UdpReceive
        <5> QED
          BY <5>1, <5>2
      <4>3. tcp[c].pc \notin {"drain", "intr_on", "go", "init"} /\ conn' = conn /\ scan_xmit_length = X
        BY <3>3, <4>1 DEF UdpReceive
      <4> QED
        BY <4>1, <4>2, <4>3
    <3> QED
      BY <1>6, <3>1, <3>2, <3>3 DEF ssp_get
  <2> QED
    BY <2>0, <2>1, <2>2, <2>3, OneConverses
<1> QED
  BY <1>2, <1>3, <1>4, <1>5, <1>6 DEF SimNext, TcpThread
-----------------------------------------------------------------------------
(* The first acquisition begins with nothing generated *)

\* Between its beginning and its end nothing changes the length.
LEMMA StartKept ==
  ASSUME StartInv, starts' = starts, netsamples' = netsamples,
         scan_xmit_length' = scan_xmit_length \/ scan_xmit_length' = X,
         Fresh => Fresh',
         \A t \in Clients : tcp'[t].pc \in Beginning => tcp[t].pc \in Beginning
  PROVE  StartInv'
BY DEF StartInv

\* Only the thread that begins it is between xfr_init() and xfr_enable(), and the
\* generator is off until it is done.
LEMMA StartStep == ASSUME ClientInv, FlowTypes, StartInv, [SimNext]_simVars PROVE StartInv'
<1>0. DOMAIN tcp = Clients /\ \A c \in Clients : DOMAIN tcp[c] = {"pc", "rv", "closing"}
  BY DEF ClientInv, ClientTypes
<1>1. CASE StartUp \/ GenerateWord \/ Handler \/ UdpThread \/ UNCHANGED simVars
  <2>1. UNCHANGED <<starts, netsamples, tcp, scan_xmit_length>>
    BY <1>1 DEF StartUp, main_main, ethernet_init, EthernetFails, UdpReady, UdpBindFails,
       MainServes, ServerListens, ServerFails, StartupFrame, GenerateWord, Handler, sg_handler,
       AcknowledgeLast, PostLast, HandlerFrame, UdpThread, UdpBinds, UdpWait, UdpRead, UdpSend,
       UdpLost, simVars, set, core
  <2>2. Fresh => Fresh'
    <3>1. CASE StartUp \/ UdpBinds
      BY <3>1 DEF StartUp, main_main, ethernet_init, EthernetFails, UdpReady, UdpBindFails, UdpBinds,
         MainServes, ServerListens, ServerFails, StartupFrame, UdpGoto, Fresh, core
    <3>2. CASE GenerateWord \/ Handler
      BY <3>2 DEF GenerateWord, Handler, sg_handler, AcknowledgeLast, PostLast, Fresh
    <3>3. CASE UdpWait \/ UdpRead \/ UdpSend \/ UdpLost
      BY <3>3 DEF UdpWait, UdpRead, UdpSend, UdpLost, UdpGoto, Fresh
    <3>4. CASE UNCHANGED simVars
      BY <3>4 DEF simVars, core, reader, Fresh
    <3> QED
      BY <1>1, <3>1, <3>2, <3>3, <3>4 DEF UdpThread
  <2> QED
    BY <2>1, <2>2, StartKept
<1>2. ASSUME NEW c \in Clients, Accept(c) \/ TcpParse(c) \/ TcpReply(c) \/ TcpClosed(c) PROVE StartInv'
  <2>1. UNCHANGED <<starts, netsamples>> /\ (scan_xmit_length' = scan_xmit_length \/ scan_xmit_length' = X)
    BY <1>2 DEF Accept, TcpParse, TcpReply, TcpClosed, TcpFrame, ParseUP, ParseNS, ParseEN, ParseDA,
       set, core, X
  <2>2. UNCHANGED <<enable, at, fifo, scan, intr, udp_sem, udp>>
    BY <1>2 DEF Accept, TcpParse, TcpReply, TcpClosed, TcpFrame, core, reader
  <2>3. \A t \in Clients : tcp'[t].pc \in Beginning => tcp[t].pc \in Beginning
    <3>1. CASE Accept(c) \/ TcpReply(c) \/ TcpClosed(c)
      BY <1>0, <3>1 DEF Accept, TcpReply, TcpClosed, Disable, TcpGoto, Beginning
    <3>2. CASE TcpParse(c)
      <4>1. Answer(c, 200) \/ Answer(c, 400) \/ TcpGoto(c, "recv", "init") \/ TcpGoto(c, "recv", Disable)
        BY <3>2 DEF TcpParse, ParseUP, ParseNS, ParseEN, ParseDA
      <4> QED
        <5>1. ASSUME NEW rv, Answer(c, rv) PROVE \A t \in Clients : tcp'[t].pc \in Beginning => tcp[t].pc \in Beginning
          BY <1>0, <5>1 DEF Answer, Beginning
        <5>2. CASE \E k \in {"init", "intr_off", "stop"} : tcp' = [tcp EXCEPT ![c].pc = k]
          BY <1>0, <5>2 DEF Beginning
        <5>3. Disable \in {"intr_off", "stop"}
          BY DEF Disable
        <5> QED
          BY <4>1, <5>1, <5>2, <5>3 DEF TcpGoto
    <3> QED
      BY <1>2, <3>1, <3>2
  <2> QED
    BY <2>1, <2>2, <2>3, StartKept DEF Fresh
<1>3. ASSUME NEW c \in Clients, XfrInit(c) PROVE StartInv'
  <2>1. /\ scan_xmit_length = X /\ scan_xmit_length' = X /\ netsamples' = X
        /\ ~enable' /\ at' = 0 /\ UNCHANGED <<fifo, intr, scan, udp_sem, udp>>
        /\ tcp[c].pc = "init"
    BY <1>3 DEF XfrInit, TcpFrame, TcpGoto, TcpAt, set, ClientInv, Conversing,
       set_scan_gen_enable, set_scan_gen_netsamples
  <2>2. starts = 0 => starts' = 1
    BY <1>3 DEF XfrInit
  <2>3. starts # 0 => starts' = 2
    BY <1>3 DEF XfrInit, StartInv
  <2>4. \A t \in Clients \ {c} : tcp'[t] = tcp[t]
    BY <1>0, <1>3 DEF XfrInit, TcpGoto
  <2>5. CASE starts = 0
    BY <2>1, <2>2, <2>4, <2>5 DEF StartInv, Fresh
  <2>6. CASE starts # 0
    BY <2>3, <2>6 DEF StartInv
  <2> QED
    BY <2>5, <2>6
<1>4. ASSUME NEW c \in Clients, drain_fifo(c) PROVE StartInv'
  <2>1. UNCHANGED <<starts, netsamples, scan_xmit_length>> /\ tcp[c].pc = "drain"
    BY <1>4 DEF drain_fifo, TcpFrame, TcpGoto, TcpAt, set
  <2>2. \A t \in Clients : tcp'[t].pc \in Beginning => tcp[t].pc \in Beginning
    BY <1>0, <1>4, <2>1 DEF drain_fifo, TcpGoto, Beginning
  <2>3. Fresh => Fresh'
    <3> SUFFICES ASSUME Fresh PROVE Fresh'
      OBVIOUS
    <3>1. fifo = <<>> /\ scan = <<>> /\ Len(<<>>) = 0
      BY DEF Fresh
    <3>2. SubSeq(<<>>, 1, 0) = <<>> /\ <<>> \o <<>> = <<>>
      OBVIOUS
    <3>3. fifo' = <<>> /\ scan' = <<>>
      BY <1>4, <3>1, <3>2 DEF drain_fifo, Read
    <3> QED
      BY <1>4, <3>3 DEF Fresh, drain_fifo, set_scan_gen_enable, TcpFrame
  <2> QED
    BY <2>1, <2>2, <2>3, StartKept
<1>5. ASSUME NEW c \in Clients, XfrEnableInterrupt(c) \/ XfrDisableInterrupt(c) \/ XfrDisable(c)
      PROVE  StartInv'
  <2>1. UNCHANGED <<starts, netsamples, scan_xmit_length>>
    BY <1>5 DEF XfrEnableInterrupt, XfrDisableInterrupt, XfrDisable, TcpFrame, set, core
  <2>2. \A t \in Clients : tcp'[t].pc \in Beginning => tcp[t].pc \in Beginning
    <3>1. CASE XfrEnableInterrupt(c)
      BY <1>0, <3>1 DEF XfrEnableInterrupt, TcpGoto, TcpAt, Beginning
    <3>2. Disabled(c) => tcp' = [tcp EXCEPT ![c].pc = "gone"] \/ Answer(c, 200)
      BY Zenon DEF Disabled
    <3>3. CASE Answer(c, 200)
      BY <1>0, <3>3 DEF Answer, Beginning
    <3>4. CASE \E k \in {"gone", "stop", "intr_off"} : tcp' = [tcp EXCEPT ![c].pc = k]
      BY <1>0, <3>4 DEF Beginning
    <3> QED
      BY <1>5, <3>1, <3>2, <3>3, <3>4 DEF XfrDisableInterrupt, XfrDisable
  <2>3. Fresh => Fresh'
    BY <1>5 DEF XfrEnableInterrupt, XfrDisableInterrupt, XfrDisable, TcpFrame, core, Fresh,
       set_scan_gen_enable, FlowTypes
  <2> QED
    BY <2>1, <2>2, <2>3, StartKept
<1>6. ASSUME NEW c \in Clients, XfrEnable(c) PROVE StartInv'
  <2>1. UNCHANGED <<starts, netsamples, scan_xmit_length>> /\ tcp[c].pc = "go"
    BY <1>6 DEF XfrEnable, TcpFrame, TcpAt, set
  <2>2. /\ tcp'[c].pc = "reply"
        /\ \A t \in Clients \ {c} : tcp'[t] = tcp[t]
    BY <1>0, <1>6 DEF XfrEnable, Answer
  <2> QED
    BY <2>1, <2>2 DEF StartInv, Beginning
<1>7. ASSUME NEW c \in Clients, Connect(c) \/ ssp_get(c) PROVE StartInv'
  <2>1. UNCHANGED <<starts, netsamples, tcp, scan_xmit_length, enable, at, fifo, scan, intr, udp_sem, udp>>
    BY <1>7 DEF Connect, ssp_get, NextCommand, UdpReceive, set, core, reader
  <2> QED
    BY <2>1, StartKept DEF Fresh
<1> QED
  BY <1>1, <1>2, <1>3, <1>4, <1>5, <1>6, <1>7 DEF SimNext, TcpThread, Xfr
-----------------------------------------------------------------------------
(* The flow of scans *)

\* NS: leaves a length.
LEMMA XNat == X \in Nat
  BY SimEthAssumption DEF X

\* Scans is linear, with steps of X + 1 words.
LEMMA ScansAre ==
  /\ Scans(0) = 0
  /\ \A q \in Nat : Scans(q) \in Nat /\ Scans(q + 1) = Scans(q) + X + 1
  /\ \A k, q \in Nat : k < q => Scans(k) + X + 1 <= Scans(q)
<1> USE XNat
<1> DEFINE N == X + 1
<1>1. N \in Nat /\ N > 0 /\ \A q \in Nat : Scans(q) = q * N
  BY DEF Scans
<1> HIDE DEF N
<1>2. \A q \in Nat : q * N \in Nat /\ (q + 1) * N = q * N + N /\ 0 * N = 0
  BY <1>1
<1>3. ASSUME NEW k \in Nat, NEW q \in Nat, k < q PROVE k * N + N <= q * N
  <2>1. PICK d \in Nat : q = (k + 1) + d
    <3>1. q - (k + 1) \in Nat /\ q = (k + 1) + (q - (k + 1))
      BY <1>3
    <3> QED
      BY <3>1
  <2>2. ((k + 1) + d) * N = (k + 1) * N + d * N /\ d * N \in Nat /\ (k + 1) * N \in Nat
    BY <1>1
  <2> QED
    BY <1>1, <1>2, <2>1, <2>2
<1> QED
  BY <1>1, <1>2, <1>3 DEF N

\* A word belongs to one scan.
LEMMA OneScan ==
  ASSUME NEW q \in Nat, NEW k \in Nat, NEW a \in 0..X,
         Scans(k) < Scans(q) + a + 1, Scans(q) + a + 1 <= Scans(k) + X + 1
  PROVE  k = q
<1>1. k < q => Scans(k) + X + 1 <= Scans(q)
  BY ScansAre
<1>2. q < k => Scans(q) + X + 1 <= Scans(k)
  BY ScansAre
<1>3. Scans(k) \in Nat /\ Scans(q) \in Nat
  BY ScansAre
<1> QED
  BY <1>1, <1>2, <1>3, XNat

\* The interrupt, the program and the semaphore.
LEMMA FlowTypesStep == ASSUME FlowTypes, [SimNext]_simVars PROVE FlowTypes'
<1> USE SimEthAssumption
<1>1. CASE UNCHANGED <<program, intr, udp_sem>>
  BY <1>1 DEF FlowTypes, two
<1>2. CASE StartUp \/ UNCHANGED simVars
  BY <1>1, <1>2 DEF StartUp, main_main, ethernet_init, EthernetFails, UdpReady, UdpBindFails,
     MainServes, ServerListens, ServerFails, StartupFrame, simVars, reader
<1>3. CASE GenerateWord
  BY <1>3 DEF GenerateWord, FlowTypes, two, reader
<1>4. CASE Handler
  <2> USE DEF FlowTypes, HandlerFrame, two
  <2>1. SemPost => udp_sem' \in 0..MaxSem
    BY DEF SemPost
  <2>2. CASE sg_handler
    BY <2>1, <2>2 DEF sg_handler, AcknowledgesFirst
  <2>3. CASE AcknowledgeLast
    BY <2>3 DEF AcknowledgeLast
  <2>4. CASE PostLast
    BY <2>1, <2>4 DEF PostLast
  <2> QED
    BY <1>4, <2>2, <2>3, <2>4 DEF Handler
<1>5. CASE UdpThread
  BY <1>5 DEF UdpThread, UdpBinds, UdpWait, UdpRead, UdpSend, UdpLost, StartupFrame, FlowTypes, two
<1>6. ASSUME NEW c \in Clients, XfrEnableInterrupt(c) \/ XfrDisableInterrupt(c) PROVE FlowTypes'
  BY <1>6 DEF XfrEnableInterrupt, XfrDisableInterrupt, TcpFrame, FlowTypes, two
<1>7. ASSUME NEW c \in Clients, XfrInit(c) \/ drain_fifo(c) \/ XfrEnable(c) \/ XfrDisable(c)
      PROVE  FlowTypes'
  BY <1>1, <1>7 DEF XfrInit, drain_fifo, XfrEnable, XfrDisable, TcpFrame
<1>8. ASSUME NEW c \in Clients,
             \/ Accept(c) \/ TcpParse(c) \/ TcpReply(c) \/ TcpClosed(c) \/ Connect(c) \/ ssp_get(c)
      PROVE  FlowTypes'
  BY <1>1, <1>8 DEF Accept, TcpParse, TcpReply, TcpClosed, TcpFrame, Connect, ssp_get, NextCommand,
     UdpReceive, reader
<1> QED
  BY <1>2, <1>3, <1>4, <1>5, <1>6, <1>7, <1>8 DEF SimNext, TcpThread, Xfr

\* What a step must keep for the flow to be as before.
LEMMA FlowKept ==
  ASSUME FlowInv, FlowTypes, UNCHANGED <<program, at, fifo, scan, udp_sem, intr>>,
         starts' <= 1 => starts <= 1,
         udp' = udp \/ (udp # "read" /\ udp' \notin {"read", "send"})
  PROVE  FlowInv'
BY DEF FlowInv, FlowTypes, Holding, Owed, One, Ordered, two

\* Each word goes where it belongs, and with the last one a scan is complete.
LEMMA WordFlows == ASSUME StartInv, FlowTypes, FlowInv, GenerateWord PROVE FlowInv'
<1> USE XNat
<1>1. UNCHANGED <<program, starts, udp_sem, udp, scan>> /\ enable
  BY DEF GenerateWord, reader
<1> SUFFICES ASSUME starts' <= 1 PROVE FlowInv'
  BY DEF FlowInv
<1>2. starts = 1 /\ netsamples = X
  BY <1>1 DEF StartInv, Fresh
<1>3. at \in 0..X /\ fifo \in Seq(Nat) /\ Len(fifo) \in Nat
  BY <1>2 DEF FlowInv
<1>4. PICK q \in Nat : Holding(q)
  BY <1>2 DEF FlowInv
<1>5. Scans(q) \in Nat /\ Scans(q + 1) = Scans(q) + X + 1 /\ Len(fifo) = Scans(q) + at
  BY <1>4, ScansAre DEF Holding
<1>6. /\ fifo' \in Seq(Nat) /\ Len(fifo') = Len(fifo) + 1 /\ fifo'[Len(fifo) + 1] = at
      /\ \A i \in 1..Len(fifo) : fifo'[i] = fifo[i]
  BY <1>3 DEF GenerateWord
<1>7. Ordered'
  <2> SUFFICES ASSUME NEW i \in 1..Len(fifo'), NEW k \in Nat, Scans(k) < i, i <= Scans(k) + X + 1
               PROVE  fifo'[i] = i - 1 - Scans(k)
    BY DEF Ordered, Scans
  <2>1. CASE i <= Len(fifo)
    <3>1. i \in 1..Len(fifo)
      BY <1>3, <1>6, <2>1
    <3> QED
      BY <1>2, <1>6, <3>1 DEF FlowInv, Ordered
  <2>2. CASE i = Len(fifo) + 1
    <3>1. k = q
      BY <1>3, <1>5, <2>2, OneScan
    <3> QED
      BY <1>3, <1>5, <1>6, <2>2, <3>1
  <2> QED
    BY <1>3, <1>6, <2>1, <2>2
<1>8. /\ at = 0 => Len(fifo) + X + 1 <= FifoSize
      /\ at > 0 => Len(fifo) - at + X + 1 <= FifoSize
  BY <1>2, <1>3 DEF GenerateWord, FlowInv
<1>9. CASE at = X
  <2>1. at' = 0 /\ intr' = [intr EXCEPT !.pending = TRUE]
    BY <1>2, <1>9 DEF GenerateWord
  <2>2. ~(intr.enabled /\ intr.pending /\ intr.handler # "ack")
    BY <1>2, <1>9 DEF GenerateWord
  <2>3. intr'.pending = TRUE /\ intr'.enabled = intr.enabled /\ intr'.handler = intr.handler
    BY <2>1 DEF FlowTypes
  <2>4. udp_sem \in Nat
    BY DEF FlowTypes
  <2>5. Owed' \in Nat /\ Owed \in Nat /\ Owed' <= Owed + 1
    BY <1>1, <2>3, <2>4 DEF Owed, One
  <2>6. two /\ intr.enabled => Owed' = Owed + 1
    BY <1>1, <2>2, <2>3, <2>4 DEF Owed, One, FlowTypes
  <2>7. Len(fifo') = Scans(q + 1) + at'
    BY <1>3, <1>5, <1>6, <1>9, <2>1
  <2>8. Holding(q + 1)'
    <3>1. Owed' <= q + 1 /\ (SemRoom /\ two /\ intr.enabled => Owed' = q + 1)
      BY <1>4, <2>5, <2>6 DEF Holding
    <3> QED
      BY <1>1, <2>3, <2>7, <3>1 DEF Holding, two, SemRoom, Scans
  <2>9. Len(fifo') <= FifoSize
    BY <1>3, <1>6, <1>8, <1>9, SimEthAssumption
  <2>10. q + 1 \in Nat
    OBVIOUS
  <2> QED
    BY <1>1, <1>2, <1>6, <1>7, <2>1, <2>8, <2>9, <2>10 DEF FlowInv
<1>10. CASE at # X
  <2>1. at' = at + 1 /\ intr' = intr
    BY <1>2, <1>10 DEF GenerateWord
  <2>2. Len(fifo') = Scans(q) + at'
    BY <1>3, <1>5, <1>6, <2>1
  <2>3. Holding(q)'
    BY <1>1, <1>4, <2>1, <2>2 DEF Holding, Owed, One, two, SemRoom, Scans
  <2>4. Len(fifo') <= FifoSize /\ Len(fifo') - at' + X + 1 <= FifoSize /\ at' \in 0..X
    BY <1>3, <1>6, <1>8, <1>10, <2>1, SimEthAssumption
  <2> QED
    BY <1>1, <1>2, <1>6, <1>7, <2>3, <2>4 DEF FlowInv
<1> QED
  BY <1>9, <1>10

\* The semaphore does not count beyond the scans in the FIFO.
LEMMA SemHolds ==
  ASSUME FlowTypes, NEW q \in Nat, Holding(q), at \in Nat, Len(fifo) <= FifoSize, SemRoom
  PROVE  q <= MaxSem
<1>1. Len(fifo) = Scans(q) + at /\ FifoSize < Scans(MaxSem + 1)
  BY DEF Holding, SemRoom
<1>2. MaxSem \in Nat /\ FifoSize \in Nat
  BY SimEthAssumption
<1>3. Scans(q) \in Nat /\ Scans(MaxSem + 1) \in Nat
  <2>1. MaxSem + 1 \in Nat
    BY <1>2
  <2> QED
    BY <2>1, ScansAre
<1>4. MaxSem + 1 < q => Scans(MaxSem + 1) + X + 1 <= Scans(q)
  <2>1. MaxSem + 1 \in Nat
    BY <1>2
  <2> QED
    BY <2>1, ScansAre
<1>5. Scans(q) < Scans(MaxSem + 1)
  BY <1>1, <1>2, <1>3
<1>6. q # MaxSem + 1 /\ ~(MaxSem + 1 < q)
  BY <1>3, <1>4, <1>5, XNat
<1> QED
  BY <1>2, <1>6

\* The handler passes on what is pending.
LEMMA PostFlows == ASSUME StartInv, FlowTypes, FlowInv, Handler PROVE FlowInv'
<1> USE SimEthAssumption
<1>1. UNCHANGED <<program, starts, at, fifo, scan, udp>>
  BY DEF Handler, sg_handler, AcknowledgeLast, PostLast, HandlerFrame, core
<1> SUFFICES ASSUME starts' <= 1 PROVE FlowInv'
  BY DEF FlowInv
<1>2. starts <= 1 /\ at \in 0..X /\ Len(fifo) <= FifoSize
  BY <1>1 DEF FlowInv
<1>3. PICK q \in Nat : Holding(q)
  BY <1>2 DEF FlowInv
<1>4. Owed \in Nat /\ udp_sem \in Nat
  BY DEF FlowTypes, Owed, One
<1>5. /\ SemPost => udp_sem' <= udp_sem + 1 /\ udp_sem' \in Nat
      /\ SemPost /\ udp_sem < MaxSem => udp_sem' = udp_sem + 1
  BY <1>4 DEF SemPost
<1>a. sg_handler => /\ intr'.enabled = intr.enabled
                    /\ AcknowledgesFirst => intr'.pending = FALSE /\ intr'.handler = "post"
                                            /\ udp_sem' = udp_sem
                    /\ ~AcknowledgesFirst => intr'.pending = intr.pending /\ intr'.handler = "ack"
  BY DEF sg_handler, FlowTypes
<1>6. intr'.enabled = intr.enabled /\ Owed' <= Owed /\ Owed' \in Nat
  <2> USE <1>1, <1>4, <1>5 DEF FlowTypes, Owed, One
  <2>1. CASE sg_handler
    <3>0. intr.pending = TRUE /\ intr.handler = "idle"
      BY <2>1 DEF sg_handler, Running
    <3>1. CASE AcknowledgesFirst
      <4>1. intr'.pending = FALSE /\ intr'.handler = "post" /\ udp_sem' = udp_sem
        BY <1>a, <2>1, <3>1
      <4>2. Owed = udp_sem + One(udp = "read") + 0 + 1
        BY <3>0
      <4>3. Owed' = udp_sem + One(udp = "read") + 1 + 0
        BY <4>1
      <4> QED
        BY <1>a, <2>1, <4>2, <4>3
    <3>2. CASE ~AcknowledgesFirst
      <4>1. intr'.handler = "ack" /\ udp_sem' <= udp_sem + 1 /\ udp_sem' \in Nat
        BY <1>a, <2>1, <3>2 DEF sg_handler
      <4>2. Owed = udp_sem + One(udp = "read") + 0 + 1
        BY <3>0
      <4>3. Owed' = udp_sem' + One(udp = "read") + 0 + 0
        BY <4>1
      <4>4. intr'.enabled = intr.enabled
        BY <1>a, <2>1
      <4>5. One(udp = "read") \in Nat
        OBVIOUS
      <4> HIDE <1>1, <1>5 DEF FlowTypes, Owed, One
      <4> QED
        BY <4>1, <4>2, <4>3, <4>4, <4>5
    <3> QED
      BY <3>1, <3>2
  <2>2. CASE AcknowledgeLast
    BY <2>2 DEF AcknowledgeLast
  <2>3. CASE PostLast
    BY <2>3 DEF PostLast
  <2> QED
    BY <2>1, <2>2, <2>3 DEF Handler
<1>7. SemRoom /\ two /\ intr.enabled => Owed' = Owed
  <2> SUFFICES ASSUME SemRoom, two, intr.enabled PROVE Owed' = Owed
    OBVIOUS
  <2>1. Owed <= MaxSem
    BY <1>2, <1>3, <1>4, SemHolds, XNat DEF Holding
  <2> USE <1>1, <1>4, <1>5 DEF FlowTypes, Owed, One
  <2>2. CASE sg_handler
    BY <1>a, <2>2 DEF sg_handler, AcknowledgesFirst, Running
  <2>3. CASE PostLast
    BY <2>1, <2>3 DEF PostLast
  <2>4. ~AcknowledgeLast
    BY DEF AcknowledgeLast
  <2> QED
    BY <2>2, <2>3, <2>4 DEF Handler
<1>8. Holding(q)'
  BY <1>1, <1>3, <1>4, <1>6, <1>7 DEF Holding, SemRoom, Scans, two
<1> QED
  BY <1>1, <1>2, <1>8 DEF FlowInv, Ordered

\* udpThread takes a post, and then the scan that is there for it.
LEMMA ReadFlows == ASSUME StartInv, FlowTypes, FlowInv, UdpThread PROVE FlowInv'
<1> USE XNat
<1>0. starts' = starts
  BY DEF UdpThread, UdpBinds, UdpWait, UdpRead, UdpSend, UdpLost, StartupFrame
<1>1. CASE UdpBinds \/ UdpSend \/ UdpLost
  BY <1>0, <1>1, FlowKept DEF UdpBinds, UdpSend, UdpLost, UdpGoto, StartupFrame, core
<1>2. CASE UdpWait
  <2>1. /\ UNCHANGED <<program, at, fifo, scan, intr>> /\ udp = "wait" /\ udp' = "read"
        /\ udp_sem > 0 /\ udp_sem' = udp_sem - 1
    BY <1>2 DEF UdpWait, UdpGoto, core
  <2>2. Owed' = Owed
    BY <2>1 DEF Owed, One, FlowTypes
  <2> QED
    BY <1>0, <2>1, <2>2 DEF FlowInv, Holding, Ordered, two
<1>3. CASE UdpRead
  <2> SUFFICES ASSUME starts <= 1 PROVE FlowInv'
    BY <1>0 DEF FlowInv
  <2>1. /\ UNCHANGED <<program, at, intr, udp_sem>> /\ udp = "read"
        /\ udp' = IF Len(fifo) < nwords THEN "wait" ELSE "send"
        /\ Read(nwords)
    BY <1>3 DEF UdpRead, UdpGoto
  <2>2. starts = 1 /\ nwords = X + 1
    BY <2>1 DEF StartInv, Fresh, nwords
  <2>3. at \in 0..X /\ fifo \in Seq(Nat) /\ Len(fifo) \in Nat
    BY DEF FlowInv
  <2>4. PICK q \in Nat : Holding(q)
    BY DEF FlowInv
  <2>5. Owed' = Owed - 1 /\ Owed \in Nat /\ Owed >= 1 /\ udp_sem \in Nat
    BY <2>1 DEF Owed, One, FlowTypes
  <2>6. PICK r \in Nat : q = r + 1
    <3>1. q - 1 \in Nat /\ q = (q - 1) + 1
      BY <2>4, <2>5 DEF Holding
    <3> QED
      BY <3>1
  <2>7. /\ Scans(r) \in Nat /\ Len(fifo) = Scans(r) + X + 1 + at
        /\ X + 1 <= Len(fifo)
    <3>1. Scans(r + 1) = Scans(r) + X + 1 /\ Scans(r) \in Nat
      BY ScansAre
    <3> QED
      BY <2>3, <2>4, <2>6, <3>1 DEF Holding
  <2>8. udp' = "send"
    BY <2>1, <2>2, <2>3, <2>7
  <2>9. fifo' = SubSeq(fifo, (X + 1) + 1, Len(fifo))
        /\ scan' = SubSeq(fifo, 1, X + 1) \o SubSeq(scan, (X + 1) + 1, Len(scan))
    <3>1. (IF nwords < Len(fifo) THEN nwords ELSE Len(fifo)) = X + 1
      BY <2>2, <2>3, <2>7
    <3> QED
      BY <2>1, <3>1 DEF Read
  <2>10. /\ fifo' \in Seq(Nat) /\ Len(fifo') = Scans(r) + at
         /\ \A i \in 1..Len(fifo') : fifo'[i] = fifo[i + X + 1]
    <3>1. (X + 1) + 1 \in Int /\ Len(fifo) \in Int /\ \A i \in (X + 1) + 1..Len(fifo) : fifo[i] \in Nat
      BY <2>3
    <3>2. /\ SubSeq(fifo, (X + 1) + 1, Len(fifo)) \in Seq(Nat)
          /\ Len(SubSeq(fifo, (X + 1) + 1, Len(fifo)))
               = IF (X + 1) + 1 <= Len(fifo) THEN Len(fifo) - ((X + 1) + 1) + 1 ELSE 0
          /\ \A i \in 1..Len(fifo) - ((X + 1) + 1) + 1 :
               SubSeq(fifo, (X + 1) + 1, Len(fifo))[i] = fifo[(X + 1) + 1 + i - 1]
      BY <3>1, SubSeqProperties
    <3>a. (X + 1) + 1 <= Len(fifo) + 1 /\ Len(fifo) - ((X + 1) + 1) + 1 = Scans(r) + at
      BY <2>3, <2>7
    <3>b. Len(fifo') = Scans(r) + at
      BY <2>3, <2>7, <2>9, <3>2, <3>a
    <3>3. fifo' \in Seq(Nat) /\ Len(fifo') = Scans(r) + at
      BY <2>9, <3>2, <3>b
    <3>4. ASSUME NEW i \in 1..Len(fifo') PROVE fifo'[i] = fifo[i + X + 1]
      <4>1. i \in 1..Len(fifo) - ((X + 1) + 1) + 1 /\ (X + 1) + 1 + i - 1 = i + X + 1
        BY <2>3, <2>7, <3>3
      <4> QED
        BY <2>9, <3>2, <4>1
    <3> QED
      BY <3>3, <3>4
  <2>11. Ordered'
    <3> SUFFICES ASSUME NEW i \in 1..Len(fifo'), NEW k \in Nat, Scans(k) < i, i <= Scans(k) + X + 1
                 PROVE  fifo'[i] = i - 1 - Scans(k)
      BY DEF Ordered, Scans
    <3>1. Scans(k + 1) = Scans(k) + X + 1 /\ Scans(k) \in Nat /\ k + 1 \in Nat
      BY ScansAre
    <3>2. i + X + 1 \in 1..Len(fifo)
      BY <2>3, <2>7, <2>10
    <3>3. Scans(k + 1) < i + X + 1 /\ i + X + 1 <= Scans(k + 1) + X + 1
      BY <3>1
    <3>4. fifo[i + X + 1] = (i + X + 1) - 1 - Scans(k + 1)
      BY <3>1, <3>2, <3>3 DEF FlowInv, Ordered
    <3>5. fifo'[i] = fifo[i + X + 1]
      BY <2>10
    <3> QED
      BY <3>1, <3>4, <3>5
  <2>12. scan' \in Seq(Nat) /\ Len(scan') = X + 1 /\ scan' = [i \in 1..X + 1 |-> i - 1]
    <3> DEFINE first == SubSeq(fifo, 1, X + 1)
    <3>1. SubSeq(scan, (X + 1) + 1, Len(scan)) = <<>>
      <4>1. scan \in Seq(Nat) /\ Len(scan) \in Nat /\ Len(scan) <= X + 1
        <5>1. <<>> \in Seq(Nat) /\ Len(<<>>) = 0
          OBVIOUS
        <5>2. scan = <<>> \/ (scan \in Seq(Nat) /\ Len(scan) = X + 1)
          BY DEF FlowInv
        <5>3. CASE scan = <<>>
          BY <5>1, <5>3
        <5>4. CASE scan \in Seq(Nat) /\ Len(scan) = X + 1
          BY <5>4
        <5> QED
          BY <5>2, <5>3, <5>4
      <4>2. Len(scan) \in Int /\ (X + 1) + 1 \in Int /\ Len(scan) < (X + 1) + 1
        BY <4>1
      <4> QED
        BY <4>2, SubSeqEmpty
    <3>2. first \in Seq(Nat) /\ Len(first) = X + 1 /\ \A i \in 1..X + 1 : first[i] = fifo[i]
      BY <2>3, <2>7
    <3> HIDE DEF first
    <3>3. scan' = first
      <4>1. scan' = first \o <<>>
        BY <2>9, <3>1 DEF first
      <4> QED
        BY <3>2, <4>1
    <3>4. ASSUME NEW i \in 1..X + 1 PROVE first[i] = i - 1
      <4>1. i \in 1..Len(fifo)
        BY <2>3, <2>7
      <4>2. Scans(0) = 0
        BY ScansAre
      <4>3. fifo[i] = i - 1 - 0
        BY <4>1, <4>2 DEF FlowInv, Ordered
      <4> QED
        BY <3>2, <4>3
    <3>5. first = [i \in 1..X + 1 |-> i - 1]
      BY <3>2, <3>4
    <3> QED
      BY <3>2, <3>3, <3>5
  <2>13. Holding(r)'
    <3>1. Owed' <= r /\ (SemRoom /\ two /\ intr.enabled => Owed' = r)
      BY <2>4, <2>5, <2>6 DEF Holding
    <3> QED
      BY <2>1, <2>10, <3>1 DEF Holding, two, SemRoom, Scans
  <2>14. Len(fifo') <= FifoSize /\ (at' > 0 => Len(fifo') - at' + X + 1 <= FifoSize)
    <3>1. FifoSize \in Nat /\ Len(fifo) <= FifoSize
      BY SimEthAssumption DEF FlowInv
    <3> QED
      BY <2>1, <2>3, <2>7, <2>10, <3>1
  <2> QED
    BY <2>1, <2>3, <2>6, <2>10, <2>11, <2>12, <2>13, <2>14 DEF FlowInv
<1> QED
  BY <1>1, <1>2, <1>3 DEF UdpThread

\* The TCP threads write the registers before there is anything in the FIFO, or turn
\* the interrupt off, or the generator.
LEMMA FlowStep == ASSUME ClientInv, StartInv, FlowTypes, FlowInv, [SimNext]_simVars PROVE FlowInv'
<1>1. CASE StartUp \/ UNCHANGED simVars
  BY <1>1, FlowKept DEF StartUp, main_main, ethernet_init, EthernetFails, UdpReady, UdpBindFails,
     MainServes, ServerListens, ServerFails, StartupFrame, UdpGoto, simVars, core, reader
<1>2. CASE GenerateWord
  BY <1>2, WordFlows
<1>3. CASE Handler
  BY <1>3, PostFlows
<1>4. CASE UdpThread
  BY <1>4, ReadFlows
<1>5. ASSUME NEW c \in Clients,
             \/ Accept(c) \/ TcpParse(c) \/ TcpReply(c) \/ TcpClosed(c) \/ Connect(c) \/ ssp_get(c)
             \/ XfrEnable(c) \/ XfrDisable(c)
      PROVE  FlowInv'
  <2>1. UNCHANGED <<program, at, fifo, scan, udp_sem, intr, udp, starts>>
    BY <1>5 DEF Accept, TcpParse, TcpReply, TcpClosed, TcpFrame, Connect, ssp_get, NextCommand,
       UdpReceive, XfrEnable, XfrDisable, core, reader
  <2> QED
    BY <2>1, FlowKept
<1>6. ASSUME NEW c \in Clients, XfrInit(c) PROVE FlowInv'
  <2>1. starts' <= 1 => starts = 0
    BY <1>6 DEF XfrInit, StartInv
  <2>2. UNCHANGED <<program, fifo, scan, udp_sem, intr, udp>> /\ at' = 0
    BY <1>6 DEF XfrInit, TcpFrame
  <2>3. CASE starts' <= 1
    <3>1. at' = at /\ starts <= 1
      BY <2>1, <2>2, <2>3 DEF StartInv, Fresh
    <3> QED
      BY <2>2, <3>1, FlowKept
  <2> QED
    BY <2>3 DEF FlowInv
<1>7. ASSUME NEW c \in Clients, drain_fifo(c) \/ XfrEnableInterrupt(c) PROVE FlowInv'
  <2>1. UNCHANGED <<program, at, udp_sem, udp, starts>> /\ tcp[c].pc \in Beginning
    BY <1>7 DEF drain_fifo, XfrEnableInterrupt, TcpFrame, TcpGoto, TcpAt, core, Beginning
  <2> SUFFICES ASSUME starts' <= 1 PROVE FlowInv'
    BY DEF FlowInv
  <2>2. Fresh /\ starts = 1
    BY <2>1 DEF StartInv
  <2>3. CASE drain_fifo(c)
    <3>1. fifo = <<>> /\ scan = <<>> /\ Len(<<>>) = 0
      BY <2>2 DEF Fresh
    <3>2. SubSeq(<<>>, 1, 0) = <<>> /\ <<>> \o <<>> = <<>>
      OBVIOUS
    <3>3. fifo' = fifo /\ scan' = scan
      BY <2>3, <3>1, <3>2 DEF drain_fifo, Read
    <3>4. intr' = intr
      BY <2>3 DEF drain_fifo
    <3> QED
      BY <2>1, <3>3, <3>4, FlowKept
  <2>4. CASE XfrEnableInterrupt(c)
    <3>1. UNCHANGED <<fifo, scan>> /\ intr' = [intr EXCEPT !.enabled = TRUE]
      BY <2>4 DEF XfrEnableInterrupt, core
    <3>2. intr'.pending = intr.pending /\ intr'.handler = intr.handler
      BY <3>1 DEF FlowTypes
    <3>3. Owed = 0
      BY <2>2 DEF Fresh, Owed, One
    <3>4. Owed' = 0
      BY <2>1, <2>2, <3>2 DEF Fresh, Owed, One
    <3>5. Holding(0)'
      <4>1. Len(fifo') = 0 /\ at' = 0 /\ Scans(0) = 0
        BY <2>1, <2>2, <3>1, ScansAre DEF Fresh
      <4> QED
        BY <3>4, <4>1 DEF Holding, Scans
    <3> QED
      BY <2>1, <3>1, <3>5 DEF FlowInv, Ordered
  <2> QED
    BY <1>7, <2>3, <2>4
<1>8. ASSUME NEW c \in Clients, XfrDisableInterrupt(c) PROVE FlowInv'
  <2>1. UNCHANGED <<program, at, udp_sem, udp, starts, fifo, scan>>
        /\ intr' = [intr EXCEPT !.enabled = FALSE]
    BY <1>8 DEF XfrDisableInterrupt, TcpFrame, core
  <2>2. intr'.pending = intr.pending /\ intr'.handler = intr.handler /\ intr'.enabled = FALSE
    BY <2>1 DEF FlowTypes
  <2>3. Owed' = Owed
    BY <2>1, <2>2 DEF Owed
  <2>4. ASSUME NEW q \in Nat, Holding(q) PROVE Holding(q)'
    BY <2>1, <2>2, <2>3, <2>4 DEF Holding
  <2> QED
    BY <2>1, <2>4 DEF FlowInv, Ordered
<1> QED
  BY <1>1, <1>2, <1>3, <1>4, <1>5, <1>6, <1>7, <1>8 DEF SimNext, TcpThread, Xfr

\* The board is reset, and no run of ssp_get has begun.
LEMMA SimBegins == SimInit => SimInv
<1> SUFFICES ASSUME SimInit PROVE SimInv
  OBVIOUS
<1>1. ClientInv
  BY DEF SimInit, ClientInv, ClientTypes, Conversing, Beginning, Nothing
<1>2. StartInv
  BY DEF SimInit, StartInv, Fresh, Beginning
<1>3. FlowTypes
  BY SimEthAssumption DEF SimInit, FlowTypes
<1>4. FlowInv
  <2>1. Owed = 0
    BY DEF SimInit, Owed, One
  <2>2. fifo = <<>> /\ scan = <<>> /\ <<>> \in Seq(Nat) /\ Len(<<>>) = 0 /\ at = 0 /\ udp = "none"
    BY DEF SimInit
  <2>3. Holding(0) /\ 0 \in Nat
    BY <2>1, <2>2, ScansAre DEF Holding
  <2>4. Ordered
    BY <2>2 DEF Ordered
  <2> QED
    BY <2>2, <2>3, <2>4, XNat, SimEthAssumption DEF FlowInv
<1> QED
  BY <1>1, <1>2, <1>3, <1>4 DEF SimInv

\* The clients, the beginning of the first acquisition and the FIFO stay in step.
LEMMA SimInvariant == SimSpec => []SimInv
<1>1. SimInv /\ [SimNext]_simVars => SimInv'
  BY ClientStep, StartStep, FlowTypesStep, FlowStep DEF SimInv
<1> QED
  BY <1>1, SimBegins, PTL DEF SimSpec

\* The first acquisition sends whole scans, of any length, however far udpThread
\* falls behind and however often the handler interrupts it.
THEOREM SendsWholeScans == SimSpec => []WholeDatagrams
<1>1. SimInv => WholeDatagrams
  BY DEF SimInv, StartInv, FlowInv, WholeDatagrams
<1> QED
  BY <1>1, SimInvariant, PTL

\* simeth_2's udpThread does not sleep on a scan in the first acquisition, if the
\* semaphore can count the scans that the FIFO has room for.
THEOREM NeverLags == ASSUME SemRoom PROVE SimSpec => []NoLag
<1>1. SimInv => NoLag
  <2> SUFFICES ASSUME SimInv, two, starts = 1, netsamples = SCAN_LENGTH, Sleeping
               PROVE  Len(fifo) <= netsamples
    BY DEF NoLag
  <2>1. at \in 0..X /\ netsamples = X
    BY DEF SimInv, StartInv, FlowInv
  <2>2. PICK q \in Nat : Holding(q)
    BY DEF SimInv, FlowInv
  <2>3. Owed = 0 /\ intr.enabled
    BY DEF Sleeping, Owed, One
  <2>4. q = 0
    BY <2>2, <2>3 DEF Holding
  <2>5. Len(fifo) = 0 + at
    BY <2>2, <2>4, ScansAre DEF Holding
  <2> QED
    BY <2>1, <2>5, XNat
<1> QED
  BY <1>1, SimInvariant, PTL
===============================================================================
