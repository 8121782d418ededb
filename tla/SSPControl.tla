----------------------------- MODULE SSPControl -----------------------------
(***************************************************************************)
(* The control plane of the SSP firmware (src/ssp/fpga_sw/ssp_fpga_sw):     *)
(* main_main, udpThread and the tcpThreads of ssp_ad.c, the semaphores      *)
(* cfg_sem, udp_sem and tcp_sem they share, the ssp_config structure and    *)
(* the registers that ssp_intr.c writes.                                    *)
(*                                                                         *)
(* Every tcpThread receives a command into the one static buffer rcv_msg,   *)
(* takes cfg_sem, parses the buffer, and either answers at once or hands a  *)
(* command code to udpThread: CC, post udp_sem, wait tcp_sem, read RV.      *)
(* One step of this module is the code between two points where another     *)
(* thread may run: a semaphore operation, a socket call, or an access to    *)
(* data that another thread also touches.                                   *)
(***************************************************************************)
EXTENDS Integers

CONSTANTS
  Threads,    \* tcpThread instances, one per open TCP connection
  Commands,   \* the messages clients send
  Faults      \* which of the failures in FaultKinds may happen

\* "bind": socket() or bind() fails in udpThread; "send": sendto() fails;
\* "spi": the interrupt that ends an SPI transfer never posts spi_sem.
FaultKinds == {"bind", "send", "spi"}

\* The two letters that select a command.  "N_" is any other N command and
\* "other" anything else; "blank" is a message whose first byte became 0.
NFields == {"NS", "NA", "NC", "NP", "NE", "NF"}
TriggerOps == {"TS", "TU", "TD", "AE", "AD"}
Ops == NFields \cup TriggerOps \cup {"EN", "EX", "DA", "N_", "other"}

\* What follows the two letters: ":" and a number, the digits of a reply that
\* another thread formatted over it, or nothing.
NoTail == [kind |-> "none", val |-> 0]
Tails == [kind: {"none", "arg", "reply"}, val: Int]
Messages == [head: Ops \cup {"blank"}, tail: Tails]

ASSUME CommandsAssumption ==
  Commands \subseteq [head: Ops, tail: [kind: {"none", "arg"}, val: Int]]
ASSUME FaultsAssumption == Faults \subseteq FaultKinds

SSP_MAX_SAMPLES == 4096
SSP_MAX_PREADD == 256
SSP_MAX_COADD == 16383
SSP_MAX_NE == 7
SSP_TRIG_SRC_MAX == 3

Codes == {200, 400, 410, 500, 503}
UDPCMDs == {"ENABLE", "DISABLE", "TRIGGER"}
NoReply == [kind |-> "noreply"]

VARIABLES
  cfg_sem, udp_sem, tcp_sem,
  cfg,       \* ssp_config.NS, NA, NC, NP, NE, NF
  trig,      \* ssp_config.TL, and TrigConfig as its three bit fields
  CC, RV, EN,\* the rest of ssp_config
  dest,      \* udpSrvrAddr: the client (by its thread) and its port
  control,   \* the static copy of the control register in set_ssp_control
  hw,        \* the registers of the scan core, and what AD9510_Init last set
  rcv_msg,
  pc,        \* where each tcpThread is
  rv,        \* each tcpThread's local rv
  sent, got, \* history: each client's last command and the reply it received
  did,       \* history: the command each tcpThread is executing
  main,      \* main_main: "wait" at sem_wait(&udp_sem), then "server"
  udp        \* where udpThread is

config == <<cfg, trig, CC, RV, EN, dest>>
sems == <<cfg_sem, udp_sem, tcp_sem>>
clients == <<sent, got, did>>
vars == <<sems, config, control, hw, rcv_msg, pc, rv, clients, main, udp>>

-----------------------------------------------------------------------------
(* ssp_intr.c *)

Control == [reset: BOOLEAN, ne: Int, src: Int, rising: BOOLEAN, ae: BOOLEAN,
            unset: BOOLEAN]

\* set_ssp_control(): the register is written only when the new value differs
\* from the cached one.  The cache starts with bits above SSP_CONTROL_MASK
\* set ("unset"), which no new value has.
set_ssp_control(new, regs) ==
  /\ control' = [new EXCEPT !.unset = FALSE]
  /\ hw' = IF control' # control THEN [regs EXCEPT !.ctl = control'] ELSE regs

\* ssp_ll_triggerlevel() stores through the NETSAMPLES address: no register gets
\* the level as such.
ssp_ll_triggerlevel(level, regs) == [regs EXCEPT !.netsamples = level]

set_trigger ==
  set_ssp_control(
    [control EXCEPT !.src = trig.src, !.rising = trig.rising, !.ae = trig.ae],
    ssp_ll_triggerlevel(trig.TL, hw))

\* AD9510_Init(ChEn, divisor): the clocks that run, and their divisor.
AD9510_Init(ChEn, divisor, regs) ==
  [regs EXCEPT !.clk = [chen |-> ChEn, div |-> divisor]]

-----------------------------------------------------------------------------
(* parse_cmds(), with cfg_sem held *)

\* Mutant: the upper limit is not enforced.
limit_range_NoUpper(val, low, high) == IF val \in 0..low-1 THEN low ELSE val

\* limit_range() compares unsigned, so a negative number is above every limit.
limit_range(val, low, high) ==
  IF val \in 0..low-1 THEN low ELSE IF val \in low..high THEN val ELSE high

\* The value each N command stores for a number the client sent.
NValue(f, val) ==
  CASE f = "NS" -> limit_range(val, 1, SSP_MAX_SAMPLES)
    [] f = "NA" -> limit_range(val, 1, SSP_MAX_PREADD)
    [] f = "NC" -> limit_range(val, 1, SSP_MAX_COADD)
    [] f = "NE" -> limit_range(val, 1, SSP_MAX_NE)
    [] f = "NF" -> limit_range(val, 1, 32)
    [] f = "NP" -> val % 65536

Return(t, code) ==
  /\ rv' = [rv EXCEPT ![t] = code]
  /\ pc' = [pc EXCEPT ![t] = "unlock"]

Parsing(t, heads) == pc[t] = "parse" /\ rcv_msg.head \in heads
HasArg == rcv_msg.tail.kind = "arg"

\* enq_udpcmd() up to its sem_post.
enq_udpcmd(t, cmdcode) ==
  /\ CC' = cmdcode
  /\ pc' = [pc EXCEPT ![t] = "post"]
  /\ UNCHANGED rv

ParseEN(t) ==
  /\ Parsing(t, {"EN"})
  /\ IF EN THEN Return(t, 503) /\ UNCHANGED <<CC, dest>>
     ELSE IF cfg.NP = 0 THEN Return(t, 400) /\ UNCHANGED <<CC, dest>>
     ELSE /\ dest' = [client |-> t, port |-> cfg.NP]
          /\ enq_udpcmd(t, "ENABLE")
  /\ UNCHANGED <<sems, cfg, trig, RV, EN, control, hw, rcv_msg, sent, got, main,
                 udp>>

ParseEX(t) ==
  /\ Parsing(t, {"EX"})
  /\ Return(t, IF EN THEN 503 ELSE 410)
  /\ UNCHANGED <<sems, config, control, hw, rcv_msg, sent, got, main, udp>>

ParseDA(t) ==
  /\ Parsing(t, {"DA"})
  /\ IF EN THEN enq_udpcmd(t, "DISABLE") ELSE Return(t, 200) /\ UNCHANGED CC
  /\ UNCHANGED <<sems, cfg, trig, RV, EN, dest, control, hw, rcv_msg, sent, got,
                 main, udp>>

\* Mutant: N commands do not look at EN.
ParseN_WhileEnabled(t) ==
  /\ Parsing(t, NFields) /\ HasArg
  /\ LET f == rcv_msg.head IN
     cfg' = [cfg EXCEPT ![f] = NValue(f, rcv_msg.tail.val) + IF EN THEN 1 ELSE 0]
  /\ Return(t, 200)
  /\ UNCHANGED <<sems, trig, CC, RV, EN, dest, control, hw, rcv_msg, sent, got,
                 main, udp>>

ParseN(t) ==
  /\ Parsing(t, NFields \cup {"N_"}) /\ HasArg
  /\ LET f == rcv_msg.head IN
     IF EN THEN Return(t, 503) /\ UNCHANGED cfg
     ELSE IF f = "N_" THEN Return(t, 400) /\ UNCHANGED cfg
     ELSE Return(t, 200) /\ cfg' = [cfg EXCEPT ![f] = NValue(f, rcv_msg.tail.val)]
  /\ UNCHANGED <<sems, trig, CC, RV, EN, dest, control, hw, rcv_msg, sent, got,
                 main, udp>>

\* A number stored in the signed short TL.
short(val) == ((val + 32768) % 65536) - 32768

\* The trigger settings a T or A command leaves, legal whether enabled or not.
NewTrig(head, val) ==
  CASE head = "TS" -> [trig EXCEPT !.src = limit_range(val, 0, SSP_TRIG_SRC_MAX)]
    [] head = "TU" -> [trig EXCEPT !.TL = short(val), !.rising = TRUE]
    [] head = "TD" -> [trig EXCEPT !.TL = short(val), !.rising = FALSE]
    [] head = "AE" -> [trig EXCEPT !.ae = TRUE]
    [] head = "AD" -> [trig EXCEPT !.ae = FALSE]

\* Mutant: a trigger command never signals udpThread.
ParseTrigger_NoSignal(t) ==
  /\ Parsing(t, TriggerOps) /\ (rcv_msg.head \in {"AE", "AD"} \/ HasArg)
  /\ trig' = NewTrig(rcv_msg.head, rcv_msg.tail.val)
  /\ Return(t, 200)
  /\ UNCHANGED <<sems, cfg, CC, RV, EN, dest, control, hw, rcv_msg, sent, got,
                 main, udp>>

ParseTrigger(t) ==
  /\ Parsing(t, TriggerOps) /\ (rcv_msg.head \in {"AE", "AD"} \/ HasArg)
  /\ trig' = NewTrig(rcv_msg.head, rcv_msg.tail.val)
  /\ IF EN THEN enq_udpcmd(t, "TRIGGER") ELSE Return(t, 200) /\ UNCHANGED CC
  /\ UNCHANGED <<sems, cfg, RV, EN, dest, control, hw, rcv_msg, sent, got, main,
                 udp>>

\* Anything else falls through to the last return.
ParseBad(t) ==
  /\ \/ Parsing(t, {"other", "blank"})
     \/ Parsing(t, NFields \cup {"N_", "TS", "TU", "TD"}) /\ ~HasArg
  /\ Return(t, 500)
  /\ UNCHANGED <<sems, config, control, hw, rcv_msg, sent, got, main, udp>>

ParseCmds(t) ==
  /\ \/ ParseEN(t) \/ ParseEX(t) \/ ParseDA(t) \/ ParseN(t) \/ ParseTrigger(t)
     \/ ParseBad(t)
  /\ did' = [did EXCEPT ![t] = rcv_msg.head]

-----------------------------------------------------------------------------
(* tcpThread *)

Goto(t, from, to) == pc[t] = from /\ pc' = [pc EXCEPT ![t] = to]

\* serverAppThread accepts a connection and starts a tcpThread for it.
Accept(t) ==
  /\ main = "server"
  /\ Goto(t, "none", "recv")
  /\ sent' = [sent EXCEPT ![t] = NoReply]
  /\ got' = [got EXCEPT ![t] = NoReply]
  /\ UNCHANGED <<sems, config, control, hw, rcv_msg, rv, did, main, udp>>

\* recv() returns a command: the thread does not hold cfg_sem yet.
Recv(t) ==
  /\ Goto(t, "recv", "lock")
  /\ \E m \in Commands : rcv_msg' = m /\ sent' = [sent EXCEPT ![t] = m]
  /\ got' = [got EXCEPT ![t] = NoReply]
  /\ UNCHANGED <<sems, config, control, hw, rv, did, main, udp>>

\* recv() returns 0: rcv_msg[0] is cleared, the socket closed, the thread ends.
Hangup(t) ==
  /\ Goto(t, "recv", "none")
  /\ rcv_msg' = [rcv_msg EXCEPT !.head = "blank"]
  /\ got' = [got EXCEPT ![t] = NoReply]
  /\ UNCHANGED <<sems, config, control, hw, rv, sent, did, main, udp>>

Lock(t) ==
  /\ cfg_sem > 0 /\ cfg_sem' = cfg_sem - 1
  /\ Goto(t, "lock", "parse")
  /\ UNCHANGED <<udp_sem, tcp_sem, config, control, hw, rcv_msg, rv, clients,
                 main, udp>>

\* sem_post(&udp_sem) in enq_udpcmd().
Post(t) ==
  /\ Goto(t, "post", "await")
  /\ udp_sem' = udp_sem + 1
  /\ UNCHANGED <<cfg_sem, tcp_sem, config, control, hw, rcv_msg, rv, clients,
                 main, udp>>

\* Mutant: RV is read without waiting for tcp_sem.
Await_NoWait(t) ==
  /\ pc[t] = "await" /\ Return(t, RV)
  /\ UNCHANGED <<sems, config, control, hw, rcv_msg, clients, main, udp>>

\* sem_wait(&tcp_sem) in enq_udpcmd(), which then returns RV.
Await(t) ==
  /\ pc[t] = "await"
  /\ tcp_sem > 0 /\ tcp_sem' = tcp_sem - 1
  /\ Return(t, RV)
  /\ UNCHANGED <<cfg_sem, udp_sem, config, control, hw, rcv_msg, clients, main,
                 udp>>

Unlock(t) ==
  /\ Goto(t, "unlock", "format")
  /\ cfg_sem' = cfg_sem + 1
  /\ UNCHANGED <<udp_sem, tcp_sem, config, control, hw, rcv_msg, rv, clients,
                 main, udp>>

\* Mutant: the reply is not written.
Format_Nothing(t) ==
  /\ Goto(t, "format", "send")
  /\ UNCHANGED <<sems, config, control, hw, rcv_msg, rv, clients, main, udp>>

\* The reply is written over bytes 2 to 7 of rcv_msg: the letters stay.
Format(t) ==
  /\ Goto(t, "format", "send")
  /\ rcv_msg' = [rcv_msg EXCEPT !.tail = [kind |-> "reply", val |-> rv[t]]]
  /\ UNCHANGED <<sems, config, control, hw, rv, clients, main, udp>>

\* send() transmits what these bytes hold now; after 410 the thread ends.
Send(t) ==
  /\ Goto(t, "send", IF rv[t] = 410 THEN "none" ELSE "recv")
  /\ got' = [got EXCEPT ![t] = rcv_msg.tail]
  /\ did' = [did EXCEPT ![t] = "blank"]
  /\ UNCHANGED <<sems, config, control, hw, rcv_msg, rv, sent, main, udp>>

-----------------------------------------------------------------------------
(* udpThread *)

UdpGoto(from, to) == udp \in from /\ udp' = to
UdpFrame == UNCHANGED <<cfg_sem, rcv_msg, pc, rv, clients>>

\* Ethernet, SPI and clock initialisation, then the post that main_main waits
\* for: main_main has the higher priority and waits already, so the semaphore
\* is handed to it and udpThread cannot take it back.
UdpInit ==
  /\ UdpGoto({"init"}, "bind")
  /\ hw' = AD9510_Init(0, 1, hw)
  /\ main' = "server"
  /\ UNCHANGED <<udp_sem, tcp_sem, config, control>> /\ UdpFrame

UdpBind ==
  /\ UdpGoto({"bind"}, "idle")
  /\ UNCHANGED <<udp_sem, tcp_sem, config, control, hw, main>> /\ UdpFrame

\* Mutant: NE and NS are not checked before enabling.
UdpTake_NoCheck ==
  /\ udp_sem > 0 /\ udp_sem' = udp_sem - 1
  /\ UdpGoto({"idle"}, IF CC = "ENABLE" THEN "reset" ELSE "answer")
  /\ RV' = IF CC = "ENABLE" THEN RV ELSE 500
  /\ UNCHANGED <<tcp_sem, cfg, trig, CC, EN, dest, control, hw, main>> /\ UdpFrame

\* The semaphore is taken while not enabled.  Anything but ENABLE is refused;
\* for ENABLE a bad NE or NS is replaced first.
UdpTake ==
  /\ udp_sem > 0 /\ udp_sem' = udp_sem - 1
  /\ IF CC = "ENABLE"
     THEN /\ UdpGoto({"idle"}, "reset")
          /\ cfg' = [cfg EXCEPT
                      !.NE = IF cfg.NE \in 1..7 THEN cfg.NE ELSE 1,
                      !.NS = IF cfg.NS > SSP_MAX_SAMPLES THEN SSP_MAX_SAMPLES
                             ELSE cfg.NS]
          /\ UNCHANGED RV
     ELSE UdpGoto({"idle"}, "answer") /\ RV' = 500 /\ UNCHANGED cfg
  /\ UNCHANGED <<tcp_sem, trig, CC, EN, dest, control, hw, main>> /\ UdpFrame

\* xfr_enable(), in the order it reaches the hardware.
XfrReset ==
  /\ UdpGoto({"reset"}, "load")
  /\ set_ssp_control([control EXCEPT !.reset = TRUE], hw)
  /\ UNCHANGED <<udp_sem, tcp_sem, config, main>> /\ UdpFrame

XfrLoad ==
  /\ UdpGoto({"load"}, "trigger")
  /\ set_ssp_control([control EXCEPT !.ne = cfg.NE],
       [AD9510_Init(cfg.NE, cfg.NF, hw) EXCEPT
         !.netsamples = cfg.NS, !.navg = cfg.NA - 1, !.ncoadd = cfg.NC])
  /\ UNCHANGED <<udp_sem, tcp_sem, config, main>> /\ UdpFrame

XfrTrigger ==
  /\ UdpGoto({"trigger"}, "release")
  /\ set_trigger
  /\ UNCHANGED <<udp_sem, tcp_sem, config, main>> /\ UdpFrame

\* Mutant: EN is not set.
XfrRelease_NoEN ==
  /\ UdpGoto({"release"}, "enabled")
  /\ set_ssp_control([control EXCEPT !.reset = FALSE], hw)
  /\ RV' = 200
  /\ UNCHANGED <<udp_sem, tcp_sem, cfg, trig, CC, EN, dest, main>> /\ UdpFrame

\* Reset is released; udpThread sets EN and RV before it answers.
XfrRelease ==
  /\ UdpGoto({"release"}, "enabled")
  /\ set_ssp_control([control EXCEPT !.reset = FALSE], hw)
  /\ EN' = TRUE /\ RV' = 200
  /\ UNCHANGED <<udp_sem, tcp_sem, cfg, trig, CC, dest, main>> /\ UdpFrame

\* Mutant: DISABLE stops the clocks without resetting the circuit.
UdpCommand_NoReset ==
  /\ udp_sem > 0 /\ udp_sem' = udp_sem - 1
  /\ RV' = IF CC \in {"DISABLE", "TRIGGER"} THEN 200 ELSE 500
  /\ IF CC = "DISABLE"
     THEN UdpGoto({"run"}, "quench") /\ UNCHANGED <<control, hw>>
     ELSE UdpGoto({"run"}, "enabled") /\ set_trigger
  /\ UNCHANGED <<tcp_sem, cfg, trig, CC, EN, dest, main>> /\ UdpFrame

\* sem_trywait() succeeds in the enabled loop.  TRIGGER is executed at once,
\* DISABLE resets the circuit first; anything else is refused.
UdpCommand ==
  /\ udp_sem > 0 /\ udp_sem' = udp_sem - 1
  /\ RV' = IF CC \in {"DISABLE", "TRIGGER"} THEN 200 ELSE 500
  /\ IF CC = "DISABLE"
     THEN /\ UdpGoto({"run"}, "quench")
          /\ set_ssp_control([control EXCEPT !.reset = TRUE], hw)
     ELSE /\ UdpGoto({"run"}, "enabled")
          /\ IF CC = "TRIGGER" THEN set_trigger ELSE UNCHANGED <<control, hw>>
  /\ UNCHANGED <<tcp_sem, cfg, trig, CC, EN, dest, main>> /\ UdpFrame

\* The rest of xfr_disable(): the clocks stop, and udpThread clears EN.
UdpDisabled ==
  /\ UdpGoto({"quench"}, "answer")
  /\ hw' = AD9510_Init(0, 1, hw)
  /\ EN' = FALSE
  /\ UNCHANGED <<udp_sem, tcp_sem, cfg, trig, CC, RV, dest, control, main>>
  /\ UdpFrame

\* Mutant: the answer to ENABLE and TRIGGER is forgotten.
UdpAnswer_Silent ==
  /\ \/ UdpGoto({"answer"}, "idle") /\ tcp_sem' = tcp_sem + 1
     \/ UdpGoto({"enabled"}, "run") /\ UNCHANGED tcp_sem
  /\ UNCHANGED <<udp_sem, config, control, hw, main>> /\ UdpFrame

\* sem_post(&tcp_sem), after which udpThread waits or goes on acquiring.
UdpAnswer ==
  /\ \/ UdpGoto({"answer"}, "idle")
     \/ UdpGoto({"enabled"}, "run")
  /\ tcp_sem' = tcp_sem + 1
  /\ UNCHANGED <<udp_sem, config, control, hw, main>> /\ UdpFrame

\* udpThread returns after a failed socket(), bind() or sendto(); it waits for
\* ever in ad9510_Write() if an SPI transfer is never reported complete.
UdpStop ==
  /\ \/ "bind" \in Faults /\ UdpGoto({"bind"}, "stopped")
     \/ "send" \in Faults /\ UdpGoto({"run"}, "stopped")
     \/ "spi" \in Faults /\ UdpGoto({"init", "load", "run", "quench"}, "stopped")
  /\ UNCHANGED <<udp_sem, tcp_sem, config, control, hw, main>> /\ UdpFrame

-----------------------------------------------------------------------------
Init ==
  /\ cfg_sem = 1 /\ udp_sem = 0 /\ tcp_sem = 0
  /\ cfg = [f \in NFields |-> IF f = "NF" THEN 1 ELSE 0]
  /\ trig = [TL |-> 0, src |-> 0, rising |-> FALSE, ae |-> FALSE]
  /\ CC = "none" /\ RV = 0 /\ EN = FALSE
  /\ dest = [client |-> "none", port |-> 0]
  /\ control = [reset |-> TRUE, ne |-> 0, src |-> 0, rising |-> FALSE,
                ae |-> FALSE, unset |-> TRUE]
  /\ hw = [ctl |-> control, netsamples |-> 0, navg |-> 0, ncoadd |-> 0,
           clk |-> [chen |-> 0, div |-> 1]]
  /\ rcv_msg = [head |-> "blank", tail |-> NoTail]
  /\ pc = [t \in Threads |-> "none"]
  /\ rv = [t \in Threads |-> 0]
  /\ sent = [t \in Threads |-> NoReply]
  /\ got = [t \in Threads |-> NoReply]
  /\ did = [t \in Threads |-> "blank"]
  /\ main = "wait" /\ udp = "init"

TcpThread(t) ==
  \/ Lock(t) \/ ParseCmds(t) \/ Post(t) \/ Await(t) \/ Unlock(t) \/ Format(t)
  \/ Send(t)

UdpThread ==
  \/ UdpInit \/ UdpBind \/ UdpTake \/ XfrReset \/ XfrLoad \/ XfrTrigger
  \/ XfrRelease \/ UdpCommand \/ UdpDisabled \/ UdpAnswer

Next ==
  \/ \E t \in Threads : Accept(t) \/ Recv(t) \/ Hangup(t) \/ TcpThread(t)
  \/ UdpThread \/ UdpStop

Spec == Init /\ [][Next]_vars

\* xilkernel runs every ready thread of the highest priority in turn, and the
\* tcpThreads leave the processor to udpThread whenever they wait; its queue on
\* a semaphore is served in order, so a thread that waits for cfg_sem gets it.
\* Nothing makes a client connect, send or hang up.
Fairness ==
  /\ WF_vars(UdpThread)
  /\ \A t \in Threads : WF_vars(TcpThread(t)) /\ SF_vars(Lock(t))

FairSpec == Spec /\ Fairness

-----------------------------------------------------------------------------
(* Properties *)

UdpBusy == udp \in {"reset", "load", "trigger", "release", "enabled", "quench",
                    "answer"}
UdpStates == {"init", "bind", "idle", "run", "stopped", "reset", "load",
              "trigger", "release", "enabled", "quench", "answer"}
TcpStates == {"none", "recv", "lock", "parse", "post", "await", "unlock",
              "format", "send"}
Trig == [TL: Int, src: 0..3, rising: BOOLEAN, ae: BOOLEAN]
Registers == [ctl: Control, netsamples: Int, navg: Int, ncoadd: Int,
              clk: [chen: Int, div: Int]]

\* The type invariant of the control plane.
TypeOK ==
  /\ cfg_sem \in Nat /\ udp_sem \in Nat /\ tcp_sem \in Nat
  /\ cfg \in [NFields -> Nat]
  /\ trig \in Trig
  /\ CC \in UDPCMDs \cup {"none"} /\ RV \in Codes \cup {0} /\ EN \in BOOLEAN
  /\ control \in Control /\ hw \in Registers
  /\ rcv_msg \in Messages
  /\ pc \in [Threads -> TcpStates]
  /\ rv \in [Threads -> Codes \cup {0}]
  /\ main \in {"wait", "server"} /\ udp \in UdpStates

Holding(t) == pc[t] \in {"parse", "post", "await", "unlock"}

\* At most one tcpThread is between sem_wait(&cfg_sem) and sem_post(&cfg_sem)
\* in tcpThread, and cfg_sem is free exactly when none is.
MutualExclusion ==
  /\ \A s, t \in Threads : Holding(s) /\ Holding(t) => s = t
  /\ cfg_sem = IF \E t \in Threads : Holding(t) THEN 0 ELSE 1

\* The two semaphores of enq_udpcmd and udpThread carry one request at a time:
\* while a tcpThread waits for its answer, the request is in udp_sem, in
\* udpThread's hands or in tcp_sem, in one place only; otherwise it is nowhere.
\* So no answer is ever left over for the next command to take.
Rendezvous ==
  LET places == {p \in {"asked", "busy", "answered"} :
                   \/ p = "asked" /\ udp_sem = 1
                   \/ p = "busy" /\ UdpBusy
                   \/ p = "answered" /\ tcp_sem = 1}
  IN  /\ udp_sem <= 1 /\ tcp_sem <= 1
      /\ \A p, q \in places : p = q
      /\ places # {} => \E t \in Threads : pc[t] = "await"
      /\ (\E t \in Threads : pc[t] = "await") => places # {} \/ udp = "stopped"

\* udpThread never meets a command code that is invalid where it is: a
\* tcpThread's test of EN in parse_cmds still holds when udpThread acts on it.
NeverRefused == RV # 500

\* While udpThread acquires, the scan core is out of reset and Navg, Ncoadd, the
\* channels and the clocks are those that a client set before EN, with a channel
\* enabled and a port to send to.  All but NetSamples: xfr_enable loads NS into it
\* and set_trigger then stores TL there, which TriggerApplied states.
AcquiresAsConfigured ==
  udp \in {"enabled", "run"} =>
    /\ EN /\ ~hw.ctl.reset
    /\ hw.navg = cfg.NA - 1 /\ hw.ncoadd = cfg.NC
    /\ hw.ctl.ne = cfg.NE /\ cfg.NE \in 1..7
    /\ hw.clk = [chen |-> cfg.NE, div |-> cfg.NF]
    /\ dest.port = cfg.NP /\ cfg.NP # 0

\* Once a T or A command is answered while enabled, the trigger settings are where
\* set_trigger puts those of ssp_config: source, edge and auto-trigger in the control
\* register, the level in NetSamples, where ssp_ll_triggerlevel stores it.
TriggerApplied ==
  (udp = "run" /\ udp_sem = 0 /\ \A t \in Threads : pc[t] # "post") =>
    /\ hw.ctl.src = trig.src
    /\ hw.ctl.rising = trig.rising
    /\ hw.ctl.ae = trig.ae
    /\ hw.netsamples = trig.TL

\* ssp_config's N fields and the destination stay as they are from the moment
\* udpThread takes ENABLE until it has disabled, whatever other clients send.
ConfigFrozen ==
  [][(EN \/ UdpBusy) /\ (EN' \/ UdpBusy') => UNCHANGED <<cfg, dest>>]_vars

\* Channels, averaging, coadding and clocks are changed only while the scan
\* core is held in reset, once the firmware has written the control register.
\* (NetSamples is not: a T command while enabled stores the level there.)
LoadedUnderReset ==
  [][ ~hw.ctl.unset /\ <<hw.navg, hw.ncoadd, hw.ctl.ne, hw.clk>>'
                         # <<hw.navg, hw.ncoadd, hw.ctl.ne, hw.clk>>
      => hw.ctl.reset /\ hw'.ctl.reset ]_vars

\* The codes a client can expect for its command (parse_cmds' return values).
Expected(m) ==
  CASE m.head = "EN" -> {200, 400, 503}
    [] m.head = "EX" -> {410, 503}
    [] m.head \in NFields /\ m.tail.kind = "arg" -> {200, 503}
    [] m.head = "N_" /\ m.tail.kind = "arg" -> {400, 503}
    [] m.head \in {"TS", "TU", "TD"} /\ m.tail.kind = "arg" -> {200}
    [] m.head \in {"DA", "AE", "AD"} -> {200}
    [] OTHER -> {500}

\* A client gets the digits of a code that answers the command it sent.
ReplyFits ==
  \A t \in Threads : got[t] # NoReply =>
    got[t].kind = "reply" /\ got[t].val \in Expected(sent[t])

\* 410 answers nothing but EX.
GoneAnswersExit ==
  \A t \in Threads :
    got[t] = [kind |-> "reply", val |-> 410] => sent[t].head = "EX"

\* Every command received is answered, unless udpThread stops: then the next
\* that needs it waits for ever, and every client behind it.
Answered ==
  \A t \in Threads : pc[t] = "lock" ~> pc[t] \in {"recv", "none"} \/ udp = "stopped"

\* What the control plane promises: each command takes effect at one moment.
Result(t) ==
  CASE pc[t] \in {"unlock", "format", "send"} -> rv[t]
    [] pc[t] \in {"post", "await"} /\ CC = "TRIGGER" -> 200
    [] pc[t] = "await" /\ CC # "TRIGGER"
         /\ (udp \in {"enabled", "answer"} \/ tcp_sem = 1) -> RV
    [] OTHER -> 0

Service == INSTANCE SSPService
  WITH en <- EN, conf <- cfg,
       result <- [t \in Threads |->
                   [op |-> IF Result(t) = 0 THEN "none" ELSE did[t],
                    code |-> Result(t)]]

ImplementsService == Service!Spec
=============================================================================
