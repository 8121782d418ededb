-------------------------- MODULE SSPControl_proofs --------------------------
(* Proofs about SSPControl, for any set of clients, commands and faults.     *)
EXTENDS SSPControl, TLAPS

\* limit_range() of any number lies within the limits, whatever its sign.
LEMMA LimitRange ==
  ASSUME NEW val \in Int, NEW low \in Nat, NEW high \in Nat, low <= high
  PROVE  limit_range(val, low, high) \in low..high
  BY DEF limit_range

\* The value an N command stores is a natural number, whatever was sent.
LEMMA NValueType ==
  ASSUME NEW f \in NFields, NEW val \in Int
  PROVE  NValue(f, val) \in Nat
<1>1. limit_range(val, 1, SSP_MAX_SAMPLES) \in Nat
  BY LimitRange DEF SSP_MAX_SAMPLES
<1>2. limit_range(val, 1, SSP_MAX_PREADD) \in Nat
  BY LimitRange DEF SSP_MAX_PREADD
<1>3. limit_range(val, 1, SSP_MAX_COADD) \in Nat
  BY LimitRange DEF SSP_MAX_COADD
<1>4. limit_range(val, 1, SSP_MAX_NE) \in Nat
  BY LimitRange DEF SSP_MAX_NE
<1>5. limit_range(val, 1, 32) \in Nat
  BY LimitRange
<1> QED
  BY <1>1, <1>2, <1>3, <1>4, <1>5 DEF NValue, NFields

\* A T or A command leaves trigger settings of the right type.
LEMMA NewTrigType ==
  ASSUME trig \in Trig, NEW head \in TriggerOps, NEW val \in Int
  PROVE  NewTrig(head, val) \in Trig
<1>1. limit_range(val, 0, SSP_TRIG_SRC_MAX) \in 0..3
  BY DEF limit_range, SSP_TRIG_SRC_MAX
<1>2. short(val) \in Int
  BY DEF short
<1>3. CASE head = "TS"
  BY <1>1, <1>3 DEF NewTrig, Trig
<1>4. CASE head = "TU"
  BY <1>2, <1>4 DEF NewTrig, Trig
<1>5. CASE head = "TD"
  BY <1>2, <1>5 DEF NewTrig, Trig
<1>6. CASE head = "AE"
  BY <1>6 DEF NewTrig, Trig
<1>7. CASE head = "AD"
  BY <1>7 DEF NewTrig, Trig
<1> QED
  BY <1>3, <1>4, <1>5, <1>6, <1>7 DEF TriggerOps

\* set_ssp_control() keeps the types of the cache and of the registers.
LEMMA ControlType ==
  ASSUME control \in Control, NEW new \in Control, NEW regs \in Registers,
         set_ssp_control(new, regs)
  PROVE  control' \in Control /\ hw' \in Registers
<1>1. control' \in Control
  BY DEF set_ssp_control, Control
<1> QED
  BY <1>1 DEF set_ssp_control, Registers

\* set_trigger() keeps the types of the cache and of the registers.
LEMMA SetTriggerType ==
  ASSUME control \in Control, hw \in Registers, trig \in Trig, set_trigger
  PROVE  control' \in Control /\ hw' \in Registers
<1> DEFINE new == [control EXCEPT !.src = trig.src, !.rising = trig.rising,
                                  !.ae = trig.ae]
<1>0. trig.src \in Int /\ trig.rising \in BOOLEAN /\ trig.ae \in BOOLEAN
  BY DEF Trig
<1>1. new \in Control
  BY <1>0 DEF Control
<1>2. ssp_ll_triggerlevel(trig.TL, hw) \in Registers
  BY DEF ssp_ll_triggerlevel, Registers, Trig
<1> HIDE DEF new
<1>3. set_ssp_control(new, ssp_ll_triggerlevel(trig.TL, hw))
  BY DEF set_trigger, new
<1> QED
  BY <1>1, <1>2, <1>3, ControlType

-----------------------------------------------------------------------------
(* Type correctness *)

\* A message that Recv stores, and every message with a reply written over it.
LEMMA CommandsAreMessages == Commands \subseteq Messages
  BY CommandsAssumption DEF Messages, Tails

\* A message stays a message when a reply is written over its end.
LEMMA ReplyIsTail ==
  ASSUME NEW m \in Messages, NEW code \in Codes \cup {0}
  PROVE  [m EXCEPT !.tail = [kind |-> "reply", val |-> code]] \in Messages
  BY DEF Messages, Tails, Codes

\* Returning from parse_cmds() keeps the types of rv and pc.
LEMMA ReturnType ==
  ASSUME rv \in [Threads -> Codes \cup {0}], pc \in [Threads -> TcpStates],
         NEW t \in Threads, NEW code \in Codes \cup {0}, Return(t, code)
  PROVE  rv' \in [Threads -> Codes \cup {0}] /\ pc' \in [Threads -> TcpStates]
  BY DEF Return, TcpStates

\* The types hold when main_main has set up the semaphores.
LEMMA InitType == Init => TypeOK
<1> SUFFICES ASSUME Init PROVE TypeOK
  OBVIOUS
<1>1. cfg \in [NFields -> Nat]
  BY DEF Init
<1>2. control \in Control
  BY DEF Init, Control
<1>3. hw \in Registers
  BY <1>2 DEF Init, Registers
<1>4. rcv_msg \in Messages
  BY DEF Init, Messages, Tails, NoTail
<1>5. trig \in Trig
  BY 0 \in 0..3 DEF Init, Trig
<1> QED
  BY <1>1, <1>2, <1>3, <1>4, <1>5 DEF Init, TypeOK, UdpStates, TcpStates

\* Every action keeps every type.
LEMMA TypeStep == ASSUME TypeOK, [Next]_vars PROVE TypeOK'
<1> USE DEF TypeOK
<1>1. ASSUME NEW t \in Threads, Accept(t) PROVE TypeOK'
  BY <1>1 DEF Accept, Goto, TcpStates, sems, config
<1>2. ASSUME NEW t \in Threads, Recv(t) PROVE TypeOK'
  BY <1>2, CommandsAreMessages DEF Recv, Goto, TcpStates, sems, config
<1>3. ASSUME NEW t \in Threads, Hangup(t) PROVE TypeOK'
  <2>1. rcv_msg' \in Messages
    BY <1>3 DEF Hangup, Messages
  <2> QED
    BY <2>1, <1>3 DEF Hangup, Goto, TcpStates, sems, config
<1>4. ASSUME NEW t \in Threads, Lock(t) PROVE TypeOK'
  BY <1>4 DEF Lock, Goto, TcpStates, config
<1>5. ASSUME NEW t \in Threads, ParseCmds(t) PROVE TypeOK'
  <2> USE DEF Codes, TcpStates, sems, config, enq_udpcmd, UDPCMDs, Return
  <2>1. CASE ParseEN(t)
    BY <2>1 DEF ParseEN
  <2>2. CASE ParseEX(t)
    BY <2>2 DEF ParseEX
  <2>3. CASE ParseDA(t)
    BY <2>3 DEF ParseDA
  <2>4. CASE ParseN(t)
    <3>1. cfg' \in [NFields -> Nat]
      <4>1. CASE rcv_msg.head \in NFields
        <5>1. rcv_msg.tail.val \in Int
          BY DEF Messages, Tails
        <5> QED
          BY <2>4, <4>1, <5>1, NValueType DEF ParseN
      <4> QED
        BY <2>4, <4>1 DEF ParseN, Parsing
    <3> QED
      BY <2>4, <3>1 DEF ParseN
  <2>5. CASE ParseTrigger(t)
    <3>1. trig' \in Trig
      <4>1. rcv_msg.tail.val \in Int
        BY DEF Messages, Tails
      <4> QED
        BY <2>5, <4>1, NewTrigType DEF ParseTrigger, Parsing
    <3>2. /\ pc' \in [Threads -> TcpStates] /\ rv' \in [Threads -> Codes \cup {0}]
          /\ CC' \in UDPCMDs \cup {"none"}
      BY <2>5 DEF ParseTrigger
    <3> QED
      BY <2>5, <3>1, <3>2 DEF ParseTrigger
  <2>6. CASE ParseBad(t)
    BY <2>6 DEF ParseBad
  <2> QED
    BY <1>5, <2>1, <2>2, <2>3, <2>4, <2>5, <2>6 DEF ParseCmds
<1>6. ASSUME NEW t \in Threads, Post(t) PROVE TypeOK'
  BY <1>6 DEF Post, Goto, TcpStates, config
<1>7. ASSUME NEW t \in Threads, Await(t) PROVE TypeOK'
  BY <1>7 DEF Await, Return, TcpStates, config
<1>8. ASSUME NEW t \in Threads, Unlock(t) PROVE TypeOK'
  BY <1>8 DEF Unlock, Goto, TcpStates, config
<1>9. ASSUME NEW t \in Threads, Format(t) PROVE TypeOK'
  BY <1>9, ReplyIsTail DEF Format, Goto, TcpStates, sems, config
<1>10. ASSUME NEW t \in Threads, Send(t) PROVE TypeOK'
  BY <1>10 DEF Send, Goto, TcpStates, sems, config
<1>11. ASSUME UdpThread PROVE TypeOK'
  <2> USE DEF UdpGoto, UdpFrame, UdpStates, config
  <2>1. CASE UdpInit
    <3>1. hw' \in Registers
      BY <2>1 DEF UdpInit, AD9510_Init, Registers
    <3> QED
      BY <2>1, <3>1 DEF UdpInit
  <2>2. CASE UdpBind
    BY <2>2 DEF UdpBind
  <2>3. CASE UdpTake
    <3>1. cfg' \in [NFields -> Nat]
      <4>1. cfg.NE \in Nat /\ cfg.NS \in Nat
        BY DEF NFields
      <4>2. CASE CC = "ENABLE"
        <5> DEFINE ne == IF cfg.NE \in 1..7 THEN cfg.NE ELSE 1
                   ns == IF cfg.NS > SSP_MAX_SAMPLES THEN SSP_MAX_SAMPLES ELSE cfg.NS
        <5>1. ne \in Nat /\ ns \in Nat
          BY <4>1 DEF SSP_MAX_SAMPLES
        <5>2. cfg' = [cfg EXCEPT !.NE = ne, !.NS = ns]
          BY <2>3, <4>2 DEF UdpTake
        <5> HIDE DEF ne, ns
        <5> QED
          BY <5>1, <5>2
      <4> QED
        BY <2>3, <4>2 DEF UdpTake
    <3> QED
      BY <2>3, <3>1 DEF UdpTake, Codes
  <2>4. CASE XfrReset
    <3>1. [control EXCEPT !.reset = TRUE] \in Control
      BY DEF Control
    <3> QED
      BY <2>4, <3>1, ControlType DEF XfrReset
  <2>5. CASE XfrLoad
    <3> DEFINE regs == [AD9510_Init(cfg.NE, cfg.NF, hw) EXCEPT
          !.netsamples = cfg.NS, !.navg = cfg.NA - 1, !.ncoadd = cfg.NC]
    <3>1. cfg.NE \in Int /\ cfg.NF \in Int /\ cfg.NS \in Int /\ cfg.NA - 1 \in Int
          /\ cfg.NC \in Int
      BY DEF NFields
    <3>2. [control EXCEPT !.ne = cfg.NE] \in Control
      BY <3>1 DEF Control
    <3>3. regs \in Registers
      BY <3>1 DEF AD9510_Init, Registers
    <3>4. set_ssp_control([control EXCEPT !.ne = cfg.NE], regs)
      BY <2>5 DEF XfrLoad
    <3> HIDE DEF regs
    <3>5. control' \in Control /\ hw' \in Registers
      BY <3>2, <3>3, <3>4, ControlType
    <3> QED
      BY <2>5, <3>5 DEF XfrLoad
  <2>6. CASE XfrTrigger
    BY <2>6, SetTriggerType DEF XfrTrigger
  <2>7. CASE XfrRelease
    <3>1. [control EXCEPT !.reset = FALSE] \in Control
      BY DEF Control
    <3> QED
      BY <2>7, <3>1, ControlType DEF XfrRelease, Codes
  <2>8. CASE UdpCommand
    <3>1. [control EXCEPT !.reset = TRUE] \in Control
      BY DEF Control
    <3>2. control' \in Control /\ hw' \in Registers
      BY <2>8, <3>1, ControlType, SetTriggerType DEF UdpCommand
    <3> QED
      BY <2>8, <3>2 DEF UdpCommand, Codes
  <2>9. CASE UdpDisabled
    <3>1. hw' \in Registers
      BY <2>9 DEF UdpDisabled, AD9510_Init, Registers
    <3> QED
      BY <2>9, <3>1 DEF UdpDisabled
  <2>10. CASE UdpAnswer
    BY <2>10 DEF UdpAnswer
  <2> QED
    BY <1>11, <2>1, <2>2, <2>3, <2>4, <2>5, <2>6, <2>7, <2>8, <2>9, <2>10
    DEF UdpThread
<1>12. CASE UdpStop
  BY <1>12 DEF UdpStop, UdpGoto, UdpFrame, UdpStates, config
<1>13. CASE UNCHANGED vars
  BY <1>13 DEF vars, sems, config
<1> QED
  BY <1>1, <1>2, <1>3, <1>4, <1>5, <1>6, <1>7, <1>8, <1>9, <1>10, <1>11, <1>12,
     <1>13 DEF Next, TcpThread

\* Every variable of the control plane keeps its type.
THEOREM Typing == Spec => []TypeOK
  BY InitType, TypeStep, PTL DEF Spec

-----------------------------------------------------------------------------
(* cfg_sem, and the rendezvous through udp_sem and tcp_sem *)

\* MutualExclusion in the form its induction uses.
LockInv ==
  \/ cfg_sem = 1 /\ \A t \in Threads : ~Holding(t)
  \/ cfg_sem = 0 /\ \E t \in Threads : /\ Holding(t)
                                      /\ \A s \in Threads : Holding(s) => s = t

Awaited == \E t \in Threads : pc[t] = "await"

\* Rendezvous likewise: the request is in one place, and one awaits it.
TokenInv ==
  /\ udp_sem \in {0, 1} /\ tcp_sem \in {0, 1}
  /\ ~(udp_sem = 1 /\ tcp_sem = 1)
  /\ UdpBusy => udp_sem = 0 /\ tcp_sem = 0
  /\ udp_sem = 1 \/ tcp_sem = 1 \/ UdpBusy => Awaited
  /\ Awaited => udp_sem = 1 \/ tcp_sem = 1 \/ UdpBusy \/ udp = "stopped"

\* cfg_sem is free at the start and no thread holds it.
LEMMA LockInit == Init => LockInv
  BY DEF Init, LockInv, Holding

\* A thread changes its own pc only, and enters or leaves the region between
\* Lock and Unlock by these two actions alone.
LEMMA LockStep == ASSUME TypeOK, LockInv, [Next]_vars PROVE LockInv'
<1> USE DEF LockInv, Holding, TypeOK
<1>1. ASSUME NEW t \in Threads, Lock(t) PROVE LockInv'
  BY <1>1 DEF Lock, Goto
<1>2. ASSUME NEW t \in Threads, Unlock(t) PROVE LockInv'
  BY <1>2 DEF Unlock, Goto
<1>3. ASSUME NEW t \in Threads, ParseCmds(t) \/ Post(t) \/ Await(t)
      PROVE  LockInv'
  <2>1. /\ pc[t] \in {"parse", "post", "await"} /\ cfg_sem' = cfg_sem
        /\ \E p \in {"post", "await", "unlock"} : pc' = [pc EXCEPT ![t] = p]
    BY <1>3 DEF ParseCmds, ParseEN, ParseEX, ParseDA, ParseN, ParseTrigger,
       ParseBad, Parsing, Post, Await, Goto, Return, enq_udpcmd, sems
  <2> QED
    BY <2>1
<1>4. ASSUME NEW t \in Threads,
             Accept(t) \/ Recv(t) \/ Hangup(t) \/ Format(t) \/ Send(t)
      PROVE  LockInv'
  <2>1. /\ pc[t] \in {"none", "recv", "format", "send"} /\ cfg_sem' = cfg_sem
        /\ \E p \in {"none", "recv", "lock", "send"} : pc' = [pc EXCEPT ![t] = p]
    BY <1>4 DEF Accept, Recv, Hangup, Format, Send, Goto, sems
  <2> QED
    BY <2>1
<1>5. ASSUME UdpThread \/ UdpStop \/ UNCHANGED vars PROVE LockInv'
  <2>1. pc' = pc /\ cfg_sem' = cfg_sem
    BY <1>5 DEF UdpThread, UdpInit, UdpBind, UdpTake, XfrReset, XfrLoad,
       XfrTrigger, XfrRelease, UdpCommand, UdpDisabled, UdpAnswer, UdpStop,
       UdpFrame, vars, sems
  <2> QED
    BY <2>1
<1> QED
  BY <1>1, <1>2, <1>3, <1>4, <1>5 DEF Next, TcpThread

\* cfg_sem admits one tcpThread at a time to ssp_config.
THEOREM ConfigLock == Spec => []MutualExclusion
<1>1. LockInv => MutualExclusion
  BY DEF LockInv, MutualExclusion
<1> QED
  BY InitType, TypeStep, LockInit, LockStep, <1>1, PTL DEF Spec

\* No request is under way at the start.
LEMMA TokenInit == Init => TokenInv
  BY DEF Init, TokenInv, UdpBusy, Awaited

\* A request moves from udp_sem to udpThread to tcp_sem, one step at a time.
LEMMA TokenStep ==
  ASSUME TypeOK, LockInv, TokenInv, [Next]_vars
  PROVE  TokenInv'
<1> USE DEF TypeOK
\* Posting: the poster holds cfg_sem, so nobody awaits and no request exists.
<1>1. ASSUME NEW t \in Threads, Post(t) PROVE TokenInv'
  <2>1. ~Awaited
    BY <1>1 DEF LockInv, Holding, Awaited, Post, Goto
  <2>2. Awaited' /\ udp_sem' = 1 /\ tcp_sem' = 0 /\ ~UdpBusy'
    BY <1>1, <2>1 DEF TokenInv, Post, Goto, Awaited, UdpBusy
  <2> QED
    BY <2>2 DEF TokenInv
\* Taking the answer: it was the only one, and its taker the only one awaiting.
<1>2. ASSUME NEW t \in Threads, Await(t) PROVE TokenInv'
  <2>1. ~Awaited'
    BY <1>2 DEF LockInv, Holding, Awaited, Await, Return
  <2>2. udp_sem' = 0 /\ tcp_sem' = 0 /\ ~UdpBusy'
    BY <1>2 DEF TokenInv, Await, UdpBusy, config
  <2> QED
    BY <2>1, <2>2 DEF TokenInv
<1>3. ASSUME NEW t \in Threads,
             \/ Accept(t) \/ Recv(t) \/ Hangup(t) \/ Lock(t) \/ ParseCmds(t)
             \/ Unlock(t) \/ Format(t) \/ Send(t)
      PROVE  TokenInv'
  <2>1. /\ UNCHANGED <<udp_sem, tcp_sem, udp>>
        /\ pc[t] # "await"
        /\ \E p \in TcpStates \ {"await"} : pc' = [pc EXCEPT ![t] = p]
    BY <1>3 DEF Accept, Recv, Hangup, Lock, ParseCmds, ParseEN, ParseEX, ParseDA,
       ParseN, ParseTrigger, ParseBad, Parsing, Unlock, Format, Send, Goto,
       Return, enq_udpcmd, sems, TcpStates
  <2>2. Awaited' <=> Awaited
    BY <2>1 DEF Awaited
  <2> QED
    BY <2>1, <2>2 DEF TokenInv, UdpBusy
<1>4. ASSUME UdpThread \/ UdpStop \/ UNCHANGED vars PROVE TokenInv'
  <2>1. pc' = pc /\ (Awaited' <=> Awaited)
    BY <1>4 DEF UdpThread, UdpInit, UdpBind, UdpTake, XfrReset, XfrLoad,
       XfrTrigger, XfrRelease, UdpCommand, UdpDisabled, UdpAnswer, UdpStop,
       UdpFrame, vars, Awaited
  <2> USE <2>1 DEF TokenInv, UdpBusy, UdpGoto
  <2>2. CASE UdpTake
    BY <2>2 DEF UdpTake
  <2>3. CASE UdpCommand
    BY <2>3 DEF UdpCommand
  <2>4. CASE UdpAnswer
    BY <2>4 DEF UdpAnswer
  <2>5. CASE UdpInit \/ UdpBind \/ UdpStop \/ UNCHANGED vars
    BY <2>5 DEF UdpInit, UdpBind, UdpStop, vars, sems
  <2>6. CASE XfrReset \/ XfrLoad \/ XfrTrigger \/ XfrRelease \/ UdpDisabled
    BY <2>6 DEF XfrReset, XfrLoad, XfrTrigger, XfrRelease, UdpDisabled
  <2> QED
    BY <1>4, <2>2, <2>3, <2>4, <2>5, <2>6 DEF UdpThread
<1> QED
  BY <1>1, <1>2, <1>3, <1>4 DEF Next, TcpThread

\* One request at a time passes between the tcpThreads and udpThread, and no
\* answer outlives the command it belongs to.
THEOREM OneRequest == Spec => []Rendezvous
<1>1. TokenInv => Rendezvous
  BY DEF TokenInv, Rendezvous, Awaited
<1> QED
  BY InitType, TypeStep, LockInit, LockStep, TokenInit, TokenStep, <1>1, PTL
  DEF Spec

-----------------------------------------------------------------------------
(* The command code, EN, and what udpThread does with them *)

Requesting(t) == pc[t] = "post" \/ (pc[t] = "await" /\ udp_sem = 1)

\* EN tells where udpThread is, so a code chosen by EN suits it on arrival.
EnInv ==
  /\ udp \in {"enabled", "run", "quench"} => EN
  /\ udp \in {"init", "bind", "idle", "reset", "load", "trigger", "release",
              "answer"} => ~EN
  /\ RV # 500
  /\ \A t \in Threads :
       Requesting(t) => CC # "none" /\ (CC = "ENABLE" <=> ~EN)

\* Acquisition is disabled at the start.
LEMMA EnInit == Init => EnInv
  BY DEF Init, EnInv, Requesting

\* EN follows udpThread, and a pending command code suits it: only the thread
\* that holds cfg_sem stores one, and EN cannot change before it is executed.
LEMMA EnStep ==
  ASSUME TypeOK, LockInv, TokenInv, EnInv, [Next]_vars
  PROVE  EnInv'
<1> USE DEF TypeOK
\* A command code is written by the thread that holds cfg_sem, when nobody
\* else is requesting anything.
<1>1. ASSUME NEW t \in Threads, ParseCmds(t) PROVE EnInv'
  <2>1. /\ UNCHANGED <<EN, RV, udp, udp_sem>>
        /\ pc[t] = "parse"
        /\ \/ CC' = CC /\ pc' = [pc EXCEPT ![t] = "unlock"]
           \/ /\ CC' \in UDPCMDs /\ (CC' = "ENABLE" <=> ~EN)
              /\ pc' = [pc EXCEPT ![t] = "post"]
    BY <1>1 DEF ParseCmds, ParseEN, ParseEX, ParseDA, ParseN, ParseTrigger,
       ParseBad, Parsing, Return, enq_udpcmd, sems, config, UDPCMDs
  <2>2. \A s \in Threads : Requesting(s)' => s = t
    BY <2>1 DEF LockInv, Holding, Requesting
  <2>3. \A s \in Threads : Requesting(s)' => CC' # "none" /\ (CC' = "ENABLE" <=> ~EN')
    <3>1. CASE CC' = CC /\ pc' = [pc EXCEPT ![t] = "unlock"]
      BY <2>1, <2>2, <3>1 DEF Requesting
    <3>2. CASE CC' \in UDPCMDs /\ (CC' = "ENABLE" <=> ~EN)
      BY <2>1, <3>2 DEF UDPCMDs
    <3> QED
      BY <2>1, <3>1, <3>2
  <2> QED
    BY <2>1, <2>3 DEF EnInv
<1>2. ASSUME NEW t \in Threads, Post(t) PROVE EnInv'
  <2>1. UNCHANGED <<EN, RV, udp, CC>> /\ pc[t] = "post"
        /\ pc' = [pc EXCEPT ![t] = "await"]
    BY <1>2 DEF Post, Goto, config
  <2>2. \A s \in Threads : Requesting(s)' => s = t
    BY <2>1 DEF LockInv, Holding, Requesting
  <2> QED
    BY <2>1, <2>2 DEF EnInv, Requesting
<1>3. ASSUME NEW t \in Threads, Await(t) PROVE EnInv'
  <2>1. UNCHANGED <<EN, RV, udp, CC, udp_sem>> /\ pc' = [pc EXCEPT ![t] = "unlock"]
    BY <1>3 DEF Await, Return, config
  <2>2. \A s \in Threads : Requesting(s)' => Requesting(s)
    BY <2>1 DEF Requesting
  <2> QED
    BY <2>1, <2>2 DEF EnInv
<1>4. ASSUME NEW t \in Threads,
             \/ Accept(t) \/ Recv(t) \/ Hangup(t) \/ Lock(t) \/ Unlock(t)
             \/ Format(t) \/ Send(t)
      PROVE  EnInv'
  <2>1. /\ UNCHANGED <<EN, RV, udp, CC, udp_sem>>
        /\ \E p \in TcpStates \ {"post", "await"} : pc' = [pc EXCEPT ![t] = p]
    BY <1>4 DEF Accept, Recv, Hangup, Lock, Unlock, Format, Send, Goto, sems,
       config, TcpStates
  <2>2. \A s \in Threads : Requesting(s)' => Requesting(s)
    BY <2>1 DEF Requesting
  <2> QED
    BY <2>1, <2>2 DEF EnInv
\* udpThread acts on a code that a requesting thread left for it.
<1>5. ASSUME UdpTake \/ UdpCommand PROVE EnInv'
  <2>1. pc' = pc /\ CC' = CC /\ EN' = EN /\ udp_sem = 1 /\ udp_sem' = 0
    BY <1>5 DEF UdpTake, UdpCommand, UdpFrame, TokenInv
  <2>2. CC # "none" /\ (CC = "ENABLE" <=> ~EN)
    BY <2>1 DEF TokenInv, Awaited, EnInv, Requesting
  <2>3. ASSUME NEW s \in Threads PROVE ~Requesting(s)'
    <3>1. \E u \in Threads : pc[u] = "await"
      BY <2>1 DEF TokenInv, Awaited
    <3> QED
      BY <2>1, <3>1 DEF LockInv, Holding, Requesting
  <2>4. CASE UdpTake
    BY <2>1, <2>2, <2>3, <2>4 DEF UdpTake, UdpGoto, EnInv
  <2>5. CASE UdpCommand
    BY <2>1, <2>2, <2>3, <2>5 DEF UdpCommand, UdpGoto, EnInv, UDPCMDs
  <2> QED
    BY <1>5, <2>4, <2>5
\* While udpThread is busy nobody is requesting, so it may change EN.
<1>6. ASSUME \/ XfrReset \/ XfrLoad \/ XfrTrigger \/ XfrRelease \/ UdpDisabled
             \/ UdpAnswer
      PROVE  EnInv'
  <2>1. pc' = pc /\ UdpBusy /\ udp_sem' = udp_sem
    BY <1>6 DEF XfrReset, XfrLoad, XfrTrigger, XfrRelease, UdpDisabled, UdpAnswer,
       UdpGoto, UdpBusy, UdpFrame
  <2>2. ASSUME NEW s \in Threads PROVE ~Requesting(s)'
    <3>1. udp_sem = 0 /\ \E u \in Threads : pc[u] = "await"
      BY <2>1 DEF TokenInv, Awaited
    <3> QED
      BY <2>1, <3>1 DEF LockInv, Holding, Requesting
  <2>3. /\ udp' \in {"enabled", "run", "quench"} => EN'
        /\ udp' \in {"init", "bind", "idle", "reset", "load", "trigger", "release",
                     "answer"} => ~EN'
        /\ RV' # 500
    BY <1>6 DEF XfrReset, XfrLoad, XfrTrigger, XfrRelease, UdpDisabled, UdpAnswer,
       UdpGoto, EnInv, config
  <2> QED
    BY <2>2, <2>3 DEF EnInv
<1>7. ASSUME UdpInit \/ UdpBind \/ UdpStop \/ UNCHANGED vars PROVE EnInv'
  BY <1>7 DEF UdpInit, UdpBind, UdpStop, UdpGoto, UdpFrame, EnInv, Requesting,
     vars, config, sems
<1> QED
  BY <1>1, <1>2, <1>3, <1>4, <1>5, <1>6, <1>7 DEF Next, TcpThread, UdpThread

IInv == TypeOK /\ LockInv /\ TokenInv /\ EnInv

\* The inductive invariant of the hand-over holds throughout.
LEMMA Inductive == Spec => []IInv
<1>1. Init => IInv
  BY InitType, LockInit, TokenInit, EnInit DEF IInv
<1>2. IInv /\ [Next]_vars => IInv'
  BY TypeStep, LockStep, TokenStep, EnStep DEF IInv
<1> QED
  BY <1>1, <1>2, PTL DEF Spec

\* udpThread never has to refuse a command code.
THEOREM CodesSuit == Spec => []NeverRefused
<1>1. IInv => NeverRefused
  BY DEF IInv, EnInv, NeverRefused
<1> QED
  BY Inductive, <1>1, PTL

-----------------------------------------------------------------------------
(* The configuration while udpThread acts on it *)

\* Only a tcpThread at a command writes the destination or, while disabled, an
\* N field; it holds cfg_sem then, so udpThread is not busy.
LEMMA Writers ==
  ASSUME IInv, [Next]_vars
  PROVE  \/ UNCHANGED <<cfg, dest>>
         \/ ~EN /\ ~UdpBusy /\ ~EN'
<1> USE DEF IInv
<1>1. ASSUME NEW t \in Threads, ParseCmds(t)
      PROVE  UNCHANGED <<cfg, dest>> \/ (~EN /\ ~UdpBusy /\ ~EN')
  <2>1. pc[t] = "parse" /\ EN' = EN
    BY <1>1 DEF ParseCmds, ParseEN, ParseEX, ParseDA, ParseN, ParseTrigger,
       ParseBad, Parsing, config
  <2>2. ~UdpBusy
    BY <2>1 DEF TokenInv, Awaited, LockInv, Holding
  <2>3. EN => UNCHANGED <<cfg, dest>>
    BY <1>1 DEF ParseCmds, ParseEN, ParseEX, ParseDA, ParseN, ParseTrigger,
       ParseBad, config
  <2> QED
    BY <2>1, <2>2, <2>3 DEF TypeOK
<1>2. CASE UdpTake
  BY <1>2 DEF UdpTake, UdpGoto, UdpBusy, EnInv
<1>3. ASSUME NEW t \in Threads,
             \/ Accept(t) \/ Recv(t) \/ Hangup(t) \/ Lock(t) \/ Post(t)
             \/ Await(t) \/ Unlock(t) \/ Format(t) \/ Send(t)
      PROVE  UNCHANGED <<cfg, dest>>
  BY <1>3 DEF Accept, Recv, Hangup, Lock, Post, Await, Unlock, Format, Send,
     config
<1>4. ASSUME \/ UdpInit \/ UdpBind \/ XfrReset \/ XfrLoad \/ XfrTrigger
             \/ XfrRelease \/ UdpCommand \/ UdpDisabled \/ UdpAnswer \/ UdpStop
             \/ UNCHANGED vars
      PROVE  UNCHANGED <<cfg, dest>>
  BY <1>4 DEF UdpInit, UdpBind, XfrReset, XfrLoad, XfrTrigger, XfrRelease,
     UdpCommand, UdpDisabled, UdpAnswer, UdpStop, vars, config
<1> QED
  BY <1>1, <1>2, <1>3, <1>4 DEF Next, TcpThread, UdpThread

\* From ENABLE to the end of DISABLE no client can change the configuration or
\* redirect the data.
THEOREM Frozen == Spec => ConfigFrozen
<1>1. ASSUME IInv, IInv', [Next]_vars
      PROVE  (EN \/ UdpBusy) /\ (EN' \/ UdpBusy') => UNCHANGED <<cfg, dest>>
  BY <1>1, Writers
<1> QED
  BY Inductive, <1>1, PTL DEF Spec, ConfigFrozen

\* What each stage of xfr_enable() has established.
Requested(t) == Requesting(t) /\ CC = "ENABLE"
PortSet == dest.port = cfg.NP /\ cfg.NP # 0
Loaded ==
  /\ hw.navg = cfg.NA - 1 /\ hw.ncoadd = cfg.NC
  /\ control.ne = cfg.NE
  /\ hw.clk = [chen |-> cfg.NE, div |-> cfg.NF]
Cached == control = hw.ctl
TrigLoaded ==
  /\ control.src = trig.src /\ control.rising = trig.rising /\ control.ae = trig.ae
  /\ hw.netsamples = trig.TL

StageInv ==
  /\ \A t \in Threads : Requested(t) => PortSet
  /\ udp \in {"reset", "load", "trigger", "release", "enabled", "run"}
       => PortSet /\ cfg.NE \in 1..7
  /\ Cached
  /\ udp \in {"load", "trigger", "release", "enabled", "run"} => ~control.unset
  /\ udp \in {"trigger", "release", "enabled", "run"} => Loaded
  /\ udp \in {"enabled", "run"} => ~control.reset
  /\ udp \in {"release", "enabled", "run"} /\ (\A t \in Threads : ~Requesting(t))
       => TrigLoaded

\* The register always has the cached value, or neither was ever set.
LEMMA ControlCached ==
  ASSUME control \in Control, hw \in Registers, Cached,
         NEW new \in Control, NEW regs \in Registers, regs.ctl = hw.ctl,
         set_ssp_control(new, regs)
  PROVE  /\ Cached'
         /\ control' = [new EXCEPT !.unset = FALSE]
         /\ hw'.navg = regs.navg /\ hw'.ncoadd = regs.ncoadd /\ hw'.clk = regs.clk
         /\ hw'.netsamples = regs.netsamples
  BY DEF set_ssp_control, Cached, Registers

\* Nothing has been loaded and no request made at the start.
LEMMA StageInit == Init => StageInv
  BY DEF Init, StageInv, Requested, Requesting, Cached

\* Each stage of xfr_enable() adds its registers to those already loaded, and
\* no client can change the fields it loads meanwhile.
LEMMA StageStep == ASSUME IInv, StageInv, [Next]_vars PROVE StageInv'
<1> USE DEF IInv, TypeOK
\* Parsing: EN records the port with the request; N and T commands act while
\* udpThread is neither enabled nor busy, or leave a request behind.
<1>1. ASSUME NEW t \in Threads, ParseCmds(t) PROVE StageInv'
  <2>1. /\ UNCHANGED <<EN, udp, udp_sem, control, hw>> /\ pc[t] = "parse"
        /\ \/ CC' = CC /\ pc' = [pc EXCEPT ![t] = "unlock"]
           \/ pc' = [pc EXCEPT ![t] = "post"]
    BY <1>1 DEF ParseCmds, ParseEN, ParseEX, ParseDA, ParseN, ParseTrigger,
       ParseBad, Parsing, Return, enq_udpcmd, sems, config
  <2>2. ~UdpBusy /\ \A s \in Threads : ~Requesting(s)
    BY <2>1 DEF TokenInv, Awaited, LockInv, Holding, Requesting
  <2>3. /\ pc' = [pc EXCEPT ![t] = "unlock"] => \A s \in Threads : ~Requesting(s)'
        /\ pc' = [pc EXCEPT ![t] = "post"] => Requesting(t)'
    BY <2>1, <2>2 DEF Requesting
  <2>4. \A s \in Threads : Requested(s)' => PortSet'
    <3>1. CASE pc' = [pc EXCEPT ![t] = "unlock"]
      BY <2>3, <3>1 DEF Requested
    <3>2. CASE pc' = [pc EXCEPT ![t] = "post"] /\ CC' = "ENABLE"
      <4>1. ParseEN(t) /\ ~EN /\ cfg.NP # 0
        BY <1>1, <2>1, <3>2 DEF ParseCmds, ParseEN, ParseEX, ParseDA, ParseN,
           ParseTrigger, ParseBad, Return, enq_udpcmd
      <4> QED
        BY <4>1 DEF ParseEN, PortSet
    <3> QED
      BY <2>1, <3>1, <3>2 DEF Requested
  <2>5. udp = "run" => UNCHANGED <<cfg, dest>>
    <3>1. udp = "run" => EN
      BY DEF EnInv
    <3> QED
      BY <1>1, <3>1 DEF ParseCmds, ParseEN, ParseEX, ParseDA, ParseN,
         ParseTrigger, ParseBad, config
  <2>6. udp = "run" /\ (\A s \in Threads : ~Requesting(s)') => trig' = trig
    <3>1. udp = "run" => EN
      BY DEF EnInv
    <3>2. (\A s \in Threads : ~Requesting(s)') => pc' # [pc EXCEPT ![t] = "post"]
      BY <2>3
    <3> QED
      BY <1>1, <3>1, <3>2 DEF ParseCmds, ParseEN, ParseEX, ParseDA, ParseN,
         ParseTrigger, ParseBad, config, enq_udpcmd
  <2> QED
    BY <2>1, <2>2, <2>4, <2>5, <2>6 DEF StageInv, UdpBusy, PortSet, Loaded, Cached,
       TrigLoaded
<1>2. ASSUME NEW t \in Threads, Post(t) PROVE StageInv'
  <2>1. /\ UNCHANGED <<EN, udp, CC, cfg, dest, trig, control, hw>>
        /\ pc[t] = "post" /\ pc' = [pc EXCEPT ![t] = "await"]
        /\ udp_sem' = udp_sem + 1
    BY <1>2 DEF Post, Goto, config
  <2>2. udp_sem = 0 /\ Requesting(t) /\ Requesting(t)'
    BY <2>1 DEF TokenInv, Awaited, LockInv, Holding, Requesting
  <2>3. \A s \in Threads : Requesting(s)' => s = t
    BY <2>1 DEF LockInv, Holding, Requesting
  <2> QED
    BY <2>1, <2>2, <2>3 DEF StageInv, Requested, PortSet, Loaded, Cached, TrigLoaded
<1>3. ASSUME NEW t \in Threads,
             \/ Accept(t) \/ Recv(t) \/ Hangup(t) \/ Lock(t) \/ Await(t)
             \/ Unlock(t) \/ Format(t) \/ Send(t)
      PROVE  StageInv'
  <2>1. /\ UNCHANGED <<EN, udp, CC, cfg, dest, trig, control, hw, udp_sem>>
        /\ \E p \in TcpStates \ {"post", "await"} :
             pc[t] \notin {"post"} /\ pc' = [pc EXCEPT ![t] = p]
    BY <1>3 DEF Accept, Recv, Hangup, Lock, Await, Unlock, Format, Send, Goto,
       Return, sems, config, TcpStates
  <2>2. pc[t] = "await" => udp_sem = 0
    <3>1. pc[t] = "await" => tcp_sem > 0
      BY <1>3 DEF Accept, Recv, Hangup, Lock, Await, Unlock, Format, Send, Goto
    <3> QED
      BY <3>1 DEF TokenInv
  <2>3. \A s \in Threads : Requesting(s)' <=> Requesting(s)
    BY <2>1, <2>2 DEF Requesting
  <2> QED
    BY <2>1, <2>3 DEF StageInv, Requested, PortSet, Loaded, Cached, TrigLoaded
\* udpThread: each step establishes the next stage.
<1>4. ASSUME UdpThread PROVE StageInv'
  <2>1. pc' = pc /\ UNCHANGED <<CC, trig, dest>>
    BY <1>4 DEF UdpThread, UdpInit, UdpBind, UdpTake, XfrReset, XfrLoad,
       XfrTrigger, XfrRelease, UdpCommand, UdpDisabled, UdpAnswer, UdpFrame,
       config
  <2>2. UdpBusy \/ udp_sem' = udp_sem - 1 => \A s \in Threads : ~Requesting(s)'
    <3>1. ASSUME UdpBusy \/ udp_sem' = udp_sem - 1 PROVE udp_sem' = 0
      BY <1>4, <3>1 DEF UdpThread, UdpInit, UdpBind, UdpTake, XfrReset, XfrLoad,
         XfrTrigger, XfrRelease, UdpCommand, UdpDisabled, UdpAnswer, TokenInv
    <3>2. ASSUME UdpBusy \/ udp_sem' = udp_sem - 1 PROVE Awaited
      BY <1>4, <3>2 DEF UdpThread, UdpInit, UdpBind, UdpTake, XfrReset, XfrLoad,
         XfrTrigger, XfrRelease, UdpCommand, UdpDisabled, UdpAnswer, TokenInv
    <3> QED
      BY <2>1, <3>1, <3>2 DEF Awaited, LockInv, Holding, Requesting
  <2>3. CASE UdpInit
    <3>1. hw'.ctl = hw.ctl
      BY <2>3 DEF UdpInit, AD9510_Init, Registers
    <3> QED
      BY <2>1, <2>3, <3>1 DEF UdpInit, UdpGoto, StageInv, Cached, Requested,
         Requesting, PortSet, config
  <2>4. CASE UdpBind
    BY <2>1, <2>4 DEF UdpBind, UdpGoto, StageInv, Cached, Requested, Requesting,
       PortSet, config
  <2>5. CASE UdpTake
    <3>1. \A s \in Threads : ~Requesting(s)'
      BY <2>2, <2>5 DEF UdpTake
    <3>2. UNCHANGED <<control, hw>> /\ udp' \in {"reset", "answer"}
      BY <2>5 DEF UdpTake, UdpGoto
    <3>3. udp' = "reset" => PortSet' /\ cfg'.NE \in 1..7
      <4>1. ASSUME udp' = "reset" PROVE CC = "ENABLE" /\ PortSet
        <5>1. CC = "ENABLE" /\ udp_sem = 1
          BY <2>5, <4>1 DEF UdpTake, UdpGoto, TokenInv
        <5>2. PICK t \in Threads : pc[t] = "await"
          BY <5>1 DEF TokenInv, Awaited
        <5> QED
          BY <5>1, <5>2 DEF StageInv, Requested, Requesting
      <4>2. CASE CC = "ENABLE"
        <5> DEFINE ne == IF cfg.NE \in 1..7 THEN cfg.NE ELSE 1
                   ns == IF cfg.NS > SSP_MAX_SAMPLES THEN SSP_MAX_SAMPLES ELSE cfg.NS
        <5>1. cfg' = [cfg EXCEPT !.NE = ne, !.NS = ns] /\ dest' = dest
          BY <2>5, <4>2 DEF UdpTake
        <5>2. ne \in 1..7
          OBVIOUS
        <5> HIDE DEF ne, ns
        <5>3. cfg'.NE = ne /\ cfg'.NP = cfg.NP
          BY <5>1 DEF NFields
        <5> QED
          BY <4>1, <5>1, <5>2, <5>3 DEF PortSet
      <4> QED
        BY <4>1, <4>2
    <3> QED
      BY <3>1, <3>2, <3>3 DEF StageInv, Cached, Requested
  <2>6. CASE XfrReset
    <3>1. [control EXCEPT !.reset = TRUE] \in Control
      BY DEF Control
    <3>2. Cached' /\ ~control'.unset
      BY <2>6, <3>1, ControlCached DEF XfrReset, StageInv, Control
    <3> QED
      BY <2>2, <2>6, <3>2 DEF XfrReset, UdpGoto, UdpBusy, StageInv, Requested,
         PortSet, config
  <2>7. CASE XfrLoad
    <3> DEFINE regs == [AD9510_Init(cfg.NE, cfg.NF, hw) EXCEPT
          !.netsamples = cfg.NS, !.navg = cfg.NA - 1, !.ncoadd = cfg.NC]
               new == [control EXCEPT !.ne = cfg.NE]
    <3>1. cfg.NE \in Int /\ cfg.NF \in Int /\ cfg.NS \in Int /\ cfg.NA - 1 \in Int
          /\ cfg.NC \in Int
      BY DEF NFields
    <3>2. new \in Control /\ new.ne = cfg.NE
      BY <3>1 DEF Control
    <3>3. /\ regs \in Registers /\ regs.ctl = hw.ctl
          /\ regs.navg = cfg.NA - 1 /\ regs.ncoadd = cfg.NC
          /\ regs.clk = [chen |-> cfg.NE, div |-> cfg.NF]
      BY <3>1 DEF AD9510_Init, Registers
    <3>4. set_ssp_control(new, regs)
      BY <2>7 DEF XfrLoad
    <3> HIDE DEF regs, new
    <3>5. /\ Cached' /\ control' = [new EXCEPT !.unset = FALSE]
          /\ hw'.navg = regs.navg /\ hw'.ncoadd = regs.ncoadd /\ hw'.clk = regs.clk
      BY <3>2, <3>3, <3>4, ControlCached DEF StageInv
    <3>6. ~control'.unset /\ control'.ne = cfg.NE
      BY <3>2, <3>5 DEF Control
    <3>7. udp = "load" /\ udp' = "trigger" /\ UNCHANGED <<cfg, dest>>
      BY <2>7 DEF XfrLoad, UdpGoto, config
    <3> QED
      BY <2>2, <3>3, <3>5, <3>6, <3>7 DEF UdpBusy, StageInv, Requested, PortSet,
         Loaded
  <2>8. CASE XfrTrigger \/ (UdpCommand /\ CC = "TRIGGER")
    <3> DEFINE new == [control EXCEPT !.src = trig.src, !.rising = trig.rising,
                                      !.ae = trig.ae]
               regs == ssp_ll_triggerlevel(trig.TL, hw)
    <3>0. trig.src \in Int /\ trig.rising \in BOOLEAN /\ trig.ae \in BOOLEAN
          /\ trig.TL \in Int
      BY DEF Trig
    <3>1. /\ new \in Control /\ new.ne = control.ne /\ new.reset = control.reset
          /\ new.src = trig.src /\ new.rising = trig.rising /\ new.ae = trig.ae
      BY <3>0 DEF Control
    <3>2. /\ regs \in Registers /\ regs.ctl = hw.ctl /\ regs.navg = hw.navg
          /\ regs.ncoadd = hw.ncoadd /\ regs.clk = hw.clk /\ regs.netsamples = trig.TL
      BY <3>0 DEF ssp_ll_triggerlevel, Registers
    <3>3. set_ssp_control(new, regs)
      BY <2>8 DEF XfrTrigger, UdpCommand, set_trigger
    <3> HIDE DEF regs, new
    <3>4. /\ Cached' /\ control' = [new EXCEPT !.unset = FALSE]
          /\ hw'.navg = regs.navg /\ hw'.ncoadd = regs.ncoadd /\ hw'.clk = regs.clk
          /\ hw'.netsamples = regs.netsamples
      BY <3>1, <3>2, <3>3, ControlCached DEF StageInv
    <3>5. /\ ~control'.unset /\ control'.ne = control.ne
          /\ control'.reset = control.reset /\ control'.src = trig.src
          /\ control'.rising = trig.rising /\ control'.ae = trig.ae
      BY <3>1, <3>4 DEF Control
    <3>6. \/ udp = "trigger" /\ udp' = "release" /\ UNCHANGED <<cfg, dest, trig>>
          \/ udp = "run" /\ udp' = "enabled" /\ UNCHANGED <<cfg, dest, trig>>
      BY <2>8 DEF XfrTrigger, UdpCommand, UdpGoto, config
    <3>7. \A s \in Threads : ~Requesting(s)'
      BY <2>2, <2>8 DEF XfrTrigger, UdpCommand, UdpGoto, UdpBusy
    <3> QED
      BY <3>2, <3>4, <3>5, <3>6, <3>7 DEF StageInv, Requested, PortSet, Loaded,
         TrigLoaded
  <2>9. CASE XfrRelease
    <3> DEFINE new == [control EXCEPT !.reset = FALSE]
    <3>1. /\ new \in Control /\ new.ne = control.ne /\ ~new.reset
          /\ new.src = control.src /\ new.rising = control.rising
          /\ new.ae = control.ae
      BY DEF Control
    <3>2. set_ssp_control(new, hw)
      BY <2>9 DEF XfrRelease
    <3> HIDE DEF new
    <3>3. /\ Cached' /\ control' = [new EXCEPT !.unset = FALSE]
          /\ hw'.navg = hw.navg /\ hw'.ncoadd = hw.ncoadd /\ hw'.clk = hw.clk
          /\ hw'.netsamples = hw.netsamples
      BY <3>1, <3>2, ControlCached DEF StageInv
    <3>4. /\ ~control'.unset /\ control'.ne = control.ne /\ ~control'.reset
          /\ control'.src = control.src /\ control'.rising = control.rising
          /\ control'.ae = control.ae
      BY <3>1, <3>3 DEF Control
    <3>5. udp = "release" /\ udp' = "enabled" /\ UNCHANGED <<cfg, dest, trig>>
      BY <2>9 DEF XfrRelease, UdpGoto
    <3>6. \A s \in Threads : ~Requesting(s) /\ ~Requesting(s)'
      BY <2>1, <2>2, <2>9, <3>5 DEF XfrRelease, UdpBusy, Requesting
    <3> QED
      BY <3>3, <3>4, <3>5, <3>6 DEF StageInv, Requested, PortSet, Loaded,
         TrigLoaded
  <2>10. CASE UdpCommand /\ CC # "TRIGGER"
    <3>1. CC = "DISABLE"
      <4>1. udp = "run" /\ udp_sem = 1
        BY <2>10 DEF UdpCommand, UdpGoto, TokenInv
      <4>2. PICK t \in Threads : pc[t] = "await"
        BY <4>1 DEF TokenInv, Awaited
      <4> QED
        BY <2>10, <4>1, <4>2 DEF EnInv, Requesting, UDPCMDs
    <3>2. [control EXCEPT !.reset = TRUE] \in Control
      BY DEF Control
    <3>3. Cached'
      BY <2>10, <3>1, <3>2, ControlCached DEF UdpCommand, StageInv
    <3> QED
      BY <2>2, <2>10, <3>1, <3>3 DEF UdpCommand, UdpGoto, StageInv, Requested
  <2>11. CASE UdpDisabled
    <3>1. hw'.ctl = hw.ctl
      BY <2>11 DEF UdpDisabled, AD9510_Init, Registers
    <3> QED
      BY <2>2, <2>11, <3>1 DEF UdpDisabled, UdpGoto, UdpBusy, StageInv, Cached,
         Requested
  <2>12. CASE UdpAnswer
    <3>1. \A s \in Threads : ~Requesting(s) /\ ~Requesting(s)'
      BY <2>1, <2>2, <2>12 DEF UdpAnswer, UdpGoto, UdpBusy, Requesting
    <3> QED
      BY <2>12, <3>1 DEF UdpAnswer, UdpGoto, StageInv, Requested, PortSet, Loaded,
         Cached, TrigLoaded, config
  <2> QED
    BY <1>4, <2>3, <2>4, <2>5, <2>6, <2>7, <2>8, <2>9, <2>10, <2>11, <2>12
    DEF UdpThread
<1>5. CASE UdpStop \/ UNCHANGED vars
  BY <1>5 DEF UdpStop, UdpGoto, UdpFrame, StageInv, Requested, Requesting,
     PortSet, Loaded, Cached, TrigLoaded, vars, config, sems
<1> QED
  BY <1>1, <1>2, <1>3, <1>4, <1>5 DEF Next, TcpThread

\* Both invariants hold throughout.
LEMMA Stages == Spec => [](IInv /\ StageInv)
<1>1. Init => StageInv
  BY StageInit
<1> QED
  BY <1>1, Inductive, StageStep, PTL DEF Spec

\* While udpThread acquires, Navg, Ncoadd, the channels, the clocks and the
\* destination are those that were configured, whoever else is connected.  Nothing
\* is said of NetSamples, which does not keep NS: see Triggered.
THEOREM Configured == Spec => []AcquiresAsConfigured
<1>1. IInv /\ StageInv => AcquiresAsConfigured
  BY DEF IInv, EnInv, StageInv, PortSet, Loaded, Cached, AcquiresAsConfigured
<1> QED
  BY Stages, <1>1, PTL

\* A trigger command that has been answered has reached the control register, and
\* its level the NetSamples register, for any clients: so the length the circuit
\* goes by is TL, not NS.
THEOREM Triggered == Spec => []TriggerApplied
<1>1. IInv /\ StageInv => TriggerApplied
  BY DEF IInv, TypeOK, StageInv, TrigLoaded, Cached, TriggerApplied, Requesting
<1> QED
  BY Stages, <1>1, PTL

\* udpThread holds the circuit in reset from the first write of xfr_enable() to
\* the last, and from the DISABLE on.
ResetInv ==
  /\ udp = "init" => control.unset
  /\ udp \in {"load", "trigger", "release", "quench"} => control.reset

\* The control register is written, and udpThread goes on, by these steps alone.
LEMMA ResetStep == ASSUME IInv, StageInv, ResetInv, [Next]_vars PROVE ResetInv'
<1> USE DEF IInv, TypeOK, ResetInv, UdpGoto
<1>1. ASSUME NEW t \in Threads,
             \/ Accept(t) \/ Recv(t) \/ Hangup(t) \/ TcpThread(t)
      PROVE  ResetInv'
  BY <1>1 DEF Accept, Recv, Hangup, TcpThread, Lock, ParseCmds, ParseEN, ParseEX, ParseDA,
     ParseN, ParseTrigger, ParseBad, Post, Await, Unlock, Format, Send
<1>2. CASE UdpInit \/ UdpBind \/ UdpTake \/ XfrRelease \/ UdpDisabled \/ UdpAnswer \/ UdpStop
             \/ UNCHANGED vars
  BY <1>2 DEF UdpInit, UdpBind, UdpTake, XfrRelease, UdpDisabled, UdpAnswer, UdpStop, vars,
     config
<1>3. CASE XfrReset \/ (UdpCommand /\ CC = "DISABLE")
  <2>1. control' = [[control EXCEPT !.reset = TRUE] EXCEPT !.unset = FALSE]
    BY <1>3 DEF XfrReset, UdpCommand, set_ssp_control
  <2>2. control'.reset
    BY <2>1 DEF Control
  <2> QED
    BY <1>3, <2>2 DEF XfrReset, UdpCommand
<1>4. CASE XfrLoad \/ XfrTrigger
  <2>1. control'.reset = control.reset
    BY <1>4 DEF XfrLoad, XfrTrigger, set_trigger, set_ssp_control, Control
  <2> QED
    BY <1>4, <2>1 DEF XfrLoad, XfrTrigger
<1>5. CASE UdpCommand /\ CC # "DISABLE"
  BY <1>5 DEF UdpCommand
<1> QED
  BY <1>1, <1>2, <1>3, <1>4, <1>5 DEF Next, UdpThread

\* Channels, averaging, coadding and clocks change only under reset, in whatever
\* order clients enable, disable and set triggers.
THEOREM UnderReset == Spec => LoadedUnderReset
<1> DEFINE Loads == <<hw.navg, hw.ncoadd, hw.ctl.ne, hw.clk>>
<1>1. Init => ResetInv
  BY DEF Init, ResetInv
<1>2. ASSUME IInv, StageInv, ResetInv, [Next]_vars, ~hw.ctl.unset, Loads' # Loads
      PROVE  hw.ctl.reset /\ hw'.ctl.reset
  <2>0. control \in Control /\ hw \in Registers /\ trig \in Trig /\ cfg \in [NFields -> Nat]
    BY <1>2 DEF IInv, TypeOK
  <2> USE <2>0 DEF UdpGoto
  <2>1. Cached
    BY <1>2 DEF StageInv
  <2>2. CASE UNCHANGED hw
    BY <1>2, <2>2
  <2>3. CASE UdpInit
    BY <1>2, <2>1, <2>3 DEF UdpInit, ResetInv, Cached
  <2>4. CASE UdpDisabled
    <3>1. hw'.ctl = hw.ctl
      BY <2>4 DEF UdpDisabled, AD9510_Init, Registers
    <3> QED
      BY <1>2, <2>1, <2>4, <3>1 DEF UdpDisabled, ResetInv, Cached
  <2>5. CASE XfrLoad
    <3> DEFINE regs == [AD9510_Init(cfg.NE, cfg.NF, hw) EXCEPT
          !.netsamples = cfg.NS, !.navg = cfg.NA - 1, !.ncoadd = cfg.NC]
               new == [control EXCEPT !.ne = cfg.NE]
    <3>1. cfg.NE \in Int /\ cfg.NF \in Int /\ cfg.NS \in Int /\ cfg.NA - 1 \in Int
          /\ cfg.NC \in Int
      BY DEF NFields
    <3>2. new \in Control /\ new.reset = control.reset
      BY <3>1 DEF Control
    <3>3. regs \in Registers /\ regs.ctl = hw.ctl
      BY <3>1 DEF AD9510_Init, Registers
    <3>4. set_ssp_control(new, regs)
      BY <2>5 DEF XfrLoad
    <3> HIDE DEF regs, new
    <3>5. Cached' /\ control' = [new EXCEPT !.unset = FALSE]
      BY <2>1, <3>2, <3>3, <3>4, ControlCached
    <3>6. control'.reset = control.reset
      BY <3>2, <3>5 DEF Control
    <3> QED
      BY <1>2, <2>1, <2>5, <3>5, <3>6 DEF XfrLoad, ResetInv, Cached
  <2>6. CASE XfrReset \/ XfrTrigger \/ XfrRelease \/ UdpCommand
    <3>1. PICK new \in Control, regs \in Registers :
            /\ new.ne = control.ne
            /\ regs.navg = hw.navg /\ regs.ncoadd = hw.ncoadd /\ regs.clk = hw.clk
            /\ regs.ctl = hw.ctl
            /\ set_ssp_control(new, regs) \/ UNCHANGED <<control, hw>>
      <4>1. CASE set_trigger
        <5> DEFINE n == [control EXCEPT !.src = trig.src, !.rising = trig.rising,
                                        !.ae = trig.ae]
                   r == ssp_ll_triggerlevel(trig.TL, hw)
        <5>1. trig.src \in Int /\ trig.rising \in BOOLEAN /\ trig.ae \in BOOLEAN
              /\ trig.TL \in Int
          BY DEF Trig
        <5>2. n \in Control /\ n.ne = control.ne
          BY <5>1 DEF Control
        <5>3. /\ r \in Registers /\ r.ctl = hw.ctl /\ r.navg = hw.navg
              /\ r.ncoadd = hw.ncoadd /\ r.clk = hw.clk
          BY <5>1 DEF ssp_ll_triggerlevel, Registers
        <5>4. set_ssp_control(n, r)
          BY <4>1 DEF set_trigger
        <5> HIDE DEF n, r
        <5> QED
          BY <5>2, <5>3, <5>4
      <4>2. ASSUME NEW e \in BOOLEAN, set_ssp_control([control EXCEPT !.reset = e], hw)
            PROVE  \E new \in Control, regs \in Registers :
                     /\ new.ne = control.ne
                     /\ regs.navg = hw.navg /\ regs.ncoadd = hw.ncoadd /\ regs.clk = hw.clk
                     /\ regs.ctl = hw.ctl
                     /\ set_ssp_control(new, regs) \/ UNCHANGED <<control, hw>>
        <5> DEFINE n == [control EXCEPT !.reset = e]
        <5>1. n \in Control /\ n.ne = control.ne
          BY DEF Control
        <5>2. set_ssp_control(n, hw)
          BY <4>2
        <5> HIDE DEF n
        <5> QED
          BY <5>1, <5>2
      <4>3. CASE UNCHANGED <<control, hw>>
        BY <4>3 DEF Control
      <4> QED
        BY <2>6, <4>1, <4>2, <4>3 DEF XfrReset, XfrTrigger, XfrRelease, UdpCommand
    <3>2. CASE UNCHANGED <<control, hw>>
      BY <1>2, <3>2
    <3>3. CASE set_ssp_control(new, regs)
      <4>1. /\ Cached' /\ control' = [new EXCEPT !.unset = FALSE]
            /\ hw'.navg = regs.navg /\ hw'.ncoadd = regs.ncoadd /\ hw'.clk = regs.clk
        BY <2>1, <3>1, <3>3, ControlCached
      <4>2. control'.ne = control.ne
        BY <3>1, <4>1 DEF Control
      <4>3. hw'.ctl.ne = hw.ctl.ne
        BY <2>1, <4>1, <4>2 DEF Cached
      <4> QED
        BY <1>2, <3>1, <4>1, <4>3
    <3> QED
      BY <3>1, <3>2, <3>3
  <2> QED
    BY <1>2, <2>2, <2>3, <2>4, <2>5, <2>6 DEF Next, TcpThread, UdpThread, Accept, Recv, Hangup,
       Lock, ParseCmds, ParseEN, ParseEX, ParseDA, ParseN, ParseTrigger, ParseBad, Post, Await,
       Unlock, Format, Send, UdpBind, UdpTake, UdpAnswer, UdpStop, vars
<1>3. IInv /\ StageInv /\ ResetInv /\ [Next]_vars => ResetInv'
  BY ResetStep
<1>4. IInv /\ StageInv /\ ResetInv /\ [Next]_vars
        => (~hw.ctl.unset /\ Loads' # Loads => hw.ctl.reset /\ hw'.ctl.reset)
  BY <1>2
<1> QED
  BY <1>1, <1>3, <1>4, Stages, PTL DEF Spec, LoadedUnderReset

-----------------------------------------------------------------------------
(* SSPControl implements SSPService: for any number of connections and any  *)
(* commands, each command takes effect at one moment and is answered by     *)
(* what it did.                                                              *)

-----------------------------------------------------------------------------
(* What the commands store *)

\* What the signed short TL holds.
Shorts == -Service!MaxTL - 1..Service!MaxTL

\* limit_range() keeps a number within the limits that SSPService names.
LEMMA NValueLimits ==
  ASSUME NEW f \in NFields, NEW val \in Int
  PROVE  NValue(f, val) \in Service!Limits[f]
<1>1. /\ SSP_MAX_SAMPLES = Service!MaxNS /\ SSP_MAX_PREADD = 256
      /\ SSP_MAX_COADD = Service!MaxNC /\ SSP_MAX_NE = 7
  BY DEF SSP_MAX_SAMPLES, SSP_MAX_PREADD, SSP_MAX_COADD, SSP_MAX_NE, Service!MaxNS,
     Service!MaxNC
<1>2. CASE f = "NS"
  <2>1. limit_range(val, 1, SSP_MAX_SAMPLES) \in 1..SSP_MAX_SAMPLES
    BY DEF limit_range, SSP_MAX_SAMPLES
  <2> QED
    BY <1>1, <1>2, <2>1 DEF NValue, Service!Limits
<1>3. CASE f = "NA"
  <2>1. limit_range(val, 1, SSP_MAX_PREADD) \in 1..SSP_MAX_PREADD
    BY DEF limit_range, SSP_MAX_PREADD
  <2> QED
    BY <1>1, <1>3, <2>1 DEF NValue, Service!Limits
<1>4. CASE f = "NC"
  <2>1. limit_range(val, 1, SSP_MAX_COADD) \in 1..SSP_MAX_COADD
    BY DEF limit_range, SSP_MAX_COADD
  <2> QED
    BY <1>1, <1>4, <2>1 DEF NValue, Service!Limits
<1>5. CASE f = "NE"
  <2>1. limit_range(val, 1, SSP_MAX_NE) \in 1..SSP_MAX_NE
    BY DEF limit_range, SSP_MAX_NE
  <2> QED
    BY <1>1, <1>5, <2>1 DEF NValue, Service!Limits
<1>6. CASE f = "NF"
  <2>1. limit_range(val, 1, 32) \in 1..32
    BY DEF limit_range
  <2> QED
    BY <1>6, <2>1 DEF NValue, Service!Limits
<1>7. CASE f = "NP"
  <2>1. val % 65536 \in Int /\ 0 <= val % 65536 /\ val % 65536 <= 65535
    OBVIOUS
  <2>2. Service!MaxNP \in Int /\ val % 65536 <= Service!MaxNP
    BY <2>1 DEF Service!MaxNP
  <2>3. \A x, m \in Int : 0 <= x /\ x <= m => x \in 0..m
    OBVIOUS
  <2>4. val % 65536 \in 0..Service!MaxNP
    BY <2>1, <2>2, <2>3
  <2> QED
    BY <1>7, <2>4 DEF NValue, Service!Limits
<1> QED
  BY <1>2, <1>3, <1>4, <1>5, <1>6, <1>7 DEF NFields

\* A number stored in the signed low TL wraps around into its range.
LEMMA ShortRange == ASSUME NEW val \in Int PROVE short(val) \in Shorts
<1>1. PICK y \in Int : y = val + 32768
  OBVIOUS
<1>2. y % 65536 \in Int /\ 0 <= y % 65536 /\ y % 65536 < 65536
  OBVIOUS
<1>3. PICK z \in Int : z = y % 65536 /\ 0 <= z /\ z < 65536
  BY <1>2
<1>4. short(val) = z - 32768
  BY <1>1, <1>3 DEF short
<1>5. Service!MaxTL = 32767
  BY DEF Service!MaxTL
<1>6. /\ Service!MaxTL \in Int
      /\ -Service!MaxTL - 1 <= z - 32768 /\ z - 32768 <= Service!MaxTL
  BY <1>3, <1>5
<1> QED
  BY <1>4, <1>6 DEF Shorts

\* The settings that a T or A command stores.
LEMMA NewTrigLimits ==
  ASSUME trig \in Trig, trig.TL \in Shorts, NEW head \in TriggerOps, NEW val \in Int
  PROVE  NewTrig(head, val).TL \in Shorts
<1>1. short(val) \in Shorts
  BY ShortRange
<1> QED
  BY <1>1 DEF NewTrig, Trig, TriggerOps

-----------------------------------------------------------------------------
(* What is known of a command between its arrival and its reply *)

\* The command that a thread has handed to udpThread is the one it is executing.
HandedOver(t) ==
  \/ CC = "ENABLE" /\ did[t] = "EN"
  \/ CC = "DISABLE" /\ did[t] = "DA"
  \/ CC = "TRIGGER" /\ did[t] \in TriggerOps

Asking(t) == pc[t] \in {"post", "await"}
Replying(t) == pc[t] \in {"unlock", "format", "send"}

ServiceInv ==
  /\ did \in [Threads -> Ops \cup {"blank"}]
  /\ \A t \in Threads : Asking(t) => HandedOver(t)
  /\ \A t \in Threads : Replying(t) => rv[t] # 0
  /\ udp \in {"reset", "load", "trigger", "release"} => CC = "ENABLE"
  /\ udp \in {"quench", "answer"} => CC = "DISABLE"
  /\ tcp_sem = 1 \/ udp \in {"enabled", "quench", "answer"} => RV = 200
  /\ trig.TL \in Shorts /\ cfg.NS <= SSP_MAX_SAMPLES

\* It holds before the first command.
LEMMA ServiceInit == Init => ServiceInv
<1> SUFFICES ASSUME Init PROVE ServiceInv
  OBVIOUS
<1>1. cfg.NS = 0 /\ trig.TL = 0 /\ 0 <= SSP_MAX_SAMPLES
  BY DEF Init, NFields, SSP_MAX_SAMPLES
<1>2. 0 \in Shorts
  <2>1. Service!MaxTL \in Nat
    BY DEF Service!MaxTL
  <2> QED
    BY <2>1 DEF Shorts
<1> QED
  BY <1>1, <1>2 DEF Init, ServiceInv, Asking, Replying

\* While a thread parses, no other has a request under way.
LEMMA ParserAlone ==
  ASSUME IInv, NEW t \in Threads, pc[t] = "parse"
  PROVE  /\ \A s \in Threads : ~Asking(s)
         /\ ~UdpBusy /\ udp_sem = 0 /\ tcp_sem = 0
BY DEF IInv, TypeOK, LockInv, Holding, TokenInv, Awaited, Asking

\* The thread that asks is the only one.
LEMMA AskerAlone ==
  ASSUME IInv, NEW t \in Threads, Asking(t), NEW s \in Threads, Asking(s)
  PROVE  s = t
BY DEF IInv, TypeOK, LockInv, Holding, Asking

\* What a step of parse_cmds() may do.
LEMMA ParseEffect ==
  ASSUME IInv, ServiceInv, NEW t \in Threads, ParseCmds(t)
  PROVE  /\ pc[t] = "parse" /\ UNCHANGED <<udp, RV, sems, EN>>
         /\ did' \in [Threads -> Ops \cup {"blank"}] /\ did'[t] = rcv_msg.head
         /\ \A s \in Threads : s # t => did'[s] = did[s]
         /\ \/ CC' = CC /\ \E code \in Codes : Return(t, code)
            \/ pc' = [pc EXCEPT ![t] = "post"] /\ rv' = rv /\ HandedOver(t)'
<1> USE DEF IInv, TypeOK
<1>1. /\ pc[t] = "parse" /\ UNCHANGED <<udp, RV, sems, EN>>
      /\ did' = [did EXCEPT ![t] = rcv_msg.head]
  BY DEF ParseCmds, ParseEN, ParseEX, ParseDA, ParseN, ParseTrigger, ParseBad, Parsing, config
<1>2. rcv_msg.head \in Ops \cup {"blank"}
  BY DEF Messages
<1>3. /\ did' \in [Threads -> Ops \cup {"blank"}] /\ did'[t] = rcv_msg.head
      /\ \A s \in Threads : s # t => did'[s] = did[s]
  BY <1>1, <1>2 DEF ServiceInv
<1>4. \/ CC' = CC /\ \E code \in Codes : Return(t, code)
      \/ pc' = [pc EXCEPT ![t] = "post"] /\ rv' = rv /\ HandedOver(t)'
  <2>1. CASE ParseEN(t)
    BY <1>3, <2>1 DEF ParseEN, enq_udpcmd, HandedOver, Parsing, Codes
  <2>2. CASE ParseEX(t)
    BY <2>2 DEF ParseEX, Codes, config
  <2>3. CASE ParseDA(t)
    BY <1>3, <2>3 DEF ParseDA, enq_udpcmd, HandedOver, Parsing, Codes
  <2>4. CASE ParseN(t)
    BY <2>4 DEF ParseN, Codes
  <2>5. CASE ParseTrigger(t)
    BY <1>3, <2>5 DEF ParseTrigger, enq_udpcmd, HandedOver, Parsing, Codes
  <2>6. CASE ParseBad(t)
    BY <2>6 DEF ParseBad, Codes, config
  <2> QED
    BY <2>1, <2>2, <2>3, <2>4, <2>5, <2>6 DEF ParseCmds
<1> QED
  BY <1>1, <1>3, <1>4

\* parse_cmds() keeps the invariant.
LEMMA ServiceParse ==
  ASSUME IInv, ServiceInv, NEW t \in Threads, ParseCmds(t)
  PROVE  ServiceInv'
<1> USE DEF IInv, TypeOK
<1>1. /\ \A s \in Threads : ~Asking(s)
      /\ ~UdpBusy /\ tcp_sem = 0 /\ pc[t] = "parse"
  BY ParseEffect, ParserAlone
<1>2. /\ \A s \in Threads : Asking(s)' => HandedOver(s)'
      /\ \A s \in Threads : Replying(s)' => rv'[s] # 0
  <2>1. ASSUME NEW code \in Codes, Return(t, code)
        PROVE  /\ \A s \in Threads : ~Asking(s)'
               /\ \A s \in Threads : Replying(s)' => rv'[s] # 0
    BY <1>1, <2>1 DEF Return, Codes, ServiceInv, Asking, Replying
  <2>2. ASSUME pc' = [pc EXCEPT ![t] = "post"], rv' = rv, HandedOver(t)'
        PROVE  /\ \A s \in Threads : Asking(s)' => s = t
               /\ \A s \in Threads : Replying(s)' => rv'[s] # 0
    BY <1>1, <2>2 DEF ServiceInv, Asking, Replying
  <2> QED
    BY ParseEffect, <2>1, <2>2
<1>3. trig'.TL \in Shorts
  <2>1. CASE ParseTrigger(t)
    <3>1. rcv_msg.head \in TriggerOps /\ rcv_msg.tail.val \in Int
      BY <2>1 DEF ParseTrigger, Parsing, Messages, Tails
    <3>2. NewTrig(rcv_msg.head, rcv_msg.tail.val).TL \in Shorts
      BY <3>1, NewTrigLimits DEF ServiceInv
    <3> QED
      BY <2>1, <3>2 DEF ParseTrigger
  <2>2. CASE UNCHANGED trig
    BY <2>2 DEF ServiceInv
  <2> QED
    BY <2>1, <2>2 DEF ParseCmds, ParseEN, ParseEX, ParseDA, ParseN, ParseBad, config
<1>4. cfg'.NS <= SSP_MAX_SAMPLES
  <2>1. CASE ParseN(t) /\ cfg' # cfg
    <3> DEFINE f == rcv_msg.head
               v == NValue(f, rcv_msg.tail.val)
    <3>1. f \in NFields /\ rcv_msg.tail.val \in Int /\ cfg' = [cfg EXCEPT ![f] = v]
      BY <2>1 DEF ParseN, Parsing, Messages, Tails
    <3>2. f = "NS" => v <= SSP_MAX_SAMPLES
      <4>1. limit_range(rcv_msg.tail.val, 1, SSP_MAX_SAMPLES) \in 1..SSP_MAX_SAMPLES
        <5>1. SSP_MAX_SAMPLES \in Nat /\ 1 <= SSP_MAX_SAMPLES
          BY DEF SSP_MAX_SAMPLES
        <5> QED
          BY <3>1, <5>1, LimitRange
      <4>2. f = "NS" => v = limit_range(rcv_msg.tail.val, 1, SSP_MAX_SAMPLES)
        BY DEF NValue
      <4>3. SSP_MAX_SAMPLES \in Nat
        BY DEF SSP_MAX_SAMPLES
      <4> QED
        BY <4>1, <4>2, <4>3
    <3> HIDE DEF v
    <3> QED
      BY <3>1, <3>2 DEF NFields, ServiceInv
  <2>2. CASE cfg' = cfg
    BY <2>2 DEF ServiceInv
  <2> QED
    BY <2>1, <2>2 DEF ParseCmds, ParseEN, ParseEX, ParseDA, ParseTrigger, ParseBad, config
<1> QED
  BY <1>1, <1>2, <1>3, <1>4, ParseEffect DEF ServiceInv, sems, UdpBusy

\* The other steps of the tcpThreads.
LEMMA ServiceTcp ==
  ASSUME IInv, ServiceInv, NEW t \in Threads,
         \/ Accept(t) \/ Recv(t) \/ Hangup(t) \/ Lock(t) \/ Post(t) \/ Await(t)
         \/ Unlock(t) \/ Format(t) \/ Send(t)
  PROVE  ServiceInv'
<1> USE DEF IInv, TypeOK
<1>1. UNCHANGED <<udp, RV, CC, cfg, trig>>
  BY DEF Accept, Recv, Hangup, Lock, Post, Await, Unlock, Format, Send, config
<1>2. did' = did \/ (did' = [did EXCEPT ![t] = "blank"] /\ pc[t] = "send")
  BY DEF Accept, Recv, Hangup, Lock, Post, Await, Unlock, Format, Send, Goto, clients
<1>3. tcp_sem' = 1 => tcp_sem = 1
  BY DEF Accept, Recv, Hangup, Lock, Post, Await, Unlock, Format, Send, sems, TokenInv
<1>4. \A s \in Threads : Asking(s)' => Asking(s) /\ did'[s] = did[s]
  <2>1. ASSUME NEW s \in Threads, Asking(s)' PROVE Asking(s)
    BY <2>1 DEF Accept, Recv, Hangup, Lock, Post, Await, Unlock, Format, Send, Goto, Return,
       Asking
  <2> QED
    BY <1>2, <2>1 DEF Asking, ServiceInv
<1>5. \A s \in Threads : Replying(s)' => rv'[s] # 0
  <2>1. CASE Await(t)
    <3>1. tcp_sem = 1
      BY <2>1 DEF Await, TokenInv
    <3>2. RV = 200
      BY <3>1 DEF ServiceInv
    <3> QED
      BY <2>1, <3>2 DEF Await, Return, Replying, ServiceInv
  <2>2. CASE ~Await(t)
    <3>1. rv' = rv /\ \A s \in Threads : Replying(s)' => Replying(s)
      BY <2>2 DEF Accept, Recv, Hangup, Lock, Post, Unlock, Format, Send, Goto, Replying
    <3> QED
      BY <3>1 DEF ServiceInv
  <2> QED
    BY <2>1, <2>2
<1>6. \A s \in Threads : Asking(s)' => HandedOver(s)'
  BY <1>1, <1>4 DEF ServiceInv, HandedOver
<1>7. did' \in [Threads -> Ops \cup {"blank"}]
  BY <1>2 DEF ServiceInv
<1> QED
  BY <1>1, <1>3, <1>5, <1>6, <1>7 DEF ServiceInv

\* What udpThread finds when it takes a request.
LEMMA Taken ==
  ASSUME IInv, StageInv, ServiceInv, UdpTake \/ UdpCommand
  PROVE  /\ udp = "idle" => CC = "ENABLE" /\ PortSet
         /\ udp = "run" => CC \in {"DISABLE", "TRIGGER"}
<1> USE DEF IInv, TypeOK
<1>1. udp_sem = 1 /\ udp \in {"idle", "run"}
  BY DEF UdpTake, UdpCommand, UdpGoto, TokenInv
<1>2. PICK t \in Threads : pc[t] = "await"
  BY <1>1 DEF TokenInv, Awaited
<1>3. CC # "none" /\ (CC = "ENABLE" <=> ~EN) /\ (CC = "ENABLE" => PortSet)
  BY <1>1, <1>2 DEF EnInv, Requesting, Requested, StageInv
<1> QED
  BY <1>1, <1>3 DEF EnInv, UDPCMDs

\* The steps of udpThread.
LEMMA ServiceUdp ==
  ASSUME IInv, StageInv, ServiceInv, UdpThread \/ UdpStop \/ UNCHANGED vars
  PROVE  ServiceInv'
<1> USE DEF IInv, TypeOK, UdpGoto, UdpFrame
<1>1. UNCHANGED <<pc, rv, did, CC, trig>>
  BY DEF UdpThread, UdpInit, UdpBind, UdpTake, XfrReset, XfrLoad, XfrTrigger, XfrRelease,
     UdpCommand, UdpDisabled, UdpAnswer, UdpStop, vars, config, clients
<1>2. /\ udp' \in {"reset", "load", "trigger", "release"} => CC = "ENABLE"
      /\ udp' \in {"quench", "answer"} => CC = "DISABLE"
  <2>1. CASE UdpTake \/ UdpCommand
    BY <2>1, Taken DEF UdpTake, UdpCommand
  <2>2. CASE ~(UdpTake \/ UdpCommand)
    BY <2>2 DEF UdpThread, UdpInit, UdpBind, XfrReset, XfrLoad, XfrTrigger, XfrRelease,
       UdpDisabled, UdpAnswer, UdpStop, vars, ServiceInv
  <2> QED
    BY <2>1, <2>2
<1>3. tcp_sem' = 1 \/ udp' \in {"enabled", "quench", "answer"} => RV' = 200
  <2>1. CASE UdpTake \/ UdpCommand
    BY <2>1, Taken DEF UdpTake, UdpCommand, ServiceInv
  <2>2. CASE ~(UdpTake \/ UdpCommand)
    BY <2>2 DEF UdpThread, UdpInit, UdpBind, XfrReset, XfrLoad, XfrTrigger, XfrRelease,
       UdpDisabled, UdpAnswer, UdpStop, vars, ServiceInv, config, sems, TokenInv
  <2> QED
    BY <2>1, <2>2
<1>4. cfg'.NS <= SSP_MAX_SAMPLES
  <2>1. CASE UdpTake /\ CC = "ENABLE"
    <3> DEFINE ne == IF cfg.NE \in 1..7 THEN cfg.NE ELSE 1
               ns == IF cfg.NS > SSP_MAX_SAMPLES THEN SSP_MAX_SAMPLES ELSE cfg.NS
    <3>1. cfg' = [cfg EXCEPT !.NE = ne, !.NS = ns]
      BY <2>1 DEF UdpTake
    <3>2. ns = cfg.NS
      BY DEF ServiceInv, SSP_MAX_SAMPLES, NFields
    <3> HIDE DEF ne, ns
    <3> QED
      BY <3>1, <3>2 DEF NFields, ServiceInv
  <2>2. CASE cfg' = cfg
    BY <2>2 DEF ServiceInv
  <2> QED
    BY <2>1, <2>2 DEF UdpThread, UdpInit, UdpBind, UdpTake, XfrReset, XfrLoad, XfrTrigger,
       XfrRelease, UdpCommand, UdpDisabled, UdpAnswer, UdpStop, vars, config
<1> QED
  BY <1>1, <1>2, <1>3, <1>4 DEF ServiceInv, Asking, Replying, HandedOver

\* All of it holds throughout.
LEMMA Commanded == Spec => [](IInv /\ StageInv /\ ServiceInv)
<1>1. IInv /\ StageInv /\ ServiceInv /\ [Next]_vars => ServiceInv'
  BY ServiceParse, ServiceTcp, ServiceUdp DEF Next, TcpThread
<1> QED
  BY ServiceInit, <1>1, Stages, PTL DEF Spec

-----------------------------------------------------------------------------
(* Every step is one of SSPService's, or none *)

results ==
  [t \in Threads |-> [op |-> IF Result(t) = 0 THEN "none" ELSE did[t], code |-> Result(t)]]

\* Nobody's result changes, except perhaps that of t.
Quiet(t) ==
  \A s \in Threads : s # t => Result(s)' = Result(s) /\ (Result(s) # 0 => did'[s] = did[s])

\* A step that shows no result and changes no setting is none of SSPService's.
LEMMA Unnoticed ==
  ASSUME UNCHANGED <<EN, cfg, trig>>,
         \A t \in Threads : Result(t)' = Result(t) /\ (Result(t) # 0 => did'[t] = did[t])
  PROVE  UNCHANGED Service!vars
BY DEF Service!vars

\* A result that appears is that thread's answer.
LEMMA Shown ==
  ASSUME NEW t \in Threads, NEW op, NEW code \in Codes, Quiet(t),
         Result(t) = 0, Result(t)' = code, did'[t] = op
  PROVE  /\ Service!Answer(t, op, code)
         /\ results[t] = Service!NoAnswer /\ results'[t] # Service!NoAnswer
         /\ results' = [results EXCEPT ![t] = results'[t]]
<1>1. Service!Answer(t, op, code)
  BY DEF Service!Answer, Codes
<1>2. results[t] = Service!NoAnswer
  BY DEF results, Service!NoAnswer
<1>3. results'[t] # Service!NoAnswer
  BY DEF results, Service!NoAnswer, Codes
<1>4. results' = [results EXCEPT ![t] = results'[t]]
  BY DEF results, Quiet
<1> QED
  BY <1>1, <1>2, <1>3, <1>4

\* So a step that shows one is a Serve step if its effect is one of those.
LEMMA Served ==
  ASSUME NEW t \in Threads, NEW op, NEW code \in Codes, Quiet(t),
         Result(t) = 0, Result(t)' = code, did'[t] = op,
         Service!Answer(t, op, code) =>
           \/ Service!Enable(t) \/ Service!Disable(t) \/ Service!Configure(t)
           \/ Service!Trigger(t) \/ Service!Refuse(t)
  PROVE  Service!Next
<1>1. Service!Serve(t)
  BY Shown DEF Service!Serve, results
<1> QED
  BY <1>1 DEF Service!Next

Maps == Service!Next \/ UNCHANGED Service!vars

\* parse_cmds() answers at once, or hands over a command; a trigger command has
\* taken effect by then.
LEMMA MapParse ==
  ASSUME IInv, ServiceInv, NEW t \in Threads, ParseCmds(t)
  PROVE  Maps
<1> USE DEF IInv, TypeOK
<1> DEFINE head == rcv_msg.head
<1>1. /\ pc[t] = "parse" /\ UNCHANGED <<udp, RV, sems, EN>> /\ did'[t] = head
      /\ \A s \in Threads : s # t => did'[s] = did[s]
      /\ \/ CC' = CC /\ \E code \in Codes : Return(t, code)
         \/ pc' = [pc EXCEPT ![t] = "post"] /\ rv' = rv
      /\ \A s \in Threads : ~Asking(s)
  BY ParseEffect, ParserAlone
<1>2. Quiet(t) /\ Result(t) = 0
  <2>1. ASSUME NEW s \in Threads, s # t
        PROVE  pc'[s] = pc[s] /\ rv'[s] = rv[s] /\ did'[s] = did[s] /\ ~Asking(s)
    BY <1>1, <2>1 DEF Return
  <2>2. ASSUME NEW s \in Threads, s # t PROVE Result(s)' = Result(s)
    BY <2>1, <2>2 DEF Result, Asking
  <2> QED
    BY <1>1, <2>1, <2>2 DEF Quiet, Result
<1>3. ASSUME NEW code \in Codes, Return(t, code) PROVE Result(t)' = code
  BY <1>3 DEF Return, Result
<1>4. CASE ParseEN(t)
  <2>1. CASE CC' = "ENABLE" /\ pc' = [pc EXCEPT ![t] = "post"]
    <3>1. Result(t)' = 0 /\ UNCHANGED <<cfg, trig>>
      BY <1>4, <2>1 DEF Result, ParseEN
    <3> QED
      BY <1>1, <1>2, <3>1, Unnoticed DEF Quiet, Maps
  <2>2. CASE EN /\ Return(t, 503)
    <3>1. Service!Answer(t, "EN", 503) => Service!Refuse(t)
      BY <1>1, <1>4, <2>2 DEF ParseEN, Service!Refuse
    <3> QED
      BY <1>1, <1>2, <1>3, <1>4, <2>2, <3>1, Served DEF Codes, ParseEN, Parsing, Maps
  <2>3. CASE ~EN /\ cfg.NP = 0 /\ Return(t, 400)
    <3>1. Service!Answer(t, "EN", 400) => Service!Refuse(t)
      BY <1>1, <1>4, <2>3 DEF ParseEN, Service!Refuse
    <3> QED
      BY <1>1, <1>2, <1>3, <1>4, <2>3, <3>1, Served DEF Codes, ParseEN, Parsing, Maps
  <2> QED
    BY <1>4, <2>1, <2>2, <2>3 DEF ParseEN, enq_udpcmd
<1>5. CASE ParseEX(t)
  <2>1. did'[t] = "EX" /\ UNCHANGED <<cfg, trig>>
    BY <1>1, <1>5 DEF ParseEX, Parsing, config
  <2>2. CASE EN
    <3>1. Return(t, 503)
      BY <1>5, <2>2 DEF ParseEX
    <3>2. Service!Answer(t, "EX", 503) => Service!Refuse(t)
      BY <1>1, <2>1, <2>2 DEF Service!Refuse
    <3> QED
      BY <1>2, <1>3, <2>1, <3>1, <3>2, Served DEF Codes, Maps
  <2>3. CASE ~EN
    <3>1. Return(t, 410)
      BY <1>5, <2>3 DEF ParseEX
    <3>2. Service!Answer(t, "EX", 410) => Service!Refuse(t)
      BY <1>1, <2>1, <2>3 DEF Service!Refuse
    <3> QED
      BY <1>2, <1>3, <2>1, <3>1, <3>2, Served DEF Codes, Maps
  <2> QED
    BY <2>2, <2>3
<1>6. CASE ParseDA(t)
  <2>1. CASE CC' = "DISABLE" /\ pc' = [pc EXCEPT ![t] = "post"]
    <3>1. Result(t)' = 0 /\ UNCHANGED <<cfg, trig>>
      BY <1>6, <2>1 DEF Result, ParseDA
    <3> QED
      BY <1>1, <1>2, <3>1, Unnoticed DEF Quiet, Maps
  <2>2. CASE ~EN /\ Return(t, 200)
    <3>1. Service!Answer(t, "DA", 200) => Service!Disable(t)
      BY <1>1, <1>6, <2>2 DEF ParseDA, Service!Disable
    <3> QED
      BY <1>1, <1>2, <1>3, <1>6, <2>2, <3>1, Served DEF Codes, ParseDA, Parsing, Maps
  <2> QED
    BY <1>6, <2>1, <2>2 DEF ParseDA, enq_udpcmd
<1>7. CASE ParseN(t)
  <2>1. CASE EN /\ Return(t, 503)
    <3>1. Service!Answer(t, head, 503) => Service!Refuse(t)
      BY <1>1, <1>7, <2>1 DEF ParseN, Parsing, Service!Refuse
    <3> QED
      BY <1>1, <1>2, <1>3, <2>1, <3>1, Served DEF Codes, Maps
  <2>2. CASE ~EN /\ head = "N_" /\ Return(t, 400)
    <3>1. Service!Answer(t, "N_", 400) => Service!Refuse(t)
      BY <1>1, <1>7, <2>2 DEF ParseN, Service!Refuse, NFields
    <3> QED
      BY <1>1, <1>2, <1>3, <2>2, <3>1, Served DEF Codes, Maps
  <2>3. CASE ~EN /\ head \in NFields /\ Return(t, 200)
    <3> DEFINE v == NValue(head, rcv_msg.tail.val)
    <3>1. cfg' = [cfg EXCEPT ![head] = v] /\ trig' = trig
      BY <1>7, <2>3 DEF ParseN, NFields
    <3>2. v \in Service!Limits[head]
      BY <2>3, NValueLimits DEF Messages, Tails
    <3> HIDE DEF v
    <3>3. Service!Answer(t, head, 200) => Service!Configure(t)
      BY <1>1, <2>3, <3>1, <3>2 DEF Service!Configure
    <3> QED
      BY <1>1, <1>2, <1>3, <2>3, <3>3, Served DEF Codes, Maps
  <2> QED
    BY <1>7, <2>1, <2>2, <2>3 DEF ParseN, Parsing
<1>8. CASE ParseTrigger(t)
  <2> DEFINE new == NewTrig(head, rcv_msg.tail.val)
  <2>1. Result(t)' = 200
    BY <1>3, <1>8 DEF ParseTrigger, enq_udpcmd, Result, Codes
  <2>2. head \in TriggerOps /\ rcv_msg.tail.val \in Int /\ trig' = new /\ UNCHANGED cfg
    BY <1>8 DEF ParseTrigger, Parsing, Messages, Tails
  <2>3. new.TL \in Shorts /\ new.src \in 0..3
    <3>1. new \in Trig
      BY <2>2, NewTrigType
    <3>2. new.TL \in Shorts
      BY <2>2, NewTrigLimits DEF ServiceInv
    <3> HIDE DEF new
    <3> QED
      BY <3>1, <3>2 DEF Trig
  <2>4. \/ head = "TS" /\ new = [trig EXCEPT !.src = new.src]
        \/ head = "TU" /\ new = [trig EXCEPT !.TL = new.TL, !.rising = TRUE]
        \/ head = "TD" /\ new = [trig EXCEPT !.TL = new.TL, !.rising = FALSE]
        \/ head = "AE" /\ new = [trig EXCEPT !.ae = TRUE]
        \/ head = "AD" /\ new = [trig EXCEPT !.ae = FALSE]
    <3>1. CASE head = "TS"
      BY <3>1 DEF NewTrig, Trig
    <3>2. CASE head = "TU"
      BY <3>2 DEF NewTrig, Trig
    <3>3. CASE head = "TD"
      BY <3>3 DEF NewTrig, Trig
    <3>4. CASE head \in {"AE", "AD"}
      BY <3>4 DEF NewTrig, Trig
    <3> QED
      BY <2>2, <3>1, <3>2, <3>3, <3>4 DEF TriggerOps
  <2> HIDE DEF new
  <2>5. Service!Answer(t, head, 200) => Service!Trigger(t)
    BY <1>1, <2>2, <2>3, <2>4 DEF Service!Trigger, Shorts
  <2> QED
    BY <1>1, <1>2, <2>1, <2>5, Served DEF Codes, Maps
<1>9. CASE ParseBad(t)
  <2>1. Return(t, 500) /\ UNCHANGED <<cfg, trig>>
        /\ head \in NFields \cup {"N_", "TS", "TU", "TD", "other", "blank"}
    BY <1>9 DEF ParseBad, Parsing, config
  <2>2. Service!Answer(t, head, 500) => Service!Refuse(t)
    BY <1>1, <2>1 DEF Service!Refuse
  <2> QED
    BY <1>1, <1>2, <1>3, <2>1, <2>2, Served DEF Codes, Maps
<1> QED
  BY <1>4, <1>5, <1>6, <1>7, <1>8, <1>9 DEF ParseCmds

\* The rest of a tcpThread's work shows nothing but the end of a reply.
LEMMA MapTcp ==
  ASSUME IInv, ServiceInv, NEW t \in Threads,
         \/ Accept(t) \/ Recv(t) \/ Hangup(t) \/ Lock(t) \/ Post(t) \/ Await(t)
         \/ Unlock(t) \/ Format(t) \/ Send(t)
  PROVE  Maps
<1> USE DEF IInv, TypeOK
<1>1. UNCHANGED <<udp, RV, CC, cfg, trig, EN>>
  BY DEF Accept, Recv, Hangup, Lock, Post, Await, Unlock, Format, Send, config
<1>2. ASSUME NEW s \in Threads, s # t PROVE pc'[s] = pc[s] /\ rv'[s] = rv[s]
  BY <1>2 DEF Accept, Recv, Hangup, Lock, Post, Await, Unlock, Format, Send, Goto, Return
<1>3. ASSUME NEW s \in Threads, s # t PROVE Result(s)' = Result(s)
  <2>1. CASE Asking(s)
    <3>1. Holding(s) /\ pc[t] \notin {"parse", "post", "await", "unlock"} /\ cfg_sem = 0
      BY <1>3, <2>1 DEF LockInv, Holding, Asking
    <3>2. tcp_sem' = tcp_sem
      BY <3>1 DEF Accept, Recv, Hangup, Lock, Post, Await, Unlock, Format, Send, Goto, sems
    <3> QED
      BY <1>1, <1>2, <1>3, <3>2 DEF Result
  <2>2. CASE ~Asking(s)
    BY <1>1, <1>2, <1>3, <2>2 DEF Result, Asking
  <2> QED
    BY <2>1, <2>2
<1>4. CASE Send(t)
  <2>1. /\ did' = [did EXCEPT ![t] = "blank"] /\ Result(t) # 0 /\ Result(t)' = 0
    BY <1>4 DEF Send, Goto, Result, ServiceInv, Replying
  <2>2. results[t] # Service!NoAnswer
    BY <2>1 DEF results, Service!NoAnswer
  <2>3. results' = [results EXCEPT ![t] = Service!NoAnswer]
    <3>1. \A s \in Threads : s # t => Result(s)' = Result(s) /\ did'[s] = did[s]
      BY <1>3, <2>1 DEF ServiceInv
    <3> QED
      BY <2>1, <3>1 DEF results, Service!NoAnswer
  <2>4. Service!Reply(t)
    BY <1>1, <2>2, <2>3 DEF Service!Reply, results
  <2> QED
    BY <2>4 DEF Service!Next, Maps
<1>5. CASE ~Send(t)
  <2>1. did' = did
    BY <1>5 DEF Accept, Recv, Hangup, Lock, Post, Await, Unlock, Format, clients
  <2>2. Result(t)' = Result(t)
    <3>1. CASE Post(t)
      <4>1. ~UdpBusy /\ tcp_sem = 0
        BY <3>1 DEF Post, Goto, LockInv, Holding, TokenInv, Awaited
      <4> QED
        BY <1>1, <3>1, <4>1 DEF Post, Goto, Result, UdpBusy
    <3>2. CASE Await(t)
      <4>1. RV = 200 /\ tcp_sem = 1
        BY <3>2 DEF Await, TokenInv, ServiceInv
      <4> QED
        BY <3>2, <4>1 DEF Await, Return, Result
    <3>3. CASE ~Post(t) /\ ~Await(t)
      BY <1>5, <3>3 DEF Accept, Recv, Hangup, Lock, Unlock, Format, Goto, Result
    <3> QED
      BY <3>1, <3>2, <3>3
  <2> QED
    BY <1>1, <1>3, <2>1, <2>2, Unnoticed DEF Maps
<1> QED
  BY <1>4, <1>5

\* udpThread enables and disables; a configuration without a channel gets one.
LEMMA MapUdp ==
  ASSUME IInv, StageInv, ServiceInv, UdpThread \/ UdpStop \/ UNCHANGED vars
  PROVE  Maps
<1> USE DEF IInv, TypeOK, UdpGoto, UdpFrame
<1>1. UNCHANGED <<pc, rv, did, CC, trig>>
  BY DEF UdpThread, UdpInit, UdpBind, UdpTake, XfrReset, XfrLoad, XfrTrigger, XfrRelease,
     UdpCommand, UdpDisabled, UdpAnswer, UdpStop, vars, config, clients
<1>2. CASE XfrRelease \/ UdpDisabled
  <2>1. PICK t \in Threads : pc[t] = "await"
    BY <1>2 DEF XfrRelease, UdpDisabled, UdpBusy, TokenInv, Awaited
  <2>2. \A s \in Threads : s # t => ~Asking(s)
    BY <2>1, AskerAlone DEF Asking
  <2>3. tcp_sem = 0 /\ HandedOver(t)
    BY <1>2, <2>1 DEF XfrRelease, UdpDisabled, UdpBusy, TokenInv, ServiceInv, Asking
  <2>4. Quiet(t)
    BY <1>1, <2>2 DEF Quiet, Result, Asking
  <2>5. CASE XfrRelease
    <3>1. /\ CC = "ENABLE" /\ did[t] = "EN" /\ ~EN /\ EN' = TRUE /\ UNCHANGED <<cfg, trig>>
          /\ RV' = 200 /\ udp = "release" /\ udp' = "enabled"
      BY <2>3, <2>5 DEF XfrRelease, ServiceInv, HandedOver, EnInv, TriggerOps
    <3>2. cfg.NP # 0 /\ cfg.NE \in 1..7
      BY <3>1 DEF StageInv, PortSet
    <3>3. cfg.NS \in 0..Service!MaxNS
      <4>1. SSP_MAX_SAMPLES = Service!MaxNS /\ Service!MaxNS \in Nat
        BY DEF SSP_MAX_SAMPLES, Service!MaxNS
      <4>2. cfg.NS \in Nat /\ cfg.NS <= SSP_MAX_SAMPLES
        BY DEF ServiceInv, NFields
      <4> QED
        BY <4>1, <4>2
    <3>4. Result(t) = 0 /\ Result(t)' = 200
      BY <1>1, <2>1, <2>3, <3>1 DEF Result
    <3>5. Service!Answer(t, "EN", 200) => Service!Enable(t)
      BY <1>1, <3>1, <3>2, <3>3 DEF Service!Enable
    <3> QED
      BY <1>1, <2>4, <3>1, <3>4, <3>5, Served DEF Codes, Maps
  <2>6. CASE UdpDisabled
    <3>1. /\ CC = "DISABLE" /\ did[t] = "DA" /\ EN' = FALSE /\ UNCHANGED <<cfg, trig>>
          /\ RV = 200 /\ RV' = RV /\ udp = "quench" /\ udp' = "answer"
      BY <2>3, <2>6 DEF UdpDisabled, ServiceInv, HandedOver, TriggerOps
    <3>2. Result(t) = 0 /\ Result(t)' = 200
      BY <1>1, <2>1, <2>3, <3>1 DEF Result
    <3>3. Service!Answer(t, "DA", 200) => Service!Disable(t)
      BY <1>1, <3>1 DEF Service!Disable
    <3> QED
      BY <1>1, <2>4, <3>1, <3>2, <3>3, Served DEF Codes, Maps
  <2> QED
    BY <1>2, <2>5, <2>6
<1>3. CASE ~(XfrRelease \/ UdpDisabled)
  <2>1. \A t \in Threads : Result(t)' = Result(t)
    <3>1. CASE UdpTake \/ UdpCommand
      <4>1. /\ CC = "TRIGGER"
               \/ /\ udp' \in {"reset", "quench"} /\ udp \in {"idle", "run"}
                  /\ tcp_sem' = 0 /\ tcp_sem = 0
        BY <3>1, Taken DEF UdpTake, UdpCommand, TokenInv
      <4> QED
        BY <1>1, <4>1 DEF Result
    <3>2. CASE UdpAnswer
      BY <1>1, <3>2 DEF UdpAnswer, Result, config, UdpBusy, TokenInv
    <3>3. CASE ~(UdpTake \/ UdpCommand \/ UdpAnswer)
      BY <1>1, <1>3, <3>3 DEF UdpThread, UdpInit, UdpBind, XfrReset, XfrLoad, XfrTrigger,
         UdpStop, vars, sems, config, Result
    <3> QED
      BY <3>1, <3>2, <3>3
  <2>2. EN' = EN
    BY <1>3 DEF UdpThread, UdpInit, UdpBind, UdpTake, XfrReset, XfrLoad, XfrTrigger,
       UdpCommand, UdpAnswer, UdpStop, vars, config
  <2>3. CASE cfg' = cfg
    BY <1>1, <2>1, <2>2, <2>3, Unnoticed DEF Maps
  <2>4. CASE UdpTake /\ CC = "ENABLE" /\ cfg' # cfg
    <3> DEFINE ne == IF cfg.NE \in 1..7 THEN cfg.NE ELSE 1
               ns == IF cfg.NS > SSP_MAX_SAMPLES THEN SSP_MAX_SAMPLES ELSE cfg.NS
    <3>1. cfg' = [cfg EXCEPT !.NE = ne, !.NS = ns] /\ ~EN
      BY <2>4 DEF UdpTake, EnInv
    <3>2. ns = cfg.NS
      BY DEF ServiceInv, SSP_MAX_SAMPLES, NFields
    <3>3. ne = cfg.NE \/ ne = 1
      OBVIOUS
    <3> HIDE DEF ne, ns
    <3>4. cfg' = [cfg EXCEPT !.NE = 1]
      BY <2>4, <3>1, <3>2, <3>3
    <3>5. results' = results
      BY <1>1, <2>1 DEF results
    <3>6. Service!Default
      BY <1>1, <2>2, <2>4, <3>1, <3>4, <3>5 DEF Service!Default, results
    <3> QED
      BY <3>6 DEF Service!Next, Maps
  <2> QED
    BY <2>3, <2>4, <1>3 DEF UdpThread, UdpInit, UdpBind, UdpTake, XfrReset, XfrLoad, XfrTrigger,
       UdpCommand, UdpAnswer, UdpStop, vars, config
<1> QED
  BY <1>2, <1>3

\* Each command takes effect at one moment between its arrival and its reply, for
\* any number of connections, whatever they send and whatever udpThread meets.
THEOREM Implements == Spec => ImplementsService
<1>1. Init => Service!Init
  <2>1. ASSUME Init PROVE results = [t \in Threads |-> Service!NoAnswer]
    BY <2>1 DEF Init, results, Result, Service!NoAnswer
  <2> QED
    BY <2>1 DEF Init, NFields, Service!Init, results
<1>2. IInv /\ StageInv /\ ServiceInv /\ [Next]_vars => [Service!Next]_Service!vars
  BY MapParse, MapTcp, MapUdp DEF Next, TcpThread, Maps
<1> QED
  BY <1>1, <1>2, Commanded, PTL DEF Spec, ImplementsService, Service!Spec

-----------------------------------------------------------------------------
(* One client: each reply answers the command that was sent *)

\* What is known of a client's command while no other can write to rcv_msg: it is
\* parsed as it was sent, its code suits it, and these digits are sent.
Due(t) ==
  /\ pc[t] \in {"lock", "parse"} => rcv_msg = sent[t]
  /\ Asking(t) => 200 \in Expected(sent[t])
  /\ Replying(t) => rv[t] \in Expected(sent[t])
  /\ pc[t] = "send" => rcv_msg.tail = [kind |-> "reply", val |-> rv[t]]
  /\ got[t] # NoReply => got[t].kind = "reply" /\ got[t].val \in Expected(sent[t])
  /\ pc[t] \in {"lock", "parse"} \/ Asking(t) \/ Replying(t) => got[t] = NoReply

DueInv ==
  /\ DOMAIN sent = Threads /\ DOMAIN got = Threads
  /\ \A t \in Threads : Due(t)

\* parse_cmds() returns a code that answers the message, or hands over a command
\* that 200 answers.
LEMMA ParseAnswers ==
  ASSUME NEW t \in Threads, ParseCmds(t)
  PROVE  /\ UNCHANGED <<rcv_msg, sent, got>>
         /\ \/ \E code \in Expected(rcv_msg) : Return(t, code)
            \/ pc' = [pc EXCEPT ![t] = "post"] /\ 200 \in Expected(rcv_msg)
<1>1. UNCHANGED <<rcv_msg, sent, got>>
  BY DEF ParseCmds, ParseEN, ParseEX, ParseDA, ParseN, ParseTrigger, ParseBad
<1>2. CASE ParseEN(t)
  <2>1. Expected(rcv_msg) = {200, 400, 503}
    BY <1>2 DEF ParseEN, Parsing, Expected, NFields
  <2> QED
    BY <1>1, <1>2, <2>1 DEF ParseEN, enq_udpcmd
<1>3. CASE ParseEX(t)
  <2>1. Expected(rcv_msg) = {410, 503}
    BY <1>3 DEF ParseEX, Parsing, Expected, NFields
  <2> QED
    BY <1>1, <1>3, <2>1 DEF ParseEX
<1>4. CASE ParseDA(t)
  <2>1. Expected(rcv_msg) = {200}
    BY <1>4 DEF ParseDA, Parsing, Expected, NFields
  <2> QED
    BY <1>1, <1>4, <2>1 DEF ParseDA, enq_udpcmd
<1>5. CASE ParseN(t)
  <2>1. Expected(rcv_msg) = IF rcv_msg.head = "N_" THEN {400, 503} ELSE {200, 503}
    BY <1>5 DEF ParseN, Parsing, Expected, NFields, HasArg
  <2> QED
    BY <1>1, <1>5, <2>1 DEF ParseN
<1>6. CASE ParseTrigger(t)
  <2>1. Expected(rcv_msg) = {200}
    BY <1>6 DEF ParseTrigger, Parsing, Expected, NFields, TriggerOps, HasArg
  <2> QED
    BY <1>1, <1>6, <2>1 DEF ParseTrigger, enq_udpcmd
<1>7. CASE ParseBad(t)
  <2>1. Expected(rcv_msg) = {500}
    BY <1>7 DEF ParseBad, Parsing, Expected, NFields, HasArg
  <2> QED
    BY <1>1, <1>7, <2>1 DEF ParseBad
<1> QED
  BY <1>2, <1>3, <1>4, <1>5, <1>6, <1>7 DEF ParseCmds

\* Each step of the only client's thread keeps what is known of its command.
LEMMA DueStep ==
  ASSUME IInv, ServiceInv, DueInv, NEW t \in Threads, \A s \in Threads : s = t,
         Accept(t) \/ Recv(t) \/ Hangup(t) \/ TcpThread(t)
  PROVE  DueInv'
<1> USE DEF IInv, TypeOK
<1>1. DOMAIN pc = Threads /\ DOMAIN rv = Threads /\ DOMAIN sent = Threads
      /\ DOMAIN got = Threads /\ Due(t)
  BY DEF DueInv
<1>2. DOMAIN sent' = Threads /\ DOMAIN got' = Threads
  <2>1. CASE ParseCmds(t)
    BY <1>1, <2>1, ParseAnswers
  <2>2. CASE ~ParseCmds(t)
    BY <1>1, <2>2 DEF Accept, Recv, Hangup, TcpThread, Lock, Post, Await, Unlock, Format, Send,
       clients
  <2> QED
    BY <2>1, <2>2
<1> SUFFICES Due(t)'
  BY <1>2 DEF DueInv
<1>3. CASE Accept(t)
  BY <1>1, <1>3 DEF Accept, Goto, Due, Asking, Replying, NoReply
<1>4. CASE Recv(t)
  BY <1>1, <1>4 DEF Recv, Goto, Due, Asking, Replying, NoReply
<1>5. CASE Hangup(t)
  BY <1>1, <1>5 DEF Hangup, Goto, Due, Asking, Replying, NoReply
<1>6. CASE Lock(t)
  BY <1>1, <1>6 DEF Lock, Goto, Due, Asking, Replying, clients
<1>7. CASE ParseCmds(t)
  <2>1. pc[t] = "parse" /\ UNCHANGED <<rcv_msg, sent, got>> /\ rcv_msg = sent[t]
        /\ got[t] = NoReply
    BY <1>1, <1>7, ParseEffect, ParseAnswers DEF Due
  <2>2. CASE \E code \in Expected(rcv_msg) : Return(t, code)
    BY <1>1, <2>1, <2>2 DEF Return, Due, Asking, Replying, Expected
  <2>3. CASE pc' = [pc EXCEPT ![t] = "post"] /\ 200 \in Expected(rcv_msg)
    BY <1>1, <2>1, <2>3 DEF Due, Asking, Replying, Expected
  <2> QED
    BY <1>7, <2>2, <2>3, ParseAnswers
<1>8. CASE Post(t)
  BY <1>1, <1>8 DEF Post, Goto, Due, Asking, Replying, clients
<1>9. CASE Await(t)
  <2>1. RV = 200
    BY <1>9 DEF Await, TokenInv, ServiceInv
  <2> QED
    BY <1>1, <1>9, <2>1 DEF Await, Return, Due, Asking, Replying, clients
<1>10. CASE Unlock(t)
  BY <1>1, <1>10 DEF Unlock, Goto, Due, Asking, Replying, clients
<1>11. CASE Format(t)
  BY <1>1, <1>11 DEF Format, Goto, Due, Asking, Replying, clients, Messages
<1>12. CASE Send(t)
  BY <1>1, <1>12 DEF Send, Goto, Due, Asking, Replying
<1> QED
  BY <1>3, <1>4, <1>5, <1>6, <1>7, <1>8, <1>9, <1>10, <1>11, <1>12 DEF TcpThread

\* With one connection a client gets the digits of a code that answers the command
\* it sent.  With two it need not: rcv_msg is one buffer for all of them.
THEOREM RepliesFit ==
  ASSUME \A s, t \in Threads : s = t PROVE Spec => []ReplyFits
<1>1. Init => DueInv
  BY DEF Init, DueInv, Due, Asking, Replying
<1>2. IInv /\ ServiceInv /\ DueInv /\ [Next]_vars => DueInv'
  <2> SUFFICES ASSUME IInv, ServiceInv, DueInv, [Next]_vars PROVE DueInv'
    OBVIOUS
  <2>1. CASE UdpThread \/ UdpStop \/ UNCHANGED vars
    <3>1. UNCHANGED <<pc, rv, rcv_msg, sent, got>>
      BY <2>1 DEF UdpThread, UdpInit, UdpBind, UdpTake, XfrReset, XfrLoad, XfrTrigger,
         XfrRelease, UdpCommand, UdpDisabled, UdpAnswer, UdpStop, UdpFrame, vars, clients
    <3> QED
      BY <3>1 DEF DueInv, Due, Asking, Replying, Expected
  <2> QED
    BY <2>1, DueStep DEF Next
<1>3. DueInv => ReplyFits
  BY DEF DueInv, Due, ReplyFits
<1> QED
  BY <1>1, <1>2, <1>3, Commanded, PTL DEF Spec
=============================================================================
