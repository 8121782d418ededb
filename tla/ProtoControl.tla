---------------------------- MODULE ProtoControl ----------------------------
(***************************************************************************)
(* The prototypes' firmware, before there were command and answer           *)
(* semaphores: a TCP thread puts a command into udpThreadCmd and posts       *)
(* udp_sem, which the scan interrupt posts as well, and answers without     *)
(* waiting.  Of the two firmwares modelled, ssp_proto_402 looks into         *)
(* udpThreadCmd after every scan and ssp_proto_a once each time it wakes.    *)
(***************************************************************************)
EXTENDS Integers, Sequences

CONSTANTS
  Threads,      \* TCP threads, one per connection
  Firmware,     \* a subset of {"402", "a"}
  Commands,     \* the commands that clients may send: records of op and v
  MAX_NS,       \* the greatest length that NS: accepts (4000 in the code)
  NSRange,      \* the values of the core's length register (4096)
  FifoSize,     \* words in the scan core's FIFO
  MaxCommands,  \* bound on the commands received
  MaxSem        \* bound on udp_sem

ASSUME ProtoAssumption ==
  /\ Firmware \subseteq {"402", "a"} /\ MAX_NS \in Nat /\ FifoSize \in Nat
  /\ NSRange \in Nat \ {0} /\ MaxCommands \in Nat /\ MaxSem \in Nat \ {0}
  /\ Commands \subseteq [op : STRING, v : Int]

VARIABLES
  proto,         \* which firmware
  enable, netsamples, trigger,  \* the scan core's registers
  at, fifo,      \* its next word, and its FIFO
  intr,          \* the scan interrupt: enabled, pending
  udp_sem, udpThreadCmd, new_scan_xmit_length, scan_xmit_length, TriggerLevel, udp_port,
  main, server,  \* where main_main and serverAppThread are
  udp,           \* where udpThread is
  scan,          \* the words it has read and not yet sent
  tcp,           \* where each tcpThread is, and the command code or reply it holds
  rcv_msg,       \* the TCP threads' buffer
  received       \* the commands received so far

core == <<enable, netsamples, trigger, at, fifo>>
startup == <<main, server>>
shared == <<new_scan_xmit_length, TriggerLevel, udp_port>>
threads == <<tcp, rcv_msg, received>>
vars == <<proto, startup, core, intr, udp_sem, udpThreadCmd, shared, scan_xmit_length, udp, scan,
          threads>>

Word(n, i) == [n |-> n, i |-> i]
SemPost == udp_sem' = IF udp_sem < MaxSem THEN udp_sem + 1 ELSE udp_sem

-----------------------------------------------------------------------------
(* The scan core, and the interrupt at the end of a scan *)

\* The registers are written under a mutex; the control register is cached, the
\* length register keeps the low bits.
set_ssp_enable(e) == enable' = e
set_ssp_netsamples(n) == netsamples' = n % NSRange

\* A scan is begun only when the FIFO can hold it.
CoreWord ==
  /\ enable /\ (at = 0 => Len(fifo) + netsamples + 1 <= FifoSize)
  /\ fifo' = Append(fifo, Word(netsamples, at))
  /\ IF at = netsamples
     THEN at' = 0 /\ intr' = [intr EXCEPT !.pending = TRUE]
     ELSE at' = at + 1 /\ UNCHANGED intr
  /\ UNCHANGED <<proto, startup, enable, netsamples, trigger, udp_sem, udpThreadCmd, shared,
                 scan_xmit_length, udp, scan, threads>>

\* Mutant: the interrupt is acknowledged only.
sg_handler_Silent ==
  /\ intr.enabled /\ intr.pending /\ intr' = [intr EXCEPT !.pending = FALSE]
  /\ UNCHANGED <<proto, startup, core, udp_sem, udpThreadCmd, shared, scan_xmit_length, udp, scan,
                 threads>>

sg_handler ==
  /\ intr.enabled /\ intr.pending /\ intr' = [intr EXCEPT !.pending = FALSE]
  /\ SemPost
  /\ UNCHANGED <<proto, startup, core, udpThreadCmd, shared, scan_xmit_length, udp, scan, threads>>

-----------------------------------------------------------------------------
(* The start-up: main_main creates udpThread and waits until that has        *)
(* initialised the Ethernet, then creates serverAppThread, which creates a   *)
(* tcpThread for every connection.  A thread that meets an error returns.    *)

UdpGoto(from, to) == udp = from /\ udp' = to

StartupFrame ==
  UNCHANGED <<proto, core, intr, udp_sem, udpThreadCmd, shared, scan_xmit_length, scan,
              rcv_msg, received>>

MainStarts ==
  /\ main = "start" /\ main' = "waiting" /\ UdpGoto("none", "ethernet")
  /\ UNCHANGED <<server, tcp>> /\ StartupFrame

\* No semaphore.
MainFails ==
  /\ main = "start" /\ main' = "gone" /\ UNCHANGED <<server, udp, tcp>> /\ StartupFrame

EthernetInit ==
  /\ UdpGoto("ethernet", "post") /\ UNCHANGED <<startup, tcp>> /\ StartupFrame

\* No memory for the interface: main_main waits for ever.
EthernetFails ==
  /\ UdpGoto("ethernet", "gone") /\ UNCHANGED <<startup, tcp>> /\ StartupFrame

\* ethernet_init() sleeps for long enough that main_main waits by now: this
\* post is handed to it, and never counted.
UdpReady ==
  /\ UdpGoto("post", "bind") /\ main = "waiting" /\ main' = "woken"
  /\ UNCHANGED <<server, tcp>> /\ StartupFrame

UdpBinds ==
  /\ UdpGoto("bind", "wait") /\ UNCHANGED <<startup, tcp>> /\ StartupFrame

\* No socket or no port: the server runs without udpThread.
UdpBindFails ==
  /\ UdpGoto("bind", "gone") /\ UNCHANGED <<startup, tcp>> /\ StartupFrame

MainServes ==
  /\ main = "woken" /\ main' = "gone" /\ server' = "listen"
  /\ UNCHANGED <<udp, tcp>> /\ StartupFrame

ServerListens ==
  /\ server = "listen" /\ server' = "accept" /\ UNCHANGED <<main, udp, tcp>> /\ StartupFrame

\* No socket or no port.
ServerFails ==
  /\ server = "listen" /\ server' = "gone"
  /\ UNCHANGED <<main, udp, tcp>> /\ StartupFrame

Accept(t) ==
  /\ server = "accept" /\ tcp[t].pc = "none" /\ tcp' = [tcp EXCEPT ![t].pc = "recv"]
  /\ UNCHANGED <<startup, udp>> /\ StartupFrame

StartUp ==
  \/ MainStarts \/ MainFails \/ EthernetInit \/ EthernetFails \/ UdpReady \/ UdpBindFails
  \/ MainServes \/ ServerListens \/ ServerFails \/ \E t \in Threads : Accept(t)

-----------------------------------------------------------------------------
(* udpThread *)

UdpWait ==
  /\ UdpGoto("wait", "check") /\ udp_sem > 0 /\ udp_sem' = udp_sem - 1
  /\ UNCHANGED <<proto, startup, core, intr, udpThreadCmd, shared, scan_xmit_length, scan, threads>>

Enables == udpThreadCmd = "EN"
Reads == udpThreadCmd = "none"

\* What the other commands do to the registers of the core.
XfrDisable == set_ssp_enable(enable /\ udpThreadCmd # "DA")

SetTrigger ==
  trigger' =
    CASE udpThreadCmd \in {"TU", "TD"} ->
           [trigger EXCEPT !.src = udpThreadCmd, !.level = TriggerLevel]
      [] udpThreadCmd = "TE" -> [trigger EXCEPT !.src = "TE"]
      [] udpThreadCmd \in {"AE", "AD"} -> [trigger EXCEPT !.auto = udpThreadCmd = "AE"]
      [] OTHER -> trigger

UdpCheck ==
  /\ udp = "check"
  /\ udp' = IF Reads THEN "read" ELSE IF Enables THEN "init" ELSE "clear"
  /\ XfrDisable /\ SetTrigger
  /\ UNCHANGED <<proto, startup, netsamples, at, fifo, intr, udp_sem, udpThreadCmd, shared,
                 scan_xmit_length, scan, threads>>

\* xfr_init(): new_scan_xmit_length is read twice.
XfrInit ==
  /\ UdpGoto("init", "length") /\ set_ssp_enable(FALSE)
  /\ set_ssp_netsamples(new_scan_xmit_length)
  /\ UNCHANGED <<proto, startup, trigger, at, fifo, intr, udp_sem, udpThreadCmd, shared,
                 scan_xmit_length, scan, threads>>

XfrLength ==
  /\ UdpGoto("length", "reset") /\ scan_xmit_length' = new_scan_xmit_length
  /\ UNCHANGED <<proto, startup, core, intr, udp_sem, udpThreadCmd, shared, scan, threads>>

\* Mutant: the FIFO is not drained.
Drained_Not == fifo

\* drain_fifo()
Drained == <<>>

\* The circuit is reset, the FIFO drained, the reset cleared.
XfrReset ==
  /\ UdpGoto("reset", "enable") /\ at' = 0 /\ fifo' = Drained
  /\ UNCHANGED <<proto, startup, enable, netsamples, trigger, intr, udp_sem, udpThreadCmd, shared,
                 scan_xmit_length, scan, threads>>

XfrEnable ==
  /\ UdpGoto("enable", "clear") /\ set_ssp_enable(TRUE)
  /\ intr' = [intr EXCEPT !.enabled = TRUE]
  /\ UNCHANGED <<proto, startup, netsamples, trigger, at, fifo, udp_sem, udpThreadCmd, shared,
                 scan_xmit_length, scan, threads>>

ClearCmd ==
  /\ UdpGoto("clear", "read") /\ udpThreadCmd' = "none"
  /\ UNCHANGED <<proto, startup, core, intr, udp_sem, shared, scan_xmit_length, scan, threads>>

\* ssp_read_fifo() reads as many words as a scan has, or nothing: for a negative
\* length it is asked for no words, or for more than there are, since it compares
\* without a sign.
Present == scan_xmit_length >= 0 /\ Len(fifo) > scan_xmit_length

scan_size == IF scan_xmit_length < Len(fifo) THEN scan_xmit_length + 1 ELSE Len(fifo)

UdpRead ==
  /\ udp = "read"
  /\ IF Present
     THEN /\ udp' = "send"
          /\ scan' = SubSeq(fifo, 1, scan_size)
          /\ fifo' = SubSeq(fifo, scan_size + 1, Len(fifo))
     ELSE udp' = "wait" /\ UNCHANGED <<scan, fifo>>
  /\ UNCHANGED <<proto, startup, enable, netsamples, trigger, at, intr, udp_sem, udpThreadCmd,
                 shared, scan_xmit_length, threads>>

\* Mutant: the 402 reads the next scan at once, as its predecessor does.
AfterSend_Read == "read"

AfterSend == IF proto = "402" THEN "check" ELSE "read"

\* sendto() succeeds, or udpThread returns.
UdpSend ==
  /\ UdpGoto("send", AfterSend) /\ scan' = <<>>
  /\ UNCHANGED <<proto, startup, core, intr, udp_sem, udpThreadCmd, shared, scan_xmit_length,
                 threads>>

UdpFails ==
  /\ UdpGoto("send", "gone") /\ scan' = <<>>
  /\ UNCHANGED <<proto, startup, core, intr, udp_sem, udpThreadCmd, shared, scan_xmit_length,
                 threads>>

UdpThread ==
  \/ UdpBinds \/ UdpWait \/ UdpCheck \/ XfrInit \/ XfrLength \/ XfrReset \/ XfrEnable \/ ClearCmd
  \/ UdpRead \/ UdpSend

-----------------------------------------------------------------------------
(* tcpThread *)

TcpGoto(t, from, to, op) ==
  tcp[t].pc = from /\ tcp' = [tcp EXCEPT ![t] = [pc |-> to, op |-> op, rv |-> 0]]

Answer(t, from, rv) ==
  tcp[t].pc = from /\ tcp' = [tcp EXCEPT ![t] = [pc |-> "reply", op |-> "none", rv |-> rv]]

TcpFrame ==
  UNCHANGED <<proto, startup, netsamples, trigger, at, fifo, intr, scan_xmit_length, udp, scan>>

\* Any thread receives into rcv_msg, whoever is about to parse it.
TcpReceive(t) ==
  /\ received < MaxCommands /\ received' = received + 1
  /\ TcpGoto(t, "recv", "parse", "none") /\ rcv_msg' \in Commands
  /\ UNCHANGED <<enable, udp_sem, udpThreadCmd, shared>> /\ TcpFrame

\* parse_cmds() for what goes to udpThread: EN needs a port; TU and TD leave
\* their level in TriggerLevel first.
ParseForUdp(t) ==
  /\ rcv_msg.op \in {"EN", "DA", "TE", "TU", "TD", "AE", "AD"}
  /\ proto = "a" => rcv_msg.op \in {"EN", "DA"}
  /\ IF rcv_msg.op = "EN" /\ udp_port = 0
     THEN Answer(t, "parse", 400) ELSE TcpGoto(t, "parse", "enq", rcv_msg.op)
  /\ TriggerLevel' = IF rcv_msg.op \in {"TU", "TD"} THEN rcv_msg.v ELSE TriggerLevel
  /\ UNCHANGED <<new_scan_xmit_length, udp_port>>

\* NS sets the length before it looks at it, and accepts any negative one.
ParseNow(t) ==
  \/ /\ rcv_msg.op = "UP" /\ udp_port' = rcv_msg.v /\ Answer(t, "parse", 200)
     /\ UNCHANGED <<new_scan_xmit_length, TriggerLevel>>
  \/ /\ rcv_msg.op = "NS" /\ new_scan_xmit_length' = rcv_msg.v
     /\ IF rcv_msg.v > MAX_NS THEN TcpGoto(t, "parse", "too_long", "none")
        ELSE Answer(t, "parse", 200)
     /\ UNCHANGED <<TriggerLevel, udp_port>>
  \/ /\ rcv_msg.op = "EX" /\ Answer(t, "parse", 410) /\ UNCHANGED shared
  \/ /\ rcv_msg.op \notin {"EN", "DA", "UP", "NS", "EX"}
     /\ proto = "402" => rcv_msg.op \notin {"TE", "TU", "TD", "AE", "AD"}
     /\ Answer(t, "parse", 500) /\ UNCHANGED shared

TcpParse(t) ==
  /\ ParseForUdp(t) \/ ParseNow(t)
  /\ UNCHANGED <<enable, udp_sem, udpThreadCmd, rcv_msg, received>> /\ TcpFrame

TooLong(t) ==
  /\ Answer(t, "too_long", 400) /\ new_scan_xmit_length' = 0
  /\ UNCHANGED <<enable, udp_sem, udpThreadCmd, TriggerLevel, udp_port, rcv_msg, received>>
  /\ TcpFrame

\* enq_udpcmd(): tests, sets and posts, in three steps.
EnqTest(t) ==
  /\ IF udpThreadCmd # "none" THEN Answer(t, "enq", 503)
     ELSE TcpGoto(t, "enq", "set", tcp[t].op)
  /\ UNCHANGED <<enable, udp_sem, udpThreadCmd, shared, rcv_msg, received>> /\ TcpFrame

EnqSet(t) ==
  /\ TcpGoto(t, "set", "post", "none") /\ udpThreadCmd' = tcp[t].op
  /\ UNCHANGED <<enable, udp_sem, shared, rcv_msg, received>> /\ TcpFrame

EnqPost(t) ==
  /\ Answer(t, "post", 200) /\ SemPost
  /\ UNCHANGED <<enable, udpThreadCmd, shared, rcv_msg, received>> /\ TcpFrame

\* The reply is written over the command, all but its first two letters, which
\* are still the command if it takes no argument; 410 ends the thread.
TcpReply(t) ==
  /\ TcpGoto(t, "reply", IF tcp[t].rv = 410 THEN "close" ELSE "recv", "none")
  /\ rcv_msg' = IF rcv_msg.op \in {"EN", "DA", "EX", "TE", "AE", "AD"} THEN rcv_msg
                ELSE [op |-> "other", v |-> 0]
  /\ UNCHANGED <<enable, udp_sem, udpThreadCmd, shared, received>> /\ TcpFrame

\* The client closes the connection.
TcpClosed(t) ==
  /\ TcpGoto(t, "recv", "close", "none")
  /\ UNCHANGED <<enable, udp_sem, udpThreadCmd, shared, rcv_msg, received>> /\ TcpFrame

\* ssp_proto_a disables the acquisition when any connection ends.
TcpClose(t) ==
  /\ TcpGoto(t, "close", "closed", "none")
  /\ set_ssp_enable(enable /\ proto = "402")
  /\ UNCHANGED <<udp_sem, udpThreadCmd, shared, rcv_msg, received>> /\ TcpFrame

TcpThread(t) ==
  \/ TcpReceive(t) \/ TcpParse(t) \/ TooLong(t) \/ EnqTest(t) \/ EnqSet(t) \/ EnqPost(t)
  \/ TcpReply(t) \/ TcpClosed(t) \/ TcpClose(t)

-----------------------------------------------------------------------------
Init ==
  /\ proto \in Firmware
  /\ enable = FALSE /\ netsamples = 0 /\ at = 0 /\ fifo = <<>>
  /\ trigger = [src |-> "TE", level |-> 0, auto |-> FALSE]
  /\ intr = [enabled |-> FALSE, pending |-> FALSE]
  /\ udp_sem = 0 /\ udpThreadCmd = "none"
  /\ new_scan_xmit_length = 0 /\ scan_xmit_length = 0 /\ TriggerLevel = 0 /\ udp_port = 0
  /\ main = "start" /\ server = "none" /\ udp = "none" /\ scan = <<>>
  /\ tcp = [t \in Threads |-> [pc |-> "none", op |-> "none", rv |-> 0]]
  /\ rcv_msg = [op |-> "other", v |-> 0] /\ received = 0

Next ==
  \/ StartUp \/ CoreWord \/ sg_handler \/ UdpThread \/ UdpFails
  \/ \E t \in Threads : TcpThread(t)

Spec == Init /\ [][Next]_vars

-----------------------------------------------------------------------------
(* Properties *)

\* udpThread never sleeps through something to do: while it waits and udp_sem
\* is zero, no command waits in udpThreadCmd but one whose sender is about to
\* post, and no scan waits in the FIFO but one whose interrupt is pending.
NoLostWakeup ==
  udp = "wait" /\ udp_sem = 0 =>
    /\ udpThreadCmd # "none" => \E t \in Threads : tcp[t].pc = "post"
    /\ netsamples = scan_xmit_length => Len(fifo) <= netsamples \/ intr.pending

\* The word that the core puts into the FIFO after w.
Successor(w) == Word(w.n, IF w.i = w.n THEN 0 ELSE w.i + 1)

\* Whatever was in the FIFO when acquisition was stopped and started again, a
\* datagram has the words that udpThread counts to a scan, all of the acquisition
\* that goes on, with none missing between them.  It is one whole scan if the core
\* was given the same length.  It need not be: xfr_init() reads new_scan_xmit_length
\* twice, and a client that sends NS in between leaves the core with one length and
\* udpThread with another, so that datagrams begin anywhere in a scan.
WholeDatagrams ==
  udp = "send" =>
    /\ Len(scan) = scan_xmit_length + 1
    /\ \A j \in 1..Len(scan) : scan[j].n = netsamples
    /\ \A j \in 1..Len(scan) - 1 : scan[j + 1] = Successor(scan[j])
    /\ netsamples = scan_xmit_length =>
         scan = [j \in 1..netsamples + 1 |-> Word(netsamples, j - 1)]

\* The 402 gets to every command, however fast the scans come in.
Live ==
  /\ WF_vars(UdpThread) /\ WF_vars(sg_handler) /\ WF_vars(CoreWord)
  /\ \A t \in Threads : WF_vars(EnqPost(t))
Obeyed == [](proto = "402" /\ udpThreadCmd # "none"
               => <>(udpThreadCmd = "none" \/ udp = "gone"))
FairSpec == Spec /\ Live
=============================================================================
