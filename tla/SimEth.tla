------------------------------- MODULE SimEth -------------------------------
(***************************************************************************)
(* The ethernet test programs simeth and simeth_2, with the client ssp_get  *)
(* at the other end.  Here the TCP threads enable and disable the scan      *)
(* generator themselves, while udpThread reads one scan for each interrupt. *)
(* The two differ in the order in which the interrupt is acknowledged and    *)
(* signalled, and in which acquisition and interrupt are disabled.          *)
(***************************************************************************)
EXTENDS Naturals, Sequences

CONSTANTS
  Programs,     \* a subset of {"simeth", "simeth_2"}
  Clients,      \* runs of ssp_get
  SCAN_LENGTH,  \* the length ssp_get asks for (999 in the code)
  n_scans,      \* how many scans it takes after the first (10)
  MAX_NS,       \* the greatest length that NS: accepts (4000)
  FifoSize,     \* words in the scan generator's FIFO
  MaxSem,       \* bound on udp_sem
  MaxSocket     \* datagrams that wait in a client's socket; the others are dropped

ASSUME SimEthAssumption ==
  /\ Programs \subseteq {"simeth", "simeth_2"}
  /\ {SCAN_LENGTH, MAX_NS} \subseteq Nat
  /\ {n_scans, FifoSize, MaxSem, MaxSocket} \subseteq Nat \ {0}

VARIABLES
  program,       \* which of the programs the board runs
  enable, netsamples, at, fifo,  \* the scan generator: its registers, next word and FIFO
  intr,          \* the interrupt: enabled, pending, and where its handler is
  main, server,  \* where main_main and serverAppThread are
  udp_sem, udp, scan,                      \* udpThread
  scan_xmit_length, udp_port, udpSrvrAddr, \* what the TCP threads set
  tcp,                                     \* the TCP threads, one per connection
  conn, client, socket,                    \* the connections and the clients
  starts         \* how often acquisition was initialised, up to 2

startup == <<main, server>>
core == <<enable, netsamples, at, fifo>>
reader == <<udp_sem, udp, scan>>
set == <<scan_xmit_length, udp_port, udpSrvrAddr>>
users == <<conn, client, socket>>
simVars == <<program, startup, core, intr, reader, set, tcp, users, starts>>

Running == intr.handler = "idle"   \* a thread runs when the handler does not
Nothing == "none"
two == program = "simeth_2"

-----------------------------------------------------------------------------
(* The scan generator *)

\* The registers are written under a mutex.
set_scan_gen_enable(e) == enable' = e
set_scan_gen_netsamples(n) == netsamples' = n

\* A scan is begun only when the FIFO can hold it.  It takes longer than the
\* handler takes to be entered, and longer than it takes from its
\* acknowledgement to its end.
GenerateWord ==
  /\ enable /\ (at = 0 => Len(fifo) + netsamples + 1 <= FifoSize)
  /\ at = netsamples => ~(intr.enabled /\ intr.pending /\ intr.handler # "ack")
  /\ fifo' = Append(fifo, at)
  /\ IF at = netsamples
     THEN at' = 0 /\ intr' = [intr EXCEPT !.pending = TRUE]
     ELSE at' = at + 1 /\ UNCHANGED intr
  /\ UNCHANGED <<program, startup, enable, netsamples, reader, set, tcp, users, starts>>

\* Mutant: simeth_2 signals first, too.
AcknowledgesFirst_Not == FALSE

AcknowledgesFirst == two

SemPost == udp_sem' = IF udp_sem < MaxSem THEN udp_sem + 1 ELSE udp_sem

HandlerFrame == UNCHANGED <<program, startup, core, udp, scan, set, tcp, users, starts>>

sg_handler ==
  /\ intr.enabled /\ intr.pending /\ Running
  /\ IF AcknowledgesFirst
     THEN UNCHANGED udp_sem /\ intr' = [intr EXCEPT !.handler = "post", !.pending = FALSE]
     ELSE SemPost /\ intr' = [intr EXCEPT !.handler = "ack"]
  /\ HandlerFrame

AcknowledgeLast ==
  /\ intr.handler = "ack" /\ intr' = [intr EXCEPT !.handler = "idle", !.pending = FALSE]
  /\ UNCHANGED udp_sem /\ HandlerFrame

PostLast ==
  /\ intr.handler = "post" /\ intr' = [intr EXCEPT !.handler = "idle"]
  /\ SemPost /\ HandlerFrame

Handler == sg_handler \/ AcknowledgeLast \/ PostLast

-----------------------------------------------------------------------------
(* The start-up, as in the prototypes after these programs: main_main waits   *)
(* on udp_sem until udpThread has initialised the Ethernet, then creates      *)
(* serverAppThread.  A thread that meets an error returns.                    *)

UdpGoto(from, to) == Running /\ udp = from /\ udp' = to

StartupFrame ==
  UNCHANGED <<program, core, intr, udp_sem, scan, set, tcp, users, starts>>

\* The semaphore may be refused.
main_main ==
  /\ main = "start"
  /\ \/ main' = "waiting" /\ UdpGoto("none", "ethernet")
     \/ main' = "gone" /\ UNCHANGED udp
  /\ UNCHANGED server /\ StartupFrame

ethernet_init == UdpGoto("ethernet", "post") /\ UNCHANGED startup /\ StartupFrame

\* No memory for the interface: main_main waits for ever.
EthernetFails == UdpGoto("ethernet", "gone") /\ UNCHANGED startup /\ StartupFrame

\* The post that is main_main's: it has been waiting during ethernet_init().
UdpReady ==
  /\ UdpGoto("post", "bind") /\ main = "waiting" /\ main' = "woken"
  /\ UNCHANGED server /\ StartupFrame

UdpBinds == UdpGoto("bind", "wait") /\ UNCHANGED startup /\ StartupFrame

UdpBindFails == UdpGoto("bind", "gone") /\ UNCHANGED startup /\ StartupFrame

MainServes ==
  /\ main = "woken" /\ main' = "gone" /\ server' = "listen"
  /\ UNCHANGED udp /\ StartupFrame

ServerListens ==
  /\ server = "listen" /\ server' = "accept" /\ UNCHANGED <<main, udp>> /\ StartupFrame

ServerFails ==
  /\ server = "listen" /\ server' = "gone" /\ UNCHANGED <<main, udp>> /\ StartupFrame

StartUp ==
  \/ main_main \/ ethernet_init \/ EthernetFails \/ UdpReady \/ UdpBindFails
  \/ MainServes \/ ServerListens \/ ServerFails

-----------------------------------------------------------------------------
(* udpThread *)

UdpWait ==
  /\ UdpGoto("wait", "read") /\ udp_sem > 0 /\ udp_sem' = udp_sem - 1
  /\ UNCHANGED <<program, startup, core, intr, scan, set, tcp, users, starts>>

\* Mutant: one word too few.
nwords_Short == scan_xmit_length

nwords == scan_xmit_length + 1

\* ArrayRead() takes the words there are into the beginning of scan.
Read(n) ==
  LET k == IF n < Len(fifo) THEN n ELSE Len(fifo)
  IN  /\ scan' = SubSeq(fifo, 1, k) \o SubSeq(scan, k + 1, Len(scan))
      /\ fifo' = SubSeq(fifo, k + 1, Len(fifo))

\* A short packet is reported only.
UdpRead ==
  /\ UdpGoto("read", IF Len(fifo) < nwords THEN "wait" ELSE "send") /\ Read(nwords)
  /\ UNCHANGED <<program, startup, enable, netsamples, at, intr, udp_sem, set, tcp, users, starts>>

\* A client's pc is 0 before it begins, then the step it is at.
Script == <<"UP", "NS", "EN", "scans", "DA">>
Active(c) == client[c].pc \in DOMAIN Script

Listening(c) == udpSrvrAddr = [host |-> c, port |-> c] /\ Active(c)

UdpSend ==
  /\ UdpGoto("send", "wait")
  /\ socket' = [c \in Clients |-> IF Listening(c) /\ Len(socket[c]) < MaxSocket
                                  THEN Append(socket[c], nwords) ELSE socket[c]]
  /\ UNCHANGED <<program, startup, core, intr, udp_sem, scan, set, tcp, conn, client, starts>>

\* The network loses the datagram.
UdpLost ==
  /\ UdpGoto("send", "wait")
  /\ UNCHANGED <<program, startup, core, intr, udp_sem, scan, set, tcp, users, starts>>

UdpThread == UdpBinds \/ UdpWait \/ UdpRead \/ UdpSend \/ UdpLost

-----------------------------------------------------------------------------
(* serverAppThread and tcpThread *)

\* Every connection directs the datagrams to the client's host, and to the TCP
\* port it comes from.
Accept(c) ==
  /\ Running /\ conn[c] = "queued" /\ conn' = [conn EXCEPT ![c] = "open"]
  /\ udpSrvrAddr' = [host |-> c, port |-> Nothing]
  /\ tcp' = [tcp EXCEPT ![c].pc = "recv"]
  /\ UNCHANGED <<program, startup, core, intr, reader, scan_xmit_length, udp_port, client, socket, starts>>

TcpAt(t, from) == Running /\ tcp[t].pc = from
TcpGoto(t, from, to) == TcpAt(t, from) /\ tcp' = [tcp EXCEPT ![t].pc = to]
Answer(t, rv) == tcp' = [tcp EXCEPT ![t] = [@ EXCEPT !.pc = "reply", !.rv = rv]]

ParseUP(t) ==
  /\ client[t].cmd = "UP" /\ Answer(t, 200)
  /\ udp_port' = t /\ UNCHANGED <<scan_xmit_length, udpSrvrAddr>>

\* The length takes effect before it is looked at.
ParseNS(t) ==
  /\ client[t].cmd = "NS" /\ Answer(t, IF SCAN_LENGTH > MAX_NS THEN 400 ELSE 200)
  /\ scan_xmit_length' = IF SCAN_LENGTH > MAX_NS THEN 0 ELSE SCAN_LENGTH
  /\ UNCHANGED <<udp_port, udpSrvrAddr>>

\* ssp_get has sent UP before.
ParseEN(t) ==
  /\ client[t].cmd = "EN" /\ TcpGoto(t, "recv", "init")
  /\ udpSrvrAddr' = [udpSrvrAddr EXCEPT !.port = udp_port]
  /\ UNCHANGED <<scan_xmit_length, udp_port>>

\* xfr_disable() begins at one end or the other.
Disable == IF two THEN "intr_off" ELSE "stop"

ParseDA(t) == client[t].cmd = "DA" /\ TcpGoto(t, "recv", Disable) /\ UNCHANGED set

TcpParse(t) ==
  /\ TcpAt(t, "recv") /\ client' = [client EXCEPT ![t].cmd = Nothing]
  /\ ParseUP(t) \/ ParseNS(t) \/ ParseEN(t) \/ ParseDA(t)
  /\ UNCHANGED <<program, startup, core, intr, reader, conn, socket, starts>>

TcpFrame == UNCHANGED <<program, startup, udp_sem, udp, set, users>>

\* xfr_init() stops the generator, sets its length and resets it,
XfrInit(t) ==
  /\ TcpGoto(t, "init", "drain")
  /\ set_scan_gen_enable(FALSE) /\ set_scan_gen_netsamples(scan_xmit_length) /\ at' = 0
  /\ starts' = IF starts < 2 THEN starts + 1 ELSE starts
  /\ UNCHANGED <<fifo, intr, scan>> /\ TcpFrame

\* and drains the FIFO into scan, whatever udpThread is doing with it.
drain_fifo(t) ==
  /\ TcpGoto(t, "drain", "intr_on") /\ Read(Len(fifo)) /\ set_scan_gen_enable(FALSE)
  /\ UNCHANGED <<netsamples, at, intr, starts>> /\ TcpFrame

\* Mutant: the interrupt is left as it was.
XfrEnableInterrupt_Not(t) ==
  /\ TcpGoto(t, "intr_on", "go") /\ UNCHANGED <<core, intr, scan, starts>> /\ TcpFrame

XfrEnableInterrupt(t) ==
  /\ TcpGoto(t, "intr_on", "go") /\ intr' = [intr EXCEPT !.enabled = TRUE]
  /\ UNCHANGED <<core, scan, starts>> /\ TcpFrame

XfrEnable(t) ==
  /\ TcpAt(t, "go") /\ Answer(t, 200) /\ set_scan_gen_enable(TRUE)
  /\ UNCHANGED <<netsamples, at, fifo, intr, scan, starts>> /\ TcpFrame

\* xfr_disable() is called for DA, and when the connection ends.
Disabled(t) == IF tcp[t].closing THEN tcp' = [tcp EXCEPT ![t].pc = "gone"] ELSE Answer(t, 200)

XfrDisableInterrupt(t) ==
  /\ TcpAt(t, "intr_off") /\ intr' = [intr EXCEPT !.enabled = FALSE]
  /\ IF two THEN tcp' = [tcp EXCEPT ![t].pc = "stop"] ELSE Disabled(t)
  /\ UNCHANGED <<core, scan, starts>> /\ TcpFrame

XfrDisable(t) ==
  /\ TcpAt(t, "stop") /\ set_scan_gen_enable(FALSE)
  /\ IF two THEN Disabled(t) ELSE tcp' = [tcp EXCEPT ![t].pc = "intr_off"]
  /\ UNCHANGED <<netsamples, at, fifo, intr, scan, starts>> /\ TcpFrame

Xfr(t) ==
  \/ XfrInit(t) \/ drain_fifo(t) \/ XfrEnableInterrupt(t) \/ XfrEnable(t)
  \/ XfrDisableInterrupt(t) \/ XfrDisable(t)

TcpReply(t) ==
  /\ TcpGoto(t, "reply", "recv") /\ client' = [client EXCEPT ![t].reply = tcp[t].rv]
  /\ UNCHANGED <<program, startup, core, intr, reader, set, conn, socket, starts>>

TcpClosed(t) ==
  /\ TcpAt(t, "recv") /\ conn[t] = "closed"
  /\ tcp' = [tcp EXCEPT ![t] = [@ EXCEPT !.pc = Disable, !.closing = TRUE]]
  /\ UNCHANGED <<core, intr, scan, starts>> /\ TcpFrame

TcpThread(t) == TcpParse(t) \/ Xfr(t) \/ TcpReply(t) \/ TcpClosed(t)

-----------------------------------------------------------------------------
(* ssp_get *)

\* main() and process_scan_set(): each command waits for its answer, and looks
\* only for 503, which these programs never give.
Proceed(c, step) ==
  client' = [client EXCEPT ![c] =
    IF step > Len(Script) THEN [@ EXCEPT !.pc = step, !.reply = 0]
    ELSE [@ EXCEPT !.pc = step, !.reply = 0,
                   !.cmd = IF Script[step] = "scans" THEN Nothing ELSE Script[step]]]

\* One run at a time; the last one's connection need not have ended.
Connect(c) ==
  /\ server = "accept" /\ client[c].pc = 0 /\ (\A d \in Clients : ~Active(d))
  /\ conn' = [conn EXCEPT ![c] = "queued"] /\ Proceed(c, 1)
  /\ UNCHANGED <<program, startup, core, intr, reader, set, tcp, socket, starts>>

\* The answer is taken and the next command sent.  The process ends after DA.
NextCommand(c) ==
  /\ Active(c) /\ client[c].reply # 0 /\ Proceed(c, client[c].pc + 1)
  /\ IF client[c].pc < Len(Script) THEN UNCHANGED <<conn, socket>>
     ELSE conn' = [conn EXCEPT ![c] = "closed"] /\ socket' = [socket EXCEPT ![c] = <<>>]
  /\ UNCHANGED <<program, startup, core, intr, reader, set, tcp, starts>>

\* One scan of the right size before the clock is started, then n_scans of any.
UdpReceive(c) ==
  /\ Active(c) /\ Script[client[c].pc] = "scans" /\ socket[c] # <<>>
  /\ socket' = [socket EXCEPT ![c] = Tail(@)]
  /\ IF client[c].taken = n_scans THEN Proceed(c, client[c].pc + 1)
     ELSE client' = [client EXCEPT ![c].taken =
                       IF @ = 0 /\ Head(socket[c]) # SCAN_LENGTH + 1 THEN 0 ELSE @ + 1]
  /\ UNCHANGED <<program, startup, core, intr, reader, set, tcp, conn, starts>>

ssp_get(c) == NextCommand(c) \/ UdpReceive(c)

-----------------------------------------------------------------------------
SimInit ==
  /\ program \in Programs
  /\ enable = FALSE /\ netsamples = 0 /\ at = 0 /\ fifo = <<>>
  /\ intr = [enabled |-> FALSE, pending |-> FALSE, handler |-> "idle"]
  /\ main = "start" /\ server = "none" /\ udp_sem = 0 /\ udp = "none" /\ scan = <<>>
  /\ scan_xmit_length = 0 /\ udp_port = Nothing /\ udpSrvrAddr = [host |-> Nothing, port |-> Nothing]
  /\ tcp = [t \in Clients |-> [pc |-> "none", rv |-> 0, closing |-> FALSE]]
  /\ conn = [c \in Clients |-> "none"] /\ socket = [c \in Clients |-> <<>>]
  /\ client = [c \in Clients |-> [pc |-> 0, cmd |-> Nothing, reply |-> 0, taken |-> 0]]
  /\ starts = 0

SimNext ==
  \/ StartUp \/ GenerateWord \/ Handler \/ UdpThread
  \/ \E c \in Clients : Accept(c) \/ TcpThread(c) \/ Connect(c) \/ ssp_get(c)

SimSpec == SimInit /\ [][SimNext]_simVars

\* The handler interrupts the threads again and again, but never for ever; the
\* network loses datagrams, but not all of them.
Server == \E c \in Clients : Accept(c) \/ TcpThread(c)
Fairness ==
  /\ WF_simVars(GenerateWord) /\ WF_simVars(Handler) /\ WF_simVars(\E c \in Clients : ssp_get(c))
  /\ SF_simVars(Server) /\ SF_simVars(UdpThread) /\ SF_simVars(UdpSend)
FairSim == SimSpec /\ Fairness

-----------------------------------------------------------------------------
(* Properties *)

\* The first time that acquisition is enabled, each datagram is one whole
\* scan, however far udpThread falls behind the scans.
WholeDatagrams ==
  udp = "send" /\ starts = 1 /\ netsamples = scan_xmit_length
    => scan = [i \in 1..netsamples + 1 |-> i - 1]

\* simeth_2 acknowledges an interrupt before it signals it, so that the next
\* is not lost: in the first acquisition, udpThread does not sleep on a scan.
Sleeping ==
  udp = "wait" /\ udp_sem = 0 /\ intr = [enabled |-> TRUE, pending |-> FALSE, handler |-> "idle"]
NoLag == two /\ starts = 1 /\ netsamples = SCAN_LENGTH /\ Sleeping => Len(fifo) <= netsamples

\* A run of ssp_get against simeth_2 comes to its end, although the network
\* loses datagrams, if the thread that served the run before has ended by the
\* time that this run sends NS, and if udpThread has got its port.
Alone(c) == \A t \in Clients \ {c} : tcp[t].pc \in {"none", "gone"}
Finishes ==
  \A c \in Clients :
    [](two /\ client[c].pc \in {1, 2} /\ Alone(c) => <>(client[c].pc > Len(Script) \/ udp = "gone"))
=============================================================================
