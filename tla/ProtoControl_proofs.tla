------------------------ MODULE ProtoControl_proofs ------------------------
(***************************************************************************)
(* Theorems about ProtoControl: the one semaphore of the prototypes loses   *)
(* no wake-up; a datagram is consecutive words of one acquisition, and one  *)
(* whole scan if the core and udpThread have the same length; for any       *)
(* number of threads, any lengths and any size of the FIFO.                 *)
(***************************************************************************)
EXTENDS ProtoControl, SequenceTheorems, TLAPS

Words == [n : Nat, i : Nat]

TypeInv ==
  /\ netsamples \in Nat /\ at \in Nat
  /\ fifo \in Seq(Words)
  /\ DOMAIN intr = {"enabled", "pending"}
  /\ udp_sem \in Nat
  /\ new_scan_xmit_length \in Int /\ scan_xmit_length \in Int
  /\ DOMAIN tcp = Threads
  /\ rcv_msg.v \in Int

\* A command that udpThread is not carrying out has been posted, or its sender
\* is about to post it.
PostInv ==
  udp \notin {"check", "init", "length", "reset", "enable", "clear"} /\ udpThreadCmd # "none"
    => udp_sem > 0 \/ \E t \in Threads : tcp[t].pc = "post"

\* Until udpThread runs, nothing is acquired.
BeginInv == udp \in {"none", "ethernet", "post", "bind"} => ~enable /\ fifo = <<>>

\* Of scans of n + 1 words, p words are whole scans and the first x of the next.
Holds(p, n, x) == x \in 0..n /\ \E k \in Nat : p = k * (n + 1) + x

\* The length is not being changed.
Settled == netsamples = scan_xmit_length /\ udp \notin {"length", "reset"}

\* The FIFO begins with the first word of a scan, and ends where the core is.
FifoInv ==
  Settled =>
    /\ Holds(Len(fifo), netsamples, at)
    /\ \A j \in 1..Len(fifo) :
         fifo[j].n = netsamples /\ Holds(j - 1, netsamples, fifo[j].i)

\* Whatever the lengths, the FIFO holds consecutive words of the acquisition that
\* goes on, the last of them the one before the core's next.
StreamInv ==
  udp \notin {"length", "reset"} =>
    /\ \A j \in 1..Len(fifo) : fifo[j].n = netsamples
    /\ \A j \in 1..Len(fifo) - 1 : fifo[j + 1] = Successor(fifo[j])
    /\ Len(fifo) > 0 => Word(netsamples, at) = Successor(fifo[Len(fifo)])

\* A whole scan that udpThread has not seen has its interrupt, or its post.
WaitInv ==
  udp = "wait" /\ netsamples = scan_xmit_length /\ Len(fifo) > netsamples
    => intr.pending \/ udp_sem > 0

-----------------------------------------------------------------------------
(* Counting words *)

\* The products that the lemmas below need.
LEMMA Products ==
  ASSUME NEW k \in Nat, NEW m \in Nat
  PROVE  /\ k * m \in Nat /\ (k + 1) * m = k * m + m
         /\ k # 0 => k - 1 \in Nat /\ k * m = (k - 1) * m + m /\ k * m >= m
<1>1. k * m \in Nat /\ (k + 1) * m = k * m + m
  OBVIOUS
<1>2. k # 0 => k - 1 \in Nat /\ k * m = (k - 1) * m + m /\ (k - 1) * m \in Nat
  OBVIOUS
<1> QED BY <1>1, <1>2

\* No words hold no scan.
LEMMA HoldsNone == ASSUME NEW n \in Nat PROVE Holds(0, n, 0)
<1>1. 0 = 0 * (n + 1) + 0
  OBVIOUS
<1> QED BY <1>1 DEF Holds

\* One more word is the next of the scan, or its last.
LEMMA HoldsNext ==
  ASSUME NEW p \in Nat, NEW n \in Nat, NEW x \in Nat, Holds(p, n, x)
  PROVE  IF x = n THEN Holds(p + 1, n, 0) ELSE Holds(p + 1, n, x + 1)
<1>1. PICK k \in Nat : p = k * (n + 1) + x
  BY DEF Holds
<1> DEFINE m == k * (n + 1)
<1>2. m \in Nat /\ (k + 1) * (n + 1) = m + (n + 1)
  BY Products
<1>3. p = m + x
  BY <1>1
<1> HIDE DEF m
<1>4. CASE x = n
  <2>1. p + 1 = (k + 1) * (n + 1) + 0
    BY <1>2, <1>3, <1>4
  <2>2. k + 1 \in Nat /\ 0 \in 0..n
    OBVIOUS
  <2>3. \E l \in Nat : p + 1 = l * (n + 1) + 0
    BY <2>1, <2>2
  <2> QED BY <2>2, <2>3, <1>4 DEF Holds
<1>5. CASE x # n
  <2>1. p + 1 = m + (x + 1)
    BY <1>2, <1>3
  <2>2. x + 1 \in 0..n
    BY <1>5 DEF Holds
  <2> QED BY <2>1, <2>2, <1>5 DEF Holds, m
<1> QED BY <1>4, <1>5

\* As many words as a scan lacks one of are all of the first scan.
LEMMA HoldsFirst ==
  ASSUME NEW p \in Nat, NEW n \in Nat, NEW x \in Nat, Holds(p, n, x), p <= n
  PROVE  x = p
<1>1. PICK k \in Nat : p = k * (n + 1) + x
  BY DEF Holds
<1> DEFINE m == k * (n + 1)
<1>2. m \in Nat /\ (k # 0 => m >= n + 1) /\ (k = 0 => m = 0)
  BY Products
<1>3. p = m + x
  BY <1>1
<1> QED BY <1>2, <1>3

\* A whole scan taken away leaves the others.
LEMMA HoldsRest ==
  ASSUME NEW p \in Nat, NEW n \in Nat, NEW x \in Nat, Holds(p + (n + 1), n, x)
  PROVE  Holds(p, n, x)
<1>1. PICK k \in Nat : p + (n + 1) = k * (n + 1) + x
  BY DEF Holds
<1> DEFINE m == k * (n + 1)
           l == (k - 1) * (n + 1)
<1>2. m \in Nat /\ (k = 0 => m = 0) /\ (k # 0 => k - 1 \in Nat /\ m = l + (n + 1))
  BY Products
<1>3. p + (n + 1) = m + x /\ x \in 0..n
  BY <1>1 DEF Holds
<1>4. k # 0
  BY <1>2, <1>3
<1>5. l \in Nat
  BY <1>2, <1>4
<1>6. p = l + x
  BY <1>2, <1>3, <1>4, <1>5
<1> QED BY <1>2, <1>3, <1>4, <1>6 DEF Holds

-----------------------------------------------------------------------------
(* Types *)

\* A word is added, or the words of a scan are taken away.
LEMMA WordsTyped ==
  ASSUME NEW f \in Seq(Words), NEW w \in Words, NEW k \in Nat
  PROVE  Append(f, w) \in Seq(Words) /\ SubSeq(f, k + 1, Len(f)) \in Seq(Words)
<1>1. Append(f, w) \in Seq(Words)
  BY AppendProperties
<1>2. \A i \in k + 1..Len(f) : f[i] \in Words
  BY ElementOfSeq
<1>3. SubSeq(f, k + 1, Len(f)) \in Seq(Words)
  BY <1>2, SubSeqProperties
<1> QED BY <1>1, <1>3

\* The types hold at power-up.
LEMMA InitTypes == Init => TypeInv
BY ProtoAssumption DEF Init, TypeInv

\* Every action keeps them.
LEMMA StepTypes == TypeInv /\ [Next]_vars => TypeInv'
<1> SUFFICES ASSUME TypeInv, [Next]_vars PROVE TypeInv'
  OBVIOUS
<1> USE ProtoAssumption DEF TypeInv, vars, core, startup, shared, threads
<1>1. CASE StartUp
  <2>1. UNCHANGED <<core, intr, udp_sem, shared, scan_xmit_length, rcv_msg>>
    BY <1>1 DEF StartUp, MainStarts, MainFails, EthernetInit, EthernetFails, UdpReady,
      UdpBindFails, MainServes, ServerListens, ServerFails, Accept, StartupFrame
  <2>2. DOMAIN tcp' = Threads
    BY <1>1 DEF StartUp, MainStarts, MainFails, EthernetInit, EthernetFails, UdpReady,
      UdpBindFails, MainServes, ServerListens, ServerFails, Accept
  <2> QED BY <2>1, <2>2
<1>2. CASE CoreWord
  <2>1. fifo' \in Seq(Words)
    BY <1>2, WordsTyped DEF CoreWord, Words, Word
  <2> QED BY <1>2, <2>1 DEF CoreWord
<1>3. CASE sg_handler
  BY <1>3 DEF sg_handler, SemPost
<1>4. CASE UdpThread \/ UdpFails
  <2>1. CASE UdpBinds
    BY <2>1 DEF UdpBinds, StartupFrame
  <2>2. CASE UdpWait
    BY <2>2 DEF UdpWait
  <2>3. CASE UdpCheck
    BY <2>3 DEF UdpCheck, XfrDisable, set_ssp_enable
  <2>4. CASE XfrInit
    BY <2>4 DEF XfrInit, set_ssp_enable, set_ssp_netsamples
  <2>5. CASE XfrLength
    BY <2>5 DEF XfrLength
  <2>6. CASE XfrReset
    BY <2>6 DEF XfrReset, Drained
  <2>7. CASE XfrEnable
    BY <2>7 DEF XfrEnable, set_ssp_enable
  <2>8. CASE ClearCmd
    BY <2>8 DEF ClearCmd
  <2>9. CASE UdpRead
    <3>1. Present => scan_size \in Nat
      BY LenProperties DEF Present, scan_size
    <3>2. Present => SubSeq(fifo, scan_size + 1, Len(fifo)) \in Seq(Words)
      <4>1. [n |-> 0, i |-> 0] \in Words
        BY DEF Words
      <4> QED BY <3>1, <4>1, WordsTyped
    <3> QED BY <2>9, <3>2 DEF UdpRead
  <2>10. CASE UdpSend \/ UdpFails
    BY <2>10 DEF UdpSend, UdpFails
  <2> QED BY <1>4, <2>1, <2>2, <2>3, <2>4, <2>5, <2>6, <2>7, <2>8, <2>9, <2>10 DEF UdpThread
<1>5. ASSUME NEW t \in Threads, TcpThread(t) PROVE TypeInv'
  <2> USE DEF TcpGoto, Answer, TcpFrame
  <2>1. CASE TcpReceive(t)
    BY <2>1 DEF TcpReceive
  <2>2. CASE TcpParse(t)
    <3>1. UNCHANGED <<core, intr, udp_sem, scan_xmit_length, rcv_msg>>
      BY <2>2 DEF TcpParse
    <3>2. new_scan_xmit_length' \in Int
      BY <2>2 DEF TcpParse, ParseForUdp, ParseNow
    <3>3. DOMAIN tcp' = Threads
      BY <2>2 DEF TcpParse, ParseForUdp, ParseNow
    <3> QED BY <3>1, <3>2, <3>3
  <2>3. CASE TooLong(t)
    BY <2>3 DEF TooLong
  <2>4. CASE EnqTest(t) \/ EnqSet(t)
    BY <2>4 DEF EnqTest, EnqSet
  <2>5. CASE EnqPost(t)
    BY <2>5 DEF EnqPost, SemPost
  <2>6. CASE TcpReply(t)
    BY <2>6 DEF TcpReply
  <2>7. CASE TcpClosed(t)
    BY <2>7 DEF TcpClosed
  <2>8. CASE TcpClose(t)
    BY <2>8 DEF TcpClose, set_ssp_enable
  <2> QED BY <1>5, <2>1, <2>2, <2>3, <2>4, <2>5, <2>6, <2>7, <2>8 DEF TcpThread
<1>6. CASE UNCHANGED vars
  BY <1>6
<1> QED BY <1>1, <1>2, <1>3, <1>4, <1>5, <1>6 DEF Next

-----------------------------------------------------------------------------
(* The semaphore *)

\* A post is never lost, whatever the bound of the semaphore.
LEMMA PostCounts == ASSUME udp_sem \in Nat, SemPost PROVE udp_sem' > 0
BY ProtoAssumption DEF SemPost

\* The semaphore counts a post until udpThread waits for it.
LEMMA StepPost == TypeInv /\ PostInv /\ [Next]_vars => PostInv'
<1> SUFFICES ASSUME TypeInv, PostInv, [Next]_vars PROVE PostInv'
  OBVIOUS
<1> USE DEF PostInv, vars, core, startup, shared, threads, UdpGoto
<1>1. DOMAIN tcp = Threads /\ udp_sem \in Nat
  BY DEF TypeInv
<1>2. CASE StartUp
  <2>1. UNCHANGED <<udp_sem, udpThreadCmd>>
    BY <1>2 DEF StartUp, MainStarts, MainFails, EthernetInit, EthernetFails, UdpReady,
      UdpBindFails, MainServes, ServerListens, ServerFails, Accept, StartupFrame
  <2>2. udp' # udp => udp \in {"none", "ethernet", "post", "bind"}
    BY <1>2 DEF StartUp, MainStarts, MainFails, EthernetInit, EthernetFails, UdpReady,
      UdpBindFails, MainServes, ServerListens, ServerFails, Accept
  <2>3. \A t \in Threads : tcp[t].pc = "post" => tcp'[t].pc = "post"
    <3>1. CASE tcp' = tcp
      BY <3>1
    <3>2. ASSUME NEW a \in Threads, Accept(a)
          PROVE  \A t \in Threads : tcp[t].pc = "post" => tcp'[t].pc = "post"
      BY <1>1, <3>2 DEF Accept
    <3> QED BY <1>2, <3>1, <3>2 DEF StartUp, MainStarts, MainFails, EthernetInit, EthernetFails,
      UdpReady, UdpBindFails, MainServes, ServerListens, ServerFails
  <2> QED BY <2>1, <2>2, <2>3
<1>3. CASE CoreWord
  BY <1>3 DEF CoreWord
<1>4. CASE sg_handler
  <2>1. udp_sem' > 0
    BY <1>1, <1>4, PostCounts DEF sg_handler
  <2> QED BY <2>1
<1>5. CASE UdpThread \/ UdpFails
  BY <1>5 DEF UdpThread, UdpBinds, StartupFrame, UdpWait, UdpCheck, Reads, XfrInit, XfrLength,
    XfrReset, XfrEnable, ClearCmd, UdpRead, UdpSend, UdpFails
<1>6. ASSUME NEW t \in Threads, TcpThread(t) PROVE PostInv'
  <2>1. CASE EnqSet(t)
    <3>1. tcp'[t].pc = "post"
      BY <1>1, <2>1 DEF EnqSet, TcpGoto
    <3> QED BY <3>1
  <2>2. CASE EnqPost(t)
    <3>1. udp_sem' > 0
      BY <1>1, <2>2, PostCounts DEF EnqPost
    <3> QED BY <3>1
  <2>3. CASE TcpReceive(t) \/ TcpParse(t) \/ TooLong(t) \/ EnqTest(t) \/ TcpReply(t)
             \/ TcpClosed(t) \/ TcpClose(t)
    <3>1. UNCHANGED <<udp, udp_sem, udpThreadCmd>>
      BY <2>3 DEF TcpReceive, TcpParse, TooLong, EnqTest, TcpReply, TcpClosed, TcpClose, TcpFrame
    <3>2. tcp[t].pc # "post"
      BY <2>3 DEF TcpReceive, TcpParse, ParseForUdp, ParseNow, TooLong, EnqTest, TcpReply,
        TcpClosed, TcpClose, TcpGoto, Answer
    <3>3. \A u \in Threads : u # t => tcp'[u] = tcp[u]
      BY <1>1, <2>3 DEF TcpReceive, TcpParse, ParseForUdp, ParseNow, TooLong, EnqTest, TcpReply,
        TcpClosed, TcpClose, TcpGoto, Answer
    <3> QED BY <3>1, <3>2, <3>3
  <2> QED BY <1>6, <2>1, <2>2, <2>3 DEF TcpThread
<1>7. CASE UNCHANGED vars
  BY <1>7
<1> QED BY <1>2, <1>3, <1>4, <1>5, <1>6, <1>7 DEF Next

-----------------------------------------------------------------------------
(* The FIFO *)

\* The steps that neither touch the FIFO nor the length.
Elsewhere == UNCHANGED <<netsamples, at, fifo, scan_xmit_length>>

\* What the TCP threads, the interrupt and the start-up leave alone.
LEMMA ThreadSteps ==
  ASSUME TypeInv, StartUp \/ sg_handler \/ (\E t \in Threads : TcpThread(t)) \/ UNCHANGED vars
  PROVE  /\ Elsewhere /\ scan' = scan
         /\ udp' # udp => /\ udp \in {"none", "ethernet", "post", "bind"}
                          /\ udp' \in {"ethernet", "post", "bind", "gone"}
                          /\ udp = "bind" => udp' = "gone"
         /\ ~enable => ~enable'
         /\ (intr' = intr /\ udp_sem' = udp_sem) \/ udp_sem' > 0
<1> USE DEF vars, core, startup, shared, threads, UdpGoto, Elsewhere
<1>1. CASE StartUp
  <2>1. UNCHANGED <<core, intr, udp_sem, scan_xmit_length, scan>>
    BY <1>1 DEF StartUp, MainStarts, MainFails, EthernetInit, EthernetFails, UdpReady,
      UdpBindFails, MainServes, ServerListens, ServerFails, Accept, StartupFrame
  <2>2. udp' = udp \/ /\ udp \in {"none", "ethernet", "post", "bind"}
                      /\ udp' \in {"ethernet", "post", "bind", "gone"}
                      /\ udp = "bind" => udp' = "gone"
    BY <1>1 DEF StartUp, MainStarts, MainFails, EthernetInit, EthernetFails, UdpReady,
      UdpBindFails, MainServes, ServerListens, ServerFails, Accept
  <2> QED BY <2>1, <2>2 DEF TypeInv
<1>2. CASE sg_handler
  <2>1. udp_sem' > 0
    BY <1>2, PostCounts DEF sg_handler, TypeInv
  <2> QED BY <1>2, <2>1 DEF sg_handler
<1>3. ASSUME NEW t \in Threads, TcpThread(t)
      PROVE  /\ UNCHANGED <<netsamples, at, fifo, scan_xmit_length, scan, udp, intr>>
             /\ ~enable => ~enable'
             /\ udp_sem' = udp_sem \/ udp_sem' > 0
  <2>1. UNCHANGED <<netsamples, at, fifo, scan_xmit_length, scan, udp, intr>>
    BY <1>3 DEF TcpThread, TcpReceive, TcpParse, TooLong, EnqTest, EnqSet, EnqPost, TcpReply,
      TcpClosed, TcpClose, TcpFrame
  <2>2. ~enable => ~enable'
    BY <1>3 DEF TcpThread, TcpReceive, TcpParse, TooLong, EnqTest, EnqSet, EnqPost, TcpReply,
      TcpClosed, TcpClose, set_ssp_enable
  <2>3. SemPost => udp_sem' > 0
    BY PostCounts DEF TypeInv
  <2>4. udp_sem' = udp_sem \/ udp_sem' > 0
    BY <1>3, <2>3, Zenon DEF TcpThread, TcpReceive, TcpParse, TooLong, EnqTest, EnqSet, EnqPost,
      TcpReply, TcpClosed, TcpClose
  <2> QED BY <2>1, <2>2, <2>4
<1>4. CASE UNCHANGED vars
  BY <1>4 DEF TypeInv
<1>5. CASE \E t \in Threads : TcpThread(t)
  BY <1>3, <1>5 DEF TypeInv
<1> QED BY <1>1, <1>2, <1>4, <1>5

\* Nothing has been posted for udpThread before it binds.
LEMMA StepBegin == TypeInv /\ BeginInv /\ [Next]_vars => BeginInv'
<1> SUFFICES ASSUME TypeInv, BeginInv, [Next]_vars PROVE BeginInv'
  OBVIOUS
<1> USE DEF BeginInv
<1>1. CASE StartUp \/ sg_handler \/ (\E t \in Threads : TcpThread(t)) \/ UNCHANGED vars
  BY <1>1, ThreadSteps DEF Elsewhere
<1>2. CASE CoreWord
  BY <1>2 DEF CoreWord
<1>3. CASE UdpThread \/ UdpFails
  <2>1. udp' \notin {"none", "ethernet", "post", "bind"}
    BY <1>3 DEF UdpThread, UdpBinds, UdpWait, UdpCheck, XfrInit, XfrLength, XfrReset, XfrEnable,
      ClearCmd, UdpRead, UdpSend, UdpFails, UdpGoto, AfterSend
  <2> QED BY <2>1
<1> QED BY <1>1, <1>2, <1>3 DEF Next

\* The steps of udpThread that change neither the FIFO nor the length.
QuietSteps == UdpBinds \/ UdpWait \/ UdpCheck \/ XfrEnable \/ ClearCmd \/ UdpSend \/ UdpFails

\* Those steps leave the core alone, and none of them goes on to send.
LEMMA UdpSteps ==
  ASSUME QuietSteps
  PROVE  /\ Elsewhere
         /\ udp \notin {"length", "reset"}
         /\ udp' # "send"
         /\ udp' = "wait" => udp = "bind"
BY DEF QuietSteps, UdpBinds, StartupFrame, UdpWait, UdpCheck, XfrEnable, ClearCmd, UdpSend,
  UdpFails, UdpGoto, AfterSend, Elsewhere, core

\* What the FIFO holds is the scan that the interrupt will announce.
LEMMA StepFifo == TypeInv /\ FifoInv /\ [Next]_vars => FifoInv'
<1> SUFFICES ASSUME TypeInv, FifoInv, [Next]_vars PROVE FifoInv'
  OBVIOUS
<1> USE DEF FifoInv, Settled
<1>1. CASE StartUp \/ sg_handler \/ (\E t \in Threads : TcpThread(t)) \/ UNCHANGED vars
  BY <1>1, ThreadSteps DEF Elsewhere
<1>2. CASE QuietSteps
  BY <1>2, UdpSteps DEF Elsewhere
<1>3. CASE CoreWord
  <2> SUFFICES ASSUME Settled' PROVE FifoInv'
    OBVIOUS
  <2>1. Settled /\ UNCHANGED netsamples /\ fifo' = Append(fifo, Word(netsamples, at))
    BY <1>3 DEF CoreWord
  <2>2. /\ Len(fifo) \in Nat /\ Len(fifo') = Len(fifo) + 1
        /\ fifo'[Len(fifo) + 1] = Word(netsamples, at)
        /\ \A j \in 1..Len(fifo) : fifo'[j] = fifo[j]
    <3>1. Word(netsamples, at) \in Words
      BY DEF Word, Words, TypeInv
    <3> QED BY <2>1, <3>1, AppendProperties, LenProperties DEF TypeInv
  <2>3. Holds(Len(fifo'), netsamples, at')
    BY <1>3, <2>1, <2>2, HoldsNext DEF CoreWord, TypeInv
  <2>4. ASSUME NEW j \in 1..Len(fifo')
        PROVE  fifo'[j].n = netsamples /\ Holds(j - 1, netsamples, fifo'[j].i)
    <3>1. CASE j = Len(fifo) + 1
      <4>1. fifo'[j].n = netsamples /\ fifo'[j].i = at /\ j - 1 = Len(fifo)
        BY <2>2, <3>1 DEF Word
      <4> QED BY <2>1, <4>1
    <3>2. CASE j # Len(fifo) + 1
      <4>1. j \in 1..Len(fifo)
        BY <2>2, <3>2
      <4> QED BY <2>1, <2>2, <4>1
    <3> QED BY <3>1, <3>2
  <2> QED BY <2>1, <2>3, <2>4
<1>4. CASE XfrInit \/ XfrLength
  BY <1>4 DEF XfrInit, XfrLength, UdpGoto
<1>5. CASE XfrReset
  <2>1. /\ fifo' = <<>> /\ at' = 0 /\ netsamples' = netsamples /\ netsamples \in Nat
        /\ Len(<<>>) = 0
    BY <1>5 DEF XfrReset, Drained, TypeInv
  <2>2. Holds(0, netsamples, 0)
    BY <2>1, HoldsNone
  <2> QED BY <2>1, <2>2
<1>6. CASE UdpRead /\ ~Present
  BY <1>6 DEF UdpRead, core
<1>7. CASE UdpRead /\ Present
  <2> SUFFICES ASSUME Settled' PROVE FifoInv'
    OBVIOUS
  <2> DEFINE n == netsamples
  <2>1. /\ Settled /\ UNCHANGED <<netsamples, at>> /\ n \in Nat /\ Len(fifo) \in Nat
        /\ Len(fifo) > n /\ fifo' = SubSeq(fifo, n + 2, Len(fifo))
    <3>1. Len(fifo) \in Nat /\ netsamples \in Nat
      BY LenProperties DEF TypeInv
    <3>2. Settled /\ UNCHANGED <<netsamples, at>>
      BY <1>7 DEF UdpRead
    <3>3. Len(fifo) > netsamples /\ scan_size = netsamples + 1
      BY <1>7, <3>1, <3>2 DEF Present, scan_size
    <3>4. scan_size + 1 = netsamples + 2
      BY <3>1, <3>3
    <3> QED BY <1>7, <3>1, <3>2, <3>3, <3>4 DEF UdpRead
  <2> DEFINE rest == Len(fifo) - (n + 1)
  <2>2. /\ rest \in Nat /\ Len(fifo) = rest + (n + 1) /\ Len(fifo') = rest
        /\ \A j \in 1..rest : fifo'[j] = fifo[j + (n + 1)]
    <3>1. \A j \in n + 2..Len(fifo) : fifo[j] \in Words
      BY <2>1, ElementOfSeq DEF TypeInv
    <3>2. /\ Len(fifo') = IF n + 2 <= Len(fifo) THEN Len(fifo) - (n + 2) + 1 ELSE 0
          /\ \A j \in 1..Len(fifo) - (n + 2) + 1 : fifo'[j] = fifo[n + 2 + j - 1]
      BY <2>1, <3>1, SubSeqProperties
    <3> QED BY <2>1, <3>2
  <2>3. Holds(Len(fifo'), n, at)
    BY <2>1, <2>2, HoldsRest DEF TypeInv
  <2>4. ASSUME NEW j \in 1..rest
        PROVE  fifo'[j].n = n /\ Holds(j - 1, n, fifo'[j].i)
    <3>1. j + (n + 1) \in 1..Len(fifo)
      BY <2>1, <2>2
    <3>2. fifo[j + (n + 1)] \in Words
      BY <3>1, ElementOfSeq DEF TypeInv
    <3>3. fifo'[j].i \in Nat
      BY <2>2, <3>2 DEF Words
    <3>4. fifo'[j].n = n /\ Holds(j + (n + 1) - 1, n, fifo'[j].i)
      BY <2>1, <2>2, <3>1
    <3>5. j - 1 \in Nat /\ j + (n + 1) - 1 = (j - 1) + (n + 1)
      BY <2>1
    <3> QED BY <2>1, <3>3, <3>4, <3>5, HoldsRest
  <2> QED BY <2>1, <2>2, <2>3, <2>4
<1> QED BY <1>1, <1>2, <1>3, <1>4, <1>5, <1>6, <1>7 DEF Next, UdpThread, QuietSteps

\* Words are added behind the last and taken from the front.
LEMMA StepStream == TypeInv /\ StreamInv /\ [Next]_vars => StreamInv'
<1> SUFFICES ASSUME TypeInv, StreamInv, [Next]_vars PROVE StreamInv'
  OBVIOUS
<1> USE DEF StreamInv
<1>1. CASE StartUp \/ sg_handler \/ (\E t \in Threads : TcpThread(t)) \/ UNCHANGED vars
  BY <1>1, ThreadSteps DEF Elsewhere, Successor, Word
<1>2. CASE QuietSteps
  BY <1>2, UdpSteps DEF Elsewhere, Successor, Word
<1>3. CASE CoreWord
  <2> SUFFICES ASSUME udp' \notin {"length", "reset"} PROVE StreamInv'
    OBVIOUS
  <2> DEFINE w == Word(netsamples, at)
             l == Len(fifo)
  <2>1. /\ udp \notin {"length", "reset"} /\ UNCHANGED netsamples /\ fifo' = Append(fifo, w)
        /\ at' = IF at = netsamples THEN 0 ELSE at + 1
    BY <1>3 DEF CoreWord
  <2>2. /\ l \in Nat /\ Len(fifo') = l + 1 /\ fifo'[l + 1] = w
        /\ \A j \in 1..l : fifo'[j] = fifo[j]
    <3>1. w \in Words
      BY DEF Word, Words, TypeInv
    <3> QED BY <2>1, <3>1, AppendProperties, LenProperties DEF TypeInv
  <2>3. w.n = netsamples /\ Word(netsamples, at') = Successor(w)
    BY <2>1 DEF Word, Successor
  <2>4. ASSUME NEW j \in 1..l + 1 PROVE fifo'[j].n = netsamples
    <3>1. j = l + 1 \/ j \in 1..l
      BY <2>2
    <3> QED BY <2>1, <2>2, <2>3, <3>1
  <2>5. ASSUME NEW j \in 1..l PROVE fifo'[j + 1] = Successor(fifo'[j])
    <3>1. CASE j = l
      <4>1. l > 0 /\ fifo'[j] = fifo[l]
        BY <2>2, <3>1
      <4>2. w = Successor(fifo[l])
        BY <2>1, <4>1
      <4> QED BY <2>2, <3>1, <4>1, <4>2
    <3>2. CASE j # l
      <4>1. j \in 1..l - 1 /\ j + 1 \in 1..l
        BY <2>2, <3>2
      <4>2. fifo[j + 1] = Successor(fifo[j])
        BY <2>1, <4>1
      <4> QED BY <2>2, <4>1, <4>2
    <3> QED BY <3>1, <3>2
  <2>6. Len(fifo') = l + 1 /\ Len(fifo') - 1 = l /\ fifo'[Len(fifo')] = w
    BY <2>2
  <2> HIDE DEF w, l
  <2> QED BY <2>1, <2>3, <2>4, <2>5, <2>6 DEF Successor, Word
<1>4. CASE XfrInit \/ XfrLength
  BY <1>4 DEF XfrInit, XfrLength, UdpGoto
<1>5. CASE XfrReset
  <2>1. fifo' = <<>> /\ Len(<<>>) = 0
    BY <1>5 DEF XfrReset, Drained
  <2> QED BY <2>1
<1>6. CASE UdpRead /\ ~Present
  BY <1>6 DEF UdpRead, Successor, Word
<1>7. CASE UdpRead /\ Present
  <2> DEFINE k == scan_xmit_length + 1
             rest == Len(fifo) - k
  <2>1. udp = "read" /\ UNCHANGED <<netsamples, at>>
    BY <1>7 DEF UdpRead
  <2>2. /\ Len(fifo) \in Nat /\ k \in Nat /\ Len(fifo) >= k
        /\ fifo' = SubSeq(fifo, k + 1, Len(fifo))
    <3>1. Len(fifo) \in Nat /\ scan_xmit_length \in Int
      BY LenProperties DEF TypeInv
    <3>2. k \in Nat /\ Len(fifo) >= k /\ scan_size = k
      BY <1>7, <3>1 DEF Present, scan_size
    <3> QED BY <1>7, <3>1, <3>2 DEF UdpRead
  <2> HIDE DEF k
  <2>3. rest \in Nat /\ Len(fifo') = rest /\ \A j \in 1..rest : fifo'[j] = fifo[j + k]
    <3>1. \A j \in k + 1..Len(fifo) : fifo[j] \in Words
      BY <2>2, ElementOfSeq DEF TypeInv
    <3>2. /\ Len(fifo') = IF k + 1 <= Len(fifo) THEN Len(fifo) - (k + 1) + 1 ELSE 0
          /\ \A j \in 1..Len(fifo) - (k + 1) + 1 : fifo'[j] = fifo[k + 1 + j - 1]
      BY <2>2, <3>1, SubSeqProperties
    <3> QED BY <2>2, <3>2
  <2>4. ASSUME NEW j \in 1..rest PROVE fifo'[j].n = netsamples
    <3>1. j + k \in 1..Len(fifo)
      BY <2>2, <2>3
    <3> QED BY <2>1, <2>3, <3>1
  <2>5. ASSUME NEW j \in 1..rest - 1 PROVE fifo'[j + 1] = Successor(fifo'[j])
    <3>1. j + k \in 1..Len(fifo) - 1 /\ j \in 1..rest /\ j + 1 \in 1..rest
      <4>1. rest \in Nat /\ rest + k = Len(fifo)
        BY <2>2, <2>3
      <4> HIDE DEF rest
      <4> QED BY <2>2, <4>1
    <3>2. fifo[(j + k) + 1] = Successor(fifo[j + k])
      BY <2>1, <3>1
    <3>3. (j + k) + 1 = (j + 1) + k
      BY <2>2, <3>1
    <3>4. fifo'[j] = fifo[j + k] /\ fifo'[j + 1] = fifo[(j + 1) + k]
      BY <2>3, <3>1
    <3> QED BY <3>2, <3>3, <3>4
  <2>6. ASSUME rest > 0 PROVE Word(netsamples, at) = Successor(fifo'[rest])
    <3>1. Len(fifo) > 0 /\ rest \in 1..rest /\ rest + k = Len(fifo)
      BY <2>2, <2>3, <2>6
    <3>2. fifo'[rest] = fifo[Len(fifo)]
      BY <2>3, <3>1
    <3> QED BY <2>1, <3>1, <3>2
  <2> HIDE DEF rest
  <2> QED BY <2>1, <2>3, <2>4, <2>5, <2>6 DEF Successor, Word
<1> QED BY <1>1, <1>2, <1>3, <1>4, <1>5, <1>6, <1>7 DEF Next, UdpThread, QuietSteps

-----------------------------------------------------------------------------
(* Waiting and sending *)

\* A scan that is ready, or a command, finds udpThread awake or a post waiting.
LEMMA StepWait == TypeInv /\ BeginInv /\ FifoInv /\ WaitInv /\ [Next]_vars => WaitInv'
<1> SUFFICES ASSUME TypeInv, BeginInv, FifoInv, WaitInv, [Next]_vars,
                    udp' = "wait", netsamples' = scan_xmit_length', Len(fifo') > netsamples'
             PROVE  intr'.pending \/ udp_sem' > 0
  BY DEF WaitInv
<1>1. CASE StartUp \/ sg_handler \/ (\E t \in Threads : TcpThread(t)) \/ UNCHANGED vars
  <2>1. udp = "wait" /\ Elsewhere /\ ((intr' = intr /\ udp_sem' = udp_sem) \/ udp_sem' > 0)
    BY <1>1, ThreadSteps
  <2> QED BY <2>1 DEF WaitInv, Elsewhere
<1>2. CASE QuietSteps
  <2>1. udp = "bind" /\ Elsewhere
    BY <1>2, UdpSteps
  <2>2. Len(fifo') = 0 /\ netsamples' \in Nat
    BY <2>1 DEF BeginInv, Elsewhere, TypeInv
  <2> QED BY <2>2
<1>3. CASE CoreWord
  <2>1. /\ udp = "wait" /\ netsamples = scan_xmit_length /\ netsamples' = netsamples
        /\ udp_sem' = udp_sem
    BY <1>3 DEF CoreWord
  <2>2. netsamples \in Nat /\ at \in Nat /\ Len(fifo) \in Nat /\ Len(fifo') = Len(fifo) + 1
    <3>1. Word(netsamples, at) \in Words
      BY DEF Word, Words, TypeInv
    <3> QED BY <1>3, <3>1, AppendProperties, LenProperties DEF CoreWord, TypeInv
  <2>3. CASE at = netsamples
    BY <1>3, <2>3 DEF CoreWord, TypeInv
  <2>4. CASE at # netsamples
    <3>1. Holds(Len(fifo), netsamples, at)
      BY <2>1 DEF FifoInv, Settled
    <3>2. Len(fifo) <= netsamples => at = Len(fifo)
      BY <2>2, <3>1, HoldsFirst
    <3>3. Len(fifo') > netsamples
      BY <2>1
    <3>4. Len(fifo) > netsamples
      BY <2>2, <2>4, <3>2, <3>3
    <3>5. intr' = intr
      BY <1>3, <2>4 DEF CoreWord
    <3> QED BY <2>1, <3>4, <3>5 DEF WaitInv
  <2> QED BY <2>3, <2>4
<1>4. CASE XfrInit \/ XfrLength \/ XfrReset
  BY <1>4 DEF XfrInit, XfrLength, XfrReset, UdpGoto
<1>5. CASE UdpRead
  <2>1. ~Present /\ UNCHANGED <<fifo, netsamples, scan_xmit_length>>
    BY <1>5 DEF UdpRead
  <2>2. Len(fifo) \in Nat /\ netsamples \in Nat
    BY LenProperties DEF TypeInv
  <2>3. scan_xmit_length = netsamples /\ Len(fifo) > netsamples
    BY <2>1
  <2>4. Present
    BY <2>2, <2>3 DEF Present
  <2> QED BY <2>1, <2>4
<1> QED BY <1>1, <1>2, <1>3, <1>4, <1>5 DEF Next, UdpThread, QuietSteps

\* What udpThread has read is what it sends.
LEMMA StepSend == TypeInv /\ FifoInv /\ StreamInv /\ WholeDatagrams /\ [Next]_vars
                    => WholeDatagrams'
<1> SUFFICES ASSUME TypeInv, FifoInv, StreamInv, WholeDatagrams, [Next]_vars, udp' = "send"
             PROVE  /\ Len(scan') = scan_xmit_length' + 1
                    /\ \A j \in 1..Len(scan') : scan'[j].n = netsamples'
                    /\ \A j \in 1..Len(scan') - 1 : scan'[j + 1] = Successor(scan'[j])
                    /\ netsamples' = scan_xmit_length' =>
                         scan' = [j \in 1..netsamples' + 1 |-> Word(netsamples', j - 1)]
  BY DEF WholeDatagrams, Successor, Word
<1>1. CASE StartUp \/ sg_handler \/ (\E t \in Threads : TcpThread(t)) \/ UNCHANGED vars
  <2>1. udp = "send" /\ Elsewhere /\ scan' = scan
    BY <1>1, ThreadSteps
  <2> QED BY <2>1 DEF WholeDatagrams, Elsewhere
<1>2. CASE QuietSteps
  BY <1>2, UdpSteps
<1>3. CASE CoreWord
  <2>1. udp = "send" /\ UNCHANGED <<netsamples, scan_xmit_length, scan>>
    BY <1>3 DEF CoreWord
  <2> QED BY <2>1 DEF WholeDatagrams
<1>4. CASE XfrInit \/ XfrLength \/ XfrReset
  BY <1>4 DEF XfrInit, XfrLength, XfrReset, UdpGoto
<1>5. CASE UdpRead
  <2> DEFINE n == netsamples
             k == scan_xmit_length + 1
  <2>1. /\ Present /\ udp = "read" /\ netsamples' = n /\ scan_xmit_length' = scan_xmit_length
        /\ scan' = SubSeq(fifo, 1, scan_size) /\ n \in Nat /\ Len(fifo) \in Nat
    BY <1>5, LenProperties DEF UdpRead, TypeInv
  <2>2. k \in Nat /\ k >= 1 /\ Len(fifo) >= k /\ scan_size = k
    BY <2>1 DEF Present, scan_size, TypeInv
  <2>3. scan' = [j \in 1..k |-> fifo[j]] /\ Len(scan') = k
    BY <2>1, <2>2
  <2>4. \A j \in 1..k : j \in 1..Len(fifo) /\ scan'[j] = fifo[j]
    BY <2>1, <2>2, <2>3
  <2>5. \A j \in 1..k : scan'[j].n = n
    BY <2>1, <2>4 DEF StreamInv
  <2>6. ASSUME NEW j \in 1..k - 1 PROVE scan'[j + 1] = Successor(scan'[j])
    <3>1. j \in 1..Len(fifo) - 1 /\ j \in 1..k /\ j + 1 \in 1..k
      BY <2>1, <2>2
    <3>2. fifo[j + 1] = Successor(fifo[j])
      BY <2>1, <3>1 DEF StreamInv
    <3> QED BY <2>4, <3>1, <3>2
  <2>7. ASSUME n = scan_xmit_length
        PROVE  scan' = [j \in 1..n + 1 |-> Word(n, j - 1)]
    <3>1. ASSUME NEW j \in 1..n + 1 PROVE fifo[j] = Word(n, j - 1)
      <4>1. j \in 1..Len(fifo) /\ j - 1 \in Nat /\ j - 1 <= n
        BY <2>1, <2>2, <2>7
      <4>2. fifo[j] \in Words
        BY <4>1, ElementOfSeq DEF TypeInv
      <4>3. fifo[j].i \in Nat
        BY <4>2 DEF Words
      <4>4. Settled
        BY <2>1, <2>7 DEF Settled
      <4>5. fifo[j].n = n /\ Holds(j - 1, n, fifo[j].i)
        BY <4>1, <4>4 DEF FifoInv
      <4>6. fifo[j].i = j - 1
        BY <2>1, <4>1, <4>3, <4>5, HoldsFirst
      <4> QED BY <4>2, <4>5, <4>6 DEF Word, Words
    <3> QED BY <2>3, <2>7, <3>1
  <2> QED BY <2>1, <2>3, <2>5, <2>6, <2>7
<1> QED BY <1>1, <1>2, <1>3, <1>4, <1>5 DEF Next, UdpThread, QuietSteps

-----------------------------------------------------------------------------
(* The theorems *)

IInv == TypeInv /\ PostInv /\ BeginInv /\ FifoInv /\ StreamInv /\ WaitInv /\ WholeDatagrams

\* All of it holds at power-up.
LEMMA InitIInv == Init => IInv
<1> SUFFICES ASSUME Init PROVE IInv
  OBVIOUS
<1>1. Holds(0, 0, 0)
  BY HoldsNone
<1>2. TypeInv /\ PostInv /\ BeginInv /\ WaitInv /\ WholeDatagrams
  BY InitTypes DEF Init, PostInv, BeginInv, WaitInv, WholeDatagrams
<1>3. FifoInv /\ StreamInv
  BY <1>1 DEF Init, FifoInv, StreamInv
<1> QED BY <1>2, <1>3 DEF IInv

\* All of it holds throughout.
LEMMA Inductive == Spec => []IInv
<1>1. IInv /\ [Next]_vars => IInv'
  BY StepTypes, StepPost, StepBegin, StepFifo, StepStream, StepWait, StepSend DEF IInv
<1> QED BY InitIInv, <1>1, PTL DEF Spec

\* udpThread never sleeps while a command or a whole scan waits for it and
\* nothing is on its way to wake it: with one semaphore for two kinds of events,
\* and a post for each, none is lost between looking and waiting.
THEOREM NeverAsleep == Spec => []NoLostWakeup
<1>1. IInv => NoLostWakeup
  <2> SUFFICES ASSUME IInv, udp = "wait", udp_sem = 0
               PROVE  /\ udpThreadCmd # "none" => \E t \in Threads : tcp[t].pc = "post"
                      /\ netsamples = scan_xmit_length =>
                           Len(fifo) <= netsamples \/ intr.pending
    BY DEF NoLostWakeup
  <2>1. udpThreadCmd # "none" => \E t \in Threads : tcp[t].pc = "post"
    BY DEF IInv, PostInv
  <2>2. Len(fifo) \in Nat /\ netsamples \in Nat
    BY LenProperties DEF IInv, TypeInv
  <2>3. netsamples = scan_xmit_length => Len(fifo) <= netsamples \/ intr.pending
    BY <2>2 DEF IInv, WaitInv
  <2> QED BY <2>1, <2>3
<1> QED BY Inductive, <1>1, PTL

\* What udpThread sends is consecutive words of the acquisition that goes on, as
\* many as it counts to a scan, whatever was left in the FIFO by the acquisition
\* before; and, if the core has the same length, one whole scan from its first word.
THEOREM OneWholeScan == Spec => []WholeDatagrams
<1>1. IInv => WholeDatagrams
  BY DEF IInv
<1> QED BY Inductive, <1>1, PTL
=============================================================================
