---------------------------- MODULE ScanTransfer ----------------------------
(***************************************************************************)
(* The data path of the SSP: udpThread transmits each scan in one UDP       *)
(* datagram or, when it is too long, in fragments (sendfrags in ssp_ad.c),  *)
(* and ssp_log puts the fragments together again; ssp_raw_log does the same  *)
(* and keeps what it received as well.  Both ends work in place:             *)
(* a fragment's header overlays the last word of the fragment before it, in *)
(* the sender's buffer as in the receiver's.  The network may lose,         *)
(* exchange and duplicate datagrams.                                        *)
(***************************************************************************)
EXTENDS Naturals, Sequences, FiniteSets

CONSTANTS
  SSP_MAX_SCAN_LENGTH,  \* most words in a scan
  SSP_MAX_FRAG_LENGTH,  \* words of data in a full fragment
  SNModulus,  \* serial numbers before they repeat (0x4000 in the code)
  Lengths,    \* the lengths of scan that may be configured
  Loggers,    \* a subset of {"ssp_log", "ssp_raw_log"}
  MaxScans,   \* bound on the scans sent
  NetFaults,  \* what the network may do: subset of {"lose", "swap", "dup"}
  MaxFaults   \* bound on how often it does it

ASSUME TransferAssumption ==
  /\ SSP_MAX_SCAN_LENGTH \in Nat \ {0} /\ SSP_MAX_FRAG_LENGTH \in Nat \ {0}
  /\ SNModulus \in Nat \ {0} /\ MaxScans \in Nat
  /\ Lengths \subseteq 1..SSP_MAX_SCAN_LENGTH /\ Loggers \subseteq {"ssp_log", "ssp_raw_log"}
  /\ NetFaults \subseteq {"lose", "swap", "dup"}

F == SSP_MAX_FRAG_LENGTH
SSP_MAX_FRAGS == (SSP_MAX_SCAN_LENGTH + F - 1) \div F
SSP_CLIENT_BUF_LENGTH == SSP_MAX_FRAGS * F + 1

\* A word is a fragment header or the i-th word of a scan (scan 0: never sent).
Word(k, i) == [scan |-> k, i |-> i]
Header(sn, offset, last) == [sn |-> sn, offset |-> offset, last |-> last]
IsHeader(w) == "sn" \in DOMAIN w   \* the test of SSP_FRAG_FLAG

VARIABLES
  L,              \* words in a scan: scan_xmit_length, ssp_log's raw_length
  scan,           \* udpThread's buffer, its words 0..L
  serial_number,  \* of the scan being sent
  word_offset,    \* of its next fragment, L when all of it has been sent
  sent,           \* number of scans begun
  net,            \* datagrams in flight, each a sequence of words
  logger,         \* which program receives
  scan_buf,       \* its buffer
  cur_word,       \* where it receives the next datagram
  scan_OK,
  scan_serial_number,
  frag_hold,      \* the word that the next header will overlay
  output,         \* history: the words of each scan given to output_scan
  faults          \* history: the network faults so far

sender == <<L, scan, serial_number, word_offset, sent>>
receiver == <<logger, scan_buf, cur_word, scan_OK, scan_serial_number, frag_hold, output>>
vars == <<sender, net, receiver, faults>>

-----------------------------------------------------------------------------
(* udpThread *)

\* A datagram holds MAX_UDP_PAYLOAD bytes, F + 1 words.
Fragmented == L > F + 1

\* Mutant: the buffer still holds the words it held before.
Filled_Stale(k) == scan

\* The last word of a scan has been read from the FIFO into scan[1..L].
Filled(k) == [i \in 0..L |-> IF i = 0 THEN scan[0] ELSE Word(k, i)]

\* sendto(&scan[1]) of a scan that fits in a datagram.
WholeScan(buf) == [i \in 1..L |-> buf[i]]

\* A scan is sent whole or sendfrags() is called.
StartScan ==
  /\ word_offset = L /\ sent < MaxScans
  /\ sent' = sent + 1
  /\ scan' = Filled(sent')
  /\ IF Fragmented
     THEN /\ serial_number' = (serial_number + 1) % SNModulus
          /\ word_offset' = 0 /\ UNCHANGED net
     ELSE /\ net' = Append(net, WholeScan(scan'))
          /\ UNCHANGED <<serial_number, word_offset>>
  /\ UNCHANGED <<L, receiver, faults>>

\* The word of bfr that a fragment's header replaces: the one before its data.
HeaderAt(offset) == offset

\* One turn of the loop in sendfrags().
SendFrag ==
  /\ word_offset < L
  /\ LET rest == L - word_offset
         frag_words == IF rest > F THEN F ELSE rest
         header == Header(serial_number, word_offset, rest = frag_words)
     IN  /\ scan' = [scan EXCEPT ![HeaderAt(word_offset)] = header]
         /\ net' = Append(net, <<header>> \o
                     [i \in 1..frag_words |-> scan'[word_offset + i]])
         /\ word_offset' = word_offset + frag_words
  /\ UNCHANGED <<L, serial_number, sent, receiver, faults>>

-----------------------------------------------------------------------------
(* The network *)

Fault(kind) ==
  /\ kind \in NetFaults /\ Len(faults) < MaxFaults
  /\ faults' = Append(faults, kind)
  /\ UNCHANGED <<sender, receiver>>

Lose == Fault("lose") /\ net # <<>> /\ net' = Tail(net)
Swap == Fault("swap") /\ Len(net) > 1 /\ net[1] # net[2]
        /\ net' = <<net[2], net[1]>> \o SubSeq(net, 3, Len(net))
Duplicate == Fault("dup") /\ net # <<>> /\ net' = <<net[1]>> \o net

-----------------------------------------------------------------------------
(* ssp_log *)

\* udp_receive(scan_buf + cur_word, ...).  Neither program's limit, the longest scan
\* at the front and a full fragment elsewhere, cuts an SSP's datagram short.
Received(d) ==
  [i \in DOMAIN scan_buf |->
    IF i \in cur_word..cur_word+Len(d)-1 THEN d[i - cur_word + 1] ELSE scan_buf[i]]

output_scan(first, buf) ==
  output' = Append(output, [i \in 1..L |-> buf[first + i - 1]])

Arrives(frag) ==
  /\ net # <<>> /\ net' = Tail(net)
  /\ IsHeader(Head(net)[1]) = frag
  /\ UNCHANGED <<sender, faults>>

\* A datagram that is not a fragment leaves cur_word alone.
NextWhole(d) == cur_word

\* A datagram without a fragment header is a whole scan if none is begun, and
\* otherwise an error; either way it has been written into the buffer.
ReceiveWhole ==
  /\ Arrives(FALSE)
  /\ scan_buf' = Received(Head(net))
  /\ IF cur_word = 0 /\ Len(Head(net)) = L
     THEN output_scan(0, scan_buf')
     ELSE UNCHANGED output
  /\ cur_word' = NextWhole(Head(net))
  /\ UNCHANGED <<logger, scan_OK, scan_serial_number, frag_hold>>

\* Mutant: offset 0 out of place is an error like any other.
Restarts_Never(h) == FALSE

\* A fragment with offset 0 out of place starts a new scan.
Restarts(h) == h.offset = 0 /\ cur_word # 0

\* Mutant: serial numbers are not compared.
FragOK_NoSerial(h) == Restarts(h) \/ (scan_OK /\ h.offset = cur_word)

\* Another fragment out of place spoils the scan, and so does the serial number
\* of another scan.
FragOK(h) ==
  \/ Restarts(h)
  \/ /\ scan_OK /\ h.offset = cur_word
     /\ cur_word = 0 \/ scan_serial_number = h.sn

\* The buffer once the fragment is in it: at the front if it starts a scan, and
\* behind the word that its header has overlaid.
Reassembled(h, d) ==
  LET buf == Received(d) IN
  IF Restarts(h)
  THEN [i \in DOMAIN buf |-> IF i < Len(d) THEN buf[cur_word + i] ELSE buf[i]]
  ELSE IF cur_word = 0 THEN buf ELSE [buf EXCEPT ![cur_word] = frag_hold]

\* Mutant: the last fragment does not reset the receiver.
Resets_Never(h, next) == FALSE

\* The last fragment ends a scan, as does one beyond what the buffer can hold.
\* ssp_raw_log goes on before it looks at that, unless the fragment is the last.
Resets(h, next) ==
  h.last \/ (logger = "ssp_log" /\ next + F > SSP_CLIENT_BUF_LENGTH)

ReceiveFrag ==
  /\ Arrives(TRUE)
  /\ LET d == Head(net)
         h == d[1]
         next == h.offset + Len(d) - 1
     IN  /\ scan_buf' = Reassembled(h, d)
         /\ scan_serial_number' = IF cur_word = 0 \/ Restarts(h) THEN h.sn
                                  ELSE scan_serial_number
         /\ IF h.last /\ FragOK(h) /\ next = L
            THEN output_scan(1, scan_buf')
            ELSE UNCHANGED output
         /\ frag_hold' = IF h.last THEN frag_hold ELSE scan_buf'[next]
         /\ cur_word' = IF Resets(h, next) THEN 0 ELSE next
         /\ scan_OK' = (Resets(h, next) \/ FragOK(h))
  /\ UNCHANGED logger

-----------------------------------------------------------------------------
Init ==
  /\ L \in Lengths
  /\ scan = [i \in 0..L |-> Word(0, i)]
  /\ serial_number = 0 /\ word_offset = L /\ sent = 0
  /\ net = <<>> /\ logger \in Loggers
  /\ scan_buf = [i \in 0..SSP_CLIENT_BUF_LENGTH-1 |-> Word(0, 0)]
  /\ cur_word = 0 /\ scan_OK = TRUE /\ scan_serial_number = 0
  /\ frag_hold = Word(0, 0)
  /\ output = <<>> /\ faults = <<>>

Next ==
  \/ StartScan \/ SendFrag
  \/ Lose \/ Swap \/ Duplicate
  \/ ReceiveWhole \/ ReceiveFrag

Spec == Init /\ [][Next]_vars

-----------------------------------------------------------------------------
(* Properties *)

IsWhole(s) == \E k \in 1..sent : s = [i \in 1..L |-> Word(k, i)]

\* The receiver never writes outside scan_buf, and the rest is well-formed.
TypeOK ==
  /\ sent \in 0..MaxScans /\ word_offset \in 0..L
  /\ serial_number \in 0..SNModulus-1
  /\ cur_word \in 0..SSP_CLIENT_BUF_LENGTH-1 /\ scan_OK \in BOOLEAN
  /\ net # <<>> => cur_word + Len(Head(net)) <= SSP_CLIENT_BUF_LENGTH

\* A scan that is logged has the words of one scan that was sent, each in its
\* place: no word of another scan, no header, no word from before.
WholeScans == \A n \in DOMAIN output : IsWhole(output[n])

ScanOf(s) == IF IsWhole(s) THEN s[1].scan ELSE 0
Logged == {ScanOf(output[n]) : n \in DOMAIN output} \ {0}

\* The receiver finds its way back: a datagram that is lost or arrives twice
\* costs one scan at the most, two that arrive in the wrong order two.
Damage == Len(faults) + Cardinality({n \in DOMAIN faults : faults[n] = "swap"})
DamageBounded ==
  net = <<>> /\ word_offset = L
    => sent - Cardinality(Logged) <= Damage

\* While the network only loses datagrams, the log holds whole scans in the
\* order they were sent, none of them twice.
Log == INSTANCE ScanLog WITH log <- [n \in DOMAIN output |-> ScanOf(output[n])]
LossOnly == \A n \in DOMAIN faults : faults[n] = "lose"
ImplementsLog == Log!Init /\ [][LossOnly => Log!Next]_(Log!vars)
=============================================================================
