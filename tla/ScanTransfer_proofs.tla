------------------------- MODULE ScanTransfer_proofs -------------------------
(***************************************************************************)
(* Theorems about ScanTransfer: the receiver stays inside its buffer, what  *)
(* it logs is whole however often the network loses, exchanges and          *)
(* duplicates datagrams, each of these costs a bounded number of scans, and *)
(* while it only loses datagrams the log is in order; for any lengths of    *)
(* scans and fragments.                                                     *)
(***************************************************************************)
EXTENDS ScanTransfer, Integers, SequencesExt, SequenceTheorems, FiniteSetTheorems, TLAPS

\* Where fragments begin: sendfrags() sends F words at a time.
Offsets == {o \in 0..L-1 : \E m \in Nat : o = m * F}
Size(o) == IF L - o > F THEN F ELSE L - o

Frag(k, o) ==
  <<Header(k, o, L - o = Size(o))>> \o [i \in 1..Size(o) |-> Word(k, o + i)]
Whole(k) == [i \in 1..L |-> Word(k, i)]

\* What may be in the network.
Datagrams ==
  IF Fragmented THEN {Frag(k, o) : k \in 1..sent, o \in Offsets}
  ELSE {Whole(k) : k \in 1..sent}

-----------------------------------------------------------------------------
(* Sizes and datagrams *)

\* The buffer has room for whole fragments, and the longest scan fits in them.
LEMMA Sizes ==
  /\ F \in Nat /\ F >= 1 /\ SNModulus \in Nat /\ SNModulus >= 1 /\ MaxScans \in Nat
  /\ \E N \in Nat : SSP_CLIENT_BUF_LENGTH = N * F + 1 /\ SSP_MAX_SCAN_LENGTH <= N * F
<1>1. F \in Nat /\ F >= 1 /\ SSP_MAX_SCAN_LENGTH \in Nat /\ SSP_MAX_SCAN_LENGTH >= 1
      /\ SNModulus \in Nat /\ SNModulus >= 1 /\ MaxScans \in Nat
  BY TransferAssumption DEF F
<1> DEFINE M == SSP_MAX_SCAN_LENGTH + F - 1
           N == M \div F
<1>2. M \in Nat
  BY <1>1
<1>3. N \in Nat /\ M < F * N + F
  <2> HIDE DEF M
  <2> QED
    BY <1>1, <1>2
<1>4. F * N \in Nat /\ F * N = N * F
  <2> HIDE DEF N
  <2> QED
    BY <1>1, <1>3
<1>5. SSP_MAX_SCAN_LENGTH <= N * F
  <2> DEFINE p == F * N
  <2>1. SSP_MAX_SCAN_LENGTH + F - 1 < p + F /\ p \in Nat
    BY <1>3, <1>4
  <2> HIDE DEF p
  <2>2. SSP_MAX_SCAN_LENGTH <= p
    BY <1>1, <2>1
  <2> QED
    BY <1>4, <2>2 DEF p
<1> QED
  BY <1>1, <1>3, <1>5 DEF SSP_CLIENT_BUF_LENGTH, SSP_MAX_FRAGS

\* The size of a fragment: F words, except for the last.
LEMMA SizeOf ==
  ASSUME L \in Nat, NEW o \in Offsets
  PROVE  /\ o \in Nat /\ o < L /\ Size(o) \in Nat /\ Size(o) >= 1 /\ Size(o) <= F
         /\ o + Size(o) <= L
         /\ L - o # Size(o) => Size(o) = F /\ o + F < L
BY Sizes DEF Offsets, Size

\* The first fragment begins with the scan.
LEMMA ZeroOffset == ASSUME L \in Nat, L >= 1 PROVE 0 \in Offsets
<1>1. 0 = 0 * F /\ 0 \in 0..L-1
  BY Sizes
<1> QED
  BY <1>1 DEF Offsets

\* A header followed by the words at its offset.
LEMMA FragParts ==
  ASSUME L \in Nat, NEW k \in Nat, NEW o \in Offsets
  PROVE  /\ Len(Frag(k, o)) = Size(o) + 1
         /\ Frag(k, o)[1] = Header(k, o, L - o = Size(o))
         /\ \A i \in 1..Size(o) : Frag(k, o)[i + 1] = Word(k, o + i)
<1> DEFINE h == Header(k, o, L - o = Size(o))
           w == [i \in 1..Size(o) |-> Word(k, o + i)]
           S == {h} \cup {Word(k, o + i) : i \in 1..Size(o)}
<1>1. Size(o) \in Nat
  BY SizeOf
<1>2. w \in Seq(S) /\ Len(w) = Size(o)
  <2>1. \A i \in 1..Size(o) : w[i] \in S
    OBVIOUS
  <2> QED
    BY <1>1, <2>1, SeqDef
<1>3. <<h>> \in Seq(S) /\ Len(<<h>>) = 1 /\ <<h>>[1] = h
  OBVIOUS
<1>4. \A i \in 1..Size(o) : w[i] = Word(k, o + i)
  OBVIOUS
<1>5. Frag(k, o) = <<h>> \o w
  BY DEF Frag
<1> HIDE DEF h, w, S
<1>6. /\ Len(<<h>> \o w) = Size(o) + 1 /\ (<<h>> \o w)[1] = h
      /\ \A i \in 1..Size(o) : (<<h>> \o w)[i + 1] = w[i]
  BY <1>1, <1>2, <1>3, ConcatProperties
<1> QED
  BY <1>4, <1>5, <1>6 DEF h

\* The next fragment begins where this one ends.
LEMMA NextOffset ==
  ASSUME L \in Nat, NEW o \in Offsets, L - o # Size(o)
  PROVE  o + Size(o) \in Offsets
<1>1. PICK m \in Nat : o = m * F
  BY DEF Offsets
<1>2. Size(o) = F /\ o + F < L
  BY SizeOf
<1>3. (m + 1) * F = m * F + F /\ m + 1 \in Nat
  BY <1>1, Sizes
<1>4. o + F = (m + 1) * F
  BY <1>1, <1>3
<1>5. o + F \in 0..L-1
  BY <1>2, SizeOf, Sizes
<1> QED
  BY <1>2, <1>3, <1>4, <1>5 DEF Offsets

\* A full fragment fits where any fragment begins.
LEMMA Fits ==
  ASSUME L \in Lengths, NEW o \in Offsets
  PROVE  o + F + 1 <= SSP_CLIENT_BUF_LENGTH
<1>1. PICK m \in Nat : o = m * F
  BY DEF Offsets
<1>2. PICK N \in Nat : SSP_CLIENT_BUF_LENGTH = N * F + 1 /\ SSP_MAX_SCAN_LENGTH <= N * F
  BY Sizes
<1>3. L \in Nat /\ L <= SSP_MAX_SCAN_LENGTH /\ SSP_MAX_SCAN_LENGTH \in Nat
  BY TransferAssumption
<1>4. m * F < N * F
  <2>1. m * F \in Nat /\ N * F \in Nat
    BY Sizes
  <2> QED
    BY <1>1, <1>2, <1>3, <2>1 DEF Offsets
<1>5. m + 1 <= N
  BY <1>4, Sizes, SMTT(30)
<1>6. (m + 1) * F <= N * F
  BY <1>5, Sizes, SMTT(30)
<1> QED
  BY <1>1, <1>2, <1>6, Sizes

-----------------------------------------------------------------------------
(* The sender and the network *)

\* udpThread's buffer holds the words of the scan that it has still to send, and
\* the network only what it has sent.
SentInv ==
  /\ L \in Lengths
  /\ sent \in 0..MaxScans /\ serial_number \in 0..SNModulus-1
  /\ word_offset = L \/ (Fragmented /\ word_offset \in Offsets)
  /\ Fragmented => serial_number = sent
  /\ DOMAIN scan = 0..L
  /\ \A j \in 1..L : j > word_offset => scan[j] = Word(sent, j)
  /\ word_offset # L => sent >= 1
  /\ net \in Seq(Datagrams)

\* A length is a natural number that is not 0.
LEMMA LengthType == L \in Lengths => L \in Nat /\ L >= 1 /\ L <= SSP_MAX_SCAN_LENGTH
BY TransferAssumption

\* Before the first scan nothing has been sent.
LEMMA SentInit == Init => SentInv
BY LengthType, Sizes, EmptySeq DEF Init, SentInv

\* More scans sent, more datagrams there may be.
LEMMA MoreDatagrams ==
  ASSUME SentInv, L' = L, sent' \in Nat, sent <= sent', NEW q \in Seq(Datagrams)
  PROVE  q \in Seq(Datagrams')
<1>1. sent \in Nat /\ 1..sent \subseteq 1..sent'
  BY Sizes DEF SentInv
<1>2. Datagrams \subseteq Datagrams'
  <2>1. /\ Offsets' = Offsets /\ Fragmented' = Fragmented
        /\ \A k, o : Frag(k, o)' = Frag(k, o) /\ Whole(k)' = Whole(k)
    BY DEF Fragmented, Frag, Size, Offsets, Whole
  <2> QED
    BY <1>1, <2>1 DEF Datagrams
<1> QED
  BY <1>2, SeqMonotonic

\* A scan that fits in a datagram is sent as it is.
LEMMA SendsWhole ==
  ASSUME SentInv, StartScan
  PROVE  /\ L \in Nat /\ L >= 1 /\ L' = L /\ sent \in Nat /\ sent' = sent + 1
         /\ sent' \in 1..MaxScans /\ DOMAIN scan' = 0..L
         /\ \A j \in 1..L : scan'[j] = Word(sent', j)
         /\ ~Fragmented => net' = Append(net, Whole(sent'))
<1>1. /\ L \in Nat /\ L >= 1 /\ L' = L /\ sent \in Nat /\ sent' = sent + 1
      /\ sent' \in 1..MaxScans
  BY LengthType, Sizes DEF StartScan, SentInv
<1>2. /\ DOMAIN scan' = 0..L
      /\ \A j \in 1..L : scan'[j] = Word(sent', j)
  BY <1>1 DEF StartScan, Filled, SentInv
<1>3. WholeScan(scan') = Whole(sent')
  BY <1>1, <1>2 DEF WholeScan, Whole
<1> QED
  BY <1>1, <1>2, <1>3 DEF StartScan

\* A fragment is sent with the words of the scan that has begun.
LEMMA SendsFrag ==
  ASSUME SentInv, SendFrag
  PROVE  /\ L \in Nat /\ L >= 1 /\ L' = L /\ sent \in Nat /\ sent' = sent
         /\ sent \in 1..sent /\ word_offset \in Offsets /\ Fragmented
         /\ serial_number = sent /\ serial_number' = serial_number /\ DOMAIN scan' = 0..L
         /\ \A j \in 1..L : j > word_offset => scan'[j] = Word(sent, j)
         /\ net' = Append(net, Frag(sent, word_offset))
         /\ word_offset' = word_offset + Size(word_offset)
<1> USE DEF SentInv
<1> DEFINE o == word_offset
           h == Header(sent, o, L - o = Size(o))
<1>1. /\ L \in Nat /\ L >= 1 /\ L' = L /\ sent \in Nat /\ sent' = sent /\ o \in Offsets
      /\ Fragmented /\ serial_number = sent /\ serial_number' = serial_number
      /\ sent \in 1..sent
  BY LengthType, Sizes DEF SendFrag
<1>2. /\ o \in Nat /\ o < L /\ Size(o) \in Nat /\ Size(o) >= 1 /\ o + Size(o) <= L
  BY <1>1, SizeOf
<1>3. /\ scan' = [scan EXCEPT ![o] = h]
      /\ net' = Append(net, <<h>> \o [i \in 1..Size(o) |-> scan'[o + i]])
      /\ word_offset' = o + Size(o)
  BY <1>1 DEF SendFrag, HeaderAt, Size
<1> HIDE DEF h
<1>4. /\ DOMAIN scan' = 0..L
      /\ \A j \in 1..L : j > o => scan'[j] = Word(sent, j)
  BY <1>1, <1>2, <1>3
<1>5. [i \in 1..Size(o) |-> scan'[o + i]] = [i \in 1..Size(o) |-> Word(sent, o + i)]
  BY <1>1, <1>2, <1>4
<1>6. <<h>> \o [i \in 1..Size(o) |-> scan'[o + i]] = Frag(sent, o)
  BY <1>5 DEF Frag, h
<1> QED
  BY <1>1, <1>3, <1>4, <1>6

\* Beginning a scan: its words are in the buffer, or in the network already.
LEMMA SentStart == ASSUME MaxScans < SNModulus, SentInv, StartScan PROVE SentInv'
<1> USE DEF SentInv
<1>1. /\ L \in Nat /\ L >= 1 /\ L' = L /\ sent \in Nat /\ sent' = sent + 1
      /\ sent' \in 1..MaxScans
  BY SendsWhole
<1>2. /\ DOMAIN scan' = 0..L
      /\ \A j \in 1..L : scan'[j] = Word(sent', j)
  BY SendsWhole
<1>3. net \in Seq(Datagrams')
  BY <1>1, MoreDatagrams
<1>4. CASE Fragmented
  <2>1. word_offset' = 0 /\ net' = net /\ serial_number' = (serial_number + 1) % SNModulus
    BY <1>4 DEF StartScan
  <2>2. 0 \in Offsets'
    <3>1. 0 = 0 * F /\ 0 \in 0..L-1
      BY <1>1, Sizes
    <3> QED
      BY <1>1, <3>1 DEF Offsets
  <2>3. serial_number' = sent'
    <3>1. sent + 1 \in 0..SNModulus-1
      BY <1>1, Sizes
    <3>2. (sent + 1) % SNModulus = sent + 1
      BY <1>1, <3>1, Sizes
    <3> QED
      BY <1>1, <1>4, <2>1, <3>2
  <2>4. sent' \in 0..SNModulus-1
    BY <1>1, Sizes
  <2> QED
    BY <1>1, <1>2, <1>3, <1>4, <2>1, <2>2, <2>3, <2>4 DEF Fragmented
<1>5. CASE ~Fragmented
  <2>1. word_offset' = word_offset /\ serial_number' = serial_number
    BY <1>5 DEF StartScan
  <2>2. net' = Append(net, Whole(sent'))
    BY <1>5, SendsWhole
  <2>3. Whole(sent') \in Datagrams'
    BY <1>1, <1>5 DEF Datagrams, Fragmented, Whole
  <2>4. net' \in Seq(Datagrams')
    BY <1>3, <2>2, <2>3, AppendProperties
  <2> QED
    BY <1>1, <1>2, <1>5, <2>1, <2>4 DEF Fragmented, StartScan
<1> QED
  BY <1>4, <1>5

\* Sending a fragment: what its header overlays has been sent before.
LEMMA SentFragment == ASSUME SentInv, SendFrag PROVE SentInv'
<1> USE DEF SentInv
<1> DEFINE o == word_offset
<1>1. /\ L \in Nat /\ L >= 1 /\ L' = L /\ sent \in Nat /\ sent' = sent /\ o \in Offsets
      /\ Fragmented /\ serial_number = sent /\ serial_number' = serial_number
      /\ sent \in 1..sent
  BY SendsFrag
<1>2. /\ o \in Nat /\ o < L /\ Size(o) \in Nat /\ Size(o) >= 1 /\ o + Size(o) <= L
  BY <1>1, SizeOf
<1>3. word_offset' = o + Size(o) /\ net' = Append(net, Frag(sent, o))
  BY SendsFrag
<1>4. /\ DOMAIN scan' = 0..L
      /\ \A j \in 1..L : j > o => scan'[j] = Word(sent, j)
  BY SendsFrag
<1>7. Frag(sent, o) \in Datagrams
  BY <1>1 DEF Datagrams
<1>8. net' \in Seq(Datagrams)
  BY <1>3, <1>7, AppendProperties
<1>9. word_offset' = L \/ word_offset' \in Offsets
  BY <1>1, <1>2, <1>3, NextOffset
<1>10. Offsets' = Offsets /\ Datagrams' = Datagrams
  BY <1>1 DEF Offsets, Datagrams, Fragmented, Frag, Size, Whole
<1>11. \A j \in 1..L : j > word_offset' => scan'[j] = Word(sent, j)
  BY <1>2, <1>3, <1>4
<1> QED
  BY <1>1, <1>4, <1>8, <1>9, <1>10, <1>11 DEF Fragmented

\* Whatever the network does, it only takes datagrams or repeats them.
LEMMA SentNet ==
  ASSUME SentInv, net' \in Seq(Datagrams), UNCHANGED sender
  PROVE  SentInv'
<1>1. Datagrams' = Datagrams /\ Offsets' = Offsets
  BY DEF sender, Datagrams, Fragmented, Frag, Size, Offsets, Whole
<1> QED
  BY <1>1 DEF SentInv, sender, Fragmented

\* The network and the receiver leave the sender alone.
LEMMA NetSteps ==
  ASSUME SentInv, Lose \/ Swap \/ Duplicate \/ ReceiveWhole \/ ReceiveFrag \/ UNCHANGED vars
  PROVE  net' \in Seq(Datagrams) /\ UNCHANGED sender
<1> USE DEF SentInv
<1>1. CASE Lose \/ ReceiveWhole \/ ReceiveFrag
  BY <1>1, HeadTailProperties DEF Lose, Fault, ReceiveWhole, ReceiveFrag, Arrives
<1>2. CASE Swap
  <2>1. /\ net[1] \in Datagrams /\ net[2] \in Datagrams /\ Len(net) \in Nat /\ Len(net) >= 2
    BY <1>2, ElementOfSeq, LenProperties DEF Swap
  <2>2. SubSeq(net, 3, Len(net)) \in Seq(Datagrams)
    BY <2>1, ElementOfSeq, SubSeqProperties
  <2>3. <<net[2], net[1]>> \in Seq(Datagrams)
    BY <2>1
  <2> QED
    BY <1>2, <2>2, <2>3, ConcatProperties DEF Swap, Fault
<1>3. CASE Duplicate
  <2>1. <<net[1]>> \in Seq(Datagrams)
    BY <1>3, EmptySeq, ElementOfSeq, LenProperties DEF Duplicate
  <2> QED
    BY <1>3, <2>1, ConcatProperties DEF Duplicate, Fault
<1>4. CASE UNCHANGED vars
  BY <1>4 DEF vars
<1> QED
  BY <1>1, <1>2, <1>3, <1>4

\* The sender's part of the invariant holds from step to step.
LEMMA SentStep == ASSUME MaxScans < SNModulus, SentInv, [Next]_vars PROVE SentInv'
BY SentStart, SentFragment, SentNet, NetSteps DEF Next

-----------------------------------------------------------------------------
(* The receiver *)

\* The scan whose fragments the receiver has, so long as none was out of place:
\* the word that the last header overlaid waits in frag_hold.
Begun ==
  /\ scan_serial_number \in 1..sent
  /\ \A j \in 1..cur_word-1 : scan_buf[j] = Word(scan_serial_number, j)
  /\ frag_hold = Word(scan_serial_number, cur_word)

RecvInv ==
  /\ DOMAIN scan_buf = 0..SSP_CLIENT_BUF_LENGTH-1
  /\ cur_word \in Offsets /\ (~Fragmented => cur_word = 0)
  /\ scan_OK \in BOOLEAN
  /\ cur_word # 0 /\ scan_OK => Begun
  /\ output \in Seq({Whole(k) : k \in 1..sent})

\* At the start nothing has been received.
LEMMA RecvInit == Init => RecvInv
<1> SUFFICES ASSUME Init PROVE RecvInv
  OBVIOUS
<1>1. L \in Nat /\ L >= 1 /\ cur_word = 0 /\ output = <<>>
  BY LengthType DEF Init
<1>2. 0 = 0 * F /\ 0 \in 0..L-1
  BY <1>1, Sizes
<1>3. 0 \in Offsets
  BY <1>2 DEF Offsets
<1> QED
  BY <1>1, <1>3, EmptySeq DEF Init, RecvInv

\* The steps of the sender and of the network leave the receiver alone.
LEMMA RecvOther ==
  ASSUME SentInv, SentInv', RecvInv,
         StartScan \/ SendFrag \/ Lose \/ Swap \/ Duplicate \/ UNCHANGED vars
  PROVE  RecvInv'
<1>1. /\ UNCHANGED receiver /\ L' = L /\ sent' >= sent /\ sent \in Nat /\ sent' \in Nat
  BY Sizes DEF SentInv, StartScan, SendFrag, Lose, Swap, Duplicate, Fault, vars, sender
<1>2. Offsets' = Offsets /\ Fragmented' = Fragmented /\ \A k : Whole(k)' = Whole(k)
  BY <1>1 DEF Offsets, Fragmented, Whole
<1>3. {Whole(k) : k \in 1..sent} \subseteq {Whole(k) : k \in 1..sent'}
  BY <1>1
<1>4. output \in Seq({Whole(k) : k \in 1..sent'})
  BY <1>3, SeqMonotonic DEF RecvInv
<1>5. Begun => Begun'
  BY <1>1 DEF Begun, receiver
<1> QED
  BY <1>1, <1>2, <1>4, <1>5 DEF RecvInv, receiver

\* What lies where after udp_receive(), when the datagram fits.
LEMMA ReceivedParts ==
  ASSUME NEW B \in Nat, DOMAIN scan_buf = 0..B-1, NEW d, Len(d) \in Nat, cur_word \in Nat,
         cur_word + Len(d) <= B
  PROVE  /\ DOMAIN Received(d) = 0..B-1
         /\ \A i \in 1..Len(d) : Received(d)[cur_word + i - 1] = d[i]
         /\ \A i \in 0..B-1 : i < cur_word => Received(d)[i] = scan_buf[i]
BY DEF Received

\* The datagram at hand: it fits, whichever it is.
LEMMA AtHand ==
  ASSUME SentInv, RecvInv, net # <<>>
  PROVE  /\ Fragmented => \E k \in 1..sent, o \in Offsets : Head(net) = Frag(k, o)
         /\ ~Fragmented => \E k \in 1..sent : Head(net) = Whole(k) /\ Len(Head(net)) = L
         /\ Len(Head(net)) \in Nat /\ SSP_CLIENT_BUF_LENGTH \in Nat
         /\ cur_word + Len(Head(net)) <= SSP_CLIENT_BUF_LENGTH
<1>1. Head(net) \in Datagrams
  BY HeadTailProperties DEF SentInv
<1>2. L \in Nat /\ L >= 1 /\ L <= SSP_MAX_SCAN_LENGTH /\ SSP_MAX_SCAN_LENGTH \in Nat
      /\ sent \in Nat
  BY LengthType, TransferAssumption DEF SentInv
<1>3. PICK N \in Nat : SSP_CLIENT_BUF_LENGTH = N * F + 1 /\ SSP_MAX_SCAN_LENGTH <= N * F
  BY Sizes
<1>4. N * F \in Nat /\ SSP_CLIENT_BUF_LENGTH \in Nat
  BY <1>3, Sizes
<1>5. L < SSP_CLIENT_BUF_LENGTH
  <2> DEFINE p == N * F
  <2> HIDE DEF p
  <2>1. p \in Nat /\ SSP_CLIENT_BUF_LENGTH = p + 1 /\ SSP_MAX_SCAN_LENGTH <= p
    BY <1>3, <1>4 DEF p
  <2> QED
    BY <1>2, <2>1
<1>6. CASE Fragmented
  <2>1. PICK k \in 1..sent, o \in Offsets : Head(net) = Frag(k, o)
    BY <1>1, <1>6 DEF Datagrams
  <2>2. Len(Head(net)) = Size(o) + 1 /\ Size(o) \in Nat /\ Size(o) <= F
    BY <1>2, <2>1, FragParts, SizeOf
  <2>3. cur_word + F + 1 <= SSP_CLIENT_BUF_LENGTH /\ cur_word \in Nat
    BY <1>2, Fits, SizeOf DEF RecvInv, SentInv
  <2> QED
    BY <1>4, <1>6, <2>1, <2>2, <2>3, Sizes
<1>7. CASE ~Fragmented
  <2>1. PICK k \in 1..sent : Head(net) = Whole(k)
    BY <1>1, <1>7 DEF Datagrams
  <2>2. Len(Whole(k)) = L
    BY <1>2 DEF Whole
  <2>3. cur_word = 0
    BY <1>7 DEF RecvInv
  <2> QED
    BY <1>2, <1>4, <1>5, <1>7, <2>1, <2>2, <2>3
<1> QED
  BY <1>6, <1>7

\* A datagram without a header is a whole scan, and is logged as it is.
LEMMA LogsWhole ==
  ASSUME SentInv, RecvInv, ReceiveWhole
  PROVE  /\ net # <<>> /\ UNCHANGED <<L, sent, scan_OK>>
         /\ cur_word = 0 /\ cur_word' = cur_word
         /\ DOMAIN scan_buf' = 0..SSP_CLIENT_BUF_LENGTH-1
         /\ \E k \in 1..sent : Head(net) = Whole(k) /\ output' = Append(output, Whole(k))
<1>1. /\ net # <<>> /\ ~IsHeader(Head(net)[1])
      /\ UNCHANGED <<L, sent, logger, scan_OK, scan_serial_number, frag_hold>>
      /\ cur_word' = cur_word /\ scan_buf' = Received(Head(net))
  BY DEF ReceiveWhole, Arrives, NextWhole, sender
<1>2. L \in Nat /\ L >= 1 /\ sent \in Nat
  BY LengthType, Sizes DEF SentInv
<1>3. ~Fragmented
  <2>1. SUFFICES ASSUME Fragmented PROVE FALSE
    OBVIOUS
  <2>2. PICK k \in 1..sent, o \in Offsets : Head(net) = Frag(k, o)
    BY <1>1, <2>1, AtHand
  <2>3. Head(net)[1] = Header(k, o, L - o = Size(o))
    <3>1. k \in Nat
      BY <1>2
    <3> QED
      BY <1>2, <2>2, <3>1, FragParts
  <2> QED
    BY <1>1, <2>3 DEF IsHeader, Header
<1>4. PICK k \in 1..sent : Head(net) = Whole(k) /\ Len(Head(net)) = L
  BY <1>1, <1>3, AtHand
<1>5. cur_word = 0
  BY <1>3 DEF RecvInv
<1>6. /\ DOMAIN scan_buf' = 0..SSP_CLIENT_BUF_LENGTH-1
      /\ \A i \in 1..L : scan_buf'[i - 1] = Word(k, i)
  <2>1. SSP_CLIENT_BUF_LENGTH \in Nat /\ L <= SSP_CLIENT_BUF_LENGTH
    BY <1>1, <1>2, <1>4, <1>5, AtHand
  <2>2. /\ DOMAIN Received(Head(net)) = 0..SSP_CLIENT_BUF_LENGTH-1
        /\ \A i \in 1..L : Received(Head(net))[i - 1] = Head(net)[i]
    <3>1. /\ DOMAIN Received(Head(net)) = 0..SSP_CLIENT_BUF_LENGTH-1
          /\ \A i \in 1..Len(Head(net)) : Received(Head(net))[cur_word + i - 1] = Head(net)[i]
      <4>1. /\ DOMAIN scan_buf = 0..SSP_CLIENT_BUF_LENGTH-1 /\ cur_word \in Nat
            /\ Len(Head(net)) \in Nat /\ cur_word + Len(Head(net)) <= SSP_CLIENT_BUF_LENGTH
        BY <1>2, <1>4, <1>5, <2>1 DEF RecvInv
      <4> QED
        BY <2>1, <4>1, ReceivedParts
    <3>2. \A i \in 1..L : cur_word + i - 1 = i - 1
      BY <1>2, <1>5
    <3> QED
      BY <1>4, <3>1, <3>2
  <2> QED
    BY <1>1, <1>4, <2>2 DEF Whole
<1>7. output' = Append(output, Whole(k))
  <2>1. [i \in 1..L |-> scan_buf'[0 + i - 1]] = Whole(k)
    BY <1>2, <1>6 DEF Whole
  <2> QED
    BY <1>4, <1>5, <2>1 DEF ReceiveWhole, output_scan
<1> QED
  BY <1>1, <1>4, <1>5, <1>6, <1>7

\* Logging a whole scan as it is keeps the receiver's part of the invariant.
LEMMA RecvWhole == ASSUME SentInv, RecvInv, ReceiveWhole PROVE RecvInv'
<1>1. /\ UNCHANGED <<L, sent, scan_OK>> /\ cur_word = 0 /\ cur_word' = cur_word
      /\ DOMAIN scan_buf' = 0..SSP_CLIENT_BUF_LENGTH-1
  BY LogsWhole
<1>2. PICK k \in 1..sent : output' = Append(output, Whole(k))
  BY LogsWhole
<1>8. output' \in Seq({Whole(n) : n \in 1..sent})
  BY <1>2, AppendProperties DEF RecvInv
<1>9. Offsets' = Offsets /\ Fragmented' = Fragmented /\ \A n : Whole(n)' = Whole(n)
  BY <1>1 DEF Offsets, Fragmented, Whole
<1> QED
  BY <1>1, <1>8, <1>9 DEF RecvInv

\* What the buffer holds once the fragment at hand is in it: if it was in place,
\* the scan up to its end.
LEMMA Contents ==
  ASSUME SentInv, RecvInv, Fragmented, net # <<>>, NEW k \in 1..sent, NEW o \in Offsets,
         Head(net) = Frag(k, o)
  PROVE  LET h == Header(k, o, L - o = Size(o))
             buf == Reassembled(h, Head(net))
         IN  /\ DOMAIN buf = 0..SSP_CLIENT_BUF_LENGTH-1
             /\ FragOK(h) => /\ \A j \in 1..o+Size(o) : buf[j] = Word(k, j)
                             /\ cur_word = 0 \/ Restarts(h) \/ scan_serial_number = k
<1> DEFINE h == Header(k, o, L - o = Size(o))
           d == Head(net)
           B == SSP_CLIENT_BUF_LENGTH
           n == Size(o)
<1>1. /\ L \in Nat /\ k \in Nat /\ o \in Nat /\ n \in Nat /\ n >= 1 /\ o + n <= L
      /\ cur_word \in Nat
  BY LengthType, Sizes, SizeOf DEF SentInv, RecvInv
<1>2. Len(d) = n + 1 /\ \A i \in 1..n : d[i + 1] = Word(k, o + i)
  BY <1>1, FragParts
<1>3. B \in Nat /\ cur_word + n + 1 <= B
  BY <1>1, <1>2, AtHand
<1>4. h.offset = o /\ h.sn = k
  BY DEF Header
<1>5. DOMAIN scan_buf = 0..B-1
  BY DEF RecvInv
<1> DEFINE r == Received(d)
<1> HIDE DEF d, h, B, n
<1>6. /\ DOMAIN r = 0..B-1
      /\ \A i \in 1..n+1 : r[cur_word + i - 1] = d[i]
      /\ \A i \in 0..B-1 : i < cur_word => r[i] = scan_buf[i]
  <2>1. Len(d) \in Nat /\ cur_word + Len(d) <= B
    BY <1>1, <1>2, <1>3
  <2>2. /\ DOMAIN r = 0..B-1
        /\ \A i \in 1..Len(d) : r[cur_word + i - 1] = d[i]
        /\ \A i \in 0..B-1 : i < cur_word => r[i] = scan_buf[i]
    BY <1>1, <1>3, <1>5, <2>1, ReceivedParts
  <2> QED
    BY <1>2, <2>2
<1> HIDE DEF r
<1>7. \A i \in 1..n : r[cur_word + i] = Word(k, o + i)
  <2> TAKE i \in 1..n
  <2>1. i + 1 \in 1..n+1 /\ cur_word + (i + 1) - 1 = cur_word + i
    BY <1>1
  <2> QED
    BY <1>2, <1>6, <2>1
<1>8. CASE Restarts(h)
  <2>1. /\ Reassembled(h, d) = [i \in DOMAIN r |-> IF i < Len(d) THEN r[cur_word + i] ELSE r[i]]
        /\ o = 0
    BY <1>4, <1>8 DEF Reassembled, Restarts, r
  <2>2. \A j \in 1..n : Reassembled(h, d)[j] = Word(k, j)
    BY <1>1, <1>2, <1>3, <1>6, <1>7, <2>1
  <2>3. DOMAIN Reassembled(h, d) = 0..B-1
    BY <1>6, <2>1
  <2> QED
    BY <1>1, <1>8, <2>1, <2>2, <2>3 DEF d, h, B, n
<1>9. CASE ~Restarts(h) /\ cur_word = 0
  <2>1. Reassembled(h, d) = r
    BY <1>9 DEF Reassembled, r
  <2>2. FragOK(h) => o = 0
    BY <1>4, <1>9 DEF FragOK
  <2>3. FragOK(h) => \A j \in 1..o+n : Reassembled(h, d)[j] = Word(k, j)
    BY <1>1, <1>7, <1>9, <2>1, <2>2
  <2> QED
    BY <1>6, <1>9, <2>1, <2>3 DEF d, h, B, n
<1>10. CASE ~Restarts(h) /\ cur_word # 0
  <2>1. Reassembled(h, d) = [r EXCEPT ![cur_word] = frag_hold]
    BY <1>10 DEF Reassembled, r
  <2>2. DOMAIN Reassembled(h, d) = 0..B-1
    BY <1>6, <2>1
  <2>3. ASSUME FragOK(h) PROVE /\ scan_serial_number = k
                               /\ \A j \in 1..o+n : Reassembled(h, d)[j] = Word(k, j)
    <3>1. o = cur_word /\ scan_serial_number = k /\ Begun
      BY <1>4, <1>10, <2>3 DEF FragOK, RecvInv
    <3>2. \A j \in 1..o-1 : Reassembled(h, d)[j] = Word(k, j)
      BY <1>1, <1>3, <1>6, <2>1, <3>1 DEF Begun
    <3>3. Reassembled(h, d)[o] = Word(k, o)
      BY <1>1, <1>3, <1>6, <2>1, <3>1 DEF Begun
    <3>4. \A j \in o+1..o+n : Reassembled(h, d)[j] = Word(k, j)
      <4> TAKE j \in o+1..o+n
      <4>1. j - o \in 1..n /\ cur_word + (j - o) = j /\ o + (j - o) = j
        BY <1>1, <3>1
      <4>2. r[j] = Word(k, j)
        BY <1>7, <4>1
      <4> QED
        BY <1>1, <1>3, <1>6, <2>1, <3>1, <4>2
    <3> QED
      BY <1>1, <3>1, <3>2, <3>3, <3>4
  <2> QED
    BY <2>2, <2>3 DEF d, h, B, n
<1> QED
  BY <1>8, <1>9, <1>10

\* What the receiver does with a fragment, as its header tells.
Taken(k, o) ==
  LET h == Header(k, o, L - o = Size(o))
      n == Size(o)
      buf == Reassembled(h, Head(net))
  IN  /\ DOMAIN buf = 0..SSP_CLIENT_BUF_LENGTH-1
      /\ FragOK(h) => /\ \A j \in 1..o+n : buf[j] = Word(k, j)
                      /\ cur_word = 0 \/ Restarts(h) \/ scan_serial_number = k
      /\ scan_buf' = buf
      /\ scan_serial_number' = IF cur_word = 0 \/ Restarts(h) THEN k ELSE scan_serial_number
      /\ \/ h.last /\ output' = Append(output, Whole(k))
         \/ output' = output
      /\ h.last /\ FragOK(h) => output' = Append(output, Whole(k))
      /\ frag_hold' = IF h.last THEN frag_hold ELSE buf[o + n]
      /\ cur_word' = IF Resets(h, o + n) THEN 0 ELSE o + n
      /\ scan_OK' = (Resets(h, o + n) \/ FragOK(h))

\* A fragment goes on with the scan, ends it, or spoils it.
LEMMA TakesFrag ==
  ASSUME SentInv, RecvInv, ReceiveFrag
  PROVE  /\ net # <<>> /\ UNCHANGED <<L, sent, logger>> /\ Fragmented
         /\ \E k \in 1..sent, o \in Offsets : Head(net) = Frag(k, o) /\ Taken(k, o)
<1>1. /\ net # <<>> /\ IsHeader(Head(net)[1]) /\ UNCHANGED <<L, sent, logger>>
  BY DEF ReceiveFrag, Arrives, sender
<1>2. L \in Nat /\ L >= 1 /\ sent \in Nat
  BY LengthType, Sizes DEF SentInv
<1>3. Fragmented
  <2>1. SUFFICES ASSUME ~Fragmented PROVE FALSE
    OBVIOUS
  <2>2. PICK k \in 1..sent : Head(net) = Whole(k)
    BY <1>1, <2>1, AtHand
  <2>3. Head(net)[1] = Word(k, 1)
    BY <1>2, <2>2 DEF Whole
  <2> QED
    BY <1>1, <2>3 DEF IsHeader, Word
<1>4. PICK k \in 1..sent, o \in Offsets : Head(net) = Frag(k, o)
  BY <1>1, <1>3, AtHand
<1> DEFINE h == Header(k, o, L - o = Size(o))
           n == Size(o)
           buf == Reassembled(h, Head(net))
<1>5. /\ Head(net)[1] = h /\ Len(Head(net)) = n + 1 /\ n \in Nat /\ n >= 1 /\ o + n <= L
      /\ o \in Nat /\ k \in Nat
  BY <1>2, <1>4, FragParts, SizeOf
<1>6. h.offset = o /\ h.sn = k /\ h.last = (L - o = n)
  BY DEF Header
<1>7. /\ DOMAIN buf = 0..SSP_CLIENT_BUF_LENGTH-1
      /\ FragOK(h) => /\ \A j \in 1..o+n : buf[j] = Word(k, j)
                      /\ cur_word = 0 \/ Restarts(h) \/ scan_serial_number = k
  BY <1>1, <1>3, <1>4, Contents
<1> HIDE DEF h
<1> HIDE DEF n
<1>8. o + Len(Head(net)) - 1 = o + n
  BY <1>5
<1> HIDE DEF buf
<1>9. /\ scan_buf' = buf
      /\ scan_serial_number' = IF cur_word = 0 \/ Restarts(h) THEN k ELSE scan_serial_number
      /\ \/ h.last /\ FragOK(h) /\ o + n = L /\ output_scan(1, buf)
         \/ output' = output
      /\ frag_hold' = IF h.last THEN frag_hold ELSE buf[o + n]
      /\ cur_word' = IF Resets(h, o + n) THEN 0 ELSE o + n
      /\ scan_OK' = (Resets(h, o + n) \/ FragOK(h))
  BY <1>5, <1>6, <1>8 DEF ReceiveFrag, buf
<1>10. h.last /\ FragOK(h) /\ o + n = L /\ output_scan(1, buf)
        => output' = Append(output, Whole(k))
  <2> SUFFICES ASSUME FragOK(h), o + n = L, output_scan(1, buf)
               PROVE  output' = Append(output, Whole(k))
    OBVIOUS
  <2>1. [i \in 1..L |-> buf[1 + i - 1]] = Whole(k)
    BY <1>2, <1>7 DEF Whole
  <2> QED
    BY <2>1 DEF output_scan
<1>11. h.last /\ FragOK(h) => output' = Append(output, Whole(k))
  <2> SUFFICES ASSUME h.last, FragOK(h) PROVE output_scan(1, buf) /\ o + n = L
    BY <1>10
  <2>1. L - o = n
    BY <1>6, Zenon
  <2>2. o + n = L
    BY <1>2, <1>5, <2>1
  <2> QED
    BY <1>5, <1>6, <1>8, <2>2 DEF ReceiveFrag, buf
<1>12. Taken(k, o)
  BY <1>7, <1>9, <1>10, <1>11 DEF Taken, h, n, buf
<1> QED
  BY <1>1, <1>3, <1>4, <1>12

\* Whatever it does with a fragment keeps the receiver's part of the invariant.
LEMMA RecvFrag == ASSUME SentInv, RecvInv, ReceiveFrag PROVE RecvInv'
<1>1. net # <<>> /\ UNCHANGED <<L, sent, logger>>
  BY TakesFrag
<1>2. L \in Nat /\ L >= 1 /\ sent \in Nat
  BY LengthType, Sizes DEF SentInv
<1>3. Fragmented
  BY TakesFrag
<1>4. PICK k \in 1..sent, o \in Offsets : Head(net) = Frag(k, o) /\ Taken(k, o)
  BY TakesFrag
<1> DEFINE h == Header(k, o, L - o = Size(o))
           n == Size(o)
           buf == Reassembled(h, Head(net))
<1>5. n \in Nat /\ n >= 1 /\ o + n <= L /\ o \in Nat /\ k \in Nat
  BY <1>2, SizeOf
<1>6. h.offset = o /\ h.sn = k /\ h.last = (L - o = n)
  BY DEF Header
<1>7. /\ DOMAIN buf = 0..SSP_CLIENT_BUF_LENGTH-1
      /\ FragOK(h) => /\ \A j \in 1..o+n : buf[j] = Word(k, j)
                      /\ cur_word = 0 \/ Restarts(h) \/ scan_serial_number = k
  BY <1>4 DEF Taken
<1>9. /\ scan_buf' = buf
      /\ scan_serial_number' = IF cur_word = 0 \/ Restarts(h) THEN k ELSE scan_serial_number
      /\ \/ h.last /\ output' = Append(output, Whole(k))
         \/ output' = output
      /\ frag_hold' = IF h.last THEN frag_hold ELSE buf[o + n]
      /\ cur_word' = IF Resets(h, o + n) THEN 0 ELSE o + n
      /\ scan_OK' = (Resets(h, o + n) \/ FragOK(h))
  BY <1>4 DEF Taken
<1> HIDE DEF h, n, buf
<1>10. Offsets' = Offsets /\ Fragmented' = Fragmented /\ \A i : Whole(i)' = Whole(i)
  BY <1>1 DEF Offsets, Fragmented, Whole
<1>11. output' \in Seq({Whole(i) : i \in 1..sent})
  BY <1>9, AppendProperties DEF RecvInv
<1>12. cur_word' \in Offsets
  <2>1. 0 \in Offsets
    <3>1. 0 = 0 * F /\ 0 \in 0..L-1
      BY <1>2, Sizes
    <3> QED
      BY <3>1 DEF Offsets
  <2>2. ~h.last => o + n \in Offsets
    BY <1>2, <1>6, NextOffset DEF n
  <2> QED
    BY <1>9, <2>1, <2>2 DEF Resets
<1>13. ASSUME cur_word' # 0, scan_OK' PROVE Begun'
  <2>1. ~h.last /\ FragOK(h) /\ cur_word' = o + n
    BY <1>9, <1>13 DEF Resets
  <2>2. scan_serial_number' = k
    BY <1>7, <1>9, <2>1
  <2>3. frag_hold' = Word(k, o + n)
    BY <1>5, <1>7, <1>9, <2>1
  <2>4. \A j \in 1..o+n-1 : scan_buf'[j] = Word(k, j)
    BY <1>5, <1>7, <1>9, <2>1
  <2>5. k \in 1..sent' /\ o + n - 1 \in Nat /\ o + n >= 1
    BY <1>1, <1>4, <1>5
  <2>6. \A j \in 1..cur_word'-1 : scan_buf'[j] = Word(k, j)
    <3>1. cur_word' = o + n
      BY <2>1
    <3>2. cur_word' - 1 = o + n - 1
      BY <1>5, <3>1
    <3> QED
      BY <2>4, <3>2
  <2>7. frag_hold' = Word(k, cur_word')
    BY <2>1, <2>3
  <2> QED
    BY <2>2, <2>5, <2>6, <2>7 DEF Begun, Word
<1>14. scan_OK' \in BOOLEAN
  BY <1>9 DEF Resets, FragOK
<1> QED
  BY <1>1, <1>3, <1>7, <1>9, <1>10, <1>11, <1>12, <1>13, <1>14 DEF RecvInv

\* The receiver's part of the invariant holds from step to step.
LEMMA RecvStep == ASSUME SentInv, SentInv', RecvInv, [Next]_vars PROVE RecvInv'
BY RecvOther, RecvWhole, RecvFrag DEF Next

\* Both parts hold in every behaviour in which the serial numbers do not repeat.
LEMMA Invariant == ASSUME MaxScans < SNModulus PROVE Spec => [](SentInv /\ RecvInv)
<1>1. Init => SentInv /\ RecvInv
  BY SentInit, RecvInit
<1>2. SentInv /\ RecvInv /\ [Next]_vars => (SentInv /\ RecvInv)'
  BY SentStep, RecvStep
<1> QED
  BY <1>1, <1>2, PTL DEF Spec

-----------------------------------------------------------------------------
(* The theorems *)

\* What ssp_log or ssp_raw_log writes (output_scan) are whole scans, whatever the
\* network loses, exchanges or duplicates, so long as serial numbers do not repeat.
THEOREM LoggedWhole == ASSUME MaxScans < SNModulus PROVE Spec => []WholeScans
<1>1. RecvInv => WholeScans
  BY ElementOfSeq, LenProperties DEF RecvInv, WholeScans, IsWhole, Whole
<1> QED
  BY <1>1, Invariant, PTL

\* udp_receive() never writes beyond scan_buf, although the room that it is offered
\* may be more: with SSP_MAX_FRAGS fragments and a header the buffer is long enough.
THEOREM InBuffer == ASSUME MaxScans < SNModulus PROVE Spec => []TypeOK
<1>1. SentInv /\ RecvInv => TypeOK
  <2> SUFFICES ASSUME SentInv, RecvInv PROVE TypeOK
    OBVIOUS
  <2>1. L \in Nat
    BY LengthType DEF SentInv
  <2>2. word_offset \in 0..L
    BY <2>1, SizeOf DEF SentInv
  <2>3. cur_word + F + 1 <= SSP_CLIENT_BUF_LENGTH /\ cur_word \in Nat
    BY <2>1, Fits, SizeOf DEF SentInv, RecvInv
  <2>4. SSP_CLIENT_BUF_LENGTH \in Nat
    <3>1. PICK N \in Nat : SSP_CLIENT_BUF_LENGTH = N * F + 1
      BY Sizes
    <3> QED
      BY <3>1, Sizes
  <2>5. cur_word \in 0..SSP_CLIENT_BUF_LENGTH-1
    BY <2>3, <2>4, Sizes
  <2> QED
    BY <2>2, <2>5, AtHand DEF SentInv, RecvInv, TypeOK
<1> QED
  BY <1>1, Invariant, PTL

-----------------------------------------------------------------------------
(* The log: while the network only loses datagrams they arrive in order *)

\* The scan that a datagram is of, and whether it is the last of it.
SN(d) == IF IsHeader(d[1]) THEN d[1].sn ELSE d[1].scan
Ends(d) == IsHeader(d[1]) => d[1].last

\* In the network, and from there to what has been logged and to what is still to
\* be sent, the scans are in order.
InTurn ==
  /\ \A i \in 1..Len(net) : Ends(net[i]) /\ word_offset # L => SN(net[i]) < sent
  /\ \A i, j \in 1..Len(net) : i < j =>
       SN(net[i]) <= SN(net[j]) /\ (Ends(net[i]) => SN(net[i]) < SN(net[j]))
  /\ \A n \in 1..Len(output) :
       /\ word_offset # L => output[n][1].scan < sent
       /\ \A i \in 1..Len(net) : output[n][1].scan < SN(net[i])

OrderInv == faults \in Seq(NetFaults) /\ (LossOnly => InTurn)

\* What Append() leaves where.
LEMMA AppendLast ==
  ASSUME NEW S, NEW s \in Seq(S), NEW e
  PROVE  /\ Len(Append(s, e)) = Len(s) + 1 /\ Append(s, e)[Len(s) + 1] = e
         /\ \A i \in 1..Len(s) : Append(s, e)[i] = s[i]
  OBVIOUS

\* The number of a datagram is that of its scan, and its last fragment ends it.
LEMMA Numbers ==
  ASSUME L \in Nat, L >= 1, NEW k \in Nat
  PROVE  /\ SN(Whole(k)) = k /\ Ends(Whole(k)) /\ Whole(k)[1].scan = k
         /\ \A o \in Offsets : /\ SN(Frag(k, o)) = k
                               /\ Ends(Frag(k, o)) = (L - o = Size(o))
<1>1. Whole(k)[1] = Word(k, 1)
  BY DEF Whole
<1>2. ~IsHeader(Word(k, 1)) /\ Word(k, 1).scan = k
  BY DEF IsHeader, Word
<1>3. ASSUME NEW o \in Offsets
      PROVE  SN(Frag(k, o)) = k /\ Ends(Frag(k, o)) = (L - o = Size(o))
  <2>1. Frag(k, o)[1] = Header(k, o, L - o = Size(o))
    BY FragParts
  <2>2. \A last \in BOOLEAN : /\ IsHeader(Header(k, o, last))
                              /\ Header(k, o, last).sn = k /\ Header(k, o, last).last = last
    BY DEF IsHeader, Header
  <2>3. (L - o = Size(o)) \in BOOLEAN
    OBVIOUS
  <2> QED
    BY <2>1, <2>2, <2>3 DEF SN, Ends
<1> QED
  BY <1>1, <1>2, <1>3 DEF SN, Ends

\* Every datagram in the network is of a scan that has been sent.
LEMMA NumberType ==
  ASSUME SentInv
  PROVE  /\ Len(net) \in Nat /\ sent \in Nat
         /\ \A i \in 1..Len(net) : SN(net[i]) \in 1..sent
<1>1. L \in Nat /\ L >= 1 /\ sent \in Nat /\ Len(net) \in Nat
  BY LengthType, Sizes, LenProperties DEF SentInv
<1>2. ASSUME NEW i \in 1..Len(net) PROVE SN(net[i]) \in 1..sent
  <2>1. net[i] \in Datagrams
    BY <1>2, ElementOfSeq DEF SentInv
  <2>2. CASE \E k \in 1..sent, o \in Offsets : net[i] = Frag(k, o)
    BY <1>1, <2>2, Numbers
  <2>3. CASE \E k \in 1..sent : net[i] = Whole(k)
    BY <1>1, <2>3, Numbers
  <2> QED
    BY <2>1, <2>2, <2>3 DEF Datagrams
<1> QED
  BY <1>1, <1>2

\* What is logged is a scan that has been sent.
LEMMA OutputType ==
  ASSUME SentInv, RecvInv
  PROVE  /\ Len(output) \in Nat /\ output \in Seq({Whole(k) : k \in 1..sent})
         /\ \A n \in 1..Len(output) :
              output[n][1].scan \in 1..sent /\ output[n] = Whole(output[n][1].scan)
<1>1. L \in Nat /\ L >= 1 /\ sent \in Nat
  BY LengthType, Sizes DEF SentInv
<1>2. output \in Seq({Whole(k) : k \in 1..sent}) /\ Len(output) \in Nat
  BY LenProperties DEF RecvInv
<1>3. ASSUME NEW n \in 1..Len(output)
      PROVE  output[n][1].scan \in 1..sent /\ output[n] = Whole(output[n][1].scan)
  <2>1. PICK k \in 1..sent : output[n] = Whole(k)
    BY <1>2, <1>3, ElementOfSeq
  <2> QED
    BY <1>1, <2>1, Numbers
<1> QED
  BY <1>2, <1>3

\* Sending keeps the order: what is sent now is behind all that was sent before.
LEMMA OrderSend ==
  ASSUME SentInv, RecvInv, InTurn, StartScan \/ SendFrag
  PROVE  InTurn'
<1>1. /\ Len(net) \in Nat /\ sent \in Nat /\ \A i \in 1..Len(net) : SN(net[i]) \in 1..sent
      /\ L \in Nat /\ L >= 1 /\ Len(output) \in Nat
      /\ \A n \in 1..Len(output) : output[n][1].scan \in 1..sent
  BY NumberType, OutputType, LengthType DEF SentInv
<1>2. CASE StartScan /\ Fragmented
  <2>1. net' = net /\ output' = output /\ sent' = sent + 1 /\ word_offset = L
    BY <1>2 DEF StartScan, receiver
  <2>2. \A i \in 1..Len(net') : SN(net'[i]) < sent'
    BY <1>1, <2>1
  <2>3. \A n \in 1..Len(output') : output'[n][1].scan < sent'
    BY <1>1, <2>1
  <2>4. /\ \A i, j \in 1..Len(net') : i < j =>
             SN(net'[i]) <= SN(net'[j]) /\ (Ends(net'[i]) => SN(net'[i]) < SN(net'[j]))
        /\ \A n \in 1..Len(output') : \A i \in 1..Len(net') :
             output'[n][1].scan < SN(net'[i])
    BY <2>1 DEF InTurn
  <2> QED
    BY <2>2, <2>3, <2>4 DEF InTurn
<1>3. CASE StartScan /\ ~Fragmented
  <2>1. /\ net' = Append(net, Whole(sent')) /\ output' = output /\ sent' = sent + 1
        /\ word_offset' = L' /\ net \in Seq(Datagrams)
    BY <1>3, SendsWhole DEF StartScan, receiver, SentInv
  <2> DEFINE d == Whole(sent')
  <2>2. SN(d) = sent' /\ Ends(d)
    BY <1>1, <2>1, Numbers
  <2> HIDE DEF d
  <2>3. /\ Len(net') = Len(net) + 1 /\ net'[Len(net) + 1] = d
        /\ \A i \in 1..Len(net) : net'[i] = net[i]
    BY <2>1, AppendLast DEF d
  <2> QED
    BY <1>1, <2>1, <2>2, <2>3 DEF InTurn
<1>4. CASE SendFrag
  <2>1. /\ net' = Append(net, Frag(sent, word_offset)) /\ output' = output /\ sent' = sent
        /\ word_offset \in Offsets /\ word_offset' = word_offset + Size(word_offset)
        /\ L' = L /\ net \in Seq(Datagrams)
    BY <1>4, SendsFrag DEF SendFrag, receiver, SentInv
  <2> DEFINE d == Frag(sent, word_offset)
  <2>2. SN(d) = sent /\ Ends(d) = (L - word_offset = Size(word_offset))
    BY <1>1, <2>1, Numbers
  <2>4. word_offset # L /\ word_offset \in Nat /\ Size(word_offset) \in Nat
    BY <1>1, <2>1, SizeOf
  <2> HIDE DEF d
  <2>3. Ends(d) => word_offset' = L'
    <3>1. ASSUME L - word_offset = Size(word_offset) PROVE word_offset' = L'
      BY <1>1, <2>1, <2>4, <3>1
    <3>2. Ends(d) => L - word_offset = Size(word_offset)
      BY <2>2, Zenon
    <3> QED
      BY <3>1, <3>2
  <2>5. /\ Len(net') = Len(net) + 1 /\ net'[Len(net) + 1] = d
        /\ \A i \in 1..Len(net) : net'[i] = net[i]
    BY <2>1, AppendLast DEF d
  <2>6. \A i \in 1..Len(net) : Ends(net[i]) => SN(net[i]) < sent
    BY <2>4 DEF InTurn
  <2>7. \A n \in 1..Len(output) : output[n][1].scan < sent
    BY <2>4 DEF InTurn
  <2>8. \A i \in 1..Len(net') : i \in 1..Len(net) \/ i = Len(net) + 1
    BY <2>1, <2>5
  <2>9. \A i \in 1..Len(net') : Ends(net'[i]) /\ word_offset' # L' => SN(net'[i]) < sent'
    BY <2>1, <2>2, <2>3, <2>5, <2>6, <2>8
  <2>10. \A i, j \in 1..Len(net') : i < j =>
           SN(net'[i]) <= SN(net'[j]) /\ (Ends(net'[i]) => SN(net'[i]) < SN(net'[j]))
    BY <1>1, <2>1, <2>2, <2>5, <2>6, <2>8 DEF InTurn
  <2>11. \A n \in 1..Len(output') :
           /\ word_offset' # L' => output'[n][1].scan < sent'
           /\ \A i \in 1..Len(net') : output'[n][1].scan < SN(net'[i])
    BY <2>1, <2>2, <2>5, <2>7, <2>8 DEF InTurn
  <2> QED
    BY <2>9, <2>10, <2>11 DEF InTurn
<1> QED
  BY <1>2, <1>3, <1>4

\* Losing the first datagram keeps the order, and so does logging it.
LEMMA OrderTake ==
  ASSUME SentInv, RecvInv, InTurn, net # <<>>, net' = Tail(net), UNCHANGED sender,
         \/ output' = output
         \/ Ends(Head(net)) /\ output' = Append(output, Whole(SN(Head(net))))
  PROVE  InTurn'
<1>1. /\ Len(net) \in Nat /\ sent \in Nat /\ \A i \in 1..Len(net) : SN(net[i]) \in 1..sent
      /\ L \in Nat /\ L >= 1 /\ Len(output) \in Nat
      /\ \A n \in 1..Len(output) : output[n][1].scan \in 1..sent
      /\ output \in Seq({Whole(k) : k \in 1..sent})
  BY NumberType, OutputType, LengthType DEF SentInv
<1>2. /\ Len(net') = Len(net) - 1 /\ Len(net) >= 1 /\ Head(net) = net[1]
      /\ \A i \in 1..Len(net') : net'[i] = net[i + 1]
  <2>1. net \in Seq(Datagrams)
    BY DEF SentInv
  <2> QED
    BY <1>1, <2>1, HeadTailProperties
<1>3. \A i \in 1..Len(net') : i + 1 \in 1..Len(net) /\ 1 < i + 1
  BY <1>1, <1>2
<1>4. sent' = sent /\ word_offset' = word_offset /\ L' = L
  BY DEF sender
<1>5. /\ \A i \in 1..Len(net') : Ends(net'[i]) /\ word_offset' # L' => SN(net'[i]) < sent'
      /\ \A i, j \in 1..Len(net') : i < j =>
           SN(net'[i]) <= SN(net'[j]) /\ (Ends(net'[i]) => SN(net'[i]) < SN(net'[j]))
  BY <1>1, <1>2, <1>3, <1>4 DEF InTurn
<1>6. CASE output' = output
  BY <1>2, <1>3, <1>4, <1>5, <1>6 DEF InTurn
<1>7. CASE Ends(Head(net)) /\ output' = Append(output, Whole(SN(Head(net))))
  <2> DEFINE k == SN(Head(net))
             d == Whole(k)
  <2>1. k \in 1..sent /\ d[1].scan = k /\ d \in {Whole(n) : n \in 1..sent}
    BY <1>1, <1>2, Numbers
  <2>2. (word_offset' # L' => k < sent') /\ \A i \in 1..Len(net') : k < SN(net'[i])
    BY <1>1, <1>2, <1>3, <1>4, <1>7 DEF InTurn
  <2> HIDE DEF k, d
  <2>3. /\ Len(output') = Len(output) + 1 /\ output'[Len(output) + 1] = d
        /\ \A n \in 1..Len(output) : output'[n] = output[n]
    BY <1>1, <1>7, <2>1, AppendProperties DEF d, k
  <2>4. \A n \in 1..Len(output') : n = Len(output) + 1 \/ n \in 1..Len(output)
    BY <1>1, <2>3
  <2>5. \A n \in 1..Len(output) :
          /\ word_offset' # L' => output[n][1].scan < sent'
          /\ \A i \in 1..Len(net') : output[n][1].scan < SN(net'[i])
    BY <1>2, <1>3, <1>4 DEF InTurn
  <2>6. \A n \in 1..Len(output') :
          /\ word_offset' # L' => output'[n][1].scan < sent'
          /\ \A i \in 1..Len(net') : output'[n][1].scan < SN(net'[i])
    BY <2>1, <2>2, <2>3, <2>4, <2>5
  <2> QED
    BY <1>5, <2>6 DEF InTurn
<1> QED
  BY <1>6, <1>7
\* A network that has only lost datagrams only loses them in this step too.
LEMMA OnlyLoses ==
  ASSUME faults \in Seq(NetFaults), NEW kind, Fault(kind)
  PROVE  /\ faults' \in Seq(NetFaults)
         /\ LossOnly' => LossOnly /\ kind = "lose"
<1>1. kind \in NetFaults /\ faults' = Append(faults, kind)
  BY DEF Fault
<1>2. /\ faults' \in Seq(NetFaults) /\ Len(faults') = Len(faults) + 1 /\ Len(faults) \in Nat
      /\ faults'[Len(faults) + 1] = kind
      /\ \A i \in 1..Len(faults) : faults'[i] = faults[i]
  BY <1>1, AppendProperties, LenProperties
<1>3. DOMAIN faults = 1..Len(faults) /\ DOMAIN faults' = 1..Len(faults')
  BY <1>2, LenProperties
<1> QED
  BY <1>2, <1>3 DEF LossOnly

\* What receiving the first datagram writes to the output: a whole scan, when the
\* datagram ends it, or nothing.
LEMMA Writes ==
  ASSUME SentInv, RecvInv, ReceiveWhole \/ ReceiveFrag
  PROVE  /\ UNCHANGED sender /\ sent' = sent /\ net # <<>> /\ net' = Tail(net)
         /\ \/ output' = output
            \/ Ends(Head(net)) /\ output' = Append(output, Whole(SN(Head(net))))
<1>1. UNCHANGED sender /\ sent' = sent /\ net # <<>> /\ net' = Tail(net)
  BY DEF ReceiveWhole, ReceiveFrag, Arrives, sender
<1>2. L \in Nat /\ L >= 1
  BY LengthType DEF SentInv
<1>3. CASE ReceiveWhole
  <2>1. PICK k \in 1..sent : Head(net) = Whole(k) /\ output' = Append(output, Whole(k))
    BY <1>3, LogsWhole
  <2>2. SN(Head(net)) = k /\ Ends(Head(net))
    BY <1>2, <2>1, Numbers
  <2> QED
    BY <1>1, <2>1, <2>2
<1>4. CASE ReceiveFrag
  <2>1. PICK k \in 1..sent, o \in Offsets : Head(net) = Frag(k, o) /\ Taken(k, o)
    BY <1>4, TakesFrag
  <2>2. SN(Frag(k, o)) = k /\ Ends(Frag(k, o)) = (L - o = Size(o))
    BY <1>2, Numbers
  <2>3. \/ L - o = Size(o) /\ output' = Append(output, Whole(k))
        \/ output' = output
    BY <2>1 DEF Taken, Header
  <2>4. \/ Ends(Head(net)) /\ output' = Append(output, Whole(SN(Head(net))))
        \/ output' = output
    BY <2>1, <2>2, <2>3, Zenon
  <2> QED
    BY <1>1, <2>4
<1> QED
  BY <1>3, <1>4

\* Every step of a network that only loses datagrams keeps the order.
LEMMA OrderStep ==
  ASSUME SentInv, RecvInv, OrderInv, [Next]_vars
  PROVE  OrderInv'
<1>0. faults' \in Seq(NetFaults)
  BY OnlyLoses DEF Next, vars, OrderInv, StartScan, SendFrag, Lose, Swap, Duplicate,
     ReceiveWhole, ReceiveFrag, Arrives
<1> SUFFICES ASSUME LossOnly' PROVE InTurn'
  BY <1>0 DEF OrderInv
<1>1. CASE StartScan \/ SendFrag
  <2>1. LossOnly
    BY <1>1 DEF StartScan, SendFrag, LossOnly
  <2> QED
    BY <1>1, <2>1, OrderSend DEF OrderInv
<1>2. CASE Lose \/ Swap \/ Duplicate
  <2>1. LossOnly /\ Lose
    BY <1>2, OnlyLoses DEF Lose, Swap, Duplicate, OrderInv
  <2>2. net # <<>> /\ net' = Tail(net) /\ UNCHANGED sender /\ output' = output
    BY <2>1 DEF Lose, Fault, receiver
  <2> QED
    BY <2>1, <2>2, OrderTake DEF OrderInv
<1>3. CASE ReceiveWhole \/ ReceiveFrag
  <2>1. LossOnly
    BY <1>3 DEF ReceiveWhole, ReceiveFrag, Arrives, LossOnly
  <2> QED
    BY <1>3, <2>1, Writes, OrderTake DEF OrderInv
<1>4. CASE UNCHANGED vars
  BY <1>4 DEF vars, sender, receiver, OrderInv, LossOnly, InTurn
<1> QED
  BY <1>1, <1>2, <1>3, <1>4 DEF Next

\* At first there is nothing to be in order.
LEMMA OrderInit == Init => OrderInv
BY EmptySeq DEF Init, OrderInv, InTurn

\* All three parts hold in every behaviour in which the serial numbers do not repeat.
LEMMA Ordered ==
  ASSUME MaxScans < SNModulus PROVE Spec => [](SentInv /\ RecvInv /\ OrderInv)
<1>1. Init => OrderInv
  BY OrderInit
<1>2. SentInv /\ RecvInv /\ OrderInv /\ [Next]_vars => OrderInv'
  BY OrderStep
<1> QED
  BY <1>1, <1>2, Invariant, PTL DEF Spec

-----------------------------------------------------------------------------
(* The refinement: while the network only loses datagrams the log is ScanLog's *)

\* The scans, the number of a scan, and the log of an output, when n scans of len
\* words have been sent.
Scans(len, n) == {[i \in 1..len |-> Word(k, i)] : k \in 1..n}
NumberOf(s, len, n) ==
  IF \E k \in 1..n : s = [i \in 1..len |-> Word(k, i)] THEN s[1].scan ELSE 0
LogOf(out, len, n) == [j \in DOMAIN out |-> NumberOf(out[j], len, n)]

\* ScanLog's log, as the receiver has written it.
log == [n \in DOMAIN output |-> ScanOf(output[n])]

\* The log has the number of each scan in the output.
LEMMA LogHas ==
  ASSUME NEW len \in Nat, len >= 1, NEW n \in Nat, NEW out \in Seq(Scans(len, n))
  PROVE  /\ LogOf(out, len, n) \in Seq(Nat) /\ Len(LogOf(out, len, n)) = Len(out)
         /\ Len(out) \in Nat
         /\ \A j \in 1..Len(out) : LogOf(out, len, n)[j] = out[j][1].scan
<1> DEFINE lg == LogOf(out, len, n)
<1>1. Len(out) \in Nat /\ DOMAIN out = 1..Len(out)
  BY LenProperties
<1>2. ASSUME NEW j \in 1..Len(out)
      PROVE  lg[j] = out[j][1].scan /\ lg[j] \in Nat
  <2>0. out[j] \in Scans(len, n)
    BY <1>1, <1>2, ElementOfSeq
  <2>1. PICK k \in 1..n : out[j] = [i \in 1..len |-> Word(k, i)]
    BY <2>0 DEF Scans
  <2>2. out[j][1] = Word(k, 1)
    BY <2>1
  <2>3. out[j][1].scan = k /\ k \in Nat
    BY <2>2 DEF Word
  <2>4. lg[j] = NumberOf(out[j], len, n)
    BY <1>1, <1>2 DEF LogOf
  <2>5. NumberOf(out[j], len, n) = out[j][1].scan
    BY <2>1 DEF NumberOf
  <2> QED
    BY <2>3, <2>4, <2>5
<1>3. lg = [j \in 1..Len(out) |-> lg[j]]
  BY <1>1 DEF LogOf
<1> HIDE DEF lg
<1>4. lg \in Seq(Nat) /\ Len(lg) = Len(out)
  BY <1>1, <1>2, <1>3, SeqDef
<1> QED
  BY <1>1, <1>2, <1>4 DEF lg

\* The log before a step and after it.
LEMMA Logs ==
  ASSUME SentInv, RecvInv, SentInv', RecvInv'
  PROVE  /\ log \in Seq(Nat) /\ Len(log) = Len(output) /\ Len(output) \in Nat
         /\ \A j \in 1..Len(output) : log[j] = output[j][1].scan
         /\ log' \in Seq(Nat) /\ Len(log') = Len(output') /\ Len(output') \in Nat
         /\ \A j \in 1..Len(output') : log'[j] = output'[j][1].scan
<1>1. log = LogOf(output, L, sent) /\ log' = LogOf(output', L', sent')
  BY DEF log, LogOf, ScanOf, IsWhole, NumberOf
<1>2. /\ L \in Nat /\ L >= 1 /\ sent \in Nat
      /\ output \in Seq(Scans(L, sent))
  BY LengthType, Sizes DEF SentInv, RecvInv, Whole, Scans
<1>3. /\ L' \in Nat /\ L' >= 1 /\ sent' \in Nat
      /\ output' \in Seq(Scans(L', sent'))
  BY TransferAssumption, Sizes DEF SentInv, RecvInv, Whole, Scans
<1> HIDE DEF log
<1>4. /\ log \in Seq(Nat) /\ Len(log) = Len(output) /\ Len(output) \in Nat
      /\ \A j \in 1..Len(output) : log[j] = output[j][1].scan
  BY <1>1, <1>2, LogHas
<1>5. /\ log' \in Seq(Nat) /\ Len(log') = Len(output') /\ Len(output') \in Nat
      /\ \A j \in 1..Len(output') : log'[j] = output'[j][1].scan
  BY <1>1, <1>3, LogHas
<1> QED
  BY <1>4, <1>5

\* A step that does not write to the output leaves the log alone.
LEMMA SameLog ==
  ASSUME SentInv, RecvInv, SentInv', RecvInv', output' = output
  PROVE  log' = log
<1>1. /\ log \in Seq(Nat) /\ Len(log) = Len(output) /\ Len(output) \in Nat
      /\ \A n \in 1..Len(output) : log[n] = output[n][1].scan
  BY Logs
<1>2. /\ log' \in Seq(Nat) /\ Len(log') = Len(output')
      /\ \A n \in 1..Len(output') : log'[n] = output'[n][1].scan
  BY Logs
<1> QED
  BY <1>1, <1>2, SeqEqual

\* A scan that is written is appended to the log under its number, which is beyond
\* those before it.
LEMMA LogsScan ==
  ASSUME SentInv, RecvInv, SentInv', RecvInv', InTurn, net # <<>>, UNCHANGED sent,
         Ends(Head(net)), output' = Append(output, Whole(SN(Head(net))))
  PROVE  Log!Log
<1> DEFINE k == SN(Head(net))
<1>1. /\ log \in Seq(Nat) /\ Len(log) = Len(output) /\ Len(output) \in Nat
      /\ \A n \in 1..Len(output) : log[n] = output[n][1].scan
  BY Logs
<1>2. /\ log' \in Seq(Nat) /\ Len(log') = Len(output')
      /\ \A n \in 1..Len(output') : log'[n] = output'[n][1].scan
  BY Logs
<1>3. k \in 1..sent /\ Head(net) = net[1] /\ 1 \in 1..Len(net) /\ k \in Nat
  <2>1. net \in Seq(Datagrams)
    BY DEF SentInv
  <2>2. Head(net) = net[1] /\ 1 \in 1..Len(net)
    BY <2>1, HeadTailProperties, LenProperties
  <2> QED
    BY <2>2, NumberType
<1>4. Whole(k)[1].scan = k
  BY <1>3, Numbers, LengthType DEF SentInv
<1>5. /\ Len(output') = Len(output) + 1 /\ output'[Len(output) + 1] = Whole(k)
      /\ \A n \in 1..Len(output) : output'[n] = output[n]
  <2>1. output \in Seq({Whole(n) : n \in 1..sent})
    BY DEF RecvInv
  <2> QED
    BY <1>3, <2>1, AppendProperties
<1>6. log' = Append(log, k)
  <2>1. /\ Append(log, k) \in Seq(Nat) /\ Len(Append(log, k)) = Len(log) + 1
        /\ Append(log, k)[Len(log) + 1] = k
        /\ \A n \in 1..Len(log) : Append(log, k)[n] = log[n]
    BY <1>1, <1>3, AppendProperties
  <2>2. \A n \in 1..Len(log') : log'[n] = Append(log, k)[n]
    <3> SUFFICES ASSUME NEW n \in 1..Len(log') PROVE log'[n] = Append(log, k)[n]
      OBVIOUS
    <3>1. CASE n = Len(output) + 1
      BY <1>1, <1>2, <1>4, <1>5, <2>1, <3>1
    <3>2. CASE n \in 1..Len(output)
      BY <1>1, <1>2, <1>5, <2>1, <3>2
    <3> QED
      BY <1>1, <1>2, <1>5, <3>1, <3>2
  <2> QED
    BY <1>1, <1>2, <1>5, <2>1, <2>2, SeqEqual
<1>7. log # <<>> => k > Last(log)
  <2> SUFFICES ASSUME log # <<>> PROVE k > Last(log)
    OBVIOUS
  <2>1. Len(log) \in 1..Len(output) /\ log[Len(log)] \in Nat
    BY <1>1
  <2>2. output[Len(log)][1].scan < SN(net[1])
    BY <1>3, <2>1 DEF InTurn
  <2> QED
    BY <1>1, <1>3, <2>1, <2>2 DEF Last
<1> QED
  BY <1>3, <1>6, <1>7 DEF Log!Log, log, Log!Last, Last

\* Every step is one of ScanLog's or leaves its variables alone.
LEMMA LogStep ==
  ASSUME SentInv, RecvInv, OrderInv, SentInv', RecvInv', LossOnly, [Next]_vars
  PROVE  [Log!Next]_(Log!vars)
<1> USE DEF Log!vars, Log!Next
<1>1. InTurn
  BY DEF OrderInv
<1>2. CASE StartScan
  <2>1. sent' = sent + 1 /\ output' = output
    BY <1>2 DEF StartScan, receiver
  <2> QED
    BY <2>1, SameLog DEF Log!Send, log
<1>3. CASE SendFrag \/ Lose \/ Swap \/ Duplicate \/ UNCHANGED vars
  <2>1. sent' = sent /\ output' = output
    BY <1>3 DEF SendFrag, Lose, Swap, Duplicate, Fault, vars, sender, receiver
  <2> QED
    BY <2>1, SameLog DEF log
<1>4. CASE ReceiveWhole \/ ReceiveFrag
  <2>1. /\ net # <<>> /\ sent' = sent
        /\ \/ output' = output
           \/ Ends(Head(net)) /\ output' = Append(output, Whole(SN(Head(net))))
    BY <1>4, Writes
  <2>2. CASE output' = output
    BY <2>1, <2>2, SameLog DEF log
  <2> QED
    BY <1>1, <2>1, <2>2, LogsScan
<1> QED
  BY <1>2, <1>3, <1>4 DEF Next

\* ssp_log and ssp_raw_log, behind a network that only loses datagrams, keep the log
\* that ScanLog describes: scans that were sent, in that order, none twice.
THEOREM LogsInOrder == ASSUME MaxScans < SNModulus PROVE Spec => ImplementsLog
<1>1. Init => Log!Init
  BY DEF Init, Log!Init
<1>2. /\ SentInv /\ RecvInv /\ OrderInv /\ (SentInv /\ RecvInv)' /\ [Next]_vars
      => [LossOnly => Log!Next]_(Log!vars)
  BY LogStep
<1> QED
  BY <1>1, <1>2, Ordered, PTL DEF Spec, ImplementsLog

-----------------------------------------------------------------------------
(* What the faults cost *)

\* Behind each fragment of the scan comes the next, if it is not the last, or it has
\* still to be sent.
Linked(k) ==
  \A i \in 1..Len(net), x \in Offsets :
    net[i] = Frag(k, x) /\ x + Size(x) # L =>
      IF i < Len(net) THEN net[i + 1] = Frag(k, x + Size(x))
      ELSE k = sent /\ word_offset = x + Size(x)

\* The scan's first fragment has still to arrive.
Coming(k) ==
  \/ \E i \in 1..Len(net) : net[i] = Frag(k, 0)
  \/ k = sent /\ word_offset = 0

\* The scan is begun, and the fragment that goes on with it is the next.
Underway(k) ==
  /\ cur_word # 0 /\ scan_OK /\ scan_serial_number = k
  /\ IF net = <<>> THEN k = sent /\ word_offset = cur_word
     ELSE net[1] = Frag(k, cur_word)

\* The scan will be logged if nothing happens to it.
Intact(k) ==
  IF Fragmented THEN Linked(k) /\ (Coming(k) \/ Underway(k))
  ELSE \E i \in 1..Len(net) : net[i] = Whole(k)

\* The scan is in the log.
Has(k) == \E n \in 1..Len(output) : output[n] = Whole(k)

\* The scans that are neither logged nor intact are no more than the damage.
Damaged(B) == Cardinality(B) <= Damage /\ \A k \in (1..sent) \ B : Has(k) \/ Intact(k)
DamageInv ==
  /\ cur_word = 0 => scan_OK
  /\ \E B \in SUBSET (1..sent) : Damaged(B)

\* A datagram tells which fragment it is.
LEMMA OneFragment ==
  ASSUME L \in Nat, L >= 1, NEW j \in Nat, NEW k \in Nat, NEW o \in Offsets, NEW x \in Offsets,
         Frag(j, o) = Frag(k, x)
  PROVE  j = k /\ o = x
<1>1. Header(j, o, L - o = Size(o)) = Header(k, x, L - x = Size(x))
  BY FragParts
<1> QED
  BY <1>1 DEF Header

\* What is intact when a datagram of another scan is received, is lost or arrives
\* twice, or two arrive in the wrong order, stays intact: but for p datagrams of
\* others at the front of the network, that become m, it is left alone.
LEMMA OthersIntact ==
  ASSUME SentInv, RecvInv, UNCHANGED sender, NEW k \in 1..sent, Intact(k),
         NEW p \in Nat, NEW m \in Nat, p >= 1, p <= Len(net), net' \in Seq(Datagrams),
         Len(net') = Len(net) - p + m,
         \A i \in 1..p : SN(net[i]) # k, \A i \in 1..m : SN(net'[i]) # k,
         \A i \in 1..Len(net) - p : net'[m + i] = net[p + i]
  PROVE  Intact(k)'
<1>1. /\ L \in Nat /\ L >= 1 /\ sent \in Nat /\ k \in Nat /\ Len(net) \in Nat /\ Len(net') \in Nat
      /\ L' = L /\ sent' = sent /\ word_offset' = word_offset
  BY LengthType, NumberType, LenProperties DEF SentInv, sender
<1>2. /\ Offsets' = Offsets /\ Fragmented' = Fragmented
      /\ \A j, o : Frag(j, o)' = Frag(j, o) /\ Whole(j)' = Whole(j) /\ Size(o)' = Size(o)
  BY <1>1 DEF Offsets, Fragmented, Frag, Whole, Size
<1>3. ASSUME NEW i \in 1..Len(net), SN(net[i]) = k
      PROVE  \E j \in 1..Len(net') : net'[j] = net[i]
  <2>1. PICK r \in 1..Len(net) - p : i = p + r
    <3>1. i > p
      <4>1. i \notin 1..p
        BY <1>3
      <4> QED
        BY <1>1, <4>1
    <3>2. i - p \in 1..Len(net) - p /\ i = p + (i - p)
      BY <1>1, <3>1
    <3> QED
      BY <3>2
  <2>2. m + r \in 1..Len(net') /\ net'[m + r] = net[p + r]
    BY <1>1
  <2> QED
    BY <2>1, <2>2
<1>4. ASSUME NEW i \in 1..Len(net'), SN(net'[i]) = k
      PROVE  \E r \in 1..Len(net) - p : i = m + r /\ p + r \in 1..Len(net) /\ net'[i] = net[p + r]
  <2>1. PICK r \in 1..Len(net) - p : i = m + r
    <3>1. i > m
      BY <1>1, <1>4
    <3>2. i - m \in 1..Len(net) - p /\ i = m + (i - m)
      BY <1>1, <3>1
    <3> QED
      BY <3>2
  <2>2. p + r \in 1..Len(net) /\ net'[m + r] = net[p + r]
    BY <1>1
  <2> QED
    BY <2>1, <2>2
<1>5. CASE ~Fragmented
  <2>1. PICK i \in 1..Len(net) : net[i] = Whole(k)
    BY <1>5 DEF Intact
  <2>2. SN(net[i]) = k
    BY <1>1, <2>1, Numbers
  <2>3. PICK j \in 1..Len(net') : net'[j] = net[i]
    BY <1>3, <2>2
  <2> QED
    BY <1>2, <1>5, <2>1, <2>3 DEF Intact
<1>6. CASE Fragmented
  <2>1. Linked(k)'
    <3> SUFFICES ASSUME NEW i \in 1..Len(net'), NEW x \in Offsets, net'[i] = Frag(k, x),
                        x + Size(x) # L
                 PROVE  IF i < Len(net') THEN net'[i + 1] = Frag(k, x + Size(x))
                        ELSE k = sent /\ word_offset = x + Size(x)
      BY <1>1, <1>2 DEF Linked
    <3>1. PICK r \in 1..Len(net) - p : i = m + r /\ p + r \in 1..Len(net) /\ net'[i] = net[p + r]
      <4>1. SN(net'[i]) = k
        BY <1>1, Numbers
      <4> QED
        BY <1>4, <4>1
    <3>2. IF p + r < Len(net) THEN net[(p + r) + 1] = Frag(k, x + Size(x))
          ELSE k = sent /\ word_offset = x + Size(x)
      BY <1>6, <3>1 DEF Intact, Linked
    <3>3. i < Len(net') <=> p + r < Len(net)
      BY <1>1, <3>1
    <3>4. ASSUME i < Len(net') PROVE net'[i + 1] = net[(p + r) + 1]
      <4>1. p + r < Len(net) /\ r \in Nat
        BY <1>1, <3>3, <3>4
      <4>2. r + 1 \in 1..Len(net) - p
        BY <1>1, <4>1
      <4>3. net'[m + (r + 1)] = net[p + (r + 1)]
        BY <4>2
      <4>4. m + (r + 1) = i + 1 /\ p + (r + 1) = (p + r) + 1
        BY <3>1, <4>1
      <4> QED
        BY <4>3, <4>4
    <3> QED
      BY <3>2, <3>3, <3>4
  <2>2. ~Underway(k)
    <3>1. net # <<>>
      BY <1>1
    <3>2. Underway(k) => net[1] = Frag(k, cur_word) /\ cur_word \in Offsets
      BY <3>1 DEF Underway, RecvInv
    <3> QED
      BY <1>1, <3>2, Numbers
  <2>3. Coming(k)'
    <3>1. Coming(k)
      BY <1>6, <2>2 DEF Intact
    <3>2. 0 \in Offsets
      BY <1>1, ZeroOffset
    <3>3. CASE k = sent /\ word_offset = 0
      BY <1>1, <3>3 DEF Coming
    <3>4. ASSUME NEW i \in 1..Len(net), net[i] = Frag(k, 0) PROVE Coming(k)'
      <4>1. SN(net[i]) = k
        BY <1>1, <3>2, <3>4, Numbers
      <4>2. PICK j \in 1..Len(net') : net'[j] = net[i]
        BY <1>3, <4>1
      <4> QED
        BY <1>2, <3>4, <4>2 DEF Coming
    <3> QED
      BY <3>1, <3>3, <3>4 DEF Coming
  <2> QED
    BY <1>2, <1>6, <2>1, <2>3 DEF Intact
<1> QED
  BY <1>5, <1>6

\* A scan that begins is intact.
LEMMA BeginsIntact ==
  ASSUME SentInv, StartScan, NEW k, k = sent + 1
  PROVE  Intact(k)'
<1>1. /\ L \in Nat /\ L >= 1 /\ sent \in Nat /\ L' = L /\ sent' = k /\ Len(net) \in Nat
      /\ k \in Nat /\ \A i \in 1..Len(net) : SN(net[i]) \in 1..sent
  BY LengthType, NumberType DEF SentInv, StartScan
<1>2. CASE ~Fragmented
  <2>1. net' = Append(net, Whole(k)) /\ net \in Seq(Datagrams)
    BY <1>1, <1>2, SendsWhole DEF Whole, SentInv
  <2> DEFINE d == Whole(k)
  <2>2. d' = d
    BY <1>1 DEF Whole
  <2> HIDE DEF d
  <2>3. Len(net') = Len(net) + 1 /\ net'[Len(net) + 1] = d
    BY <2>1, AppendLast DEF d
  <2>4. Len(net) + 1 \in 1..Len(net')
    BY <1>1, <2>3
  <2>5. ~Fragmented'
    BY <1>1, <1>2 DEF Fragmented
  <2> QED
    BY <2>2, <2>3, <2>4, <2>5 DEF Intact, d
<1>3. CASE Fragmented
  <2>1. net' = net /\ word_offset' = 0
    BY <1>3 DEF StartScan
  <2>2. Offsets' = Offsets /\ Fragmented' /\ \A o : Frag(k, o)' = Frag(k, o)
    BY <1>1, <1>3 DEF Offsets, Fragmented, Frag, Size
  <2>3. ASSUME NEW i \in 1..Len(net), NEW x \in Offsets PROVE net[i] # Frag(k, x)
    <3>1. SN(Frag(k, x)) = k
      BY <1>1, Numbers
    <3>2. SN(net[i]) \in 1..sent
      BY <1>1
    <3>3. SN(net[i]) # k
      BY <1>1, <3>2
    <3> QED
      BY <3>1, <3>3, Zenon
  <2>4. Linked(k)'
    BY <2>1, <2>2, <2>3 DEF Linked
  <2>5. Coming(k)'
    BY <1>1, <2>1 DEF Coming
  <2> QED
    BY <2>2, <2>4, <2>5 DEF Intact
<1> QED
  BY <1>2, <1>3

\* Sending leaves the other scans alone, and what is sent of this one is linked to
\* what was sent of it before.
LEMMA SendsIntact ==
  ASSUME SentInv, RecvInv, StartScan \/ SendFrag, NEW k \in 1..sent, Intact(k)
  PROVE  Intact(k)'
<1>1. /\ L \in Nat /\ L >= 1 /\ sent \in Nat /\ L' = L /\ Len(net) \in Nat /\ k \in Nat
      /\ \A i \in 1..Len(net) : SN(net[i]) \in 1..sent
      /\ UNCHANGED receiver /\ net \in Seq(Datagrams)
  BY LengthType, NumberType DEF SentInv, StartScan, SendFrag
<1>2. /\ Offsets' = Offsets /\ Fragmented' = Fragmented
      /\ \A j, o : Frag(j, o)' = Frag(j, o) /\ Whole(j)' = Whole(j) /\ Size(o)' = Size(o)
  BY <1>1 DEF Offsets, Fragmented, Frag, Whole, Size
<1>3. CASE ~Fragmented
  <2>1. net' = Append(net, Whole(sent + 1))
    BY <1>1, <1>2, <1>3, SendsWhole, SendsFrag
  <2>2. /\ Len(net') = Len(net) + 1 /\ \A i \in 1..Len(net) : net'[i] = net[i]
    BY <1>1, <2>1, AppendLast
  <2> QED
    BY <1>1, <1>2, <1>3, <2>2 DEF Intact
<1>4. CASE Fragmented /\ StartScan
  <2>1. net' = net /\ word_offset = L /\ word_offset' = 0 /\ sent' = sent + 1
    BY <1>4 DEF StartScan
  <2>2. \A x \in Offsets : x + Size(x) # L => word_offset # x + Size(x)
    BY <2>1
  <2>3. Linked(k)'
    <3> SUFFICES ASSUME NEW i \in 1..Len(net), NEW x \in Offsets, net[i] = Frag(k, x),
                        x + Size(x) # L
                 PROVE  i < Len(net) /\ net[i + 1] = Frag(k, x + Size(x))
      BY <1>1, <1>2, <2>1 DEF Linked
    <3>1. IF i < Len(net) THEN net[i + 1] = Frag(k, x + Size(x)) ELSE word_offset = x + Size(x)
      BY <1>4 DEF Intact, Linked
    <3> QED
      BY <2>2, <3>1
  <2>4. Coming(k) => Coming(k)'
    BY <1>1, <1>2, <2>1 DEF Coming
  <2>5. Underway(k) => Underway(k)'
    <3>1. cur_word # L
      BY <1>1, SizeOf DEF RecvInv
    <3> QED
      BY <1>1, <1>2, <2>1, <3>1 DEF Underway, receiver
  <2> QED
    BY <1>2, <1>4, <2>3, <2>4, <2>5 DEF Intact
<1>5. CASE Fragmented /\ SendFrag
  <2> DEFINE o == word_offset
             d == Frag(sent, o)
  <2>1. /\ o \in Offsets /\ net' = Append(net, d) /\ sent' = sent
        /\ word_offset' = o + Size(o) /\ sent >= 1
    BY <1>5, SendsFrag DEF SentInv
  <2>2. d \in Datagrams
    BY <1>1, <1>5, <2>1 DEF Datagrams
  <2> HIDE DEF d
  <2>3. /\ Len(net') = Len(net) + 1 /\ net'[Len(net) + 1] = d
        /\ \A i \in 1..Len(net) : net'[i] = net[i]
    BY <1>1, <2>1, AppendLast
  <2>4. Linked(k)'
    <3> SUFFICES ASSUME NEW i \in 1..Len(net'), NEW x \in Offsets, net'[i] = Frag(k, x),
                        x + Size(x) # L
                 PROVE  IF i < Len(net') THEN net'[i + 1] = Frag(k, x + Size(x))
                        ELSE k = sent /\ word_offset' = x + Size(x)
      BY <1>1, <1>2, <2>1 DEF Linked
    <3>1. CASE i \in 1..Len(net)
      <4>1. IF i < Len(net) THEN net[i + 1] = Frag(k, x + Size(x))
            ELSE k = sent /\ o = x + Size(x)
        BY <1>5, <2>3, <3>1 DEF Intact, Linked
      <4>2. i < Len(net')
        BY <1>1, <2>3, <3>1
      <4>3. CASE i < Len(net)
        <5>1. i + 1 \in 1..Len(net)
          BY <1>1, <3>1, <4>3
        <5> QED
          BY <2>3, <4>1, <4>2, <4>3, <5>1
      <4>4. CASE ~(i < Len(net))
        <5>1. i + 1 = Len(net) + 1
          BY <1>1, <3>1, <4>4
        <5> QED
          BY <2>3, <4>1, <4>2, <4>4, <5>1 DEF d
      <4> QED
        BY <4>3, <4>4
    <3>2. CASE i = Len(net) + 1
      <4>1. k = sent /\ x = o
        BY <1>1, <2>1, <2>3, <3>2, OneFragment DEF d
      <4>2. ~(i < Len(net'))
        BY <1>1, <2>3, <3>2
      <4> QED
        BY <2>1, <4>1, <4>2
    <3> QED
      BY <1>1, <2>3, <3>1, <3>2
  <2>5. Coming(k) => Coming(k)'
    <3>1. ASSUME NEW i \in 1..Len(net), net[i] = Frag(k, 0) PROVE Coming(k)'
      <4>1. i \in 1..Len(net') /\ net'[i] = Frag(k, 0)
        BY <1>1, <2>3, <3>1
      <4> QED
        BY <1>2, <4>1 DEF Coming
    <3>2. CASE k = sent /\ word_offset = 0
      <4>1. Len(net) + 1 \in 1..Len(net') /\ net'[Len(net) + 1] = Frag(k, 0)
        BY <1>1, <2>3, <3>2 DEF d
      <4> QED
        BY <1>2, <4>1 DEF Coming
    <3> QED
      BY <3>1, <3>2 DEF Coming
  <2>6. Underway(k) => Underway(k)'
    <3> SUFFICES ASSUME Underway(k) PROVE net' # <<>> /\ net'[1] = Frag(k, cur_word)
      BY <1>1, <1>2 DEF Underway, receiver
    <3>1. net' # <<>>
      BY <1>1, <2>3
    <3>2. CASE net = <<>>
      BY <2>3, <3>2 DEF Underway, d
    <3>3. CASE net # <<>>
      <4>1. 1 \in 1..Len(net)
        BY <1>1, <3>3, EmptySeq
      <4> QED
        BY <2>3, <3>3, <4>1 DEF Underway
    <3> QED
      BY <3>1, <3>2, <3>3
  <2> QED
    BY <1>2, <1>5, <2>4, <2>5, <2>6 DEF Intact
<1> QED
  BY <1>3, <1>4, <1>5

\* A scan stays logged.
LEMMA StaysLogged ==
  ASSUME SentInv, RecvInv, [Next]_vars, NEW k \in 1..sent, Has(k)
  PROVE  Has(k)'
<1>1. L' = L
  BY DEF Next, vars, sender, StartScan, SendFrag, Lose, Swap, Duplicate, Fault, ReceiveWhole,
     ReceiveFrag, Arrives
<1>2. Whole(k)' = Whole(k)
  BY <1>1 DEF Whole
<1>3. /\ Len(output) \in Nat /\ output \in Seq({Whole(n) : n \in 1..sent})
  BY OutputType
<1>4. CASE output' = output
  BY <1>2, <1>4 DEF Has
<1>5. ASSUME NEW e, output' = Append(output, e) PROVE Has(k)'
  <2>1. /\ Len(output') = Len(output) + 1
        /\ \A n \in 1..Len(output) : output'[n] = output[n]
    BY <1>3, <1>5, AppendLast
  <2> QED
    BY <1>2, <1>3, <2>1 DEF Has
<1>6. output' = output \/ \E e : output' = Append(output, e)
  <2>1. CASE ReceiveWhole \/ ReceiveFrag
    BY <2>1, Writes
  <2>2. CASE ~(ReceiveWhole \/ ReceiveFrag)
    BY <2>2 DEF Next, vars, receiver, StartScan, SendFrag, Lose, Swap, Duplicate, Fault
  <2> QED
    BY <2>1, <2>2
<1> QED
  BY <1>4, <1>5, <1>6

\* The receiver logs an intact scan or goes on with it, whatever it was doing before.
LEMMA TakesIntact ==
  ASSUME SentInv, RecvInv, cur_word = 0 => scan_OK, ReceiveWhole \/ ReceiveFrag,
         NEW k \in 1..sent, Intact(k), SN(net[1]) = k
  PROVE  Has(k)' \/ Intact(k)'
<1>1. /\ L \in Nat /\ L >= 1 /\ sent \in Nat /\ k \in Nat /\ Len(net) \in Nat
      /\ UNCHANGED sender /\ L' = L /\ sent' = sent /\ word_offset' = word_offset
      /\ net # <<>> /\ net' = Tail(net) /\ net \in Seq(Datagrams)
  BY LengthType, NumberType, Writes DEF SentInv, sender
<1>2. /\ Offsets' = Offsets /\ Fragmented' = Fragmented
      /\ \A j, o : Frag(j, o)' = Frag(j, o) /\ Whole(j)' = Whole(j) /\ Size(o)' = Size(o)
  BY <1>1 DEF Offsets, Fragmented, Frag, Whole, Size
<1>3. /\ Len(net) >= 1 /\ Head(net) = net[1] /\ Len(net') = Len(net) - 1
      /\ \A i \in 1..Len(net') : net'[i] = net[i + 1]
  BY <1>1, HeadTailProperties
<1>4. ASSUME output' = Append(output, Whole(k)) PROVE Has(k)'
  <2>1. output \in Seq({Whole(n) : n \in 1..sent}) /\ Len(output) \in Nat
    BY OutputType
  <2>2. Len(output') = Len(output) + 1 /\ output'[Len(output) + 1] = Whole(k)
    BY <1>4, <2>1, AppendLast
  <2> QED
    BY <1>2, <2>1, <2>2 DEF Has
<1>5. CASE ReceiveWhole
  <2>1. PICK j \in 1..sent : Head(net) = Whole(j) /\ output' = Append(output, Whole(j))
    BY <1>5, LogsWhole
  <2>2. j = k
    BY <1>1, <1>3, <2>1, Numbers
  <2> QED
    BY <1>4, <2>1, <2>2
<1>6. CASE ReceiveFrag
  <2>1. PICK j \in 1..sent, o \in Offsets : Head(net) = Frag(j, o) /\ Taken(j, o)
    BY <1>6, TakesFrag
  <2>2. j = k /\ net[1] = Frag(k, o) /\ Taken(k, o)
    <3>1. SN(Frag(j, o)) = j
      BY <1>1, Numbers
    <3>2. j = k
      BY <1>3, <2>1, <3>1, Zenon
    <3> QED
      BY <1>3, <2>1, <3>2
  <2>3. Fragmented /\ Linked(k) /\ logger' = logger
    BY <1>6, TakesFrag DEF Intact
  <2>4. Linked(k)'
    <3> SUFFICES ASSUME NEW i \in 1..Len(net'), NEW x \in Offsets, net'[i] = Frag(k, x),
                        x + Size(x) # L
                 PROVE  IF i < Len(net') THEN net'[i + 1] = Frag(k, x + Size(x))
                        ELSE k = sent /\ word_offset = x + Size(x)
      BY <1>1, <1>2 DEF Linked
    <3>1. /\ i + 1 \in 1..Len(net) /\ net[i + 1] = Frag(k, x)
          /\ i < Len(net') <=> i + 1 < Len(net)
      BY <1>1, <1>3
    <3>2. IF i + 1 < Len(net) THEN net[(i + 1) + 1] = Frag(k, x + Size(x))
          ELSE k = sent /\ word_offset = x + Size(x)
      BY <2>3, <3>1 DEF Linked
    <3>3. i < Len(net') => i + 1 \in 1..Len(net')
      BY <1>1, <1>3
    <3> QED
      BY <1>3, <3>1, <3>2, <3>3
  <2>5. CASE o = 0 \/ (cur_word # 0 /\ Underway(k))
    <3> DEFINE h == Header(k, o, L - o = Size(o))
    <3>1. h.offset = o /\ h.sn = k /\ h.last = (L - o = Size(o))
      BY DEF Header
    <3> HIDE DEF h
    <3>2. FragOK(h)
      <4>1. CASE o = 0
        BY <3>1, <4>1 DEF FragOK, Restarts
      <4>2. CASE cur_word # 0 /\ Underway(k)
        <5>1. cur_word = o /\ scan_OK /\ scan_serial_number = k
          BY <1>1, <2>2, <4>2, OneFragment DEF Underway, RecvInv
        <5> QED
          BY <3>1, <5>1 DEF FragOK
      <4> QED
        BY <2>5, <4>1, <4>2
    <3>3. CASE h.last
      BY <1>4, <2>2, <3>2, <3>3 DEF Taken, h
    <3>4. CASE ~h.last
      <4>1. L - o # Size(o)
        BY <3>1, <3>4, Zenon
      <4>2. /\ o + Size(o) \in Offsets /\ o \in Nat /\ Size(o) \in Nat /\ Size(o) >= 1
            /\ o + Size(o) < L
        <5>1. o + Size(o) \in Offsets
          BY <1>1, <4>1, NextOffset
        <5> QED
          BY <1>1, <5>1, SizeOf
      <4>3. ~Resets(h, o + Size(o))
        <5>1. o + Size(o) + F + 1 <= SSP_CLIENT_BUF_LENGTH
          BY <4>2, Fits DEF SentInv
        <5>2. SSP_CLIENT_BUF_LENGTH \in Nat /\ F \in Nat
          BY <1>1, AtHand, Sizes
        <5>3. ~(o + Size(o) + F > SSP_CLIENT_BUF_LENGTH)
          BY <4>2, <5>1, <5>2
        <5> QED
          BY <3>4, <5>3 DEF Resets
      <4>4. /\ cur_word' = o + Size(o) /\ scan_OK'
            /\ scan_serial_number' = k
        BY <2>2, <3>2, <4>3 DEF Taken, h
      <4>5. IF 1 < Len(net) THEN net[1 + 1] = Frag(k, o + Size(o))
            ELSE k = sent /\ word_offset = o + Size(o)
        <5>1. 1 \in 1..Len(net) /\ o + Size(o) # L
          BY <1>1, <1>3, <4>2
        <5> QED
          BY <2>2, <2>3, <5>1 DEF Linked
      <4>6. IF net' = <<>> THEN k = sent /\ word_offset = o + Size(o)
            ELSE net'[1] = Frag(k, o + Size(o))
        <5>1. CASE 1 < Len(net)
          <6>1. 1 \in 1..Len(net') /\ Len(net') # 0
            BY <1>1, <1>3, <5>1
          <6>2. net' # <<>>
            BY <6>1, EmptySeq
          <6> QED
            BY <1>3, <4>5, <5>1, <6>1, <6>2
        <5>2. CASE ~(1 < Len(net))
          <6>1. Len(net') = 0 /\ net' \in Seq(Datagrams)
            BY <1>1, <1>3, <5>2, HeadTailProperties
          <6>2. net' = <<>>
            BY <6>1, EmptySeq
          <6> QED
            BY <4>5, <5>2, <6>2
        <5> QED
          BY <5>1, <5>2
      <4>7. Underway(k)'
        BY <1>1, <1>2, <4>2, <4>4, <4>6 DEF Underway
      <4> QED
        BY <1>2, <2>3, <2>4, <4>7 DEF Intact
    <3> QED
      BY <3>3, <3>4
  <2>6. CASE ~(o = 0 \/ (cur_word # 0 /\ Underway(k)))
    <3>1. Coming(k)
      BY <2>3, <2>6 DEF Intact, Underway
    <3>2. CASE k = sent /\ word_offset = 0
      BY <1>1, <1>2, <2>3, <2>4, <3>2 DEF Intact, Coming
    <3>3. ASSUME NEW i \in 1..Len(net), net[i] = Frag(k, 0) PROVE Coming(k)'
      <4>1. i # 1
        BY <1>1, <2>2, <2>6, <3>3, ZeroOffset, OneFragment
      <4>2. PICK r \in 1..Len(net') : i = r + 1
        <5>1. i - 1 \in 1..Len(net') /\ i = (i - 1) + 1
          BY <1>1, <1>3, <4>1
        <5> QED
          BY <5>1
      <4>3. net'[r] = Frag(k, 0)
        BY <1>3, <3>3, <4>2
      <4> QED
        BY <1>2, <4>3 DEF Coming
    <3> QED
      BY <1>2, <2>3, <2>4, <3>1, <3>2, <3>3 DEF Intact, Coming
  <2> QED
    BY <2>5, <2>6
<1> QED
  BY <1>5, <1>6

\* Two datagrams in the wrong order are counted twice, other faults once.
LEMMA Costs ==
  ASSUME faults \in Seq(NetFaults)
  PROVE  /\ Damage \in Nat
         /\ \A kind : Fault(kind) => Damage' = IF kind = "swap" THEN Damage + 2 ELSE Damage + 1
<1> DEFINE swaps == {n \in DOMAIN faults : faults[n] = "swap"}
<1>1. Len(faults) \in Nat /\ DOMAIN faults = 1..Len(faults)
  BY LenProperties
<1>2. IsFiniteSet(swaps) /\ Cardinality(swaps) \in Nat
  <2>1. IsFiniteSet(1..Len(faults))
    BY <1>1, FS_Interval
  <2>2. swaps \subseteq 1..Len(faults)
    BY <1>1
  <2> HIDE DEF swaps
  <2>3. IsFiniteSet(swaps)
    BY <2>1, <2>2, FS_Subset
  <2> QED
    BY <2>3, FS_CardinalityType
<1>3. ASSUME NEW kind, Fault(kind)
      PROVE  Damage' = IF kind = "swap" THEN Damage + 2 ELSE Damage + 1
  <2>1. kind \in NetFaults /\ faults' = Append(faults, kind)
    BY <1>3 DEF Fault
  <2>2. /\ Len(faults') = Len(faults) + 1 /\ faults'[Len(faults) + 1] = kind
        /\ \A n \in 1..Len(faults) : faults'[n] = faults[n]
        /\ DOMAIN faults' = 1..Len(faults) + 1
    BY <1>1, <2>1, AppendProperties, LenProperties
  <2>3. \A n : n \in 1..Len(faults) + 1 <=> n \in 1..Len(faults) \/ n = Len(faults) + 1
    BY <1>1
  <2>4. CASE kind = "swap"
    <3>1. swaps' = swaps \cup {Len(faults) + 1} /\ Len(faults) + 1 \notin swaps
      BY <1>1, <2>2, <2>3, <2>4
    <3>2. Damage = Len(faults) + Cardinality(swaps) /\ Damage' = Len(faults') + Cardinality(swaps')
      BY DEF Damage
    <3> HIDE DEF swaps
    <3>3. Cardinality(swaps') = Cardinality(swaps) + 1
      BY <1>2, <3>1, FS_AddElement
    <3> QED
      BY <1>1, <1>2, <2>2, <2>4, <3>2, <3>3
  <2>5. CASE kind # "swap"
    <3>1. swaps' = swaps
      BY <1>1, <2>2, <2>3, <2>5
    <3>2. Damage = Len(faults) + Cardinality(swaps) /\ Damage' = Len(faults') + Cardinality(swaps')
      BY DEF Damage
    <3> HIDE DEF swaps
    <3> QED
      BY <1>1, <1>2, <2>2, <2>5, <3>1, <3>2
  <2> QED
    BY <2>4, <2>5
<1>4. Damage \in Nat
  BY <1>1, <1>2 DEF Damage
<1> QED
  BY <1>3, <1>4

\* Taking a datagram away costs its own scan at the most.
LEMMA TailIntact ==
  ASSUME SentInv, RecvInv, net # <<>>, net' = Tail(net), UNCHANGED sender,
         NEW k \in 1..sent, Intact(k), k # SN(net[1])
  PROVE  Intact(k)'
<1>1. net \in Seq(Datagrams) /\ Len(net) \in Nat
  BY NumberType DEF SentInv
<1>2. /\ Len(net) >= 1 /\ Len(net') = Len(net) - 1 /\ net' \in Seq(Datagrams)
      /\ \A i \in 1..Len(net') : net'[i] = net[i + 1]
  BY <1>1, HeadTailProperties
<1>3. /\ Len(net') = Len(net) - 1 + 0
      /\ \A i \in 1..1 : SN(net[i]) # k
      /\ \A i \in 1..0 : SN(net'[i]) # k
      /\ \A i \in 1..Len(net) - 1 : net'[0 + i] = net[1 + i]
  BY <1>1, <1>2
<1> DEFINE p == 1
           m == 0
<1>8. /\ p \in Nat /\ m \in Nat /\ p >= 1 /\ p <= Len(net)
      /\ Len(net') = Len(net) - p + m
      /\ \A i \in 1..p : SN(net[i]) # k
      /\ \A i \in 1..m : SN(net'[i]) # k
      /\ \A i \in 1..Len(net) - p : net'[m + i] = net[p + i]
  BY <1>1, <1>2, <1>3
<1> HIDE DEF p, m
<1> QED
  BY <1>1, <1>2, <1>8, OthersIntact

\* So does one that arrives twice.
LEMMA DuplicateCosts ==
  ASSUME SentInv, RecvInv, Duplicate, NEW k \in 1..sent, Intact(k), k # SN(net[1])
  PROVE  Intact(k)'
<1>1. /\ net # <<>> /\ net' = <<net[1]>> \o net /\ net \in Seq(Datagrams) /\ Len(net) \in Nat
      /\ UNCHANGED sender /\ net' \in Seq(Datagrams)
  BY NumberType, NetSteps DEF Duplicate, Fault, SentInv
<1>2. Len(net) >= 1
  BY <1>1, EmptySeq
<1>3. net[1] \in Datagrams
  BY <1>1, <1>2, ElementOfSeq
<1>4. /\ Len(net') = Len(net) + 1 /\ net'[1] = net[1]
      /\ \A i \in 1..Len(net) : net'[i + 1] = net[i]
  <2>1. <<net[1]>> \in Seq(Datagrams) /\ Len(<<net[1]>>) = 1 /\ <<net[1]>>[1] = net[1]
    BY <1>3
  <2>2. /\ Len(net') = 1 + Len(net)
        /\ \A i \in 1..1 + Len(net) :
             net'[i] = IF i <= 1 THEN <<net[1]>>[i] ELSE net[i - 1]
    BY <1>1, <2>1, ConcatProperties
  <2> QED
    BY <1>1, <2>1, <2>2
<1>5. 1 \in 1..Len(net) /\ net'[2] = net[1]
  <2>1. 1 \in 1..Len(net) /\ 1 + 1 = 2
    BY <1>1, <1>2
  <2> QED
    BY <1>4, <2>1
<1>6. ASSUME NEW i \in 1..Len(net) - 1 PROVE net'[2 + i] = net[1 + i]
  <2>1. 1 + i \in 1..Len(net) /\ (1 + i) + 1 = 2 + i
    BY <1>1
  <2> QED
    BY <1>4, <2>1
<1>7. /\ Len(net') = Len(net) - 1 + 2
      /\ \A i \in 1..1 : SN(net[i]) # k
      /\ \A i \in 1..2 : SN(net'[i]) # k
  <2>1. \A i \in 1..2 : i = 1 \/ i = 2
    OBVIOUS
  <2> QED
    BY <1>1, <1>4, <1>5, <2>1
<1> DEFINE p == 1
           m == 2
<1>8. /\ p \in Nat /\ m \in Nat /\ p >= 1 /\ p <= Len(net)
      /\ Len(net') = Len(net) - p + m
      /\ \A i \in 1..p : SN(net[i]) # k
      /\ \A i \in 1..m : SN(net'[i]) # k
      /\ \A i \in 1..Len(net) - p : net'[m + i] = net[p + i]
  BY <1>1, <1>2, <1>6, <1>7
<1> HIDE DEF p, m
<1> QED
  BY <1>1, <1>2, <1>8, OthersIntact

\* Two that arrive in the wrong order cost theirs.
LEMMA SwapCosts ==
  ASSUME SentInv, RecvInv, Swap, NEW k \in 1..sent, Intact(k), k # SN(net[1]), k # SN(net[2])
  PROVE  Intact(k)'
<1>1. /\ net' = <<net[2], net[1]>> \o SubSeq(net, 3, Len(net)) /\ Len(net) \in Nat /\ Len(net) >= 2
      /\ net \in Seq(Datagrams) /\ UNCHANGED sender /\ net' \in Seq(Datagrams)
  BY NumberType, NetSteps DEF Swap, Fault, SentInv
<1>2. net[1] \in Datagrams /\ net[2] \in Datagrams
  BY <1>1, ElementOfSeq
<1> DEFINE two == <<net[2], net[1]>>
           rest == SubSeq(net, 3, Len(net))
<1>3. two \in Seq(Datagrams) /\ Len(two) = 2 /\ two[1] = net[2] /\ two[2] = net[1]
  BY <1>2
<1>4. /\ rest \in Seq(Datagrams) /\ Len(rest) = Len(net) - 2
      /\ \A i \in 1..Len(net) - 2 : rest[i] = net[2 + i]
  <2>1. \A i \in 3..Len(net) : net[i] \in Datagrams
    BY <1>1, ElementOfSeq
  <2>2. /\ rest \in Seq(Datagrams)
        /\ Len(rest) = IF 3 <= Len(net) THEN Len(net) - 3 + 1 ELSE 0
        /\ \A i \in 1..Len(net) - 3 + 1 : rest[i] = net[3 + i - 1]
    BY <1>1, <2>1, SubSeqProperties
  <2> HIDE DEF rest
  <2>3. Len(rest) = Len(net) - 2
    BY <1>1, <2>2
  <2>4. ASSUME NEW i \in 1..Len(net) - 2 PROVE rest[i] = net[2 + i]
    <3>1. i \in 1..Len(net) - 3 + 1 /\ 3 + i - 1 = 2 + i
      BY <1>1
    <3> QED
      BY <2>2, <3>1
  <2> QED
    BY <2>2, <2>3, <2>4
<1>5. net' = two \o rest
  BY <1>1
<1> HIDE DEF two, rest
<1>6. /\ Len(net') = Len(net) /\ net'[1] = net[2] /\ net'[2] = net[1]
      /\ \A i \in 1..Len(net) - 2 : net'[2 + i] = net[2 + i]
  <2>1. /\ Len(net') = Len(two) + Len(rest)
        /\ \A i \in 1..Len(two) + Len(rest) :
             net'[i] = IF i <= Len(two) THEN two[i] ELSE rest[i - Len(two)]
    BY <1>3, <1>4, <1>5, ConcatProperties
  <2>2. Len(net') = Len(net)
    BY <1>1, <1>3, <1>4, <2>1
  <2>3. net'[1] = net[2] /\ net'[2] = net[1]
    BY <1>1, <1>3, <1>4, <2>1
  <2>4. ASSUME NEW i \in 1..Len(net) - 2 PROVE net'[2 + i] = net[2 + i]
    <3>1. 2 + i \in 1..Len(two) + Len(rest) /\ ~(2 + i <= Len(two)) /\ (2 + i) - Len(two) = i
      BY <1>1, <1>3, <1>4
    <3> QED
      BY <1>4, <2>1, <3>1
  <2> QED
    BY <2>2, <2>3, <2>4
<1>7. /\ Len(net') = Len(net) - 2 + 2
      /\ \A i \in 1..2 : SN(net[i]) # k
      /\ \A i \in 1..2 : SN(net'[i]) # k
  <2>1. \A i \in 1..2 : i = 1 \/ i = 2
    OBVIOUS
  <2> QED
    BY <1>1, <1>6, <2>1
<1> DEFINE p == 2
           m == 2
<1>8. /\ p \in Nat /\ m \in Nat /\ p >= 1 /\ p <= Len(net)
      /\ Len(net') = Len(net) - p + m
      /\ \A i \in 1..p : SN(net[i]) # k
      /\ \A i \in 1..m : SN(net'[i]) # k
      /\ \A i \in 1..Len(net) - p : net'[m + i] = net[p + i]
  BY <1>1, <1>6, <1>7
<1> HIDE DEF p, m
<1> QED
  BY <1>1, <1>2, <1>8, OthersIntact

\* Receiving a datagram logs an intact scan or leaves it intact.
LEMMA ReceivesIntact ==
  ASSUME SentInv, RecvInv, cur_word = 0 => scan_OK, ReceiveWhole \/ ReceiveFrag,
         NEW k \in 1..sent, Intact(k)
  PROVE  Has(k)' \/ Intact(k)'
<1>1. CASE SN(net[1]) = k
  BY <1>1, TakesIntact
<1>2. CASE SN(net[1]) # k
  BY <1>2, Writes, TailIntact
<1> QED
  BY <1>1, <1>2

\* A scan that is not intact any more is counted: those of S, that the step damages.
LEMMA DamageGrows ==
  ASSUME SentInv, UNCHANGED <<L, sent, output>>, NEW B \in SUBSET (1..sent), Damaged(B),
         NEW S \in SUBSET (1..sent), IsFiniteSet(S), Damage \in Nat, Damage' \in Nat,
         Cardinality(S) <= Damage' - Damage,
         \A k \in (1..sent) \ S : Intact(k) => Intact(k)'
  PROVE  B \cup S \in SUBSET (1..sent') /\ Damaged(B \cup S)'
<1>1. sent \in Nat /\ sent' = sent
  BY NumberType
<1>2. IsFiniteSet(B) /\ Cardinality(B) \in Nat /\ Cardinality(S) \in Nat
  <2>1. IsFiniteSet(1..sent)
    BY <1>1, FS_Interval
  <2>2. IsFiniteSet(B)
    BY <2>1, FS_Subset
  <2> QED
    BY <2>2, FS_CardinalityType
<1>3. Cardinality(B \cup S) \in Nat /\ Cardinality(B \cup S) <= Cardinality(B) + Cardinality(S)
  <2>1. /\ IsFiniteSet(B \cup S) /\ IsFiniteSet(B \cap S)
        /\ Cardinality(B \cup S) = Cardinality(B) + Cardinality(S) - Cardinality(B \cap S)
    BY <1>2, FS_Union, FS_Intersection
  <2>2. Cardinality(B \cap S) \in Nat /\ Cardinality(B \cup S) \in Nat
    BY <2>1, FS_CardinalityType
  <2> QED
    BY <1>2, <2>1, <2>2
<1>4. Cardinality(B \cup S) <= Damage'
  BY <1>2, <1>3 DEF Damaged
<1>5. \A k : Has(k) => Has(k)'
  BY DEF Has, Whole
<1>6. \A k \in (1..sent') \ (B \cup S) : Has(k)' \/ Intact(k)'
  BY <1>1, <1>5 DEF Damaged
<1> QED
  BY <1>1, <1>4, <1>6 DEF Damaged

\* Damage is done by faults only, and no more than they cost.
LEMMA DamageStep ==
  ASSUME SentInv, RecvInv, faults \in Seq(NetFaults), DamageInv, [Next]_vars
  PROVE  DamageInv'
<1>1. /\ sent \in Nat /\ Len(net) \in Nat /\ L \in Nat /\ L >= 1
      /\ \A i \in 1..Len(net) : SN(net[i]) \in 1..sent
  BY NumberType, LengthType DEF SentInv
<1>2. PICK B \in SUBSET (1..sent) : Damaged(B)
  BY DEF DamageInv
<1>3. (cur_word = 0 => scan_OK)'
  <2>1. CASE ReceiveFrag
    <3>1. PICK k \in 1..sent, o \in Offsets : Taken(k, o)
      BY <2>1, TakesFrag
    <3>2. o + Size(o) # 0
      BY <1>1, SizeOf
    <3> QED
      BY <3>1, <3>2 DEF Taken
  <2>2. CASE ~ReceiveFrag
    BY <2>2 DEF Next, vars, receiver, StartScan, SendFrag, Lose, Swap, Duplicate, Fault,
       ReceiveWhole, NextWhole, DamageInv
  <2> QED
    BY <2>1, <2>2
<1>4. CASE UNCHANGED vars
  <2>0. UNCHANGED <<L, sent, word_offset, net, cur_word, scan_OK, scan_serial_number, output, faults>>
    BY <1>4 DEF vars, sender, receiver
  <2>2. /\ Offsets' = Offsets /\ Fragmented' = Fragmented
        /\ \A j, o : Frag(j, o)' = Frag(j, o) /\ Whole(j)' = Whole(j) /\ Size(o)' = Size(o)
    BY <2>0 DEF Offsets, Fragmented, Frag, Whole, Size
  <2>3. \A k : Has(k) => Has(k)'
    BY <2>0, <2>2 DEF Has
  <2>4. \A k : Intact(k) => Intact(k)'
    BY <2>0, <2>2 DEF Intact, Linked, Coming, Underway
  <2>5. Damage' = Damage
    BY <2>0 DEF Damage
  <2>1. Damaged(B)' /\ sent' = sent
    BY <1>2, <2>0, <2>3, <2>4, <2>5 DEF Damaged
  <2> QED
    BY <1>3, <2>1 DEF DamageInv
<1>5. CASE StartScan \/ SendFrag \/ ReceiveWhole \/ ReceiveFrag
  <2>1. sent' \in Nat /\ sent' >= sent /\ faults' = faults
    BY <1>1, <1>5 DEF StartScan, SendFrag, ReceiveWhole, ReceiveFrag, Arrives, sender
  <2>2. Damage' = Damage
    BY <2>1 DEF Damage
  <2>3. B \in SUBSET (1..sent')
    BY <1>1, <2>1
  <2>4. ASSUME NEW k \in (1..sent') \ B PROVE Has(k)' \/ Intact(k)'
    <3>1. CASE k \in 1..sent
      <4>1. CASE Has(k)
        BY <1>5, <3>1, <4>1, StaysLogged DEF Next
      <4>2. CASE Intact(k) /\ (StartScan \/ SendFrag)
        BY <3>1, <4>2, SendsIntact
      <4>3. CASE Intact(k) /\ (ReceiveWhole \/ ReceiveFrag)
        BY <3>1, <4>3, ReceivesIntact DEF DamageInv
      <4> QED
        BY <1>2, <1>5, <3>1, <4>1, <4>2, <4>3 DEF Damaged
    <3>2. CASE k \notin 1..sent
      <4>1. sent' # sent
        BY <3>2
      <4>2. StartScan /\ sent' = sent + 1
        BY <1>5, <4>1 DEF StartScan, SendFrag, ReceiveWhole, ReceiveFrag, Arrives, sender
      <4>3. k = sent + 1
        BY <1>1, <2>1, <3>2, <4>2
      <4> QED
        BY <4>2, <4>3, BeginsIntact
    <3> QED
      BY <3>1, <3>2
  <2>5. Damaged(B)'
    BY <1>2, <2>2, <2>4 DEF Damaged
  <2> QED
    BY <1>3, <2>3, <2>5 DEF DamageInv
<1>6. CASE Lose \/ Duplicate
  <2>0. PICK S : S = {SN(net[1])}
    OBVIOUS
  <2>1. /\ UNCHANGED <<L, sent, output>> /\ net # <<>>
        /\ Damage \in Nat /\ Damage' = Damage + 1
    <3>1. Fault("lose") \/ Fault("dup")
      BY <1>6 DEF Lose, Duplicate
    <3> QED
      BY <1>6, <3>1, Costs DEF Lose, Duplicate, Fault, sender, receiver
  <2>2. S \in SUBSET (1..sent) /\ IsFiniteSet(S) /\ Cardinality(S) = 1
    <3>1. 1 \in 1..Len(net)
      BY <1>1, <2>1, EmptySeq DEF SentInv
    <3> QED
      BY <1>1, <2>0, <3>1, FS_Singleton
  <2>3. \A k \in (1..sent) \ S : Intact(k) => Intact(k)'
    BY <1>6, <2>0, TailIntact, DuplicateCosts DEF Lose, Fault
  <2>4. Damage' \in Nat /\ Cardinality(S) <= Damage' - Damage
    BY <2>1, <2>2
  <2>5. B \cup S \in SUBSET (1..sent') /\ Damaged(B \cup S)'
    BY <1>2, <2>1, <2>2, <2>3, <2>4, DamageGrows
  <2> QED
    BY <1>3, <2>5 DEF DamageInv
<1>7. CASE Swap
  <2>0. PICK S : S = {SN(net[1])} \cup {SN(net[2])}
    OBVIOUS
  <2>1. /\ UNCHANGED <<L, sent, output>> /\ Len(net) > 1
        /\ Damage \in Nat /\ Damage' = Damage + 2
    BY <1>7, Costs DEF Swap, Fault, sender, receiver
  <2>2. S \in SUBSET (1..sent) /\ IsFiniteSet(S) /\ Cardinality(S) <= 2
    <3>1. 1 \in 1..Len(net) /\ 2 \in 1..Len(net)
      BY <1>1, <2>1
    <3>2. IsFiniteSet({SN(net[1])}) /\ Cardinality({SN(net[1])}) = 1
      BY FS_Singleton
    <3>3. IsFiniteSet(S) /\ (Cardinality(S) = 1 \/ Cardinality(S) = 1 + 1)
      BY <2>0, <3>2, FS_AddElement
    <3> QED
      BY <1>1, <2>0, <3>1, <3>3
  <2>3. \A k \in (1..sent) \ S : Intact(k) => Intact(k)'
    BY <1>7, <2>0, SwapCosts
  <2>4. Cardinality(S) \in Nat
    BY <2>2, FS_CardinalityType
  <2>5. Damage' \in Nat /\ Cardinality(S) <= Damage' - Damage
    BY <2>1, <2>2, <2>4
  <2>6. B \cup S \in SUBSET (1..sent') /\ Damaged(B \cup S)'
    BY <1>2, <2>1, <2>2, <2>3, <2>5, DamageGrows
  <2> QED
    BY <1>3, <2>6 DEF DamageInv
<1> QED
  BY <1>4, <1>5, <1>6, <1>7 DEF Next

\* Before the first scan there is nothing to damage.
LEMMA DamageInit == Init => DamageInv
<1> SUFFICES ASSUME Init PROVE DamageInv
  OBVIOUS
<1>1. sent = 0 /\ scan_OK /\ faults = <<>>
  BY DEF Init
<1>2. Damage \in Nat
  <2>1. faults \in Seq(NetFaults)
    BY <1>1, EmptySeq
  <2> QED
    BY <2>1, Costs
<1>3. Cardinality({}) = 0 /\ 1..sent = {}
  BY <1>1, FS_EmptySet
<1>4. Damaged({})
  BY <1>2, <1>3 DEF Damaged
<1> QED
  BY <1>1, <1>4 DEF DamageInv

\* When nothing is under way, no scan is intact that has not been logged.
LEMMA SettledCosts ==
  ASSUME SentInv, RecvInv, DamageInv, faults \in Seq(NetFaults)
  PROVE  DamageBounded
<1> SUFFICES ASSUME net = <<>>, word_offset = L PROVE sent - Cardinality(Logged) <= Damage
  BY DEF DamageBounded
<1>1. sent \in Nat /\ L \in Nat /\ L >= 1 /\ Len(net) = 0
  BY NumberType, LengthType, EmptySeq DEF SentInv
<1>2. PICK B \in SUBSET (1..sent) : Damaged(B)
  BY DEF DamageInv
<1>3. ASSUME NEW k \in 1..sent PROVE ~Intact(k)
  <2>1. cur_word # L
    BY <1>1, SizeOf DEF RecvInv
  <2> QED
    BY <1>1, <2>1 DEF Intact, Coming, Underway
<1>4. ASSUME NEW k \in 1..sent, Has(k) PROVE k \in Logged
  <2>1. PICK n \in 1..Len(output) : output[n] = Whole(k)
    BY <1>4 DEF Has
  <2>2. IsWhole(output[n])
    BY <2>1 DEF IsWhole, Whole
  <2>4. output[n][1].scan = k /\ k # 0
    BY <1>1, <2>1, Numbers
  <2>3. n \in DOMAIN output
    BY OutputType, LenProperties
  <2> QED
    BY <2>2, <2>3, <2>4 DEF Logged, ScanOf
<1>5. Logged \subseteq 1..sent
  <2>1. ASSUME NEW n \in DOMAIN output, IsWhole(output[n]) PROVE output[n][1].scan \in 1..sent
    <3>1. PICK k \in 1..sent : output[n] = Whole(k)
      BY <2>1 DEF IsWhole, Whole
    <3> QED
      BY <1>1, <3>1, Numbers
  <2> QED
    BY <2>1 DEF Logged, ScanOf
<1>6. 1..sent \subseteq B \cup Logged
  BY <1>2, <1>3, <1>4 DEF Damaged
<1>7. IsFiniteSet(1..sent) /\ Cardinality(1..sent) = sent
  <2>1. 1 \in Int /\ sent \in Int
    BY <1>1
  <2> QED
    BY <1>1, <2>1, FS_Interval
<1>8. /\ IsFiniteSet(B) /\ IsFiniteSet(Logged) /\ Cardinality(B) \in Nat /\ Cardinality(Logged) \in Nat
  BY <1>5, <1>7, FS_Subset, FS_CardinalityType
<1>9. sent <= Cardinality(B) + Cardinality(Logged)
  <2>1. /\ IsFiniteSet(B \cup Logged) /\ IsFiniteSet(B \cap Logged)
        /\ Cardinality(B \cup Logged)
             = Cardinality(B) + Cardinality(Logged) - Cardinality(B \cap Logged)
    BY <1>8, FS_Union, FS_Intersection
  <2>2. Cardinality(B \cap Logged) \in Nat /\ Cardinality(B \cup Logged) \in Nat
    BY <2>1, FS_CardinalityType
  <2>3. sent <= Cardinality(B \cup Logged)
    BY <1>6, <1>7, <2>1, FS_Subset
  <2> QED
    BY <1>1, <1>8, <2>1, <2>2, <2>3
<1>10. Damage \in Nat /\ Cardinality(B) <= Damage
  BY <1>2, Costs DEF Damaged
<1> QED
  BY <1>1, <1>8, <1>9, <1>10

\* The receiver finds its way back from any number of faults: a datagram that is lost
\* or arrives twice costs at most the scan it is of, two that are exchanged theirs,
\* however the faults fall together.
THEOREM Recovers == ASSUME MaxScans < SNModulus PROVE Spec => []DamageBounded
<1>1. /\ SentInv /\ RecvInv /\ OrderInv /\ DamageInv /\ [Next]_vars => DamageInv'
  BY DamageStep DEF OrderInv
<1>2. SentInv /\ RecvInv /\ OrderInv /\ DamageInv => DamageBounded
  BY SettledCosts DEF OrderInv
<1> QED
  BY <1>1, <1>2, DamageInit, Ordered, PTL DEF Spec
=============================================================================
