------------------------- MODULE ScanAcquire_proofs -------------------------
(***************************************************************************)
(* Proofs about ScanAcquire: udpThread neither stores outside its buffer    *)
(* nor reads an empty FIFO, for scans of any length and a FIFO of any depth *)
(* from four words on.                                                      *)
(***************************************************************************)
EXTENDS ScanAcquire, TLAPS, SequenceTheorems

\* The types that TypeOK leaves to the counts it relates.
Counts ==
  /\ words_read \in Nat /\ words_remaining \in Nat /\ nwords \in Nat /\ nr \in Nat
  /\ reset \in BOOLEAN /\ fifo \in Seq([scan: Nat, i: Nat])

\* The FIFO has room for what the core has begun.
Room == Len(fifo) + L <= Depth + core_i

\* A word is there once Empty has been read as false, and all the words that
\* were asked for are there until they have been read: only udpThread takes
\* words out, and it asks for two only of a FIFO that is half full.
Available ==
  /\ udp = "count" => Len(fifo) >= 1
  /\ udp = "read" => Len(fifo) >= nwords - nr

IInv == TypeOK /\ Counts /\ Room /\ Available

\* A scan has a length, which is a natural number that is not 0.
LEMMA LengthType == Lengths \subseteq Nat \ {0} /\ Depth \in Nat /\ Depth >= 4
                    /\ MaxScans \in Nat
BY AcquireAssumption

\* Both hold before the first ENABLE.
LEMMA AcquireInit == Init => IInv
<1>. SUFFICES ASSUME Init PROVE IInv
  OBVIOUS
<1>1. L \in Nat \ {0} /\ core_i = L /\ Len(fifo) = 0 /\ fifo \in Seq([scan: Nat, i: Nat])
  BY LengthType DEF Init
<1>. QED
  BY <1>1, LengthType DEF Init, IInv, TypeOK, Counts, Room, Available

\* The core adds words and takes none; it has room for all of its scan.
LEMMA CoreStep == ASSUME IInv, CoreStart \/ CorePut PROVE IInv'
<1>1. CASE CoreStart
  <2>1. L \in Nat /\ core_i \in Nat /\ scans \in Nat /\ Len(fifo) \in Nat
    BY LengthType DEF IInv, TypeOK, Counts
  <2>. QED
    BY <1>1, <2>1, LengthType DEF CoreStart, buffer, IInv, TypeOK, Counts, Room,
       Available
<1>2. CASE CorePut
  <2>1. L \in Nat /\ core_i \in Nat /\ scans \in Nat /\ Len(fifo) \in Nat
    BY LengthType DEF IInv, TypeOK, Counts
  <2>2. Word(scans, core_i') \in [scan: Nat, i: Nat]
    BY <1>2, <2>1 DEF CorePut, Word
  <2>3. fifo' \in Seq([scan: Nat, i: Nat]) /\ Len(fifo') = Len(fifo) + 1
    BY <1>2, <2>2 DEF CorePut, IInv, Counts
  <2>. QED
    BY <1>2, <2>1, <2>3, LengthType DEF CorePut, buffer, IInv, TypeOK, Counts, Room,
       Available
<1>. QED
  BY <1>1, <1>2

\* Enabling and disabling empty the FIFO and start a scan from its beginning.
LEMMA SwitchStep ==
  ASSUME IInv, EnableReset \/ EnableRelease \/ Disable
  PROVE  IInv'
<1>1. CASE EnableReset
  <2>1. L' \in Nat \ {0} /\ fifo' \in Seq([scan: Nat, i: Nat]) /\ Len(fifo') = 0
    BY <1>1, LengthType DEF EnableReset, Resetting
  <2>2. udp' = "loaded" /\ L' \in Lengths /\ core_i' = L' /\ reset' = TRUE
        /\ fifo' = <<>> /\ UNCHANGED <<scans, words_read, words_remaining, nwords, nr>>
    BY <1>1 DEF EnableReset, Resetting, UdpGoto
  <2>3. TypeOK'
    <3>1. L' \in Nat /\ core_i' \in 0..L'
      BY <2>1, <2>2
    <3>2. Len(fifo') <= Depth /\ scans' \in 0..MaxScans
      BY <2>1, <2>2, LengthType DEF IInv, TypeOK
    <3>. QED
      BY <2>2, <3>1, <3>2 DEF TypeOK
  <2>4. Room'
    <3>1. \A l \in Nat \ {0} : 0 + l <= Depth + l
      BY LengthType
    <3>. QED
      BY <2>1, <2>2, <3>1, Zenon DEF Room
  <2>5. Counts' /\ Available'
    BY <2>1, <2>2 DEF IInv, Counts, Available
  <2>. QED
    BY <2>3, <2>4, <2>5 DEF IInv
<1>2. CASE EnableRelease
  <2>1. L \in Nat \ {0} /\ Len(fifo) \in Nat
    BY LengthType DEF IInv, TypeOK, Counts
  <2>2. udp' = "poll" /\ reset' = FALSE /\ words_remaining' = L /\ words_read' = 0
        /\ UNCHANGED <<fifo, scans, core_i, L, nwords, nr>>
    BY <1>2 DEF EnableRelease, UdpGoto
  <2>3. TypeOK'
    BY <2>1, <2>2 DEF IInv, TypeOK
  <2>4. Room'
    BY <2>2 DEF IInv, Room
  <2>5. Counts' /\ Available'
    BY <2>1, <2>2 DEF IInv, Counts, Available
  <2>. QED
    BY <2>3, <2>4, <2>5 DEF IInv
<1>3. CASE Disable
  <2>1. L' = L /\ L \in Nat \ {0} /\ fifo' \in Seq([scan: Nat, i: Nat])
        /\ Len(fifo') = 0
    BY <1>3, LengthType DEF Disable, Resetting, IInv, TypeOK
  <2>. QED
    BY <1>3, <2>1, LengthType DEF Disable, buffer, Resetting, UdpGoto, IInv, TypeOK,
       Counts, Room, Available
<1>. QED
  BY <1>1, <1>2, <1>3

\* No more words are read than the FIFO holds or the scan still needs.
LEMMA ReadStep == ASSUME IInv, ReadFifo PROVE IInv'
<1>1. /\ L \in Nat \ {0} /\ core_i \in Nat /\ Len(fifo) \in Nat
      /\ fifo = <<>> <=> Len(fifo) = 0
  BY LengthType DEF IInv, TypeOK, Counts
<1>2. CASE Poll
  BY <1>1, <1>2 DEF Poll, core, buffer, IInv, TypeOK, Counts, Room, Available
<1>3. CASE Count
  <2>1. PercentFull \in {0, 1} /\ PercentFull + 1 <= Len(fifo)
    BY <1>1, <1>3, LengthType DEF PercentFull, Count, UdpGoto, IInv, Available
  <2>2. nwords' \in Nat /\ nwords' <= words_remaining /\ nwords' <= Len(fifo)
    BY <1>1, <1>3, <2>1 DEF Count, WordsToRead, IInv, Counts
  <2>. QED
    BY <1>1, <1>3, <2>2 DEF Count, UdpGoto, core, IInv, TypeOK, Counts, Room, Available
<1>4. CASE ReadWord
  <2>1. fifo # <<>>
    BY <1>1, <1>4 DEF ReadWord, IInv, Counts, Available
  <2>2. fifo' \in Seq([scan: Nat, i: Nat]) /\ Len(fifo') = Len(fifo) - 1
    BY <1>4, <2>1 DEF ReadWord, IInv, Counts
  <2>3. reset => fifo' = <<>>
    BY <2>1 DEF IInv, TypeOK
  <2>. QED
    BY <1>1, <1>4, <2>2, <2>3, LengthType DEF ReadWord, IInv, TypeOK, Counts, Room,
       Available
<1>5. CASE Partial
  BY <1>1, <1>5 DEF Partial, UdpGoto, core, IInv, TypeOK, Counts, Room, Available
<1>6. CASE Complete
  BY <1>1, <1>6 DEF Complete, UdpGoto, core, IInv, TypeOK, Counts, Room, Available
<1>. QED
  BY <1>2, <1>3, <1>4, <1>5, <1>6 DEF ReadFifo

\* A word that ssp_read_fifo has counted is there.
LEMMA AcquireNonEmpty == ASSUME IInv, udp = "read", nr < nwords PROVE fifo # <<>>
BY DEF IInv, Counts, Available

\* The invariant that the theorems below read off.
LEMMA AcquireInductive == Spec => []IInv
<1>1. IInv /\ [Next]_vars => IInv'
  <2>. SUFFICES ASSUME IInv, [Next]_vars PROVE IInv'
    OBVIOUS
  <2>1. CASE Next
    BY <2>1, CoreStep, SwitchStep, ReadStep DEF Next, UdpThread
  <2>2. CASE UNCHANGED vars
    BY <2>2 DEF vars, core, buffer, IInv, TypeOK, Counts, Room, Available
  <2>. QED
    BY <2>1, <2>2
<1>. QED
  BY <1>1, AcquireInit, PTL DEF Spec

\* The scan buffer is written within the scan and the FIFO never overflows.
THEOREM BufferInBounds == Spec => []TypeOK
<1>1. IInv => TypeOK
  BY DEF IInv
<1>. QED
  BY <1>1, AcquireInductive, PTL

\* ssp_ArrayRead never reads an empty FIFO.
THEOREM NeverUnderflows == Spec => []NoUnderflow
<1>1. IInv => NoUnderflow
  BY DEF IInv, Counts, Available, NoUnderflow
<1>. QED
  BY <1>1, AcquireInductive, PTL

-----------------------------------------------------------------------------
(* The words between the core and the network.  They are a chain: each word  *)
(* follows the one before, in the same scan, or begins a later scan.         *)

Words == [scan : Nat, i : Nat]

\* v may come after w, in scans of l words.
Follows(l, w, v) == IF w.i = l THEN v.i = 1 /\ v.scan > w.scan ELSE v = Word(w.scan, w.i + 1)

\* The words f follow w and each other; no scan is later than scan s.
Chained(f, l, w, s) ==
  /\ f # <<>> => Follows(l, w, f[1])
  /\ \A j \in 1..Len(f) - 1 : Follows(l, f[j], f[j + 1])
  /\ \A j \in 1..Len(f) : f[j].scan <= s

\* The last of w and the words f.
End(f, w) == IF f = <<>> THEN w ELSE f[Len(f)]

\* What the core has written last, when it has written c words of scan s.
LastPut(c, l, w, s) ==
  IF c \in 1..l - 1 THEN w = Word(s, c) ELSE w.i = l /\ w.scan <= s /\ (c = 0 => w.scan < s)

\* No words are a chain, which ends where it began.
LEMMA ChainEmpty ==
  ASSUME NEW l, NEW w, NEW s PROVE Chained(<<>>, l, w, s) /\ End(<<>>, w) = w
BY DEF Chained, End

\* A chain is one still when the next scan begins.
LEMMA ChainLater ==
  ASSUME NEW f \in Seq(Words), NEW l, NEW w, NEW s \in Nat, Chained(f, l, w, s)
  PROVE  Chained(f, l, w, s + 1)
<1>1. ASSUME NEW j \in 1..Len(f) PROVE f[j].scan <= s + 1
  <2>1. f[j] \in Words
    BY ElementOfSeq
  <2>2. f[j].scan \in Nat /\ f[j].scan <= s
    BY <2>1 DEF Words, Chained
  <2> QED BY <2>2
<1> QED BY <1>1 DEF Chained

\* The next word in order makes a chain longer.
LEMMA ChainAppend ==
  ASSUME NEW f \in Seq(Words), NEW l \in Nat, NEW w \in Words, NEW s \in Nat, NEW v \in Words,
         Chained(f, l, w, s), Follows(l, End(f, w), v), v.scan <= s
  PROVE  Chained(Append(f, v), l, w, s) /\ End(Append(f, v), w) = v
<1> DEFINE g == Append(f, v)
<1>1. /\ Len(f) \in Nat /\ Len(g) = Len(f) + 1 /\ g # <<>> /\ g[Len(f) + 1] = v
      /\ \A j \in 1..Len(f) : g[j] = f[j]
  BY AppendProperties, LenProperties
<1>2. End(g, w) = v
  BY <1>1 DEF End
<1>3. Follows(l, w, g[1])
  <2>1. CASE f = <<>>
    BY <1>1, <2>1 DEF End
  <2>2. CASE f # <<>>
    <3>1. 1 \in 1..Len(f)
      BY <1>1, <2>2, EmptySeq
    <3> QED BY <1>1, <2>2, <3>1 DEF Chained
  <2> QED BY <2>1, <2>2
<1>4. ASSUME NEW j \in 1..Len(g) - 1 PROVE Follows(l, g[j], g[j + 1])
  <2>1. CASE j = Len(f)
    BY <1>1, <2>1 DEF End
  <2>2. CASE j # Len(f)
    <3>1. j \in 1..Len(f) - 1 /\ j \in 1..Len(f) /\ j + 1 \in 1..Len(f)
      BY <1>1, <2>2
    <3> QED BY <1>1, <3>1 DEF Chained
  <2> QED BY <2>1, <2>2
<1>5. ASSUME NEW j \in 1..Len(g) PROVE g[j].scan <= s
  BY <1>1 DEF Chained
<1> QED BY <1>2, <1>3, <1>4, <1>5 DEF Chained

\* The first word of a chain is next in order, and the others are a chain after it.
LEMMA ChainTail ==
  ASSUME NEW f \in Seq(Words), NEW l \in Nat, NEW w \in Words, NEW s \in Nat,
         f # <<>>, Chained(f, l, w, s)
  PROVE  /\ Follows(l, w, Head(f)) /\ Head(f) \in Words /\ Head(f).scan <= s
         /\ Tail(f) \in Seq(Words)
         /\ Chained(Tail(f), l, Head(f), s) /\ End(Tail(f), Head(f)) = End(f, w)
<1> DEFINE g == Tail(f)
<1>1. /\ Len(f) \in Nat \ {0} /\ g \in Seq(Words) /\ Len(g) = Len(f) - 1 /\ Head(f) = f[1]
      /\ \A j \in 1..Len(g) : g[j] = f[j + 1]
  BY HeadTailProperties, EmptySeq
<1>2. 1 \in 1..Len(f) /\ f[1] \in Words
  BY <1>1, ElementOfSeq
<1>3. g # <<>> => Len(g) >= 1 /\ Len(g) \in 1..Len(g) /\ 1 \in 1..Len(g)
  BY <1>1, EmptySeq
<1>4. g = <<>> => Len(f) = 1
  BY <1>1
<1>5. End(g, Head(f)) = End(f, w)
  BY <1>1, <1>3, <1>4 DEF End
<1>6. Chained(g, l, Head(f), s)
  <2>1. g # <<>> => Follows(l, Head(f), g[1])
    BY <1>1, <1>3 DEF Chained
  <2>2. ASSUME NEW j \in 1..Len(g) - 1 PROVE Follows(l, g[j], g[j + 1])
    <3>1. j \in 1..Len(g) /\ j + 1 \in 1..Len(g) /\ j + 1 \in 1..Len(f) - 1
      BY <1>1
    <3> QED BY <1>1, <3>1 DEF Chained
  <2>3. ASSUME NEW j \in 1..Len(g) PROVE g[j].scan <= s
    BY <1>1 DEF Chained
  <2> QED BY <2>1, <2>2, <2>3 DEF Chained
<1> QED BY <1>1, <1>2, <1>5, <1>6 DEF Chained

-----------------------------------------------------------------------------
(* The stream: scan[], the FIFO and what the core has still to write *)

Running == udp \in {"poll", "count", "read"}

\* The words of its scan that udpThread has in scan[].
Gathered == words_read + (IF udp = "read" THEN nr ELSE 0)

LastSent == IF sent = <<>> THEN 0 ELSE ScanOf(sent[Len(sent)])

\* The last word that has left the FIFO.
Newest == IF Gathered > 0 THEN Word(scan[1].scan, Gathered) ELSE Word(LastSent, L)

StreamTypes ==
  /\ scan \in [1..SSP_MAX_SCAN_LENGTH + 1 -> Words]
  /\ sent \in Seq(UNION {[1..l -> Words] : l \in Lengths})
  /\ LastSent \in Nat /\ LastSent <= scans
  /\ udp = "loaded" => reset /\ core_i = L

StreamInv ==
  Running =>
    /\ \A j \in 1..Gathered : scan[j] = Word(scan[1].scan, j)
    /\ Gathered > 0 => LastSent < scan[1].scan /\ scan[1].scan <= scans
    /\ Chained(fifo, L, Newest, scans)
    /\ LastPut(core_i, L, End(fifo, Newest), scans)

\* The words are in order before there are any.
LEMMA StreamInit == Init => StreamTypes /\ StreamInv
<1> SUFFICES ASSUME Init PROVE StreamTypes /\ StreamInv
  OBVIOUS
<1>1. Zero \in Words
  BY DEF Zero, Word, Words
<1>2. scan \in [1..SSP_MAX_SCAN_LENGTH + 1 -> Words]
  BY <1>1 DEF Init
<1>3. sent = <<>> /\ scans = 0 /\ udp = "disabled"
  BY DEF Init
<1> QED BY <1>2, <1>3 DEF StreamTypes, StreamInv, Running, LastSent

\* The ranges of what StreamInv speaks of.
LEMMA StreamRanges ==
  ASSUME IInv, StreamTypes
  PROVE  /\ L \in Nat \ {0} /\ L <= SSP_MAX_SCAN_LENGTH /\ core_i \in 0..L /\ scans \in Nat
         /\ fifo \in Seq(Words) /\ scan[1] \in Words /\ Gathered \in Nat /\ Newest \in Words
         /\ Running => Gathered \in 0..L
<1>1. L \in Nat \ {0} /\ L <= SSP_MAX_SCAN_LENGTH /\ SSP_MAX_SCAN_LENGTH \in Nat
  BY AcquireAssumption DEF IInv, TypeOK
<1>2. core_i \in 0..L /\ scans \in Nat /\ fifo \in Seq(Words)
  BY <1>1, LengthType DEF IInv, TypeOK, Counts, Words
<1>3. 1 \in 1..SSP_MAX_SCAN_LENGTH + 1
  BY <1>1
<1>4. scan[1] \in Words
  BY <1>3 DEF StreamTypes
<1>5. Gathered \in Nat
  BY DEF Gathered, IInv, Counts
<1>6. Running => Gathered \in 0..L
  BY <1>1 DEF Running, Gathered, IInv, TypeOK, Counts
<1>7. Newest \in Words
  BY <1>1, <1>4, <1>5 DEF Newest, Word, Words, StreamTypes
<1> QED BY <1>1, <1>2, <1>4, <1>5, <1>6, <1>7

\* The core goes on with its scan or begins the next.
LEMMA StreamCore ==
  ASSUME IInv, StreamTypes, StreamInv, CoreStart \/ CorePut
  PROVE  StreamTypes' /\ StreamInv'
<1> USE StreamRanges
<1>1. /\ UNCHANGED <<L, udp, words_read, words_remaining, scan, nr, sent>>
      /\ scans' = scans \/ scans' = scans + 1
  BY DEF CoreStart, CorePut, buffer
<1>2. UNCHANGED <<Running, Gathered, LastSent, Newest>>
  BY <1>1 DEF Running, Gathered, LastSent, Newest
<1>3. StreamTypes'
  <2>1. LastSent <= scans'
    BY <1>1 DEF StreamTypes
  <2>2. udp # "loaded"
    BY DEF CoreStart, CorePut, StreamTypes
  <2> QED BY <1>1, <1>2, <2>1, <2>2 DEF StreamTypes
<1>4. ASSUME Running
      PROVE  /\ Chained(fifo', L, Newest, scans')
             /\ LastPut(core_i', L, End(fifo', Newest), scans')
  <2>1. Chained(fifo, L, Newest, scans) /\ LastPut(core_i, L, End(fifo, Newest), scans)
    BY <1>4 DEF StreamInv
  <2>2. CASE CoreStart
    <3>1. fifo' = fifo /\ scans' = scans + 1 /\ core_i = L /\ core_i' \in {0, L}
      BY <2>2 DEF CoreStart
    <3>2. End(fifo, Newest).i = L /\ End(fifo, Newest).scan <= scans
      BY <2>1, <3>1 DEF LastPut
    <3>3. End(fifo, Newest).scan \in Nat
      <4>1. fifo # <<>> => Len(fifo) \in 1..Len(fifo)
        BY EmptySeq
      <4>2. End(fifo, Newest) \in Words
        BY <4>1, ElementOfSeq DEF End
      <4> QED BY <4>2 DEF Words
    <3>4. Chained(fifo', L, Newest, scans')
      BY <2>1, <3>1, ChainLater
    <3>5. LastPut(core_i', L, End(fifo', Newest), scans')
      BY <3>1, <3>2, <3>3 DEF LastPut
    <3> QED BY <3>4, <3>5
  <2>3. CASE CorePut
    <3> DEFINE w == End(fifo, Newest)
               v == Word(scans, core_i + 1)
    <3>1. /\ core_i < L /\ core_i \in Nat /\ core_i' = core_i + 1 /\ scans' = scans
          /\ fifo' = Append(fifo, v)
      BY <2>3 DEF CorePut
    <3>2. v \in Words /\ v.scan <= scans /\ v.scan = scans /\ v.i = core_i + 1
      BY <3>1 DEF Word, Words
    <3>3. Follows(L, w, v)
      <4>1. CASE core_i = 0
        BY <2>1, <3>2, <4>1 DEF LastPut, Follows
      <4>2. CASE core_i # 0
        <5>1. w = Word(scans, core_i) /\ w.i = core_i /\ w.scan = scans
          BY <2>1, <3>1, <4>2 DEF LastPut, Word
        <5> QED BY <3>1, <5>1 DEF Follows
      <4> QED BY <4>1, <4>2
    <3>4. Chained(fifo', L, Newest, scans') /\ End(fifo', Newest) = v
      BY <2>1, <3>1, <3>2, <3>3, ChainAppend
    <3>5. LastPut(core_i + 1, L, v, scans)
      BY <3>1, <3>2 DEF LastPut
    <3> QED BY <3>1, <3>4, <3>5
  <2> QED BY <2>2, <2>3
<1>5. ASSUME Running, Gathered > 0
      PROVE  LastSent < scan[1].scan /\ scan[1].scan <= scans'
  <2>1. LastSent < scan[1].scan /\ scan[1].scan <= scans /\ scan[1].scan \in Nat
    BY <1>5 DEF StreamInv, Words
  <2> QED BY <1>1, <2>1
<1>6. ASSUME Running PROVE \A j \in 1..Gathered : scan[j] = Word(scan[1].scan, j)
  BY <1>6 DEF StreamInv
<1>7. Running =>
        /\ \A j \in 1..Gathered : scan[j] = Word(scan[1].scan, j)
        /\ Gathered > 0 => LastSent < scan[1].scan /\ scan[1].scan <= scans'
        /\ Chained(fifo', L, Newest, scans')
        /\ LastPut(core_i', L, End(fifo', Newest), scans')
  BY <1>4, <1>5, <1>6
<1>8. StreamInv' =
        (Running =>
          /\ \A j \in 1..Gathered : scan[j] = Word(scan[1].scan, j)
          /\ Gathered > 0 => LastSent < scan[1].scan /\ scan[1].scan <= scans'
          /\ Chained(fifo', L, Newest, scans')
          /\ LastPut(core_i', L, End(fifo', Newest), scans'))
  BY <1>1, <1>2, Zenon DEF StreamInv
<1> QED BY <1>3, <1>7, <1>8

\* Acquisition begins with an empty FIFO and a core that has nothing begun.
LEMMA StreamSwitch ==
  ASSUME IInv, StreamTypes, StreamInv, EnableReset \/ EnableRelease \/ Disable
  PROVE  StreamTypes' /\ StreamInv'
<1> USE StreamRanges
<1>1. UNCHANGED <<sent, scans>> /\ LastSent' = LastSent
  BY DEF EnableReset, EnableRelease, Disable, Resetting, buffer, LastSent
<1>2. CASE EnableReset
  <2>1. udp' = "loaded" /\ reset' /\ core_i' = L'
    BY <1>2 DEF EnableReset, UdpGoto, Resetting
  <2>2. Zero \in Words
    BY DEF Zero, Word, Words
  <2>3. scan' \in [1..SSP_MAX_SCAN_LENGTH + 1 -> Words]
    BY <1>2, <2>2 DEF EnableReset, StreamTypes
  <2>4. StreamTypes'
    BY <1>1, <2>1, <2>3 DEF StreamTypes
  <2> QED BY <2>1, <2>4 DEF StreamInv, Running
<1>3. CASE EnableRelease
  <2>1. /\ udp' = "poll" /\ words_read' = 0 /\ UNCHANGED <<fifo, core_i, L, scan>>
        /\ udp = "loaded"
    BY <1>3 DEF EnableRelease, UdpGoto
  <2>2. fifo = <<>> /\ core_i = L
    BY <2>1 DEF StreamTypes, IInv, TypeOK
  <2>3. Gathered' = 0 /\ Newest' = Word(LastSent, L)
    BY <1>1, <2>1 DEF Gathered, Newest
  <2>4. Chained(<<>>, L, Newest', scans) /\ End(<<>>, Newest') = Newest'
    BY ChainEmpty
  <2>5. LastPut(L, L, Newest', scans)
    BY <2>3 DEF LastPut, Word, StreamTypes
  <2>6. StreamTypes'
    BY <1>1, <2>1 DEF StreamTypes
  <2>7. fifo' = <<>> /\ core_i' = L /\ L' = L /\ scans' = scans
    BY <1>1, <2>1, <2>2
  <2>8. StreamInv' =
          (Running' =>
            /\ \A j \in 1..Gathered' : scan'[j] = Word(scan'[1].scan, j)
            /\ Gathered' > 0 => LastSent' < scan'[1].scan /\ scan'[1].scan <= scans'
            /\ Chained(fifo', L', Newest', scans')
            /\ LastPut(core_i', L', End(fifo', Newest'), scans'))
    BY DEF StreamInv
  <2>9. \A j \in 1..Gathered' : scan'[j] = Word(scan'[1].scan, j)
    BY <2>3
  <2>10. ~(Gathered' > 0)
    BY <2>3
  <2>11. Chained(fifo', L', Newest', scans') /\ LastPut(core_i', L', End(fifo', Newest'), scans')
    BY <2>4, <2>5, <2>7
  <2> QED BY <2>6, <2>8, <2>9, <2>10, <2>11
<1>4. CASE Disable
  <2>1. udp' = "disabled" /\ scan' = scan
    BY <1>4 DEF Disable, UdpGoto, buffer
  <2>2. StreamTypes'
    BY <1>1, <2>1 DEF StreamTypes
  <2> QED BY <2>1, <2>2 DEF StreamInv, Running
<1> QED BY <1>2, <1>3, <1>4

\* A whole scan in the log is the scan that its words are of.
LEMMA ScanOfWhole ==
  ASSUME NEW l \in Nat \ {0}, NEW k \in Nat
  PROVE  ScanOf([j \in 1..l |-> Word(k, j)]) = k
<1> DEFINE s == [j \in 1..l |-> Word(k, j)]
<1>1. s[1] = Word(k, 1) /\ s[1].scan = k /\ DOMAIN s = 1..l
  BY DEF Word
<1> QED BY <1>1 DEF ScanOf

\* The steps that only move words_read and nr.
LEMMA StreamMoves ==
  ASSUME IInv, StreamTypes, StreamInv, Poll \/ Count \/ Partial
  PROVE  StreamTypes' /\ StreamInv'
<1> USE StreamRanges
<1>1. UNCHANGED <<L, fifo, scans, core_i, scan, sent>> /\ Running /\ Running' /\ udp' # "loaded"
  BY DEF Poll, Count, Partial, core, buffer, UdpGoto, Running
<1>2. Gathered' = Gathered
  <2>1. CASE Poll
    BY <2>1 DEF Poll, buffer, Gathered
  <2>2. CASE Count
    BY <2>2 DEF Count, UdpGoto, Gathered, IInv, Counts
  <2>3. CASE Partial
    BY <2>3 DEF Partial, UdpGoto, Gathered
  <2> QED BY <2>1, <2>2, <2>3
<1>3. UNCHANGED <<LastSent, Newest>>
  BY <1>1, <1>2 DEF LastSent, Newest
<1>4. StreamTypes'
  BY <1>1, <1>3 DEF StreamTypes
<1>5. StreamInv' = StreamInv
  BY <1>1, <1>2, <1>3, Zenon DEF StreamInv
<1> QED BY <1>4, <1>5

\* The word read is the next one of its scan, or the first of a later scan.
LEMMA StreamReads ==
  ASSUME IInv, StreamTypes, StreamInv, ReadWord
  PROVE  StreamTypes' /\ StreamInv'
<1> USE StreamRanges
<1> DEFINE v == Head(fifo)
           b == Gathered
<1>1. /\ udp = "read" /\ udp' = "read" /\ nr' = nr + 1
      /\ UNCHANGED <<scans, core_i, L, words_read, nwords, sent>> /\ nr < nwords
  BY DEF ReadWord
<1>2. fifo # <<>> /\ fifo' = Tail(fifo) /\ scan' = [scan EXCEPT ![words_read + (nr + 1)] = v]
  BY <1>1, AcquireNonEmpty DEF ReadWord
<1>3. /\ Gathered' = b + 1 /\ words_read + (nr + 1) = b + 1 /\ b \in Nat /\ b < L
      /\ b + 1 \in 1..SSP_MAX_SCAN_LENGTH + 1
  <2>1. words_read \in Nat /\ nr \in Nat /\ nwords \in Nat /\ words_remaining \in Nat
        /\ nwords <= words_remaining /\ words_read + words_remaining = L
        /\ SSP_MAX_SCAN_LENGTH \in Nat
    BY <1>1, AcquireAssumption DEF IInv, TypeOK, Counts
  <2>2. b = words_read + nr
    BY <1>1 DEF Gathered
  <2>3. Gathered' = words_read + (nr + 1)
    BY <1>1 DEF Gathered
  <2> QED BY <1>1, <2>1, <2>2, <2>3
<1>4. /\ Chained(fifo, L, Newest, scans) /\ LastPut(core_i, L, End(fifo, Newest), scans)
      /\ \A j \in 1..b : scan[j] = Word(scan[1].scan, j)
      /\ b > 0 => LastSent < scan[1].scan /\ scan[1].scan <= scans
  BY <1>1 DEF StreamInv, Running
<1>5. /\ Follows(L, Newest, v) /\ v \in Words /\ v.scan <= scans
      /\ Chained(fifo', L, v, scans) /\ End(fifo', v) = End(fifo, Newest)
  BY <1>2, <1>4, ChainTail
<1>6. scan' \in [1..SSP_MAX_SCAN_LENGTH + 1 -> Words] /\ scan'[b + 1] = v
      /\ \A j \in 1..b : scan'[j] = scan[j]
  BY <1>2, <1>3, <1>5 DEF StreamTypes
<1>7. /\ v = Word(scan'[1].scan, b + 1) /\ LastSent < scan'[1].scan /\ scan'[1].scan <= scans
      /\ \A j \in 1..b + 1 : scan'[j] = Word(scan'[1].scan, j)
  <2>1. CASE b = 0
    <3>1. Newest.i = L /\ Newest.scan = LastSent
      BY <2>1 DEF Newest, Word
    <3>2. v.i = 1 /\ v.scan > LastSent /\ v = Word(v.scan, 1)
      BY <1>5, <3>1 DEF Follows, Word, Words
    <3>3. scan'[1] = v
      BY <1>6, <2>1
    <3> QED BY <1>5, <2>1, <3>2, <3>3 DEF Words, StreamTypes
  <2>2. CASE b # 0
    <3>1. Newest.i = b /\ Newest.scan = scan[1].scan /\ b > 0
      BY <1>3, <2>2 DEF Newest, Word
    <3>2. v = Word(scan[1].scan, b + 1)
      BY <1>3, <1>5, <3>1 DEF Follows
    <3>3. scan'[1] = scan[1]
      BY <1>3, <1>6, <2>2
    <3>4. ASSUME NEW j \in 1..b + 1 PROVE scan'[j] = Word(scan[1].scan, j)
      <4>1. CASE j = b + 1
        BY <1>6, <3>2, <4>1
      <4>2. CASE j # b + 1
        <5>1. j \in 1..b
          BY <1>3, <4>2
        <5> QED BY <1>4, <1>6, <5>1
      <4> QED BY <4>1, <4>2
    <3> QED BY <1>4, <3>1, <3>2, <3>3, <3>4
  <2> QED BY <2>1, <2>2
<1>8. LastSent' = LastSent /\ Newest' = v
  BY <1>1, <1>3, <1>7 DEF LastSent, Newest
<1>9. StreamTypes'
  BY <1>1, <1>6, <1>8 DEF StreamTypes
<1>10. StreamInv'
  <2>1. /\ \A j \in 1..Gathered' : scan'[j] = Word(scan'[1].scan, j)
        /\ LastSent' < scan'[1].scan /\ scan'[1].scan <= scans'
        /\ Chained(fifo', L', Newest', scans')
        /\ LastPut(core_i', L', End(fifo', Newest'), scans')
    BY <1>1, <1>3, <1>4, <1>5, <1>7, <1>8
  <2> QED BY <2>1 DEF StreamInv
<1> QED BY <1>9, <1>10

\* The scan that is sent is whole, one of the core's, and later than the last.
LEMMA StreamSends ==
  ASSUME IInv, StreamTypes, StreamInv, Complete
  PROVE  /\ StreamTypes' /\ StreamInv'
         /\ \E s \in UNION {[1..l -> Words] : l \in Lengths} :
              /\ sent' = Append(sent, s)
              /\ ScanOf(s) \in 1..scans /\ ScanOf(s) > LastSent
<1> USE StreamRanges
<1> DEFINE s == [j \in 1..L |-> scan[j]]
           k == scan[1].scan
<1>1. /\ udp = "read" /\ udp' = "poll" /\ nr = nwords /\ nwords = words_remaining
      /\ sent' = Append(sent, s) /\ words_read' = 0
      /\ UNCHANGED <<fifo, scans, core_i, L, scan>>
  BY DEF Complete, UdpGoto, core
<1>2. Gathered = L /\ Gathered > 0 /\ Gathered' = 0
  BY <1>1 DEF Gathered, IInv, TypeOK, Counts
<1>3. /\ \A j \in 1..L : scan[j] = Word(k, j)
      /\ LastSent < k /\ k <= scans /\ k \in Nat
      /\ Chained(fifo, L, Newest, scans) /\ LastPut(core_i, L, End(fifo, Newest), scans)
  BY <1>1, <1>2 DEF StreamInv, Running, Words
<1>4. s = [j \in 1..L |-> Word(k, j)]
  BY <1>3
<1>5. ScanOf(s) = k
  BY <1>3, <1>4, ScanOfWhole
<1>6. s \in [1..L -> Words] /\ L \in Lengths
  <2>1. \A j \in 1..L : Word(k, j) \in Words
    BY <1>3 DEF Word, Words
  <2>2. s \in [1..L -> Words]
    BY <1>4, <2>1
  <2> QED BY <2>2 DEF IInv, TypeOK
<1>7. s \in UNION {[1..l -> Words] : l \in Lengths}
  BY <1>6
<1> HIDE DEF s
<1>8. /\ sent' \in Seq(UNION {[1..l -> Words] : l \in Lengths}) /\ sent' # <<>>
      /\ sent'[Len(sent')] = s
  BY <1>1, <1>7, AppendProperties DEF StreamTypes
<1>9. LastSent' = k
  BY <1>5, <1>8 DEF LastSent
<1>10. Newest' = Newest
  BY <1>1, <1>2, <1>9 DEF Newest
<1>11. StreamTypes'
  BY <1>1, <1>3, <1>8, <1>9 DEF StreamTypes
<1>12. StreamInv'
  <2>1. /\ \A j \in 1..Gathered' : scan'[j] = Word(scan'[1].scan, j)
        /\ ~(Gathered' > 0)
    BY <1>2
  <2>2. Chained(fifo', L', Newest', scans') /\ LastPut(core_i', L', End(fifo', Newest'), scans')
    BY <1>1, <1>3, <1>10
  <2> QED BY <2>1, <2>2 DEF StreamInv
<1>13. k \in 1..scans
  BY <1>3 DEF StreamTypes
<1> QED BY <1>1, <1>3, <1>5, <1>7, <1>11, <1>12, <1>13

SInv == IInv /\ StreamTypes /\ StreamInv

\* What each step is to the log: a scan begun, a scan logged, or nothing.
LEMMA StreamStep ==
  ASSUME SInv, [Next]_vars
  PROVE  /\ StreamTypes' /\ StreamInv'
         /\ \/ scans' = scans + 1 /\ UNCHANGED sent
            \/ UNCHANGED <<scans, sent>>
            \/ /\ UNCHANGED scans
               /\ \E s \in UNION {[1..l -> Words] : l \in Lengths} :
                    /\ sent' = Append(sent, s)
                    /\ ScanOf(s) \in 1..scans /\ ScanOf(s) > LastSent
<1> USE DEF SInv
<1>1. CASE CoreStart \/ CorePut
  BY <1>1, StreamCore DEF CoreStart, CorePut
<1>2. CASE EnableReset \/ EnableRelease \/ Disable
  BY <1>2, StreamSwitch DEF EnableReset, EnableRelease, Disable, Resetting
<1>3. CASE Poll \/ Count \/ Partial
  BY <1>3, StreamMoves DEF Poll, Count, Partial, core
<1>4. CASE ReadWord
  BY <1>4, StreamReads DEF ReadWord
<1>5. CASE Complete
  BY <1>5, StreamSends DEF Complete, core
<1>6. CASE UNCHANGED vars
  <2>1. UNCHANGED <<fifo, scans, core_i, reset, L, udp, words_read, nr, scan, sent>>
    BY <1>6 DEF vars, core, buffer
  <2>2. UNCHANGED <<Running, Gathered, LastSent, Newest>>
    BY <2>1 DEF Running, Gathered, LastSent, Newest
  <2>3. StreamTypes' = StreamTypes /\ StreamInv' = StreamInv
    BY <2>1, <2>2, Zenon DEF StreamTypes, StreamInv
  <2> QED BY <2>1, <2>3
<1> QED BY <1>1, <1>2, <1>3, <1>4, <1>5, <1>6 DEF Next, UdpThread, ReadFifo

\* The words are in order throughout.
LEMMA StreamInductive == Spec => []SInv
<1>1. Init => SInv
  BY AcquireInit, StreamInit DEF SInv
<1>2. IInv /\ StreamTypes /\ StreamInv /\ [Next]_vars => StreamTypes' /\ StreamInv'
  BY StreamStep DEF SInv
<1> QED BY <1>1, <1>2, AcquireInductive, PTL DEF SInv, Spec

-----------------------------------------------------------------------------
(* The refinement *)

LogOf(q) == [n \in DOMAIN q |-> ScanOf(q[n])]

\* Sending one more scan logs it after the others.
LEMMA LogAppend ==
  ASSUME NEW S, NEW q \in Seq(S), NEW s \in S
  PROVE  /\ LogOf(Append(q, s)) = Append(LogOf(q), ScanOf(s))
         /\ q = <<>> => LogOf(q) = <<>>
         /\ q # <<>> => Len(LogOf(q)) = Len(q) /\ LogOf(q)[Len(LogOf(q))] = ScanOf(q[Len(q)])
<1> DEFINE T == {ScanOf(x) : x \in S}
           f == LogOf(q)
           g == Append(q, s)
<1>1. /\ Len(q) \in Nat /\ DOMAIN q = 1..Len(q)
      /\ g \in Seq(S) /\ Len(g) = Len(q) + 1 /\ g[Len(q) + 1] = s
      /\ \A n \in 1..Len(q) : g[n] = q[n]
  BY AppendProperties, LenProperties
<1>2. DOMAIN g = 1..Len(q) + 1
  BY <1>1, LenProperties
<1>3. \A n \in 1..Len(q) : q[n] \in S
  BY ElementOfSeq
<1>4. f \in [1..Len(q) -> T]
  BY <1>1, <1>3 DEF LogOf
<1>5. f \in Seq(T) /\ Len(f) = Len(q)
  <2>1. f \in Seq(T)
    BY <1>1, <1>4, SeqDef
  <2>2. DOMAIN f = 1..Len(q) /\ DOMAIN f = 1..Len(f) /\ Len(f) \in Nat
    BY <1>4, <2>1, LenProperties
  <2> QED BY <1>1, <2>1, <2>2
<1>6. ScanOf(s) \in T
  OBVIOUS
<1>7. /\ Append(f, ScanOf(s)) \in Seq(T) /\ Len(Append(f, ScanOf(s))) = Len(q) + 1
      /\ \A n \in 1..Len(q) : Append(f, ScanOf(s))[n] = f[n]
      /\ Append(f, ScanOf(s))[Len(q) + 1] = ScanOf(s)
  BY <1>5, <1>6, AppendProperties
<1>8. LogOf(g) = Append(f, ScanOf(s))
  BY <1>1, <1>2, <1>7, LenProperties DEF LogOf
<1> QED BY <1>1, <1>5, <1>8, EmptySeq DEF LogOf

\* What udpThread sends implements ScanLog: whole scans of the core, each at most
\* once and in order, whatever the core skipped and however often acquisition
\* was broken off, for any scan lengths and any depth of the FIFO.
THEOREM RefinesLog == Spec => ImplementsLog
<1> DEFINE S == UNION {[1..l -> Words] : l \in Lengths}
           log == [n \in DOMAIN sent |-> ScanOf(sent[n])]
<1>1. log = LogOf(sent) /\ log' = LogOf(sent')
  BY DEF LogOf
<1>2. Init => Log!Init
  <2> SUFFICES ASSUME Init PROVE Log!Init
    OBVIOUS
  <2>1. scans = 0 /\ sent = <<>>
    BY DEF Init
  <2>2. LogOf(sent) = <<>>
    BY <2>1 DEF LogOf
  <2> QED BY <1>1, <2>1, <2>2 DEF Log!Init
<1>3. SInv /\ [Next]_vars => [Log!Next]_(Log!vars)
  <2> SUFFICES ASSUME SInv, [Next]_vars PROVE [Log!Next]_(Log!vars)
    OBVIOUS
  <2>1. CASE scans' = scans + 1 /\ UNCHANGED sent
    BY <2>1 DEF Log!Next, Log!Send
  <2>2. CASE UNCHANGED <<scans, sent>>
    BY <2>2 DEF Log!vars
  <2>3. ASSUME UNCHANGED scans,
               NEW s \in S, sent' = Append(sent, s), ScanOf(s) \in 1..scans, ScanOf(s) > LastSent
        PROVE  Log!Log
    <3>1. sent \in Seq(S)
      BY DEF SInv, StreamTypes
    <3>2. log' = Append(log, ScanOf(s))
      BY <1>1, <2>3, <3>1, LogAppend
    <3>3. log # <<>> => ScanOf(s) > log[Len(log)]
      BY <1>1, <2>3, <3>1, LogAppend DEF LastSent
    <3> QED BY <2>3, <3>2, <3>3 DEF Log!Log, Log!Last
  <2> QED BY StreamStep, <2>1, <2>2, <2>3 DEF Log!Next
<1> QED BY <1>2, <1>3, StreamInductive, PTL DEF Spec, ImplementsLog, Log!Spec
=============================================================================
