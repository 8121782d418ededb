----------------------------- MODULE ScanAcquire -----------------------------
(***************************************************************************)
(* How udpThread gathers scans (ssp_ad.c) from the scan core's FIFO, which  *)
(* it polls with ssp_read_fifo (ssp_intr.c).  The core writes words while   *)
(* the firmware reads them, one or two at a time; a client may disable and  *)
(* enable again, with another scan length, in the middle of a scan.         *)
(***************************************************************************)
EXTENDS Naturals, Sequences, Functions

CONSTANTS
  SSP_MAX_SCAN_LENGTH,  \* most words in a scan
  Lengths,    \* scan lengths that may be configured
  Depth,      \* words the FIFO holds
  MaxScans,   \* bound on the scans that the core begins or skips
  MaxRuns     \* bound on how often acquisition is enabled

ASSUME AcquireAssumption ==
  /\ SSP_MAX_SCAN_LENGTH \in Nat /\ MaxScans \in Nat /\ MaxRuns \in Nat
  /\ Lengths \subseteq 1..SSP_MAX_SCAN_LENGTH
  /\ Depth \in Nat /\ Depth >= 4

\* The i-th word of the core's scan k, and what memory holds before.
Word(k, i) == [scan |-> k, i |-> i]
Zero == Word(0, 0)

\* Where xfr_enable() and udpThread expect the guard words.
Guard == {SSP_MAX_SCAN_LENGTH, SSP_MAX_SCAN_LENGTH + 1}

VARIABLES
  reset,          \* the reset bit of the control register
  fifo,           \* the words in the FIFO
  scans,          \* history: the scans that the core has begun or skipped
  core_i,         \* words of its scan that the core has written, L when idle
  L,              \* scan_xmit_length, and the length the core is taken to use
  udp,            \* where udpThread is
  words_read, words_remaining,
  scan,           \* from scan[1] to the second of the guard words
  nwords, nr,     \* of the ssp_ArrayRead under way
  runs,           \* how often acquisition has been enabled
  sent,           \* history: the scans passed to the network
  overrun         \* history: "Overrun" has been printed

core == <<reset, fifo, scans, core_i>>
buffer == <<words_read, words_remaining, scan, nwords, nr>>
vars == <<core, L, udp, buffer, runs, sent, overrun>>

-----------------------------------------------------------------------------
(* The scan core.  Reset empties the FIFO and ends a scan that is under way. *)

Resetting == reset' = TRUE /\ fifo' = <<>> /\ core_i' = L' /\ UNCHANGED scans

\* A scan is begun only if all of it fits in the FIFO, and skipped otherwise.
CoreStart ==
  /\ ~reset /\ core_i = L /\ scans < MaxScans
  /\ scans' = scans + 1
  /\ core_i' = IF Len(fifo) + L <= Depth THEN 0 ELSE L
  /\ UNCHANGED <<reset, fifo, L, udp, buffer, runs, sent, overrun>>

CorePut ==
  /\ ~reset /\ core_i < L
  /\ core_i' = core_i + 1
  /\ fifo' = Append(fifo, Word(scans, core_i'))
  /\ UNCHANGED <<reset, scans, L, udp, buffer, runs, sent, overrun>>

\* PercentFull has a single bit: the FIFO is at least half full.
PercentFull == IF 2 * Len(fifo) >= Depth THEN 1 ELSE 0

-----------------------------------------------------------------------------
(* udpThread: enabling and disabling *)

UdpGoto(from, to) == udp = from /\ udp' = to

\* Mutant: xfr_enable() relies on the core being in reset already.
EnableReset_NoReset ==
  /\ UdpGoto("disabled", "loaded") /\ runs < MaxRuns
  /\ L' \in Lengths
  /\ core_i' = L' /\ UNCHANGED <<reset, fifo, scans>>
  /\ runs' = runs + 1
  /\ UNCHANGED <<buffer, sent, overrun>>

\* xfr_enable() clears the guard words and resets the core before it is told
\* its new length.  That the core then uses this length is an assumption: the last
\* write before the release is set_trigger()'s, which stores the trigger level over
\* it (SSPControl!TriggerApplied).  With another length for the core no scan could
\* be told from the next, so what is shown here is the rest of the path.
EnableReset ==
  /\ UdpGoto("disabled", "loaded") /\ runs < MaxRuns
  /\ L' \in Lengths
  /\ Resetting
  /\ scan' = [i \in DOMAIN scan |-> IF i \in Guard THEN Zero ELSE scan[i]]
  /\ runs' = runs + 1
  /\ UNCHANGED <<words_read, words_remaining, nwords, nr, sent, overrun>>

EnableRelease ==
  /\ UdpGoto("loaded", "poll")
  /\ reset' = FALSE
  /\ words_remaining' = L /\ words_read' = 0
  /\ UNCHANGED <<fifo, scans, core_i, L, scan, nwords, nr, runs, sent, overrun>>

\* DISABLE is taken between two reads; then the guard words are checked.
Disable ==
  /\ UdpGoto("poll", "disabled")
  /\ UNCHANGED L /\ Resetting
  /\ overrun' = (overrun \/ \E i \in Guard : scan[i] # Zero)
  /\ UNCHANGED <<buffer, runs, sent>>

-----------------------------------------------------------------------------
(* udpThread: ssp_read_fifo() and what is made of its result *)

\* Mutant: the FIFO may be empty.
Poll_Unchecked ==
  /\ udp = "poll" /\ udp' = "count"
  /\ UNCHANGED <<core, L, buffer, runs, sent, overrun>>

\* While the FIFO is empty, udpThread sleeps and polls again.
Poll ==
  /\ udp = "poll" /\ fifo # <<>> /\ udp' = "count"
  /\ UNCHANGED <<core, L, buffer, runs, sent, overrun>>

\* Mutant: as many words as PercentFull says.
WordsToRead_AsCounted(pct) == IF pct < words_remaining THEN pct
                              ELSE words_remaining

\* One more word than PercentFull says, up to the end of the scan.
WordsToRead(pct) == IF pct < words_remaining THEN pct + 1 ELSE words_remaining

Count ==
  /\ UdpGoto("count", "read")
  /\ nwords' = WordsToRead(PercentFull) /\ nr' = 0
  /\ UNCHANGED <<core, L, words_read, words_remaining, scan, runs, sent, overrun>>

\* ssp_ArrayRead(): reading an empty FIFO would yield no word of any scan.
ReadWord ==
  /\ udp = "read" /\ nr < nwords
  /\ nr' = nr + 1
  /\ scan' = [scan EXCEPT ![words_read + nr'] = IF fifo = <<>> THEN Zero ELSE Head(fifo)]
  /\ fifo' = IF fifo = <<>> THEN fifo ELSE Tail(fifo)
  /\ UNCHANGED <<reset, scans, core_i, L, udp, words_read, words_remaining,
                 nwords, runs, sent, overrun>>

\* Part of a scan has been read.
Partial ==
  /\ UdpGoto("read", "poll") /\ nr = nwords /\ nwords # words_remaining
  /\ words_read' = words_read + nwords
  /\ words_remaining' = words_remaining - nwords
  /\ UNCHANGED <<core, L, scan, nwords, nr, runs, sent, overrun>>

\* The scan is complete: it is sent, and the next begins at scan[1].
Complete ==
  /\ UdpGoto("read", "poll") /\ nr = nwords /\ nwords = words_remaining
  /\ sent' = Append(sent, [i \in 1..L |-> scan[i]])
  /\ words_read' = 0 /\ words_remaining' = L
  /\ UNCHANGED <<core, L, scan, nwords, nr, runs, overrun>>

-----------------------------------------------------------------------------
\* Before the firmware runs the core may be in reset or not.
Init ==
  /\ reset \in BOOLEAN /\ L \in Lengths
  /\ fifo = <<>> /\ scans = 0 /\ core_i = L
  /\ udp = "disabled"
  /\ words_read = 0 /\ words_remaining = 0 /\ nwords = 0 /\ nr = 0
  /\ scan = [i \in 1..SSP_MAX_SCAN_LENGTH+1 |-> Zero]
  /\ runs = 0 /\ sent = <<>> /\ overrun = FALSE

ReadFifo == Poll \/ Count \/ ReadWord \/ Partial \/ Complete
UdpThread == EnableReset \/ EnableRelease \/ Disable \/ ReadFifo

Next == CoreStart \/ CorePut \/ UdpThread

Spec == Init /\ [][Next]_vars

\* The core ends what it has begun, and udpThread polls for ever.
FairSpec == Spec /\ WF_vars(CorePut) /\ WF_vars(ReadFifo)

-----------------------------------------------------------------------------
(* Properties *)

\* udpThread stores within scan[], reads within the scan, and its two counts
\* always add up to the length of the scan.
TypeOK ==
  /\ L \in Lengths /\ core_i \in 0..L /\ scans \in 0..MaxScans
  /\ Len(fifo) <= Depth /\ (reset => fifo = <<>>)
  /\ udp \in {"disabled", "loaded", "poll", "count", "read"}
  /\ udp \in {"poll", "count", "read"} =>
       words_read + words_remaining = L /\ words_remaining > 0
  /\ udp = "read" => nr <= nwords /\ nwords <= words_remaining

\* ssp_ArrayRead never reads a word that the FIFO does not hold, although one
\* more is asked for than PercentFull says.
NoUnderflow == udp = "read" /\ nr < nwords => fifo # <<>>

\* The core's scan that the words s are, 0 if they are not all of one scan.
ScanOf(s) ==
  LET k == s[1].scan IN
  IF s = [i \in DOMAIN s |-> Word(k, i)] THEN k ELSE 0

\* What is sent is a sequence of whole scans of the core, each at most once and
\* in order, whatever was skipped and however often acquisition was broken off.
Log == INSTANCE ScanLog
  WITH sent <- scans, log <- [n \in DOMAIN sent |-> ScanOf(sent[n])]
ImplementsLog == Log!Spec

\* A scan that the core has written to the FIFO is sent, unless a client
\* disables acquisition first.
InFifo(k) == Word(k, L) \in Range(fifo)
Delivered(k) == \E n \in DOMAIN sent : ScanOf(sent[n]) = k
EveryScanSent ==
  \A k \in 1..MaxScans : InFifo(k) ~> Delivered(k) \/ udp = "disabled"

=============================================================================
