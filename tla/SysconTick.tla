------------------------------ MODULE SysconTick ------------------------------
(***************************************************************************)
(* The watchdog of the subbus controller (syscon_tick_beh.vhdl), with the  *)
(* input registers of syscon_arch.vhd in front of it.  The firmware writes *)
(* the control word `ctrl'; one Clock is one rising edge of F8M, on which  *)
(* every register takes its next value from the old ones.  A host that     *)
(* stops ticking for two seconds loses the command outputs (CmdEnbl).  The *)
(* CPU reset pulse is left out.                                            *)
(***************************************************************************)
EXTENDS Naturals

CONSTANTS TwoSec,   \* clocks from a tick to the two-second timeout
          TwoMin    \* clocks from a tick to the two-minute timeout

ASSUME TimesAssumption == TwoSec \in Nat /\ TwoMin \in Nat /\ TwoSec < TwoMin

VARIABLES
  ctrl,      \* the bits set in the control word, written by the firmware
  ctrlInt,   \* Ctrl_int: the word as registered by syscon
  ticked,    \* Ticked: the TICK bit of the clock before
  twoSecTO,  \* TwoSecTO, read back as SBSTAT_TWOSECTO
  tickEnbl,  \* TickEnbl: after a timeout, ticks count only once CE was off
  armed,     \* Armed: a tick was accepted and has not timed out
  cmdEnbl,   \* CmdEnbl: the command outputs are live
  twoMinTO,  \* TwoMinTO: lights the fail lamp and stops the count
  tickCnt    \* TickCnt: clocks since the last accepted tick

tickVars == <<ctrlInt, ticked, twoSecTO, tickEnbl, armed, cmdEnbl, twoMinTO, tickCnt>>

CtrlBits == {"CS", "CE", "TICK", "ARM"}

TickTypeOK ==
  /\ ctrl \subseteq CtrlBits /\ ctrlInt \subseteq CtrlBits
  /\ ticked \in BOOLEAN /\ twoSecTO \in BOOLEAN /\ tickEnbl \in BOOLEAN
  /\ armed \in BOOLEAN /\ cmdEnbl \in BOOLEAN /\ twoMinTO \in BOOLEAN
  /\ tickCnt \in 0..TwoMin + 1 /\ (tickCnt > TwoMin => twoMinTO)

TickInit ==
  /\ ctrlInt = {} /\ ticked = FALSE /\ twoSecTO = TRUE /\ tickEnbl = TRUE
  /\ armed = FALSE /\ cmdEnbl = FALSE /\ twoMinTO = FALSE /\ tickCnt = 0

\* A tick is accepted when the TICK bit has changed while armed and enabled.
Accept == "ARM" \in ctrlInt /\ tickEnbl /\ ("TICK" \in ctrlInt) # ticked

\* Otherwise the count goes on until two minutes, past the two seconds.
Counting == ~Accept /\ ~twoMinTO
Expire == Counting /\ armed /\ tickCnt = TwoSec

\* Mutants: ticks always count; the outputs do not wait for a tick.
TickEnblNext_Always == TRUE
CmdEnblNext_Unarmed == "ARM" \in ctrlInt /\ "CE" \in ctrlInt

TickEnblNext == "CE" \notin ctrlInt \/ (tickEnbl /\ ~Expire)
CmdEnblNext == "ARM" \in ctrlInt /\ armed /\ "CE" \in ctrlInt

Clock ==
  /\ ctrlInt' = ctrl
  /\ ticked' = ("TICK" \in ctrlInt)
  /\ twoMinTO' = (~Accept /\ (twoMinTO \/ (~Expire /\ tickCnt = TwoMin)))
  /\ twoSecTO' = (~Accept /\ (twoSecTO \/ Expire))
  /\ tickCnt' = IF Accept THEN 0 ELSE IF Counting THEN tickCnt + 1 ELSE tickCnt
  /\ armed' = (Accept \/ (armed /\ ~Expire))
  /\ tickEnbl' = TickEnblNext
  /\ cmdEnbl' = CmdEnblNext
===============================================================================
