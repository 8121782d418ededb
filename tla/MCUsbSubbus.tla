----------------------------- MODULE MCUsbSubbus ------------------------------
(***************************************************************************)
(* Three boards, the last of them absent; four hosts, one for each part    *)
(* of the server: watchdog, interrupts, reading many, broken lines.        *)
(***************************************************************************)
EXTENDS UsbSubbus

CONSTANTS b1, b2, b3

MCBoards == <<b1, b2, b3>>
MCHosts ==
  { [cmds |-> {<<"T">>, <<"C", 1>>, <<"A">>, <<"B">>, <<"S", 0>>}, lens |-> {2}],
    [cmds |-> {<<"B">>, <<"u", b1>>} \cup ({"i"} \X {b1, b2, b3}), lens |-> {2}],
    [cmds |-> {<<"M">>}, lens |-> {2}],
    [cmds |-> {<<"R">>, <<"F", {1}>>, <<"C", 0>>}, lens |-> {3, 5}] }
===============================================================================
