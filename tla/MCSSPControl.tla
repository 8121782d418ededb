---------------------------- MODULE MCSSPControl ----------------------------
(* Small instances of SSPControl: the command sets of its runs. *)
EXTENDS SSPControl

Cmd(op) == [head |-> op, tail |-> NoTail]
CmdArg(op, n) == [head |-> op, tail |-> [kind |-> "arg", val |-> n]]

\* Every kind of command, with numbers below, in and above range, and commands
\* that lack their number.
AllCommands ==
  {Cmd(op) : op \in {"EN", "DA", "EX", "AE", "AD", "other", "NS", "TU"}} \cup
  {CmdArg("NS", 5000), CmdArg("NA", 0), CmdArg("NC", -1), CmdArg("NP", 65537),
   CmdArg("NE", 2), CmdArg("NF", 33), CmdArg("N_", 1), CmdArg("TS", 7),
   CmdArg("TD", 40000)}

\* Enough for two clients to wait on each other.
EnableCommands == {Cmd("EN"), Cmd("DA"), CmdArg("NP", 2000)}

\* Clients that exit while others work.
ExitCommands == {Cmd("EX"), Cmd("DA")}
=============================================================================
