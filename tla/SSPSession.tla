----------------------------- MODULE SSPSession -----------------------------
(***************************************************************************)
(* The client side of the SSP: one run after another of ssp_log,            *)
(* ssp_raw_log or the simulator ssp_sim, ssp_cmd stopping them, and other   *)
(* clients of the command port.  A run leaves its process id and a lock     *)
(* file, named after the data file being written, for other programs to     *)
(* read; SIGINT may strike it between any two steps.  The SSP itself is the  *)
(* service that SSPControl implements, one command at a time.               *)
(***************************************************************************)
EXTENDS Integers, Sequences

CONSTANTS
  Wants,      \* the scans a run may be started for: records of ns and ne
  OtherWants, \* those that another client may ask for
  Indices,    \* indices that IX: may name
  MaxRuns,    \* bound on the runs
  MaxOthers,  \* bound on the commands of other clients
  MaxStops,   \* bound on what may stop a run
  MaxSocket,  \* bound on the scans waiting in a socket
  MaxIndex    \* bound on the index of a data file

SSP_MAX_SAMPLES == 4096
SSP_MAX_NE == 7

ASSUME SessionAssumption ==
  /\ Wants \cup OtherWants \subseteq [ns : 1..SSP_MAX_SAMPLES, ne : 1..SSP_MAX_NE]
  /\ Indices \subseteq Nat \ {0}
  /\ MaxRuns \in Nat /\ MaxRuns + 2 < 65536
  /\ MaxOthers \in Nat /\ MaxStops \in Nat /\ MaxSocket \in Nat
  /\ MaxIndex \in Nat

\* A run's number is its process id, its connection and its UDP port, and a port
\* has 16 bits.
Runs == 1..MaxRuns
Other == MaxRuns + 1
Cmd == MaxRuns + 2
Conns == 1..Cmd

NoFile == -1
Empty == 0

VARIABLES
  en, conf,      \* the SSP
  sent, result,  \* by connection: the command on its way, the answer on its way
  socket,        \* the scans that wait in the run's UDP socket
  run, prog, pc, want, todo,      \* the run, its program, what it has left to send
  index, prev_index, arg,         \* mlf's index; move_lock's variable and argument
  pid_file, locks,                \* PID_FILE; the n of the files ssp_n.lock
  stop, victim,                   \* ssp_cmd DA
  others, stops,                  \* how often others have acted
  alone,   \* history: nobody else has changed anything since the run's DA
  died,    \* history: the last run ended without cleaning up
  stale    \* history: lock files that killed runs left

ssp == <<en, conf>>
wire == <<sent, result>>
files == <<pid_file, locks>>
lock == <<prev_index, arg>>
process == <<run, prog, want>>
stopper == <<stop, victim, others, stops>>
history == <<alone, died, stale>>
vars == <<ssp, wire, socket, process, pc, todo, index, lock, files, stopper, history>>

-----------------------------------------------------------------------------
(* The SSP, as SSPService describes it *)

None == [op |-> "none", v |-> 0]
NoAnswer == [op |-> "none", code |-> 0]
Command(op, v) == [op |-> op, v |-> v]

\* Mutant: the N commands are obeyed while enabled.
Code_Lax(c) == CASE c.op = "EN" /\ en -> 503
                 [] c.op = "EN" /\ ~en /\ conf.NP = 0 -> 400
                 [] OTHER -> 200

Code(c) == CASE c.op = "DA" -> 200
             [] c.op # "DA" /\ en -> 503
             [] c.op = "EN" /\ ~en /\ conf.NP = 0 -> 400
             [] OTHER -> 200

Obey(c) ==
  /\ en' = CASE c.op = "EN" -> TRUE [] c.op = "DA" -> FALSE [] OTHER -> en
  /\ conf' = IF c.op \in DOMAIN conf THEN [conf EXCEPT ![c.op] = c.v] ELSE conf

\* Enabling replaces a missing channel selection first.
Defaulted(t) == sent[t].op = "EN" /\ Code(sent[t]) = 200 /\ conf.NE = 0

DefaultChannel(t) ==
  /\ Defaulted(t) /\ conf' = [conf EXCEPT !.NE = 1] /\ alone' = (alone /\ t = run)
  /\ UNCHANGED <<en, wire, socket, process, pc, todo, index, lock, files, stopper, died,
                 stale>>

Serve(t) ==
  /\ sent[t] # None /\ result[t] = NoAnswer /\ ~Defaulted(t)
  /\ sent' = [sent EXCEPT ![t] = None]
  /\ result' = [result EXCEPT ![t] = [op |-> sent[t].op, code |-> Code(sent[t])]]
  /\ IF Code(sent[t]) = 200 THEN Obey(sent[t]) ELSE UNCHANGED ssp
  /\ alone' = IF t = run THEN alone \/ sent[t].op = "DA"
              ELSE alone /\ ssp' = ssp
  /\ UNCHANGED <<socket, process, pc, todo, index, lock, files, stopper, died, stale>>

\* A scan may reach the port of the configuration: it does if whoever enabled
\* has the run's address.
Stream ==
  /\ en /\ pc # "none" /\ conf.NP = run /\ Len(socket) < MaxSocket
  /\ socket' = Append(socket, [ns |-> conf.NS, ne |-> conf.NE])
  /\ UNCHANGED <<ssp, wire, process, pc, todo, index, lock, files, stopper, history>>

-----------------------------------------------------------------------------
(* The other clients *)

Send(t, c) == sent[t] = None /\ result[t] = NoAnswer /\ sent' = [sent EXCEPT ![t] = c]

TakeAnswer(t) == result[t] # NoAnswer /\ result' = [result EXCEPT ![t] = NoAnswer]

OtherCommands ==
  {Command(op, 0) : op \in {"EN", "DA"}} \cup {Command("NP", Other)}
  \cup {Command("NS", w.ns) : w \in OtherWants} \cup {Command("NE", w.ne) : w \in OtherWants}

OtherSends ==
  /\ others < MaxOthers /\ others' = others + 1
  /\ \E c \in OtherCommands : Send(Other, c)
  /\ UNCHANGED <<ssp, result, socket, process, pc, todo, index, lock, files, stop,
                 victim, stops, history>>

OtherDone ==
  /\ TakeAnswer(Other)
  /\ UNCHANGED <<ssp, sent, socket, process, pc, todo, index, lock, files, stopper, history>>

-----------------------------------------------------------------------------
(* A run: its lock file *)

Step(from, to) == pc = from /\ pc' = to

\* PID_FILE is created or emptied, and then written.
OpenPid ==
  /\ Step("pid", "write_pid") /\ pid_file' = Empty
  /\ UNCHANGED <<ssp, wire, socket, process, todo, index, lock, locks, stopper, history>>

WritePid ==
  /\ Step("write_pid", "create") /\ pid_file' = run
  /\ UNCHANGED <<ssp, wire, socket, process, todo, index, lock, locks, stopper, history>>

\* move_lock(1): creates the lock file; the signal is not yet handled.
CreateLock ==
  /\ Step("create", "first") /\ arg' = 1 /\ locks' = locks \cup {1}
  /\ UNCHANGED <<ssp, wire, socket, process, todo, index, prev_index, pid_file, stopper,
                 history>>

\* move_lock(index): rename() does nothing when the old file is not there.
RenameLock ==
  /\ Step("rename", "assign")
  /\ locks' = IF prev_index \in locks THEN (locks \ {prev_index}) \cup {arg} ELSE locks
  /\ UNCHANGED <<ssp, wire, socket, process, todo, index, lock, pid_file, stopper, history>>

AssignPrev ==
  /\ pc \in {"first", "assign"} /\ pc' = "main" /\ prev_index' = arg
  /\ UNCHANGED <<ssp, wire, socket, process, todo, index, arg, files, stopper, history>>

-----------------------------------------------------------------------------
(* A run: what it sends *)

Ix(ix) == IF ix = 0 THEN <<>> ELSE <<Command("IX", ix)>>

\* Mutant: the port is named before the acquisition is disabled.
Script_log_PortFirst(r, w, ix) ==
  <<Command("NP", r), Command("DA", 0)>> \o Ix(ix)
    \o <<Command("NS", w.ns), Command("NE", w.ne), Command("EN", 0)>>

\* ssp_log disables first, names its port, sends its arguments in order and
\* the defaults of those that are missing, and enables.
Script_log(r, w, ix) ==
  <<Command("DA", 0), Command("NP", r)>> \o Ix(ix)
    \o <<Command("NS", w.ns), Command("NE", w.ne), Command("EN", 0)>>

Script_raw_log(r, w, ix) ==
  <<Command("DA", 0), Command("NP", r)>> \o Ix(ix)
    \o <<Command("NS", w.ns), Command("NE", w.ne), Command("EN", 0)>>

\* The simulator keeps the settings to itself.
Script_sim(ix) == Ix(ix)

Script(p, r, w, ix) ==
  CASE p = "ssp_log" -> Script_log(r, w, ix)
    [] p = "ssp_raw_log" -> Script_raw_log(r, w, ix)
    [] p = "ssp_sim" -> Script_sim(ix)

Start ==
  /\ Step("none", "pid") /\ run < MaxRuns /\ run' = run + 1
  /\ prog' \in {"ssp_log", "ssp_raw_log", "ssp_sim"} /\ want' \in Wants
  /\ \E ix \in Indices \cup {0} : todo' = Script(prog', run', want', ix)
  /\ index' = 0 /\ prev_index' = 0 /\ arg' = 0 /\ socket' = <<>>
  /\ alone' = FALSE /\ died' = FALSE
  /\ UNCHANGED <<ssp, wire, files, stopper, stale>>

\* tcp_send()
SendNext ==
  /\ Step("main", "wait") /\ todo # <<>> /\ Head(todo).op # "IX" /\ Send(run, Head(todo))
  /\ UNCHANGED <<ssp, result, socket, process, todo, index, lock, files, stopper, history>>

\* EN is repeated for as long as it is answered 503; no other answer matters.
Answered ==
  /\ Step("wait", "main") /\ TakeAnswer(run)
  /\ todo' = IF Head(todo).op = "EN" /\ result[run].code = 503 THEN todo ELSE Tail(todo)
  /\ UNCHANGED <<ssp, sent, socket, process, index, lock, files, stopper, history>>

\* IX: sets the index of the next data file, and the lock follows.
SetIndex ==
  /\ Step("main", "rename") /\ todo # <<>> /\ Head(todo).op = "IX"
  /\ todo' = Tail(todo) /\ index' = Head(todo).v - 1 /\ arg' = Head(todo).v
  /\ UNCHANGED <<ssp, wire, socket, process, prev_index, files, stopper, history>>

-----------------------------------------------------------------------------
(* A run: scans *)

Channels(ne) == CASE ne \in {1, 2, 4} -> 1 [] ne \in {3, 5, 6} -> 2 [] OTHER -> 3

raw_length(w) == 7 + w.ns * Channels(w.ne)

\* The size of the datagram, and what its header says, agree with raw_length.
Expected(scan) == raw_length(scan) = raw_length(want)

\* Mutant: the data file is opened with the number after the lock's.
NextIndex_Off == index + 2

\* mlf_next_file()
NextIndex == index + 1

OpenFile == index < MaxIndex /\ Step("main", "close") /\ index' = NextIndex

Receive ==
  /\ pc = "main" /\ todo = <<>> /\ prog # "ssp_sim" /\ socket # <<>>
  /\ socket' = Tail(socket)
  /\ IF Expected(Head(socket)) THEN OpenFile ELSE UNCHANGED <<pc, index>>
  /\ UNCHANGED <<ssp, wire, process, todo, lock, files, stopper, history>>

\* The simulator makes a scan of its own.
SimScan ==
  /\ todo = <<>> /\ prog = "ssp_sim" /\ OpenFile
  /\ UNCHANGED <<ssp, wire, socket, process, todo, lock, files, stopper, history>>

\* The file has been written: the lock moves on to the next.
CloseFile ==
  /\ Step("close", "rename") /\ arg' = index + 1
  /\ UNCHANGED <<ssp, wire, socket, process, todo, index, prev_index, files, stopper,
                 history>>

-----------------------------------------------------------------------------
(* A run: its end *)

Die ==
  /\ pc' = "none" /\ died' = TRUE /\ stale' = stale \cup locks
  /\ UNCHANGED <<ssp, wire, socket, process, todo, index, lock, files, alone>>

\* The data file could not be opened: ssp_raw_log goes on without it, the
\* others write to a null pointer.
OpenFails == pc = "close" /\ prog # "ssp_raw_log" /\ Die /\ UNCHANGED stopper

\* SIGINT kills a process that does not handle it yet; later it leads to
\* exit() and cleanup(), and a second one, in cleanup(), returns to a stack
\* frame that is gone.
Exiting == pc \in {"unlink_pid", "unlink_old", "unlink_new"}

Handled == pc \in {"main", "wait", "close", "rename", "assign"}

sigint_handler ==
  /\ Handled /\ pc' = "unlink_pid"
  /\ stale' = IF pc = "assign" /\ arg # prev_index + 1 THEN stale \cup {arg} ELSE stale
  /\ UNCHANGED <<ssp, wire, socket, process, todo, index, lock, files, alone, died>>

\* A bad argument, or a command that cannot be sent, leads to exit() as well.
Fails ==
  /\ pc \in {"main", "wait"} /\ todo # <<>> /\ pc' = "unlink_pid"
  /\ stops < MaxStops /\ stops' = stops + 1
  /\ UNCHANGED <<ssp, wire, socket, process, todo, index, lock, files, stop, victim,
                 others, history>>

Sigint(r) == r = run /\ pc # "none" /\ (sigint_handler \/ (~Handled /\ Die))

cleanup ==
  /\ Step("unlink_pid", "unlink_old") /\ pid_file' = NoFile
  /\ UNCHANGED <<ssp, wire, socket, process, todo, index, lock, locks, stopper, history>>

\* move_lock(0): the lock file has the old name or the next one.
UnlinkOld ==
  /\ Step("unlink_old", "unlink_new") /\ locks' = locks \ {prev_index}
  /\ UNCHANGED <<ssp, wire, socket, process, todo, index, lock, pid_file, stopper, history>>

\* Mutant: move_lock(0) does not remove the next one.
UnlinkNew_Not ==
  /\ Step("unlink_new", "none") /\ prev_index' = 0
  /\ UNCHANGED <<ssp, wire, socket, process, todo, index, arg, files, stopper, history>>

UnlinkNew ==
  /\ Step("unlink_new", "none") /\ locks' = locks \ {prev_index + 1} /\ prev_index' = 0
  /\ UNCHANGED <<ssp, wire, socket, process, todo, index, arg, pid_file, stopper, history>>

-----------------------------------------------------------------------------
(* Whoever stops it: a user at the terminal, or ssp_cmd DA *)

Interrupt ==
  /\ stops < MaxStops /\ stops' = stops + 1 /\ Sigint(run)
  /\ UNCHANGED <<stop, victim, others>>

CmdSends ==
  /\ stop = "none" /\ stops < MaxStops /\ stops' = stops + 1
  /\ stop' = "sent" /\ Send(Cmd, Command("DA", 0))
  /\ UNCHANGED <<ssp, result, socket, process, pc, todo, index, lock, files, victim,
                 others, history>>

CmdAnswered ==
  /\ stop = "sent" /\ stop' = "read" /\ TakeAnswer(Cmd)
  /\ UNCHANGED <<ssp, sent, socket, process, pc, todo, index, lock, files, victim,
                 others, stops, history>>

\* stop_log() gives up when there is no number in PID_FILE.
ReadPid ==
  /\ stop = "read" /\ victim' = pid_file
  /\ stop' = IF pid_file \in {NoFile, Empty} THEN "none" ELSE "kill"
  /\ UNCHANGED <<ssp, wire, socket, process, pc, todo, index, lock, files, others, stops,
                 history>>

\* kill() of a process that is gone does nothing.
Kill ==
  /\ stop = "kill" /\ stop' = "none"
  /\ \/ Sigint(victim)
     \/ /\ ~(victim = run /\ pc # "none")
        /\ UNCHANGED <<ssp, wire, socket, process, pc, todo, index, lock, files, history>>
  /\ UNCHANGED <<victim, others, stops>>

-----------------------------------------------------------------------------
Init ==
  /\ en = FALSE /\ conf = [NS |-> 0, NE |-> 0, NP |-> 0]
  /\ sent = [t \in Conns |-> None] /\ result = [t \in Conns |-> NoAnswer]
  /\ socket = <<>> /\ run = 0 /\ prog = "ssp_log" /\ pc = "none"
  /\ want = (CHOOSE w \in Wants : TRUE) /\ todo = <<>>
  /\ index = 0 /\ prev_index = 0 /\ arg = 0
  /\ pid_file = NoFile /\ locks = {}
  /\ stop = "none" /\ victim = 0 /\ others = 0 /\ stops = 0
  /\ alone = FALSE /\ died = FALSE /\ stale = {}

Next ==
  \/ (\E t \in Conns : DefaultChannel(t) \/ Serve(t)) \/ Stream \/ OtherSends \/ OtherDone
  \/ Start \/ OpenPid \/ WritePid \/ CreateLock \/ RenameLock \/ AssignPrev
  \/ SendNext \/ Answered \/ SetIndex \/ Receive \/ SimScan \/ CloseFile \/ OpenFails \/ Fails
  \/ cleanup \/ UnlinkOld \/ UnlinkNew
  \/ Interrupt \/ CmdSends \/ CmdAnswered \/ ReadPid \/ Kill

Spec == Init /\ [][Next]_vars

-----------------------------------------------------------------------------
(* Properties *)

\* A data file that is being written is named by a lock file, also after a jump
\* of the index and whatever lock files earlier runs left (move_lock, and its
\* callers' index + 1).
LockNamesOpen == pc = "close" => index \in locks

\* A run that cleaned up has removed its lock file and PID_FILE, wherever in
\* move_lock the signal struck it, except between the rename for IX: and the
\* assignment after it.
NoLeftovers == pc = "none" => locks \subseteq stale /\ (died \/ pid_file = NoFile)

\* A run that has come to receive, and whose settings nobody has disturbed, is
\* sent the scans it was started for: no command of its own was refused, nor of
\* an earlier run obeyed late.
Receiving ==
  prog # "ssp_sim" /\ run > 0 /\ todo = <<>> /\ pc \in {"main", "close", "rename", "assign"}
StreamsToMe ==
  Receiving /\ alone => en /\ conf = [NS |-> want.ns, NE |-> want.ne, NP |-> run]

\* The SSP that the clients meet here is the service that SSPControl implements.
Service == INSTANCE SSPService WITH
  Threads <- Conns,
  conf <- [NS |-> conf.NS, NE |-> conf.NE, NP |-> conf.NP, NA |-> 0, NC |-> 0, NF |-> 1],
  trig <- [TL |-> 0, src |-> 0, rising |-> FALSE, ae |-> FALSE]
ImplementsService == Service!Spec
=============================================================================
