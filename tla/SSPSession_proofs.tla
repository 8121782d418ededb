-------------------------- MODULE SSPSession_proofs --------------------------
(* Proofs about SSPSession, for any number of runs, stops and other clients. *)
EXTENDS SSPSession, SequenceTheorems, TLAPS

-----------------------------------------------------------------------------
(* Definitions *)

\* What a run has yet to send: its own settings, in the order of Follows.
Own(c, r, w) ==
  \/ c \in {Command("DA", 0), Command("NP", r), Command("NS", w.ns), Command("NE", w.ne),
            Command("EN", 0)}
  \/ \E ix \in Indices : c = Command("IX", ix)

Follows == {<<"DA", "NP">>, <<"NP", "IX">>, <<"NP", "NS">>, <<"IX", "NS">>,
            <<"NS", "NE">>, <<"NE", "EN">>}

Ops == {"DA", "NP", "IX", "NS", "NE", "EN"}

InOrder(s, r, w, p) ==
  /\ s \in Seq([op : Ops, v : Nat])
  /\ \A i \in 1..Len(s) : Own(s[i], r, w)
  /\ \A i \in 1..Len(s) : i + 1 <= Len(s) => <<s[i].op, s[i + 1].op>> \in Follows
  /\ IF p = "ssp_sim" THEN \A i \in 1..Len(s) : s[i].op = "IX"
     ELSE s # <<>> => s[Len(s)].op = "EN"

Alive == {"main", "wait", "close", "rename", "assign"}
Starting == {"pid", "write_pid", "create", "first"}
Ending == {"unlink_pid", "unlink_old", "unlink_new"}

\* The lock file in every step of a run.
LockInv ==
  /\ index \in Nat /\ prev_index \in Nat /\ arg \in Nat
  /\ pc \in {"pid", "write_pid", "create"} => index = 0
  /\ pc = "first" => index = 0 /\ arg = 1 /\ 1 \in locks
  /\ pc \in {"main", "wait"} => prev_index = index + 1 /\ prev_index \in locks
  /\ pc = "close" => prev_index = index /\ prev_index \in locks
  /\ pc = "rename" => arg = index + 1 /\ prev_index \in locks
  /\ pc = "assign" => arg = index + 1 /\ arg \in locks

\* What may be there besides the lock files of runs that were killed.
LeftInv ==
  /\ pc \in {"none", "pid", "write_pid", "create"} => locks \subseteq stale
  /\ pc = "first" => locks \subseteq stale \cup {1}
  /\ pc \in {"main", "wait", "close", "rename", "unlink_pid", "unlink_old"}
       => locks \subseteq stale \cup {prev_index, prev_index + 1}
  /\ pc \in {"main", "wait", "close", "rename"} => locks \subseteq stale \cup {prev_index}
  /\ pc = "assign" => locks \subseteq stale \cup {arg}
  /\ pc = "unlink_new" => locks \subseteq stale \cup {prev_index + 1}
  /\ pc \in {"unlink_old", "unlink_new"} => pid_file = NoFile
  /\ pc = "none" => died \/ pid_file = NoFile

\* Every command on its way is one that clients send.
Sendable ==
  {None, Command("EN", 0), Command("DA", 0)}
    \cup {Command("NP", p) : p \in 1..Other}
    \cup {Command("NS", w.ns) : w \in Wants \cup OtherWants}
    \cup {Command("NE", w.ne) : w \in Wants \cup OtherWants}

WireInv ==
  /\ run \in 0..MaxRuns /\ prog \in {"ssp_log", "ssp_raw_log", "ssp_sim"}
  /\ pc \in Alive \cup Starting \cup Ending \cup {"none"}
  /\ run = 0 => pc = "none"
  /\ run > 0 => want \in Wants
  /\ InOrder(todo, run, want, prog)
  /\ sent \in [Conns -> Sendable] /\ DOMAIN result = Conns
  /\ \A t \in Runs : t > run => sent[t] = None /\ result[t] = NoAnswer
  /\ pc \in Starting \cup (Alive \ {"wait"}) => sent[run] = None /\ result[run] = NoAnswer
  /\ pc = "wait" => /\ todo # <<>>
                    /\ \/ sent[run] = Head(todo) /\ result[run] = NoAnswer
                       \/ sent[run] = None /\ result[run].op = Head(todo).op

ConfInv ==
  /\ en \in BOOLEAN /\ conf \in [NS : Nat, NE : Nat, NP : Nat]
  /\ conf.NS <= SSP_MAX_SAMPLES /\ conf.NE <= SSP_MAX_NE /\ conf.NP <= Other

\* The run has yet to be answered when it sends op: the commands before it are
\* those of ops.
Pending(ops, op) ==
  todo # <<>> /\ (Head(todo).op \in ops \/ (Head(todo).op = op /\ result[run] = NoAnswer))

\* While nobody interferes, the SSP has what the run has been answered.
AloneInv ==
  /\ pc \in Starting => ~alone
  /\ alone /\ pc \in Alive /\ prog # "ssp_sim" =>
       /\ ~Pending({}, "DA")
       /\ Pending({"DA"}, "NP") \/ conf.NP = run
       /\ Pending({"DA", "NP", "IX"}, "NS") \/ conf.NS = want.ns
       /\ Pending({"DA", "NP", "IX", "NS"}, "NE") \/ conf.NE = want.ne
       /\ en = ~Pending({"DA", "NP", "IX", "NS", "NE"}, "EN")
       /\ result[run] = NoAnswer \/ result[run].code = 200

-----------------------------------------------------------------------------
(* What a run sends *)

\* The settings that a client may ask for are within the SSP's limits.
LEMMA WantType ==
  \A w \in Wants \cup OtherWants :
     /\ w.ns \in Nat /\ 1 <= w.ns /\ w.ns <= SSP_MAX_SAMPLES
     /\ w.ne \in Nat /\ 1 <= w.ne /\ w.ne <= SSP_MAX_NE
<1> SUFFICES ASSUME NEW w \in Wants \cup OtherWants
             PROVE  /\ w.ns \in Nat /\ 1 <= w.ns /\ w.ns <= SSP_MAX_SAMPLES
                    /\ w.ne \in Nat /\ 1 <= w.ne /\ w.ne <= SSP_MAX_NE
  OBVIOUS
<1>1. w \in [ns : 1..SSP_MAX_SAMPLES, ne : 1..SSP_MAX_NE]
  BY SessionAssumption
<1>2. SSP_MAX_SAMPLES \in Nat /\ SSP_MAX_NE \in Nat
  BY DEF SSP_MAX_SAMPLES, SSP_MAX_NE
<1>3. w.ns \in 1..SSP_MAX_SAMPLES /\ w.ne \in 1..SSP_MAX_NE
  BY <1>1
<1> QED
  BY <1>2, <1>3

\* An index that IX: names is a positive number.
LEMMA IndexType == \A ix \in Indices : ix \in Nat /\ ix >= 1
  BY SessionAssumption

\* Once a command has been answered the rest is in order too, and its first
\* command is the one that follows.
LEMMA TailInOrder ==
  ASSUME NEW s, NEW r, NEW w, NEW p, InOrder(s, r, w, p), s # <<>>
  PROVE  /\ InOrder(Tail(s), r, w, p) /\ Own(Head(s), r, w) /\ Len(s) \in Nat /\ Len(s) >= 1
         /\ Tail(s) # <<>> => <<Head(s).op, Head(Tail(s)).op>> \in Follows
         /\ Tail(s) = <<>> /\ p # "ssp_sim" => Head(s).op = "EN"
         /\ p = "ssp_sim" => Head(s).op = "IX"
<1> DEFINE C == [op : Ops, v : Nat]
<1> DEFINE u == Tail(s)
<1>1. /\ s \in Seq(C) /\ u \in Seq(C) /\ Len(s) \in Nat /\ Len(s) >= 1 /\ Len(u) = Len(s) - 1
      /\ Head(s) = s[1] /\ \A i \in 1..Len(u) : u[i] = s[i + 1]
  BY HeadTailProperties, EmptySeq DEF InOrder
<1>2. Own(s[1], r, w) /\ (p = "ssp_sim" => s[1].op = "IX")
  BY <1>1 DEF InOrder
<1>3. ASSUME u # <<>> PROVE u[1] = Head(u) /\ Len(u) >= 1 /\ u[1] = s[2]
  BY <1>1, <1>3, HeadTailProperties, EmptySeq
<1>4. u # <<>> => <<s[1].op, s[2].op>> \in Follows
  BY <1>1, <1>3 DEF InOrder
<1>5. u = <<>> => Len(s) = 1
  <2> HIDE DEF u
  <2>1. u = <<>> => Len(u) = 0
    OBVIOUS
  <2> QED
    BY <1>1, <2>1
<1>6. u = <<>> /\ p # "ssp_sim" => s[1].op = "EN"
  BY <1>1, <1>5 DEF InOrder
<1>7. InOrder(u, r, w, p)
  <2>1. \A i \in 1..Len(u) : i + 1 \in 1..Len(s) /\ u[i] = s[i + 1]
    BY <1>1
  <2>2. \A i \in 1..Len(u) : Own(u[i], r, w)
    BY <2>1 DEF InOrder
  <2>3. ASSUME NEW i \in 1..Len(u), i + 1 <= Len(u)
        PROVE  <<u[i].op, u[i + 1].op>> \in Follows
    <3>1. u[i] = s[i + 1] /\ u[i + 1] = s[(i + 1) + 1]
      BY <1>1, <2>3
    <3>2. i + 1 \in 1..Len(s) /\ (i + 1) + 1 <= Len(s)
      BY <1>1, <2>3
    <3> QED
      BY <3>1, <3>2 DEF InOrder
  <2>4. CASE p = "ssp_sim"
    <3>1. \A i \in 1..Len(u) : u[i].op = "IX"
      BY <2>1, <2>4 DEF InOrder
    <3> QED
      BY <1>1, <2>2, <2>3, <2>4, <3>1 DEF InOrder
  <2>5. CASE p # "ssp_sim"
    <3>1. u # <<>> => u[Len(u)] = s[Len(s)]
      BY <1>1, <1>3
    <3>2. s[Len(s)].op = "EN"
      BY <1>1, <2>5 DEF InOrder
    <3> QED
      BY <1>1, <2>2, <2>3, <2>5, <3>1, <3>2 DEF InOrder
  <2> QED
    BY <2>4, <2>5
<1> QED
  BY <1>1, <1>2, <1>3, <1>4, <1>6, <1>7

\* A sequence with a first element is not empty.
LEMMA FirstOf ==
  ASSUME NEW S, NEW s \in Seq(S), Len(s) >= 1
  PROVE  s # <<>> /\ Head(s) = s[1]
  OBVIOUS

\* A run starts with all its commands in order, whatever program it is.
LEMMA ScriptInOrder ==
  ASSUME NEW p \in {"ssp_log", "ssp_raw_log", "ssp_sim"}, NEW ix \in Indices \cup {0},
         NEW r \in Nat, NEW w \in Wants
  PROVE  /\ InOrder(Script(p, r, w, ix), r, w, p)
         /\ p # "ssp_sim" => /\ Script(p, r, w, ix) # <<>>
                             /\ Head(Script(p, r, w, ix)).op = "DA"
<1> DEFINE C == [op : Ops, v : Nat]
           DA == Command("DA", 0)
           NP == Command("NP", r)
           IX == Command("IX", ix)
           NS == Command("NS", w.ns)
           NE == Command("NE", w.ne)
           EN == Command("EN", 0)
           s == Script(p, r, w, ix)
<1>1. w.ns \in Nat /\ w.ne \in Nat /\ ix \in Nat
  BY WantType, IndexType
<1>2. /\ DA \in C /\ NP \in C /\ IX \in C /\ NS \in C /\ NE \in C /\ EN \in C
      /\ DA.op = "DA" /\ NP.op = "NP" /\ IX.op = "IX" /\ NS.op = "NS" /\ NE.op = "NE"
      /\ EN.op = "EN"
  BY <1>1 DEF Command, Ops
<1>3. /\ Own(DA, r, w) /\ Own(NP, r, w) /\ Own(NS, r, w) /\ Own(NE, r, w)
      /\ Own(EN, r, w) /\ (ix # 0 => Own(IX, r, w))
  BY DEF Own
<1> HIDE DEF DA, NP, IX, NS, NE, EN, C
<1>4. CASE p # "ssp_sim"
  <2> DEFINE a == <<DA, NP>>
             b == Ix(ix)
             c == <<NS, NE, EN>>
             n == IF ix = 0 THEN 0 ELSE 1
  <2>1. s = (a \o b) \o c
    BY <1>4 DEF Script, Script_log, Script_raw_log, DA, NP, NS, NE, EN
  <2>2. a \in Seq(C) /\ Len(a) = 2 /\ a[1] = DA /\ a[2] = NP
    BY <1>2
  <2>3. b \in Seq(C) /\ Len(b) = n /\ (n = 1 => b[1] = IX)
    BY <1>2 DEF Ix, IX
  <2>4. c \in Seq(C) /\ Len(c) = 3 /\ c[1] = NS /\ c[2] = NE /\ c[3] = EN
    BY <1>2
  <2>5. n \in {0, 1} /\ (n = 0 => ix = 0) /\ (n = 1 => ix # 0)
    OBVIOUS
  <2> HIDE DEF a, b, c, s, n
  <2>6. /\ a \o b \in Seq(C) /\ Len(a \o b) = 2 + n
        /\ \A i \in 1..2 + n : (a \o b)[i] = IF i <= 2 THEN a[i] ELSE b[i - 2]
    <3>1. /\ a \o b \in Seq(C) /\ Len(a \o b) = Len(a) + Len(b)
          /\ \A i \in 1..Len(a) + Len(b) :
               (a \o b)[i] = IF i <= Len(a) THEN a[i] ELSE b[i - Len(a)]
      BY <2>2, <2>3, ConcatProperties, Zenon
    <3> QED
      BY <2>2, <2>3, <3>1
  <2> DEFINE ab == a \o b
  <2> HIDE DEF ab
  <2>7. /\ s \in Seq(C) /\ Len(s) = (2 + n) + 3
        /\ \A i \in 1..(2 + n) + 3 :
             s[i] = IF i <= 2 + n THEN (a \o b)[i] ELSE c[i - (2 + n)]
    <3>0. ab \in Seq(C) /\ s = ab \o c
      BY <2>1, <2>6 DEF ab
    <3>1. /\ s \in Seq(C) /\ Len(s) = Len(ab) + Len(c)
          /\ \A i \in 1..Len(ab) + Len(c) :
               s[i] = IF i <= Len(ab) THEN ab[i] ELSE c[i - Len(ab)]
      BY <2>4, <3>0, ConcatProperties, Zenon
    <3>2. Len(ab) = 2 + n
      BY <2>6 DEF ab
    <3>3. /\ s \in Seq(C) /\ Len(s) = (2 + n) + 3
          /\ \A i \in 1..(2 + n) + 3 :
               s[i] = IF i <= 2 + n THEN ab[i] ELSE c[i - (2 + n)]
      BY <2>4, <3>1, <3>2, Zenon
    <3> QED
      BY <3>3 DEF ab
  <2>10. s \in Seq(C)
    BY <2>7
  <2>8. CASE n = 0
    <3>1. Len(s) = 5 /\ s[1] = DA /\ s[2] = NP /\ s[3] = NS /\ s[4] = NE /\ s[5] = EN
      BY <2>2, <2>4, <2>6, <2>7, <2>8
    <3>2. InOrder(s, r, w, p)
      BY <1>2, <1>3, <1>4, <2>10, <3>1 DEF InOrder, Follows, C, Ops
    <3>3. Len(s) >= 1 /\ s[1] = DA
      BY <3>1
    <3>4. s # <<>> /\ Head(s) = DA
      BY <2>10, <3>3, FirstOf
    <3> QED
      BY <1>2, <3>2, <3>4 DEF s
  <2>9. CASE n = 1
    <3>1. /\ Len(s) = 6 /\ s[1] = DA /\ s[2] = NP /\ s[3] = IX /\ s[4] = NS /\ s[5] = NE
          /\ s[6] = EN
      BY <2>2, <2>3, <2>4, <2>6, <2>7, <2>9
    <3>2. InOrder(s, r, w, p)
      BY <1>2, <1>3, <1>4, <2>5, <2>9, <2>10, <3>1 DEF InOrder, Follows, C, Ops
    <3>3. Len(s) >= 1 /\ s[1] = DA
      BY <3>1
    <3>4. s # <<>> /\ Head(s) = DA
      BY <2>10, <3>3, FirstOf
    <3> QED
      BY <1>2, <3>2, <3>4 DEF s
  <2> QED
    BY <2>5, <2>8, <2>9
<1>6. CASE p = "ssp_sim"
  <2>1. s = IF ix = 0 THEN <<>> ELSE <<IX>>
    BY <1>6 DEF Script, Script_sim, Ix, IX
  <2>2. s \in Seq(C) /\ Len(s) = (IF ix = 0 THEN 0 ELSE 1) /\ (ix # 0 => s[1] = IX)
    BY <2>1, <1>2
  <2> HIDE DEF s
  <2>3. InOrder(s, r, w, p)
    BY <1>2, <1>3, <1>6, <2>2 DEF InOrder, Follows, C, Ops
  <2> QED
    BY <1>6, <2>3 DEF s
<1> QED
  BY <1>4, <1>6

-----------------------------------------------------------------------------
(* The lock file *)

\* A signal ends a run that does not handle it, or sends it to cleanup().
LEMMA Signalled ==
  ASSUME NEW r, Sigint(r)
  PROVE  /\ UNCHANGED <<ssp, wire, socket, process, todo, index, lock, files, alone>>
         /\ pc # "none"
         /\ \/ pc \in Alive /\ pc' = "unlink_pid" /\ died' = died
               /\ stale' = IF pc = "assign" /\ arg # prev_index + 1
                           THEN stale \cup {arg} ELSE stale
            \/ pc' = "none" /\ died' /\ stale' = stale \cup locks
  BY DEF Sigint, sigint_handler, Handled, Die, Alive

\* A run's command to set the index comes with a positive number.
LEMMA IxType ==
  ASSUME InOrder(todo, run, want, prog), todo # <<>>, Head(todo).op = "IX"
  PROVE  Head(todo).v \in Nat /\ Head(todo).v >= 1 /\ Head(todo).v - 1 \in Nat
<1>1. Own(Head(todo), run, want)
  BY TailInOrder
<1>2. \E ix \in Indices : Head(todo) = Command("IX", ix)
  BY <1>1 DEF Own, Command
<1>3. Head(todo).v \in Indices
  BY <1>2 DEF Command
<1>4. Head(todo).v \in Nat /\ Head(todo).v >= 1
  BY <1>3, IndexType
<1> QED
  BY <1>4

\* Every step keeps the lock file with the data file.
LEMMA LockStep == WireInv /\ LockInv /\ [Next]_vars => LockInv'
<1> SUFFICES ASSUME WireInv, LockInv, [Next]_vars PROVE LockInv'
  OBVIOUS
<1>1. CASE UNCHANGED <<pc, index, prev_index, arg, locks>>
  BY <1>1 DEF LockInv
<1>2. CASE Start
  BY <1>2 DEF LockInv, Start, Step, files
<1>3. CASE OpenPid \/ WritePid
  BY <1>3 DEF LockInv, OpenPid, WritePid, Step, lock
<1>4. CASE CreateLock
  BY <1>4 DEF LockInv, CreateLock, Step
<1>5. CASE RenameLock
  BY <1>5 DEF LockInv, RenameLock, Step, lock
<1>6. CASE AssignPrev
  BY <1>6 DEF LockInv, AssignPrev, files
<1>7. CASE SendNext \/ Answered
  BY <1>7 DEF LockInv, SendNext, Answered, Step, lock, files
<1>8. CASE SetIndex
  <2>1. index' = Head(todo).v - 1 /\ arg' = Head(todo).v /\ pc = "main" /\ pc' = "rename"
    /\ prev_index' = prev_index /\ locks' = locks
    BY <1>8 DEF SetIndex, Step, files
  <2>2. Head(todo).v \in Nat /\ Head(todo).v >= 1 /\ Head(todo).v - 1 \in Nat
    BY <1>8, IxType DEF WireInv, SetIndex
  <2> QED
    BY <2>1, <2>2 DEF LockInv
<1>9. CASE Receive \/ SimScan
  <2>1. /\ \/ pc = "main" /\ pc' = "close" /\ index' = index + 1
           \/ pc' = pc /\ index' = index
        /\ prev_index' = prev_index /\ arg' = arg /\ locks' = locks
    BY <1>9 DEF Receive, SimScan, OpenFile, NextIndex, Step, lock, files
  <2> QED
    BY <2>1 DEF LockInv
<1>10. CASE CloseFile
  BY <1>10 DEF LockInv, CloseFile, Step, files
<1>11. CASE OpenFails \/ Fails \/ cleanup
  BY <1>11 DEF LockInv, OpenFails, Die, Fails, cleanup, Step, lock, files
<1>12. CASE UnlinkOld \/ UnlinkNew
  BY <1>12 DEF LockInv, UnlinkOld, UnlinkNew, Step, lock
<1>13. CASE Interrupt \/ Kill
  <2>1. CASE UNCHANGED <<pc, index, lock, files>>
    BY <1>1, <2>1 DEF lock, files
  <2>2. ASSUME NEW r, Sigint(r) PROVE LockInv'
    BY <2>2, Signalled DEF LockInv, lock, files
  <2> QED
    BY <1>13, <2>1, <2>2 DEF Interrupt, Kill
<1> QED
  BY <1>1, <1>2, <1>3, <1>4, <1>5, <1>6, <1>7, <1>8, <1>9, <1>10, <1>11, <1>12, <1>13
     DEF Next, vars, DefaultChannel, Serve, Stream, OtherSends, OtherDone, CmdSends,
         CmdAnswered, ReadPid, lock, files

\* Every step leaves no more behind than the lock file of the run.
LEMMA LeftStep == WireInv /\ LockInv /\ LeftInv /\ [Next]_vars => LeftInv'
<1> SUFFICES ASSUME WireInv, LockInv, LeftInv, [Next]_vars PROVE LeftInv'
  OBVIOUS
<1>1. CASE UNCHANGED <<pc, prev_index, arg, locks, pid_file, died, stale>>
  BY <1>1 DEF LeftInv
<1>2. CASE Start \/ OpenPid \/ WritePid \/ CreateLock
  BY <1>2 DEF LeftInv, Start, OpenPid, WritePid, CreateLock, Step, files, history
<1>3. CASE RenameLock
  BY <1>3 DEF LeftInv, LockInv, RenameLock, Step, lock, history
<1>4. CASE AssignPrev
  BY <1>4 DEF LeftInv, LockInv, AssignPrev, files, history
<1>5. CASE SendNext \/ Answered \/ SetIndex
  BY <1>5 DEF LeftInv, SendNext, Answered, SetIndex, Step, lock, files, history
<1>6. CASE Receive \/ SimScan
  BY <1>6 DEF LeftInv, Receive, SimScan, OpenFile, Step, lock, files, history
<1>7. CASE CloseFile \/ Fails
  BY <1>7 DEF LeftInv, CloseFile, Fails, Step, files, lock, history
<1>8. CASE OpenFails
  BY <1>8 DEF LeftInv, OpenFails, Die, files, lock
<1>9. CASE cleanup \/ UnlinkOld \/ UnlinkNew
  BY <1>9 DEF LeftInv, cleanup, UnlinkOld, UnlinkNew, Step, lock, history
<1>10. CASE Interrupt \/ Kill
  <2>1. CASE UNCHANGED <<pc, lock, files, history>>
    BY <1>1, <2>1 DEF lock, files, history
  <2>2. ASSUME NEW r, Sigint(r) PROVE LeftInv'
    <3>1. CASE pc' = "none" /\ died' /\ stale' = stale \cup locks
      BY <2>2, <3>1, Signalled DEF LeftInv, lock, files
    <3>2. CASE pc = "assign" /\ pc' = "unlink_pid" /\ arg # prev_index + 1
                /\ stale' = stale \cup {arg}
      BY <2>2, <3>2, Signalled DEF LeftInv, lock, files
    <3>3. CASE pc = "assign" /\ pc' = "unlink_pid" /\ arg = prev_index + 1 /\ stale' = stale
      BY <2>2, <3>3, Signalled DEF LeftInv, lock, files
    <3>4. CASE pc \in Alive \ {"assign"} /\ pc' = "unlink_pid" /\ stale' = stale
      BY <2>2, <3>4, Signalled DEF LeftInv, lock, files, Alive
    <3> QED
      BY <2>2, <3>1, <3>2, <3>3, <3>4, Signalled
  <2> QED
    BY <1>10, <2>1, <2>2 DEF Interrupt, Kill
<1> QED
  BY <1>1, <1>2, <1>3, <1>4, <1>5, <1>6, <1>7, <1>8, <1>9, <1>10
     DEF Next, vars, DefaultChannel, Serve, Stream, OtherSends, OtherDone, CmdSends,
         CmdAnswered, ReadPid, lock, files, history

-----------------------------------------------------------------------------
(* Commands and answers on their way *)

\* The numbers of the connections.
LEMMA Numbers ==
  /\ MaxRuns \in Nat /\ Other \in Nat /\ Cmd \in Nat /\ Other = MaxRuns + 1
  /\ Cmd = MaxRuns + 2 /\ Other \in Conns /\ Cmd \in Conns /\ Runs \subseteq Conns
  /\ Other \notin Runs /\ Cmd \notin Runs
<1>1. MaxRuns \in Nat
  BY SessionAssumption
<1> QED
  BY <1>1 DEF Other, Cmd, Conns, Runs

\* A step that only moves the run along its program keeps the wire as it was.
LEMMA MoveOn ==
  ASSUME WireInv, UNCHANGED <<sent, result, run, prog, want, todo>>,
         pc' \in Alive \cup Starting \cup Ending \cup {"none"}, pc' # "wait", pc # "none",
         pc' \in Starting \cup Alive => pc \in Starting \cup (Alive \ {"wait"})
  PROVE  WireInv'
<1>1. InOrder(todo, run, want, prog)'
  BY DEF WireInv, InOrder, Own
<1> QED
  BY <1>1 DEF WireInv, Alive, Starting, Ending

\* Every step keeps each command with the run that sent it.
LEMMA WireStep == WireInv /\ [Next]_vars => WireInv'
<1> SUFFICES ASSUME WireInv, [Next]_vars PROVE WireInv'
  OBVIOUS
<1>0. UNCHANGED <<run, prog, want, todo>> => InOrder(todo, run, want, prog)'
  BY DEF WireInv, InOrder, Own
<1>1. CASE UNCHANGED <<pc, sent, result, run, prog, want, todo>>
  BY <1>0, <1>1 DEF WireInv
<1>2. CASE \E t \in Conns : Serve(t)
  <2>1. PICK t \in Conns : Serve(t)
    BY <1>2
  <2>2. /\ UNCHANGED <<pc, run, prog, want, todo>> /\ sent[t] # None /\ result[t] = NoAnswer
        /\ sent' = [sent EXCEPT ![t] = None]
        /\ result' = [result EXCEPT ![t] = [op |-> sent[t].op, code |-> Code(sent[t])]]
    BY <2>1 DEF Serve, process
  <2>3. InOrder(todo, run, want, prog)'
    BY <1>0, <2>2
  <2>4. sent' \in [Conns -> Sendable] /\ DOMAIN result' = Conns
    BY <2>2 DEF WireInv, Sendable
  <2>5. \A u \in Conns : u # t => sent'[u] = sent[u] /\ result'[u] = result[u]
    BY <2>2 DEF WireInv
  <2>6. sent'[t] = None /\ result'[t].op = sent[t].op
    BY <2>2 DEF WireInv
  <2>7. \A u \in Runs : u > run => u # t
    BY <2>2 DEF WireInv
  <2>8. \A u \in Runs : u > run' => sent'[u] = None /\ result'[u] = NoAnswer
    BY <2>2, <2>5, <2>7, Numbers DEF WireInv
  <2>9. pc # "none" => run \in Conns
    <3>1. pc # "none" => run \in Runs
      BY Numbers DEF WireInv, Runs
    <3> QED
      BY <3>1, Numbers
  <2>10. CASE t = run
    <3>1. pc \in {"wait"} \cup Ending \cup {"none"}
      BY <2>2, <2>10 DEF WireInv, Starting, Alive, Ending
    <3>2. pc = "wait" => sent'[run] = None /\ result'[run].op = Head(todo).op
      BY <2>2, <2>6, <2>10 DEF WireInv
    <3> QED
      BY <2>2, <2>3, <2>4, <2>8, <3>1, <3>2 DEF WireInv, Starting, Alive, Ending
  <2>11. CASE t # run
    <3>1. pc # "none" => sent'[run] = sent[run] /\ result'[run] = result[run]
      BY <2>5, <2>9, <2>11
    <3> QED
      BY <2>2, <2>3, <2>4, <2>8, <3>1 DEF WireInv, Starting, Alive
  <2> QED
    BY <2>10, <2>11
<1>3. CASE OtherSends \/ OtherDone \/ CmdSends \/ CmdAnswered
  <2>1. PICK t \in {Other, Cmd} :
          /\ \/ \E c \in Sendable : sent' = [sent EXCEPT ![t] = c] /\ result' = result
             \/ sent' = sent /\ result' = [result EXCEPT ![t] = NoAnswer]
          /\ UNCHANGED <<pc, run, prog, want, todo>>
    <3>1. CASE OtherSends
      <4>1. PICK c \in OtherCommands : sent' = [sent EXCEPT ![Other] = c]
        BY <3>1 DEF OtherSends, Send
      <4>2. Other \in 1..Other
        BY Numbers
      <4>3. c \in Sendable
        BY <4>1, <4>2 DEF OtherCommands, Sendable
      <4> QED
        BY <3>1, <4>1, <4>3 DEF OtherSends, process
    <3>2. CASE OtherDone
      BY <3>2 DEF OtherDone, TakeAnswer, process
    <3>3. CASE CmdSends
      BY <3>3 DEF CmdSends, Send, Sendable, process
    <3>4. CASE CmdAnswered
      BY <3>4 DEF CmdAnswered, TakeAnswer, process
    <3> QED
      BY <1>3, <3>1, <3>2, <3>3, <3>4
  <2>2. InOrder(todo, run, want, prog)'
    BY <1>0, <2>1
  <2>3. t \in Conns /\ t \notin Runs
    BY <2>1, Numbers
  <2>4. sent' \in [Conns -> Sendable] /\ DOMAIN result' = Conns
    BY <2>1, <2>3 DEF WireInv
  <2>5. \A u \in Runs : sent'[u] = sent[u] /\ result'[u] = result[u]
    BY <2>1, <2>3, Numbers DEF WireInv
  <2>6. pc # "none" => run \in Runs
    BY Numbers DEF WireInv, Runs
  <2> QED
    BY <2>1, <2>2, <2>4, <2>5, <2>6 DEF WireInv, Starting, Alive
<1>4. CASE Start
  <2>1. /\ run' = run + 1 /\ run < MaxRuns /\ pc' = "pid" /\ UNCHANGED <<sent, result>>
        /\ prog' \in {"ssp_log", "ssp_raw_log", "ssp_sim"} /\ want' \in Wants
    BY <1>4 DEF Start, Step, wire
  <2>2. run' \in Runs /\ run' > run /\ run' # 0 /\ run' \in Nat
    BY <2>1, Numbers DEF WireInv, Runs
  <2>3. PICK ix \in Indices \cup {0} : todo' = Script(prog', run', want', ix)
    BY <1>4 DEF Start
  <2>4. InOrder(todo, run, want, prog)'
    BY <2>1, <2>2, <2>3, ScriptInOrder
  <2>5. sent'[run'] = None /\ result'[run'] = NoAnswer
    BY <2>1, <2>2 DEF WireInv
  <2>6. \A t \in Runs : t > run' => sent'[t] = None /\ result'[t] = NoAnswer
    BY <2>1, <2>2, Numbers DEF WireInv, Runs
  <2> QED
    BY <2>1, <2>2, <2>4, <2>5, <2>6, Numbers DEF WireInv, Starting, Alive, Runs
<1>5. CASE SendNext
  <2>1. /\ pc = "main" /\ pc' = "wait" /\ todo # <<>> /\ Head(todo).op # "IX"
        /\ sent' = [sent EXCEPT ![run] = Head(todo)]
        /\ UNCHANGED <<result, run, prog, want, todo>>
    BY <1>5 DEF SendNext, Step, Send, process
  <2>2. run \in Runs /\ run \in Conns /\ run \in 1..Other
    BY <2>1, Numbers DEF WireInv, Runs
  <2>3. Head(todo) \in Sendable
    <3>1. Own(Head(todo), run, want)
      BY <2>1, TailInOrder DEF WireInv
    <3>3. want \in Wants
      BY <2>2, Numbers DEF WireInv, Runs
    <3>2. \A ix \in Indices : Head(todo) # Command("IX", ix)
      BY <2>1 DEF Command
    <3> QED
      BY <2>2, <3>1, <3>2, <3>3 DEF Own, Sendable
  <2>4. InOrder(todo, run, want, prog)'
    BY <1>0, <2>1
  <2>5. sent' \in [Conns -> Sendable] /\ sent'[run] = Head(todo)
    BY <2>1, <2>2, <2>3 DEF WireInv
  <2>6. \A t \in Runs : t > run => sent'[t] = sent[t]
    BY <2>1, Numbers DEF WireInv
  <2>7. result[run] = NoAnswer
    BY <2>1 DEF WireInv, Alive
  <2> QED
    BY <2>1, <2>4, <2>5, <2>6, <2>7 DEF WireInv, Starting, Alive
<1>6. CASE Answered
  <2>1. /\ pc = "wait" /\ pc' = "main" /\ result[run] # NoAnswer
        /\ result' = [result EXCEPT ![run] = NoAnswer]
        /\ todo' = todo \/ todo' = Tail(todo)
        /\ UNCHANGED <<sent, run, prog, want>>
    BY <1>6 DEF Answered, Step, TakeAnswer, process
  <2>2. run \in Runs /\ run \in Conns
    BY <2>1, Numbers DEF WireInv, Runs
  <2>3. InOrder(todo, run, want, prog)'
    <3>1. InOrder(Tail(todo), run, want, prog)
      BY <2>1, TailInOrder DEF WireInv
    <3> QED
      BY <1>0, <2>1, <3>1 DEF WireInv, InOrder, Own
  <2>4. sent[run] = None
    BY <2>1 DEF WireInv
  <2>5. result'[run] = NoAnswer /\ DOMAIN result' = Conns
    BY <2>1, <2>2 DEF WireInv
  <2>6. \A t \in Runs : t > run => result'[t] = result[t]
    BY <2>1, Numbers DEF WireInv
  <2> QED
    BY <2>1, <2>3, <2>4, <2>5, <2>6 DEF WireInv, Starting, Alive
<1>7. CASE SetIndex
  <2>1. /\ pc = "main" /\ pc' = "rename" /\ todo # <<>> /\ todo' = Tail(todo)
        /\ UNCHANGED <<sent, result, run, prog, want>>
    BY <1>7 DEF SetIndex, Step, wire, process
  <2>2. InOrder(Tail(todo), run, want, prog)
    BY <2>1, TailInOrder DEF WireInv
  <2>3. InOrder(todo, run, want, prog)'
    BY <2>1, <2>2 DEF InOrder, Own
  <2> QED
    BY <2>1, <2>3 DEF WireInv, Starting, Alive
<1>8. CASE OpenPid \/ WritePid \/ CreateLock \/ RenameLock \/ AssignPrev
  BY <1>8, MoveOn DEF OpenPid, WritePid, CreateLock, RenameLock, AssignPrev, Step, wire,
     process, Starting, Alive
<1>9. CASE Receive \/ SimScan \/ CloseFile \/ OpenFails \/ Fails
  <2>1. CASE UNCHANGED pc
    BY <1>1, <1>9, <2>1 DEF Receive, SimScan, CloseFile, OpenFails, Fails, Die, OpenFile, Step,
       wire, process
  <2>2. CASE pc' # pc
    BY <1>9, <2>2, MoveOn DEF Receive, SimScan, CloseFile, OpenFails, Fails, Die, OpenFile,
       Step, wire, process, Alive, Starting, Ending
  <2> QED
    BY <2>1, <2>2
<1>10. CASE cleanup \/ UnlinkOld \/ UnlinkNew
  BY <1>10, MoveOn DEF cleanup, UnlinkOld, UnlinkNew, Step, wire, process, Ending, Alive,
     Starting
<1>11. CASE Interrupt \/ Kill
  <2>1. CASE UNCHANGED <<wire, process, pc, todo>>
    BY <1>1, <2>1 DEF wire, process
  <2>2. ASSUME NEW r, Sigint(r) PROVE WireInv'
    BY <2>2, Signalled, MoveOn DEF wire, process, Alive, Starting, Ending
  <2> QED
    BY <1>11, <2>1, <2>2 DEF Interrupt, Kill
<1> QED
  BY <1>1, <1>2, <1>3, <1>4, <1>5, <1>6, <1>7, <1>8, <1>9, <1>10, <1>11
     DEF Next, vars, DefaultChannel, Stream, ReadPid, wire, process

-----------------------------------------------------------------------------
(* What the SSP does with a command *)

\* What clients send: five commands, each with a value within its limits.
LEMMA SentType ==
  ASSUME NEW c \in Sendable, c # None
  PROVE  \/ c.op = "EN" \/ c.op = "DA"
         \/ c.op = "NP" /\ c.v \in Nat /\ c.v <= Other
         \/ c.op = "NS" /\ c.v \in Nat /\ 1 <= c.v /\ c.v <= SSP_MAX_SAMPLES
         \/ c.op = "NE" /\ c.v \in Nat /\ 1 <= c.v /\ c.v <= SSP_MAX_NE
<1>1. CASE c \in {Command("EN", 0), Command("DA", 0)}
  BY <1>1 DEF Command
<1>2. CASE \E p \in 1..Other : c = Command("NP", p)
  BY <1>2, Numbers DEF Command
<1>3. CASE \E w \in Wants \cup OtherWants : c = Command("NS", w.ns) \/ c = Command("NE", w.ne)
  BY <1>3, WantType DEF Command
<1> QED
  BY <1>1, <1>2, <1>3 DEF Sendable

\* What a command that is served finds, and what it leaves.
LEMMA Served ==
  ASSUME WireInv, ConfInv, NEW t \in Conns, Serve(t)
  PROVE  /\ sent[t] \in Sendable /\ sent[t] # None
         /\ \/ sent[t].op = "DA" /\ Code(sent[t]) = 200 /\ en' = FALSE /\ conf' = conf
            \/ sent[t].op # "DA" /\ en /\ Code(sent[t]) = 503 /\ UNCHANGED ssp
            \/ /\ sent[t].op = "EN" /\ ~en /\ conf.NP = 0 /\ Code(sent[t]) = 400
               /\ UNCHANGED ssp
            \/ /\ sent[t].op = "EN" /\ ~en /\ conf.NP # 0 /\ conf.NE # 0
               /\ Code(sent[t]) = 200 /\ en' = TRUE /\ conf' = conf
            \/ /\ sent[t].op \in {"NS", "NE", "NP"} /\ ~en /\ Code(sent[t]) = 200
               /\ en' = en /\ conf' = [conf EXCEPT ![sent[t].op] = sent[t].v]
<1> DEFINE c == sent[t]
<1>1. c \in Sendable /\ c # None
  BY DEF Serve, WireInv
<1>2. DOMAIN conf = {"NS", "NE", "NP"}
  BY DEF ConfInv
<1>3. IF Code(c) = 200 THEN Obey(c) ELSE UNCHANGED ssp
  BY DEF Serve
<1>4. ~(c.op = "EN" /\ Code(c) = 200 /\ conf.NE = 0)
  BY DEF Serve, Defaulted
<1>5. c.op \in {"EN", "DA", "NP", "NS", "NE"}
  BY <1>1, SentType
<1> HIDE DEF c
<1>6. CASE c.op = "DA"
  <2>1. Code(c) = 200
    BY <1>6 DEF Code
  <2>2. en' = FALSE /\ conf' = conf
    BY <1>2, <1>3, <1>6, <2>1 DEF Obey
  <2> QED
    BY <1>1, <1>6, <2>1, <2>2 DEF c
<1>7. CASE c.op # "DA" /\ en
  <2>1. Code(c) = 503
    BY <1>7 DEF Code
  <2>2. UNCHANGED ssp
    BY <1>3, <2>1
  <2> QED
    BY <1>1, <1>7, <2>1, <2>2 DEF c
<1>8. CASE c.op = "EN" /\ ~en /\ conf.NP = 0
  <2>1. Code(c) = 400
    BY <1>8 DEF Code
  <2>2. UNCHANGED ssp
    BY <1>3, <2>1
  <2> QED
    BY <1>1, <1>8, <2>1, <2>2 DEF c
<1>9. CASE c.op = "EN" /\ ~en /\ conf.NP # 0
  <2>1. Code(c) = 200
    BY <1>9 DEF Code
  <2>2. en' = TRUE /\ conf' = conf
    BY <1>2, <1>3, <1>9, <2>1 DEF Obey
  <2> QED
    BY <1>1, <1>4, <1>9, <2>1, <2>2 DEF c
<1>10. CASE c.op \in {"NS", "NE", "NP"} /\ ~en
  <2>1. Code(c) = 200
    BY <1>10 DEF Code
  <2>2. en' = en /\ conf' = [conf EXCEPT ![c.op] = c.v]
    BY <1>2, <1>3, <1>10, <2>1 DEF Obey
  <2> QED
    BY <1>1, <1>10, <2>1, <2>2 DEF c
<1> QED
  BY <1>5, <1>6, <1>7, <1>8, <1>9, <1>10 DEF ConfInv

\* Every step keeps the configuration within its limits.
LEMMA ConfStep == WireInv /\ ConfInv /\ [Next]_vars => ConfInv'
<1> SUFFICES ASSUME WireInv, ConfInv, [Next]_vars PROVE ConfInv'
  OBVIOUS
<1>1. CASE UNCHANGED ssp
  BY <1>1 DEF ConfInv, ssp
<1>2. ASSUME NEW t \in Conns, DefaultChannel(t) PROVE ConfInv'
  <2>1. en' = en /\ conf' = [conf EXCEPT !.NE = 1]
    BY <1>2 DEF DefaultChannel
  <2>2. SSP_MAX_NE \in Nat /\ 1 <= SSP_MAX_NE
    BY DEF SSP_MAX_NE
  <2> QED
    BY <2>1, <2>2 DEF ConfInv
<1>3. ASSUME NEW t \in Conns, Serve(t) PROVE ConfInv'
  <2>1. CASE conf' = conf /\ en' \in BOOLEAN
    BY <2>1 DEF ConfInv
  <2>2. CASE /\ sent[t].op \in {"NS", "NE", "NP"} /\ en' = en
             /\ conf' = [conf EXCEPT ![sent[t].op] = sent[t].v]
    <3>1. sent[t] \in Sendable /\ sent[t] # None
      BY <1>3, Served
    <3>2. CASE sent[t].op = "NS"
      <4>1. conf' = [conf EXCEPT !.NS = sent[t].v]
        BY <2>2, <3>2
      <4>2. sent[t].v \in Nat /\ sent[t].v <= SSP_MAX_SAMPLES
        BY <3>1, <3>2, SentType
      <4> QED
        BY <2>2, <4>1, <4>2 DEF ConfInv
    <3>3. CASE sent[t].op = "NE"
      <4>1. conf' = [conf EXCEPT !.NE = sent[t].v]
        BY <2>2, <3>3
      <4>2. sent[t].v \in Nat /\ sent[t].v <= SSP_MAX_NE
        BY <3>1, <3>3, SentType
      <4> QED
        BY <2>2, <4>1, <4>2 DEF ConfInv
    <3>4. CASE sent[t].op = "NP"
      <4>1. conf' = [conf EXCEPT !.NP = sent[t].v]
        BY <2>2, <3>4
      <4>2. sent[t].v \in Nat /\ sent[t].v <= Other
        BY <3>1, <3>4, SentType
      <4> QED
        BY <2>2, <4>1, <4>2 DEF ConfInv
    <3> QED
      BY <2>2, <3>2, <3>3, <3>4
  <2> QED
    BY <1>3, <2>1, <2>2, Served DEF ConfInv, ssp
<1> QED
  BY <1>1, <1>2, <1>3 DEF Next, vars, Stream, OtherSends, OtherDone, Start, OpenPid, WritePid,
     CreateLock, RenameLock, AssignPrev, SendNext, Answered, SetIndex, Receive, SimScan,
     CloseFile, OpenFails, Die, Fails, cleanup, UnlinkOld, UnlinkNew, Interrupt, CmdSends,
     CmdAnswered, ReadPid, Kill, Sigint, sigint_handler

-----------------------------------------------------------------------------
(* While nobody interferes *)

\* The run that is alive has a connection of its own, and its settings are legal.
LEMMA RunType ==
  ASSUME WireInv, pc # "none"
  PROVE  run \in Runs /\ run \in Conns /\ run # 0 /\ want.ne # 0
<1>1. run \in Runs /\ run > 0
  BY Numbers DEF WireInv, Runs
<1>2. want \in Wants
  BY <1>1 DEF WireInv
<1>3. want.ne \in Nat /\ 1 <= want.ne
  BY <1>2, WantType
<1> QED
  BY <1>1, <1>3, Numbers DEF Runs

\* A step that disturbs neither the SSP nor what the run has sent and heard.
LEMMA Undisturbed ==
  ASSUME WireInv, AloneInv, UNCHANGED <<en, conf, run, prog, want, todo>>,
         alone' => alone, result'[run] = result[run],
         pc' \in Starting => pc \in Starting, pc' \in Alive => pc \in Alive \cup Starting
  PROVE  AloneInv'
  BY DEF AloneInv, Pending

\* With its last answer a run comes to the next of its commands.
LEMMA Advance ==
  ASSUME WireInv, prog # "ssp_sim", todo # <<>>
  PROVE  LET h == Head(todo).op
             n == Head(Tail(todo)).op
         IN  \/ h = "EN" /\ Tail(todo) = <<>>
             \/ Tail(todo) # <<>> /\ <<h, n>> \in Follows
<1>1. /\ Tail(todo) # <<>> => <<Head(todo).op, Head(Tail(todo)).op>> \in Follows
      /\ Tail(todo) = <<>> => Head(todo).op = "EN"
  BY TailInOrder DEF WireInv
<1> QED
  BY <1>1

\* Every step that nobody else takes keeps the SSP as the run has been answered.
LEMMA AloneStep == WireInv /\ ConfInv /\ AloneInv /\ [Next]_vars => AloneInv'
<1> SUFFICES ASSUME WireInv, ConfInv, AloneInv, [Next]_vars PROVE AloneInv'
  OBVIOUS
<1>1. CASE UNCHANGED <<en, conf, run, prog, want, todo, result, alone, pc>>
  BY <1>1 DEF AloneInv, Pending
<1>2. ASSUME NEW t \in Conns, Serve(t) PROVE AloneInv'
  <2>1. /\ UNCHANGED <<run, prog, want, todo, pc>> /\ sent[t] # None /\ result[t] = NoAnswer
        /\ result' = [result EXCEPT ![t] = [op |-> sent[t].op, code |-> Code(sent[t])]]
        /\ alone' = IF t = run THEN alone \/ sent[t].op = "DA"
                    ELSE alone /\ ssp' = ssp
    BY <1>2 DEF Serve, process
  <2>2. CASE pc \in {"none"} \cup Ending
    BY <2>1, <2>2 DEF AloneInv, Alive, Starting, Ending
  <2>3. CASE pc # "none" /\ t # run
    <3>1. result'[run] = result[run]
      BY <2>1, <2>3, RunType DEF WireInv
    <3>2. CASE alone'
      BY <2>1, <2>3, <3>1, <3>2, Undisturbed DEF ssp
    <3>3. CASE ~alone'
      BY <3>3 DEF AloneInv
    <3> QED
      BY <3>2, <3>3
  <2>4. CASE pc \in Starting /\ t = run
    BY <2>1, <2>4 DEF WireInv
  <2>5. CASE pc \in Alive /\ t = run
    <3>1. pc = "wait"
      BY <2>1, <2>5 DEF WireInv
    <3>2. todo # <<>> /\ sent[run] = Head(todo)
      BY <2>1, <2>5, <3>1 DEF WireInv
    <3>3. /\ result'[run] # NoAnswer /\ result'[run].code = Code(sent[run])
      <4>1. result'[run] = [op |-> sent[run].op, code |-> Code(sent[run])]
        BY <2>1, <2>5 DEF WireInv
      <4>2. sent[run].op # "none"
        BY <2>1, <2>5, SentType DEF WireInv
      <4> QED
        BY <4>1, <4>2 DEF NoAnswer
    <3>4. ~(alone' /\ pc' \in Starting)
      BY <2>1, <3>1 DEF Starting
    <3>5. CASE prog = "ssp_sim" \/ ~alone'
      BY <2>1, <3>4, <3>5 DEF AloneInv
    <3>8. /\ sent[t] \in Sendable /\ sent[t] # None
          /\ \/ sent[t].op = "DA" /\ Code(sent[t]) = 200 /\ en' = FALSE /\ conf' = conf
             \/ sent[t].op # "DA" /\ en /\ Code(sent[t]) = 503 /\ UNCHANGED ssp
             \/ /\ sent[t].op = "EN" /\ ~en /\ conf.NP = 0 /\ Code(sent[t]) = 400
                /\ UNCHANGED ssp
             \/ /\ sent[t].op = "EN" /\ ~en /\ conf.NP # 0
                /\ Code(sent[t]) = 200 /\ en' = TRUE /\ conf' = conf
             \/ /\ sent[t].op \in {"NS", "NE", "NP"} /\ ~en /\ Code(sent[t]) = 200
                /\ en' = en /\ conf' = [conf EXCEPT ![sent[t].op] = sent[t].v]
      BY <1>2, Served, Zenon
    <3>9. /\ sent[run] \in Sendable /\ sent[run] # None
          /\ \/ sent[run].op = "DA" /\ Code(sent[run]) = 200 /\ en' = FALSE /\ conf' = conf
             \/ sent[run].op # "DA" /\ en
             \/ sent[run].op = "EN" /\ ~en /\ conf.NP = 0
             \/ /\ sent[run].op = "EN" /\ ~en /\ conf.NP # 0
                /\ Code(sent[run]) = 200 /\ en' = TRUE /\ conf' = conf
             \/ /\ sent[run].op \in {"NS", "NE", "NP"} /\ ~en /\ Code(sent[run]) = 200
                /\ en' = en /\ conf' = [conf EXCEPT ![sent[run].op] = sent[run].v]
      BY <2>5, <3>8
    <3>10. Own(Head(todo), run, want)
      BY <3>2, TailInOrder DEF WireInv
    <3>6. CASE prog # "ssp_sim" /\ alone' /\ Head(todo).op = "DA"
      <4>1. en' = FALSE /\ conf' = conf /\ Code(sent[run]) = 200
        BY <3>2, <3>6, <3>9
      <4> QED
        BY <2>1, <3>2, <3>3, <3>4, <3>6, <4>1 DEF AloneInv, Pending
    <3>7. CASE prog # "ssp_sim" /\ alone' /\ Head(todo).op # "DA"
      <4>1. alone
        BY <2>1, <2>5, <3>2, <3>7
      <4>2. /\ Pending({"DA"}, "NP") \/ conf.NP = run
            /\ Pending({"DA", "NP", "IX"}, "NS") \/ conf.NS = want.ns
            /\ Pending({"DA", "NP", "IX", "NS"}, "NE") \/ conf.NE = want.ne
            /\ en = ~Pending({"DA", "NP", "IX", "NS", "NE"}, "EN")
            /\ ~Pending({}, "DA")
        BY <2>5, <3>7, <4>1 DEF AloneInv
      <4>3. result[run] = NoAnswer
        BY <2>1, <2>5
      <4>4. CASE Head(todo).op = "NP"
        <5>1. Head(todo).v = run
          BY <3>10, <4>4 DEF Own, Command
        <5>2. ~en
          BY <3>2, <4>2, <4>4 DEF Pending
        <5>3. Code(sent[run]) = 200 /\ en' = en /\ conf' = [conf EXCEPT !["NP"] = run]
          BY <3>2, <3>9, <4>4, <5>1, <5>2
        <5>4. conf'.NP = run
          BY <5>3 DEF ConfInv
        <5> QED
          BY <2>1, <3>2, <3>3, <3>4, <4>4, <5>2, <5>3, <5>4 DEF AloneInv, Pending
      <4>5. CASE Head(todo).op = "NS"
        <5>1. Head(todo).v = want.ns
          BY <3>10, <4>5 DEF Own, Command
        <5>2. ~en /\ conf.NP = run
          BY <3>2, <4>2, <4>5 DEF Pending
        <5>3. Code(sent[run]) = 200 /\ en' = en /\ conf' = [conf EXCEPT !["NS"] = want.ns]
          BY <3>2, <3>9, <4>5, <5>1, <5>2
        <5>4. conf'.NP = run /\ conf'.NS = want.ns
          BY <5>2, <5>3 DEF ConfInv
        <5> QED
          BY <2>1, <3>2, <3>3, <3>4, <4>5, <5>2, <5>3, <5>4 DEF AloneInv, Pending
      <4>6. CASE Head(todo).op = "NE"
        <5>1. Head(todo).v = want.ne
          BY <3>10, <4>6 DEF Own, Command
        <5>2. ~en /\ conf.NP = run /\ conf.NS = want.ns
          BY <3>2, <4>2, <4>6 DEF Pending
        <5>3. Code(sent[run]) = 200 /\ en' = en /\ conf' = [conf EXCEPT !["NE"] = want.ne]
          BY <3>2, <3>9, <4>6, <5>1, <5>2
        <5>4. conf'.NP = run /\ conf'.NS = want.ns /\ conf'.NE = want.ne
          BY <5>2, <5>3 DEF ConfInv
        <5> QED
          BY <2>1, <3>2, <3>3, <3>4, <4>6, <5>2, <5>3, <5>4 DEF AloneInv, Pending
      <4>7. CASE Head(todo).op = "EN"
        <5>1. ~en /\ conf.NP = run /\ conf.NS = want.ns /\ conf.NE = want.ne
          BY <3>2, <4>2, <4>3, <4>7 DEF Pending
        <5>2. conf.NP # 0
          BY <2>5, <5>1, RunType DEF Alive
        <5>3. Code(sent[run]) = 200 /\ en' = TRUE /\ conf' = conf
          BY <3>2, <3>9, <4>7, <5>1, <5>2
        <5> QED
          BY <2>1, <3>2, <3>3, <3>4, <4>7, <5>1, <5>3 DEF AloneInv, Pending
      <4> QED
        BY <3>2, <3>7, <3>9, <4>4, <4>5, <4>6, <4>7, SentType
    <3> QED
      BY <3>5, <3>6, <3>7
  <2> QED
    BY <2>2, <2>3, <2>4, <2>5 DEF WireInv, Alive, Starting, Ending
<1>3. ASSUME NEW t \in Conns, DefaultChannel(t) PROVE AloneInv'
  <2>1. /\ UNCHANGED <<en, run, prog, want, todo, pc, result>> /\ sent[t].op = "EN"
        /\ conf.NE = 0 /\ alone' = (alone /\ t = run)
    BY <1>3 DEF DefaultChannel, Defaulted, wire, process
  <2>2. CASE alone' /\ pc \in Alive /\ prog # "ssp_sim"
    <3>1. alone /\ t = run
      BY <2>1, <2>2
    <3>2. sent[run] # None
      BY <2>1, <3>1 DEF None
    <3>3. pc = "wait" /\ todo # <<>> /\ sent[run] = Head(todo) /\ result[run] = NoAnswer
      BY <2>2, <3>2 DEF WireInv
    <3>4. Head(todo).op = "EN"
      BY <2>1, <3>1, <3>3
    <3>5. conf.NE = want.ne
      BY <2>2, <3>1, <3>4 DEF AloneInv, Pending
    <3> QED
      BY <2>1, <2>2, <3>5, RunType DEF Alive
  <2>3. CASE ~(alone' /\ pc \in Alive /\ prog # "ssp_sim")
    BY <2>1, <2>3 DEF AloneInv
  <2> QED
    BY <2>2, <2>3
<1>4. CASE OtherSends \/ OtherDone \/ CmdSends \/ CmdAnswered
  <2>1. /\ UNCHANGED <<en, conf, run, prog, want, todo, pc, alone>>
        /\ pc # "none" => result'[run] = result[run]
    <3>1. pc # "none" => run \in Conns /\ run # Other /\ run # Cmd
      BY RunType, Numbers
    <3>2. result' = result \/ \E t \in {Other, Cmd} : result' = [result EXCEPT ![t] = NoAnswer]
      BY <1>4 DEF OtherSends, OtherDone, CmdSends, CmdAnswered, TakeAnswer
    <3>3. pc # "none" => result'[run] = result[run]
      BY <3>1, <3>2 DEF WireInv
    <3> QED
      BY <1>4, <3>3 DEF OtherSends, OtherDone, CmdSends, CmdAnswered, ssp, process, history
  <2>2. CASE pc = "none"
    BY <2>1, <2>2 DEF AloneInv, Alive, Starting
  <2> QED
    BY <2>1, <2>2, Undisturbed
<1>5. CASE Start
  BY <1>5 DEF Start, AloneInv
<1>6. CASE Answered
  <2>1. /\ pc = "wait" /\ pc' = "main" /\ result[run] # NoAnswer
        /\ result' = [result EXCEPT ![run] = NoAnswer]
        /\ todo' = IF Head(todo).op = "EN" /\ result[run].code = 503 THEN todo ELSE Tail(todo)
        /\ UNCHANGED <<en, conf, run, prog, want, alone>>
    BY <1>6 DEF Answered, Step, TakeAnswer, ssp, process, history
  <2>2. CASE ~alone \/ prog = "ssp_sim"
    BY <2>1, <2>2 DEF AloneInv, Starting
  <2>3. CASE alone /\ prog # "ssp_sim"
    <3>1. result[run].code = 200 /\ todo # <<>>
      BY <2>1, <2>3 DEF AloneInv, WireInv, Alive
    <3>2. todo' = Tail(todo)
      BY <2>1, <3>1
    <3>3. result'[run'] = NoAnswer
      BY <2>1, RunType DEF WireInv
    <3>4. \/ Head(todo).op = "EN" /\ todo' = <<>>
          \/ todo' # <<>> /\ <<Head(todo).op, Head(todo').op>> \in Follows
      BY <2>3, <3>1, <3>2, Advance
    <3> DEFINE h == Head(todo).op
               n == Head(todo').op
    <3>5. /\ h \in {"DA"} \/ conf.NP = run
          /\ h \in {"DA", "NP", "IX"} \/ conf.NS = want.ns
          /\ h \in {"DA", "NP", "IX", "NS"} \/ conf.NE = want.ne
          /\ en = (h \notin {"DA", "NP", "IX", "NS", "NE"})
      BY <2>1, <2>3, <3>1 DEF AloneInv, Pending, Alive
    <3> HIDE DEF h, n
    <3>6. \/ h = "EN" /\ todo' = <<>>
          \/ todo' # <<>> /\ <<h, n>> \in Follows
      BY <3>4 DEF h, n
    <3>7. Pending({"DA"}, "NP")' \/ h \notin {"DA"}
      BY <3>3, <3>6 DEF Pending, Follows, n
    <3>8. Pending({"DA", "NP", "IX"}, "NS")' \/ h \notin {"DA", "NP", "IX"}
      BY <3>3, <3>6 DEF Pending, Follows, n
    <3>9. Pending({"DA", "NP", "IX", "NS"}, "NE")' \/ h \notin {"DA", "NP", "IX", "NS"}
      BY <3>3, <3>6 DEF Pending, Follows, n
    <3>10. Pending({"DA", "NP", "IX", "NS", "NE"}, "EN")'
             = (h \in {"DA", "NP", "IX", "NS", "NE"})
      BY <3>3, <3>6 DEF Pending, Follows, n
    <3>11. ~Pending({}, "DA")'
      BY <3>3, <3>6 DEF Pending, Follows, n
    <3>12. pc' \notin Starting
      BY <2>1 DEF Starting
    <3> QED
      BY <2>1, <3>3, <3>5, <3>7, <3>8, <3>9, <3>10, <3>11, <3>12 DEF AloneInv
  <2> QED
    BY <2>2, <2>3
<1>7. CASE SetIndex
  <2>1. /\ pc = "main" /\ pc' = "rename" /\ todo # <<>> /\ Head(todo).op = "IX"
        /\ todo' = Tail(todo) /\ UNCHANGED <<en, conf, result, run, prog, want, alone>>
    BY <1>7 DEF SetIndex, Step, ssp, wire, process, history
  <2>2. CASE ~alone \/ prog = "ssp_sim"
    BY <2>1, <2>2 DEF AloneInv, Starting
  <2>3. CASE alone /\ prog # "ssp_sim"
    <3>1. todo' # <<>> /\ Head(todo').op = "NS"
      BY <2>1, <2>3, Advance DEF Follows
    <3>2. result[run] = NoAnswer
      BY <2>1 DEF WireInv, Alive
    <3> QED
      BY <2>1, <2>3, <3>1, <3>2 DEF AloneInv, Pending, Alive, Starting
  <2> QED
    BY <2>2, <2>3
<1>8. CASE OpenPid \/ WritePid \/ CreateLock \/ RenameLock \/ AssignPrev \/ SendNext
  BY <1>8, Undisturbed DEF OpenPid, WritePid, CreateLock, RenameLock, AssignPrev, SendNext,
     Step, ssp, wire, process, history, Alive, Starting
<1>9. CASE Receive \/ SimScan \/ CloseFile \/ OpenFails \/ Fails
  BY <1>9, Undisturbed DEF Receive, SimScan, CloseFile, OpenFails, Fails, Die, OpenFile,
     Step, ssp, wire, process, history, Alive, Starting
<1>10. CASE cleanup \/ UnlinkOld \/ UnlinkNew
  BY <1>10, Undisturbed DEF cleanup, UnlinkOld, UnlinkNew, Step, ssp, wire, process, history,
     Alive, Starting
<1>11. CASE Interrupt \/ Kill
  <2>1. CASE UNCHANGED <<ssp, wire, process, pc, todo, history>>
    BY <1>1, <2>1 DEF ssp, wire, process, history
  <2>2. ASSUME NEW r, Sigint(r) PROVE AloneInv'
    BY <2>2, Signalled, Undisturbed DEF ssp, wire, process, Alive, Starting
  <2> QED
    BY <1>11, <2>1, <2>2 DEF Interrupt, Kill
<1> QED
  BY <1>1, <1>2, <1>3, <1>4, <1>5, <1>6, <1>7, <1>8, <1>9, <1>10, <1>11
     DEF Next, vars, Stream, ReadPid, ssp, wire, process, history

-----------------------------------------------------------------------------
(* The clients' commands are served as SSPService promises *)

\* The configuration and the trigger settings as SSPService sees them.
Conf == [NS |-> conf.NS, NE |-> conf.NE, NP |-> conf.NP, NA |-> 0, NC |-> 0, NF |-> 1]
Trig == [TL |-> 0, src |-> 0, rising |-> FALSE, ae |-> FALSE]

\* The limits of a setting are those that SSPService names.
LEMMA Limits ==
  /\ \A v \in Nat : 1 <= v /\ v <= SSP_MAX_SAMPLES => v \in Service!Limits["NS"]
  /\ \A v \in Nat : 1 <= v /\ v <= SSP_MAX_NE => v \in Service!Limits["NE"]
  /\ \A v \in Nat : v <= Other => v \in Service!Limits["NP"]
  /\ SSP_MAX_SAMPLES = Service!MaxNS
<1>1. SSP_MAX_SAMPLES = Service!MaxNS /\ SSP_MAX_NE = 7 /\ Service!MaxNS \in Nat
  BY DEF SSP_MAX_SAMPLES, SSP_MAX_NE, Service!MaxNS
<1>2. Other <= Service!MaxNP /\ Service!MaxNP \in Nat
  BY SessionAssumption DEF Service!MaxNP, Other
<1>3. /\ Service!Limits["NS"] = 1..Service!MaxNS /\ Service!Limits["NE"] = 1..7
      /\ Service!Limits["NP"] = 0..Service!MaxNP
  BY DEF Service!Limits
<1>4. \A v \in Nat : 1 <= v /\ v <= SSP_MAX_SAMPLES => v \in 1..Service!MaxNS
  BY <1>1
<1>5. \A v \in Nat : 1 <= v /\ v <= SSP_MAX_NE => v \in 1..7
  BY <1>1
<1>6. \A v \in Nat : v <= Other => v \in 0..Service!MaxNP
  BY <1>2, Numbers
<1> QED
  BY <1>1, <1>3, <1>4, <1>5, <1>6

\* A command that is obeyed or refused here is obeyed or refused there.
LEMMA MapServe ==
  ASSUME WireInv, ConfInv, NEW t \in Conns, Serve(t)
  PROVE  Service!Serve(t)
<1> DEFINE c == sent[t]
<1>1. /\ result[t] = NoAnswer
      /\ result' = [result EXCEPT ![t] = [op |-> c.op, code |-> Code(c)]]
  BY DEF Serve
<1>2. result'[t] = [op |-> c.op, code |-> Code(c)]
  BY <1>1 DEF WireInv
<1>3. /\ c \in Sendable /\ c # None
      /\ \/ c.op = "DA" /\ Code(c) = 200 /\ en' = FALSE /\ conf' = conf
         \/ c.op # "DA" /\ en /\ Code(c) = 503 /\ UNCHANGED ssp
         \/ /\ c.op = "EN" /\ ~en /\ conf.NP = 0 /\ Code(c) = 400
            /\ UNCHANGED ssp
         \/ /\ c.op = "EN" /\ ~en /\ conf.NP # 0 /\ conf.NE # 0
            /\ Code(c) = 200 /\ en' = TRUE /\ conf' = conf
         \/ /\ c.op \in {"NS", "NE", "NP"} /\ ~en /\ Code(c) = 200
            /\ en' = en /\ conf' = [conf EXCEPT ![c.op] = c.v]
  BY Served, Zenon
<1>4. c.op \in {"EN", "DA", "NP", "NS", "NE"}
  BY <1>3, SentType
<1>5. /\ result[t] = Service!NoAnswer /\ result'[t] # Service!NoAnswer
      /\ result' = [result EXCEPT ![t] = result'[t]]
  <2>1. result'[t].op = c.op /\ c.op # "none"
    BY <1>2, <1>4
  <2>2. result'[t] # Service!NoAnswer
    BY <2>1 DEF Service!NoAnswer
  <2>3. result' = [result EXCEPT ![t] = result'[t]]
    BY <1>1, <1>2, Zenon
  <2> QED
    BY <1>1, <2>2, <2>3 DEF NoAnswer, Service!NoAnswer
<1>6. \A op, code : result'[t] = [op |-> op, code |-> code] => Service!Answer(t, op, code)
  BY DEF Service!Answer
<1> HIDE DEF c
<1>7. CASE c.op = "DA" /\ Code(c) = 200 /\ en' = FALSE /\ conf' = conf
  BY <1>2, <1>5, <1>6, <1>7 DEF Service!Serve, Service!Disable
<1>8. CASE c.op # "DA" /\ en /\ Code(c) = 503 /\ UNCHANGED ssp
  <2>1. c.op \in {"EN", "NP", "NS", "NE"}
    BY <1>4, <1>8
  <2>2. c.op \in DOMAIN Conf \cup {"EN", "EX", "N_"}
    BY <2>1 DEF Conf
  <2> QED
    BY <1>2, <1>5, <1>6, <1>8, <2>2 DEF Service!Serve, Service!Refuse, ssp, Conf
<1>9. CASE c.op = "EN" /\ ~en /\ conf.NP = 0 /\ Code(c) = 400 /\ UNCHANGED ssp
  BY <1>2, <1>5, <1>6, <1>9 DEF Service!Serve, Service!Refuse, ssp
<1>10. CASE /\ c.op = "EN" /\ ~en /\ conf.NP # 0 /\ conf.NE # 0
            /\ Code(c) = 200 /\ en' = TRUE /\ conf' = conf
  <2>1. conf.NE \in 1..7 /\ conf.NS \in 0..Service!MaxNS
    <3>1. SSP_MAX_NE = 7 /\ SSP_MAX_SAMPLES = Service!MaxNS /\ Service!MaxNS \in Nat
      BY Limits DEF SSP_MAX_NE, Service!MaxNS
    <3>2. conf.NE \in Nat /\ conf.NS \in Nat /\ conf.NE <= 7 /\ conf.NS <= Service!MaxNS
      BY <3>1 DEF ConfInv
    <3> QED
      BY <1>10, <3>1, <3>2
  <2> QED
    BY <1>2, <1>5, <1>6, <1>10, <2>1 DEF Service!Serve, Service!Enable
<1>11. CASE /\ c.op \in {"NS", "NE", "NP"} /\ ~en /\ Code(c) = 200
            /\ en' = en /\ conf' = [conf EXCEPT ![c.op] = c.v]
  <2>1. c.v \in Service!Limits[c.op]
    <3>1. CASE c.op = "NS"
      BY <1>3, <3>1, SentType, Limits
    <3>2. CASE c.op = "NE"
      BY <1>3, <3>2, SentType, Limits
    <3>3. CASE c.op = "NP"
      BY <1>3, <3>3, SentType, Limits
    <3> QED
      BY <1>11, <3>1, <3>2, <3>3
  <2>2. c.op \in DOMAIN Conf
    BY <1>11 DEF Conf
  <2>3. Conf' = [Conf EXCEPT ![c.op] = Conf'[c.op]] /\ Conf'[c.op] = c.v
    <3>1. conf \in [NS : Nat, NE : Nat, NP : Nat]
      BY DEF ConfInv
    <3>2. CASE c.op = "NS"
      BY <1>11, <3>1, <3>2 DEF Conf
    <3>3. CASE c.op = "NE"
      BY <1>11, <3>1, <3>3 DEF Conf
    <3>4. CASE c.op = "NP"
      BY <1>11, <3>1, <3>4 DEF Conf
    <3> QED
      BY <1>11, <3>2, <3>3, <3>4
  <2>4. Service!Configure(t)
    BY <1>2, <1>6, <1>11, <2>1, <2>2, <2>3 DEF Service!Configure, Conf
  <2> QED
    BY <1>5, <2>4 DEF Service!Serve
<1> QED
  BY <1>3, <1>7, <1>8, <1>9, <1>10, <1>11 DEF c

\* Every step of the clients and the SSP is one of the service, or none.
LEMMA MapNext == WireInv /\ ConfInv /\ [Next]_vars => [Service!Next]_Service!vars
<1> SUFFICES ASSUME WireInv, ConfInv, [Next]_vars PROVE [Service!Next]_Service!vars
  OBVIOUS
<1>1. CASE UNCHANGED <<ssp, result>>
  BY <1>1 DEF Service!vars, ssp
<1>2. ASSUME NEW t \in Conns, Serve(t) PROVE Service!Next
  BY <1>2, MapServe DEF Service!Next
<1>3. ASSUME NEW t \in Conns, DefaultChannel(t) PROVE Service!Next
  <2>1. /\ sent[t].op = "EN" /\ Code(sent[t]) = 200 /\ conf.NE = 0
        /\ en' = en /\ conf' = [conf EXCEPT !.NE = 1] /\ result' = result
    BY <1>3 DEF DefaultChannel, Defaulted, wire
  <2>2. ~en
    BY <2>1 DEF Code
  <2>3. Conf # Conf' /\ Conf' = [Conf EXCEPT !.NE = 1]
    <3>1. conf \in [NS : Nat, NE : Nat, NP : Nat]
      BY DEF ConfInv
    <3>2. conf'.NE = 1 /\ conf'.NS = conf.NS /\ conf'.NP = conf.NP
      BY <2>1, <3>1
    <3>3. Conf'.NE = 1 /\ Conf.NE = 0
      BY <2>1, <3>2 DEF Conf
    <3>4. Conf' = [Conf EXCEPT !.NE = 1]
      BY <3>2 DEF Conf
    <3>5. Conf # Conf'
      BY <3>3
    <3> QED
      BY <3>4, <3>5
  <2> QED
    BY <2>1, <2>2, <2>3 DEF Service!Next, Service!Default, Conf
<1>4. ASSUME NEW t \in Conns, TakeAnswer(t), UNCHANGED ssp PROVE Service!Next
  BY <1>4 DEF Service!Next, Service!Reply, TakeAnswer, NoAnswer, Service!NoAnswer, ssp
<1>5. CASE Answered
  <2>1. pc = "wait" /\ TakeAnswer(run) /\ UNCHANGED ssp
    BY <1>5 DEF Answered, Step
  <2>2. run \in Conns
    BY <2>1, RunType
  <2>3. \E t \in Conns : t = run /\ TakeAnswer(t)
    BY <2>1, <2>2
  <2> QED
    BY <1>4, <2>1, <2>3
<1>6. CASE OtherDone \/ CmdAnswered
  BY <1>4, <1>6, Numbers DEF OtherDone, CmdAnswered
<1> QED
  BY <1>1, <1>2, <1>3, <1>5, <1>6 DEF Next, vars, Stream, OtherSends, Start, OpenPid,
     WritePid, CreateLock, RenameLock, AssignPrev, SendNext, SetIndex, Receive, SimScan,
     CloseFile, OpenFails, Die, Fails, cleanup, UnlinkOld, UnlinkNew, Interrupt, CmdSends,
     ReadPid, Kill, Sigint, sigint_handler, wire

-----------------------------------------------------------------------------
(* Theorems *)

SessionInv == WireInv /\ LockInv /\ LeftInv /\ ConfInv /\ AloneInv

\* Every state of the clients and the SSP satisfies the inductive invariant.
THEOREM Sessions == Spec => []SessionInv
<1>1. Init => SessionInv
  <2> SUFFICES ASSUME Init PROVE SessionInv
    OBVIOUS
  <2>1. InOrder(todo, run, want, prog)
    <3>1. todo = <<>> /\ Len(todo) = 0 /\ todo \in Seq([op : Ops, v : Nat])
      BY DEF Init
    <3> QED
      BY <3>1 DEF InOrder
  <2>2. WireInv
    BY <2>1, Numbers DEF Init, WireInv, Sendable, Starting, Alive
  <2>3. LockInv /\ LeftInv
    BY DEF Init, LockInv, LeftInv
  <2>4. ConfInv
    <3>1. SSP_MAX_SAMPLES \in Nat /\ SSP_MAX_NE \in Nat /\ Other \in Nat
      BY Numbers DEF SSP_MAX_SAMPLES, SSP_MAX_NE
    <3>2. en = FALSE /\ conf.NS = 0 /\ conf.NE = 0 /\ conf.NP = 0
      BY DEF Init
    <3>3. conf \in [NS : Nat, NE : Nat, NP : Nat]
      BY DEF Init
    <3>4. en \in BOOLEAN
      BY <3>2
    <3>5. conf.NS <= SSP_MAX_SAMPLES /\ conf.NE <= SSP_MAX_NE /\ conf.NP <= Other
      BY <3>1, <3>2
    <3> QED
      BY <3>3, <3>4, <3>5 DEF ConfInv
  <2>5. AloneInv
    BY DEF Init, AloneInv
  <2> QED
    BY <2>2, <2>3, <2>4, <2>5 DEF SessionInv
<1>2. SessionInv /\ [Next]_vars => SessionInv'
  BY WireStep, LockStep, LeftStep, ConfStep, AloneStep DEF SessionInv
<1> QED
  BY <1>1, <1>2, PTL DEF Spec

\* A data file that is being written is named by a lock file, whatever index IX:
\* set, wherever signals struck earlier runs and whatever they left.
THEOREM LockNames == Spec => []LockNamesOpen
<1>1. SessionInv => LockNamesOpen
  BY DEF SessionInv, LockInv, LockNamesOpen
<1> QED
  BY <1>1, Sessions, PTL

\* A run that cleaned up left neither its lock file nor PID_FILE, wherever the
\* signal struck it, but for the interval that stale records.
THEOREM CleansUp == Spec => []NoLeftovers
<1>1. SessionInv => NoLeftovers
  BY DEF SessionInv, LeftInv, NoLeftovers
<1> QED
  BY <1>1, Sessions, PTL

\* A run that receives undisturbed is sent the scans it was started for, to its
\* own port.
THEOREM Streams == Spec => []StreamsToMe
<1>1. SessionInv => StreamsToMe
  <2> SUFFICES ASSUME SessionInv, Receiving, alone
               PROVE  en /\ conf = [NS |-> want.ns, NE |-> want.ne, NP |-> run]
    BY DEF StreamsToMe
  <2>1. todo = <<>> /\ pc \in Alive /\ prog # "ssp_sim"
    BY DEF Receiving, Alive
  <2>2. en /\ conf.NP = run /\ conf.NS = want.ns /\ conf.NE = want.ne
    BY <2>1 DEF SessionInv, AloneInv, Pending
  <2>3. conf \in [NS : Nat, NE : Nat, NP : Nat]
    BY DEF SessionInv, ConfInv
  <2> QED
    BY <2>2, <2>3
<1> QED
  BY <1>1, Sessions, PTL

\* The SSP that any number of clients meet, whatever they send and whenever they
\* are stopped, is the service that SSPControl was shown to implement.
THEOREM ServesClients == Spec => ImplementsService
<1>1. Init => Service!Init
  BY DEF Init, Service!Init, NoAnswer, Service!NoAnswer
<1>2. SessionInv /\ [Next]_vars => [Service!Next]_Service!vars
  BY MapNext DEF SessionInv
<1> QED
  BY <1>1, <1>2, Sessions, PTL DEF Spec, ImplementsService, Service!Spec
=============================================================================
