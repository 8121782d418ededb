----------------------------- MODULE SSPService -----------------------------
(***************************************************************************)
(* What the SSP's command port promises its clients, without threads or     *)
(* semaphores: each command takes effect at one moment, between its arrival *)
(* and its reply, and its code tells what that effect was.                  *)
(***************************************************************************)
EXTENDS Integers

CONSTANT Threads

VARIABLES
  en,      \* acquisition is enabled
  conf,    \* the configuration the N commands set
  trig,    \* the trigger settings
  result   \* for each connection, the command served and the code it will be sent

vars == <<en, conf, trig, result>>

MaxNS == 4096
MaxNC == 16383
MaxNP == 65535
MaxTL == 32767

Limits == [NS |-> 1..MaxNS, NA |-> 1..256, NC |-> 1..MaxNC, NP |-> 0..MaxNP,
           NE |-> 1..7, NF |-> 1..32]

NoAnswer == [op |-> "none", code |-> 0]
Answer(t, op, code) == result'[t] = [op |-> op, code |-> code]

Init ==
  /\ en = FALSE
  /\ conf = [NS |-> 0, NA |-> 0, NC |-> 0, NP |-> 0, NE |-> 0, NF |-> 1]
  /\ trig = [TL |-> 0, src |-> 0, rising |-> FALSE, ae |-> FALSE]
  /\ result = [t \in Threads |-> NoAnswer]

\* Enabling needs a port, a channel and a legal number of samples.
Enable(t) ==
  /\ ~en /\ conf.NP # 0 /\ conf.NE \in 1..7 /\ conf.NS \in 0..MaxNS
  /\ Answer(t, "EN", 200)
  /\ en' = TRUE /\ UNCHANGED <<conf, trig>>

Disable(t) == Answer(t, "DA", 200) /\ en' = FALSE /\ UNCHANGED <<conf, trig>>

\* One field takes a value within its limits, while disabled only.
Configure(t) ==
  /\ ~en
  /\ \E f \in DOMAIN conf : /\ Answer(t, f, 200) /\ conf'[f] \in Limits[f]
                            /\ conf' = [conf EXCEPT ![f] = conf'[f]]
  /\ UNCHANGED <<en, trig>>

\* Trigger settings change at any time.
Trigger(t) ==
  /\ \/ Answer(t, "TS", 200) /\ trig' = [trig EXCEPT !.src = trig'.src]
     \/ Answer(t, "TU", 200) /\ trig' = [trig EXCEPT !.TL = trig'.TL, !.rising = TRUE]
     \/ Answer(t, "TD", 200) /\ trig' = [trig EXCEPT !.TL = trig'.TL, !.rising = FALSE]
     \/ Answer(t, "AE", 200) /\ trig' = [trig EXCEPT !.ae = TRUE]
     \/ Answer(t, "AD", 200) /\ trig' = [trig EXCEPT !.ae = FALSE]
  /\ trig'.TL \in -MaxTL - 1..MaxTL /\ trig'.src \in 0..3
  /\ UNCHANGED <<en, conf>>

\* Refusals change nothing: what is legal only while disabled is busy while
\* enabled; without a number, or unknown, a command is bad.
Refuse(t) ==
  /\ \/ en /\ \E op \in DOMAIN conf \cup {"EN", "EX", "N_"} : Answer(t, op, 503)
     \/ ~en /\ \/ conf.NP = 0 /\ Answer(t, "EN", 400)
               \/ Answer(t, "N_", 400)
               \/ Answer(t, "EX", 410)
     \/ \E op \in DOMAIN conf \cup {"N_", "TS", "TU", "TD", "other", "blank"} :
          Answer(t, op, 500)
  /\ UNCHANGED <<en, conf, trig>>

\* A command takes effect and its answer is due.
Serve(t) ==
  /\ result[t] = NoAnswer /\ result'[t] # NoAnswer
  /\ result' = [result EXCEPT ![t] = result'[t]]
  /\ \/ Enable(t) \/ Disable(t) \/ Configure(t) \/ Trigger(t) \/ Refuse(t)

Reply(t) ==
  /\ result[t] # NoAnswer /\ result' = [result EXCEPT ![t] = NoAnswer]
  /\ UNCHANGED <<en, conf, trig>>

\* A missing channel selection is replaced by channel 1 before enabling.
Default ==
  /\ ~en /\ conf # conf' /\ conf' = [conf EXCEPT !.NE = 1]
  /\ UNCHANGED <<en, trig, result>>

Next == Default \/ \E t \in Threads : Serve(t) \/ Reply(t)

Spec == Init /\ [][Next]_vars
=============================================================================
