----------------------- MODULE SSPConfigServer_proofs -----------------------
(***************************************************************************)
(* Proofs about SSPConfigServer, for browsers that submit one at a time:   *)
(* any number of connections, pages, requests and power cuts.  The         *)
(* invariant follows a form from its request through the form's fields and *)
(* the configuration to the pages of the EEPROM.                           *)
(***************************************************************************)
EXTENDS SSPConfigServer, Integers, TLAPS

\* The places in the driver, and in a connection's thread.
Ats == {"idle", "send", "sending", "address", "addressing", "recv", "receiving", "done"}
Places == {"closed", "read", "parse", "update", "sum", "sign", "write", "reply"}

\* What a user of the driver is doing there.
States == [at : Ats, page : Nat, n : Nat, rv : BOOLEAN]

\* What the variables hold, as far as the proofs need it.
Types ==
  /\ pc \in [Conns -> Places] /\ req \in [Conns -> Requests \cup {<<>>}]
  /\ next \in [Conns -> Nat] /\ rv \in [Conns -> Nat]
  /\ sum = [t \in Conns |-> sum[t]]
  /\ ee \in [Users -> States] /\ recv_complete \in BOOLEAN
  /\ config = [f \in Field |-> config[f]] /\ fields = [f \in Field |-> fields[f]]
  /\ mem = [p \in Pages |-> mem[p]]

\* One connection at a time is handled, and only main or that one is in the driver.
ThreadInv ==
  /\ boot # "serve" => \A t \in Conns : pc[t] = "closed"
  /\ \A s, t \in Handling : s = t
  /\ \A t \in Conns : ee[t].at \in {"idle", "send", "sending", "done"}
  /\ \A t \in Conns : ee[t].at # "idle" <=> pc[t] = "write"
  /\ ee[main].at \notin {"send", "sending"}
  /\ ee[main].at # "idle" => boot \in {"header", "body"}

\* What is known of the constants.
LEMMA Constants ==
  /\ LastPage \in Nat /\ LastPage # 0 /\ MaxValue \in Nat
  /\ main \in Users /\ main \notin Conns /\ Conns \subseteq Users
  /\ \A u \in Users : u \in Conns \/ u = main
  /\ \A c : PagesOf(c) \in Nat
BY EepromAssumption, ServerAssumption DEF PagesOf

\* The server starts with no connection, and nobody in the driver.
LEMMA Started == Init => Types /\ ThreadInv
<1> SUFFICES ASSUME Init PROVE Types /\ ThreadInv
  OBVIOUS
<1>1. ee = [u \in Users |-> Idle]
  BY DEF Init, EepromInit
<1>2. Idle \in States /\ Idle.at = "idle"
  BY DEF Idle, Ats, States
<1>3. Default = [f \in Field |-> Default[f]]
  BY DEF Default
<1> QED
  BY <1>1, <1>2, <1>3, Constants DEF Init, EepromInit, Types, ThreadInv, Places, Handling

-----------------------------------------------------------------------------
(* The driver and the threads *)

\* The driver goes on from where it is, writing or reading.
Follows(a, b) ==
  \/ a \in {"send", "sending"} /\ b \in {"send", "sending", "done"}
  \/ a \in {"address", "addressing", "recv", "receiving"}
     /\ b \in {"addressing", "recv", "receiving", "done"}

\* The driver's state for u changes, to one of the places as.
Onward(u, as) == \E y \in States : ee' = [ee EXCEPT ![u] = y] /\ y.at \in as

\* Go and Return change nothing but u's state.
LEMMA Moved ==
  ASSUME Types, NEW u \in Users
  PROVE  /\ \A a \in Ats : Go(u, a) => Onward(u, {a})
         /\ \A ok \in BOOLEAN : Return(u, ok) => Onward(u, {"done"})
<1>1. ee[u] \in States
  BY DEF Types
<1>2. ASSUME NEW a \in Ats, Go(u, a) PROVE Onward(u, {a})
  <2> DEFINE y == [ee[u] EXCEPT !.at = a]
  <2>1. y \in States /\ y.at = a
    BY <1>1 DEF States
  <2>2. ee' = [ee EXCEPT ![u] = y]
    BY <1>2 DEF Go, Types
  <2> HIDE DEF y
  <2> QED
    BY <2>1, <2>2 DEF Onward
<1>3. ASSUME NEW ok \in BOOLEAN, Return(u, ok) PROVE Onward(u, {"done"})
  <2> DEFINE y == [ee[u] EXCEPT !.at = "done", !.rv = ok]
  <2>1. y \in States /\ y.at = "done"
    BY <1>1 DEF States, Ats
  <2>2. ee' = [ee EXCEPT ![u] = y]
    BY <1>3 DEF Return, Types
  <2> HIDE DEF y
  <2> QED
    BY <2>1, <2>2 DEF Onward
<1> QED
  BY <1>2, <1>3

\* So does every step of the driver.
LEMMA DriverMoves ==
  ASSUME Types, NEW u \in Users, Driver(u)
  PROVE  \E y \in States : ee' = [ee EXCEPT ![u] = y] /\ Follows(ee[u].at, y.at)
<1>0. ee[u] \in States
  BY DEF Types
<1>3. /\ \A a \in Ats : Go(u, a) => Onward(u, {a})
      /\ \A ok \in BOOLEAN : Return(u, ok) => Onward(u, {"done"})
  BY Moved
<1> SUFFICES \E as \in SUBSET Ats : Onward(u, as) /\ \A b \in as : Follows(ee[u].at, b)
  BY DEF Onward
<1> DEFINE w == {"sending", "done"}  r == {"addressing", "recv", "receiving", "done"}
<1>4. CASE SendPage(u, config, header)
  <2>1. Go(u, "sending") \/ Return(u, FALSE)
    BY <1>4 DEF SendPage, Iic_Write
  <2>2. Onward(u, w)
    BY <1>3, <2>1 DEF Onward, Ats
  <2> QED
    BY <1>4, <2>2 DEF SendPage, At, Follows, Ats
<1>5. CASE PageSent(u)
  <2>0. ee[u].at = "sending"
    BY <1>5 DEF PageSent, At
  <2>1. CASE Return(u, FALSE) \/ Return(u, TRUE)
    <3>1. Onward(u, w)
      BY <1>3, <2>1 DEF Onward, Ats
    <3> QED
      BY <2>0, <3>1 DEF Follows, Ats
  <2>2. CASE ee' = [ee EXCEPT ![u].at = "send", ![u].page = @ + 1]
    <3> DEFINE y == [ee[u] EXCEPT !.at = "send", !.page = @ + 1]
    <3>0. ee[u].page + 1 \in Nat
      BY <1>0 DEF States
    <3>1. y \in States /\ y.at = "send"
      BY <1>0, <3>0 DEF States, Ats
    <3>2. ee' = [ee EXCEPT ![u] = y]
      BY <2>2 DEF Types
    <3> HIDE DEF y
    <3>3. Onward(u, {"send"})
      BY <3>1, <3>2 DEF Onward
    <3> QED
      BY <2>0, <3>3 DEF Follows, Ats
  <2> QED
    BY <1>5, <2>1, <2>2 DEF PageSent
<1>6. CASE SendAddress(u)
  <2>1. Go(u, "addressing") \/ Return(u, FALSE)
    BY <1>6 DEF SendAddress, Iic_Write
  <2>2. Onward(u, r)
    BY <1>3, <2>1 DEF Onward, Ats
  <2> QED
    BY <1>6, <2>2 DEF SendAddress, At, Follows, Ats
<1>7. CASE AddressSent(u)
  <2>1. Go(u, "recv") \/ Return(u, FALSE)
    BY <1>7 DEF AddressSent
  <2>2. Onward(u, r)
    BY <1>3, <2>1 DEF Onward, Ats
  <2> QED
    BY <1>7, <2>2 DEF AddressSent, At, Follows, Ats
<1>8. CASE MasterRecv(u)
  <2>1. Go(u, "receiving") \/ Return(u, FALSE)
    BY <1>8 DEF MasterRecv
  <2>2. Onward(u, r)
    BY <1>3, <2>1 DEF Onward, Ats
  <2> QED
    BY <1>8, <2>2 DEF MasterRecv, At, Follows, Ats
<1>9. CASE Received(u)
  <2>1. recv_complete \in BOOLEAN /\ Return(u, recv_complete)
    BY <1>9 DEF Received, Types
  <2>2. Onward(u, {"done"})
    BY <1>3, <2>1
  <2> QED
    BY <1>9, <2>2 DEF Received, At, Follows, Ats
<1> QED
  BY <1>4, <1>5, <1>6, <1>7, <1>8, <1>9 DEF Driver

\* A browser submits when no other form is handled, and every step keeps it alone.
LEMMA ThreadStep == ASSUME Types, ThreadInv, InTurn, [Next]_vars PROVE ThreadInv'
<1> USE Constants
<1>a. /\ DOMAIN ee = Users /\ DOMAIN pc = Conns
      /\ ee = [u \in Users |-> ee[u]]
  BY DEF Types
<1>1. CASE Boot
  <2>1. UNCHANGED pc /\ boot # "serve"
    BY <1>1 DEF Boot, Start, HeaderRead, Loaded, Defaulted, ethernet_init, Listen, Serve, connVars
  <2>2. \A t \in Conns : ee'[t] = ee[t]
    BY <1>1, <1>a DEF Boot, Start, HeaderRead, Loaded, Defaulted, ethernet_init, Listen, Serve,
       StartRead, eeVars
  <2>3. \/ ee'[main].at = "idle"
        \/ ee'[main].at = "address" /\ boot' \in {"header", "body"}
    <3>1. Idle.at = "idle" /\ [Idle EXCEPT !.at = "address"].at = "address"
      BY DEF Idle
    <3>2. CASE Start \/ HeaderRead
      BY <1>a, <3>1, <3>2 DEF Start, HeaderRead, StartRead
    <3>3. CASE Loaded \/ Defaulted
      BY <1>a, <3>1, <3>3 DEF Loaded, Defaulted, Serve
    <3>4. CASE ethernet_init \/ Listen
      <4>1. ee[main].at = "idle"
        BY <3>4 DEF ethernet_init, Listen, ThreadInv
      <4> QED
        BY <3>4, <4>1 DEF ethernet_init, Listen, eeVars
    <3> QED
      BY <1>1, <3>2, <3>3, <3>4 DEF Boot
  <2> QED
    BY <2>1, <2>2, <2>3 DEF ThreadInv, Handling
<1>2. ASSUME NEW t \in Conns, Accept(t) \/ tcpThread(t) PROVE ThreadInv'
  <2>0. t # main /\ t \in Users
    OBVIOUS
  <2>1. boot' = boot /\ boot = "serve"
    BY <1>2 DEF Accept, tcpThread, ReadRequest, parse_get, Parsed, fields_update, Sum, Sign,
       EndWrite, Reply, Stay, ThreadInv
  <2>2. \E x \in Places :
          /\ pc' = [pc EXCEPT ![t] = x]
          /\ x \in {"parse", "update", "sum", "sign", "write"} => t \in Handling \/ Handling = {}
          /\ \/ x # "write" /\ pc[t] # "write" /\ ee' = ee
             \/ x = "write" /\ ee' = [ee EXCEPT ![t] = [Idle EXCEPT !.at = "send", !.n = sum[t].n]]
             \/ x # "write" /\ ee' = [ee EXCEPT ![t] = Idle]
    <3>1. CASE Accept(t)
      BY <3>1 DEF Accept, Goto, Set, Places, Stay, eeVars
    <3>2. CASE ReadRequest(t)
      BY <3>2 DEF ReadRequest, Goto, Set, Places, Stay, eeVars
    <3>3. CASE parse_get(t)
      <4>1. pc' = [pc EXCEPT ![t] = "parse"] /\ ee' = ee /\ pc[t] = "parse"
        BY <3>3, <1>a DEF parse_get, Stay, eeVars, Types
      <4> QED
        BY <4>1 DEF Handling, Places
    <3>4. CASE Parsed(t)
      BY <3>4 DEF Parsed, Goto, Set, Places, Stay, eeVars, Handling
    <3>5. CASE fields_update(t)
      BY <3>5 DEF fields_update, Goto, Set, Places, Stay, eeVars, Handling
    <3>6. CASE Sum(t)
      BY <3>6 DEF Sum, Goto, Set, Places, Stay, eeVars, Handling
    <3>7. CASE Sign(t)
      BY <3>7 DEF Sign, Goto, Set, Places, Stay, Handling
    <3>8. CASE EndWrite(t)
      BY <3>8 DEF EndWrite, Goto, Set, Places, Stay, Handling
    <3>9. CASE Reply(t)
      BY <3>9 DEF Reply, Goto, Set, Places, Stay, eeVars, Handling
    <3> QED
      BY <1>2, <3>1, <3>2, <3>3, <3>4, <3>5, <3>6, <3>7, <3>8, <3>9 DEF tcpThread
  <2>3. PICK x \in Places :
          /\ pc' = [pc EXCEPT ![t] = x]
          /\ x \in {"parse", "update", "sum", "sign", "write"} => t \in Handling \/ Handling = {}
          /\ \/ x # "write" /\ pc[t] # "write" /\ ee' = ee
             \/ x = "write" /\ ee' = [ee EXCEPT ![t] = [Idle EXCEPT !.at = "send", !.n = sum[t].n]]
             \/ x # "write" /\ ee' = [ee EXCEPT ![t] = Idle]
    BY <2>2
  <2>4. /\ pc'[t] = x /\ \A s \in Conns : s # t => pc'[s] = pc[s]
        /\ \A u \in Users : u # t => ee'[u] = ee[u]
        /\ \/ x # "write" /\ pc[t] # "write" /\ ee'[t].at = ee[t].at
           \/ x = "write" /\ ee'[t].at = "send"
           \/ x # "write" /\ ee'[t].at = "idle"
    <3>1. /\ pc'[t] = x /\ \A s \in Conns : s # t => pc'[s] = pc[s]
          /\ \A u \in Users : u # t => ee'[u] = ee[u]
      BY <2>0, <2>3, <1>a
    <3>2. Idle.at = "idle" /\ [Idle EXCEPT !.at = "send", !.n = sum[t].n].at = "send"
      BY DEF Idle
    <3>3. CASE ee' = ee
      BY <2>3, <3>1, <3>2, <3>3, <1>a DEF ThreadInv
    <3>4. CASE ee' = [ee EXCEPT ![t] = [Idle EXCEPT !.at = "send", !.n = sum[t].n]]
      BY <2>0, <2>3, <3>1, <3>2, <3>4, <1>a
    <3>5. CASE ee' = [ee EXCEPT ![t] = Idle]
      BY <2>0, <2>3, <3>1, <3>2, <3>5, <1>a
    <3> QED
      BY <2>3, <3>3, <3>4, <3>5
  <2>5. \A r, s \in Handling' : r = s
    BY <2>3, <2>4 DEF Handling, ThreadInv
  <2>6. \A s \in Conns : /\ ee'[s].at \in {"idle", "send", "sending", "done"}
                         /\ ee'[s].at # "idle" <=> pc'[s] = "write"
    BY <2>0, <2>4 DEF ThreadInv
  <2> QED
    BY <2>0, <2>1, <2>4, <2>5, <2>6 DEF ThreadInv
<1>3. ASSUME NEW u \in Users, Driver(u), UNCHANGED rest PROVE ThreadInv'
  <2>1. pc' = pc /\ boot' = boot
    BY <1>3 DEF rest, connVars
  <2>2. PICK y \in States : ee' = [ee EXCEPT ![u] = y] /\ Follows(ee[u].at, y.at)
    BY <1>3, DriverMoves
  <2>3. ee'[u] = y /\ \A w \in Users : w # u => ee'[w] = ee[w]
    BY <1>a, <2>2
  <2>4. CASE u = main
    BY <2>1, <2>2, <2>3, <2>4 DEF ThreadInv, Handling, Follows
  <2>5. CASE u \in Conns
    BY <2>1, <2>2, <2>3, <2>5 DEF ThreadInv, Handling, Follows
  <2> QED
    BY <2>4, <2>5
<1>4. CASE (Complete \/ StatusEvent) /\ UNCHANGED rest
  BY <1>4 DEF Complete, StatusEvent, rest, connVars, ThreadInv, Handling
<1>5. CASE PowerCut
  BY <1>5 DEF PowerCut, EepromCut, Idle, ThreadInv, Handling
<1>6. CASE UNCHANGED vars
  BY <1>6 DEF vars, eeVars, connVars, ThreadInv, Handling
<1> QED
  BY <1>1, <1>2, <1>3, <1>4, <1>5, <1>6 DEF Next

\* What was computed for the header is in it until it is written.
SignInv ==
  /\ \A t \in Conns : pc[t] = "sign" => sum[t] = Header(config)
  /\ \A t \in Conns : pc[t] = "write" => header = Header(config)

\* Nobody else changes the configuration or the header meanwhile.
LEMMA SignStep == ASSUME Types, ThreadInv, SignInv, [Next]_vars PROVE SignInv'
<1>1. CASE Boot
  BY <1>1 DEF Boot, Start, HeaderRead, Loaded, Defaulted, ethernet_init, Listen, Serve, connVars,
     ThreadInv, SignInv
<1>2. ASSUME NEW t \in Conns, Accept(t) \/ tcpThread(t) PROVE SignInv'
  <2>0. DOMAIN pc = Conns /\ DOMAIN sum = Conns
    BY DEF Types
  <2>1. CASE Accept(t) \/ ReadRequest(t)
    BY <2>0, <2>1 DEF Accept, ReadRequest, Goto, Set, Stay, formVars, SignInv
  <2>2. CASE parse_get(t)
    BY <2>2 DEF parse_get, Stay, SignInv
  <2>3. CASE Parsed(t)
    BY <2>0, <2>3 DEF Parsed, Goto, Set, Stay, formVars, SignInv
  <2>4. CASE fields_update(t)
    <3>1. \A s \in Conns : pc'[s] \notin {"sign", "write"}
      BY <2>0, <2>4 DEF fields_update, Goto, Set, ThreadInv, Handling
    <3> QED
      BY <3>1 DEF SignInv
  <2>5. CASE Sum(t)
    BY <2>0, <2>5 DEF Sum, Goto, Set, Stay, formVars, SignInv
  <2>6. CASE Sign(t)
    <3>1. \A s \in Conns \ {t} : pc'[s] \notin {"sign", "write"}
      BY <2>0, <2>6 DEF Sign, Goto, Set, ThreadInv, Handling
    <3> QED
      BY <2>0, <2>6, <3>1 DEF Sign, Goto, Set, Stay, SignInv
  <2>7. CASE EndWrite(t)
    BY <2>0, <2>7 DEF EndWrite, Goto, Set, Stay, formVars, SignInv
  <2>8. CASE Reply(t)
    BY <2>0, <2>8 DEF Reply, Goto, Set, Stay, formVars, SignInv
  <2> QED
    BY <1>2, <2>1, <2>2, <2>3, <2>4, <2>5, <2>6, <2>7, <2>8 DEF tcpThread
<1>3. CASE UNCHANGED rest
  BY <1>3 DEF rest, formVars, connVars, SignInv
<1>4. CASE PowerCut
  BY <1>4 DEF PowerCut, SignInv
<1>5. CASE UNCHANGED vars
  BY <1>5 DEF vars, formVars, connVars, SignInv
<1> QED
  BY <1>1, <1>2, <1>3, <1>4, <1>5 DEF Next

\* Each action leaves what it changes within the types.
LEMMA TypesStep == ASSUME Types, ThreadInv, SignInv, [Next]_vars PROVE Types'
<1> USE Constants
<1>0. /\ Idle \in States /\ [Idle EXCEPT !.at = "address"] \in States
      /\ \A m \in Nat : [Idle EXCEPT !.at = "send", !.n = m] \in States
  BY DEF Idle, States, Ats
<1>1. CASE Boot
  <2>1. ee' \in [Users -> States]
    BY <1>0, <1>1 DEF Boot, Start, HeaderRead, Loaded, Defaulted, ethernet_init, Listen, Serve,
       StartRead, eeVars, Types
  <2>2. config' = [f \in Field |-> config'[f]] /\ fields' = [f \in Field |-> fields'[f]]
    <3>1. CASE Loaded \/ Defaulted
      BY <3>1 DEF Loaded, Defaulted, Serve, Stored, Default
    <3>2. CASE Start \/ HeaderRead \/ ethernet_init \/ Listen
      BY <3>2 DEF Start, HeaderRead, ethernet_init, Listen, formVars, Types
    <3> QED
      BY <1>1, <3>1, <3>2 DEF Boot
  <2>3. UNCHANGED <<connVars, mem, recv_complete>>
    BY <1>1 DEF Boot, Start, HeaderRead, Loaded, Defaulted, ethernet_init, Listen, Serve, eeVars
  <2> QED
    BY <2>1, <2>2, <2>3 DEF connVars, Types
<1>2. ASSUME NEW t \in Conns, Accept(t) \/ tcpThread(t) PROVE Types'
  <2>1. UNCHANGED <<mem, recv_complete>>
    BY <1>2 DEF Accept, tcpThread, ReadRequest, parse_get, Parsed, fields_update, Sum, Sign,
       EndWrite, Reply, Stay, eeVars
  <2>2. CASE Accept(t)
    BY <2>2, <2>1 DEF Accept, Goto, Set, Stay, eeVars, formVars, Places, Types
  <2>3. CASE ReadRequest(t)
    BY <2>3, <2>1 DEF ReadRequest, Goto, Set, Stay, eeVars, formVars, Places, Types
  <2>4. CASE parse_get(t)
    <3> DEFINE a == req[t][next[t] + 1]
    <3>1. Worse(Verdict(a), rv[t]) \in Nat
      BY DEF Worse, Verdict, f_string, Types
    <3> HIDE DEF a
    <3>2. rv' \in [Conns -> Nat] /\ next' \in [Conns -> Nat]
      BY <2>4, <3>1 DEF parse_get, Set, Types, a
    <3>3. fields' = [f \in Field |-> fields'[f]]
      BY <2>4 DEF parse_get, store_var, Types
    <3> QED
      BY <2>4, <2>1, <3>2, <3>3 DEF parse_get, Stay, eeVars, Types
  <2>5. CASE Parsed(t)
    BY <2>5, <2>1 DEF Parsed, Goto, Set, Stay, eeVars, formVars, Places, Types
  <2>6. CASE fields_update(t)
    <3>1. config' = [f \in Field |-> config'[f]]
      BY <2>6 DEF fields_update, Types
    <3> QED
      BY <2>6, <2>1, <3>1 DEF fields_update, Goto, Set, Stay, eeVars, Places, Types
  <2>7. CASE Sum(t)
    <3>1. sum' = [s \in Conns |-> sum'[s]]
      BY <2>7 DEF Sum, Set, Types
    <3> QED
      BY <2>7, <2>1, <3>1 DEF Sum, Goto, Set, Stay, eeVars, formVars, Places, Types
  <2>8. CASE Sign(t)
    <3>1. sum[t].n \in Nat
      BY <2>8 DEF Sign, SignInv, Header
    <3>2. [Idle EXCEPT !.at = "send", !.n = sum[t].n] \in States
      BY <1>0, <3>1
    <3>3. ee' \in [Users -> States]
      BY <2>8, <3>2 DEF Sign, Types
    <3> QED
      BY <2>8, <2>1, <3>3 DEF Sign, Goto, Set, Stay, Places, Types
  <2>9. CASE EndWrite(t)
    <3>1. ee' \in [Users -> States]
      BY <1>0, <2>9 DEF EndWrite, Types
    <3> QED
      BY <2>9, <2>1, <3>1 DEF EndWrite, Goto, Set, Stay, formVars, Places, Types
  <2>10. CASE Reply(t)
    <3>1. sum' = [s \in Conns |-> sum'[s]]
      BY <2>10 DEF Reply, Set, Types
    <3> QED
      BY <2>10, <2>1, <3>1 DEF Reply, Goto, Set, Stay, eeVars, formVars, Places, Types
  <2> QED
    BY <1>2, <2>2, <2>3, <2>4, <2>5, <2>6, <2>7, <2>8, <2>9, <2>10 DEF tcpThread
<1>3. ASSUME NEW u \in Users, Driver(u), UNCHANGED rest PROVE Types'
  <2>1. ee' \in [Users -> States]
    <3>1. PICK y \in States : ee' = [ee EXCEPT ![u] = y]
      BY <1>3, DriverMoves
    <3> QED
      BY <3>1 DEF Types
  <2>2. mem' = mem /\ recv_complete' \in BOOLEAN
    BY <1>3 DEF Driver, SendPage, PageSent, SendAddress, AddressSent, MasterRecv, Received, Types
  <2> QED
    BY <1>3, <2>1, <2>2 DEF rest, formVars, connVars, Types
<1>4. CASE (Complete \/ StatusEvent) /\ UNCHANGED rest
  <2>1. mem' = [p \in Pages |-> mem'[p]]
    BY <1>4 DEF Complete, StatusEvent, Types
  <2>2. ee' = ee /\ recv_complete' \in BOOLEAN
    BY <1>4 DEF Complete, StatusEvent, Types
  <2> QED
    BY <1>4, <2>1, <2>2 DEF rest, formVars, connVars, Types
<1>5. CASE PowerCut
  <2>1. mem' = [p \in Pages |-> mem'[p]]
    BY <1>5 DEF PowerCut, EepromCut, Types
  <2>2. ee' \in [Users -> States] /\ recv_complete' \in BOOLEAN
    BY <1>0, <1>5 DEF PowerCut, EepromCut
  <2>3. config' = [f \in Field |-> config'[f]] /\ fields' = [f \in Field |-> fields'[f]]
    BY <1>5 DEF PowerCut, Default
  <2> QED
    BY <1>5, <2>1, <2>2, <2>3 DEF PowerCut, Places, Types
<1>6. CASE UNCHANGED vars
  BY <1>6 DEF vars, eeVars, formVars, connVars, Types
<1> QED
  BY <1>1, <1>2, <1>3, <1>4, <1>5, <1>6 DEF Next

-----------------------------------------------------------------------------
(* From the configuration to the memory, and back *)

\* What page p of configuration c is to hold, and memory holding the first n.
PageOf(c, p) == [val |-> c[p], hdr |-> IF p = 0 THEN Header(c) ELSE NoHeader]
Upto(n) == \A p \in 0..n - 1 : mem[p] = PageOf(config, p)

\* A page is under way, or its transfer is over and completed only if it is written.
Underway(p) ==
  \/ /\ bus = [op |-> "send", page |-> p, data |-> PageOf(config, p)]
     /\ ~send_complete /\ ~status_events
  \/ bus = NoTransfer /\ (send_complete => mem[p] = PageOf(config, p))

\* A thread that is writing has written all pages before the one it is at.
Writing(s) ==
  /\ s.at # "idle" => s.n = PagesOf(config)
  /\ s.at \in {"send", "sending"} => s.page < s.n /\ Upto(s.page)
  /\ s.at = "sending" => Underway(s.page)
  /\ s.at = "done" /\ s.rv => Upto(s.n)

\* Only a thread that waits for it has a page under way, and each is where its pages say.
DriverInv ==
  /\ bus.op = "send" => \E t \in Conns : ee[t].at = "sending"
  /\ \A t \in Conns : Writing(ee[t])

\* While one connection is handled no other is in the driver.
LEMMA Alone ==
  ASSUME ThreadInv, NEW t \in Conns, t \in Handling
  PROVE  \A s \in Conns \ {t} : ee[s].at = "idle" /\ pc[s] # "write"
BY DEF ThreadInv, Handling

\* This holds while no connection uses the driver.
LEMMA Nobody ==
  ASSUME \A t \in Conns : ee[t].at = "idle", bus.op # "send"
  PROVE  DriverInv
BY DEF DriverInv, Writing

\* Each page that the driver takes for written is in the memory, whatever ends
\* the wait for it.
LEMMA DriverStep == ASSUME Types, ThreadInv, SignInv, DriverInv, [Next]_vars PROVE DriverInv'
<1> USE Constants
<1>0. Idle.at = "idle" /\ NoTransfer.op = "none"
  BY DEF Idle, NoTransfer
<1>1. CASE Boot
  <2>1. \A t \in Conns : ee[t].at = "idle"
    BY <1>1 DEF Boot, Start, HeaderRead, Loaded, Defaulted, ethernet_init, Listen, ThreadInv
  <2>2. \A t \in Conns : ee'[t].at = "idle"
    BY <1>1, <2>1 DEF Boot, Start, HeaderRead, Loaded, Defaulted, ethernet_init, Listen, Serve,
       StartRead, eeVars, Types
  <2>3. bus'.op # "send"
    BY <1>1, <2>1 DEF Boot, Start, HeaderRead, Loaded, Defaulted, ethernet_init, Listen, Serve,
       eeVars, DriverInv
  <2> QED
    BY <2>2, <2>3 DEF DriverInv, Writing
<1>2. ASSUME NEW t \in Conns, Accept(t) \/ tcpThread(t) PROVE DriverInv'
  <2>1. UNCHANGED <<mem, bus, send_complete, status_events>>
    BY <1>2 DEF Accept, tcpThread, ReadRequest, parse_get, Parsed, fields_update, Sum, Sign,
       EndWrite, Reply, Stay, eeVars
  <2>2. CASE UNCHANGED <<ee, config>>
    BY <2>1, <2>2 DEF DriverInv, Writing, Underway, Upto
  <2>3. CASE fields_update(t)
    <3>1. \A s \in Conns : ee[s].at = "idle"
      BY <2>3 DEF fields_update, ThreadInv, Handling
    <3>2. ee' = ee
      BY <2>3 DEF fields_update, Stay, eeVars
    <3> QED
      BY <2>1, <3>1, <3>2 DEF DriverInv, Writing
  <2>4. CASE Sign(t)
    <3> DEFINE y == [Idle EXCEPT !.at = "send", !.n = sum[t].n]
    <3>1. \A s \in Conns : ee[s].at = "idle"
      BY <2>4 DEF Sign, ThreadInv, Handling
    <3>2. sum[t].n = PagesOf(config) /\ config' = config
      BY <2>4 DEF Sign, SignInv, Header, Stay
    <3>3. y.at = "send" /\ y.n = PagesOf(config) /\ y.page = 0
      BY <3>2 DEF Idle
    <3>4. PagesOf(config) > 0
      BY DEF PagesOf
    <3>5. ee'[t] = y /\ \A s \in Conns \ {t} : ee'[s].at = "idle"
      BY <2>4, <3>1 DEF Sign, Types
    <3> HIDE DEF y
    <3>6. Writing(ee[t])'
      BY <3>2, <3>3, <3>4, <3>5 DEF Writing, Upto
    <3>7. bus'.op # "send"
      BY <2>1, <3>1 DEF DriverInv
    <3> QED
      BY <3>5, <3>6, <3>7 DEF DriverInv, Writing
  <2>5. CASE EndWrite(t)
    <3>1. \A s \in Conns \ {t} : ee[s].at = "idle"
      BY <2>5 DEF EndWrite, ThreadInv, Handling
    <3>2. \A s \in Conns : ee'[s].at = "idle"
      BY <1>0, <2>5, <3>1 DEF EndWrite, Types
    <3>3. bus'.op # "send"
      BY <2>1, <2>5, <3>1 DEF EndWrite, At, DriverInv
    <3> QED
      BY <3>2, <3>3 DEF DriverInv, Writing
  <2> QED
    BY <1>2, <2>2, <2>3, <2>4, <2>5 DEF Accept, tcpThread, ReadRequest, parse_get, Parsed, Sum,
       Reply, Stay, eeVars, formVars
<1>3. ASSUME NEW u \in Users, Driver(u), UNCHANGED rest PROVE DriverInv'
  <2>0. config' = config /\ header' = header
    BY <1>3 DEF rest, formVars
  <2>1. PICK y \in States : ee' = [ee EXCEPT ![u] = y] /\ Follows(ee[u].at, y.at)
    BY <1>3, DriverMoves
  <2>2. ee'[u] = y /\ \A w \in Users : w # u => ee'[w] = ee[w]
    BY <2>1 DEF Types
  <2>3. CASE u = main
    <3>1. \A t \in Conns : ee[t].at = "idle"
      BY <2>1, <2>3 DEF Follows, ThreadInv
    <3>2. \A t \in Conns : ee'[t].at = "idle"
      BY <2>2, <2>3, <3>1
    <3>3. bus' = bus \/ bus' = [op |-> "address"] \/ bus' = [op |-> "recv"]
      BY <1>3, <2>3 DEF Driver, SendPage, PageSent, SendAddress, AddressSent, MasterRecv,
         Received, Iic_Write, At, ThreadInv
    <3>4. bus'.op # "send"
      BY <3>1, <3>3 DEF DriverInv
    <3> QED
      BY <3>2, <3>4 DEF DriverInv, Writing
  <2>4. CASE u \in Conns
    <3>1. ee[u].at \in {"send", "sending"} /\ u \in Handling
      BY <2>1, <2>4 DEF Follows, ThreadInv, Handling
    <3>2. \A s \in Conns \ {u} : ee[s].at = "idle" /\ ee'[s].at = "idle"
      BY <2>2, <2>4, <3>1, Alone
    <3>3. header = Header(config)
      BY <2>4, <3>1 DEF SignInv, ThreadInv
    <3>4. Writing(ee[u])
      BY <2>4 DEF DriverInv
    <3> SUFFICES (bus'.op = "send" => y.at = "sending") /\ Writing(y)'
      BY <2>2, <2>4, <3>2 DEF DriverInv, Writing
    <3>5. CASE SendPage(u, config, header)
      <4>0. ee[u].at = "send" /\ mem' = mem /\ ~send_complete' /\ ~status_events'
        BY <3>5 DEF SendPage, Iic_Write, At
      <4>1. CASE bus = NoTransfer
        <5>1. /\ bus' = [op |-> "send", page |-> ee[u].page, data |-> PageOf(config, ee[u].page)]
              /\ Go(u, "sending")
          BY <3>3, <3>5, <4>1 DEF SendPage, Iic_Write, PageOf
        <5>2. y = [ee[u] EXCEPT !.at = "sending"]
          BY <2>2, <5>1 DEF Go, Types
        <5>3. y.at = "sending" /\ y.page = ee[u].page /\ y.n = ee[u].n
          BY <5>2 DEF Types, States
        <5> QED
          BY <2>0, <3>4, <4>0, <5>1, <5>3 DEF Writing, Underway, Upto
      <4>2. CASE bus # NoTransfer
        <5>1. bus' = bus /\ Return(u, FALSE)
          BY <3>5, <4>2 DEF SendPage, Iic_Write
        <5>2. y = [ee[u] EXCEPT !.at = "done", !.rv = FALSE]
          BY <2>2, <5>1 DEF Return, Types
        <5>3. y.at = "done" /\ y.rv = FALSE /\ y.n = ee[u].n
          BY <5>2 DEF Types, States
        <5>4. bus'.op # "send"
          BY <2>4, <3>2, <4>0, <5>1 DEF DriverInv
        <5> QED
          BY <2>0, <3>4, <4>0, <5>3, <5>4 DEF Writing
      <4> QED
        BY <4>1, <4>2
    <3>6. CASE PageSent(u)
      <4>0. /\ ee[u].at = "sending" /\ mem' = mem /\ bus' = bus
            /\ send_complete \/ status_events
        BY <3>6 DEF PageSent, Over, At
      <4>1. bus = NoTransfer /\ (send_complete => mem[ee[u].page] = PageOf(config, ee[u].page))
        BY <3>4, <4>0 DEF Writing, Underway
      <4>2. bus'.op # "send"
        BY <1>0, <4>0, <4>1
      <4>3. ee[u].page \in Nat /\ ee[u].n \in Nat
        BY DEF Types, States
      <4>4. CASE Return(u, FALSE)
        <5>2. y = [ee[u] EXCEPT !.at = "done", !.rv = FALSE]
          BY <2>2, <4>4 DEF Return, Types
        <5>3. y.at = "done" /\ y.rv = FALSE /\ y.n = ee[u].n
          BY <5>2 DEF Types, States
        <5> QED
          BY <2>0, <3>4, <4>0, <4>2, <5>3 DEF Writing
      <4>5. CASE send_complete
        <5>1. \A p \in 0..ee[u].page : mem[p] = PageOf(config, p)
          <6>1. \A p \in 0..ee[u].page : p \in 0..ee[u].page - 1 \/ p = ee[u].page
            BY <4>3
          <6> QED
            BY <3>4, <4>0, <4>1, <4>5, <6>1 DEF Writing, Upto
        <5>2. CASE ee[u].page + 1 = ee[u].n /\ Return(u, TRUE)
          <6>1. y = [ee[u] EXCEPT !.at = "done", !.rv = TRUE]
            BY <2>2, <5>2 DEF Return, Types
          <6>2. y.at = "done" /\ y.n = ee[u].n
            BY <6>1 DEF Types, States
          <6>3. \A p \in 0..y.n - 1 : mem'[p] = PageOf(config', p)
            BY <2>0, <4>0, <4>3, <5>1, <5>2, <6>2
          <6> QED
            BY <2>0, <3>4, <4>0, <4>2, <6>2, <6>3 DEF Writing, Upto
        <5>3. CASE /\ ee[u].page + 1 # ee[u].n
                   /\ ee' = [ee EXCEPT ![u].at = "send", ![u].page = @ + 1]
          <6>1. y = [ee[u] EXCEPT !.at = "send", !.page = @ + 1]
            BY <2>2, <5>3 DEF Types
          <6>2. y.at = "send" /\ y.page = ee[u].page + 1 /\ y.n = ee[u].n
            BY <6>1 DEF Types, States
          <6>3. y.page < y.n
            BY <3>4, <4>0, <4>3, <5>3, <6>2 DEF Writing
          <6>4. \A p \in 0..y.page - 1 : mem'[p] = PageOf(config', p)
            BY <2>0, <4>0, <4>3, <5>1, <6>2
          <6> QED
            BY <2>0, <3>4, <4>0, <4>2, <6>2, <6>3, <6>4 DEF Writing, Upto
        <5> QED
          BY <3>6, <4>5, <5>2, <5>3 DEF PageSent, Written
      <4> QED
        BY <3>6, <4>4, <4>5 DEF PageSent, Written
    <3> QED
      BY <1>3, <3>1, <3>5, <3>6 DEF Driver, SendAddress, AddressSent, MasterRecv, Received, At
  <2> QED
    BY <2>3, <2>4
<1>4. CASE Complete /\ UNCHANGED rest
  <2>0. /\ bus # NoTransfer /\ bus' = NoTransfer /\ ee' = ee /\ config' = config
        /\ bus.op = "send" => mem' = [mem EXCEPT ![bus.page] = bus.data]
        /\ bus.op # "send" => mem' = mem
    BY <1>4 DEF Complete, rest, formVars
  <2>1. bus'.op # "send"
    BY <1>0, <2>0
  <2>2. CASE bus.op = "send"
    <3>1. PICK t \in Conns : ee[t].at = "sending"
      BY <2>2 DEF DriverInv
    <3>2. Writing(ee[t]) /\ ee[t] \in States
      BY DEF DriverInv, Types
    <3>3. bus = [op |-> "send", page |-> ee[t].page, data |-> PageOf(config, ee[t].page)]
      BY <2>0, <3>1, <3>2 DEF Writing, Underway
    <3>4. \A s \in Conns \ {t} : ee[s].at = "idle"
      BY <3>1, Alone DEF ThreadInv, Handling
    <3>5. ee[t].page \in Pages
      BY <3>1, <3>2 DEF Writing, States, PagesOf, Pages
    <3>6. /\ mem'[ee[t].page] = PageOf(config, ee[t].page)
          /\ \A p \in 0..ee[t].page - 1 : mem'[p] = mem[p]
      BY <2>0, <2>2, <3>2, <3>3, <3>5 DEF Types, States, Pages
    <3>7. Writing(ee[t])'
      BY <2>0, <3>1, <3>2, <3>6 DEF Writing, Underway, Upto
    <3> QED
      BY <2>0, <2>1, <3>4, <3>7 DEF DriverInv, Writing
  <2>3. CASE bus.op # "send"
    <3>1. \A t \in Conns : ee[t].at # "sending"
      BY <2>0, <2>3 DEF DriverInv, Writing, Underway
    <3> QED
      BY <2>0, <2>1, <2>3, <3>1 DEF DriverInv, Writing, Upto
  <2> QED
    BY <2>2, <2>3
<1>5. CASE StatusEvent /\ UNCHANGED rest
  <2>0. /\ bus # NoTransfer /\ bus' = NoTransfer
        /\ UNCHANGED <<ee, mem, send_complete, config>>
    BY <1>5 DEF StatusEvent, rest, formVars
  <2>1. bus'.op # "send"
    BY <1>0, <2>0
  <2> QED
    BY <2>0, <2>1 DEF DriverInv, Writing, Underway, Upto
<1>6. CASE PowerCut
  <2>1. \A t \in Conns : ee'[t].at = "idle"
    BY <1>0, <1>6 DEF PowerCut, EepromCut
  <2>2. bus'.op # "send"
    BY <1>0, <1>6 DEF PowerCut, EepromCut
  <2> QED
    BY <2>1, <2>2 DEF DriverInv, Writing
<1>7. CASE UNCHANGED vars
  BY <1>7 DEF vars, eeVars, formVars, DriverInv, Writing, Underway, Upto
<1> QED
  BY <1>1, <1>2, <1>3, <1>4, <1>5, <1>6, <1>7 DEF Next

\* What was written whole is in the memory, and no thread is writing.
KeptInv ==
  kept # <<>> =>
    /\ kept = [f \in Field |-> kept[f]]
    /\ \A t \in Conns : pc[t] # "write"
    /\ mem[0].hdr = Header(kept)
    /\ \A p \in 0..PagesOf(kept) - 1 : mem[p].val = kept[p]

\* EndWrite establishes it; after that nothing is written until the next Sign,
\* so that a power cut finds no page under way.
LEMMA KeptStep ==
  ASSUME Types, ThreadInv, SignInv, DriverInv, KeptInv, [Next]_vars
  PROVE  KeptInv'
<1> USE Constants
<1>1. CASE Boot
  <2>1. UNCHANGED <<kept, mem, pc>>
    BY <1>1 DEF Boot, Start, HeaderRead, Loaded, Defaulted, ethernet_init, Listen, Serve, eeVars,
       connVars, history
  <2> QED
    BY <2>1 DEF KeptInv
<1>2. ASSUME NEW t \in Conns, Accept(t) \/ tcpThread(t) PROVE KeptInv'
  <2>0. DOMAIN pc = Conns
    BY DEF Types
  <2>1. mem' = mem
    BY <1>2 DEF Accept, tcpThread, ReadRequest, parse_get, Parsed, fields_update, Sum, Sign,
       EndWrite, Reply, Stay, eeVars
  <2>2. CASE Sign(t)
    BY <2>2 DEF Sign, KeptInv
  <2>3. CASE EndWrite(t)
    <3>1. CASE ~(ee[t].rv /\ Header(config) = header)
      BY <2>3, <3>1 DEF EndWrite, KeptInv
    <3>2. CASE ee[t].rv /\ Header(config) = header
      <4>1. kept' = config /\ ee[t].at = "done" /\ pc[t] = "write"
        BY <2>3, <3>2 DEF EndWrite, At
      <4>2. \A p \in 0..PagesOf(config) - 1 : mem[p] = PageOf(config, p)
        BY <3>2, <4>1 DEF DriverInv, Writing, Upto
      <4>3. PagesOf(config) > 0
        BY DEF PagesOf
      <4>4. mem[0].hdr = Header(config) /\ \A p \in 0..PagesOf(config) - 1 : mem[p].val = config[p]
        <5>1. 0 \in 0..PagesOf(config) - 1
          BY <4>3
        <5>2. mem[0] = PageOf(config, 0)
          BY <4>2, <5>1
        <5>3. mem[0].hdr = Header(config)
          BY <5>2 DEF PageOf
        <5>4. \A p \in 0..PagesOf(config) - 1 : mem[p].val = config[p]
          <6>1. \A p : PageOf(config, p).val = config[p]
            BY DEF PageOf
          <6> QED
            BY <4>2, <6>1
        <5> QED
          BY <5>3, <5>4
      <4>5. \A s \in Conns : pc'[s] # "write"
        BY <2>0, <2>3, <4>1, Alone DEF EndWrite, Goto, Set, Handling
      <4>6. config = [f \in Field |-> config[f]]
        BY DEF Types
      <4> QED
        BY <2>1, <4>1, <4>4, <4>5, <4>6 DEF KeptInv
    <3> QED
      BY <3>1, <3>2
  <2>4. CASE ~Sign(t) /\ ~EndWrite(t)
    <3>1. kept' = kept
      BY <1>2, <2>4 DEF Accept, tcpThread, ReadRequest, parse_get, Parsed, fields_update, Sum,
         Reply, Stay, history
    <3>2. \A s \in Conns : pc'[s] = "write" => pc[s] = "write"
      BY <1>2, <2>0, <2>4 DEF Accept, tcpThread, ReadRequest, parse_get, Parsed, fields_update, Sum,
         Reply, Goto, Set, Stay
    <3> QED
      BY <2>1, <3>1, <3>2 DEF KeptInv
  <2> QED
    BY <2>2, <2>3, <2>4
<1>3. ASSUME NEW u \in Users, Driver(u), UNCHANGED rest PROVE KeptInv'
  <2>1. mem' = mem
    BY <1>3 DEF Driver, SendPage, PageSent, SendAddress, AddressSent, MasterRecv, Received
  <2> QED
    BY <1>3, <2>1 DEF rest, connVars, history, KeptInv
<1>4. CASE (Complete \/ StatusEvent) /\ UNCHANGED rest
  <2>1. kept # <<>> => mem' = mem
    <3>1. kept # <<>> => bus.op # "send"
      BY DEF DriverInv, ThreadInv, KeptInv
    <3> QED
      BY <1>4, <3>1 DEF Complete, StatusEvent
  <2> QED
    BY <1>4, <2>1 DEF rest, connVars, history, KeptInv
<1>5. CASE PowerCut
  <2>1. kept # <<>> => mem' = mem
    <3>1. kept # <<>> => bus.op # "send"
      BY DEF DriverInv, ThreadInv, KeptInv
    <3> QED
      BY <1>5, <3>1 DEF PowerCut, EepromCut
  <2> QED
    BY <1>5, <2>1 DEF PowerCut, KeptInv
<1>6. CASE UNCHANGED vars
  BY <1>6 DEF vars, eeVars, connVars, history, KeptInv
<1> QED
  BY <1>1, <1>2, <1>3, <1>4, <1>5, <1>6 DEF Next

\* A memory that holds a configuration whole passes the tests, and is read back.
LEMMA ReadBack ==
  ASSUME NEW c, c = [f \in Field |-> c[f]], mem[0].hdr = Header(c)
  PROVE  /\ SizeOK
         /\ ChecksumOK <=> \A p \in 0..PagesOf(c) - 1 : mem[p].val = c[p]
         /\ ChecksumOK => Stored = c
<1>1. mem[0].hdr.n = PagesOf(c) /\ mem[0].hdr.sum = [f \in 0..PagesOf(c) - 1 |-> c[f]]
  BY DEF Header, fletcher16
<1>2. PagesOf(c) \in LastPage..LastPage + 1
  BY Constants DEF PagesOf
<1>3. ChecksumOK <=> \A p \in 0..PagesOf(c) - 1 : mem[p].val = c[p]
  <2>1. \A f \in 0..PagesOf(c) - 1 : f \in Pages
    BY <1>2, Constants DEF Pages
  <2>2. [f \in 0..PagesOf(c) - 1 |-> IF f \in Pages THEN mem[f].val ELSE Junk]
          = [f \in 0..PagesOf(c) - 1 |-> mem[f].val]
    BY <2>1
  <2>3. ChecksumOK <=> [f \in 0..PagesOf(c) - 1 |-> c[f]]
                         = [f \in 0..PagesOf(c) - 1 |->
                              IF f \in Pages THEN mem[f].val ELSE Junk]
    BY <1>1, Zenon DEF ChecksumOK
  <2> QED
    BY <2>2, <2>3
<1>4. ASSUME ChecksumOK, NEW f \in Field PROVE Stored[f] = c[f]
  <2>0. f \in Nat /\ f <= LastPage
    BY Constants DEF Field, Pages
  <2>1. CASE f < PagesOf(c)
    BY <1>1, <1>2, <1>3, <1>4, <2>0, <2>1 DEF Stored
  <2>2. CASE ~(f < PagesOf(c))
    <3>1. f = LastPage /\ c[LastPage] = 0
      BY <2>0, <2>2, Constants DEF PagesOf
    <3> QED
      BY <1>1, <2>2, <3>1 DEF Stored
  <2> QED
    BY <2>1, <2>2
<1>5. ChecksumOK => Stored = c
  BY <1>4 DEF Stored
<1> QED
  <2>1. PagesOf(c) \in LastPage..EEPages
    BY <1>2, Constants, EepromAssumption
  <2> QED
    BY <1>1, <1>3, <1>5, <2>1 DEF SizeOK

\* The invariant behind Durable.
DurableInv == Types /\ ThreadInv /\ SignInv /\ DriverInv /\ KeptInv

\* It holds throughout.
LEMMA DurableInvariant == ASSUME InTurn PROVE Spec => []DurableInv
<1>1. Init => DurableInv
  <2>1. Init => bus.op # "send" /\ \A t \in Conns : ee[t].at = "idle"
    BY Constants DEF Init, EepromInit, NoTransfer, Idle
  <2>2. Init => DriverInv
    BY <2>1, Nobody
  <2>3. Init => SignInv /\ KeptInv
    BY DEF Init, SignInv, KeptInv
  <2> QED
    BY <2>2, <2>3, Started DEF DurableInv
<1>2. DurableInv /\ [Next]_vars => DurableInv'
  BY ThreadStep, TypesStep, SignStep, DriverStep, KeptStep DEF DurableInv
<1> QED
  BY <1>1, <1>2, PTL DEF Spec

\* Once written whole a configuration is found again at every start, unless the
\* EEPROM cannot be read.
THEOREM FoundAgain == ASSUME InTurn PROVE Spec => Durable
<1> DEFINE Found == boot # "net" /\ boot' = "net" /\ kept # <<>> => config' = kept \/ Read(FALSE)
<1>1. DurableInv /\ [Next]_vars => [Found]_vars
  <2> SUFFICES ASSUME DurableInv, Next, boot # "net", boot' = "net", kept # <<>>, ~Read(FALSE)
               PROVE  config' = kept
    OBVIOUS
  <2>1. SizeOK /\ ChecksumOK /\ Stored = kept
    BY ReadBack DEF DurableInv, KeptInv
  <2>2. Loaded \/ Defaulted
    BY DEF Next, Boot, Start, HeaderRead, StartRead, ethernet_init, Listen, Accept, tcpThread,
       ReadRequest, parse_get, Parsed, fields_update, Sum, Sign, EndWrite, Reply, Stay, rest,
       PowerCut
  <2> QED
    BY <2>1, <2>2 DEF Loaded, Defaulted, Serve
<1>2. Durable <=> [][Found]_vars
  BY DEF Durable
<1> QED
  BY <1>1, <1>2, DurableInvariant, PTL DEF Spec

-----------------------------------------------------------------------------
(* From the form to the configuration *)

\* A request is well formed if it sets no field twice, and sets every field if
\* it is good: so the browser submits the form.
WholeForms ==
  \A r \in Requests :
    /\ \A i, j \in DOMAIN r : r[i][1] = "set" /\ r[j][1] = "set" /\ r[i][2] = r[j][2] => i = j
    /\ Good(r) => \A f \in Field : \E i \in DOMAIN r : r[i][1] = "set" /\ r[i][2] = f

\* The configurations that may be in force.
Allowed == {Default} \cup {FormOf(r) : r \in {r \in Requests : Good(r)}}

\* A thread that parses: what it has parsed of its request is in the form, the
\* verdict is that on it.
Parsing(r, n, v) ==
  /\ n <= Len(r) /\ v \in 0..2
  /\ \A i \in 1..n : /\ v < 2 => r[i][1] # "junk" /\ r[i][3] <= MaxValid
                     /\ r[i][1] = "set" => fields[r[i][2]] = r[i][3]
  /\ v = 1 => \E i \in 1..n : r[i][1] = "SU"

\* A thread that copies a form's fields.
Updating(r, n) ==
  /\ Good(r) /\ fields = FormOf(r)
  /\ n \in Field /\ \A f \in 0..n - 1 : config[f] = fields[f]

\* The configuration in force is one of them, as is the one whose header is in
\* the memory; a thread has its request in the form as far as it is parsed, and the
\* form in the configuration as far as it is copied.
FormInv ==
  /\ (\A t \in Conns : pc[t] # "update") => config \in Allowed
  /\ \A t \in Handling : req[t] \in Requests
  /\ \A t \in Conns : pc[t] = "parse" => Parsing(req[t], next[t], rv[t])
  /\ \A t \in Conns : pc[t] = "update" => Updating(req[t], next[t])
  /\ mem[0].hdr \in DamagedHeader \cup {Header(c) : c \in Allowed}

\* Where a request sets a field.
LEMMA FormOfIs ==
  ASSUME WholeForms, NEW r \in Requests, NEW i \in 1..Len(r), r[i][1] = "set"
  PROVE  r[i][2] \in Field => FormOf(r)[r[i][2]] = r[i][3]
<1>1. DOMAIN r = 1..Len(r)
  BY ServerAssumption
<1> DEFINE Where(f) == CHOOSE j \in DOMAIN r : r[j][1] = "set" /\ r[j][2] = f
<1>2. Where(r[i][2]) \in DOMAIN r /\ r[Where(r[i][2])][1] = "set" /\ r[Where(r[i][2])][2] = r[i][2]
  BY <1>1
<1>3. Where(r[i][2]) = i
  BY <1>1, <1>2 DEF WholeForms
<1> QED
  BY <1>3 DEF FormOf

\* All of a form that was parsed without objection is good, and is in the fields.
LEMMA FormParsed ==
  ASSUME Types, WholeForms, NEW r \in Requests, Parsing(r, Len(r), 1)
  PROVE  Good(r) /\ fields = FormOf(r)
<1>1. r \in Seq(Assignment) /\ DOMAIN r = 1..Len(r)
  BY ServerAssumption
<1>2. Good(r)
  BY <1>1 DEF Good, Parsing
<1>3. ASSUME NEW f \in Field PROVE fields[f] = FormOf(r)[f]
  <2>1. PICK i \in DOMAIN r : r[i][1] = "set" /\ r[i][2] = f
    BY <1>2 DEF WholeForms
  <2>2. FormOf(r)[f] = r[i][3]
    BY <1>1, <2>1, FormOfIs
  <2>3. fields[f] = r[i][3]
    BY <1>1, <2>1 DEF Parsing
  <2> QED
    BY <2>2, <2>3
<1>4. fields = [f \in Field |-> fields[f]] /\ FormOf(r) = [f \in Field |-> FormOf(r)[f]]
  BY DEF Types, FormOf
<1>5. fields = FormOf(r)
  BY <1>3, <1>4
<1> QED
  BY <1>2, <1>5

\* parse_get takes one more assignment into account: no other of the request set its
\* field.
LEMMA ParseOne ==
  ASSUME Types, WholeForms, NEW t \in Conns, parse_get(t), req[t] \in Requests,
         Parsing(req[t], next[t], rv[t])
  PROVE  Parsing(req[t], next[t], rv[t])'
<1> DEFINE r == req[t]  k == next[t] + 1  a == r[k]
<1>1. /\ r \in Seq(Assignment) /\ Len(r) \in Nat /\ DOMAIN r = 1..Len(r)
      /\ \A i \in 1..Len(r) : r[i] \in Assignment
  BY ServerAssumption
<1>2. next[t] \in Nat /\ next[t] < Len(r) /\ rv[t] \in 0..2
  BY DEF parse_get, Types, Parsing
<1>3. k \in 1..Len(r) /\ \A i \in 1..k : i \in 1..next[t] \/ i = k
  BY <1>1, <1>2
<1>4. /\ req' = req /\ next'[t] = k /\ store_var(a)
      /\ rv'[t] = Worse(Verdict(a), rv[t])
  BY DEF parse_get, Set, Stay, Types
<1>5. a \in Assignment
  BY <1>1, <1>3
<1> HIDE DEF a
<1>6. /\ Verdict(a) \in 0..2
      /\ Verdict(a) < 2 => a[1] # "junk" /\ a[3] <= MaxValid
      /\ Verdict(a) = 1 => a[1] = "SU"
  <2>1. CASE a \in {"set"} \X Field \X Value
    <3>1. a[1] = "set" /\ a[3] \in Value
      BY <2>1
    <3>2. Verdict(a) = f_string(a[3])
      BY <3>1 DEF Verdict
    <3>3. a[3] \in Nat /\ MaxValid \in Nat
      BY <3>1, ServerAssumption, EepromAssumption DEF Value
    <3>4. Verdict(a) \in {0, 2} /\ (Verdict(a) < 2 => a[3] <= MaxValid)
      BY <3>2, <3>3 DEF f_string
    <3> QED
      BY <3>1, <3>4
  <2>2. CASE a \in {<<n, 0, 0>> : n \in {"SU", "junk", "logo"}}
    <3>1. PICK n \in {"SU", "junk", "logo"} : a = <<n, 0, 0>>
      BY <2>2
    <3>2. a[1] = n /\ a[3] = 0
      BY <3>1
    <3>3. Verdict(a) = IF n = "SU" THEN 1 ELSE 2
      BY <3>2 DEF Verdict
    <3> QED
      BY <3>1, <3>2, <3>3, ServerAssumption
  <2> QED
    BY <1>5, <2>1, <2>2 DEF Assignment
<1>7. /\ rv'[t] \in 0..2
      /\ rv'[t] < 2 => Verdict(a) < 2 /\ rv[t] < 2
      /\ rv'[t] = 1 => Verdict(a) = 1 \/ rv[t] = 1
  BY <1>2, <1>4, <1>6 DEF Worse
<1>8. \A i \in 1..k : r[i][1] = "set" => fields'[r[i][2]] = r[i][3]
  <2>1. CASE a[1] = "set"
    <3>1. a[2] \in Field
      BY <1>5, <2>1 DEF Assignment
    <3>2. fields' = [fields EXCEPT ![a[2]] = a[3]]
      BY <1>4, <2>1 DEF store_var
    <3>3. fields'[a[2]] = a[3]
      BY <3>1, <3>2 DEF Types
    <3>4. ASSUME NEW i \in 1..next[t], r[i][1] = "set" PROVE fields'[r[i][2]] = r[i][3]
      <4>1. r[i][2] # a[2]
        <5>1. i # k /\ i \in 1..Len(r)
          BY <1>2
        <5> QED
          BY <1>1, <1>3, <2>1, <3>4, <5>1 DEF WholeForms, a
      <4>2. fields'[r[i][2]] = fields[r[i][2]]
        BY <3>2, <4>1 DEF Types
      <4> QED
        BY <3>4, <4>2 DEF Parsing
    <3> QED
      BY <1>3, <3>3, <3>4 DEF a
  <2>2. CASE a[1] # "set"
    BY <1>3, <1>4, <2>2 DEF store_var, Parsing, a
  <2> QED
    BY <2>1, <2>2
<1>9. \A i \in 1..k : rv'[t] < 2 => r[i][1] # "junk" /\ r[i][3] <= MaxValid
  BY <1>3, <1>6, <1>7 DEF Parsing, a
<1>10. rv'[t] = 1 => \E i \in 1..k : r[i][1] = "SU"
  <2>1. CASE rv[t] = 1
    BY <1>2, <2>1 DEF Parsing
  <2>2. CASE Verdict(a) = 1
    BY <1>2, <1>6, <2>2 DEF a
  <2> QED
    BY <1>7, <2>1, <2>2
<1> QED
  BY <1>3, <1>4, <1>7, <1>8, <1>9, <1>10 DEF Parsing

\* What is read back from an intact memory was allowed.
LEMMA AllowedRead ==
  ASSUME ChecksumOK, mem[0].hdr \in DamagedHeader \cup {Header(c) : c \in Allowed}
  PROVE  Stored \in Allowed
<1>1. CASE mem[0].hdr = NoHeader
  <2>1. mem[0].hdr.n = 0
    BY <1>1 DEF NoHeader
  <2>2. Stored = Default
    BY <2>1, Constants DEF Stored, Default, Field, Pages
  <2> QED
    BY <2>2 DEF Allowed
<1>3. mem[0].hdr # [n |-> EEPages, sum |-> <<>>]
  <2> SUFFICES ASSUME mem[0].hdr = [n |-> EEPages, sum |-> <<>>] PROVE FALSE
    OBVIOUS
  <2>1. mem[0].hdr.n = EEPages /\ mem[0].hdr.sum = <<>>
    OBVIOUS
  <2>2. DOMAIN mem[0].hdr.sum = 0..mem[0].hdr.n - 1
    BY DEF ChecksumOK
  <2>3. DOMAIN <<>> = {} /\ 0 \in 0..EEPages - 1
    BY EepromAssumption
  <2> QED
    BY <2>1, <2>2, <2>3
<1>2. ASSUME NEW c \in Allowed, mem[0].hdr = Header(c) PROVE Stored \in Allowed
  <2>1. c = [f \in Field |-> c[f]]
    BY <1>2 DEF Allowed, Default, FormOf
  <2> QED
    BY <1>2, <2>1, ReadBack
<1> QED
  BY <1>1, <1>2, <1>3 DEF DamagedHeader

\* The page on its way to the memory has no header, or that of what was allowed.
LEMMA Signed ==
  ASSUME Types, ThreadInv, DriverInv, FormInv, bus.op = "send"
  PROVE  /\ bus.page \in Pages
         /\ bus.page = 0 => bus.data.hdr \in {Header(c) : c \in Allowed}
<1>1. PICK t \in Conns : ee[t].at = "sending"
  BY DEF DriverInv
<1>2. Writing(ee[t]) /\ ee[t] \in States
  BY Constants DEF DriverInv, Types
<1>3. bus = [op |-> "send", page |-> ee[t].page, data |-> PageOf(config, ee[t].page)]
  BY <1>1, <1>2 DEF Writing, Underway, NoTransfer
<1>4. ee[t].page \in Pages
  BY <1>1, <1>2, Constants DEF Writing, States, PagesOf, Pages
<1>5. config \in Allowed
  <2>1. pc[t] = "write"
    BY <1>1 DEF ThreadInv
  <2>2. \A s \in Conns : pc[s] # "update"
    BY <2>1 DEF ThreadInv, Handling
  <2> QED
    BY <2>2 DEF FormInv
<1>6. bus.page = ee[t].page /\ bus.data = PageOf(config, ee[t].page)
  BY <1>3
<1>7. PageOf(config, 0).hdr = Header(config)
  BY DEF PageOf
<1> QED
  BY <1>4, <1>5, <1>6, <1>7

\* A form goes whole into the configuration, or does not touch it; what start-up
\* reads passes the checksum, so that its header's configuration is what is read.
LEMMA FormStep ==
  ASSUME Types, ThreadInv, DriverInv, FormInv, WholeForms, [Next]_vars
  PROVE  FormInv'
<1> USE Constants
<1>0. DOMAIN pc = Conns /\ DOMAIN req = Conns /\ DOMAIN next = Conns /\ DOMAIN rv = Conns
  BY DEF Types
<1>1. CASE Boot
  <2>1. \A t \in Conns : pc[t] = "closed"
    BY <1>1 DEF Boot, Start, HeaderRead, Loaded, Defaulted, ethernet_init, Listen, ThreadInv
  <2>2. UNCHANGED <<mem, pc>>
    BY <1>1 DEF Boot, Start, HeaderRead, Loaded, Defaulted, ethernet_init, Listen, Serve, eeVars,
       connVars
  <2>3. config \in Allowed
    BY <2>1 DEF FormInv
  <2>4. config' \in Allowed
    <3>1. CASE Loaded
      BY <3>1, AllowedRead DEF Loaded, Serve, FormInv
    <3>2. CASE Defaulted
      BY <3>2 DEF Defaulted, Serve, Allowed
    <3> QED
      BY <1>1, <2>3, <3>1, <3>2 DEF Boot, Start, HeaderRead, ethernet_init, Listen, formVars
  <2> QED
    BY <2>1, <2>2, <2>4 DEF FormInv, Handling
<1>2. ASSUME NEW t \in Conns, Accept(t) \/ tcpThread(t) PROVE FormInv'
  <2>1. mem' = mem
    BY <1>2 DEF Accept, tcpThread, ReadRequest, parse_get, Parsed, fields_update, Sum, Sign,
       EndWrite, Reply, Stay, eeVars
  <2>2. CASE Accept(t)
    BY <1>0, <2>1, <2>2 DEF Accept, Goto, Set, Stay, formVars, FormInv, Handling, Parsing, Updating
  <2>3. CASE ReadRequest(t)
    <3>1. PICK r \in Requests :
            /\ req' = Set(req, t, r) /\ pc' = Set(pc, t, IF Logo(r) THEN "reply" ELSE "parse")
      BY <2>3 DEF ReadRequest, Goto
    <3>2. /\ next' = Set(next, t, 0) /\ rv' = Set(rv, t, 0) /\ pc[t] = "read"
          /\ config' = config /\ fields' = fields
      BY <2>3 DEF ReadRequest, Stay, formVars
    <3>3. Parsing(r, 0, 0)'
      BY ServerAssumption DEF Parsing
    <3> QED
      BY <1>0, <2>1, <3>1, <3>2, <3>3 DEF Set, FormInv, Handling, Parsing, Updating
  <2>4. CASE parse_get(t)
    <3>1. /\ pc[t] = "parse" /\ t \in Handling /\ UNCHANGED <<pc, req, config>>
          /\ \A s \in Conns \ {t} : next'[s] = next[s] /\ rv'[s] = rv[s]
      BY <1>0, <2>4 DEF parse_get, Set, Stay, Handling
    <3>2. req[t] \in Requests /\ Parsing(req[t], next[t], rv[t])
      BY <3>1 DEF FormInv
    <3>3. Parsing(req[t], next[t], rv[t])'
      BY <2>4, <3>2, ParseOne
    <3>4. \A s \in Conns \ {t} : s \notin Handling
      BY <3>1 DEF ThreadInv
    <3>5. \A s \in Conns \ {t} : pc[s] # "update" /\ pc[s] # "parse"
      BY <3>4 DEF Handling
    <3> QED
      BY <2>1, <3>1, <3>3, <3>5 DEF FormInv, Handling
  <2>5. CASE Parsed(t)
    <3>1. /\ pc[t] = "parse" /\ t \in Handling /\ next[t] = Len(req[t])
          /\ pc' = Set(pc, t, IF rv[t] = 1 THEN "update" ELSE "reply")
          /\ next' = Set(next, t, 0)
          /\ UNCHANGED <<req, rv, config, fields>>
      BY <2>5 DEF Parsed, Goto, Stay, formVars, Handling
    <3>2. req[t] \in Requests /\ Parsing(req[t], Len(req[t]), rv[t])
      BY <3>1 DEF FormInv
    <3>3. rv[t] = 1 => Updating(req[t], 0)'
      <4>1. rv[t] = 1 => Good(req[t]) /\ fields = FormOf(req[t])
        BY <3>2, FormParsed
      <4> QED
        BY <3>1, <4>1, EepromAssumption DEF Updating, Field, Pages
    <3>4. \A s \in Conns \ {t} : pc[s] # "update" /\ pc[s] # "parse"
      BY <3>1 DEF ThreadInv, Handling
    <3>5. config \in Allowed
      BY <3>1, <3>4 DEF FormInv
    <3> QED
      BY <1>0, <2>1, <3>1, <3>2, <3>3, <3>4, <3>5 DEF Set, FormInv, Handling
  <2>6. CASE fields_update(t)
    <3>1. /\ pc[t] = "update" /\ t \in Handling
          /\ config' = [config EXCEPT ![next[t]] = fields[next[t]]]
          /\ next' = Set(next, t, next[t] + 1)
          /\ pc' = Set(pc, t, IF next[t] = LastPage THEN "sum" ELSE "update")
          /\ UNCHANGED <<req, rv, fields>>
      BY <2>6 DEF fields_update, Goto, Stay, Handling
    <3>2. Updating(req[t], next[t]) /\ req[t] \in Requests
      BY <3>1 DEF FormInv
    <3>3. \A f \in 0..next[t] : config'[f] = fields[f]
      <4>1. next[t] \in Field /\ next[t] \in Nat
        BY <3>2, EepromAssumption DEF Updating, Field, Pages
      <4>2. config'[next[t]] = fields[next[t]]
        BY <3>1, <4>1 DEF Types
      <4>3. \A f \in 0..next[t] - 1 : config'[f] = config[f] /\ config[f] = fields[f]
        <5>1. \A f \in 0..next[t] - 1 : config[f] = fields[f] /\ f # next[t]
          BY <3>2, <4>1 DEF Updating
        <5>2. \A f \in Field \ {next[t]} : config'[f] = config[f]
          BY <3>1 DEF Types
        <5>3. \A f \in 0..next[t] - 1 : f \in Field
          BY <4>1, EepromAssumption DEF Field, Pages
        <5> QED
          BY <5>1, <5>2, <5>3
      <4>4. \A f \in 0..next[t] : f \in 0..next[t] - 1 \/ f = next[t]
        BY <4>1
      <4> QED
        BY <4>2, <4>3, <4>4
    <3>4. next[t] # LastPage => Updating(req[t], next[t])'
      <4>1. next[t] # LastPage => next[t] + 1 \in Field
        BY <3>2, EepromAssumption DEF Updating, Field, Pages
      <4>2. next'[t] = next[t] + 1
        BY <1>0, <3>1 DEF Set
      <4>3. \A f \in 0..next'[t] - 1 : f \in 0..next[t]
        BY <3>2, <4>2, EepromAssumption DEF Updating, Field, Pages
      <4> QED
        BY <3>1, <3>2, <3>3, <4>1, <4>2, <4>3 DEF Updating
    <3>5. next[t] = LastPage => config' \in Allowed
      <4>1. next[t] = LastPage => config' = fields
        BY <3>1, <3>3 DEF Types, Field, Pages
      <4> QED
        BY <3>2, <4>1 DEF Updating, Allowed
    <3>6. \A s \in Conns \ {t} : pc[s] # "update" /\ pc[s] # "parse"
      BY <3>1 DEF ThreadInv, Handling
    <3>7. /\ pc'[t] = (IF next[t] = LastPage THEN "sum" ELSE "update")
          /\ \A s \in Conns \ {t} : pc'[s] = pc[s]
      BY <1>0, <3>1 DEF Set
    <3>8. \A s \in Handling' : req'[s] \in Requests
      BY <3>1, <3>2, <3>7 DEF FormInv, Handling
    <3> QED
      BY <2>1, <3>4, <3>5, <3>6, <3>7, <3>8 DEF FormInv
  <2>7. CASE Sum(t) \/ Sign(t) \/ EndWrite(t)
    <3>1. /\ pc' \in {Set(pc, t, "sign"), Set(pc, t, "write"), Set(pc, t, "reply")}
          /\ t \in Handling /\ UNCHANGED <<req, next, rv, config, fields>>
      BY <2>7 DEF Sum, Sign, EndWrite, Goto, Stay, formVars, Handling
    <3>2. \A s \in Conns \ {t} : pc[s] # "update" /\ pc[s] # "parse"
      BY <3>1 DEF ThreadInv, Handling
    <3>3. pc[t] # "update"
      BY <2>7 DEF Sum, Sign, EndWrite
    <3> QED
      BY <1>0, <2>1, <3>1, <3>2, <3>3 DEF Set, FormInv, Handling
  <2>8. CASE Reply(t)
    BY <1>0, <2>1, <2>8 DEF Reply, Goto, Set, Stay, formVars, FormInv, Handling, Parsing, Updating
  <2> QED
    BY <1>2, <2>2, <2>3, <2>4, <2>5, <2>6, <2>7, <2>8 DEF tcpThread
<1>3. ASSUME NEW u \in Users, Driver(u), UNCHANGED rest PROVE FormInv'
  <2>1. mem' = mem
    BY <1>3 DEF Driver, SendPage, PageSent, SendAddress, AddressSent, MasterRecv, Received
  <2> QED
    BY <1>3, <2>1 DEF rest, formVars, connVars, FormInv, Handling, Parsing, Updating
<1>4. CASE (Complete \/ StatusEvent) /\ UNCHANGED rest
  <2>1. mem'[0].hdr \in DamagedHeader \cup {Header(c) : c \in Allowed}
    <3>1. CASE mem' = mem
      BY <3>1 DEF FormInv
    <3>2. CASE bus.op = "send" /\ mem' = [mem EXCEPT ![bus.page] = bus.data]
      BY <3>2, Signed DEF FormInv, Types
    <3> QED
      BY <1>4, <3>1, <3>2 DEF Complete, StatusEvent
  <2> QED
    BY <1>4, <2>1 DEF rest, formVars, connVars, FormInv, Handling, Parsing, Updating
<1>5. CASE PowerCut
  <2>1. mem'[0].hdr \in DamagedHeader \cup {Header(c) : c \in Allowed}
    <3>1. CASE mem' = mem
      BY <3>1 DEF FormInv
    <3>2. ASSUME bus.op = "send",
                 NEW d \in {mem[bus.page], bus.data} \cup Damaged(bus.page),
                 mem' = [mem EXCEPT ![bus.page] = d]
          PROVE  mem'[0].hdr \in DamagedHeader \cup {Header(c) : c \in Allowed}
      <4>1. CASE bus.page = 0
        <5>1. d \in Damaged(0) => d.hdr \in DamagedHeader
          BY DEF Damaged
        <5> QED
          BY <3>2, <4>1, <5>1, Signed DEF FormInv, Types
      <4>2. CASE bus.page # 0
        BY <3>2, <4>2 DEF FormInv, Types
      <4> QED
        BY <4>1, <4>2
    <3> QED
      BY <1>5, <3>1, <3>2 DEF PowerCut, EepromCut
  <2> QED
    BY <1>5, <2>1 DEF PowerCut, FormInv, Handling, Allowed
<1>6. CASE UNCHANGED vars
  BY <1>6 DEF vars, eeVars, formVars, connVars, FormInv, Handling, Parsing, Updating
<1> QED
  BY <1>1, <1>2, <1>3, <1>4, <1>5, <1>6 DEF Next

\* The configuration in force was submitted as one form, each field of it valid, or
\* is the default.
THEOREM InForce == ASSUME InTurn, WholeForms PROVE Spec => []OnlySubmitted
<1>1. Init => FormInv
  BY Constants DEF Init, EepromInit, FormInv, Handling, Allowed, Pages, DamagedHeader
<1>2. DurableInv /\ FormInv /\ [Next]_vars => FormInv'
  BY FormStep DEF DurableInv
<1>3. FormInv => OnlySubmitted
  BY DEF FormInv, OnlySubmitted, Settled, Allowed
<1> QED
  BY <1>1, <1>2, <1>3, DurableInvariant, PTL DEF Spec
============================================================================
