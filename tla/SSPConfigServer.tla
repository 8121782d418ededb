--------------------------- MODULE SSPConfigServer ---------------------------
(***************************************************************************)
(* SSP_Config, the program that serves the configuration form on port 80:  *)
(* start-up (SSP_Config.c), one thread per connection (http.c), and the    *)
(* EEPROM.  The form's fields, the configuration SSP_Config and the driver *)
(* are shared by the connections without a lock, and xilkernel schedules   *)
(* them round robin, so that a step is one access to shared data.          *)
(*                                                                         *)
(* A request is what its URL names, in order: <<"set", f, v>> is value v   *)
(* for field f, "SU" the submit button, "junk" a name that the form does   *)
(* not have; or it is for the logo.  Values above MaxValid fail validation.*)
(* What is sent back is left out.                                          *)
(***************************************************************************)
EXTENDS SSPEeprom

CONSTANTS main,      \* main_main, which uses the driver before any connection is there
          Conns,     \* the connections open at once, a thread each
          Requests,  \* what browsers send
          MaxValid,  \* the greatest value that passes validation
          InTurn,    \* browsers submit one at a time
          MaxCuts    \* bound: power cuts

\* What a URL may name: fields with values, the button, something else.
Assignment == ({"set"} \X Field \X Value) \cup {<<n, 0, 0>> : n \in {"SU", "junk", "logo"}}

ASSUME ServerAssumption ==
  /\ MaxValid \in Nat /\ MaxValid < MaxValue /\ MaxCuts \in Nat
  /\ Users = {main} \cup Conns /\ main \notin Conns /\ InTurn \in BOOLEAN
  /\ \A r \in Requests : r \in Seq(Assignment) /\ r # <<>>

VARIABLES
  boot,      \* main_main's place
  config,    \* SSP_Config: the fields
  header,    \* SSP_Config.hdr
  fields,    \* the form's fields, as last entered
  pc, req,   \* each connection's thread, and its request
  next,      \* the assignments it has parsed, the fields it has copied
  rv,        \* parse_get's result: 0 not submitted, 1 submitted, 2 invalid
  sum,       \* the header as computed, not yet stored
  cuts,
  kept       \* history: the configuration last written whole, <<>> when being overwritten


formVars == <<config, header, fields>>
connVars == <<pc, req, next, rv, sum>>
history == <<cuts, kept>>
vars == <<eeVars, boot, formVars, connVars, history>>

Valid == [Field -> 0..MaxValid]
Set(f, t, x) == [f EXCEPT ![t] = x]

Init ==
  /\ EepromInit /\ boot = "start"
  /\ config = Default /\ header = NoHeader /\ fields = Default
  /\ pc = [t \in Conns |-> "closed"] /\ req = [t \in Conns |-> <<>>]
  /\ next = [t \in Conns |-> 0] /\ rv = next
  /\ sum = [t \in Conns |-> NoHeader]
  /\ cuts = 0 /\ kept = <<>>

------------------------------------------------------------------------------
(* main_main: EE_ReadConfig reads the header, then header and fields.      *)

StartRead(at) == ee' = [ee EXCEPT ![main] = [Idle EXCEPT !.at = "address"]] /\ boot' = at
Read(ok) == At(main, "done") /\ ee[main].rv = ok

Start ==
  /\ boot = "start" /\ StartRead("header")
  /\ UNCHANGED <<mem, bus, send_complete, recv_complete, status_events, formVars, connVars,
                 history>>
HeaderRead ==
  /\ boot = "header" /\ Read(TRUE) /\ SizeOK /\ StartRead("body")
  /\ UNCHANGED <<mem, bus, send_complete, recv_complete, status_events, formVars, connVars,
                 history>>

\* fields_init copies the configuration into the form, unless it finds no memory.
Serve(c) ==
  /\ config' = c /\ header' = Header(c) /\ fields' = c
  /\ boot' \in {"net", "ended"} /\ ee' = [ee EXCEPT ![main] = Idle]
  /\ UNCHANGED <<mem, bus, send_complete, recv_complete, status_events, connVars, history>>
Loaded == boot = "body" /\ Read(TRUE) /\ ChecksumOK /\ Serve(Stored)
\* A transfer failed, or a test did: EE_DefaultConfig.
Defaulted ==
  /\ \/ boot \in {"header", "body"} /\ Read(FALSE)
     \/ boot = "header" /\ Read(TRUE) /\ ~SizeOK
     \/ boot = "body" /\ Read(TRUE) /\ ~ChecksumOK
  /\ Serve(Default)

\* serverAppThread: the network is set up, if the jumpers select an address,
\* even if that fails; the port is opened, or not.
ethernet_init ==
  /\ boot = "net" /\ boot' \in {"port", "ended"}
  /\ UNCHANGED <<eeVars, formVars, connVars, history>>
Listen ==
  /\ boot = "port" /\ boot' \in {"serve", "ended"}
  /\ UNCHANGED <<eeVars, formVars, connVars, history>>
Boot == Start \/ HeaderRead \/ Loaded \/ Defaulted \/ ethernet_init \/ Listen

------------------------------------------------------------------------------
(* tcpThread and process_http.                                             *)

Stay(v) == UNCHANGED v
Goto(t, a) == pc' = Set(pc, t, a)

\* serverAppThread's accept.
Accept(t) ==
  /\ boot = "serve" /\ pc[t] = "closed" /\ Goto(t, "read")
  /\ Stay(<<eeVars, boot, formVars, req, next, rv, sum, history>>)

Logo(r) == r[1][1] = "logo"
Handling == {t \in Conns : pc[t] \in {"parse", "update", "sum", "sign", "write"}}

\* The request is received and split at its spaces.  The three calls of strtok()
\* share a pointer, so that two requests received at once would be mixed; here they
\* are one step, which is right while requests come one at a time.
ReadRequest(t) ==
  /\ pc[t] = "read"
  /\ \E r \in Requests :
       /\ req' = Set(req, t, r)
       /\ InTurn => Logo(r) \/ Handling = {}
       /\ Goto(t, IF Logo(r) THEN "reply" ELSE "parse")
  /\ next' = Set(next, t, 0) /\ rv' = Set(rv, t, 0)
  /\ Stay(<<eeVars, boot, formVars, sum, history>>)

\* store_var: the value is taken over even when it is not valid.  A name that the
\* form does not have is refused; left out are those that begin with IP and have no
\* digit next and last, for which ipaddr_in tests an index that was never set.
store_var(a) == fields' = IF a[1] = "set" THEN [fields EXCEPT ![a[2]] = a[3]] ELSE fields
\* Mutant: values are not validated.
f_string_Takes(v) == 0
f_string(v) == IF v > MaxValid THEN 2 ELSE 0
Verdict(a) == CASE a[1] = "set" -> f_string(a[3]) [] a[1] = "SU" -> 1 [] OTHER -> 2

Worse(a, b) == IF a > b THEN a ELSE b

parse_get(t) ==
  /\ pc[t] = "parse" /\ next[t] < Len(req[t])
  /\ LET a == req[t][next[t] + 1]
     IN store_var(a) /\ rv' = Set(rv, t, Worse(Verdict(a), rv[t]))
  /\ next' = Set(next, t, next[t] + 1)
  /\ Stay(<<eeVars, boot, config, header, pc, req, sum, history>>)

\* Submitted and valid: write; otherwise only show the form.
Parsed(t) ==
  /\ pc[t] = "parse" /\ next[t] = Len(req[t])
  /\ Goto(t, IF rv[t] = 1 THEN "update" ELSE "reply") /\ next' = Set(next, t, 0)
  /\ Stay(<<eeVars, boot, formVars, req, rv, sum, history>>)

\* One field of fields_update.
fields_update(t) ==
  /\ pc[t] = "update"
  /\ config' = [config EXCEPT ![next[t]] = fields[next[t]]]
  /\ next' = Set(next, t, next[t] + 1)
  /\ Goto(t, IF next[t] = LastPage THEN "sum" ELSE "update")
  /\ Stay(<<eeVars, boot, header, fields, req, rv, sum, history>>)

\* EE_WriteConfig: size and checksum are computed, stored, and written first.
Sum(t) ==
  /\ pc[t] = "sum" /\ Goto(t, "sign") /\ sum' = Set(sum, t, Header(config))
  /\ Stay(<<eeVars, boot, formVars, req, next, rv, history>>)
Sign(t) ==
  /\ pc[t] = "sign" /\ Goto(t, "write") /\ header' = sum[t]
  /\ ee' = [ee EXCEPT ![t] = [Idle EXCEPT !.at = "send", !.n = sum[t].n]]
  /\ kept' = <<>>
  /\ Stay(<<mem, bus, send_complete, recv_complete, status_events, boot, config, fields, req,
            next, rv, sum, cuts>>)
\* What EE_Write returns is reported as an error, but not to the caller: the
\* form says that the write was successful.
EndWrite(t) ==
  /\ pc[t] = "write" /\ At(t, "done") /\ Goto(t, "reply")
  /\ kept' = IF ee[t].rv /\ Header(config) = header THEN config ELSE <<>>
  /\ ee' = [ee EXCEPT ![t] = Idle]
  /\ Stay(<<mem, bus, send_complete, recv_complete, status_events, boot, formVars, req, next,
            rv, sum, cuts>>)

\* The page is sent, or is not (an error is only reported); the connection is closed.
Reply(t) ==
  /\ pc[t] = "reply" /\ Goto(t, "closed")
  /\ req' = Set(req, t, <<>>) /\ next' = Set(next, t, 0) /\ rv' = Set(rv, t, 0)
  /\ sum' = Set(sum, t, NoHeader)
  /\ Stay(<<eeVars, boot, formVars, history>>)

tcpThread(t) ==
  \/ ReadRequest(t) \/ parse_get(t) \/ Parsed(t) \/ fields_update(t) \/ Sum(t) \/ Sign(t)
  \/ EndWrite(t) \/ Reply(t)

------------------------------------------------------------------------------
Driver(u) == \/ SendPage(u, config, header) \/ PageSent(u)
             \/ SendAddress(u) \/ AddressSent(u) \/ MasterRecv(u) \/ Received(u)
rest == <<boot, formVars, connVars, history>>

PowerCut ==
  /\ cuts < MaxCuts /\ cuts' = cuts + 1
  /\ EepromCut /\ boot' = "start"
  /\ config' = Default /\ header' = NoHeader /\ fields' = Default
  /\ pc' = [t \in Conns |-> "closed"] /\ req' = [t \in Conns |-> <<>>]
  /\ next' = [t \in Conns |-> 0] /\ rv' = next'
  /\ sum' = [t \in Conns |-> NoHeader]
  /\ UNCHANGED kept

Next ==
  \/ Boot
  \/ \E t \in Conns : Accept(t) \/ tcpThread(t)
  \/ (\E u \in Users : Driver(u)) /\ UNCHANGED rest
  \/ (Complete \/ StatusEvent) /\ UNCHANGED rest
  \/ PowerCut

\* Threads take turns, and a transfer ends in one way or the other.
Fairness ==
  /\ WF_vars(Boot)
  /\ \A t \in Conns : WF_vars(tcpThread(t))
  /\ \A u \in Users : WF_vars(Driver(u) /\ UNCHANGED rest)
  /\ WF_vars((Complete \/ StatusEvent) /\ UNCHANGED rest)
Spec == Init /\ [][Next]_vars /\ Fairness

------------------------------------------------------------------------------
(* Properties.                                                             *)

\* A form whose every field is valid and submitted, and what it asks for.
FormOf(r) == [f \in Field |-> LET i == CHOOSE i \in DOMAIN r : r[i][1] = "set" /\ r[i][2] = f
                              IN r[i][3]]
Good(r) == /\ \A i \in DOMAIN r : r[i][1] # "junk" /\ r[i][3] <= MaxValid
           /\ \E i \in DOMAIN r : r[i][1] = "SU"
Settled == boot = "serve" /\ \A t \in Conns : pc[t] # "update"

\* The configuration in force was submitted as one form, each field of it
\* valid, or is the default: whatever forms were refused before, whatever was
\* being written when the power failed.
OnlySubmitted ==
  Settled => config \in {Default} \cup {FormOf(r) : r \in {r \in Requests : Good(r)}}

\* Once written whole a configuration is found again at every start, however
\* often the power fails, unless the EEPROM cannot be read.
Durable ==
  [][boot # "net" /\ boot' = "net" /\ kept # <<>>
       => config' = kept \/ Read(FALSE)]_vars

\* Every form is handled and its connection closed, though transfers fail.
Served == \A t \in Conns : pc[t] = "parse" ~> pc[t] = "closed"

==============================================================================
