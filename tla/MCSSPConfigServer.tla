-------------------------- MODULE MCSSPConfigServer --------------------------
(***************************************************************************)
(* Three pages, the last for notes that may be empty; forms that are good, *)
(* that are invalid in one field, that are not submitted; the logo.        *)
(***************************************************************************)
EXTENDS SSPConfigServer

CONSTANTS c1, c2

Form(a, b, n) == << <<"set", 0, a>>, <<"set", 1, b>>, <<"set", 2, n>> >>
SU == << <<"SU", 0, 0>> >>
MCUsers == {main} \cup Conns
MCRequests ==
  { Form(1, 1, 1) \o SU, Form(0, 2, 1) \o SU, Form(1, 0, 0) \o SU,
    << <<"junk", 0, 0>> >> \o Form(0, 1, 0) \o SU,
    << <<"set", 1, 0>> >>, << <<"logo", 0, 0>> >> }
==============================================================================
