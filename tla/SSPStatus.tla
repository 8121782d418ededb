------------------------------ MODULE SSPStatus ------------------------------
(***************************************************************************)
(* The status display of the SSP firmware (ssp_status.c).  Any thread adds  *)
(* a status or an error, a string of digits, to one of two lists, while     *)
(* status_thread shows both lists on the LEDs, a digit at a time.  The two  *)
(* cursors share cur_elt: only one list may be on display, and the other's  *)
(* cursor must be past its end.  Each step is one section under             *)
(* status_mutex.                                                            *)
(***************************************************************************)
EXTENDS Naturals, Sequences, Functions

CONSTANTS
  MAX_STATUS_SETS, MAX_ERROR_SETS,
  StatusCodes, ErrorCodes   \* the strings in use, as sequences of digits

ASSUME StatusAssumption ==
  /\ MAX_STATUS_SETS \in Nat \ {0} /\ MAX_ERROR_SETS \in Nat \ {0}
  /\ StatusCodes \cup ErrorCodes \subseteq Seq(1..15)
  /\ <<1>> \in StatusCodes

VARIABLES
  status_list, cur_status_set,
  error_list, cur_error_set,
  cur_elt,
  led      \* what the LEDs show: a digit, 0 between strings, and the error LED

statusVars == <<status_list, cur_status_set, error_list, cur_error_set, cur_elt, led>>

n_status_sets == Len(status_list)
n_error_sets == Len(error_list)
InError == cur_error_set < n_error_sets
InStatus == cur_status_set < n_status_sets

Led(digit, err) == led' = [digit |-> digit, err |-> err]

-----------------------------------------------------------------------------
(* status_thread *)

\* The next digit of the string s is shown.
Digit(s, err) ==
  /\ cur_elt < Len(s)
  /\ Led(s[cur_elt + 1], err) /\ cur_elt' = cur_elt + 1
  /\ UNCHANGED <<cur_status_set, cur_error_set>>

\* Mutant: the errors start over although there are statuses.
EndOfError_Again ==
  /\ cur_elt = Len(error_list[cur_error_set + 1])
  /\ cur_elt' = 0 /\ Led(0, FALSE)
  /\ cur_error_set' = (cur_error_set + 1) % n_error_sets
  /\ UNCHANGED cur_status_set

\* After the last error the statuses are shown, if there are any.
EndOfError ==
  /\ cur_elt = Len(error_list[cur_error_set + 1])
  /\ cur_elt' = 0
  /\ LET last == cur_error_set + 1 = n_error_sets
         again == last /\ n_status_sets = 0
     IN  /\ Led(0, again)
         /\ cur_error_set' = IF again THEN 0 ELSE cur_error_set + 1
         /\ cur_status_set' = IF last /\ ~again THEN 0 ELSE cur_status_set

\* Mutant: the statuses start over although there are errors.
EndOfStatus_Again ==
  /\ cur_elt = Len(status_list[cur_status_set + 1])
  /\ cur_elt' = 0 /\ Led(0, FALSE)
  /\ cur_status_set' = (cur_status_set + 1) % n_status_sets
  /\ UNCHANGED cur_error_set

\* After the last status the errors are shown, if there are any.
EndOfStatus ==
  /\ cur_elt = Len(status_list[cur_status_set + 1])
  /\ cur_elt' = 0 /\ Led(0, FALSE)
  /\ LET last == cur_status_set + 1 = n_status_sets
         again == last /\ n_error_sets = 0
     IN  /\ cur_status_set' = IF again THEN 0 ELSE cur_status_set + 1
         /\ cur_error_set' = IF last /\ ~again THEN 0 ELSE cur_error_set

\* Both cursors are past their lists: begin again, with the errors.
Restart ==
  /\ Led(0, n_error_sets > 0) /\ cur_elt' = 0
  /\ IF n_error_sets > 0 THEN cur_error_set' = 0 /\ UNCHANGED cur_status_set
     ELSE cur_status_set' = 0 /\ UNCHANGED cur_error_set

status_thread ==
  /\ \/ InError /\ (Digit(error_list[cur_error_set + 1], TRUE) \/ EndOfError)
     \/ ~InError /\ InStatus
          /\ (Digit(status_list[cur_status_set + 1], FALSE) \/ EndOfStatus)
     \/ ~InError /\ ~InStatus /\ Restart
  /\ UNCHANGED <<status_list, error_list>>

-----------------------------------------------------------------------------
(* The other threads *)

clear_status(codes) ==
  /\ status_list' = <<codes>> /\ cur_status_set' = 1
  /\ cur_elt' = IF InStatus THEN 0 ELSE cur_elt
  /\ UNCHANGED <<error_list, cur_error_set, led>>

\* status_set(0, codes): a code that does not fit is dropped; a cursor that is
\* past the list stays past it.
append_status(codes) ==
  /\ n_status_sets < MAX_STATUS_SETS
  /\ status_list' = Append(status_list, codes)
  /\ cur_status_set' = IF InStatus THEN cur_status_set ELSE cur_status_set + 1
  /\ UNCHANGED <<error_list, cur_error_set, cur_elt, led>>

\* Mutant: the cursor stays where it is, now on the new error.
status_error_Jump(codes) ==
  /\ n_error_sets < MAX_ERROR_SETS
  /\ error_list' = Append(error_list, codes)
  /\ UNCHANGED <<status_list, cur_status_set, cur_error_set, cur_elt, led>>

status_error(codes) ==
  /\ n_error_sets < MAX_ERROR_SETS
  /\ error_list' = Append(error_list, codes)
  /\ cur_error_set' = IF InError THEN cur_error_set ELSE cur_error_set + 1
  /\ UNCHANGED <<status_list, cur_status_set, cur_elt, led>>

-----------------------------------------------------------------------------
\* As status_init() leaves it: one status, not yet on display.
StatusInit ==
  /\ status_list = <<<<1>>>> /\ cur_status_set = 1
  /\ error_list = <<>> /\ cur_error_set = 0 /\ cur_elt = 0
  /\ led = [digit |-> 15, err |-> TRUE]

StatusNext ==
  \/ status_thread
  \/ \E c \in StatusCodes : clear_status(c) \/ append_status(c)
  \/ \E c \in ErrorCodes : status_error(c)

\* status_thread wakes every 500 ms; nothing makes another thread report.
StatusSpec == StatusInit /\ [][StatusNext]_statusVars /\ WF_statusVars(status_thread)

-----------------------------------------------------------------------------
(* Properties *)

\* The cursors are on the lists or just past them, at most one list is on
\* display, and cur_elt is within the string on display: status_thread never
\* reads beyond a list or a string, whatever the others added or cleared.
CursorsOK ==
  /\ status_list \in Seq(StatusCodes) /\ error_list \in Seq(ErrorCodes)
  /\ cur_status_set \in Nat /\ cur_error_set \in Nat /\ cur_elt \in Nat
  /\ n_status_sets \in 1..MAX_STATUS_SETS /\ n_error_sets \in 0..MAX_ERROR_SETS
  /\ cur_status_set <= n_status_sets /\ cur_error_set <= n_error_sets
  /\ ~(InError /\ InStatus)
  /\ cur_elt <= IF InError THEN Len(error_list[cur_error_set + 1])
                ELSE IF InStatus THEN Len(status_list[cur_status_set + 1])
                ELSE 0

\* An error is shown from its first digit to its last without a break, however
\* the status list changes under it.
ErrorUnbroken ==
  [][InError /\ cur_elt > 0 /\ cur_elt' = 0
       => cur_elt = Len(error_list[cur_error_set + 1])]_statusVars

ShownError(c) == InError /\ error_list[cur_error_set + 1] = c /\ cur_elt = Len(c)
ShownStatus(c) == InStatus /\ status_list[cur_status_set + 1] = c /\ cur_elt = Len(c)

\* An error that has been stored is shown to its end, again and again, even if
\* statuses are cleared all the time.
ErrorsShown == \A c \in ErrorCodes : c \in Range(error_list) ~> ShownError(c)

\* A status is shown to its end, again and again, unless the list keeps being
\* cleared.
Clears == \E c \in StatusCodes : clear_status(c)
StatusesShown ==
  \A c \in StatusCodes :
    \/ []<><<Clears>>_statusVars
    \/ <>[](c \notin Range(status_list)) \/ []<>ShownStatus(c)
=============================================================================
