---------------------------- MODULE BaostockClient ----------------------------
(***************************************************************************)
(* BaostockClient (file src/sources/baostock/client.py): one query at a    *)
(* time over a socket the baostock library keeps for the whole process.  A *)
(* result is read page by page; a call that fails is tried again, after a  *)
(* new login if its connection is lost.  Requests and answers carry no     *)
(* number: the client takes what comes next for the answer.                *)
(*                                                                         *)
(* A page is [query, page]; MaxPages stands for max_rows_per_result.       *)
(***************************************************************************)
EXTENDS Integers, Sequences

CONSTANTS
    Queries,
    Pages,          \* the pages the provider has for each query
    MaxPages,
    MaxAttempts,    \* max_attempts
    MaxCalls        \* bound: queries asked

ASSUME ClientAssumption ==
    /\ Pages \in [Queries -> Nat \ {0}] /\ MaxPages \in Nat
    /\ MaxAttempts \in Nat \ {0} /\ MaxCalls \in Nat

VARIABLES
    loggedIn,       \* logged_in, and with it a socket that is open
    inFlight,       \* pages the provider sends on this socket, in order
    clientAt,       \* "idle", "ensure", "login", "send", "receive", "returned", "raised"
    logins,         \* attempts of the login under way
    query,          \* the call: its query, attempts made and pages read
    tries,
    pagesRead,
    callsMade

clientVars == <<loggedIn, inFlight, clientAt, logins, query, tries, pagesRead,
                callsMade>>

ClientInit ==
    /\ loggedIn = FALSE /\ inFlight = <<>>
    /\ clientAt = "idle" /\ logins = 0
    /\ query = (CHOOSE q \in Queries : TRUE) /\ tries = 0 /\ pagesRead = <<>> /\ callsMade = 0

\* query_*: _ensure_logged_in, outside of the attempts.
Ask(q) ==
    /\ clientAt = "idle" /\ callsMade < MaxCalls
    /\ callsMade' = callsMade + 1
    /\ query' = q /\ tries' = 1 /\ pagesRead' = <<>>
    /\ logins' = 0
    /\ clientAt' = IF loggedIn THEN "send" ELSE "ensure"
    /\ UNCHANGED <<loggedIn, inFlight>>

\* The caller gets the frame or the error.
GoOn ==
    /\ clientAt \in {"returned", "raised"}
    /\ clientAt' = "idle"
    /\ UNCHANGED <<loggedIn, inFlight, logins, query, tries, pagesRead, callsMade>>

-----------------------------------------------------------------------------
(* Failures                                                                *)

\* Mutant: the session goes on.
InvalidateNothing == UNCHANGED <<loggedIn, inFlight>>

\* _invalidate_session: what is in flight on the old socket is never read.
Invalidate == loggedIn' = FALSE /\ inFlight' = <<>>

\* _call_with_retries
AttemptFails ==
    /\ pagesRead' = <<>> /\ logins' = 0
    /\ \/ /\ tries < MaxAttempts /\ tries' = tries + 1
          /\ clientAt' = IF loggedIn' THEN "send" ELSE "login"
       \/ tries >= MaxAttempts /\ clientAt' = "raised" /\ UNCHANGED tries

-----------------------------------------------------------------------------
(* login                                                                   *)

LoginSucceeds ==
    /\ clientAt \in {"ensure", "login"}
    /\ loggedIn' = TRUE /\ inFlight' = <<>>
    /\ clientAt' = "send" /\ logins' = 0
    /\ UNCHANGED <<query, tries, pagesRead, callsMade>>

\* It has attempts of its own; when they are used up, the attempt of the query has failed
\* or, before the first one, the query.
LoginFails ==
    /\ clientAt \in {"ensure", "login"}
    /\ loggedIn' = FALSE /\ inFlight' = <<>>
    /\ \/ /\ logins + 1 < MaxAttempts /\ logins' = logins + 1
          /\ UNCHANGED <<clientAt, tries, pagesRead>>
       \/ /\ logins + 1 >= MaxAttempts /\ clientAt = "ensure"
          /\ clientAt' = "raised" /\ logins' = 0
          /\ UNCHANGED <<tries, pagesRead>>
       \/ /\ logins + 1 >= MaxAttempts /\ clientAt = "login"
          /\ AttemptFails
    /\ UNCHANGED <<query, callsMade>>

-----------------------------------------------------------------------------
(* _call_once                                                              *)

\* _safe_baostock_send_msg: the next page is asked for ...
SendRequest ==
    /\ clientAt = "send"
    /\ inFlight' = Append(inFlight, [query |-> query, page |-> Len(pagesRead) + 1])
    /\ clientAt' = "receive"
    /\ UNCHANGED <<loggedIn, logins, query, tries, pagesRead, callsMade>>

\* ... and read to the end of its message; _result_to_dataframe goes on to the next one
\* until the last.
ReceivePage ==
    /\ clientAt = "receive" /\ inFlight # <<>>
    /\ Len(pagesRead) < MaxPages
    /\ pagesRead' = Append(pagesRead, Head(inFlight))
    /\ inFlight' = Tail(inFlight)
    /\ clientAt' = IF Len(pagesRead') < Pages[Head(inFlight).query] THEN "send" ELSE "returned"
    /\ UNCHANGED <<loggedIn, logins, query, tries, callsMade>>

\* More rows than max_rows_per_result, or a row of another width.
TooManyRows ==
    /\ clientAt = "receive" /\ inFlight # <<>>
    /\ Len(pagesRead) >= MaxPages
    /\ inFlight' = Tail(inFlight) /\ UNCHANGED loggedIn
    /\ AttemptFails
    /\ UNCHANGED <<query, callsMade>>

\* The time is over, the socket is closed or its data malformed: at any moment after the
\* request was sent, or while it is.
ConnectionFails ==
    /\ clientAt \in {"send", "receive"}
    /\ Invalidate /\ AttemptFails
    /\ UNCHANGED <<query, callsMade>>

\* The provider answers with an error code.
ErrorReported ==
    /\ clientAt = "receive" /\ inFlight # <<>>
    /\ inFlight' = Tail(inFlight) /\ UNCHANGED loggedIn
    /\ AttemptFails
    /\ UNCHANGED <<query, callsMade>>

\* The library stops after a full page without the next one and without an error:
\* _ensure_result_reached_terminal_page.
StopsShort ==
    /\ clientAt = "receive" /\ inFlight # <<>> /\ pagesRead # <<>>
    /\ inFlight' = Tail(inFlight) /\ UNCHANGED loggedIn
    /\ AttemptFails
    /\ UNCHANGED <<query, callsMade>>

\* logout
Logout ==
    /\ clientAt = "idle" /\ loggedIn
    /\ loggedIn' = FALSE /\ inFlight' = <<>>
    /\ UNCHANGED <<clientAt, logins, query, tries, pagesRead, callsMade>>

ClientNext ==
    \/ \E q \in Queries : Ask(q)
    \/ GoOn \/ LoginSucceeds \/ LoginFails \/ SendRequest \/ ReceivePage \/ TooManyRows
    \/ ConnectionFails \/ ErrorReported \/ StopsShort \/ Logout

ClientSpec == ClientInit /\ [][ClientNext]_clientVars

-----------------------------------------------------------------------------

\* Whatever is lost, late or cut short, and however often a call is tried again
\* (client.py:191), a frame that is returned has the pages of its own query, all of them
\* and each once: no page of an earlier attempt or of another query that comes after its
\* time is taken for the answer (line 236), and none is missing (line 143).
AnswerIsWhole ==
    clientAt = "returned" =>
        pagesRead = [n \in 1..Pages[query] |-> [query |-> query, page |-> n]]

=============================================================================
