---------------------------- MODULE UpdateCheck ----------------------------
(***************************************************************************)
(* The update check thread: up to three attempts to ask GitHub for the     *)
(* latest release, with ten seconds before each, in which the thread can   *)
(* be stopped.                                                             *)
(***************************************************************************)
EXTENDS Naturals

VARIABLES
  update,       \* where the thread is
  retryTime,
  stop          \* the stop state of update_check_thread

vars == <<update, retryTime, stop>>

Init ==
  /\ update = "loop"
  /\ retryTime = 0
  /\ stop = FALSE

Moves(from, to) ==
  /\ update = from
  /\ update' = to
  /\ UNCHANGED stop

\* The attempts that are left; the slip allows three retries after the first.
RetriesLeft == retryTime <= 3
AttemptsLeft == retryTime < 3

Attempt ==
  /\ AttemptsLeft
  /\ Moves("loop", "waiting")
  /\ retryTime' = retryTime + 1

GiveUp == ~AttemptsLeft /\ Moves("loop", "done") /\ UNCHANGED retryTime

\* What wait_for returns, told of the stop or at the end of its ten seconds: the
\* predicate.  The slip ignores it.
NotLooked == FALSE
Stopped == stop

EndWait ==
  /\ Moves("waiting", IF Stopped THEN "done" ELSE "get")
  /\ UNCHANGED retryTime

Get == Moves("get", "http") /\ UNCHANGED retryTime

\* No result, GitHub's "message", or what is no array: another attempt.
Fails == Moves("http", "loop") /\ UNCHANGED retryTime

\* A list of releases, whether the first is this version or not.
Succeeds == Moves("http", "done") /\ UNCHANGED retryTime

\* A body that does not parse, or lacks the fields of a release (an empty list
\* does), throws: nothing of this thread runs after that.
Throws == Moves("http", "thrown") /\ UNCHANGED retryTime

RequestStop ==
  /\ ~stop
  /\ stop' = TRUE
  /\ UNCHANGED <<update, retryTime>>

UpdateStep == Attempt \/ GiveUp \/ EndWait \/ Get \/ Fails \/ Succeeds \/ Throws

Next == UpdateStep \/ RequestStop

Spec == Init /\ [][Next]_vars /\ WF_vars(UpdateStep)
-----------------------------------------------------------------------------
TypeOK ==
  /\ update \in {"loop", "waiting", "get", "http", "done", "thrown"}
  /\ retryTime \in 0..3
  /\ stop \in BOOLEAN
=============================================================================
