----------------------------- MODULE PatchQueue -----------------------------
(***************************************************************************)
(* The patch request queue of UniSequence: the EuroScope (main) thread     *)
(* hands PRequests to the patch thread through patch_request_queue and     *)
(* wakes it with patch_status_condvar; the patch thread sends them one     *)
(* after the other with the logon code it finds in logon_code_.            *)
(*                                                                         *)
(* Every step below is a stretch of code that no other thread can observe  *)
(* half done: it runs under one lock, or touches one shared variable.      *)
(*                                                                         *)
(* A logon code is the number of the .SQC save that produced it: a larger  *)
(* number is a later code, 0 is the empty string.                          *)
(***************************************************************************)
EXTENDS Naturals, Sequences

CONSTANTS StatusRequests,   \* PRequest(fp, status): PATCH .../status
          OrderRequests,    \* PRequest(fp, before): PATCH .../order
          NoRequest,        \* what pReq holds before the first pop
          MaxPushes,        \* bound: requests handed over in a behaviour
          MaxCodes          \* bound: codes saved in a behaviour

ASSUME BoundsAssumption == MaxPushes \in Nat /\ MaxCodes \in Nat

PRequest == StatusRequests \cup OrderRequests
NoCode == 0
Partial == MaxCodes + 1     \* a code string caught halfway through its assignment
Code == 0..MaxCodes

VARIABLES
  main,                 \* where the main thread is
  arg,                  \* the request it is preparing
  wanted,               \* history: the latest code that request could find
  codeFile,             \* contents of uniseq.txt
  logon_code_,
  patch_request_queue,
  worker,               \* where the patch thread is
  pReq,                 \* the request it popped last
  stop,                 \* the stop state of patch_request_thread
  pushed, asked,        \* history: requests pushed, and the code each found
  sent, used,           \* history: requests sent, and the code each carried
  lateSends             \* history: requests sent after stop was requested

mainVars == <<main, arg, wanted>>
codeVars == <<codeFile, logon_code_>>
histVars == <<pushed, asked, sent, used, lateSends>>
vars == <<mainVars, codeVars, patch_request_queue, worker, pReq, stop, histVars>>

MainStates == {"idle", "reading", "push", "notify", "joining", "destroyed"}
WorkerStates == {"loop", "pred", "gap", "blocked", "front", "send", "http", "done"}

Init ==
  /\ main = "idle"
  /\ arg = NoRequest
  /\ wanted = NoCode
  /\ codeFile \in {c \in Code : c <= 1}     \* saved in an earlier session, or never
  /\ logon_code_ = NoCode
  /\ patch_request_queue = <<>>
  /\ worker = "loop"
  /\ pReq = NoRequest
  /\ stop = FALSE
  /\ pushed = <<>> /\ asked = <<>>
  /\ sent = <<>> /\ used = <<>>
  /\ lateSends = 0
-----------------------------------------------------------------------------
(* The main thread *)

\* `infile >> logon_code_` assigns only when the file holds a word.
Readable(opened) == opened /\ codeFile # NoCode

\* What the assignment leaves in logon_code_.  The slip reads the file once only.
CodeReadOnce == IF logon_code_ = NoCode THEN codeFile ELSE logon_code_
CodeRead == codeFile

\* GetLogonCode, up to the assignment; without one, the test of an empty code.
OpenCodeFile(r) ==
  /\ main = "idle"
  /\ Len(pushed) < MaxPushes
  /\ arg' = r
  /\ \E opened \in BOOLEAN :
       \/ /\ Readable(opened)
          /\ main' = "reading"
          /\ wanted' = codeFile
       \/ /\ ~Readable(opened)
          /\ main' = IF logon_code_ = NoCode THEN "idle" ELSE "push"
          /\ wanted' = logon_code_
  /\ UNCHANGED <<codeVars, patch_request_queue, worker, pReq, stop, histVars>>

PatchAircraftStatus(r) == r \in StatusRequests /\ OpenCodeFile(r)
ReorderAircraftEditHandler(r) == r \in OrderRequests /\ OpenCodeFile(r)

\* The assignment: it holds code_lock_, which the patch thread never takes.
GetLogonCode ==
  /\ main = "reading"
  /\ logon_code_' = CodeRead
  /\ main' = "push"
  /\ UNCHANGED <<arg, wanted, codeFile, patch_request_queue, worker, pReq, stop, histVars>>

\* queue::push; the slip pushes onto a stack.
PushedOnTop(q, r) == <<r>> \o q
Pushed(q, r) == Append(q, r)

Push ==
  /\ main = "push"
  /\ patch_request_queue' = Pushed(patch_request_queue, arg)
  /\ pushed' = Append(pushed, arg)
  /\ asked' = Append(asked, wanted)
  /\ main' = "notify"
  /\ UNCHANGED <<arg, wanted, codeVars, worker, pReq, stop, sent, used, lateSends>>

\* Waking the waiter, if there is one at this moment.
Woken == IF worker = "blocked" THEN "pred" ELSE worker

NotifyAll ==
  /\ main = "notify"
  /\ worker' = Woken
  /\ main' = "idle"
  /\ UNCHANGED <<arg, wanted, codeVars, patch_request_queue, pReq, stop, histVars>>

\* .SQC; a file that cannot be opened is a step that changes nothing.
SetLogonCode ==
  /\ main = "idle"
  /\ codeFile < MaxCodes
  /\ codeFile' = codeFile + 1
  /\ UNCHANGED <<mainVars, logon_code_, patch_request_queue, worker, pReq, stop, histVars>>

\* ~UniSequence: request_stop runs the stop callback of the wait, a notify_all.
RequestStop ==
  /\ main = "idle"
  /\ stop' = TRUE
  /\ worker' = Woken
  /\ main' = "joining"
  /\ UNCHANGED <<arg, wanted, codeVars, patch_request_queue, pReq, histVars>>

Join ==
  /\ main = "joining"
  /\ worker = "done"
  /\ main' = "destroyed"
  /\ UNCHANGED <<arg, wanted, codeVars, patch_request_queue, worker, pReq, stop, histVars>>
-----------------------------------------------------------------------------
(* The patch thread *)

Moves(from, to) ==
  /\ worker = from
  /\ worker' = to
  /\ UNCHANGED <<mainVars, codeVars, patch_request_queue, pReq, stop, histVars>>

\* stoken.stop_requested(); the slip asks a default-constructed token.
EmptyToken == FALSE
stop_requested == stop

LoopTop == Moves("loop", IF stop_requested THEN "done" ELSE "pred")

\* The predicate of the wait, evaluated under patch_request_queue_lock_.  The
\* slip is the usual "work to do, or time to go".
WorkOrStop == patch_request_queue # <<>> \/ stop_requested
IsQueueing == patch_request_queue # <<>> /\ ~stop_requested

EvalPred == Moves("pred", IF IsQueueing THEN "front" ELSE "gap")

\* The wait holds the condition variable's own mutex while it looks at the stop
\* token and blocks, and so does a notify; Push does not.  When the token is set
\* the wait evaluates the predicate once more, finds it false and returns.
\* The slip is a wait that is not told of the token.
WaitUntold == FALSE
WaitStopped == stop_requested

Block == Moves("gap", IF WaitStopped THEN "loop" ELSE "blocked")

SpuriousWakeup == Moves("blocked", "pred")

\* front and pop, one critical section; the slips call pop first, or not at all.
FrontAfterPop(q) == IF Len(q) > 1 THEN q[2] ELSE NoRequest
FrontOf(q) == Head(q)
NotPopped(q) == q
Popped(q) == Tail(q)

PopFront ==
  /\ worker = "front"
  /\ patch_request_queue # <<>>     \* undefined otherwise: see NoPopOnEmpty
  /\ pReq' = FrontOf(patch_request_queue)
  /\ patch_request_queue' = Popped(patch_request_queue)
  /\ worker' = "send"
  /\ UNCHANGED <<mainVars, codeVars, stop, histVars>>

\* What an unlocked read of logon_code_ can see.  During the assignment of the
\* main thread that is a data race: the old code, the erased string, a part of
\* the new code, or the new code.
VisibleCodes ==
  IF main = "reading" THEN {logon_code_, NoCode, Partial, codeFile}
                      ELSE {logon_code_}

SendPatch ==
  /\ worker = "send"
  /\ worker' = "http"
  /\ sent' = Append(sent, pReq)
  /\ \E c \in VisibleCodes : used' = Append(used, c)
  /\ lateSends' = IF stop THEN lateSends + 1 ELSE lateSends
  /\ UNCHANGED <<mainVars, codeVars, patch_request_queue, pReq, stop, pushed, asked>>

\* Any answer or error of httplib; nothing is retried.  What a 200 does to the
\* queue cache is in module QueueCache.  The slip waits for the next notify first.
AwaitNextNotify == "gap"
AfterAnswer == "loop"
PatchReturns == Moves("http", AfterAnswer)
-----------------------------------------------------------------------------
MainStep == GetLogonCode \/ Push \/ NotifyAll \/ Join
WorkerStep == LoopTop \/ EvalPred \/ Block \/ PopFront \/ SendPatch \/ PatchReturns

Next ==
  \/ \E r \in StatusRequests : PatchAircraftStatus(r)
  \/ \E r \in OrderRequests : ReorderAircraftEditHandler(r)
  \/ SetLogonCode
  \/ RequestStop
  \/ MainStep
  \/ WorkerStep
  \/ SpuriousWakeup

\* A started handler finishes, the destructor's join returns once the thread has
\* ended, the patch thread is scheduled, and httplib's timeouts end every
\* request.  Controllers, stops and spurious wakeups are not fair.
Fairness == WF_vars(MainStep) /\ WF_vars(WorkerStep)

Spec == Init /\ [][Next]_vars /\ Fairness
-----------------------------------------------------------------------------
TypeOK ==
  /\ main \in MainStates
  /\ arg \in PRequest \cup {NoRequest}
  /\ wanted \in Code
  /\ codeFile \in Code
  /\ logon_code_ \in Code
  /\ patch_request_queue \in Seq(PRequest)
  /\ worker \in WorkerStates
  /\ pReq \in PRequest \cup {NoRequest}
  /\ stop \in BOOLEAN
  /\ pushed \in Seq(PRequest) /\ asked \in Seq(Code)
  /\ sent \in Seq(PRequest) /\ used \in Seq(Code \cup {Partial})
  /\ lateSends \in Nat

\* The request popped and not sent yet.
Held == IF worker = "send" THEN <<pReq>> ELSE <<>>

\* No request is lost, doubled or overtaken between push and send, whatever the
\* interleaving of the two threads: what was pushed is what was sent, then the
\* popped request, then the queue (lines 132-135, 331-335, 421-425).
Conservation == pushed = sent \o Held \o patch_request_queue

\* front() and pop() run after the predicate's lock was given up (line 126 to
\* 132), with no second test: the queue must still hold a request by then.
NoPopOnEmpty == worker = "front" => patch_request_queue # <<>>

\* The thread looks at its stop token only before it takes a request: after
\* ~UniSequence asked it to stop it sends the one request it was already
\* committed to, never a second one.
AtMostOneAfterStop == lateSends <= 1

\* The code is read when the request is sent, not when it is made (line 142), so
\* that it may be newer than the one the controller's call found; it is never an
\* older one, unless the read raced with an assignment and got no code at all.
NeverOlderCode ==
  \A n \in 1..Len(used) : used[n] \in {NoCode, Partial} \/ used[n] >= asked[n]

\* The queue and the two threads implement the abstract channel.
Channel == INSTANCE PatchChannel WITH
  pending <- Held \o patch_request_queue, delivered <- sent,
  closed <- stop, late <- lateSends
ImplementsChannel == Channel!Spec

\* ~UniSequence returns: no stop request is lost between the predicate and the
\* blocking of the wait, although a push can be (lines 240-245, 124).
StopLeadsToDestroyed == (main = "joining") ~> (main = "destroyed")

\* A push made while the thread is blocked releases everything pushed so far,
\* the requests whose own wakeup was lost included.
NextPushReleases ==
  \A n \in 1..MaxPushes :
    (main = "notify" /\ worker = "blocked" /\ n <= Len(pushed))
      ~> (Len(sent) >= n \/ stop)
-----------------------------------------------------------------------------
(* What the code's comments claim and the code does not keep *)

\* "deals with queue and send request sequentially" (UniSequence.cpp:130): a
\* request that was pushed is sent while the plugin runs.  A push and its
\* notify_all that fall between the predicate and the blocking of the wait wake
\* nobody, since the predicate's lock is not the lock of the wait.
EveryRequestSent ==
  \A n \in 1..MaxPushes :
    (n <= Len(pushed)) ~> (Len(sent) >= n \/ stop)
=============================================================================
