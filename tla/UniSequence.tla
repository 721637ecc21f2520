---------------------------- MODULE UniSequence ----------------------------
(***************************************************************************)
(* The plugin as a whole: the patch, the sync (with its asio) and the      *)
(* update thread around the main thread, from the constructor, which       *)
(* starts them, to the destructor, which asks each to stop and joins them. *)
(* The components' actions are those of their modules.  What is added is   *)
(* what they share: the main thread runs one handler at a time and the     *)
(* destructor last, the joins wait for each other, and an exception that   *)
(* leaves one thread ends them all.                                        *)
(***************************************************************************)
EXTENDS Naturals, Sequences, FiniteSets

CONSTANTS StatusRequests, OrderRequests, NoRequest, MaxPushes, MaxCodes,  \* PatchQueue
          Airports, MaxCommands                                           \* WsSync

ASSUME InstanceAssumption ==
  /\ MaxPushes \in Nat /\ MaxCodes \in Nat /\ MaxCommands \in Nat
  /\ IsFiniteSet(Airports)

VARIABLES
  main, arg, wanted, codeFile, logon_code_, patch_request_queue, worker, pReq,
  patchStop, pushed, asked, sent, used, lateSends,                        \* PatchQueue
  airport_list_, socket_list_, m_next_id, icao, m_status, con, sync,
  syncStop, commands,                                                     \* WsSync
  update, retryTime, updateStop,                                          \* UpdateCheck
  dtor,             \* where ~UniSequence is
  terminated,       \* std::terminate was called
  begun             \* history: operations begun since ~UniSequence was called

Patch == INSTANCE PatchQueue WITH stop <- patchStop
Ws == INSTANCE WsSync WITH stop <- syncStop
Update == INSTANCE UpdateCheck WITH stop <- updateStop

\* The operations on the network: a PATCH, an attempt of the update check, a
\* websocket connection.
Kinds == {"patch", "get", "connect"}

patchVars ==
  <<main, arg, wanted, codeFile, logon_code_, patch_request_queue, worker, pReq,
    patchStop, pushed, asked, sent, used, lateSends>>
wsVars ==
  <<airport_list_, socket_list_, m_next_id, icao, m_status, con, sync, syncStop, commands>>
updateVars == <<update, retryTime, updateStop>>
vars == <<patchVars, wsVars, updateVars, dtor, terminated, begun>>

\* The constructor: no member is touched before the threads start.
Init ==
  /\ Patch!Init /\ Ws!Init /\ Update!Init
  /\ dtor = "no"
  /\ terminated = FALSE
  /\ begun = [k \in Kinds |-> 0]
-----------------------------------------------------------------------------
(* The handlers of the main thread, each from its start to its end before the   *)
(* next one, and none after the destructor was called                           *)

OnFunctionCall ==
  /\ dtor = "no" /\ ~terminated
  /\ \/ \E r \in StatusRequests : Patch!PatchAircraftStatus(r)
     \/ \E r \in OrderRequests : Patch!ReorderAircraftEditHandler(r)
  /\ UNCHANGED <<wsVars, updateVars, dtor, terminated, begun>>

\* The rest of a handler that pushes a request.
FinishHandler ==
  /\ ~terminated
  /\ Patch!GetLogonCode \/ Patch!Push \/ Patch!NotifyAll
  /\ UNCHANGED <<wsVars, updateVars, dtor, terminated, begun>>

OnGetTagItem ==
  /\ dtor = "no" /\ main = "idle" /\ ~terminated
  /\ \E a \in Airports : Ws!AddAirportIfNotExist(a)
  /\ UNCHANGED <<patchVars, updateVars, dtor, terminated, begun>>

\* .SQA and .SQC; .SQP and .UNIS only print.
OnCompileCommand ==
  /\ dtor = "no" /\ main = "idle" /\ ~terminated
  /\ \/ \E S \in SUBSET Airports : Ws!SqaCommand(S) /\ UNCHANGED patchVars
     \/ Patch!SetLogonCode /\ UNCHANGED wsVars
  /\ UNCHANGED <<updateVars, dtor, terminated, begun>>
-----------------------------------------------------------------------------
(* ~UniSequence *)

StopSync ==
  /\ dtor = "no" /\ main = "idle" /\ ~terminated
  /\ Ws!RequestStop
  /\ dtor' = "stop_update"
  /\ UNCHANGED <<patchVars, updateVars, terminated, begun>>

StopUpdate ==
  /\ dtor = "stop_update" /\ ~terminated
  /\ Update!RequestStop
  /\ dtor' = "stop_patch"
  /\ UNCHANGED <<patchVars, wsVars, terminated, begun>>

StopPatch ==
  /\ dtor = "stop_patch" /\ ~terminated
  /\ Patch!RequestStop
  /\ dtor' = "join_sync"
  /\ UNCHANGED <<wsVars, updateVars, terminated, begun>>

JoinSync ==
  /\ dtor = "join_sync" /\ ~terminated
  /\ sync = "done"
  /\ dtor' = "join_update"
  /\ UNCHANGED <<patchVars, wsVars, updateVars, terminated, begun>>

\* The slip detaches the update thread, whose work is of no importance.
Detached == TRUE
UpdateJoined == update = "done"

JoinUpdate ==
  /\ dtor = "join_update" /\ ~terminated
  /\ UpdateJoined
  /\ dtor' = "join_patch"
  /\ UNCHANGED <<patchVars, wsVars, updateVars, terminated, begun>>

JoinPatch ==
  /\ dtor = "join_patch" /\ ~terminated
  /\ Patch!Join
  /\ dtor' = "destroyed"
  /\ UNCHANGED <<wsVars, updateVars, terminated, begun>>

Destructor == StopUpdate \/ StopPatch \/ JoinSync \/ JoinUpdate \/ JoinPatch
-----------------------------------------------------------------------------
(* The threads *)

\* From the first stop request on, n more operations of a kind were begun.
Counted(k, n) == IF dtor = "no" THEN begun ELSE [begun EXCEPT ![k] = @ + n]

PatchThread ==
  /\ ~terminated
  /\ Patch!WorkerStep
  /\ begun' = Counted("patch", Len(sent') - Len(sent))
  /\ UNCHANGED <<wsVars, updateVars, dtor, terminated>>

SpuriousWakeup ==
  /\ ~terminated
  /\ Patch!SpuriousWakeup
  /\ UNCHANGED <<wsVars, updateVars, dtor, terminated, begun>>

SyncThread ==
  /\ ~terminated
  /\ Ws!SyncStep
  /\ begun' = Counted("connect", m_next_id' - m_next_id)
  /\ UNCHANGED <<patchVars, updateVars, dtor, terminated>>

AsioThread ==
  /\ ~terminated
  /\ Ws!AsioStep
  /\ UNCHANGED <<patchVars, updateVars, dtor, terminated, begun>>

PeerCloses ==
  /\ ~terminated
  /\ \E id \in Ws!Ids : Ws!PeerCloses(id)
  /\ UNCHANGED <<patchVars, updateVars, dtor, terminated, begun>>

UpdateThread ==
  /\ ~terminated
  /\ Update!UpdateStep
  /\ terminated' = (update' = "thrown")
  /\ begun' = Counted("get", IF update' = "http" THEN 1 ELSE 0)
  /\ UNCHANGED <<patchVars, wsVars, dtor>>

\* The answer of a PATCH or a message of a connection does not parse.
SetQueueFromJsonThrows ==
  /\ ~terminated
  /\ \/ worker = "http"
     \/ \E id \in Ws!Ids : con[id] \in {"open", "closing"}
  /\ terminated' = TRUE
  /\ UNCHANGED <<patchVars, wsVars, updateVars, dtor, begun>>

MainThread == FinishHandler \/ Destructor

Next ==
  \/ OnFunctionCall \/ MainThread \/ OnGetTagItem \/ OnCompileCommand
  \/ StopSync
  \/ PatchThread \/ SpuriousWakeup
  \/ SyncThread \/ AsioThread \/ PeerCloses
  \/ UpdateThread
  \/ SetQueueFromJsonThrows

\* As in the components: what was begun on the main thread goes on, the threads are
\* scheduled, and timeouts end what the network does not.
Fairness ==
  /\ WF_vars(MainThread) /\ WF_vars(PatchThread) /\ WF_vars(UpdateThread)
  /\ WF_vars(SyncThread) /\ WF_vars(AsioThread)

Spec == Init /\ [][Next]_vars /\ Fairness
-----------------------------------------------------------------------------
TypeOK ==
  /\ Patch!TypeOK /\ Ws!TypeOK /\ Update!TypeOK
  /\ dtor \in {"no", "stop_update", "stop_patch", "join_sync", "join_update",
               "join_patch", "destroyed"}
  /\ terminated \in BOOLEAN
  /\ begun \in [Kinds -> Nat]

\* Everything of the plugin that another thread than the main one runs.
Ended ==
  /\ worker = "done" /\ sync = "done" /\ update = "done"
  /\ \A id \in Ws!Ids : con[id] = "terminated"

\* The members are destroyed after the joins (lines 243-246): by then no thread and
\* no connection is left that could touch the queue, the lists or the cache.
MembersOutliveThreads == dtor = "destroyed" => Ended

ToConnect == airport_list_ \ DOMAIN socket_list_
Joining == {"join_sync", "join_update", "join_patch"}

Phase ==
  IF terminated THEN "terminated"
  ELSE IF dtor = "no" THEN "loaded"
  ELSE IF dtor = "destroyed" THEN "unloaded"
  ELSE IF dtor \in Joining THEN "ending"
  ELSE "telling"

\* What each thread may still begin.  One that was told to stop is past its last look
\* at the stop token, or begins nothing.
DuePatch ==
  IF patchStop
  THEN IF worker \in {"front", "send"} THEN 1 ELSE 0
  ELSE Len(patch_request_queue) + (IF worker = "send" THEN 1 ELSE 0)
DueGet ==
  IF updateStop
  THEN IF update = "get" THEN 1 ELSE 0
  ELSE (3 - retryTime) + (IF update \in {"waiting", "get"} THEN 1 ELSE 0)
DueConnect ==
  IF syncStop /\ sync # "connecting" THEN 0 ELSE Cardinality(ToConnect)
Due == [patch |-> DuePatch, get |-> DueGet, connect |-> DueConnect]

\* The plugin unloads as its host is promised.  From the first stop request
\* (line 240) on, each thread begins no more than it had before it: the requests
\* handed over, the attempts left, the listed airports without a connection.
\* Whatever a thread was doing when it was told, what it may begin does not grow:
\* once all three were told (line 242), one PATCH and one GET at most, and the
\* connections of the pass under way.  When unloading has returned nothing is alive.
Host == INSTANCE Lifecycle WITH
  MaxGets <- 3, MaxConnects <- Cardinality(Airports),
  phase <- Phase, due <- Due, left <- IF Ended THEN "none" ELSE "some"
UnloadsAsPromised == Host!Spec

\* How far the unloading is from its end: what the destructor, the threads and each
\* connection still have ahead of them.
DtorLeft == [join_sync |-> 3, join_update |-> 2, join_patch |-> 1, destroyed |-> 0]
PatchLeft == [done |-> 0, loop |-> 1, gap |-> 2, http |-> 2, pred |-> 3, send |-> 3,
              blocked |-> 4, front |-> 4]
UpdateLeft == [done |-> 0, thrown |-> 0, waiting |-> 1, loop |-> 2, http |-> 3, get |-> 4]
SyncLeft == [done |-> 0, joining |-> 1, destroying |-> 2, waiting |-> 3, dropping |-> 4,
             connecting |-> 5]
ToDrop == DOMAIN socket_list_ \ airport_list_
In(states) == {id \in Ws!Ids : con[id] \in states}
Unrecorded == {id \in Ws!Ids : m_status[id] = "Connecting"}
ConsLeft ==
  Cardinality(In({"connecting"})) + Cardinality(In({"connecting", "open"}))
    + Cardinality(In({"connecting", "open", "closing"})) + Cardinality(Unrecorded)
WsLeft ==
  SyncLeft[sync] + Cardinality(ToDrop) + ConsLeft + 5 * Cardinality(ToConnect)
Left == DtorLeft[dtor] + PatchLeft[worker] + UpdateLeft[update] + WsLeft

\* Unloading is finite: once the destructor joins, every step of every thread, of
\* the library and of the servers brings it nearer to its end, or ends it.  No loop
\* of a thread runs on, and no pass opens connections that call for another.
UnloadShrinks == [][(dtor \in Joining) => terminated' \/ Left' < Left]_vars

\* The guards of the threads, of the library and of the joins.
PatchReady ==
  worker \notin {"blocked", "done"} /\ (worker = "front" => patch_request_queue # <<>>)
UpdateReady == update \notin {"done", "thrown"}
SyncReady == sync # "done" /\ (sync = "joining" => Ws!AsioIdle)
AsioReady ==
  \E id \in Ws!Ids :
    \/ con[id] = "connecting"
    \/ con[id] = "closing" /\ m_status[id] \in {"Connecting", "Open"}
DtorReady ==
  \/ dtor = "join_sync" /\ sync = "done"
  \/ dtor = "join_update" /\ UpdateJoined
  \/ dtor = "join_patch" /\ worker = "done"

\* Unloading never stops short: while the destructor joins, somebody can take a step,
\* unless all that is left waits for servers to close connections that are open.
UnloadGoesOn ==
  dtor \in Joining /\ ~terminated
    => \/ PatchReady \/ UpdateReady \/ SyncReady \/ AsioReady \/ DtorReady
       \/ \E id \in Ws!Ids : con[id] = "open"

\* A connection is all that unloading can wait for without end: neither the answer
\* of a PATCH, nor an attempt of the update check, nor a lost wakeup holds it.
OnlyConnectionsHoldUnload ==
  (dtor = "join_sync")
    ~> \/ dtor = "destroyed" \/ terminated
       \/ worker = "done" /\ update = "done" /\ \E id \in Ws!Ids : con[id] = "open"
=============================================================================
