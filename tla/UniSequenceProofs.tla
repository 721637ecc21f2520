------------------------- MODULE UniSequenceProofs -------------------------
(***************************************************************************)
(* Proofs for the plugin as a whole, for any requests, airports and        *)
(* bounds: nothing outlives the members, unloading is what a host is       *)
(* promised (module Lifecycle), and it neither stops short nor goes on     *)
(* for ever.                                                               *)
(***************************************************************************)
EXTENDS UniSequenceTypeProofs, Integers, FiniteSetTheorems

\* The patch thread ends only when it was stopped, and is joined before the members go.
PatchInv ==
  /\ worker = "done" => patchStop
  /\ patchStop <=> main \in {"joining", "destroyed"}
  /\ main = "destroyed" => worker = "done"

\* The update thread counts an attempt before it waits for it.
UpdateInv ==
  /\ retryTime \in 0..3
  /\ update \in {"waiting", "get", "http"} => retryTime >= 1

\* The sync thread ends after its connections.
SyncInv ==
  /\ m_next_id \in Nat
  /\ con \in [Ws!Ids -> Ws!ConStates]
  /\ sync = "done" => \A id \in Ws!Ids : con[id] = "terminated"

\* The destructor: whom it has asked to stop, and who has ended.  It runs between
\* handlers, so that nothing is handed over from its first request on.
DtorInv ==
  /\ dtor \in {"no", "stop_update", "stop_patch", "destroyed"} \cup Joining
  /\ syncStop <=> dtor # "no"
  /\ updateStop <=> dtor \notin {"no", "stop_update"}
  /\ patchStop <=> dtor \in Joining \cup {"destroyed"}
  /\ main = "destroyed" <=> dtor = "destroyed"
  /\ main \in {"reading", "push", "notify"} => dtor = "no"
  /\ dtor \in {"join_update", "join_patch", "destroyed"} => sync = "done"
  /\ dtor \in {"join_patch", "destroyed"} => update = "done"

IInv == PatchInv /\ UpdateInv /\ SyncInv /\ DtorInv
-----------------------------------------------------------------------------
(* The invariant, component by component *)

LEMMA HandlersOfPatch ==
  ASSUME PatchInv,
         \/ \E r : Patch!OpenCodeFile(r)
         \/ Patch!GetLogonCode \/ Patch!Push \/ Patch!NotifyAll \/ Patch!SetLogonCode
  PROVE  /\ PatchInv'
         /\ worker' = "done" <=> worker = "done"
         /\ main' \notin {"joining", "destroyed"} /\ main \notin {"joining", "destroyed"}
         /\ main' \in {"reading", "push", "notify"}
              => main \in {"idle", "reading", "push", "notify"}
         /\ UNCHANGED patchStop
BY DEF PatchInv, Patch!OpenCodeFile, Patch!GetLogonCode, Patch!Push, Patch!NotifyAll,
       Patch!SetLogonCode, Patch!Woken, Patch!histVars, Patch!mainVars, Patch!codeVars

LEMMA PatchWorks ==
  ASSUME PatchInv, Patch!WorkerStep \/ Patch!SpuriousWakeup
  PROVE  /\ PatchInv'
         /\ UNCHANGED <<main, patchStop>>
         /\ worker # "done"
BY DEF PatchInv, Patch!WorkerStep, Patch!LoopTop, Patch!EvalPred, Patch!Block, Patch!PopFront,
       Patch!SendPatch, Patch!PatchReturns, Patch!SpuriousWakeup, Patch!AfterAnswer, Patch!Moves,
       Patch!WaitStopped, Patch!stop_requested, Patch!mainVars

LEMMA UpdateWorks ==
  ASSUME UpdateInv, Update!UpdateStep
  PROVE  UpdateInv' /\ updateStop' = updateStop /\ update # "done"
BY DEF UpdateInv, Update!UpdateStep, Update!Attempt, Update!AttemptsLeft, Update!GiveUp,
       Update!EndWait, Update!Get, Update!Fails, Update!Succeeds, Update!Throws, Update!Moves

\* A connection that has terminated stays so.
LEMMA AsioWorks ==
  ASSUME SyncInv, Ws!AsioStep \/ \E id \in Ws!Ids : Ws!PeerCloses(id)
  PROVE  /\ SyncInv'
         /\ UNCHANGED <<airport_list_, socket_list_, m_next_id, sync, syncStop>>
         /\ sync # "done"
<1>1. PICK id \in Ws!Ids, state \in Ws!ConStates :
        /\ con[id] # "terminated"
        /\ con' = [con EXCEPT ![id] = state]
        /\ UNCHANGED <<airport_list_, socket_list_, m_next_id, sync, syncStop>>
  BY DEF Ws!AsioStep, Ws!HandshakeSucceeds, Ws!on_open, Ws!on_fail, Ws!CloseCompletes,
         Ws!PeerCloses, Ws!on_close, Ws!Connection, Ws!ConStates, Ws!listVars
<1>2. Ws!Ids' = Ws!Ids
  BY <1>1 DEF Ws!Ids
<1>3. sync # "done"
  BY <1>1 DEF SyncInv
<1>4. con' \in [Ws!Ids' -> Ws!ConStates]
  BY <1>1, <1>2 DEF SyncInv
<1> QED
  BY <1>1, <1>2, <1>3, <1>4 DEF SyncInv

LEMMA SyncWorks ==
  ASSUME SyncInv, Ws!SyncStep
  PROVE  SyncInv' /\ syncStop' = syncStop /\ sync # "done"
<1>1. ASSUME NEW a \in Airports, Ws!ConnectAirport(a)
      PROVE  SyncInv' /\ syncStop' = syncStop /\ sync # "done"
  <2>1. /\ m_next_id' = m_next_id + 1 /\ m_next_id \in Nat
        /\ sync = "connecting" /\ UNCHANGED <<sync, syncStop>>
    BY <1>1 DEF SyncInv, Ws!ConnectAirport, Ws!NextId
  <2>2. con' = [id \in Ws!Ids \cup {m_next_id} |->
                  IF id \in Ws!Ids THEN con[id] ELSE "connecting"]
    BY <1>1 DEF SyncInv, Ws!ConnectAirport, Ws!Insert
  <2>3. Ws!Ids' = Ws!Ids \cup {m_next_id}
    BY <2>1 DEF Ws!Ids
  <2>4. con' \in [Ws!Ids' -> Ws!ConStates]
    BY <2>2, <2>3 DEF SyncInv, Ws!ConStates
  <2> QED
    BY <2>1, <2>4 DEF SyncInv
<1>2. ASSUME UNCHANGED m_next_id PROVE Ws!Ids' = Ws!Ids
  BY <1>2 DEF Ws!Ids
<1>3. ASSUME NEW a \in Airports, Ws!DropAirport(a)
      PROVE  SyncInv' /\ syncStop' = syncStop /\ sync # "done"
  <2>1. /\ sync = "dropping" /\ UNCHANGED <<m_next_id, syncStop, sync>>
        /\ con' = [con EXCEPT ![socket_list_[a]] = Ws!Close(socket_list_[a])]
    BY <1>3 DEF Ws!DropAirport
  <2>2. con' \in [Ws!Ids -> Ws!ConStates]
    BY <2>1 DEF Ws!Close, SyncInv, Ws!ConStates
  <2> QED
    BY <1>2, <2>1, <2>2 DEF SyncInv
<1>4. ASSUME Ws!Destroy
      PROVE  SyncInv' /\ syncStop' = syncStop /\ sync # "done"
  <2>1. /\ sync = "destroying" /\ sync' = "joining"
        /\ UNCHANGED <<m_next_id, syncStop>>
        /\ con' = [id \in Ws!Ids |-> IF Ws!ToClose(id) THEN Ws!Close(id) ELSE con[id]]
    BY <1>4 DEF Ws!Destroy
  <2>2. con' \in [Ws!Ids -> Ws!ConStates]
    BY <2>1 DEF Ws!Close, SyncInv, Ws!ConStates
  <2> QED
    BY <1>2, <2>1, <2>2 DEF SyncInv
<1>5. ASSUME \/ Ws!BeginPass \/ Ws!StopSeen \/ Ws!ConnectsDone \/ Ws!DropsDone
             \/ Ws!JoinAsio
      PROVE  SyncInv' /\ syncStop' = syncStop /\ sync # "done"
  <2>1. /\ sync # "done"
        /\ sync' = "done" => \A id \in Ws!Ids : con[id] = "terminated"
        /\ UNCHANGED <<m_next_id, syncStop, con>>
    BY <1>5 DEF Ws!BeginPass, Ws!StopSeen, Ws!ConnectsDone, Ws!DropsDone, Ws!JoinAsio,
                Ws!AsioIdle, Ws!Moves, Ws!endpointVars
  <2> QED
    BY <1>2, <2>1 DEF SyncInv
<1> QED
  BY <1>1, <1>3, <1>4, <1>5 DEF Ws!SyncStep

\* What is left alone keeps its part of the invariant.
LEMMA PatchRests ==
  ASSUME PatchInv, UNCHANGED patchVars PROVE PatchInv'
BY DEF PatchInv, patchVars

LEMMA UpdateRests ==
  ASSUME UpdateInv, UNCHANGED updateVars PROVE UpdateInv'
BY DEF UpdateInv, updateVars

LEMMA SyncRests ==
  ASSUME SyncInv, UNCHANGED wsVars PROVE SyncInv'
BY DEF SyncInv, wsVars, Ws!Ids
-----------------------------------------------------------------------------
(* The invariant of the composed steps *)

LEMMA Initially == Init => IInv
<1> SUFFICES ASSUME Init PROVE IInv
  OBVIOUS
<1>1. PatchInv /\ UpdateInv
  BY DEF Init, PatchInv, UpdateInv, Patch!Init, Update!Init
<1>2. m_next_id = 0 /\ Ws!Ids = {} /\ con = <<>> /\ sync = "waiting" /\ ~syncStop
  BY DEF Init, Ws!Init, Ws!Ids
<1>3. con \in [Ws!Ids -> Ws!ConStates]
  BY <1>2
<1>4. SyncInv
  BY <1>2, <1>3 DEF SyncInv
<1>5. DtorInv
  BY <1>2 DEF Init, Patch!Init, Update!Init, DtorInv, Joining
<1> QED
  BY <1>1, <1>4, <1>5 DEF IInv

\* The handlers run before the destructor, and leave the threads where they are.
Handler == OnFunctionCall \/ FinishHandler \/ OnGetTagItem \/ OnCompileCommand

LEMMA HandlerSteps ==
  ASSUME IInv, Handler
  PROVE  /\ IInv'
         /\ dtor = "no" /\ ~terminated
         /\ UNCHANGED <<dtor, terminated, begun, Ended>>
<1> USE DEF IInv
<1>1. ASSUME \/ \E r : Patch!OpenCodeFile(r)
             \/ Patch!GetLogonCode \/ Patch!Push \/ Patch!NotifyAll \/ Patch!SetLogonCode,
             dtor = "no", UNCHANGED <<wsVars, updateVars, dtor>>
      PROVE  IInv' /\ UNCHANGED Ended
  <2>1. /\ PatchInv'
        /\ worker' = "done" <=> worker = "done"
        /\ main' \notin {"joining", "destroyed"} /\ main \notin {"joining", "destroyed"}
        /\ UNCHANGED patchStop
    BY <1>1, HandlersOfPatch
  <2>2. UpdateInv' /\ SyncInv'
    BY <1>1, UpdateRests, SyncRests
  <2>3. DtorInv'
    BY <1>1, <2>1 DEF DtorInv, wsVars, updateVars
  <2>4. UNCHANGED Ended
    BY <1>1, <2>1 DEF Ended, wsVars, updateVars, Ws!Ids
  <2> QED
    BY <2>1, <2>2, <2>3, <2>4
<1>2. ASSUME \/ \E a \in Airports : Ws!AddAirportIfNotExist(a)
             \/ \E S \in SUBSET Airports : Ws!SqaCommand(S),
             UNCHANGED <<patchVars, updateVars, dtor>>
      PROVE  IInv' /\ UNCHANGED Ended
  <2>1. UNCHANGED <<m_next_id, con, sync, syncStop>>
    BY <1>2 DEF Ws!AddAirportIfNotExist, Ws!SqaCommand, Ws!endpointVars
  <2>2. PatchInv' /\ UpdateInv'
    BY <1>2, PatchRests, UpdateRests
  <2>3. SyncInv'
    BY <2>1 DEF SyncInv, Ws!Ids
  <2>4. DtorInv'
    BY <1>2, <2>1 DEF DtorInv, patchVars, updateVars
  <2>5. UNCHANGED Ended
    BY <1>2, <2>1 DEF Ended, patchVars, updateVars, Ws!Ids
  <2> QED
    BY <2>2, <2>3, <2>4, <2>5
<1>3. CASE OnFunctionCall
  BY <1>1, <1>3 DEF OnFunctionCall, Patch!PatchAircraftStatus, Patch!ReorderAircraftEditHandler
<1>4. CASE FinishHandler
  <2>1. main \in {"reading", "push", "notify"}
    BY <1>4 DEF FinishHandler, Patch!GetLogonCode, Patch!Push, Patch!NotifyAll
  <2>2. dtor = "no"
    BY <2>1 DEF DtorInv
  <2> QED
    BY <1>1, <1>4, <2>2 DEF FinishHandler
<1>5. CASE OnGetTagItem
  BY <1>2, <1>5 DEF OnGetTagItem
<1>6. CASE OnCompileCommand
  BY <1>1, <1>2, <1>6 DEF OnCompileCommand
<1> QED
  BY <1>3, <1>4, <1>5, <1>6 DEF Handler

\* The destructor asks, waits, and leaves only when all have ended.
LEMMA DestructorSteps ==
  ASSUME IInv, StopSync \/ Destructor
  PROVE  IInv' /\ ~terminated /\ UNCHANGED <<terminated, begun, Ended>>
<1> USE DEF IInv
<1>1. CASE StopSync
  <2>1. /\ dtor = "no" /\ dtor' = "stop_update" /\ ~terminated /\ main = "idle"
        /\ syncStop' = TRUE
        /\ UNCHANGED <<patchVars, updateVars, terminated, begun>>
        /\ UNCHANGED <<m_next_id, con, sync>>
    BY <1>1 DEF StopSync, Ws!RequestStop, Ws!endpointVars
  <2>2. PatchInv' /\ UpdateInv'
    BY <2>1, PatchRests, UpdateRests
  <2>3. SyncInv'
    BY <2>1 DEF SyncInv, Ws!Ids
  <2>4. DtorInv'
    BY <2>1 DEF DtorInv, Joining, patchVars, updateVars
  <2>5. UNCHANGED Ended
    BY <2>1 DEF Ended, Ws!Ids, patchVars, updateVars
  <2> QED
    BY <2>1, <2>2, <2>3, <2>4, <2>5
<1>2. CASE StopUpdate
  <2>1. /\ dtor = "stop_update" /\ dtor' = "stop_patch" /\ ~terminated
        /\ updateStop' = TRUE
        /\ UNCHANGED <<patchVars, wsVars, terminated, begun, update, retryTime>>
    BY <1>2 DEF StopUpdate, Update!RequestStop
  <2>2. PatchInv' /\ SyncInv'
    BY <2>1, PatchRests, SyncRests
  <2>3. UpdateInv'
    BY <2>1 DEF UpdateInv
  <2>4. DtorInv'
    BY <2>1 DEF DtorInv, Joining, patchVars, wsVars
  <2>5. UNCHANGED Ended
    BY <2>1 DEF Ended, Ws!Ids, patchVars, wsVars
  <2> QED
    BY <2>1, <2>2, <2>3, <2>4, <2>5
<1>3. CASE StopPatch
  <2>1. /\ dtor = "stop_patch" /\ dtor' = "join_sync" /\ ~terminated
        /\ patchStop' = TRUE /\ main' = "joining" /\ worker' = Patch!Woken
        /\ UNCHANGED <<wsVars, updateVars, terminated, begun>>
    BY <1>3 DEF StopPatch, Patch!RequestStop
  <2>2. UpdateInv' /\ SyncInv'
    BY <2>1, UpdateRests, SyncRests
  <2>3. worker' = "done" <=> worker = "done"
    BY <2>1 DEF Patch!Woken
  <2>4. PatchInv'
    BY <2>1 DEF PatchInv
  <2>5. DtorInv'
    BY <2>1 DEF DtorInv, Joining, updateVars, wsVars
  <2>6. UNCHANGED Ended
    BY <2>1, <2>3 DEF Ended, Ws!Ids, updateVars, wsVars
  <2> QED
    BY <2>1, <2>2, <2>4, <2>5, <2>6
<1>4. ASSUME UNCHANGED <<patchVars, wsVars, updateVars>>
      PROVE  PatchInv' /\ UpdateInv' /\ SyncInv' /\ UNCHANGED Ended
  <2>1. PatchInv' /\ UpdateInv' /\ SyncInv'
    BY <1>4, PatchRests, UpdateRests, SyncRests
  <2>2. UNCHANGED Ended
    BY <1>4 DEF Ended, Ws!Ids, patchVars, updateVars, wsVars
  <2> QED
    BY <2>1, <2>2
<1>5. CASE JoinSync
  <2>1. DtorInv'
    BY <1>5 DEF JoinSync, DtorInv, Joining, patchVars, updateVars, wsVars
  <2> QED
    BY <1>4, <1>5, <2>1 DEF JoinSync
<1>6. CASE JoinUpdate
  <2>1. DtorInv'
    BY <1>6 DEF JoinUpdate, UpdateJoined, DtorInv, Joining, patchVars, updateVars, wsVars
  <2> QED
    BY <1>4, <1>6, <2>1 DEF JoinUpdate
<1>7. CASE JoinPatch
  <2>1. /\ dtor = "join_patch" /\ dtor' = "destroyed" /\ ~terminated
        /\ worker = "done" /\ main' = "destroyed"
        /\ UNCHANGED <<wsVars, updateVars, terminated, begun, worker, patchStop>>
    BY <1>7 DEF JoinPatch, Patch!Join
  <2>2. UpdateInv' /\ SyncInv'
    BY <2>1, UpdateRests, SyncRests
  <2>3. PatchInv'
    BY <2>1 DEF PatchInv, DtorInv, Joining
  <2>4. DtorInv'
    BY <2>1 DEF DtorInv, Joining, updateVars, wsVars
  <2>5. UNCHANGED Ended
    BY <2>1 DEF Ended, Ws!Ids, updateVars, wsVars
  <2> QED
    BY <2>1, <2>2, <2>3, <2>4, <2>5
<1> QED
  BY <1>1, <1>2, <1>3, <1>5, <1>6, <1>7 DEF Destructor

Threads == PatchThread \/ SpuriousWakeup \/ SyncThread \/ AsioThread \/ PeerCloses
           \/ UpdateThread \/ SetQueueFromJsonThrows

LEMMA ThreadsKeep ==
  ASSUME IInv, Threads
  PROVE  IInv' /\ dtor' = dtor /\ ~terminated /\ ~Ended
<1> USE DEF IInv
<1>1. CASE PatchThread \/ SpuriousWakeup
  <2>1. UNCHANGED <<wsVars, updateVars, dtor>> /\ ~terminated
    BY <1>1 DEF PatchThread, SpuriousWakeup
  <2>2. PatchInv' /\ UNCHANGED <<main, patchStop>> /\ worker # "done"
    BY <1>1, PatchWorks DEF PatchThread, SpuriousWakeup
  <2>3. UpdateInv' /\ SyncInv'
    BY <2>1, UpdateRests, SyncRests
  <2>4. DtorInv'
    BY <2>1, <2>2 DEF DtorInv, Joining, updateVars, wsVars
  <2> QED
    BY <2>1, <2>2, <2>3, <2>4 DEF Ended
<1>2. CASE SyncThread \/ AsioThread \/ PeerCloses
  <2>1. UNCHANGED <<patchVars, updateVars, dtor>> /\ ~terminated
    BY <1>2 DEF SyncThread, AsioThread, PeerCloses
  <2>2. SyncInv' /\ syncStop' = syncStop /\ sync # "done"
    BY <1>2, SyncWorks, AsioWorks DEF SyncThread, AsioThread, PeerCloses
  <2>3. PatchInv' /\ UpdateInv'
    BY <2>1, PatchRests, UpdateRests
  <2>4. DtorInv'
    BY <2>1, <2>2 DEF DtorInv, Joining, patchVars, updateVars
  <2> QED
    BY <2>1, <2>2, <2>3, <2>4 DEF Ended
<1>3. CASE UpdateThread
  <2>1. UNCHANGED <<patchVars, wsVars, dtor>> /\ ~terminated
    BY <1>3 DEF UpdateThread
  <2>2. UpdateInv' /\ updateStop' = updateStop /\ update # "done"
    BY <1>3, UpdateWorks DEF UpdateThread
  <2>3. PatchInv' /\ SyncInv'
    BY <2>1, PatchRests, SyncRests
  <2>4. DtorInv'
    BY <2>1, <2>2 DEF DtorInv, Joining, patchVars, wsVars
  <2> QED
    BY <2>1, <2>2, <2>3, <2>4 DEF Ended
<1>4. CASE SetQueueFromJsonThrows
  <2>1. /\ UNCHANGED <<patchVars, wsVars, updateVars, dtor>> /\ ~terminated
        /\ worker = "http" \/ \E id \in Ws!Ids : con[id] \in {"open", "closing"}
    BY <1>4 DEF SetQueueFromJsonThrows
  <2>2. PatchInv' /\ UpdateInv' /\ SyncInv'
    BY <2>1, PatchRests, UpdateRests, SyncRests
  <2>3. DtorInv'
    BY <2>1 DEF DtorInv, Joining, patchVars, wsVars, updateVars
  <2> QED
    BY <2>1, <2>2, <2>3 DEF Ended
<1> QED
  BY <1>1, <1>2, <1>3, <1>4 DEF Threads

LEMMA Step == IInv /\ [Next]_vars => IInv'
<1> SUFFICES ASSUME IInv, [Next]_vars PROVE IInv'
  OBVIOUS
<1>1. CASE Next
  BY <1>1, HandlerSteps, DestructorSteps, ThreadsKeep DEF Next, MainThread, Handler, Threads
<1>2. CASE UNCHANGED vars
  BY <1>2, PatchRests, UpdateRests, SyncRests
     DEF IInv, vars, DtorInv, patchVars, updateVars, wsVars
<1> QED
  BY <1>1, <1>2

\* The inductive invariant of the composition.
THEOREM Invariance == Spec => []IInv
BY Initially, Step, PTL DEF Spec

LEMMA DestroyedIsEnded == IInv => MembersOutliveThreads
BY DEF IInv, PatchInv, SyncInv, DtorInv, Joining, MembersOutliveThreads, Ended

\* When the destructor has joined the three threads, no thread and no connection is
\* left that could touch a member, however the stops and the answers fell.
THEOREM MembersOutlive == Spec => []MembersOutliveThreads
BY DestroyedIsEnded, Invariance, PTL
-----------------------------------------------------------------------------
(* The sets of the sockets *)

\* A finite set that only loses elements.
LEMMA Fewer ==
  ASSUME NEW S, IsFiniteSet(S), NEW T \in SUBSET S
  PROVE  /\ Cardinality(S) \in Nat /\ Cardinality(T) \in Nat
         /\ Cardinality(T) <= Cardinality(S)
         /\ T # S => Cardinality(T) < Cardinality(S)
<1>1. /\ IsFiniteSet(T) /\ Cardinality(T) <= Cardinality(S)
      /\ Cardinality(S) = Cardinality(T) => S = T
  BY FS_Subset
<1>2. Cardinality(S) \in Nat /\ Cardinality(T) \in Nat
  BY <1>1, FS_CardinalityType
<1> QED
  BY <1>1, <1>2

LEMMA WsFinite ==
  ASSUME WsTyped
  PROVE  /\ IsFiniteSet(Ws!Ids) /\ IsFiniteSet(ToDrop) /\ IsFiniteSet(ToConnect)
         /\ IsFiniteSet(Unrecorded) /\ \A S : IsFiniteSet(In(S))
<1>1. IsFiniteSet(Ws!Ids)
  BY FS_Interval DEF Ws!Ids, WsTyped, Ws!TypeOK
<1>2. ToDrop \subseteq Airports /\ ToConnect \subseteq Airports
  BY DEF ToDrop, ToConnect, WsTyped, Ws!TypeOK
<1>3. Unrecorded \subseteq Ws!Ids /\ \A S : In(S) \subseteq Ws!Ids
  BY DEF Unrecorded, In
<1> QED
  BY <1>1, <1>2, <1>3, InstanceAssumption, FS_Subset

\* What is left of the sockets is a number.
LEMMA WsCounts ==
  WsTyped => /\ Cardinality(ToDrop) \in Nat /\ Cardinality(ToConnect) \in Nat
             /\ Cardinality(Unrecorded) \in Nat /\ \A S : Cardinality(In(S)) \in Nat
             /\ ConsLeft \in Nat /\ SyncLeft[sync] \in Nat
<1> SUFFICES ASSUME WsTyped
             PROVE  /\ Cardinality(ToDrop) \in Nat /\ Cardinality(ToConnect) \in Nat
                    /\ Cardinality(Unrecorded) \in Nat /\ \A S : Cardinality(In(S)) \in Nat
                    /\ ConsLeft \in Nat /\ SyncLeft[sync] \in Nat
  OBVIOUS
<1>1. /\ Cardinality(ToDrop) \in Nat /\ Cardinality(ToConnect) \in Nat
      /\ Cardinality(Unrecorded) \in Nat /\ \A S : Cardinality(In(S)) \in Nat
  BY WsFinite, FS_CardinalityType
<1>2. SyncLeft[sync] \in Nat
  BY DEF WsTyped, Ws!TypeOK, SyncLeft
<1> QED
  BY <1>1, <1>2 DEF ConsLeft

\* The same of the state after a step.
LEMMA WsCountsAfter ==
  WsTyped' => ConsLeft' \in Nat /\ SyncLeft[sync'] \in Nat
<1>1. (WsTyped => ConsLeft \in Nat /\ SyncLeft[sync] \in Nat)'
  <2>1. WsTyped => ConsLeft \in Nat /\ SyncLeft[sync] \in Nat
    BY WsCounts
  <2> QED
    BY <2>1, PTL
<1> QED
  BY <1>1
-----------------------------------------------------------------------------
(* What may still begin *)

\* The budget is one of Lifecycle, and within its bounds.
LEMMA DueBounds ==
  Typed /\ IInv
    => /\ DuePatch \in Nat /\ DueGet \in 0..3
       /\ DueConnect \in Nat /\ DueConnect <= Cardinality(Airports)
<1> SUFFICES ASSUME Typed, IInv
             PROVE  /\ DuePatch \in Nat /\ DueGet \in 0..3
                    /\ DueConnect \in Nat /\ DueConnect <= Cardinality(Airports)
  OBVIOUS
<1>1. DuePatch \in Nat
  <2>1. Len(patch_request_queue) \in Nat
    BY LenProperties DEF Typed, PatchTyped, Patch!TypeOK
  <2> QED
    BY <2>1 DEF DuePatch
<1>2. DueGet \in 0..3
  BY DEF IInv, UpdateInv, DueGet
<1>3. /\ Cardinality(ToConnect) \in Nat /\ Cardinality(Airports) \in Nat
      /\ Cardinality(ToConnect) <= Cardinality(Airports)
  <2>1. ToConnect \in SUBSET Airports
    BY DEF ToConnect, Typed, WsTyped, Ws!TypeOK
  <2> QED
    BY <2>1, InstanceAssumption, Fewer
<1> QED
  BY <1>1, <1>2, <1>3 DEF DueConnect

LEMMA DueIsBudget == Typed /\ IInv => Due \in Host!Budgets
<1>1. ASSUME Typed, IInv PROVE Due \in Host!Budgets
  <2>1. DuePatch \in Nat /\ DueGet \in Nat /\ DueConnect \in Nat
    BY <1>1, DueBounds
  <2> QED
    BY <2>1 DEF Due, Host!Budgets, Host!Kinds
<1> QED
  BY <1>1

LEMMA DueIsBudgetAfter == Typed' /\ IInv' => Due' \in Host!Budgets
<1>1. (Typed /\ IInv => Due \in Host!Budgets)'
  BY DueIsBudget, PTL
<1> QED
  BY <1>1 DEF Host!Budgets, Host!Kinds

LEMMA DueBoundsAfter ==
  Typed' /\ IInv' => DuePatch' \in Nat /\ DueGet' \in Nat /\ DueConnect' \in Nat
<1>1. (Typed /\ IInv => /\ DuePatch \in Nat /\ DueGet \in 0..3
                        /\ DueConnect \in Nat /\ DueConnect <= Cardinality(Airports))'
  BY DueBounds, PTL
<1> QED
  BY <1>1

LEMMA DueParts ==
  /\ Due["patch"] = DuePatch /\ Due["get"] = DueGet /\ Due["connect"] = DueConnect
  /\ Due'["patch"] = DuePatch' /\ Due'["get"] = DueGet' /\ Due'["connect"] = DueConnect'
BY DEF Due

\* No kind of operation gets more.
LEMMA Lowered ==
  ASSUME Typed', IInv',
         DuePatch' <= DuePatch, DueGet' <= DueGet, DueConnect' <= DueConnect
  PROVE  Host!NotRaised
BY DueIsBudgetAfter, DueParts DEF Host!NotRaised, Host!Kinds

\* Where a component rests, so does its part of the budget.
LEMMA DueRests ==
  /\ UNCHANGED patchVars => DuePatch' = DuePatch
  /\ UNCHANGED updateVars => DueGet' = DueGet
  /\ UNCHANGED wsVars => DueConnect' = DueConnect
<1>1. UNCHANGED patchVars => DuePatch' = DuePatch
  BY DEF patchVars, DuePatch
<1>2. UNCHANGED updateVars => DueGet' = DueGet
  BY DEF updateVars, DueGet
<1>3. ASSUME UNCHANGED wsVars PROVE DueConnect' = DueConnect
  <2>1. ToConnect' = ToConnect /\ UNCHANGED <<syncStop, sync>>
    BY <1>3 DEF wsVars, ToConnect
  <2> QED
    BY <2>1 DEF DueConnect
<1> QED
  BY <1>1, <1>2, <1>3

\* Each request that is sent was due; a thread that was told takes no other.
LEMMA PatchDue ==
  ASSUME PatchTyped, Patch!WorkerStep \/ Patch!SpuriousWakeup
  PROVE  \/ Len(sent') - Len(sent) = 0 /\ DuePatch' <= DuePatch
         \/ Len(sent') - Len(sent) = 1 /\ DuePatch' < DuePatch /\ worker' # "done"
<1>1. /\ Len(patch_request_queue) \in Nat /\ Len(sent) \in Nat /\ sent \in Seq(Patch!PRequest)
      /\ patch_request_queue \in Seq(Patch!PRequest) /\ patchStop \in BOOLEAN
  BY LenProperties DEF PatchTyped, Patch!TypeOK
<1>2. CASE Patch!SendPatch
  <2>1. /\ worker = "send" /\ worker' = "http" /\ UNCHANGED <<patch_request_queue, patchStop>>
        /\ sent' = Append(sent, pReq) /\ pReq \in Patch!PRequest
    BY <1>2 DEF Patch!SendPatch, PatchTyped
  <2>2. Len(sent') = Len(sent) + 1
    BY <1>1, <2>1, AppendProperties
  <2>3. DuePatch' < DuePatch
    BY <1>1, <2>1 DEF DuePatch
  <2> QED
    BY <1>1, <2>1, <2>2, <2>3
<1>3. CASE Patch!PopFront
  <2>1. /\ worker = "front" /\ worker' = "send" /\ UNCHANGED <<patchStop, sent>>
        /\ patch_request_queue # <<>> /\ patch_request_queue' = Tail(patch_request_queue)
    BY <1>3 DEF Patch!PopFront, Patch!Popped, Patch!histVars
  <2>2. Len(patch_request_queue') = Len(patch_request_queue) - 1
    BY <1>1, <2>1, HeadTailProperties
  <2>3. DuePatch' <= DuePatch
    BY <1>1, <2>1, <2>2 DEF DuePatch
  <2> QED
    BY <1>1, <2>1, <2>3
<1>4. ASSUME NEW from \in Patch!WorkerStates \ {"send", "front"},
             NEW to \in Patch!WorkerStates \ {"send"}, Patch!Moves(from, to),
             to = "front" => ~patchStop
      PROVE  Len(sent') - Len(sent) = 0 /\ DuePatch' <= DuePatch
  <2>1. /\ UNCHANGED <<patch_request_queue, patchStop, sent>>
        /\ worker \notin {"send", "front"} /\ worker' # "send"
        /\ worker' = "front" => ~patchStop
    BY <1>4 DEF Patch!Moves, Patch!histVars
  <2> QED
    BY <1>1, <2>1 DEF DuePatch
<1>5. CASE \/ Patch!LoopTop \/ Patch!EvalPred \/ Patch!Block \/ Patch!PatchReturns
           \/ Patch!SpuriousWakeup
  <2> USE DEF Patch!WorkerStates
  <2>1. CASE Patch!LoopTop
    BY <1>4, <2>1 DEF Patch!LoopTop
  <2>2. CASE Patch!EvalPred
    BY <1>4, <2>2 DEF Patch!EvalPred, Patch!IsQueueing, Patch!stop_requested
  <2>3. CASE Patch!Block
    BY <1>4, <2>3 DEF Patch!Block
  <2>4. CASE Patch!PatchReturns
    BY <1>4, <2>4 DEF Patch!PatchReturns, Patch!AfterAnswer
  <2>5. CASE Patch!SpuriousWakeup
    BY <1>4, <2>5 DEF Patch!SpuriousWakeup
  <2> QED
    BY <1>5, <2>1, <2>2, <2>3, <2>4, <2>5
<1> QED
  BY <1>2, <1>3, <1>5 DEF Patch!WorkerStep

\* Each GET is an attempt that was due; the wait before it looks at the stop token.
LEMMA UpdateDue ==
  ASSUME UpdateInv, Update!UpdateStep
  PROVE  /\ DueGet' <= DueGet
         /\ update' = "http" => DueGet' < DueGet
         /\ update' = "thrown" => DueGet' = DueGet
<1>1. retryTime \in 0..3
  BY DEF UpdateInv
<1>2. CASE Update!Attempt
  <2>1. /\ update = "loop" /\ update' = "waiting" /\ retryTime' = retryTime + 1
        /\ updateStop' = updateStop
    BY <1>2 DEF Update!Attempt, Update!Moves
  <2> QED
    BY <1>1, <2>1 DEF DueGet
<1>3. CASE Update!EndWait
  <2>1. /\ update = "waiting" /\ update' = IF updateStop THEN "done" ELSE "get"
        /\ UNCHANGED <<retryTime, updateStop>>
    BY <1>3 DEF Update!EndWait, Update!Stopped, Update!Moves
  <2> QED
    BY <1>1, <2>1 DEF DueGet
<1>4. CASE Update!Get
  <2>1. update = "get" /\ update' = "http" /\ UNCHANGED <<retryTime, updateStop>>
    BY <1>4 DEF Update!Get, Update!Moves
  <2> QED
    BY <1>1, <2>1 DEF DueGet
<1>5. CASE Update!GiveUp \/ Update!Fails \/ Update!Succeeds \/ Update!Throws
  <2>1. /\ update \in {"loop", "http"} /\ update' \in {"loop", "done", "thrown"}
        /\ UNCHANGED <<retryTime, updateStop>>
    BY <1>5 DEF Update!GiveUp, Update!Fails, Update!Succeeds, Update!Throws, Update!Moves
  <2> QED
    BY <1>1, <2>1 DEF DueGet
<1> QED
  BY <1>2, <1>3, <1>4, <1>5 DEF Update!UpdateStep

\* Each connection of a stopped sync thread is of an airport that had none.
LEMMA SyncDue ==
  ASSUME WsTyped, syncStop, Ws!SyncStep
  PROVE  \/ m_next_id' - m_next_id = 0 /\ DueConnect' <= DueConnect
         \/ m_next_id' - m_next_id = 1 /\ DueConnect' < DueConnect /\ sync' # "done"
<1>1. m_next_id \in Nat /\ Cardinality(ToConnect) \in Nat
  BY WsCounts DEF WsTyped, Ws!TypeOK
<1>2. ASSUME NEW a \in Airports, Ws!ConnectAirport(a)
      PROVE  m_next_id' - m_next_id = 1 /\ DueConnect' < DueConnect /\ sync' # "done"
  <2>1. /\ sync = "connecting" /\ UNCHANGED <<sync, syncStop, airport_list_>>
        /\ m_next_id' = m_next_id + 1
        /\ a \in ToConnect
        /\ DOMAIN socket_list_' = DOMAIN socket_list_ \cup {a}
    BY <1>2 DEF Ws!ConnectAirport, Ws!Unserved, Ws!Insert, Ws!NextId, Ws!listVars, ToConnect
  <2>2. ToConnect' = ToConnect \ {a}
    BY <2>1 DEF ToConnect
  <2>3. Cardinality(ToConnect') = Cardinality(ToConnect) - 1
    BY <2>1, <2>2, WsFinite, FS_RemoveElement
  <2> QED
    BY <1>1, <2>1, <2>3 DEF DueConnect
<1>3. ASSUME NEW a \in Airports, Ws!DropAirport(a)
      PROVE  m_next_id' - m_next_id = 0 /\ DueConnect' <= DueConnect
  BY <1>1, <1>3 DEF Ws!DropAirport, DueConnect
<1>4. ASSUME \/ Ws!BeginPass \/ Ws!StopSeen \/ Ws!ConnectsDone \/ Ws!DropsDone
             \/ Ws!Destroy \/ Ws!JoinAsio
      PROVE  m_next_id' - m_next_id = 0 /\ DueConnect' <= DueConnect
  <2>1. sync' # "connecting" /\ UNCHANGED <<m_next_id, syncStop>>
    BY <1>4 DEF Ws!BeginPass, Ws!StopSeen, Ws!ConnectsDone, Ws!DropsDone, Ws!Destroy,
       Ws!JoinAsio, Ws!Moves, Ws!endpointVars
  <2> QED
    BY <1>1, <2>1 DEF DueConnect
<1> QED
  BY <1>2, <1>3, <1>4 DEF Ws!SyncStep
-----------------------------------------------------------------------------
(* The plugin implements Lifecycle *)

LEMMA CountedNone ==
  ASSUME DtorTyped, NEW k \in Kinds, begun' = Counted(k, 0) PROVE UNCHANGED begun
BY DEF DtorTyped, Counted

\* One operation of one kind begins, out of the budget; or none does, and the budget
\* does not grow; or the thread throws.  Before the unloading it is not looked at.
BeginsOne ==
  /\ ~terminated' /\ dtor # "no" /\ ~Ended' /\ Host!NotRaised
  /\ \E k \in Host!Kinds : begun' = [begun EXCEPT ![k] = @ + 1] /\ Due'[k] < Due[k]
BeginsNone == ~terminated' /\ UNCHANGED begun /\ (dtor # "no" => Host!NotRaised)
Throws == terminated' /\ UNCHANGED <<Due, begun>> /\ ~Ended'

LEMMA ThreadSteps ==
  ASSUME Typed, IInv, Typed', IInv', Threads
  PROVE  BeginsOne \/ BeginsNone \/ Throws
<1> USE DEF Typed
<1>0. /\ DuePatch \in Nat /\ DueGet \in Nat /\ DueConnect \in Nat
      /\ "patch" \in Kinds /\ "get" \in Kinds /\ "connect" \in Kinds
  BY DueBounds DEF Kinds
<1>1. CASE PatchThread \/ SpuriousWakeup
  <2>1. UNCHANGED <<wsVars, updateVars, terminated>> /\ ~terminated
    BY <1>1 DEF PatchThread, SpuriousWakeup
  <2>2. DueGet' = DueGet /\ DueConnect' = DueConnect
    BY <2>1, DueRests
  <2>3. CASE SpuriousWakeup
    <3>1. UNCHANGED begun /\ Patch!SpuriousWakeup /\ UNCHANGED sent
      BY <2>3 DEF SpuriousWakeup, Patch!SpuriousWakeup, Patch!Moves, Patch!histVars
    <3>2. Len(sent) \in Nat
      BY LenProperties DEF PatchTyped, Patch!TypeOK
    <3>3. DuePatch' <= DuePatch
      BY <3>1, <3>2, PatchDue
    <3> QED
      BY <1>0, <2>1, <2>2, <3>1, <3>3, Lowered DEF BeginsNone
  <2>4. CASE PatchThread
    <3>1. begun' = Counted("patch", Len(sent') - Len(sent)) /\ Patch!WorkerStep
      BY <2>4 DEF PatchThread
    <3>2. CASE Len(sent') - Len(sent) = 0 /\ DuePatch' <= DuePatch
      <4>1. UNCHANGED begun
        BY <1>0, <3>1, <3>2, CountedNone
      <4> QED
        BY <1>0, <2>1, <2>2, <3>2, <4>1, Lowered DEF BeginsNone
    <3>3. CASE Len(sent') - Len(sent) = 1 /\ DuePatch' < DuePatch /\ worker' # "done"
      <4>1. begun' = Counted("patch", 1) /\ ~Ended'
        BY <3>1, <3>3 DEF Ended
      <4>2. DuePatch' <= DuePatch /\ DueGet' <= DueGet /\ DueConnect' <= DueConnect
        BY <1>0, <2>2, <3>3, DueBoundsAfter
      <4>3. Host!NotRaised
        BY <4>2, Lowered
      <4> QED
        BY <2>1, <3>3, <4>1, <4>3, DueParts DEF BeginsOne, BeginsNone, Counted, Host!Kinds
    <3> QED
      BY <3>1, <3>2, <3>3, PatchDue
  <2> QED
    BY <1>1, <2>3, <2>4
<1>2. CASE SyncThread
  <2>1. /\ UNCHANGED <<patchVars, updateVars, terminated>> /\ ~terminated
        /\ begun' = Counted("connect", m_next_id' - m_next_id) /\ Ws!SyncStep
    BY <1>2 DEF SyncThread
  <2>2. DuePatch' = DuePatch /\ DueGet' = DueGet
    BY <2>1, DueRests
  <2>3. CASE dtor = "no"
    BY <2>1, <2>3 DEF BeginsNone, Counted
  <2>4. CASE dtor # "no"
    <3>1. syncStop
      BY <2>4 DEF IInv, DtorInv
    <3>2. CASE m_next_id' - m_next_id = 0 /\ DueConnect' <= DueConnect
      <4>1. UNCHANGED begun
        BY <1>0, <2>1, <3>2, CountedNone
      <4> QED
        BY <1>0, <2>1, <2>2, <3>2, <4>1, Lowered DEF BeginsNone
    <3>3. CASE m_next_id' - m_next_id = 1 /\ DueConnect' < DueConnect /\ sync' # "done"
      <4>1. begun' = Counted("connect", 1) /\ ~Ended'
        BY <2>1, <3>3 DEF Ended
      <4>2. DuePatch' <= DuePatch /\ DueGet' <= DueGet /\ DueConnect' <= DueConnect
        BY <1>0, <2>2, <3>3, DueBoundsAfter
      <4>3. Host!NotRaised
        BY <4>2, Lowered
      <4> QED
        BY <2>1, <2>4, <3>3, <4>1, <4>3, DueParts DEF BeginsOne, Counted, Host!Kinds
    <3> QED
      BY <2>1, <3>1, <3>2, <3>3, SyncDue
  <2> QED
    BY <2>3, <2>4
<1>3. CASE AsioThread \/ PeerCloses
  <2>1. /\ UNCHANGED <<patchVars, updateVars, terminated, begun>> /\ ~terminated
        /\ UNCHANGED <<airport_list_, socket_list_, sync, syncStop>>
    BY <1>3, AsioWorks DEF AsioThread, PeerCloses, IInv
  <2>2. DuePatch' = DuePatch /\ DueGet' = DueGet /\ DueConnect' = DueConnect
    BY <2>1, DueRests DEF DueConnect, ToConnect
  <2> QED
    BY <1>0, <2>1, <2>2, Lowered DEF BeginsNone
<1>4. CASE UpdateThread
  <2>1. /\ UNCHANGED <<patchVars, wsVars>> /\ ~terminated
        /\ terminated' = (update' = "thrown") /\ Update!UpdateStep
        /\ begun' = Counted("get", IF update' = "http" THEN 1 ELSE 0)
    BY <1>4 DEF UpdateThread
  <2>2. DuePatch' = DuePatch /\ DueConnect' = DueConnect
    BY <2>1, DueRests
  <2>3. /\ DueGet' <= DueGet
        /\ update' = "http" => DueGet' < DueGet
        /\ update' = "thrown" => DueGet' = DueGet
    BY <2>1, UpdateDue DEF IInv
  <2>4. Host!NotRaised
    BY <1>0, <2>2, <2>3, Lowered
  <2>5. CASE update' = "http"
    <3>1. begun' = Counted("get", 1) /\ ~Ended' /\ ~terminated' /\ DueGet' < DueGet
      BY <2>1, <2>3, <2>5 DEF Ended
    <3> QED
      BY <2>4, <3>1, DueParts DEF BeginsOne, BeginsNone, Counted, Host!Kinds
  <2>6. CASE update' # "http"
    <3>1. UNCHANGED begun
      BY <1>0, <2>1, <2>6, CountedNone
    <3>2. CASE update' = "thrown"
      BY <2>1, <2>2, <2>3, <3>1, <3>2 DEF Throws, Ended, Due
    <3>3. CASE update' # "thrown"
      BY <2>1, <2>4, <3>1, <3>3 DEF BeginsNone
    <3> QED
      BY <3>2, <3>3
  <2> QED
    BY <2>5, <2>6
<1>5. CASE SetQueueFromJsonThrows
  <2>1. UNCHANGED <<patchVars, wsVars, updateVars, dtor, begun>> /\ terminated'
    BY <1>5 DEF SetQueueFromJsonThrows
  <2>2. ~Ended'
    <3>1. ~Ended
      BY <1>5, ThreadsKeep DEF Threads
    <3> QED
      BY <2>1, <3>1 DEF Ended, Ws!Ids, patchVars, wsVars, updateVars
  <2>3. UNCHANGED Due
    BY <2>1, DueRests DEF Due
  <2> QED
    BY <2>1, <2>2, <2>3 DEF Throws
<1> QED
  BY <1>1, <1>2, <1>3, <1>4, <1>5 DEF Threads

\* The destructor's own steps: the first asks for the unloading, the third has told
\* everybody, the last one returns.
LEMMA DestructorIsHost ==
  ASSUME Typed, IInv, Typed', IInv', StopSync \/ Destructor
  PROVE  [Host!Next]_Host!vars
<1>0. /\ DuePatch \in Nat /\ DueGet \in 0..3 /\ DueConnect \in Nat
      /\ DueConnect <= Cardinality(Airports)
  BY DueBounds
<1>1. ~terminated /\ UNCHANGED <<terminated, begun, Ended>>
  BY DestructorSteps
<1>2. CASE StopSync
  <2>1. /\ dtor = "no" /\ dtor' = "stop_update" /\ syncStop' = TRUE
        /\ UNCHANGED <<patchVars, updateVars, airport_list_, socket_list_, sync>>
    BY <1>2 DEF StopSync, Ws!RequestStop, Ws!listVars
  <2>2. DuePatch' = DuePatch /\ DueGet' = DueGet
    BY <2>1, DueRests
  <2>3. Cardinality(ToConnect) \in Nat /\ ToConnect' = ToConnect /\ ~syncStop
    BY <2>1, WsCounts DEF Typed, ToConnect, IInv, DtorInv
  <2>4. DueConnect' <= DueConnect /\ DueConnect' <= Cardinality(Airports)
    <3>1. DueConnect = Cardinality(ToConnect)
      BY <2>3 DEF DueConnect
    <3>2. DueConnect' = IF sync # "connecting" THEN 0 ELSE Cardinality(ToConnect)
      BY <2>1, <2>3 DEF DueConnect
    <3>3. Cardinality(Airports) \in Nat
      BY InstanceAssumption, FS_CardinalityType
    <3> QED
      BY <1>0, <3>1, <3>2, <3>3
  <2>5. Host!NotRaised /\ Due'["get"] <= 3 /\ Due'["connect"] <= Cardinality(Airports)
    BY <1>0, <2>2, <2>4, DueParts, Lowered
  <2>6. Phase = "loaded" /\ Phase' = "telling"
    BY <1>1, <2>1 DEF Phase, Joining
  <2> QED
    BY <1>1, <2>5, <2>6 DEF Host!Next, Host!RequestUnload
<1>3. CASE StopUpdate
  <2>1. /\ dtor = "stop_update" /\ dtor' = "stop_patch" /\ updateStop' = TRUE
        /\ UNCHANGED <<patchVars, wsVars, update, retryTime>> /\ ~updateStop
    BY <1>3 DEF StopUpdate, Update!RequestStop
  <2>2. DuePatch' = DuePatch /\ DueConnect' = DueConnect
    BY <2>1, DueRests
  <2>3. DueGet' <= DueGet
    BY <2>1 DEF DueGet, IInv, UpdateInv
  <2>4. Host!NotRaised
    BY <1>0, <2>2, <2>3, Lowered
  <2>5. Phase = "telling" /\ Phase' = "telling"
    BY <1>1, <2>1 DEF Phase, Joining
  <2> QED
    BY <1>1, <2>4, <2>5 DEF Host!Next, Host!GiveUpOperations
<1>4. CASE StopPatch
  <2>1. /\ dtor = "stop_patch" /\ dtor' = "join_sync" /\ patchStop' = TRUE
        /\ worker' = Patch!Woken /\ UNCHANGED <<wsVars, updateVars, patch_request_queue>>
    BY <1>4 DEF StopPatch, Patch!RequestStop
  <2>2. DueGet' = DueGet /\ DueConnect' = DueConnect
    BY <2>1, DueRests
  <2>3. updateStop /\ ~patchStop
    BY <2>1 DEF IInv, DtorInv, Joining
  <2>4. DueGet <= 1
    BY <2>3 DEF DueGet
  <2>5. DuePatch' <= 1 /\ DuePatch' <= DuePatch
    <3>1. Len(patch_request_queue) \in Nat
      BY LenProperties DEF Typed, PatchTyped, Patch!TypeOK
    <3>2. worker = "front" => Len(patch_request_queue) >= 1
      BY <3>1, EmptySeq DEF Typed, PatchTyped, Patch!TypeOK
    <3>3. /\ worker' = "front" => worker = "front"
          /\ worker' = "send" => worker = "send"
      BY <2>1 DEF Patch!Woken
    <3> QED
      BY <2>1, <2>3, <3>1, <3>2, <3>3 DEF DuePatch
  <2>6. Host!NotRaised /\ Due'["patch"] <= 1 /\ Due'["get"] <= 1
    BY <1>0, <2>2, <2>4, <2>5, DueParts, Lowered
  <2>7. Phase = "telling" /\ Phase' = "ending"
    BY <1>1, <2>1 DEF Phase, Joining
  <2> QED
    BY <1>1, <2>6, <2>7 DEF Host!Next, Host!AllTold
<1>5. CASE JoinSync \/ JoinUpdate
  <2>1. /\ UNCHANGED <<patchVars, wsVars, updateVars>>
        /\ dtor \in Joining /\ dtor' \in Joining
    BY <1>5 DEF JoinSync, JoinUpdate, Joining
  <2>2. UNCHANGED Due
    BY <2>1, DueRests DEF Due
  <2>3. UNCHANGED Phase
    BY <1>1, <2>1 DEF Phase, Joining
  <2> QED
    BY <1>1, <2>2, <2>3 DEF Host!vars
<1>6. CASE JoinPatch
  <2>1. /\ dtor = "join_patch" /\ dtor' = "destroyed"
        /\ UNCHANGED <<wsVars, updateVars, worker, patchStop, patch_request_queue>>
    BY <1>6 DEF JoinPatch, Patch!Join
  <2>2. UNCHANGED Due
    BY <2>1, DueRests DEF Due, DuePatch
  <2>3. Phase = "ending" /\ Phase' = "unloaded"
    BY <1>1, <2>1 DEF Phase, Joining
  <2>4. Ended
    BY <1>1, <2>1, DestroyedIsEnded DEF IInv, DtorInv, PatchInv, SyncInv, Ended, JoinPatch,
       Patch!Join
  <2> QED
    BY <1>1, <2>2, <2>3, <2>4 DEF Host!Next, Host!Unloaded
<1> QED
  BY <1>2, <1>3, <1>4, <1>5, <1>6 DEF Destructor

\* The refinement, one step: what is begun, given up, ends or throws in a thread is a
\* step of Lifecycle, and so is what the destructor does.
LEMMA HostStep ==
  Typed /\ IInv /\ Typed' /\ IInv' /\ [Next]_vars => [Host!Next]_Host!vars
<1> SUFFICES ASSUME Typed, IInv, Typed', IInv', [Next]_vars PROVE [Host!Next]_Host!vars
  OBVIOUS
<1>1. CASE Handler
  <2>1. dtor = "no" /\ ~terminated /\ UNCHANGED <<dtor, terminated, begun, Ended>>
    BY <1>1, HandlerSteps
  <2>2. Phase = "loaded" /\ Phase' = "loaded"
    BY <2>1 DEF Phase
  <2> QED
    BY <2>1, <2>2, DueIsBudgetAfter DEF Host!Next, Host!Run
<1>2. CASE StopSync \/ Destructor
  BY <1>2, DestructorIsHost
<1>3. CASE Threads
  <2>1. dtor' = dtor /\ ~terminated /\ ~Ended
    BY <1>3, ThreadsKeep
  <2>2. dtor # "destroyed"
    BY <2>1, DestroyedIsEnded DEF MembersOutliveThreads
  <2>3. Phase \in {"loaded", "telling", "ending"} /\ (Phase = "loaded" <=> dtor = "no")
    BY <2>1, <2>2 DEF Phase
  <2>4. ~terminated' => Phase' = Phase
    BY <2>1 DEF Phase
  <2>5. Ended' => Phase = "ending"
    <3>1. Ended' => patchStop'
      BY DEF Ended, IInv, PatchInv
    <3>2. patchStop' => dtor \in Joining
      BY <2>1, <2>2 DEF IInv, DtorInv
    <3>3. dtor \in Joining => Phase = "ending"
      BY <2>1 DEF Phase, Joining
    <3> QED
      BY <3>1, <3>2, <3>3
  <2>6. CASE BeginsOne
    BY <2>1, <2>3, <2>4, <2>6 DEF BeginsOne, Host!Next, Host!BeginOperation
  <2>7. CASE BeginsNone /\ dtor = "no"
    BY <2>1, <2>3, <2>4, <2>5, <2>7, DueIsBudgetAfter DEF BeginsNone, Host!Next, Host!Run
  <2>8. CASE BeginsNone /\ dtor # "no" /\ ~Ended'
    BY <2>1, <2>3, <2>4, <2>8 DEF BeginsNone, Host!Next, Host!GiveUpOperations
  <2>9. CASE BeginsNone /\ dtor # "no" /\ Ended'
    BY <2>1, <2>3, <2>4, <2>5, <2>9 DEF BeginsNone, Host!Next, Host!LastEnds
  <2>10. CASE Throws
    <3>1. Phase' = "terminated"
      BY <2>10 DEF Throws, Phase
    <3> QED
      BY <2>1, <2>3, <2>10, <3>1 DEF Throws, Host!Next, Host!Terminate
  <2> QED
    BY <1>3, <2>6, <2>7, <2>8, <2>9, <2>10, ThreadSteps
<1>4. CASE UNCHANGED vars
  <2>1. UNCHANGED <<patchVars, wsVars, updateVars, dtor, terminated, begun>>
    BY <1>4 DEF vars
  <2>2. UNCHANGED Due
    BY <2>1, DueRests DEF Due
  <2>3. UNCHANGED <<Phase, Ended>>
    BY <2>1 DEF Phase, Ended, patchVars, updateVars, wsVars, Ws!Ids
  <2> QED
    BY <2>1, <2>2, <2>3 DEF Host!vars
<1> QED
  BY <1>1, <1>2, <1>3, <1>4 DEF Next, MainThread, Handler, Threads

LEMMA HostInit == Init => Host!Init
<1> SUFFICES ASSUME Init PROVE Host!Init
  OBVIOUS
<1>1. Due \in Host!Budgets
  BY TypedInit, Initially, DueIsBudget
<1>2. Phase = "loaded" /\ ~Ended
  BY DEF Init, Patch!Init, Phase, Ended
<1>3. begun = [k \in Host!Kinds |-> 0]
  BY DEF Init, Kinds, Host!Kinds
<1> QED
  BY <1>1, <1>2, <1>3 DEF Host!Init

LEMMA Typeds == Spec => []Typed
BY TypedInit, TypedStep, PTL DEF Spec

\* The plugin implements Lifecycle: for any requests, airports and bounds, from the
\* first stop request on each operation that begins is one of a budget (the requests
\* handed over, the attempts left, the airports to connect) that nobody raises; of it
\* one PATCH and one GET at most are left when all threads were told; and nothing is
\* alive when the unloading has returned.
THEOREM UnloadingAsPromised == Spec => UnloadsAsPromised
<1>1. Init /\ [][Next]_vars /\ []IInv /\ []Typed => Host!Init /\ [][Host!Next]_Host!vars
  BY HostInit, HostStep, PTL
<1> QED
  BY <1>1, Invariance, Typeds, PTL DEF Spec, UnloadsAsPromised, Host!Spec
-----------------------------------------------------------------------------
(* Unloading never stops short *)

\* Nobody is left waiting: a stopped patch thread is not blocked, the update check
\* that threw took the program with it, and a connection that has not ended is one
\* whose opening is still to be recorded, or was.
Unstuck ==
  /\ patchStop => worker # "blocked"
  /\ update = "thrown" => terminated
  /\ \A id \in Ws!Ids : con[id] # "terminated" => m_status[id] \in {"Connecting", "Open"}

UInv == Typed /\ IInv /\ Unstuck

\* The stop request wakes the patch thread, which does not block again.
LEMMA StoppedIsAwake ==
  ASSUME patchStop => worker # "blocked", [Patch!Next]_(Patch!vars)
  PROVE  patchStop' => worker' # "blocked"
<1>1. CASE \E r : Patch!OpenCodeFile(r)
  BY <1>1 DEF Patch!OpenCodeFile
<1>2. CASE Patch!GetLogonCode \/ Patch!Push \/ Patch!NotifyAll \/ Patch!SetLogonCode
  BY <1>2 DEF Patch!GetLogonCode, Patch!Push, Patch!NotifyAll, Patch!SetLogonCode, Patch!Woken
<1>3. CASE Patch!RequestStop \/ Patch!Join
  BY <1>3 DEF Patch!RequestStop, Patch!Join, Patch!Woken
<1>4. CASE Patch!WorkerStep \/ Patch!SpuriousWakeup
  BY <1>4 DEF Patch!WorkerStep, Patch!SpuriousWakeup, Patch!LoopTop, Patch!EvalPred, Patch!Block,
     Patch!PopFront, Patch!SendPatch, Patch!PatchReturns, Patch!Moves, Patch!WaitStopped,
     Patch!stop_requested, Patch!AfterAnswer
<1>5. CASE UNCHANGED Patch!vars
  BY <1>5 DEF Patch!vars
<1> QED
  BY <1>1, <1>2, <1>3, <1>4, <1>5 DEF Patch!Next, Patch!MainStep, Patch!PatchAircraftStatus,
     Patch!ReorderAircraftEditHandler

\* What throws in the update thread ends the program in the same step.
LEMMA ThrownIsTerminated ==
  ASSUME update = "thrown" => terminated, [Next]_vars
  PROVE  update' = "thrown" => terminated'
<1>1. CASE UpdateThread
  BY <1>1 DEF UpdateThread
<1>2. CASE OnFunctionCall \/ FinishHandler \/ OnGetTagItem \/ OnCompileCommand
  BY <1>2 DEF OnFunctionCall, FinishHandler, OnGetTagItem, OnCompileCommand, updateVars
<1>3. CASE StopSync \/ Destructor
  BY <1>3 DEF StopSync, Destructor, StopUpdate, StopPatch, JoinSync, JoinUpdate, JoinPatch,
     Update!RequestStop, updateVars
<1>4. CASE PatchThread \/ SpuriousWakeup \/ SyncThread \/ AsioThread \/ PeerCloses
  BY <1>4 DEF PatchThread, SpuriousWakeup, SyncThread, AsioThread, PeerCloses, updateVars
<1>5. CASE SetQueueFromJsonThrows
  BY <1>5 DEF SetQueueFromJsonThrows
<1>6. CASE UNCHANGED vars
  BY <1>6 DEF vars, updateVars
<1> QED
  BY <1>1, <1>2, <1>3, <1>4, <1>5, <1>6 DEF Next, MainThread

\* The handlers record the end of a connection in the step that ends it.
LEMMA AliveIsRecorded ==
  ASSUME WsTyped, [Ws!Next]_(Ws!vars),
         \A id \in Ws!Ids : con[id] # "terminated" => m_status[id] \in {"Connecting", "Open"}
  PROVE  (\A id \in Ws!Ids : con[id] # "terminated" => m_status[id] \in {"Connecting", "Open"})'
<1> DEFINE Recorded ==
      \A id \in Ws!Ids : con[id] # "terminated" => m_status[id] \in {"Connecting", "Open"}
<1>0. /\ con \in [Ws!Ids -> Ws!ConStates] /\ m_status \in [Ws!Ids -> Ws!Statuses]
      /\ m_next_id \in Nat
  BY DEF WsTyped, Ws!TypeOK
<1>1. ASSUME NEW a \in Airports, Ws!ConnectAirport(a) PROVE Recorded'
  <2>1. m_next_id' = m_next_id + 1
    BY <1>1, ConnectTypes
  <2>2. Ws!Ids' = Ws!Ids \cup {m_next_id} /\ m_next_id \notin Ws!Ids
    BY <1>0, <2>1 DEF Ws!Ids
  <2>3. /\ m_status' = [id \in Ws!Ids' |->
                          IF id \in Ws!Ids THEN m_status[id] ELSE "Connecting"]
        /\ con' = [id \in Ws!Ids' |-> IF id \in Ws!Ids THEN con[id] ELSE "connecting"]
    BY <1>0, <1>1, <2>2 DEF Ws!ConnectAirport, Ws!Insert
  <2> QED
    BY <2>2, <2>3
<1>2. ASSUME NEW a \in Airports, Ws!DropAirport(a) PROVE Recorded'
  <2>1. socket_list_[a] \in Ws!Ids
    BY <1>2 DEF Ws!DropAirport, Ws!Dropped, WsTyped, Ws!SocketsResolve
  <2>2. con' = [con EXCEPT ![socket_list_[a]] = Ws!Close(socket_list_[a])]
        /\ UNCHANGED <<m_next_id, m_status>>
    BY <1>2 DEF Ws!DropAirport
  <2> QED
    BY <1>0, <2>1, <2>2 DEF Ws!Close, Ws!Ids
<1>3. CASE Ws!Destroy
  BY <1>0, <1>3 DEF Ws!Destroy, Ws!Close, Ws!Ids
<1>4. ASSUME NEW i \in Ws!Ids,
             \/ Ws!HandshakeSucceeds(i) \/ Ws!on_open(i) \/ Ws!on_fail(i)
             \/ Ws!CloseCompletes(i) \/ Ws!PeerCloses(i)
      PROVE  Recorded'
  BY <1>0, <1>4 DEF Ws!HandshakeSucceeds, Ws!on_open, Ws!on_fail, Ws!on_close,
     Ws!CloseCompletes, Ws!PeerCloses, Ws!Connection, Ws!Ids
<1>5. ASSUME UNCHANGED <<m_next_id, m_status, con>> PROVE Recorded'
  BY <1>5 DEF Ws!Ids
<1>6. CASE \/ Ws!BeginPass \/ Ws!StopSeen \/ Ws!ConnectsDone \/ Ws!DropsDone \/ Ws!JoinAsio
           \/ Ws!RequestStop \/ UNCHANGED Ws!vars
  BY <1>5, <1>6 DEF Ws!BeginPass, Ws!StopSeen, Ws!ConnectsDone, Ws!DropsDone, Ws!JoinAsio,
     Ws!RequestStop, Ws!Moves, Ws!vars, Ws!endpointVars
<1>7. CASE \/ \E a \in Airports : Ws!AddAirportIfNotExist(a)
           \/ \E S \in SUBSET Airports : Ws!SqaCommand(S)
  BY <1>5, <1>7 DEF Ws!AddAirportIfNotExist, Ws!SqaCommand, Ws!endpointVars
<1> QED
  BY <1>1, <1>2, <1>3, <1>4, <1>6, <1>7 DEF Ws!Next, Ws!SyncStep, Ws!AsioStep

LEMMA UnstuckStep == UInv /\ [Next]_vars => UInv'
<1> SUFFICES ASSUME UInv, [Next]_vars PROVE UInv'
  OBVIOUS
<1>1. Typed' /\ IInv'
  BY TypedStep, Step DEF UInv
<1>2. patchStop' => worker' # "blocked"
  BY StoppedIsAwake, StepsOfComponents DEF UInv, Unstuck
<1>3. update' = "thrown" => terminated'
  BY ThrownIsTerminated DEF UInv, Unstuck
<1>4. (\A id \in Ws!Ids : con[id] # "terminated" => m_status[id] \in {"Connecting", "Open"})'
  BY AliveIsRecorded, StepsOfComponents DEF UInv, Unstuck, Typed
<1> QED
  BY <1>1, <1>2, <1>3, <1>4 DEF UInv, Unstuck

LEMMA UnstuckInit == Init => UInv
<1> SUFFICES ASSUME Init PROVE UInv
  OBVIOUS
<1>1. Unstuck
  BY DEF Init, Patch!Init, Ws!Init, Update!Init, Unstuck, Ws!Ids
<1> QED
  BY <1>1, TypedInit, Initially DEF UInv

LEMMA Unstucks == Spec => []UInv
BY UnstuckInit, UnstuckStep, PTL DEF Spec

\* While the destructor joins, some thread, the library or the join itself can take
\* a step, unless all that is left waits for servers to close open connections: no
\* wakeup is lost, and no thread waits for one that is joined later.
THEOREM NeverStopsShort == Spec => []UnloadGoesOn
<1>1. UInv => UnloadGoesOn
  <2> SUFFICES ASSUME UInv, dtor \in Joining, ~terminated,
                      ~PatchReady, ~UpdateReady, ~SyncReady, ~AsioReady,
                      \A id \in Ws!Ids : con[id] # "open"
               PROVE  DtorReady
    BY DEF UnloadGoesOn
  <2>1. worker = "done"
    BY DEF UInv, Typed, PatchTyped, Unstuck, IInv, DtorInv, PatchReady
  <2>2. update = "done"
    BY DEF UInv, Unstuck, UpdateReady
  <2>3. Ws!AsioIdle
    <3> SUFFICES ASSUME NEW id \in Ws!Ids PROVE con[id] = "terminated"
      BY DEF Ws!AsioIdle
    <3>1. con[id] \in Ws!ConStates
      BY DEF UInv, IInv, SyncInv
    <3>2. con[id] # "terminated" => m_status[id] \in {"Connecting", "Open"}
      BY DEF UInv, Unstuck
    <3> QED
      BY <3>1, <3>2 DEF AsioReady, Ws!ConStates
  <2>4. sync = "done"
    BY <2>3 DEF SyncReady
  <2> QED
    BY <2>1, <2>2, <2>4 DEF DtorReady, UpdateJoined, Joining
<1> QED
  BY <1>1, Unstucks, PTL
-----------------------------------------------------------------------------
(* Unloading is finite *)

\* A new connection has four steps ahead of it, and its airport is served.
LEMMA ConnectShrinks ==
  ASSUME WsTyped, WsTyped', NEW a \in Airports, Ws!ConnectAirport(a)
  PROVE  WsLeft' < WsLeft
<1>1. m_next_id' = m_next_id + 1 /\ m_next_id \in Nat
  BY ConnectTypes DEF WsTyped, Ws!TypeOK
<1>2. Ws!Ids' = Ws!Ids \cup {m_next_id} /\ m_next_id \notin Ws!Ids
  BY <1>1 DEF Ws!Ids
<1>3. /\ m_status' = [id \in Ws!Ids' |-> IF id \in Ws!Ids THEN m_status[id] ELSE "Connecting"]
      /\ con' = [id \in Ws!Ids' |-> IF id \in Ws!Ids THEN con[id] ELSE "connecting"]
  BY <1>2 DEF Ws!ConnectAirport, Ws!Insert, WsTyped, Ws!TypeOK
<1>4. /\ Unrecorded' = Unrecorded \cup {m_next_id} /\ m_next_id \notin Unrecorded
  BY <1>2, <1>3 DEF Unrecorded
<1>5. ASSUME NEW S, "connecting" \in S
      PROVE  /\ {id \in Ws!Ids' : con'[id] \in S} = In(S) \cup {m_next_id}
             /\ m_next_id \notin In(S)
  BY <1>2, <1>3, <1>5 DEF In
<1>6. /\ In({"connecting"})' = In({"connecting"}) \cup {m_next_id}
      /\ In({"connecting", "open"})' = In({"connecting", "open"}) \cup {m_next_id}
      /\ In({"connecting", "open", "closing"})'
           = In({"connecting", "open", "closing"}) \cup {m_next_id}
      /\ m_next_id \notin In({"connecting"}) /\ m_next_id \notin In({"connecting", "open"})
      /\ m_next_id \notin In({"connecting", "open", "closing"})
  BY <1>5 DEF In
<1>7. ConsLeft' = ConsLeft + 4
  <2>1. /\ Cardinality(Unrecorded') = Cardinality(Unrecorded) + 1
        /\ Cardinality(In({"connecting"})') = Cardinality(In({"connecting"})) + 1
        /\ Cardinality(In({"connecting", "open"})')
             = Cardinality(In({"connecting", "open"})) + 1
        /\ Cardinality(In({"connecting", "open", "closing"})')
             = Cardinality(In({"connecting", "open", "closing"})) + 1
    BY <1>4, <1>6, WsFinite, FS_AddElement
  <2>2. /\ Cardinality(Unrecorded) \in Nat /\ Cardinality(In({"connecting"})) \in Nat
        /\ Cardinality(In({"connecting", "open"})) \in Nat
        /\ Cardinality(In({"connecting", "open", "closing"})) \in Nat
    BY WsCounts
  <2> QED
    BY <2>1, <2>2 DEF ConsLeft
<1>8. /\ DOMAIN socket_list_' = DOMAIN socket_list_ \cup {a}
      /\ a \in airport_list_ /\ a \notin DOMAIN socket_list_
      /\ UNCHANGED <<airport_list_, sync>>
  BY DEF Ws!ConnectAirport, Ws!Unserved, Ws!Insert, Ws!listVars
<1>9. ToDrop' = ToDrop /\ ToConnect' = ToConnect \ {a} /\ a \in ToConnect
  BY <1>8 DEF ToDrop, ToConnect
<1>10. Cardinality(ToConnect') = Cardinality(ToConnect) - 1
  BY <1>9, WsFinite, FS_RemoveElement
<1>11. Cardinality(ToDrop') = Cardinality(ToDrop) /\ SyncLeft[sync'] = SyncLeft[sync]
  BY <1>8, <1>9
<1>12. /\ Cardinality(ToDrop) \in Nat /\ Cardinality(ToConnect) \in Nat
       /\ ConsLeft \in Nat /\ SyncLeft[sync] \in Nat
  BY WsCounts
<1> QED
  BY <1>7, <1>10, <1>11, <1>12 DEF WsLeft

\* The lists stay, and no connection moves but forwards.
Forwards ==
  /\ UNCHANGED m_next_id
  /\ \A id \in Ws!Ids :
       /\ \/ con'[id] = con[id]
          \/ con'[id] = "open" /\ con[id] = "connecting"
          \/ con'[id] = "closing" /\ con[id] \in {"connecting", "open"}
          \/ con'[id] = "terminated"
       /\ m_status'[id] = "Connecting" => m_status[id] = "Connecting"

LEMMA ForwardsKeeps ==
  ASSUME WsTyped, WsTyped', Forwards
  PROVE  /\ ConsLeft' <= ConsLeft
         /\ (\E id \in Ws!Ids : \/ con'[id] # con[id]
                                \/ m_status[id] = "Connecting" /\ m_status'[id] # "Connecting")
              => ConsLeft' < ConsLeft
<1> DEFINE A == In({"connecting"})
           B == In({"connecting", "open"})
           C == In({"connecting", "open", "closing"})
<1>0. Ws!Ids' = Ws!Ids
  BY DEF Forwards, Ws!Ids
<1>1. A' \subseteq A /\ B' \subseteq B /\ C' \subseteq C /\ Unrecorded' \subseteq Unrecorded
  BY <1>0 DEF Forwards, In, Unrecorded
<1>2. ASSUME NEW id \in Ws!Ids, con'[id] # con[id]
      PROVE  A' # A \/ B' # B \/ C' # C
  <2>1. con[id] \in Ws!ConStates
    BY DEF WsTyped, Ws!TypeOK
  <2>2. CASE con[id] = "connecting"
    <3>1. id \in A /\ id \notin A'
      BY <1>0, <1>2, <2>2 DEF Forwards, In
    <3> QED
      BY <3>1
  <2>3. CASE con[id] = "open"
    <3>1. id \in B /\ id \notin B'
      BY <1>0, <1>2, <2>3 DEF Forwards, In
    <3> QED
      BY <3>1
  <2>4. CASE con[id] = "closing"
    <3>1. id \in C /\ id \notin C'
      BY <1>0, <1>2, <2>4 DEF Forwards, In
    <3> QED
      BY <3>1
  <2>5. con[id] # "terminated"
    BY <1>2 DEF Forwards
  <2> QED
    BY <2>1, <2>2, <2>3, <2>4, <2>5 DEF Ws!ConStates
<1>3. ASSUME NEW id \in Ws!Ids, m_status[id] = "Connecting", m_status'[id] # "Connecting"
      PROVE  Unrecorded' # Unrecorded
  BY <1>0, <1>3 DEF Unrecorded
<1>4. /\ IsFiniteSet(A) /\ IsFiniteSet(B) /\ IsFiniteSet(C) /\ IsFiniteSet(Unrecorded)
  BY WsFinite
<1>5. /\ Cardinality(A) \in Nat /\ Cardinality(A') \in Nat /\ Cardinality(A') <= Cardinality(A)
      /\ A' # A => Cardinality(A') < Cardinality(A)
  BY <1>1, <1>4, Fewer
<1>6. /\ Cardinality(B) \in Nat /\ Cardinality(B') \in Nat /\ Cardinality(B') <= Cardinality(B)
      /\ B' # B => Cardinality(B') < Cardinality(B)
  BY <1>1, <1>4, Fewer
<1>7. /\ Cardinality(C) \in Nat /\ Cardinality(C') \in Nat /\ Cardinality(C') <= Cardinality(C)
      /\ C' # C => Cardinality(C') < Cardinality(C)
  BY <1>1, <1>4, Fewer
<1>8. /\ Cardinality(Unrecorded) \in Nat /\ Cardinality(Unrecorded') \in Nat
      /\ Cardinality(Unrecorded') <= Cardinality(Unrecorded)
      /\ Unrecorded' # Unrecorded => Cardinality(Unrecorded') < Cardinality(Unrecorded)
  BY <1>1, <1>4, Fewer
<1>9. /\ ConsLeft = Cardinality(A) + Cardinality(B) + Cardinality(C) + Cardinality(Unrecorded)
      /\ ConsLeft' = Cardinality(A') + Cardinality(B') + Cardinality(C')
                       + Cardinality(Unrecorded')
  BY DEF ConsLeft
<1> HIDE DEF A, B, C
<1>10. ConsLeft' <= ConsLeft
  BY <1>5, <1>6, <1>7, <1>8, <1>9
<1>11. ASSUME A' # A \/ B' # B \/ C' # C \/ Unrecorded' # Unrecorded
       PROVE  ConsLeft' < ConsLeft
  BY <1>5, <1>6, <1>7, <1>8, <1>9, <1>11
<1> QED
  BY <1>2, <1>3, <1>10, <1>11

\* A dropped airport leaves the socket list, and its connection is closed at most.
LEMMA DropShrinks ==
  ASSUME WsTyped, WsTyped', NEW a \in Airports, Ws!DropAirport(a)
  PROVE  WsLeft' < WsLeft
<1>1. socket_list_[a] \in Ws!Ids
  BY DEF Ws!DropAirport, Ws!Dropped, WsTyped, Ws!SocketsResolve
<1>2. Forwards
  BY <1>1 DEF Ws!DropAirport, Ws!Close, Forwards, WsTyped, Ws!TypeOK
<1>3. ConsLeft' <= ConsLeft
  BY <1>2, ForwardsKeeps
<1>4. /\ DOMAIN socket_list_' = DOMAIN socket_list_ \ {a}
      /\ a \in DOMAIN socket_list_ /\ a \notin airport_list_
      /\ UNCHANGED <<airport_list_, sync>>
  BY DEF Ws!DropAirport, Ws!Dropped, Ws!listVars
<1>5. ToConnect' = ToConnect /\ ToDrop' = ToDrop \ {a} /\ a \in ToDrop
  BY <1>4 DEF ToDrop, ToConnect
<1>6. Cardinality(ToDrop') = Cardinality(ToDrop) - 1
  BY <1>5, WsFinite, FS_RemoveElement
<1>7. Cardinality(ToConnect') = Cardinality(ToConnect) /\ SyncLeft[sync'] = SyncLeft[sync]
  BY <1>4, <1>5
<1>8. /\ Cardinality(ToDrop) \in Nat /\ Cardinality(ToConnect) \in Nat
      /\ ConsLeft \in Nat /\ ConsLeft' \in Nat /\ SyncLeft[sync] \in Nat
  BY WsCounts, WsCountsAfter
<1> QED
  BY <1>3, <1>6, <1>7, <1>8 DEF WsLeft

\* A step of the sync thread that brings it forwards in its pass, or out of it.
LEMMA SyncShrinks ==
  ASSUME WsTyped, WsTyped', Forwards, UNCHANGED <<airport_list_, socket_list_>>,
         SyncLeft[sync'] < SyncLeft[sync]
  PROVE  WsLeft' < WsLeft
<1>1. ToConnect' = ToConnect /\ ToDrop' = ToDrop
  BY DEF ToDrop, ToConnect
<1>2. Cardinality(ToConnect') = Cardinality(ToConnect) /\ Cardinality(ToDrop') = Cardinality(ToDrop)
  BY <1>1
<1>3. ConsLeft' <= ConsLeft
  BY ForwardsKeeps
<1>4. /\ Cardinality(ToDrop) \in Nat /\ Cardinality(ToConnect) \in Nat
      /\ ConsLeft \in Nat /\ SyncLeft[sync] \in Nat
  BY WsCounts
<1>5. ConsLeft' \in Nat /\ SyncLeft[sync'] \in Nat
  BY WsCountsAfter
<1> QED
  BY <1>2, <1>3, <1>4, <1>5 DEF WsLeft

\* A step of the library, of a handler or of a server.
LEMMA ConnectionShrinks ==
  ASSUME WsTyped, WsTyped', NEW id \in Ws!Ids,
         \/ Ws!HandshakeSucceeds(id) \/ Ws!on_open(id) \/ Ws!on_fail(id)
         \/ Ws!CloseCompletes(id) \/ Ws!PeerCloses(id)
  PROVE  WsLeft' < WsLeft
<1> USE DEF Ws!HandshakeSucceeds, Ws!on_open, Ws!on_fail, Ws!on_close, Ws!CloseCompletes,
            Ws!PeerCloses, Ws!Connection
<1>1. con \in [Ws!Ids -> Ws!ConStates] /\ m_status \in [Ws!Ids -> Ws!Statuses]
  BY DEF WsTyped, Ws!TypeOK
<1>2. Forwards
  BY <1>1 DEF Forwards
<1>3. \/ con'[id] # con[id]
      \/ m_status[id] = "Connecting" /\ m_status'[id] # "Connecting"
  BY <1>1
<1>4. ConsLeft' < ConsLeft
  BY <1>2, <1>3, ForwardsKeeps
<1>5. UNCHANGED <<airport_list_, socket_list_, sync>>
  BY DEF Ws!listVars
<1>6. ToConnect' = ToConnect /\ ToDrop' = ToDrop /\ SyncLeft[sync'] = SyncLeft[sync]
  BY <1>5 DEF ToDrop, ToConnect
<1>7. Cardinality(ToConnect') = Cardinality(ToConnect) /\ Cardinality(ToDrop') = Cardinality(ToDrop)
  BY <1>6
<1>8. /\ Cardinality(ToDrop) \in Nat /\ Cardinality(ToConnect) \in Nat
      /\ ConsLeft \in Nat /\ SyncLeft[sync] \in Nat
  BY WsCounts
<1>9. ConsLeft' \in Nat
  BY WsCountsAfter
<1> QED
  BY <1>4, <1>6, <1>7, <1>8, <1>9 DEF WsLeft

\* Nobody waits for a thread whose stop was not requested.
LEMMA WsShrinks ==
  ASSUME WsTyped, WsTyped', syncStop,
         \/ Ws!SyncStep \/ Ws!AsioStep \/ \E id \in Ws!Ids : Ws!PeerCloses(id)
  PROVE  WsLeft' < WsLeft
<1>1. ASSUME NEW from, NEW to, Ws!Moves(from, to), SyncLeft[to] < SyncLeft[from]
      PROVE  WsLeft' < WsLeft
  <2>1. Forwards /\ UNCHANGED <<airport_list_, socket_list_>>
    BY <1>1 DEF Ws!Moves, Ws!listVars, Ws!endpointVars, Forwards
  <2> QED
    BY <1>1, <2>1, SyncShrinks DEF Ws!Moves
<1>2. CASE Ws!BeginPass \/ Ws!StopSeen \/ Ws!ConnectsDone \/ Ws!DropsDone \/ Ws!JoinAsio
  <2>1. /\ SyncLeft["destroying"] < SyncLeft["waiting"]
        /\ SyncLeft["dropping"] < SyncLeft["connecting"]
        /\ SyncLeft["waiting"] < SyncLeft["dropping"]
        /\ SyncLeft["done"] < SyncLeft["joining"]
    BY DEF SyncLeft
  <2> QED
    BY <1>1, <1>2, <2>1 DEF Ws!BeginPass, Ws!StopSeen, Ws!ConnectsDone, Ws!DropsDone,
       Ws!JoinAsio
<1>3. CASE Ws!Destroy
  <2>1. Forwards
    BY <1>3 DEF Ws!Destroy, Ws!Close, Forwards
  <2>2. SyncLeft[sync'] < SyncLeft[sync] /\ UNCHANGED <<airport_list_, socket_list_>>
    BY <1>3 DEF Ws!Destroy, Ws!listVars, SyncLeft
  <2> QED
    BY <2>1, <2>2, SyncShrinks
<1>4. CASE \E a \in Airports : Ws!ConnectAirport(a) \/ Ws!DropAirport(a)
  BY <1>4, ConnectShrinks, DropShrinks
<1>5. CASE Ws!AsioStep \/ \E id \in Ws!Ids : Ws!PeerCloses(id)
  BY <1>5, ConnectionShrinks DEF Ws!AsioStep
<1> QED
  BY <1>2, <1>3, <1>4, <1>5 DEF Ws!SyncStep

LEMMA PatchShrinks ==
  ASSUME patchStop, Patch!WorkerStep \/ Patch!SpuriousWakeup
  PROVE  PatchLeft[worker'] < PatchLeft[worker]
<1>1. /\ PatchLeft["done"] = 0 /\ PatchLeft["loop"] = 1 /\ PatchLeft["gap"] = 2
      /\ PatchLeft["http"] = 2 /\ PatchLeft["pred"] = 3 /\ PatchLeft["send"] = 3
      /\ PatchLeft["blocked"] = 4 /\ PatchLeft["front"] = 4
  BY DEF PatchLeft
<1>2. \/ worker = "loop" /\ worker' = "done"
      \/ worker = "pred" /\ worker' = "gap"
      \/ worker = "gap" /\ worker' = "loop"
      \/ worker = "front" /\ worker' = "send"
      \/ worker = "send" /\ worker' = "http"
      \/ worker = "http" /\ worker' = "loop"
      \/ worker = "blocked" /\ worker' = "pred"
  BY DEF Patch!WorkerStep, Patch!SpuriousWakeup, Patch!LoopTop, Patch!EvalPred, Patch!Block,
     Patch!PopFront, Patch!SendPatch, Patch!PatchReturns, Patch!Moves, Patch!WaitStopped,
     Patch!stop_requested, Patch!IsQueueing, Patch!AfterAnswer
<1> QED
  BY <1>1, <1>2

LEMMA UpdateShrinks ==
  ASSUME updateStop, Update!UpdateStep
  PROVE  UpdateLeft[update'] < UpdateLeft[update]
<1>1. /\ UpdateLeft["done"] = 0 /\ UpdateLeft["thrown"] = 0 /\ UpdateLeft["waiting"] = 1
      /\ UpdateLeft["loop"] = 2 /\ UpdateLeft["http"] = 3 /\ UpdateLeft["get"] = 4
  BY DEF UpdateLeft
<1>2. \/ update = "loop" /\ update' \in {"waiting", "done"}
      \/ update = "waiting" /\ update' = "done"
      \/ update = "get" /\ update' = "http"
      \/ update = "http" /\ update' \in {"loop", "done", "thrown"}
  BY DEF Update!UpdateStep, Update!Attempt, Update!GiveUp, Update!EndWait, Update!Get,
     Update!Fails, Update!Succeeds, Update!Throws, Update!Moves, Update!Stopped
<1> QED
  BY <1>1, <1>2

\* Each summand is a number.
LEMMA LeftCounts ==
  ASSUME Typed, dtor \in Joining
  PROVE  /\ DtorLeft[dtor] \in Nat /\ PatchLeft[worker] \in Nat
         /\ UpdateLeft[update] \in Nat /\ WsLeft \in Nat
<1>1. DtorLeft[dtor] \in Nat
  BY DEF DtorLeft, Joining
<1>2. PatchLeft[worker] \in Nat
  BY DEF Typed, PatchTyped, Patch!TypeOK, Patch!WorkerStates, PatchLeft
<1>3. UpdateLeft[update] \in Nat
  BY DEF Typed, Update!TypeOK, UpdateLeft
<1>4. WsLeft \in Nat
  BY WsCounts DEF Typed, WsLeft
<1> QED
  BY <1>1, <1>2, <1>3, <1>4

LEMMA LeftCountsAfter ==
  Typed' => /\ PatchLeft[worker'] \in Nat /\ UpdateLeft[update'] \in Nat /\ WsLeft' \in Nat
<1>1. (Typed => /\ PatchLeft[worker] \in Nat /\ UpdateLeft[update] \in Nat
                /\ WsLeft \in Nat)'
  <2>1. Typed => PatchLeft[worker] \in Nat
    BY DEF Typed, PatchTyped, Patch!TypeOK, Patch!WorkerStates, PatchLeft
  <2>2. Typed => UpdateLeft[update] \in Nat
    BY DEF Typed, Update!TypeOK, UpdateLeft
  <2>3. Typed => WsLeft \in Nat
    BY WsCounts DEF Typed, WsLeft
  <2>4. Typed => PatchLeft[worker] \in Nat /\ UpdateLeft[update] \in Nat /\ WsLeft \in Nat
    BY <2>1, <2>2, <2>3
  <2> QED
    BY <2>4, PTL
<1> QED
  BY <1>1

LEMMA SameWsLeft == UNCHANGED wsVars => UNCHANGED WsLeft
BY DEF wsVars, WsLeft, ConsLeft, ToDrop, ToConnect, In, Unrecorded, Ws!Ids

LEMMA LeftShrinks ==
  ASSUME UInv, UInv', Next, dtor \in Joining
  PROVE  terminated' \/ Left' < Left
<1>1. updateStop /\ syncStop /\ patchStop
  BY DEF UInv, IInv, DtorInv, Joining
<1>2. main \in {"joining", "destroyed"}
  BY <1>1 DEF UInv, IInv, PatchInv
<1>3. /\ DtorLeft[dtor] \in Nat /\ PatchLeft[worker] \in Nat
      /\ UpdateLeft[update] \in Nat /\ WsLeft \in Nat
  BY LeftCounts DEF UInv
<1>4. PatchLeft[worker'] \in Nat /\ UpdateLeft[update'] \in Nat /\ WsLeft' \in Nat
  BY LeftCountsAfter DEF UInv
<1>5. ~(OnFunctionCall \/ OnGetTagItem \/ OnCompileCommand \/ StopSync \/ StopUpdate \/ StopPatch)
  BY DEF Joining, OnFunctionCall, OnGetTagItem, OnCompileCommand, StopSync, StopUpdate,
     StopPatch
<1>6. ~FinishHandler
  BY <1>2, HandlersOfPatch DEF FinishHandler, UInv, IInv
<1>7. CASE JoinSync \/ JoinUpdate \/ JoinPatch
  <2>1. DtorLeft[dtor'] \in Nat /\ DtorLeft[dtor'] < DtorLeft[dtor]
    BY <1>7 DEF JoinSync, JoinUpdate, JoinPatch, DtorLeft
  <2>2. UNCHANGED <<worker, wsVars, updateVars>>
    BY <1>7 DEF JoinSync, JoinUpdate, JoinPatch, Patch!Join, patchVars
  <2>3. WsLeft' = WsLeft
    BY <2>2, SameWsLeft
  <2>4. /\ PatchLeft[worker'] = PatchLeft[worker]
        /\ UpdateLeft[update'] = UpdateLeft[update]
    BY <2>2 DEF updateVars
  <2> QED
    BY <1>3, <2>1, <2>3, <2>4 DEF Left
<1>8. CASE PatchThread \/ SpuriousWakeup
  <2>1. PatchLeft[worker'] < PatchLeft[worker]
    BY <1>1, <1>8, PatchShrinks DEF PatchThread, SpuriousWakeup, UInv, Typed
  <2>2. UNCHANGED <<dtor, wsVars, updateVars>>
    BY <1>8 DEF PatchThread, SpuriousWakeup
  <2>3. WsLeft' = WsLeft
    BY <2>2, SameWsLeft
  <2>4. DtorLeft[dtor'] = DtorLeft[dtor] /\ UpdateLeft[update'] = UpdateLeft[update]
    BY <2>2 DEF updateVars
  <2> QED
    BY <1>3, <1>4, <2>1, <2>3, <2>4 DEF Left
<1>9. CASE SyncThread \/ AsioThread \/ PeerCloses
  <2>1. WsLeft' < WsLeft
    BY <1>1, <1>9, WsShrinks DEF SyncThread, AsioThread, PeerCloses, UInv, Typed
  <2>2. UNCHANGED <<dtor, patchVars, updateVars>>
    BY <1>9 DEF SyncThread, AsioThread, PeerCloses
  <2>3. /\ DtorLeft[dtor'] = DtorLeft[dtor]
        /\ PatchLeft[worker'] = PatchLeft[worker]
        /\ UpdateLeft[update'] = UpdateLeft[update]
    BY <2>2 DEF patchVars, updateVars
  <2> QED
    BY <1>3, <1>4, <2>1, <2>3 DEF Left
<1>10. CASE UpdateThread
  <2>1. UpdateLeft[update'] < UpdateLeft[update]
    BY <1>1, <1>10, UpdateShrinks DEF UpdateThread
  <2>2. UNCHANGED <<dtor, patchVars, wsVars>>
    BY <1>10 DEF UpdateThread
  <2>3. WsLeft' = WsLeft
    BY <2>2, SameWsLeft
  <2>4. DtorLeft[dtor'] = DtorLeft[dtor] /\ PatchLeft[worker'] = PatchLeft[worker]
    BY <2>2 DEF patchVars
  <2> QED
    BY <1>3, <1>4, <2>1, <2>3, <2>4 DEF Left
<1>11. CASE SetQueueFromJsonThrows
  BY <1>11 DEF SetQueueFromJsonThrows
<1> QED
  BY <1>5, <1>6, <1>7, <1>8, <1>9, <1>10, <1>11 DEF Next, MainThread, Destructor

\* From the joins on, each step of anybody brings the unloading nearer to its end:
\* it takes at most as many steps as the threads and the connections have left.
THEOREM UnloadIsFinite == Spec => UnloadShrinks
<1>1. UInv /\ UInv' /\ [Next]_vars
        => [(dtor \in Joining) => terminated' \/ Left' < Left]_vars
  BY LeftShrinks
<1> QED
  BY <1>1, Unstucks, PTL DEF Spec, UnloadShrinks
=============================================================================
