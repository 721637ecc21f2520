----------------------- MODULE UniSequenceTypeProofs -----------------------
(***************************************************************************)
(* The plugin keeps to its components: what each of its steps does to the  *)
(* variables of a component is a step of that component, or nothing.  On   *)
(* that rest the types of the whole, for any requests, airports and        *)
(* bounds.                                                                 *)
(***************************************************************************)
EXTENDS UniSequence, SequenceTheorems, TLAPS

\* The arguments in flight are requests where the code uses them.
PatchTyped ==
  /\ Patch!TypeOK
  /\ main \in {"reading", "push"} => arg \in Patch!PRequest
  /\ worker = "send" => pReq \in Patch!PRequest
  /\ worker = "front" => patch_request_queue # <<>>

WsTyped == Ws!TypeOK /\ Ws!SocketsResolve

\* Operations are counted by what they leave: a request sent, an id given out.
DtorTyped ==
  /\ dtor \in {"no", "stop_update", "stop_patch", "join_sync", "join_update",
               "join_patch", "destroyed"}
  /\ terminated \in BOOLEAN
  /\ begun \in [Kinds -> Nat]

Typed == PatchTyped /\ WsTyped /\ Update!TypeOK /\ DtorTyped
-----------------------------------------------------------------------------
(* The steps of the plugin, component by component *)

LEMMA SamePatch == UNCHANGED patchVars => UNCHANGED Patch!vars
BY DEF patchVars, Patch!vars, Patch!mainVars, Patch!codeVars, Patch!histVars

LEMMA SameWs == UNCHANGED wsVars => UNCHANGED Ws!vars
BY DEF wsVars, Ws!vars, Ws!listVars, Ws!endpointVars

LEMMA SameUpdate == UNCHANGED updateVars => UNCHANGED Update!vars
BY DEF updateVars, Update!vars

\* The handlers of the main thread.
LEMMA HandlersInComponents ==
  ASSUME OnFunctionCall \/ FinishHandler \/ OnGetTagItem \/ OnCompileCommand
  PROVE  /\ [Patch!Next]_(Patch!vars)
         /\ [Ws!Next]_(Ws!vars)
         /\ [Update!Next]_(Update!vars)
         /\ UNCHANGED <<dtor, terminated, begun>>
<1>1. CASE OnFunctionCall
  BY <1>1, SameWs, SameUpdate DEF OnFunctionCall, Patch!Next
<1>2. CASE FinishHandler
  BY <1>2, SameWs, SameUpdate DEF FinishHandler, Patch!Next, Patch!MainStep
<1>3. CASE OnGetTagItem
  BY <1>3, SamePatch, SameUpdate DEF OnGetTagItem, Ws!Next
<1>4. CASE OnCompileCommand
  <2>1. UNCHANGED <<updateVars, dtor, terminated, begun>>
    BY <1>4 DEF OnCompileCommand
  <2>2. CASE \E S \in SUBSET Airports : Ws!SqaCommand(S) /\ UNCHANGED patchVars
    BY <2>1, <2>2, SamePatch, SameUpdate DEF Ws!Next
  <2>3. CASE Patch!SetLogonCode /\ UNCHANGED wsVars
    BY <2>1, <2>3, SameWs, SameUpdate DEF Patch!Next
  <2> QED
    BY <1>4, <2>2, <2>3 DEF OnCompileCommand
<1> QED
  BY <1>1, <1>2, <1>3, <1>4

\* The destructor.
LEMMA DestructorInComponents ==
  ASSUME StopSync \/ Destructor
  PROVE  /\ [Patch!Next]_(Patch!vars)
         /\ [Ws!Next]_(Ws!vars)
         /\ [Update!Next]_(Update!vars)
         /\ dtor' \in {"stop_update", "stop_patch", "join_sync", "join_update",
                       "join_patch", "destroyed"}
         /\ UNCHANGED <<terminated, begun>>
<1>1. CASE StopSync
  BY <1>1, SamePatch, SameUpdate DEF StopSync, Ws!Next
<1>2. CASE StopUpdate
  BY <1>2, SamePatch, SameWs DEF StopUpdate, Update!Next
<1>3. CASE StopPatch
  BY <1>3, SameWs, SameUpdate DEF StopPatch, Patch!Next
<1>4. CASE JoinSync \/ JoinUpdate
  BY <1>4, SamePatch, SameWs, SameUpdate DEF JoinSync, JoinUpdate
<1>5. CASE JoinPatch
  BY <1>5, SameWs, SameUpdate DEF JoinPatch, Patch!Next, Patch!MainStep
<1> QED
  BY <1>1, <1>2, <1>3, <1>4, <1>5 DEF Destructor

\* The threads.
LEMMA ThreadsInComponents ==
  ASSUME PatchThread \/ SpuriousWakeup \/ SyncThread \/ AsioThread \/ PeerCloses
         \/ UpdateThread \/ SetQueueFromJsonThrows
  PROVE  /\ [Patch!Next]_(Patch!vars)
         /\ [Ws!Next]_(Ws!vars)
         /\ [Update!Next]_(Update!vars)
         /\ UNCHANGED dtor
         /\ terminated' \in BOOLEAN \/ terminated' = terminated
         /\ \/ UNCHANGED begun
            \/ begun' = Counted("patch", Len(sent') - Len(sent))
            \/ begun' = Counted("connect", m_next_id' - m_next_id)
            \/ begun' = Counted("get", 0) \/ begun' = Counted("get", 1)
<1>1. CASE PatchThread \/ SpuriousWakeup
  BY <1>1, SameWs, SameUpdate DEF PatchThread, SpuriousWakeup, Patch!Next
<1>2. CASE SyncThread
  BY <1>2, SamePatch, SameUpdate DEF SyncThread, Ws!Next
<1>3. CASE AsioThread \/ PeerCloses
  BY <1>3, SamePatch, SameUpdate DEF AsioThread, PeerCloses, Ws!Next
<1>4. CASE UpdateThread
  BY <1>4, SamePatch, SameWs DEF UpdateThread, Update!Next
<1>5. CASE SetQueueFromJsonThrows
  BY <1>5, SamePatch, SameWs, SameUpdate DEF SetQueueFromJsonThrows
<1> QED
  BY <1>1, <1>2, <1>3, <1>4, <1>5

LEMMA StepsOfComponents ==
  [Next]_vars =>
    [Patch!Next]_(Patch!vars) /\ [Ws!Next]_(Ws!vars) /\ [Update!Next]_(Update!vars)
<1> SUFFICES ASSUME [Next]_vars
             PROVE  /\ [Patch!Next]_(Patch!vars)
                    /\ [Ws!Next]_(Ws!vars)
                    /\ [Update!Next]_(Update!vars)
  OBVIOUS
<1>1. CASE Next
  BY <1>1, HandlersInComponents, DestructorInComponents, ThreadsInComponents DEF Next, MainThread
<1>2. CASE UNCHANGED vars
  BY <1>2, SamePatch, SameWs, SameUpdate DEF vars
<1> QED
  BY <1>1, <1>2

\* In the plugin the patch queue, the socket synchronisation and the update check
\* behave as each does alone: sharing a main thread, a destructor and a process
\* only takes behaviours away, so that what the proofs of PatchQueue and of WsSync
\* show of every step holds of them here too.
THEOREM KeepsToComponents ==
  Spec => /\ Patch!Init /\ [][Patch!Next]_(Patch!vars)
          /\ Ws!Init /\ [][Ws!Next]_(Ws!vars)
          /\ Update!Init /\ [][Update!Next]_(Update!vars)
<1>1. Init => Patch!Init /\ Ws!Init /\ Update!Init
  BY DEF Init
<1> QED
  BY <1>1, StepsOfComponents, PTL DEF Spec
-----------------------------------------------------------------------------
(* Types *)

LEMMA PatchTypes == PatchTyped /\ [Patch!Next]_(Patch!vars) => PatchTyped'
<1> SUFFICES ASSUME PatchTyped, [Patch!Next]_(Patch!vars) PROVE PatchTyped'
  OBVIOUS
<1> USE DEF Patch!MainStates, Patch!WorkerStates
<1>1. ASSUME NEW r \in Patch!PRequest, Patch!OpenCodeFile(r) PROVE PatchTyped'
  <2>1. wanted' \in Patch!Code /\ main' \in {"reading", "idle", "push"}
    BY <1>1 DEF Patch!OpenCodeFile, PatchTyped, Patch!TypeOK
  <2> QED
    BY <1>1, <2>1 DEF Patch!OpenCodeFile, PatchTyped, Patch!TypeOK, Patch!codeVars,
       Patch!histVars
<1>2. CASE Patch!GetLogonCode
  BY <1>2 DEF Patch!GetLogonCode, Patch!CodeRead, PatchTyped, Patch!TypeOK, Patch!histVars
<1>3. CASE Patch!Push
  <2>1. /\ arg \in Patch!PRequest /\ wanted \in Patch!Code
        /\ patch_request_queue \in Seq(Patch!PRequest)
    BY <1>3 DEF Patch!Push, PatchTyped, Patch!TypeOK
  <2>2. /\ Append(patch_request_queue, arg) \in Seq(Patch!PRequest)
        /\ Append(pushed, arg) \in Seq(Patch!PRequest)
        /\ Append(asked, wanted) \in Seq(Patch!Code)
    BY <2>1, AppendProperties DEF PatchTyped, Patch!TypeOK
  <2>3. Append(patch_request_queue, arg) # <<>>
    BY <2>1, AppendProperties
  <2> QED
    BY <1>3, <2>1, <2>2, <2>3 DEF Patch!Push, Patch!Pushed, PatchTyped, Patch!TypeOK,
       Patch!codeVars
<1>4. CASE Patch!NotifyAll
  BY <1>4 DEF Patch!NotifyAll, Patch!Woken, PatchTyped, Patch!TypeOK, Patch!codeVars,
     Patch!histVars
<1>5. CASE Patch!SetLogonCode
  BY <1>5, InstanceAssumption DEF Patch!SetLogonCode, PatchTyped, Patch!TypeOK, Patch!Code,
     Patch!mainVars, Patch!histVars
<1>6. CASE Patch!RequestStop
  BY <1>6 DEF Patch!RequestStop, Patch!Woken, PatchTyped, Patch!TypeOK, Patch!codeVars,
     Patch!histVars
<1>7. CASE Patch!Join
  BY <1>7 DEF Patch!Join, PatchTyped, Patch!TypeOK, Patch!codeVars, Patch!histVars
<1>8. ASSUME NEW from, NEW to \in Patch!WorkerStates \ {"send"}, Patch!Moves(from, to),
             to = "front" => patch_request_queue # <<>>
      PROVE  PatchTyped'
  BY <1>8 DEF Patch!Moves, PatchTyped, Patch!TypeOK, Patch!mainVars, Patch!codeVars,
     Patch!histVars
<1>9. CASE Patch!LoopTop
  BY <1>8, <1>9 DEF Patch!LoopTop
<1>10. CASE Patch!EvalPred
  BY <1>8, <1>10 DEF Patch!EvalPred, Patch!IsQueueing
<1>11. CASE Patch!Block
  BY <1>8, <1>11 DEF Patch!Block
<1>12. CASE Patch!PopFront
  <2>1. /\ Head(patch_request_queue) \in Patch!PRequest
        /\ Tail(patch_request_queue) \in Seq(Patch!PRequest)
    BY <1>12, HeadTailProperties DEF Patch!PopFront, PatchTyped, Patch!TypeOK
  <2> QED
    BY <1>12, <2>1 DEF Patch!PopFront, Patch!FrontOf, Patch!Popped, PatchTyped,
       Patch!TypeOK, Patch!mainVars, Patch!codeVars, Patch!histVars
<1>13. CASE Patch!SendPatch
  <2>1. pReq \in Patch!PRequest
    BY <1>13 DEF Patch!SendPatch, PatchTyped
  <2>2. sent' \in Seq(Patch!PRequest)
    BY <1>13, <2>1, AppendProperties DEF Patch!SendPatch, PatchTyped, Patch!TypeOK
  <2>3. Patch!VisibleCodes \subseteq Patch!Code \cup {Patch!Partial}
    BY InstanceAssumption DEF Patch!VisibleCodes, PatchTyped, Patch!TypeOK, Patch!NoCode,
       Patch!Code
  <2>4. used' \in Seq(Patch!Code \cup {Patch!Partial})
    <3>1. PICK c \in Patch!VisibleCodes : used' = Append(used, c)
      BY <1>13 DEF Patch!SendPatch
    <3> QED
      BY <2>3, <3>1, AppendProperties DEF PatchTyped, Patch!TypeOK
  <2>5. lateSends' \in Nat
    BY <1>13 DEF Patch!SendPatch, PatchTyped, Patch!TypeOK
  <2> QED
    BY <1>13, <2>2, <2>4, <2>5 DEF Patch!SendPatch, PatchTyped, Patch!TypeOK,
       Patch!mainVars, Patch!codeVars
<1>14. CASE Patch!PatchReturns
  BY <1>8, <1>14 DEF Patch!PatchReturns, Patch!AfterAnswer
<1>15. CASE Patch!SpuriousWakeup
  BY <1>8, <1>15 DEF Patch!SpuriousWakeup
<1>16. CASE UNCHANGED Patch!vars
  BY <1>16 DEF Patch!vars, Patch!mainVars, Patch!codeVars, Patch!histVars, PatchTyped,
     Patch!TypeOK
<1> QED
  BY <1>1, <1>2, <1>3, <1>4, <1>5, <1>6, <1>7, <1>9, <1>10, <1>11, <1>12, <1>13,
     <1>14, <1>15, <1>16
  DEF Patch!Next, Patch!MainStep, Patch!WorkerStep, Patch!PatchAircraftStatus,
      Patch!ReorderAircraftEditHandler, Patch!PRequest

\* A step sends one request at most.
LEMMA SentGrows ==
  ASSUME PatchTyped, PatchTyped', [Patch!Next]_(Patch!vars)
  PROVE  Len(sent') \in {Len(sent), Len(sent) + 1} /\ Len(sent) \in Nat
<1>1. sent \in Seq(Patch!PRequest) /\ Len(sent) \in Nat
  BY LenProperties DEF PatchTyped, Patch!TypeOK
<1>2. CASE Patch!SendPatch
  <2>1. pReq \in Patch!PRequest /\ sent' = Append(sent, pReq)
    BY <1>2 DEF Patch!SendPatch, PatchTyped
  <2> QED
    BY <1>1, <2>1, AppendProperties
<1>3. CASE ~Patch!SendPatch
  <2>1. UNCHANGED sent
    BY <1>3 DEF Patch!Next, Patch!MainStep, Patch!WorkerStep, Patch!PatchAircraftStatus,
       Patch!ReorderAircraftEditHandler, Patch!OpenCodeFile, Patch!GetLogonCode, Patch!Push,
       Patch!NotifyAll, Patch!SetLogonCode, Patch!RequestStop, Patch!Join, Patch!LoopTop,
       Patch!EvalPred, Patch!Block, Patch!PopFront, Patch!PatchReturns, Patch!SpuriousWakeup,
       Patch!Moves, Patch!vars, Patch!histVars
  <2> QED
    BY <1>1, <2>1
<1> QED
  BY <1>2, <1>3

\* A new connection is added to the maps of the endpoint, under an id of its own.
LEMMA ConnectTypes ==
  ASSUME WsTyped, NEW a \in Airports, Ws!ConnectAirport(a)
  PROVE  WsTyped' /\ m_next_id' = m_next_id + 1
<1> USE DEF WsTyped
<1>1. m_next_id \in Nat /\ m_next_id' = m_next_id + 1
  BY DEF Ws!TypeOK, Ws!ConnectAirport, Ws!NextId
<1>2. Ws!Ids' = Ws!Ids \cup {m_next_id} /\ m_next_id \notin Ws!Ids
  BY <1>1 DEF Ws!Ids
<1>3. /\ icao' = [id \in Ws!Ids' |-> IF id \in Ws!Ids THEN icao[id] ELSE a]
      /\ m_status' = [id \in Ws!Ids' |-> IF id \in Ws!Ids THEN m_status[id] ELSE "Connecting"]
      /\ con' = [id \in Ws!Ids' |-> IF id \in Ws!Ids THEN con[id] ELSE "connecting"]
  BY <1>2 DEF Ws!TypeOK, Ws!ConnectAirport, Ws!Insert
<1>4. /\ a \notin DOMAIN socket_list_
      /\ socket_list_' = [b \in DOMAIN socket_list_ \cup {a} |->
                            IF b \in DOMAIN socket_list_ THEN socket_list_[b] ELSE m_next_id]
  BY DEF Ws!ConnectAirport, Ws!Unserved, Ws!NewId, Ws!Insert
<1>5. Ws!TypeOK'
  BY <1>1, <1>3, <1>4 DEF Ws!TypeOK, Ws!ConnectAirport, Ws!Statuses, Ws!ConStates,
     Ws!listVars
<1>6. Ws!SocketsResolve'
  BY <1>2, <1>3, <1>4 DEF Ws!SocketsResolve
<1> QED
  BY <1>1, <1>5, <1>6

LEMMA DropTypes ==
  ASSUME WsTyped, NEW a \in Airports, Ws!DropAirport(a)
  PROVE  WsTyped'
<1> USE DEF WsTyped
<1>1. socket_list_' = [b \in DOMAIN socket_list_ \ {a} |-> socket_list_[b]]
  BY DEF Ws!DropAirport
<1>2. socket_list_[a] \in Ws!Ids
  BY DEF Ws!DropAirport, Ws!Dropped, Ws!SocketsResolve
<1>3. con' \in [Ws!Ids -> Ws!ConStates]
  BY <1>2 DEF Ws!DropAirport, Ws!Close, Ws!TypeOK, Ws!ConStates
<1>4. Ws!Ids' = Ws!Ids
  BY DEF Ws!DropAirport, Ws!Ids
<1>5. Ws!TypeOK'
  BY <1>1, <1>3, <1>4 DEF Ws!DropAirport, Ws!TypeOK, Ws!listVars
<1>6. Ws!SocketsResolve'
  BY <1>1, <1>4 DEF Ws!DropAirport, Ws!SocketsResolve
<1> QED
  BY <1>5, <1>6

LEMMA ConnectionTypes ==
  ASSUME WsTyped, NEW id \in Ws!Ids, NEW state \in Ws!ConStates, NEW status \in Ws!Statuses,
         Ws!Connection(id, state, status)
  PROVE  WsTyped'
<1> USE DEF WsTyped
<1>1. /\ Ws!Ids' = Ws!Ids
      /\ UNCHANGED <<Ws!listVars, socket_list_, m_next_id, icao, sync, syncStop>>
  BY DEF Ws!Connection, Ws!Ids
<1>2. con' \in [Ws!Ids -> Ws!ConStates] /\ m_status' \in [Ws!Ids -> Ws!Statuses]
  BY DEF Ws!Connection, Ws!TypeOK
<1> QED
  BY <1>1, <1>2 DEF Ws!TypeOK, Ws!SocketsResolve, Ws!listVars

\* A step that leaves the maps of the endpoint and the socket list alone.
LEMMA ListTypes ==
  ASSUME WsTyped, UNCHANGED <<socket_list_, m_next_id, icao, m_status>>,
         con' \in [Ws!Ids -> Ws!ConStates],
         airport_list_' \subseteq Airports, commands' \in 0..MaxCommands,
         syncStop' \in BOOLEAN,
         sync' \in {"waiting", "connecting", "dropping", "destroying", "joining", "done"}
  PROVE  WsTyped'
BY DEF WsTyped, Ws!TypeOK, Ws!SocketsResolve, Ws!Ids

LEMMA WsTypes ==
  WsTyped /\ [Ws!Next]_(Ws!vars)
    => WsTyped' /\ m_next_id' \in {m_next_id, m_next_id + 1}
<1> SUFFICES ASSUME WsTyped, [Ws!Next]_(Ws!vars)
             PROVE  WsTyped' /\ m_next_id' \in {m_next_id, m_next_id + 1}
  OBVIOUS
<1>1. /\ airport_list_ \subseteq Airports /\ commands \in 0..MaxCommands
      /\ con \in [Ws!Ids -> Ws!ConStates] /\ syncStop \in BOOLEAN /\ MaxCommands \in Nat
      /\ sync \in {"waiting", "connecting", "dropping", "destroying", "joining", "done"}
  BY InstanceAssumption DEF WsTyped, Ws!TypeOK
<1>2. ASSUME NEW a \in Airports, Ws!AddAirportIfNotExist(a)
      PROVE  WsTyped' /\ m_next_id' = m_next_id
  BY <1>1, <1>2, ListTypes DEF Ws!AddAirportIfNotExist, Ws!endpointVars
<1>3. ASSUME NEW S \in SUBSET Airports, Ws!SqaCommand(S)
      PROVE  WsTyped' /\ m_next_id' = m_next_id
  BY <1>1, <1>3, ListTypes DEF Ws!SqaCommand, Ws!endpointVars
<1>4. CASE Ws!RequestStop
  BY <1>1, <1>4, ListTypes DEF Ws!RequestStop, Ws!listVars, Ws!endpointVars
<1>5. CASE Ws!BeginPass \/ Ws!StopSeen \/ Ws!ConnectsDone \/ Ws!DropsDone \/ Ws!JoinAsio
  BY <1>1, <1>5, ListTypes DEF Ws!BeginPass, Ws!StopSeen, Ws!ConnectsDone, Ws!DropsDone,
     Ws!JoinAsio, Ws!Moves, Ws!listVars, Ws!endpointVars
<1>6. CASE Ws!Destroy
  <2>1. con' \in [Ws!Ids -> Ws!ConStates]
    BY <1>1, <1>6 DEF Ws!Destroy, Ws!Close, Ws!ConStates
  <2> QED
    BY <1>1, <1>6, <2>1, ListTypes DEF Ws!Destroy, Ws!listVars
<1>7. ASSUME NEW a \in Airports, Ws!ConnectAirport(a) \/ Ws!DropAirport(a)
      PROVE  WsTyped' /\ m_next_id' \in {m_next_id, m_next_id + 1}
  BY <1>7, ConnectTypes, DropTypes DEF Ws!DropAirport
<1>8. ASSUME NEW id \in Ws!Ids,
             \/ Ws!HandshakeSucceeds(id) \/ Ws!on_open(id) \/ Ws!on_fail(id)
             \/ Ws!CloseCompletes(id) \/ Ws!PeerCloses(id)
      PROVE  WsTyped' /\ m_next_id' = m_next_id
  <2>1. con[id] \in Ws!ConStates /\ m_status[id] \in Ws!Statuses
    BY DEF WsTyped, Ws!TypeOK
  <2>2. PICK state \in Ws!ConStates, status \in Ws!Statuses : Ws!Connection(id, state, status)
    BY <1>8, <2>1 DEF Ws!HandshakeSucceeds, Ws!on_open, Ws!on_fail, Ws!on_close,
       Ws!CloseCompletes, Ws!PeerCloses, Ws!ConStates, Ws!Statuses
  <2> QED
    BY <2>2, ConnectionTypes DEF Ws!Connection
<1>9. CASE UNCHANGED Ws!vars
  BY <1>1, <1>9, ListTypes DEF Ws!vars, Ws!listVars, Ws!endpointVars
<1> QED
  BY <1>2, <1>3, <1>4, <1>5, <1>6, <1>7, <1>8, <1>9 DEF Ws!Next, Ws!SyncStep, Ws!AsioStep

LEMMA UpdateTypes == Update!TypeOK /\ [Update!Next]_(Update!vars) => Update!TypeOK'
<1> SUFFICES ASSUME Update!TypeOK, [Update!Next]_(Update!vars) PROVE Update!TypeOK'
  OBVIOUS
<1>1. CASE Update!Attempt
  BY <1>1 DEF Update!TypeOK, Update!Attempt, Update!AttemptsLeft, Update!Moves
<1>2. CASE Update!RequestStop
  BY <1>2 DEF Update!TypeOK, Update!RequestStop
<1>3. CASE \/ Update!GiveUp \/ Update!EndWait \/ Update!Get
           \/ Update!Fails \/ Update!Succeeds \/ Update!Throws
  BY <1>3 DEF Update!TypeOK, Update!GiveUp, Update!EndWait, Update!Get, Update!Fails, Update!Succeeds,
     Update!Throws, Update!Moves
<1>4. CASE UNCHANGED Update!vars
  BY <1>4 DEF Update!TypeOK, Update!vars
<1> QED
  BY <1>1, <1>2, <1>3, <1>4 DEF Update!Next, Update!UpdateStep

LEMMA TypedInit == Init => Typed
<1> SUFFICES ASSUME Init PROVE Typed
  OBVIOUS
<1>1. PatchTyped
  <2>1. Patch!Init
    BY DEF Init
  <2>2. 0 \in Patch!Code
    BY InstanceAssumption DEF Patch!Code
  <2>3. patch_request_queue = <<>> /\ pushed = <<>> /\ asked = <<>> /\ sent = <<>> /\ used = <<>>
    BY <2>1 DEF Patch!Init
  <2>4. /\ patch_request_queue \in Seq(Patch!PRequest)
        /\ pushed \in Seq(Patch!PRequest) /\ asked \in Seq(Patch!Code)
        /\ sent \in Seq(Patch!PRequest) /\ used \in Seq(Patch!Code \cup {Patch!Partial})
    BY <2>3, EmptySeq
  <2> QED
    BY <2>1, <2>2, <2>4 DEF Patch!Init, PatchTyped, Patch!TypeOK, Patch!MainStates,
       Patch!WorkerStates, Patch!NoCode
<1>2. WsTyped
  <2>1. Ws!Ids = {} /\ DOMAIN socket_list_ = {}
    BY DEF Init, Ws!Init, Ws!Ids
  <2>2. /\ icao \in [Ws!Ids -> Airports]
        /\ m_status \in [Ws!Ids -> Ws!Statuses]
        /\ con \in [Ws!Ids -> Ws!ConStates]
    BY <2>1 DEF Init, Ws!Init
  <2>3. /\ airport_list_ = {} /\ m_next_id = 0 /\ sync = "waiting" /\ syncStop = FALSE
        /\ commands = 0
    BY DEF Init, Ws!Init
  <2>4. 0 \in 0..MaxCommands
    BY InstanceAssumption
  <2> QED
    BY <2>1, <2>2, <2>3, <2>4 DEF WsTyped, Ws!TypeOK, Ws!SocketsResolve
<1>3. Update!TypeOK
  <2>1. update = "loop" /\ retryTime = 0 /\ updateStop = FALSE
    BY DEF Init, Update!Init
  <2>2. retryTime \in 0..3 
    BY <2>1
  <2>3. updateStop \in BOOLEAN
    BY <2>1
  <2> QED
    BY <2>1, <2>2, <2>3 DEF Update!TypeOK
<1>4. DtorTyped
  BY DEF Init, DtorTyped
<1> QED
  BY <1>1, <1>2, <1>3, <1>4 DEF Typed

LEMMA TypedStep == Typed /\ [Next]_vars => Typed'
<1> SUFFICES ASSUME Typed, [Next]_vars PROVE Typed'
  OBVIOUS
<1> USE DEF Typed
<1>1. PatchTyped' /\ WsTyped' /\ Update!TypeOK'
  BY StepsOfComponents, PatchTypes, WsTypes, UpdateTypes
<1>2. m_next_id \in Nat /\ m_next_id' \in {m_next_id, m_next_id + 1}
  BY StepsOfComponents, WsTypes DEF WsTyped, Ws!TypeOK
<1>3. CASE OnFunctionCall \/ FinishHandler \/ OnGetTagItem \/ OnCompileCommand
  BY <1>1, <1>3, HandlersInComponents DEF DtorTyped
<1>4. CASE StopSync \/ Destructor
  BY <1>1, <1>4, DestructorInComponents DEF DtorTyped
<1>5. CASE PatchThread \/ SpuriousWakeup \/ SyncThread \/ AsioThread \/ PeerCloses
           \/ UpdateThread \/ SetQueueFromJsonThrows
  <2>1. ASSUME NEW k \in Kinds, NEW n \in Nat, begun' = Counted(k, n)
        PROVE  begun' \in [Kinds -> Nat]
    BY <2>1 DEF Counted, DtorTyped
  <2>2. Len(sent') - Len(sent) \in Nat
    BY <1>1, StepsOfComponents, SentGrows
  <2>3. m_next_id' - m_next_id \in Nat
    <3>1. CASE m_next_id' = m_next_id
      BY <1>2, <3>1
    <3>2. CASE m_next_id' = m_next_id + 1
      BY <1>2, <3>2
    <3> QED
      BY <1>2, <3>1, <3>2
  <2>4. "patch" \in Kinds /\ "get" \in Kinds /\ "connect" \in Kinds /\ 0 \in Nat /\ 1 \in Nat
    BY DEF Kinds
  <2>5. begun' \in [Kinds -> Nat]
    <3>1. CASE UNCHANGED begun
      BY <3>1 DEF DtorTyped
    <3>2. CASE begun' = Counted("patch", Len(sent') - Len(sent))
      BY <2>1, <2>2, <2>4, <3>2
    <3>3. CASE begun' = Counted("connect", m_next_id' - m_next_id)
      BY <2>1, <2>3, <2>4, <3>3
    <3>4. CASE begun' = Counted("get", 0) \/ begun' = Counted("get", 1)
      BY <2>1, <2>4, <3>4
    <3> QED
      BY <1>5, <3>1, <3>2, <3>3, <3>4, ThreadsInComponents
  <2> QED
    BY <1>1, <1>5, <2>5, ThreadsInComponents DEF DtorTyped
<1>6. CASE UNCHANGED vars
  BY <1>1, <1>6 DEF DtorTyped, vars
<1> QED
  BY <1>3, <1>4, <1>5, <1>6 DEF Next, MainThread

\* Each variable of the three threads, the main thread and the destructor keeps its
\* type, however their steps interleave; no thread pops an empty queue or closes a
\* connection that is not there on the way.
THEOREM TypeCorrectness == Spec => []TypeOK
<1>1. Typed => TypeOK
  BY DEF Typed, PatchTyped, WsTyped, DtorTyped, TypeOK
<1>2. Spec => []Typed
  BY TypedInit, TypedStep, PTL DEF Spec
<1> QED
  BY <1>1, <1>2, PTL
=============================================================================
