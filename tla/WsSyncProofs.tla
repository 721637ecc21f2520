---------------------------- MODULE WsSyncProofs ----------------------------
(***************************************************************************)
(* Theorems about WsSync, for all sets of airports and any number of       *)
(* commands: the socket list always resolves, to the newest connection of  *)
(* each airport, and a pass ends with the two lists in agreement.          *)
(***************************************************************************)
EXTENDS WsSync, TLAPS

(***************************************************************************)
(* The inductive invariant                                                 *)
(***************************************************************************)

\* The second loop starts when every listed airport has a socket, and the lock of
\* the airport list keeps it so.
ConnectedFirst == sync = "dropping" => airport_list_ \subseteq DOMAIN socket_list_

IInv == TypeOK /\ SocketsResolve /\ ListedIsNewest /\ ConnectedFirst

LEMMA InitIInv == Init => IInv
<1> SUFFICES ASSUME Init PROVE IInv
  OBVIOUS
<1>1. Ids = {}
  BY DEF Init, Ids
<1>2. DOMAIN socket_list_ = {}
  BY DEF Init
<1>3. icao \in [Ids -> Airports] /\ m_status \in [Ids -> Statuses] /\ con \in [Ids -> ConStates]
  BY <1>1 DEF Init
<1>4. TypeOK
  <2>1. airport_list_ = {} /\ m_next_id = 0 /\ sync = "waiting" /\ stop = FALSE /\ commands = 0
    BY DEF Init
  <2>2. 0 \in 0..MaxCommands
    BY CommandsAssumption
  <2> QED
    BY <1>2, <1>3, <2>1, <2>2 DEF TypeOK
<1>5. SocketsResolve /\ ListedIsNewest
  BY <1>2 DEF SocketsResolve, ListedIsNewest
<1>6. ConnectedFirst
  BY DEF Init, ConnectedFirst
<1> QED
  BY <1>4, <1>5, <1>6 DEF IInv

\* What a new connection adds to the maps of the endpoint.
LEMMA ConnectStep ==
  ASSUME IInv, NEW a \in Airports, ConnectAirport(a)
  PROVE  IInv'
<1> USE DEF IInv
<1>1. m_next_id \in Nat /\ m_next_id' = m_next_id + 1
  BY DEF TypeOK, ConnectAirport, NextId
<1>2. Ids' = Ids \cup {m_next_id} /\ m_next_id \notin Ids
  BY <1>1 DEF Ids
<1>3. /\ icao' = [id \in Ids' |-> IF id \in Ids THEN icao[id] ELSE a]
      /\ m_status' = [id \in Ids' |-> IF id \in Ids THEN m_status[id] ELSE "Connecting"]
      /\ con' = [id \in Ids' |-> IF id \in Ids THEN con[id] ELSE "connecting"]
  BY <1>2 DEF TypeOK, ConnectAirport, Insert
<1>4. /\ a \notin DOMAIN socket_list_
      /\ socket_list_' = [b \in DOMAIN socket_list_ \cup {a} |->
                            IF b \in DOMAIN socket_list_ THEN socket_list_[b] ELSE m_next_id]
  BY DEF ConnectAirport, Unserved, NewId, Insert
<1>5. TypeOK'
  BY <1>1, <1>3, <1>4 DEF TypeOK, ConnectAirport, Statuses, ConStates, listVars
<1>6. SocketsResolve'
  BY <1>2, <1>3, <1>4 DEF SocketsResolve
<1>7. ListedIsNewest'
  BY <1>1, <1>2, <1>3, <1>4 DEF ListedIsNewest, SocketsResolve, Ids
<1>8. ConnectedFirst'
  BY DEF ConnectAirport, ConnectedFirst
<1> QED
  BY <1>5, <1>6, <1>7, <1>8

\* A dropped airport leaves the socket list; its connection changes state at most.
LEMMA DropStep ==
  ASSUME IInv, NEW a \in Airports, DropAirport(a)
  PROVE  IInv'
<1> USE DEF IInv
<1>1. socket_list_' = [b \in DOMAIN socket_list_ \ {a} |-> socket_list_[b]]
  BY DEF DropAirport
<1>2. socket_list_[a] \in Ids
  BY DEF DropAirport, Dropped, SocketsResolve
<1>3. con' \in [Ids -> ConStates]
  BY <1>2 DEF DropAirport, Close, TypeOK, ConStates
<1>4. Ids' = Ids
  BY DEF DropAirport, Ids
<1>5. TypeOK'
  BY <1>1, <1>3, <1>4 DEF DropAirport, TypeOK, listVars
<1>6. SocketsResolve' /\ ListedIsNewest'
  BY <1>1, <1>4 DEF DropAirport, SocketsResolve, ListedIsNewest
<1>7. ConnectedFirst'
  BY <1>1 DEF DropAirport, Dropped, ConnectedFirst, listVars
<1> QED
  BY <1>5, <1>6, <1>7

\* The library and the handlers of a connection touch its state only.
LEMMA ConnectionStep ==
  ASSUME IInv, NEW id \in Ids, NEW state \in ConStates, NEW status \in Statuses,
         Connection(id, state, status)
  PROVE  IInv'
<1> USE DEF IInv
<1>1. /\ Ids' = Ids
      /\ UNCHANGED <<listVars, socket_list_, m_next_id, icao, sync, stop>>
  BY DEF Connection, Ids
<1>2. con' \in [Ids -> ConStates] /\ m_status' \in [Ids -> Statuses]
  BY DEF Connection, TypeOK
<1> QED
  BY <1>1, <1>2 DEF TypeOK, SocketsResolve, ListedIsNewest, ConnectedFirst, listVars

\* A step that leaves the maps of the endpoint and the socket list alone.
LEMMA ListStep ==
  ASSUME IInv, UNCHANGED <<socket_list_, m_next_id, icao, m_status>>,
         con' \in [Ids -> ConStates],
         airport_list_' \subseteq Airports, commands' \in 0..MaxCommands, stop' \in BOOLEAN,
         sync' \in {"waiting", "connecting", "dropping", "destroying", "joining", "done"},
         sync' = "dropping" => airport_list_' \subseteq DOMAIN socket_list_
  PROVE  IInv'
BY DEF IInv, TypeOK, SocketsResolve, ListedIsNewest, ConnectedFirst, Ids

LEMMA NextStep == IInv /\ [Next]_vars => IInv'
<1> SUFFICES ASSUME IInv, [Next]_vars PROVE IInv'
  OBVIOUS
<1>1. /\ airport_list_ \subseteq Airports /\ commands \in 0..MaxCommands
      /\ con \in [Ids -> ConStates] /\ stop \in BOOLEAN /\ MaxCommands \in Nat
      /\ sync \in {"waiting", "connecting", "dropping", "destroying", "joining", "done"}
      /\ sync = "dropping" => airport_list_ \subseteq DOMAIN socket_list_
  BY CommandsAssumption DEF IInv, TypeOK, ConnectedFirst
<1>2. ASSUME NEW a \in Airports, AddAirportIfNotExist(a) PROVE IInv'
  BY <1>1, <1>2, ListStep DEF AddAirportIfNotExist, AirportsLocked, endpointVars
<1>3. ASSUME NEW S \in SUBSET Airports, SqaCommand(S) PROVE IInv'
  BY <1>1, <1>3, ListStep DEF SqaCommand, AirportsLocked, endpointVars
<1>4. CASE RequestStop
  BY <1>1, <1>4, ListStep DEF RequestStop, listVars, endpointVars
<1>5. CASE BeginPass \/ StopSeen \/ DropsDone \/ JoinAsio
  BY <1>1, <1>5, ListStep DEF BeginPass, StopSeen, DropsDone, JoinAsio, Moves, listVars,
     endpointVars
<1>6. CASE ConnectsDone
  <2>1. airport_list_ \subseteq DOMAIN socket_list_
    BY <1>1, <1>6 DEF ConnectsDone, Unserved
  <2> QED
    BY <1>1, <1>6, <2>1, ListStep DEF ConnectsDone, Moves, listVars, endpointVars
<1>7. CASE Destroy
  <2>1. con' \in [Ids -> ConStates]
    BY <1>1, <1>7 DEF Destroy, Close, ConStates
  <2> QED
    BY <1>1, <1>7, <2>1, ListStep DEF Destroy, listVars
<1>8. ASSUME NEW a \in Airports, ConnectAirport(a) \/ DropAirport(a) PROVE IInv'
  BY <1>8, ConnectStep, DropStep
<1>9. ASSUME NEW id \in Ids,
             \/ HandshakeSucceeds(id) \/ on_open(id) \/ on_fail(id)
             \/ CloseCompletes(id) \/ PeerCloses(id)
      PROVE  IInv'
  <2>1. con[id] \in ConStates /\ m_status[id] \in Statuses
    BY DEF IInv, TypeOK
  <2> QED
    BY <1>9, <2>1, ConnectionStep DEF HandshakeSucceeds, on_open, on_fail, on_close,
       CloseCompletes, PeerCloses, ConStates, Statuses
<1>10. CASE UNCHANGED vars
  BY <1>1, <1>10, ListStep DEF vars, listVars, endpointVars
<1> QED
  BY <1>2, <1>3, <1>4, <1>5, <1>6, <1>7, <1>8, <1>9, <1>10 DEF Next, SyncStep, AsioStep

(***************************************************************************)
(* The theorems                                                            *)
(***************************************************************************)

THEOREM Invariance == Spec => []IInv
<1> QED
  BY InitIInv, NextStep, PTL DEF Spec

\* Lists, maps and states keep their types.
THEOREM TypeCorrectness == Spec => []TypeOK
<1>1. IInv => TypeOK
  BY DEF IInv
<1> QED
  BY <1>1, Invariance, PTL

\* endpoint.close never dereferences the end of m_connection_list
\* (websocket_endpoint.cpp:74-76), nor closes the connection of another airport.
THEOREM CloseResolves == Spec => []SocketsResolve
<1>1. IInv => SocketsResolve
  BY DEF IInv
<1> QED
  BY <1>1, Invariance, PTL

\* The socket list names the newest connection of each airport it has.
THEOREM ListsNewest == Spec => []ListedIsNewest
<1>1. IInv => ListedIsNewest
  BY DEF IInv
<1> QED
  BY <1>1, Invariance, PTL

\* Every pass of the sync thread ends with a socket for exactly the listed airports
\* (UniSequence.cpp:39-67).
THEOREM PassesConverge == Spec => PassConverges
<1>1. IInv /\ [Next]_vars
        => [sync = "dropping" /\ sync' = "waiting" => DOMAIN socket_list_ = airport_list_]_vars
  <2> SUFFICES ASSUME IInv, [Next]_vars, sync = "dropping", sync' = "waiting"
               PROVE  DOMAIN socket_list_ = airport_list_
    OBVIOUS
  <2>1. DropsDone
    BY DEF Next, SyncStep, AsioStep, AddAirportIfNotExist, SqaCommand, RequestStop, BeginPass,
       StopSeen, ConnectAirport, ConnectsDone, DropAirport, Destroy, JoinAsio, Moves, Connection,
       HandshakeSucceeds, CloseCompletes, PeerCloses, on_open, on_fail, on_close, vars
  <2>2. DOMAIN socket_list_ \subseteq airport_list_
    BY <2>1 DEF DropsDone, Dropped, IInv, TypeOK
  <2>3. airport_list_ \subseteq DOMAIN socket_list_
    BY DEF IInv, ConnectedFirst
  <2> QED
    BY <2>2, <2>3
<1> QED
  BY <1>1, Invariance, PTL DEF Spec, PassConverges
=============================================================================
