------------------------------- MODULE WsSync -------------------------------
(***************************************************************************)
(* The airport list and its websocket connections: the main thread edits   *)
(* airport_list_, the sync thread opens and closes connections after it    *)
(* every five seconds through its websocket_endpoint, and the asio thread  *)
(* of that endpoint runs the connections and their handlers.               *)
(*                                                                         *)
(* `con` is the state of a connection inside websocketpp, `m_status` what  *)
(* the handlers of connection_metadata made of it.  The library bounds     *)
(* both the opening and the closing handshake by a timeout.                *)
(***************************************************************************)
EXTENDS Naturals, FiniteSets

CONSTANTS Airports,
          MaxCommands       \* bound: .SQA commands in a behaviour

ASSUME CommandsAssumption == MaxCommands \in Nat

VARIABLES
  airport_list_,
  socket_list_,         \* airport -> id of its connection
  m_next_id,
  icao,                 \* m_connection_list: id -> airport it feeds
  m_status,             \* m_connection_list: id -> what the handlers recorded
  con,                  \* id -> the library's state of the connection
  sync,                 \* where the sync thread is
  stop,                 \* the stop state of sync_thread
  commands              \* .SQA commands so far, for the bound

listVars == <<airport_list_, commands>>
endpointVars == <<m_next_id, icao, m_status, con>>
vars == <<listVars, socket_list_, endpointVars, sync, stop>>

Ids == 0..(m_next_id - 1)
Statuses == {"Connecting", "Open", "Failed", "Closed"}
ConStates == {"connecting", "open", "closing", "terminated"}

Init ==
  /\ airport_list_ = {}
  /\ socket_list_ = <<>>
  /\ m_next_id = 0
  /\ icao = <<>> /\ m_status = <<>> /\ con = <<>>
  /\ sync = "waiting"
  /\ stop = FALSE
  /\ commands = 0
-----------------------------------------------------------------------------
(* The main thread *)

\* A pass holds airport_list_lock_ shared, from its first lookup to its last.
\* The slip gives it up.
NeverLocked == FALSE
AirportsLocked == sync \in {"connecting", "dropping"}

\* A tag of a flight plan is drawn.
AddAirportIfNotExist(a) ==
  /\ ~stop /\ ~AirportsLocked
  /\ a \notin airport_list_
  /\ airport_list_' = airport_list_ \cup {a}
  /\ UNCHANGED <<commands, socket_list_, endpointVars, sync, stop>>

\* .SQA: the list is cleared and refilled under one lock.
SqaCommand(S) ==
  /\ ~stop /\ ~AirportsLocked
  /\ commands < MaxCommands
  /\ airport_list_' = S
  /\ commands' = commands + 1
  /\ UNCHANGED <<socket_list_, endpointVars, sync, stop>>

\* ~UniSequence; the main thread then waits in join.
RequestStop ==
  /\ ~stop
  /\ stop' = TRUE
  /\ UNCHANGED <<listVars, socket_list_, endpointVars, sync>>
-----------------------------------------------------------------------------
(* The sync thread *)

Moves(from, to) ==
  /\ sync = from
  /\ sync' = to
  /\ UNCHANGED <<listVars, socket_list_, endpointVars, stop>>

\* The wait is over, by its timeout or by the stop request.
BeginPass == ~stop /\ Moves("waiting", "connecting")
StopSeen == stop /\ Moves("waiting", "destroying")

\* The airports the first loop connects.  The slips connect every listed one,
\* or none that ever had a connection.
Listed(a) == a \in airport_list_
NeverConnected(a) == a \in airport_list_ /\ \A id \in Ids : icao[id] # a
Unserved(a) == a \in airport_list_ /\ a \notin DOMAIN socket_list_

\* m_next_id++: the value before, and the value after.
PreIncrement == m_next_id + 1
NewId == m_next_id
NotIncremented == m_next_id
NextId == m_next_id + 1

\* map::insert keeps an entry that is there.
Insert(map, key, value) ==
  [k \in DOMAIN map \cup {key} |-> IF k \in DOMAIN map THEN map[k] ELSE value]

\* websocket_endpoint::connect never fails in its return value: the handshake
\* goes on in the asio thread.
ConnectAirport(a) ==
  /\ sync = "connecting"
  /\ Unserved(a)
  /\ icao' = Insert(icao, m_next_id, a)
  /\ m_status' = Insert(m_status, m_next_id, "Connecting")
  /\ con' = Insert(con, m_next_id, "connecting")
  /\ socket_list_' = Insert(socket_list_, a, NewId)
  /\ m_next_id' = NextId
  /\ UNCHANGED <<listVars, sync, stop>>

ConnectsDone ==
  /\ \A a \in Airports : ~Unserved(a)
  /\ Moves("connecting", "dropping")

\* endpoint.close closes an open connection; on any other the library only sets
\* the error code, which nobody reads.  The slip forgets to call it.
NoClose(id) == con[id]
Close(id) == IF con[id] = "open" THEN "closing" ELSE con[id]

Dropped(a) == a \in DOMAIN socket_list_ /\ a \notin airport_list_

DropAirport(a) ==
  /\ sync = "dropping"
  /\ Dropped(a)
  /\ con' = [con EXCEPT ![socket_list_[a]] = Close(socket_list_[a])]
  /\ socket_list_' = [b \in DOMAIN socket_list_ \ {a} |-> socket_list_[b]]
  /\ UNCHANGED <<listVars, m_next_id, icao, m_status, sync, stop>>

DropsDone ==
  /\ \A a \in Airports : ~Dropped(a)
  /\ Moves("dropping", "waiting")

\* The connections ~websocket_endpoint closes; the slip takes the socket list.
OfSocketList(id) == \E a \in DOMAIN socket_list_ : socket_list_[a] = id
ToClose(id) == m_status[id] = "Open"

Destroy ==
  /\ sync = "destroying"
  /\ con' = [id \in Ids |-> IF ToClose(id) THEN Close(id) ELSE con[id]]
  /\ sync' = "joining"
  /\ UNCHANGED <<listVars, socket_list_, m_next_id, icao, m_status, stop>>

\* client::run returns when no connection is left to serve.
AsioIdle == \A id \in Ids : con[id] = "terminated"

JoinAsio == AsioIdle /\ Moves("joining", "done")
-----------------------------------------------------------------------------
(* The asio thread: the library, and the handlers it calls.  A connection is     *)
(* open in the library before on_open has recorded it; nothing looks at one      *)
(* between its end and on_fail or on_close.                                      *)

Connection(id, state, status) ==
  /\ con' = [con EXCEPT ![id] = state]
  /\ m_status' = [m_status EXCEPT ![id] = status]
  /\ UNCHANGED <<listVars, socket_list_, m_next_id, icao, sync, stop>>

HandshakeSucceeds(id) ==
  /\ con[id] = "connecting"
  /\ Connection(id, "open", m_status[id])

on_open(id) ==
  /\ con[id] \in {"open", "closing"} /\ m_status[id] = "Connecting"
  /\ Connection(id, con[id], "Open")

on_fail(id) ==
  /\ con[id] = "connecting"
  /\ Connection(id, "terminated", "Failed")

\* The closing handshake is over, or the peer closed.
on_close(id, state) ==
  /\ con[id] = state /\ m_status[id] = "Open"
  /\ Connection(id, "terminated", "Closed")

CloseCompletes(id) == on_close(id, "closing")
PeerCloses(id) == on_close(id, "open")
-----------------------------------------------------------------------------
SyncStep ==
  \/ BeginPass \/ StopSeen \/ ConnectsDone \/ DropsDone \/ Destroy \/ JoinAsio
  \/ \E a \in Airports : ConnectAirport(a) \/ DropAirport(a)

AsioStep ==
  \E id \in Ids : HandshakeSucceeds(id) \/ on_open(id) \/ on_fail(id) \/ CloseCompletes(id)

Next ==
  \/ \E a \in Airports : AddAirportIfNotExist(a)
  \/ \E S \in SUBSET Airports : SqaCommand(S)
  \/ RequestStop
  \/ SyncStep
  \/ AsioStep
  \/ \E id \in Ids : PeerCloses(id)

\* The sync thread is scheduled and its five seconds pass; the asio thread runs
\* and the handshake timeouts end what the server does not.  A server need not
\* ever close an open connection, nor a controller type a command.
Fairness == WF_vars(SyncStep) /\ WF_vars(AsioStep)

Spec == Init /\ [][Next]_vars /\ Fairness
-----------------------------------------------------------------------------
\* The connections in a state; those socket_list_ has for some airports, and for
\* airports that are no longer listed.
ConsIn(state) == {id \in Ids : con[id] = state}
Sockets(S) == {socket_list_[a] : a \in DOMAIN socket_list_ \cap S}
Unwanted == Sockets(Airports \ airport_list_)
\* Every id of a behaviour: a pass adds one per airport, after a command at most.
EveryId == 0..(Cardinality(Airports) * (MaxCommands + 1) - 1)

TypeOK ==
  /\ airport_list_ \subseteq Airports
  /\ m_next_id \in Nat
  /\ icao \in [Ids -> Airports]
  /\ m_status \in [Ids -> Statuses]
  /\ con \in [Ids -> ConStates]
  /\ DOMAIN socket_list_ \subseteq Airports
  /\ sync \in {"waiting", "connecting", "dropping", "destroying", "joining", "done"}
  /\ stop \in BOOLEAN
  /\ commands \in 0..MaxCommands

\* endpoint.close dereferences find(id) without a test (websocket_endpoint.cpp:74-76):
\* every listed id is a connection of the endpoint, and one of its own airport.
SocketsResolve ==
  \A a \in DOMAIN socket_list_ : socket_list_[a] \in Ids /\ icao[socket_list_[a]] = a

\* An airport has no newer connection than the listed one: a pass that finds one
\* in the list opens no second (UniSequence.cpp:43), nor is one left unlisted.
ListedIsNewest ==
  \A a \in DOMAIN socket_list_ : \A id \in Ids : icao[id] = a => id <= socket_list_[a]

\* The whole pass sees one airport list: when it ends, exactly the listed
\* airports have a socket, whatever the main thread tried in between.
PassConverges ==
  [][sync = "dropping" /\ sync' = "waiting" => DOMAIN socket_list_ = airport_list_]_vars

\* An airport that stays listed gets a socket.
AirportServed ==
  \A a \in Airports :
    a \in airport_list_ ~> (a \in DOMAIN socket_list_ \/ a \notin airport_list_ \/ stop)

\* The connection of an airport that was dropped while it was open terminates.
DroppedTerminates ==
  \A id \in EveryId :
    id \in Unwanted \cap ConsIn("open")
      ~> (id \in ConsIn("terminated") \cup Sockets(airport_list_) \/ stop)

\* The destructor of the endpoint returns when no handshake was under way as it
\* looked at the connections: those it drops, loses or never listed included.
QuietShutdownTerminates ==
  (sync = "destroying" /\ \A id \in Ids : m_status[id] # "Connecting") ~> (sync = "done")
-----------------------------------------------------------------------------
(* What the comments claim and the code does not keep *)

\* "If there is a disconnection in ws, remove this socket from the list directly."
\* (UniSequence.cpp:60): nothing removes the socket of a listed airport.
DisconnectedRemoved ==
  \A id \in EveryId :
    (id \in Sockets(Airports) \cap ConsIn("terminated"))
      ~> (id \notin Sockets(Airports) \/ stop)

\* "Delete airports that no longer exist in the local airport list"
\* (UniSequence.cpp:57): between passes an open connection is a listed one.  A
\* connection dropped during its handshake is not closed, opens, and feeds on.
OpenIsListed ==
  sync = "waiting" => \A id \in Ids : con[id] = "open" => OfSocketList(id)

\* "Be sure to clean up all members" (EuroScopePlugIn.h:4940): the destructor, run
\* when the plugin is unloaded, ends.  A connection that opens after it was skipped
\* keeps client::run going, and the join waits as long as the server stays.
ShutdownTerminates == stop ~> (sync = "done")
=============================================================================
