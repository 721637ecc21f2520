----------------------------- MODULE QueueCache -----------------------------
(***************************************************************************)
(* queue_caches_, the plugin's copy of the server's departure queues.  Two *)
(* threads write it through SetQueueFromJson: the patch thread with the    *)
(* body of each answer, the asio thread with each websocket message.  The  *)
(* server keeps one queue per airport, answers a PATCH with the queue it   *)
(* made, and sends every change to every connection of the airport.        *)
(*                                                                         *)
(* The content of a queue is abstracted to the airport it belongs to and   *)
(* the number of changes the server had made to it.                        *)
(***************************************************************************)
EXTENDS Naturals, Sequences

CONSTANTS Airports,
          Links,            \* the websocket connections that can be open at once
          NoAirport,
          Null, NoData, Malformed,
          MaxVersion        \* bound: changes of one queue

Snapshot == [airport : Airports, version : 0..MaxVersion]

ASSUME VersionAssumption == MaxVersion \in Nat
ASSUME TokensAssumption ==
  /\ {Null, NoData, Malformed} \cap Snapshot = {}
  /\ NoAirport \notin Airports
  /\ {"nobody", "answer"} \cap Links = {}

VARIABLES
  queue_caches_,        \* airport -> snapshot, or the null operator[] inserts
  patch,                \* the request in flight, and the body of its answer
  feed,                 \* connection -> the airport it was opened for
  channel,              \* connection -> messages on their way, in order
  server,               \* airport -> changes the server made to its queue
  terminated,           \* an exception left a thread: std::terminate
  writer                \* history: airport -> connection or "answer" that wrote last

clientVars == <<queue_caches_, terminated, writer>>
serverVars == <<feed, channel, server>>
vars == <<clientVars, patch, serverVars>>

Body == Snapshot \cup {NoData, Malformed}
Idle == [state |-> "idle", airport |-> NoAirport, body |-> NoData]

Init ==
  /\ queue_caches_ = <<>>
  /\ patch = Idle
  /\ feed = [l \in Links |-> NoAirport]
  /\ channel = [l \in Links |-> <<>>]
  /\ server = [a \in Airports |-> 0]
  /\ terminated = FALSE
  /\ writer = [a \in Airports |-> "nobody"]
-----------------------------------------------------------------------------
(* The server *)

Current(a) == [airport |-> a, version |-> server[a]]

\* One change, sent to every connection of the airport.
Change(a) ==
  /\ ~terminated
  /\ server[a] < MaxVersion
  /\ server' = [server EXCEPT ![a] = @ + 1]
  /\ channel' = [l \in Links |-> IF feed[l] = a
                                   THEN Append(channel[l], [airport |-> a, version |-> server[a] + 1])
                                   ELSE channel[l]]
  /\ UNCHANGED feed

\* Another controller's doing, or that of a request the plugin gave up.
OtherChange(a) == Change(a) /\ UNCHANGED <<clientVars, patch>>

\* An accepted request; the answer is the new queue, or one the client cannot use.
Accept ==
  /\ patch.state = "sent"
  /\ Change(patch.airport)
  /\ \E body \in {[airport |-> patch.airport, version |-> server[patch.airport] + 1],
                  NoData, Malformed} :
       patch' = [patch EXCEPT !.state = "answered", !.body = body]
  /\ UNCHANGED clientVars

\* A connection opens and gets the queue as it is; one ends, and what was on its
\* way is lost.
Open(l, a) ==
  /\ ~terminated
  /\ feed[l] = NoAirport
  /\ feed' = [feed EXCEPT ![l] = a]
  /\ channel' = [channel EXCEPT ![l] = <<Current(a)>>]
  /\ UNCHANGED <<clientVars, patch, server>>

Close(l) ==
  /\ ~terminated
  /\ feed[l] # NoAirport
  /\ feed' = [feed EXCEPT ![l] = NoAirport]
  /\ channel' = [channel EXCEPT ![l] = <<>>]
  /\ UNCHANGED <<clientVars, patch, server>>
-----------------------------------------------------------------------------
(* The plugin *)

\* queue_caches_[key] = value
Assigned(key, value) ==
  [k \in DOMAIN queue_caches_ \cup {key} |-> IF k = key THEN value ELSE queue_caches_[k]]

\* ["data"]: one that is missing is the null operator[] inserts.  The slip keeps
\* the whole body.
WholeBody(body) == body
DataOf(body) == IF body = NoData THEN Null ELSE body

\* json::parse(content)["data"], under the unique lock of the cache.  What parse
\* throws leaves the thread, whichever of the two it is, before anything is assigned.
SetQueueFromJson(a, body, from) ==
  IF body = Malformed
  THEN /\ terminated' = TRUE
       /\ UNCHANGED <<queue_caches_, writer>>
  ELSE /\ queue_caches_' = Assigned(a, DataOf(body))
       /\ writer' = [writer EXCEPT ![a] = from]
       /\ UNCHANGED terminated

\* A reader's queue_caches_[airport] inserts a null for an airport without queue.
Lookup(a) ==
  /\ ~terminated
  /\ a \notin DOMAIN queue_caches_
  /\ queue_caches_' = Assigned(a, Null)
  /\ UNCHANGED <<terminated, writer, patch, serverVars>>

SendPatch(a) ==
  /\ ~terminated
  /\ patch.state = "idle"
  /\ patch' = [patch EXCEPT !.state = "sent", !.airport = a]
  /\ UNCHANGED <<clientVars, serverVars>>

\* `ap`, copied from the request before it is sent; the slip is a connection's.
LastOpened == IF \E l \in Links : feed[l] # NoAirport
                THEN feed[CHOOSE l \in Links : feed[l] # NoAirport]
                ELSE patch.airport
AnsweredAirport == patch.airport

\* 200: the answer becomes the cache, whatever was written since it was made.
PatchSucceeds ==
  /\ ~terminated
  /\ patch.state = "answered"
  /\ SetQueueFromJson(AnsweredAirport, patch.body, "answer")
  /\ patch' = Idle
  /\ UNCHANGED serverVars

\* 403, another status, or an error of httplib, before or after the server acted.
PatchFails ==
  /\ ~terminated
  /\ patch.state # "idle"
  /\ patch' = Idle
  /\ UNCHANGED <<clientVars, serverVars>>

\* Which text messages reach the cache: all.  The slip waits for the answer first.
WhenIdle == patch.state = "idle"
Taken == TRUE

\* A message is the queue that was sent, or, put between {"data": and }, no JSON.
on_message(l) ==
  /\ ~terminated
  /\ channel[l] # <<>>
  /\ channel' = [channel EXCEPT ![l] = Tail(@)]
  /\ IF Taken THEN \E body \in {Head(channel[l]), Malformed} : SetQueueFromJson(feed[l], body, l)
              ELSE UNCHANGED clientVars
  /\ UNCHANGED <<patch, feed, server>>

Next ==
  \/ \E a \in Airports : OtherChange(a) \/ Lookup(a) \/ SendPatch(a)
  \/ \E l \in Links, a \in Airports : Open(l, a)
  \/ \E l \in Links : Close(l) \/ on_message(l)
  \/ Accept
  \/ PatchSucceeds
  \/ PatchFails

\* The asio thread handles what has arrived.
Fairness == \A l \in Links : WF_vars(on_message(l))

Spec == Init /\ [][Next]_vars /\ Fairness
-----------------------------------------------------------------------------
TypeOK ==
  /\ DOMAIN queue_caches_ \subseteq Airports
  /\ \A a \in DOMAIN queue_caches_ : queue_caches_[a] \in Snapshot \cup {Null}
  /\ patch \in [state : {"idle", "sent", "answered"},
                airport : Airports \cup {NoAirport}, body : Body]
  /\ feed \in [Links -> Airports \cup {NoAirport}]
  /\ channel \in [Links -> Seq(Snapshot)]
  /\ server \in [Airports -> 0..MaxVersion]
  /\ terminated \in BOOLEAN
  /\ writer \in [Airports -> Links \cup {"nobody", "answer"}]

Holds(a) == a \in DOMAIN queue_caches_ /\ queue_caches_[a] # Null

\* The two writers name the airport in different ways, the one by the request, the
\* other by the connection: no queue is ever shown for another airport, and none
\* that the server did not have (UniSequence.cpp:141-147, connection_metadata.cpp:39).
OwnPastQueue ==
  \A a \in Airports : Holds(a) =>
    queue_caches_[a].airport = a /\ queue_caches_[a].version <= server[a]

\* A connection that is open, has nothing on its way and wrote the cache last
\* leaves no difference between the cache and the server: whatever answers came in
\* between, every message was taken, and in order (connection_metadata.cpp:35-41).
\* A message that does not parse is not taken, but ends the program.
DrainedFeedIsCurrent ==
  \A a \in Airports : \A l \in Links :
    (feed[l] = a /\ channel[l] = <<>> /\ writer[a] = l /\ ~terminated)
      => queue_caches_[a] = Current(a)

\* A message on its way, and an airport whose cache holds it or a later one.
Pending(l, v) == \E i \in 1..Len(channel[l]) : channel[l][i].version = v
Shown(l, v) == Holds(feed[l]) /\ queue_caches_[feed[l]].version >= v

\* Every queue sent over a connection that stays open shows up: at some moment the
\* cache holds it or a later one, even while answers overwrite it
\* (connection_metadata.cpp:35-41).
PushesShowUp ==
  \A l \in Links : \A v \in 1..MaxVersion :
    Pending(l, v) ~> (Shown(l, v) \/ feed[l] = NoAirport \/ terminated)
-----------------------------------------------------------------------------
(* What the comments claim and the code does not keep *)

\* "Synchronize status from server" (UniSequence.cpp:609): with one connection of
\* the airport, nothing on its way and no request in flight, the cache is the
\* server's queue.  An answer that is read after a later message was handled puts
\* the older queue back, until the server happens to change it again.
SettledIsCurrent ==
  \A l \in Links :
    (/\ feed[l] # NoAirport /\ channel[l] = <<>> /\ patch = Idle
     /\ \A k \in Links \ {l} : feed[k] # feed[l]
     /\ ~terminated
     /\ Holds(feed[l])) => queue_caches_[feed[l]] = Current(feed[l])
=============================================================================
