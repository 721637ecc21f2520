-------------------------- MODULE QueueCacheProofs --------------------------
(***************************************************************************)
(* Proofs about the queue cache: its types, whose queue it shows, and when *)
(* it is current.                                                          *)
(***************************************************************************)
EXTENDS QueueCache, Integers, TLAPS

\* The messages of an open connection are the last changes of its queue, one by
\* one: what is behind the last of them is nothing.
InOrder ==
  \A l \in Links : \A i \in 1..Len(channel[l]) :
    /\ feed[l] \in Airports
    /\ channel[l][i].airport = feed[l]
    /\ channel[l][i].version = server[feed[l]] - Len(channel[l]) + i

\* A request in flight has an airport, and its answer is a queue the server had.
Answered ==
  /\ patch.state # "idle" => patch.airport \in Airports
  /\ (patch.state = "answered" /\ patch.body \notin {NoData, Malformed}) =>
       patch.body.airport = patch.airport /\ patch.body.version <= server[patch.airport]

\* What was written is in the cache.
Written == \A a \in Airports : writer[a] # "nobody" => a \in DOMAIN queue_caches_

IInv ==
  /\ TypeOK
  /\ InOrder
  /\ Answered
  /\ Written
  /\ OwnPastQueue
  /\ DrainedFeedIsCurrent
-----------------------------------------------------------------------------
LEMMA Initially == Init => IInv
<1> SUFFICES ASSUME Init PROVE IInv
  OBVIOUS
<1> USE DEF Init
<1>1. DOMAIN queue_caches_ = {}
  <2>1. DOMAIN queue_caches_ = 1..0
    OBVIOUS
  <2> QED
    BY <2>1
<1>2. TypeOK
  <2>1. patch \in [state : {"idle", "sent", "answered"},
                   airport : Airports \cup {NoAirport}, body : Body]
    BY DEF Idle, Body
  <2>2. server \in [Airports -> 0..MaxVersion]
    BY VersionAssumption
  <2>3. channel \in [Links -> Seq(Snapshot)]
    <3>1. <<>> \in Seq(Snapshot)
      OBVIOUS
    <3> QED
      BY <3>1
  <2> QED
    BY <1>1, <2>1, <2>2, <2>3 DEF TypeOK
<1>3. InOrder
  <2>1. \A l \in Links : Len(channel[l]) = 0
    OBVIOUS
  <2> QED
    BY <2>1 DEF InOrder
<1>4. Answered /\ Written
  BY DEF Answered, Written, Idle
<1>5. OwnPastQueue
  BY <1>1 DEF OwnPastQueue, Holds
<1>6. DrainedFeedIsCurrent
  BY TokensAssumption DEF DrainedFeedIsCurrent
<1> QED
  BY <1>2, <1>3, <1>4, <1>5, <1>6 DEF IInv

\* What a change of a's queue does to the messages on their way.
LEMMA ChangeInOrder ==
  ASSUME TypeOK, InOrder, NEW a \in Airports, Change(a)
  PROVE  /\ channel' \in [Links -> Seq(Snapshot)]
         /\ server' \in [Airports -> 0..MaxVersion]
         /\ InOrder'
         /\ \A b \in Airports : server[b] <= server'[b]
<1> USE VersionAssumption DEF TypeOK, Change
<1> DEFINE msg == [airport |-> a, version |-> server[a] + 1]
<1>1. server[a] + 1 \in 0..MaxVersion
  OBVIOUS
<1>2. server' \in [Airports -> 0..MaxVersion]
  BY <1>1
<1>3. msg \in Snapshot
  BY <1>1 DEF Snapshot
<1>4. \A l \in Links : channel'[l] = IF feed[l] = a THEN Append(channel[l], msg) ELSE channel[l]
  OBVIOUS
<1>5. \A l \in Links : channel'[l] \in Seq(Snapshot)
  BY <1>3, <1>4
<1>6. channel' \in [Links -> Seq(Snapshot)]
  BY <1>5
<1>7. \A b \in Airports : server[b] <= server'[b]
  OBVIOUS
<1>8. InOrder'
  <2> SUFFICES ASSUME NEW l \in Links, NEW i \in 1..Len(channel'[l])
               PROVE  /\ feed'[l] \in Airports
                      /\ channel'[l][i].airport = feed'[l]
                      /\ channel'[l][i].version = server'[feed'[l]] - Len(channel'[l]) + i
    BY DEF InOrder
  <2>1. channel[l] \in Seq(Snapshot) /\ feed' = feed
    OBVIOUS
  <2>2. CASE feed[l] = a
    <3>1. channel'[l] = Append(channel[l], msg) /\ Len(channel'[l]) = Len(channel[l]) + 1
      BY <2>1, <2>2, <1>3, <1>4
    <3>2. server'[a] = server[a] + 1 /\ server[a] \in Nat
      OBVIOUS
    <3>3. CASE i = Len(channel[l]) + 1
      <4>1. channel'[l][i] = msg
        BY <3>1, <3>3, <2>1, <1>3
      <4> QED
        BY <4>1, <3>1, <3>2, <3>3, <2>1, <2>2
    <3>4. CASE i \in 1..Len(channel[l])
      <4>1. channel'[l][i] = channel[l][i]
        BY <3>1, <3>4, <2>1, <1>3
      <4>2. /\ channel[l][i].airport = feed[l]
            /\ channel[l][i].version = server[feed[l]] - Len(channel[l]) + i
        BY <3>4 DEF InOrder
      <4> QED
        BY <4>1, <4>2, <3>1, <3>2, <2>1, <2>2
    <3> QED
      BY <3>1, <3>3, <3>4, <2>1
  <2>3. CASE feed[l] # a
    <3>1. channel'[l] = channel[l]
      BY <2>3, <1>4
    <3>2. feed[l] \in Airports
      BY <3>1 DEF InOrder
    <3>3. server'[feed[l]] = server[feed[l]]
      BY <2>3, <3>2
    <3> QED
      BY <3>1, <3>3, <2>1 DEF InOrder
  <2> QED
    BY <2>2, <2>3
<1> QED
  BY <1>2, <1>6, <1>7, <1>8

\* A change leaves no connection of its airport without a message, and what the
\* cache shows stays a queue the server had.
LEMMA ChangeKeeps ==
  ASSUME IInv, NEW a \in Airports, Change(a), UNCHANGED clientVars
  PROVE  OwnPastQueue' /\ DrainedFeedIsCurrent' /\ Written'
<1> USE VersionAssumption DEF IInv, TypeOK, clientVars
<1>1. \A b \in Airports : server[b] <= server'[b]
  BY ChangeInOrder
<1>2. OwnPastQueue'
  <2> SUFFICES ASSUME NEW b \in Airports, Holds(b)'
               PROVE  (queue_caches_[b].airport = b /\ queue_caches_[b].version <= server[b])'
    BY DEF OwnPastQueue
  <2>1. Holds(b) /\ queue_caches_' = queue_caches_
    BY DEF Holds
  <2>2. queue_caches_[b] \in Snapshot
    BY <2>1 DEF Holds
  <2>3. queue_caches_[b].version \in Nat /\ server[b] \in Nat /\ server'[b] \in Nat
    <3>1. server' \in [Airports -> 0..MaxVersion]
      BY ChangeInOrder
    <3> QED
      BY <2>2, <3>1 DEF Snapshot
  <2> QED
    BY <2>1, <2>3, <1>1 DEF OwnPastQueue
<1>3. DrainedFeedIsCurrent'
  <2> SUFFICES ASSUME NEW b \in Airports, NEW l \in Links,
                      (feed[l] = b /\ channel[l] = <<>> /\ writer[b] = l /\ ~terminated)'
               PROVE  (queue_caches_[b] = Current(b))'
    BY DEF DrainedFeedIsCurrent
  <2>1. feed[l] = b /\ channel[l] \in Seq(Snapshot)
    BY DEF Change
  <2>2. b # a
    <3> SUFFICES ASSUME b = a PROVE FALSE
      OBVIOUS
    <3>1. channel'[l] = Append(channel[l], [airport |-> a, version |-> server[a] + 1])
      BY <2>1 DEF Change
    <3> QED
      BY <3>1, <2>1
  <2>3. channel[l] = <<>> /\ server'[b] = server[b]
    BY <2>1, <2>2 DEF Change
  <2> QED
    BY <2>1, <2>3 DEF DrainedFeedIsCurrent, Current
<1>4. Written'
  BY DEF Written
<1> QED
  BY <1>2, <1>3, <1>4
-----------------------------------------------------------------------------
\* A write of the cache: a body of a that is its own queue, null, or unusable.
LEMMA SetKeeps ==
  ASSUME IInv, NEW a \in Airports, NEW body \in Body, NEW from \in Links \cup {"answer"},
         SetQueueFromJson(a, body, from), UNCHANGED server,
         body \notin {NoData, Malformed} => body.airport = a /\ body.version <= server[a]
  PROVE  /\ DOMAIN queue_caches_' \subseteq Airports
         /\ \A b \in DOMAIN queue_caches_' : queue_caches_'[b] \in Snapshot \cup {Null}
         /\ terminated' \in BOOLEAN
         /\ writer' \in [Airports -> Links \cup {"nobody", "answer"}]
         /\ OwnPastQueue'
         /\ Written'
<1> USE DEF IInv, TypeOK
<1>1. CASE body = Malformed
  <2>1. queue_caches_' = queue_caches_ /\ writer' = writer /\ terminated' = TRUE
    BY <1>1 DEF SetQueueFromJson
  <2> QED
    BY <2>1 DEF OwnPastQueue, Written, Holds
<1>2. CASE body # Malformed
  <2> DEFINE value == DataOf(body)
  <2>1. /\ queue_caches_' = Assigned(a, value)
        /\ writer' = [writer EXCEPT ![a] = from]
        /\ terminated' = terminated
    BY <1>2 DEF SetQueueFromJson
  <2>2. value = Null \/ (value \in Snapshot /\ value.airport = a /\ value.version <= server[a])
    BY <1>2 DEF DataOf, Body
  <2> HIDE DEF value
  <2>3. /\ DOMAIN queue_caches_' = DOMAIN queue_caches_ \cup {a}
        /\ \A b \in DOMAIN queue_caches_' :
             queue_caches_'[b] = IF b = a THEN value ELSE queue_caches_[b]
    BY <2>1 DEF Assigned
  <2>4. OwnPastQueue'
    BY <2>2, <2>3 DEF OwnPastQueue, Holds
  <2>5. writer' \in [Airports -> Links \cup {"nobody", "answer"}]
    BY <2>1
  <2>6. Written'
    BY <2>1, <2>3 DEF Written
  <2>7. terminated' \in BOOLEAN
    BY <2>1
  <2> QED
    BY <2>2, <2>3, <2>4, <2>5, <2>6, <2>7
<1> QED
  BY <1>1, <1>2

\* A thread's message is the next change of its queue, and the last one is the
\* queue as it is.
LEMMA MessageKeeps ==
  ASSUME IInv, NEW l \in Links, on_message(l)
  PROVE  IInv'
<1> USE VersionAssumption, TokensAssumption DEF IInv, TypeOK
<1> DEFINE a == feed[l]
           m == Head(channel[l])
<1>1. /\ channel[l] # <<>> /\ channel[l] \in Seq(Snapshot)
      /\ channel' = [channel EXCEPT ![l] = Tail(@)]
      /\ SetQueueFromJson(a, m, l) \/ SetQueueFromJson(a, Malformed, l)
      /\ patch' = patch /\ feed' = feed /\ server' = server
      /\ ~terminated
  BY DEF on_message, Taken
<1>2. Len(channel[l]) \in Nat \ {0}
  BY <1>1
<1>3. /\ a \in Airports
      /\ m \in Snapshot /\ m = channel[l][1]
      /\ m.airport = a
      /\ m.version = server[a] - Len(channel[l]) + 1
  BY <1>1, <1>2 DEF InOrder
<1>4. m \in Body /\ m \notin {NoData, Malformed, Null}
  BY <1>3 DEF Body
<1>5. server[a] \in Nat
  BY <1>3
<1>6. m.version <= server[a]
  BY <1>2, <1>3, <1>5
<1> HIDE DEF a, m
<1>7. /\ Len(Tail(channel[l])) = Len(channel[l]) - 1
      /\ \A i \in 1..Len(channel[l]) - 1 : Tail(channel[l])[i] = channel[l][i + 1]
      /\ Tail(channel[l]) \in Seq(Snapshot)
  BY <1>1
<1>8. InOrder'
  <2> SUFFICES ASSUME NEW k \in Links, NEW i \in 1..Len(channel'[k])
               PROVE  /\ feed'[k] \in Airports
                      /\ channel'[k][i].airport = feed'[k]
                      /\ channel'[k][i].version = server'[feed'[k]] - Len(channel'[k]) + i
    BY DEF InOrder
  <2>1. CASE k = l
    <3>1. channel'[k] = Tail(channel[l])
      BY <1>1, <2>1
    <3>2. i \in 1..Len(channel[l]) - 1 /\ i + 1 \in 1..Len(channel[l])
      BY <3>1, <1>2, <1>7
    <3>3. channel'[k][i] = channel[l][i + 1] /\ Len(channel'[k]) = Len(channel[l]) - 1
      BY <3>1, <3>2, <1>7
    <3>4. /\ channel[l][i + 1].airport = feed[l]
          /\ channel[l][i + 1].version = server[feed[l]] - Len(channel[l]) + (i + 1)
      BY <3>2 DEF InOrder
    <3> QED
      BY <3>2, <3>3, <3>4, <1>1, <1>2, <1>3, <1>5, <2>1 DEF a
  <2>2. CASE k # l
    <3>1. channel'[k] = channel[k]
      BY <1>1, <2>2
    <3> QED
      BY <3>1, <1>1 DEF InOrder
  <2> QED
    BY <2>1, <2>2
<1>9. /\ DOMAIN queue_caches_' \subseteq Airports
      /\ \A b \in DOMAIN queue_caches_' : queue_caches_'[b] \in Snapshot \cup {Null}
      /\ terminated' \in BOOLEAN
      /\ writer' \in [Airports -> Links \cup {"nobody", "answer"}]
      /\ OwnPastQueue' /\ Written'
  <2>1. l \in Links \cup {"answer"} /\ Malformed \in Body
    BY DEF Body
  <2> HIDE DEF IInv, TypeOK
  <2>2. CASE SetQueueFromJson(a, m, l)
    BY <1>1, <1>3, <1>4, <1>6, <2>1, <2>2, SetKeeps
  <2>3. CASE SetQueueFromJson(a, Malformed, l)
    BY <1>1, <1>3, <2>1, <2>3, SetKeeps
  <2> QED
    BY <1>1, <2>2, <2>3
<1>10. channel' \in [Links -> Seq(Snapshot)]
  BY <1>1, <1>7
<1>11. DrainedFeedIsCurrent'
  <2> SUFFICES ASSUME NEW b \in Airports, NEW k \in Links,
                      (feed[k] = b /\ channel[k] = <<>> /\ writer[b] = k /\ ~terminated)'
               PROVE  (queue_caches_[b] = Current(b))'
    BY DEF DrainedFeedIsCurrent
  <2>1. /\ queue_caches_' = Assigned(a, m)
        /\ writer' = [writer EXCEPT ![a] = l]
    BY <1>1, <1>4 DEF SetQueueFromJson, DataOf
  <2>2. CASE b = a
    <3>1. k = l /\ queue_caches_'[a] = m
      BY <2>1, <2>2, <1>3 DEF Assigned
    <3>2. Len(channel[l]) = 1
      <4>1. channel'[l] = Tail(channel[l])
        BY <1>1
      <4>2. Tail(channel[l]) = <<>>
        BY <4>1, <3>1
      <4> DEFINE rest == Tail(channel[l])
      <4> HIDE DEF rest
      <4>3. Len(rest) = 0
        <5>1. rest = <<>>
          BY <4>2 DEF rest
        <5> QED
          BY <5>1
      <4> QED
        BY <4>3, <1>2, <1>7 DEF rest
    <3>3. m.version = server[a]
      BY <3>2, <1>3, <1>5
    <3>4. m = [airport |-> a, version |-> server[a]]
      BY <3>3, <1>3 DEF Snapshot
    <3> QED
      BY <3>1, <3>4, <2>2, <1>1 DEF Current
  <2>3. CASE b # a
    <3>1. k # l
      BY <2>3, <1>1 DEF a
    <3>2. feed[k] = b /\ channel[k] = <<>> /\ writer[b] = k
      BY <3>1, <2>1, <2>3, <1>1
    <3>3. queue_caches_[b] = Current(b)
      BY <1>1, <3>2 DEF DrainedFeedIsCurrent
    <3>4. b \in DOMAIN queue_caches_
      BY <3>2 DEF Written
    <3>5. queue_caches_'[b] = queue_caches_[b]
      BY <3>4, <2>1, <2>3 DEF Assigned
    <3> QED
      BY <3>3, <3>5, <1>1 DEF Current
  <2> QED
    BY <2>2, <2>3
<1>12. Answered'
  BY <1>1 DEF Answered
<1> QED
  BY <1>1, <1>8, <1>9, <1>10, <1>11, <1>12

\* An answer is the queue the server made for its own request, or an earlier one
\* by now.
LEMMA AnswerKeeps ==
  ASSUME IInv, PatchSucceeds
  PROVE  IInv'
<1>1. /\ patch.airport \in Airports /\ patch.body \in Body
      /\ patch.state = "answered"
      /\ SetQueueFromJson(patch.airport, patch.body, "answer")
      /\ patch' = Idle /\ feed' = feed /\ channel' = channel /\ server' = server
      /\ ~terminated
  BY DEF IInv, TypeOK, Answered, PatchSucceeds, AnsweredAirport, serverVars
<1>2. patch.body \notin {NoData, Malformed} =>
        patch.body.airport = patch.airport /\ patch.body.version <= server[patch.airport]
  BY <1>1 DEF IInv, Answered
<1>3. /\ DOMAIN queue_caches_' \subseteq Airports
      /\ \A b \in DOMAIN queue_caches_' : queue_caches_'[b] \in Snapshot \cup {Null}
      /\ terminated' \in BOOLEAN
      /\ writer' \in [Airports -> Links \cup {"nobody", "answer"}]
      /\ OwnPastQueue' /\ Written'
  <2>1. "answer" \in Links \cup {"answer"}
    OBVIOUS
  <2> QED
    BY <1>1, <1>2, <2>1, SetKeeps
<1>4. TypeOK' /\ InOrder' /\ Answered'
  BY <1>1, <1>3 DEF IInv, TypeOK, InOrder, Answered, Idle, Body
<1>5. DrainedFeedIsCurrent'
  <2> SUFFICES ASSUME NEW b \in Airports, NEW l \in Links,
                      (feed[l] = b /\ channel[l] = <<>> /\ writer[b] = l /\ ~terminated)'
               PROVE  (queue_caches_[b] = Current(b))'
    BY DEF DrainedFeedIsCurrent
  <2>1. writer \in [Airports -> Links \cup {"nobody", "answer"}] /\ "answer" # l
    BY TokensAssumption DEF IInv, TypeOK
  <2>2. CASE patch.body = Malformed
    BY <1>1, <2>2 DEF SetQueueFromJson
  <2>3. CASE patch.body # Malformed
    <3>1. /\ queue_caches_' = Assigned(patch.airport, DataOf(patch.body))
          /\ writer' = [writer EXCEPT ![patch.airport] = "answer"]
      BY <1>1, <2>3 DEF SetQueueFromJson
    <3>2. b # patch.airport /\ writer[b] = l
      BY <3>1, <2>1, <1>1
    <3>3. b \in DOMAIN queue_caches_
      BY <3>2, <2>1, TokensAssumption DEF IInv, Written
    <3>4. queue_caches_'[b] = queue_caches_[b]
      BY <3>1, <3>2, <3>3 DEF Assigned
    <3> QED
      BY <3>2, <3>4, <1>1 DEF IInv, DrainedFeedIsCurrent, Current
  <2> QED
    BY <2>2, <2>3
<1> QED
  BY <1>3, <1>4, <1>5 DEF IInv

LEMMA ChangesKeep ==
  ASSUME IInv
  PROVE  /\ \A a \in Airports : OtherChange(a) => IInv'
         /\ Accept => IInv'
<1>1. ASSUME NEW a \in Airports, OtherChange(a) PROVE IInv'
  <2>1. Change(a) /\ UNCHANGED <<clientVars, patch>>
    BY <1>1 DEF OtherChange
  <2>2. /\ channel' \in [Links -> Seq(Snapshot)] /\ server' \in [Airports -> 0..MaxVersion]
        /\ InOrder'
        /\ \A b \in Airports : server[b] <= server'[b]
    BY <2>1, ChangeInOrder DEF IInv
  <2>3. OwnPastQueue' /\ DrainedFeedIsCurrent' /\ Written'
    BY <2>1, ChangeKeeps
  <2>4. TypeOK'
    BY <2>1, <2>2 DEF IInv, TypeOK, clientVars, Change
  <2>5. Answered'
    <3>1. patch' = patch /\ patch.body \in Body
      BY <2>1 DEF IInv, TypeOK
    <3> SUFFICES ASSUME patch.state = "answered", patch.body \notin {NoData, Malformed}
                 PROVE  patch.body.airport = patch.airport
                          /\ patch.body.version <= server'[patch.airport]
      BY <3>1 DEF IInv, Answered
    <3>2. patch.body.airport = patch.airport /\ patch.body.version <= server[patch.airport]
      BY DEF IInv, Answered
    <3>3. patch.airport \in Airports /\ patch.body \in Snapshot
      BY <3>1 DEF Body, IInv, Answered
    <3>4. /\ patch.body.version \in Nat
          /\ server[patch.airport] \in Nat /\ server'[patch.airport] \in Nat
      BY <3>3, <2>2, VersionAssumption DEF Snapshot, IInv, TypeOK
    <3> QED
      BY <3>2, <3>3, <3>4, <2>2
  <2> QED
    BY <2>2, <2>3, <2>4, <2>5 DEF IInv
<1>2. ASSUME Accept PROVE IInv'
  <2> DEFINE a == patch.airport
             made == [airport |-> a, version |-> server[a] + 1]
  <2>1. a \in Airports /\ Change(a) /\ UNCHANGED clientVars
    BY <1>2 DEF Accept, IInv, Answered
  <2>2. PICK body \in {made, NoData, Malformed} :
          patch' = [patch EXCEPT !.state = "answered", !.body = body]
    BY <1>2 DEF Accept
  <2>3. /\ channel' \in [Links -> Seq(Snapshot)] /\ server' \in [Airports -> 0..MaxVersion]
        /\ InOrder'
    BY <2>1, ChangeInOrder DEF IInv
  <2>4. OwnPastQueue' /\ DrainedFeedIsCurrent' /\ Written'
    BY <2>1, ChangeKeeps
  <2>5. server'[a] = server[a] + 1 /\ server'[a] \in 0..MaxVersion /\ server[a] \in Nat
    BY <2>1, <2>3, VersionAssumption DEF Change, IInv, TypeOK
  <2>6. made \in Snapshot
    BY <2>1, <2>5, VersionAssumption DEF Snapshot
  <2>7. patch' \in [state : {"idle", "sent", "answered"},
                    airport : Airports \cup {NoAirport}, body : Body]
    BY <2>2, <2>6 DEF IInv, TypeOK, Body
  <2>8. TypeOK'
    BY <2>1, <2>3, <2>7 DEF IInv, TypeOK, clientVars, Change
  <2>9. patch'.airport = a /\ patch'.body = body /\ patch'.state = "answered"
    BY <2>2 DEF IInv, TypeOK
  <2>10. body \notin {NoData, Malformed} => body.airport = a /\ body.version <= server'[a]
    BY <2>5
  <2>11. Answered'
    BY <2>1, <2>9, <2>10 DEF Answered
  <2> QED
    BY <2>3, <2>4, <2>8, <2>11 DEF IInv
<1> QED
  BY <1>1, <1>2

LEMMA ConnectionsKeep ==
  ASSUME IInv, NEW l \in Links
  PROVE  /\ \A a \in Airports : Open(l, a) => IInv'
         /\ Close(l) => IInv'
<1> USE VersionAssumption, TokensAssumption
<1>1. ASSUME NEW a \in Airports, Open(l, a) PROVE IInv'
  <2>1. /\ feed' = [feed EXCEPT ![l] = a]
        /\ channel' = [channel EXCEPT ![l] = <<Current(a)>>]
        /\ UNCHANGED <<clientVars, patch, server>>
    BY <1>1 DEF Open
  <2>2. Current(a) \in Snapshot
    BY DEF Current, Snapshot, IInv, TypeOK
  <2>3. TypeOK'
    <3>1. <<Current(a)>> \in Seq(Snapshot)
      BY <2>2
    <3> QED
      BY <2>1, <3>1 DEF IInv, TypeOK, clientVars
  <2>4. \A k \in Links : IF k = l THEN feed'[k] = a /\ channel'[k] = <<Current(a)>>
                                   ELSE feed'[k] = feed[k] /\ channel'[k] = channel[k]
    BY <2>1 DEF IInv, TypeOK
  <2>5. InOrder'
    <3> SUFFICES ASSUME NEW k \in Links, NEW i \in 1..Len(channel'[k])
                 PROVE  /\ feed'[k] \in Airports
                        /\ channel'[k][i].airport = feed'[k]
                        /\ channel'[k][i].version = server'[feed'[k]] - Len(channel'[k]) + i
      BY DEF InOrder
    <3>1. CASE k = l
      <4> DEFINE c == Current(a)
      <4> HIDE DEF c
      <4>0. channel'[k] = <<c>>
        BY <2>4, <3>1 DEF c
      <4>1. Len(channel'[k]) = 1 /\ i = 1 /\ channel'[k][1] = Current(a)
        BY <4>0 DEF c
      <4>2. server[a] \in Nat
        BY DEF IInv, TypeOK
      <4> QED
        BY <4>1, <4>2, <2>1, <2>4, <3>1 DEF Current
    <3>2. CASE k # l
      BY <2>1, <2>4, <3>2 DEF IInv, InOrder
    <3> QED
      BY <3>1, <3>2
  <2>6. DrainedFeedIsCurrent'
    <3>1. channel'[l] # <<>>
      BY <2>4
    <3> QED
      BY <2>1, <2>4, <3>1 DEF IInv, DrainedFeedIsCurrent, Current, clientVars
  <2>7. Answered' /\ Written' /\ OwnPastQueue'
    BY <2>1 DEF IInv, Answered, Written, OwnPastQueue, Holds, clientVars
  <2> QED
    BY <2>3, <2>5, <2>6, <2>7 DEF IInv
<1>2. ASSUME Close(l) PROVE IInv'
  <2>1. /\ feed' = [feed EXCEPT ![l] = NoAirport]
        /\ channel' = [channel EXCEPT ![l] = <<>>]
        /\ UNCHANGED <<clientVars, patch, server>>
    BY <1>2 DEF Close
  <2>2. \A k \in Links : IF k = l THEN feed'[k] = NoAirport /\ channel'[k] = <<>>
                                   ELSE feed'[k] = feed[k] /\ channel'[k] = channel[k]
    BY <2>1 DEF IInv, TypeOK
  <2>3. TypeOK'
    <3>1. <<>> \in Seq(Snapshot)
      OBVIOUS
    <3> QED
      BY <2>1, <3>1 DEF IInv, TypeOK, clientVars
  <2>4. InOrder'
    BY <2>1, <2>2 DEF IInv, InOrder
  <2>5. DrainedFeedIsCurrent'
    BY <2>1, <2>2 DEF IInv, DrainedFeedIsCurrent, Current, clientVars
  <2>6. Answered' /\ Written' /\ OwnPastQueue'
    BY <2>1 DEF IInv, Answered, Written, OwnPastQueue, Holds, clientVars
  <2> QED
    BY <2>3, <2>4, <2>5, <2>6 DEF IInv
<1> QED
  BY <1>1, <1>2

LEMMA ReadsAndRequestsKeep ==
  ASSUME IInv
  PROVE  /\ \A a \in Airports : Lookup(a) => IInv'
         /\ \A a \in Airports : SendPatch(a) => IInv'
         /\ PatchFails => IInv'
<1>1. ASSUME NEW a \in Airports, Lookup(a) PROVE IInv'
  <2>1. /\ a \notin DOMAIN queue_caches_
        /\ queue_caches_' = Assigned(a, Null)
        /\ UNCHANGED <<terminated, writer, patch, serverVars>>
    BY <1>1 DEF Lookup
  <2>2. /\ DOMAIN queue_caches_' = DOMAIN queue_caches_ \cup {a}
        /\ \A b \in DOMAIN queue_caches_' :
             queue_caches_'[b] = IF b = a THEN Null ELSE queue_caches_[b]
    BY <2>1 DEF Assigned
  <2>3. TypeOK' /\ InOrder' /\ Answered'
    BY <2>1, <2>2 DEF IInv, TypeOK, InOrder, Answered, serverVars
  <2>4. Written' /\ OwnPastQueue'
    BY <2>1, <2>2 DEF IInv, Written, OwnPastQueue, Holds, serverVars
  <2>5. DrainedFeedIsCurrent'
    <3> SUFFICES ASSUME NEW b \in Airports, NEW l \in Links,
                        feed[l] = b, channel[l] = <<>>, writer[b] = l, ~terminated
                 PROVE  queue_caches_'[b] = Current(b)
      BY <2>1 DEF DrainedFeedIsCurrent, Current, serverVars
    <3>1. b \in DOMAIN queue_caches_ /\ queue_caches_[b] = Current(b)
      BY TokensAssumption DEF IInv, Written, DrainedFeedIsCurrent
    <3> QED
      BY <3>1, <2>1, <2>2
  <2> QED
    BY <2>3, <2>4, <2>5 DEF IInv
<1>2. ASSUME NEW a \in Airports, SendPatch(a) PROVE IInv'
  <2>1. patch.state = "idle" /\ UNCHANGED <<clientVars, serverVars>>
        /\ patch' = [patch EXCEPT !.state = "sent", !.airport = a]
    BY <1>2 DEF SendPatch
  <2>2. TypeOK' /\ Answered'
    BY <2>1 DEF IInv, TypeOK, Answered, clientVars, serverVars
  <2> QED
    BY <2>1, <2>2 DEF IInv, InOrder, Written, OwnPastQueue, Holds,
                      DrainedFeedIsCurrent, Current, clientVars, serverVars
<1>3. ASSUME PatchFails PROVE IInv'
  <2>1. patch' = Idle /\ UNCHANGED <<clientVars, serverVars>>
    BY <1>3 DEF PatchFails
  <2>2. TypeOK' /\ Answered'
    BY <2>1 DEF IInv, TypeOK, Answered, Idle, Body, clientVars, serverVars
  <2> QED
    BY <2>1, <2>2 DEF IInv, InOrder, Written, OwnPastQueue, Holds,
                      DrainedFeedIsCurrent, Current, clientVars, serverVars
<1> QED
  BY <1>1, <1>2, <1>3

LEMMA Step == IInv /\ [Next]_vars => IInv'
<1> SUFFICES ASSUME IInv, [Next]_vars PROVE IInv'
  OBVIOUS
<1>1. CASE Next
  BY <1>1, ChangesKeep, ConnectionsKeep, ReadsAndRequestsKeep, MessageKeeps, AnswerKeeps DEF Next
<1>2. CASE UNCHANGED vars
  BY <1>2 DEF vars, clientVars, serverVars, IInv, TypeOK, InOrder, Answered, Written,
              OwnPastQueue, Holds, DrainedFeedIsCurrent, Current
<1> QED
  BY <1>1, <1>2
-----------------------------------------------------------------------------
\* The inductive invariant of the queue cache holds in every reachable state.
THEOREM Invariance == Spec => []IInv
  BY Initially, Step, PTL DEF Spec

\* Types, for any airports, connections and number of changes (cpp:338-342).
THEOREM TypeCorrectness == Spec => []TypeOK
<1>1. IInv => TypeOK
  BY DEF IInv
<1> QED
  BY <1>1, Invariance, PTL

\* The cache never shows another airport's queue, nor one the server did not have
\* (cpp:141-147, connection_metadata.cpp:39).
THEOREM ShowsOwnPast == Spec => []OwnPastQueue
<1>1. IInv => OwnPastQueue
  BY DEF IInv
<1> QED
  BY <1>1, Invariance, PTL

\* A drained connection that wrote the cache last left it current
\* (connection_metadata.cpp:35-41).
THEOREM DrainedIsCurrent == Spec => []DrainedFeedIsCurrent
<1>1. IInv => DrainedFeedIsCurrent
  BY DEF IInv
<1> QED
  BY <1>1, Invariance, PTL

=============================================================================
