------------------------- MODULE TagFunctionsProofs -------------------------
(***************************************************************************)
(* Proofs for TagFunctions, for any aircraft and queues of any length:     *)
(* its types, and that a list never leads to an aircraft before itself.    *)
(***************************************************************************)
EXTENDS TagFunctions, QueueViewProofs

\* The list that is open, and the one the last choice came from, leave out the
\* aircraft they were opened for.
LeavesOut(p) == p.kind = "list" => p.for \in Aircraft /\ p.for \notin p.elements

\* The node of a handler is that of its aircraft.
OwnNode == thisAc # NoNode => thisAc.callsign = fp

\* A handler of a choice runs with an element of the popup it came from, and what
\* was asked for is such an element.
FromPopup ==
  /\ stage \in {"switch_to", "reorder_edited"} =>
       key \in request.via.elements /\ request.callsign = NoAircraft
  /\ request.callsign # NoAircraft => request.what \in request.via.elements

IInv ==
  /\ TypeOK
  /\ OwnNode
  /\ LeavesOut(popup)
  /\ LeavesOut(request.via)
  /\ FromPopup
-----------------------------------------------------------------------------
LEMMA QueuesAreSequences ==
  ASSUME NEW q \in Queues
  PROVE  /\ q \in Seq(Node)
         /\ Len(q) \in Nat /\ \A n \in 1..Len(q) : q[n] \in Node
<1>1. PICK n \in 0..MaxQueue : q \in [1..n -> Node]
  BY DEF Queues
<1>2. n \in Nat
  BY AheadAssumption
<1>3. q \in Seq(Node)
  BY <1>1, <1>2
<1> QED
  BY <1>3

LEMMA NodeType ==
  ASSUME NEW ah \in Nat, NEW q \in Queues, NEW a \in Aircraft
  PROVE  LET node == GetManagedAircraft(ah, q, a) IN
         /\ node \in SeqNode \cup {NoNode}
         /\ node # NoNode => node.callsign = a
<1>1. CASE ~Listed(q, a)
  BY <1>1 DEF GetManagedAircraft
<1>2. CASE Listed(q, a)
  <2>1. FirstNode(q, a) \in 1..Len(q) /\ q[FirstNode(q, a)] \in Node
    BY <1>2, FirstNodeIsFirst, QueuesAreSequences
  <2>2. ah + FirstNode(q, a) \in Nat
    BY <2>1, QueuesAreSequences
  <2> QED
    BY <1>2, <2>1, <2>2 DEF GetManagedAircraft, Node, SeqNode
<1> QED
  BY <1>1, <1>2

LEMMA OfferedLeavesOut ==
  ASSUME NEW q \in Queues, NEW ac \in SeqNode
  PROVE  /\ Offered(q, ac) \in SUBSET Aircraft
         /\ ac.callsign \notin Offered(q, ac)
BY QueuesAreSequences DEF Offered, Node
-----------------------------------------------------------------------------
LEMMA Initially == Init => IInv
BY DEF Init, IInv, TypeOK, OwnNode, LeavesOut, FromPopup, NoPopup, NoRequest, Popups, Keys

LEMMA CallsKeep ==
  ASSUME IInv, NEW f \in {"switch_status", "switch_to", "reorder", "reorder_select", "reorder_edited"},
         NEW k \in Keys \cup Status, OnFunctionCall(f, k)
  PROVE  /\ fp' \in Aircraft /\ thisAc' \in SeqNode \cup {NoNode} /\ OwnNode'
         /\ stage' = f /\ key' = k
         /\ UNCHANGED <<queue, ahead, selected>>
<1>1. queue \in Queues /\ ahead \in Nat /\ selected \in Aircraft
  BY AheadAssumption DEF IInv, TypeOK, OnFunctionCall
<1>2. LET node == GetManagedAircraft(ahead, queue, selected) IN
        node \in SeqNode \cup {NoNode} /\ (node # NoNode => node.callsign = selected)
  BY <1>1, NodeType
<1> QED
  BY <1>1, <1>2 DEF OnFunctionCall, OwnNode

LEMMA PopupsOpen ==
  ASSUME IInv, stage # "idle"
  PROVE  /\ OpenStatusAsignMenu => IInv'
         /\ ReorderAircraftByEdit => IInv'
         /\ ReorderAircraftBySelect => IInv'
<1>1. fp \in Aircraft /\ thisAc \in SeqNode \cup {NoNode}
  BY DEF IInv, TypeOK
<1>2. ASSUME NEW kind \in {"statuses", "edit", "list"}, NEW S \in SUBSET (Keys \cup Status),
             Opens(kind, S), kind = "list" => fp \notin S
      PROVE  popup' \in Popups /\ LeavesOut(popup')
  BY <1>1, <1>2 DEF Opens, Popups, LeavesOut
<1>3. ASSUME Done, UNCHANGED <<queue, ahead, selected, request>>,
             popup' \in Popups, LeavesOut(popup')
      PROVE  IInv'
  BY <1>3 DEF IInv, TypeOK, Done, OwnNode, FromPopup, Keys
<1>4. ASSUME OpenStatusAsignMenu PROVE IInv'
  BY <1>2, <1>3, <1>4 DEF OpenStatusAsignMenu
<1>5. ASSUME ReorderAircraftByEdit PROVE IInv'
  BY <1>2, <1>3, <1>5 DEF ReorderAircraftByEdit
<1>6. ASSUME ReorderAircraftBySelect PROVE IInv'
  <2>1. CASE ~HasStatus(thisAc) /\ UNCHANGED popup
    BY <2>1, <1>3, <1>6 DEF ReorderAircraftBySelect, IInv, TypeOK
  <2>2. CASE HasStatus(thisAc) /\ Opens("list", Offered(queue, thisAc) \cup {Top})
    <3>1. thisAc \in SeqNode /\ thisAc.callsign = fp /\ queue \in Queues
      BY <1>1, <2>2 DEF HasStatus, IInv, TypeOK, OwnNode
    <3>2. /\ Offered(queue, thisAc) \cup {Top} \in SUBSET (Keys \cup Status)
          /\ fp \notin Offered(queue, thisAc) \cup {Top}
      BY <3>1, <1>1, OfferedLeavesOut, KeysAssumption DEF Keys
    <3> QED
      BY <2>2, <3>2, <1>2, <1>3, <1>6 DEF ReorderAircraftBySelect
  <2> QED
    BY <1>6, <2>1, <2>2 DEF ReorderAircraftBySelect
<1> QED
  BY <1>4, <1>5, <1>6

LEMMA RequestsAreElements ==
  ASSUME IInv
  PROVE  /\ ReorderAircraftEditHandler => IInv'
         /\ PatchAircraftStatus => IInv'
<1>1. ASSUME stage \in {"switch_to", "reorder_edited"}, Request \/ UNCHANGED request,
             Done, UNCHANGED <<queue, ahead, selected, popup>>
      PROVE  IInv'
  <2>1. fp \in Aircraft /\ key \in request.via.elements /\ key \in Keys \cup Status
    BY <1>1 DEF IInv, TypeOK, FromPopup
  <2>2. /\ request' \in [callsign : Aircraft \cup {NoAircraft}, what : Keys \cup Status,
                         via : Popups]
        /\ request'.via = request.via
        /\ request'.callsign # NoAircraft => request'.what \in request'.via.elements
    BY <1>1, <2>1 DEF Request, IInv, TypeOK, FromPopup
  <2> QED
    BY <1>1, <2>2 DEF IInv, TypeOK, Done, OwnNode, FromPopup, LeavesOut, Keys
<1>2. ASSUME ReorderAircraftEditHandler PROVE IInv'
  BY <1>1, <1>2 DEF ReorderAircraftEditHandler
<1>3. ASSUME PatchAircraftStatus PROVE IInv'
  BY <1>1, <1>3 DEF PatchAircraftStatus
<1> QED
  BY <1>2, <1>3

LEMMA Step == IInv /\ [Next]_vars => IInv'
<1> SUFFICES ASSUME IInv, [Next]_vars PROVE IInv'
  OBVIOUS
<1> DEFINE Requests == [callsign : Aircraft \cup {NoAircraft}, what : Keys \cup Status,
                        via : Popups]
<1>1. ASSUME NEW q \in Queues, SetQueueFromJson(q) PROVE IInv'
  BY <1>1 DEF SetQueueFromJson, handler, IInv, TypeOK, OwnNode, LeavesOut, FromPopup
<1>2. ASSUME NEW a \in Aircraft \cup {NoAircraft}, Select(a) PROVE IInv'
  BY <1>2 DEF Select, handler, IInv, TypeOK, OwnNode, LeavesOut, FromPopup
<1>3. ASSUME NEW f \in {"switch_status", "reorder", "reorder_select"}, CallFromTag(f)
      PROVE  IInv'
  <2>1. OnFunctionCall(f, Top) /\ request' = NoRequest /\ popup' = popup
    BY <1>3 DEF CallFromTag
  <2>2. Top \in Keys \cup Status
    BY DEF Keys
  <2>3. /\ fp' \in Aircraft /\ thisAc' \in SeqNode \cup {NoNode} /\ OwnNode'
        /\ stage' = f /\ key' = Top
        /\ UNCHANGED <<queue, ahead, selected>>
    BY <2>1, <2>2, CallsKeep
  <2>4. NoRequest \in Requests /\ LeavesOut(NoRequest.via) /\ NoRequest.callsign = NoAircraft
    BY DEF NoRequest, NoPopup, Popups, Keys, LeavesOut
  <2> QED
    BY <2>1, <2>2, <2>3, <2>4 DEF IInv, TypeOK, FromPopup, LeavesOut
<1>4. ASSUME NEW k \in Keys \cup Status, Choose(k) PROVE IInv'
  <2>1. PICK f \in {"switch_to", "reorder_edited"} : OnFunctionCall(f, k)
    BY <1>4 DEF Choose
  <2>2. /\ fp' \in Aircraft /\ thisAc' \in SeqNode \cup {NoNode} /\ OwnNode'
        /\ stage' = f /\ key' = k
        /\ UNCHANGED <<queue, ahead, selected>>
    BY <2>1, CallsKeep
  <2>3. /\ k \in popup.elements
        /\ popup' = NoPopup
        /\ request' = [NoRequest EXCEPT !.via = popup]
    BY <1>4 DEF Choose
  <2>4. request' = [callsign |-> NoAircraft, what |-> Top, via |-> popup]
    BY <2>3 DEF NoRequest
  <2>5. request' \in Requests /\ popup' \in Popups /\ LeavesOut(popup')
    <3>1. popup \in Popups /\ Top \in Keys
      BY DEF IInv, TypeOK, Keys
    <3>2. request' \in Requests
      BY <2>4, <3>1
    <3>3. NoPopup \in Popups /\ LeavesOut(NoPopup)
      BY DEF NoPopup, Popups, LeavesOut
    <3> QED
      BY <2>3, <3>2, <3>3
  <2> QED
    BY <2>2, <2>3, <2>4, <2>5 DEF IInv, TypeOK, FromPopup, LeavesOut
<1>5. CASE OpenStatusAsignMenu \/ ReorderAircraftByEdit \/ ReorderAircraftBySelect
  <2>1. stage # "idle"
    BY <1>5 DEF OpenStatusAsignMenu, ReorderAircraftByEdit, ReorderAircraftBySelect
  <2> QED
    BY <1>5, <2>1, PopupsOpen
<1>6. CASE ReorderAircraftEditHandler \/ PatchAircraftStatus
  BY <1>6, RequestsAreElements
<1>7. CASE UNCHANGED vars
  BY <1>7 DEF vars, handler, IInv, TypeOK, OwnNode, LeavesOut, FromPopup
<1> QED
  BY <1>1, <1>2, <1>3, <1>4, <1>5, <1>6, <1>7 DEF Next
-----------------------------------------------------------------------------
\* The inductive invariant of the tag functions holds in every reachable state.
THEOREM Invariance == Spec => []IInv
BY Initially, Step, PTL DEF Spec

\* Types: the handlers work with nodes of listed aircraft only (cpp:344-366).
THEOREM TypeCorrectness == Spec => []TypeOK
<1>1. IInv => TypeOK
  BY DEF IInv
<1> QED
  BY <1>1, Invariance, PTL

\* No choice from an aircraft's own list puts it before itself, for any queue at
\* any of the reads (cpp:388-426).
THEOREM NeverBefore == Spec => []NeverBeforeItself
<1>1. IInv => NeverBeforeItself
  BY KeysAssumption DEF IInv, LeavesOut, FromPopup, NeverBeforeItself
<1> QED
  BY <1>1, Invariance, PTL
-----------------------------------------------------------------------------
(* What tags and tag functions see of a queue *)

\* In a queue that lists each aircraft once, its node is the one with its callsign.
LEMMA OnlyMatch ==
  ASSUME NEW q \in Seq(Node), Unique(q), NEW n \in 1..Len(q)
  PROVE  FirstNode(q, q[n].callsign) = n
<1>1. Listed(q, q[n].callsign)
  BY DEF Listed
<1>2. /\ FirstNode(q, q[n].callsign) \in 1..Len(q)
      /\ q[FirstNode(q, q[n].callsign)].callsign = q[n].callsign
  BY <1>1, FirstNodeIsFirst
<1> QED
  BY <1>2 DEF Unique

LEMMA TagMatches ==
  ASSUME NEW ah \in Nat, NEW q \in Queues, NEW a \in Aircraft
  PROVE  LET tag == OnGetTagItem(ah, q, a)
             node == GetManagedAircraft(ah, q, a)
         IN  /\ tag = NoNode <=> node = NoNode
             /\ node # NoNode => tag.sequenceNumber = Bounded(node.sequenceNumber)
             /\ node # NoNode /\ Unique(q) => tag.status = node.status
<1>0. q \in Seq(Node)
  BY QueuesAreSequences
<1>1. CASE ~Listed(q, a)
  BY <1>0, <1>1, UnlistedHasNoTag DEF GetManagedAircraft
<1>2. CASE Listed(q, a)
  <2> DEFINE f == FirstNode(q, a)
  <2>1. f \in 1..Len(q) /\ q[f].callsign = a /\ ah + f \in Nat /\ q[f] \in Node
    BY <1>0, <1>2, FirstNodeIsFirst, QueuesAreSequences
  <2>2. PICK m \in 1..Len(q) :
          /\ LastIn(q, a, m, Len(q))
          /\ OnGetTagItem(ah, q, a) =
               [callsign |-> a, status |-> q[m].status, sequenceNumber |-> Bounded(ah + f)]
    BY <1>0, <1>2, ListedHasTag
  <2>3. GetManagedAircraft(ah, q, a) =
          [callsign |-> a, status |-> q[f].status, sequenceNumber |-> ah + f]
    BY <1>2 DEF GetManagedAircraft
  <2>4. OnGetTagItem(ah, q, a) # NoNode /\ GetManagedAircraft(ah, q, a) # NoNode
    <3>1. q[m] \in Node /\ Bounded(ah + f) \in Nat
      BY <1>0, <2>1, <2>2, BoundedNumber
    <3> QED
      BY <2>1, <2>2, <2>3, <3>1, NoNodeAssumption DEF SeqNode, Node
  <2>5. Unique(q) => m = f
    BY <2>1, <2>2 DEF Unique, LastIn
  <2> QED
    BY <2>2, <2>3, <2>4, <2>5
<1> QED
  BY <1>1, <1>2

\* Tag and tag functions agree, on every queue: on the number, although one of the
\* loops goes on after a match, and on the status where an aircraft is listed once
\* (cpp:355-364, 607-615).
THEOREM TagsMatchHandlers == Spec => []TagMatchesHandler
<1>1. IInv => TagMatchesHandler
  <2> SUFFICES ASSUME IInv PROVE TagMatchesHandler
    OBVIOUS
  <2>1. queue \in Queues /\ ahead \in Nat
    BY AheadAssumption DEF IInv, TypeOK
  <2> QED
    BY <2>1, TagMatches DEF TagMatchesHandler
<1> QED
  BY <1>1, Invariance, PTL

\* The numbers that tags show never contradict the queue's order, up to the bound
\* (cpp:609-616).
THEOREM NumbersFollow == Spec => []NumbersFollowQueue
<1>1. IInv => NumbersFollowQueue
  <2> SUFFICES ASSUME IInv, Unique(queue),
                      NEW m \in 1..Len(queue), NEW n \in 1..Len(queue), m < n
               PROVE  LET Number(k) ==
                            OnGetTagItem(ahead, queue, queue[k].callsign).sequenceNumber
                      IN  Number(m) < Number(n) \/ (Number(m) = 99 /\ Number(n) = 99)
    BY DEF NumbersFollowQueue
  <2>1. queue \in Seq(Node) /\ ahead \in Nat
    BY AheadAssumption, QueuesAreSequences DEF IInv, TypeOK
  <2>2. ASSUME NEW k \in 1..Len(queue)
        PROVE  OnGetTagItem(ahead, queue, queue[k].callsign).sequenceNumber
                 = Bounded(ahead + k)
    <3>1. Listed(queue, queue[k].callsign)
      BY DEF Listed
    <3>2. FirstNode(queue, queue[k].callsign) = k
      BY <2>1, OnlyMatch
    <3> QED
      BY <2>1, <3>1, <3>2, ListedHasTag
  <2>3. \/ Bounded(ahead + m) < Bounded(ahead + n)
        \/ Bounded(ahead + m) = 99 /\ Bounded(ahead + n) = 99
    BY <2>1 DEF Bounded
  <2> QED
    BY <2>2, <2>3
<1> QED
  BY <1>1, Invariance, PTL

\* The text of a number never needs more than the nine characters that sprintf_s is
\* given, however long the queue (cpp:616-618).
THEOREM TagsFit == Spec => []TagFits
<1>1. IInv => TagFits
  <2> SUFFICES ASSUME IInv, NEW a \in Aircraft, Listed(queue, a)
               PROVE  Printed(Loop(ahead, queue, a).seqNum) <= bufferSize
    BY DEF TagFits
  <2>1. queue \in Seq(Node) /\ ahead \in Nat
    BY AheadAssumption, QueuesAreSequences DEF IInv, TypeOK
  <2>2. FirstNode(queue, a) \in Nat
    BY <2>1, FirstNodeIsFirst
  <2>3. Bounded(ahead + FirstNode(queue, a)) <= 99
    BY <2>1, <2>2, BoundedNumber
  <2>4. Bounded(ahead + FirstNode(queue, a)) \in Nat
    BY <2>1, <2>2, BoundedNumber
  <2> QED
    BY <2>1, <2>3, <2>4, ListedHasTag DEF Printed, Digits, bufferSize
<1> QED
  BY <1>1, Invariance, PTL
=============================================================================
