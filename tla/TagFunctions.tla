---------------------------- MODULE TagFunctions ----------------------------
(***************************************************************************)
(* The functions of a tag: one opens the menu of statuses, one offers the  *)
(* aircraft that this one may be put before, one takes such a callsign in  *)
(* an edit box; the choice then becomes a request.                         *)
(*                                                                         *)
(* The handlers run on the main thread, each on the aircraft that is       *)
(* selected when it starts.  Meanwhile the other threads replace the queue *)
(* at any time, between two reads of one handler too, and between a popup  *)
(* and its choice the controller may select another aircraft.  What the    *)
(* choice of a status does to EuroScope is in module ControllerActions.    *)
(***************************************************************************)
EXTENDS QueueView

CONSTANTS NoAircraft,
          Top,              \* SEQUENCE_TAGFUNC_REORDER_TOPKEY, sent as "-1"
          MaxQueue,         \* bound: nodes of a queue
          Ahead             \* how many may stand before them

ASSUME AheadAssumption == MaxQueue \in Nat /\ Ahead \subseteq Nat
ASSUME KeysAssumption ==
  /\ Top \notin Aircraft /\ NoAircraft \notin Aircraft
  /\ Status \cap (Aircraft \cup {Top}) = {}
ASSUME NoNodeAssumption == NoNode \notin SeqNode

VARIABLES
  queue, ahead,         \* queue_caches_ of the airport
  selected,             \* EuroScope's ASEL aircraft
  stage, fp, thisAc,    \* the handler that runs, and its local variables
  key,                  \* what was chosen, for the handler of a choice
  popup,                \* what is open: its elements, and whom it was opened for
  request               \* history: what the last handler asked for, out of which popup

handler == <<stage, fp, thisAc, key>>
vars == <<queue, ahead, selected, handler, popup, request>>

Queues == UNION {[1..n -> Node] : n \in 0..MaxQueue}
Keys == Aircraft \cup {Top}

NoPopup == [kind |-> "none", for |-> NoAircraft, elements |-> {}]
NoRequest == [callsign |-> NoAircraft, what |-> Top, via |-> NoPopup]

Init ==
  /\ queue \in Queues
  /\ ahead \in Ahead
  /\ selected = NoAircraft
  /\ stage = "idle" /\ fp = NoAircraft /\ thisAc = NoNode /\ key = Top
  /\ popup = NoPopup
  /\ request = NoRequest
-----------------------------------------------------------------------------
\* The patch or the asio thread stores a new queue.
SetQueueFromJson(q) ==
  /\ queue' = q
  /\ UNCHANGED <<ahead, selected, handler, popup, request>>

\* The controller selects another aircraft, or the selected one leaves.
Select(a) ==
  /\ stage = "idle"
  /\ selected' = a
  /\ UNCHANGED <<queue, ahead, handler, popup, request>>

\* OnFunctionCall, up to its switch: the first read of the queue.
OnFunctionCall(function, sItemString) ==
  /\ stage = "idle"
  /\ selected # NoAircraft
  /\ stage' = function
  /\ fp' = selected
  /\ thisAc' = GetManagedAircraft(ahead, queue, selected)
  /\ key' = sItemString
  /\ UNCHANGED <<queue, ahead, selected>>

\* A click on the tag.
CallFromTag(function) ==
  /\ OnFunctionCall(function, Top)
  /\ request' = NoRequest
  /\ UNCHANGED popup

\* A choice in the open popup, which it closes.
Choose(k) ==
  /\ k \in popup.elements
  /\ OnFunctionCall(IF popup.kind = "statuses" THEN "switch_to" ELSE "reorder_edited", k)
  /\ popup' = NoPopup
  /\ request' = [NoRequest EXCEPT !.via = popup]

Done == stage' = "idle" /\ fp' = NoAircraft /\ thisAc' = NoNode /\ key' = Top
Opens(kind, elements) == popup' = [kind |-> kind, for |-> fp, elements |-> elements]

OpenStatusAsignMenu ==
  /\ stage = "switch_status"
  /\ Opens("statuses", Status)
  /\ Done
  /\ UNCHANGED <<queue, ahead, selected, request>>

\* Whatever the edit box is given: a callsign, listed or not.
ReorderAircraftByEdit ==
  /\ stage = "reorder"
  /\ Opens("edit", Keys)
  /\ Done
  /\ UNCHANGED <<queue, ahead, selected, request>>

\* The aircraft that may be put before.  The slip offers the aircraft itself.
WithItself(q, ac) == {q[n].callsign : n \in {m \in 1..Len(q) : q[m].status = ac.status}}
Offered(q, ac) ==
  {q[n].callsign : n \in {m \in 1..Len(q) :
     q[m].status = ac.status /\ q[m].callsign # ac.callsign}}

\* With the second read of the queue, which a node without status makes in vain.
HasStatus(ac) == ac # NoNode /\ ac.status # NullStatus

ReorderAircraftBySelect ==
  /\ stage = "reorder_select"
  /\ \/ ~HasStatus(thisAc) /\ UNCHANGED popup
     \/ HasStatus(thisAc) /\ Opens("list", Offered(queue, thisAc) \cup {Top})
  /\ Done
  /\ UNCHANGED <<queue, ahead, selected, request>>

\* Without a logon code the request is refused: see module PatchQueue.
Request ==
  \/ request' = [request EXCEPT !.callsign = fp, !.what = key]
  \/ UNCHANGED request

ReorderAircraftEditHandler ==
  /\ stage = "reorder_edited"
  /\ \/ thisAc = NoNode /\ UNCHANGED request
     \/ thisAc # NoNode /\ Request
  /\ Done
  /\ UNCHANGED <<queue, ahead, selected, popup>>

PatchAircraftStatus ==
  /\ stage = "switch_to"
  /\ Request
  /\ Done
  /\ UNCHANGED <<queue, ahead, selected, popup>>

Next ==
  \/ \E q \in Queues : SetQueueFromJson(q)
  \/ \E a \in Aircraft \cup {NoAircraft} : Select(a)
  \/ \E f \in {"switch_status", "reorder", "reorder_select"} : CallFromTag(f)
  \/ \E k \in Keys \cup Status : Choose(k)
  \/ OpenStatusAsignMenu
  \/ ReorderAircraftBySelect
  \/ ReorderAircraftByEdit
  \/ ReorderAircraftEditHandler
  \/ PatchAircraftStatus

Spec == Init /\ [][Next]_vars
-----------------------------------------------------------------------------
Popups ==
  [kind : {"none", "statuses", "edit", "list"}, for : Aircraft \cup {NoAircraft},
   elements : SUBSET (Keys \cup Status)]

TypeOK ==
  /\ queue \in Queues
  /\ ahead \in Ahead
  /\ selected \in Aircraft \cup {NoAircraft}
  /\ \/ stage = "idle" /\ fp = NoAircraft /\ thisAc = NoNode
     \/ /\ stage \in {"switch_status", "switch_to", "reorder", "reorder_select", "reorder_edited"}
        /\ fp \in Aircraft
        /\ thisAc \in SeqNode \cup {NoNode}
  /\ key \in Keys \cup Status
  /\ popup \in Popups
  /\ request \in [callsign : Aircraft \cup {NoAircraft}, what : Keys \cup Status, via : Popups]

\* The list is built from a later queue than the status it is built for, and its
\* choice is handled after any number of new queues (lines 393, 402, 424): even so
\* no aircraft is put before itself by a choice from its own list.  A selection
\* that changed in between is excluded, and with it an edit box that took the
\* aircraft's own callsign; of the statuses of those on the list nothing is said.
NeverBeforeItself ==
  (request.via.kind = "list" /\ request.via.for = request.callsign)
    => request.what # request.callsign

\* Tags and tag functions find an aircraft in loops of their own, of which one goes
\* on after the first match (lines 355-364, 607-615): they agree on its number up
\* to the bound, for every queue, and on its status where it is listed once.  That
\* holds of queues whose statuses the plugin knows (NullStatusAssumption): listed
\* with 999, an aircraft would have a node but an empty tag.
TagMatchesHandler ==
  \A a \in Aircraft :
    LET tag == OnGetTagItem(ahead, queue, a)
        node == GetManagedAircraft(ahead, queue, a)
    IN  /\ tag = NoNode <=> node = NoNode
        /\ node # NoNode => tag.sequenceNumber = Bounded(node.sequenceNumber)
        /\ node # NoNode /\ Unique(queue) => tag.status = node.status

\* What is printed never needs more than the buffer that sprintf_s is given, whose
\* length is the placeholder's, not the number's (lines 616-618): a longer text
\* ends the program.
TagFits ==
  \A a \in Aircraft : Listed(queue, a) => Printed(Loop(ahead, queue, a).seqNum) <= bufferSize

\* The numbers the tags show never contradict the queue: an aircraft further down
\* shows a larger number, or both show the bound (lines 609-616).
NumbersFollowQueue ==
  Unique(queue) =>
    \A m, n \in 1..Len(queue) : m < n =>
      LET Number(k) == OnGetTagItem(ahead, queue, queue[k].callsign).sequenceNumber IN
      Number(m) < Number(n) \/ (Number(m) = 99 /\ Number(n) = 99)
=============================================================================
