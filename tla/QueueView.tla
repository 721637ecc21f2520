----------------------------- MODULE QueueView -----------------------------
(***************************************************************************)
(* What the plugin reads off one airport's queue: the tag of an aircraft   *)
(* and the node its tag functions work with.  Both walk the queue, in      *)
(* loops of their own.                                                     *)
(*                                                                         *)
(* A queue is a sequence of nodes behind `ahead` nodes of aircraft that    *)
(* nobody asks about, which only count.                                    *)
(***************************************************************************)
EXTENDS Naturals, Sequences

CONSTANTS Aircraft, Status,
          NullStatus,       \* AIRCRAFT_STATUS_NULL
          NoNode            \* the null shared_ptr

\* The statuses are the eight that the plugin itself sends.  The server lists no
\* aircraft with the plugin's mark for "not listed", 999, or with one of its own.
ASSUME NullStatusAssumption == NullStatus \notin Status

Node == [callsign : Aircraft, status : Status]
SeqNode == [callsign : Aircraft, status : Status, sequenceNumber : Nat]

\* A queue lists an aircraft once.
Unique(q) == \A m, n \in 1..Len(q) : m # n => q[m].callsign # q[n].callsign
Listed(q, a) == \E n \in 1..Len(q) : q[n].callsign = a
-----------------------------------------------------------------------------
\* The loop of GetManagedAircraft stops at the first node of the aircraft.
FirstNode(q, a) ==
  CHOOSE n \in 1..Len(q) : q[n].callsign = a /\ \A k \in 1..n - 1 : q[k].callsign # a

\* The slip makes a node for an aircraft that is not listed, too.
NodeInAnyCase(ahead, q, a) ==
  [callsign |-> a, sequenceNumber |-> ahead + 1,
   status |-> IF Listed(q, a) THEN q[FirstNode(q, a)].status ELSE NullStatus]
GetManagedAircraft(ahead, q, a) ==
  IF Listed(q, a)
  THEN LET n == FirstNode(q, a) IN
       [callsign |-> a, status |-> q[n].status, sequenceNumber |-> ahead + n]
  ELSE NoNode
-----------------------------------------------------------------------------
\* One turn of the loop of OnGetTagItem, which never stops early.  The slip
\* counts on after the aircraft was met.
CountOn(acc, node, a) ==
  [status |-> IF node.callsign = a THEN node.status ELSE acc.status,
   seqadd |-> acc.seqadd,
   seqNum |-> acc.seqNum + 1]
Turn(acc, node, a) ==
  LET seqadd == acc.seqadd /\ node.callsign # a IN
  [status |-> IF node.callsign = a THEN node.status ELSE acc.status,
   seqadd |-> seqadd,
   seqNum |-> IF seqadd THEN acc.seqNum + 1 ELSE acc.seqNum]

Loop(ahead, q, a) ==
  LET turns[n \in 0..Len(q)] ==
        IF n = 0 THEN [status |-> NullStatus, seqadd |-> TRUE, seqNum |-> ahead + 1]
                 ELSE Turn(turns[n - 1], q[n], a)
  IN  turns[Len(q)]

\* The number that is printed.
Unbounded(seqNum) == seqNum
Bounded(seqNum) == IF seqNum > 99 THEN 99 ELSE seqNum

\* The tag of a: empty for an aircraft without status.
OnGetTagItem(ahead, q, a) ==
  LET end == Loop(ahead, q, a) IN
  IF end.status = NullStatus THEN NoNode
  ELSE [callsign |-> a, status |-> end.status, sequenceNumber |-> Bounded(end.seqNum)]

\* What sprintf_s needs for it: two digits at least, five characters, a NUL.
Digits(n) == IF n < 100 THEN 2 ELSE IF n < 1000 THEN 3 ELSE 4
Printed(seqNum) == Digits(Bounded(seqNum)) + 5 + 1
bufferSize == 8 + 1
=============================================================================
