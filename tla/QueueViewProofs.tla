-------------------------- MODULE QueueViewProofs --------------------------
(***************************************************************************)
(* What the loops of QueueView compute, for every queue.  The loop of      *)
(* OnGetTagItem goes on after a match, that of GetManagedAircraft does     *)
(* not: its invariant, and what follows for the tag.                       *)
(***************************************************************************)
EXTENDS QueueView, Integers, WellFoundedInduction, TLAPS

\* A set of numbers that is not empty has a smallest one: the form in which the
\* proofs below go by induction.
LEMMA Smallest ==
  ASSUME NEW T \in SUBSET Nat, T # {}
  PROVE  \E x \in T : \A y \in T : x <= y
<1>1. PICK x \in T : \A y \in T : ~ (<<y, x>> \in OpToRel(<, Nat))
  BY NatLessThanWellFounded, WFMin
<1>2. \A y \in T : ~ (y < x)
  BY <1>1 DEF OpToRel
<1> QED
  BY <1>2
-----------------------------------------------------------------------------
\* The loop's variables before the first node, and a function that has them after
\* each of the first k nodes.
Start(ahead) == [status |-> NullStatus, seqadd |-> TRUE, seqNum |-> ahead + 1]
IsTurns(t, k, ahead, q, a) ==
  t = [n \in 0..k |-> IF n = 0 THEN Start(ahead) ELSE Turn(t[n - 1], q[n], a)]

\* One more turn extends the function.
LEMMA OneMoreTurn ==
  ASSUME NEW ahead, NEW q, NEW a, NEW k \in Nat \ {0}, NEW t, IsTurns(t, k - 1, ahead, q, a)
  PROVE  \E u : IsTurns(u, k, ahead, q, a)
<1> DEFINE u == [n \in 0..k |-> IF n = k THEN Turn(t[k - 1], q[k], a) ELSE t[n]]
<1>1. \A n \in 0..k - 1 : u[n] = t[n]
  OBVIOUS
<1>2. \A n \in 0..k - 1 : t[n] = IF n = 0 THEN Start(ahead) ELSE Turn(t[n - 1], q[n], a)
  BY DEF IsTurns
<1>3. ASSUME NEW n \in 0..k
      PROVE  u[n] = IF n = 0 THEN Start(ahead) ELSE Turn(u[n - 1], q[n], a)
  <2>1. CASE n = k
    BY <1>1, <2>1
  <2>2. CASE n # k
    BY <1>1, <1>2, <2>2
  <2> QED
    BY <2>1, <2>2
<1>4. u = [n \in 0..k |-> IF n = 0 THEN Start(ahead) ELSE Turn(u[n - 1], q[n], a)]
  BY <1>3
<1> QED
  BY <1>4 DEF IsTurns

\* So there is one for the whole queue.
LEMMA TurnsExist ==
  ASSUME NEW ahead, NEW q, NEW a, NEW k \in Nat
  PROVE  \E t : IsTurns(t, k, ahead, q, a)
<1> DEFINE T == {n \in Nat : ~ \E t : IsTurns(t, n, ahead, q, a)}
<1>1. SUFFICES ASSUME T # {} PROVE FALSE
  OBVIOUS
<1>2. PICK n \in T : \A m \in T : n <= m
  BY <1>1, Smallest
<1>3. CASE n = 0
  <2> DEFINE t == [m \in 0..0 |-> Start(ahead)]
  <2>1. t = [m \in 0..0 |-> IF m = 0 THEN Start(ahead) ELSE Turn(t[m - 1], q[m], a)]
    OBVIOUS
  <2>2. IsTurns(t, 0, ahead, q, a)
    BY <2>1 DEF IsTurns
  <2> QED
    BY <1>3, <2>2
<1>4. CASE n # 0
  <2>1. n \in Nat \ {0} /\ n - 1 \in Nat /\ n - 1 \notin T
    BY <1>2, <1>4
  <2>2. PICK t : IsTurns(t, n - 1, ahead, q, a)
    BY <2>1
  <2> QED
    BY <1>2, <2>1, <2>2, OneMoreTurn
<1> QED
  BY <1>3, <1>4

\* The loop is such a function's last value.
LEMMA LoopIsLastTurn ==
  ASSUME NEW ahead, NEW q \in Seq(Node), NEW a
  PROVE  \E t : IsTurns(t, Len(q), ahead, q, a) /\ Loop(ahead, q, a) = t[Len(q)]
<1> DEFINE t == CHOOSE t : t = [n \in 0..Len(q) |->
                   IF n = 0 THEN [status |-> NullStatus, seqadd |-> TRUE, seqNum |-> ahead + 1]
                   ELSE Turn(t[n - 1], q[n], a)]
<1>1. \E u : IsTurns(u, Len(q), ahead, q, a)
  BY TurnsExist
<1>2. IsTurns(t, Len(q), ahead, q, a)
  BY <1>1 DEF IsTurns, Start
<1>3. Loop(ahead, q, a) = t[Len(q)]
  BY DEF Loop
<1> QED
  BY <1>2, <1>3
-----------------------------------------------------------------------------
\* The first match exists where there is one, and is the only one with none before it
\* (cpp:355-364).
LEMMA FirstNodeIsFirst ==
  ASSUME NEW q \in Seq(Node), NEW a, Listed(q, a)
  PROVE  /\ FirstNode(q, a) \in 1..Len(q)
         /\ q[FirstNode(q, a)].callsign = a
         /\ \A k \in 1..FirstNode(q, a) - 1 : q[k].callsign # a
<1> DEFINE T == {n \in 1..Len(q) : q[n].callsign = a}
<1>1. T \in SUBSET Nat /\ T # {}
  BY DEF Listed
<1>2. PICK n \in T : \A k \in T : n <= k
  BY <1>1, Smallest
<1>3. \A k \in 1..n - 1 : q[k].callsign # a
  BY <1>2
<1>4. \E m \in 1..Len(q) : q[m].callsign = a /\ \A k \in 1..m - 1 : q[k].callsign # a
  BY <1>2, <1>3
<1> QED
  BY <1>4 DEF FirstNode

LEMMA FirstNodeIs ==
  ASSUME NEW q \in Seq(Node), NEW a, NEW n \in 1..Len(q), q[n].callsign = a,
         \A k \in 1..n - 1 : q[k].callsign # a
  PROVE  FirstNode(q, a) = n
<1> DEFINE f == FirstNode(q, a)
<1>1. f \in 1..Len(q) /\ q[f].callsign = a /\ \A k \in 1..f - 1 : q[k].callsign # a
  BY FirstNodeIsFirst DEF Listed
<1>2. f \in Nat /\ n \in Nat
  BY <1>1
<1>3. ~ (f < n) /\ ~ (n < f)
  BY <1>1, <1>2
<1> QED
  BY <1>2, <1>3
-----------------------------------------------------------------------------
(* The invariant of the loop *)

NoneIn(q, a, n) == \A k \in 1..n : q[k].callsign # a
LastIn(q, a, m, n) == m \in 1..n /\ q[m].callsign = a /\ \A k \in m + 1..n : q[k].callsign # a

\* After n nodes the number has passed them all, or stopped at the first match; the
\* status is that of the last match.
AfterTurns(r, n, ahead, q, a) ==
  \/ /\ NoneIn(q, a, n)
     /\ r = [status |-> NullStatus, seqadd |-> TRUE, seqNum |-> ahead + 1 + n]
  \/ \E m \in 1..n :
       /\ LastIn(q, a, m, n)
       /\ r = [status |-> q[m].status, seqadd |-> FALSE, seqNum |-> ahead + FirstNode(q, a)]

LEMMA TurnKeeps ==
  ASSUME NEW ahead \in Nat, NEW q \in Seq(Node), NEW a, NEW n \in 1..Len(q),
         NEW r, AfterTurns(r, n - 1, ahead, q, a)
  PROVE  AfterTurns(Turn(r, q[n], a), n, ahead, q, a)
<1> DEFINE s == Turn(r, q[n], a)
<1>1. n \in Nat /\ n >= 1 /\ n - 1 \in Nat
  OBVIOUS
<1>2. CASE NoneIn(q, a, n - 1) /\ q[n].callsign # a
  <2>1. NoneIn(q, a, n)
    BY <1>1, <1>2 DEF NoneIn
  <2>2. r = [status |-> NullStatus, seqadd |-> TRUE, seqNum |-> ahead + 1 + (n - 1)]
    BY <1>1, <1>2 DEF AfterTurns, NoneIn, LastIn
  <2>3. (ahead + 1 + (n - 1)) + 1 = ahead + 1 + n
    BY <1>1
  <2>4. s = [status |-> NullStatus, seqadd |-> TRUE, seqNum |-> ahead + 1 + n]
    BY <1>2, <2>2, <2>3, Zenon DEF Turn
  <2> QED
    BY <2>1, <2>4 DEF AfterTurns
<1>3. CASE NoneIn(q, a, n - 1) /\ q[n].callsign = a
  <2>1. r = [status |-> NullStatus, seqadd |-> TRUE, seqNum |-> ahead + 1 + (n - 1)]
    BY <1>1, <1>3 DEF AfterTurns, NoneIn, LastIn
  <2>2. FirstNode(q, a) = n
    BY <1>3, FirstNodeIs DEF NoneIn
  <2>3. ahead + 1 + (n - 1) = ahead + FirstNode(q, a)
    BY <1>1, <2>2
  <2>4. s = [status |-> q[n].status, seqadd |-> FALSE, seqNum |-> ahead + FirstNode(q, a)]
    BY <1>3, <2>1, <2>3, Zenon DEF Turn
  <2>5. LastIn(q, a, n, n) /\ n \in 1..n
    BY <1>1, <1>3 DEF LastIn
  <2> QED
    BY <2>4, <2>5, Zenon DEF AfterTurns
<1>4. CASE ~NoneIn(q, a, n - 1)
  <2>1. PICK m \in 1..n - 1 :
          /\ LastIn(q, a, m, n - 1)
          /\ r = [status |-> q[m].status, seqadd |-> FALSE, seqNum |-> ahead + FirstNode(q, a)]
    BY <1>4 DEF AfterTurns
  <2>2. CASE q[n].callsign = a
    <3>1. s = [status |-> q[n].status, seqadd |-> FALSE, seqNum |-> ahead + FirstNode(q, a)]
      BY <2>1, <2>2 DEF Turn
    <3>2. LastIn(q, a, n, n) /\ n \in 1..n
      BY <1>1, <2>2 DEF LastIn
    <3> QED
      BY <3>1, <3>2, Zenon DEF AfterTurns
  <2>3. CASE q[n].callsign # a
    <3>1. s = [status |-> q[m].status, seqadd |-> FALSE, seqNum |-> ahead + FirstNode(q, a)]
      BY <2>1, <2>3 DEF Turn
    <3>2. LastIn(q, a, m, n) /\ m \in 1..n
      BY <1>1, <2>1, <2>3 DEF LastIn
    <3> QED
      BY <3>1, <3>2, Zenon DEF AfterTurns
  <2> QED
    BY <2>2, <2>3
<1> QED
  BY <1>2, <1>3, <1>4

\* What the loop leaves: the number of the first match, the status of the last one.
LEMMA LoopResult ==
  ASSUME NEW ahead \in Nat, NEW q \in Seq(Node), NEW a
  PROVE  AfterTurns(Loop(ahead, q, a), Len(q), ahead, q, a)
<1>1. PICK t : IsTurns(t, Len(q), ahead, q, a) /\ Loop(ahead, q, a) = t[Len(q)]
  BY LoopIsLastTurn
<1>2. \A n \in 0..Len(q) : t[n] = IF n = 0 THEN Start(ahead) ELSE Turn(t[n - 1], q[n], a)
  BY <1>1 DEF IsTurns
<1> DEFINE T == {n \in 0..Len(q) : ~AfterTurns(t[n], n, ahead, q, a)}
<1>3. T = {}
  <2>1. SUFFICES ASSUME T # {} PROVE FALSE
    OBVIOUS
  <2>2. T \in SUBSET Nat
    OBVIOUS
  <2>3. PICK n \in T : \A m \in T : n <= m
    BY <2>1, <2>2, Smallest
  <2>4. CASE n = 0
    <3>1. t[0] = Start(ahead)
      BY <1>2
    <3>2. AfterTurns(t[0], 0, ahead, q, a)
      BY <3>1 DEF AfterTurns, NoneIn, Start
    <3> QED
      BY <2>3, <2>4, <3>2
  <2>5. CASE n # 0
    <3>1. n \in 1..Len(q) /\ n - 1 \in 0..Len(q) /\ n - 1 \notin T
      BY <2>3, <2>5
    <3>2. AfterTurns(t[n - 1], n - 1, ahead, q, a)
      BY <3>1
    <3>3. t[n] = Turn(t[n - 1], q[n], a)
      BY <1>2, <2>5
    <3> QED
      BY <2>3, <3>1, <3>2, <3>3, TurnKeeps
  <2> QED
    BY <2>4, <2>5
<1> QED
  BY <1>1, <1>3
-----------------------------------------------------------------------------
(* What follows for the tag *)

\* Of an aircraft that is not listed, nothing is known.
LEMMA UnlistedHasNoTag ==
  ASSUME NEW ahead \in Nat, NEW q \in Seq(Node), NEW a, ~Listed(q, a)
  PROVE  OnGetTagItem(ahead, q, a) = NoNode
<1>1. Loop(ahead, q, a).status = NullStatus
  BY LoopResult DEF AfterTurns, LastIn, Listed
<1> QED
  BY <1>1 DEF OnGetTagItem

\* A listed one has the number of its first node and the status of its last one, which
\* is never the null status.
LEMMA ListedHasTag ==
  ASSUME NEW ahead \in Nat, NEW q \in Seq(Node), NEW a, Listed(q, a)
  PROVE  /\ Loop(ahead, q, a).seqNum = ahead + FirstNode(q, a)
         /\ \E m \in 1..Len(q) :
              /\ LastIn(q, a, m, Len(q))
              /\ OnGetTagItem(ahead, q, a) =
                   [callsign |-> a, status |-> q[m].status,
                    sequenceNumber |-> Bounded(ahead + FirstNode(q, a))]
<1>1. PICK m \in 1..Len(q) :
        /\ LastIn(q, a, m, Len(q))
        /\ Loop(ahead, q, a) =
             [status |-> q[m].status, seqadd |-> FALSE, seqNum |-> ahead + FirstNode(q, a)]
  BY LoopResult DEF AfterTurns, NoneIn, Listed
<1>2. q[m].status # NullStatus
  <2>1. q[m] \in Node
    OBVIOUS
  <2> QED
    BY <2>1, NullStatusAssumption DEF Node
<1> QED
  BY <1>1, <1>2 DEF OnGetTagItem

LEMMA BoundedNumber ==
  ASSUME NEW n \in Nat
  PROVE  Bounded(n) \in Nat /\ Bounded(n) <= n /\ Bounded(n) <= 99 /\ (n <= 99 => Bounded(n) = n)
BY DEF Bounded
=============================================================================
