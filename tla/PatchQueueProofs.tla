-------------------------- MODULE PatchQueueProofs --------------------------
(***************************************************************************)
(* Theorems about PatchQueue, for all sets of requests and all bounds: its *)
(* safety invariants, and that it implements PatchChannel.                 *)
(***************************************************************************)
EXTENDS PatchQueue, SequenceTheorems, TLAPS

(***************************************************************************)
(* The inductive invariant                                                 *)
(***************************************************************************)

\* The arguments in flight are requests where the code uses them.
WellTyped ==
  /\ TypeOK
  /\ main \in {"reading", "push"} => arg \in PRequest
  /\ worker = "send" => pReq \in PRequest

\* Only a request the thread committed itself to before the stop is late.
StopInv ==
  /\ stop <=> main \in {"joining", "destroyed"}
  /\ ~stop => lateSends = 0
  /\ worker \in {"front", "send"} => lateSends = 0
  /\ lateSends <= 1

\* Codes only grow: from the file to logon_code_, from there to the requests.
CodeInv ==
  /\ Len(asked) = Len(pushed)
  /\ Len(used) = Len(sent)
  /\ logon_code_ <= codeFile
  /\ main = "reading" => wanted = codeFile
  /\ main = "push" => wanted <= logon_code_
  /\ \A n \in 1..Len(asked) : asked[n] <= logon_code_
  /\ NeverOlderCode

IInv == WellTyped /\ Conservation /\ NoPopOnEmpty /\ StopInv /\ CodeInv

(***************************************************************************)
(* Lemmas about sequences                                                  *)
(***************************************************************************)

\* A nonempty queue is its head followed by its tail.
LEMMA HeadConcatTail ==
  ASSUME NEW S, NEW q \in Seq(S), q # <<>>
  PROVE  /\ Head(q) \in S
         /\ Tail(q) \in Seq(S)
         /\ q = <<Head(q)>> \o Tail(q)
<1>1. Len(q) \in Nat \ {0}
  BY EmptySeq
<1>2. 1 \in 1..Len(q) /\ Len(q) \in 1..Len(q)
  BY <1>1
<1>3. SubSeq(q, 1, Len(q)) = <<q[1]>> \o SubSeq(q, 2, Len(q))
  BY <1>1, <1>2, SubSeqRecursiveFirst
<1>4. q = <<q[1]>> \o Tail(q)
  BY <1>3, SubSeqFull, TailIsSubSeq
<1>5. Head(q) = q[1]
  BY <1>1
<1> QED
  BY <1>4, <1>5, HeadTailProperties

\* Popping moves the head of the queue to the empty middle segment.
LEMMA PopKeepsOrder ==
  ASSUME NEW S, NEW s \in Seq(S), NEW q \in Seq(S), q # <<>>
  PROVE  s \o <<>> \o q = s \o <<Head(q)>> \o Tail(q)
<1>1. /\ Head(q) \in S /\ Tail(q) \in Seq(S)
      /\ q = <<Head(q)>> \o Tail(q)
  BY HeadConcatTail
<1>2. s \o <<>> = s
  BY ConcatEmptySeq
<1>3. (s \o <<Head(q)>>) \o Tail(q) = s \o (<<Head(q)>> \o Tail(q))
  <2>1. <<Head(q)>> \in Seq(S)
    BY <1>1
  <2> QED
    BY <1>1, <2>1, ConcatAssociative
<1> QED
  BY <1>1, <1>2, <1>3

\* Sending moves the middle segment to the back of the first.
LEMMA SendKeepsOrder ==
  ASSUME NEW S, NEW s \in Seq(S), NEW r \in S, NEW q \in Seq(S)
  PROVE  s \o <<r>> \o q = Append(s, r) \o <<>> \o q
<1>1. Append(s, r) = s \o <<r>> /\ Append(s, r) \in Seq(S)
  BY AppendIsConcat, AppendProperties
<1>2. Append(s, r) \o <<>> = Append(s, r)
  BY <1>1, ConcatEmptySeq
<1> QED
  BY <1>1, <1>2

(***************************************************************************)
(* Every step preserves the invariant                                      *)
(***************************************************************************)

\* What the proofs need to know of codes.
LEMMA CodesAreNumbers ==
  /\ NoCode \in Code /\ MaxCodes \in Nat /\ Partial \notin Code
  /\ \A c \in Code : c \in Nat
BY BoundsAssumption DEF NoCode, Code, Partial

LEMMA InitIInv == Init => IInv
<1> SUFFICES ASSUME Init PROVE IInv
  OBVIOUS
<1>1. WellTyped
  BY CodesAreNumbers, EmptySeq DEF Init, WellTyped, TypeOK, MainStates, WorkerStates
<1>2. Conservation /\ NoPopOnEmpty /\ StopInv
  BY DEF Init, Conservation, Held, NoPopOnEmpty, StopInv
<1>3. CodeInv
  BY CodesAreNumbers DEF Init, CodeInv, NeverOlderCode, NoCode, Code
<1> QED
  BY <1>1, <1>2, <1>3 DEF IInv

\* Types, and the arguments in flight.
LEMMA TypeStep == WellTyped /\ NoPopOnEmpty /\ [Next]_vars => WellTyped'
<1> SUFFICES ASSUME WellTyped, NoPopOnEmpty, [Next]_vars PROVE WellTyped'
  OBVIOUS
<1> USE DEF MainStates, WorkerStates
<1>1. ASSUME NEW r \in PRequest, OpenCodeFile(r) PROVE WellTyped'
  <2>1. wanted' \in Code /\ main' \in {"reading", "idle", "push"}
    BY <1>1 DEF OpenCodeFile, WellTyped, TypeOK
  <2> QED
    BY <1>1, <2>1 DEF OpenCodeFile, WellTyped, TypeOK, codeVars, histVars
<1>2. CASE GetLogonCode
  BY <1>2 DEF GetLogonCode, CodeRead, WellTyped, TypeOK, histVars
<1>3. CASE Push
  <2>1. arg \in PRequest /\ wanted \in Code
    BY <1>3 DEF Push, WellTyped, TypeOK
  <2>2. /\ Append(patch_request_queue, arg) \in Seq(PRequest)
        /\ Append(pushed, arg) \in Seq(PRequest)
        /\ Append(asked, wanted) \in Seq(Code)
    BY <2>1, AppendProperties DEF WellTyped, TypeOK
  <2> QED
    BY <1>3, <2>1, <2>2 DEF Push, Pushed, WellTyped, TypeOK, codeVars
<1>4. CASE NotifyAll
  BY <1>4 DEF NotifyAll, Woken, WellTyped, TypeOK, codeVars, histVars
<1>5. CASE SetLogonCode
  BY <1>5, CodesAreNumbers DEF SetLogonCode, WellTyped, TypeOK, Code, mainVars, histVars
<1>6. CASE RequestStop
  BY <1>6 DEF RequestStop, Woken, WellTyped, TypeOK, codeVars, histVars
<1>7. CASE Join
  BY <1>7 DEF Join, WellTyped, TypeOK, codeVars, histVars
<1>8. ASSUME NEW from, NEW to \in WorkerStates \ {"send"}, Moves(from, to)
      PROVE  WellTyped'
  BY <1>8 DEF Moves, WellTyped, TypeOK, mainVars, codeVars, histVars
<1>9. CASE LoopTop
  BY <1>8, <1>9 DEF LoopTop
<1>10. CASE EvalPred
  BY <1>8, <1>10 DEF EvalPred
<1>11. CASE Block
  BY <1>8, <1>11 DEF Block
<1>12. CASE PopFront
  <2>1. /\ Head(patch_request_queue) \in PRequest
        /\ Tail(patch_request_queue) \in Seq(PRequest)
    BY <1>12, HeadTailProperties DEF PopFront, WellTyped, TypeOK
  <2> QED
    BY <1>12, <2>1
    DEF PopFront, FrontOf, Popped, WellTyped, TypeOK, mainVars, codeVars, histVars
<1>13. CASE SendPatch
  <2>1. pReq \in PRequest
    BY <1>13 DEF SendPatch, WellTyped
  <2>2. sent' \in Seq(PRequest)
    BY <1>13, <2>1, AppendProperties DEF SendPatch, WellTyped, TypeOK
  <2>3. VisibleCodes \subseteq Code \cup {Partial}
    BY CodesAreNumbers DEF VisibleCodes, WellTyped, TypeOK
  <2>4. used' \in Seq(Code \cup {Partial})
    <3>1. PICK c \in VisibleCodes : used' = Append(used, c)
      BY <1>13 DEF SendPatch
    <3> QED
      BY <2>3, <3>1, AppendProperties DEF WellTyped, TypeOK
  <2>5. lateSends' \in Nat
    BY <1>13 DEF SendPatch, WellTyped, TypeOK
  <2> QED
    BY <1>13, <2>2, <2>4, <2>5 DEF SendPatch, WellTyped, TypeOK, mainVars, codeVars
<1>14. CASE PatchReturns
  BY <1>8, <1>14 DEF PatchReturns, AfterAnswer
<1>15. CASE SpuriousWakeup
  BY <1>8, <1>15 DEF SpuriousWakeup
<1>16. CASE UNCHANGED vars
  BY <1>16 DEF vars, mainVars, codeVars, histVars, WellTyped, TypeOK
<1> QED
  BY <1>1, <1>2, <1>3, <1>4, <1>5, <1>6, <1>7, <1>9, <1>10, <1>11, <1>12, <1>13,
     <1>14, <1>15, <1>16
  DEF Next, MainStep, WorkerStep, PatchAircraftStatus, ReorderAircraftEditHandler, PRequest

\* The queue still holds a request when the thread comes to pop one: only the
\* thread itself takes requests out of it.
LEMMA NoPopStep == WellTyped /\ NoPopOnEmpty /\ [Next]_vars => NoPopOnEmpty'
<1> SUFFICES ASSUME WellTyped, NoPopOnEmpty, [Next]_vars PROVE NoPopOnEmpty'
  OBVIOUS
<1>1. CASE Push
  <2>1. arg \in PRequest /\ patch_request_queue \in Seq(PRequest)
    BY <1>1 DEF Push, WellTyped, TypeOK
  <2>2. Append(patch_request_queue, arg) # <<>>
    BY <2>1, AppendProperties
  <2> QED
    BY <1>1, <2>2 DEF Push, Pushed, NoPopOnEmpty
<1>2. CASE EvalPred
  BY <1>2 DEF EvalPred, Moves, IsQueueing, NoPopOnEmpty
<1>3. CASE PopFront \/ SendPatch
  BY <1>3 DEF PopFront, SendPatch, NoPopOnEmpty
<1>4. CASE LoopTop \/ Block \/ PatchReturns \/ SpuriousWakeup
  BY <1>4 DEF LoopTop, Block, PatchReturns, AfterAnswer, SpuriousWakeup, Moves,
     NoPopOnEmpty
<1>5. CASE NotifyAll \/ RequestStop
  BY <1>5 DEF NotifyAll, RequestStop, Woken, NoPopOnEmpty
<1>6. ASSUME UNCHANGED <<worker, patch_request_queue>> PROVE NoPopOnEmpty'
  BY <1>6 DEF NoPopOnEmpty
<1>7. CASE \E r : OpenCodeFile(r)
  BY <1>6, <1>7 DEF OpenCodeFile
<1>8. CASE GetLogonCode \/ SetLogonCode \/ Join \/ UNCHANGED vars
  BY <1>6, <1>8 DEF GetLogonCode, SetLogonCode, Join, vars
<1> QED
  BY <1>1, <1>2, <1>3, <1>4, <1>5, <1>7, <1>8
  DEF Next, MainStep, WorkerStep, PatchAircraftStatus, ReorderAircraftEditHandler

\* A late request is one the thread took before the stop, and it is the last.
LEMMA StopStep == WellTyped /\ StopInv /\ [Next]_vars => StopInv'
<1> SUFFICES ASSUME WellTyped, StopInv, [Next]_vars PROVE StopInv'
  OBVIOUS
<1>1. ASSUME NEW r, OpenCodeFile(r) PROVE StopInv'
  BY <1>1 DEF OpenCodeFile, StopInv, histVars
<1>2. CASE GetLogonCode \/ SetLogonCode \/ Push
  BY <1>2 DEF GetLogonCode, SetLogonCode, Push, StopInv, mainVars, histVars
<1>3. CASE NotifyAll
  BY <1>3 DEF NotifyAll, Woken, StopInv, histVars
<1>4. CASE RequestStop
  BY <1>4 DEF RequestStop, Woken, StopInv, histVars
<1>5. CASE Join
  BY <1>5 DEF Join, StopInv, histVars
<1>6. CASE EvalPred
  BY <1>6 DEF EvalPred, IsQueueing, stop_requested, Moves, StopInv, mainVars, histVars
<1>7. CASE LoopTop \/ Block \/ PatchReturns \/ SpuriousWakeup
  BY <1>7 DEF LoopTop, Block, PatchReturns, AfterAnswer, SpuriousWakeup, Moves,
     StopInv, mainVars, histVars
<1>8. CASE PopFront
  BY <1>8 DEF PopFront, StopInv, mainVars, histVars
<1>9. CASE SendPatch
  BY <1>9 DEF SendPatch, StopInv, mainVars
<1>10. CASE UNCHANGED vars
  BY <1>10 DEF vars, mainVars, histVars, StopInv
<1> QED
  BY <1>1, <1>2, <1>3, <1>4, <1>5, <1>6, <1>7, <1>8, <1>9, <1>10
  DEF Next, MainStep, WorkerStep, PatchAircraftStatus, ReorderAircraftEditHandler

\* No step loses, doubles or reorders a request.
LEMMA ConservationStep == WellTyped /\ Conservation /\ [Next]_vars => Conservation'
<1> SUFFICES ASSUME WellTyped, Conservation, [Next]_vars PROVE Conservation'
  OBVIOUS
<1>1. /\ sent \in Seq(PRequest) /\ patch_request_queue \in Seq(PRequest)
      /\ Held \in Seq(PRequest)
  BY EmptySeq DEF WellTyped, TypeOK, Held
<1>2. CASE Push
  <2>1. arg \in PRequest /\ Held' = Held
    BY <1>2 DEF Push, WellTyped, Held
  <2>2. /\ Append(pushed, arg) = pushed \o <<arg>>
        /\ Append(patch_request_queue, arg) = patch_request_queue \o <<arg>>
    BY <1>1, <2>1, AppendIsConcat DEF WellTyped, TypeOK
  <2>3. sent \o Held \in Seq(PRequest) /\ <<arg>> \in Seq(PRequest)
    BY <1>1, <2>1, ConcatProperties
  <2>4. (sent \o Held \o patch_request_queue) \o <<arg>>
          = sent \o Held \o (patch_request_queue \o <<arg>>)
    BY <1>1, <2>3, ConcatAssociative
  <2> QED
    BY <1>2, <2>1, <2>2, <2>4 DEF Push, Pushed, Conservation
<1>3. CASE PopFront
  <2>1. /\ Held = <<>> /\ Held' = <<Head(patch_request_queue)>>
        /\ sent' = sent /\ pushed' = pushed /\ patch_request_queue # <<>>
        /\ patch_request_queue' = Tail(patch_request_queue)
    BY <1>3 DEF PopFront, Held, FrontOf, Popped, histVars
  <2>2. sent \o <<>> \o patch_request_queue
          = sent \o <<Head(patch_request_queue)>> \o Tail(patch_request_queue)
    BY <1>1, <2>1, PopKeepsOrder
  <2> QED
    BY <2>1, <2>2 DEF Conservation
<1>4. CASE SendPatch
  <2>1. /\ pReq \in PRequest /\ Held = <<pReq>> /\ Held' = <<>>
        /\ sent' = Append(sent, pReq) /\ pushed' = pushed
        /\ patch_request_queue' = patch_request_queue
    BY <1>4 DEF SendPatch, Held, WellTyped
  <2>2. sent \o <<pReq>> \o patch_request_queue
          = Append(sent, pReq) \o <<>> \o patch_request_queue
    BY <1>1, <2>1, SendKeepsOrder
  <2> QED
    BY <2>1, <2>2 DEF Conservation
<1>5. ASSUME UNCHANGED <<pushed, sent, patch_request_queue, pReq>>,
             worker' = "send" <=> worker = "send"
      PROVE  Conservation'
  BY <1>5 DEF Conservation, Held
<1>6. CASE \E r : OpenCodeFile(r)
  BY <1>5, <1>6 DEF OpenCodeFile, histVars
<1>7. CASE GetLogonCode \/ SetLogonCode \/ Join
  BY <1>5, <1>7 DEF GetLogonCode, SetLogonCode, Join, histVars
<1>8. CASE NotifyAll \/ RequestStop
  BY <1>5, <1>8 DEF NotifyAll, RequestStop, Woken, histVars
<1>9. CASE LoopTop \/ EvalPred \/ Block \/ PatchReturns \/ SpuriousWakeup
  BY <1>5, <1>9 DEF LoopTop, EvalPred, Block, PatchReturns, AfterAnswer,
     SpuriousWakeup, Moves, histVars
<1>10. CASE UNCHANGED vars
  BY <1>5, <1>10 DEF vars, histVars
<1> QED
  BY <1>2, <1>3, <1>4, <1>6, <1>7, <1>8, <1>9, <1>10
  DEF Next, MainStep, WorkerStep, PatchAircraftStatus, ReorderAircraftEditHandler

\* What Conservation says of lengths.
LEMMA SentAreAsked ==
  ASSUME WellTyped, Conservation
  PROVE  /\ Len(sent) <= Len(pushed)
         /\ worker = "send" => Len(sent) + 1 <= Len(pushed)
<1>1. /\ sent \in Seq(PRequest) /\ patch_request_queue \in Seq(PRequest)
      /\ Held \in Seq(PRequest) /\ sent \o Held \in Seq(PRequest)
  BY EmptySeq, ConcatProperties DEF WellTyped, TypeOK, Held
<1>2. /\ Len(sent) \in Nat /\ Len(Held) \in Nat /\ Len(patch_request_queue) \in Nat
  BY <1>1, LenProperties
<1>3. Len(pushed) = Len(sent) + Len(Held) + Len(patch_request_queue)
  BY <1>1, ConcatProperties DEF Conservation
<1>4. worker = "send" => Len(Held) = 1
  BY DEF Held
<1> QED
  BY <1>2, <1>3, <1>4

\* A newly sent request carries a code at least as new as the one it found.
LEMMA CodeStep ==
  WellTyped /\ Conservation /\ CodeInv /\ [Next]_vars => CodeInv'
<1> SUFFICES ASSUME WellTyped, Conservation, CodeInv, [Next]_vars PROVE CodeInv'
  OBVIOUS
<1>1. /\ asked \in Seq(Code) /\ used \in Seq(Code \cup {Partial})
      /\ wanted \in Nat /\ codeFile \in Nat /\ logon_code_ \in Nat
      /\ Len(asked) \in Nat /\ Len(used) \in Nat
      /\ \A n \in 1..Len(asked) : asked[n] \in Nat
      /\ \A n \in 1..Len(used) : used[n] \in Nat
  BY CodesAreNumbers, BoundsAssumption, ElementOfSeq, LenProperties
  DEF WellTyped, TypeOK, Partial
<1>2. ASSUME NEW r, OpenCodeFile(r) PROVE CodeInv'
  BY <1>1, <1>2 DEF OpenCodeFile, CodeInv, NeverOlderCode, codeVars, histVars
<1>3. CASE GetLogonCode
  BY <1>1, <1>3 DEF GetLogonCode, CodeRead, CodeInv, NeverOlderCode, histVars
<1>4. CASE Push
  <2>1. /\ Len(pushed') = Len(pushed) + 1
        /\ Len(asked') = Len(asked) + 1
        /\ \A n \in 1..Len(asked) : asked'[n] = asked[n]
        /\ asked'[Len(asked) + 1] = wanted
    <3>1. arg \in PRequest /\ wanted \in Code
      BY <1>4 DEF Push, WellTyped, TypeOK
    <3> QED
      BY <1>4, <3>1, AppendProperties DEF Push, WellTyped, TypeOK
  <2>2. \A n \in 1..Len(asked') : asked'[n] <= logon_code_
    BY <1>1, <1>4, <2>1 DEF Push, CodeInv
  <2>3. Len(used) <= Len(asked)
    BY SentAreAsked DEF CodeInv
  <2>4. NeverOlderCode'
    BY <1>1, <1>4, <2>1, <2>3 DEF Push, CodeInv, NeverOlderCode
  <2> QED
    BY <1>4, <2>1, <2>2, <2>4 DEF Push, CodeInv, codeVars
<1>5. CASE SetLogonCode
  BY <1>1, <1>5 DEF SetLogonCode, CodeInv, NeverOlderCode, mainVars, histVars
<1>6. CASE SendPatch
  <2>1. PICK c \in VisibleCodes : used' = Append(used, c)
    BY <1>6 DEF SendPatch
  <2>2. c \in Code \cup {Partial} /\ (c \in {NoCode, Partial} \/ c >= logon_code_)
    BY <1>1, CodesAreNumbers DEF VisibleCodes, CodeInv, WellTyped, TypeOK
  <2>3. pReq \in PRequest /\ sent' = Append(sent, pReq)
    BY <1>6 DEF SendPatch, WellTyped
  <2>4. /\ Len(sent') = Len(sent) + 1 /\ Len(used') = Len(used) + 1
        /\ \A n \in 1..Len(used) : used'[n] = used[n]
        /\ used'[Len(used) + 1] = c
    BY <2>1, <2>2, <2>3, AppendProperties DEF WellTyped, TypeOK
  <2>5. Len(used) + 1 <= Len(asked)
    BY <1>6, SentAreAsked DEF SendPatch, CodeInv
  <2>6. asked[Len(used) + 1] \in Nat /\ asked[Len(used) + 1] <= logon_code_ /\ c \in Nat
    BY <1>1, <2>2, <2>5, CodesAreNumbers, BoundsAssumption DEF CodeInv, Partial
  <2>7. \A n \in 1..Len(used') : used'[n] \in {NoCode, Partial} \/ used'[n] >= asked[n]
    <3> SUFFICES ASSUME NEW n \in 1..Len(used')
                 PROVE  used'[n] \in {NoCode, Partial} \/ used'[n] >= asked[n]
      OBVIOUS
    <3>1. CASE n \in 1..Len(used)
      BY <2>4, <3>1 DEF CodeInv, NeverOlderCode
    <3>2. CASE n = Len(used) + 1
      BY <1>1, <2>2, <2>4, <2>6, <3>2
    <3> QED
      BY <1>1, <2>4, <3>1, <3>2
  <2> QED
    BY <1>6, <2>4, <2>7 DEF SendPatch, CodeInv, NeverOlderCode, mainVars, codeVars
<1>7. ASSUME UNCHANGED <<codeVars, histVars, wanted>>,
             main' \in {"reading", "push"} => main' = main
      PROVE  CodeInv'
  BY <1>7 DEF CodeInv, NeverOlderCode, codeVars, histVars
<1>8. CASE NotifyAll \/ RequestStop \/ Join
  BY <1>7, <1>8 DEF NotifyAll, RequestStop, Join
<1>9. CASE LoopTop \/ EvalPred \/ Block \/ PatchReturns \/ SpuriousWakeup
  BY <1>7, <1>9 DEF LoopTop, EvalPred, Block, PatchReturns, SpuriousWakeup, Moves, mainVars
<1>10. CASE PopFront \/ UNCHANGED vars
  BY <1>7, <1>10 DEF PopFront, vars, mainVars
<1> QED
  BY <1>2, <1>3, <1>4, <1>5, <1>6, <1>8, <1>9, <1>10
  DEF Next, MainStep, WorkerStep, PatchAircraftStatus, ReorderAircraftEditHandler

(***************************************************************************)
(* The theorems                                                            *)
(***************************************************************************)

\* The invariant is inductive, so that it holds in every reachable state.
THEOREM Invariance == Spec => []IInv
<1>1. Init => IInv
  BY InitIInv
<1>2. IInv /\ [Next]_vars => IInv'
  BY TypeStep, NoPopStep, StopStep, ConservationStep, CodeStep DEF IInv
<1> QED
  BY <1>1, <1>2, PTL DEF Spec

\* Every variable of the queue and of the two threads keeps its type.
THEOREM TypeCorrectness == Spec => []TypeOK
<1>1. IInv => TypeOK
  BY DEF IInv, WellTyped
<1> QED
  BY <1>1, Invariance, PTL

\* Requests are sent in the order they were pushed, none lost or doubled before
\* it is sent (UniSequence.cpp:132-135, 331-335).
THEOREM RequestsConserved == Spec => []Conservation
<1>1. IInv => Conservation
  BY DEF IInv
<1> QED
  BY <1>1, Invariance, PTL

\* The patch thread never calls front() or pop() on an empty queue, although it
\* tests and pops in two critical sections (UniSequence.cpp:126, 132-135).
THEOREM PopsSafely == Spec => []NoPopOnEmpty
<1>1. IInv => NoPopOnEmpty
  BY DEF IInv
<1> QED
  BY <1>1, Invariance, PTL

\* After the destructor's stop request at most one PATCH goes out
\* (UniSequence.cpp:121, 127, 242).
THEOREM StopsAfterOne == Spec => []AtMostOneAfterStop
<1>1. IInv => AtMostOneAfterStop
  BY DEF IInv, StopInv, AtMostOneAfterStop
<1> QED
  BY <1>1, Invariance, PTL

\* A request that carries a code carries none older than the one its controller
\* had saved (UniSequence.cpp:142, 175-184).
THEOREM CodesNeverOlder == Spec => []NeverOlderCode
<1>1. IInv => NeverOlderCode
  BY DEF IInv, CodeInv
<1> QED
  BY <1>1, Invariance, PTL

(***************************************************************************)
(* PatchQueue implements PatchChannel                                      *)
(***************************************************************************)

\* Each step of the queue is a step of the channel or leaves it alone.
LEMMA StepRefinement == IInv /\ [Next]_vars => [Channel!Next]_(Channel!vars)
<1> SUFFICES ASSUME IInv, [Next]_vars PROVE Channel!Next \/ UNCHANGED Channel!vars
  OBVIOUS
<1>1. /\ WellTyped /\ StopInv
      /\ sent \in Seq(PRequest) /\ patch_request_queue \in Seq(PRequest)
  BY DEF IInv, WellTyped, TypeOK
<1>2. CASE Push
  <2>1. /\ arg \in PRequest /\ ~stop /\ Held' = Held
        /\ Held \in Seq(PRequest) /\ <<arg>> \in Seq(PRequest)
    BY <1>1, <1>2, EmptySeq DEF Push, WellTyped, StopInv, Held
  <2>2. Append(patch_request_queue, arg) = patch_request_queue \o <<arg>>
    BY <1>1, <2>1, AppendIsConcat
  <2>3. Append(Held \o patch_request_queue, arg)
          = (Held \o patch_request_queue) \o <<arg>>
    <3>1. Held \o patch_request_queue \in Seq(PRequest)
      BY <1>1, <2>1, ConcatProperties
    <3> QED
      BY <2>1, <3>1, AppendIsConcat
  <2>4. (Held \o patch_request_queue) \o <<arg>> = Held \o (patch_request_queue \o <<arg>>)
    BY <1>1, <2>1, ConcatAssociative
  <2>5. Channel!Accept(arg)
    BY <1>2, <2>1, <2>2, <2>3, <2>4 DEF Push, Pushed, Channel!Accept
  <2> QED
    BY <2>1, <2>5 DEF Channel!Next
<1>3. CASE PopFront
  <2>1. /\ Held = <<>> /\ Held' = <<Head(patch_request_queue)>>
        /\ patch_request_queue # <<>>
        /\ patch_request_queue' = Tail(patch_request_queue)
        /\ UNCHANGED <<sent, stop, lateSends>>
    BY <1>3 DEF PopFront, Held, FrontOf, Popped, histVars
  <2>2. patch_request_queue = <<Head(patch_request_queue)>> \o Tail(patch_request_queue)
    BY <1>1, <2>1, HeadConcatTail
  <2>3. <<>> \o patch_request_queue = patch_request_queue
    BY <1>1, ConcatEmptySeq
  <2> QED
    BY <2>1, <2>2, <2>3 DEF Channel!vars
<1>4. CASE SendPatch
  <2>1. /\ pReq \in PRequest /\ Held = <<pReq>> /\ Held' = <<>>
        /\ sent' = Append(sent, pReq)
        /\ UNCHANGED <<stop, patch_request_queue>>
        /\ lateSends = 0
        /\ lateSends' = IF stop THEN lateSends + 1 ELSE lateSends
    BY <1>1, <1>4 DEF SendPatch, Held, WellTyped, StopInv
  <2>2. /\ Len(<<pReq>> \o patch_request_queue) # 0
        /\ Head(<<pReq>> \o patch_request_queue) = pReq
        /\ Tail(<<pReq>> \o patch_request_queue) = patch_request_queue
    BY <1>1, <2>1
  <2>3. <<>> \o patch_request_queue = patch_request_queue
    BY <1>1, ConcatEmptySeq
  <2>4. Channel!Deliver
    BY <2>1, <2>2, <2>3 DEF Channel!Deliver
  <2> QED
    BY <2>4 DEF Channel!Next
<1>5. CASE RequestStop
  <2>1. ~stop /\ stop' /\ Held' = Held /\ UNCHANGED <<patch_request_queue, sent, lateSends>>
    BY <1>1, <1>5 DEF RequestStop, Woken, StopInv, Held, histVars
  <2>2. Channel!Close
    BY <1>1, <2>1 DEF Channel!Close, WellTyped, TypeOK
  <2> QED
    BY <2>2 DEF Channel!Next
<1>6. ASSUME UNCHANGED <<sent, patch_request_queue, pReq, stop, lateSends>>,
             worker' = "send" <=> worker = "send"
      PROVE  UNCHANGED Channel!vars
  BY <1>6 DEF Channel!vars, Held
<1>7. CASE \E r : OpenCodeFile(r)
  BY <1>6, <1>7 DEF OpenCodeFile, histVars
<1>8. CASE GetLogonCode \/ SetLogonCode \/ Join \/ NotifyAll
  BY <1>6, <1>8 DEF GetLogonCode, SetLogonCode, Join, NotifyAll, Woken, histVars
<1>9. CASE LoopTop \/ EvalPred \/ Block \/ PatchReturns \/ SpuriousWakeup
  BY <1>6, <1>9 DEF LoopTop, EvalPred, Block, PatchReturns, AfterAnswer,
     SpuriousWakeup, Moves, histVars
<1>10. CASE UNCHANGED vars
  BY <1>6, <1>10 DEF vars, histVars
<1> QED
  BY <1>2, <1>3, <1>4, <1>5, <1>7, <1>8, <1>9, <1>10
  DEF Next, MainStep, WorkerStep, PatchAircraftStatus, ReorderAircraftEditHandler

\* The two threads around their queue implement the abstract FIFO channel: at
\* most one attempt per request, in order, and at most one after the close.
THEOREM Refinement == Spec => ImplementsChannel
<1>1. Init => Channel!Init
  <2>1. Init => Held = <<>> /\ patch_request_queue = <<>>
    BY DEF Init, Held
  <2>2. <<>> \o <<>> = <<>>
    BY EmptySeq, ConcatEmptySeq
  <2> QED
    BY <2>1, <2>2 DEF Init, Channel!Init
<1>2. IInv /\ [Next]_vars => [Channel!Next]_(Channel!vars)
  BY StepRefinement
<1> QED
  BY <1>1, <1>2, Invariance, PTL DEF Spec, ImplementsChannel, Channel!Spec
=============================================================================
