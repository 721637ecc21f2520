---------------------- MODULE ControllerActionsProofs ----------------------
(***************************************************************************)
(* Proofs for ControllerActions, for any aircraft, screens and start-up    *)
(* words.  Besides the types the invariant says what a handler has         *)
(* achieved at each of its stages; ShownAreKept carries the case in which  *)
(* the stack runs empty: then no screen was open.                          *)
(***************************************************************************)
EXTENDS ControllerActions, SequenceTheorems, TLAPS

\* suppress_update stays on from the choice to its patch.
SuppressedInside == stage # "idle" => suppress_update

Wanted == GroundStateOf(ScratchPadString(choice))

\* What the scratch pad did, and then what the toggle did.
Written == stage \in {"flag", "patch"} /\ fp \in tracked => ground[fp] = Wanted
Toggled ==
  stage = "patch" /\ fp \in tracked =>
    cleared[fp] = (choice # "WFCR") \/ m_Opened = {}

IInv == TypeOK /\ ShownAreKept /\ SuppressedInside /\ Written /\ Toggled
-----------------------------------------------------------------------------
\* The scratch pad string of a status is a ground state EuroScope knows.
LEMMA WantedIsGroundState ==
  ASSUME NEW s \in Status
  PROVE  GroundStateOf(ScratchPadString(s)) \in GroundStates
BY DEF Status, GroundStates, GroundStateOf, ScratchPadString

\* What a report reads off a ground state is a status, if anything.
LEMMA StatusOfType ==
  ASSUME NEW g, NEW c
  PROVE  StatusOf(g, c) \in Status \cup {NoStatus}
BY DEF Status, StatusOf

\* A report changes at most the one entry, and nothing when it is suppressed.
LEMMA ReportType ==
  ASSUME TypeOK, NEW a \in Aircraft, NEW g, NEW c,
         OnFlightPlanControllerAssignedDataUpdate(a, g, c)
  PROVE  /\ patched' \in [Aircraft -> Status \cup {NoStatus}]
         /\ suppress_update => UNCHANGED patched
<1>1. StatusOf(g, c) \in Status \cup {NoStatus}
  BY StatusOfType
<1>2. QED
  BY <1>1 DEF OnFlightPlanControllerAssignedDataUpdate, PatchAircraftStatus, Ignored, TypeOK

\* The ground state and the flag that a choice leaves read back as that choice.
LEMMA WrittenIsShown ==
  ASSUME NEW s \in Status, NEW c \in BOOLEAN, c = (s # "WFCR")
  PROVE  StatusOf(GroundStateOf(ScratchPadString(s)), c) = Shown(s)
BY DEF Status, StatusOf, GroundStateOf, ScratchPadString, Shown

\* With a ground state of its own, a choice reads back whatever the flag is.
LEMMA FlagMattersOnGround ==
  ASSUME NEW s \in Status \ {"WFCR", "CLRD", "WFPU"}, NEW c \in BOOLEAN
  PROVE  StatusOf(GroundStateOf(ScratchPadString(s)), c) = Shown(s)
BY DEF Status, StatusOf, GroundStateOf, ScratchPadString, Shown
-----------------------------------------------------------------------------
LEMMA InitHolds == Init => IInv
BY DEF Init, IInv, TypeOK, ShownAreKept, SuppressedInside, Written, Toggled

LEMMA NextKeepsTypes == IInv /\ Next => TypeOK'
<1> SUFFICES ASSUME IInv, Next PROVE TypeOK'
  OBVIOUS
<1> USE DEF IInv
<1>1. ASSUME NEW a \in Aircraft, NEW g \in GroundStates, NEW c \in BOOLEAN,
             EuroScopeUpdate(a, g, c)
      PROVE  TypeOK'
  BY <1>1, ReportType DEF EuroScopeUpdate, TypeOK, menu, screens
<1>2. ASSUME NEW S \in SUBSET Aircraft, EuroScopeTracks(S)
      PROVE  TypeOK'
  BY <1>2 DEF EuroScopeTracks, TypeOK, menu, screens, euroScope
<1>3. ASSUME NEW s \in Screens, OnRadarScreenCreated(s) PROVE TypeOK'
  BY <1>3 DEF OnRadarScreenCreated, TypeOK, menu, euroScope
<1>4. ASSUME NEW s \in Screens, OnAsrContentToBeClosed(s) PROVE TypeOK'
  BY <1>4 DEF OnAsrContentToBeClosed, TypeOK, menu, euroScope
<1>5. CASE SetLogonCode
  BY <1>5 DEF SetLogonCode, TypeOK, menu, screens, euroScope
<1>6. ASSUME NEW a \in Aircraft, NEW s \in Status, OnFunctionCall(a, s)
      PROVE  TypeOK'
  BY <1>6 DEF OnFunctionCall, TypeOK, screens, euroScope
<1>7. CASE SetScratchPadString
  <2>1. fp \in Aircraft /\ choice \in Status
    BY <1>7 DEF SetScratchPadString, TypeOK
  <2>2. Wanted \in GroundStates
    BY <2>1, WantedIsGroundState DEF Wanted
  <2>3. patched' \in [Aircraft -> Status \cup {NoStatus}]
    BY <1>7, <2>1, ReportType DEF SetScratchPadString, TypeOK
  <2>4. ground' \in [Aircraft -> GroundStates]
    BY <1>7, <2>1, <2>2 DEF SetScratchPadString, TypeOK, Wanted
  <2>5. QED
    BY <1>7, <2>1, <2>3, <2>4 DEF SetScratchPadString, TypeOK, screens
<1>8. CASE FreeClosedScreen
  <2>1. SubSeq(screen_stack, 1, Len(screen_stack) - 1) \in Seq(Screens)
    BY <1>8 DEF FreeClosedScreen, TypeOK
  <2>2. QED
    BY <1>8, <2>1 DEF FreeClosedScreen, TypeOK, menu, euroScope
<1>9. CASE StartTagFunction
  <2>1. fp \in Aircraft /\ choice \in Status
    BY <1>9 DEF StartTagFunction, TypeOK
  <2>2. patched' \in [Aircraft -> Status \cup {NoStatus}]
    BY <1>9, <2>1, ReportType DEF StartTagFunction, TypeOK
  <2>3. cleared' \in [Aircraft -> BOOLEAN]
    BY <1>9, <2>1 DEF StartTagFunction, TypeOK
  <2>4. QED
    BY <1>9, <2>1, <2>2, <2>3 DEF StartTagFunction, TypeOK, screens
<1>10. CASE NoToggle
  BY <1>10 DEF NoToggle, TypeOK, screens, euroScope
<1>11. CASE PatchChoice
  BY <1>11 DEF PatchChoice, PatchAircraftStatus, Reset, TypeOK, screens, euroScope
<1>12. QED
  BY <1>1, <1>2, <1>3, <1>4, <1>5, <1>6, <1>7, <1>8, <1>9, <1>10, <1>11
  DEF Next, EuroScopeActs, CallItemFunction

LEMMA NextKeepsShown == IInv /\ Next => ShownAreKept'
<1> SUFFICES ASSUME IInv, Next PROVE ShownAreKept'
  OBVIOUS
<1> USE DEF IInv
<1>1. CASE UNCHANGED screens
  BY <1>1 DEF ShownAreKept, screens
<1>2. ASSUME NEW s \in Screens, OnRadarScreenCreated(s) PROVE ShownAreKept'
  <2>1. Len(screen_stack') = Len(screen_stack) + 1
    BY <1>2 DEF OnRadarScreenCreated, TypeOK
  <2>2. screen_stack'[Len(screen_stack) + 1] = s
    BY <1>2 DEF OnRadarScreenCreated, TypeOK
  <2>3. \A n \in 1..Len(screen_stack) : screen_stack'[n] = screen_stack[n]
    BY <1>2 DEF OnRadarScreenCreated, TypeOK
  <2>4. Len(screen_stack) \in Nat
    BY DEF TypeOK
  <2>5. QED
    BY <1>2, <2>1, <2>2, <2>3, <2>4 DEF OnRadarScreenCreated, ShownAreKept
<1>3. ASSUME NEW s \in Screens, OnAsrContentToBeClosed(s) PROVE ShownAreKept'
  BY <1>3 DEF OnAsrContentToBeClosed, ShownAreKept
<1>4. CASE FreeClosedScreen
  <2> DEFINE last == Len(screen_stack)
  <2>1. last \in Nat \ {0}
    BY <1>4 DEF FreeClosedScreen, TypeOK
  <2>2. screen_stack' = SubSeq(screen_stack, 1, last - 1) /\ screen_stack \in Seq(Screens)
    BY <1>4 DEF FreeClosedScreen, TypeOK
  <2>3. /\ Len(screen_stack') = last - 1
        /\ \A n \in 1..last - 1 : screen_stack'[n] = screen_stack[n]
    <3>1. last - 1 \in Int /\ 1 \in Int
      BY <2>1
    <3>2. \A n \in 1..last - 1 : screen_stack[n] \in Screens
      BY <2>1, <2>2
    <3> HIDE DEF last
    <3>3. /\ Len(SubSeq(screen_stack, 1, last - 1))
               = IF 1 <= last - 1 THEN (last - 1) - 1 + 1 ELSE 0
          /\ \A n \in 1..(last - 1) - 1 + 1 :
               SubSeq(screen_stack, 1, last - 1)[n] = screen_stack[1 + n - 1]
      BY <3>1, <3>2, SubSeqProperties
    <3>4. QED
      BY <2>1, <2>2, <3>3
  <2>4. screen_stack[last] \notin m_Opened
    BY <1>4 DEF FreeClosedScreen, ToBeFreed, Top
  <2>5. ASSUME NEW s \in m_Opened
        PROVE  \E n \in 1..last - 1 : screen_stack'[n] = s
    <3>1. PICK n \in 1..last : screen_stack[n] = s
      BY DEF ShownAreKept
    <3>2. n \in 1..last - 1
      BY <2>1, <2>4, <3>1
    <3>3. QED
      BY <2>3, <3>1, <3>2
  <2>6. m_Opened' = m_Opened
    BY <1>4 DEF FreeClosedScreen
  <2>7. QED
    BY <2>3, <2>5, <2>6 DEF ShownAreKept
<1>5. QED
  BY <1>1, <1>2, <1>3, <1>4
  DEF Next, EuroScopeActs, EuroScopeUpdate, EuroScopeTracks, SetLogonCode, OnFunctionCall,
      SetScratchPadString, CallItemFunction, StartTagFunction, NoToggle, PatchChoice

\* From the choice to the patch nothing but the choice changes suppress_update.
LEMMA NextKeepsSuppressed == IInv /\ Next => SuppressedInside'
<1> SUFFICES ASSUME IInv, Next PROVE SuppressedInside'
  OBVIOUS
<1> USE DEF IInv, SuppressedInside
<1>1. CASE stage = "idle" /\ UNCHANGED stage
  BY <1>1
<1>2. CASE \E a \in Aircraft, s \in Status : OnFunctionCall(a, s)
  BY <1>2 DEF OnFunctionCall
<1>3. CASE SetScratchPadString
  BY <1>3 DEF SetScratchPadString
<1>4. CASE CallItemFunction
  BY <1>4 DEF CallItemFunction, FreeClosedScreen, StartTagFunction, NoToggle, menu
<1>5. CASE PatchChoice
  BY <1>5 DEF PatchChoice
<1>6. QED
  BY <1>1, <1>2, <1>3, <1>4, <1>5
  DEF Next, EuroScopeActs, EuroScopeUpdate, EuroScopeTracks, OnRadarScreenCreated,
      OnAsrContentToBeClosed, SetLogonCode, menu

\* The scratch pad makes Written true, and nothing that runs in a choice after it
\* touches the ground state.
LEMMA NextKeepsWritten == IInv /\ Next => Written'
<1> SUFFICES ASSUME IInv, Next PROVE Written'
  OBVIOUS
<1> USE DEF IInv, Written
<1>1. CASE stage' \in {"idle", "scratch"}
  BY <1>1
<1>2. CASE SetScratchPadString
  <2>1. fp \in Aircraft
    BY <1>2 DEF SetScratchPadString, TypeOK
  <2>2. Wanted' = Wanted
    BY <1>2 DEF SetScratchPadString, Wanted
  <2>3. QED
    BY <1>2, <2>1, <2>2 DEF SetScratchPadString, TypeOK, Wanted
<1>3. CASE CallItemFunction
  <2>1. UNCHANGED <<ground, tracked, fp, choice>> /\ stage = "flag"
    BY <1>3 DEF CallItemFunction, FreeClosedScreen, StartTagFunction, NoToggle, menu, euroScope
  <2>2. QED
    BY <2>1 DEF Wanted
<1>4. QED
  BY <1>1, <1>2, <1>3
  DEF Next, EuroScopeActs, EuroScopeUpdate, EuroScopeTracks, OnRadarScreenCreated,
      OnAsrContentToBeClosed, SetLogonCode, OnFunctionCall, PatchChoice, menu

\* The toggle is skipped only when the flag is right already or no screen is open.
LEMMA NextKeepsToggled == IInv /\ Next => Toggled'
<1> SUFFICES ASSUME IInv, Next PROVE Toggled'
  OBVIOUS
<1> USE DEF IInv
<1>1. CASE stage' # "patch"
  BY <1>1 DEF Toggled
<1>2. CASE StartTagFunction
  <2>1. fp \in Aircraft /\ cleared \in [Aircraft -> BOOLEAN] /\ cleared[fp] \in BOOLEAN
    BY <1>2 DEF StartTagFunction, TypeOK
  <2>2. fp \in tracked => cleared'[fp] = ~cleared[fp]
    BY <1>2, <2>1 DEF StartTagFunction
  <2>3. cleared[fp] = (choice = "WFCR")
    BY <1>2 DEF StartTagFunction, ToToggle
  <2>4. fp \in tracked => cleared'[fp] = (choice # "WFCR")
    BY <2>2, <2>3
  <2>5. fp' = fp /\ tracked' = tracked /\ choice' = choice
    BY <1>2 DEF StartTagFunction
  <2>6. QED
    BY <2>4, <2>5 DEF Toggled
<1>3. CASE NoToggle
  <2>1. fp \in Aircraft /\ cleared[fp] \in BOOLEAN
    BY <1>3 DEF NoToggle, TypeOK
  <2>2. CASE screen_stack = <<>>
    <3>1. m_Opened = {}
      BY <2>2 DEF ShownAreKept
    <3>2. QED
      BY <1>3, <3>1 DEF NoToggle, Toggled, screens
  <2>3. CASE ~ToToggle
    <3>1. cleared[fp] = (choice # "WFCR")
      BY <2>1, <2>3 DEF ToToggle
    <3>2. QED
      BY <1>3, <3>1 DEF NoToggle, Toggled, euroScope
  <2>4. QED
    BY <1>3, <2>2, <2>3 DEF NoToggle
<1>4. QED
  BY <1>1, <1>2, <1>3
  DEF Next, EuroScopeActs, EuroScopeUpdate, EuroScopeTracks, OnRadarScreenCreated,
      OnAsrContentToBeClosed, SetLogonCode, OnFunctionCall, SetScratchPadString,
      CallItemFunction, FreeClosedScreen, PatchChoice, menu, TypeOK
-----------------------------------------------------------------------------
\* The inductive invariant holds in every reachable state.
THEOREM Invariance == Spec => []IInv
<1>1. Init => IInv
  BY InitHolds
<1>2. IInv /\ [Next]_vars => IInv'
  <2>1. CASE Next
    BY <2>1, NextKeepsTypes, NextKeepsShown, NextKeepsSuppressed, NextKeepsWritten,
       NextKeepsToggled DEF IInv
  <2>2. CASE UNCHANGED vars
    BY <2>2 DEF vars, euroScope, screens, menu, IInv, TypeOK, ShownAreKept,
       SuppressedInside, Written, Toggled, Wanted
  <2>3. QED
    BY <2>1, <2>2
<1>3. QED
  BY <1>1, <1>2, PTL DEF Spec

\* Every state of the choice and of EuroScope's data is well typed.
THEOREM TypeCorrectness == Spec => []TypeOK
BY Invariance, PTL DEF IInv

\* No order of openings, closings and choices frees a screen EuroScope shows.
THEOREM ScreensKept == Spec => []ShownAreKept
BY Invariance, PTL DEF IInv

\* A choice for a tracked aircraft reads back as that choice when it is patched.
THEOREM ChoicesShown == Spec => []ChoiceIsShown
<1>1. IInv => ChoiceIsShown
  <2> SUFFICES ASSUME IInv, stage = "patch", fp \in tracked,
                      ~(m_Opened = {} /\ choice \in {"WFCR", "CLRD", "WFPU"})
               PROVE  StatusOf(ground[fp], cleared[fp]) = Shown(choice)
    BY DEF ChoiceIsShown
  <2>1. choice \in Status /\ cleared[fp] \in BOOLEAN
    BY DEF IInv, TypeOK
  <2>2. ground[fp] = GroundStateOf(ScratchPadString(choice))
    BY DEF IInv, Written, Wanted
  <2>3. CASE choice \in {"WFCR", "CLRD", "WFPU"}
    <3>1. cleared[fp] = (choice # "WFCR")
      BY <2>3 DEF IInv, Toggled
    <3>2. QED
      BY <2>1, <2>2, <3>1, WrittenIsShown
  <2>4. CASE choice \notin {"WFCR", "CLRD", "WFPU"}
    BY <2>1, <2>2, <2>4, FlagMattersOnGround
  <2>5. QED
    BY <2>3, <2>4
<1>2. QED
  BY Invariance, <1>1, PTL

\* Nothing but the choice itself is patched while it is handled.
THEOREM OnlyChoicesPatched == Spec => OnlyTheChoicePatched
<1> DEFINE Silent == stage # "idle" =>
             \/ UNCHANGED patched
             \/ stage' = "idle" /\ patched' = [patched EXCEPT ![fp] = choice]
<1>1. IInv /\ [Next]_vars => [Silent]_vars
  <2> SUFFICES ASSUME IInv, Next, stage # "idle" PROVE Silent
    OBVIOUS
  <2> USE DEF IInv
  <2>1. suppress_update /\ fp \in Aircraft /\ choice \in Status
    BY DEF SuppressedInside, TypeOK
  <2>2. CASE SetScratchPadString
    BY <2>1, <2>2, ReportType DEF SetScratchPadString
  <2>3. CASE StartTagFunction
    BY <2>1, <2>3, ReportType DEF StartTagFunction
  <2>4. CASE FreeClosedScreen \/ NoToggle
    BY <2>4 DEF FreeClosedScreen, NoToggle
  <2>5. CASE PatchChoice
    BY <2>5 DEF PatchChoice, PatchAircraftStatus
  <2>6. QED
    BY <2>2, <2>3, <2>4, <2>5
    DEF Next, EuroScopeActs, EuroScopeUpdate, EuroScopeTracks, OnRadarScreenCreated,
        OnAsrContentToBeClosed, SetLogonCode, OnFunctionCall, CallItemFunction
<1>2. QED
  BY Invariance, <1>1, PTL DEF Spec, OnlyTheChoicePatched
-----------------------------------------------------------------------------
\* Whatever the constructor left in suppress_update, it is off between handlers from
\* the first choice on: a choice ends with the reset, and only a choice sets it.
THEOREM Heard == Spec => HeardAfterChoice
<1> DEFINE Off == stage = "idle" => ~suppress_update
           Chosen == stage = "patch"
<1>1. Chosen => Off
  OBVIOUS
<1>2. Off /\ [Next]_vars => Off'
  <2> SUFFICES ASSUME Off, [Next]_vars PROVE Off'
    OBVIOUS
  <2>1. CASE PatchChoice
    BY <2>1 DEF PatchChoice, Reset
  <2>2. CASE stage' # "idle"
    BY <2>2
  <2>3. CASE UNCHANGED <<stage, suppress_update>>
    BY <2>3
  <2> QED
    BY <2>1, <2>2, <2>3
    DEF Next, EuroScopeActs, EuroScopeUpdate, EuroScopeTracks, OnRadarScreenCreated,
        OnAsrContentToBeClosed, SetLogonCode, OnFunctionCall, SetScratchPadString,
        CallItemFunction, FreeClosedScreen, StartTagFunction, NoToggle, menu, vars
<1>3. Spec => [](Chosen => []Off)
  BY <1>1, <1>2, PTL DEF Spec
<1> QED
  BY <1>3 DEF HeardAfterChoice
-----------------------------------------------------------------------------
(* EuroScope in step with what was last asked for, as long as things are favourable *)

\* What EuroScope shows of a is what was patched for it last.
Agrees(a) == patched[a] # NoStatus => StatusOf(ground[a], cleared[a]) = Shown(patched[a])

\* Between handlers all aircraft agree, within one all but its own.
AllAgree == \A a \in Aircraft : stage = "idle" \/ a # fp => Agrees(a)

\* Once anything was patched there is a code, and reports come through.
PatchedAtAll ==
  (\E a \in Aircraft : patched[a] # NoStatus) =>
    codeSaved /\ (stage = "idle" => ~suppress_update)

SInv == AllAgree /\ PatchedAtAll

\* The status of a report is none of the waiting ones: it shows as itself.
LEMMA ReportsShowThemselves ==
  ASSUME NEW g, NEW c \in BOOLEAN
  PROVE  Shown(StatusOf(g, c)) = StatusOf(g, c)
BY NoStatusAssumption DEF StatusOf, Shown, Status

\* A change made elsewhere is patched at once, or nothing ever was.
LEMMA UpdatesStayInStep ==
  ASSUME IInv, SInv, Favourable, Favourable',
         NEW a \in Aircraft, NEW g \in GroundStates, NEW c \in BOOLEAN,
         EuroScopeUpdate(a, g, c)
  PROVE  SInv'
<1> USE DEF IInv
<1>1. /\ ground' = [ground EXCEPT ![a] = g]
      /\ cleared' = [cleared EXCEPT ![a] = c]
      /\ OnFlightPlanControllerAssignedDataUpdate(a, g, c)
      /\ UNCHANGED <<tracked, codeSaved, suppress_update, stage, fp>>
      /\ stage = "idle"
  BY DEF EuroScopeUpdate, menu
<1>2. /\ ground'[a] = g /\ cleared'[a] = c
      /\ \A b \in Aircraft \ {a} : ground'[b] = ground[b] /\ cleared'[b] = cleared[b]
  BY <1>1 DEF TypeOK
<1>3. StatusOf(g, c) # NoStatus
  BY <1>2 DEF Favourable
<1>4. a \in tracked
  BY DEF Favourable
<1>5. CASE suppress_update \/ ~codeSaved
  <2>1. \A b \in Aircraft : patched[b] = NoStatus
    BY <1>1, <1>5 DEF SInv, PatchedAtAll
  <2>2. UNCHANGED patched
    BY <1>1, <1>5 DEF OnFlightPlanControllerAssignedDataUpdate, PatchAircraftStatus, Ignored
  <2> QED
    BY <2>1, <2>2 DEF SInv, AllAgree, PatchedAtAll, Agrees
<1>6. CASE ~suppress_update /\ codeSaved
  <2>1. patched' = [patched EXCEPT ![a] = StatusOf(g, c)]
    BY <1>1, <1>3, <1>4, <1>6
    DEF OnFlightPlanControllerAssignedDataUpdate, PatchAircraftStatus, Ignored
  <2>2. /\ patched'[a] = StatusOf(g, c)
        /\ \A b \in Aircraft \ {a} : patched'[b] = patched[b]
    BY <2>1 DEF TypeOK
  <2>3. Agrees(a)'
    BY <1>2, <2>2, ReportsShowThemselves DEF Agrees
  <2>4. \A b \in Aircraft \ {a} : Agrees(b)'
    BY <1>1, <1>2, <2>2 DEF SInv, AllAgree, Agrees
  <2> QED
    BY <1>1, <1>6, <2>3, <2>4 DEF SInv, AllAgree, PatchedAtAll
<1> QED
  BY <1>1, <1>5, <1>6 DEF TypeOK

\* Within a handler nothing is patched, and only its own aircraft changes.
LEMMA HandlerStaysInStep ==
  ASSUME IInv, SInv, SetScratchPadString \/ StartTagFunction
  PROVE  SInv'
<1> USE DEF IInv
<1>1. /\ stage # "idle" /\ stage' # "idle" /\ fp \in Aircraft
      /\ UNCHANGED <<codeSaved, fp>>
      /\ suppress_update
      /\ cleared \in [Aircraft -> BOOLEAN] /\ ground \in [Aircraft -> GroundStates]
  BY DEF SetScratchPadString, StartTagFunction, TypeOK, SuppressedInside
<1>2. UNCHANGED patched
  BY <1>1 DEF SetScratchPadString, StartTagFunction, Ignored,
              OnFlightPlanControllerAssignedDataUpdate
<1>3. \A b \in Aircraft \ {fp} : ground'[b] = ground[b] /\ cleared'[b] = cleared[b]
  BY <1>1 DEF SetScratchPadString, StartTagFunction
<1> QED
  BY <1>1, <1>2, <1>3 DEF SInv, AllAgree, PatchedAtAll, Agrees

\* The patch at the end is of what EuroScope shows by then.
LEMMA PatchStaysInStep ==
  ASSUME IInv, SInv, ChoiceIsShown, Favourable, PatchChoice,
         NEW a \in Aircraft, fp = a
  PROVE  SInv'
<1> USE DEF IInv
<1>1. /\ stage = "patch" /\ stage' = "idle" /\ ~suppress_update'
      /\ choice \in Status
      /\ UNCHANGED <<ground, cleared, codeSaved>>
      /\ PatchAircraftStatus(a, choice)
  BY DEF PatchChoice, Reset, TypeOK, euroScope
<1>2. StatusOf(ground[a], cleared[a]) = Shown(choice)
  BY <1>1 DEF ChoiceIsShown, Favourable
<1>3. CASE ~codeSaved
  <2>1. \A b \in Aircraft : patched[b] = NoStatus
    BY <1>3 DEF SInv, PatchedAtAll
  <2>2. UNCHANGED patched
    BY <1>1, <1>3 DEF PatchAircraftStatus
  <2> QED
    BY <2>1, <2>2 DEF SInv, AllAgree, PatchedAtAll, Agrees
<1>4. CASE codeSaved
  <2>1. /\ patched'[a] = choice
        /\ \A b \in Aircraft \ {a} : patched'[b] = patched[b]
    BY <1>1, <1>4 DEF PatchAircraftStatus, TypeOK
  <2>2. Agrees(a)'
    BY <1>1, <1>2, <2>1 DEF Agrees
  <2>3. \A b \in Aircraft \ {a} : Agrees(b)'
    BY <1>1, <2>1 DEF SInv, AllAgree, Agrees
  <2> QED
    BY <1>1, <1>4, <2>2, <2>3 DEF SInv, AllAgree, PatchedAtAll
<1> QED
  BY <1>1, <1>3, <1>4 DEF TypeOK

LEMMA StaysInStep ==
  IInv /\ SInv /\ ChoiceIsShown /\ Favourable /\ Favourable' /\ [Next]_vars => SInv'
<1> SUFFICES ASSUME IInv, SInv, ChoiceIsShown, Favourable, Favourable', [Next]_vars
             PROVE  SInv'
  OBVIOUS
<1>1. CASE \E a \in Aircraft, g \in GroundStates, c \in BOOLEAN : EuroScopeUpdate(a, g, c)
  BY <1>1, UpdatesStayInStep
<1>2. CASE SetScratchPadString \/ StartTagFunction
  BY <1>2, HandlerStaysInStep
<1>3. CASE PatchChoice
  <2>1. fp \in Aircraft
    BY <1>3 DEF PatchChoice, IInv, TypeOK
  <2> QED
    BY <1>3, <2>1, PatchStaysInStep
<1>4. CASE SetLogonCode
  BY <1>4 DEF SetLogonCode, SInv, AllAgree, PatchedAtAll, Agrees, menu, euroScope
<1>5. CASE \E a \in Aircraft, s \in Status : OnFunctionCall(a, s)
  BY <1>5 DEF OnFunctionCall, SInv, AllAgree, PatchedAtAll, Agrees, euroScope
<1>6. CASE NoToggle
  BY <1>6 DEF NoToggle, SInv, AllAgree, PatchedAtAll, Agrees, euroScope
<1>7. CASE UNCHANGED <<euroScope, codeSaved, patched, suppress_update, menu>>
  BY <1>7 DEF SInv, AllAgree, PatchedAtAll, Agrees, menu, euroScope
<1> QED
  BY <1>1, <1>2, <1>3, <1>4, <1>5, <1>6, <1>7
  DEF Next, EuroScopeActs, EuroScopeTracks, OnRadarScreenCreated, OnAsrContentToBeClosed,
      CallItemFunction, FreeClosedScreen, vars, menu, screens

\* From the first request for an aircraft on, the status asked for last and
\* EuroScope's own state agree between handlers, over any choices and any changes
\* made elsewhere, in a favourable session: all aircraft tracked, a screen open,
\* known ground states.  What becomes of the request is not part of it.
THEOREM StepwiseAgreement == Spec => InStep
<1> DEFINE Agreed == stage = "idle" =>
             \A a \in Aircraft :
               patched[a] # NoStatus => StatusOf(ground[a], cleared[a]) = Shown(patched[a])
<1>1. Init => SInv
  BY DEF Init, SInv, AllAgree, PatchedAtAll, Agrees
<1>2. SInv => Agreed
  BY DEF SInv, AllAgree, Agrees
<1>3. Spec => ([]Favourable => []Agreed)
  BY <1>1, <1>2, StaysInStep, Invariance, ChoicesShown, PTL DEF Spec
<1> QED
  BY <1>3 DEF InStep
=============================================================================
