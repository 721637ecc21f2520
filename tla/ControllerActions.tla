------------------------- MODULE ControllerActions -------------------------
(***************************************************************************)
(* The controller's choice of a status, and EuroScope's own ground state   *)
(* and clearance flag beside it.  A choice writes both into EuroScope, and *)
(* EuroScope reports every change of them back to the plugin, which would  *)
(* patch a status of its own for it: suppress_update hides the reports of  *)
(* the plugin's own changes.  The clearance flag can be toggled only       *)
(* through a radar screen, one that is taken from screen_stack.            *)
(*                                                                         *)
(* Everything here runs on EuroScope's main thread.  A choice is taken     *)
(* apart at its calls into EuroScope, in each of which EuroScope calls     *)
(* back; other handlers run only while no choice is being handled.         *)
(***************************************************************************)
EXTENDS Naturals, Sequences

CONSTANTS Aircraft,     \* aircraft with a valid flight plan
          Screens,      \* radar screens, as objects in memory
          StartUp,      \* what EuroScope may call the start-up state
          NoAircraft, NoStatus

Status == {"WFCR", "CLRD", "WFPU", "PUSH", "WFTX", "TAXI", "WFTO", "TOGA"}
GroundStates == {"", "PUSH", "TAXI", "DEPA"} \cup StartUp

ASSUME NoAircraftAssumption == NoAircraft \notin Aircraft
ASSUME NoStatusAssumption == NoStatus \notin Status
ASSUME StartUpAssumption == StartUp \cap {"", "PUSH", "TAXI", "DEPA"} = {}

VARIABLES
  ground, cleared,      \* EuroScope: ground state and clearance flag
  tracked,              \* EuroScope: the aircraft this controller tracks
  codeSaved,            \* GetLogonCode finds a code
  patched,              \* history: the status asked of the server last
  suppress_update,
  screen_stack,         \* the screens created and not yet freed, the newest last
  m_Opened,             \* the screens EuroScope shows
  stage, fp, choice     \* the choice being handled

euroScope == <<ground, cleared>>
screens == <<screen_stack, m_Opened>>
menu == <<stage, fp, choice>>
vars == <<euroScope, tracked, codeSaved, patched, suppress_update, screens, menu>>

Init ==
  /\ ground \in [Aircraft -> GroundStates]
  /\ cleared \in [Aircraft -> BOOLEAN]
  /\ tracked \in SUBSET Aircraft
  /\ codeSaved \in BOOLEAN
  /\ patched = [a \in Aircraft |-> NoStatus]
  /\ suppress_update \in BOOLEAN      \* the constructor leaves it uninitialised
  /\ screen_stack = <<>>
  /\ m_Opened = {}
  /\ stage = "idle" /\ fp = NoAircraft /\ choice = NoStatus
-----------------------------------------------------------------------------
(* Requests, and EuroScope's reports *)

\* Queues the request, unless there is no logon code.  From there to the server
\* it is in modules PatchQueue and QueueCache.
PatchAircraftStatus(a, s) ==
  \/ codeSaved /\ patched' = [patched EXCEPT ![a] = s]
  \/ ~codeSaved /\ UNCHANGED patched

\* The status for a ground state and a clearance flag; the code knows start-up as
\* "STUP", EuroScopePlugIn.h:1885 calls it "ST-UP".  The slip forgets the flag.
FlagForgotten(g, c) ==
  CASE g = "" -> "WFCR"
    [] g \in {"STUP", "PUSH"} -> "PUSH"
    [] g = "TAXI" -> "TAXI"
    [] g = "DEPA" -> "TOGA"
    [] OTHER -> NoStatus
StatusOf(g, c) ==
  CASE g = "" /\ c -> "CLRD"
    [] g = "" /\ ~c -> "WFCR"
    [] g \in {"STUP", "PUSH"} -> "PUSH"
    [] g = "TAXI" -> "TAXI"
    [] g = "DEPA" -> "TOGA"
    [] OTHER -> NoStatus

\* The slip does not look at suppress_update.
Untracked(a) == a \notin tracked
Ignored(a) == a \notin tracked \/ suppress_update

\* The report that a's ground state is now g, or its clearance flag c.
OnFlightPlanControllerAssignedDataUpdate(a, g, c) ==
  \/ /\ ~Ignored(a)
     /\ StatusOf(g, c) # NoStatus
     /\ PatchAircraftStatus(a, StatusOf(g, c))
  \/ /\ Ignored(a) \/ StatusOf(g, c) = NoStatus
     /\ UNCHANGED patched

\* EuroScope's own menus, or another controller, change one of the two.
EuroScopeUpdate(a, g, c) ==
  /\ stage = "idle"
  /\ (g # ground[a]) # (c # cleared[a])
  /\ ground' = [ground EXCEPT ![a] = g]
  /\ cleared' = [cleared EXCEPT ![a] = c]
  /\ OnFlightPlanControllerAssignedDataUpdate(a, g, c)
  /\ UNCHANGED <<tracked, codeSaved, suppress_update, screens, menu>>

\* Tracking starts, is handed over or ends.
EuroScopeTracks(S) ==
  /\ stage = "idle"
  /\ tracked' = S
  /\ UNCHANGED <<euroScope, codeSaved, patched, suppress_update, screens, menu>>

SetLogonCode ==
  /\ stage = "idle"
  /\ codeSaved' = TRUE
  /\ UNCHANGED <<euroScope, tracked, patched, suppress_update, screens, menu>>
-----------------------------------------------------------------------------
(* Radar screens *)

OnRadarScreenCreated(s) ==
  /\ stage = "idle"
  /\ \A n \in 1..Len(screen_stack) : screen_stack[n] # s
  /\ screen_stack' = Append(screen_stack, s)
  /\ m_Opened' = m_Opened \cup {s}
  /\ UNCHANGED <<euroScope, tracked, codeSaved, patched, suppress_update, menu>>

OnAsrContentToBeClosed(s) ==
  /\ stage = "idle"
  /\ s \in m_Opened
  /\ m_Opened' = m_Opened \ {s}
  /\ UNCHANGED <<euroScope, tracked, codeSaved, patched, suppress_update, screen_stack, menu>>
-----------------------------------------------------------------------------
(* The choice of status s for the selected aircraft a: FUNC_SWITCH_TO_... *)

OnFunctionCall(a, s) ==
  /\ stage = "idle"
  /\ stage' = "scratch" /\ fp' = a /\ choice' = s
  /\ suppress_update' = TRUE
  /\ UNCHANGED <<euroScope, tracked, codeSaved, patched, screens>>

\* What the choice writes into the scratch pad, and the ground state EuroScope
\* makes of that.  The slip writes the name of the status.
OwnName(s) == IF s \in {"PUSH", "TAXI", "TOGA"} THEN s ELSE "NSTS"
ScratchPadString(s) ==
  CASE s \in {"WFCR", "CLRD", "WFPU"} -> "NSTS"
    [] s \in {"PUSH", "WFTX"} -> "PUSH"
    [] s \in {"TAXI", "WFTO"} -> "TAXI"
    [] s = "TOGA" -> "DEPA"
GroundStateOf(string) == IF string = "NSTS" THEN "" ELSE string

\* EuroScope may refuse the change of an aircraft that another controller
\* tracks; the return value is not looked at.
SetScratchPadString ==
  LET g == GroundStateOf(ScratchPadString(choice)) IN
  /\ stage = "scratch"
  /\ \/ /\ ground' = [ground EXCEPT ![fp] = g]
        /\ OnFlightPlanControllerAssignedDataUpdate(fp, g, cleared[fp])
     \/ /\ fp \notin tracked
        /\ UNCHANGED <<ground, patched>>
  /\ stage' = "flag"
  /\ UNCHANGED <<cleared, tracked, codeSaved, suppress_update, screens, fp, choice>>

\* WFCR wants the flag off, the others want it on.  The slip drops the
\* difference.
Unset == ~cleared[fp]
ToToggle == cleared[fp] = (choice = "WFCR")

Top == screen_stack[Len(screen_stack)]

\* CallItemFunction, one turn of its loop for each of the next three actions.
\* The slip frees the screen whatever m_Opened says.
AnyScreen == TRUE
ToBeFreed == Top \notin m_Opened

FreeClosedScreen ==
  /\ stage = "flag" /\ ToToggle
  /\ screen_stack # <<>>
  /\ ToBeFreed
  /\ screen_stack' = SubSeq(screen_stack, 1, Len(screen_stack) - 1)
  /\ UNCHANGED <<euroScope, tracked, codeSaved, patched, suppress_update, m_Opened, menu>>

StartTagFunction ==
  /\ stage = "flag" /\ ToToggle
  /\ screen_stack # <<>>
  /\ Top \in m_Opened
  /\ \/ /\ cleared' = [cleared EXCEPT ![fp] = ~@]
        /\ OnFlightPlanControllerAssignedDataUpdate(fp, ground[fp], ~cleared[fp])
     \/ /\ fp \notin tracked
        /\ UNCHANGED <<cleared, patched>>
  /\ stage' = "patch"
  /\ UNCHANGED <<ground, tracked, codeSaved, suppress_update, screens, fp, choice>>

NoToggle ==
  /\ stage = "flag"
  /\ ~ToToggle \/ screen_stack = <<>>
  /\ stage' = "patch"
  /\ UNCHANGED <<euroScope, tracked, codeSaved, patched, suppress_update, screens, fp, choice>>

\* The slip leaves suppress_update as it is.
NeverReset == suppress_update
Reset == FALSE

PatchChoice ==
  /\ stage = "patch"
  /\ suppress_update' = Reset
  /\ PatchAircraftStatus(fp, choice)
  /\ stage' = "idle" /\ fp' = NoAircraft /\ choice' = NoStatus
  /\ UNCHANGED <<euroScope, tracked, codeSaved, screens>>
-----------------------------------------------------------------------------
EuroScopeActs ==
  \/ \E a \in Aircraft, g \in GroundStates, c \in BOOLEAN : EuroScopeUpdate(a, g, c)
  \/ \E S \in SUBSET Aircraft : EuroScopeTracks(S)
  \/ \E s \in Screens : OnRadarScreenCreated(s) \/ OnAsrContentToBeClosed(s)

CallItemFunction == FreeClosedScreen \/ StartTagFunction \/ NoToggle

Next ==
  \/ EuroScopeActs
  \/ SetLogonCode
  \/ \E a \in Aircraft, s \in Status : OnFunctionCall(a, s)
  \/ SetScratchPadString
  \/ CallItemFunction
  \/ PatchChoice

Spec == Init /\ [][Next]_vars
-----------------------------------------------------------------------------
TypeOK ==
  /\ ground \in [Aircraft -> GroundStates]
  /\ cleared \in [Aircraft -> BOOLEAN]
  /\ tracked \in SUBSET Aircraft
  /\ codeSaved \in BOOLEAN
  /\ patched \in [Aircraft -> Status \cup {NoStatus}]
  /\ suppress_update \in BOOLEAN
  /\ screen_stack \in Seq(Screens)
  /\ m_Opened \in SUBSET Screens
  /\ \/ stage = "idle" /\ fp = NoAircraft /\ choice = NoStatus
     \/ stage \in {"scratch", "flag", "patch"} /\ fp \in Aircraft /\ choice \in Status

\* A screen that EuroScope still shows is never freed, in whatever order screens
\* open, close and are taken off the stack (lines 164-172, 566-571).
ShownAreKept == \A s \in m_Opened : \E n \in 1..Len(screen_stack) : screen_stack[n] = s

\* The status that EuroScope's own state shows for status s: the three waiting
\* statuses have none of their own.
Shown(s) ==
  CASE s = "WFPU" -> "CLRD"
    [] s = "WFTX" -> "PUSH"
    [] s = "WFTO" -> "TAXI"
    [] OTHER -> s

\* When a choice is patched, EuroScope shows it too, so that the next report does
\* not take it back: for a tracked aircraft this fails only for want of a screen
\* to toggle the flag through, and only where the ground state is empty.
ChoiceIsShown ==
  stage = "patch" /\ fp \in tracked =>
    \/ StatusOf(ground[fp], cleared[fp]) = Shown(choice)
    \/ m_Opened = {} /\ choice \in {"WFCR", "CLRD", "WFPU"}

\* While a choice is handled, nothing but the choice itself is patched: none of
\* the reports that the handler's own calls provoke comes through.
OnlyTheChoicePatched ==
  [][stage # "idle" =>
       \/ UNCHANGED patched
       \/ stage' = "idle" /\ patched' = [patched EXCEPT ![fp] = choice]]_vars

\* Whatever the constructor left in suppress_update, it is off between handlers
\* from the first choice on.
HeardAfterChoice == [](stage = "patch" => [](stage = "idle" => ~suppress_update))

\* From the first request for an aircraft on, the status that the plugin asked the
\* server for last is the one EuroScope shows, over any sequence of choices and of
\* changes made elsewhere (lines 448-534, 538-563), as long as the aircraft are
\* tracked, a screen is open when one chooses, and the ground states are ones that
\* the code knows.  Neither the start of suppress_update nor a code that is saved
\* late matters: nothing is asked for before they are right.  Of the status the
\* server has, nothing is said: a PATCH that fails (lines 149-157) is not asked for
\* again, and one may wait in the queue (EveryRequestSent of module PatchQueue).
Favourable ==
  /\ tracked = Aircraft
  /\ stage # "idle" => m_Opened # {}
  /\ \A a \in Aircraft : StatusOf(ground[a], cleared[a]) # NoStatus
InStep ==
  []Favourable =>
    [](stage = "idle" =>
         \A a \in Aircraft :
           patched[a] # NoStatus => StatusOf(ground[a], cleared[a]) = Shown(patched[a]))
-----------------------------------------------------------------------------
\* "only tracked ac will be updated" (UniSequence.cpp:538): a tracked aircraft
\* whose ground state or clearance changes elsewhere is patched.  Before the first
\* choice that depends on what the constructor left in suppress_update.
TrackedAreUpdated ==
  [][\A a \in tracked :
       LET s == StatusOf(ground'[a], cleared'[a]) IN
       (stage = "idle" /\ codeSaved /\ euroScope' # euroScope /\ s # NoStatus
          /\ (ground'[a] # ground[a] \/ cleared'[a] # cleared[a]))
         => patched'[a] = s]_vars
=============================================================================
