----------------------------- MODULE Lifecycle -----------------------------
(***************************************************************************)
(* What EuroScope is promised about unloading the plugin: from the request *)
(* on there is a budget of network operations, which is used up and never  *)
(* raised, whoever begins them; once every thread was told, next to        *)
(* nothing of it is left; and when unloading has returned, nothing of the  *)
(* plugin runs any more.                                                   *)
(***************************************************************************)
EXTENDS Naturals

CONSTANTS MaxGets,      \* attempts of the update check
          MaxConnects   \* one connection for each airport

\* A PATCH, an attempt of the update check, a websocket connection.
Kinds == {"patch", "get", "connect"}
Budgets == [Kinds -> Nat]

VARIABLES
  phase,
  due,      \* operations of each kind that may still begin
  begun,    \* operations of each kind begun since the unloading was requested
  left      \* what of the plugin is alive: some thread or connection, or none

vars == <<phase, due, begun, left>>

Init ==
  /\ phase = "loaded"
  /\ due \in Budgets
  /\ begun = [k \in Kinds |-> 0]
  /\ left = "some"

\* Requests come in and are sent, airports are listed and connected.
Run ==
  /\ phase = "loaded"
  /\ due' \in Budgets
  /\ UNCHANGED <<phase, begun, left>>

NotRaised == due' \in Budgets /\ \A k \in Kinds : due'[k] <= due[k]

\* The requests that are due are those handed over and not sent yet.
RequestUnload ==
  /\ phase = "loaded"
  /\ phase' = "telling"
  /\ NotRaised /\ due'["get"] <= MaxGets /\ due'["connect"] <= MaxConnects
  /\ UNCHANGED <<begun, left>>

\* Every thread was told to stop: none begins more than it was about to.
AllTold ==
  /\ phase = "telling"
  /\ phase' = "ending"
  /\ NotRaised /\ due'["patch"] <= 1 /\ due'["get"] <= 1
  /\ UNCHANGED <<begun, left>>

BeginOperation(k) ==
  /\ phase \in {"telling", "ending"} /\ left = "some"
  /\ NotRaised /\ due'[k] < due[k]
  /\ begun' = [begun EXCEPT ![k] = @ + 1]
  /\ UNCHANGED <<phase, left>>

GiveUpOperations ==
  /\ phase \in {"telling", "ending"}
  /\ NotRaised
  /\ UNCHANGED <<phase, begun, left>>

LastEnds ==
  /\ phase = "ending" /\ left = "some"
  /\ left' = "none"
  /\ NotRaised
  /\ UNCHANGED <<phase, begun>>

Unloaded ==
  /\ phase = "ending" /\ left = "none"
  /\ phase' = "unloaded"
  /\ UNCHANGED <<due, begun, left>>

\* An exception leaves a thread.
Terminate ==
  /\ phase \in {"loaded", "telling", "ending"} /\ left = "some"
  /\ phase' = "terminated"
  /\ UNCHANGED <<due, begun, left>>

Next ==
  \/ Run \/ RequestUnload \/ AllTold
  \/ \E k \in Kinds : BeginOperation(k)
  \/ GiveUpOperations \/ LastEnds \/ Unloaded \/ Terminate

Spec == Init /\ [][Next]_vars
=============================================================================
