---------------------------- MODULE PatchChannel ----------------------------
(***************************************************************************)
(* What UniSequence promises a controller about PATCH requests: a request  *)
(* handed over while the plugin runs is attempted at most once, and        *)
(* requests are attempted in the order they were handed over.  Once the    *)
(* plugin is being unloaded nothing more is accepted, and at most one      *)
(* attempt that was already under way is still made.                       *)
(***************************************************************************)
EXTENDS Naturals, Sequences

CONSTANT PRequest           \* the requests a controller can make

VARIABLES pending,          \* accepted, not attempted yet
          delivered,        \* attempted, oldest first
          closed,           \* the plugin is being unloaded
          late              \* attempts made after that
vars == <<pending, delivered, closed, late>>

Init == /\ pending = <<>>
        /\ delivered = <<>>
        /\ closed = FALSE
        /\ late = 0

Accept(r) == /\ ~closed
             /\ pending' = Append(pending, r)
             /\ UNCHANGED <<delivered, closed, late>>

Deliver == /\ pending # <<>>
           /\ closed => late = 0
           /\ delivered' = Append(delivered, Head(pending))
           /\ pending' = Tail(pending)
           /\ late' = IF closed THEN late + 1 ELSE late
           /\ UNCHANGED closed

Close == /\ ~closed
         /\ closed' = TRUE
         /\ UNCHANGED <<pending, delivered, late>>

Next == \/ \E r \in PRequest : Accept(r)
        \/ Deliver
        \/ Close

Spec == Init /\ [][Next]_vars
=============================================================================
