----------------------------- MODULE RouteView -----------------------------
(***************************************************************************)
(* What the routing table promises to the requests: the routes they see    *)
(* are at every moment those of one state of the table, that state is      *)
(* never older than one seen before, and when the table stops changing the *)
(* routes become those of its last state.                                  *)
(***************************************************************************)
VARIABLES objects,   \* the table
          view       \* {} or the singleton of the state the requests see

Init == objects = <<>> /\ view = {}

Change == objects' # objects /\ view' = view

Publish == view # {objects} /\ view' = {objects} /\ objects' = objects

(* A new process starts with an empty table and no routes.                 *)
Reset == objects' = <<>> /\ view' = {}

Next == Change \/ Publish \/ Reset

Spec == Init /\ [][Next]_<<objects, view>> /\ WF_<<objects, view>>(Publish)
=============================================================================
