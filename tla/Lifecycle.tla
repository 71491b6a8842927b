------------------------------ MODULE Lifecycle ------------------------------
(***************************************************************************)
(* What the embedded server promises about its lifecycle (spec sections 3, *)
(* 4.3 and 5): Created -> Starting -> Running -> Stopping -> Stopped, Start *)
(* allowed again from Stopped, a failed Start rolled back.  serving is     *)
(* "the service's serve loop runs"; cancelled is "the internal             *)
(* cancellation scope it is bound to has fired".  Each Start launches the  *)
(* loop under a fresh scope; the loop may end with its own error at any    *)
(* time, or because the scope is cancelled; a failed Start and a Stop      *)
(* cancel the scope and return only after the loop has ended.              *)
(***************************************************************************)
VARIABLES state, serving, cancelled

lcVars == <<state, serving, cancelled>>

Init == state = "Created" /\ ~serving /\ ~cancelled

\* Start launches the serve loop bound to a new, live scope.
BeginStart ==
  /\ state \in {"Created", "Stopped"}
  /\ state' = "Starting" /\ serving' = TRUE /\ cancelled' = FALSE

\* The serve loop fails on its own; nothing in the lifecycle reacts.
ServeFails ==
  /\ serving /\ ~cancelled
  /\ serving' = FALSE /\ UNCHANGED <<state, cancelled>>

\* A Start that cannot connect, or a Stop, cancels the scope ...
Cancel ==
  /\ state \in {"Starting", "Stopping"} /\ ~cancelled
  /\ cancelled' = TRUE /\ UNCHANGED <<state, serving>>

\* ... which ends the serve loop ...
EndServing ==
  /\ serving /\ cancelled
  /\ serving' = FALSE /\ UNCHANGED <<state, cancelled>>

\* ... and returns once it has ended.
FailStart ==
  /\ state = "Starting" /\ cancelled /\ ~serving
  /\ state' = "Stopped" /\ UNCHANGED <<serving, cancelled>>

FinishStart ==
  /\ state = "Starting" /\ ~cancelled
  /\ state' = "Running" /\ UNCHANGED <<serving, cancelled>>

BeginStop ==
  /\ state = "Running"
  /\ state' = "Stopping" /\ UNCHANGED <<serving, cancelled>>

FinishStop ==
  /\ state = "Stopping" /\ cancelled /\ ~serving
  /\ state' = "Stopped" /\ UNCHANGED <<serving, cancelled>>

Next ==
  \/ BeginStart \/ ServeFails \/ Cancel \/ EndServing
  \/ FailStart \/ FinishStart \/ BeginStop \/ FinishStop

Spec == Init /\ [][Next]_lcVars

=============================================================================
