------------------------------- MODULE Watcher -------------------------------
(***************************************************************************)
(* What the change watcher promises (spec 4.1), without fsnotify, timers   *)
(* or locks.  A watcher is started once (it may fail), records changes of  *)
(* configured files while it watches, and fires the trigger once for all   *)
(* the changes recorded since the last trigger.  Stop discards recorded     *)
(* changes; after it no trigger ever fires.                                *)
(***************************************************************************)
EXTENDS Naturals

CONSTANT Files

VARIABLES
  wstate,    \* "idle" | "watching" | "failed" | "stopped"
  dirty,     \* changes recorded and not yet covered by a trigger
  triggers   \* number of triggers fired

Init == wstate = "idle" /\ dirty = {} /\ triggers = 0

StartOk == wstate = "idle" /\ wstate' = "watching" /\ UNCHANGED <<dirty, triggers>>

StartFail == wstate = "idle" /\ wstate' = "failed" /\ UNCHANGED <<dirty, triggers>>

Change(f) == wstate = "watching" /\ dirty' = dirty \cup {f} /\ UNCHANGED <<wstate, triggers>>

\* One trigger covers every change recorded so far.
Trigger ==
  /\ wstate = "watching" /\ dirty /= {}
  /\ dirty' = {} /\ triggers' = triggers + 1 /\ UNCHANGED wstate

Stop ==
  /\ wstate \in {"watching", "failed"}
  /\ wstate' = "stopped" /\ dirty' = {} /\ UNCHANGED triggers

Next == StartOk \/ StartFail \/ (\E f \in Files : Change(f)) \/ Trigger \/ Stop

Spec == Init /\ [][Next]_<<wstate, dirty, triggers>>

=============================================================================
