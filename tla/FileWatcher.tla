----------------------------- MODULE FileWatcher -----------------------------
(***************************************************************************)
(* The debounced schema-file watcher of internal/watch/watcher.go.         *)
(*                                                                         *)
(* Threads: the watchLoop goroutine, one time.AfterFunc goroutine per      *)
(* armed timer, and the owner calling Start and Stop.  fw.mu is held       *)
(* across a step only by a timer callback that is inside reloadFunc; the   *)
(* loop and Stop take it for one atomic critical section each, so the      *)
(* lock is free exactly when no timer is "reloading".  The file system and *)
(* fsnotify are the environment: an edit queues the events the platform   *)
(* watches produce for it.  Time is abstracted away: a timer may expire at *)
(* any moment after it is armed, which covers every debounce duration.     *)
(***************************************************************************)
EXTENDS Naturals, Sequences, FiniteSets

CONSTANTS
  Files,      \* the configured absolute schema file paths (absFiles)
  Siblings,   \* other paths in the same directory
  Dir,        \* the parent directory, watched when a file is missing
  EditKinds,  \* subset of {"write", "create", "replace"} the editor uses
  MaxEdits    \* bound on file-system edits

ASSUME /\ Files /= {} /\ Files \cap Siblings = {} /\ Dir \notin Files \cup Siblings
       /\ EditKinds \subseteq {"write", "create", "replace"}
       /\ MaxEdits \in Nat

VARIABLES
  exists,     \* configured files present on disk
  watches,    \* platform watch targets registered with fsnotify
  events,     \* fsnotify Events channel (kernel queue), a sequence
  status,     \* "created" | "started" | "failed"  (result of Start)
  loop,       \* watchLoop: "none" | "ready" | "exited" | f in handleFileChange(f)
  pending,    \* fw.pending: the set of changed paths (timestamps abstracted)
  timer,      \* fw.timer: index of the current timer, 0 for nil
  timers,     \* state of every timer ever armed, by index
  stopped,    \* fw.stopped
  ctxDone,    \* fw.ctx cancelled
  closed,     \* fw.watcher.Close() done: no more events, channels closed
  stopPc,     \* owner's progress through Stop
  edits,      \* number of edits so far (bound)
  reloads,    \* number of reloadFunc invocations (history)
  unreloaded  \* a configured file was edited after the last reloadFunc began (history)

vars == <<exists, watches, events, status, loop, pending, timer, timers,
          stopped, ctxDone, closed, stopPc, edits, reloads, unreloaded>>

fs == <<exists, watches, events, edits>>
life == <<status, stopped, ctxDone, closed, stopPc>>
hist == <<reloads, unreloaded>>

TimerStates == {"armed", "cancelled", "fired", "waitLock", "reloading", "done"}
Ops == {"Write", "Create", "Remove"}
Paths == Files \cup Siblings

\* fw.mu is free unless a timer callback is running reloadFunc under it.
MuFree == \A t \in DOMAIN timers : timers[t] /= "reloading"

\* The watch targets covering path p: the file itself or its directory.
WatchersOf(p) == watches \cap {p, Dir}

\* Queue the event once per covering watch (inotify reports it per watch).
Notify(p, op) ==
  events \o [i \in 1 .. Cardinality(WatchersOf(p)) |-> [path |-> p, op |-> op]]

\* An edit of a configured file while the watcher is live must lead to a reload.
Touch == IF status = "started" /\ ~stopped THEN TRUE ELSE unreloaded

isWatchedFile(p) == p \in Files

\* Mutant: only Write events count, Create is forgotten.
QualifyingWriteOnly(e) == isWatchedFile(e.path) /\ e.op = "Write"

Qualifying(e) == isWatchedFile(e.path) /\ e.op \in {"Write", "Create"}

\* timer.Stop() on timer i: prevents it only if it has not yet expired.
StopTimer(ts, i) == IF i /= 0 /\ ts[i] = "armed" THEN [ts EXCEPT ![i] = "cancelled"] ELSE ts

\* Mutant: arm a timer only while fw.timer is nil, which it never is again
\* after the first change since the callback does not reset it.
ArmTimerOnce ==
  IF timer = 0 THEN timer' = 1 /\ timers' = Append(timers, "armed")
               ELSE UNCHANGED <<timer, timers>>

\* Stop the current timer and make a new time.AfterFunc the current one.
ArmTimer ==
  timer' = Len(timers) + 1 /\ timers' = Append(StopTimer(timers, timer), "armed")

SetTimer(t, s) == timers' = [timers EXCEPT ![t] = s]

-----------------------------------------------------------------------------
(* Environment: edits of the files on disk.                                 *)

WriteFile(f) ==
  /\ "write" \in EditKinds /\ edits < MaxEdits /\ f \in exists
  /\ events' = Notify(f, "Write") /\ edits' = edits + 1 /\ unreloaded' = Touch
  /\ UNCHANGED <<exists, watches, loop, pending, timer, timers, reloads>> /\ UNCHANGED life

CreateFile(f) ==
  /\ "create" \in EditKinds /\ edits < MaxEdits /\ f \notin exists
  /\ exists' = exists \cup {f}
  /\ events' = Notify(f, "Create") /\ edits' = edits + 1 /\ unreloaded' = Touch
  /\ UNCHANGED <<watches, loop, pending, timer, timers, reloads>> /\ UNCHANGED life

\* Atomic save: write a temporary file and rename it over f.  The directory
\* watch reports a Create of f; a watch on f itself reports Remove and is
\* dropped by the platform, since the inode it watched is gone.
ReplaceFile(f) ==
  /\ "replace" \in EditKinds /\ edits < MaxEdits /\ f \in exists
  /\ events' = events
               \o (IF Dir \in watches THEN <<[path |-> f, op |-> "Create"]>> ELSE <<>>)
               \o (IF f \in watches THEN <<[path |-> f, op |-> "Remove"]>> ELSE <<>>)
  /\ watches' = watches \ {f}
  /\ edits' = edits + 1 /\ unreloaded' = Touch
  /\ UNCHANGED <<exists, loop, pending, timer, timers, reloads>> /\ UNCHANGED life

WriteSibling(o) ==
  /\ edits < MaxEdits
  /\ events' = Notify(o, "Write") /\ edits' = edits + 1
  /\ UNCHANGED <<exists, watches, loop, pending, timer, timers>>
  /\ UNCHANGED life /\ UNCHANGED hist

-----------------------------------------------------------------------------
(* FileWatcher.Start: watch each file, or its directory if it is missing.   *)

WatchTargets == (Files \cap exists) \cup (IF Files \subseteq exists THEN {} ELSE {Dir})

Start ==
  /\ status = "created"
  /\ \/ watches' = WatchTargets /\ status' = "started" /\ loop' = "ready"
     \/ \* fw.watcher.Add failed: the targets added so far stay registered
        /\ watches' \in SUBSET WatchTargets \ {WatchTargets}
        /\ status' = "failed" /\ UNCHANGED loop
  /\ UNCHANGED <<exists, events, edits, pending, timer, timers, stopped, ctxDone,
                 closed, stopPc>> /\ UNCHANGED hist

-----------------------------------------------------------------------------
(* watchLoop: a select over ctx.Done, Events and Errors (only logged).      *)

LoopCtxDone ==
  /\ loop = "ready" /\ ctxDone /\ loop' = "exited"
  /\ UNCHANGED <<pending, timer, timers>> /\ UNCHANGED fs /\ UNCHANGED life /\ UNCHANGED hist

LoopChannelClosed ==
  /\ loop = "ready" /\ closed /\ loop' = "exited"
  /\ UNCHANGED <<pending, timer, timers>> /\ UNCHANGED fs /\ UNCHANGED life /\ UNCHANGED hist

\* Receive an event; a Write or Create of a configured path enters
\* handleFileChange, anything else is dropped.
LoopReceive ==
  /\ loop = "ready" /\ ~closed /\ events /= <<>>
  /\ loop' = IF Qualifying(Head(events)) THEN Head(events).path ELSE "ready"
  /\ events' = Tail(events)
  /\ UNCHANGED <<exists, watches, edits, pending, timer, timers>>
  /\ UNCHANGED life /\ UNCHANGED hist

\* handleFileChange(f) under fw.mu: unless stopped, record f and re-arm.
handleFileChange ==
  /\ loop \in Files /\ MuFree
  /\ loop' = "ready"
  /\ IF stopped THEN UNCHANGED <<pending, timer, timers>>
                ELSE pending' = pending \cup {loop} /\ ArmTimer
  /\ UNCHANGED fs /\ UNCHANGED life /\ UNCHANGED hist

-----------------------------------------------------------------------------
(* The time.AfterFunc callback of timer t.                                  *)

TimerExpire(t) ==
  /\ timers[t] = "armed" /\ SetTimer(t, "fired")
  /\ UNCHANGED <<loop, pending, timer>> /\ UNCHANGED fs /\ UNCHANGED life /\ UNCHANGED hist

\* select on fw.ctx.Done() before taking the lock
TimerCtxCheck(t) ==
  /\ timers[t] = "fired" /\ SetTimer(t, IF ctxDone THEN "done" ELSE "waitLock")
  /\ UNCHANGED <<loop, pending, timer>> /\ UNCHANGED fs /\ UNCHANGED life /\ UNCHANGED hist

\* Mutant: the callback reloads whenever it is not stopped, pending or not.
TimerLockNoPendingCheck(t) ==
  /\ timers[t] = "waitLock" /\ MuFree
  /\ IF stopped
       THEN SetTimer(t, "done") /\ UNCHANGED <<pending, reloads, unreloaded>>
       ELSE /\ SetTimer(t, "reloading")
            /\ pending' = {} /\ reloads' = reloads + 1 /\ unreloaded' = FALSE
  /\ UNCHANGED <<loop, timer>> /\ UNCHANGED fs /\ UNCHANGED life

\* Under fw.mu: give up if stopped or nothing is pending, else clear pending
\* and call reloadFunc while still holding the lock.
TimerLock(t) ==
  /\ timers[t] = "waitLock" /\ MuFree
  /\ IF stopped \/ pending = {}
       THEN SetTimer(t, "done") /\ UNCHANGED <<pending, reloads, unreloaded>>
       ELSE /\ SetTimer(t, "reloading")
            /\ pending' = {} /\ reloads' = reloads + 1 /\ unreloaded' = FALSE
  /\ UNCHANGED <<loop, timer>> /\ UNCHANGED fs /\ UNCHANGED life

\* reloadFunc returns (its error is only logged); the deferred Unlock runs.
TimerReloadReturn(t) ==
  /\ timers[t] = "reloading" /\ SetTimer(t, "done")
  /\ UNCHANGED <<loop, pending, timer>> /\ UNCHANGED fs /\ UNCHANGED life /\ UNCHANGED hist

-----------------------------------------------------------------------------
(* FileWatcher.Stop, called once by the owner after Start.                  *)

\* Mutant: Stop cancels the timer and clears pending but never sets stopped.
StopLockNoFlag ==
  /\ stopPc = "idle" /\ status /= "created" /\ MuFree
  /\ timers' = StopTimer(timers, timer) /\ timer' = 0 /\ pending' = {}
  /\ stopPc' = "cancel"
  /\ UNCHANGED <<loop, status, stopped, ctxDone, closed>> /\ UNCHANGED fs /\ UNCHANGED hist

\* Under fw.mu: set stopped, stop the timer, clear pending.
StopLock ==
  /\ stopPc = "idle" /\ status /= "created" /\ MuFree
  /\ stopped' = TRUE
  /\ timers' = StopTimer(timers, timer) /\ timer' = 0 /\ pending' = {}
  /\ stopPc' = "cancel"
  /\ UNCHANGED <<loop, status, ctxDone, closed>> /\ UNCHANGED fs /\ UNCHANGED hist

StopCancel ==
  /\ stopPc = "cancel" /\ ctxDone' = TRUE /\ stopPc' = "close"
  /\ UNCHANGED <<loop, pending, timer, timers, status, stopped, closed>>
  /\ UNCHANGED fs /\ UNCHANGED hist

\* fw.watcher.Close(): the watches go, undelivered events are dropped and
\* the Events channel is closed.
StopClose ==
  /\ stopPc = "close" /\ closed' = TRUE /\ stopPc' = "wait"
  /\ watches' = {} /\ events' = <<>>
  /\ UNCHANGED <<exists, edits, loop, pending, timer, timers, status, stopped, ctxDone>>
  /\ UNCHANGED hist

\* fw.wg.Wait(): only the watchLoop goroutine is counted, not timer callbacks.
StopWait ==
  /\ stopPc = "wait" /\ loop \in {"none", "exited"} /\ stopPc' = "done"
  /\ UNCHANGED <<loop, pending, timer, timers, status, stopped, ctxDone, closed>>
  /\ UNCHANGED fs /\ UNCHANGED hist

-----------------------------------------------------------------------------

Init ==
  /\ exists \in SUBSET Files /\ watches = {} /\ events = <<>> /\ edits = 0
  /\ status = "created" /\ loop = "none"
  /\ pending = {} /\ timer = 0 /\ timers = <<>>
  /\ stopped = FALSE /\ ctxDone = FALSE /\ closed = FALSE /\ stopPc = "idle"
  /\ reloads = 0 /\ unreloaded = FALSE

Next ==
  \/ \E f \in Files : WriteFile(f) \/ CreateFile(f) \/ ReplaceFile(f)
  \/ \E o \in Siblings : WriteSibling(o)
  \/ Start
  \/ LoopCtxDone \/ LoopChannelClosed \/ LoopReceive \/ handleFileChange
  \/ \E t \in DOMAIN timers :
       TimerExpire(t) \/ TimerCtxCheck(t) \/ TimerLock(t) \/ TimerReloadReturn(t)
  \/ StopLock \/ StopCancel \/ StopClose \/ StopWait

\* Goroutines that are runnable keep running (weak fairness); acquiring fw.mu
\* is strongly fair because Go's sync.Mutex switches to starvation mode.
\* Edits, Start and the call of Stop are the owner's choice and not fair.
Fairness ==
  /\ WF_vars(LoopCtxDone \/ LoopChannelClosed \/ LoopReceive)
  /\ SF_vars(handleFileChange)
  /\ WF_vars(\E t \in DOMAIN timers : TimerExpire(t))
  /\ WF_vars(\E t \in DOMAIN timers : TimerCtxCheck(t))
  /\ SF_vars(\E t \in DOMAIN timers : TimerLock(t))
  /\ WF_vars(\E t \in DOMAIN timers : TimerReloadReturn(t))
  /\ WF_vars(StopCancel \/ StopClose \/ StopWait)

Spec == Init /\ [][Next]_vars /\ Fairness

-----------------------------------------------------------------------------
(* Properties                                                               *)

\* The watcher state the abstract Watcher sees: Stop's locked section is the
\* abstract Stop, and Start's outcome decides between watching and failed.
AbsWState ==
  IF stopped THEN "stopped"
  ELSE CASE status = "created" -> "idle"
         [] status = "started" -> "watching"
         [] status = "failed"  -> "failed"

W == INSTANCE Watcher WITH wstate <- AbsWState, dirty <- pending, triggers <- reloads

\* Spec 4.1 and 9: the watcher implements the abstract Watcher.  fw.pending
\* changes only by handleFileChange recording a change, a timer callback
\* taking all of it for one reloadFunc call, or Stop discarding it; no
\* reloadFunc call happens with nothing pending or once Stop has taken
\* fw.mu, even by a superseded or late timer.
WatcherRefined == W!Spec

\* A recorded change is never stranded: while fw.pending is non-empty, some
\* timer callback that has not yet taken fw.mu is still on its way to flush it.
PendingHasLiveTimer ==
  pending /= {} => \E t \in DOMAIN timers : timers[t] \in {"armed", "fired", "waitLock"}

\* Hot reload: every edit of a configured file made while the watcher is
\* running is followed by a call of reloadFunc, unless the watcher is stopped.
EditEventuallyReloaded ==
  unreloaded ~> (~unreloaded \/ stopped)

=============================================================================
