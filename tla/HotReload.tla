------------------------------ MODULE HotReload ------------------------------
(***************************************************************************)
(* Hot reload end to end: the coordinator of server.go composed with the   *)
(* file watcher of internal/watch/watcher.go that Start creates.           *)
(*                                                                         *)
(* EmbeddedServer sees the watcher only through es.watcher, fw.mu and a    *)
(* callback thread (Trigger) that enters ReloadSchema; here those are no   *)
(* longer free variables but functions of FileWatcher's state: es.watcher  *)
(* is set when the watcher's Start succeeded, fw.mu is held while a timer  *)
(* callback runs reloadFunc, and the watcher callbacks counted by the      *)
(* server are the watcher's reloads.  Every step is a step of one of the   *)
(* two modules, or a joint step where the code of one calls into the       *)
(* other: Start creating and starting the watcher, the timer callback      *)
(* entering and leaving reloadFunc = es.ReloadSchema, and Stop calling     *)
(* watcher.Stop().  One Start call: a restart is broken (EmbeddedServer,   *)
(* run es_restart) and would need a second FileWatcher.                    *)
(***************************************************************************)
EXTENDS Naturals, Sequences, FiniteSets

CONSTANTS
  Callers, Trigger, Observers, HealthCheckEnabled, MaxRetries, MaxStartCalls,
  MaxCalls, Requests, MaxHealthChecks, None,
  Files, Siblings, Dir, EditKinds, MaxEdits

VARIABLES
  \* the coordinator (EmbeddedServer), without its view of the watcher
  pc, writer, started, ctxDone, serve, conn, closedConns, reloaderConn,
  healthSrv, dsOpen, schemaWritten, callbacks, attempt, snap, outcome, copied,
  delivered, regAtCall, got, hsnap, hres, launches, startCalls, calls,
  healthChecks,
  \* the watcher (FileWatcher); its fw.ctx is fwCtxDone
  exists, watches, events, status, loop, pending, timer, timers, stopped,
  fwCtxDone, closed, stopPc, edits, reloads, unreloaded

esVars == <<pc, writer, started, ctxDone, serve, conn, closedConns, reloaderConn,
            healthSrv, dsOpen, schemaWritten, callbacks, attempt, snap, outcome,
            copied, delivered, regAtCall, got, hsnap, hres, launches,
            startCalls, calls, healthChecks>>
fwVars == <<exists, watches, events, status, loop, pending, timer, timers,
            stopped, fwCtxDone, closed, stopPc, edits, reloads, unreloaded>>
vars == <<esVars, fwVars>>

FW == INSTANCE FileWatcher WITH ctxDone <- fwCtxDone

\* es.watcher: assigned only when watcher.Start() succeeded (server.go
\* 164-170); "stopped" once Stop has called watcher.Stop().
AbsWatcher ==
  IF status = "started" THEN IF stopped THEN "stopped" ELSE "running" ELSE "nil"

\* fw.mu is held across a step only by a callback inside reloadFunc.
FwLocked == ~FW!MuFree

ES == INSTANCE EmbeddedServer
        WITH HasSchemaFiles <- TRUE, MaxTriggers <- MaxEdits,
             watcher <- AbsWatcher, fwLocked <- FwLocked, triggers <- reloads

-----------------------------------------------------------------------------

\* Stop calls watcher.Stop() and only goes on to close the connection once
\* it has returned.
WatcherStopReturned == AbsWatcher = "stopped" => stopPc = "done"

\* A step of the coordinator alone.  Any step that would change its view of
\* the watcher needs the watcher to move too, so it is not one of these.
ESLocal(A) ==
  /\ UNCHANGED fwVars /\ A
  /\ \A t \in Callers : pc[t] = "StopClose" /\ pc'[t] /= "StopClose" => WatcherStopReturned

\* Start, after a successful dial, creates the watcher and starts it;
\* es.watcher is assigned if Start succeeds.  The creation error and the
\* failed dial leave the watcher untouched (ESLocal).
StartWatcher(t) == FW!Start /\ ES!StartDial(t) /\ started'

\* A failed watcher.Start() is followed by watcher.Stop() (server.go 165-166)
\* on a watcher es.watcher never refers to, so its steps share no state with
\* the coordinator and may be taken at any later point.
FailedWatcherStop == status = "failed" /\ FW!StopLock

\* The timer callback takes fw.mu and either gives up or calls reloadFunc,
\* which is es.ReloadSchema(ctx), while holding it.
TimerGivesUp(t) == FW!TimerLock(t) /\ ~FwLocked' /\ UNCHANGED esVars
TimerReloads(t) == FW!TimerLock(t) /\ FwLocked' /\ ES!WatcherFires

\* ReloadSchema returns to the callback, which unlocks fw.mu.
TimerReloadDone(t) ==
  /\ FW!TimerReloadReturn(t)
  /\ ES!Next /\ pc[Trigger] /= "idle" /\ pc'[Trigger] = "idle"

\* Stop's "if es.watcher != nil { es.watcher.Stop() }": the first step of
\* watcher.Stop() takes fw.mu.
StopWatcherJoint(t) == AbsWatcher = "running" /\ FW!StopLock /\ ES!StopWatcher(t)

\* Steps of the watcher alone: the file system, the event loop, the timers,
\* and the rest of watcher.Stop().
FWLocal ==
  /\ \/ \E f \in Files : FW!WriteFile(f) \/ FW!CreateFile(f) \/ FW!ReplaceFile(f)
     \/ \E o \in Siblings : FW!WriteSibling(o)
     \/ FW!LoopCtxDone \/ FW!LoopChannelClosed \/ FW!LoopReceive \/ FW!handleFileChange
     \/ \E t \in DOMAIN timers : FW!TimerExpire(t) \/ FW!TimerCtxCheck(t) \/ TimerGivesUp(t)
     \/ FailedWatcherStop \/ FW!StopCancel \/ FW!StopClose \/ FW!StopWait
  /\ UNCHANGED esVars

Init == FW!Init /\ ES!Init

Next ==
  \/ ESLocal(ES!Next)
  \/ FWLocal
  \/ \E t \in Callers : StartWatcher(t) \/ StopWatcherJoint(t)
  \/ \E t \in DOMAIN timers : TimerReloads(t) \/ TimerReloadDone(t)

\* The fairness of both modules, over the composed steps: goroutines that
\* can run do (WF), and taking es.mu or fw.mu is strongly fair.
Fairness ==
  /\ WF_vars(ESLocal(ES!ServeExit))
  /\ \A t \in Callers :
       /\ WF_vars(ESLocal(ES!Running(t)) \/ StartWatcher(t))
       /\ SF_vars(ESLocal(ES!Locking(t)) \/ StopWatcherJoint(t))
  /\ WF_vars(ESLocal(ES!Running(Trigger)) \/ \E t \in DOMAIN timers : TimerReloadDone(t))
  /\ SF_vars(ESLocal(ES!Locking(Trigger)))
  /\ WF_vars(FWLocal /\ (FW!LoopCtxDone \/ FW!LoopChannelClosed \/ FW!LoopReceive))
  /\ SF_vars(FWLocal /\ FW!handleFileChange)
  /\ WF_vars(\E t \in DOMAIN timers : FW!TimerExpire(t) /\ UNCHANGED esVars)
  /\ WF_vars(\E t \in DOMAIN timers : FW!TimerCtxCheck(t) /\ UNCHANGED esVars)
  /\ SF_vars(\E t \in DOMAIN timers : TimerGivesUp(t) \/ TimerReloads(t))
  /\ WF_vars(FWLocal /\ (FailedWatcherStop \/ FW!StopCancel \/ FW!StopClose \/ FW!StopWait))

Spec == Init /\ [][Next]_vars /\ Fairness

-----------------------------------------------------------------------------
(* Properties                                                               *)

\* Hot reload end to end (spec 4.1 and 4.3): an edit of a schema file made
\* while the server runs and watches is eventually written to the service:
\* the watcher's debounced callback enters ReloadSchema, which gets past its
\* started check to the WriteSchema call, unless the application stops the
\* server.
EditEventuallyWritten ==
  unreloaded ~> (pc[Trigger] = "ReloadRPC" \/ ES!AbsState \in {"Stopping", "Stopped"})

CallsReturn == ES!CallsReturn

=============================================================================
