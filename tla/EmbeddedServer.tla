---------------------------- MODULE EmbeddedServer ----------------------------
(***************************************************************************)
(* The lifecycle coordinator of server.go (EmbeddedServer): Start, Stop,   *)
(* ReloadSchema and OnSchemaReloaded called by application goroutines,     *)
(* the background serve task, and the file watcher's debounce callback     *)
(* calling ReloadSchema.                                                   *)
(*                                                                         *)
(* es.mu is a sync.RWMutex.  Every read-locked section of the code is      *)
(* short and calls nothing blocking, so it is one step guarded by "no      *)
(* writer"; the write lock is held across the steps of Start and Stop.     *)
(* The watcher is seen through its interface: its callback holds the       *)
(* watcher's own mutex fw.mu while it runs ReloadSchema, and               *)
(* watcher.Stop() must take fw.mu first.  When the callback fires is the   *)
(* watcher's decision, so WatcherFires is not a step of Next here: the     *)
(* composition HotReload takes it jointly with FileWatcher's timer         *)
(* callback.  Connections are numbered by the Start that dialled them.     *)
(***************************************************************************)
EXTENDS Naturals, Sequences, FiniteSets
LOCAL INSTANCE SequencesExt

CONSTANTS
  Callers,            \* application goroutines calling the public methods
  Trigger,            \* the watcher's time.AfterFunc callback goroutine
  Observers,          \* callbacks that may be registered with OnSchemaReloaded
  HasSchemaFiles,     \* len(config.SchemaFiles) > 0
  HealthCheckEnabled, \* config.HealthCheckEnabled
  MaxRetries,         \* maxRetries of dialWithRetry (10 in the code)
  MaxStartCalls,      \* bound on calls of Start
  MaxCalls,           \* bound on calls of the other methods
  MaxTriggers,        \* bound on debounced reloads fired by the watcher
  Requests,           \* goroutines of the health HTTP server serving a request
  MaxHealthChecks,    \* bound on HealthCheck calls and health requests
  None

ASSUME /\ Trigger \notin Callers /\ None \notin Callers \cup {Trigger} \cup Requests
       /\ Requests \cap (Callers \cup {Trigger}) = {}
       /\ HasSchemaFiles \in BOOLEAN /\ HealthCheckEnabled \in BOOLEAN
       /\ MaxRetries \in Nat \ {0}
       /\ {MaxStartCalls, MaxCalls, MaxTriggers, MaxHealthChecks} \subseteq Nat

Threads == Callers \cup {Trigger} \cup Requests

VARIABLES
  pc,           \* program point of each thread
  writer,       \* holder of es.mu's write lock, or None
  started,      \* es.started
  ctxDone,      \* es.ctx cancelled (es.cancel() called)
  serve,        \* the goroutine running es.server.Run: "none" | "running" | "exited"
  conn,         \* es.conn: number of the Start that dialled it, 0 for nil
  closedConns,  \* connections closed by Stop
  reloaderConn, \* es.reloader: the connection it was created with, 0 for nil
  watcher,      \* es.watcher: "nil" | "running" | "stopped"
  fwLocked,     \* the watcher's fw.mu is held by its callback
  healthSrv,    \* es.healthSrv: "nil" | "up" | "closing" (Shutdown in progress,
                \* listener closed) | "shut" (Shutdown failed, field kept)
  dsOpen,       \* es.datastore not yet closed
  schemaWritten,\* a WriteSchema has succeeded, so ReadSchema finds a schema
  callbacks,    \* es.reloadCallbacks
  attempt,      \* per thread: dial attempts made by dialWithRetry
  snap,         \* per thread: connection of the reloader snapshot
  outcome,      \* per thread: result of reloader.Reload
  copied,       \* per thread: the copy of es.reloadCallbacks
  delivered,    \* per thread: callbacks invoked so far (history)
  regAtCall,    \* per thread: callbacks registered when ReloadSchema began (history)
  got,          \* per thread: connection the last Client call returned, 0 for an error
  hsnap,        \* per thread: HealthCheck's snapshot [started, conn]
  hres,         \* per thread: status HealthCheck returned last, or "none"
  launches,     \* serve tasks launched so far
  startCalls,   \* Start calls so far (bound)
  calls,        \* other calls so far (bound)
  triggers,     \* watcher callbacks so far (bound)
  healthChecks  \* HealthCheck calls and health requests so far (bound)

vars == <<pc, writer, started, ctxDone, serve, conn, closedConns, reloaderConn,
          watcher, fwLocked, healthSrv, dsOpen, schemaWritten, callbacks, attempt,
          snap, outcome, copied, delivered, regAtCall, got, hsnap, hres,
          launches, startCalls, calls, triggers, healthChecks>>

local == <<attempt, snap, outcome, copied, delivered, regAtCall, got, hsnap, hres>>
counters == <<launches, startCalls, calls, triggers, healthChecks>>
srvState == <<started, ctxDone, serve, conn, closedConns, reloaderConn,
              watcher, healthSrv, dsOpen, schemaWritten>>

StartPcs == {"Start", "StartDial", "StartAbortWait"}
StopPcs == {"Stop", "StopHealth", "StopShutdown", "StopWatcher", "StopClose", "StopWait"}
HealthPcs == {"HealthSnapshot", "HealthProbe"}
ReloadPcs == {"Reload", "ReloadRPC", "ReloadCopy", "ReloadNotify"}

\* A read-locked section may run: no writer holds or waits for es.mu.
CanRLock == writer = None

\* The refinement mapping onto the lifecycle of spec section 3: Starting
\* from the launch of the serve task to the end of Start, Stopping from
\* Stop's check of started to its unlock.
AbsState ==
  CASE \E t \in Threads : pc[t] \in {"StartDial", "StartAbortWait"} -> "Starting"
    [] \E t \in Threads : pc[t] \in StopPcs \ {"Stop"} -> "Stopping"
    [] started -> "Running"
    [] launches = 0 -> "Created"
    [] OTHER -> "Stopped"

\* Return from the current public method.  The watcher callback releases
\* fw.mu when its reloadFunc returns.
Return(t) ==
  /\ pc' = [pc EXCEPT ![t] = "idle"]
  /\ fwLocked' = IF t = Trigger THEN FALSE ELSE fwLocked

-----------------------------------------------------------------------------
(* Calls made by the application and by the watcher.                        *)

CallStart(t) ==
  /\ pc[t] = "idle" /\ t \in Callers /\ startCalls < MaxStartCalls
  /\ pc' = [pc EXCEPT ![t] = "Start"]
  /\ startCalls' = startCalls + 1
  /\ UNCHANGED <<writer, fwLocked, callbacks, launches, calls, triggers, healthChecks>>
  /\ UNCHANGED srvState /\ UNCHANGED local

CallStop(t) ==
  /\ pc[t] = "idle" /\ t \in Callers /\ calls < MaxCalls
  /\ pc' = [pc EXCEPT ![t] = "Stop"]
  /\ calls' = calls + 1
  /\ UNCHANGED <<writer, fwLocked, callbacks, launches, startCalls, triggers, healthChecks>>
  /\ UNCHANGED srvState /\ UNCHANGED local

CallReloadSchema(t) ==
  /\ pc[t] = "idle" /\ t \in Callers /\ calls < MaxCalls
  /\ pc' = [pc EXCEPT ![t] = "Reload"]
  /\ calls' = calls + 1
  /\ UNCHANGED <<writer, fwLocked, callbacks, launches, startCalls, triggers, healthChecks>>
  /\ UNCHANGED srvState /\ UNCHANGED local

\* OnSchemaReloaded: append under the write lock.
OnSchemaReloaded(t, o) ==
  /\ pc[t] = "idle" /\ t \in Callers /\ calls < MaxCalls
  /\ CanRLock
  /\ o \notin {callbacks[i] : i \in DOMAIN callbacks}
  /\ callbacks' = Append(callbacks, o)
  /\ calls' = calls + 1
  /\ UNCHANGED <<pc, writer, fwLocked, launches, startCalls, triggers, healthChecks>>
  /\ UNCHANGED srvState /\ UNCHANGED local

\* Mutant of Client: no started check, so es.conn is handed out after Stop.
ClientNoStartedCheck(t) ==
  /\ pc[t] = "idle" /\ t \in Callers /\ calls < MaxCalls
  /\ CanRLock
  /\ got' = [got EXCEPT ![t] = conn]
  /\ calls' = calls + 1
  /\ UNCHANGED <<pc, writer, fwLocked, callbacks, launches, startCalls, triggers, healthChecks>>
  /\ UNCHANGED srvState
  /\ UNCHANGED <<attempt, snap, outcome, copied, delivered, regAtCall, hsnap, hres>>

\* Client: under es.mu.RLock, "server is not started" unless started, "no
\* connection available" if es.conn is nil, else es.conn.
Client(t) ==
  /\ pc[t] = "idle" /\ t \in Callers /\ calls < MaxCalls
  /\ CanRLock
  /\ got' = [got EXCEPT ![t] = IF started THEN conn ELSE 0]
  /\ calls' = calls + 1
  /\ UNCHANGED <<pc, writer, fwLocked, callbacks, launches, startCalls, triggers, healthChecks>>
  /\ UNCHANGED srvState
  /\ UNCHANGED <<attempt, snap, outcome, copied, delivered, regAtCall, hsnap, hres>>

\* The debounce timer fires: its callback takes fw.mu, finds the watcher not
\* stopped and calls reloadFunc = es.ReloadSchema while holding fw.mu.  Used
\* by HotReload, where the watcher decides when this happens.
WatcherFires ==
  /\ pc[Trigger] = "idle" /\ watcher = "running" /\ ~fwLocked
  /\ triggers < MaxTriggers
  /\ fwLocked' = TRUE
  /\ pc' = [pc EXCEPT ![Trigger] = "Reload"]
  /\ triggers' = triggers + 1
  /\ UNCHANGED <<writer, callbacks, launches, startCalls, calls, healthChecks>>
  /\ UNCHANGED srvState /\ UNCHANGED local

-----------------------------------------------------------------------------
(* Start: the whole method runs under the write lock.                       *)

\* Lock; fail if already started or if the configuration does not complete;
\* otherwise launch the serve goroutine on es.ctx.
StartLaunch(t) ==
  /\ pc[t] = "Start" /\ writer = None
  /\ \/ /\ started
        /\ pc' = [pc EXCEPT ![t] = "idle"]
        /\ UNCHANGED <<serve, launches, attempt>>
     \/ /\ ~started                         \* serverConfig.Complete fails
        /\ pc' = [pc EXCEPT ![t] = "idle"]
        /\ UNCHANGED <<serve, launches, attempt>>
     \/ /\ ~started
        /\ serve' = "running"
        /\ launches' = launches + 1
        /\ attempt' = [attempt EXCEPT ![t] = 0]
        /\ pc' = [pc EXCEPT ![t] = "StartDial"]
  /\ writer' = IF pc'[t] = "idle" THEN None ELSE t
  /\ UNCHANGED <<started, ctxDone, conn, closedConns, reloaderConn, watcher,
                 fwLocked, healthSrv, dsOpen, schemaWritten, callbacks, snap, outcome,
                 copied, delivered, regAtCall, got, hsnap, hres, startCalls, calls,
                 triggers, healthChecks>>

\* dialWithRetry returns an error after a failed attempt: at once when es.ctx
\* is cancelled, else after the last of maxRetries attempts.
DialGivesUp(t) == ctxDone \/ attempt[t] + 1 = MaxRetries

\* healthhttp.Start: net.Listen fails (say the address is in use), or the
\* server is built on the bound listener and Serve runs in a goroutine.
HealthHTTPStart == {"up", "listenErr"}

\* startHealthCheckServer: nothing to do if disabled; an error of
\* healthhttp.Start is returned (Start only logs it) and es.healthSrv keeps
\* what it held, otherwise es.healthSrv is the new server.
startHealthCheckServer ==
  IF ~HealthCheckEnabled THEN {healthSrv}
  ELSE {IF r = "up" THEN "up" ELSE healthSrv : r \in HealthHTTPStart}

\* One attempt of dialWithRetry.  On success the rest of Start runs: the
\* reloader is bound to the new connection, the initial Reload is made (its
\* error is only logged), the watcher is created and started if schema files
\* are configured (a failure keeps whatever es.watcher held), the health
\* server is started if enabled (a failure is only logged), started is set
\* and the lock released.  On failure, the select returns at once if es.ctx
\* is already cancelled; after the last attempt Start cancels es.ctx.
StartDial(t) ==
  /\ pc[t] = "StartDial"
  /\ \/ /\ conn' = launches
        /\ reloaderConn' = launches
        /\ schemaWritten' \in IF HasSchemaFiles THEN {TRUE, schemaWritten} ELSE {schemaWritten}
        /\ watcher' \in IF HasSchemaFiles THEN {"running", watcher} ELSE {watcher}
        /\ healthSrv' \in startHealthCheckServer
        /\ started' = TRUE
        /\ writer' = None
        /\ pc' = [pc EXCEPT ![t] = "idle"]
        /\ UNCHANGED <<attempt, ctxDone>>
     \/ /\ attempt' = [attempt EXCEPT ![t] = @ + 1]
        /\ IF DialGivesUp(t)
             THEN /\ ctxDone' = TRUE
                  /\ pc' = [pc EXCEPT ![t] = "StartAbortWait"]
             ELSE UNCHANGED <<pc, ctxDone>>
        /\ UNCHANGED <<conn, reloaderConn, watcher, healthSrv, started, writer,
                       schemaWritten>>
  /\ UNCHANGED <<serve, closedConns, fwLocked, dsOpen, callbacks, snap, outcome,
                 copied, delivered, regAtCall, got, hsnap, hres>>
  /\ UNCHANGED counters

\* Mutant: the failed Start returns without es.wg.Wait().
StartAbortNoWait(t) ==
  /\ pc[t] = "StartAbortWait"
  /\ writer' = None
  /\ pc' = [pc EXCEPT ![t] = "idle"]
  /\ UNCHANGED <<fwLocked, callbacks>> /\ UNCHANGED srvState
  /\ UNCHANGED local /\ UNCHANGED counters

\* es.wg.Wait() for the serve goroutine, then unlock and return the error.
StartAbortWait(t) ==
  /\ pc[t] = "StartAbortWait" /\ serve /= "running"
  /\ writer' = None
  /\ pc' = [pc EXCEPT ![t] = "idle"]
  /\ UNCHANGED <<fwLocked, callbacks>> /\ UNCHANGED srvState
  /\ UNCHANGED local /\ UNCHANGED counters

\* es.server.Run(es.ctx) returns once es.ctx is cancelled ...
ServeExit ==
  /\ serve = "running" /\ ctxDone
  /\ serve' = "exited"
  /\ UNCHANGED <<pc, writer, started, ctxDone, conn, closedConns, reloaderConn,
                 watcher, fwLocked, healthSrv, dsOpen, schemaWritten, callbacks>>
  /\ UNCHANGED local /\ UNCHANGED counters

\* ... or earlier with its own error (the gRPC address cannot be bound, say),
\* which the goroutine only logs.  The dial is lazy, so Start still succeeds.
ServeFails ==
  /\ serve = "running" /\ ~ctxDone
  /\ serve' = "exited"
  /\ UNCHANGED <<pc, writer, started, ctxDone, conn, closedConns, reloaderConn,
                 watcher, fwLocked, healthSrv, dsOpen, schemaWritten, callbacks>>
  /\ UNCHANGED local /\ UNCHANGED counters

-----------------------------------------------------------------------------
(* Stop: under the write lock, every step best-effort.                      *)

\* Mutant: the early return of a Stop on a server not started keeps the lock.
StopCheckNoUnlock(t) ==
  /\ pc[t] = "Stop" /\ writer = None
  /\ writer' = t
  /\ pc' = [pc EXCEPT ![t] = IF started THEN "StopHealth" ELSE "idle"]
  /\ UNCHANGED <<fwLocked, callbacks>> /\ UNCHANGED srvState
  /\ UNCHANGED local /\ UNCHANGED counters

StopCheck(t) ==
  /\ pc[t] = "Stop" /\ writer = None
  /\ IF started
       THEN writer' = t /\ pc' = [pc EXCEPT ![t] = "StopHealth"]
       ELSE writer' = None /\ pc' = [pc EXCEPT ![t] = "idle"]
  /\ UNCHANGED <<fwLocked, callbacks>> /\ UNCHANGED srvState
  /\ UNCHANGED local /\ UNCHANGED counters

\* stopHealthCheckServer: nothing to do if es.healthSrv is nil, else
\* Shutdown closes the listener and waits for active requests.
StopHealth(t) ==
  /\ pc[t] = "StopHealth"
  /\ IF healthSrv = "nil"
       THEN pc' = [pc EXCEPT ![t] = "StopWatcher"] /\ UNCHANGED healthSrv
       ELSE pc' = [pc EXCEPT ![t] = "StopShutdown"] /\ healthSrv' = "closing"
  /\ UNCHANGED <<writer, started, ctxDone, serve, conn, closedConns, reloaderConn,
                 watcher, fwLocked, dsOpen, schemaWritten, callbacks>>
  /\ UNCHANGED local /\ UNCHANGED counters

\* (*Server).Shutdown: http.Server.Shutdown closes the listener and returns
\* nil once no request is active; until then it waits for its context.
HealthHTTPShutdownIdle == \A h \in Requests : pc[h] = "idle"

\* Mutant: Shutdown waits for every request without a deadline.
StopShutdownNoDeadline(t) ==
  /\ pc[t] = "StopShutdown"
  /\ HealthHTTPShutdownIdle
  /\ healthSrv' = "nil"
  /\ pc' = [pc EXCEPT ![t] = "StopWatcher"]
  /\ UNCHANGED <<writer, started, ctxDone, serve, conn, closedConns, reloaderConn,
                 watcher, fwLocked, dsOpen, schemaWritten, callbacks>>
  /\ UNCHANGED local /\ UNCHANGED counters

\* Shutdown returns nil once no request is active, and es.healthSrv is set to
\* nil.  Probes finish within the 5s deadline of shutdownCtx, but a request
\* blocked on es.mu.RLock behind this Stop never does: Shutdown then fails
\* with the deadline error, which Stop only logs, and es.healthSrv is kept.
StopShutdown(t) ==
  /\ pc[t] = "StopShutdown"
  /\ \/ /\ HealthHTTPShutdownIdle
        /\ healthSrv' = "nil"
     \/ /\ \E h \in Requests : pc[h] = "HealthSnapshot" /\ writer = t
        /\ healthSrv' = "shut"
  /\ pc' = [pc EXCEPT ![t] = "StopWatcher"]
  /\ UNCHANGED <<writer, started, ctxDone, serve, conn, closedConns, reloaderConn,
                 watcher, fwLocked, dsOpen, schemaWritten, callbacks>>
  /\ UNCHANGED local /\ UNCHANGED counters

\* es.watcher.Stop() begins with fw.mu.Lock(); es.watcher is not reset to nil.
StopWatcher(t) ==
  /\ pc[t] = "StopWatcher"
  /\ watcher /= "nil" => ~fwLocked
  /\ watcher' = IF watcher = "nil" THEN "nil" ELSE "stopped"
  /\ pc' = [pc EXCEPT ![t] = "StopClose"]
  /\ UNCHANGED <<writer, started, ctxDone, serve, conn, closedConns,
                 reloaderConn, fwLocked, healthSrv, dsOpen, schemaWritten, callbacks>>
  /\ UNCHANGED local /\ UNCHANGED counters

\* es.conn.Close() (es.conn is not reset to nil), then es.cancel().
StopClose(t) ==
  /\ pc[t] = "StopClose"
  /\ closedConns' = IF conn /= 0 THEN closedConns \cup {conn} ELSE closedConns
  /\ ctxDone' = TRUE
  /\ pc' = [pc EXCEPT ![t] = "StopWait"]
  /\ UNCHANGED <<writer, started, serve, conn, reloaderConn, watcher, fwLocked,
                 healthSrv, dsOpen, schemaWritten, callbacks>>
  /\ UNCHANGED local /\ UNCHANGED counters

\* es.wg.Wait(), es.datastore.Close(), started = false, unlock.
StopWait(t) ==
  /\ pc[t] = "StopWait" /\ serve /= "running"
  /\ dsOpen' = FALSE
  /\ started' = FALSE
  /\ writer' = None
  /\ pc' = [pc EXCEPT ![t] = "idle"]
  /\ UNCHANGED <<ctxDone, serve, conn, closedConns, reloaderConn, watcher,
                 fwLocked, healthSrv, schemaWritten, callbacks>>
  /\ UNCHANGED local /\ UNCHANGED counters

-----------------------------------------------------------------------------
(* ReloadSchema: no lock is held across the reload or the callbacks.        *)

\* Under the read lock: fail if not started or no reloader, else snapshot it.
ReloadCheck(t) ==
  /\ pc[t] = "Reload" /\ CanRLock
  /\ IF ~started \/ reloaderConn = 0
       THEN /\ Return(t)
            /\ UNCHANGED <<snap, regAtCall>>
       ELSE /\ snap' = [snap EXCEPT ![t] = reloaderConn]
            /\ regAtCall' = [regAtCall EXCEPT ![t] = callbacks]
            /\ pc' = [pc EXCEPT ![t] = "ReloadRPC"]
            /\ UNCHANGED fwLocked
  /\ UNCHANGED <<writer, callbacks, attempt, outcome, copied, delivered, got, hsnap, hres>>
  /\ UNCHANGED srvState /\ UNCHANGED counters

\* reloader.Reload: "no schema files configured" without any file, else one
\* WriteSchema call over the snapshot's connection, which fails if that
\* connection is closed or the server is no longer serving, and may fail for
\* an invalid schema.
ReloadRPC(t) ==
  /\ pc[t] = "ReloadRPC"
  /\ \E r \in IF HasSchemaFiles /\ snap[t] \notin closedConns /\ serve = "running"
                THEN {"ok", "err"} ELSE {"err"} :
       /\ outcome' = [outcome EXCEPT ![t] = r]
       /\ schemaWritten' = (schemaWritten \/ r = "ok")
  /\ pc' = [pc EXCEPT ![t] = "ReloadCopy"]
  /\ UNCHANGED <<writer, fwLocked, callbacks, attempt, snap, copied, delivered,
                 regAtCall, got, hsnap, hres>>
  /\ UNCHANGED <<started, ctxDone, serve, conn, closedConns, reloaderConn,
                 watcher, healthSrv, dsOpen>>
  /\ UNCHANGED counters

\* Copy es.reloadCallbacks under the read lock.
ReloadCopy(t) ==
  /\ pc[t] = "ReloadCopy" /\ CanRLock
  /\ copied' = [copied EXCEPT ![t] = callbacks]
  /\ delivered' = [delivered EXCEPT ![t] = <<>>]
  /\ pc' = [pc EXCEPT ![t] = "ReloadNotify"]
  /\ UNCHANGED <<writer, fwLocked, callbacks, attempt, snap, outcome, regAtCall, got,
                 hsnap, hres>>
  /\ UNCHANGED srvState /\ UNCHANGED counters

\* Invoke the next callback with the outcome.
ReloadNotify(t) ==
  /\ pc[t] = "ReloadNotify"
  /\ Len(delivered[t]) < Len(copied[t])
  /\ delivered' = [delivered EXCEPT ![t] = Append(@, copied[t][Len(@) + 1])]
  /\ UNCHANGED <<pc, writer, fwLocked, callbacks, attempt, snap, outcome, copied,
                 regAtCall, got, hsnap, hres>>
  /\ UNCHANGED srvState /\ UNCHANGED counters

ReloadReturn(t) ==
  /\ pc[t] = "ReloadNotify"
  /\ Len(delivered[t]) = Len(copied[t])
  /\ Return(t)
  /\ UNCHANGED <<writer, callbacks>> /\ UNCHANGED local
  /\ UNCHANGED srvState /\ UNCHANGED counters

-----------------------------------------------------------------------------
(* HealthCheck, called by the application or by a health HTTP request.      *)

CallHealthCheck(t) ==
  /\ pc[t] = "idle" /\ t \in Callers /\ healthChecks < MaxHealthChecks
  /\ pc' = [pc EXCEPT ![t] = "HealthSnapshot"]
  /\ hres' = [hres EXCEPT ![t] = "none"]
  /\ healthChecks' = healthChecks + 1
  /\ UNCHANGED <<writer, fwLocked, callbacks, attempt, snap, outcome, copied,
                 delivered, regAtCall, got, hsnap, launches, startCalls, calls, triggers>>
  /\ UNCHANGED srvState

\* The health server's listener accepts a request for /healthz or /health,
\* and healthCheckHandler calls HealthCheck.
ServeHealthRequest(h) ==
  /\ pc[h] = "idle" /\ healthSrv = "up" /\ healthChecks < MaxHealthChecks
  /\ pc' = [pc EXCEPT ![h] = "HealthSnapshot"]
  /\ hres' = [hres EXCEPT ![h] = "none"]
  /\ healthChecks' = healthChecks + 1
  /\ UNCHANGED <<writer, fwLocked, callbacks, attempt, snap, outcome, copied,
                 delivered, regAtCall, got, hsnap, launches, startCalls, calls, triggers>>
  /\ UNCHANGED srvState

\* Under es.mu.RLock: snapshot started and es.conn.  If not started, return
\* status "unhealthy" with the error "server is not started".
HealthSnapshot(t) ==
  /\ pc[t] = "HealthSnapshot" /\ CanRLock
  /\ IF started
       THEN hsnap' = [hsnap EXCEPT ![t] = conn] /\ pc' = [pc EXCEPT ![t] = "HealthProbe"]
            /\ UNCHANGED hres
       ELSE hres' = [hres EXCEPT ![t] = "unhealthy"] /\ pc' = [pc EXCEPT ![t] = "idle"]
            /\ UNCHANGED hsnap
  /\ UNCHANGED <<writer, fwLocked, callbacks, attempt, snap, outcome, copied,
                 delivered, regAtCall, got>>
  /\ UNCHANGED srvState /\ UNCHANGED counters

\* The status HealthCheck computes once started, from the ReadSchema probe
\* ("ok", "notfound" or "err") and the datastore Statistics probe: the gRPC
\* check, the datastore check and the schema check each may downgrade it, in
\* that order.  conn, datastore and reloader are never nil once started, so
\* their "not_available" branches are left out.
HealthOf(grpc, ds) ==
  LET afterGrpc == IF grpc = "ok" \/ (grpc = "notfound" /\ ~HasSchemaFiles)
                     THEN "" ELSE "degraded"
      afterDs == IF ds = "ok" \/ afterGrpc = "unhealthy" THEN afterGrpc ELSE "degraded"
      afterSchema == IF HasSchemaFiles /\ grpc /= "ok" THEN "degraded" ELSE afterDs
  IN IF afterSchema = "" THEN "healthy" ELSE afterSchema

\* ReadSchema over a connection fails once it is closed or the server is
\* gone, and answers NotFound while no schema has been written.
ReadSchemaProbe(c) ==
  IF c \in closedConns \/ serve /= "running" THEN "err"
  ELSE IF schemaWritten THEN "ok" ELSE "notfound"

\* Outside the lock: probe the snapshot's connection and the datastore.
HealthProbe(t) ==
  /\ pc[t] = "HealthProbe"
  /\ hres' = [hres EXCEPT ![t] = HealthOf(ReadSchemaProbe(hsnap[t]),
                                          IF dsOpen THEN "ok" ELSE "err")]
  /\ pc' = [pc EXCEPT ![t] = "idle"]
  /\ UNCHANGED <<writer, fwLocked, callbacks, attempt, snap, outcome, copied,
                 delivered, regAtCall, got, hsnap>>
  /\ UNCHANGED srvState /\ UNCHANGED counters

-----------------------------------------------------------------------------

Init ==
  /\ pc = [t \in Threads |-> "idle"]
  /\ writer = None
  /\ started = FALSE
  /\ ctxDone = FALSE
  /\ serve = "none"
  /\ conn = 0
  /\ closedConns = {}
  /\ reloaderConn = 0
  /\ watcher = "nil"
  /\ fwLocked = FALSE
  /\ healthSrv = "nil"
  /\ dsOpen = TRUE
  /\ callbacks = <<>>
  /\ attempt = [t \in Threads |-> 0]
  /\ snap = [t \in Threads |-> 0]
  /\ outcome = [t \in Threads |-> "none"]
  /\ copied = [t \in Threads |-> <<>>]
  /\ delivered = [t \in Threads |-> <<>>]
  /\ regAtCall = [t \in Threads |-> <<>>]
  /\ got = [t \in Threads |-> 0]
  /\ launches = 0
  /\ startCalls = 0
  /\ calls = 0
  /\ triggers = 0
  /\ schemaWritten = FALSE
  /\ hsnap = [t \in Threads |-> 0]
  /\ hres = [t \in Threads |-> "none"]
  /\ healthChecks = 0

Next ==
  \/ \E t \in Callers :
       \/ CallStart(t) \/ CallStop(t) \/ CallReloadSchema(t) \/ CallHealthCheck(t)
       \/ \E o \in Observers : OnSchemaReloaded(t, o)
       \/ Client(t)
  \/ \E h \in Requests : ServeHealthRequest(h)
  \/ ServeExit \/ ServeFails
  \/ \E t \in Threads :
       \/ StartLaunch(t) \/ StartDial(t) \/ StartAbortWait(t)
       \/ StopCheck(t) \/ StopHealth(t) \/ StopShutdown(t) \/ StopWatcher(t)
       \/ StopClose(t) \/ StopWait(t)
       \/ ReloadCheck(t) \/ ReloadRPC(t) \/ ReloadCopy(t) \/ ReloadNotify(t)
       \/ ReloadReturn(t) \/ HealthSnapshot(t) \/ HealthProbe(t)

\* A goroutine inside a method keeps running; taking es.mu or fw.mu is
\* strongly fair (sync.RWMutex blocks new readers behind a waiting writer and
\* sync.Mutex has a starvation mode).  Making calls is the application's
\* choice and the watcher fires only when files are edited: neither is fair.
\* The steps of thread t that only wait for it to be scheduled, and those that
\* also wait for es.mu or fw.mu.
Running(t) ==
  \/ StartDial(t) \/ StartAbortWait(t) \/ StopHealth(t) \/ StopClose(t)
  \/ StopWait(t) \/ ReloadRPC(t) \/ ReloadNotify(t) \/ ReloadReturn(t)
  \/ StopShutdown(t) \/ HealthProbe(t)
Locking(t) ==
  \/ StartLaunch(t) \/ StopCheck(t) \/ StopWatcher(t) \/ ReloadCheck(t)
  \/ ReloadCopy(t) \/ HealthSnapshot(t)

Fairness ==
  /\ WF_vars(ServeExit)
  /\ \A t \in Threads : WF_vars(Running(t)) /\ SF_vars(Locking(t))

Spec == Init /\ [][Next]_vars /\ Fairness

-----------------------------------------------------------------------------
(* Properties                                                               *)

\* The service is serving: its serve goroutine runs on an open datastore.
Serving == serve = "running" /\ dsOpen

LC == INSTANCE Lifecycle WITH state <- AbsState, serving <- Serving, cancelled <- ctxDone

\* Start, Stop and their failure paths, interleaved with reloads, health
\* checks and the serve task failing on its own, follow the lifecycle state
\* machine of spec section 3: each Start launches its serve task under a
\* fresh, live es.ctx, and a failed Start or a Stop returns only after
\* cancelling es.ctx and waiting for that task to end.
LifecycleRefined == LC!Spec

ClientGetsOpenConn ==
  [][\A t \in Callers :
       (got'[t] /= got[t] /\ got'[t] /= 0) => got'[t] \notin closedConns']_vars

\* Every call of a public method returns, and so does the watcher's
\* callback: in particular Stop completes.
CallsReturn ==
  \A t \in Threads : pc[t] /= "idle" ~> pc[t] = "idle"

\* Spec 4.3: Stop stops the health HTTP surface.  When Stop returns,
\* es.healthSrv is nil again.
StopReleasesHealthServer ==
  [][\A t \in Threads : (pc[t] = "StopWait" /\ pc'[t] = "idle") => healthSrv' = "nil"]_vars

=============================================================================
