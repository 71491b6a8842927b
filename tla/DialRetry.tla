------------------------------ MODULE DialRetry ------------------------------
(***************************************************************************)
(* dialWithRetry of server.go: up to maxRetries dial attempts; after each  *)
(* failure a select waits for the backoff timer, the caller's ctx or the   *)
(* coordinator's es.ctx, and the backoff doubles up to a cap.  Either      *)
(* context may be cancelled at any moment by another goroutine.  Time is   *)
(* abstracted: a cancelled context is ready before the pending backoff     *)
(* timer, an uncancelled one never is.                                     *)
(***************************************************************************)
EXTENDS Naturals, Sequences

CONSTANTS
  MaxRetries,       \* maxRetries = 10
  InitialBackoff,   \* initialBackoff = 10ms
  MaxBackoff        \* maxBackoff = 500ms

ASSUME MaxRetries \in Nat \ {0} /\ {InitialBackoff, MaxBackoff} \subseteq Nat \ {0}

VARIABLES
  i,            \* loop index: dial attempts completed
  phase,        \* "dial" (at GRPCDialContext) or "wait" (at the select)
  backoff,      \* the current backoff
  slept,        \* backoffs waited so far, in order (history)
  result,       \* "pending" | "conn" | "ctxErr" | "exhausted"
  callerDone,   \* the caller's ctx is cancelled
  esDone,       \* es.ctx is cancelled
  dialsAfterCancel \* dial attempts begun after a context was cancelled (history)

vars == <<i, phase, backoff, slept, result, callerDone, esDone, dialsAfterCancel>>

Cancelled == callerDone \/ esDone

\* Mutant: the cap is checked before doubling.
NextBackoffCapFirst(b) == IF b > MaxBackoff THEN MaxBackoff ELSE 2 * b

\* backoff *= 2; if backoff > maxBackoff { backoff = maxBackoff }
NextBackoff(b) == IF 2 * b > MaxBackoff THEN MaxBackoff ELSE 2 * b

Init ==
  /\ i = 0 /\ phase = "dial" /\ backoff = InitialBackoff /\ slept = <<>>
  /\ result = "pending" /\ callerDone = FALSE /\ esDone = FALSE
  /\ dialsAfterCancel = 0

\* One GRPCDialContext: success returns the connection, failure goes to the
\* select.
Dial ==
  /\ result = "pending" /\ phase = "dial" /\ i < MaxRetries
  /\ \/ result' = "conn" /\ UNCHANGED phase
     \/ phase' = "wait" /\ UNCHANGED result
  /\ dialsAfterCancel' = IF Cancelled THEN dialsAfterCancel + 1 ELSE dialsAfterCancel
  /\ UNCHANGED <<i, backoff, slept, callerDone, esDone>>

\* <-ctx.Done() or <-es.ctx.Done(): return the context's error.
SelectCancelled ==
  /\ result = "pending" /\ phase = "wait" /\ Cancelled
  /\ result' = "ctxErr"
  /\ UNCHANGED <<i, phase, backoff, slept, callerDone, esDone, dialsAfterCancel>>

\* Mutant: the select waits only for the timer, ignoring both contexts.
SelectTimerIgnoresCtx ==
  /\ result = "pending" /\ phase = "wait"
  /\ slept' = Append(slept, backoff)
  /\ backoff' = NextBackoff(backoff)
  /\ i' = i + 1 /\ phase' = "dial"
  /\ UNCHANGED <<result, callerDone, esDone, dialsAfterCancel>>

\* <-time.After(backoff): grow the backoff and go round the loop.
SelectTimer ==
  /\ result = "pending" /\ phase = "wait" /\ ~Cancelled
  /\ slept' = Append(slept, backoff)
  /\ backoff' = NextBackoff(backoff)
  /\ i' = i + 1 /\ phase' = "dial"
  /\ UNCHANGED <<result, callerDone, esDone, dialsAfterCancel>>

\* The loop ends: "failed after maxRetries retries".
GiveUp ==
  /\ result = "pending" /\ phase = "dial" /\ i = MaxRetries
  /\ result' = "exhausted"
  /\ UNCHANGED <<i, phase, backoff, slept, callerDone, esDone, dialsAfterCancel>>

\* Another goroutine cancels the caller's context (Start's ctx) or es.ctx.
CancelCaller ==
  /\ ~callerDone /\ callerDone' = TRUE
  /\ UNCHANGED <<i, phase, backoff, slept, result, esDone, dialsAfterCancel>>

CancelServer ==
  /\ ~esDone /\ esDone' = TRUE
  /\ UNCHANGED <<i, phase, backoff, slept, result, callerDone, dialsAfterCancel>>

Next ==
  \/ Dial \/ SelectCancelled \/ SelectTimer \/ GiveUp
  \/ CancelCaller \/ CancelServer

\* The dialling goroutine keeps running and an uncancelled timer fires;
\* cancellation is up to other goroutines and is not assumed.
Spec == Init /\ [][Next]_vars /\ WF_vars(Dial \/ SelectCancelled \/ SelectTimer \/ GiveUp)

-----------------------------------------------------------------------------

MinOf(a, b) == IF a <= b THEN a ELSE b

\* Spec 4.3 step 3: the waits between attempts start at the initial interval
\* and double each time up to the cap: the k-th wait is
\* min(initial * 2^(k-1), cap), whatever the attempts and cancellations did.
BackoffSchedule ==
  \A k \in DOMAIN slept : slept[k] = MinOf(InitialBackoff * 2^(k - 1), MaxBackoff)

\* The dial aborts early once either context is cancelled: at most the
\* attempt already under way, and none after the next select.
CancelStopsRetrying == dialsAfterCancel <= 1

=============================================================================
