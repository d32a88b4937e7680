----------------------------- MODULE StreamIdle -----------------------------
(***************************************************************************)
(* The inactivity watchdog of an upstream stream                           *)
(* (internal/provider/stream_idle.go) with the two goroutines around it:   *)
(* the request, which reads the upstream body through activityReadCloser   *)
(* and writes each chunk to the client before it reads again, and the      *)
(* watchdog, which waits for activity, for its timer or for the end of the *)
(* context.                                                                *)
(*                                                                         *)
(* Time passes in ticks, whether or not a goroutine that could run has     *)
(* run.  A Go select with several ready cases takes any of them.  Since Go *)
(* 1.23 a timer that is stopped or reset leaves no value in its channel.   *)
(***************************************************************************)
EXTENDS Naturals

CONSTANTS
  Timeout,      \* ROUTEFORGE_STREAM_IDLE_TIMEOUT, in ticks
  MaxPending    \* bound: chunks received by the process and not yet read

ASSUME StreamIdleAssumption == Timeout \in Nat \ {0} /\ MaxPending \in Nat \ {0}

VARIABLES
  upstream,     \* "open", or "ended" after the last chunk
  pending,      \* data that has arrived and was not read
  reader,       \* where the request is
  activity,     \* StreamIdleWatchdog.activity: the channel of one signal
  timer,        \* ticks left
  fired,        \* the timer has run out, and timer.C holds its value
  dog,          \* run: at its select, having cancelled, or returned
  cancelled,    \* the stream's context
  parent,       \* the request's context is cancelled
  byTimer,      \* the watchdog ended the stream
  sinceRead     \* ticks since data was last read, at most Timeout

vars == <<upstream, pending, reader, activity, timer, fired, dog, cancelled, parent,
          byTimer, sinceRead>>

Init ==
  /\ upstream = "open" /\ pending = 0
  /\ reader = "reading"
  /\ activity = FALSE
  /\ timer = Timeout /\ fired = FALSE
  /\ dog = "select"
  /\ cancelled = FALSE /\ parent = FALSE /\ byTimer = FALSE
  /\ sinceRead = 0

Older(t) == IF t < Timeout THEN t + 1 ELSE t

-----------------------------------------------------------------------------
\* The network and the clock.
Arrive ==
  /\ upstream = "open" /\ pending < MaxPending
  /\ pending' = pending + 1
  /\ UNCHANGED <<upstream, reader, activity, timer, fired, dog, cancelled, parent, byTimer, sinceRead>>

UpstreamEnds ==
  /\ upstream = "open"
  /\ upstream' = "ended"
  /\ UNCHANGED <<pending, reader, activity, timer, fired, dog, cancelled, parent, byTimer, sinceRead>>

ParentCancelled ==
  /\ ~parent
  /\ parent' = TRUE /\ cancelled' = TRUE
  /\ UNCHANGED <<upstream, pending, reader, activity, timer, fired, dog, byTimer, sinceRead>>

\* A running timer counts down and fills its channel when it reaches 0.
Tick ==
  /\ dog = "select"
  /\ timer' = IF timer > 0 THEN timer - 1 ELSE 0
  /\ fired' = (fired \/ timer = 1)
  /\ sinceRead' = Older(sinceRead)
  /\ UNCHANGED <<upstream, pending, reader, activity, dog, cancelled, parent, byTimer>>

-----------------------------------------------------------------------------
\* activityReadCloser.Read: data has been read.  Data that has arrived may
\* still be returned after the context was cancelled.
Read ==
  /\ reader = "reading" /\ pending > 0
  /\ pending' = pending - 1
  /\ reader' = "signalling"
  /\ sinceRead' = 0
  /\ UNCHANGED <<upstream, activity, timer, fired, dog, cancelled, parent, byTimer>>

\* Only data in which there is a chunk is signalled.
SignalChunksOnly(chunk) ==
  /\ reader = "signalling"
  /\ activity' = (activity \/ chunk)
  /\ reader' = IF chunk THEN "emitting" ELSE "reading"
  /\ UNCHANGED <<upstream, pending, timer, fired, dog, cancelled, parent, byTimer, sinceRead>>

\* Activity, a send that never blocks; then the adapter's Next finds a chunk
\* for the client in the data, or nothing yet.
Signal(chunk) ==
  /\ reader = "signalling"
  /\ activity' = TRUE
  /\ reader' = IF chunk THEN "emitting" ELSE "reading"
  /\ UNCHANGED <<upstream, pending, timer, fired, dog, cancelled, parent, byTimer, sinceRead>>

\* Read fails, at the end of the body or because the context was cancelled.
ReadFails ==
  /\ reader = "reading"
  /\ cancelled \/ (upstream = "ended" /\ pending = 0)
  /\ reader' = "closing"
  /\ UNCHANGED <<upstream, pending, activity, timer, fired, dog, cancelled, parent, byTimer, sinceRead>>

\* The write to the client returns.
EmitReturns(ok) ==
  /\ reader = "emitting"
  /\ reader' = IF ok THEN "reading" ELSE "closing"
  /\ UNCHANGED <<upstream, pending, activity, timer, fired, dog, cancelled, parent, byTimer, sinceRead>>

\* stream.Close calls Stop: cancel once, then wait for run to return.
StopCancels ==
  /\ reader = "closing"
  /\ reader' = "stopping"
  /\ cancelled' = TRUE
  /\ UNCHANGED <<upstream, pending, activity, timer, fired, dog, parent, byTimer, sinceRead>>

StopReturns ==
  /\ reader = "stopping" /\ dog = "returned"
  /\ reader' = "closed"
  /\ UNCHANGED <<upstream, pending, activity, timer, fired, dog, cancelled, parent, byTimer, sinceRead>>

-----------------------------------------------------------------------------
\* case <-ctx.Done(), and the deferred close of done.
DogStopped ==
  /\ dog = "select" /\ cancelled
  /\ dog' = "returned"
  /\ UNCHANGED <<upstream, pending, reader, activity, timer, fired, cancelled, parent, byTimer, sinceRead>>

\* case <-w.activity: stop the timer, which forgets that it has run out, and
\* start it again.
DogRestarts ==
  /\ dog = "select" /\ activity
  /\ activity' = FALSE
  /\ timer' = Timeout /\ fired' = FALSE
  /\ UNCHANGED <<upstream, pending, reader, dog, cancelled, parent, byTimer, sinceRead>>

\* case <-timer.C without the call of cancel.
DogGivesUp ==
  /\ dog = "select" /\ fired
  /\ fired' = FALSE
  /\ dog' = "returned"
  /\ UNCHANGED <<upstream, pending, reader, activity, timer, cancelled, parent, byTimer, sinceRead>>

\* case <-timer.C
DogFires ==
  /\ dog = "select" /\ fired
  /\ fired' = FALSE
  /\ cancelled' = TRUE
  /\ byTimer' = ~cancelled
  /\ dog' = "returned"
  /\ UNCHANGED <<upstream, pending, reader, activity, timer, parent, sinceRead>>

Dog == DogStopped \/ DogRestarts \/ DogFires

Next ==
  \/ Arrive \/ UpstreamEnds \/ ParentCancelled \/ Tick
  \/ Read \/ ReadFails
  \/ \E chunk \in BOOLEAN : Signal(chunk)
  \/ \E ok \in BOOLEAN : EmitReturns(ok)
  \/ StopCancels \/ StopReturns
  \/ Dog

Spec == Init /\ [][Next]_vars

\* Time passes, the runtime schedules both goroutines, and a read whose
\* context is cancelled returns; neither the upstream nor the client need
\* ever do anything.
Fairness ==
  /\ WF_vars(Tick) /\ WF_vars(Dog)
  /\ WF_vars(Read) /\ WF_vars(ReadFails) /\ WF_vars(\E chunk \in BOOLEAN : Signal(chunk))
  /\ WF_vars(StopCancels) /\ WF_vars(StopReturns)

FairSpec == Spec /\ Fairness

-----------------------------------------------------------------------------
TypeOK ==
  /\ upstream \in {"open", "ended"} /\ pending \in 0..MaxPending
  /\ reader \in {"reading", "signalling", "emitting", "closing", "stopping", "closed"}
  /\ timer \in 0..Timeout /\ dog \in {"select", "returned"}
  /\ activity \in BOOLEAN /\ fired \in BOOLEAN
  /\ cancelled \in BOOLEAN /\ parent \in BOOLEAN /\ byTimer \in BOOLEAN
  /\ sinceRead \in 0..Timeout

(***************************************************************************)
(* The watchdog ends a stream only when nothing was read for the whole     *)
(* timeout, save for a read whose signal is still to be sent or to be      *)
(* taken: every read is signalled, whatever was in it, a signal that is    *)
(* lost finds another in the channel, and the restart forgets an expiry    *)
(* that it overtook (Read, Activity and run, case <-w.activity).  The      *)
(* state keeps its type.                                                   *)
(***************************************************************************)
NeverFiresEarly ==
  /\ []TypeOK
  /\ [][byTimer' /\ ~byTimer => sinceRead = Timeout \/ activity \/ reader = "signalling"]_vars

(***************************************************************************)
(* No wait of the request is for ever: a read from a silent upstream comes *)
(* to an end, and Close returns, because the goroutine it waits for always *)
(* gets to its end and leaves the stream's context cancelled.              *)
(***************************************************************************)
EveryWaitEnds ==
  /\ (reader = "reading" /\ pending = 0) ~> (reader # "reading" \/ pending > 0)
  /\ reader = "closing" ~> (reader = "closed" /\ dog = "returned" /\ cancelled)
=============================================================================
