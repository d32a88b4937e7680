--------------------------- MODULE AsyncRecorder ----------------------------
(***************************************************************************)
(* The history recorder (internal/persistence/recorder.go): requests       *)
(* submit their record to a bounded queue without waiting, one worker      *)
(* writes the queue to the store, and Shutdown closes the queue and waits  *)
(* for the worker until its deadline.                                      *)
(*                                                                         *)
(* Each record is submitted once, by the goroutine of its request, so a    *)
(* record stands for that goroutine too.  The mutex is kept, because what  *)
(* it protects is the distance between the check of accepting and the      *)
(* send: a send on a closed channel is a panic in Go.                      *)
(***************************************************************************)
EXTENDS Naturals, Sequences, FiniteSets

CONSTANTS
  Records,     \* persistence.RequestRecord values
  Capacity,    \* capacity of the queue
  Nothing      \* no record

ASSUME RecorderAssumption ==
  /\ IsFiniteSet(Records) /\ Nothing \notin Records
  /\ Capacity \in Nat \ {0}

VARIABLES
  mu,          \* AsyncRecorder.mu: the record whose submitter holds it, or Nothing
  accepting,   \* AsyncRecorder.accepting
  queue,       \* the contents of AsyncRecorder.queue
  chanClosed,  \* the queue has been closed
  cancelled,   \* AsyncRecorder.ctx has been cancelled
  worker,      \* the goroutine of run: what it does, and with which record
  storeClosed, \* Store.Close has been called
  done,        \* AsyncRecorder.done has been closed
  shutdown,    \* the caller of Shutdown: "no", "waiting", "drained", "late"
  submitted,   \* AsyncRecorder.submitted
  observed,    \* how often the observer was called with each outcome
  fate,        \* where each record has got to
  accepted,    \* history: the records sent to the queue, in that order
  taken        \* history: the records received by the worker, in that order

lifecycle == <<accepting, chanClosed, cancelled, storeClosed, done, shutdown>>
flow == <<queue, worker, submitted, observed, fate, accepted, taken>>
vars == <<mu, lifecycle, flow>>

WriteOutcomes == {"written", "write_error", "queue_full"}

\* "sending": between the check of accepting and the send; "overflow": found
\* the queue full and has not told the observer; "refused": SubmitClosed.
Fates == {"unsent", "sending", "queued", "taken", "overflow", "refused"} \cup WriteOutcomes

TypeOK ==
  /\ mu \in Records \cup {Nothing}
  /\ accepting \in BOOLEAN /\ chanClosed \in BOOLEAN /\ cancelled \in BOOLEAN
  /\ storeClosed \in BOOLEAN /\ done \in BOOLEAN
  /\ queue \in Seq(Records) /\ Len(queue) <= Capacity
  /\ worker \in [pc : {"receive", "check", "write", "observe", "close", "closed", "exit"},
                 rec : Records \cup {Nothing},
                 outcome : WriteOutcomes]
  /\ shutdown \in {"no", "waiting", "drained", "late"}
  /\ submitted \in Nat
  /\ observed \in [WriteOutcomes -> Nat]
  /\ fate \in [Records -> Fates]
  /\ accepted \in Seq(Records) /\ taken \in Seq(Records)

Waiting == [pc |-> "receive", rec |-> Nothing, outcome |-> "written"]

Init ==
  /\ mu = Nothing
  /\ accepting = TRUE /\ chanClosed = FALSE /\ cancelled = FALSE
  /\ storeClosed = FALSE /\ done = FALSE /\ shutdown = "no"
  /\ queue = <<>> /\ worker = Waiting
  /\ submitted = 0 /\ observed = [o \in WriteOutcomes |-> 0]
  /\ fate = [x \in Records |-> "unsent"]
  /\ accepted = <<>> /\ taken = <<>>

-----------------------------------------------------------------------------
\* Submit that looks at accepting before it takes the mutex.
SubmitCheckUnlocked(x) ==
  /\ fate[x] = "unsent"
  /\ IF accepting
     THEN /\ submitted' = submitted + 1
          /\ fate' = [fate EXCEPT ![x] = "sending"]
     ELSE /\ fate' = [fate EXCEPT ![x] = "refused"]
          /\ UNCHANGED submitted
  /\ UNCHANGED <<mu, queue, worker, observed, accepted, taken, lifecycle>>

\* Submit: take the mutex and check accepting; a closed recorder refuses.
SubmitCheck(x) ==
  /\ fate[x] = "unsent" /\ mu = Nothing
  /\ IF accepting
     THEN /\ mu' = x
          /\ submitted' = submitted + 1
          /\ fate' = [fate EXCEPT ![x] = "sending"]
     ELSE /\ fate' = [fate EXCEPT ![x] = "refused"]
          /\ UNCHANGED <<mu, submitted>>
  /\ UNCHANGED <<queue, worker, observed, accepted, taken, lifecycle>>

\* Submit: send if there is room, and release the mutex.
SubmitSend(x) ==
  /\ fate[x] = "sending"
  /\ mu' = Nothing
  /\ IF Len(queue) < Capacity
     THEN /\ queue' = Append(queue, x)
          /\ accepted' = Append(accepted, x)
          /\ fate' = [fate EXCEPT ![x] = "queued"]
     ELSE /\ fate' = [fate EXCEPT ![x] = "overflow"]
          /\ UNCHANGED <<queue, accepted>>
  /\ UNCHANGED <<worker, submitted, observed, taken, lifecycle>>

\* Submit: the observer hears of a full queue after the mutex is released.
SubmitObserve(x) ==
  /\ fate[x] = "overflow"
  /\ observed' = [observed EXCEPT !["queue_full"] = @ + 1]
  /\ fate' = [fate EXCEPT ![x] = "queue_full"]
  /\ UNCHANGED <<mu, queue, worker, submitted, accepted, taken, lifecycle>>

-----------------------------------------------------------------------------
\* run: receive the next record.
Receive ==
  /\ worker.pc = "receive" /\ queue # <<>>
  /\ queue' = Tail(queue)
  /\ taken' = Append(taken, Head(queue))
  /\ worker' = [worker EXCEPT !.pc = "check", !.rec = Head(queue)]
  /\ fate' = [fate EXCEPT ![Head(queue)] = "taken"]
  /\ UNCHANGED <<mu, submitted, observed, accepted, lifecycle>>

\* run: records received after the context was cancelled are not written.
CheckContext ==
  /\ worker.pc = "check"
  /\ worker' = IF cancelled THEN [worker EXCEPT !.pc = "observe", !.outcome = "write_error"]
                            ELSE [worker EXCEPT !.pc = "write"]
  /\ UNCHANGED <<mu, queue, submitted, observed, fate, accepted, taken, lifecycle>>

\* run: Store.Write returns; it may fail for any reason, the timeout included.
Write ==
  /\ worker.pc = "write"
  /\ \E o \in {"written", "write_error"} :
       worker' = [worker EXCEPT !.pc = "observe", !.outcome = o]
  /\ UNCHANGED <<mu, queue, submitted, observed, fate, accepted, taken, lifecycle>>

\* A record given up when the context is cancelled, without telling anybody.
ObserveUnlessCancelled ==
  /\ worker.pc = "observe"
  /\ observed' = [observed EXCEPT ![worker.outcome] = IF cancelled THEN @ ELSE @ + 1]
  /\ fate' = [fate EXCEPT ![worker.rec] = worker.outcome]
  /\ worker' = Waiting
  /\ UNCHANGED <<mu, queue, submitted, accepted, taken, lifecycle>>

\* run: the observer hears what became of the record.
Observe ==
  /\ worker.pc = "observe"
  /\ observed' = [observed EXCEPT ![worker.outcome] = @ + 1]
  /\ fate' = [fate EXCEPT ![worker.rec] = worker.outcome]
  /\ worker' = Waiting
  /\ UNCHANGED <<mu, queue, submitted, accepted, taken, lifecycle>>

\* run that stops as soon as the queue is closed.
RangeEndsEarly ==
  /\ worker.pc = "receive" /\ chanClosed
  /\ worker' = [worker EXCEPT !.pc = "close"]
  /\ cancelled' = TRUE
  /\ UNCHANGED <<mu, accepting, chanClosed, storeClosed, done, shutdown>>
  /\ UNCHANGED <<queue, submitted, observed, fate, accepted, taken>>

\* run: the closed queue is empty; the deferred calls run, cancel first.
RangeEnds ==
  /\ worker.pc = "receive" /\ queue = <<>> /\ chanClosed
  /\ worker' = [worker EXCEPT !.pc = "close"]
  /\ cancelled' = TRUE
  /\ UNCHANGED <<mu, accepting, chanClosed, storeClosed, done, shutdown>>
  /\ UNCHANGED <<queue, submitted, observed, fate, accepted, taken>>

\* run: then store.Close.
CloseStore ==
  /\ worker.pc = "close"
  /\ worker' = [worker EXCEPT !.pc = "closed"]
  /\ storeClosed' = TRUE
  /\ UNCHANGED <<mu, accepting, chanClosed, cancelled, done, shutdown>>
  /\ UNCHANGED <<queue, submitted, observed, fate, accepted, taken>>

\* run: and close(done) last.
CloseDone ==
  /\ worker.pc = "closed"
  /\ worker' = [worker EXCEPT !.pc = "exit"]
  /\ done' = TRUE
  /\ UNCHANGED <<mu, accepting, chanClosed, cancelled, storeClosed, shutdown>>
  /\ UNCHANGED <<queue, submitted, observed, fate, accepted, taken>>

-----------------------------------------------------------------------------
\* Shutdown: stop accepting and close the queue, the first time; then wait.
ShutdownBegin ==
  /\ shutdown \in {"no", "late"} /\ mu = Nothing
  /\ accepting' = FALSE /\ chanClosed' = TRUE
  /\ shutdown' = "waiting"
  /\ UNCHANGED <<mu, cancelled, storeClosed, done, flow>>

\* Shutdown: the worker has finished.
ShutdownDrained ==
  /\ shutdown = "waiting" /\ done
  /\ shutdown' = "drained"
  /\ UNCHANGED <<mu, accepting, chanClosed, cancelled, storeClosed, done, flow>>

\* Shutdown: the caller's deadline passes first; outstanding work is cancelled.
ShutdownDeadline ==
  /\ shutdown = "waiting"
  /\ shutdown' = "late"
  /\ cancelled' = TRUE
  /\ UNCHANGED <<mu, accepting, chanClosed, storeClosed, done, flow>>

Submitting(x) == SubmitCheck(x) \/ SubmitSend(x) \/ SubmitObserve(x)

Working ==
  \/ Receive \/ CheckContext \/ Write \/ Observe
  \/ RangeEnds \/ CloseStore \/ CloseDone

Next ==
  \/ \E x \in Records : Submitting(x)
  \/ Working
  \/ ShutdownBegin \/ ShutdownDrained \/ ShutdownDeadline

Spec == Init /\ [][Next]_vars

-----------------------------------------------------------------------------
\* Nobody is about to send on a closed queue, which would panic: Shutdown cannot
\* come between the check of accepting and the send.
NoSendOnClosed ==
  \A x \in Records : fate[x] = "sending" => ~chanClosed /\ mu = x

\* The worker receives the records in the order in which they were accepted,
\* each once, and none is lost between the queue and the worker.
InOrder == accepted = taken \o queue

InHand == IF worker.rec = Nothing THEN 0 ELSE 1

\* The counters add up at every moment: each submission that was counted is in
\* the queue, in the hands of the worker, about to be counted as dropped, or has
\* been reported to the observer exactly once.
CountersBalance ==
  submitted =
    observed["written"] + observed["write_error"] + observed["queue_full"]
      + Len(queue) + InHand + Cardinality({x \in Records : fate[x] \in {"sending", "overflow"}})

\* When the worker has announced that it is done, everything accepted has been
\* reported, nothing can be accepted any more and the store has been closed.
DoneMeansSettled ==
  done => /\ storeClosed /\ cancelled /\ chanClosed
          /\ queue = <<>>
          /\ \A x \in Records : fate[x] \notin {"sending", "queued", "taken"}

\* The store is closed only when nothing is left to write.
StoreOutlivesWork ==
  storeClosed => queue = <<>> /\ worker.rec = Nothing

=============================================================================
