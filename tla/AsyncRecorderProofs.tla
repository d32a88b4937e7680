------------------------- MODULE AsyncRecorderProofs ------------------------
(***************************************************************************)
(* Proofs about AsyncRecorder, for any set of records and any capacity,    *)
(* and that they hold in the process of GracefulShutdown.                  *)
(***************************************************************************)
EXTENDS GracefulShutdown, SequenceTheorems, FiniteSetTheorems, TLAPS

InQueue(x) == \E i \in 1..Len(queue) : queue[i] = x

Ending == worker.pc \in {"close", "closed", "exit"}

(***************************************************************************)
(* The inductive invariant.  The mutex belongs to the record that is being *)
(* sent, and while it is held the recorder accepts; the worker holds a     *)
(* record between receiving and reporting it; the deferred calls run on an *)
(* empty, closed queue, in their order; and what is not reported is in the *)
(* queue or with the worker.                                               *)
(***************************************************************************)
IInv ==
  /\ TypeOK
  /\ \A x \in Records : fate[x] = "sending" => mu = x
  /\ mu # Nothing => accepting = TRUE
  /\ chanClosed = TRUE => accepting = FALSE
  /\ worker.rec # Nothing => worker.pc \in {"check", "write", "observe"}
  /\ worker.pc \in {"check", "write", "observe"} => worker.rec \in Records
  /\ Ending => chanClosed = TRUE /\ cancelled = TRUE /\ queue = <<>>
  /\ storeClosed = TRUE => worker.pc \in {"closed", "exit"}
  /\ worker.pc \in {"closed", "exit"} => storeClosed = TRUE
  /\ done = TRUE => worker.pc = "exit"
  /\ \A x \in Records : fate[x] = "queued" => InQueue(x)
  /\ \A x \in Records : fate[x] = "taken" => worker.rec = x
  /\ InOrder

USE DEF WriteOutcomes, Fates

\* Submit's check of accepting under the mutex.
LEMMA SubmitCheckInv ==
  ASSUME IInv, NEW x \in Records, SubmitCheck(x)
  PROVE  IInv'
<1>1. TypeOK'
  <2>1. mu' \in Records \cup {Nothing} /\ submitted' \in Nat
    BY DEF IInv, TypeOK, SubmitCheck
  <2>2. fate' \in [Records -> Fates]
    BY DEF IInv, TypeOK, SubmitCheck
  <2>3. UNCHANGED <<queue, worker, observed, accepted, taken, lifecycle>>
    BY DEF SubmitCheck
  <2>. QED
    BY <2>1, <2>2, <2>3 DEF IInv, TypeOK, lifecycle
<1>2. \A y \in Records : fate'[y] = "sending" => mu' = y
  BY RecorderAssumption DEF IInv, TypeOK, SubmitCheck
<1>3. \A y \in Records : y # x => fate'[y] = fate[y]
  BY DEF IInv, TypeOK, SubmitCheck
<1>4. fate'[x] \in {"sending", "refused"}
  BY DEF IInv, TypeOK, SubmitCheck
<1>5. \A y \in Records : fate'[y] \in {"queued", "taken"} => fate[y] = fate'[y]
  BY <1>3, <1>4
<1>6. UNCHANGED <<queue, worker, lifecycle, accepted, taken>>
  BY DEF SubmitCheck
<1>7. mu' # Nothing => accepting' = TRUE
  BY DEF SubmitCheck, IInv, TypeOK, lifecycle
<1>. QED
  BY <1>1, <1>2, <1>5, <1>6, <1>7 DEF IInv, TypeOK, lifecycle, Ending, InQueue, InOrder

\* Submit's send: the queue is still open, so the worker has not ended.
LEMMA SubmitSendInv ==
  ASSUME IInv, NEW x \in Records, SubmitSend(x)
  PROVE  IInv'
<1>1. ~Ending /\ mu = x /\ worker \in [pc : {"receive", "check", "write", "observe", "close", "closed", "exit"},
                 rec : Records \cup {Nothing}, outcome : WriteOutcomes]
  BY RecorderAssumption DEF IInv, SubmitSend, TypeOK
<1>2. CASE Len(queue) < Capacity
  <2>1. queue \in Seq(Records) /\ accepted \in Seq(Records) /\ taken \in Seq(Records)
    BY DEF IInv, TypeOK
  <2>2. queue' = Append(queue, x) /\ accepted' = Append(accepted, x) /\ UNCHANGED <<worker, taken, lifecycle>>
    BY <1>2 DEF SubmitSend
  <2>3. TypeOK'
    <3>1. queue' \in Seq(Records) /\ Len(queue') <= Capacity /\ accepted' \in Seq(Records)
      BY <1>2, <2>1, <2>2, RecorderAssumption
    <3>2. mu' = Nothing /\ fate' = [fate EXCEPT ![x] = "queued"] /\ UNCHANGED <<submitted, observed>>
      BY <1>2 DEF SubmitSend
    <3>. QED
      BY <3>1, <3>2, <2>2 DEF IInv, TypeOK, lifecycle
  <2>4. InOrder'
    <3>1. <<x>> \in Seq(Records)
      OBVIOUS
    <3>2. accepted' = (taken \o queue) \o <<x>> /\ queue' = queue \o <<x>>
      BY <2>1, <2>2, AppendIsConcat DEF IInv, InOrder
    <3>3. (taken \o queue) \o <<x>> = taken \o (queue \o <<x>>)
      BY <2>1, <3>1, ConcatAssociative
    <3>. QED
      BY <2>2, <3>2, <3>3 DEF InOrder
  <2>5. \A y \in Records : fate'[y] = "queued" => InQueue(y)'
    <3> SUFFICES ASSUME NEW y \in Records, fate'[y] = "queued" PROVE InQueue(y)'
      OBVIOUS
    <3>0. Len(queue') = Len(queue) + 1 /\ queue'[Len(queue) + 1] = x /\ Len(queue) \in Nat
      BY <2>1, <2>2
    <3>1. CASE y = x
      BY <3>0, <3>1 DEF InQueue
    <3>2. CASE y # x
      <4>1. fate[y] = "queued"
        BY <3>2, <1>2 DEF SubmitSend, IInv, TypeOK
      <4>2. PICK i \in 1..Len(queue) : queue[i] = y
        BY <4>1 DEF IInv, InQueue
      <4>3. queue'[i] = y /\ i \in 1..Len(queue')
        BY <4>2, <2>1, <2>2, <3>0
      <4>. QED
        BY <4>3 DEF InQueue
    <3>. QED
      BY <3>1, <3>2
  <2>6. mu' = Nothing /\ fate' = [fate EXCEPT ![x] = "queued"]
    BY <1>2 DEF SubmitSend
  <2>7. \A y \in Records : fate'[y] # "sending"
    BY <1>1, <2>6, RecorderAssumption DEF IInv, TypeOK
  <2>8. \A y \in Records : fate'[y] = "taken" => fate[y] = "taken"
    BY <2>6 DEF IInv, TypeOK
  <2>9. ~Ending'
    BY <1>1, <2>2 DEF Ending
  <2>. QED
    BY <2>2, <2>3, <2>4, <2>5, <2>6, <2>7, <2>8, <2>9 DEF IInv, lifecycle
<1>3. CASE ~(Len(queue) < Capacity)
  <2>1. TypeOK'
    BY <1>3 DEF IInv, TypeOK, SubmitSend, lifecycle
  <2>2. \A y \in Records : fate'[y] # "sending"
    BY <1>1, <1>3, RecorderAssumption DEF IInv, TypeOK, SubmitSend
  <2>3. \A y \in Records : fate'[y] \in {"queued", "taken"} => fate[y] = fate'[y]
    BY <1>3 DEF IInv, TypeOK, SubmitSend
  <2>4. UNCHANGED <<queue, worker, lifecycle, accepted, taken>> /\ mu' = Nothing
    BY <1>3 DEF SubmitSend
  <2>. QED
    BY <2>1, <2>2, <2>3, <2>4 DEF IInv, TypeOK, lifecycle, Ending, InQueue, InOrder
<1>. QED
  BY <1>2, <1>3

\* Receiving: the head of the queue goes to the worker.
LEMMA ReceiveInv == IInv /\ Receive => IInv'
<1> SUFFICES ASSUME IInv, Receive PROVE IInv'
  OBVIOUS
<1> DEFINE h == Head(queue)
<1>1. queue \in Seq(Records) /\ accepted \in Seq(Records) /\ taken \in Seq(Records) /\ queue # <<>>
  BY DEF IInv, TypeOK, Receive
<1>2. h \in Records /\ Tail(queue) \in Seq(Records) /\ Len(Tail(queue)) = Len(queue) - 1
      /\ \A i \in 1..Len(Tail(queue)) : Tail(queue)[i] = queue[i + 1]
  BY <1>1, HeadTailProperties
<1>3. worker' = [pc |-> "check", rec |-> h, outcome |-> worker.outcome] /\ worker.rec = Nothing
  BY DEF IInv, TypeOK, Receive
<1>4. Len(queue) \in Nat /\ h = queue[1]
  BY <1>1
<1>5. TypeOK'
  <2>1. taken' \in Seq(Records) /\ queue' \in Seq(Records) /\ Len(queue') <= Capacity
    BY <1>1, <1>2, <1>4, RecorderAssumption DEF Receive, IInv, TypeOK
  <2>2. worker' \in [pc : {"receive", "check", "write", "observe", "close", "closed", "exit"},
                     rec : Records \cup {Nothing}, outcome : WriteOutcomes]
    BY <1>2, <1>3 DEF IInv, TypeOK
  <2>. QED
    BY <1>2, <2>1, <2>2 DEF IInv, TypeOK, Receive, lifecycle
<1>6. InOrder'
  <2>1. <<h>> \in Seq(Records)
    BY <1>2
  <2>2. queue = <<h>> \o Tail(queue)
    BY <1>1, <1>2, <1>4, <2>1
  <2>3. taken' = taken \o <<h>>
    BY <1>1, <1>2, AppendIsConcat DEF Receive
  <2>4. taken \o (<<h>> \o Tail(queue)) = (taken \o <<h>>) \o Tail(queue)
    BY <1>1, <1>2, <2>1, ConcatAssociative
  <2>. QED
    BY <2>2, <2>3, <2>4 DEF Receive, IInv, InOrder
<1>7. ASSUME NEW y \in Records, fate'[y] = "queued" PROVE InQueue(y)'
  <2>1. y # h /\ fate[y] = "queued"
    BY <1>2, <1>7 DEF Receive, IInv, TypeOK
  <2>2. PICK i \in 1..Len(queue) : queue[i] = y
    BY <2>1 DEF IInv, InQueue
  <2>3. i # 1
    BY <2>1, <2>2, <1>4
  <2>4. i - 1 \in 1..Len(Tail(queue)) /\ Tail(queue)[i - 1] = y
    BY <2>2, <2>3, <1>2, <1>4
  <2>. QED
    BY <2>4 DEF InQueue, Receive
<1>8. ASSUME NEW y \in Records, fate'[y] = "taken" PROVE worker'.rec = y
  BY <1>2, <1>3, <1>8, RecorderAssumption DEF Receive, IInv, TypeOK
<1>9. ASSUME NEW y \in Records, fate'[y] = "sending" PROVE mu' = y
  BY <1>2, <1>9 DEF Receive, IInv, TypeOK
<1>10. UNCHANGED <<mu, lifecycle>> /\ worker.pc = "receive"
  BY DEF Receive
<1>. QED
  BY <1>2, <1>3, <1>5, <1>6, <1>7, <1>8, <1>9, <1>10 DEF IInv, lifecycle, Ending

\* The steps of the worker that leave the queue and the records' places alone.
LEMMA WorkerOnlyInv == IInv /\ (CheckContext \/ Write) => IInv'
<1> SUFFICES ASSUME IInv, CheckContext \/ Write PROVE IInv'
  OBVIOUS
<1>1. PICK p \in {"write", "observe"}, o \in WriteOutcomes :
        worker' = [pc |-> p, rec |-> worker.rec, outcome |-> o]
  BY DEF CheckContext, Write, IInv, TypeOK
<1>2. UNCHANGED <<mu, queue, submitted, observed, fate, accepted, taken, lifecycle>>
      /\ worker.pc \in {"check", "write"}
  BY DEF CheckContext, Write
<1>3. TypeOK'
  BY <1>1, <1>2 DEF IInv, TypeOK, lifecycle
<1>. QED
  BY <1>1, <1>2, <1>3 DEF IInv, lifecycle, Ending, InQueue, InOrder

\* The report on a record.
LEMMA ObserveInv == IInv /\ Observe => IInv'
<1> SUFFICES ASSUME IInv, Observe PROVE IInv'
  OBVIOUS
<1>1. worker.rec \in Records /\ worker.outcome \in WriteOutcomes /\ worker.pc = "observe"
  BY DEF IInv, TypeOK, Observe
<1>2. TypeOK'
  BY <1>1 DEF IInv, TypeOK, Observe, lifecycle, Waiting
<1>3. \A y \in Records : fate'[y] \in {"queued", "taken", "sending"} => fate[y] = fate'[y] /\ y # worker.rec
  BY <1>1 DEF IInv, TypeOK, Observe
<1>4. \A y \in Records : fate'[y] # "taken"
  BY <1>3 DEF IInv
<1>5. UNCHANGED <<mu, queue, accepted, taken, lifecycle>> /\ worker' = Waiting
  BY DEF Observe
<1>. QED
  BY <1>1, <1>2, <1>3, <1>4, <1>5 DEF IInv, lifecycle, Ending, InQueue, InOrder, Waiting

\* The deferred calls of the worker.
LEMMA EndingInv == IInv /\ (RangeEnds \/ CloseStore \/ CloseDone) => IInv'
<1> SUFFICES ASSUME IInv, RangeEnds \/ CloseStore \/ CloseDone PROVE IInv'
  OBVIOUS
<1>1. UNCHANGED <<mu, accepting, chanClosed, shutdown, queue, submitted, observed, fate, accepted, taken>>
  BY DEF RangeEnds, CloseStore, CloseDone
<1>2. PICK p \in {"close", "closed", "exit"} :
        worker' = [pc |-> p, rec |-> worker.rec, outcome |-> worker.outcome]
  BY DEF RangeEnds, CloseStore, CloseDone, IInv, TypeOK
<1>3. worker.pc \in {"receive", "close", "closed"} /\ worker.rec = Nothing
  BY DEF RangeEnds, CloseStore, CloseDone, IInv
<1>4. TypeOK'
  <2>1. cancelled' \in BOOLEAN /\ storeClosed' \in BOOLEAN /\ done' \in BOOLEAN
    BY DEF IInv, TypeOK, RangeEnds, CloseStore, CloseDone
  <2>. QED
    BY <1>1, <1>2, <2>1 DEF IInv, TypeOK
<1>5. chanClosed' = TRUE /\ cancelled' = TRUE /\ queue' = <<>>
  BY <1>1 DEF IInv, TypeOK, RangeEnds, CloseStore, CloseDone, Ending
<1>6. /\ storeClosed' = TRUE => worker'.pc \in {"closed", "exit"}
      /\ worker'.pc \in {"closed", "exit"} => storeClosed' = TRUE
      /\ done' = TRUE => worker'.pc = "exit"
  <2>1. CASE RangeEnds
    BY <2>1 DEF IInv, TypeOK, RangeEnds
  <2>2. CASE CloseStore
    BY <2>2 DEF IInv, TypeOK, CloseStore
  <2>3. CASE CloseDone
    BY <2>3 DEF IInv, TypeOK, CloseDone
  <2>. QED
    BY <2>1, <2>2, <2>3
<1>. QED
  BY <1>1, <1>2, <1>3, <1>4, <1>5, <1>6 DEF IInv, Ending, InQueue, InOrder

-----------------------------------------------------------------------------
\* The invariant is inductive and holds of every reachable state.
THEOREM Invariance == Spec => []IInv
<1>1. IInv /\ [Next]_vars => IInv'
  <2> SUFFICES ASSUME IInv, [Next]_vars PROVE IInv'
    OBVIOUS
  <2>1. ASSUME NEW x \in Records, Submitting(x) PROVE IInv'
    <3>1. CASE SubmitObserve(x)
      <4>1. TypeOK'
        BY <3>1 DEF IInv, TypeOK, SubmitObserve, lifecycle
      <4>. QED
        BY <3>1, <4>1 DEF IInv, TypeOK, SubmitObserve, lifecycle, Ending, InQueue, InOrder
    <3>. QED
      BY <2>1, <3>1, SubmitCheckInv, SubmitSendInv DEF Submitting
  <2>2. CASE Working
    BY <2>2, ReceiveInv, WorkerOnlyInv, ObserveInv, EndingInv DEF Working
  \* Nobody holds the mutex when Shutdown closes the queue.
  <2>3. CASE ShutdownBegin \/ ShutdownDrained \/ ShutdownDeadline
    <3>1. UNCHANGED <<mu, storeClosed, done, flow>>
      BY <2>3 DEF ShutdownBegin, ShutdownDrained, ShutdownDeadline
    <3>2. TypeOK'
      BY <2>3, <3>1 DEF IInv, TypeOK, flow, ShutdownBegin, ShutdownDrained, ShutdownDeadline
    <3>3. (mu' # Nothing => accepting' = TRUE) /\ (chanClosed' = TRUE => accepting' = FALSE)
      BY <2>3 DEF IInv, ShutdownBegin, ShutdownDrained, ShutdownDeadline
    <3>4. Ending => chanClosed' = TRUE /\ cancelled' = TRUE
      BY <2>3 DEF IInv, ShutdownBegin, ShutdownDrained, ShutdownDeadline
    <3>. QED
      BY <3>1, <3>2, <3>3, <3>4 DEF IInv, flow, Ending, InQueue, InOrder
  <2>4. CASE UNCHANGED vars
    BY <2>4 DEF IInv, TypeOK, vars, lifecycle, flow, Ending, InQueue, InOrder
  <2>. QED
    BY <2>1, <2>2, <2>3, <2>4 DEF Next
<1>2. Init => IInv
  <2> SUFFICES ASSUME Init PROVE IInv
    OBVIOUS
  <2>1. TypeOK
    <3>1. queue \in Seq(Records) /\ accepted \in Seq(Records) /\ taken \in Seq(Records)
          /\ Len(queue) <= Capacity
      BY EmptySeq, RecorderAssumption DEF Init
    <3>2. worker \in [pc : {"receive", "check", "write", "observe", "close", "closed", "exit"},
                      rec : Records \cup {Nothing}, outcome : WriteOutcomes]
      BY DEF Init, Waiting
    <3>. QED
      BY <3>1, <3>2 DEF Init, TypeOK
  <2>2. InOrder
    BY ConcatEmptySeq DEF Init, InOrder
  <2>. QED
    BY <2>1, <2>2 DEF Init, IInv, Waiting, Ending, InQueue
<1>. QED
  BY <1>1, <1>2, PTL DEF Spec

\* No Submit can send on a closed queue, whenever Shutdown comes.
THEOREM NoSendOnClosedTheorem == Spec => []NoSendOnClosed
<1>1. IInv => NoSendOnClosed
  BY RecorderAssumption DEF IInv, NoSendOnClosed, TypeOK
<1>. QED
  BY <1>1, Invariance, PTL

\* The worker receives the accepted records in order, each once.
THEOREM InOrderTheorem == Spec => []InOrder
<1>1. IInv => InOrder
  BY DEF IInv
<1>. QED
  BY <1>1, Invariance, PTL

\* When done is closed, everything accepted has been reported and the store is
\* closed.
THEOREM DoneMeansSettledTheorem == Spec => []DoneMeansSettled
<1>1. ASSUME IInv PROVE DoneMeansSettled
  <2> SUFFICES ASSUME done PROVE DoneMeansSettled
    BY DEF DoneMeansSettled
  <2>1. worker.pc = "exit" /\ queue = <<>> /\ worker.rec = Nothing
    BY <1>1 DEF IInv, TypeOK, Ending
  <2>2. Len(queue) = 0
    BY <2>1
  <2>3. \A x \in Records : fate[x] \notin {"queued", "taken"}
    BY <1>1, <2>1, <2>2, RecorderAssumption DEF IInv, InQueue
  <2>4. \A x \in Records : fate[x] # "sending"
    BY <1>1, <2>1, RecorderAssumption DEF IInv, Ending
  <2>. QED
    BY <1>1, <2>1, <2>3, <2>4 DEF IInv, DoneMeansSettled, Ending
<1>. QED
  BY <1>1, Invariance, PTL

\* The store is not closed while anything is left to write.
THEOREM StoreOutlivesWorkTheorem == Spec => []StoreOutlivesWork
<1>1. IInv => StoreOutlivesWork
  BY DEF IInv, TypeOK, StoreOutlivesWork, Ending
<1>. QED
  BY <1>1, Invariance, PTL

-----------------------------------------------------------------------------
\* Where the records are: the queue holds records that are queued, each once, and
\* the worker one that it has taken.
Placed ==
  /\ \A i \in 1..Len(queue) : fate[queue[i]] = "queued"
  /\ \A i, j \in 1..Len(queue) : queue[i] = queue[j] => i = j
  /\ worker.rec # Nothing => fate[worker.rec] = "taken"

\* The submissions that are neither in the queue nor reported nor refused.
Undecided == {x \in Records : fate[x] \in {"sending", "overflow"}}

Reported == observed["written"] + observed["write_error"] + observed["queue_full"]

\* The steps that move no record.
LEMMA Elsewhere ==
  ASSUME IInv,
         \/ CheckContext \/ Write \/ RangeEnds \/ CloseStore \/ CloseDone
         \/ ShutdownBegin \/ ShutdownDrained \/ ShutdownDeadline \/ UNCHANGED vars
  PROVE  UNCHANGED <<submitted, observed, fate, queue>> /\ worker'.rec = worker.rec
<1>1. UNCHANGED <<submitted, observed, fate, queue>>
  BY DEF CheckContext, Write, RangeEnds, CloseStore, CloseDone, ShutdownBegin,
         ShutdownDrained, ShutdownDeadline, vars, flow
<1>2. worker'.rec = worker.rec
  BY DEF CheckContext, Write, RangeEnds, CloseStore, CloseDone, ShutdownBegin,
         ShutdownDrained, ShutdownDeadline, vars, flow, IInv, TypeOK
<1>. QED
  BY <1>1, <1>2

\* A record has one place: it enters the queue once, and leaves it for the worker.
LEMMA PlacedStep == IInv /\ Placed /\ [Next]_vars => Placed'
<1> SUFFICES ASSUME IInv, Placed, [Next]_vars PROVE Placed'
  OBVIOUS
<1>1. /\ fate \in [Records -> Fates] /\ queue \in Seq(Records)
      /\ Len(queue) \in Nat /\ \A i \in 1..Len(queue) : queue[i] \in Records
  BY DEF IInv, TypeOK
<1>2. worker.rec # Nothing => worker.rec \in Records
  BY DEF IInv, TypeOK
\* A step that changes the fate of one record that is neither queued nor taken.
<1>3. ASSUME NEW x \in Records, NEW f, fate' = [fate EXCEPT ![x] = f],
             fate[x] \notin {"queued", "taken"}, UNCHANGED <<queue, worker>>
      PROVE  Placed'
  BY <1>1, <1>2, <1>3 DEF Placed
<1>4. ASSUME NEW x \in Records, SubmitCheck(x) \/ SubmitObserve(x) PROVE Placed'
  BY <1>3, <1>4 DEF SubmitCheck, SubmitObserve
<1>5. ASSUME NEW x \in Records, SubmitSend(x) PROVE Placed'
  <2>1. fate[x] = "sending" /\ UNCHANGED worker
    BY <1>5 DEF SubmitSend
  <2>2. CASE Len(queue) < Capacity
    <3>1. queue' = Append(queue, x) /\ fate' = [fate EXCEPT ![x] = "queued"]
      BY <1>5, <2>2 DEF SubmitSend
    <3>2. /\ Len(queue') = Len(queue) + 1 /\ queue'[Len(queue) + 1] = x
          /\ \A i \in 1..Len(queue) : queue'[i] = queue[i]
      BY <1>1, <3>1
    <3>3. \A i \in 1..Len(queue) : queue[i] # x /\ fate'[queue[i]] = "queued"
      BY <1>1, <2>1, <3>1 DEF Placed
    <3>4. fate'[x] = "queued"
      BY <1>1, <3>1
    <3>5. \A i \in 1..Len(queue') : i \in 1..Len(queue) \/ i = Len(queue) + 1
      BY <1>1, <3>2
    <3>6. worker'.rec # Nothing => fate'[worker'.rec] = "taken"
      BY <1>1, <1>2, <2>1, <3>1 DEF Placed
    <3>7. \A i \in 1..Len(queue') : fate'[queue'[i]] = "queued"
      BY <3>2, <3>3, <3>4, <3>5
    <3>8. ASSUME NEW i \in 1..Len(queue'), NEW j \in 1..Len(queue'), queue'[i] = queue'[j]
          PROVE  i = j
      BY <3>2, <3>3, <3>5, <3>8 DEF Placed
    <3>. QED
      BY <3>6, <3>7, <3>8 DEF Placed
  <2>3. CASE ~(Len(queue) < Capacity)
    BY <1>3, <1>5, <2>1, <2>3 DEF SubmitSend
  <2>. QED
    BY <2>2, <2>3
<1>6. CASE Receive
  <2> DEFINE h == Head(queue)
  <2>1. queue' = Tail(queue) /\ fate' = [fate EXCEPT ![h] = "taken"] /\ queue # <<>>
    BY <1>6 DEF Receive
  <2>2. /\ h = queue[1] /\ h \in Records /\ Len(queue') = Len(queue) - 1 /\ Len(queue) >= 1
        /\ \A i \in 1..Len(queue') : queue'[i] = queue[i + 1]
    BY <1>1, <2>1, HeadTailProperties
  <2>3. \A i \in 1..Len(queue') : i + 1 \in 1..Len(queue) /\ i + 1 # 1
    BY <1>1, <2>2
  <2>4. \A i \in 1..Len(queue') : queue'[i] # h
    BY <1>1, <2>2, <2>3 DEF Placed
  <2>5. \A i \in 1..Len(queue') : fate'[queue'[i]] = "queued"
    BY <1>1, <2>1, <2>2, <2>3, <2>4 DEF Placed
  <2>6. ASSUME NEW i \in 1..Len(queue'), NEW j \in 1..Len(queue'), queue'[i] = queue'[j]
        PROVE  i = j
    BY <1>1, <2>2, <2>3, <2>6 DEF Placed
  <2>7. fate'[worker'.rec] = "taken"
    BY <1>1, <1>6, <2>1, <2>2 DEF Receive, IInv, TypeOK
  <2>. QED
    BY <2>5, <2>6, <2>7 DEF Placed
<1>7. CASE Observe
  <2>1. worker.rec \in Records /\ fate[worker.rec] = "taken"
    BY <1>7, RecorderAssumption DEF Observe, IInv, Placed
  <2>2. \A i \in 1..Len(queue) : queue[i] # worker.rec
    BY <2>1 DEF Placed
  <2>3. \A i \in 1..Len(queue) : fate'[queue[i]] = "queued"
    BY <1>1, <1>7, <2>2 DEF Observe, Placed
  <2>. QED
    BY <1>7, <2>3 DEF Observe, Placed, Waiting
<1>8. CASE \/ CheckContext \/ Write \/ RangeEnds \/ CloseStore \/ CloseDone
          \/ ShutdownBegin \/ ShutdownDrained \/ ShutdownDeadline \/ UNCHANGED vars
  <2>1. UNCHANGED <<submitted, observed, fate, queue>> /\ worker'.rec = worker.rec
    BY <1>8, Elsewhere
  <2>. QED
    BY <2>1 DEF Placed
<1>. QED
  BY <1>4, <1>5, <1>6, <1>7, <1>8 DEF Next, Submitting, Working

\* The undecided submissions can be counted, and a report counts one.
LEMMA Countable ==
  ASSUME IInv
  PROVE  /\ IsFiniteSet(Undecided) /\ Cardinality(Undecided) \in Nat
         /\ Reported \in Nat /\ Len(queue) \in Nat /\ submitted \in Nat
         /\ \A o \in WriteOutcomes :
              observed' = [observed EXCEPT ![o] = @ + 1] => Reported' = Reported + 1
<1>1. Undecided \in SUBSET Records
  BY DEF Undecided
<1>2. IsFiniteSet(Undecided)
  BY <1>1, RecorderAssumption, FS_Subset
<1>3. Cardinality(Undecided) \in Nat
  BY <1>2, FS_CardinalityType
<1>4. observed \in [WriteOutcomes -> Nat] /\ queue \in Seq(Records) /\ submitted \in Nat
  BY DEF IInv, TypeOK
<1>5. ASSUME NEW o \in WriteOutcomes, observed' = [observed EXCEPT ![o] = @ + 1]
      PROVE  Reported' = Reported + 1
  BY <1>4, <1>5 DEF Reported
<1>6. Reported \in Nat /\ Len(queue) \in Nat
  BY <1>4 DEF Reported
<1>. QED
  BY <1>2, <1>3, <1>4, <1>5, <1>6

\* A submission that becomes undecided, or is decided.
LEMMA UndecidedStep ==
  ASSUME IInv, NEW x \in Records, NEW f \in Fates, fate' = [fate EXCEPT ![x] = f]
  PROVE  LET was == fate[x] \in {"sending", "overflow"}
             is == f \in {"sending", "overflow"}
         IN  Cardinality(Undecided') =
               IF was /\ ~is THEN Cardinality(Undecided) - 1
               ELSE IF ~was /\ is THEN Cardinality(Undecided) + 1
               ELSE Cardinality(Undecided)
<1>1. fate \in [Records -> Fates]
  BY DEF IInv, TypeOK
<1>2. x \in Undecided <=> fate[x] \in {"sending", "overflow"}
  BY DEF Undecided
<1>3. CASE f \in {"sending", "overflow"}
  <2>1. Undecided' = Undecided \cup {x}
    BY <1>1, <1>3 DEF Undecided
  <2>. QED
    BY <1>2, <1>3, <2>1, Countable, FS_AddElement
<1>4. CASE f \notin {"sending", "overflow"}
  <2>1. Undecided' = Undecided \ {x}
    BY <1>1, <1>4 DEF Undecided
  <2>. QED
    BY <1>2, <1>4, <2>1, Countable, FS_RemoveElement
<1>. QED
  BY <1>3, <1>4

\* Each counted submission is in one place: a step moves it from one term of the
\* sum to another.
LEMMA BalanceStep == IInv /\ Placed /\ CountersBalance /\ [Next]_vars => CountersBalance'
<1> SUFFICES ASSUME IInv, Placed, CountersBalance, [Next]_vars PROVE CountersBalance'
  OBVIOUS
<1> DEFINE card == Cardinality(Undecided)
           len == Len(queue)
<1>1. card \in Nat /\ len \in Nat /\ Reported \in Nat /\ submitted \in Nat /\ InHand \in {0, 1}
  BY Countable DEF InHand
<1>2. submitted = Reported + len + InHand + card
  BY <1>1 DEF CountersBalance, Reported, Undecided
<1>3. SUFFICES submitted' = Reported' + len' + InHand' + card'
  BY DEF CountersBalance, Reported, Undecided
<1>4. ASSUME NEW x \in Records, SubmitCheck(x) PROVE submitted' = Reported' + len' + InHand' + card'
  <2>1. Reported' = Reported /\ len' = len /\ InHand' = InHand
    BY <1>4 DEF SubmitCheck, Reported, InHand
  <2>2. CASE accepting
    <3>1. card' = card + 1
      BY <1>4, <2>2, UndecidedStep DEF SubmitCheck
    <3>. QED
      BY <1>1, <1>2, <1>4, <2>1, <2>2, <3>1 DEF SubmitCheck
  <2>3. CASE ~accepting
    <3>1. card' = card
      BY <1>4, <2>3, UndecidedStep DEF SubmitCheck
    <3>. QED
      BY <1>1, <1>2, <1>4, <2>1, <2>3, <3>1 DEF SubmitCheck
  <2>. QED
    BY <2>2, <2>3
<1>5. ASSUME NEW x \in Records, SubmitSend(x) PROVE submitted' = Reported' + len' + InHand' + card'
  <2>1. submitted' = submitted /\ Reported' = Reported /\ InHand' = InHand
    BY <1>5 DEF SubmitSend, Reported, InHand
  <2>2. CASE Len(queue) < Capacity
    <3>1. card' = card - 1
      BY <1>5, <2>2, UndecidedStep DEF SubmitSend
    <3>2. len' = len + 1
      BY <1>5, <2>2 DEF SubmitSend, IInv, TypeOK
    <3>. QED
      BY <1>1, <1>2, <2>1, <3>1, <3>2
  <2>3. CASE ~(Len(queue) < Capacity)
    <3>1. card' = card
      BY <1>5, <2>3, UndecidedStep DEF SubmitSend
    <3>2. len' = len
      BY <1>5, <2>3 DEF SubmitSend
    <3>. QED
      BY <1>1, <1>2, <2>1, <3>1, <3>2
  <2>. QED
    BY <2>2, <2>3
<1>6. ASSUME NEW x \in Records, SubmitObserve(x) PROVE submitted' = Reported' + len' + InHand' + card'
  <2>1. submitted' = submitted /\ len' = len /\ InHand' = InHand
    BY <1>6 DEF SubmitObserve, InHand
  <2>2. card' = card - 1
    <3>1. fate' = [fate EXCEPT ![x] = "queue_full"] /\ fate[x] = "overflow"
      BY <1>6 DEF SubmitObserve
    <3>2. "queue_full" \in Fates /\ "queue_full" \notin {"sending", "overflow"}
      OBVIOUS
    <3>. QED
      BY <3>1, <3>2, UndecidedStep
  <2>3. Reported' = Reported + 1
    BY <1>6, Countable DEF SubmitObserve
  <2>. QED
    BY <1>1, <1>2, <2>1, <2>2, <2>3
<1>7. CASE Receive
  <2>1. submitted' = submitted /\ Reported' = Reported
    BY <1>7 DEF Receive, Reported
  <2>2. queue \in Seq(Records) /\ queue # <<>> /\ Head(queue) \in Records
    BY <1>7 DEF Receive, IInv, TypeOK
  <2>3. len' = len - 1
    BY <1>7, <2>2 DEF Receive
  <2>4. InHand = 0 /\ InHand' = 1
    BY <1>7, <2>2, RecorderAssumption DEF Receive, IInv, TypeOK, InHand
  <2>5. fate[Head(queue)] \notin {"sending", "overflow"}
    BY <2>2 DEF Placed
  <2>6. card' = card
    <3>1. fate' = [fate EXCEPT ![Head(queue)] = "taken"]
      BY <1>7 DEF Receive
    <3>2. "taken" \in Fates /\ "taken" \notin {"sending", "overflow"}
      OBVIOUS
    <3>. QED
      BY <2>2, <2>5, <3>1, <3>2, UndecidedStep
  <2>. QED
    BY <1>1, <1>2, <2>1, <2>3, <2>4, <2>6
<1>8. CASE Observe
  <2>1. submitted' = submitted /\ len' = len
    BY <1>8 DEF Observe
  <2>2. worker.rec \in Records /\ worker.outcome \in WriteOutcomes
    BY <1>8 DEF Observe, IInv, TypeOK
  <2>3. InHand = 1 /\ InHand' = 0
    BY <1>8, <2>2, RecorderAssumption DEF Observe, Waiting, InHand
  <2>4. Reported' = Reported + 1
    BY <1>8, <2>2, Countable DEF Observe
  <2>5. fate[worker.rec] \notin {"sending", "overflow"}
    BY <2>2, RecorderAssumption DEF Placed
  <2>6. card' = card
    BY <1>8, <2>2, <2>5, UndecidedStep DEF Observe
  <2>. QED
    BY <1>1, <1>2, <2>1, <2>3, <2>4, <2>6
<1>9. CASE \/ CheckContext \/ Write \/ RangeEnds \/ CloseStore \/ CloseDone
          \/ ShutdownBegin \/ ShutdownDrained \/ ShutdownDeadline \/ UNCHANGED vars
  <2>1. UNCHANGED <<submitted, observed, fate, queue>> /\ worker'.rec = worker.rec
    BY <1>9, Elsewhere
  <2>. QED
    BY <1>2, <2>1 DEF Reported, InHand, Undecided
<1>. QED
  BY <1>4, <1>5, <1>6, <1>7, <1>8, <1>9 DEF Next, Submitting, Working

\* At every moment the counters account for each submission exactly once, at any
\* capacity and however the worker, the submitters and Shutdown are interleaved.
THEOREM CountersBalanceTheorem == Spec => []CountersBalance
<1> DEFINE BInv == Placed /\ CountersBalance
<1>1. Init => BInv
  <2> SUFFICES ASSUME Init PROVE BInv
    OBVIOUS
  <2>1. Undecided = {} /\ Cardinality({}) = 0
    BY FS_EmptySet DEF Init, Undecided
  <2>2. Len(queue) = 0 /\ InHand = 0 /\ Reported = 0 /\ submitted = 0
    BY DEF Init, InHand, Waiting, Reported
  <2>3. CountersBalance
    <3>1. submitted = Reported + Len(queue) + InHand + Cardinality(Undecided)
      BY <2>1, <2>2
    <3>. QED
      BY <3>1 DEF CountersBalance, Undecided, Reported
  <2>4. Placed
    BY <2>2 DEF Init, Placed, Waiting
  <2>. QED
    BY <2>3, <2>4
<1>2. IInv /\ BInv /\ [Next]_vars => BInv'
  BY PlacedStep, BalanceStep
<1>. QED
  BY <1>1, <1>2, Invariance, PTL DEF Spec

\* The process around the recorder uses it as AsyncRecorder says: what is proved
\* above holds until the process exits, and of the state it leaves.
THEOREM ProcessRefinesRecorder == MSpec => Spec
<1>1. MInit => Init
  BY DEF MInit
<1>2. [MNext]_mvars => [Next]_vars
  BY DEF MNext, mvars, Signal, StopRecorder, Exit, Live, Next
<1>. QED
  BY <1>1, <1>2, PTL DEF MSpec, Spec
=============================================================================
