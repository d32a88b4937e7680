-------------------------- MODULE GracefulShutdown --------------------------
(***************************************************************************)
(* The end of the process (run in cmd/routeforge/main.go) around the       *)
(* history recorder: the servers are shut down with a deadline, then the   *)
(* deferred calls run, the recorder's Shutdown among them with a deadline  *)
(* of its own, and the process exits, taking every goroutine with it.      *)
(***************************************************************************)
EXTENDS AsyncRecorder

VARIABLE main  \* "serving", "stopping", "recorder", "exited"

mvars == <<vars, main>>

MInit == Init /\ main = "serving"

\* SIGTERM or a failed listener.
Signal ==
  /\ main = "serving"
  /\ main' = "stopping"
  /\ UNCHANGED vars

\* http.Server.Shutdown has returned, with all handlers finished or with its
\* deadline passed and some of them still running: the deferred historyShutdown.
StopRecorder ==
  /\ main = "stopping" /\ shutdown = "no"
  /\ ShutdownBegin
  /\ main' = "recorder"

\* An exit that waits for the recorder however long it takes.
ExitWhenDrained ==
  /\ main = "recorder" /\ shutdown = "drained"
  /\ main' = "exited"
  /\ UNCHANGED vars

\* historyShutdown has returned, in time or late; what is deferred after it does
\* not wait for the recorder.
Exit ==
  /\ main = "recorder" /\ shutdown \in {"drained", "late"}
  /\ main' = "exited"
  /\ UNCHANGED vars

\* The recorder, its submitters and its worker, while the process lives.
Live ==
  /\ main # "exited"
  /\ \/ \E x \in Records : Submitting(x)
     \/ Working
     \/ ShutdownDrained \/ ShutdownDeadline
  /\ UNCHANGED main

MNext == Signal \/ StopRecorder \/ Exit \/ Live

MSpec == MInit /\ [][MNext]_mvars

\* main goes on when it can, deadlines pass, and a submitter that holds the
\* mutex releases it; nothing is assumed of the worker and of the store.
MFairSpec ==
  /\ MSpec
  /\ WF_mvars(StopRecorder) /\ WF_mvars(Exit)
  /\ WF_mvars(Live /\ ShutdownDeadline)
  /\ \A x \in Records : WF_mvars(Live /\ SubmitSend(x))

-----------------------------------------------------------------------------
\* "abandoned shutdown records count as write errors" (docs/configuration.md):
\* when the process has exited, every record the queue had accepted has been
\* reported as written or as a write error.
AbandonedCounted ==
  main = "exited" => \A x \in Records : fate[x] \notin {"queued", "taken"}

\* Every record that the queue accepted is reported as written or as a write
\* error, whatever the store does and whether or not the recorder is being shut
\* down, unless Shutdown ran into its deadline and the process has exited; this
\* if the worker goes on: Store.Write returns because it is given a context
\* with a timeout.
AcceptedIsReported ==
  WF_mvars(Live /\ Working) =>
    \A x \in Records :
      fate[x] = "queued" ~>
        \/ fate[x] \in {"written", "write_error"}
        \/ main = "exited" /\ shutdown = "late"

\* A process told to stop exits, even if the store hangs.
ExitReached == main = "stopping" ~> main = "exited"
=============================================================================
