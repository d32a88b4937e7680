--------------------------- MODULE RuntimeRouting ---------------------------
(***************************************************************************)
(* Routing settings that change while requests run                         *)
(* (internal/gateway/runtime_routing.go): writers replace the current      *)
(* version with an atomic pointer store and no lock, requests pin the      *)
(* version they start with, and every version of the latency policies      *)
(* shares the same exploration counters.                                   *)
(*                                                                         *)
(* A request goes through TraceRequests (which binds the version and will  *)
(* label its metrics with it), then Complete or Stream (which binds it     *)
(* again and begins the history record), then orderedProviders.            *)
(***************************************************************************)
EXTENDS Naturals, FiniteSets

CONSTANTS
  Requests, Writers,
  Nil,              \* no tolerance percentage
  Settings,         \* [policy, interval, percent]: the documents writers send
  Startup,          \* the settings of the environment
  MaxInterval,      \* the largest exploration interval of a document: 1000000
  MaxPercent,       \* the largest tolerance of a document: 1000000
  Modes,            \* requestMode: synchronous and streaming
  MaxDecisions      \* bound: routing decisions of one behaviour

Policies == {"deterministic", "latency", "cost", "cost_latency"}
LatencyAware(policy) == policy \in {"latency", "cost_latency"}

VARIABLES
  current,      \* runtimeRouting.current: [settings, thresholds, rank]
  counts,       \* explorationState.explorationCounts
  writer,       \* each call of UpdateRoutingSettings
  request,      \* each request: where it is, the version in its context
  seen,         \* the versions it has used for anything so far
  unexplored,   \* under-sampled decisions of a mode since one explored
  decisions     \* routing decisions so far

vars == <<current, counts, writer, request, seen, unexplored, decisions>>

\* newRoutingPolicy: rank is false for the deterministic policy only.
\* "startup" stands for MinSamples and SampleMaxAge, which no update carries.
Version(settings, thresholds) ==
  [settings |-> settings, thresholds |-> thresholds, rank |-> settings.policy # "deterministic"]

Unbound == Version([policy |-> "deterministic", interval |-> 0, percent |-> Nil], "none")

\* The checks of newRoutingPolicy; config.Load checks the interval of the
\* environment for every policy, and that it is positive is all it checks.
Routable(settings) ==
  /\ settings.interval \in Nat \ {0}
  /\ settings.policy \in Policies
  /\ settings.policy = "cost_latency" => settings.percent # Nil

\* The checks of UpdateRoutingSettings: a document has limits that the
\* environment does not have.
Valid(settings) ==
  /\ Routable(settings)
  /\ settings.interval <= MaxInterval
  /\ settings.percent # Nil => settings.percent <= MaxPercent

\* The program does not start on settings it cannot route with.
ASSUME RuntimeRoutingAssumption ==
  /\ MaxInterval \in Nat \ {0} /\ MaxPercent \in Nat /\ MaxDecisions \in Nat
  /\ Routable(Startup)

Init ==
  /\ current = Version(Startup, "startup")
  /\ counts = [m \in Modes |-> 0]
  /\ writer = [w \in Writers |-> [pc |-> "idle", sent |-> Startup, loaded |-> Unbound, reply |-> Startup]]
  /\ request = [r \in Requests |-> [pc |-> "new", version |-> Unbound]]
  /\ seen = [r \in Requests |-> {}]
  /\ unexplored = [m \in Modes |-> 0]
  /\ decisions = 0

-----------------------------------------------------------------------------
\* UpdateRoutingSettings up to the load of the current configuration.
BeginUpdate(w, settings) ==
  /\ writer[w].pc = "idle"
  /\ writer' = [writer EXCEPT ![w] =
       IF Valid(settings)
       THEN [pc |-> "loaded", sent |-> settings, loaded |-> current, reply |-> Startup]
       ELSE [pc |-> "rejected", sent |-> settings, loaded |-> Unbound, reply |-> Startup]]
  /\ UNCHANGED <<current, counts, request, seen, unexplored, decisions>>

\* The configuration published: the one loaded, with every field replaced.
Replace(w) == Version(writer[w].sent, writer[w].loaded.thresholds)

\* A publish whose version starts with exploration counters of its own.
PublishFresh(w) ==
  /\ writer[w].pc = "loaded"
  /\ current' = Replace(w)
  /\ writer' = [writer EXCEPT ![w].pc = "published"]
  /\ counts' = [m \in Modes |-> 0]
  /\ UNCHANGED <<request, seen, unexplored, decisions>>

\* publish: the new version shares the counters; one pointer store.
Publish(w) ==
  /\ writer[w].pc = "loaded"
  /\ current' = Replace(w)
  /\ writer' = [writer EXCEPT ![w].pc = "published"]
  /\ UNCHANGED <<counts, request, seen, unexplored, decisions>>

\* The return of UpdateRoutingSettings: the values of this write.
Reply(w) ==
  /\ writer[w].pc = "published"
  /\ writer' = [writer EXCEPT ![w].pc = "accepted", ![w].reply = Replace(w).settings]
  /\ UNCHANGED <<current, counts, request, seen, unexplored, decisions>>

-----------------------------------------------------------------------------
\* requestRouting that ignores the version in the context.
RequestRoutingCurrent(r) == current

\* requestRouting, and BindRouting on a context that may hold a version
RequestRouting(r) == IF request[r].version = Unbound THEN current ELSE request[r].version

Uses(r) == seen' = [seen EXCEPT ![r] = @ \cup {RequestRouting(r)}]

\* BindRouting in TraceRequests, and the label of the span and the metrics.
Bind(r) ==
  /\ request[r].pc = "new"
  /\ request' = [request EXCEPT ![r] = [pc |-> "bound", version |-> current]]
  /\ Uses(r)
  /\ UNCHANGED <<current, counts, writer, unexplored, decisions>>

\* Complete and Stream bind again; beginRequestHistory records the policy.
BeginHistory(r) ==
  /\ request[r].pc = "bound"
  /\ request' = [request EXCEPT ![r].pc = "recorded"]
  /\ Uses(r)
  /\ UNCHANGED <<current, counts, writer, unexplored, decisions>>

\* explorationDue, applied to the counters by a request of the version v.
ExplorationDue(v, m) == counts[m] + 1 >= v.settings.interval

\* orderedProviders; lacking says whether the policy meets an eligible
\* provider without enough samples, the only case that advances a counter.
Route(r, m, lacking) ==
  LET v == RequestRouting(r)
      counted == v.rank /\ LatencyAware(v.settings.policy) /\ lacking
      due == counted /\ ExplorationDue(v, m) IN
  /\ request[r].pc = "recorded"
  /\ decisions < MaxDecisions
  /\ request' = [request EXCEPT ![r].pc = "routed"]
  /\ Uses(r)
  /\ counts' = [counts EXCEPT ![m] = IF due THEN 0 ELSE IF counted THEN @ + 1 ELSE @]
  /\ unexplored' = [unexplored EXCEPT ![m] = IF due THEN 0 ELSE IF counted THEN @ + 1 ELSE @]
  /\ decisions' = decisions + 1
  /\ UNCHANGED <<current, writer>>

\* recordAttemptStart, recordRoutingResult and TraceRequests' last metric;
\* the next request of the same client starts with a new context.
End(r) ==
  /\ request[r].pc = "routed"
  /\ Uses(r)
  /\ request' = [request EXCEPT ![r].pc = "ended"]
  /\ UNCHANGED <<current, counts, writer, unexplored, decisions>>

Again(r) ==
  /\ request[r].pc = "ended"
  /\ request' = [request EXCEPT ![r] = [pc |-> "new", version |-> Unbound]]
  /\ seen' = [seen EXCEPT ![r] = {}]
  /\ UNCHANGED <<current, counts, writer, unexplored, decisions>>

Next ==
  \/ \E w \in Writers : \/ \E s \in Settings : BeginUpdate(w, s)
                        \/ Publish(w)
                        \/ Reply(w)
  \/ \E r \in Requests : \/ Bind(r)
                         \/ BeginHistory(r)
                         \/ \E m \in Modes, lacking \in BOOLEAN : Route(r, m, lacking)
                         \/ End(r)
                         \/ Again(r)

Spec == Init /\ [][Next]_vars

-----------------------------------------------------------------------------
Versions == {Version(s, "startup") : s \in Settings \cup {Startup}}

Writer == [pc : {"idle", "rejected", "loaded", "published", "accepted"},
           sent : Settings \cup {Startup}, loaded : Versions \cup {Unbound},
           reply : Settings \cup {Startup}]
Request == [pc : {"new", "bound", "recorded", "routed", "ended"},
            version : Versions \cup {Unbound}]

TypeOK ==
  /\ current \in Versions
  /\ counts \in [Modes -> Nat]
  /\ unexplored \in [Modes -> Nat]
  /\ decisions \in 0..MaxDecisions
  /\ writer \in [Writers -> Writer]
  /\ request \in [Requests -> Request]
  /\ seen \in [Requests -> SUBSET Versions]

(***************************************************************************)
(* Everything a request does with the routing policy (ordering, the        *)
(* history record, the labels of its metrics and spans) uses one version,  *)
(* whatever is published meanwhile (BindRouting "pins one immutable        *)
(* version across routing, history and HTTP instrumentation"), and the     *)
(* current version is the environment's or exactly one valid document: the *)
(* load and the store of two concurrent updates never blend two documents, *)
(* lose the startup thresholds, or publish settings that the checks of     *)
(* UpdateRoutingSettings refuse.                                           *)
(***************************************************************************)
OneVersionPerRequest ==
  /\ TypeOK
  /\ \A r \in Requests : Cardinality(seen[r]) <= 1
  /\ current.thresholds = "startup"
  /\ \/ current.settings = Startup
     \/ /\ Valid(current.settings)
        /\ \E w \in Writers : /\ writer[w].pc \in {"published", "accepted"}
                              /\ writer[w].sent = current.settings

(***************************************************************************)
(* However often the settings are replaced, and though requests of         *)
(* different versions count with different intervals, fewer under-sampled  *)
(* decisions of a mode than the longest interval pass without one that     *)
(* explores: the counters outlive the versions (publish attaches the       *)
(* shared explorationState), so that warm-up is never starved.  The        *)
(* longest is MaxInterval, unless the environment gave a longer one.       *)
(***************************************************************************)
LongestInterval == IF Startup.interval > MaxInterval THEN Startup.interval ELSE MaxInterval
WarmUpNotStarved == \A m \in Modes : unexplored[m] < LongestInterval
=============================================================================
