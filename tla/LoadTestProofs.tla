--------------------------- MODULE LoadTestProofs ---------------------------
(***************************************************************************)
(* Proofs about LoadTest, for pools of any size, any number of requests    *)
(* and warm-up requests, and a server that may restart.                    *)
(*                                                                         *)
(* The invariant says where each index of the measured phase is, which     *)
(* requests can have reached the server by now, that a read of /metrics    *)
(* that accounts for all of them has read final figures, and how a request *)
(* is served while its client waits for it.                                *)
(***************************************************************************)
EXTENDS LoadTest, TLAPS

Request == [pc : {"none", "received", "looked", "answered", "counted"},
            lookup : {"none", "hit", "miss", "error"}, tried : BOOLEAN,
            write : {"none", "success", "error"}, saved : BOOLEAN]

WorkerStates == [pc : {"loop", "calling", "sending", "exited"}, index : Nat, ok : BOOLEAN]

Measuring == run \in {"measured", "joining", "observing", "reported"}
Measured(n) == <<"measured", n>>

Types ==
  /\ requests \in Nat \ {0} /\ mode \in {"miss", "warm_hit", "disabled"}
  /\ persistence \in BOOLEAN /\ flaky \in BOOLEAN /\ expiry \in BOOLEAN
  /\ run \in {"priming", "warmup", "settling", "measured", "joining", "observing", "reported",
              "failed"}
  /\ worker \in [Workers -> WorkerStates]
  /\ next \in Nat /\ expired \in BOOLEAN /\ closed \in BOOLEAN
  /\ results \in Seq(Nat \X BOOLEAN) /\ samples \in Seq(Nat \X BOOLEAN)
  /\ server \in [Ids -> Request] /\ lost \in SUBSET Ids
  /\ scrape \in [Names -> Int] /\ baseline \in [Names -> Int]

\* Where the indices of the measured phase are: with a worker, or in the results.
Collected == samples \o results
Busy(w) == worker[w].pc \in {"calling", "sending"}

Indices ==
  /\ run = "settling" => results = <<>>
  /\ Measuring =>
       /\ \A i \in DOMAIN Collected : Collected[i][1] < next /\ Collected[i][1] < requests
       /\ \A w \in Workers : Busy(w) => worker[w].index < next /\ worker[w].index < requests
       /\ \A i, j \in DOMAIN Collected : Collected[i][1] = Collected[j][1] => i = j
       /\ \A w, v \in Workers :
            Busy(w) /\ Busy(v) /\ worker[w].index = worker[v].index => w = v
       /\ \A w \in Workers, i \in DOMAIN Collected :
            Busy(w) => Collected[i][1] # worker[w].index
       /\ \A n \in Nat : n < next /\ n < requests =>
            \/ \E w \in Workers : Busy(w) /\ worker[w].index = n
            \/ \E i \in DOMAIN Collected : Collected[i][1] = n
       /\ closed = TRUE => \A w \in Workers : worker[w].pc = "exited"
       /\ run # "measured" => closed = TRUE /\ results = <<>>

\* What the server can have received, and what it has done by when.
Arrivals ==
  /\ run = "priming" => mode = "warm_hit"
  /\ mode # "warm_hit" => server[Prime].pc = "none"
  /\ run = "priming" => \A id \in Ids : id = Prime \/ server[id].pc = "none"
  /\ \A n \in 0..(requests - 1) :
       run # "failed" /\ server[Measured(n)].pc # "none" => Measuring /\ n < next

Sound(q) ==
  /\ q.pc = "none" => q = Fresh
  /\ q.pc = "received" => q.lookup = "none"
  /\ q.pc \in {"received", "looked"} => q.write = "none" /\ q.tried = FALSE /\ q.saved = FALSE
  /\ mode = "disabled" => q.lookup = "none"
  /\ persistence = FALSE => q.saved = FALSE

Progress == \A id \in Ids : Sound(server[id])

\* The requests before the measurement, and those that a read of /metrics is
\* waiting for.
Warm == (IF mode = "warm_hit" THEN {Prime} ELSE {}) \cup ({"warmup"} \X (0..(Warmup - 1)))
Due == IF run = "settling" THEN Warm ELSE Warm \cup Sampled
Have(ids, name) == {id \in ids : Counts(server[id], name)}

Reading ==
  /\ scrape["requests"] = Unread => scrape["ended"] = Unread
  /\ run \in {"priming", "warmup", "measured", "joining"} => scrape["requests"] = Unread
  /\ scrape["requests"] # Unread =>
       /\ scrape["requests"] \in Nat
       /\ scrape["requests"] <= Cardinality(Have(Ids \ lost, "requests"))
  /\ Observing /\ Scraped /\ scrape["requests"] >= Cardinality(Due) =>
       /\ lost \cap Due = {}
       /\ \A id \in Due : server[id].pc = "counted"
       /\ \A name \in Names : scrape[name] \in Nat /\ scrape[name] <= Cardinality(Have(Due, name))
       /\ \A name \in Names \ {"ended"} : scrape[name] = Cardinality(Have(Due, name))

\* The counters after the warm-up, which is over for good.
Baseline ==
  /\ run \in {"priming", "warmup", "settling"} => baseline = Zero
  /\ Measuring =>
       /\ \A id \in Warm : server[id].pc = "counted" /\ (persistence = TRUE => server[id].saved = TRUE)
       /\ \A name \in Names : baseline[name] = Cardinality(Have(Warm, name))

\* How a request is served whose client waits for it, with a cache that works.
Found == IF mode = "warm_hit" THEN "hit" ELSE IF mode = "miss" THEN "miss" ELSE "none"
Served(q, found) ==
  /\ q.pc \in {"answered", "counted"} /\ q.lookup = found /\ q.tried = (found # "hit")
  /\ q.write = IF found = "miss" THEN "success" ELSE "none"
Serving(q, found) ==
  \/ q = Fresh \/ q = [Fresh EXCEPT !.pc = "received"]
  \/ q = [Fresh EXCEPT !.pc = "looked", !.lookup = found]
  \/ Served(q, found)

Clients ==
  /\ \A w \in Workers :
       /\ worker[w].pc = "calling" => Serving(server[Measured(worker[w].index)], Found)
       /\ worker[w].pc = "sending" /\ worker[w].ok = TRUE =>
            Served(server[Measured(worker[w].index)], Found)
  /\ \A i \in DOMAIN Collected :
       Collected[i][2] = TRUE => Served(server[Measured(Collected[i][1])], Found)

Suited == flaky = FALSE /\ CacheSuits

Service == Suited /\ Measuring => Clients

\* What the cache holds when it works and suits the mode: what priming found or
\* stored, and nothing for a measured request that it has not stored itself.
Primed(q) ==
  /\ q.pc = "looked" => q.lookup \in {"hit", "miss"}
  /\ q.pc \in {"answered", "counted"} => q.lookup = "hit" \/ q.write = "success"

Unfilled == \A n \in 0..(requests - 1) : Offset + n \in cache => server[Measured(n)].write # "none"

Stored ==
  Suited =>
    /\ mode = "miss" => Unfilled
    /\ mode = "warm_hit" =>
         /\ server[Prime].lookup = "hit" \/ server[Prime].write = "success" => 0 \in cache
         /\ run = "priming" => Primed(server[Prime])
         /\ run \notin {"priming", "failed"} => 0 \in cache

IInv ==
  /\ Types /\ Indices /\ Arrivals /\ Progress /\ Reading /\ Baseline /\ Service /\ Stored
  /\ ReportExact /\ VerifiedIsTrue

-----------------------------------------------------------------------------
\* The requests there are, by kind: the priming request and those that the
\* workers of the two phases number from 0.
LEMMA IdKinds ==
  ASSUME Types
  PROVE  /\ Prime \in Ids /\ \A n \in 0..(requests - 1) : Measured(n) \in Ids
         /\ \A n \in 0..(Warmup - 1) : <<"warmup", n>> \in Ids
         /\ \A id \in Ids : \/ id = Prime
                            \/ \E n \in 0..(Warmup - 1) : id = <<"warmup", n>>
                            \/ \E n \in 0..(requests - 1) : id = Measured(n)
<1>1. Total("warmup") = Warmup /\ Total("measured") = requests
  BY DEF Total
<1>2. Ids = {Prime} \cup ({"warmup"} \X (0..(Warmup - 1)))
                    \cup ({"measured"} \X (0..(requests - 1)))
  BY <1>1 DEF Ids, Phases
<1>. QED
  BY <1>2 DEF Measured

-----------------------------------------------------------------------------
\* What every step of the server does to the request that takes it.
Finds(id) == IF mode = "disabled" THEN "none" ELSE IF Key(id) \in cache THEN "hit" ELSE "miss"

Later(q, to) ==
  /\ to \in Request /\ Sound(to) /\ to.pc # "none"
  /\ q.pc = "counted" =>
       to.pc = "counted" /\ to.lookup = q.lookup /\ to.tried = q.tried /\ to.write = q.write
  /\ q.saved = TRUE => to.saved = TRUE
  /\ q.write # "none" => to.write # "none"
  /\ \A found \in {"hit", "miss", "none"} : Served(q, found) => Served(to, found)

Keeps(id, to) ==
  /\ cache' = cache \/ (cache' = cache \cup {Key(id)} /\ to.write # "none")
  /\ to.write = "success" => server[id].write = "success" \/ Key(id) \in cache'
  /\ to.lookup = "hit" => server[id].lookup = "hit" \/ Key(id) \in cache'

Advance(id, to) ==
  /\ id \notin lost /\ server' = [server EXCEPT ![id] = to]
  /\ Later(server[id], to)
  /\ server[id].pc = "none" => Calling(id)
  /\ flaky = FALSE /\ Calling(id) /\ Serving(server[id], Finds(id)) => Serving(to, Finds(id))
  /\ flaky = FALSE /\ Calling(id) /\ mode # "disabled" /\ Primed(server[id]) => Primed(to)
  /\ Keeps(id, to)
  /\ UNCHANGED <<setup, run, clientVars, lost, observation>>

\* How far a request is that is being served.
LEMMA ServingStage ==
  ASSUME NEW q, NEW found, Serving(q, found)
  PROVE  /\ q.pc = "looked" => q.lookup = found
         /\ q.pc \in {"answered", "counted"} => Served(q, found)
         /\ Served(q, found) \/ q.write = "none"
<1>1. /\ Fresh.pc = "none" /\ [Fresh EXCEPT !.pc = "received"].pc = "received"
      /\ [Fresh EXCEPT !.pc = "looked", !.lookup = found].pc = "looked"
      /\ [Fresh EXCEPT !.pc = "looked", !.lookup = found].lookup = found
      /\ Fresh.write = "none" /\ [Fresh EXCEPT !.pc = "received"].write = "none"
      /\ [Fresh EXCEPT !.pc = "looked", !.lookup = found].write = "none"
  BY DEF Fresh
<1>2. Served(q, found) => q.pc \in {"answered", "counted"}
  BY DEF Served
<1>. QED
  BY <1>1, <1>2, Zenon DEF Serving

\* A request that arrives.
LEMMA ArriveAdvances ==
  ASSUME Types, Progress, NEW id \in Ids, Arrive(id)
  PROVE  \E to \in Request : Advance(id, to)
<1>. DEFINE q == server[id]
            to == [q EXCEPT !.pc = "received"]
<1>1. q \in Request /\ Sound(q)
  BY DEF Types, Progress
<1>2. q.pc = "none" /\ q = Fresh /\ to = [Fresh EXCEPT !.pc = "received"]
  BY <1>1 DEF Arrive, ServerStep, Sound
<1>3. Later(q, to)
  BY <1>1, <1>2, Zenon DEF Later, Sound, Request, Served, Fresh
<1>4. Serving(to, Finds(id))
  BY <1>2 DEF Serving
<1>5. Primed(to) /\ Keeps(id, to)
  BY <1>2, Zenon DEF Arrive, Primed, Keeps, Fresh
<1>. QED
  BY <1>3, <1>4, <1>5, Zenon DEF Arrive, ServerStep, Advance, Later

\* The cache lookup: while the client waits and the cache works, it finds what
\* there is.
LEMMA LookupAdvances ==
  ASSUME Types, Progress, NEW id \in Ids, Lookup(id)
  PROVE  \E to \in Request : Advance(id, to)
<1>. DEFINE q == server[id]
<1>1. q \in Request /\ Sound(q) /\ q.pc = "received"
  BY DEF Types, Progress, Lookup, ServerStep
<1>2. PICK lookup \in {"none", "hit", "miss", "error"} :
        /\ ServerStep(id, "received", [q EXCEPT !.pc = "looked", !.lookup = lookup])
        /\ mode = "disabled" => lookup = "none"
        /\ ~CacheFails(id) => lookup = Finds(id)
        /\ lookup = "hit" => Key(id) \in cache
  BY Zenon DEF Lookup, Finds
<1>. DEFINE to == [q EXCEPT !.pc = "looked", !.lookup = lookup]
<1>3. Later(q, to)
  BY <1>1, <1>2, Zenon DEF Later, Sound, Request, Served
<1>4. ASSUME Serving(q, Finds(id)), lookup = Finds(id)
      PROVE  Serving(to, Finds(id))
  <2>1. q = [Fresh EXCEPT !.pc = "received"]
    BY <1>1, <1>4, Zenon DEF Serving, Served, Fresh
  <2>2. to = [Fresh EXCEPT !.pc = "looked", !.lookup = Finds(id)]
    BY <1>4, <2>1, Zenon DEF Fresh
  <2>. QED
    BY <2>2 DEF Serving
<1>5. cache' = cache /\ to.lookup = lookup /\ to.pc = "looked" /\ to.write = q.write
  BY <1>1 DEF Lookup, Request
<1>6. Keeps(id, to)
  BY <1>2, <1>5, Zenon DEF Keeps
<1>7. lookup = Finds(id) /\ mode # "disabled" => Primed(to)
  BY <1>5 DEF Primed, Finds
<1>. QED
  BY <1>1, <1>2, <1>3, <1>4, <1>6, <1>7, Zenon DEF ServerStep, Advance, Later, CacheFails, Types

\* The attempt and the write into the cache.
LEMMA WorkAdvances ==
  ASSUME Types, Progress, NEW id \in Ids, Work(id)
  PROVE  \E to \in Request : Advance(id, to)
<1>. DEFINE q == server[id]
<1>1. q \in Request /\ Sound(q) /\ q.pc = "looked"
  BY DEF Types, Progress, Work, ServerStep
<1>2. PICK write \in {"none", "success", "error"} :
        /\ ServerStep(id, "looked", [q EXCEPT !.pc = "answered", !.tried = q.lookup # "hit",
                                              !.write = write])
        /\ ~CacheFails(id) => write = IF q.lookup \in {"hit", "none"} THEN "none" ELSE "success"
        /\ cache' = cache \/ (cache' = cache \cup {Key(id)} /\ write # "none")
        /\ write = "success" => cache' = cache \cup {Key(id)}
  BY Zenon DEF Work
<1>. DEFINE to == [q EXCEPT !.pc = "answered", !.tried = q.lookup # "hit", !.write = write]
<1>3. Later(q, to)
  BY <1>1, <1>2, Zenon DEF Later, Sound, Request, Served
<1>4. ASSUME Serving(q, Finds(id)),
             write = IF q.lookup \in {"hit", "none"} THEN "none" ELSE "success"
      PROVE  Serving(to, Finds(id))
  <2>1. q.lookup = Finds(id)
    BY <1>1, <1>4, ServingStage
  <2>2. Finds(id) \in {"hit", "miss", "none"}
    BY DEF Finds
  <2>3. Served(to, Finds(id))
    BY <1>1, <1>4, <2>1, <2>2 DEF Served, Request
  <2>. QED
    BY <2>3 DEF Serving
<1>5. to.lookup = q.lookup /\ to.pc = "answered" /\ to.write = write
  BY <1>1 DEF Request
<1>6. Keeps(id, to)
  BY <1>2, <1>5 DEF Keeps
<1>7. Primed(q) /\ write = (IF q.lookup \in {"hit", "none"} THEN "none" ELSE "success") => Primed(to)
  BY <1>1, <1>5 DEF Primed
<1>. QED
  BY <1>1, <1>2, <1>3, <1>4, <1>6, <1>7, Zenon DEF ServerStep, Advance, Later, CacheFails, Types

\* A handler that ends early does so for a client that has gone.
LEMMA AbandonAdvances ==
  ASSUME Types, Progress, NEW id \in Ids, Abandon(id)
  PROVE  \E to \in Request : Advance(id, to)
<1>. DEFINE q == server[id]
<1>1. PICK from \in {"received", "looked"}, tried \in BOOLEAN :
        ServerStep(id, from, [q EXCEPT !.pc = "answered", !.tried = tried])
  BY Zenon DEF Abandon
<1>. DEFINE to == [q EXCEPT !.pc = "answered", !.tried = tried]
<1>2. q \in Request /\ Sound(q) /\ q.pc \in {"received", "looked"} /\ ~Calling(id)
  BY <1>1 DEF Types, Progress, ServerStep, Abandon
<1>3. Later(q, to)
  BY <1>2, Zenon DEF Later, Sound, Request, Served
<1>4. cache' = cache /\ to.lookup = q.lookup /\ to.write = q.write
  BY <1>2 DEF Abandon, Request
<1>5. Keeps(id, to)
  BY <1>4, Zenon DEF Keeps
<1>. QED
  BY <1>1, <1>2, <1>3, <1>5, Zenon DEF ServerStep, Advance, Later

\* The request is counted, or its history record is done with: neither changes
\* how it was served.
LEMMA EndAdvances ==
  ASSUME Types, Progress, NEW id \in Ids, CountRequest(id) \/ SaveHistory(id)
  PROVE  \E to \in Request : Advance(id, to)
<1>. DEFINE q == server[id]
<1>1. q \in Request /\ Sound(q) /\ q.pc \in {"answered", "counted"}
  BY DEF Types, Progress, CountRequest, SaveHistory, ServerStep
<1>2. ASSUME NEW to \in Request, to.lookup = q.lookup, to.tried = q.tried, to.write = q.write,
             to.pc \in {"answered", "counted"}, q.pc = "counted" => to.pc = "counted",
             q.saved = TRUE => to.saved = TRUE, persistence = FALSE => to.saved = FALSE
      PROVE  /\ Later(q, to) /\ Keeps(id, to) /\ (Primed(q) => Primed(to))
             /\ Serving(q, Finds(id)) => Serving(to, Finds(id))
  <2>1. Later(q, to)
    BY <1>1, <1>2 DEF Later, Sound, Served
  <2>2. Serving(q, Finds(id)) => Served(q, Finds(id))
    BY <1>1, ServingStage
  <2>3. Serving(q, Finds(id)) => Serving(to, Finds(id))
    BY <1>1, <1>2, <2>2 DEF Serving, Served
  <2>4. cache' = cache
    BY DEF CountRequest, SaveHistory
  <2>5. Keeps(id, to) /\ (Primed(q) => Primed(to))
    BY <1>1, <1>2, <2>4, Zenon DEF Keeps, Primed
  <2>. QED
    BY <2>1, <2>3, <2>5
<1>3. CASE CountRequest(id)
  <2>. DEFINE to == [q EXCEPT !.pc = "counted"]
  <2>1. to \in Request /\ to.lookup = q.lookup /\ to.tried = q.tried /\ to.write = q.write
        /\ to.saved = q.saved /\ to.pc = "counted"
    BY <1>1 DEF Request
  <2>2. /\ Later(q, to) /\ Keeps(id, to) /\ (Primed(q) => Primed(to))
        /\ Serving(q, Finds(id)) => Serving(to, Finds(id))
    BY <1>1, <1>2, <2>1, Zenon DEF Sound
  <2>. QED
    BY <1>1, <1>3, <2>1, <2>2, Zenon DEF CountRequest, ServerStep, Advance
<1>4. CASE SaveHistory(id)
  <2>. DEFINE to == [q EXCEPT !.saved = TRUE]
  <2>1. to \in Request /\ to.lookup = q.lookup /\ to.tried = q.tried /\ to.write = q.write
        /\ to.saved = TRUE /\ to.pc = q.pc
    BY <1>1, Zenon DEF Request
  <2>2. /\ Later(q, to) /\ Keeps(id, to) /\ (Primed(q) => Primed(to))
        /\ Serving(q, Finds(id)) => Serving(to, Finds(id))
    BY <1>1, <1>2, <1>4, <2>1, Zenon DEF SaveHistory
  <2>. QED
    BY <1>1, <1>4, <2>1, <2>2, Zenon DEF SaveHistory, ServerStep, Advance
<1>. QED
  BY <1>3, <1>4

\* Every step of the server is a restart or takes one request further.
LEMMA ServerAdvances ==
  ASSUME Types, Progress, Server
  PROVE  ~Returned /\ (EntryExpires \/ Restart \/ \E id \in Ids, to \in Request : Advance(id, to))
<1>1. ASSUME NEW id \in Ids, \/ Arrive(id) \/ Lookup(id) \/ Work(id) \/ Abandon(id)
                             \/ CountRequest(id) \/ SaveHistory(id)
      PROVE  \E to \in Request : Advance(id, to)
  BY <1>1, ArriveAdvances, LookupAdvances, WorkAdvances, AbandonAdvances, EndAdvances
<1>. QED
  BY <1>1 DEF Server

-----------------------------------------------------------------------------
\* What phase has collected, and what it will have when the channel is empty.
LEMMA CollectedSeq ==
  ASSUME Types
  PROVE  /\ Collected \in Seq(Nat \X BOOLEAN)
         /\ \A i \in DOMAIN Collected : Collected[i][1] \in Nat /\ Collected[i][2] \in BOOLEAN
         /\ results = <<>> => Collected = samples
         /\ DOMAIN samples = 1..Taken /\ Taken \in Nat
         /\ \A i \in DOMAIN samples : samples[i][1] \in Nat /\ samples[i][2] \in BOOLEAN
<1>1. samples \in Seq(Nat \X BOOLEAN) /\ results \in Seq(Nat \X BOOLEAN)
  BY DEF Types
<1>2. Collected \in Seq(Nat \X BOOLEAN)
  BY <1>1 DEF Collected
<1>3. ASSUME NEW s \in Seq(Nat \X BOOLEAN), NEW i \in DOMAIN s
      PROVE  s[i][1] \in Nat /\ s[i][2] \in BOOLEAN
  <2>1. s[i] \in Nat \X BOOLEAN
    BY <1>3
  <2>. QED
    BY <2>1
<1>4. results = <<>> => Collected = samples
  BY <1>1 DEF Collected
<1>. QED
  BY <1>1, <1>2, <1>3, <1>4 DEF Taken

\* The measured phase is over: the indices of the samples are distinct, and are
\* those that were taken and are within the test.
LEMMA SamplesComplete ==
  ASSUME Types, Indices, run \in {"joining", "observing", "reported"}
  PROVE  /\ \A i \in 1..Taken : samples[i][1] < next /\ samples[i][1] < requests
         /\ \A i, j \in 1..Taken : samples[i][1] = samples[j][1] => i = j
         /\ \A n \in Nat : n < next /\ n < requests => \E i \in 1..Taken : samples[i][1] = n
<1>1. Measuring /\ results = <<>> /\ \A w \in Workers : worker[w].pc = "exited"
  BY DEF Indices, Measuring
<1>2. Collected = samples /\ DOMAIN samples = 1..Taken
  BY <1>1, CollectedSeq
<1>3. \A w \in Workers : ~Busy(w)
  BY <1>1 DEF Busy
<1>. QED
  BY <1>1, <1>2, <1>3 DEF Indices

\* Nothing is counted of a request that has not arrived.
LEMMA CountsNothing == ASSUME NEW name \in Names PROVE ~Counts(Fresh, name)
BY Zenon DEF Counts, Fresh, Names

\* A request that has been counted is counted the same ever after, but for its
\* history record.
LEMMA CountsFrozen ==
  ASSUME NEW q \in Request, NEW to, q.pc = "counted", to = q \/ Later(q, to),
         NEW name \in Names
  PROVE  /\ to.pc = "counted"
         /\ name # "ended" => Counts(to, name) = Counts(q, name)
         /\ Counts(q, name) => Counts(to, name)
         /\ persistence = FALSE \/ q.saved = TRUE => Counts(to, name) = Counts(q, name)
<1>1. CASE to = q
  BY <1>1
<1>2. CASE Later(q, to)
  <2>1. /\ to.pc = "counted" /\ to.lookup = q.lookup /\ to.tried = q.tried /\ to.write = q.write
        /\ (q.saved = TRUE => to.saved = TRUE) /\ q.saved \in BOOLEAN /\ to.saved \in BOOLEAN
        /\ (persistence = FALSE => to.saved = FALSE)
    BY <1>2 DEF Later, Request, Sound
  <2>2. CASE name # "ended"
    BY <2>1, <2>2, Zenon DEF Counts, Names
  <2>3. CASE name = "ended"
    <3>1. Counts(to, name) = to.saved /\ Counts(q, name) = q.saved
      BY <2>3 DEF Counts
    <3>. QED
      BY <2>1, <2>3, <3>1
  <2>. QED
    BY <2>2, <2>3, Zenon
<1>. QED
  BY <1>1, <1>2, Zenon

-----------------------------------------------------------------------------
\* The lookup of a measured request: priming has filled the cache for it, or
\* no other request has its key.
LEMMA FindsFound ==
  ASSUME Types, Stored, Suited, Measuring, NEW n \in 0..(requests - 1),
         server[Measured(n)].write = "none"
  PROVE  Finds(Measured(n)) = Found
<1>1. CASE mode = "warm_hit"
  <2>1. 0 \in cache /\ Key(Measured(n)) = 0
    BY <1>1 DEF Stored, Measuring, Key
  <2>. QED
    BY <1>1, <2>1 DEF Finds, Found
<1>2. CASE mode = "miss"
  <2>1. Offset + n \notin cache
    BY <1>2 DEF Stored, Unfilled
  <2>2. Key(Measured(n)) = Offset + n
    BY <1>2 DEF Key, Measured
  <2>. QED
    BY <1>2, <2>1, <2>2 DEF Finds, Found
<1>3. CASE mode = "disabled"
  BY <1>3 DEF Finds, Found
<1>. QED
  BY <1>1, <1>2, <1>3 DEF Types

\* Whether the cache suits the mode is settled before the test.
LEMMA SuitedStays ==
  ASSUME UNCHANGED setup
  PROVE  /\ Suited' = Suited /\ CacheSuits' = CacheSuits
         /\ UNCHANGED <<requests, mode, flaky, leftover, expiry>> /\ Ids' = Ids
<1>1. UNCHANGED <<requests, mode, flaky, leftover, expiry>>
  BY DEF setup
<1>2. Ids' = Ids /\ \A id \in Ids : Key(id)' = Key(id)
  BY <1>1 DEF Ids, Total, Key, Prime
<1>3. CacheSuits' = CacheSuits
  BY <1>1, <1>2 DEF CacheSuits
<1>4. Suited' = Suited
  BY <1>1, <1>3, Zenon DEF Suited
<1>. QED
  BY <1>1, <1>2, <1>3, <1>4

\* What the cache holds stays true of the same cache once priming is over.
LEMMA StoredStays ==
  ASSUME Stored, UNCHANGED <<setup, server, cache>>,
         run' = run \/ run' = "failed" \/ (run \notin {"priming", "failed"} /\ run' # "priming")
  PROVE  Stored'
<1>1. Suited' = Suited /\ UNCHANGED <<requests, mode, server, cache>>
  BY SuitedStays
<1>2. Unfilled' = Unfilled /\ Prime' = Prime /\ Primed(server[Prime])' = Primed(server[Prime])
  BY <1>1 DEF Unfilled, Prime, Primed, Measured
<1>. QED
  BY <1>1, <1>2, Zenon DEF Stored

\* Which requests have the key of a measured one, without a common key.
LEMMA KeysApart ==
  ASSUME Types, mode = "miss", NEW id \in Ids, NEW n \in 0..(requests - 1), Key(id) = Offset + n
  PROVE  id = Measured(n)
<1>1. Warmup \in Nat \ {0} /\ Offset \in Nat /\ Warmup < Offset
  BY LoadAssumption
<1>2. CASE id = Prime
  <2>1. Key(id) = 0
    BY <1>2 DEF Key, Prime
  <2>. QED
    BY <1>1, <2>1
<1>3. ASSUME NEW k \in 0..(Warmup - 1), id = <<"warmup", k>>
      PROVE  FALSE
  <2>1. Key(id) = k
    BY <1>3 DEF Key
  <2>. QED
    BY <1>1, <2>1
<1>4. ASSUME NEW k \in 0..(requests - 1), id = Measured(k)
      PROVE  id = Measured(n)
  <2>1. Key(id) = Offset + k
    BY <1>4 DEF Key, Measured
  <2>2. k = n
    BY <1>1, <2>1
  <2>. QED
    BY <1>4, <2>2
<1>. QED
  BY <1>2, <1>3, <1>4, IdKinds

\* Which requests can arrive: the client is waiting for them.
LEMMA CallingWhom ==
  ASSUME Types, Indices, NEW id \in Ids, Calling(id)
  PROVE  /\ id = Prime => run = "priming"
         /\ run = "priming" => id = Prime
         /\ \A n \in 0..(requests - 1) : id = Measured(n) => run = "measured" /\ n < next
<1>1. id = Prime => run = "priming"
  BY DEF Calling, Prime, Types
<1>2. run = "priming" => id = Prime
  BY IdKinds DEF Calling, Measured
<1>3. ASSUME NEW n \in 0..(requests - 1), id = Measured(n)
      PROVE  run = "measured" /\ n < next
  <2>1. id[1] = "measured" /\ id[2] = n /\ id # Prime
    BY <1>3 DEF Measured, Prime
  <2>2. run = "measured" /\ \E w \in Workers : worker[w].pc = "calling" /\ worker[w].index = n
    BY <2>1 DEF Calling
  <2>. QED
    BY <2>2 DEF Indices, Measuring, Busy
<1>. QED
  BY <1>1, <1>2, <1>3

\* A step of a request keeps what is said of clients, arrivals and progress.
LEMMA AdvanceArrivals ==
  ASSUME Types, Indices, Arrivals, Progress, NEW id \in Ids, NEW to \in Request, Advance(id, to)
  PROVE  Types' /\ Indices' /\ Arrivals' /\ Progress'
<1>1. /\ UNCHANGED <<requests, mode, persistence, flaky, expiry, run, worker, next, expired, results,
                     closed, samples, lost, scrape, baseline, report>>
  BY DEF Advance, setup, clientVars, observation
<1>2. Ids' = Ids /\ Prime' = Prime
  BY <1>1 DEF Ids, Total, Prime
<1>3. server' = [server EXCEPT ![id] = to] /\ to.pc # "none" /\ Sound(to)
  BY DEF Advance, Later
<1>4. Types'
  BY <1>1, <1>2, <1>3 DEF Types, Workers
<1>5. Indices'
  BY <1>1 DEF Indices, Measuring, Collected, Busy, Workers
<1>6. \A x \in Ids : server'[x] = IF x = id THEN to ELSE server[x]
  BY <1>3 DEF Types
<1>7. Arrivals'
  <2>1. (mode # "warm_hit" => server[Prime].pc = "none")'
    <3>1. mode # "warm_hit" => server[Prime].pc = "none" /\ run # "priming"
      BY DEF Arrivals
    <3>2. mode # "warm_hit" => id # Prime
      BY <3>1, CallingWhom DEF Advance
    <3>. QED
      BY <1>1, <1>6, <3>1, <3>2, IdKinds DEF Prime
  <2>2. (run = "priming" => \A x \in Ids : x = Prime \/ server[x].pc = "none")'
    <3>1. run = "priming" => id = Prime
      BY CallingWhom DEF Advance, Arrivals
    <3>. QED
      BY <1>1, <1>2, <1>6, <3>1 DEF Arrivals
  <2>3. ASSUME NEW n \in 0..(requests - 1), run # "failed", server'[Measured(n)].pc # "none"
        PROVE  Measuring /\ n < next
    <3>1. Measured(n) \in Ids
      BY IdKinds
    <3>2. CASE id = Measured(n) /\ server[id].pc = "none"
      BY <3>2, CallingWhom DEF Advance, Measuring
    <3>3. CASE server[Measured(n)].pc # "none"
      BY <2>3, <3>3 DEF Arrivals
    <3>. QED
      BY <1>6, <2>3, <3>1, <3>2, <3>3
  <2>4. (run = "priming" => mode = "warm_hit")'
    BY <1>1 DEF Arrivals
  <2>. QED
    BY <1>1, <2>1, <2>2, <2>3, <2>4 DEF Arrivals, Measuring, Measured
<1>8. Progress'
  BY <1>1, <1>2, <1>3, <1>6 DEF Progress, Sound
<1>. QED
  BY <1>4, <1>5, <1>7, <1>8

\* A step of a request keeps what the cache holds: only a request that stores
\* its response puts its key there, and the priming one does unless it is there.
LEMMA AdvanceStored ==
  ASSUME Types, Indices, Arrivals, Progress, Stored,
         NEW id \in Ids, NEW to \in Request, Advance(id, to)
  PROVE  Stored'
<1>1. UNCHANGED <<setup, run>> /\ Keeps(id, to) /\ Later(server[id], to)
  BY DEF Advance
<1>2. Suited' = Suited /\ UNCHANGED <<requests, mode, flaky>>
  BY <1>1, SuitedStays
<1>3. \A x \in Ids : server[x] \in Request /\ server'[x] = IF x = id THEN to ELSE server[x]
  BY DEF Advance, Types
<1>4. Prime \in Ids /\ \A n \in 0..(requests - 1) : Measured(n) \in Ids
  BY IdKinds
<1>5. ASSUME Suited, mode = "miss", NEW n \in 0..(requests - 1), Offset + n \in cache'
      PROVE  server'[Measured(n)].write # "none"
  <2>1. CASE Offset + n \in cache
    <3>1. server[Measured(n)].write # "none"
      BY <1>5, <2>1 DEF Stored, Unfilled
    <3>. QED
      BY <1>1, <1>3, <1>4, <3>1 DEF Later
  <2>2. CASE Offset + n \notin cache
    <3>1. Key(id) = Offset + n /\ to.write # "none"
      BY <1>1, <1>5, <2>2 DEF Keeps
    <3>2. id = Measured(n)
      BY <1>5, <3>1, KeysApart
    <3>. QED
      BY <1>3, <3>1, <3>2
  <2>. QED
    BY <2>1, <2>2
<1>6. ASSUME Suited, mode = "warm_hit"
      PROVE  /\ server'[Prime].lookup = "hit" \/ server'[Prime].write = "success" => 0 \in cache'
             /\ run = "priming" => Primed(server'[Prime])
             /\ run \notin {"priming", "failed"} => 0 \in cache'
  <2>1. /\ server[Prime].lookup = "hit" \/ server[Prime].write = "success" => 0 \in cache
        /\ run = "priming" => Primed(server[Prime])
        /\ run \notin {"priming", "failed"} => 0 \in cache
    BY <1>6 DEF Stored
  <2>2. 0 \in cache => 0 \in cache'
    BY <1>1 DEF Keeps
  <2>3. CASE id # Prime
    BY <1>3, <1>4, <2>1, <2>2, <2>3
  <2>4. CASE id = Prime
    <3>1. Key(id) = 0 /\ server'[Prime] = to
      BY <1>3, <1>4, <1>6, <2>4 DEF Key
    <3>2. to.lookup = "hit" \/ to.write = "success" => 0 \in cache'
      BY <1>1, <2>1, <2>2, <2>4, <3>1 DEF Keeps
    <3>3. run = "priming" => Primed(to)
      <4>1. run = "priming" => Calling(id)
        BY <2>4 DEF Calling
      <4>. QED
        BY <1>6, <2>1, <2>4, <4>1 DEF Advance, Suited
    <3>. QED
      BY <2>1, <2>2, <3>1, <3>2, <3>3
  <2>. QED
    BY <2>3, <2>4
<1>7. Suited /\ mode = "miss" => Unfilled'
  BY <1>2, <1>5, Zenon DEF Unfilled, Measured
<1>. QED
  BY <1>1, <1>2, <1>6, <1>7, Zenon DEF Stored, Primed, Prime

\* A step of a request keeps how it is served.
LEMMA AdvanceService ==
  ASSUME Types, Indices, Arrivals, Progress, Service, Stored,
         NEW id \in Ids, NEW to \in Request, Advance(id, to)
  PROVE  Service'
<1>1. UNCHANGED <<requests, mode, flaky, run, worker, samples, results>> /\ Suited' = Suited
  BY SuitedStays DEF Advance, setup, clientVars
<1>2. /\ Found' = Found /\ Workers' = Workers /\ Collected' = Collected /\ Measuring' = Measuring
  BY <1>1 DEF Found, Workers, Collected, Measuring
<1>3. /\ \A x \in Ids : server[x] \in Request /\ server'[x] = IF x = id THEN to ELSE server[x]
      /\ Later(server[id], to)
  BY DEF Advance, Types
<1>4. \A x \in Ids, found \in {"hit", "miss", "none"} :
        Served(server[x], found) => Served(server'[x], found)
  BY <1>3 DEF Later
<1>5. Found \in {"hit", "miss", "none"}
  BY DEF Found
<1>. SUFFICES ASSUME Suited
              PROVE  Service'
  BY <1>1, Zenon DEF Service
<1>6. Prime \in Ids /\ \A n \in 0..(requests - 1) : Measured(n) \in Ids
  BY IdKinds
<1>9. ASSUME Measuring, NEW w \in Workers, worker[w].pc = "calling"
      PROVE  Serving(server'[Measured(worker[w].index)], Found)
  <2>. DEFINE n == worker[w].index
              x == Measured(n)
  <2>1. n \in 0..(requests - 1) /\ run = "measured"
    <3>1. n \in Nat /\ requests \in Nat
      BY DEF Types, WorkerStates
    <3>2. n < requests
      BY <1>9 DEF Indices, Busy
    <3>3. run = "measured"
      BY <1>9 DEF Indices
    <3>. QED
      BY <3>1, <3>2, <3>3
  <2>2. x \in Ids /\ Serving(server[x], Found)
    BY <1>6, <1>9, <2>1 DEF Service, Clients
  <2>3. CASE Served(server[x], Found)
    BY <1>4, <1>5, <2>2, <2>3 DEF Serving
  <2>4. CASE id # x
    BY <1>3, <2>2, <2>4
  <2>5. CASE id = x /\ ~Served(server[x], Found)
    <3>1. server[x].write = "none"
      BY <2>2, <2>5, ServingStage
    <3>2. Finds(x) = Found
      BY <1>9, <2>1, <3>1, FindsFound, Zenon
    <3>3. Calling(x)
      BY <1>9, <2>1 DEF Calling, Measured
    <3>. QED
      BY <1>3, <2>2, <2>5, <3>2, <3>3 DEF Advance, Suited
  <2>. QED
    BY <2>3, <2>4, <2>5
<1>10. ASSUME Measuring, NEW w \in Workers, worker[w].pc = "sending", worker[w].ok = TRUE
       PROVE  Served(server'[Measured(worker[w].index)], Found)
  <2>1. worker[w].index \in Nat /\ requests \in Nat /\ worker[w].index < requests
    BY <1>10 DEF Types, WorkerStates, Indices, Busy
  <2>2. Measured(worker[w].index) \in Ids
    BY <1>6, <2>1
  <2>. QED
    BY <1>4, <1>5, <1>10, <2>2 DEF Service, Clients
<1>11. ASSUME Measuring, NEW i \in DOMAIN Collected, Collected[i][2] = TRUE
       PROVE  Served(server'[Measured(Collected[i][1])], Found)
  <2>1. Collected[i][1] \in Nat /\ requests \in Nat /\ Collected[i][1] < requests
    BY <1>11, CollectedSeq DEF Types, Indices
  <2>2. Measured(Collected[i][1]) \in Ids
    BY <1>6, <2>1
  <2>. QED
    BY <1>4, <1>5, <1>11, <2>2 DEF Service, Clients
<1>12. ASSUME Measuring
       PROVE  Clients'
  <2>1. (\A w \in Workers :
           /\ worker[w].pc = "calling" => Serving(server[Measured(worker[w].index)], Found)
           /\ worker[w].pc = "sending" /\ worker[w].ok = TRUE =>
                Served(server[Measured(worker[w].index)], Found))'
    BY <1>1, <1>2, <1>9, <1>10, <1>12, Zenon DEF Measured, Serving, Served, Fresh
  <2>2. (\A i \in DOMAIN Collected :
           Collected[i][2] = TRUE => Served(server[Measured(Collected[i][1])], Found))'
    BY <1>1, <1>2, <1>11, <1>12, Zenon DEF Measured, Served
  <2>. QED
    BY <2>1, <2>2 DEF Clients
<1>. QED
  BY <1>2, <1>12, Zenon DEF Service

-----------------------------------------------------------------------------
\* The steps of a phase: only the pool and what it has collected change, so it
\* is enough to look at the indices and at the requests that clients wait for.
LEMMA PhaseFrame ==
  ASSUME IInv, InPhase, UNCHANGED <<setup, run, serverVars, observation>>,
         Types', Indices', next' >= next, run = "measured" /\ Suited => Clients'
  PROVE  IInv'
<1>1. /\ UNCHANGED <<requests, mode, persistence, flaky, leftover, expiry, run, server, cache, lost, scrape, baseline>>
      /\ run \in {"warmup", "measured"}
  BY DEF setup, serverVars, observation, InPhase, Phases
<1>2. Ids' = Ids /\ Warm' = Warm /\ Scraped' = Scraped
  BY <1>1 DEF Ids, Total, Warm, Scraped
<1>3. Arrivals'
  <2>1. next \in Nat /\ next' \in Nat /\ requests \in Nat
    BY DEF IInv, Types
  <2>2. ASSUME NEW n \in 0..(requests - 1), server[Measured(n)].pc # "none"
        PROVE  Measuring /\ n < next'
    <3>1. Measuring /\ n < next
      BY <1>1, <2>2 DEF IInv, Arrivals
    <3>. QED
      BY <2>1, <3>1
  <2>. QED
    BY <1>1, <1>2, <2>2 DEF IInv, Arrivals, Measuring, Measured, Prime
<1>4. Progress'
  BY <1>1, <1>2 DEF IInv, Progress, Sound
<1>5. Reading'
  BY <1>1, <1>2 DEF IInv, Reading, Observing, Unread, Have
<1>6. Baseline'
  BY <1>1, <1>2 DEF IInv, Baseline, Measuring, Have, Zero
<1>7. Service' /\ Stored'
  <2>1. Suited' = Suited
    BY SuitedStays
  <2>2. Service'
    BY <1>1, <2>1 DEF IInv, Service, Measuring
  <2>3. Stored'
    BY <1>1, StoredStays DEF IInv
  <2>. QED
    BY <2>2, <2>3
<1>8. ReportExact' /\ VerifiedIsTrue'
  BY <1>1 DEF ReportExact, VerifiedIsTrue
<1>. QED
  BY <1>3, <1>4, <1>5, <1>6, <1>7, <1>8 DEF IInv

\* A worker that stops has no index, and one that goes on has a new one.
LEMMA TakeKeeps ==
  ASSUME IInv, NEW w \in Workers, Take(w)
  PROVE  IInv'
<1>1. /\ Types /\ Indices /\ InPhase /\ UNCHANGED <<setup, run, serverVars, observation>>
      /\ UNCHANGED <<requests, mode, persistence, flaky, leftover, expiry, server, cache, lost, scrape, baseline, expired,
                     results, closed, samples>>
      /\ worker[w].pc = "loop"
  BY DEF IInv, Take, setup, serverVars, observation
<1>2. next \in Nat /\ requests \in Nat \ {0} /\ expired \in BOOLEAN /\ worker \in [Workers -> WorkerStates]
  BY <1>1 DEF Types
<1>3. next' \in {next, next + 1}
  BY <1>2 DEF Take
<1>4. next' \in Nat /\ next' >= next
  BY <1>2, <1>3
<1>5. /\ worker' \in [Workers -> WorkerStates] /\ Workers' = Workers
      /\ \A v \in Workers \ {w} : worker'[v] = worker[v]
  <2>1. /\ [worker[w] EXCEPT !.pc = "exited"] \in WorkerStates
        /\ [pc |-> "calling", index |-> next, ok |-> FALSE] \in WorkerStates
    BY <1>2 DEF WorkerStates
  <2>. QED
    BY <1>2, <2>1 DEF Take, Workers
<1>6. Types'
  <2>1. Ids' = Ids
    BY <1>1 DEF Ids, Total
  <2>. QED
    BY <1>1, <1>4, <1>5, <2>1 DEF Types
<1>7. ASSUME run = "measured"
      PROVE  Indices' /\ (Suited => Clients')
  <2>1. closed # TRUE /\ Measuring /\ Measuring' /\ Collected' = Collected /\ ~Busy(w)
    BY <1>1, <1>7, Zenon DEF Indices, Measuring, Collected, Busy
  <2>2. Total(run) = requests
    BY <1>7 DEF Total
  <2>3. \A v \in Workers \ {w} : Busy(v)' = Busy(v)
    BY <1>5 DEF Busy
  <2>4. /\ \A i \in DOMAIN Collected : Collected[i][1] < next /\ Collected[i][1] < requests
        /\ \A i \in DOMAIN Collected : Collected[i][1] \in Nat
        /\ \A v \in Workers : Busy(v) => worker[v].index < next /\ worker[v].index < requests
        /\ \A v \in Workers : worker[v].index \in Nat
    BY <1>1, <1>2, <2>1, CollectedSeq DEF Indices, WorkerStates
  <2>5. CASE expired \/ next >= requests
    <3>1. worker'[w] = [worker[w] EXCEPT !.pc = "exited"] /\ ~Busy(w)'
      BY <1>2, <2>2, <2>5 DEF Take, Busy, WorkerStates
    <3>2. \A n \in Nat : n < next' /\ n < requests => n < next
      BY <1>2, <2>5 DEF Take
    <3>3. \A i \in DOMAIN Collected : Collected[i][1] < next'
      BY <1>2, <1>3, <2>4
    <3>4. \A v \in Workers : Busy(v)' => Busy(v) /\ worker'[v].index = worker[v].index
                                         /\ worker[v].index < next' /\ worker[v].index < requests
      BY <1>2, <1>3, <1>5, <2>3, <2>4, <3>1
    <3>5. \A v \in Workers : Busy(v) => Busy(v)' /\ worker'[v].index = worker[v].index
      BY <1>5, <2>1, <2>3
    <3>6. Indices'
      BY <1>1, <1>5, <1>7, <2>1, <2>4, <3>2, <3>3, <3>4, <3>5 DEF Indices
    <3>7. Suited => Clients'
      <4>1. Suited => Clients
        BY <2>1 DEF IInv, Service
      <4>2. worker'[w].pc = "exited"
        BY <1>2, <3>1 DEF WorkerStates
      <4>. QED
        BY <1>1, <1>5, <2>1, <4>1, <4>2 DEF Clients, Serving, Served, Found, Measured
    <3>. QED
      BY <3>6, <3>7
  <2>6. CASE ~expired /\ next < requests
    <3>1. worker'[w] = [pc |-> "calling", index |-> next, ok |-> FALSE] /\ next' = next + 1
      BY <1>2, <2>2, <2>6 DEF Take
    <3>2. Busy(w)' /\ worker'[w].index = next /\ worker'[w].pc = "calling"
      BY <3>1 DEF Busy
    <3>3. \A i \in DOMAIN Collected : Collected[i][1] < next' /\ Collected[i][1] # next
      BY <1>2, <2>4, <3>1
    <3>4. \A v \in Workers : Busy(v) => v # w /\ Busy(v)' /\ worker'[v].index = worker[v].index
      BY <1>5, <2>1, <2>3
    <3>5. \A v \in Workers : Busy(v) => worker[v].index < next' /\ worker[v].index # next
      BY <1>2, <2>4, <3>1
    <3>6. \A v \in Workers : Busy(v)' => v = w \/ (Busy(v) /\ worker'[v].index = worker[v].index)
      BY <1>5, <2>3
    <3>7. \A n \in Nat : n < next' => n = next \/ n < next
      BY <1>2, <3>1
    <3>8. next < next'
      BY <1>2, <3>1
    <3>9. Indices'
      <4>0. /\ \A v, u \in Workers :
                 Busy(v) /\ Busy(u) /\ worker[v].index = worker[u].index => v = u
            /\ \A v \in Workers, i \in DOMAIN Collected : Busy(v) => Collected[i][1] # worker[v].index
        BY <1>1, <2>1, Zenon DEF Indices
      <4>1. /\ \A v \in Workers : Busy(v)' => worker'[v].index < next' /\ worker'[v].index < requests
            /\ \A v, u \in Workers :
                 Busy(v)' /\ Busy(u)' /\ worker'[v].index = worker'[u].index => v = u
        <5>1. \A v \in Workers : Busy(v)' => worker'[v].index < next' /\ worker'[v].index < requests
          BY <2>4, <2>6, <3>2, <3>5, <3>6, <3>8
        <5>2. ASSUME NEW v \in Workers, NEW u \in Workers, Busy(v)', Busy(u)',
                     worker'[v].index = worker'[u].index
              PROVE  v = u
          BY <3>2, <3>5, <3>6, <4>0, <5>2, Zenon
        <5>. QED
          BY <5>1, <5>2
      <4>2. \A v \in Workers, i \in DOMAIN Collected : Busy(v)' => Collected[i][1] # worker'[v].index
        BY <3>2, <3>3, <3>6, <4>0, Zenon
      <4>3. \A n \in Nat : n < next' /\ n < requests =>
              \/ \E v \in Workers : Busy(v)' /\ worker'[v].index = n
              \/ \E i \in DOMAIN Collected : Collected[i][1] = n
        BY <1>1, <2>1, <3>2, <3>4, <3>7 DEF Indices
      <4>. QED
        BY <1>1, <1>5, <1>7, <2>1, <2>4, <3>3, <4>1, <4>2, <4>3 DEF Indices
    <3>10. Suited => Clients'
      <4>1. Suited => Clients
        BY <2>1 DEF IInv, Service
      <4>2. server[Measured(next)] = Fresh
        <5>1. next \in 0..(requests - 1) /\ ~(next < next)
          BY <1>2, <2>6
        <5>2. server[Measured(next)].pc = "none"
          BY <1>7, <5>1 DEF IInv, Arrivals
        <5>. QED
          BY <1>1, <5>1, <5>2, IdKinds DEF IInv, Progress, Sound
      <4>3. Serving(server'[Measured(next)], Found)
        BY <1>1, <4>2 DEF Serving
      <4>4. /\ Found' = Found
            /\ \A v \in Workers : v # w => worker'[v] = worker[v]
        BY <1>1, <1>5 DEF Found
      <4>. QED
        BY <1>1, <1>5, <2>1, <3>2, <4>1, <4>3, <4>4 DEF Clients, Serving, Served, Measured
    <3>. QED
      BY <3>9, <3>10
  <2>7. next >= requests \/ next < requests
    BY <1>2
  <2>. QED
    BY <2>5, <2>6, <2>7, Zenon
<1>8. ASSUME run = "warmup"
      PROVE  Indices'
  BY <1>1, <1>8 DEF Indices, Measuring
<1>. QED
  BY <1>1, <1>4, <1>6, <1>7, <1>8, PhaseFrame, Zenon DEF InPhase, Phases

\* A call that has ended keeps its index, and succeeded if it was answered.
LEMMA CallEndsKeeps ==
  ASSUME IInv, NEW w \in Workers, CallEnds(w)
  PROVE  IInv'
<1>1. /\ Types /\ Indices /\ InPhase /\ UNCHANGED <<setup, run, serverVars, observation>>
      /\ UNCHANGED <<requests, mode, persistence, flaky, leftover, expiry, server, cache, lost, scrape, baseline, expired,
                     results, closed, samples, next>>
      /\ worker[w].pc = "calling"
  BY DEF IInv, CallEnds, setup, serverVars, observation
<1>2. worker \in [Workers -> WorkerStates] /\ next \in Nat
  BY <1>1 DEF Types
<1>3. PICK ok \in BOOLEAN :
        /\ ok => Answered(<<run, worker[w].index>>)
        /\ worker' = [worker EXCEPT ![w].pc = "sending", ![w].ok = ok]
  BY Zenon DEF CallEnds
<1>4. /\ worker'[w] = [worker[w] EXCEPT !.pc = "sending", !.ok = ok]
      /\ worker'[w] \in WorkerStates /\ worker'[w].pc = "sending"
      /\ worker'[w].index = worker[w].index /\ worker'[w].ok = ok
  BY <1>2, <1>3, Zenon DEF WorkerStates
<1>5. /\ worker' \in [Workers -> WorkerStates] /\ Workers' = Workers
      /\ \A v \in Workers : v # w => worker'[v] = worker[v]
  BY <1>2, <1>3, <1>4 DEF Workers
<1>6. Types'
  <2>1. Ids' = Ids
    BY <1>1, Zenon DEF Ids, Total
  <2>. QED
    BY <1>1, <1>5, <2>1 DEF Types
<1>7. ASSUME run = "measured"
      PROVE  Indices' /\ (Suited => Clients')
  <2>1. Measuring /\ Measuring' /\ Collected' = Collected
    BY <1>1, <1>7 DEF Measuring, Collected
  <2>2. \A v \in Workers : (Busy(v)' <=> Busy(v)) /\ worker'[v].index = worker[v].index
    <3>1. Busy(w) /\ Busy(w)' /\ worker'[w].index = worker[w].index
      BY <1>1, <1>4 DEF Busy
    <3>2. \A v \in Workers : v # w => (Busy(v)' <=> Busy(v))
      BY <1>5 DEF Busy
    <3>. QED
      BY <1>5, <3>1, <3>2
  <2>3. closed # TRUE
    BY <1>1, <2>1, ZenonT(30) DEF Indices
  <2>4. Indices'
    BY <1>1, <1>5, <1>7, <2>1, <2>2, <2>3 DEF Indices
  <2>5. Suited => Clients'
    <3>1. Suited => Clients
      BY <2>1 DEF IInv, Service
    <3>2. ok /\ Suited => Served(server[Measured(worker[w].index)], Found)
      <4>1. Suited => Serving(server[Measured(worker[w].index)], Found)
        BY <1>1, <3>1 DEF Clients
      <4>2. ok => server[Measured(worker[w].index)].pc \in {"answered", "counted"}
        BY <1>3, <1>7 DEF Answered, Measured
      <4>. QED
        BY <4>1, <4>2, ServingStage
    <3>3. Found' = Found
      BY <1>1 DEF Found
    <3>4. ASSUME Suited, NEW v \in Workers
          PROVE  /\ worker'[v].pc = "calling" => Serving(server[Measured(worker'[v].index)], Found)
                 /\ worker'[v].pc = "sending" /\ worker'[v].ok = TRUE =>
                      Served(server[Measured(worker'[v].index)], Found)
      <4>1. CASE v = w
        <5>1. worker'[w].pc = "sending" /\ worker'[w].index = worker[w].index /\ worker'[w].ok = ok
          BY <1>4
        <5>. QED
          BY <3>2, <3>4, <4>1, <5>1
      <4>2. CASE v # w
        BY <1>5, <3>1, <3>4, <4>2 DEF Clients
      <4>. QED
        BY <4>1, <4>2, Zenon
    <3>. QED
      BY <1>1, <1>5, <2>1, <3>1, <3>3, <3>4, ZenonT(30) DEF Clients, Serving, Served, Measured
  <2>. QED
    BY <2>4, <2>5
<1>8. ASSUME run = "warmup"
      PROVE  Indices'
  BY <1>1, <1>8 DEF Indices, Measuring
<1>9. next' >= next
  BY <1>1, <1>2
<1>. QED
  BY <1>1, <1>6, <1>7, <1>8, <1>9, PhaseFrame, Zenon DEF InPhase, Phases

\* What is sent comes last among what will be collected.
LEMMA CollectedGrows ==
  ASSUME NEW S, NEW s \in Seq(S), NEW r \in Seq(S), NEW e \in S
  PROVE  /\ s \o Append(r, e) = Append(s \o r, e)
         /\ DOMAIN Append(s \o r, e) = DOMAIN (s \o r) \cup {Len(s \o r) + 1}
         /\ Len(s \o r) + 1 \notin DOMAIN (s \o r)
         /\ Append(s \o r, e)[Len(s \o r) + 1] = e
         /\ \A i \in DOMAIN (s \o r) : Append(s \o r, e)[i] = (s \o r)[i]
<1>1. ASSUME NEW d \in Seq(S)
      PROVE  /\ DOMAIN Append(d, e) = DOMAIN d \cup {Len(d) + 1} /\ Len(d) + 1 \notin DOMAIN d
             /\ Append(d, e)[Len(d) + 1] = e /\ \A i \in DOMAIN d : Append(d, e)[i] = d[i]
  OBVIOUS
<1>2. s \o r \in Seq(S) /\ s \o Append(r, e) = Append(s \o r, e)
  OBVIOUS
<1>. QED
  BY <1>1, <1>2

\* The oldest result moves to the samples, and nothing else moves.
LEMMA CollectedStays ==
  ASSUME NEW S, NEW s \in Seq(S), NEW r \in Seq(S), r # <<>>
  PROVE  /\ Append(s, Head(r)) \o Tail(r) = s \o r
         /\ Append(s, Head(r)) \in Seq(S) /\ Tail(r) \in Seq(S)
OBVIOUS

\* A worker sends its observation, and with it its index goes to the results.
LEMMA SendKeeps ==
  ASSUME IInv, NEW w \in Workers, Send(w)
  PROVE  IInv'
<1>1. /\ Types /\ Indices /\ InPhase /\ UNCHANGED <<setup, run, serverVars, observation>>
      /\ UNCHANGED <<requests, mode, persistence, flaky, leftover, expiry, server, cache, lost, scrape, baseline, expired,
                     closed, samples, next>>
      /\ worker[w].pc = "sending" /\ worker' = [worker EXCEPT ![w] = Looping]
  BY DEF IInv, Send, setup, serverVars, observation
<1>. DEFINE e == <<worker[w].index, worker[w].ok>>
            last == Len(Collected) + 1
<1>2. /\ worker \in [Workers -> WorkerStates] /\ next \in Nat /\ requests \in Nat
      /\ samples \in Seq(Nat \X BOOLEAN) /\ results \in Seq(Nat \X BOOLEAN)
  BY <1>1 DEF Types
<1>3. worker[w].index \in Nat /\ worker[w].ok \in BOOLEAN /\ e \in Nat \X BOOLEAN
  BY <1>2 DEF WorkerStates
<1>4. Looping \in WorkerStates /\ Looping.pc = "loop"
  BY DEF Looping, WorkerStates
<1>5. /\ worker' \in [Workers -> WorkerStates] /\ Workers' = Workers /\ worker'[w] = Looping
      /\ \A v \in Workers : v # w => worker'[v] = worker[v]
  BY <1>1, <1>2, <1>4 DEF Workers
<1>6. results' = Append(results, e) /\ results' \in Seq(Nat \X BOOLEAN)
  BY <1>2, <1>3 DEF Send
<1>7. Types'
  <2>1. Ids' = Ids
    BY <1>1 DEF Ids, Total
  <2>. QED
    BY <1>1, <1>5, <1>6, <2>1 DEF Types
<1>8. /\ Collected' = Append(Collected, e)
      /\ DOMAIN Collected' = DOMAIN Collected \cup {last} /\ last \notin DOMAIN Collected
      /\ Collected'[last] = e /\ \A i \in DOMAIN Collected : Collected'[i] = Collected[i]
  <2>. DEFINE S == Nat \X BOOLEAN
  <2>1. Collected' = samples \o Append(results, e) /\ Collected = samples \o results
    BY <1>1, <1>6 DEF Collected
  <2>2. samples \in Seq(S) /\ results \in Seq(S) /\ e \in S
    BY <1>2, <1>3
  <2>. HIDE DEF S, e
  <2>. QED
    BY <2>1, <2>2, CollectedGrows
<1>9. Collected'[last][1] = worker[w].index /\ Collected'[last][2] = worker[w].ok
  BY <1>8
<1>10. ASSUME run = "measured"
       PROVE  Indices' /\ (Suited => Clients')
  <2>1. Measuring /\ Measuring' /\ closed # TRUE
    BY <1>1, <1>10, ZenonT(30) DEF Measuring, Indices
  <2>2. Busy(w) /\ ~Busy(w)' /\ \A v \in Workers : v # w => (Busy(v)' <=> Busy(v))
    BY <1>1, <1>4, <1>5 DEF Busy
  <2>. HIDE DEF last, e
  <2>3. Indices'
    <3>0. /\ \A i \in DOMAIN Collected : Collected[i][1] < next /\ Collected[i][1] < requests
          /\ \A v \in Workers : Busy(v) => worker[v].index < next /\ worker[v].index < requests
          /\ \A i, j \in DOMAIN Collected : Collected[i][1] = Collected[j][1] => i = j
          /\ \A v, u \in Workers :
               Busy(v) /\ Busy(u) /\ worker[v].index = worker[u].index => v = u
          /\ \A v \in Workers, i \in DOMAIN Collected :
               Busy(v) => Collected[i][1] # worker[v].index
      BY <1>1, <2>1, Zenon DEF Indices
    <3>1. \A i \in DOMAIN Collected' : Collected'[i][1] < next /\ Collected'[i][1] < requests
      BY <1>8, <1>9, <2>2, <3>0, Zenon
    <3>2. \A i, j \in DOMAIN Collected' : Collected'[i][1] = Collected'[j][1] => i = j
      <4>1. ASSUME NEW i \in DOMAIN Collected
            PROVE  Collected'[i][1] # Collected'[last][1]
        BY <1>8, <1>9, <2>2, <3>0, <4>1, ZenonT(30)
      <4>. QED
        BY <1>8, <3>0, <4>1, SMTT(20)
    <3>3. /\ \A v \in Workers : Busy(v)' => worker'[v].index < next /\ worker'[v].index < requests
          /\ \A v, u \in Workers :
               Busy(v)' /\ Busy(u)' /\ worker'[v].index = worker'[u].index => v = u
      BY <1>5, <2>2, <3>0
    <3>4. \A v \in Workers, i \in DOMAIN Collected' : Busy(v)' => Collected'[i][1] # worker'[v].index
      <4>1. ASSUME NEW v \in Workers, Busy(v)'
            PROVE  v # w /\ Busy(v) /\ worker'[v].index = worker[v].index
        BY <1>5, <2>2, <4>1
      <4>. QED
        BY <1>8, <1>9, <2>2, <3>0, <4>1
    <3>5. \A n \in Nat : n < next /\ n < requests =>
            \/ \E v \in Workers : Busy(v)' /\ worker'[v].index = n
            \/ \E i \in DOMAIN Collected' : Collected'[i][1] = n
      <4>1. ASSUME NEW n \in Nat, n < next, n < requests,
                   ~\E i \in DOMAIN Collected' : Collected'[i][1] = n
            PROVE  \E v \in Workers : Busy(v)' /\ worker'[v].index = n
        <5>1. ~\E i \in DOMAIN Collected : Collected[i][1] = n
          BY <1>8, <4>1
        <5>2. PICK v \in Workers : Busy(v) /\ worker[v].index = n
          BY <1>1, <2>1, <4>1, <5>1 DEF Indices
        <5>3. v # w
          BY <1>8, <1>9, <4>1, <5>2
        <5>. QED
          BY <1>5, <2>2, <5>2, <5>3
      <4>. QED
        BY <4>1
    <3>. QED
      BY <1>1, <1>5, <1>10, <2>1, <3>1, <3>2, <3>3, <3>4, <3>5 DEF Indices
  <2>4. Suited => Clients'
    <3>1. Suited => Clients
      BY <2>1 DEF IInv, Service
    <3>2. Found' = Found
      BY <1>1 DEF Found
    <3>3. ASSUME Suited, NEW v \in Workers
          PROVE  /\ worker'[v].pc = "calling" => Serving(server[Measured(worker'[v].index)], Found)
                 /\ worker'[v].pc = "sending" /\ worker'[v].ok = TRUE =>
                      Served(server[Measured(worker'[v].index)], Found)
      BY <1>4, <1>5, <3>1, <3>3 DEF Clients
    <3>4. ASSUME Suited, NEW i \in DOMAIN Collected', Collected'[i][2] = TRUE
          PROVE  Served(server[Measured(Collected'[i][1])], Found)
      BY <1>1, <1>8, <1>9, <3>1, <3>4 DEF Clients
    <3>. QED
      BY <1>1, <1>5, <3>2, <3>3, <3>4, ZenonT(30) DEF Clients
  <2>. QED
    BY <2>3, <2>4
<1>11. ASSUME run = "warmup"
       PROVE  Indices'
  BY <1>1, <1>11 DEF Indices, Measuring
<1>12. next' >= next
  BY <1>1, <1>2
<1>. QED
  BY <1>1, <1>7, <1>10, <1>11, <1>12, PhaseFrame, Zenon DEF InPhase, Phases

\* The rest of a phase: its time is over, the pool has stopped, or phase takes
\* a result; no index moves to or from a worker.
LEMMA CollectKeeps ==
  ASSUME IInv, Expire \/ CloseResults \/ Receive
  PROVE  IInv'
<1>1. /\ Types /\ Indices /\ InPhase /\ UNCHANGED <<setup, run, serverVars, observation>>
      /\ UNCHANGED <<requests, mode, persistence, flaky, leftover, expiry, server, cache, lost, scrape, baseline, worker,
                     next>>
  BY DEF IInv, Expire, CloseResults, Receive, setup, serverVars, observation
<1>2. samples \in Seq(Nat \X BOOLEAN) /\ results \in Seq(Nat \X BOOLEAN) /\ next \in Nat
  BY <1>1 DEF Types
<1>3. /\ samples' \in Seq(Nat \X BOOLEAN) /\ results' \in Seq(Nat \X BOOLEAN)
      /\ Collected' = Collected
  <2>1. CASE Receive
    <3>. DEFINE S == Nat \X BOOLEAN
    <3>1. /\ samples' = Append(samples, Head(results)) /\ results' = Tail(results)
          /\ results # <<>>
      BY <2>1 DEF Receive
    <3>2. samples \in Seq(S) /\ results \in Seq(S)
      BY <1>2
    <3>. HIDE DEF S
    <3>3. samples' \in Seq(S) /\ results' \in Seq(S) /\ samples' \o results' = samples \o results
      BY <3>1, <3>2, CollectedStays
    <3>. QED
      BY <3>3 DEF S, Collected
  <2>2. CASE Expire \/ CloseResults
    BY <1>2, <2>2, Zenon DEF Expire, CloseResults, Collected
  <2>. QED
    BY <2>1, <2>2
<1>4. /\ expired' \in BOOLEAN /\ closed' \in BOOLEAN
      /\ closed' = TRUE => closed = TRUE \/ \A w \in Workers : worker[w].pc = "exited"
  BY <1>1, Zenon DEF Expire, CloseResults, Receive, Types
<1>5. Types'
  <2>1. Ids' = Ids /\ Workers' = Workers
    BY <1>1 DEF Ids, Total, Workers
  <2>. QED
    BY <1>1, <1>3, <1>4, <2>1 DEF Types
<1>6. ASSUME run = "measured"
      PROVE  Indices' /\ (Suited => Clients')
  <2>1. Measuring /\ Measuring' /\ Workers' = Workers /\ \A w \in Workers : Busy(w)' = Busy(w)
    BY <1>1, <1>6 DEF Measuring, Busy, Workers
  <2>2. Indices'
    BY <1>1, <1>3, <1>4, <1>6, <2>1 DEF Indices
  <2>3. Suited => Clients'
    BY <1>1, <1>3, <2>1 DEF IInv, Service, Clients, Serving, Served, Measured, Found
  <2>. QED
    BY <2>2, <2>3
<1>7. ASSUME run = "warmup"
      PROVE  Indices'
  BY <1>1, <1>7 DEF Indices, Measuring
<1>8. next' >= next
  BY <1>1, <1>2
<1>. QED
  BY <1>1, <1>5, <1>6, <1>7, <1>8, PhaseFrame, Zenon DEF InPhase, Phases

-----------------------------------------------------------------------------
\* Nothing is claimed of a run that has failed, but that its state is sound.
LEMMA FailureKeeps ==
  ASSUME IInv, run' = "failed", UNCHANGED <<setup, clientVars, serverVars, baseline>>,
         scrape' = scrape \/ Again
  PROVE  IInv'
<1>1. UNCHANGED <<requests, mode, persistence, flaky, expiry, worker, next, expired, results, closed,
                  samples, server, cache, lost, baseline>>
  BY DEF setup, clientVars, serverVars
<1>2. Ids' = Ids /\ Workers' = Workers /\ Prime' = Prime
  BY <1>1 DEF Ids, Total, Workers, Prime
<1>3. Unread \in Int /\ Unread \notin Nat
  BY DEF Unread
<1>4. Types'
  BY <1>1, <1>2, <1>3 DEF IInv, Types, Again
<1>5. Indices' /\ Arrivals' /\ Progress' /\ Baseline' /\ Service' /\ Stored'
  <2>1. Stored'
    BY <1>1, StoredStays DEF IInv
  <2>. QED
    BY <1>1, <1>2, <2>1, Zenon DEF IInv, Indices, Measuring, Arrivals, Progress, Sound, Baseline,
       Service
<1>6. Reading'
  <2>1. ~Observing'
    BY DEF Observing
  <2>2. CASE scrape' = scrape
    BY <1>1, <1>2, <2>1, <2>2, ZenonT(30) DEF IInv, Reading, Have, Unread
  <2>3. CASE Again
    <3>1. scrape'["requests"] = Unread /\ scrape'["ended"] = Unread
      BY <2>3 DEF Again, Names
    <3>. QED
      BY <2>1, <3>1, Zenon DEF Reading, Unread
  <2>. QED
    BY <2>2, <2>3
<1>7. ReportExact' /\ VerifiedIsTrue'
  BY DEF ReportExact, VerifiedIsTrue
<1>. QED
  BY <1>4, <1>5, <1>6, <1>7 DEF IInv

\* Run goes on to its next part: priming has filled the cache, a phase has
\* collected all its results, the monitor has been joined.
LEMMA RunKeeps ==
  ASSUME IInv, PrimeEnds \/ PhaseEnds \/ JoinMonitor \/ MonitorEnds
  PROVE  IInv'
<1>1. /\ UNCHANGED <<setup, clientVars, serverVars, scrape, baseline>>
      /\ UNCHANGED <<requests, mode, persistence, flaky, expiry, worker, next, expired, results, closed,
                     samples, server, cache, lost>>
  BY DEF PrimeEnds, PhaseEnds, JoinMonitor, MonitorEnds, setup, clientVars, serverVars, observation
<1>2. CASE run' = "failed"
  BY <1>1, <1>2, FailureKeeps
<1>3. CASE run' # "failed"
  <2>1. \/ run = "priming" /\ run' = "warmup" /\ Answered(Prime)
        \/ run = "warmup" /\ run' = "settling" /\ results = <<>>
        \/ run = "measured" /\ run' = "joining" /\ results = <<>> /\ closed = TRUE
        \/ run = "joining" /\ run' = "observing"
        \/ run = "joining" /\ run' = "joining"
    <3>1. closed \in BOOLEAN
      BY DEF IInv, Types
    <3>. QED
      BY <1>3, <3>1 DEF PrimeEnds, PhaseEnds, JoinMonitor, MonitorEnds, InPhase, Phases
  <2>2. /\ Ids' = Ids /\ Workers' = Workers /\ Prime' = Prime /\ Warm' = Warm /\ Scraped' = Scraped
        /\ Collected' = Collected /\ \A w \in Workers : Busy(w)' = Busy(w)
    BY <1>1 DEF Ids, Total, Workers, Prime, Warm, Scraped, Collected, Busy
  <2>3. Measuring' = Measuring
    BY <2>1 DEF Measuring
  <2>4. Types'
    BY <1>1, <2>1, <2>2 DEF IInv, Types
  <2>5. Indices'
    BY <1>1, <2>1, <2>2, <2>3, ZenonT(30) DEF IInv, Indices, Measuring
  <2>6. Arrivals' /\ Progress'
    BY <1>1, <2>1, <2>2, <2>3, ZenonT(30) DEF IInv, Arrivals, Progress, Sound, Measured
  <2>7. Reading'
    <3>1. scrape["requests"] = Unread
      BY <2>1 DEF IInv, Reading
    <3>2. ~Scraped'
      BY <1>1, <3>1 DEF Scraped, Names
    <3>. QED
      BY <1>1, <3>1, <3>2 DEF IInv, Reading, Unread
  <2>8. Baseline'
    BY <1>1, <2>1, <2>2, <2>3 DEF IInv, Baseline, Zero, Have
  <2>9. Service' /\ Stored'
    <3>0. Suited' = Suited
      BY <1>1, SuitedStays
    <3>1. ASSUME Suited, mode = "warm_hit", run = "priming", run' = "warmup"
          PROVE  0 \in cache
      <4>1. Primed(server[Prime]) /\ server[Prime].pc \in {"answered", "counted"}
        BY <2>1, <3>1 DEF IInv, Stored, Answered
      <4>. QED
        BY <3>1, <4>1 DEF IInv, Stored, Primed
    <3>2. Suited /\ Measuring => Clients'
      BY <1>1, <2>2 DEF IInv, Service, Clients, Found
    <3>3. Suited /\ run # "priming" /\ mode = "warm_hit" => 0 \in cache
      BY <2>1 DEF IInv, Stored
    <3>4. Service'
      BY <2>3, <3>0, <3>2 DEF Service
    <3>5. Suited /\ mode = "miss" => Unfilled'
      BY <1>1 DEF IInv, Stored, Unfilled, Measured
    <3>6. Suited /\ mode = "warm_hit" =>
            (server[Prime].lookup = "hit" \/ server[Prime].write = "success" => 0 \in cache)
      BY DEF IInv, Stored
    <3>7. run' # "priming"
      BY <2>1
    <3>8. Suited /\ mode = "warm_hit" => 0 \in cache
      BY <2>1, <3>1, <3>3
    <3>9. Stored'
      BY <1>1, <2>2, <3>0, <3>5, <3>6, <3>7, <3>8, Zenon DEF Stored
    <3>. QED
      BY <3>4, <3>9
  <2>10. ReportExact' /\ VerifiedIsTrue'
    BY <2>1 DEF ReportExact, VerifiedIsTrue
  <2>. QED
    BY <2>4, <2>5, <2>6, <2>7, <2>8, <2>9, <2>10 DEF IInv
<1>. QED
  BY <1>2, <1>3

\* Reading /metrics changes nothing but what was read.
LEMMA ReadFrame ==
  ASSUME IInv, Observing, UNCHANGED <<setup, run, clientVars, serverVars, baseline>>,
         scrape' \in [Names -> Int], Reading'
  PROVE  IInv'
<1>1. UNCHANGED <<requests, mode, persistence, flaky, expiry, run, worker, next, expired, results, closed,
                  samples, server, cache, lost, baseline>>
  BY DEF setup, clientVars, serverVars
<1>2. /\ Ids' = Ids /\ Workers' = Workers /\ Prime' = Prime /\ Warm' = Warm
      /\ Collected' = Collected /\ \A w \in Workers : Busy(w)' = Busy(w)
      /\ Measuring' = Measuring
  BY <1>1 DEF Ids, Total, Workers, Prime, Warm, Collected, Busy, Measuring
<1>3. Types'
  BY <1>1, <1>2 DEF IInv, Types
<1>4. Indices'
  BY <1>1, <1>2 DEF IInv, Indices
<1>5. Arrivals' /\ Progress'
  BY <1>1, <1>2 DEF IInv, Arrivals, Progress, Sound, Measured
<1>6. Baseline'
  BY <1>1, <1>2, SMTT(20) DEF IInv, Baseline, Zero, Have
<1>7. Service' /\ Stored'
  <2>1. Suited' = Suited
    BY SuitedStays
  <2>2. Stored'
    BY <1>1, StoredStays DEF IInv
  <2>. QED
    BY <1>1, <1>2, <2>1, <2>2, Zenon DEF IInv, Service, Clients, Found
<1>8. ReportExact' /\ VerifiedIsTrue'
  BY <1>1 DEF Observing, ReportExact, VerifiedIsTrue
<1>. QED
  BY <1>3, <1>4, <1>5, <1>6, <1>7, <1>8 DEF IInv

\* settledCounters reads again.
LEMMA RetryKeeps ==
  ASSUME IInv, Retry
  PROVE  IInv'
<1>1. Observing /\ UNCHANGED <<setup, run, clientVars, serverVars, baseline>>
  BY DEF Retry
<1>2. /\ scrape' \in [Names -> Int] /\ scrape'["requests"] = Unread /\ scrape'["ended"] = Unread
  BY DEF Retry, Again, Names, Unread
<1>3. ~Scraped'
  BY <1>2 DEF Scraped, Names
<1>4. Reading'
  BY <1>2, <1>3 DEF Reading, Unread
<1>. QED
  BY <1>1, <1>2, <1>4, ReadFrame

-----------------------------------------------------------------------------
\* What the counting of requests rests on, all of it about any finite sets; that
\* these facts hold is the last lemma of the module.
CardinalityFact == \A S : IsFiniteSet(S) => Cardinality(S) \in Nat
EmptyFact ==
  /\ IsFiniteSet({}) /\ Cardinality({}) = 0
  /\ \A S : IsFiniteSet(S) => (Cardinality(S) = 0 <=> S = {})
SingletonFact == \A x : IsFiniteSet({x}) /\ Cardinality({x}) = 1
IntervalFact ==
  \A a, b \in Int : /\ IsFiniteSet(a..b)
                    /\ Cardinality(a..b) = IF a > b THEN 0 ELSE b - a + 1
SubsetFact ==
  \A S, T : IsFiniteSet(S) /\ T \in SUBSET S =>
    /\ IsFiniteSet(T) /\ Cardinality(T) <= Cardinality(S)
    /\ Cardinality(S) = Cardinality(T) => S = T
AdditionFact ==
  \A S, x : IsFiniteSet(S) /\ x \notin S => Cardinality(S \cup {x}) = Cardinality(S) + 1
UnionFact ==
  \A S, T : IsFiniteSet(S) /\ IsFiniteSet(T) =>
    /\ IsFiniteSet(S \cup T)
    /\ Cardinality(S \cup T) = Cardinality(S) + Cardinality(T) - Cardinality(S \cap T)
ProductFact ==
  \A S, T : IsFiniteSet(S) /\ IsFiniteSet(T) =>
    IsFiniteSet(S \X T) /\ Cardinality(S \X T) = Cardinality(S) * Cardinality(T)
BijectionFact ==
  \A n \in Nat : \A S : \A f \in [1..n -> S] :
    /\ \A i, j \in 1..n : f[i] = f[j] => i = j
    /\ \A x \in S : \E i \in 1..n : f[i] = x
    => IsFiniteSet(S) /\ Cardinality(S) = n

FiniteSetFacts ==
  /\ CardinalityFact /\ EmptyFact /\ SingletonFact /\ IntervalFact /\ SubsetFact
  /\ AdditionFact /\ UnionFact /\ ProductFact /\ BijectionFact

\* A run has finitely many requests.
LEMMA IdsFinite ==
  ASSUME FiniteSetFacts, Types
  PROVE  /\ IsFiniteSet(Ids) /\ IsFiniteSet(Warm) /\ Warm \subseteq Ids
         /\ Cardinality(Warm) = WarmCount
<1>. DEFINE W == {"warmup"} \X (0..(Warmup - 1))
            M == {"measured"} \X (0..(requests - 1))
<1>1. Warmup \in Nat \ {0} /\ requests \in Nat \ {0}
  BY LoadAssumption DEF Types
<1>2. /\ IsFiniteSet(0..(Warmup - 1)) /\ Cardinality(0..(Warmup - 1)) = Warmup
      /\ IsFiniteSet(0..(requests - 1))
  <2>1. /\ IsFiniteSet(0..(Warmup - 1)) /\ IsFiniteSet(0..(requests - 1))
        /\ Cardinality(0..(Warmup - 1)) = IF 0 > Warmup - 1 THEN 0 ELSE (Warmup - 1) - 0 + 1
    BY <1>1 DEF FiniteSetFacts, IntervalFact
  <2>. QED
    BY <1>1, <2>1
<1>3. IsFiniteSet({"warmup"}) /\ Cardinality({"warmup"}) = 1 /\ IsFiniteSet({"measured"})
      /\ IsFiniteSet({Prime}) /\ Cardinality({Prime}) = 1
  BY Zenon DEF FiniteSetFacts, SingletonFact
<1>4. IsFiniteSet(W) /\ Cardinality(W) = 1 * Warmup /\ IsFiniteSet(M)
  <2>1. IsFiniteSet(M)
    BY <1>2, <1>3, Zenon DEF FiniteSetFacts, ProductFact
  <2>2. /\ IsFiniteSet(W)
        /\ Cardinality(W) = Cardinality({"warmup"}) * Cardinality(0..(Warmup - 1))
    BY <1>2, <1>3, Zenon DEF FiniteSetFacts, ProductFact
  <2>. QED
    BY <1>2, <1>3, <2>1, <2>2
<1>5. Cardinality(W) = Warmup
  BY <1>1, <1>4
<1>6. Ids = ({Prime} \cup W) \cup M
  BY DEF Ids, Phases, Total
<1>7. IsFiniteSet({Prime} \cup W)
  BY <1>3, <1>4, Zenon DEF FiniteSetFacts, UnionFact
<1>8. IsFiniteSet(Ids)
  BY <1>4, <1>6, <1>7, Zenon DEF FiniteSetFacts, UnionFact
<1>9. Warm \subseteq Ids
  BY <1>6 DEF Warm
<1>10. Prime \notin W
  BY DEF Prime
<1>11. Cardinality(Warm) = WarmCount
  <2>1. CASE mode = "warm_hit"
    <3>1. Warm = W \cup {Prime}
      BY <2>1 DEF Warm
    <3>2. Cardinality(Warm) = Cardinality(W) + 1
      BY <3>1, <1>4, <1>10, Zenon DEF FiniteSetFacts, AdditionFact
    <3>. QED
      BY <3>2, <2>1, <1>5 DEF WarmCount
  <2>2. CASE mode # "warm_hit"
    BY <2>2, <1>5 DEF WarmCount, Warm
  <2>. QED
    BY <2>1, <2>2
<1>. QED
  BY <1>8, <1>9, <1>11 DEF FiniteSetFacts, SubsetFact

\* As many values as positions, when no two positions hold the same one.
LEMMA Counted ==
  ASSUME FiniteSetFacts, NEW n \in Nat, NEW S, NEW f \in [1..n -> S],
         \A i, j \in 1..n : f[i] = f[j] => i = j,
         \A x \in S : \E i \in 1..n : f[i] = x
  PROVE  IsFiniteSet(S) /\ Cardinality(S) = n
BY DEF FiniteSetFacts, BijectionFact

\* The measured requests with a sample, as a set.
LEMMA SampledSet ==
  ASSUME FiniteSetFacts, Types, Indices, run \in {"joining", "observing", "reported"}
  PROVE  /\ Sampled \subseteq Ids /\ IsFiniteSet(Sampled) /\ Cardinality(Sampled) = Taken
         /\ Sampled \cap Warm = {}
         /\ Sampled = {Measured(samples[i][1]) : i \in 1..Taken}
<1>. DEFINE f == [i \in 1..Taken |-> Measured(samples[i][1])]
<1>1. /\ Taken \in Nat /\ DOMAIN samples = 1..Taken
      /\ \A i \in 1..Taken : samples[i][1] \in Nat
  BY CollectedSeq
<1>2. Sampled = {Measured(samples[i][1]) : i \in 1..Taken}
  BY <1>1 DEF Sampled, Measured
<1>3. \A i, j \in 1..Taken : f[i] = f[j] => i = j
  BY SamplesComplete DEF Measured
<1>4. f \in [1..Taken -> Sampled] /\ \A x \in Sampled : \E i \in 1..Taken : f[i] = x
  BY <1>2
<1>5. IsFiniteSet(Sampled) /\ Cardinality(Sampled) = Taken
  <2>. HIDE DEF f, Taken, Sampled
  <2>. QED
    BY <1>1, <1>3, <1>4, Counted, Zenon
<1>6. \A i \in 1..Taken : samples[i][1] \in 0..(requests - 1)
  BY <1>1, SamplesComplete DEF Types
<1>7. Sampled \subseteq Ids
  BY <1>2, <1>6, IdKinds
<1>8. \A n : Measured(n) \notin Warm
  BY DEF Measured, Warm, Prime
<1>. QED
  BY <1>2, <1>5, <1>7, <1>8

\* SamplesAccounted follows.
LEMMA Accounted ==
  ASSUME FiniteSetFacts, Types, Indices, Arrivals
  PROVE  SamplesAccounted
<1>. SUFFICES ASSUME run \in {"joining", "observing", "reported"}
              PROVE  /\ Cardinality(Sampled) = Taken
                     /\ Taken = IF next < requests THEN next ELSE requests
                     /\ \A id \in Ids : id[1] = "measured" /\ server[id].pc # "none"
                                        => id \in Sampled
  BY DEF SamplesAccounted
<1>. DEFINE m == IF next < requests THEN next ELSE requests
            f == [i \in 1..Taken |-> samples[i][1]]
<1>1. next \in Nat /\ requests \in Nat \ {0} /\ m \in Nat
  BY DEF Types
<1>2. Taken \in Nat /\ \A i \in 1..Taken : samples[i][1] \in Nat
  BY CollectedSeq
<1>3. Taken = m
  <2>1. f \in [1..Taken -> 0..(m - 1)]
    BY <1>1, <1>2, SamplesComplete
  <2>2. \A i, j \in 1..Taken : f[i] = f[j] => i = j
    BY SamplesComplete
  <2>3. \A x \in 0..(m - 1) : \E i \in 1..Taken : f[i] = x
    BY <1>1, SamplesComplete
  <2>4. Cardinality(0..(m - 1)) = Taken
    <3>. HIDE DEF f, m, Taken
    <3>. QED
      BY <1>2, <2>1, <2>2, <2>3, Counted, Zenon
  <2>5. Cardinality(0..(m - 1)) = IF 0 > m - 1 THEN 0 ELSE (m - 1) - 0 + 1
    BY <1>1 DEF FiniteSetFacts, IntervalFact
  <2>. QED
    BY <1>1, <2>4, <2>5
<1>4. ASSUME NEW id \in Ids, id[1] = "measured", server[id].pc # "none"
      PROVE  id \in Sampled
  <2>1. PICK n \in 0..(requests - 1) : id = Measured(n)
    BY <1>4, IdKinds DEF Prime
  <2>2. n < next /\ n \in Nat /\ n < requests
    BY <1>1, <1>4, <2>1 DEF Arrivals
  <2>3. \E i \in 1..Taken : samples[i][1] = n
    BY <2>2, SamplesComplete
  <2>. QED
    BY <2>1, <2>3, SampledSet
<1>. QED
  BY <1>3, <1>4, SampledSet

\* Two sets without a common element are counted one by one.
LEMMA DisjointUnion ==
  ASSUME FiniteSetFacts, NEW S, NEW T, IsFiniteSet(S), IsFiniteSet(T), S \cap T = {}
  PROVE  Cardinality(S \cup T) = Cardinality(S) + Cardinality(T)
<1>1. Cardinality(S \cup T) = Cardinality(S) + Cardinality(T) - Cardinality(S \cap T)
  BY DEF FiniteSetFacts, UnionFact
<1>2. Cardinality(S \cap T) = 0
  BY DEF FiniteSetFacts, EmptyFact
<1>3. Cardinality(S) \in Nat /\ Cardinality(T) \in Nat
  BY DEF FiniteSetFacts, CardinalityFact
<1>. QED
  BY <1>1, <1>2, <1>3

-----------------------------------------------------------------------------
\* While /metrics is read, all the server ever received is due.
LEMMA DueSet ==
  ASSUME FiniteSetFacts, Types, Indices, Arrivals, Observing
  PROVE  /\ Due \subseteq Ids /\ IsFiniteSet(Due)
         /\ Cardinality(Due) = IF run = "settling" THEN WarmCount ELSE WarmCount + Taken
         /\ \A id \in Ids : server[id].pc # "none" => id \in Due
<1>1. ASSUME NEW id \in Ids, server[id].pc # "none"
      PROVE  id \in Warm \/ id[1] = "measured"
  <2>1. CASE id = Prime
    BY <1>1, <2>1 DEF Arrivals, Warm
  <2>2. CASE \E n \in 0..(Warmup - 1) : id = <<"warmup", n>>
    BY <2>2 DEF Warm
  <2>3. CASE \E n \in 0..(requests - 1) : id = Measured(n)
    BY <2>3 DEF Measured
  <2>. QED
    BY <2>1, <2>2, <2>3, IdKinds
<1>2. CASE run = "settling"
  <2>1. ASSUME NEW id \in Ids, server[id].pc # "none"
        PROVE  id \in Warm
    <3>1. ASSUME NEW n \in 0..(requests - 1), id = Measured(n)
          PROVE  FALSE
      BY <1>2, <2>1, <3>1 DEF Arrivals, Measuring
    <3>2. id[1] # "measured"
      BY <3>1, IdKinds DEF Prime
    <3>. QED
      BY <1>1, <2>1, <3>2
  <2>. QED
    BY <1>2, <2>1, IdsFinite DEF Due
<1>3. CASE run = "observing"
  <2>1. /\ Sampled \subseteq Ids /\ IsFiniteSet(Sampled) /\ Cardinality(Sampled) = Taken
        /\ Sampled \cap Warm = {}
    BY <1>3, SampledSet
  <2>2. IsFiniteSet(Warm) /\ Warm \subseteq Ids /\ Cardinality(Warm) = WarmCount
    BY IdsFinite
  <2>3. Warm \cap Sampled = {} /\ IsFiniteSet(Warm \cup Sampled)
    BY <2>1, <2>2, Zenon DEF FiniteSetFacts, UnionFact
  <2>4. Cardinality(Warm \cup Sampled) = Cardinality(Warm) + Cardinality(Sampled)
    BY <2>1, <2>2, <2>3, DisjointUnion
  <2>5. \A id \in Ids : server[id].pc # "none" => id \in Warm \cup Sampled
    BY <1>1, <1>3, Accounted DEF SamplesAccounted
  <2>. QED
    BY <1>3, <2>1, <2>2, <2>3, <2>4, <2>5 DEF Due
<1>. QED
  BY <1>2, <1>3 DEF Observing

-----------------------------------------------------------------------------
\* The requests of a set that have a property: as many as they were, or more.
LEMMA HaveFinite ==
  ASSUME FiniteSetFacts, NEW S, IsFiniteSet(S), NEW A \in SUBSET S, NEW B \in SUBSET A
  PROVE  /\ Cardinality(A) \in Nat /\ Cardinality(B) \in Nat
         /\ Cardinality(B) <= Cardinality(A)
         /\ Cardinality(B) >= Cardinality(A) => B = A
<1>1. IsFiniteSet(A) /\ IsFiniteSet(B)
  BY DEF FiniteSetFacts, SubsetFact
<1>2. Cardinality(A) \in Nat /\ Cardinality(B) \in Nat
  BY <1>1 DEF FiniteSetFacts, CardinalityFact
<1>3. Cardinality(B) <= Cardinality(A) /\ (Cardinality(B) = Cardinality(A) => B = A)
  BY <1>1, SMTT(20) DEF FiniteSetFacts, SubsetFact
<1>. QED
  BY <1>2, <1>3

\* Requests that have all been counted: what is counted of them stays, but for
\* the history records that are still to come.
LEMMA HaveFrozen ==
  ASSUME FiniteSetFacts, Types, NEW S \in SUBSET Ids, \A id \in S : server[id].pc = "counted",
         \A id \in S : server'[id] = server[id] \/ Later(server[id], server'[id]),
         NEW name \in Names
  PROVE  LET now == {id \in S : Counts(server'[id], name)} IN
         /\ name # "ended" => now = Have(S, name)
         /\ Have(S, name) \subseteq now
         /\ Cardinality(Have(S, name)) <= Cardinality(now) /\ Cardinality(now) \in Nat
         /\ Cardinality(Have(S, name)) \in Nat
         /\ persistence = FALSE \/ (\A id \in S : server[id].saved = TRUE) => now = Have(S, name)
<1>. DEFINE now == {id \in S : Counts(server'[id], name)}
<1>1. \A id \in S : server[id] \in Request
  BY DEF Types
<1>2. \A id \in S : /\ name # "ended" => Counts(server'[id], name) = Counts(server[id], name)
                    /\ Counts(server[id], name) => Counts(server'[id], name)
                    /\ persistence = FALSE \/ server[id].saved = TRUE
                         => Counts(server'[id], name) = Counts(server[id], name)
  BY <1>1, CountsFrozen, ZenonT(30)
<1>3. Have(S, name) \subseteq now /\ now \in SUBSET S /\ IsFiniteSet(S)
  BY <1>2, IdsFinite, ZenonT(30) DEF FiniteSetFacts, SubsetFact, Have
<1>4. Cardinality(Have(S, name)) <= Cardinality(now) /\ Cardinality(now) \in Nat
      /\ Cardinality(Have(S, name)) \in Nat
  BY <1>3, HaveFinite
<1>5. name # "ended" => now = Have(S, name)
  BY <1>2 DEF Have
<1>6. persistence = FALSE \/ (\A id \in S : server[id].saved = TRUE) => now = Have(S, name)
  BY <1>2 DEF Have
<1>. QED
  BY <1>3, <1>4, <1>5, <1>6, Zenon

\* What /metrics shows of a request set, with none of it lost.
LEMMA CountersAre ==
  ASSUME FiniteSetFacts, NEW S, lost \cap S = {}, NEW name \in Names
  PROVE  Counters(S)[name] = Cardinality(Have(S, name))
<1>1. S \ lost = S
  OBVIOUS
<1>. QED
  BY <1>1 DEF Counters, Have

\* The first read of an answer of /metrics is never more than the requests
\* that were counted; when it reaches all that are due, those are all there is
\* to read from then on.
LEMMA ReadAll ==
  ASSUME FiniteSetFacts, Types, Indices, Arrivals, Progress, Observing, NEW n \in Nat,
         n <= Cardinality(Have(Ids \ lost, "requests")), n >= Cardinality(Due)
  PROVE  /\ lost \cap Due = {}
         /\ \A id \in Due : server[id].pc = "counted"
         /\ \A name \in Names : Counters(Ids)[name] = Cardinality(Have(Due, name))
<1>. DEFINE H == Have(Ids \ lost, "requests")
<1>1. Due \subseteq Ids /\ IsFiniteSet(Due) /\ \A id \in Ids : server[id].pc # "none" => id \in Due
  BY DueSet
<1>2. \A id \in H : server[id].pc = "counted" /\ id \in Ids /\ id \notin lost
  BY DEF Have, Counts
<1>3. H \in SUBSET Due
  BY <1>1, <1>2, Zenon
<1>4. Cardinality(Due) \in Nat /\ Cardinality(H) \in Nat /\ Cardinality(H) >= Cardinality(Due)
  <2>1. Cardinality(Due) \in Nat /\ Cardinality(H) \in Nat
    BY <1>1, <1>3, HaveFinite, Zenon
  <2>. QED
    BY <2>1
<1>5. H = Due
  BY <1>1, <1>3, <1>4, HaveFinite, Zenon
<1>6. lost \cap Due = {} /\ \A id \in Due : server[id].pc = "counted"
  BY <1>2, <1>5
<1>7. ASSUME NEW name \in Names
      PROVE  Counters(Ids)[name] = Cardinality(Have(Due, name))
  <2>1. \A id \in Ids : server[id].pc = "none" => ~Counts(server[id], name)
    BY CountsNothing DEF Progress, Sound
  <2>2. \A id \in Ids \ lost : Counts(server[id], name) => id \in Due
    BY <1>1, <2>1
  <2>3. {id \in Ids \ lost : Counts(server[id], name)} = Have(Due, name)
    BY <1>1, <1>6, <2>2 DEF Have
  <2>. QED
    BY <2>3 DEF Counters
<1>. QED
  BY <1>6, <1>7

\* A step of a request adds to the counters, and nothing to those that were
\* read when all was accounted for.
LEMMA AdvanceReading ==
  ASSUME FiniteSetFacts, Types, Indices, Arrivals, Progress, Reading, Baseline,
         NEW id \in Ids, NEW to \in Request, Advance(id, to)
  PROVE  Reading' /\ Baseline'
<1>1. /\ UNCHANGED <<requests, mode, persistence, run, samples, lost, scrape, baseline>>
  BY DEF Advance, setup, clientVars, observation
<1>2. /\ Ids' = Ids /\ Warm' = Warm /\ Sampled' = Sampled /\ Due' = Due /\ Measuring' = Measuring
      /\ Observing' = Observing /\ Scraped' = Scraped
  BY <1>1 DEF Ids, Total, Prime, Warm, Sampled, Due, Measuring, Observing, Scraped
<1>3. \A x \in Ids : server[x] \in Request /\ server'[x] = IF x = id THEN to ELSE server[x]
  BY DEF Advance, Types
<1>4. \A x \in Ids : server'[x] = server[x] \/ Later(server[x], server'[x])
  BY <1>3 DEF Advance
<1>5. \A x \in Ids : server[x].pc = "counted" => server'[x].pc = "counted"
  BY <1>3, <1>4, SMTT(20) DEF Later
<1>6. Reading'
  <2>1. ASSUME scrape["requests"] # Unread
        PROVE  /\ scrape["requests"] \in Nat
               /\ scrape["requests"] <= Cardinality(Have(Ids \ lost, "requests")')
    <3>. DEFINE A == Have(Ids \ lost, "requests")'
                B == Have(Ids \ lost, "requests")
    <3>1. /\ A = {x \in Ids \ lost : server'[x].pc = "counted"}
          /\ B = {x \in Ids \ lost : server[x].pc = "counted"}
      BY <1>1, <1>2 DEF Have, Counts
    <3>2. A \in SUBSET Ids /\ B \in SUBSET A
      BY <1>5, <3>1, ZenonT(30)
    <3>3. Cardinality(B) <= Cardinality(A) /\ Cardinality(A) \in Nat /\ Cardinality(B) \in Nat
      <4>. HIDE DEF A, B
      <4>. QED
        BY <3>2, IdsFinite, HaveFinite
    <3>4. scrape["requests"] \in Nat /\ scrape["requests"] <= Cardinality(B)
      BY <2>1, Zenon DEF Reading
    <3>. QED
      BY <3>3, <3>4
  <2>2. ASSUME Observing, Scraped, scrape["requests"] >= Cardinality(Due)
        PROVE  /\ lost \cap Due = {}
               /\ \A x \in Due : server'[x].pc = "counted"
               /\ \A name \in Names : /\ scrape[name] \in Nat
                                      /\ scrape[name] <= Cardinality(Have(Due, name)')
               /\ \A name \in Names \ {"ended"} : scrape[name] = Cardinality(Have(Due, name)')
    <3>1. /\ lost \cap Due = {}
          /\ \A x \in Due : server[x].pc = "counted"
          /\ \A name \in Names : /\ scrape[name] \in Nat
                                 /\ scrape[name] <= Cardinality(Have(Due, name))
          /\ \A name \in Names \ {"ended"} : scrape[name] = Cardinality(Have(Due, name))
      BY <2>2 DEF Reading
    <3>2. Due \in SUBSET Ids
      BY <2>2, DueSet
    <3>3. ASSUME NEW name \in Names
          PROVE  /\ Have(Due, name)' = {x \in Due : Counts(server'[x], name)}
                 /\ Cardinality(Have(Due, name)) <= Cardinality(Have(Due, name)')
                 /\ Cardinality(Have(Due, name)) \in Nat
                 /\ Cardinality(Have(Due, name)') \in Nat
                 /\ name # "ended" => Have(Due, name)' = Have(Due, name)
      <4>1. Have(Due, name)' = {x \in Due : Counts(server'[x], name)}
        BY <1>2, SMTT(20) DEF Have
      <4>. QED
        BY <1>4, <3>1, <3>2, <4>1, HaveFrozen, Zenon
    <3>4. ASSUME NEW name \in Names PROVE scrape[name] <= Cardinality(Have(Due, name)')
      <4>. DEFINE a == scrape[name]
                 b == Cardinality(Have(Due, name))
                 c == Cardinality(Have(Due, name)')
      <4>1. a \in Nat /\ a <= b
        BY <3>1, Zenon
      <4>2. b <= c /\ b \in Nat /\ c \in Nat
        BY <3>3, Zenon
      <4>. HIDE DEF a, b, c
      <4>3. a <= c
        BY <4>1, <4>2
      <4>. QED
        BY <4>3 DEF a, c
    <3>5. \A x \in Due : server'[x].pc = "counted"
      BY <1>5, <3>1, <3>2
    <3>. QED
      BY <3>1, <3>3, <3>4, <3>5, ZenonT(30)
  <2>3. (scrape["requests"] = Unread => scrape["ended"] = Unread)'
        /\ (run \in {"priming", "warmup", "measured", "joining"} => scrape["requests"] = Unread)'
    BY <1>1 DEF Reading, Unread
  <2>. QED
    BY <1>1, <1>2, <2>1, <2>2, <2>3, Zenon DEF Reading, Unread
<1>7. Baseline'
  <2>1. ASSUME Measuring
        PROVE  /\ \A x \in Warm : server'[x].pc = "counted"
                                  /\ (persistence = TRUE => server'[x].saved = TRUE)
               /\ \A name \in Names : baseline[name] = Cardinality(Have(Warm, name)')
    <3>1. /\ Warm \in SUBSET Ids
          /\ \A x \in Warm : server[x].pc = "counted" /\ (persistence = TRUE => server[x].saved = TRUE)
          /\ \A name \in Names : baseline[name] = Cardinality(Have(Warm, name))
      BY <2>1, IdsFinite DEF Baseline
    <3>2. persistence = FALSE \/ (\A x \in Warm : server[x].saved = TRUE)
      BY <3>1 DEF Types
    <3>3. ASSUME NEW name \in Names
          PROVE  Have(Warm, name)' = Have(Warm, name)
      <4>1. Have(Warm, name)' = {x \in Warm : Counts(server'[x], name)}
        BY <1>2, SMTT(20) DEF Have
      <4>. QED
        BY <1>4, <3>1, <3>2, <4>1, HaveFrozen, Zenon
    <3>4. \A x \in Warm : server[x].saved = TRUE => server'[x].saved = TRUE
      BY <1>4, <3>1, Zenon DEF Later
    <3>. QED
      BY <1>5, <3>1, <3>3, <3>4, ZenonT(30)
  <2>. QED
    BY <1>1, <1>2, <2>1, Zenon DEF Baseline, Zero
<1>. QED
  BY <1>6, <1>7

-----------------------------------------------------------------------------
\* Steps of the server keep the invariant.
LEMMA ServerKeeps ==
  ASSUME FiniteSetFacts, IInv, Server
  PROVE  IInv'
<1>1. /\ Types /\ Indices /\ Arrivals /\ Progress /\ Reading /\ Baseline /\ Service
      /\ Stored
  BY DEF IInv
<1>2. /\ run' = run /\ run # "reported"
      /\ EntryExpires \/ Restart \/ \E id \in Ids, to \in Request : Advance(id, to)
  BY <1>1, ServerAdvances, Zenon DEF Returned, Advance, EntryExpires, Restart
<1>3. ReportExact' /\ VerifiedIsTrue'
  BY <1>2 DEF ReportExact, VerifiedIsTrue
<1>4. CASE EntryExpires \/ Restart
  <2>1. /\ UNCHANGED <<requests, mode, persistence, flaky, expiry, run, worker, next, expired, results,
                       closed, samples, server, scrape, baseline>>
        /\ UNCHANGED setup /\ Suited' = Suited
    BY <1>4, SuitedStays DEF EntryExpires, Restart, setup, clientVars, observation
  <2>2. Ids' = Ids
    BY <2>1 DEF Ids, Total
  <2>3. Types' /\ Indices' /\ Arrivals' /\ Progress'
    <3>1. lost' \in SUBSET Ids
      BY <1>1, <1>4 DEF EntryExpires, Restart, Types
    <3>2. Types'
      BY <1>1, <2>1, <2>2, <3>1, SMTT(20) DEF Types, Workers
    <3>3. Indices' /\ Arrivals' /\ Progress'
      BY <1>1, <2>1, <2>2, ZenonT(30) DEF Indices, Measuring, Collected, Busy, Workers, Arrivals, Prime,
         Measured, Progress, Sound
    <3>. QED
      BY <3>2, <3>3
  <2>4. Reading'
    <3>1. CASE EntryExpires
      <4>1. lost' = lost
        BY <3>1 DEF EntryExpires
      <4>2. /\ Due' = Due /\ Scraped' = Scraped /\ Observing' = Observing
            /\ \A ids, name : Have(ids, name)' = Have(ids, name)
        BY <2>1, Zenon DEF Due, Warm, Prime, Sampled, Scraped, Observing, Have
      <4>. QED
        BY <1>1, <2>1, <2>2, <4>1, <4>2, Zenon DEF Reading, Unread
    <3>2. CASE Restart
      <4>1. scrape["requests"] = Unread
        BY <3>2 DEF Restart
      <4>2. ~Scraped'
        BY <2>1, <4>1 DEF Scraped, Names
      <4>. QED
        BY <1>1, <2>1, <4>1, <4>2, Zenon DEF Reading, Unread
    <3>. QED
      BY <1>4, <3>1, <3>2
  <2>5. Baseline' /\ Service'
    BY <1>1, <2>1, <2>2 DEF Baseline, Measuring, Warm, Prime, Have, Zero, Service, Clients, Serving, Served,
       Found, Measured, Workers, Collected
  <2>6. Stored'
    <3>1. CASE EntryExpires
      <4>1. expiry = TRUE /\ \A key \in cache' : key \in cache
        BY <1>1, <3>1 DEF EntryExpires, Types
      <4>2. Suited => mode # "warm_hit"
        BY <4>1 DEF Suited, CacheSuits
      <4>3. Suited /\ mode = "miss" => Unfilled'
        BY <1>1, <2>1, <4>1 DEF Stored, Unfilled, Measured
      <4>. QED
        BY <2>1, <4>2, <4>3, Zenon DEF Stored
    <3>2. CASE Restart
      <4>1. cache' = cache
        BY <3>2 DEF Restart
      <4>. QED
        BY <1>1, <2>1, <4>1, StoredStays
    <3>. QED
      BY <1>4, <3>1, <3>2
  <2>. QED
    BY <1>3, <2>3, <2>4, <2>5, <2>6 DEF IInv
<1>5. CASE \E id \in Ids, to \in Request : Advance(id, to)
  BY <1>1, <1>3, <1>5, AdvanceArrivals, AdvanceReading, AdvanceService, AdvanceStored DEF IInv
<1>. QED
  BY <1>2, <1>4, <1>5

-----------------------------------------------------------------------------
\* What /metrics shows are numbers.
LEMMA CountersType ==
  ASSUME FiniteSetFacts, Types
  PROVE  Counters(Ids) \in [Names -> Nat]
<1>1. ASSUME NEW name \in Names
      PROVE  Cardinality({id \in Ids \ lost : Counts(server[id], name)}) \in Nat
  <2>1. {id \in Ids \ lost : Counts(server[id], name)} \in SUBSET Ids
    OBVIOUS
  <2>. QED
    BY <2>1, IdsFinite DEF FiniteSetFacts, SubsetFact, CardinalityFact
<1>. QED
  BY <1>1 DEF Counters

\* One read of /metrics in two parts, the requests first.
LEMMA ScrapeKeeps ==
  ASSUME FiniteSetFacts, IInv, Scrape
  PROVE  IInv'
<1>1. /\ Observing /\ UNCHANGED <<setup, run, clientVars, serverVars, baseline>>
      /\ UNCHANGED <<requests, mode, persistence, run, samples, server, cache, lost>>
  BY DEF Scrape, setup, clientVars, serverVars
<1>2. /\ Ids' = Ids /\ Due' = Due /\ Observing' = Observing
      /\ \A S, name : Have(S, name)' = Have(S, name)
  BY <1>1 DEF Ids, Total, Due, Warm, Prime, Sampled, Observing, Have
<1>3. Types /\ Indices /\ Arrivals /\ Progress /\ Reading /\ scrape \in [Names -> Int]
  BY DEF IInv, Types
<1>. DEFINE now == Counters(Ids)
<1>4. now \in [Names -> Nat] /\ now["requests"] = Cardinality(Have(Ids \ lost, "requests"))
  <2>1. "requests" \in Names
    BY DEF Names
  <2>. QED
    BY <1>3, <2>1, CountersType DEF Counters, Have
<1>5. Unread \notin Nat /\ Unread \in Int
  BY DEF Unread
<1>6. "requests" \in Names /\ "ended" \in Names /\ "requests" # "ended"
  BY DEF Names
<1>. HIDE DEF now
<1>7. CASE scrape["requests"] = Unread /\ scrape' = [scrape EXCEPT !["requests"] = now["requests"]]
  <2>1. /\ scrape' \in [Names -> Int] /\ scrape'["requests"] = now["requests"]
        /\ scrape'["ended"] = scrape["ended"] /\ now["requests"] \in Nat
    BY <1>3, <1>4, <1>6, <1>7
  <2>2. ~Scraped'
    BY <1>3, <1>6, <1>7, <2>1 DEF Reading, Scraped
  <2>3. now["requests"] <= Cardinality(Have(Ids \ lost, "requests"))
    BY <1>4, <2>1
  <2>4. Reading'
    <3>1. (run \notin {"priming", "warmup", "measured", "joining"})'
      BY <1>1 DEF Observing
    <3>2. Have(Ids \ lost, "requests")' = Have(Ids \ lost, "requests")
      BY <1>1, <1>2 DEF Have
    <3>. QED
      BY <1>5, <2>1, <2>2, <2>3, <3>1, <3>2 DEF Reading, Unread
  <2>. QED
    BY <1>1, <2>1, <2>4, ReadFrame
<1>8. CASE scrape["requests"] # Unread /\ scrape' = [now EXCEPT !["requests"] = scrape["requests"]]
  <2>1. /\ scrape' \in [Names -> Int] /\ scrape'["requests"] = scrape["requests"]
        /\ \A name \in Names : name # "requests" => scrape'[name] = now[name]
        /\ \A name \in Names : now[name] \in Nat
    <3>1. scrape["requests"] \in Int /\ now \in [Names -> Int] /\ \A name \in Names : now[name] \in Nat
      BY <1>3, <1>4, <1>6
    <3>. QED
      BY <1>6, <1>8, <3>1
  <2>2. /\ scrape["requests"] \in Nat
        /\ scrape["requests"] <= Cardinality(Have(Ids \ lost, "requests"))
    BY <1>3, <1>8, SMTT(20) DEF Reading
  <2>3. ASSUME scrape["requests"] >= Cardinality(Due)
        PROVE  /\ lost \cap Due = {}
               /\ \A id \in Due : server[id].pc = "counted"
               /\ \A name \in Names : /\ scrape'[name] \in Nat
                                      /\ scrape'[name] <= Cardinality(Have(Due, name))
                                      /\ scrape'[name] = Cardinality(Have(Due, name))
    <3>1. /\ lost \cap Due = {}
          /\ \A id \in Due : server[id].pc = "counted"
          /\ \A name \in Names : now[name] = Cardinality(Have(Due, name))
      BY <1>1, <1>3, <2>2, <2>3, ReadAll DEF now
    <3>2. scrape["requests"] = now["requests"]
      <4>1. Due \subseteq Ids /\ IsFiniteSet(Due)
        BY <1>1, <1>3, DueSet
      <4>2. /\ Cardinality(Have(Due, "requests")) <= Cardinality(Due)
            /\ Cardinality(Due) \in Nat /\ Cardinality(Have(Due, "requests")) \in Nat
        <5>1. Have(Due, "requests") \in SUBSET Due
          BY DEF Have
        <5>. QED
          BY <4>1, <5>1, HaveFinite
      <4>3. now["requests"] = Cardinality(Have(Due, "requests"))
        BY <1>6, <3>1
      <4>. QED
        BY <1>4, <2>2, <2>3, <4>2, <4>3
    <3>3. \A name \in Names : scrape'[name] = now[name]
      BY <2>1, <3>2
    <3>4. \A name \in Names : now[name] \in Nat /\ now[name] <= now[name]
      BY <2>1
    <3>. QED
      BY <3>1, <3>3, <3>4
  <2>4. Reading'
    <3>1. (run \notin {"priming", "warmup", "measured", "joining"})'
      BY <1>1 DEF Observing
    <3>2. /\ Have(Ids \ lost, "requests")' = Have(Ids \ lost, "requests")
          /\ \A name : Have(Due, name)' = Have(Due, name)
      BY <1>1, <1>2 DEF Have
    <3>. QED
      BY <1>1, <1>2, <1>5, <2>1, <2>2, <2>3, <3>1, <3>2 DEF Reading, Unread
  <2>. QED
    BY <1>1, <2>1, <2>4, ReadFrame
<1>. QED
  BY <1>7, <1>8 DEF Scrape, now

-----------------------------------------------------------------------------
\* Among requests that were all counted, the history records that have ended
\* are all of them when as many have been read as there are requests.
LEMMA AllEnded ==
  ASSUME FiniteSetFacts, Types, Progress, NEW S \in SUBSET Ids, NEW n \in Nat,
         n <= Cardinality(Have(S, "ended")),
         persistence = TRUE => n >= Cardinality(S)
  PROVE  /\ n = Cardinality(Have(S, "ended"))
         /\ persistence = TRUE => \A id \in S : server[id].saved = TRUE
<1>. DEFINE H == Have(S, "ended")
<1>1. IsFiniteSet(S)
  BY IdsFinite DEF FiniteSetFacts, SubsetFact
<1>2. /\ H \in SUBSET S
      /\ \A id \in S : server[id].saved \in BOOLEAN
      /\ H = {id \in S : server[id].saved = TRUE}
  <2>1. \A id \in S : server[id].saved \in BOOLEAN
    BY DEF Types, Request
  <2>. QED
    BY <2>1 DEF Have, Counts
<1>3. Cardinality(S) \in Nat /\ Cardinality(H) \in Nat /\ Cardinality(H) <= Cardinality(S)
      /\ (Cardinality(H) >= Cardinality(S) => H = S)
  <2>. HIDE DEF H
  <2>. QED
    BY <1>1, <1>2, HaveFinite
<1>4. CASE persistence = TRUE
  <2>1. n >= Cardinality(S) /\ n <= Cardinality(H)
    BY <1>4
  <2>2. n = Cardinality(H) /\ Cardinality(H) >= Cardinality(S)
    BY <1>3, <2>1
  <2>. QED
    BY <1>2, <1>3, <2>2
<1>5. CASE persistence = FALSE
  <2>1. H = {}
    BY <1>2, <1>5 DEF Progress, Sound
  <2>2. Cardinality(H) = 0
    BY <2>1 DEF FiniteSetFacts, EmptyFact
  <2>. QED
    BY <1>5, <2>2
<1>. QED
  BY <1>4, <1>5, Zenon DEF Types

\* The warm-up is accounted for, to the last record, when the measurement
\* begins.
LEMMA WarmupSettlesKeeps ==
  ASSUME FiniteSetFacts, IInv, WarmupSettles
  PROVE  IInv'
<1>1. /\ run = "settling" /\ Scraped /\ Again /\ Observing
      /\ UNCHANGED <<requests, mode, persistence, flaky, expiry, results, server, cache, lost>>
      /\ UNCHANGED <<setup, serverVars>>
  BY SMTT(20) DEF WarmupSettles, setup, serverVars, Observing
<1>2. /\ Types /\ Indices /\ Arrivals /\ Progress /\ Reading /\ Baseline /\ Service
      /\ Stored
      /\ scrape \in [Names -> Int] /\ results = <<>> /\ baseline = Zero
  BY <1>1, Zenon DEF IInv, Types, Indices, Baseline
<1>3. CASE ~Settled(WarmCount)
  BY <1>1, <1>3, FailureKeeps DEF WarmupSettles
<1>4. CASE Settled(WarmCount)
  <2>1. /\ run' = "measured" /\ baseline' = scrape
        /\ worker' = StartWorkers(Workers) /\ next' = 0 /\ expired' = FALSE
        /\ closed' = FALSE /\ samples' = <<>> /\ results' = <<>>
    BY <1>1, <1>2, <1>4 DEF WarmupSettles
  <2>2. /\ Ids' = Ids /\ Warm' = Warm /\ Prime' = Prime /\ Found' = Found
        /\ \A S, name : Have(S, name)' = Have(S, name)
    BY <1>1 DEF Ids, Total, Warm, Prime, Found, Have
  <2>3. /\ Workers' = Workers /\ \A w \in Workers : worker'[w] = Looping
        /\ worker' \in [Workers -> WorkerStates]
    <3>1. Looping \in WorkerStates
      BY DEF Looping, WorkerStates
    <3>. QED
      BY <2>1, <3>1 DEF StartWorkers, Workers
  <2>4. /\ Measuring' /\ ~Measuring /\ Collected' = <<>> /\ DOMAIN Collected' = {}
        /\ \A w \in Workers : ~Busy(w)' /\ worker'[w].pc = "loop"
    <3>1. <<>> \o <<>> = <<>> /\ DOMAIN <<>> = {}
      OBVIOUS
    <3>2. Collected' = <<>>
      BY <2>1, <3>1 DEF Collected
    <3>3. \A w \in Workers : worker'[w].pc = "loop"
      BY <2>3 DEF Looping
    <3>. QED
      BY <1>1, <2>1, <3>1, <3>2, <3>3 DEF Measuring, Busy
  <2>5. /\ scrape' \in [Names -> Int] /\ scrape'["requests"] = Unread /\ scrape'["ended"] = Unread
    BY <1>1 DEF Again, Names, Unread
  <2>6. Types'
    <3>1. samples' \in Seq(Nat \X BOOLEAN)
      BY <2>1
    <3>2. baseline' \in [Names -> Int]
      BY <1>2, <2>1
    <3>3. next' \in Nat
      BY <2>1, SMTT(20)
    <3>. QED
      BY <1>1, <1>2, <2>1, <2>2, <2>3, <2>5, <3>1, <3>2, <3>3, Zenon DEF Types
  <2>7. Indices'
    <3>1. \A n \in Nat : ~(n < next')
      BY <2>1, SMTT(20)
    <3>. QED
      BY <2>1, <2>3, <2>4, <3>1, Zenon DEF Indices
  <2>8. Arrivals' /\ Progress'
    <3>1. \A n \in 0..(requests - 1) : server[Measured(n)].pc = "none"
      BY <1>1, <1>2, <2>4, ZenonT(30) DEF Arrivals
    <3>. QED
      BY <1>1, <1>2, <2>1, <2>2, <3>1, ZenonT(30) DEF Arrivals, Measured, Progress, Sound
  <2>9. Reading'
    <3>1. ~Observing'
      BY <2>1 DEF Observing
    <3>. QED
      BY <2>5, <3>1 DEF Reading, Unread
  <2>10. /\ \A id \in Warm : server[id].pc = "counted" /\ (persistence = TRUE => server[id].saved = TRUE)
         /\ \A name \in Names : scrape[name] = Cardinality(Have(Warm, name))
    <3>1. Due = Warm /\ Warm \in SUBSET Ids /\ Cardinality(Warm) = WarmCount
      BY <1>1, <1>2, IdsFinite DEF Due
    <3>2. /\ "requests" \in Names /\ "ended" \in Names
          /\ baseline["requests"] = 0 /\ baseline["ended"] = 0
      BY <1>2 DEF Zero, Names
    <3>3. scrape["requests"] \in Int /\ scrape["ended"] \in Int
      BY <1>2, <3>2
    <3>4. Since("requests") = scrape["requests"] /\ Since("ended") = scrape["ended"]
      BY <3>2, <3>3 DEF Since
    <3>5. scrape["requests"] >= Cardinality(Due)
          /\ (persistence = TRUE => scrape["ended"] >= Cardinality(Warm))
      BY <1>4, <3>1, <3>4, SMTT(20) DEF Settled
    <3>6. /\ \A id \in Warm : server[id].pc = "counted"
          /\ scrape["ended"] \in Nat /\ scrape["ended"] <= Cardinality(Have(Warm, "ended"))
          /\ \A name \in Names \ {"ended"} : scrape[name] = Cardinality(Have(Warm, name))
      BY <1>1, <1>2, <3>1, <3>2, <3>5 DEF Reading
    <3>7. /\ scrape["ended"] = Cardinality(Have(Warm, "ended"))
          /\ persistence = TRUE => \A id \in Warm : server[id].saved = TRUE
      BY <1>2, <3>1, <3>5, <3>6, AllEnded, Zenon
    <3>. QED
      BY <3>6, <3>7
  <2>11. Baseline'
    BY <1>1, <2>1, <2>2, <2>10, ZenonT(30) DEF Baseline
  <2>12. Service' /\ Stored'
    <3>1. Clients'
      BY <2>3, <2>4, Zenon DEF Clients
    <3>2. Stored'
      BY <1>1, <1>2, <2>1, StoredStays
    <3>. QED
      BY <3>1, <3>2, Zenon DEF Service
  <2>13. ReportExact' /\ VerifiedIsTrue'
    BY <2>1 DEF ReportExact, VerifiedIsTrue
  <2>. QED
    BY <2>6, <2>7, <2>8, <2>9, <2>11, <2>12, <2>13 DEF IInv
<1>. QED
  BY <1>3, <1>4

-----------------------------------------------------------------------------
\* When the counters have grown by as many requests as there are samples, what
\* they have grown by is what was counted of the sampled requests.
LEMMA Attributed ==
  ASSUME FiniteSetFacts, IInv, run = "observing", Scraped, Since("requests") >= Taken
  PROVE  /\ lost \cap Sampled = {} /\ \A id \in Sampled : server[id].pc = "counted"
         /\ \A name \in Names \ {"ended"} : Since(name) = Cardinality(Have(Sampled, name))
         /\ (persistence = TRUE => Since("ended") >= Taken) =>
              Since("ended") = Cardinality(Have(Sampled, "ended"))
<1>1. /\ Types /\ Indices /\ Arrivals /\ Progress /\ Reading /\ Baseline /\ Observing /\ Measuring
      /\ scrape \in [Names -> Int] /\ baseline \in [Names -> Int]
  BY DEF IInv, Types, Observing, Measuring
<1>2. /\ Due = Warm \cup Sampled /\ Sampled \cap Warm = {} /\ Due \in SUBSET Ids
      /\ IsFiniteSet(Warm) /\ IsFiniteSet(Sampled) /\ Warm \in SUBSET Ids /\ Sampled \in SUBSET Ids
      /\ Cardinality(Warm) = WarmCount /\ Cardinality(Sampled) = Taken
  BY <1>1, DueSet, IdsFinite, SampledSet DEF Due
<1>3. WarmCount \in Nat /\ Taken \in Nat /\ Cardinality(Due) = WarmCount + Taken
  <2>1. WarmCount \in Nat /\ Taken \in Nat
    BY <1>2 DEF FiniteSetFacts, CardinalityFact
  <2>. QED
    BY <1>1, <2>1, DueSet
<1>4. ASSUME NEW name \in Names
      PROVE  /\ Cardinality(Have(Due, name)) =
                  Cardinality(Have(Warm, name)) + Cardinality(Have(Sampled, name))
             /\ Cardinality(Have(Warm, name)) \in Nat /\ Cardinality(Have(Sampled, name)) \in Nat
  <2>1. IsFiniteSet(Have(Warm, name)) /\ IsFiniteSet(Have(Sampled, name))
    BY <1>2 DEF FiniteSetFacts, SubsetFact, Have
  <2>2. /\ Have(Due, name) = Have(Warm, name) \cup Have(Sampled, name)
        /\ Have(Warm, name) \cap Have(Sampled, name) = {}
    BY <1>2 DEF Have
  <2>. QED
    BY <2>1, <2>2, DisjointUnion DEF FiniteSetFacts, CardinalityFact
<1>5. /\ \A id \in Warm : server[id].pc = "counted" /\ (persistence = TRUE => server[id].saved = TRUE)
      /\ \A name \in Names : baseline[name] = Cardinality(Have(Warm, name))
  BY <1>1 DEF Baseline
<1>6. "requests" \in Names /\ "ended" \in Names
  BY DEF Names
<1>7. scrape["requests"] >= Cardinality(Due)
  <2>1. Have(Warm, "requests") = Warm
    BY <1>5 DEF Have, Counts
  <2>2. baseline["requests"] = WarmCount /\ scrape["requests"] \in Int
    BY <1>1, <1>2, <1>5, <1>6, <2>1
  <2>. QED
    BY <1>3, <2>2 DEF Since
<1>8. /\ lost \cap Due = {} /\ \A id \in Due : server[id].pc = "counted"
      /\ scrape["ended"] \in Nat /\ scrape["ended"] <= Cardinality(Have(Due, "ended"))
      /\ \A name \in Names \ {"ended"} : scrape[name] = Cardinality(Have(Due, name))
  BY <1>1, <1>6, <1>7 DEF Reading
<1>9. ASSUME NEW name \in Names, scrape[name] = Cardinality(Have(Due, name))
      PROVE  Since(name) = Cardinality(Have(Sampled, name))
  <2>1. /\ scrape[name] = Cardinality(Have(Warm, name)) + Cardinality(Have(Sampled, name))
        /\ baseline[name] = Cardinality(Have(Warm, name))
        /\ Cardinality(Have(Warm, name)) \in Nat /\ Cardinality(Have(Sampled, name)) \in Nat
    BY <1>4, <1>5, <1>9, Zenon
  <2>. QED
    BY <2>1, SMTT(20) DEF Since
<1>10. ASSUME persistence = TRUE => Since("ended") >= Taken
       PROVE  Since("ended") = Cardinality(Have(Sampled, "ended"))
  <2>1. ASSUME persistence = TRUE
        PROVE  scrape["ended"] >= Cardinality(Due)
    <3>1. Have(Warm, "ended") = Warm
      BY <1>5, <2>1 DEF Have, Counts
    <3>2. baseline["ended"] = WarmCount /\ Since("ended") >= Taken
      BY <1>2, <1>5, <1>6, <1>10, <2>1, <3>1
    <3>. QED
      BY <1>3, <1>8, <3>2 DEF Since
  <2>2. scrape["ended"] = Cardinality(Have(Due, "ended"))
    BY <1>1, <1>2, <1>8, <2>1, AllEnded, Zenon
  <2>. QED
    BY <1>6, <1>9, <2>2
<1>. QED
  BY <1>2, <1>8, <1>9, <1>10, Zenon

\* A counter that has grown by one for each sample is one that every sampled
\* request has passed.
LEMMA EachOne ==
  ASSUME FiniteSetFacts, IsFiniteSet(Sampled), NEW name,
         Cardinality(Have(Sampled, name)) = Cardinality(Sampled)
  PROVE  \A id \in Sampled : Counts(server[id], name)
<1>1. Have(Sampled, name) \subseteq Sampled
  BY DEF Have
<1>2. Have(Sampled, name) = Sampled
  BY <1>1 DEF FiniteSetFacts, SubsetFact
<1>. QED
  BY <1>2 DEF Have

\* A settled report: exact.
LEMMA SettledExact ==
  ASSUME FiniteSetFacts, IInv, run = "observing", Scraped, Settled(Taken)
  PROVE  [name \in Names |-> Since(name)] = Counters(Sampled)
<1>1. Since("requests") >= Taken /\ (persistence = TRUE => Since("ended") >= Taken)
  BY DEF Settled
<1>2. /\ lost \cap Sampled = {}
      /\ \A name \in Names : Since(name) = Cardinality(Have(Sampled, name))
  BY <1>1, Attributed, Zenon
<1>3. \A name \in Names : Counters(Sampled)[name] = Since(name)
  BY <1>2, CountersAre
<1>. QED
  BY <1>3 DEF Counters

\* Verified is said of nothing but what was served in the mode.
LEMMA VerifiedServed ==
  ASSUME FiniteSetFacts, IInv, run = "observing", Scraped,
         NEW seen, seen = [name \in Names |-> Since(name)],
         Verified(seen, Taken)
  PROVE  \A id \in Sampled : ServedAsMode(id)
<1>1. /\ IsFiniteSet(Sampled) /\ Cardinality(Sampled) = Taken /\ Sampled \subseteq Ids
      /\ Taken \in Nat
  BY SampledSet DEF FiniteSetFacts, CardinalityFact, IInv
<1>2. \A name \in Names : seen[name] = Since(name)
  OBVIOUS
<1>3. /\ "requests" \in Names /\ "hits" \in Names /\ "misses" \in Names /\ "writes" \in Names
      /\ "attempts" \in Names
      /\ {"hits", "misses", "writes", "attempts"} \cap {"ended"} = {}
  BY DEF Names
<1>4. Since("requests") = Taken
  BY <1>2, <1>3 DEF Verified
<1>5. Since("requests") >= Taken
  BY <1>1, <1>4
<1>6. \A name \in Names \ {"ended"} : Since(name) = Cardinality(Have(Sampled, name))
  BY <1>5, Attributed
<1>7. ASSUME NEW name \in {"hits", "misses", "writes", "attempts"}, seen[name] = Taken
      PROVE  \A id \in Sampled : Counts(server[id], name)
  BY <1>1, <1>2, <1>3, <1>6, <1>7, EachOne
<1>8. CASE mode = "warm_hit"
  <2>1. seen["hits"] = Taken
    BY <1>8 DEF Verified
  <2>2. \A id \in Sampled : Counts(server[id], "hits")
    BY <1>7, <2>1
  <2>. QED
    BY <1>8, <2>2 DEF Counts, ServedAsMode
<1>9. CASE mode = "miss"
  <2>1. seen["misses"] = Taken /\ seen["writes"] = Taken
    BY <1>9 DEF Verified
  <2>2. \A id \in Sampled : Counts(server[id], "misses") /\ Counts(server[id], "writes")
    BY <1>7, <2>1
  <2>. QED
    BY <1>9, <2>2 DEF Counts, ServedAsMode
<1>10. CASE mode = "disabled"
  <2>1. seen["attempts"] = Taken
    BY <1>10 DEF Verified
  <2>2. \A id \in Sampled : Counts(server[id], "attempts")
    BY <1>7, <2>1
  <2>3. \A id \in Sampled : server[id].lookup = "none"
    BY <1>1, <1>10 DEF IInv, Progress, Sound
  <2>. QED
    BY <1>10, <2>2, <2>3 DEF Counts, ServedAsMode
<1>. QED
  BY <1>8, <1>9, <1>10 DEF IInv, Types

\* Without a failure of a request or of the cache, a settled report verifies.
LEMMA ServedVerified ==
  ASSUME FiniteSetFacts, IInv, run = "observing", Scraped,
         NEW seen, seen = [name \in Names |-> Since(name)],
         Settled(Taken), ~Failed, Suited
  PROVE  Verified(seen, Taken)
<1>1. /\ IsFiniteSet(Sampled) /\ Cardinality(Sampled) = Taken /\ Taken \in Nat
      /\ Sampled = {Measured(samples[i][1]) : i \in 1..Taken}
      /\ Types /\ Indices /\ Measuring
  BY SampledSet DEF FiniteSetFacts, CardinalityFact, IInv, Measuring
<1>2. /\ Collected = samples /\ DOMAIN samples = 1..Taken
      /\ \A i \in DOMAIN samples : samples[i][2] = TRUE
  <2>1. results = <<>>
    BY <1>1 DEF Indices
  <2>2. \A i \in DOMAIN samples : samples[i][2] \in BOOLEAN
    BY <1>1, CollectedSeq, SMTT(20)
  <2>. QED
    BY <1>1, <2>1, <2>2, CollectedSeq DEF Failed
<1>3. \A id \in Sampled : Served(server[id], Found)
  BY <1>1, <1>2, ZenonT(30) DEF IInv, Service, Clients
<1>4. /\ \A id \in Sampled : server[id].pc = "counted"
      /\ \A name \in Names \ {"ended"} : Since(name) = Cardinality(Have(Sampled, name))
  BY Attributed DEF Settled
<1>5. \A name \in Names : seen[name] = Since(name)
  OBVIOUS
<1>6. ASSUME NEW name \in Names \ {"ended"}, \A id \in Sampled : Counts(server[id], name)
      PROVE  seen[name] = Taken
  <2>1. Have(Sampled, name) = Sampled
    BY <1>6 DEF Have
  <2>. QED
    BY <1>1, <1>4, <1>5, <2>1, Zenon
<1>7. ASSUME NEW name \in Names \ {"ended"}, \A id \in Sampled : ~Counts(server[id], name)
      PROVE  seen[name] = 0
  <2>1. Have(Sampled, name) = {}
    BY <1>7 DEF Have
  <2>2. Cardinality(Have(Sampled, name)) = 0
    BY <2>1 DEF FiniteSetFacts, EmptyFact
  <2>. QED
    BY <1>4, <1>5, <2>2
<1>8. {"requests", "hits", "misses", "lookupErrors", "attempts", "writes", "writeErrors"}
        \subseteq Names \ {"ended"}
  BY DEF Names
<1>9. Found \in {"hit", "miss", "none"}
  BY DEF Found
<1>10. /\ seen["requests"] = Taken /\ seen["lookupErrors"] = 0 /\ seen["writeErrors"] = 0
  <2>1. \A id \in Sampled : /\ Counts(server[id], "requests") /\ ~Counts(server[id], "lookupErrors")
                            /\ ~Counts(server[id], "writeErrors")
    BY <1>3, <1>4, <1>9 DEF Counts, Served
  <2>. QED
    BY <1>6, <1>7, <1>8, <2>1
<1>11. CASE mode = "warm_hit"
  <2>1. \A id \in Sampled : /\ Counts(server[id], "hits") /\ ~Counts(server[id], "misses")
                            /\ ~Counts(server[id], "attempts")
    BY <1>3, <1>11, Zenon DEF Counts, Served, Found
  <2>2. seen["hits"] = Taken /\ seen["misses"] = 0 /\ seen["attempts"] = 0
    BY <1>6, <1>7, <1>8, <2>1
  <2>. QED
    BY <1>10, <1>11, <2>2 DEF Verified
<1>12. CASE mode = "miss"
  <2>1. \A id \in Sampled : /\ Counts(server[id], "misses") /\ ~Counts(server[id], "hits")
                            /\ Counts(server[id], "attempts") /\ Counts(server[id], "writes")
    BY <1>3, <1>12, Zenon DEF Counts, Served, Found
  <2>2. seen["misses"] = Taken /\ seen["hits"] = 0 /\ seen["attempts"] = Taken
        /\ seen["writes"] = Taken
    BY <1>6, <1>7, <1>8, <2>1
  <2>. QED
    BY <1>10, <1>12, <2>2 DEF Verified
<1>13. CASE mode = "disabled"
  <2>1. \A id \in Sampled : /\ ~Counts(server[id], "misses") /\ ~Counts(server[id], "hits")
                            /\ Counts(server[id], "attempts")
    BY <1>3, <1>13, Zenon DEF Counts, Served, Found
  <2>2. seen["misses"] = 0 /\ seen["hits"] = 0 /\ seen["attempts"] = Taken
    BY <1>6, <1>7, <1>8, <2>1
  <2>3. seen["hits"] + seen["misses"] = 0
    BY <2>2
  <2>. QED
    BY <1>10, <1>13, <2>2, <2>3 DEF Verified
<1>. QED
  BY <1>1, <1>11, <1>12, <1>13 DEF Types

\* The report is made from counters that account for the measurement, or from
\* the last ones read before the deadline.
LEMMA MeasurementSettlesKeeps ==
  ASSUME FiniteSetFacts, IInv, MeasurementSettles
  PROVE  IInv'
<1>. DEFINE seen == [name \in Names |-> Since(name)]
<1>1. /\ run = "observing" /\ Scraped /\ Again
      /\ UNCHANGED <<requests, mode, persistence, flaky, expiry, worker, next, expired, results, closed,
                     samples, server, cache, lost, baseline>>
      /\ UNCHANGED <<setup, clientVars, serverVars, baseline>>
  BY DEF MeasurementSettles, setup, clientVars, serverVars
<1>2. CASE run' = "failed"
  BY <1>1, <1>2, FailureKeeps
<1>3. CASE run' # "failed"
  <2>1. /\ run' = "reported"
        /\ report' = [settled |-> Settled(Taken), verified |-> Verified(seen, Taken),
                      seen |-> seen]
    BY <1>3 DEF MeasurementSettles
  <2>2. /\ report'.settled = Settled(Taken) /\ report'.verified = Verified(seen, Taken)
        /\ report'.seen = seen
    BY <2>1, SMTT(20)
  <2>3. /\ Ids' = Ids /\ Workers' = Workers /\ Prime' = Prime /\ Warm' = Warm
        /\ Collected' = Collected /\ \A w \in Workers : Busy(w)' = Busy(w)
        /\ Measuring' /\ Measuring /\ Sampled' = Sampled /\ Failed' = Failed
        /\ Counters(Sampled)' = Counters(Sampled)
    BY <1>1, <2>1, Zenon DEF Ids, Total, Workers, Prime, Warm, Collected, Busy, Measuring, Sampled, Failed,
       Counters
  <2>4. /\ scrape' \in [Names -> Int] /\ scrape'["requests"] = Unread /\ scrape'["ended"] = Unread
    BY <1>1 DEF Again, Names, Unread
  <2>5. Types'
    <3>1. run' \in {"priming", "warmup", "settling", "measured", "joining", "observing",
                    "reported", "failed"}
      BY <2>1
    <3>. QED
      BY <1>1, <2>3, <2>4, <3>1, ZenonT(30) DEF IInv, Types
  <2>6. Indices'
    BY <1>1, <2>1, <2>3, Zenon DEF IInv, Indices
  <2>7. Arrivals' /\ Progress'
    BY <1>1, <2>1, <2>3, ZenonT(30) DEF IInv, Arrivals, Measured, Progress, Sound
  <2>8. Reading'
    <3>1. ~Observing'
      BY <2>1, SMTT(20) DEF Observing
    <3>. QED
      BY <2>4, <3>1 DEF Reading, Unread
  <2>9. Baseline'
    BY <1>1, <2>1, <2>3, Zenon DEF IInv, Baseline, Have
  <2>10. Service' /\ Stored' /\ Suited' = Suited
    <3>1. Suited => Clients'
      BY <1>1, <2>3, Zenon DEF IInv, Service, Clients, Found
    <3>2. Suited' = Suited
      BY <1>1, SuitedStays
    <3>3. Stored'
      BY <1>1, <2>1, StoredStays DEF IInv
    <3>. QED
      BY <3>1, <3>2, <3>3 DEF Service
  <2>. HIDE DEF seen
  <2>11. ReportExact'
    <3>1. Settled(Taken) => seen = Counters(Sampled)
      BY <1>1, SettledExact DEF seen
    <3>. QED
      BY <2>2, <2>3, <3>1 DEF ReportExact
  <2>12. VerifiedIsTrue'
    <3>1. Verified(seen, Taken) => \A id \in Sampled : ServedAsMode(id)
      BY <1>1, VerifiedServed DEF seen
    <3>2. \A id \in Sampled : ServedAsMode(id)' = ServedAsMode(id)
      BY <1>1 DEF ServedAsMode
    <3>3. Settled(Taken) /\ ~Failed /\ Suited => Verified(seen, Taken)
      BY <1>1, ServedVerified, Zenon DEF seen
    <3>4. (~flaky /\ CacheSuits)' => Suited
      <4>1. flaky \in BOOLEAN
        BY DEF IInv, Types
      <4>. QED
        BY <1>1, <2>10, <4>1 DEF Suited
    <3>. QED
      BY <1>1, <2>2, <2>3, <3>1, <3>2, <3>3, <3>4 DEF VerifiedIsTrue
  <2>. QED
    BY <2>5, <2>6, <2>7, <2>8, <2>9, <2>10, <2>11, <2>12 DEF IInv
<1>. QED
  BY <1>2, <1>3

-----------------------------------------------------------------------------
\* A load test begins in the invariant.
LEMMA InitHolds == Init => IInv
<1>. SUFFICES ASSUME Init
              PROVE  IInv
  OBVIOUS
<1>1. PICK s \in Setups :
        /\ requests = s.requests /\ mode = s.mode /\ persistence = s.persistence /\ flaky = s.flaky
        /\ leftover = s.leftover /\ expiry = s.expiry
        /\ worker = StartWorkers(s.pool)
  BY DEF Init
<1>2. /\ requests \in Nat \ {0} /\ mode \in {"miss", "warm_hit", "disabled"}
      /\ persistence \in BOOLEAN /\ flaky \in BOOLEAN /\ expiry \in BOOLEAN
  BY <1>1, LoadAssumption
<1>3. /\ run = IF mode = "warm_hit" THEN "priming" ELSE "warmup"
      /\ next = 0 /\ expired = FALSE /\ results = <<>> /\ closed = FALSE /\ samples = <<>>
      /\ server = [id \in Ids |-> Fresh] /\ cache = leftover /\ lost = {}
      /\ scrape = [name \in Names |-> Unread] /\ baseline = Zero
  BY DEF Init
<1>4. worker \in [Workers -> WorkerStates]
  <2>1. Looping \in WorkerStates
    BY DEF Looping, WorkerStates
  <2>. QED
    BY <1>1, <2>1 DEF StartWorkers, Workers
<1>5. Fresh \in Request /\ Fresh.pc = "none" /\ Sound(Fresh)
  BY DEF Fresh, Request, Sound
<1>6. scrape \in [Names -> Int] /\ scrape["requests"] = Unread /\ scrape["ended"] = Unread
  BY <1>3 DEF Names, Unread
<1>7. Types
  <2>1. baseline \in [Names -> Int] /\ next \in Nat
    BY <1>3 DEF Zero
  <2>2. samples \in Seq(Nat \X BOOLEAN) /\ results \in Seq(Nat \X BOOLEAN)
    BY <1>3
  <2>3. server \in [Ids -> Request] /\ lost \in SUBSET Ids
    BY <1>3, <1>5
  <2>. QED
    BY <1>2, <1>3, <1>4, <1>6, <2>1, <2>2, <2>3, Zenon DEF Types
<1>8. \A id \in Ids : server[id] = Fresh
  BY <1>3, SMTT(20)
<1>9. Indices
  BY <1>3, Zenon DEF Indices, Measuring
<1>10. Arrivals
  <2>1. Prime \in Ids /\ \A n \in 0..(requests - 1) : Measured(n) \in Ids
    BY <1>7, IdKinds
  <2>. QED
    BY <1>3, <1>5, <1>8, <2>1 DEF Arrivals
<1>11. Progress
  BY <1>5, <1>8 DEF Progress
<1>12. Reading
  BY <1>3, <1>6 DEF Reading, Observing
<1>13. Baseline
  BY <1>3 DEF Baseline, Measuring
<1>14. Service /\ Stored
  <2>1. Service
    BY <1>3 DEF Service, Measuring
  <2>2. Prime \in Ids /\ \A n \in 0..(requests - 1) : Measured(n) \in Ids
    BY <1>7, IdKinds
  <2>3. ASSUME Suited, mode = "miss", NEW n \in 0..(requests - 1)
        PROVE  Offset + n \notin cache
    <3>1. Key(Measured(n)) = Offset + n /\ Measured(n)[1] = "measured"
      BY <2>3 DEF Key, Measured
    <3>. QED
      BY <1>3, <2>2, <2>3, <3>1 DEF Suited, CacheSuits
  <2>4. server[Prime] = Fresh /\ Primed(Fresh) /\ Fresh.lookup = "none" /\ Fresh.write = "none"
    BY <1>8, <2>2 DEF Primed, Fresh
  <2>5. Suited /\ mode = "miss" => Unfilled
    BY <2>3 DEF Unfilled
  <2>. QED
    BY <1>3, <2>1, <2>4, <2>5 DEF Stored
<1>15. ReportExact /\ VerifiedIsTrue
  BY <1>3 DEF ReportExact, VerifiedIsTrue
<1>. QED
  BY <1>7, <1>9, <1>10, <1>11, <1>12, <1>13, <1>14, <1>15 DEF IInv

\* Every step of the load test, of its server and of its monitor keeps the
\* invariant.
LEMMA NextKeeps ==
  ASSUME FiniteSetFacts, IInv, [Next]_vars
  PROVE  IInv'
<1>1. CASE UNCHANGED vars
  <2>1. /\ UNCHANGED <<requests, mode, persistence, flaky, expiry, run, worker, next, expired,
                       results, closed, samples, server, cache, lost, scrape, baseline, report>>
        /\ UNCHANGED setup
    BY <1>1, SMTT(20) DEF vars, setup, clientVars, serverVars, observation
  <2>2. /\ Ids' = Ids /\ Workers' = Workers /\ Collected' = Collected /\ Measuring' = Measuring
        /\ Sampled' = Sampled /\ Failed' = Failed /\ Counters(Sampled)' = Counters(Sampled)
        /\ \A w \in Workers : Busy(w)' = Busy(w)
    BY <2>1, Zenon DEF Ids, Total, Workers, Collected, Measuring, Busy, Sampled, Failed, Counters
  <2>3. Types'
    BY <2>1, <2>2, SMTT(20) DEF IInv, Types
  <2>4. Indices'
    BY <2>1, <2>2, ZenonT(30) DEF IInv, Indices
  <2>5. Arrivals' /\ Progress'
    BY <2>1, <2>2, Zenon DEF IInv, Arrivals, Prime, Measured, Progress, Sound
  <2>6. Reading' /\ Baseline'
    <3>1. Due' = Due /\ Warm' = Warm /\ Prime' = Prime
      BY <2>1, <2>2, Zenon DEF Due, Warm, Prime
    <3>2. /\ \A name \in Names : Have(Due, name)' = Have(Due, name)
          /\ \A name \in Names : Have(Warm, name)' = Have(Warm, name)
          /\ Have(Ids \ lost, "requests")' = Have(Ids \ lost, "requests")
      BY <2>1, <2>2, <3>1 DEF Have
    <3>3. Reading'
      BY <2>1, <2>2, <3>1, <3>2, Zenon DEF IInv, Reading, Unread, Observing, Scraped
    <3>4. Baseline'
      BY <2>1, <2>2, <3>1, <3>2, Zenon DEF IInv, Baseline, Zero
    <3>. QED
      BY <3>3, <3>4, SMTT(20)
  <2>7. Service' /\ Stored' /\ Suited' = Suited /\ CacheSuits' = CacheSuits
    <3>1. Suited' = Suited /\ UNCHANGED <<leftover, expiry>>
      BY <2>1, SuitedStays
    <3>2. Stored'
      BY <2>1, StoredStays DEF IInv
    <3>3. CacheSuits' = CacheSuits
      BY <2>1, SuitedStays
    <3>. QED
      BY <2>1, <2>2, <3>1, <3>2, <3>3, Zenon DEF IInv, Service, Clients, Found, Measured, Prime
  <2>8. ReportExact'
    BY <2>1, <2>2 DEF IInv, ReportExact
  <2>9. VerifiedIsTrue'
    <3>1. \A id \in Sampled : ServedAsMode(id)' = ServedAsMode(id)
      BY <2>1 DEF ServedAsMode
    <3>. QED
      BY <2>1, <2>2, <2>7, <3>1 DEF IInv, VerifiedIsTrue
  <2>. QED
    BY <2>3, <2>4, <2>5, <2>6, <2>7, <2>8, <2>9 DEF IInv
<1>2. CASE Server
  BY <1>2, ServerKeeps
<1>3. CASE Main
  <2>1. PrimeEnds \/ PhaseEnds \/ JoinMonitor => IInv'
    BY RunKeeps
  <2>2. Receive => IInv'
    BY CollectKeeps
  <2>3. Scrape \/ WarmupSettles \/ MeasurementSettles => IInv'
    BY ScrapeKeeps, WarmupSettlesKeeps, MeasurementSettlesKeeps
  <2>. QED
    BY <1>3, <2>1, <2>2, <2>3 DEF Main
<1>4. CASE CloseResults \/ Expire
  BY <1>4, CollectKeeps
<1>5. CASE MonitorEnds
  BY <1>5, RunKeeps
<1>6. CASE ScrapeFails
  <2>1. run' = "failed" /\ UNCHANGED <<setup, clientVars, serverVars, baseline>> /\ scrape' = scrape
    BY <1>6 DEF ScrapeFails, observation
  <2>. QED
    BY <2>1, FailureKeeps
<1>7. CASE Retry
  BY <1>7, RetryKeeps
<1>8. ASSUME NEW w \in Workers, Worker(w)
      PROVE  IInv'
  BY <1>8, TakeKeeps, CallEndsKeeps, SendKeeps DEF Worker
<1>. QED
  BY <1>1, <1>2, <1>3, <1>4, <1>5, <1>6, <1>7, <1>8 DEF Next

-----------------------------------------------------------------------------
INSTANCE FiniteSetTheorems

\* The facts on finite sets that the lemmas assume, from those of the library.
LEMMA FactsHold == FiniteSetFacts
<1>1. CardinalityFact
  BY FS_CardinalityType DEF CardinalityFact
<1>2. EmptyFact
  BY FS_EmptySet DEF EmptyFact
<1>3. SingletonFact
  BY FS_Singleton, Zenon DEF SingletonFact
<1>4. IntervalFact
  BY FS_Interval DEF IntervalFact
<1>5. SubsetFact
  BY FS_Subset DEF SubsetFact
<1>6. AdditionFact
  BY FS_AddElement DEF AdditionFact
<1>7. UnionFact
  BY FS_Union DEF UnionFact
<1>8. ProductFact
  BY FS_Product DEF ProductFact
<1>9. BijectionFact
  <2>1. ASSUME NEW n \in Nat, NEW S, NEW f \in [1..n -> S],
               \A i, j \in 1..n : f[i] = f[j] => i = j,
               \A x \in S : \E i \in 1..n : f[i] = x
        PROVE  IsFiniteSet(S) /\ Cardinality(S) = n
    <3>1. f \in Bijection(1..n, S)
      BY <2>1 DEF Bijection, Injection, IsInjective, Surjection
    <3>2. ExistsBijection(1..n, S)
      BY <3>1 DEF ExistsBijection
    <3>. QED
      BY <3>2, FS_NatBijection, FS_CountingElements
  <2>. QED
    BY <2>1 DEF BijectionFact
<1>. QED
  BY <1>1, <1>2, <1>3, <1>4, <1>5, <1>6, <1>7, <1>8, <1>9 DEF FiniteSetFacts

\* The invariant holds in every state of a load test: Run, its pools, the
\* server with its restart, and the reads of /metrics.
THEOREM Invariance == Spec => []IInv
<1>1. IInv /\ [Next]_vars => IInv'
  BY FactsHold, NextKeeps
<1>. QED
  BY InitHolds, <1>1, PTL DEF Spec

\* SamplesAccounted, for any pool, any number of requests and any end of the
\* phase: every index taken has one sample, and what reached the server has one.
THEOREM SamplesAccountedTheorem == Spec => []SamplesAccounted
<1>1. IInv => SamplesAccounted
  BY FactsHold, Accounted DEF IInv
<1>. QED
  BY <1>1, Invariance, PTL

\* ReportExact, for any pool and any number of requests: settledCounters and
\* difference attribute to the samples what the server did for them.
THEOREM ReportExactTheorem == Spec => []ReportExact
<1>1. IInv => ReportExact
  BY DEF IInv
<1>. QED
  BY <1>1, Invariance, PTL

\* VerifiedIsTrue, for any pool and any number of requests: CacheModeVerified
\* is said of what was served in the mode, and of all that settled without a
\* failure on a cache that suits the mode.
THEOREM VerifiedIsTrueTheorem == Spec => []VerifiedIsTrue
<1>1. IInv => VerifiedIsTrue
  BY DEF IInv
<1>. QED
  BY <1>1, Invariance, PTL

=============================================================================
