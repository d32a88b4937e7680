---------------------------- MODULE GatewayProofs ---------------------------
(***************************************************************************)
(* Proofs about Gateway: its inductive invariant, and the properties that  *)
(* follow from it and that TLC checks on small instances, for any number   *)
(* of concurrent requests, any providers and any configuration of the      *)
(* service.                                                                *)
(***************************************************************************)
EXTENDS Gateway, TLAPS

USE DEF ProviderErrorKinds, RetryableKinds

-----------------------------------------------------------------------------
\* finishAttempt fills in the outcome of the last attempt and of no other.
LEMMA OutcomeFilled ==
  ASSUME NEW s \in Seq(AttemptRecord), NEW o \in Outcomes
  PROVE  LET t == [s EXCEPT ![Len(s)].outcome = o] IN
         /\ t \in Seq(AttemptRecord)
         /\ Len(t) = Len(s)
         /\ \A i \in 1..Len(s) :
              /\ t[i].provider = s[i].provider /\ t[i].late = s[i].late
              /\ t[i].outcome = IF i = Len(s) THEN o ELSE s[i].outcome
<1>. DEFINE t == [s EXCEPT ![Len(s)].outcome = o]
<1>1. Len(s) \in Nat /\ DOMAIN s = 1..Len(s) /\ DOMAIN t = 1..Len(s)
  OBVIOUS
<1>2. \A i \in 1..Len(s) : s[i] \in AttemptRecord
  OBVIOUS
<1>3. \A i \in 1..Len(s) :
        t[i] = IF i = Len(s) THEN [s[i] EXCEPT !.outcome = o] ELSE s[i]
  BY <1>1
<1>4. \A i \in 1..Len(s) :
        /\ t[i] \in AttemptRecord
        /\ t[i].provider = s[i].provider /\ t[i].late = s[i].late
        /\ t[i].outcome = IF i = Len(s) THEN o ELSE s[i].outcome
  <2>. HIDE DEF t
  <2>. SUFFICES ASSUME NEW i \in 1..Len(s)
                PROVE  /\ t[i] \in AttemptRecord
                       /\ t[i].provider = s[i].provider /\ t[i].late = s[i].late
                       /\ t[i].outcome = IF i = Len(s) THEN o ELSE s[i].outcome
    OBVIOUS
  <2>1. CASE i = Len(s)
    <3>1. t[i] = [s[i] EXCEPT !.outcome = o]
      BY <1>3, <2>1
    <3>. QED
      BY <1>2, <2>1, <3>1 DEF AttemptRecord
  <2>2. CASE i # Len(s)
    BY <1>2, <1>3, <2>2 DEF AttemptRecord
  <2>. QED
    BY <2>1, <2>2
<1>5. t \in [1..Len(s) -> AttemptRecord]
  BY <1>1, <1>4
<1>6. t \in Seq(AttemptRecord) /\ Len(t) = Len(s)
  BY <1>1, <1>5
<1>. QED
  BY <1>4, <1>6

\* The order given to a request is a sequence of providers.
LEMMA OrdersType ==
  ASSUME service \in Services
  PROVE  Orders \subseteq Seq(Providers)
<1>. DEFINE D == DOMAIN service.providers
<1>1. service.providers \in Seq(Providers)
  BY GatewayAssumption
<1>2. D = 1..Len(service.providers) /\ Len(service.providers) \in Nat
  BY <1>1
<1>3. ASSUME NEW o \in [D -> D]
      PROVE  [k \in D |-> service.providers[o[k]]] \in Seq(Providers)
  <2>1. [k \in D |-> service.providers[o[k]]] \in [1..Len(service.providers) -> Providers]
    BY <1>1, <1>2
  <2>. QED
    BY <1>2, <2>1
<1>. QED
  BY <1>1, <1>3 DEF Orders

-----------------------------------------------------------------------------
\* The request was answered, from the cache or by a provider.
Succeeded(q) == q.pc = "store" \/ (q.pc \in {"finish", "done"} /\ q.err = "nil")

Walking(q) == q.pc \in {"visit", "lookup", "begin"}

\* What the client has came from the provider in hand, and nothing has been
\* sent where the request may still go to another one; the record names a final
\* provider exactly when the request was answered, and it is the one in hand.
Sourced(q) ==
  /\ q.sources \subseteq {q.cur}
  /\ q.pc \in {"lookup", "begin", "call", "read", "record", "decide", "store"} => q.cur \in Providers
  /\ Walking(q) \/ q.pc \in {"new", "call"} => q.sources = {} /\ q.committed = FALSE
  /\ q.pc \in {"read", "record", "decide"} /\ q.committed = FALSE => q.sources = {}
  /\ q.pc = "lookup" => q.key = q.cur
  /\ q.pc \in {"begin", "call"} => q.key \in {Nobody, q.cur}
  /\ q.pc = "store" => q.key = q.cur /\ q.err = "nil"
  /\ q.pc = "visit" /\ q.usable = TRUE => q.err # "nil"
  /\ q.pc = "new" => q.usable = FALSE
  /\ q.pc \in {"record", "decide"} => q.err \in ProviderErrorKinds
  /\ Succeeded(q) => q.final = q.cur /\ q.cur \in Providers
  /\ ~Succeeded(q) => q.final = Nobody

\* Every attempt before the last one failed in a way that allows a fallback, and
\* had begun with the client there.
Retried(attempts) ==
  \A i \in 1..(Len(attempts) - 1) :
    /\ service.fallback = TRUE
    /\ attempts[i].outcome \in RetryableKinds /\ attempts[i].late = FALSE

\* So did the last one.
LastRetried(attempts) ==
  LET last == attempts[Len(attempts)] IN
  Len(attempts) # 0 =>
    service.fallback = TRUE /\ last.outcome \in RetryableKinds /\ last.late = FALSE

LastFilled(attempts) == Len(attempts) # 0 => attempts[Len(attempts)].outcome # ""

\* The attempts of a request, and where it is.  Between the classification of a
\* failure and its record, the outcome is the one the context of then gave.
Tried(q) ==
  LET n == Len(q.attempts)
      last == q.attempts[n] IN
  /\ Retried(q.attempts)
  /\ Walking(q) => LastRetried(q.attempts)
  /\ q.pc \in {"call", "read", "record", "decide"} =>
       n # 0 /\ (last.late = TRUE => q.cancelled = TRUE)
  /\ q.pc = "record" =>
       /\ q.verdict = IF q.left = TRUE THEN "cancellation" ELSE q.err
       /\ q.left = TRUE => q.cancelled = TRUE
  /\ q.pc = "decide" /\ q.cancelled = FALSE => last.outcome = q.err
  /\ q.pc \in {"decide", "store", "finish", "done"} => LastFilled(q.attempts)
  /\ n # 0 => q.initial = q.attempts[1].provider
  /\ q.pc = "new" => n = 0

\* How the request ended.
Ended(q) ==
  LET n == Len(q.attempts) IN
  /\ q.cacheHit = TRUE => Succeeded(q) /\ (n # 0 => q.attempts[n].outcome # "success")
  /\ Succeeded(q) /\ q.cacheHit = FALSE => n # 0 /\ q.attempts[n].outcome = "success"
  /\ q.pc = "done" => q.outcome # "" /\ (q.outcome = "success" <=> q.err = "nil")

RInv(q) == q \in Request /\ Sourced(q) /\ Tried(q) /\ Ended(q)

Types ==
  /\ service \in Services
  /\ health \in [Providers -> Health]
  /\ cache \in [Providers -> Providers \cup {Nobody}]
  /\ \A p \in Providers : cache[p] \in {Nobody, p}
  /\ req \in [Requests -> Request]

\* The steps of a handler up to the call of a provider.
LEMMA WalkStep ==
  ASSUME Types, NEW r \in Requests, RInv(req[r]),
         Reject(r) \/ Exhaust(r) \/ CannotStream(r) \/ CacheMiss(r)
  PROVE  RInv(req'[r])
<1>. DEFINE q == req[r]
            t == req'[r]
<1>. SUFFICES RInv(t)
  OBVIOUS
<1>. HIDE DEF q, t
<1>0. /\ q \in Request /\ Sourced(q) /\ Tried(q) /\ Ended(q)
      /\ {q.usable, q.cancelled, q.committed, q.cacheHit} \subseteq BOOLEAN /\ q.err \in Errors
      /\ q.attempts \in Seq(AttemptRecord) /\ q.order \in Seq(Providers)
  BY DEF RInv, Request, q
<1>q. q \in Request
  BY <1>0
<1>t. /\ Tried(q) /\ (LastRetried(q.attempts) => LastFilled(q.attempts))
      /\ Len(q.attempts) = 0 => LastRetried(q.attempts) /\ LastFilled(q.attempts)
  BY <1>0 DEF LastRetried, LastFilled
<1>1. CASE Reject(r)
  <2>1. t = [q EXCEPT !.pc = "finish", !.err = "rejected"]
    BY <1>1 DEF Reject, Arrives, Types, q, t
  <2>2. q.pc = "new"
    BY <1>1 DEF Reject, Arrives, q
  <2>4. t \in Request
    BY <1>q, <2>1 DEF Request, Points, Errors
  <2>5. /\ t.pc = "finish"
        /\ t.err = "rejected"
        /\ t.cur = q.cur /\ t.key = q.key /\ t.usable = q.usable /\ t.committed = q.committed
        /\ t.cancelled = q.cancelled /\ t.sources = q.sources /\ t.attempts = q.attempts /\ t.initial = q.initial
        /\ t.final = q.final /\ t.cacheHit = q.cacheHit /\ t.outcome = q.outcome
    BY <1>0, <2>1 DEF Request
  <2>6. Sourced(t)
    BY <1>0, <2>2, <2>5 DEF Sourced, Walking, Succeeded
  <2>7. Tried(t)
    BY <1>t, <2>2, <2>5 DEF Tried, Walking
  <2>8. Ended(t)
    BY <1>0, <2>2, <2>5 DEF Sourced, Ended, Succeeded
  <2>. QED
    BY <2>4, <2>6, <2>7, <2>8 DEF RInv
<1>2. CASE Exhaust(r)
  <2>1. t = [q EXCEPT !.pc = "finish", !.err = IF q.usable THEN @ ELSE "unmapped"]
    BY <1>2 DEF Exhaust, Types, q, t
  <2>2. q.pc = "visit"
    BY <1>2 DEF Exhaust, q
  <2>3. (IF q.usable THEN q.err ELSE "unmapped") \in Errors
    BY <1>0, <2>2 DEF Errors
  <2>4. t \in Request
    <3>. DEFINE e == IF q.usable THEN q.err ELSE "unmapped"
    <3>1. t = [q EXCEPT !.pc = "finish", !.err = e]
      BY <2>1
    <3>2. e \in Errors /\ "finish" \in Points
      BY <2>3 DEF Points
    <3>. HIDE DEF e
    <3>. QED
      BY <1>q, <3>1, <3>2 DEF Request
  <2>5. /\ t.pc = "finish"
        /\ t.err = IF q.usable THEN q.err ELSE "unmapped"
        /\ t.cur = q.cur /\ t.key = q.key /\ t.usable = q.usable /\ t.committed = q.committed
        /\ t.cancelled = q.cancelled /\ t.sources = q.sources /\ t.attempts = q.attempts /\ t.initial = q.initial
        /\ t.final = q.final /\ t.cacheHit = q.cacheHit /\ t.outcome = q.outcome
    BY <1>0, <2>1 DEF Request
  <2>6. Sourced(t)
    BY <1>0, <2>2, <2>5 DEF Sourced, Walking, Succeeded
  <2>7. Tried(t)
    BY <1>t, <2>2, <2>5 DEF Tried, Walking
  <2>8. Ended(t)
    BY <1>0, <2>2, <2>5 DEF Sourced, Ended, Succeeded
  <2>. QED
    BY <2>4, <2>6, <2>7, <2>8 DEF RInv
<1>3. CASE CannotStream(r)
  <2>1. t = [q EXCEPT !.pc = "finish", !.err = "internal", !.usable = TRUE]
    BY <1>3 DEF CannotStream, Types, q, t
  <2>2. q.pc = "visit"
    BY <1>3 DEF CannotStream, q
  <2>4. t \in Request
    BY <1>q, <2>1 DEF Request, Points, Errors
  <2>5. /\ t.pc = "finish"
        /\ t.usable = TRUE
        /\ t.err = "internal"
        /\ t.cur = q.cur /\ t.key = q.key /\ t.committed = q.committed /\ t.cancelled = q.cancelled
        /\ t.sources = q.sources /\ t.attempts = q.attempts /\ t.initial = q.initial /\ t.final = q.final
        /\ t.cacheHit = q.cacheHit /\ t.outcome = q.outcome
    BY <1>0, <2>1 DEF Request
  <2>6. Sourced(t)
    BY <1>0, <2>2, <2>5 DEF Sourced, Walking, Succeeded
  <2>7. Tried(t)
    BY <1>t, <2>2, <2>5 DEF Tried, Walking
  <2>8. Ended(t)
    BY <1>0, <2>2, <2>5 DEF Sourced, Ended, Succeeded
  <2>. QED
    BY <2>4, <2>6, <2>7, <2>8 DEF RInv
<1>4. CASE CacheMiss(r)
  <2>1. t = [q EXCEPT !.pc = "begin"]
    BY <1>4 DEF CacheMiss, Types, q, t
  <2>2. q.pc = "lookup"
    BY <1>4 DEF CacheMiss, q
  <2>4. t \in Request
    BY <1>q, <2>1 DEF Request, Points
  <2>5. /\ t.pc = "begin"
        /\ t.cur = q.cur /\ t.key = q.key /\ t.usable = q.usable /\ t.committed = q.committed
        /\ t.err = q.err /\ t.cancelled = q.cancelled /\ t.sources = q.sources /\ t.attempts = q.attempts
        /\ t.initial = q.initial /\ t.final = q.final /\ t.cacheHit = q.cacheHit /\ t.outcome = q.outcome
    BY <1>0, <2>1 DEF Request
  <2>6. Sourced(t)
    BY <1>0, <2>2, <2>5 DEF Sourced, Walking, Succeeded
  <2>7. Tried(t)
    BY <1>t, <2>2, <2>5 DEF Tried, Walking
  <2>8. Ended(t)
    BY <1>0, <2>2, <2>5 DEF Sourced, Ended, Succeeded
  <2>. QED
    BY <2>4, <2>6, <2>7, <2>8 DEF RInv
<1>. QED
  BY <1>1, <1>2, <1>3, <1>4

\* The steps that walk along the order of the providers.
LEMMA OrderStep ==
  ASSUME Types, NEW r \in Requests, RInv(req[r]),
         Start(r) \/ SkipUnmapped(r) \/ Visit(r)
  PROVE  RInv(req'[r])
<1>. DEFINE q == req[r]
            t == req'[r]
            looks == [q EXCEPT !.pc = "lookup", !.order = Tail(q.order), !.cur = Head(q.order),
                               !.usable = TRUE, !.key = Head(q.order)]
            goes == [q EXCEPT !.pc = "begin", !.order = Tail(q.order), !.cur = Head(q.order),
                              !.usable = TRUE, !.key = Nobody]
<1>. SUFFICES RInv(t)
  OBVIOUS
<1>. HIDE DEF q, t
<1>0. /\ q \in Request /\ Sourced(q) /\ Tried(q) /\ Ended(q)
      /\ {q.usable, q.cancelled, q.committed, q.cacheHit} \subseteq BOOLEAN /\ q.err \in Errors
      /\ q.attempts \in Seq(AttemptRecord) /\ q.order \in Seq(Providers)
  BY DEF RInv, Request, q
<1>q. q \in Request
  BY <1>0
<1>t. /\ Tried(q) /\ (LastRetried(q.attempts) => LastFilled(q.attempts))
      /\ Len(q.attempts) = 0 => LastRetried(q.attempts) /\ LastFilled(q.attempts)
  BY <1>0 DEF LastRetried, LastFilled
<1>1. CASE Start(r)
  <2>a. PICK s \in BOOLEAN, o \in Orders :
          req' = [req EXCEPT ![r].pc = "visit", ![r].streaming = s, ![r].order = o]
    BY <1>1 DEF Start
  <2>1. t = [q EXCEPT !.pc = "visit", !.streaming = s, !.order = o]
    BY <1>1, <2>a DEF Start, Arrives, Types, q, t
  <2>2. q.pc = "new"
    BY <1>1, <2>a DEF Start, Arrives, q
  <2>3. o \in Seq(Providers)
    BY <1>0, <2>2, OrdersType DEF Types
  <2>4. t \in Request
    BY <1>q, <2>1, <2>3 DEF Request, Points
  <2>5. /\ t.pc = "visit"
        /\ t.cur = q.cur /\ t.key = q.key /\ t.usable = q.usable /\ t.committed = q.committed
        /\ t.err = q.err /\ t.cancelled = q.cancelled /\ t.sources = q.sources /\ t.attempts = q.attempts
        /\ t.initial = q.initial /\ t.final = q.final /\ t.cacheHit = q.cacheHit /\ t.outcome = q.outcome
    BY <1>0, <2>1 DEF Request
  <2>6. Sourced(t)
    BY <1>0, <2>2, <2>5 DEF Sourced, Walking, Succeeded
  <2>7. Tried(t)
    BY <1>t, <2>2, <2>5 DEF Tried, Walking
  <2>8. Ended(t)
    BY <1>0, <2>2, <2>5 DEF Sourced, Ended, Succeeded
  <2>. QED
    BY <2>4, <2>6, <2>7, <2>8 DEF RInv
<1>2. CASE SkipUnmapped(r) /\ service.fallback /\ service.known
  <2>1. t = [q EXCEPT !.order = Tail(q.order)]
    BY <1>2 DEF SkipUnmapped, Types, q, t
  <2>2. q.pc = "visit" /\ q.order # <<>>
    BY <1>2 DEF SkipUnmapped, q
  <2>3. Tail(q.order) \in Seq(Providers)
    BY <1>0, <2>2 DEF Types
  <2>4. t \in Request
    BY <1>q, <2>1, <2>3 DEF Request, Points
  <2>5. 
        /\ t.pc = q.pc /\ t.cur = q.cur /\ t.key = q.key /\ t.usable = q.usable
        /\ t.committed = q.committed /\ t.err = q.err /\ t.cancelled = q.cancelled /\ t.sources = q.sources
        /\ t.attempts = q.attempts /\ t.initial = q.initial /\ t.final = q.final /\ t.cacheHit = q.cacheHit
        /\ t.outcome = q.outcome
    BY <1>0, <2>1 DEF Request
  <2>6. Sourced(t)
    BY <1>0, <2>2, <2>5 DEF Sourced, Walking, Succeeded
  <2>7. Tried(t)
    BY <1>t, <2>2, <2>5 DEF Tried, Walking
  <2>8. Ended(t)
    BY <1>0, <2>2, <2>5 DEF Sourced, Ended, Succeeded
  <2>. QED
    BY <2>4, <2>6, <2>7, <2>8 DEF RInv
<1>3. CASE SkipUnmapped(r) /\ ~(service.fallback /\ service.known)
  <2>1. t = [q EXCEPT !.pc = "finish", !.err = "unmapped"]
    BY <1>3 DEF SkipUnmapped, Types, q, t
  <2>2. q.pc = "visit"
    BY <1>3 DEF SkipUnmapped, q
  <2>4. t \in Request
    BY <1>q, <2>1 DEF Request, Points, Errors
  <2>5. /\ t.pc = "finish"
        /\ t.err = "unmapped"
        /\ t.cur = q.cur /\ t.key = q.key /\ t.usable = q.usable /\ t.committed = q.committed
        /\ t.cancelled = q.cancelled /\ t.sources = q.sources /\ t.attempts = q.attempts /\ t.initial = q.initial
        /\ t.final = q.final /\ t.cacheHit = q.cacheHit /\ t.outcome = q.outcome
    BY <1>0, <2>1 DEF Request
  <2>6. Sourced(t)
    BY <1>0, <2>2, <2>5 DEF Sourced, Walking, Succeeded
  <2>7. Tried(t)
    BY <1>t, <2>2, <2>5 DEF Tried, Walking
  <2>8. Ended(t)
    BY <1>0, <2>2, <2>5 DEF Sourced, Ended, Succeeded
  <2>. QED
    BY <2>4, <2>6, <2>7, <2>8 DEF RInv
<1>4. Visit(r) => t = looks \/ t = goes
  <2>1. CASE /\ ~q.streaming /\ service.cacheEnabled
             /\ Eligible(health[Head(q.order)]) /\ ~q.cancelled
    BY <2>1 DEF Visit, Types, q, t
  <2>2. CASE ~(/\ ~q.streaming /\ service.cacheEnabled
               /\ Eligible(health[Head(q.order)]) /\ ~q.cancelled)
    BY <2>2 DEF Visit, Types, q, t
  <2>. QED
    BY <2>1, <2>2
<1>5. CASE Visit(r) /\ t = looks
  <2>2. q.pc = "visit" /\ q.order # <<>>
    BY <1>5 DEF Visit, q
  <2>3. Tail(q.order) \in Seq(Providers) /\ Head(q.order) \in Providers
    BY <1>0, <2>2 DEF Types
  <2>4. t \in Request
    BY <1>q, <1>5, <2>3 DEF Request, Points
  <2>5. /\ t.pc = "lookup"
        /\ t.cur = Head(q.order)
        /\ t.key = Head(q.order)
        /\ t.usable = TRUE
        /\ t.committed = q.committed /\ t.err = q.err /\ t.cancelled = q.cancelled /\ t.sources = q.sources
        /\ t.attempts = q.attempts /\ t.initial = q.initial /\ t.final = q.final /\ t.cacheHit = q.cacheHit
        /\ t.outcome = q.outcome
    BY <1>0, <1>5 DEF Request
  <2>6. Sourced(t)
    BY <1>0, <2>2, <2>5, <2>3 DEF Sourced, Walking, Succeeded
  <2>7. Tried(t)
    BY <1>t, <2>2, <2>5 DEF Tried, Walking
  <2>8. Ended(t)
    BY <1>0, <2>2, <2>5 DEF Sourced, Ended, Succeeded
  <2>. QED
    BY <2>4, <2>6, <2>7, <2>8 DEF RInv
<1>6. CASE Visit(r) /\ t = goes
  <2>2. q.pc = "visit" /\ q.order # <<>>
    BY <1>6 DEF Visit, q
  <2>3. Tail(q.order) \in Seq(Providers) /\ Head(q.order) \in Providers
    BY <1>0, <2>2 DEF Types
  <2>4. t \in Request
    BY <1>q, <1>6, <2>3 DEF Request, Points
  <2>5. /\ t.pc = "begin"
        /\ t.cur = Head(q.order)
        /\ t.key = Nobody
        /\ t.usable = TRUE
        /\ t.committed = q.committed /\ t.err = q.err /\ t.cancelled = q.cancelled /\ t.sources = q.sources
        /\ t.attempts = q.attempts /\ t.initial = q.initial /\ t.final = q.final /\ t.cacheHit = q.cacheHit
        /\ t.outcome = q.outcome
    BY <1>0, <1>6 DEF Request
  <2>6. Sourced(t)
    BY <1>0, <2>2, <2>5, <2>3 DEF Sourced, Walking, Succeeded
  <2>7. Tried(t)
    BY <1>t, <2>2, <2>5 DEF Tried, Walking
  <2>8. Ended(t)
    BY <1>0, <2>2, <2>5 DEF Sourced, Ended, Succeeded
  <2>. QED
    BY <2>4, <2>6, <2>7, <2>8 DEF RInv
<1>. QED
  BY <1>1, <1>2, <1>3, <1>4, <1>5, <1>6

\* The steps that only move the handler on, and the client leaving.
LEMMA PointStep ==
  ASSUME Types, NEW r \in Requests, RInv(req[r]),
         \/ CircuitSkip(r) \/ StreamOpens(r) \/ Emit(r) \/ Store(r) \/ Cancel(r)
         \/ Decide(r) \/ CallFails(r)
  PROVE  RInv(req'[r])
<1>. DEFINE q == req[r]
            t == req'[r]
<1>. SUFFICES RInv(t)
  OBVIOUS
<1>. HIDE DEF q, t
<1>0. /\ q \in Request /\ Sourced(q) /\ Tried(q) /\ Ended(q)
      /\ {q.usable, q.cancelled, q.committed, q.cacheHit} \subseteq BOOLEAN /\ q.err \in Errors
      /\ q.attempts \in Seq(AttemptRecord) /\ q.order \in Seq(Providers)
  BY DEF RInv, Request, q
<1>q. q \in Request
  BY <1>0
<1>t. /\ Tried(q) /\ (LastRetried(q.attempts) => LastFilled(q.attempts))
      /\ Len(q.attempts) = 0 => LastRetried(q.attempts) /\ LastFilled(q.attempts)
  BY <1>0 DEF LastRetried, LastFilled
<1>1. CASE CircuitSkip(r) /\ service.fallback
  <2>1. t = [q EXCEPT !.pc = "visit", !.err = "unavailable"]
    BY <1>1 DEF CircuitSkip, Types, q, t
  <2>2. q.pc = "begin"
    BY <1>1 DEF CircuitSkip, q
  <2>4. t \in Request
    BY <1>q, <2>1 DEF Request, Points, Errors
  <2>5. /\ t.pc = "visit"
        /\ t.err = "unavailable"
        /\ t.cur = q.cur /\ t.key = q.key /\ t.usable = q.usable /\ t.committed = q.committed
        /\ t.cancelled = q.cancelled /\ t.sources = q.sources /\ t.attempts = q.attempts /\ t.initial = q.initial
        /\ t.final = q.final /\ t.cacheHit = q.cacheHit /\ t.outcome = q.outcome
    BY <1>0, <2>1 DEF Request
  <2>6. Sourced(t)
    BY <1>0, <2>2, <2>5 DEF Sourced, Walking, Succeeded
  <2>7. Tried(t)
    BY <1>t, <2>2, <2>5 DEF Tried, Walking
  <2>8. Ended(t)
    BY <1>0, <2>2, <2>5 DEF Sourced, Ended, Succeeded
  <2>. QED
    BY <2>4, <2>6, <2>7, <2>8 DEF RInv
<1>2. CASE CircuitSkip(r) /\ ~service.fallback
  <2>1. t = [q EXCEPT !.pc = "finish", !.err = "unavailable"]
    BY <1>2 DEF CircuitSkip, Types, q, t
  <2>2. q.pc = "begin"
    BY <1>2 DEF CircuitSkip, q
  <2>4. t \in Request
    BY <1>q, <2>1 DEF Request, Points, Errors
  <2>5. /\ t.pc = "finish"
        /\ t.err = "unavailable"
        /\ t.cur = q.cur /\ t.key = q.key /\ t.usable = q.usable /\ t.committed = q.committed
        /\ t.cancelled = q.cancelled /\ t.sources = q.sources /\ t.attempts = q.attempts /\ t.initial = q.initial
        /\ t.final = q.final /\ t.cacheHit = q.cacheHit /\ t.outcome = q.outcome
    BY <1>0, <2>1 DEF Request
  <2>6. Sourced(t)
    BY <1>0, <2>2, <2>5 DEF Sourced, Walking, Succeeded
  <2>7. Tried(t)
    BY <1>t, <2>2, <2>5 DEF Tried, Walking
  <2>8. Ended(t)
    BY <1>0, <2>2, <2>5 DEF Sourced, Ended, Succeeded
  <2>. QED
    BY <2>4, <2>6, <2>7, <2>8 DEF RInv
<1>3. CASE StreamOpens(r)
  <2>1. t = [q EXCEPT !.pc = "read", !.committed = FALSE]
    BY <1>3 DEF StreamOpens, Types, q, t
  <2>2. q.pc = "call"
    BY <1>3 DEF StreamOpens, q
  <2>4. t \in Request
    BY <1>q, <2>1 DEF Request, Points
  <2>5. /\ t.pc = "read"
        /\ t.committed = FALSE
        /\ t.cur = q.cur /\ t.key = q.key /\ t.usable = q.usable /\ t.err = q.err
        /\ t.cancelled = q.cancelled /\ t.sources = q.sources /\ t.attempts = q.attempts /\ t.initial = q.initial
        /\ t.final = q.final /\ t.cacheHit = q.cacheHit /\ t.outcome = q.outcome
    BY <1>0, <2>1 DEF Request
  <2>6. Sourced(t)
    BY <1>0, <2>2, <2>5 DEF Sourced, Walking, Succeeded
  <2>7. Tried(t)
    BY <1>t, <2>2, <2>5 DEF Tried, Walking
  <2>8. Ended(t)
    BY <1>0, <2>2, <2>5 DEF Sourced, Ended, Succeeded
  <2>. QED
    BY <2>4, <2>6, <2>7, <2>8 DEF RInv
<1>4. CASE Emit(r)
  <2>1. t = [q EXCEPT !.committed = TRUE, !.sources = q.sources \cup {q.cur}]
    BY <1>4 DEF Emit, Types, q, t
  <2>2. q.pc = "read"
    BY <1>4 DEF Emit, q
  <2>3. q.sources \cup {q.cur} \in SUBSET Providers
    BY <1>0, <2>2 DEF Request, Sourced
  <2>4. t \in Request
    BY <1>q, <2>1, <2>3 DEF Request, Points
  <2>5. /\ t.committed = TRUE
        /\ t.sources = q.sources \cup {q.cur}
        /\ t.pc = q.pc /\ t.cur = q.cur /\ t.key = q.key /\ t.usable = q.usable
        /\ t.err = q.err /\ t.cancelled = q.cancelled /\ t.attempts = q.attempts /\ t.initial = q.initial
        /\ t.final = q.final /\ t.cacheHit = q.cacheHit /\ t.outcome = q.outcome
    BY <1>0, <2>1 DEF Request
  <2>6. Sourced(t)
    BY <1>0, <2>2, <2>5 DEF Sourced, Walking, Succeeded
  <2>7. Tried(t)
    BY <1>t, <2>2, <2>5 DEF Tried, Walking
  <2>8. Ended(t)
    BY <1>0, <2>2, <2>5 DEF Sourced, Ended, Succeeded
  <2>. QED
    BY <2>4, <2>6, <2>7, <2>8 DEF RInv
<1>5. CASE Store(r)
  <2>1. t = [q EXCEPT !.pc = "finish"]
    BY <1>5 DEF Store, Types, q, t
  <2>2. q.pc = "store"
    BY <1>5 DEF Store, q
  <2>4. t \in Request
    BY <1>q, <2>1 DEF Request, Points
  <2>5. /\ t.pc = "finish"
        /\ t.cur = q.cur /\ t.key = q.key /\ t.usable = q.usable /\ t.committed = q.committed
        /\ t.err = q.err /\ t.cancelled = q.cancelled /\ t.sources = q.sources /\ t.attempts = q.attempts
        /\ t.initial = q.initial /\ t.final = q.final /\ t.cacheHit = q.cacheHit /\ t.outcome = q.outcome
    BY <1>0, <2>1 DEF Request
  <2>6. Sourced(t)
    BY <1>0, <2>2, <2>5 DEF Sourced, Walking, Succeeded
  <2>7. Tried(t)
    BY <1>t, <2>2, <2>5 DEF Tried, Walking
  <2>8. Ended(t)
    BY <1>0, <2>2, <2>5 DEF Sourced, Ended, Succeeded
  <2>. QED
    BY <2>4, <2>6, <2>7, <2>8 DEF RInv
<1>6. CASE Cancel(r)
  <2>1. t = [q EXCEPT !.cancelled = TRUE]
    BY <1>6 DEF Cancel, Types, q, t
  <2>2. q.pc \notin {"new", "done"}
    BY <1>6 DEF Cancel, q
  <2>4. t \in Request
    BY <1>q, <2>1 DEF Request, Points
  <2>5. /\ t.cancelled = TRUE /\ t.verdict = q.verdict /\ t.left = q.left
        /\ t.pc = q.pc /\ t.cur = q.cur /\ t.key = q.key /\ t.usable = q.usable
        /\ t.committed = q.committed /\ t.err = q.err /\ t.sources = q.sources /\ t.attempts = q.attempts
        /\ t.initial = q.initial /\ t.final = q.final /\ t.cacheHit = q.cacheHit /\ t.outcome = q.outcome
    BY <1>0, <2>1 DEF Request
  <2>6. Sourced(t)
    BY <1>0, <2>2, <2>5 DEF Sourced, Walking, Succeeded
  <2>7. Tried(t)
    BY <1>t, <2>2, <2>5 DEF Tried, Walking
  <2>8. Ended(t)
    BY <1>0, <2>2, <2>5 DEF Sourced, Ended, Succeeded
  <2>. QED
    BY <2>4, <2>6, <2>7, <2>8 DEF RInv
<1>7. CASE Decide(r) /\ ~(service.fallback /\ ~q.committed /\ ~q.cancelled /\ q.err \in RetryableKinds)
  <2>1. t = [q EXCEPT !.pc = "finish"]
    BY <1>7 DEF Decide, Types, q, t
  <2>2. q.pc = "decide"
    BY <1>7 DEF Decide, q
  <2>4. t \in Request
    BY <1>q, <2>1 DEF Request, Points
  <2>5. /\ t.pc = "finish"
        /\ t.cur = q.cur /\ t.key = q.key /\ t.usable = q.usable /\ t.committed = q.committed
        /\ t.err = q.err /\ t.cancelled = q.cancelled /\ t.sources = q.sources /\ t.attempts = q.attempts
        /\ t.initial = q.initial /\ t.final = q.final /\ t.cacheHit = q.cacheHit /\ t.outcome = q.outcome
    BY <1>0, <2>1 DEF Request
  <2>6. Sourced(t)
    BY <1>0, <2>2, <2>5 DEF Sourced, Walking, Succeeded
  <2>7. Tried(t)
    BY <1>t, <2>2, <2>5 DEF Tried, Walking
  <2>8. Ended(t)
    BY <1>0, <2>2, <2>5 DEF Sourced, Ended, Succeeded
  <2>. QED
    BY <2>4, <2>6, <2>7, <2>8 DEF RInv
<1>8. CASE Decide(r) /\ (service.fallback /\ ~q.committed /\ ~q.cancelled /\ q.err \in RetryableKinds)
  <2>1. t = [q EXCEPT !.pc = "visit"]
    BY <1>8 DEF Decide, Types, q, t
  <2>2. /\ q.pc = "decide" /\ service.fallback /\ ~q.committed /\ ~q.cancelled
        /\ q.err \in RetryableKinds
    BY <1>8 DEF Decide, q
  <2>3. service.fallback = TRUE /\ q.attempts[Len(q.attempts)].late \in BOOLEAN
    <3>1. service.fallback \in BOOLEAN
      BY GatewayAssumption DEF Types
    <3>2. q.attempts[Len(q.attempts)] \in AttemptRecord
      <4>1. Len(q.attempts) # 0
        BY <1>0, <2>2 DEF Tried
      <4>. QED
        BY <1>0, <4>1
    <3>. QED
      BY <2>2, <3>1, <3>2 DEF AttemptRecord
  <2>4. t \in Request
    BY <1>q, <2>1, <2>3 DEF Request, Points
  <2>5. /\ t.pc = "visit"
        /\ t.cur = q.cur /\ t.key = q.key /\ t.usable = q.usable /\ t.committed = q.committed
        /\ t.err = q.err /\ t.cancelled = q.cancelled /\ t.sources = q.sources /\ t.attempts = q.attempts
        /\ t.initial = q.initial /\ t.final = q.final /\ t.cacheHit = q.cacheHit /\ t.outcome = q.outcome
    BY <1>0, <2>1 DEF Request
  <2>6. Sourced(t)
    BY <1>0, <2>2, <2>5 DEF Sourced, Walking, Succeeded
  <2>7. Tried(t)
    <3>1. LastRetried(q.attempts)
      BY <1>t, <2>2, <2>3 DEF Tried, LastRetried
    <3>. QED
      BY <1>t, <2>2, <2>5, <3>1 DEF Tried, Walking
  <2>8. Ended(t)
    BY <1>0, <2>2, <2>5 DEF Sourced, Ended, Succeeded
  <2>. QED
    BY <2>4, <2>6, <2>7, <2>8 DEF RInv
<1>9. CASE CallFails(r)
  <2>a. PICK e \in service.errors :
          req' = [req EXCEPT ![r] = [q EXCEPT
            !.pc = "record", !.err = e, !.verdict = Classify(q.cancelled, e),
            !.left = q.cancelled]]
    BY <1>9 DEF CallFails, q
  <2>b. e \in ProviderErrorKinds
    BY <2>a, GatewayAssumption DEF Types
  <2>1. t = [q EXCEPT !.pc = "record", !.err = e, !.verdict = Classify(q.cancelled, e),
                      !.left = q.cancelled]
    BY <2>a DEF Types, t
  <2>2. q.pc \in {"call", "read"}
    BY <1>9 DEF CallFails, q
  <2>3. /\ Classify(q.cancelled, e) \in Outcomes
        /\ Classify(q.cancelled, e) = IF q.cancelled = TRUE THEN "cancellation" ELSE e
    BY <1>0, <2>b DEF Classify, Outcomes
  <2>4. t \in Request
    <3>. DEFINE v == Classify(q.cancelled, e)
    <3>1. "record" \in Points /\ e \in Errors /\ v \in Outcomes \cup {""} /\ q.cancelled \in BOOLEAN
      BY <1>0, <2>b, <2>3 DEF Points, Errors
    <3>2. t = [q EXCEPT !.pc = "record", !.err = e, !.verdict = v, !.left = q.cancelled]
      BY <2>1
    <3>. HIDE DEF v
    <3>. QED
      BY <1>q, <3>1, <3>2 DEF Request
  <2>5. /\ t.pc = "record" /\ t.err = e /\ t.left = q.cancelled
        /\ t.verdict = Classify(q.cancelled, e)
        /\ t.cur = q.cur /\ t.key = q.key /\ t.usable = q.usable /\ t.committed = q.committed
        /\ t.cancelled = q.cancelled /\ t.sources = q.sources /\ t.attempts = q.attempts /\ t.initial = q.initial
        /\ t.final = q.final /\ t.cacheHit = q.cacheHit /\ t.outcome = q.outcome
    BY <1>0, <2>1 DEF Request
  <2>6. Sourced(t)
    BY <1>0, <2>2, <2>5, <2>b DEF Sourced, Walking, Succeeded
  <2>7. Tried(t)
    BY <1>t, <2>2, <2>3, <2>5 DEF Tried, Walking
  <2>8. Ended(t)
    BY <1>0, <2>2, <2>5 DEF Sourced, Ended, Succeeded
  <2>. QED
    BY <2>4, <2>6, <2>7, <2>8 DEF RInv
<1>. QED
  BY <1>1, <1>2, <1>3, <1>4, <1>5, <1>6, <1>7, <1>8, <1>9

\* A hit in the cache, and the beginning of an attempt.
LEMMA HitOrBeginStep ==
  ASSUME Types, NEW r \in Requests, RInv(req[r]),
         CacheHit(r) \/ BeginAttemptAt(r)
  PROVE  RInv(req'[r])
<1>. DEFINE q == req[r]
            t == req'[r]
            begun == [provider |-> q.cur, outcome |-> "", late |-> q.cancelled]
<1>. SUFFICES RInv(t)
  OBVIOUS
<1>. HIDE DEF q, t
<1>0. /\ q \in Request /\ Sourced(q) /\ Tried(q) /\ Ended(q)
      /\ {q.usable, q.cancelled, q.committed, q.cacheHit} \subseteq BOOLEAN /\ q.err \in Errors
      /\ q.attempts \in Seq(AttemptRecord) /\ q.order \in Seq(Providers)
  BY DEF RInv, Request, q
<1>q. q \in Request
  BY <1>0
<1>t. /\ Tried(q) /\ (LastRetried(q.attempts) => LastFilled(q.attempts))
      /\ Len(q.attempts) = 0 => LastRetried(q.attempts) /\ LastFilled(q.attempts)
  BY <1>0 DEF LastRetried, LastFilled
<1>a. \A i \in 1..Len(q.attempts) : q.attempts[i] \in AttemptRecord /\ q.attempts[i].provider \in Providers
  <2>1. \A i \in 1..Len(q.attempts) : q.attempts[i] \in AttemptRecord
    BY <1>0
  <2>. QED
    BY <2>1 DEF AttemptRecord
<1>b. Nobody \notin Providers
  BY GatewayAssumption
<1>1. CASE CacheHit(r)
  <2>1. t = [q EXCEPT !.pc = "finish", !.err = "nil", !.sources = {cache[q.key]}, !.cacheHit = TRUE,
                      !.initial = IF q.initial = Nobody THEN q.cur ELSE q.initial, !.final = q.cur]
    BY <1>1 DEF CacheHit, Types, q, t
  <2>2. q.pc = "lookup" /\ cache[q.key] # Nobody
    BY <1>1 DEF CacheHit, q
  <2>3. /\ q.cur \in Providers /\ cache[q.key] = q.cur
        /\ (IF q.initial = Nobody THEN q.cur ELSE q.initial) \in Providers \cup {Nobody}
    BY <1>0, <2>2 DEF Types, Sourced, Request
  <2>4. t \in Request
    BY <1>q, <2>1, <2>3 DEF Request, Points, Errors
  <2>5. /\ t.pc = "finish"
        /\ t.err = "nil"
        /\ t.sources = {cache[q.key]}
        /\ t.initial = IF q.initial = Nobody THEN q.cur ELSE q.initial
        /\ t.final = q.cur
        /\ t.cacheHit = TRUE
        /\ t.cur = q.cur /\ t.key = q.key /\ t.usable = q.usable /\ t.committed = q.committed
        /\ t.cancelled = q.cancelled /\ t.attempts = q.attempts /\ t.outcome = q.outcome
    BY <1>0, <2>1 DEF Request
  <2>6. Sourced(t)
    BY <1>0, <2>2, <2>5, <2>3 DEF Sourced, Walking, Succeeded
  <2>7. Tried(t)
    <3>1. Len(q.attempts) # 0 => q.initial = q.attempts[1].provider
      BY <1>0 DEF Tried
    <3>2. Len(q.attempts) # 0 => 1 \in 1..Len(q.attempts)
      BY <1>0
    <3>3. Len(q.attempts) # 0 => q.initial # Nobody
      BY <1>a, <1>b, <3>1, <3>2
    <3>4. Len(q.attempts) # 0 => t.initial = q.initial
      BY <2>5, <3>3
    <3>. QED
      BY <1>t, <2>2, <2>5, <3>4 DEF Tried, Walking
  <2>8. Ended(t)
    BY <1>0, <2>2, <2>5 DEF Tried, LastRetried, Walking, Ended, Succeeded
  <2>. QED
    BY <2>4, <2>6, <2>7, <2>8 DEF RInv
<1>2. CASE BeginAttemptAt(r)
  <2>1. t = [q EXCEPT !.pc = "call", !.attempt = BeginAttempt(health[q.cur]),
                      !.attempts = Append(q.attempts, begun),
                      !.initial = IF q.attempts = <<>> THEN q.cur ELSE q.initial]
    BY <1>2 DEF BeginAttemptAt, Types, q, t
  <2>2. q.pc = "begin"
    BY <1>2 DEF BeginAttemptAt, q
  <2>3. /\ q.cur \in Providers /\ BeginAttempt(health[q.cur]) \in Attempt
        /\ Append(q.attempts, begun) \in Seq(AttemptRecord)
        /\ (IF q.attempts = <<>> THEN q.cur ELSE q.initial) \in Providers \cup {Nobody}
    <3>1. q.cur \in Providers
      BY <1>0, <2>2 DEF Sourced
    <3>2. begun \in AttemptRecord
      BY <1>0, <3>1 DEF AttemptRecord
    <3>3. health[q.cur] \in Health
      BY <3>1 DEF Types
    <3>4. BeginAttempt(health[q.cur]) \in Attempt
      BY <3>3 DEF BeginAttempt, Begin, Attempt, Health
    <3>5. q.initial \in Providers \cup {Nobody}
      BY <1>0 DEF Request
    <3>6. q.attempts \in Seq(AttemptRecord)
      BY <1>0
    <3>7. \A b \in AttemptRecord : Append(q.attempts, b) \in Seq(AttemptRecord)
      BY <3>6
    <3>. QED
      BY <3>1, <3>2, <3>4, <3>5, <3>7
  <2>4. t \in Request
    <3>. DEFINE first == IF q.attempts = <<>> THEN q.cur ELSE q.initial
                attempt == BeginAttempt(health[q.cur])
                attempts == Append(q.attempts, begun)
    <3>1. /\ attempt \in Attempt /\ attempts \in Seq(AttemptRecord)
          /\ first \in Providers \cup {Nobody}
      BY <2>3
    <3>2. t = [q EXCEPT !.pc = "call", !.attempt = attempt, !.attempts = attempts,
                        !.initial = first]
      BY <2>1
    <3>. HIDE DEF first, attempt, attempts
    <3>. QED
      BY <1>q, <3>1, <3>2 DEF Request, Points
  <2>5. /\ t.pc = "call"
        /\ t.attempts = Append(q.attempts, begun)
        /\ t.initial = IF q.attempts = <<>> THEN q.cur ELSE q.initial
        /\ t.cur = q.cur /\ t.key = q.key /\ t.usable = q.usable /\ t.committed = q.committed
        /\ t.err = q.err /\ t.cancelled = q.cancelled /\ t.sources = q.sources /\ t.final = q.final
        /\ t.cacheHit = q.cacheHit /\ t.outcome = q.outcome
    BY <1>0, <2>1 DEF Request
  <2>6. Sourced(t)
    BY <1>0, <2>2, <2>5 DEF Sourced, Walking, Succeeded
  <2>7. Tried(t)
    <3>. DEFINE n == Len(q.attempts)
    <3>0. begun \in AttemptRecord
      BY <1>0, <2>3 DEF AttemptRecord
    <3>. HIDE DEF begun
    <3>1. n \in Nat /\ Len(t.attempts) = n + 1 /\ t.attempts[n + 1] = begun
          /\ \A i \in 1..n : t.attempts[i] = q.attempts[i]
      BY <1>0, <2>5, <3>0
    <3>2. \A i \in 1..n : /\ service.fallback = TRUE
                          /\ q.attempts[i].outcome \in RetryableKinds /\ q.attempts[i].late = FALSE
      BY <1>0, <2>2 DEF Tried, Retried, LastRetried, Walking
    <3>3. t.initial = t.attempts[1].provider
      <4>1. CASE n = 0
        <5>1. t.initial = q.cur
          BY <1>0, <2>5, <4>1
        <5>2. t.attempts[1] = begun
          BY <3>1, <4>1
        <5>3. begun.provider = q.cur
          BY DEF begun
        <5>. QED
          BY <5>1, <5>2, <5>3
      <4>2. CASE n # 0
        <5>1. t.initial = q.initial
          BY <1>0, <2>5, <4>2
        <5>2. q.initial = q.attempts[1].provider
          BY <1>0, <4>2 DEF Tried
        <5>. QED
          BY <3>1, <4>2, <5>1, <5>2
      <4>. QED
        BY <4>1, <4>2
    <3>4. begun.late = TRUE => t.cancelled = TRUE
      BY <2>5 DEF begun
    <3>. HIDE DEF n
    <3>. QED
      BY <2>5, <3>1, <3>2, <3>3, <3>4 DEF Tried, Retried, Walking
  <2>8. Ended(t)
    BY <1>0, <2>2, <2>5 DEF Sourced, Ended, Succeeded
  <2>. QED
    BY <2>4, <2>6, <2>7, <2>8 DEF RInv
<1>. QED
  BY <1>1, <1>2

\* finishAttempt touches the attempt, the last entry of the history and, on
\* success, the final provider.
LEMMA FinishFields ==
  ASSUME NEW q \in Request, NEW o \in Outcomes
  PROVE  LET t == FinishAttempt(q, o) IN
         /\ t \in Request
         /\ t.attempts = [q.attempts EXCEPT ![Len(q.attempts)].outcome = o]
         /\ t.final = IF o = "success" THEN q.cur ELSE q.final
         /\ t.pc = q.pc /\ t.cur = q.cur /\ t.key = q.key /\ t.usable = q.usable
         /\ t.committed = q.committed /\ t.err = q.err /\ t.cancelled = q.cancelled
         /\ t.sources = q.sources /\ t.initial = q.initial /\ t.cacheHit = q.cacheHit
         /\ t.outcome = q.outcome /\ t.order = q.order /\ t.attempt = NoAttempt
<1>. DEFINE filled == [q.attempts EXCEPT ![Len(q.attempts)].outcome = o]
            named == IF o = "success" THEN q.cur ELSE q.final
            t == [q EXCEPT !.attempt = NoAttempt, !.attempts = filled, !.final = named]
<1>1. FinishAttempt(q, o) = t
  BY DEF FinishAttempt, Request
<1>2. filled \in Seq(AttemptRecord)
  BY OutcomeFilled DEF Request
<1>3. named \in Providers \cup {Nobody} /\ NoAttempt \in Attempt
  BY DEF Request, NoAttempt, Attempt
<1>. HIDE DEF filled, named
<1>4. t \in Request
  BY <1>2, <1>3 DEF Request
<1>5. /\ t.attempts = filled /\ t.final = named
      /\ t.pc = q.pc /\ t.cur = q.cur /\ t.key = q.key /\ t.usable = q.usable
      /\ t.committed = q.committed /\ t.err = q.err /\ t.cancelled = q.cancelled
      /\ t.sources = q.sources /\ t.initial = q.initial /\ t.cacheHit = q.cacheHit
      /\ t.outcome = q.outcome /\ t.order = q.order /\ t.attempt = NoAttempt
  BY DEF Request
<1>. HIDE DEF t
<1>. QED
  BY <1>1, <1>4, <1>5 DEF filled, named

\* The end of an attempt: it succeeded, it failed and the handler has to decide
\* whether to fall back, or the client could not be written to.
Ending(q, u, o) ==
  /\ q.pc \in {"call", "read", "record"}
  /\ u.attempts = q.attempts /\ u.initial = q.initial /\ u.cacheHit = q.cacheHit
  /\ u.cur = q.cur /\ u.final = q.final /\ u.cancelled = q.cancelled
  /\ u.attempt = q.attempt /\ u.order = q.order
  /\ u.sources \subseteq {q.cur} /\ (q.sources # {} => u.sources = q.sources)
  /\ o \in {"success", "cancellation"} \/ (q.pc = "record" /\ q.left = FALSE /\ o = q.err)
  /\ \/ /\ o = "success" /\ u.err = "nil"
        /\ u.pc = "finish" \/ (u.pc = "store" /\ u.key = q.cur)
     \/ /\ u.pc = "decide" /\ o # "success" /\ u.err \in ProviderErrorKinds
        /\ q.cancelled = FALSE => o = u.err
        /\ u.committed = FALSE => u.sources = {}
     \/ u.pc = "finish" /\ o # "success" /\ u.err # "nil"

\* An attempt that ends in one of these ways leaves the request in order.
LEMMA FinishedAttempt ==
  ASSUME NEW q, NEW u \in Request, NEW o \in Outcomes, RInv(q), Ending(q, u, o)
  PROVE  RInv(FinishAttempt(u, o))
<1>. USE DEF Ending
<1>. DEFINE t == FinishAttempt(u, o)
            n == Len(q.attempts)
<1>1. /\ t \in Request
      /\ t.final = IF o = "success" THEN q.cur ELSE q.final
      /\ t.pc = u.pc /\ t.cur = q.cur /\ t.key = u.key /\ t.committed = u.committed
      /\ t.err = u.err /\ t.cancelled = q.cancelled /\ t.sources = u.sources
      /\ t.initial = q.initial /\ t.cacheHit = q.cacheHit
  BY FinishFields
<1>2. q \in Request /\ Sourced(q) /\ Tried(q) /\ Ended(q)
  BY DEF RInv
<1>3. /\ q.attempts \in Seq(AttemptRecord) /\ q.cacheHit \in BOOLEAN
      /\ t.attempts = [q.attempts EXCEPT ![n].outcome = o]
  <2>1. q.attempts \in Seq(AttemptRecord) /\ q.cacheHit \in BOOLEAN
    BY <1>2 DEF Request
  <2>2. t.attempts = [u.attempts EXCEPT ![Len(u.attempts)].outcome = o]
    BY FinishFields
  <2>. QED
    BY <2>1, <2>2
<1>. HIDE DEF t
<1>a. n \in Nat /\ n # 0
  <2>1. Len(q.attempts) # 0
    BY <1>2 DEF Tried
  <2>. QED
    BY <1>3, <2>1
<1>4. /\ Len(t.attempts) = n
      /\ \A i \in 1..n :
           /\ t.attempts[i].provider = q.attempts[i].provider
           /\ t.attempts[i].late = q.attempts[i].late
           /\ t.attempts[i].outcome = IF i = n THEN o ELSE q.attempts[i].outcome
  BY <1>3, OutcomeFilled
<1>. HIDE DEF n
<1>5. o # "" /\ t.attempts[n].outcome = o /\ t.attempts[n].late = q.attempts[n].late
  <2>1. o # ""
    BY DEF Outcomes
  <2>2. n \in 1..n
    BY <1>a
  <2>. QED
    BY <1>4, <2>1, <2>2
<1>6. Sourced(t)
  BY <1>1, <1>2 DEF Sourced, Walking, Succeeded
<1>7. Tried(t)
  <2>1. \A i \in 1..(n - 1) :
          /\ service.fallback = TRUE
          /\ t.attempts[i].outcome \in RetryableKinds /\ t.attempts[i].late = FALSE
    <3>1. \A i \in 1..(n - 1) :
            /\ service.fallback = TRUE
            /\ q.attempts[i].outcome \in RetryableKinds /\ q.attempts[i].late = FALSE
      BY <1>2 DEF Tried, Retried, n
    <3>. QED
      BY <1>a, <1>4, <3>1
  <2>2. t.pc = "decide" => (t.attempts[n].late = TRUE => t.cancelled = TRUE)
    BY <1>1, <1>2, <1>5 DEF Tried, n
  <2>3. t.initial = t.attempts[1].provider
    <3>1. q.initial = q.attempts[1].provider
      BY <1>2, <1>a DEF Tried, n
    <3>. QED
      BY <1>1, <1>a, <1>4, <3>1
  <2>. QED
    BY <1>1, <1>a, <1>4, <1>5, <2>1, <2>2, <2>3 DEF Tried, Retried, LastFilled, Walking
<1>8. Ended(t)
  BY <1>1, <1>2, <1>3, <1>a, <1>4, <1>5 DEF Ended, Succeeded
<1>. QED
  BY <1>1, <1>6, <1>7, <1>8 DEF RInv, t

\* The four ways in which an attempt ends.
Ends(r) == CompleteOK(r) \/ StreamEnds(r) \/ EmitFails(r) \/ RecordFailure(r)

\* They are such ends of the attempt.
LEMMA EndingOf ==
  ASSUME Types, NEW r \in Requests, RInv(req[r]), Ends(r)
  PROVE  \E u \in Request, o \in Outcomes : EndAttempt(r, o, u) /\ Ending(req[r], u, o)
<1>. DEFINE q == req[r]
<1>. SUFFICES \E u \in Request, o \in Outcomes : EndAttempt(r, o, u) /\ Ending(q, u, o)
  OBVIOUS
<1>. HIDE DEF q
<1>0. /\ RInv(q) /\ q \in Request /\ Sourced(q)
      /\ {q.committed, q.cancelled} \subseteq BOOLEAN
  BY DEF RInv, Request, q
<1>q. q \in Request
  BY <1>0
<1>1. CASE CompleteOK(r)
  <2>. DEFINE u == [q EXCEPT !.pc = IF q.key = Nobody THEN "finish" ELSE "store",
                         !.err = "nil", !.sources = {q.cur}]
  <2>1. EndAttempt(r, "success", u)
    BY <1>1 DEF CompleteOK, q
  <2>2. q.pc = "call"
    BY <1>1 DEF CompleteOK, q
  <2>3. "success" \in Outcomes
    BY DEF Outcomes
  <2>4. u \in Request
    <3>1. q.cur \in Providers
      BY <1>0, <2>2 DEF Sourced
    <3>. DEFINE next == IF q.key = Nobody THEN "finish" ELSE "store"
    <3>2. next \in Points /\ "nil" \in Errors
      BY DEF Points, Errors
    <3>3. u = [q EXCEPT !.pc = next, !.err = "nil", !.sources = {q.cur}]
      OBVIOUS
    <3>. HIDE DEF next, u
    <3>. QED
      BY <1>q, <3>1, <3>2, <3>3 DEF Request
  <2>5. /\ u.attempts = q.attempts /\ u.initial = q.initial /\ u.cacheHit = q.cacheHit
        /\ u.attempt = q.attempt /\ u.order = q.order
        /\ u.cur = q.cur /\ u.final = q.final /\ u.cancelled = q.cancelled
        /\ u.pc = IF q.key = Nobody THEN "finish" ELSE "store"
        /\ u.err = "nil" /\ u.sources = {q.cur} /\ u.key = q.key
    BY <1>0 DEF Request
  <2>. HIDE DEF u
  <2>6. Ending(q, u, "success")
    <3>1. u.pc = "finish" \/ (u.pc = "store" /\ u.key = q.cur)
      BY <1>0, <2>2, <2>5 DEF Sourced
    <3>. QED
      BY <1>0, <2>2, <2>3, <2>4, <2>5, <3>1 DEF Ending, Sourced
  <2>. QED
    BY <2>1, <2>3, <2>4, <2>6
<1>2. CASE StreamEnds(r)
  <2>. DEFINE u == [q EXCEPT !.pc = "finish", !.err = "nil"]
  <2>1. EndAttempt(r, "success", u)
    BY <1>2 DEF StreamEnds, q
  <2>2. q.pc = "read"
    BY <1>2 DEF StreamEnds, q
  <2>3. "success" \in Outcomes
    BY DEF Outcomes
  <2>4. u \in Request
    BY <1>q, <2>2 DEF Request, Points, Errors, Sourced
  <2>5. /\ u.attempts = q.attempts /\ u.initial = q.initial /\ u.cacheHit = q.cacheHit
        /\ u.attempt = q.attempt /\ u.order = q.order
        /\ u.cur = q.cur /\ u.final = q.final /\ u.cancelled = q.cancelled
        /\ u.pc = "finish" /\ u.err = "nil" /\ u.sources = q.sources
    BY <1>0 DEF Request
  <2>. HIDE DEF u
  <2>6. Ending(q, u, "success")
    BY <1>0, <2>2, <2>3, <2>4, <2>5 DEF Ending, Sourced
  <2>. QED
    BY <2>1, <2>3, <2>4, <2>6
<1>3. CASE EmitFails(r)
  <2>a. PICK part \in SUBSET {q.cur} :
          EndAttempt(r, "cancellation",
            [q EXCEPT !.pc = "finish", !.err = "emit", !.sources = q.sources \cup part])
    BY <1>3 DEF EmitFails, q
  <2>. DEFINE u == [q EXCEPT !.pc = "finish", !.err = "emit", !.sources = q.sources \cup part]
  <2>1. EndAttempt(r, "cancellation", u)
    BY <1>3, <2>a DEF EmitFails, q
  <2>2. q.pc = "read"
    BY <1>3 DEF EmitFails, q
  <2>3. "cancellation" \in Outcomes
    BY DEF Outcomes
  <2>4. u \in Request
    <3>1. "finish" \in Points /\ "emit" \in Errors
      BY DEF Points, Errors
    <3>2. q.sources \cup part \in SUBSET Providers
      BY <1>0, <2>2, <2>a DEF Sourced
    <3>. QED
      BY <1>q, <3>1, <3>2 DEF Request
  <2>5. /\ u.attempts = q.attempts /\ u.initial = q.initial /\ u.cacheHit = q.cacheHit
        /\ u.attempt = q.attempt /\ u.order = q.order
        /\ u.cur = q.cur /\ u.final = q.final /\ u.cancelled = q.cancelled
        /\ u.pc = "finish" /\ u.err = "emit" /\ u.sources = q.sources \cup part
    BY <1>0 DEF Request
  <2>. HIDE DEF u
  <2>6. Ending(q, u, "cancellation")
    BY <1>0, <2>2, <2>3, <2>4, <2>5, <2>a DEF Ending, Sourced
  <2>. QED
    BY <2>1, <2>3, <2>4, <2>6
<1>4. CASE RecordFailure(r)
  <2>. DEFINE u == [q EXCEPT !.pc = "decide", !.verdict = "", !.left = FALSE]
              o == q.verdict
  <2>1. EndAttempt(r, o, u)
    BY <1>4 DEF RecordFailure, q
  <2>2. q.pc = "record"
    BY <1>4 DEF RecordFailure, q
  <2>a. /\ q.err \in ProviderErrorKinds /\ o = (IF q.left = TRUE THEN "cancellation" ELSE q.err)
        /\ q.left = TRUE => q.cancelled = TRUE
    BY <1>0, <2>2 DEF Sourced, Tried, RInv
  <2>b. q.left \in BOOLEAN
    BY <1>0 DEF Request
  <2>3. o \in Outcomes
    BY <2>a DEF Outcomes
  <2>4. u \in Request
    <3>1. "decide" \in Points
      BY DEF Points
    <3>. QED
      BY <1>q, <3>1 DEF Request
  <2>5. /\ u.attempts = q.attempts /\ u.initial = q.initial /\ u.cacheHit = q.cacheHit
        /\ u.attempt = q.attempt /\ u.order = q.order
        /\ u.cur = q.cur /\ u.final = q.final /\ u.cancelled = q.cancelled
        /\ u.pc = "decide" /\ u.err = q.err /\ u.sources = q.sources /\ u.committed = q.committed
    BY <1>0 DEF Request
  <2>. HIDE DEF u, o
  <2>6. Ending(q, u, o)
    <3>1. /\ o # "success"
          /\ q.cancelled = FALSE => o = q.err
          /\ o = "cancellation" \/ (q.left = FALSE /\ o = q.err)
      BY <2>a, <2>b
    <3>2. q.committed = FALSE => q.sources = {}
      BY <1>0, <2>2 DEF Sourced
    <3>3. q.sources \subseteq {q.cur}
      BY <1>0 DEF Sourced
    <3>. QED
      BY <2>2, <2>5, <2>a, <3>1, <3>2, <3>3 DEF Ending
  <2>. QED
    BY <2>1, <2>3, <2>4, <2>6
<1>. QED
  BY <1>1, <1>2, <1>3, <1>4 DEF Ends

\* history.finish settles an outcome, which is success exactly if there is no
\* error.
LEMMA OutcomeOf ==
  ASSUME NEW q \in Request
  PROVE  HistoryOutcome(q) \in Outcomes /\ (HistoryOutcome(q) = "success" <=> q.err = "nil")
<1>1. q.err \in Errors /\ q.cancelled \in BOOLEAN
  BY DEF Request
<1>2. CASE q.err = "nil"
  BY <1>2 DEF HistoryOutcome, Outcomes
<1>3. CASE q.err # "nil" /\ q.cancelled
  BY <1>3 DEF HistoryOutcome, Outcomes
<1>4. CASE q.err = "rejected" /\ ~q.cancelled
  BY <1>4 DEF HistoryOutcome, Outcomes
<1>5. CASE q.err \notin {"nil", "rejected"} /\ ~q.cancelled
  <2>1. Classify(FALSE, q.err) \in Outcomes \ {"success"}
    BY <1>1, <1>5 DEF Classify, Outcomes, Errors
  <2>2. HistoryOutcome(q) \in {"cancellation", Classify(FALSE, q.err)}
    BY <1>5 DEF HistoryOutcome
  <2>. QED
    BY <1>5, <2>1, <2>2 DEF Outcomes
<1>. QED
  BY <1>1, <1>2, <1>3, <1>4, <1>5

\* The deferred end of the handler.
LEMMA FinishStep ==
  ASSUME Types, NEW r \in Requests, RInv(req[r]), Finish(r)
  PROVE  RInv(req'[r])
<1>. DEFINE q == req[r]
            t == req'[r]
<1>. SUFFICES RInv(t)
  OBVIOUS
<1>. HIDE DEF q, t
<1>0. /\ q \in Request /\ Sourced(q) /\ Tried(q) /\ Ended(q)
      /\ q.attempts \in Seq(AttemptRecord)
  BY DEF RInv, Request, q
<1>1. t = [q EXCEPT !.pc = "done", !.outcome = HistoryOutcome(q), !.order = <<>>, !.key = Nobody,
                    !.usable = FALSE, !.committed = FALSE, !.cancelled = FALSE]
  BY DEF Finish, Types, q, t
<1>2. q.pc = "finish"
  BY DEF Finish, q
<1>3. HistoryOutcome(q) \in Outcomes /\ <<>> \in Seq(Providers)
  BY <1>0, OutcomeOf
<1>4. t \in Request
  BY <1>0, <1>1, <1>3 DEF Request, Points
<1>5. /\ t.pc = "done" /\ t.outcome = HistoryOutcome(q) /\ t.sources = q.sources
      /\ t.cur = q.cur /\ t.err = q.err /\ t.attempts = q.attempts
      /\ t.initial = q.initial /\ t.final = q.final /\ t.cacheHit = q.cacheHit
  BY <1>0, <1>1 DEF Request
<1>6. Sourced(t)
  BY <1>0, <1>2, <1>5 DEF Sourced, Walking, Succeeded
<1>7. Tried(t)
  <2>1. Tried(q)
    BY <1>0
  <2>. QED
    BY <1>2, <1>5, <2>1 DEF Tried, Walking
<1>8. Ended(t)
  <2>1. t.outcome # "" /\ (t.outcome = "success" <=> t.err = "nil")
    BY <1>0, <1>3, <1>5, OutcomeOf DEF Outcomes
  <2>. QED
    BY <1>0, <1>2, <1>5, <2>1 DEF Ended, Succeeded
<1>. QED
  BY <1>4, <1>6, <1>7, <1>8 DEF RInv

-----------------------------------------------------------------------------
\* An attempt at a provider belongs to the past of its circuit or to the
\* present; a trial belongs to the present, and its flag is set.
Fits(h, a) ==
  /\ a.generation <= h.generation
  /\ a.halfOpen = TRUE =>
       a.generation = h.generation /\ h.state = "half_open" /\ h.halfOpenInFlight = TRUE
  /\ a.halfOpen = FALSE /\ a.generation = h.generation => h.state = "closed"

\* The circuit learns an outcome: admission sees no difference, and it was not
\* the outcome of a trial; or the generation of the attempt is retired.
Keeps(h, a, n) ==
  /\ a.halfOpen = FALSE
  /\ n.state = h.state /\ n.generation = h.generation
  /\ n.halfOpenInFlight = h.halfOpenInFlight

Retires(h, a, n) ==
  /\ a.generation = h.generation
  /\ n.generation = h.generation + 1
  /\ n.halfOpenInFlight = FALSE
  /\ a.halfOpen = TRUE \/ h.state = "closed"

\* recordHealthOutcome does one of the two with every outcome.
LEMMA RecordShape ==
  ASSUME NEW h \in Health, NEW a \in Attempt, NEW o \in Outcomes, Fits(h, a),
         h.halfOpenInFlight = TRUE => h.state = "half_open"
  PROVE  LET n == RecordHealthOutcome(h, a, o)
         IN n \in Health /\ (Keeps(h, a, n) \/ Retires(h, a, n))
<1>. DEFINE n == RecordHealthOutcome(h, a, o)
<1>1. n \in {Success(h, a), Failure(h, a), Ignore(h, a)}
  BY DEF RecordHealthOutcome
<1>2. Success(h, a) \in Health
  BY DEF Success, Health, CircuitStates
<1>3. Failure(h, a) \in Health
  BY CircuitConfigAssumption DEF Failure, Health, CircuitStates
<1>4. Ignore(h, a) \in Health
  BY DEF Ignore, Health, CircuitStates
<1>5. a.halfOpen \in BOOLEAN /\ h.halfOpenInFlight \in BOOLEAN
  BY DEF Attempt, Health
<1>. HIDE DEF n
<1>6. CASE a.generation # h.generation
  <2>1. n = h
    BY <1>1, <1>6 DEF Success, Failure, Ignore
  <2>2. a.halfOpen = FALSE
    BY <1>5, <1>6 DEF Fits
  <2>. QED
    BY <2>1, <2>2 DEF Keeps, n
<1>7. CASE a.generation = h.generation /\ a.halfOpen = FALSE
  <2>1. h.state = "closed" /\ h.halfOpenInFlight = FALSE
    BY <1>5, <1>7 DEF Fits
  <2>2. Keeps(h, a, n) \/ Retires(h, a, n)
    <3>1. CASE n = Success(h, a)
      BY <1>7, <2>1, <3>1 DEF Success, Keeps
    <3>2. CASE n = Failure(h, a) /\ Trips(h, a)
      BY <1>7, <2>1, <3>2 DEF Failure, Retires
    <3>3. CASE n = Failure(h, a) /\ ~Trips(h, a)
      <4>1. n = [h EXCEPT !.consecutiveFailures = h.consecutiveFailures + 1]
        BY <1>7, <3>3 DEF Failure
      <4>. QED
        BY <1>7, <4>1 DEF Keeps, Health
    <3>4. CASE n = Ignore(h, a)
      BY <1>7, <3>4 DEF Ignore, Keeps
    <3>. QED
      BY <1>1, <3>1, <3>2, <3>3, <3>4
  <2>. QED
    BY <1>1, <1>2, <1>3, <1>4, <2>2 DEF n
<1>8. CASE a.generation = h.generation /\ a.halfOpen = TRUE
  <2>1. h.state = "half_open"
    BY <1>8 DEF Fits
  <2>2. Retires(h, a, n)
    BY <1>1, <1>8, <2>1, CircuitConfigAssumption
       DEF Success, Failure, Ignore, Trips, Retires, Health
  <2>. QED
    BY <1>1, <1>2, <1>3, <1>4, <2>2 DEF n
<1>. QED
  BY <1>5, <1>6, <1>7, <1>8

\* begin admits into a closed circuit, which it leaves alone, or hands out the
\* trial of the present generation.
LEMMA BeginShape ==
  ASSUME NEW h \in Health, Admits(h)
  PROVE  LET n == Begin(h)
             a == BeginAttempt(h) IN
         /\ n \in Health /\ a \in Attempt /\ Fits(n, a)
         /\ \/ h.state = "closed" /\ n = h /\ a.halfOpen = FALSE
            \/ /\ h.state # "closed" /\ a.halfOpen = TRUE
               /\ n.state = "half_open" /\ n.halfOpenInFlight = TRUE
               /\ h.generation <= n.generation
               /\ \A b \in Attempt : Fits(h, b) => b.halfOpen = FALSE /\ b.generation < n.generation
<1>. DEFINE n == Begin(h)
            a == BeginAttempt(h)
<1>1. CASE h.state = "closed"
  <2>1. n = h /\ a = [halfOpen |-> FALSE, generation |-> h.generation]
    BY <1>1 DEF Begin, BeginAttempt
  <2>2. a \in Attempt /\ a.halfOpen = FALSE /\ a.generation = h.generation
    BY <2>1 DEF Attempt, Health
  <2>3. Fits(h, a)
    BY <1>1, <2>2 DEF Fits, Health
  <2>. QED
    BY <1>1, <2>1, <2>2, <2>3
<1>2. CASE h.state # "closed"
  <2>1. n \in Health /\ a \in Attempt
    BY <1>2 DEF Begin, BeginAttempt, Health, CircuitStates, Attempt
  <2>2. /\ n.state = "half_open" /\ n.halfOpenInFlight = TRUE
        /\ n.generation = IF h.state = "open" THEN h.generation + 1 ELSE h.generation
    BY <1>2 DEF Begin
  <2>3. a.halfOpen = TRUE /\ a.generation = n.generation
    BY <1>2 DEF BeginAttempt
  <2>4. Fits(n, a)
    BY <2>1, <2>2, <2>3 DEF Fits, Health
  <2>5. ASSUME NEW b \in Attempt, Fits(h, b)
        PROVE  b.halfOpen = FALSE /\ b.generation < n.generation
    <3>1. b.halfOpen \in BOOLEAN /\ b.generation \in Nat /\ h.generation \in Nat
      BY DEF Attempt, Health
    <3>2. b.halfOpen = FALSE
      BY <1>2, <2>5, <3>1 DEF Admits, Fits
    <3>. QED
      BY <1>2, <2>2, <2>5, <3>1, <3>2 DEF Fits
  <2>. HIDE DEF n, a
  <2>6. h.generation <= n.generation
    BY <2>2 DEF Health
  <2>. QED
    BY <1>2, <2>1, <2>2, <2>3, <2>4, <2>5, <2>6 DEF n, a
<1>. QED
  BY <1>1, <1>2

\* The request is at the provider.
At(r, p) == Attempting(r) /\ req[r].cur = p

\* The circuit of p and the requests at p: every attempt fits, at most one is a
\* trial, and the flag is set only for a trial that is there.
CircuitInv(p) ==
  /\ \A r \in Requests : At(r, p) => Fits(health[p], req[r].attempt)
  /\ \A r, s \in Requests :
       At(r, p) /\ req[r].attempt.halfOpen = TRUE /\ At(s, p) /\ req[s].attempt.halfOpen = TRUE
       => r = s
  /\ health[p].halfOpenInFlight = TRUE =>
       /\ health[p].state = "half_open"
       /\ \E r \in Requests : At(r, p) /\ req[r].attempt.halfOpen = TRUE

\* The other requests stay where they are, or go elsewhere but not to or from p.
OthersStay(p, S) ==
  \A o \in S : /\ At(o, p)' <=> At(o, p)
               /\ At(o, p) => req'[o].attempt = req[o].attempt

\* Steps that neither come to p nor leave it.
LEMMA CircuitQuiet ==
  ASSUME NEW p \in Providers, CircuitInv(p), OthersStay(p, Requests),
         health'[p].state = health[p].state, health'[p].generation = health[p].generation,
         health'[p].halfOpenInFlight = health[p].halfOpenInFlight
  PROVE  CircuitInv(p)'
  BY DEF CircuitInv, OthersStay, Fits

\* A request is admitted to p.
LEMMA CircuitBegin ==
  ASSUME Types, NEW p \in Providers, CircuitInv(p), NEW r \in Requests, Admits(health[p]),
         ~At(r, p), At(r, p)', req'[r].attempt = BeginAttempt(health[p]),
         health'[p] = Begin(health[p]), OthersStay(p, Requests \ {r})
  PROVE  CircuitInv(p)'
<1>. DEFINE h == health[p]
            n == health'[p]
            a == req'[r].attempt
<1>1. h \in Health
  BY DEF Types
<1>2. /\ n \in Health /\ a \in Attempt /\ Fits(n, a)
      /\ \/ h.state = "closed" /\ n = h /\ a.halfOpen = FALSE
         \/ /\ h.state # "closed" /\ a.halfOpen = TRUE
            /\ n.state = "half_open" /\ n.halfOpenInFlight = TRUE
            /\ h.generation <= n.generation
            /\ \A b \in Attempt : Fits(h, b) => b.halfOpen = FALSE /\ b.generation < n.generation
  BY <1>1, BeginShape
<1>3. \A o \in Requests : req[o].attempt \in Attempt
  BY DEF Types, Request
<1>4. \A o \in Requests \ {r} :
        At(o, p)' => At(o, p) /\ req'[o].attempt = req[o].attempt /\ Fits(h, req[o].attempt)
  BY DEF OthersStay, CircuitInv
<1>. HIDE DEF h, n, a
<1>5. CASE n = h /\ a.halfOpen = FALSE
  <2>1. \A o \in Requests : At(o, p)' => Fits(n, req'[o].attempt)
    BY <1>2, <1>4, <1>5 DEF a
  <2>2. \A o \in Requests : At(o, p)' /\ req'[o].attempt.halfOpen = TRUE =>
          o # r /\ At(o, p) /\ req[o].attempt.halfOpen = TRUE
    BY <1>4, <1>5 DEF a
  <2>3. \A o \in Requests : At(o, p) /\ req[o].attempt.halfOpen = TRUE =>
          At(o, p)' /\ req'[o].attempt.halfOpen = TRUE
    BY DEF OthersStay
  <2>. QED
    BY <1>5, <2>1, <2>2, <2>3 DEF CircuitInv, h, n
<1>6. CASE /\ a.halfOpen = TRUE /\ n.state = "half_open"
           /\ \A b \in Attempt : Fits(h, b) => b.halfOpen = FALSE /\ b.generation < n.generation
  <2>1. \A o \in Requests \ {r} : At(o, p)' =>
          req'[o].attempt.halfOpen = FALSE /\ req'[o].attempt.generation < n.generation
    BY <1>3, <1>4, <1>6
  <2>2. ASSUME NEW o \in Requests \ {r}, At(o, p)' PROVE Fits(n, req'[o].attempt)
    <3>. DEFINE b == req'[o].attempt
    <3>1. b \in Attempt /\ b.halfOpen = FALSE /\ b.generation < n.generation
      BY <1>3, <1>4, <2>1, <2>2
    <3>. HIDE DEF b
    <3>2. n.generation \in Nat
      BY <1>2 DEF Health
    <3>3. b.generation \in Nat
      BY <3>1 DEF Attempt
    <3>4. Fits(n, b)
      BY <3>1, <3>2, <3>3 DEF Fits
    <3>. QED
      BY <3>4 DEF b
  <2>. QED
    BY <1>2, <1>6, <2>1, <2>2 DEF CircuitInv, n, a
<1>. QED
  BY <1>2, <1>5, <1>6

\* A request leaves p, and the circuit learns the outcome.
LEMMA CircuitEnd ==
  ASSUME Types, NEW p \in Providers, CircuitInv(p), NEW r \in Requests, NEW o \in Outcomes,
         At(r, p), ~At(r, p)', OthersStay(p, Requests \ {r}),
         health'[p] = RecordHealthOutcome(health[p], req[r].attempt, o)
  PROVE  CircuitInv(p)' /\ health'[p] \in Health
<1>. DEFINE h == health[p]
            n == health'[p]
            a == req[r].attempt
<1>1. h \in Health /\ \A x \in Requests : req[x].attempt \in Attempt
  BY DEF Types, Request
<1>2. n \in Health /\ (Keeps(h, a, n) \/ Retires(h, a, n))
  BY <1>1, RecordShape DEF CircuitInv
<1>3. \A x \in Requests : At(x, p)' =>
        x # r /\ At(x, p) /\ req'[x].attempt = req[x].attempt /\ Fits(h, req[x].attempt)
  BY DEF OthersStay, CircuitInv
<1>4. CASE Keeps(h, a, n)
  <2>1. \A x \in Requests : At(x, p)' => Fits(n, req'[x].attempt)
    BY <1>3, <1>4 DEF Keeps, Fits
  <2>2. \A x \in Requests : At(x, p) /\ req[x].attempt.halfOpen = TRUE =>
          At(x, p)' /\ req'[x].attempt.halfOpen = TRUE
    BY <1>4 DEF OthersStay, Keeps
  <2>. QED
    BY <1>2, <1>3, <1>4, <2>1, <2>2 DEF CircuitInv, Keeps
<1>5. CASE Retires(h, a, n)
  <2>0. /\ h.generation \in Nat /\ n.generation \in Nat
        /\ \A x \in Requests : req[x].attempt.generation \in Nat
    BY <1>1, <1>2 DEF Health, Attempt
  <2>1. \A x \in Requests : At(x, p)' => req'[x].attempt.halfOpen = FALSE
    <3>. SUFFICES ASSUME NEW x \in Requests, At(x, p)', req[x].attempt.halfOpen = TRUE
                  PROVE  FALSE
      BY <1>1, <1>3 DEF Attempt
    <3>1. h.state = "half_open" /\ At(x, p) /\ x # r
      BY <1>3 DEF Fits
    <3>. QED
      BY <1>5, <3>1 DEF Retires, CircuitInv
  <2>2. \A x \in Requests : At(x, p)' => req'[x].attempt.generation < n.generation
    <3>1. n.generation = h.generation + 1
      BY <1>5 DEF Retires
    <3>2. \A x \in Requests : At(x, p)' =>
            /\ req'[x].attempt.generation = req[x].attempt.generation
            /\ req[x].attempt.generation <= h.generation
      BY <1>3 DEF Fits
    <3>. HIDE DEF h, n
    <3>. QED
      BY <2>0, <3>1, <3>2
  <2>3. ASSUME NEW x \in Requests, At(x, p)' PROVE Fits(n, req'[x].attempt)
    <3>. DEFINE b == req'[x].attempt
    <3>1. b.halfOpen = FALSE /\ b.generation < n.generation /\ b.generation \in Nat
      BY <1>3, <2>0, <2>1, <2>2, <2>3
    <3>2. n.generation \in Nat
      BY <2>0
    <3>. HIDE DEF b, n
    <3>3. Fits(n, b)
      BY <3>1, <3>2 DEF Fits
    <3>. QED
      BY <3>3 DEF b
  <2>. QED
    BY <1>2, <1>5, <2>1, <2>3 DEF CircuitInv, Retires
<1>. QED
  BY <1>2, <1>4, <1>5

-----------------------------------------------------------------------------
IInv ==
  /\ Types
  /\ \A r \in Requests : RInv(req[r])
  /\ \A p \in Providers : CircuitInv(p)

\* The steps of r that have nothing to do with an attempt's begin or end.
Aside(r) ==
  \/ Reject(r) \/ Start(r) \/ Exhaust(r) \/ SkipUnmapped(r) \/ Visit(r) \/ CannotStream(r)
  \/ CacheHit(r) \/ CacheMiss(r) \/ CircuitSkip(r) \/ StreamOpens(r) \/ Emit(r)
  \/ CallFails(r) \/ Decide(r) \/ Store(r) \/ Finish(r) \/ Cancel(r)

\* A step brings the request closer to its end, or leaves it where it is.
Advances(q, t) ==
  q.pc = "new" \/ StepsLeft(t) < StepsLeft(q) \/ (t.pc = q.pc /\ t.order = q.order)

\* A step gives the client nothing, or content of the provider in hand only.
Delivers(q, t) ==
  t.sources = q.sources \/ (q.sources \subseteq {q.cur} /\ q.cur \in Providers /\ t.sources = {q.cur})

\* These steps leave the request at the provider it is at, or away from all.
LEMMA AsideStays ==
  ASSUME Types, NEW r \in Requests, RInv(req[r]), Aside(r)
  PROVE  /\ health' = health /\ req' = [req EXCEPT ![r] = req'[r]]
         /\ \/ ~Attempting(r) /\ ~Attempting(r)'
            \/ /\ Attempting(r) /\ Attempting(r)'
               /\ req'[r].cur = req[r].cur /\ req'[r].attempt = req[r].attempt
         /\ Advances(req[r], req'[r]) /\ Delivers(req[r], req'[r])
         /\ req[r].pc # "done" /\ (req'[r].pc = "done" => Finish(r))
<1>. DEFINE q == req[r]
            t == req'[r]
<1>1. /\ q \in Request /\ req \in [Requests -> Request]
      /\ Len(q.order) \in Nat /\ (q.order # <<>> => Len(Tail(q.order)) = Len(q.order) - 1)
  <2>1. q \in Request /\ req \in [Requests -> Request]
    BY DEF Types
  <2>2. q.order \in Seq(Providers)
    BY <2>1 DEF Request
  <2>. QED
    BY <2>1, <2>2
<1>2. health' = health
  BY DEF Aside, Reject, Start, Exhaust, SkipUnmapped, Visit, CannotStream, CacheHit, CacheMiss,
         CircuitSkip, StreamOpens, Emit, CallFails, Decide, Store, Finish, Cancel
<1>3. \E v : req' = [req EXCEPT ![r] = v]
  BY <1>1 DEF Aside, Reject, Start, Exhaust, SkipUnmapped, Visit, CannotStream, CacheHit, CacheMiss,
         CircuitSkip, StreamOpens, Emit, CallFails, Decide, Store, Finish, Cancel
<1>4. req' = [req EXCEPT ![r] = t]
  BY <1>1, <1>3
<1>. DEFINE Goal == /\ \/ q.pc \notin {"call", "read", "record"} /\ t.pc \notin {"call", "read", "record"}
                       \/ /\ q.pc \in {"call", "read", "record"} /\ t.pc \in {"call", "read", "record"}
                          /\ t.cur = q.cur /\ t.attempt = q.attempt
                    /\ Advances(q, t) /\ Delivers(q, t)
                    /\ q.pc # "done" /\ (t.pc = "done" => Finish(r))
<1>5. SUFFICES Goal
  BY <1>2, <1>4 DEF Attempting
<1>6. CASE Reject(r)
  <2>1. t.pc = "finish" /\ t.sources = q.sources
    BY <1>1, <1>6 DEF Reject, Request
  <2>2. Advances(q, t)
    BY <1>1, <1>6, <2>1 DEF Reject, Advances, StepsLeft, Arrives
  <2>. QED
    BY <1>6, <2>1, <2>2 DEF Reject, Delivers, Arrives
<1>7. CASE Start(r)
  <2>0. PICK b \in BOOLEAN, o \in Orders :
          req' = [req EXCEPT ![r].pc = "visit", ![r].streaming = b, ![r].order = o]
    BY <1>7 DEF Start
  <2>1. t.pc = "visit" /\ t.sources = q.sources
    BY <1>1, <2>0 DEF Request
  <2>2. Advances(q, t)
    BY <1>1, <1>7, <2>1 DEF Start, Advances, StepsLeft, Arrives
  <2>. QED
    BY <1>7, <2>1, <2>2 DEF Start, Delivers, Arrives
<1>8. CASE Exhaust(r)
  <2>1. t.pc = "finish" /\ t.order = q.order /\ t.sources = q.sources
    BY <1>1, <1>8 DEF Exhaust, Request
  <2>2. Advances(q, t)
    BY <1>1, <1>8, <2>1 DEF Exhaust, Advances, StepsLeft
  <2>. QED
    BY <1>8, <2>1, <2>2 DEF Exhaust, Delivers
<1>9. CASE SkipUnmapped(r)
  <2>1. /\ t.sources = q.sources
        /\ \/ t.pc = "visit" /\ t.order = Tail(q.order)
           \/ t.pc = "finish" /\ t.order = q.order
    BY <1>1, <1>9 DEF SkipUnmapped, Request
  <2>2. Advances(q, t)
    <3>1. q.pc = "visit" /\ q.order # <<>>
      BY <1>9 DEF SkipUnmapped
    <3>2. StepsLeft(q) = 7 * Len(q.order) + 3
      BY <3>1 DEF StepsLeft
    <3>3. CASE t.pc = "visit"
      <4>1. StepsLeft(t) = 7 * Len(t.order) + 3
        BY <3>3 DEF StepsLeft
      <4>2. Len(t.order) = Len(q.order) - 1
        BY <1>1, <2>1, <3>1, <3>3
      <4>. QED
        BY <1>1, <3>2, <4>1, <4>2 DEF Advances
    <3>4. CASE t.pc = "finish"
      <4>1. StepsLeft(t) = 7 * Len(t.order) + 1
        BY <3>4 DEF StepsLeft
      <4>. QED
        BY <1>1, <2>1, <3>1, <3>2, <3>4, <4>1 DEF Advances
    <3>. QED
      BY <2>1, <3>3, <3>4
  <2>. QED
    BY <1>9, <2>1, <2>2 DEF SkipUnmapped, Delivers
<1>10. CASE Visit(r)
  <2>1. t.pc \in {"lookup", "begin"} /\ t.order = Tail(q.order) /\ t.sources = q.sources
    BY <1>1, <1>10 DEF Visit, Request
  <2>2. Advances(q, t)
    <3>1. q.pc = "visit" /\ q.order # <<>>
      BY <1>10 DEF Visit
    <3>2. StepsLeft(q) = 7 * Len(q.order) + 3
      BY <3>1 DEF StepsLeft
    <3>3. CASE t.pc = "lookup"
      <4>1. StepsLeft(t) = 7 * Len(t.order) + 9
        BY <3>3 DEF StepsLeft
      <4>. QED
        BY <1>1, <2>1, <3>1, <3>2, <3>3, <4>1 DEF Advances
    <3>4. CASE t.pc = "begin"
      <4>1. StepsLeft(t) = 7 * Len(t.order) + 8
        BY <3>4 DEF StepsLeft
      <4>. QED
        BY <1>1, <2>1, <3>1, <3>2, <3>4, <4>1 DEF Advances
    <3>. QED
      BY <2>1, <3>3, <3>4
  <2>. QED
    BY <1>10, <2>1, <2>2 DEF Visit, Delivers
<1>11. CASE CannotStream(r)
  <2>1. t.pc = "finish" /\ t.order = q.order /\ t.sources = q.sources
    BY <1>1, <1>11 DEF CannotStream, Request
  <2>2. Advances(q, t)
    BY <1>1, <1>11, <2>1 DEF CannotStream, Advances, StepsLeft
  <2>. QED
    BY <1>11, <2>1, <2>2 DEF CannotStream, Delivers
<1>12. CASE CacheHit(r)
  <2>0. t.pc = "finish" /\ t.order = q.order /\ t.sources = {cache[q.key]}
    BY <1>1, <1>12 DEF CacheHit, Request
  <2>1. t.pc = "finish" /\ t.order = q.order /\ Delivers(q, t)
    BY <1>12, <2>0 DEF CacheHit, Delivers, Types, RInv, Sourced
  <2>2. Advances(q, t)
    BY <1>1, <1>12, <2>1 DEF CacheHit, Advances, StepsLeft
  <2>. QED
    BY <1>12, <2>1, <2>2 DEF CacheHit
<1>13. CASE CacheMiss(r)
  <2>1. t.pc = "begin" /\ t.order = q.order /\ t.sources = q.sources
    BY <1>1, <1>13 DEF CacheMiss, Request
  <2>2. Advances(q, t)
    BY <1>1, <1>13, <2>1 DEF CacheMiss, Advances, StepsLeft
  <2>. QED
    BY <1>13, <2>1, <2>2 DEF CacheMiss, Delivers
<1>14. CASE CircuitSkip(r)
  <2>1. t.pc \in {"visit", "finish"} /\ t.order = q.order /\ t.sources = q.sources
    BY <1>1, <1>14 DEF CircuitSkip, Request
  <2>2. Advances(q, t)
    <3>1. q.pc = "begin"
      BY <1>14 DEF CircuitSkip
    <3>2. StepsLeft(q) = 7 * Len(q.order) + 8
      BY <3>1 DEF StepsLeft
    <3>3. CASE t.pc = "visit"
      <4>1. StepsLeft(t) = 7 * Len(t.order) + 3
        BY <3>3 DEF StepsLeft
      <4>. QED
        BY <1>1, <2>1, <3>1, <3>2, <3>3, <4>1 DEF Advances
    <3>4. CASE t.pc = "finish"
      <4>1. StepsLeft(t) = 7 * Len(t.order) + 1
        BY <3>4 DEF StepsLeft
      <4>. QED
        BY <1>1, <2>1, <3>1, <3>2, <3>4, <4>1 DEF Advances
    <3>. QED
      BY <2>1, <3>3, <3>4
  <2>. QED
    BY <1>14, <2>1, <2>2 DEF CircuitSkip, Delivers
<1>15. CASE Decide(r)
  <2>1. t.pc \in {"visit", "finish"} /\ t.order = q.order /\ t.sources = q.sources
    BY <1>1, <1>15 DEF Decide, Request
  <2>2. Advances(q, t)
    <3>1. q.pc = "decide"
      BY <1>15 DEF Decide
    <3>2. StepsLeft(q) = 7 * Len(q.order) + 4
      BY <3>1 DEF StepsLeft
    <3>3. CASE t.pc = "visit"
      <4>1. StepsLeft(t) = 7 * Len(t.order) + 3
        BY <3>3 DEF StepsLeft
      <4>. QED
        BY <1>1, <2>1, <3>1, <3>2, <3>3, <4>1 DEF Advances
    <3>4. CASE t.pc = "finish"
      <4>1. StepsLeft(t) = 7 * Len(t.order) + 1
        BY <3>4 DEF StepsLeft
      <4>. QED
        BY <1>1, <2>1, <3>1, <3>2, <3>4, <4>1 DEF Advances
    <3>. QED
      BY <2>1, <3>3, <3>4
  <2>. QED
    BY <1>15, <2>1, <2>2 DEF Decide, Delivers
<1>16. CASE Store(r)
  <2>1. t.pc = "finish" /\ t.order = q.order /\ t.sources = q.sources
    BY <1>1, <1>16 DEF Store, Request
  <2>2. Advances(q, t)
    BY <1>1, <1>16, <2>1 DEF Store, Advances, StepsLeft
  <2>. QED
    BY <1>16, <2>1, <2>2 DEF Store, Delivers
<1>17. CASE Finish(r)
  <2>1. t.pc = "done" /\ t.order = <<>> /\ t.sources = q.sources
    BY <1>1, <1>17 DEF Finish, Request
  <2>2. Advances(q, t)
    BY <1>1, <1>17, <2>1 DEF Finish, Advances, StepsLeft
  <2>. QED
    BY <1>17, <2>1, <2>2 DEF Finish, Delivers
<1>18. CASE StreamOpens(r)
  <2>1. t.pc = "read" /\ t.order = q.order /\ t.sources = q.sources /\ t.cur = q.cur /\ t.attempt = q.attempt
    BY <1>1, <1>18 DEF StreamOpens, Request
  <2>2. Advances(q, t)
    BY <1>1, <1>18, <2>1 DEF StreamOpens, Advances, StepsLeft
  <2>. QED
    BY <1>18, <2>1, <2>2 DEF StreamOpens, Delivers
<1>19. CASE Emit(r)
  <2>0. /\ t.pc = "read" /\ t.order = q.order /\ t.sources = q.sources \cup {q.cur}
        /\ t.cur = q.cur /\ t.attempt = q.attempt
    BY <1>1, <1>19 DEF Emit, Request
  <2>1. /\ t.pc = "read" /\ t.order = q.order /\ Delivers(q, t)
        /\ t.cur = q.cur /\ t.attempt = q.attempt
    BY <1>19, <2>0 DEF Emit, Delivers, RInv, Sourced
  <2>2. Advances(q, t)
    BY <1>1, <1>19, <2>1 DEF Emit, Advances, StepsLeft
  <2>. QED
    BY <1>19, <2>1, <2>2 DEF Emit
<1>20. CASE Cancel(r)
  <2>1. t.pc = q.pc /\ t.order = q.order /\ t.sources = q.sources /\ t.cur = q.cur /\ t.attempt = q.attempt
    BY <1>1, <1>20 DEF Cancel, Request
  <2>2. Advances(q, t)
    BY <1>1, <1>20, <2>1 DEF Cancel, Advances, StepsLeft
  <2>. QED
    BY <1>20, <2>1, <2>2 DEF Cancel, Delivers
<1>21. CASE CallFails(r)
  <2>0. PICK e \in service.errors :
          req' = [req EXCEPT ![r] = [q EXCEPT
            !.pc = "record", !.err = e, !.verdict = Classify(q.cancelled, e),
            !.left = q.cancelled]]
    BY <1>21 DEF CallFails
  <2>1. /\ t.pc = "record" /\ t.order = q.order /\ t.sources = q.sources
        /\ t.cur = q.cur /\ t.attempt = q.attempt
    BY <1>1, <2>0 DEF Request
  <2>. HIDE DEF q, t
  <2>2. q.pc \in {"call", "read"}
    BY <1>21 DEF CallFails, q
  <2>3. Advances(q, t)
    <3>1. StepsLeft(t) = 7 * Len(q.order) + 5
      BY <2>1 DEF StepsLeft
    <3>2. CASE q.pc = "call"
      <4>1. StepsLeft(q) = 7 * Len(q.order) + 7
        BY <3>2 DEF StepsLeft
      <4>. QED
        BY <1>1, <3>1, <4>1 DEF Advances
    <3>3. CASE q.pc = "read"
      <4>1. StepsLeft(q) = 7 * Len(q.order) + 6
        BY <3>3 DEF StepsLeft
      <4>. QED
        BY <1>1, <3>1, <4>1 DEF Advances
    <3>. QED
      BY <2>2, <3>2, <3>3
  <2>. QED
    BY <2>1, <2>2, <2>3 DEF Delivers
<1>. QED
  BY <1>6, <1>7, <1>8, <1>9, <1>10, <1>11, <1>12, <1>13, <1>14, <1>15, <1>16, <1>17,
     <1>18, <1>19, <1>20, <1>21 DEF Aside

\* The inductive step.
LEMMA InvNext == IInv /\ [Next]_vars => IInv'
<1>. SUFFICES ASSUME IInv, [Next]_vars
              PROVE  IInv'
  OBVIOUS
<1>0. Types /\ service' = service
  BY DEF IInv, Next, vars
<1>1. /\ \A r \in Requests : RInv(req[r]) /\ req[r] \in Request
      /\ \A p \in Providers : CircuitInv(p) /\ health[p] \in Health
      /\ req \in [Requests -> Request]
  BY DEF IInv, Types
<1>. DEFINE HealthOK == health' \in [Providers -> Health] /\ \A p \in Providers : CircuitInv(p)'
            CacheOK == /\ cache' \in [Providers -> Providers \cup {Nobody}]
                       /\ \A p \in Providers : cache'[p] \in {Nobody, p}
            Moves(r) == req' = [req EXCEPT ![r] = req'[r]]
<1>3. UNCHANGED cache => CacheOK
  BY <1>0 DEF Types
<1>4. ASSUME NEW r \in Requests, Moves(r), RInv(req'[r]), HealthOK, CacheOK
      PROVE  IInv'
  <2>1. \A o \in Requests : RInv(req'[o])
    BY <1>1, <1>4
  <2>2. \A o \in Requests : RInv(req[o])'
    BY <1>0, <2>1 DEF RInv, Tried, Retried, LastRetried
  <2>3. req' \in [Requests -> Request]
    BY <1>1, <1>4, <2>1 DEF RInv
  <2>. QED
    BY <1>0, <1>4, <2>2, <2>3 DEF IInv, Types
<1>5. ASSUME NEW r \in Requests, Aside(r)
      PROVE  IInv'
  <2>1. RInv(req'[r])
    BY <1>0, <1>1, <1>5, WalkStep, OrderStep, PointStep, HitOrBeginStep, FinishStep DEF Aside
  <2>2. /\ health' = health /\ Moves(r)
        /\ \/ ~Attempting(r) /\ ~Attempting(r)'
           \/ /\ Attempting(r) /\ Attempting(r)'
              /\ req'[r].cur = req[r].cur /\ req'[r].attempt = req[r].attempt
    BY <1>0, <1>1, <1>5, AsideStays
  <2>3. \A p \in Providers : OthersStay(p, Requests)
    BY <1>1, <2>2 DEF OthersStay, At, Attempting
  <2>4. HealthOK
    BY <1>0, <1>1, <2>2, <2>3, CircuitQuiet DEF Types
  <2>5. CacheOK
    <3>1. CASE Store(r)
      BY <1>0, <1>1, <1>3, <3>1 DEF Store, Types, RInv, Sourced
    <3>2. CASE ~Store(r)
      BY <1>3, <1>5, <3>2 DEF Aside, Reject, Start, Exhaust, SkipUnmapped, Visit, CannotStream,
           CacheHit, CacheMiss, CircuitSkip, StreamOpens, Emit, CallFails, Decide, Finish, Cancel
    <3>. QED
      BY <3>1, <3>2
  <2>. HIDE DEF HealthOK, CacheOK, Moves
  <2>. QED
    BY <1>4, <2>1, <2>2, <2>4, <2>5
<1>6. ASSUME NEW r \in Requests, BeginAttemptAt(r)
      PROVE  IInv'
  <2>0. PICK p \in Providers : p = req[r].cur
    BY <1>1, <1>6 DEF BeginAttemptAt, RInv, Sourced
  <2>1. RInv(req'[r])
    BY <1>0, <1>1, <1>6, HitOrBeginStep
  <2>2. /\ Admits(health[p]) /\ req[r].pc = "begin"
        /\ health' = [health EXCEPT ![p] = Begin(health[p])] /\ UNCHANGED cache
    BY <2>0, <1>6 DEF BeginAttemptAt
  <2>3. Moves(r)
    BY <1>1, <1>6 DEF BeginAttemptAt
  <2>4. req'[r].pc = "call" /\ req'[r].cur = p /\ req'[r].attempt = BeginAttempt(health[p])
    BY <2>0, <1>1, <1>6 DEF BeginAttemptAt, Request
  <2>5. ~Attempting(r) /\ Attempting(r)'
    BY <2>2, <2>4 DEF Attempting
  <2>6. \A o \in Requests \ {r} : req'[o] = req[o]
    BY <1>1, <2>3
  <2>7. \A x \in Providers : OthersStay(x, Requests \ {r})
    BY <2>6 DEF OthersStay, At, Attempting
  <2>8. CircuitInv(p)'
    BY <1>0, <1>1, <2>2, <2>4, <2>5, <2>7, CircuitBegin DEF Types, At
  <2>9. ASSUME NEW x \in Providers, x # p
        PROVE  CircuitInv(x)'
    <3>1. health'[x] = health[x]
      BY <1>0, <2>2, <2>9 DEF Types
    <3>2. ~At(r, x) /\ ~At(r, x)'
      BY <2>0, <2>4, <2>5, <2>9 DEF At
    <3>3. OthersStay(x, Requests)
      BY <2>7, <3>2 DEF OthersStay
    <3>. QED
      BY <1>1, <3>1, <3>3, CircuitQuiet
  <2>10. Begin(health[p]) \in Health
    BY <1>1, <2>2, BeginShape
  <2>11. HealthOK
    <3>1. health' \in [Providers -> Health]
      BY <1>0, <2>2, <2>10 DEF Types
    <3>. QED
      BY <2>8, <2>9, <3>1
  <2>. HIDE DEF HealthOK, CacheOK, Moves
  <2>. QED
    BY <1>3, <1>4, <2>1, <2>2, <2>3, <2>11
<1>7. ASSUME NEW r \in Requests, Ends(r)
      PROVE  IInv'
  <2>0. req[r].cur \in Providers
    <3>1. req[r].pc \in {"call", "read", "record"}
      BY <1>7 DEF Ends, CompleteOK, StreamEnds, EmitFails, RecordFailure
    <3>. QED
      BY <1>1, <3>1 DEF RInv, Sourced
  <2>p. PICK p \in Providers : p = req[r].cur
    BY <2>0
  <2>1. PICK u \in Request, o \in Outcomes : EndAttempt(r, o, u) /\ Ending(req[r], u, o)
    BY <1>0, <1>1, <1>7, EndingOf
  <2>2. RInv(FinishAttempt(u, o))
    BY <1>1, <2>1, FinishedAttempt
  <2>3. req' = [req EXCEPT ![r] = FinishAttempt(u, o)] /\ UNCHANGED cache
    BY <2>1 DEF EndAttempt
  <2>4. req'[r] = FinishAttempt(u, o) /\ Moves(r)
    BY <1>1, <2>3
  <2>5. /\ u.pc \in {"finish", "store", "decide"} /\ u.cur = p /\ u.attempt = req[r].attempt
        /\ req[r].pc \in {"call", "read", "record"}
    BY <2>p, <2>1 DEF Ending
  <2>6. FinishAttempt(u, o).pc = u.pc /\ FinishAttempt(u, o).cur = p
    BY <2>5, FinishFields
  <2>7. At(r, p) /\ Attempting(r) /\ ~Attempting(r)'
    BY <2>p, <2>4, <2>5, <2>6 DEF Attempting, At
  <2>8. health' = [health EXCEPT ![p] = RecordHealthOutcome(health[p], req[r].attempt, o)]
    BY <2>1, <2>5 DEF EndAttempt
  <2>9. \A x \in Providers : OthersStay(x, Requests \ {r})
    <3>1. \A x \in Requests \ {r} : req'[x] = req[x]
      BY <1>1, <2>4
    <3>. QED
      BY <3>1 DEF OthersStay, At, Attempting
  <2>10. CircuitInv(p)' /\ health'[p] \in Health
    <3>1. ~At(r, p)'
      BY <2>7 DEF At
    <3>2. health'[p] = RecordHealthOutcome(health[p], req[r].attempt, o)
      BY <1>0, <2>8 DEF Types
    <3>. QED
      BY <1>0, <1>1, <2>7, <2>9, <3>1, <3>2, CircuitEnd
  <2>11. ASSUME NEW x \in Providers, x # p
         PROVE  CircuitInv(x)' /\ health'[x] \in Health
    <3>1. health'[x] = health[x]
      BY <1>0, <2>8, <2>11 DEF Types
    <3>2. ~At(r, x) /\ ~At(r, x)'
      BY <2>p, <2>7, <2>11 DEF At
    <3>3. OthersStay(x, Requests)
      BY <2>9, <3>2 DEF OthersStay
    <3>. QED
      BY <1>1, <3>1, <3>3, CircuitQuiet
  <2>12. HealthOK
    <3>1. health' \in [Providers -> Health]
      BY <1>0, <2>8, <2>10, <2>11 DEF Types
    <3>. QED
      BY <2>10, <2>11, <3>1
  <2>. HIDE DEF HealthOK, CacheOK, Moves
  <2>. QED
    BY <1>3, <1>4, <2>2, <2>3, <2>4, <2>12
<1>8. ASSUME UNCHANGED req, HealthOK, CacheOK
      PROVE  IInv'
  <2>1. \A o \in Requests : RInv(req[o])'
    BY <1>0, <1>1, <1>8 DEF RInv, Tried, Retried, LastRetried
  <2>. QED
    BY <1>0, <1>8, <2>1 DEF IInv, Types
<1>9. ASSUME UNCHANGED req, NEW x \in Providers, Tick(x) \/ Expire(x)
      PROVE  IInv'
  <2>1. ASSUME NEW p \in Providers
        PROVE  /\ health'[p] \in Health
               /\ health'[p].state = health[p].state
               /\ health'[p].generation = health[p].generation
               /\ health'[p].halfOpenInFlight = health[p].halfOpenInFlight
    <3>1. CASE Tick(x)
      <4>1. health[x].cooldown - 1 \in Nat
        BY <1>1, <3>1 DEF Tick, Health
      <4>2. health' = [health EXCEPT ![x] = [health[x] EXCEPT !.cooldown = health[x].cooldown - 1]]
        BY <3>1 DEF Tick, Elapse
      <4>3. health'[p] = IF p = x THEN [health[x] EXCEPT !.cooldown = health[x].cooldown - 1]
                                  ELSE health[p]
        BY <1>0, <4>2 DEF Types
      <4>. QED
        BY <1>1, <4>1, <4>3 DEF Health
    <3>2. CASE Expire(x)
      BY <1>1, <3>2 DEF Expire
    <3>. QED
      BY <1>9, <3>1, <3>2
  <2>2. HealthOK
    <3>1. \A p \in Providers : OthersStay(p, Requests)
      BY <1>9 DEF OthersStay, At, Attempting
    <3>2. \A p \in Providers : CircuitInv(p)'
      BY <1>1, <2>1, <3>1, CircuitQuiet
    <3>3. health' \in [Providers -> Health]
      BY <1>0, <1>9, <2>1 DEF Types, Tick, Expire
    <3>. QED
      BY <3>2, <3>3
  <2>3. CacheOK
    BY <1>0, <1>9 DEF Types, Tick, Expire
  <2>. HIDE DEF HealthOK, CacheOK
  <2>. QED
    BY <1>8, <1>9, <2>2, <2>3
<1>10. CASE \E r \in Requests : Reject(r) \/ Start(r) \/ Handler(r) \/ Emit(r) \/ Cancel(r)
  BY <1>5, <1>6, <1>7, <1>10 DEF Handler, Aside, Ends
<1>11. CASE \E x \in Providers : Tick(x) \/ Expire(x)
  BY <1>9, <1>11 DEF Tick, Expire
<1>12. CASE UNCHANGED vars
  <2>1. UNCHANGED <<req, health, cache>>
    BY <1>12 DEF vars
  <2>2. HealthOK
    BY <1>0, <1>1, <2>1, CircuitQuiet DEF Types, OthersStay, At, Attempting
  <2>3. CacheOK
    BY <1>3, <2>1
  <2>. HIDE DEF HealthOK, CacheOK
  <2>. QED
    BY <1>8, <2>1, <2>2, <2>3
<1>. QED
  BY <1>10, <1>11, <1>12 DEF Next

\* The invariant holds in every reachable state.
THEOREM Invariance == Spec => []IInv
<1>1. Init => IInv
  <2>. SUFFICES ASSUME Init
                PROVE  IInv
    OBVIOUS
  <2>1. NewRequest \in Request
    <3>1. NoAttempt \in Attempt /\ <<>> \in Seq(Providers) /\ <<>> \in Seq(AttemptRecord)
      BY DEF NoAttempt, Attempt
    <3>2. "new" \in Points /\ "nil" \in Errors
      BY DEF Points, Errors
    <3>. QED
      BY <3>1, <3>2 DEF NewRequest, Request
  <2>2. NewHealth \in Health
    BY DEF NewHealth, Health, CircuitStates
  <2>3. Types
    BY <2>1, <2>2 DEF Init, Types
  <2>4. Sourced(NewRequest) /\ Tried(NewRequest) /\ Ended(NewRequest)
    <3>. DEFINE q == NewRequest
    <3>1. /\ q.pc = "new" /\ q.sources = {} /\ q.committed = FALSE /\ q.usable = FALSE
          /\ q.final = Nobody /\ q.cacheHit = FALSE /\ q.attempts = <<>>
      BY DEF NewRequest
    <3>2. Len(q.attempts) = 0 /\ 1..(0 - 1) = {}
      BY <3>1
    <3>. HIDE DEF q
    <3>3. Sourced(q)
      BY <3>1 DEF Sourced, Walking, Succeeded
    <3>4. Tried(q)
      BY <3>1, <3>2 DEF Tried, Retried, Walking
    <3>5. Ended(q)
      BY <3>1, <3>2 DEF Ended, Succeeded
    <3>. QED
      BY <3>3, <3>4, <3>5 DEF q
  <2>5. \A r \in Requests : RInv(req[r])
    BY <2>1, <2>4 DEF Init, RInv
  <2>6. \A p \in Providers : CircuitInv(p)
    BY DEF Init, CircuitInv, At, Attempting, NewRequest, NewHealth
  <2>. QED
    BY <2>3, <2>5, <2>6 DEF IInv
<1>2. IInv /\ [Next]_vars => IInv'
  BY InvNext
<1>. QED
  BY <1>1, <1>2, PTL DEF Spec

-----------------------------------------------------------------------------
INSTANCE FiniteSetTheorems

\* FallbackJustified, for any number of requests and any configuration: the
\* loops of Complete and Stream go on to another provider only in automatic
\* mode, after a retryable failure, and not after a call that was begun when
\* the client had already left.
THEOREM FallbackJustifiedTheorem == Spec => []FallbackJustified
<1>1. IInv => FallbackJustified
  BY DEF IInv, FallbackJustified, RInv, Tried, Retried
<1>. QED
  BY <1>1, Invariance, PTL

\* RecordConsistent, for any number of requests and any configuration: the
\* record submitted by requestHistory.finish agrees with what the client got.
THEOREM RecordConsistentTheorem == Spec => []RecordConsistent
<1>1. IInv => RecordConsistent
  <2>. SUFFICES ASSUME IInv
                PROVE  RecordConsistent
    OBVIOUS
  <2>1. TypeOK
    BY DEF IInv, Types, TypeOK
  <2>2. ASSUME NEW r \in Requests, req[r].pc = "done"
        PROVE  LET q == req[r] IN
               /\ \A i \in DOMAIN q.attempts : q.attempts[i].outcome # ""
               /\ q.outcome # ""
               /\ q.outcome = "success" <=> q.final # Nobody
               /\ q.final # Nobody =>
                    /\ q.final = q.cur
                    /\ q.cacheHit <=> LastOutcome(q) # "success"
                    /\ q.sources \subseteq {q.final}
               /\ q.attempts # <<>> => q.initial = q.attempts[1].provider
    <3>. DEFINE q == req[r]
                n == Len(q.attempts)
    <3>1. q \in Request /\ Sourced(q) /\ Tried(q) /\ Ended(q)
      BY DEF IInv, RInv
    <3>2. q.attempts \in Seq(AttemptRecord) /\ q.cacheHit \in BOOLEAN
      BY <3>1 DEF Request
    <3>. HIDE DEF q
    <3>3. n \in Nat /\ DOMAIN q.attempts = 1..n /\ (n = 0 <=> q.attempts = <<>>)
      BY <3>2
    <3>4. q.pc = "done"
      BY <2>2 DEF q
    <3>. HIDE DEF n
    <3>5. \A i \in DOMAIN q.attempts : q.attempts[i].outcome # ""
      <4>1. \A i \in 1..(n - 1) : q.attempts[i].outcome \in RetryableKinds
        BY <3>1 DEF Tried, Retried, n
      <4>2. n # 0 => q.attempts[n].outcome # ""
        BY <3>1, <3>4 DEF Tried, LastFilled, n
      <4>3. \A i \in 1..n : i \in 1..(n - 1) \/ (i = n /\ n # 0)
        BY <3>3
      <4>4. \A o \in RetryableKinds : o # ""
        OBVIOUS
      <4>. QED
        BY <3>3, <4>1, <4>2, <4>3, <4>4, Zenon
    <3>6. q.attempts # <<>> => q.initial = q.attempts[1].provider
      BY <3>1, <3>3 DEF Tried, n
    <3>7. /\ q.outcome # "" /\ (q.outcome = "success" <=> q.err = "nil")
          /\ q.cacheHit = TRUE => q.err = "nil" /\ (n # 0 => q.attempts[n].outcome # "success")
          /\ q.err = "nil" /\ q.cacheHit = FALSE => n # 0 /\ q.attempts[n].outcome = "success"
      BY <3>1, <3>4 DEF Ended, Succeeded, n
    <3>8. /\ q.err = "nil" => q.final = q.cur /\ q.cur \in Providers
          /\ q.err # "nil" => q.final = Nobody
          /\ q.sources \subseteq {q.cur}
      BY <3>1, <3>4 DEF Sourced, Succeeded
    <3>9. LastOutcome(q) = IF n = 0 THEN "" ELSE q.attempts[n].outcome
      BY <3>3 DEF LastOutcome, n
    <3>10. Nobody \notin Providers
      BY GatewayAssumption
    <3>. QED
      BY <3>2, <3>5, <3>6, <3>7, <3>8, <3>9, <3>10 DEF q
  <2>. QED
    BY <2>1, <2>2 DEF RecordConsistent
<1>. QED
  BY <1>1, Invariance, PTL

\* TrialsAccounted, for any number of requests and any configuration: the
\* half-open trial that healthTracker.begin hands out is given back on every
\* path, and at most one request holds it.
THEOREM TrialsAccountedTheorem == Spec => []TrialsAccounted
<1>1. IInv => TrialsAccounted
  <2>. SUFFICES ASSUME IInv, NEW p \in Providers
                PROVE  LET holders == {r \in Requests : /\ Attempting(r) /\ req[r].cur = p
                                                        /\ req[r].attempt.halfOpen}
                       IN /\ Cardinality(holders) <= 1
                          /\ health[p].halfOpenInFlight <=> holders # {}
                          /\ health[p].halfOpenInFlight => health[p].state = "half_open"
    BY DEF TrialsAccounted
  <2>. DEFINE holders == {r \in Requests : /\ Attempting(r) /\ req[r].cur = p
                                           /\ req[r].attempt.halfOpen}
  <2>1. /\ CircuitInv(p) /\ health[p].halfOpenInFlight \in BOOLEAN
        /\ \A r \in Requests : req[r].attempt.halfOpen \in BOOLEAN
    BY DEF IInv, Types, Health, Request, Attempt
  <2>2. \A r \in Requests : r \in holders <=> At(r, p) /\ req[r].attempt.halfOpen = TRUE
    BY <2>1 DEF At
  <2>. HIDE DEF holders
  <2>3. Cardinality(holders) <= 1
    <3>1. CASE holders = {}
      BY <3>1, FS_EmptySet
    <3>2. CASE holders # {}
      <4>1. PICK r \in Requests : r \in holders
        BY <3>2 DEF holders
      <4>2. holders = {r}
        BY <2>1, <2>2, <4>1 DEF CircuitInv, holders
      <4>. QED
        <5>1. Cardinality({r}) = 1
          BY FS_Singleton
        <5>. QED
          BY <4>2, <5>1
    <3>. QED
      BY <3>1, <3>2
  <2>4. /\ health[p].halfOpenInFlight <=> holders # {}
        /\ health[p].halfOpenInFlight => health[p].state = "half_open"
    <3>1. \A r \in Requests : r \in holders => health[p].halfOpenInFlight = TRUE
      BY <2>1, <2>2 DEF CircuitInv, Fits
    <3>. QED
      BY <2>1, <2>2, <3>1 DEF CircuitInv, holders
  <2>. QED
    BY <2>3, <2>4 DEF holders
<1>. QED
  BY <1>1, Invariance, PTL

\* CancellationNeutral, for any number of requests and any configuration: of
\* all steps of all requests, only recordHealthOutcome with a retryable error
\* that was classified while the client was there counts against a provider.
THEOREM CancellationNeutralTheorem == Spec => CancellationNeutral
<1>. DEFINE Blamed(p) == \E r \in Requests :
              /\ req[r].pc = "record" /\ req[r].cur = p
              /\ req[r].err \in RetryableKinds /\ ~req[r].left
              /\ req'[r] # req[r]
            Step == \A p \in Providers : Charged(p) => Blamed(p)
            Harmless(h, n) == /\ n.consecutiveFailures <= h.consecutiveFailures
                              /\ h.state # "open" => n.state # "open"
<1>1. IInv /\ [Next]_vars => [Step]_vars
  <2>. SUFFICES ASSUME IInv, Next, NEW p \in Providers, Charged(p)
                PROVE  Blamed(p)
    OBVIOUS
  <2>1. /\ Types /\ \A o \in Requests : RInv(req[o])
        /\ req \in [Requests -> Request] /\ health \in [Providers -> Health]
    BY DEF IInv, Types
  <2>2. \A h \in Health : h.consecutiveFailures \in Nat
    BY DEF Health
  <2>a. ASSUME health'[p] \in Health, Harmless(health[p], health'[p])
        PROVE  FALSE
    <3>1. health[p].consecutiveFailures \in Nat /\ health'[p].consecutiveFailures \in Nat
      BY <2>1, <2>2, <2>a
    <3>. QED
      BY <2>a, <3>1 DEF Charged
  <2>b. health'[p] # health[p]
    <3>1. health[p].consecutiveFailures \in Nat
      BY <2>1, <2>2
    <3>. QED
      BY <3>1 DEF Charged
  <2>c. health' \in [Providers -> Health]
    BY InvNext DEF IInv, Types
  <2>3. CASE \E x \in Providers : Tick(x) \/ Expire(x)
    <3>1. PICK x \in Providers : Tick(x) \/ Expire(x)
      BY <2>3
    <3>2. Tick(x) /\ x = p
      BY <2>1, <2>b, <3>1 DEF Tick, Expire
    <3>3. health'[p] = [health[p] EXCEPT !.cooldown = health[p].cooldown - 1]
      BY <2>1, <3>2 DEF Tick, Elapse
    <3>4. health[p] \in Health
      BY <2>1
    <3>5. /\ health'[p].consecutiveFailures = health[p].consecutiveFailures
          /\ health'[p].state = health[p].state
      BY <3>3, <3>4 DEF Health
    <3>6. health[p].consecutiveFailures \in Nat
      BY <2>2, <3>4
    <3>. QED
      BY <2>a, <2>c, <3>5, <3>6
  <2>4. CASE \E o \in Requests : Aside(o)
    BY <2>1, <2>b, <2>4, AsideStays
  <2>5. CASE \E o \in Requests : BeginAttemptAt(o)
    <3>1. \A h : Begin(h).consecutiveFailures = h.consecutiveFailures
                 /\ (h.state # "open" => Begin(h).state # "open")
      BY DEF Begin
    <3>2. health'[p] = Begin(health[p])
      BY <2>1, <2>5, <2>b DEF BeginAttemptAt
    <3>3. health[p].consecutiveFailures \in Nat
      BY <2>1, <2>2
    <3>4. Harmless(health[p], health'[p])
      BY <3>1, <3>2, <3>3
    <3>. QED
      BY <2>a, <2>c, <3>4
  <2>6. CASE \E o \in Requests : Ends(o)
    <3>0. PICK o \in Requests : Ends(o)
      BY <2>6
    <3>1. PICK u \in Request, e \in Outcomes : EndAttempt(o, e, u) /\ Ending(req[o], u, e)
      BY <2>1, <3>0, EndingOf
    <3>2. health' = [health EXCEPT ![u.cur] = RecordHealthOutcome(health[u.cur], u.attempt, e)]
      BY <3>1 DEF EndAttempt
    <3>3. p = req[o].cur /\ health'[p] = RecordHealthOutcome(health[p], u.attempt, e)
      BY <2>1, <2>b, <3>1, <3>2 DEF Ending
    <3>4. e \in RetryableKinds
      <4>. SUFFICES ASSUME e \notin RetryableKinds
                    PROVE  FALSE
        OBVIOUS
      <4>1. health'[p] \in {Success(health[p], u.attempt), Ignore(health[p], u.attempt)}
        BY <3>3 DEF RecordHealthOutcome
      <4>2. \A h, a : /\ Success(h, a).consecutiveFailures \in {0, h.consecutiveFailures}
                      /\ Ignore(h, a).consecutiveFailures = h.consecutiveFailures
                      /\ Success(h, a).state \in {"closed", h.state}
                      /\ Ignore(h, a).state = h.state
        BY DEF Success, Ignore
      <4>3. health[p].consecutiveFailures \in Nat
        BY <2>1, <2>2
      <4>4. Harmless(health[p], health'[p])
        BY <4>1, <4>2, <4>3
      <4>. QED
        BY <2>a, <2>c, <4>4
    <3>5. req[o].pc = "record" /\ req[o].left = FALSE /\ req[o].err = e
      BY <3>1, <3>4 DEF Ending
    <3>6. req'[o] # req[o]
      <4>1. req'[o] = FinishAttempt(u, e)
        BY <2>1, <3>1 DEF EndAttempt
      <4>2. FinishAttempt(u, e).pc = u.pc /\ u.pc # "record"
        BY <3>1, FinishFields DEF Ending
      <4>. QED
        BY <3>5, <4>1, <4>2
    <3>. QED
      BY <3>3, <3>4, <3>5, <3>6
  <2>. QED
    BY <2>3, <2>4, <2>5, <2>6 DEF Next, Handler, Aside, Ends
<1>. QED
  BY <1>1, Invariance, PTL DEF Spec, CancellationNeutral

\* StepsDecrease, for any number of requests and any configuration: the loops
\* of Complete and Stream are bounded by the providers that are left, whatever
\* the others do to the circuits and the cache.
THEOREM StepsDecreaseTheorem == Spec => StepsDecrease
<1>. DEFINE Step == \A r \in Requests :
              req[r].pc # "new" =>
                \/ StepsLeft(req'[r]) < StepsLeft(req[r])
                \/ req'[r].pc = req[r].pc /\ req'[r].order = req[r].order
<1>1. IInv /\ [Next]_vars => [Step]_vars
  <2>. SUFFICES ASSUME IInv, Next, NEW r \in Requests
                PROVE  Advances(req[r], req'[r])
    BY DEF Advances
  <2>1. Types /\ (\A o \in Requests : RInv(req[o])) /\ req \in [Requests -> Request]
    BY DEF IInv, Types
  <2>2. req'[r] = req[r] => Advances(req[r], req'[r])
    BY DEF Advances
  <2>3. CASE \E o \in Requests : Aside(o)
    <3>1. PICK o \in Requests : Aside(o)
      BY <2>3
    <3>2. req' = [req EXCEPT ![o] = req'[o]] /\ Advances(req[o], req'[o])
      BY <2>1, <3>1, AsideStays
    <3>. QED
      BY <2>1, <2>2, <3>2
  <2>4. CASE \E o \in Requests : BeginAttemptAt(o)
    <3>1. PICK o \in Requests : BeginAttemptAt(o)
      BY <2>4
    <3>2. CASE o = r
      <4>1. req[r].pc = "begin" /\ req'[r].pc = "call" /\ req'[r].order = req[r].order
        <5>1. req[r] \in Request /\ BeginAttemptAt(r)
          BY <2>1, <3>1, <3>2
        <5>. QED
          BY <2>1, <5>1 DEF BeginAttemptAt, Request
      <4>2. Len(req[r].order) \in Nat
        <5>1. req[r].order \in Seq(Providers)
          BY <2>1 DEF Request
        <5>. QED
          BY <5>1
      <4>. QED
        BY <4>1, <4>2 DEF Advances, StepsLeft
    <3>3. CASE o # r
      BY <2>1, <2>2, <3>1, <3>3 DEF BeginAttemptAt
    <3>. QED
      BY <3>2, <3>3
  <2>5. CASE \E o \in Requests : Ends(o)
    <3>1. PICK o \in Requests : Ends(o)
      BY <2>5
    <3>2. PICK u \in Request, e \in Outcomes : EndAttempt(o, e, u) /\ Ending(req[o], u, e)
      BY <2>1, <3>1, EndingOf
    <3>3. req' = [req EXCEPT ![o] = FinishAttempt(u, e)]
      BY <3>2 DEF EndAttempt
    <3>4. CASE o = r
      <4>1. /\ req[r].pc \in {"call", "read", "record"} /\ u.pc \in {"finish", "store", "decide"}
            /\ u.order = req[r].order
        BY <3>2, <3>4 DEF Ending
      <4>2. FinishAttempt(u, e).pc = u.pc /\ FinishAttempt(u, e).order = u.order
        BY FinishFields
      <4>3. req'[r] = FinishAttempt(u, e)
        BY <2>1, <3>3, <3>4
      <4>4. Len(req[r].order) \in Nat
        <5>1. req[r].order \in Seq(Providers)
          BY <2>1 DEF Request
        <5>. QED
          BY <5>1
      <4>5. StepsLeft(req[r]) \in {7 * Len(req[r].order) + 7, 7 * Len(req[r].order) + 6,
                                   7 * Len(req[r].order) + 5}
        BY <4>1 DEF StepsLeft
      <4>6. StepsLeft(req'[r]) \in {7 * Len(req[r].order) + 4, 7 * Len(req[r].order) + 2,
                                    7 * Len(req[r].order) + 1}
        BY <4>1, <4>2, <4>3 DEF StepsLeft
      <4>. QED
        BY <4>4, <4>5, <4>6 DEF Advances
    <3>5. CASE o # r
      BY <2>1, <2>2, <3>3, <3>5
    <3>. QED
      BY <3>4, <3>5
  <2>6. CASE UNCHANGED req
    BY <2>2, <2>6
  <2>. QED
    BY <2>3, <2>4, <2>5, <2>6 DEF Next, Handler, Aside, Ends, Tick, Expire
<1>. QED
  BY <1>1, Invariance, PTL DEF Spec, StepsDecrease

\* ImplementsChatRequest, for any number of requests and any configuration:
\* every step of the gateway delivers content of one provider, ends the request
\* once, or is invisible to the client.
THEOREM ChatRequestRefinement == Spec => ImplementsChatRequest
<1>. DEFINE status == [r \in Requests |->
                        IF req[r].pc # "done" THEN "open"
                        ELSE IF req[r].err = "nil" THEN "answered" ELSE "failed"]
            sources == [r \in Requests |-> req[r].sources]
            by == [r \in Requests |-> IF req[r].pc = "done" THEN req[r].final ELSE Nobody]
<1>1. Init => View!Init
  <2>. SUFFICES ASSUME Init
                PROVE  View!Init
    OBVIOUS
  <2>1. \A r \in Requests : req[r].pc = "new" /\ req[r].sources = {}
    BY DEF Init, NewRequest
  <2>2. /\ status = [r \in Requests |-> "open"] /\ sources = [r \in Requests |-> {}]
        /\ by = [r \in Requests |-> Nobody]
    BY <2>1
  <2>. QED
    BY <2>2 DEF View!Init
<1>2. IInv /\ [Next]_vars => [View!Next]_(View!cvars)
  <2>. SUFFICES ASSUME IInv, [Next]_vars
                PROVE  View!Next \/ UNCHANGED <<status, sources, by>>
    BY DEF View!cvars
  <2>1. Types /\ (\A o \in Requests : RInv(req[o])) /\ req \in [Requests -> Request]
    BY DEF IInv, Types
  <2>2. ASSUME NEW r \in Requests, req' = [req EXCEPT ![r] = req'[r]],
               req[r].pc # "done", req'[r].pc # "done", Delivers(req[r], req'[r])
        PROVE  View!Next \/ UNCHANGED <<status, sources, by>>
    <3>1. UNCHANGED <<status, by>>
      BY <2>1, <2>2
    <3>2. CASE req'[r].sources = req[r].sources
      <4>1. UNCHANGED sources
        BY <2>1, <2>2, <3>2
      <4>. QED
        BY <3>1, <4>1
    <3>3. CASE req'[r].sources # req[r].sources
      <4>1. PICK p \in Providers : req[r].sources \subseteq {p} /\ req'[r].sources = {p}
        BY <2>2, <3>3 DEF Delivers
      <4>2. sources' = [sources EXCEPT ![r] = {p}]
        BY <2>1, <2>2, <4>1
      <4>3. status[r] = "open" /\ sources[r] \subseteq {p}
        BY <2>2, <4>1
      <4>4. View!Deliver(r, p)
        BY <3>1, <4>2, <4>3 DEF View!Deliver
      <4>. QED
        BY <4>4 DEF View!Next
    <3>. QED
      BY <3>2, <3>3
  <2>3. ASSUME NEW r \in Requests, Aside(r)
        PROVE  View!Next \/ UNCHANGED <<status, sources, by>>
    <3>1. /\ req' = [req EXCEPT ![r] = req'[r]] /\ Delivers(req[r], req'[r])
          /\ req[r].pc # "done" /\ (req'[r].pc = "done" => Finish(r))
      BY <2>1, <2>3, AsideStays
    <3>2. CASE Finish(r)
      <4>. DEFINE q == req[r]
                  t == req'[r]
      <4>1. /\ q.pc = "finish" /\ t.pc = "done" /\ t.err = q.err
            /\ t.sources = q.sources /\ t.final = q.final
        <5>1. q \in Request
          BY <2>1
        <5>. QED
          BY <2>1, <3>2, <5>1 DEF Finish, Request
      <4>2. Sourced(q)
        BY <2>1 DEF RInv
      <4>3. UNCHANGED sources /\ status[r] = "open" /\ sources[r] = q.sources
        BY <2>1, <3>1, <4>1
      <4>4. CASE q.err = "nil"
        <5>1. PICK p \in Providers : p = q.final /\ q.sources \subseteq {p}
          BY <4>1, <4>2, <4>4 DEF Sourced, Succeeded
        <5>2. status' = [status EXCEPT ![r] = "answered"] /\ by' = [by EXCEPT ![r] = p]
          BY <2>1, <3>1, <4>1, <4>4, <5>1
        <5>3. View!Answer(r, p)
          BY <4>3, <5>1, <5>2 DEF View!Answer
        <5>. QED
          BY <5>3 DEF View!Next
      <4>5. CASE q.err # "nil"
        <5>1. q.final = Nobody
          BY <4>1, <4>2, <4>5 DEF Sourced, Succeeded
        <5>2. status' = [status EXCEPT ![r] = "failed"] /\ by' = by
          BY <2>1, <3>1, <4>1, <4>5, <5>1
        <5>3. View!Fail(r)
          BY <4>3, <5>2 DEF View!Fail
        <5>. QED
          BY <5>3 DEF View!Next
      <4>. QED
        BY <4>4, <4>5
    <3>3. CASE ~Finish(r)
      BY <2>2, <3>1, <3>3
    <3>. QED
      BY <3>2, <3>3
  <2>4. ASSUME NEW r \in Requests, BeginAttemptAt(r)
        PROVE  View!Next \/ UNCHANGED <<status, sources, by>>
    <3>1. req[r] \in Request
      BY <2>1
    <3>2. /\ req[r].pc = "begin" /\ req'[r].pc = "call" /\ req'[r].sources = req[r].sources
          /\ req' = [req EXCEPT ![r] = req'[r]]
      BY <2>1, <2>4, <3>1 DEF BeginAttemptAt, Request
    <3>3. Delivers(req[r], req'[r])
      BY <3>2 DEF Delivers
    <3>. QED
      BY <2>2, <3>2, <3>3
  <2>5. ASSUME NEW r \in Requests, Ends(r)
        PROVE  View!Next \/ UNCHANGED <<status, sources, by>>
    <3>1. PICK u \in Request, o \in Outcomes : EndAttempt(r, o, u) /\ Ending(req[r], u, o)
      BY <2>1, <2>5, EndingOf
    <3>2. req' = [req EXCEPT ![r] = FinishAttempt(u, o)]
      BY <3>1 DEF EndAttempt
    <3>3. req'[r] = FinishAttempt(u, o) /\ req' = [req EXCEPT ![r] = req'[r]]
      BY <2>1, <3>2
    <3>4. FinishAttempt(u, o).pc = u.pc /\ FinishAttempt(u, o).sources = u.sources
      BY FinishFields
    <3>5. /\ req[r].pc \in {"call", "read", "record"} /\ u.pc \in {"finish", "store", "decide"}
          /\ u.sources \subseteq {req[r].cur}
          /\ req[r].sources # {} => u.sources = req[r].sources
      BY <3>1 DEF Ending
    <3>6. req[r].cur \in Providers /\ req[r].sources \subseteq {req[r].cur}
      BY <2>1, <3>5 DEF RInv, Sourced
    <3>7. Delivers(req[r], req'[r])
      BY <3>3, <3>4, <3>5, <3>6 DEF Delivers
    <3>. QED
      BY <2>2, <3>3, <3>4, <3>5, <3>7
  <2>6. CASE UNCHANGED req
    BY <2>6
  <2>. QED
    BY <2>3, <2>4, <2>5, <2>6 DEF Next, Handler, Aside, Ends, Tick, Expire, vars
<1>. QED
  BY <1>1, <1>2, Invariance, PTL DEF Spec, ImplementsChatRequest, View!Spec
=============================================================================
