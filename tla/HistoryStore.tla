---------------------------- MODULE HistoryStore ----------------------------
(***************************************************************************)
(* The durable request history (internal/persistence/postgres and the      *)
(* history endpoints of internal/adminapi): gateway processes write one    *)
(* record per finished request, an administrator pages through the list    *)
(* and opens single requests, and an operator may delete rows, all at the  *)
(* same time and on the schema that Migrations brings up to date.          *)
(*                                                                         *)
(* Records are numbered in the order of their request_id.  Instants are in *)
(* nanoseconds, of which PostgreSQL keeps whole microseconds.  Reads do not *)
(* affect each other, so a behaviour has one walk through the list or one  *)
(* look at a request.                                                      *)
(***************************************************************************)
EXTENDS Migrations, FiniteSets, Sequences

CONSTANTS
  Records,          \* finished requests
  Data,             \* Data[x]: [started, tokens]; tokens has one figure per attempt
  Nothing,          \* no record, no cursor
  Filters,          \* list queries: the sets of records that one can match
  PageSizes,        \* values of ListQuery.Limit
  Microsecond,      \* nanoseconds in a microsecond: 1000
  MaxInt64,         \* the largest BIGINT
  MaxDetailAttempts

ASSUME HistoryAssumption ==
  /\ Records \subseteq Nat /\ Nothing \notin Records \cup [at : Nat, id : Records]
  /\ \A x \in Records : Data[x].started \in Nat
  /\ Filters \subseteq SUBSET Records /\ PageSizes \subseteq Nat \ {0}
  /\ Microsecond \in Nat \ {0} /\ MaxInt64 \in Nat /\ MaxDetailAttempts \in Nat

VARIABLES
  rows,             \* routeforge_requests: the records that have a row
  children,         \* routeforge_provider_attempts: the rows <<record, attempt_number>>
  sent,             \* sent[p]: the record that p's recorder is writing
  inflight,         \* batches that the database has received and not finished
  submitted,        \* records handed to Write
  stored,           \* records that were committed at some time
  acked,            \* records for which Write returned without an error
  walk,             \* the administrator's way through the list
  detail            \* the administrator's look at one request

storeVars == <<rows, children, sent, inflight, submitted, stored, acked>>
vars == <<migrationVars, storeVars, walk, detail>>

-----------------------------------------------------------------------------
AttemptCount(x) == Len(Data[x].tokens)
Attempts(x) == {<<x, n>> : n \in 1..AttemptCount(x)}

\* started_at as PostgreSQL keeps it.
StartedAt(x) == (Data[x].started \div Microsecond) * Microsecond

\* persistence.Position of a row that was read
Position(x) == [at |-> StartedAt(x), id |-> x]

\* (started_at, request_id) < (..., ...)
Before(a, b) == a.at < b.at \/ (a.at = b.at /\ a.id < b.id)

\* validateRecord and postgresUint64: figures that no BIGINT holds are refused.
Representable(x) == \A i \in 1..AttemptCount(x) : Data[x].tokens[i] <= MaxInt64

\* walk.must: the matching rows that were there when the walk began and were
\* not deleted since.  pages: what each page showed.
NoWalk == [state |-> "idle", filter |-> {}, limit |-> 1, cursor |-> Nothing,
           pages |-> <<>>, must |-> {}]

NoDetail == [state |-> "idle", id |-> Nothing, snapshot |-> {}, attempts |-> {}]

Init ==
  /\ MigrationsInit
  /\ rows = {} /\ children = {}
  /\ inflight = {} /\ submitted = {} /\ stored = {} /\ acked = {}
  /\ sent = [p \in Processes |-> Nothing]
  /\ walk = NoWalk /\ detail = NoDetail

Serving == \E p \in Processes : Opened(p)

-----------------------------------------------------------------------------
\* Store.Write, called by the recorder of p, once per record.
Write(p, x) ==
  /\ Opened(p) /\ sent[p] = Nothing /\ x \notin submitted
  /\ submitted' = submitted \cup {x}
  /\ IF Representable(x)
     THEN sent' = [sent EXCEPT ![p] = x] /\ inflight' = inflight \cup {x}
     ELSE UNCHANGED <<sent, inflight>>
  /\ UNCHANGED <<migrationVars, rows, children, stored, acked, walk, detail>>

\* The batch of statements committed one by one; this is the first.
CommitRowOnly(x) ==
  /\ x \in inflight
  /\ inflight' = inflight \ {x} /\ stored' = stored \cup {x}
  /\ rows' = rows \cup {x} /\ UNCHANGED children
  /\ UNCHANGED <<migrationVars, sent, submitted, acked, walk, detail>>

\* The database commits the batch: one transaction for the request and its
\* attempts.
CommitBatch(x) ==
  /\ x \in inflight
  /\ inflight' = inflight \ {x} /\ stored' = stored \cup {x}
  /\ rows' = rows \cup {x} /\ children' = children \cup Attempts(x)
  /\ UNCHANGED <<migrationVars, sent, submitted, acked, walk, detail>>

\* A statement violates a constraint, or the connection is lost on the way.
DropBatch(x) ==
  /\ x \in inflight
  /\ inflight' = inflight \ {x}
  /\ UNCHANGED <<migrationVars, rows, children, sent, submitted, stored, acked, walk, detail>>

WriteReturns(p, done) ==
  /\ sent[p] # Nothing
  /\ sent' = [sent EXCEPT ![p] = Nothing]
  /\ acked' = acked \cup done
  /\ UNCHANGED <<migrationVars, rows, children, inflight, submitted, stored, walk, detail>>

\* Close has consumed every result, the commit's included.
WriteSucceeds(p) == sent[p] \in stored /\ WriteReturns(p, {sent[p]})

\* The database reported an error, or the write timed out; the batch may yet be
\* committed, or have been.
WriteFails(p) == WriteReturns(p, {})

\* Migrations go on; a process that stops forgets what it was writing.
Start ==
  /\ MigrationsNext
  /\ sent' = [p \in Processes |-> IF proc'[p].pc = "open" THEN sent[p] ELSE Nothing]
  /\ UNCHANGED <<rows, children, inflight, submitted, stored, acked, walk, detail>>

\* An operator deletes a request; its attempts follow (ON DELETE CASCADE).
Delete(x) ==
  /\ x \in rows
  /\ rows' = rows \ {x} /\ children' = children \ Attempts(x)
  /\ walk' = [walk EXCEPT !.must = @ \ {x}]
  /\ UNCHANGED <<migrationVars, sent, inflight, submitted, stored, acked, detail>>

-----------------------------------------------------------------------------
\* The first page is asked for.
StartWalk(filter, limit) ==
  /\ walk.state = "idle" /\ detail.state = "idle"
  /\ walk' = [NoWalk EXCEPT !.state = "going", !.filter = filter, !.limit = limit,
                            !.must = rows \cap filter]
  /\ UNCHANGED <<migrationVars, storeVars, detail>>

\* decodeCursor: the checks that a cursor made by encodeCursor could fail.
CursorAccepted(cursor) == cursor.at % Microsecond = 0 /\ cursor.id \in Records

\* listSQL with a cursor of which only the instant is compared.
CandidatesByTime ==
  {x \in rows \cap walk.filter : walk.cursor # Nothing => StartedAt(x) < walk.cursor.at}

\* listSQL: the rows after the cursor that match, ...
Candidates ==
  {x \in rows \cap walk.filter :
     walk.cursor # Nothing => Before(Position(x), walk.cursor)}

\* ... and those of them that the handler shows: the latest walk.limit ones.
IsPage(page) ==
  /\ page \subseteq Candidates
  /\ \A x \in page, y \in Candidates \ page : Before(Position(y), Position(x))
  /\ IF Cardinality(Candidates) > walk.limit
     THEN Cardinality(page) = walk.limit ELSE page = Candidates

\* The handler's cursor: the last record that it shows.
NextCursor(page) ==
  Position(CHOOSE x \in page : \A y \in page : x = y \/ Before(Position(x), Position(y)))

\* GET /admin/v1/requests.  parseQuery refuses a bad cursor.  List is a single
\* statement; it asks for one row more than a page to know whether to go on.
Page(page) ==
  /\ walk.state = "going" /\ Serving
  /\ walk.cursor # Nothing => CursorAccepted(walk.cursor)
  /\ IsPage(page)
  /\ walk' = IF page = Candidates
             THEN [walk EXCEPT !.state = "done", !.pages = Append(@, page)]
             ELSE [walk EXCEPT !.cursor = NextCursor(page), !.pages = Append(@, page)]
  /\ UNCHANGED <<migrationVars, storeVars, detail>>

\* GET /admin/v1/requests/{request_id}: the transaction begins and the parent
\* row is read, or not found.
DetailBegin(x) ==
  /\ walk.state = "idle" /\ detail.state = "idle" /\ Serving
  /\ x \in rows
  /\ detail' = [NoDetail EXCEPT !.state = "reading", !.id = x,
                                !.snapshot = {c \in children : c[1] = x}]
  /\ UNCHANGED <<migrationVars, storeVars, walk>>

\* RepeatableRead: the attempts as they were when the parent was read.
DetailAttempts == detail.snapshot

\* The attempts are read and the transaction commits.  A query, a row or a
\* commit that fails, and too many attempts, end in 503.
DetailEnd ==
  /\ detail.state = "reading"
  /\ \/ detail' = [detail EXCEPT !.state = "failed"]
     \/ /\ Cardinality(DetailAttempts) <= MaxDetailAttempts
        /\ detail' = [detail EXCEPT !.state = "shown", !.attempts = DetailAttempts]
  /\ UNCHANGED <<migrationVars, storeVars, walk>>

Next ==
  \/ Start
  \/ \E p \in Processes : \/ \E x \in Records : Write(p, x)
                          \/ WriteSucceeds(p) \/ WriteFails(p)
  \/ \E x \in Records : CommitBatch(x) \/ DropBatch(x) \/ Delete(x) \/ DetailBegin(x)
  \/ \E f \in Filters, n \in PageSizes : StartWalk(f, n)
  \/ \E page \in SUBSET Records : Page(page)
  \/ DetailEnd

Spec == Init /\ [][Next]_vars

-----------------------------------------------------------------------------
TypeOK ==
  /\ versions \subseteq Nat /\ schema \subseteq Nat
  /\ lock \in Processes \cup {Free} /\ proc \in [Processes -> Process]
  /\ rows \subseteq Records /\ inflight \subseteq Records
  /\ submitted \subseteq Records /\ stored \subseteq Records /\ acked \subseteq Records
  /\ children \subseteq UNION {Attempts(x) : x \in Records}
  /\ sent \in [Processes -> Records \cup {Nothing}]
  /\ walk.state \in {"idle", "going", "done"}
  /\ detail.state \in {"idle", "reading", "shown", "failed"}

(***************************************************************************)
(* A request in the table has all its attempts and no attempt is without   *)
(* its request, whatever fails, times out or is deleted (Write sends one   *)
(* batch, one implicit transaction); a write that was reported as done is  *)
(* committed, and a request shown in detail has exactly the attempts it    *)
(* counts, although it may be deleted in the middle of the read ("A        *)
(* repeatable read keeps the parent and children consistent").             *)
(***************************************************************************)
RecordsWhole ==
  /\ TypeOK
  /\ children = UNION {Attempts(x) : x \in rows}
  /\ acked \subseteq stored
  /\ detail.state = "shown" => detail.attempts = Attempts(detail.id)

(***************************************************************************)
(* A walk through the pages shows every request at most once, latest       *)
(* first, and at its end has shown every matching one that was there all   *)
(* the time: not even requests of the same microsecond, or ones written or *)
(* deleted between two pages, make it skip or repeat one; and the handler  *)
(* accepts every cursor it gave out (listSQL, the cursor in NewHandler).   *)
(***************************************************************************)
PagesComplete ==
  /\ \A i, j \in DOMAIN walk.pages : i < j =>
       \A x \in walk.pages[i], y \in walk.pages[j] : Before(Position(y), Position(x))
  /\ walk.state = "done" => walk.must \subseteq UNION {walk.pages[i] : i \in DOMAIN walk.pages}
  /\ walk.cursor # Nothing => CursorAccepted(walk.cursor)

(***************************************************************************)
(* A release never serves a database that a newer one had migrated before  *)
(* it started (migrate's check for unsupported versions).                  *)
(***************************************************************************)
NewerRefused ==
  [][\A p \in Processes : ~Opened(p) /\ Opened(p)' => versions' \subseteq Known(p)]_vars

=============================================================================
