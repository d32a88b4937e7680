------------------------- MODULE HistoryStoreProofs -------------------------
(***************************************************************************)
(* Proofs about Migrations and HistoryStore, for any number of processes   *)
(* and releases, any number of migrations and any requests.                *)
(***************************************************************************)
EXTENDS HistoryStore, SequenceTheorems, FiniteSetTheorems, TLAPS

-----------------------------------------------------------------------------
\* What holds of p while its transaction goes through the migrations.
Migrating(p) ==
  /\ versions \subseteq Known(p)
  /\ proc[p].next <= Release[p] + 1
  /\ proc[p].tx \cap versions = {}
  /\ \A v \in proc[p].tx : v \in Known(p) /\ v < proc[p].next
  /\ \A v \in Nat \ {0} : v < proc[p].next => v \in versions \cup proc[p].tx

\* The lock is what makes the rest inductive: only its holder is inside the
\* transaction, so nothing is committed between its check and its commit.
MInv ==
  /\ versions \subseteq Nat \ {0}
  /\ lock \in Processes \cup {Free} /\ proc \in [Processes -> Process]
  /\ schema = versions
  /\ \A v \in versions, w \in Nat \ {0} : w <= v => w \in versions
  /\ \A p \in Processes :
       /\ proc[p].pc \in {"checking", "applying"} <=> lock = p
       /\ proc[p].pc # "broken"
       /\ proc[p].pc # "applying" => proc[p].next = 1 /\ proc[p].tx = {}
       /\ proc[p].pc = "applying" => Migrating(p)
       /\ proc[p].pc = "open" => Known(p) \subseteq versions

AllAttempts == UNION {Attempts(x) : x \in Records}

SInv ==
  /\ rows \subseteq Records /\ inflight \subseteq Records
  /\ submitted \subseteq Records /\ stored \subseteq Records /\ acked \subseteq stored
  /\ sent \in [Processes -> Records \cup {Nothing}]
  /\ children = UNION {Attempts(x) : x \in rows}

\* A request that is being looked at may be deleted meanwhile: the snapshot is
\* related to the request itself and not to the tables.
RInv ==
  /\ "state" \in DOMAIN walk /\ walk.state \in {"idle", "going", "done"}
  /\ detail \in [state : {"idle", "reading", "shown", "failed"}, id : Records \cup {Nothing},
                 snapshot : SUBSET AllAttempts, attempts : SUBSET AllAttempts]
  /\ detail.state = "reading" => detail.snapshot = Attempts(detail.id)
  /\ detail.state = "shown" => detail.attempts = Attempts(detail.id)

IInv == MInv /\ SInv /\ RInv

-----------------------------------------------------------------------------
\* A transaction that ends without a commit leaves the schema as it was.
LEMMA EndTxInv ==
  ASSUME MInv, NEW p \in Processes, NEW pc \in {"down", "refused"},
         EndTx(p, pc), UNCHANGED <<versions, schema>>
  PROVE  MInv'
<1>1. proc' \in [Processes -> Process]
  BY DEF MInv, EndTx, Down, Process
<1>2. proc'[p] = [pc |-> pc, next |-> 1, tx |-> {}]
  BY DEF MInv, EndTx, Down
<1>3. \A o \in Processes \ {p} : proc'[o] = proc[o]
  BY DEF MInv, EndTx
<1>4. lock' \in Processes \cup {Free} /\ lock' # p
  BY MigrationsAssumption DEF MInv, EndTx
<1>5. \A o \in Processes \ {p} : lock' = o <=> lock = o
  BY MigrationsAssumption DEF MInv, EndTx
<1>. QED
  BY <1>1, <1>2, <1>3, <1>4, <1>5 DEF MInv, Migrating, Known

\* Every step of a starting process keeps the invariant of the migrations.
LEMMA MigrationsStep ==
  ASSUME MInv, MigrationsNext
  PROVE  MInv'
<1>1. PICK p \in Processes : Open(p) \/ Lock(p) \/ Check(p) \/ Apply(p) \/ Commit(p) \/ Stop(p)
  BY DEF MigrationsNext
<1>2. proc[p] \in Process /\ Release[p] \in Nat \ {0}
  BY MigrationsAssumption DEF MInv
<1>3. CASE Open(p)
  BY <1>2, <1>3 DEF MInv, Open, Migrating, Known, Process
<1>4. CASE Lock(p)
  BY <1>2, <1>4, MigrationsAssumption DEF MInv, Lock, Migrating, Known, Process
<1>5. CASE Check(p)
  <2>1. CASE versions \subseteq Known(p)
    <3>1. proc' = [proc EXCEPT ![p].pc = "applying"] /\ UNCHANGED <<versions, schema, lock>>
      BY <1>5, <2>1 DEF Check
    <3>2. Migrating(p)'
      BY <1>2, <1>5, <2>1, <3>1 DEF MInv, Migrating, Known, Process, Check
    <3>. QED
      BY <1>2, <1>5, <3>1, <3>2 DEF MInv, Migrating, Known, Process, Check
  <2>2. CASE ~(versions \subseteq Known(p))
    BY <1>5, <2>2, EndTxInv DEF Check
  <2>. QED
    BY <2>1, <2>2
<1>6. CASE Apply(p)
  <2>. DEFINE v == proc[p].next
              tx == proc[p].tx
  <2>1. /\ proc[p].pc = "applying" /\ v \in Known(p) /\ Migrating(p) /\ lock = p
        /\ UNCHANGED <<versions, schema>>
    BY <1>6 DEF Apply, MInv
  <2>2. Runs(v, schema \cup tx) \/ v \in versions \cup tx
    BY <1>2, <2>1 DEF Runs, MInv, Migrating, Known, Process
  <2>t. v \in Nat \ {0} /\ tx \in SUBSET Nat /\ v + 1 \in Nat \ {0} /\ tx \cup {v} \in SUBSET Nat
    BY <1>2 DEF Process
  <2>3. CASE v \in versions \cup tx
    <3>1. proc' = [proc EXCEPT ![p].next = v + 1] /\ UNCHANGED lock
      BY <1>6, <2>3 DEF Apply
    <3>2. /\ proc' \in [Processes -> Process]
          /\ proc'[p] = [pc |-> "applying", next |-> v + 1, tx |-> tx]
          /\ \A o \in Processes \ {p} : proc'[o] = proc[o]
      BY <1>2, <2>1, <2>t, <3>1 DEF MInv, Process
    <3>3. Migrating(p)'
      BY <1>2, <2>1, <2>3, <2>t, <3>2 DEF Migrating, Known
    <3>. QED
      BY <2>1, <3>1, <3>2, <3>3 DEF MInv, Migrating, Known
  <2>4. CASE v \notin versions \cup tx
    <3>1. proc' = [proc EXCEPT ![p].next = v + 1, ![p].tx = tx \cup {v}] /\ UNCHANGED lock
      BY <1>6, <2>2, <2>4 DEF Apply
    <3>2. /\ proc' \in [Processes -> Process]
          /\ proc'[p] = [pc |-> "applying", next |-> v + 1, tx |-> tx \cup {v}]
          /\ \A o \in Processes \ {p} : proc'[o] = proc[o]
      BY <1>2, <2>1, <2>t, <3>1 DEF MInv, Process
    <3>3. Migrating(p)'
      BY <1>2, <2>1, <2>4, <2>t, <3>2 DEF Migrating, Known
    <3>. QED
      BY <2>1, <3>1, <3>2, <3>3 DEF MInv, Migrating, Known
  <2>. QED
    BY <2>3, <2>4
<1>7. CASE Commit(p)
  <2>. DEFINE tx == proc[p].tx
  <2>1. proc[p].pc = "applying" /\ Migrating(p) /\ lock = p /\ schema = versions
    BY <1>7 DEF Commit, MInv
  <2>2. tx \cap schema = {}
    BY <2>1 DEF Migrating
  <2>3. PICK pc \in {"open", "down"} : EndTx(p, pc)
    BY <1>7, <2>2 DEF Commit
  <2>4. versions' = versions \cup tx /\ schema' = versions'
    BY <1>7, <2>1, <2>2 DEF Commit
  <2>5. /\ proc' \in [Processes -> Process]
        /\ proc'[p] = [pc |-> pc, next |-> 1, tx |-> {}]
        /\ \A o \in Processes \ {p} : proc'[o] = proc[o]
        /\ lock' = Free
    <3>1. [pc |-> pc, next |-> 1, tx |-> {}] \in Process
      BY <2>3 DEF Process
    <3>2. [Down EXCEPT !.pc = pc] = [pc |-> pc, next |-> 1, tx |-> {}]
      BY DEF Down
    <3>. QED
      BY <2>1, <2>3, <3>1, <3>2 DEF MInv, EndTx
  <2>6. Known(p) \subseteq versions' /\ versions' \subseteq Nat \ {0}
    <3>1. proc[p].next \in Nat \ {0} /\ proc[p].next = Release[p] + 1
      BY <1>2, <1>7, <2>1 DEF Commit, Migrating, Known, Process
    <3>2. \A v \in Known(p) : v \in Nat \ {0} /\ v < proc[p].next
      BY <1>2, <3>1 DEF Known
    <3>. QED
      BY <2>1, <2>4, <3>2 DEF Migrating, MInv
  <2>7. \A v \in versions', w \in Nat \ {0} : w <= v => w \in versions'
    BY <1>2, <2>1, <2>4 DEF MInv, Migrating, Process, Known
  <2>8. \A o \in Processes \ {p} : proc[o].pc \notin {"checking", "applying"}
    BY <2>1 DEF MInv
  <2>. QED
    BY <2>3, <2>4, <2>5, <2>6, <2>7, <2>8, MigrationsAssumption DEF MInv, Known
<1>8. CASE Stop(p)
  BY <1>8, EndTxInv DEF Stop
<1>. QED
  BY <1>1, <1>3, <1>4, <1>5, <1>6, <1>7, <1>8

-----------------------------------------------------------------------------
\* What the migrations do leaves the store and its readers alone.
LEMMA InvNext == IInv /\ [Next]_vars => IInv'
<1>. SUFFICES ASSUME IInv, [Next]_vars PROVE IInv'
  OBVIOUS
<1>a. \A x, y : x # y => Attempts(x) \cap Attempts(y) = {}
  BY DEF Attempts
<1>1. CASE Start
  <2>1. MInv'
    BY <1>1, MigrationsStep DEF IInv, Start
  <2>2. SInv'
    BY <1>1 DEF IInv, SInv, Start
  <2>3. RInv'
    BY <1>1 DEF IInv, RInv, Start
  <2>. QED
    BY <2>1, <2>2, <2>3 DEF IInv
<1>2. ASSUME NEW p \in Processes, NEW x \in Records, Write(p, x) PROVE IInv'
  BY <1>2 DEF IInv, MInv, SInv, RInv, Migrating, Known, Write, migrationVars
<1>3. ASSUME NEW p \in Processes, WriteSucceeds(p) PROVE IInv'
  BY <1>3 DEF IInv, MInv, SInv, RInv, Migrating, Known, WriteSucceeds, WriteReturns, migrationVars
<1>4. ASSUME NEW p \in Processes, WriteFails(p) PROVE IInv'
  BY <1>4 DEF IInv, MInv, SInv, RInv, Migrating, Known, WriteFails, WriteReturns, migrationVars
<1>5. ASSUME NEW x \in Records, CommitBatch(x) PROVE IInv'
  BY <1>5 DEF IInv, MInv, SInv, RInv, Migrating, Known, CommitBatch, migrationVars
<1>6. ASSUME NEW x \in Records, DropBatch(x) PROVE IInv'
  BY <1>6 DEF IInv, MInv, SInv, RInv, Migrating, Known, DropBatch, migrationVars
<1>7. ASSUME NEW x \in Records, Delete(x) PROVE IInv'
  <2>1. MInv'
    BY <1>7 DEF IInv, MInv, Migrating, Known, Delete, migrationVars
  <2>2. SInv'
    <3>1. children' = UNION {Attempts(y) : y \in rows'}
      BY <1>a, <1>7 DEF IInv, SInv, Delete
    <3>. QED
      BY <1>7, <3>1 DEF IInv, SInv, Delete
  <2>3. RInv'
    BY <1>7 DEF IInv, RInv, Delete
  <2>. QED
    BY <2>1, <2>2, <2>3 DEF IInv
<1>8. ASSUME NEW x \in Records, DetailBegin(x) PROVE IInv'
  <2>1. MInv' /\ SInv'
    BY <1>8 DEF IInv, MInv, SInv, Migrating, Known, DetailBegin, migrationVars, storeVars
  <2>2. {c \in children : c[1] = x} = Attempts(x)
    <3>1. \A y : \A c \in Attempts(y) : c[1] = y
      BY DEF Attempts
    <3>2. children = UNION {Attempts(y) : y \in rows} /\ x \in rows
      BY <1>8 DEF IInv, SInv, DetailBegin
    <3>. QED
      BY <3>1, <3>2
  <2>3. detail' = [state |-> "reading", id |-> x, snapshot |-> Attempts(x), attempts |-> {}]
    BY <1>8, <2>2 DEF DetailBegin, NoDetail
  <2>4. Attempts(x) \subseteq AllAttempts
    BY DEF AllAttempts
  <2>5. detail' \in [state : {"idle", "reading", "shown", "failed"}, id : Records \cup {Nothing},
                     snapshot : SUBSET AllAttempts, attempts : SUBSET AllAttempts]
    BY <2>3, <2>4
  <2>6. "state" \in DOMAIN walk' /\ walk'.state \in {"idle", "going", "done"}
    BY <1>8 DEF IInv, RInv, DetailBegin
  <2>7. RInv'
    BY <2>3, <2>5, <2>6 DEF RInv
  <2>. QED
    BY <2>1, <2>7 DEF IInv
<1>9. CASE DetailEnd
  <2>1. MInv' /\ SInv'
    BY <1>9 DEF IInv, MInv, SInv, Migrating, Known, DetailEnd, migrationVars, storeVars
  <2>2. \/ detail' = [detail EXCEPT !.state = "failed"]
        \/ detail' = [detail EXCEPT !.state = "shown", !.attempts = detail.snapshot]
    BY <1>9 DEF DetailEnd, DetailAttempts
  <2>3. RInv'
    BY <1>9, <2>2 DEF IInv, RInv, DetailEnd
  <2>. QED
    BY <2>1, <2>3 DEF IInv
<1>10. ASSUME NEW f \in Filters, NEW n \in PageSizes, StartWalk(f, n) PROVE IInv'
  BY <1>10 DEF IInv, MInv, SInv, RInv, Migrating, Known, StartWalk, NoWalk, migrationVars, storeVars
<1>11. ASSUME NEW page \in SUBSET Records, Page(page) PROVE IInv'
  <2>1. MInv' /\ SInv'
    BY <1>11 DEF IInv, MInv, SInv, Migrating, Known, Page, migrationVars, storeVars
  <2>2. \E w, c : \/ walk' = [walk EXCEPT !.state = "done", !.pages = w]
                  \/ walk' = [walk EXCEPT !.cursor = c, !.pages = w]
    BY <1>11 DEF Page
  <2>3. RInv'
    BY <1>11, <2>2 DEF IInv, RInv, Page
  <2>. QED
    BY <2>1, <2>3 DEF IInv
<1>12. CASE UNCHANGED vars
  BY <1>12 DEF IInv, MInv, SInv, RInv, Migrating, Known, vars, migrationVars, storeVars
<1>. QED
  BY <1>1, <1>2, <1>3, <1>4, <1>5, <1>6, <1>7, <1>8, <1>9, <1>10, <1>11, <1>12 DEF Next

\* The invariant holds from the start: migrations, tables and readers.
THEOREM Invariance == Spec => []IInv
<1>1. Init => IInv
  BY MigrationsAssumption
     DEF Init, MigrationsInit, IInv, MInv, SInv, RInv, NoWalk, NoDetail, Down, Process
<1>. QED
  BY <1>1, InvNext, PTL DEF Spec

-----------------------------------------------------------------------------
(***************************************************************************)
(* Processes that start together, of any releases, never break each        *)
(* other's start and leave a schema without a gap (migrate): the lock      *)
(* holder alone is between its check and its commit.                       *)
(***************************************************************************)
THEOREM MigrationsSerializeTheorem == Spec => []MigrationsSerialize
<1>1. IInv => MigrationsSerialize
  <2>. SUFFICES ASSUME MInv PROVE MigrationsSerialize
    BY DEF IInv
  <2>1. \A v \in versions : 1..v \subseteq versions
    BY DEF MInv
  <2>. QED
    BY <2>1 DEF MInv, MigrationsSerialize, Opened
<1>. QED
  BY <1>1, Invariance, PTL

(***************************************************************************)
(* The history holds whole requests, a write reported as done is           *)
(* committed, and the detail view is consistent although rows are deleted  *)
(* while it is read (Write's batch, Detail's RepeatableRead).              *)
(***************************************************************************)
THEOREM RecordsWholeTheorem == Spec => []RecordsWhole
<1>1. IInv => RecordsWhole
  <2>. SUFFICES ASSUME IInv PROVE RecordsWhole
    OBVIOUS
  <2>1. TypeOK
    <3>1. children \subseteq UNION {Attempts(x) : x \in Records}
      BY DEF IInv, SInv
    <3>. QED
      BY <3>1 DEF IInv, MInv, SInv, RInv, TypeOK
  <2>. QED
    BY <2>1 DEF IInv, SInv, RInv, RecordsWhole
<1>. QED
  BY <1>1, Invariance, PTL

(***************************************************************************)
(* No process comes to serve a database with migrations that its release   *)
(* does not know (migrate's check for unsupported versions), although the  *)
(* check and the commit are separate statements.                           *)
(***************************************************************************)
THEOREM NewerRefusedTheorem == Spec => NewerRefused
<1>. DEFINE A == \A p \in Processes : ~Opened(p) /\ Opened(p)' => versions' \subseteq Known(p)
<1>1. IInv /\ [Next]_vars => [A]_vars
  <2>. SUFFICES ASSUME IInv, Next, NEW p \in Processes, ~Opened(p), Opened(p)'
                PROVE  versions' \subseteq Known(p)
    BY DEF A
  <2>1. Start
    BY DEF Next, Write, WriteSucceeds, WriteFails, WriteReturns, CommitBatch, DropBatch, Delete,
           DetailBegin, DetailEnd, StartWalk, Page, Opened, migrationVars
  <2>2. PICK o \in Processes : Open(o) \/ Lock(o) \/ Check(o) \/ Apply(o) \/ Commit(o) \/ Stop(o)
    BY <2>1 DEF Start, MigrationsNext
  <2>3. o = p /\ Commit(p)
    BY <2>2 DEF IInv, MInv, Process, Opened, Open, Lock, Check, Apply, Commit, Stop, EndTx, Down
  <2>4. Migrating(p) /\ versions' \subseteq versions \cup proc[p].tx
    BY <2>3 DEF IInv, MInv, Commit
  <2>. QED
    BY <2>4 DEF Migrating
<1>. QED
  BY <1>1, Invariance, PTL DEF Spec, NewerRefused
-----------------------------------------------------------------------------
(***************************************************************************)
(* The walk through the list.  What has been shown lies at or after the    *)
(* cursor and what must still be shown before it, in the order of the      *)
(* list; a row that must be shown is there, because a deletion releases    *)
(* it.                                                                     *)
(***************************************************************************)
Walks == [state : {"idle", "going", "done"}, filter : SUBSET Records, limit : Nat \ {0},
          cursor : {Position(x) : x \in Records} \cup {Nothing},
          pages : Seq(SUBSET Records), must : SUBSET Records]

Shown == UNION {walk.pages[i] : i \in DOMAIN walk.pages}

WInv ==
  /\ walk \in Walks
  /\ walk.must \subseteq rows \cap walk.filter
  /\ walk.state = "idle" => walk = NoWalk
  /\ walk.state = "going" =>
       /\ walk.cursor = Nothing => walk.pages = <<>>
       /\ walk.cursor # Nothing =>
            /\ \A x \in Shown : ~Before(Position(x), walk.cursor)
            /\ \A x \in walk.must \ Shown : Before(Position(x), walk.cursor)
  /\ walk.state = "done" => walk.must \subseteq Shown
  /\ \A i, j \in DOMAIN walk.pages : i < j =>
       \A x \in walk.pages[i], y \in walk.pages[j] : Before(Position(y), Position(x))

\* Every nonempty set of naturals has a least element.
LEMMA Least ==
  ASSUME NEW T \in SUBSET Nat, T # {}
  PROVE  \E x \in T : \A y \in T : x <= y
<1>1. PICK x \in T : \A y \in T : ~(<<y, x>> \in OpToRel(<, Nat))
  BY NatLessThanWellFounded, WFMin
<1>2. \A y \in T : ~(y < x)
  BY <1>1 DEF OpToRel
<1>. QED
  BY <1>2

\* What PostgreSQL keeps of an instant is a whole number of microseconds.
LEMMA WholeMultiple ==
  ASSUME NEW k \in Nat, NEW m \in Nat \ {0}
  PROVE  (k * m) % m = 0 /\ k * m \in Nat
<1> DEFINE q == (k * m) \div m
           r == (k * m) % m
<1>1. k * m = m * q + r /\ r \in 0..(m - 1) /\ q \in Int
  OBVIOUS
<1>2. r = (k - q) * m /\ k - q \in Int
  BY <1>1
<1>3. \A d \in Int : (d >= 1 => d * m >= m) /\ (d <= -1 => d * m <= -m)
  OBVIOUS
<1>. QED
  BY <1>1, <1>2, <1>3

\* The position of a record: a cursor made of it is accepted.
LEMMA Positions ==
  ASSUME NEW x \in Records
  PROVE  /\ x \in Nat /\ StartedAt(x) \in Nat
         /\ Position(x).at = StartedAt(x) /\ Position(x).id = x
         /\ Position(x) # Nothing /\ CursorAccepted(Position(x))
<1>1. x \in Nat /\ Data[x].started \in Nat /\ Microsecond \in Nat \ {0}
  BY HistoryAssumption
<1>2. Data[x].started \div Microsecond \in Nat
  BY <1>1
<1>3. StartedAt(x) \in Nat /\ StartedAt(x) % Microsecond = 0
  BY <1>1, <1>2, WholeMultiple DEF StartedAt
<1>4. Position(x).at = StartedAt(x) /\ Position(x).id = x
  BY DEF Position
<1>5. Position(x) \in [at : Nat, id : Records]
  BY <1>3 DEF Position
<1>6. Position(x) # Nothing
  BY <1>5, HistoryAssumption
<1>. QED
  BY <1>1, <1>3, <1>4, <1>6 DEF CursorAccepted

\* The list has one order, in which two records are never in the same place.
LEMMA ListOrder ==
  ASSUME NEW x \in Records, NEW y \in Records, NEW z \in Records
  PROVE  /\ Before(Position(x), Position(y)) /\ Before(Position(y), Position(z))
              => Before(Position(x), Position(z))
         /\ ~Before(Position(x), Position(x))
         /\ x = y \/ Before(Position(x), Position(y)) \/ Before(Position(y), Position(x))
         /\ ~(Before(Position(x), Position(y)) /\ Before(Position(y), Position(x)))
  BY Positions DEF Before

\* A page has a record that is before all others: the cursor is its position.
LEMMA FirstOfPage ==
  ASSUME NEW page \in SUBSET Records, page # {}
  PROVE  \E x \in page :
           /\ NextCursor(page) = Position(x)
           /\ \A y \in page : x = y \/ Before(Position(x), Position(y))
<1> DEFINE instants == {StartedAt(x) : x \in page}
<1>1. PICK a \in instants : \A b \in instants : a <= b
  <2>1. instants \in SUBSET Nat /\ instants # {}
    BY Positions
  <2> HIDE DEF instants
  <2>. QED
    BY <2>1, Least
<1> DEFINE ids == {x \in page : StartedAt(x) = a}
<1>2. PICK m \in ids : \A n \in ids : m <= n
  <2>1. ids \in SUBSET Nat /\ ids # {}
    BY Positions
  <2> HIDE DEF ids
  <2>. QED
    BY <2>1, Least
<1>3. m \in page /\ StartedAt(m) = a
  BY <1>2
<1>4. ASSUME NEW y \in page PROVE m = y \/ Before(Position(m), Position(y))
  <2>1. y \in Nat /\ m \in Nat /\ StartedAt(y) \in Nat /\ StartedAt(m) <= StartedAt(y)
    BY <1>1, <1>3, Positions
  <2>2. StartedAt(y) = StartedAt(m) => m <= y
    BY <1>2, <1>3
  <2>. QED
    BY <1>3, <2>1, <2>2, Positions DEF Before
<1>. QED
  BY <1>3, <1>4 DEF NextCursor

\* Steps that leave the walk alone and take no row away.
LEMMA WalkUntouched ==
  ASSUME WInv, UNCHANGED walk, rows \subseteq rows'
  PROVE  WInv'
  BY DEF WInv, Shown

\* A deletion takes the row from those that must be shown.
LEMMA WalkDelete ==
  ASSUME WInv, NEW x \in Records, Delete(x)
  PROVE  WInv'
<1>1. walk \in Walks /\ rows' = rows \ {x} /\ walk' = [walk EXCEPT !.must = @ \ {x}]
  BY DEF WInv, Delete
<1>2. /\ walk' \in Walks /\ walk'.must = walk.must \ {x}
      /\ walk'.state = walk.state /\ walk'.filter = walk.filter
      /\ walk'.cursor = walk.cursor /\ walk'.pages = walk.pages
  BY <1>1 DEF Walks
<1>3. Shown' = Shown
  BY <1>2 DEF Shown
<1>4. walk'.state = "idle" => walk' = NoWalk
  <2> SUFFICES ASSUME walk.state = "idle" PROVE walk' = NoWalk
    BY <1>2
  <2>1. walk = NoWalk
    BY DEF WInv
  <2>. QED
    BY <1>1, <2>1 DEF NoWalk
<1>. QED
  BY <1>1, <1>2, <1>3, <1>4 DEF WInv

\* A walk begins with nothing shown.
LEMMA WalkStart ==
  ASSUME IInv, WInv, NEW f \in Filters, NEW n \in PageSizes, StartWalk(f, n)
  PROVE  WInv'
<1>1. walk' = [state |-> "going", filter |-> f, limit |-> n, cursor |-> Nothing,
               pages |-> <<>>, must |-> rows \cap f]
  BY DEF StartWalk, NoWalk
<1>2. f \in SUBSET Records /\ n \in Nat \ {0} /\ rows \in SUBSET Records /\ rows' = rows
  BY HistoryAssumption DEF IInv, SInv, StartWalk, storeVars
<1>3. walk' \in Walks
  BY <1>1, <1>2 DEF Walks
<1>4. DOMAIN walk'.pages = {}
  BY <1>1
<1>. QED
  BY <1>1, <1>2, <1>3, <1>4 DEF WInv

\* A page: what it shows is before all that was shown, and what it leaves is before
\* what it shows.
LEMMA WalkPage ==
  ASSUME IInv, WInv, NEW page \in SUBSET Records, Page(page)
  PROVE  WInv'
<1>1. /\ walk \in Walks /\ walk.state = "going" /\ rows' = rows /\ rows \subseteq Records
      /\ page \subseteq Candidates
      /\ \A x \in page, y \in Candidates \ page : Before(Position(y), Position(x))
  BY DEF WInv, Page, IsPage, storeVars, IInv, SInv
<1>2. walk.pages \in Seq(SUBSET Records) /\ Len(walk.pages) \in Nat
  BY <1>1 DEF Walks
<1> DEFINE pages == Append(walk.pages, page)
           last == Len(walk.pages) + 1
<1>3. /\ pages \in Seq(SUBSET Records) /\ DOMAIN pages = 1..last /\ pages[last] = page
      /\ DOMAIN walk.pages = 1..(last - 1)
      /\ \A i \in DOMAIN walk.pages : pages[i] = walk.pages[i]
  BY <1>2
<1>4. /\ walk'.pages = pages /\ walk'.must = walk.must /\ walk'.filter = walk.filter
      /\ walk'.limit = walk.limit
      /\ page = Candidates => walk'.state = "done" /\ walk'.cursor = walk.cursor
      /\ page # Candidates => walk'.state = "going" /\ walk'.cursor = NextCursor(page)
  BY <1>1 DEF Page, Walks
<1>5. Shown' = Shown \cup page
  <2>1. Shown' = UNION {pages[i] : i \in 1..last}
    BY <1>3, <1>4 DEF Shown
  <2>2. \A i \in 1..last : i \in DOMAIN walk.pages \/ i = last
    BY <1>2, <1>3
  <2>3. DOMAIN walk.pages \subseteq 1..last /\ last \in 1..last
    BY <1>2, <1>3
  <2> HIDE DEF pages, last
  <2>. QED
    BY <1>3, <2>1, <2>2, <2>3 DEF Shown
<1>6. Shown \subseteq Records /\ \A x \in page, y \in Shown : Before(Position(x), Position(y))
  <2>1. Shown \subseteq Records
    BY <1>2 DEF Shown
  <2>2. ASSUME NEW x \in page, NEW y \in Shown PROVE Before(Position(x), Position(y))
    <3>1. walk.cursor # Nothing
      BY <1>1, <2>2 DEF WInv, Shown
    <3>2. PICK c \in Records : walk.cursor = Position(c)
      BY <1>1, <3>1 DEF Walks
    <3>3. Before(Position(x), Position(c)) /\ ~Before(Position(y), Position(c))
      BY <1>1, <2>2, <3>1, <3>2 DEF Candidates, WInv
    <3>4. x \in Records /\ y \in Records /\ (y = c \/ Before(Position(c), Position(y)))
      BY <2>1, <2>2, <3>3, ListOrder
    <3>. QED
      BY <3>3, <3>4, ListOrder
  <2>. QED
    BY <2>1, <2>2
<1>7. \A i, j \in DOMAIN walk'.pages : i < j =>
        \A x \in walk'.pages[i], y \in walk'.pages[j] : Before(Position(y), Position(x))
  <2> SUFFICES ASSUME NEW i \in 1..last, NEW j \in 1..last, i < j,
                      NEW x \in pages[i], NEW y \in pages[j]
               PROVE  Before(Position(y), Position(x))
    BY <1>3, <1>4
  <2>1. i \in DOMAIN walk.pages /\ (j \in DOMAIN walk.pages \/ j = last)
    BY <1>2, <1>3
  <2> HIDE DEF pages, last
  <2>2. x \in Shown
    BY <1>3, <2>1 DEF Shown
  <2>3. CASE j \in DOMAIN walk.pages
    BY <1>3, <2>1, <2>3 DEF WInv
  <2>4. CASE j = last
    BY <1>3, <1>6, <2>2, <2>4
  <2>. QED
    BY <2>1, <2>3, <2>4
<1>8. \A x \in walk.must \ Shown : x \in Candidates
  <2> SUFFICES ASSUME NEW x \in walk.must \ Shown PROVE x \in Candidates
    OBVIOUS
  <2>1. x \in rows \cap walk.filter
    BY DEF WInv
  <2>2. walk.cursor # Nothing => Before(Position(x), walk.cursor)
    BY <1>1 DEF WInv
  <2>. QED
    BY <2>1, <2>2 DEF Candidates
<1>9. CASE page = Candidates
  <2>1. walk' \in Walks
    <3>1. walk' = [walk EXCEPT !.state = "done", !.pages = pages]
      BY <1>9 DEF Page
    <3> HIDE DEF pages
    <3>. QED
      BY <1>1, <1>3, <3>1 DEF Walks
  <2>2. walk'.must \subseteq Shown'
    BY <1>4, <1>5, <1>8, <1>9
  <2>3. walk'.must \subseteq rows' \cap walk'.filter
    BY <1>1, <1>4 DEF WInv
  <2>. QED
    BY <1>4, <1>7, <1>9, <2>1, <2>2, <2>3 DEF WInv
<1>10. CASE page # Candidates
  <2>1. page # {}
    <3>1. Cardinality(page) = walk.limit /\ walk.limit \in Nat \ {0}
      BY <1>1, <1>10 DEF Page, IsPage, Walks
    <3>. QED
      BY <3>1, FS_EmptySet
  <2>2. PICK m \in page : /\ NextCursor(page) = Position(m)
                          /\ \A y \in page : m = y \/ Before(Position(m), Position(y))
    BY <2>1, FirstOfPage
  <2>3. walk'.cursor = Position(m) /\ m \in Records /\ Position(m) # Nothing
    BY <1>4, <1>10, <2>2, Positions
  <2>4. walk' \in Walks
    <3>1. walk' = [walk EXCEPT !.cursor = Position(m), !.pages = pages]
      BY <1>10, <2>2 DEF Page
    <3> HIDE DEF pages
    <3>. QED
      BY <1>1, <1>3, <2>3, <3>1 DEF Walks
  <2>5. \A x \in Shown' : ~Before(Position(x), walk'.cursor)
    <3> SUFFICES ASSUME NEW x \in Shown \cup page PROVE ~Before(Position(x), Position(m))
      BY <1>5, <2>3
    <3>1. x = m \/ Before(Position(m), Position(x))
      BY <1>6, <2>2
    <3>. QED
      BY <1>6, <2>3, <3>1, ListOrder
  <2>6. \A x \in walk'.must \ Shown' : Before(Position(x), walk'.cursor)
    BY <1>1, <1>4, <1>5, <1>8, <2>2, <2>3
  <2>7. walk'.must \subseteq rows' \cap walk'.filter
    BY <1>1, <1>4 DEF WInv
  <2>. QED
    BY <1>4, <1>7, <1>10, <2>3, <2>4, <2>5, <2>6, <2>7 DEF WInv
<1>. QED
  BY <1>9, <1>10

(***************************************************************************)
(* However many requests start in the same microsecond, and whatever is    *)
(* written or deleted between two pages, a walk through the list repeats   *)
(* none, skips none that was there all the time, and never meets a cursor  *)
(* that the handler refuses (listSQL, encodeCursor and decodeCursor).      *)
(***************************************************************************)
THEOREM PagesCompleteTheorem == Spec => []PagesComplete
<1>1. Init => WInv
  <2> SUFFICES ASSUME Init PROVE WInv
    OBVIOUS
  <2>1. walk = NoWalk
    BY DEF Init
  <2>2. NoWalk \in Walks
    BY DEF NoWalk, Walks
  <2>3. NoWalk.state = "idle" /\ NoWalk.must = {} /\ DOMAIN NoWalk.pages = {}
    BY DEF NoWalk
  <2>. QED
    BY <2>1, <2>2, <2>3 DEF WInv
<1>2. IInv /\ WInv /\ [Next]_vars => WInv'
  <2> SUFFICES ASSUME IInv, WInv, [Next]_vars PROVE WInv'
    OBVIOUS
  <2>1. ASSUME NEW x \in Records, CommitBatch(x) PROVE WInv'
    BY <2>1, WalkUntouched DEF CommitBatch
  <2>2. CASE \/ Start \/ DetailEnd \/ UNCHANGED vars
             \/ \E p \in Processes : \/ \E x \in Records : Write(p, x)
                                     \/ WriteSucceeds(p) \/ WriteFails(p)
             \/ \E x \in Records : DropBatch(x) \/ DetailBegin(x)
    <3>1. UNCHANGED <<walk, rows>>
      BY <2>2 DEF Start, DetailEnd, vars, storeVars, Write, WriteSucceeds, WriteFails,
                  WriteReturns, DropBatch, DetailBegin
    <3>. QED
      BY <3>1, WalkUntouched
  <2>. QED
    BY <2>1, <2>2, WalkDelete, WalkStart, WalkPage DEF Next
<1>3. WInv => PagesComplete
  <2> SUFFICES ASSUME WInv PROVE PagesComplete
    OBVIOUS
  <2>1. walk.cursor # Nothing => CursorAccepted(walk.cursor)
    BY Positions DEF WInv, Walks
  <2>. QED
    BY <2>1 DEF WInv, Shown, PagesComplete
<1>. QED
  BY <1>1, <1>2, <1>3, Invariance, PTL DEF Spec

=============================================================================
