------------------------ MODULE AdminSessionsProofs -------------------------
(***************************************************************************)
(* Proofs about AdminSessions, for any number of logins under way, keys,   *)
(* lifetimes and limits: an ended session is never valid again, a session  *)
(* is valid only for its lifetime, and the table stays bounded.            *)
(*                                                                         *)
(* The invariant ties the table to the history of its keys: an entry was   *)
(* issued and expires a lifetime after that, a revoked key was issued (so  *)
(* that a new key, which never was, is not revoked), and the time at which *)
(* a key was issued never changes.                                         *)
(***************************************************************************)
EXTENDS AdminSessions, FiniteSetTheorems, TLAPS

\* The table and what was issued.
Tracked ==
  /\ \A k \in DOMAIN issued : issued[k] \in Nat
  /\ \A k \in DOMAIN entries : k \in DOMAIN issued /\ entries[k] = issued[k] + TTL
  /\ revoked \subseteq DOMAIN issued

Revoked == revoked \cap DOMAIN entries = {}

Bounded == IsFiniteSet(DOMAIN entries) /\ Cardinality(DOMAIN entries) <= MaxSessions

\* The last request was admitted within the lifetime of its session.
AdmittedInTime ==
  admitted.key # NoCookie =>
    admitted.key \in DOMAIN issued /\ admitted.at < issued[admitted.key] + TTL

IInv == TypeOK /\ Tracked /\ Revoked /\ Bounded /\ AdmittedInTime

-----------------------------------------------------------------------------
\* Whatever is removed from it, the table stays bounded.
LEMMA FewerBounded ==
  ASSUME Bounded, NEW S \in SUBSET DOMAIN entries
  PROVE  IsFiniteSet(S) /\ Cardinality(S) \in Nat /\ Cardinality(S) <= MaxSessions
<1>1. IsFiniteSet(S) /\ Cardinality(S) <= Cardinality(DOMAIN entries)
  BY FS_Subset DEF Bounded
<1>2. Cardinality(S) \in Nat /\ Cardinality(DOMAIN entries) \in Nat
  BY <1>1, FS_CardinalityType DEF Bounded
<1>3. QED
  BY <1>1, <1>2, SessionsAssumption DEF Bounded

\* login's check of the size under the second lock: there is room for the new
\* session once the one presented is gone.
LEMMA RoomForOneMore ==
  ASSUME Bounded, NEW cookie, RoomFor(cookie), NEW key, key \notin Live(now)
  PROVE  LET S == (Live(now) \ Replaced(cookie)) \cup {key}
         IN  IsFiniteSet(S) /\ Cardinality(S) <= MaxSessions
<1> DEFINE L == Live(now)
           K == L \ Replaced(cookie)
<1>1. /\ IsFiniteSet(L) /\ Cardinality(L) \in Nat /\ Cardinality(L) <= MaxSessions
      /\ IsFiniteSet(K) /\ Cardinality(K) \in Nat
  BY FewerBounded DEF Live
<1>2. Cardinality(K) < MaxSessions
  <2>1. CASE Cardinality(L) < MaxSessions
    <3>1. Cardinality(K) <= Cardinality(L)
      BY <1>1, FS_Subset
    <3>2. QED
      BY <1>1, <2>1, <3>1, SessionsAssumption
  <2>2. CASE cookie # NoCookie /\ cookie \in L
    <3>1. K = L \ {cookie}
      BY <2>2 DEF Replaced
    <3>2. Cardinality(L \ {cookie}) = Cardinality(L) - 1
      BY <1>1, <2>2, FS_RemoveElement
    <3>3. QED
      BY <1>1, <3>1, <3>2, SessionsAssumption
  <2>3. QED
    BY <2>1, <2>2 DEF RoomFor
<1>3. key \notin K
  OBVIOUS
<1>4. SUFFICES IsFiniteSet(K \cup {key}) /\ Cardinality(K \cup {key}) <= MaxSessions
  OBVIOUS
<1> HIDE DEF K
<1>5. IsFiniteSet(K \cup {key}) /\ Cardinality(K \cup {key}) = Cardinality(K) + 1
  BY <1>1, <1>3, FS_AddElement
<1>6. QED
  BY <1>1, <1>2, <1>5, SessionsAssumption

\* Init establishes the invariant.
LEMMA IInvInit == Init => IInv
<1> SUFFICES ASSUME Init PROVE IInv
  OBVIOUS
<1>1. DOMAIN entries = {} /\ DOMAIN issued = {} /\ revoked = {}
  BY DEF Init
<1>2. TypeOK
  BY <1>1, SessionsAssumption DEF Init, TypeOK, Cookies
<1>3. Bounded
  BY <1>1, FS_EmptySet, SessionsAssumption DEF Bounded
<1>4. QED
  BY <1>1, <1>2, <1>3 DEF Init, IInv, Tracked, Revoked, AdmittedInTime

\* Pruning and logout only remove entries; prune is what valid and a refused
\* login do to the table.
LEMMA RemovalKeeps ==
  ASSUME IInv, NEW S \in SUBSET DOMAIN entries, entries' = [k \in S |-> entries[k]],
         issued' = issued, revoked' \subseteq DOMAIN issued, revoked' \cap S = {}
  PROVE  /\ DOMAIN entries' \subseteq Keys /\ \A k \in DOMAIN entries' : entries'[k] \in Nat
         /\ Tracked' /\ Revoked' /\ Bounded'
<1>1. Bounded'
  BY FewerBounded DEF IInv, Bounded
<1>2. QED
  BY <1>1 DEF IInv, TypeOK, Tracked, Revoked

\* login, first section.
LEMMA LoginBeginKeeps ==
  ASSUME IInv, NEW c \in Clients, NEW cookie \in DOMAIN issued \cup {NoCookie},
         LoginBegin(c, cookie)
  PROVE  IInv'
<1>1. TypeOK'
  <2>1. cookie \in Cookies
    BY DEF IInv, TypeOK, Cookies
  <2>2. window' \in 0..MaxTime /\ logins' \in 0..MaxLogins
    BY SessionsAssumption DEF LoginBegin, IInv, TypeOK
  <2>3. login' \in [Clients -> Cookies \cup {"none"}]
    BY <2>1 DEF LoginBegin, IInv, TypeOK
  <2>4. QED
    BY <2>2, <2>3 DEF LoginBegin, IInv, TypeOK
<1>2. QED
  BY <1>1 DEF LoginBegin, IInv, Tracked, Revoked, Bounded, AdmittedInTime

\* login, second section.
LEMMA LoginCreateKeeps ==
  ASSUME IInv, NEW c \in Clients, NEW key \in Keys, LoginCreate(c, key)
  PROVE  IInv'
<1> DEFINE cookie == login[c]
<1>1. /\ login' \in [Clients -> Cookies \cup {"none"}]
      /\ UNCHANGED <<now, window, logins, admitted>>
  BY DEF LoginCreate, IInv, TypeOK
<1>2. CASE key \in Live(now) \/ ~RoomFor(cookie)
  <2>1. /\ entries' = [k \in Live(now) |-> entries[k]]
        /\ issued' = issued /\ revoked' = revoked
    BY <1>2 DEF LoginCreate, Without
  <2>2. Live(now) \in SUBSET DOMAIN entries
    BY DEF Live
  <2>3. revoked \subseteq DOMAIN issued /\ revoked \cap Live(now) = {}
    BY <2>2 DEF IInv, Tracked, Revoked
  <2>4. QED
    BY <1>1, <2>1, <2>2, <2>3, RemovalKeeps DEF IInv, TypeOK, AdmittedInTime
<1>3. CASE key \notin Live(now) /\ RoomFor(cookie)
  <2> DEFINE S == (Live(now) \ Replaced(cookie)) \cup {key}
  <2>1. /\ entries' = [k \in S |-> IF k = key THEN now + TTL ELSE entries[k]]
        /\ issued' = [k \in DOMAIN issued \cup {key} |-> IF k = key THEN now ELSE issued[k]]
        /\ revoked' = revoked \cup ({cookie} \cap DOMAIN issued)
        /\ key \notin DOMAIN issued
    BY <1>3 DEF LoginCreate
  <2>2. Live(now) \in SUBSET DOMAIN entries /\ now \in Nat
    BY SessionsAssumption DEF Live, IInv, TypeOK
  <2>3. Bounded'
    BY <1>3, <2>1, RoomForOneMore DEF IInv, Bounded
  <2>4. Tracked'
    BY <2>1, <2>2 DEF IInv, Tracked
  <2>5. Revoked'
    <3>1. {cookie} \cap DOMAIN issued \subseteq Replaced(cookie)
      BY SessionsAssumption DEF IInv, TypeOK, Replaced
    <3>2. QED
      BY <2>1, <2>2, <3>1 DEF IInv, Tracked, Revoked
  <2>6. AdmittedInTime'
    BY <1>1, <2>1 DEF IInv, AdmittedInTime
  <2>7. TypeOK'
    BY <1>1, <2>1, <2>2, SessionsAssumption DEF IInv, TypeOK, Tracked
  <2>8. QED
    BY <2>3, <2>4, <2>5, <2>6, <2>7 DEF IInv
<1>4. QED
  BY <1>2, <1>3

\* logout
LEMMA LogoutKeeps ==
  ASSUME IInv, NEW cookie \in DOMAIN issued, Logout(cookie)
  PROVE  IInv'
<1> DEFINE S == DOMAIN entries \ {cookie}
<1>1. /\ entries' = [k \in S |-> entries[k]] /\ issued' = issued
      /\ revoked' = revoked \cup {cookie}
      /\ UNCHANGED <<now, window, logins, login, admitted>>
  BY DEF Logout
<1>2. /\ S \in SUBSET DOMAIN entries
      /\ revoked' \subseteq DOMAIN issued /\ revoked' \cap S = {}
  BY <1>1 DEF IInv, Tracked, Revoked
<1> HIDE DEF S
<1>3. QED
  BY <1>1, <1>2, RemovalKeeps DEF IInv, TypeOK, AdmittedInTime

\* valid: a request is admitted with a session that is live at this moment.
LEMMA CheckKeeps ==
  ASSUME IInv, NEW cookie \in DOMAIN issued, Check(cookie)
  PROVE  IInv'
<1>1. /\ entries' = [k \in Live(now) |-> entries[k]] /\ issued' = issued
      /\ admitted' = IF cookie \in Live(now) THEN [key |-> cookie, at |-> now] ELSE admitted
      /\ UNCHANGED <<now, window, logins, login, revoked>>
  BY DEF Check, Without
<1>2. /\ Live(now) \in SUBSET DOMAIN entries
      /\ revoked \subseteq DOMAIN issued /\ revoked \cap Live(now) = {}
  BY DEF Live, IInv, Tracked, Revoked
<1>3. cookie \in Live(now) => now < issued[cookie] + TTL
  BY <1>2 DEF Live, IInv, Tracked
<1>4. AdmittedInTime'
  BY <1>1, <1>3 DEF IInv, AdmittedInTime
<1>5. QED
  BY <1>1, <1>2, <1>4, RemovalKeeps DEF IInv, TypeOK

\* The invariant holds at all times.
THEOREM Invariance == Spec => []IInv
<1>1. ASSUME IInv, [Next]_vars PROVE IInv'
  <2> USE <1>1
  <2>1. CASE UNCHANGED vars
    BY <2>1 DEF vars, IInv, TypeOK, Tracked, Revoked, Bounded, AdmittedInTime
  <2>2. ASSUME NEW c \in Clients, LoginRefused(c) PROVE IInv'
    BY <2>2 DEF LoginRefused, IInv, TypeOK, Tracked, Revoked, Bounded, AdmittedInTime
  <2>3. CASE Tick
    BY <2>3, SessionsAssumption
    DEF Tick, IInv, TypeOK, Tracked, Revoked, Bounded, AdmittedInTime
  <2>4. QED
    BY <2>1, <2>2, <2>3, LoginBeginKeeps, LoginCreateKeeps, LogoutKeeps, CheckKeeps DEF Next
<1>2. QED
  BY IInvInit, <1>1, PTL DEF Spec

\* SessionsEnd: whatever logins, logouts and checks interleave with the two
\* critical sections of login, a session that was logged out or replaced is
\* never valid again, none is valid for longer than its absolute lifetime, and
\* the table never holds more than maxSessions.
THEOREM SessionsEndTheorem == Spec => []SessionsEnd
<1>1. IInv => SessionsEnd
  BY DEF IInv, Revoked, Bounded, AdmittedInTime, SessionsEnd
<1>2. QED
  BY Invariance, <1>1, PTL
=============================================================================
