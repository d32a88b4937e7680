--------------------------- MODULE AdminSessions ----------------------------
(***************************************************************************)
(* The sessions of the control plane (internal/adminapi/auth.go): a table  *)
(* of session keys with absolute expiry, bounded in size, and one global   *)
(* window that limits login attempts.  login takes the lock twice, around  *)
(* the check of the secret, and logins, logouts and checks of other        *)
(* requests may come in between.                                           *)
(*                                                                         *)
(* A cookie is the key it hashes to, or NoCookie for a request without a   *)
(* well-formed one.                                                        *)
(***************************************************************************)
EXTENDS Naturals, FiniteSetsExt

CONSTANTS
  Clients,       \* login requests under way at the same time
  Keys, NoCookie,
  MaxSessions,   \* maxSessions: 128 in the code
  MaxLogins,     \* 20 in the code
  Window,        \* one minute
  TTL,           \* AuthConfig.TTL
  MaxTime        \* bound on the clock

ASSUME SessionsAssumption ==
  /\ MaxSessions \in Nat \ {0} /\ MaxLogins \in Nat \ {0}
  /\ Window \in Nat \ {0} /\ TTL \in Nat \ {0} /\ MaxTime \in Nat /\ Window <= MaxTime
  /\ NoCookie \notin Keys

VARIABLES
  now,
  entries,     \* sessions.entries: key -> expiry
  window,      \* sessions.window: when the window began
  logins,      \* sessions.logins
  login,       \* each login under way: "none", or the cookie it presented
  issued,      \* key -> the time it was issued at
  revoked,     \* keys that were logged out or replaced by a later login
  admitted     \* the last session a request was admitted with, and when

vars == <<now, entries, window, logins, login, issued, revoked, admitted>>

Cookies == Keys \cup {NoCookie}

Init ==
  /\ now = Window          \* the zero time lies more than a window in the past
  /\ entries = [k \in {} |-> 0]
  /\ window = 0 /\ logins = 0
  /\ login = [c \in Clients |-> "none"]
  /\ issued = [k \in {} |-> 0]
  /\ revoked = {}
  /\ admitted = [key |-> NoCookie, at |-> 0]

\* prune
Live(t) == {k \in DOMAIN entries : t < entries[k]}
Without(S) == [k \in Live(now) \ S |-> entries[k]]

-----------------------------------------------------------------------------
\* login: has the window passed?
WindowPassed == now >= window + Window

\* login, first section: the attempt limit.
LoginBegin(c, cookie) ==
  LET used == IF WindowPassed THEN 0 ELSE logins
      limited == used >= MaxLogins IN
  /\ login[c] = "none"
  /\ window' = IF WindowPassed THEN now ELSE window
  /\ logins' = IF limited THEN used ELSE used + 1
  /\ login' = [login EXCEPT ![c] = IF limited THEN "none" ELSE cookie]
  /\ UNCHANGED <<now, entries, issued, revoked, admitted>>

\* The body or the secret is wrong, or there is no randomness.
LoginRefused(c) ==
  /\ login[c] # "none"
  /\ login' = [login EXCEPT ![c] = "none"]
  /\ UNCHANGED <<now, entries, window, logins, issued, revoked, admitted>>

\* login, second section: a full table admits only a replacement.
RoomFor(cookie) ==
  Cardinality(Live(now)) < MaxSessions \/ (cookie # NoCookie /\ cookie \in Live(now))

\* The session presented is left in place.
ReplacedNone(cookie) == {}

Replaced(cookie) == IF cookie = NoCookie THEN {} ELSE {cookie}

\* login, second section.  A new key is random: one never issued before, or,
\* however unlikely, one in the table.
LoginCreate(c, key) ==
  LET cookie == login[c]
      refused == key \in Live(now) \/ ~RoomFor(cookie) IN
  /\ cookie # "none"
  /\ key \notin DOMAIN issued \/ key \in Live(now)
  /\ login' = [login EXCEPT ![c] = "none"]
  /\ IF refused
     THEN /\ entries' = Without({})
          /\ UNCHANGED <<issued, revoked>>
     ELSE /\ entries' = [k \in (Live(now) \ Replaced(cookie)) \cup {key} |->
                           IF k = key THEN now + TTL ELSE entries[k]]
          /\ issued' = [k \in DOMAIN issued \cup {key} |-> IF k = key THEN now ELSE issued[k]]
          /\ revoked' = revoked \cup ({cookie} \cap DOMAIN issued)
  /\ UNCHANGED <<now, window, logins, admitted>>

\* logout, which deletes without pruning.
Logout(cookie) ==
  /\ cookie \in DOMAIN issued
  /\ entries' = [k \in DOMAIN entries \ {cookie} |-> entries[k]]
  /\ revoked' = revoked \cup {cookie}
  /\ UNCHANGED <<now, window, logins, login, issued, admitted>>

\* valid, for a request of the admin API and for the session status
Check(cookie) ==
  /\ cookie \in DOMAIN issued
  /\ entries' = Without({})
  /\ admitted' = IF cookie \in Live(now) THEN [key |-> cookie, at |-> now] ELSE admitted
  /\ UNCHANGED <<now, window, logins, login, issued, revoked>>

Tick ==
  /\ now < MaxTime
  /\ now' = now + 1
  /\ UNCHANGED <<entries, window, logins, login, issued, revoked, admitted>>

Next ==
  \/ \E c \in Clients : \/ \E cookie \in DOMAIN issued \cup {NoCookie} : LoginBegin(c, cookie)
                        \/ LoginRefused(c)
                        \/ \E key \in Keys : LoginCreate(c, key)
  \/ \E cookie \in DOMAIN issued : Logout(cookie) \/ Check(cookie)
  \/ Tick

Spec == Init /\ [][Next]_vars

-----------------------------------------------------------------------------
TypeOK ==
  /\ now \in Window..MaxTime
  /\ DOMAIN entries \subseteq Keys /\ \A k \in DOMAIN entries : entries[k] \in Nat
  /\ window \in 0..MaxTime /\ logins \in 0..MaxLogins
  /\ login \in [Clients -> Cookies \cup {"none"}]
  /\ DOMAIN issued \subseteq Keys /\ revoked \subseteq Keys

(***************************************************************************)
(* Sessions end: one that was logged out, or presented to a login that     *)
(* succeeded, is never valid again, whatever logins and checks were under  *)
(* way, and a request is admitted only within TTL of the login that issued *)
(* its session ("The TTL is absolute, not sliding").  The table never      *)
(* holds more than MaxSessions sessions, also when logins that present the *)
(* same session, or one that has ended meanwhile, race for the last place  *)
(* (login's check of replacing under the second lock).                     *)
(***************************************************************************)
SessionsEnd ==
  /\ TypeOK
  /\ revoked \cap DOMAIN entries = {}
  /\ admitted.key # NoCookie => admitted.at < issued[admitted.key] + TTL
  /\ Cardinality(DOMAIN entries) <= MaxSessions
=============================================================================
