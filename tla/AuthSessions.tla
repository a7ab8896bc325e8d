---------------------------- MODULE AuthSessions ----------------------------
(***************************************************************************)
(* Signing in: the pages of one browser share a token in localStorage and   *)
(* a refresh cookie, each page renews the token when a request comes back   *)
(* 401 (api.js), and the server rotates the cookie at every renewal and     *)
(* takes a second use of an old one for a theft (sessions.py).              *)
(*                                                                          *)
(* An access token is stateless: it is good until it expires. A renewed     *)
(* token is taken to outlive the retry it was fetched for.                  *)
(***************************************************************************)
EXTENDS Integers, FiniteSets

CONSTANTS
  Tabs,       \* the open pages
  Calls,      \* requests a page may have under way
  MaxLogins,  \* bound: sessions created
  MaxIssued   \* bound: access tokens issued

VARIABLES
  row,      \* auth_sessions: the current and the previous refresh token
  jar,      \* the refresh cookie: session and version
  token,    \* localStorage: session and number of an access token
  issued,   \* number of the last access token
  expired,  \* the tokens up to this number have expired
  page,     \* the session whose user a page shows, 0 for the login page
  boot,     \* what a page that loads waits for
  call,     \* the requests of each page, with the token they carry
  flight,   \* refreshPromise of each page
  leaving,  \* a logout request under way: the cookie it carries
  excused   \* sessions the user left, or that met a fault named below

aVars == <<row, jar, token, issued, expired, page, boot, call, flight, leaving, excused>>

Sessions == 1..MaxLogins
None == [s |-> 0, n |-> 0]
Marks == [s : 0..MaxLogins, n : 0..MaxIssued]

Rows == [now : 0..MaxIssued, before : 0..MaxIssued, alive : BOOLEAN]
Requests == [st : {"idle", "sent", "held", "again"}, with : Marks]
Flights == [st : {"none", "sent", "renewed", "refused"}, with : Marks]

AuthTypeOK ==
  /\ row \in [Sessions -> Rows]
  /\ jar \in Marks /\ token \in Marks
  /\ issued \in 0..MaxIssued /\ expired \in 0..issued
  /\ page \in [Tabs -> 0..MaxLogins]
  /\ boot \in [Tabs -> {"done", "me", "refresh"}]
  /\ call \in [Tabs -> [Calls -> Requests]]
  /\ flight \in [Tabs -> Flights]
  /\ leaving \in [Tabs -> Marks]
  /\ excused \subseteq Sessions

Idle == [st |-> "idle", with |-> None]
Quiet == [st |-> "none", with |-> None]

Init ==
  /\ row = [s \in Sessions |-> [now |-> 0, before |-> 0, alive |-> FALSE]]
  /\ jar = None /\ token = None
  /\ issued = 0 /\ expired = 0
  /\ page = [t \in Tabs |-> 0]
  /\ boot = [t \in Tabs |-> "done"]
  /\ call = [t \in Tabs |-> [c \in Calls |-> Idle]]
  /\ flight = [t \in Tabs |-> Quiet]
  /\ leaving = [t \in Tabs |-> None]
  /\ excused = {}

Created == {s \in Sessions : row[s].now # 0}
Valid(k) == k.n > expired

-----------------------------------------------------------------------------
(* The server                                                               *)

(* get_active_session: what the table says of a cookie.                     *)
Active(c) == c.s # 0 /\ row[c.s].alive /\ row[c.s].now = c.n
Replayed(c) == c.s # 0 /\ row[c.s].alive /\ row[c.s].before = c.n

Revoked(c) == [row EXCEPT ![c.s].alive = FALSE, ![c.s].before = 0]

(* auth_refresh: a new cookie and a new token, or a 401 that clears the     *)
(* cookie.                                                                  *)
Exchange(t) ==
  LET c == flight[t].with
  IN /\ flight[t].st = "sent"
     /\ IF Active(c)
        THEN /\ issued < MaxIssued
             /\ issued' = issued + 1
             /\ row' = [row EXCEPT ![c.s].before = c.n, ![c.s].now = issued + 1]
             /\ flight' = [flight EXCEPT ![t] = [st |-> "renewed",
                                                 with |-> [s |-> c.s, n |-> issued + 1]]]
        ELSE /\ row' = IF Replayed(c) THEN Revoked(c) ELSE row
             /\ flight' = [flight EXCEPT ![t].st = "refused"]
             /\ UNCHANGED issued
     /\ UNCHANGED <<jar, token, expired, page, boot, call, leaving, excused>>

(* auth_logout: a cookie used before counts as replayed here too.           *)
LogoutServed(t) ==
  /\ leaving[t] # None
  /\ row' = IF Active(leaving[t]) \/ Replayed(leaving[t]) THEN Revoked(leaving[t]) ELSE row
  /\ jar' = None
  /\ leaving' = [leaving EXCEPT ![t] = None]
  /\ UNCHANGED <<token, issued, expired, page, boot, call, flight, excused>>

(* Every token issued so far expires, in a moment when no page has just     *)
(* been given one.                                                          *)
Expire ==
  /\ expired < issued
  /\ \A t \in Tabs : flight[t].st # "renewed" /\ \A c \in Calls : call[t][c].st # "again"
  /\ expired' = issued
  /\ UNCHANGED <<row, jar, token, issued, page, boot, call, flight, leaving, excused>>

-----------------------------------------------------------------------------
(* A page                                                                   *)

(* LoginView and login: a new session. One that is entered while answers    *)
(* of the old one are on their way may lose its cookie or its token to them.*)
Login(t) ==
  /\ page[t] = 0 /\ boot[t] = "done"
  /\ Cardinality(Created) < MaxLogins /\ issued < MaxIssued
  /\ LET s == Cardinality(Created) + 1
         mark == [s |-> s, n |-> issued + 1]
         busy == \E u \in Tabs : flight[u] # Quiet \/ leaving[u] # None
     IN /\ row' = [row EXCEPT ![s] = [now |-> issued + 1, before |-> 0, alive |-> TRUE]]
        /\ jar' = mark /\ token' = mark
        /\ page' = [page EXCEPT ![t] = s]
        /\ excused' = IF busy THEN excused \union {s} ELSE excused
  /\ issued' = issued + 1
  /\ UNCHANGED <<expired, boot, call, flight, leaving>>

Logout(t) ==
  /\ page[t] # 0 /\ boot[t] = "done" /\ leaving[t] = None
  /\ leaving' = [leaving EXCEPT ![t] = jar]
  /\ token' = None
  /\ page' = [page EXCEPT ![t] = 0]
  /\ excused' = excused \union {page[t]}
  /\ UNCHANGED <<row, jar, issued, expired, boot, call, flight>>

(* A request of any view.                                                   *)
Ask(t, c) ==
  /\ page[t] # 0 /\ boot[t] = "done" /\ call[t][c] = Idle
  /\ call' = [call EXCEPT ![t][c] = [st |-> "sent", with |-> token]]
  /\ UNCHANGED <<row, jar, token, issued, expired, page, boot, flight, leaving, excused>>

Succeeds(t, c) ==
  /\ call[t][c].st \in {"sent", "again"} /\ Valid(call[t][c].with)
  /\ call' = [call EXCEPT ![t][c] = Idle]
  /\ UNCHANGED <<row, jar, token, issued, expired, page, boot, flight, leaving, excused>>

(* handleUnauthorized                                                       *)
SignedOut(t) ==
  /\ token' = None
  /\ page' = [page EXCEPT ![t] = 0]

(* Deviation: every request that is refused starts an exchange of its own.  *)
RefreshingAgain(t) ==
  flight' = [flight EXCEPT ![t] = [st |-> "sent", with |-> jar]]

(* refreshAccessToken: one exchange under way per page, shared by all.      *)
Refreshing(t) ==
  flight' = IF flight[t] = Quiet THEN [flight EXCEPT ![t] = [st |-> "sent", with |-> jar]]
            ELSE flight

(* authedFetch: a 401 waits for a renewal, unless nobody is signed in.      *)
Refused(t, c) ==
  /\ call[t][c].st = "sent" /\ ~ Valid(call[t][c].with)
  /\ IF token = None
     THEN /\ SignedOut(t)
          /\ call' = [call EXCEPT ![t][c] = Idle]
          /\ UNCHANGED flight
     ELSE /\ Refreshing(t)
          /\ call' = [call EXCEPT ![t][c] = [st |-> "held", with |-> call[t][c].with]]
          /\ UNCHANGED <<token, page>>
  /\ UNCHANGED <<row, jar, issued, expired, boot, leaving, excused>>

(* The renewal is answered: the requests that waited are sent again.        *)
Refreshed(t) ==
  /\ flight[t].st = "renewed"
  /\ jar' = flight[t].with
  /\ token' = flight[t].with
  /\ call' = [call EXCEPT ![t] = [c \in Calls |->
                IF @[c].st = "held" THEN [st |-> "again", with |-> flight[t].with] ELSE @[c]]]
  /\ flight' = [flight EXCEPT ![t] = Quiet]
  /\ IF boot[t] = "refresh"
     THEN page' = [page EXCEPT ![t] = flight[t].with.s] /\ boot' = [boot EXCEPT ![t] = "done"]
     ELSE UNCHANGED <<page, boot>>
  /\ UNCHANGED <<row, issued, expired, leaving, excused>>

(* No new token: the waiting requests fail, and the page that has some      *)
(* shows the login form. A refusal takes the cookie away.                   *)
NotRefreshed(t) ==
  /\ flight[t].st = "refused"
  /\ jar' = IF flight[t].with = None THEN jar ELSE None
  /\ flight' = [flight EXCEPT ![t] = Quiet]
  /\ call' = [call EXCEPT ![t] = [c \in Calls |-> IF @[c].st = "held" THEN Idle ELSE @[c]]]
  /\ boot' = [boot EXCEPT ![t] = "done"]
  /\ IF boot[t] = "refresh" \/ \E c \in Calls : call[t][c].st = "held"
     THEN SignedOut(t) ELSE UNCHANGED <<token, page>>
  /\ UNCHANGED <<row, issued, expired, leaving, excused>>

(* The page is loaded again. What it had under way is dropped, and with it  *)
(* the cookie of a renewal the server has made.                             *)
Reload(t) ==
  /\ boot[t] = "done"
  /\ boot' = [boot EXCEPT ![t] = "me"]
  /\ call' = [call EXCEPT ![t] = [c \in Calls |-> Idle]]
  /\ flight' = [flight EXCEPT ![t] = Quiet]
  /\ excused' = IF flight[t] = Quiet THEN excused ELSE excused \union Created
  /\ UNCHANGED <<row, jar, token, issued, expired, page, leaving>>

(* resolveSession: the stored token, or else the cookie.                    *)
Resolved(t) ==
  /\ boot[t] = "me"
  /\ IF Valid(token)
     THEN /\ page' = [page EXCEPT ![t] = token.s]
          /\ boot' = [boot EXCEPT ![t] = "done"]
          /\ UNCHANGED <<token, flight>>
     ELSE /\ token' = None
          /\ boot' = [boot EXCEPT ![t] = "refresh"]
          /\ Refreshing(t)
          /\ UNCHANGED page
  /\ UNCHANGED <<row, jar, issued, expired, call, leaving, excused>>

-----------------------------------------------------------------------------

Network(t) == \/ Exchange(t) \/ LogoutServed(t) \/ Refreshed(t) \/ NotRefreshed(t) \/ Resolved(t)
              \/ \E c \in Calls : Succeeds(t, c) \/ Refused(t, c)

Next == \/ Expire
        \/ \E t \in Tabs : \/ Login(t) \/ Logout(t) \/ Reload(t) \/ Network(t)
                           \/ \E c \in Calls : Ask(t, c)

Spec == Init /\ [][Next]_aVars

-----------------------------------------------------------------------------
(* Properties                                                               *)

(* Whatever requests expire together and however their answers mix, a page  *)
(* goes on showing the user who signed in until that user leaves (or until  *)
(* a reload cuts a renewal off, or the session was entered among the        *)
(* answers of an older one).                                                *)
KeepsItsUser == \A t \in Tabs : page[t] # 0 /\ page[t] \notin excused' => page'[t] = page[t]
StaysSignedIn == [][KeepsItsUser]_aVars
(* Why it holds in a browser with one page. The session that page shows is  *)
(* live, and the only one the user has not left; the next renewal goes by   *)
(* its current cookie; nothing that would take it away is under way.        *)
Own(s) == [s |-> s, n |-> row[s].now]
Renewable(t) ==
  LET s == page[t]
  IN /\ row[s].alive /\ leaving[t] = None
     /\ \/ flight[t] = Quiet /\ jar = Own(s)
        \/ flight[t].st = "sent" /\ flight[t].with = Own(s) /\ jar = Own(s)
        \/ flight[t].st = "renewed" /\ flight[t].with = Own(s)
     /\ IF boot[t] = "refresh" THEN flight[t] # Quiet ELSE token.s = s
SignedIn(t) ==
  /\ \A k \in {jar, token, flight[t].with} : k.s # 0 => k.s \in Created
  /\ \A s \in Created : s \in excused \/ page[t] = s
  /\ page[t] # 0 => page[t] \in Created
  /\ page[t] # 0 /\ page[t] \notin excused => Renewable(t)
  /\ boot[t] # "done" => \A c \in Calls : call[t][c] = Idle
=============================================================================
