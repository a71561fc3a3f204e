------------------------------- MODULE Access -------------------------------
(***************************************************************************)
(* Who may act: users and their rights (api/v1/endpoints/users.py), the    *)
(* tokens issued by /auth/login, /auth/refresh and handed on through       *)
(* /auth/cookie (api/v1/endpoints/auth.py), and the two ways they are      *)
(* checked: against the database (api/deps.py) and, for /metrics, by the   *)
(* role the token itself names (main.py).                                  *)
(*                                                                         *)
(* An administrator's request reads its actor, then the user it changes,   *)
(* and commits; other requests run between these steps.  A token names the *)
(* rights its user had when they were read, which may be over when it is   *)
(* issued.  One tick is longer than a request that issues a token.         *)
(***************************************************************************)
EXTENDS Integers

CONSTANTS
    Users, Clients, Requests,
    Changes,     \* what requests ask for
    Null,
    Lifetime     \* jwt_expiry_seconds, in ticks

ASSUME LifetimeAssumption == Lifetime \in Nat \ {0}
ASSUME NullAssumption == Null \notin [admin: BOOLEAN, active: BOOLEAN]
\* The fields a request sets: any of them, at least one.
ASSUME ChangesAssumption ==
    Changes \subseteq (UNION {[F -> BOOLEAN] : F \in SUBSET {"admin", "active"}}) \ {<<>>}

VARIABLES
    user,      \* committed rows of users; Null before the row is created
    token,     \* per client, the token it keeps: in its cookie, or from a body
    issuing,   \* per client, the user row a login or refresh has read
    req,       \* requests of administrators
    inactive,  \* history: per user, ticks since its account was active
    demoted    \* history: per user, ticks since its role was admin

vars == <<user, token, issuing, req, inactive, demoted>>

\* The roles manager and user differ in nothing modelled here.
Row == [admin: BOOLEAN, active: BOOLEAN]
Token == [user: Users, admin: BOOLEAN, left: 1..Lifetime]

Idle == [pc |-> "idle"]
Authorized == [pc: {"authorized"}, by: Users, on: Users, change: Changes]
Loaded == [pc: {"loaded"}, by: Users, on: Users, change: Changes, row: Row]

TypeOK ==
    /\ user \in [Users -> Row \cup {Null}]
    /\ token \in [Clients -> Token \cup {Null}]
    /\ issuing \in [Clients -> [user: Users, row: Row] \cup {Null}]
    /\ req \in [Requests -> {Idle} \cup Authorized \cup Loaded]
    /\ inactive \in [Users -> 0..Lifetime]
    /\ demoted \in [Users -> 0..Lifetime]

Is(u, right) == user[u] # Null /\ user[u][right]
Admins == {u \in Users : Is(u, "admin") /\ Is(u, "active")}

\* The seeded accounts: an administrator and others; nobody is logged in.
Init ==
    /\ \E seeded \in SUBSET Users : \E first \in seeded :
           user = [u \in Users |-> IF u \in seeded
                                   THEN [admin |-> u = first, active |-> TRUE]
                                   ELSE Null]
    /\ token = [c \in Clients |-> Null]
    /\ issuing = [c \in Clients |-> Null]
    /\ req = [r \in Requests |-> Idle]
    /\ inactive = [u \in Users |-> IF user[u] = Null THEN Lifetime ELSE 0]
    /\ demoted = [u \in Users |-> IF Is(u, "admin") THEN 0 ELSE Lifetime]

-----------------------------------------------------------------------------
(* Tokens *)

\* login and refresh refuse inactive accounts.
MayIssue_Any(row) == row # Null
MayIssue(row) == row # Null /\ row.active

\* login: the account of an e-mail address, its password verified.
ReadLogin(c) ==
    /\ issuing[c] = Null
    /\ \E u \in Users :
           /\ MayIssue(user[u])
           /\ issuing' = [issuing EXCEPT ![c] = [user |-> u, row |-> user[u]]]
    /\ UNCHANGED <<user, token, req, inactive, demoted>>

\* The claims of a refreshed token are read from the database again.
Refreshed(t) == user[t.user]

\* refresh_token: a token that has not expired names the account.
ReadRefresh(c) ==
    /\ issuing[c] = Null
    /\ token[c] # Null
    /\ MayIssue(user[token[c].user])
    /\ issuing' = [issuing EXCEPT ![c] = [user |-> token[c].user,
                                          row |-> Refreshed(token[c])]]
    /\ UNCHANGED <<user, token, req, inactive, demoted>>

\* The payload is made of the row that was read.
Issued(i) == [user |-> i.user, admin |-> i.row.admin, left |-> Lifetime]

Issue(c) ==
    /\ issuing[c] # Null
    /\ token' = [token EXCEPT ![c] = Issued(issuing[c])]
    /\ issuing' = [issuing EXCEPT ![c] = Null]
    /\ UNCHANGED <<user, req, inactive, demoted>>

\* set_cookie_from_token: one client hands its token to another.
SetCookie(c, d) ==
    /\ c # d /\ token[c] # Null
    /\ token' = [token EXCEPT ![d] = token[c]]
    /\ UNCHANGED <<user, issuing, req, inactive, demoted>>

\* logout clears the cookie; copies of the token stay valid.
Logout(c) ==
    /\ token[c] # Null
    /\ token' = [token EXCEPT ![c] = Null]
    /\ UNCHANGED <<user, issuing, req, inactive, demoted>>

-----------------------------------------------------------------------------
(* Administration *)

\* get_current_user, from a cookie or a Bearer header.
Authenticated(c) ==
    IF token[c] # Null /\ Is(token[c].user, "active") THEN {token[c].user} ELSE {}

\* require_role("admin") reads the role from the database, not from the token.
Permitted(c) == {u \in Authenticated(c) : user[u].admin}

\* update_user and delete_user refuse the account that makes the request.
NotOwn_Unchecked(by, on) == TRUE
NotOwn(by, on) == by # on

\* A request to create, update or deactivate (active = FALSE) an account.
Authorize(r) ==
    /\ req[r] = Idle
    /\ \E c \in Clients, on \in Users, change \in Changes :
        \E by \in Permitted(c) :
           /\ NotOwn(by, on)
           /\ req' = [req EXCEPT ![r] = [pc |-> "authorized", by |-> by, on |-> on,
                                         change |-> change]]
    /\ UNCHANGED <<user, token, issuing, inactive, demoted>>

\* The row to be changed is read; an account that is not there ends the request.
Load(r) ==
    /\ req[r].pc = "authorized"
    /\ user[req[r].on] # Null
    /\ req' = [req EXCEPT ![r] = [pc |-> "loaded", by |-> req[r].by, on |-> req[r].on,
                                  change |-> req[r].change, row |-> user[req[r].on]]]
    /\ UNCHANGED <<user, token, issuing, inactive, demoted>>

\* The ORM writes the fields that differ from what it has loaded, and no other.
Written(q, row) ==
    [f \in {"admin", "active"} |->
        IF f \in DOMAIN q.change /\ q.change[f] # q.row[f] THEN q.change[f] ELSE row[f]]

\* The histories follow the rows a request commits.
Noted ==
    /\ inactive' = [u \in Users |-> IF Is(u, "active")' THEN 0 ELSE inactive[u]]
    /\ demoted' = [u \in Users |-> IF Is(u, "admin")' THEN 0 ELSE demoted[u]]

Commit(r) ==
    /\ req[r].pc = "loaded"
    /\ user' = [user EXCEPT ![req[r].on] = Written(req[r], @)]
    /\ req' = [req EXCEPT ![r] = Idle]
    /\ Noted
    /\ UNCHANGED <<token, issuing>>

\* create_user: new accounts are active; their role is the one asked for.
Create(r) ==
    /\ req[r].pc = "authorized"
    /\ user[req[r].on] = Null
    /\ "admin" \in DOMAIN req[r].change
    /\ user' = [user EXCEPT ![req[r].on] = [admin |-> req[r].change.admin, active |-> TRUE]]
    /\ req' = [req EXCEPT ![r] = Idle]
    /\ Noted
    /\ UNCHANGED <<token, issuing>>

\* Not found, an address already registered, a failure of the database.
Fail(r) ==
    /\ req[r] # Idle
    /\ req' = [req EXCEPT ![r] = Idle]
    /\ UNCHANGED <<user, token, issuing, inactive, demoted>>

-----------------------------------------------------------------------------
(* Time *)

\* jwt.decode refuses an expired token.
Aged(t) == IF t.left = 1 THEN Null ELSE [t EXCEPT !.left = @ - 1]

Later(n) == IF n = Lifetime THEN n ELSE n + 1

Tick ==
    /\ \A c \in Clients : issuing[c] = Null
    /\ token' = [c \in Clients |-> IF token[c] = Null THEN Null ELSE Aged(token[c])]
    /\ inactive' = [u \in Users |-> IF Is(u, "active") THEN 0 ELSE Later(inactive[u])]
    /\ demoted' = [u \in Users |-> IF Is(u, "admin") THEN 0 ELSE Later(demoted[u])]
    /\ UNCHANGED <<user, issuing, req>>

-----------------------------------------------------------------------------
Next ==
    \/ \E c \in Clients : ReadLogin(c) \/ ReadRefresh(c) \/ Issue(c) \/ Logout(c)
    \/ \E c, d \in Clients : SetCookie(c, d)
    \/ \E r \in Requests : Authorize(r) \/ Load(r) \/ Commit(r) \/ Create(r) \/ Fail(r)
    \/ Tick

Spec == Init /\ [][Next]_vars

-----------------------------------------------------------------------------
(* Properties *)

\* A deactivated account cannot stay in: whatever its clients refresh and hand on,
\* no token of it outlives one lifetime after the deactivation, so that activating
\* it again much later does not revive an old login.
DeactivatedFadesOut ==
    \A c \in Clients : token[c] # Null =>
        inactive[token[c].user] + token[c].left <= Lifetime

\* MetricsAuthMiddleware believes the token.
MetricsOpen(c) == token[c] # Null /\ token[c].admin

\* /metrics, which asks the token and not the database, is closed to an account at
\* most one lifetime after it stopped being an administrator, refreshes included.
StaleAdminFades ==
    \A c \in Clients : MetricsOpen(c) =>
        demoted[token[c].user] + token[c].left <= Lifetime

\* What was taken from an account, its activation or its role, fades out with its tokens.
RightsFade == TypeOK /\ DeactivatedFadesOut /\ StaleAdminFades

\* The account a request changes is never its own, so the last administrator is
\* removed only by a request whose own actor has stopped being one since it was
\* authorised: by two requests that overlap, and never by one alone.
LastAdminGoesOnlyByRace ==
    [][Admins # {} /\ Admins' = {} =>
           \E r \in Requests : req[r].pc = "loaded" /\ req'[r] = Idle
                               /\ req[r].by \notin Admins]_vars
=============================================================================
