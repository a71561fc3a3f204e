------------------------ MODULE AdministrationProofs -------------------------
(***************************************************************************)
(* Proofs about Administration: for any users, clients, requests and       *)
(* importers, and any bounds.  Accounts and their tokens (Access), the     *)
(* imports of a URL (KnowledgeImport), the seed script (SeedScript).       *)
(***************************************************************************)
EXTENDS Administration, Sequences, TLAPS

-----------------------------------------------------------------------------
(* Accounts and tokens *)

\* The histories are zero while the right is there, and while a token is being
\* made of a row in which it was: no tick passes in between.
HistoriesAgree ==
    /\ \A u \in Users : Is(u, "active") => inactive[u] = 0
    /\ \A u \in Users : Is(u, "admin") => demoted[u] = 0
    /\ \A c \in Clients : issuing[c] # Null =>
         /\ inactive[issuing[c].user] = 0
         /\ issuing[c].row.admin => demoted[issuing[c].user] = 0

\* No request changes the account it was authorised with.
OthersOnly == \A r \in Requests : req[r] # Idle => req[r].by # req[r].on

\* Accounts are never removed: what a request has loaded is still there.
LoadedIsThere == \A r \in Requests : req[r].pc = "loaded" => user[req[r].on] # Null

AccessInv ==
    /\ TypeOK /\ HistoriesAgree /\ OthersOnly /\ LoadedIsThere
    /\ DeactivatedFadesOut /\ StaleAdminFades

-----------------------------------------------------------------------------
LEMMA IdleIsIdle ==
    /\ Idle.pc = "idle"
    /\ \A q \in Authorized \cup Loaded : q # Idle /\ q.pc # "idle"
BY DEF Idle, Authorized, Loaded

LEMMA RowIs ==
    ASSUME NEW u \in Users, user[u] \in Row
    PROVE  Is(u, "active") = user[u].active /\ Is(u, "admin") = user[u].admin
<1>1. user[u] # Null
  BY NullAssumption DEF Row
<1>2. user[u]["active"] \in BOOLEAN /\ user[u]["admin"] \in BOOLEAN
  BY DEF Row
<1> QED
  BY <1>1, <1>2 DEF Is

\* What a request writes is a row, and what a token is refreshed from is one.
LEMMA WrittenIsRow ==
    ASSUME NEW q \in Loaded, NEW row \in Row, q.change \in Changes
    PROVE  Written(q, row) \in Row
<1> DEFINE w == Written(q, row)
<1>1. w = [admin |-> w.admin, active |-> w.active]
  BY DEF Written
<1>2. w.admin \in BOOLEAN /\ w.active \in BOOLEAN
  BY ChangesAssumption DEF Written, Row, Loaded
<1> QED
  BY <1>1, <1>2 DEF Row

LEMMA InitAccess == Init => AccessInv
<1> SUFFICES ASSUME Init PROVE AccessInv
  OBVIOUS
<1>1. PICK seeded \in SUBSET Users : \E first \in seeded :
          user = [u \in Users |-> IF u \in seeded
                                  THEN [admin |-> u = first, active |-> TRUE]
                                  ELSE Null]
  BY DEF Init
<1>2. PICK first \in seeded :
          user = [u \in Users |-> IF u \in seeded
                                  THEN [admin |-> u = first, active |-> TRUE]
                                  ELSE Null]
  BY <1>1
<1>3. \A u \in seeded : [admin |-> u = first, active |-> TRUE] \in Row
  BY DEF Row
<1>4. user \in [Users -> Row \cup {Null}]
  BY <1>2, <1>3
<1>5. TypeOK
  BY <1>4, LifetimeAssumption DEF TypeOK, Init
<1>6. HistoriesAgree
  BY <1>4, <1>5, NullAssumption DEF HistoriesAgree, Init, Is
<1>7. OthersOnly /\ LoadedIsThere /\ DeactivatedFadesOut /\ StaleAdminFades
  BY DEF OthersOnly, LoadedIsThere, Idle, DeactivatedFadesOut, StaleAdminFades, MetricsOpen, Init
<1> QED
  BY <1>5, <1>6, <1>7 DEF AccessInv

\* Steps that leave the accounts alone, and how far the histories have come.
LEMMA TokenSteps ==
    ASSUME AccessInv, NEW c \in Clients, NEW d \in Clients,
           ReadLogin(c) \/ ReadRefresh(c) \/ Issue(c) \/ SetCookie(c, d) \/ Logout(c)
    PROVE  AccessInv'
<1> USE LifetimeAssumption, NullAssumption
<1>1. UNCHANGED <<user, req, inactive, demoted>>
  BY DEF ReadLogin, ReadRefresh, Issue, SetCookie, Logout
<1>2. OthersOnly' /\ LoadedIsThere'
  BY <1>1 DEF AccessInv, OthersOnly, LoadedIsThere
<1>3. CASE ReadLogin(c)
  <2>1. PICK u \in Users : /\ MayIssue(user[u])
                           /\ issuing' = [issuing EXCEPT ![c] = [user |-> u, row |-> user[u]]]
    BY <1>3 DEF ReadLogin
  <2>2. user[u] \in Row /\ user[u].active
    BY <2>1 DEF MayIssue, AccessInv, TypeOK
  <2>3. TypeOK'
    BY <1>1, <1>3, <2>1, <2>2 DEF ReadLogin, AccessInv, TypeOK
  <2>4. inactive[u] = 0 /\ (user[u].admin => demoted[u] = 0)
    BY <2>1, <2>2, RowIs DEF AccessInv, HistoriesAgree
  <2>5. issuing'[c] = [user |-> u, row |-> user[u]]
        /\ \A d1 \in Clients \ {c} : issuing'[d1] = issuing[d1]
    BY <2>1 DEF AccessInv, TypeOK
  <2>6. \A e \in Clients : issuing'[e] # Null =>
           /\ inactive'[issuing'[e].user] = 0
           /\ issuing'[e].row.admin => demoted'[issuing'[e].user] = 0
    <3> TAKE e \in Clients
    <3>1. CASE e = c
      BY <1>1, <2>4, <2>5, <3>1
    <3>2. CASE e # c
      BY <1>1, <2>5, <3>2 DEF AccessInv, HistoriesAgree
    <3> QED
      BY <3>1, <3>2
  <2>7. HistoriesAgree'
    BY <1>1, <2>6 DEF AccessInv, HistoriesAgree, Is
  <2> QED
    BY <1>1, <1>2, <1>3, <2>3, <2>7
    DEF ReadLogin, AccessInv, DeactivatedFadesOut, StaleAdminFades, MetricsOpen
<1>4. CASE ReadRefresh(c)
  <2> DEFINE u == token[c].user
  <2>1. u \in Users /\ MayIssue(user[u])
        /\ issuing' = [issuing EXCEPT ![c] = [user |-> u, row |-> user[u]]]
    BY <1>4 DEF ReadRefresh, Refreshed, AccessInv, TypeOK, Token
  <2>2. user[u] \in Row /\ user[u].active
    BY <2>1 DEF MayIssue, AccessInv, TypeOK
  <2>3. TypeOK'
    BY <1>1, <1>4, <2>1, <2>2 DEF ReadRefresh, AccessInv, TypeOK
  <2>4. inactive[u] = 0 /\ (user[u].admin => demoted[u] = 0)
    BY <2>1, <2>2, RowIs DEF AccessInv, HistoriesAgree
  <2>5. issuing'[c] = [user |-> u, row |-> user[u]]
        /\ \A d1 \in Clients \ {c} : issuing'[d1] = issuing[d1]
    BY <2>1 DEF AccessInv, TypeOK
  <2>6. \A e \in Clients : issuing'[e] # Null =>
           /\ inactive'[issuing'[e].user] = 0
           /\ issuing'[e].row.admin => demoted'[issuing'[e].user] = 0
    <3> TAKE e \in Clients
    <3>1. CASE e = c
      BY <1>1, <2>4, <2>5, <3>1
    <3>2. CASE e # c
      BY <1>1, <2>5, <3>2 DEF AccessInv, HistoriesAgree
    <3> QED
      BY <3>1, <3>2
  <2>7. HistoriesAgree'
    BY <1>1, <2>6 DEF AccessInv, HistoriesAgree, Is
  <2> QED
    BY <1>1, <1>2, <1>4, <2>3, <2>7
    DEF ReadRefresh, AccessInv, DeactivatedFadesOut, StaleAdminFades, MetricsOpen
<1>5. CASE Issue(c)
  <2>1. /\ issuing[c] \in [user: Users, row: Row]
        /\ token' = [token EXCEPT ![c] = Issued(issuing[c])]
        /\ issuing' = [issuing EXCEPT ![c] = Null]
    BY <1>5 DEF Issue, AccessInv, TypeOK
  <2>2. Issued(issuing[c]) \in Token
    BY <2>1 DEF Issued, Token, Row
  <2>3. TypeOK'
    BY <1>1, <2>1, <2>2 DEF AccessInv, TypeOK
  <2>4. HistoriesAgree'
    BY <1>1, <2>1 DEF AccessInv, TypeOK, HistoriesAgree, Is
  <2>5. DeactivatedFadesOut' /\ StaleAdminFades'
    BY <1>1, <1>5, <2>1
    DEF Issue, AccessInv, TypeOK, HistoriesAgree, Issued, DeactivatedFadesOut,
        StaleAdminFades, MetricsOpen
  <2> QED
    BY <1>2, <2>3, <2>4, <2>5 DEF AccessInv
<1>6. CASE SetCookie(c, d)
  BY <1>1, <1>2, <1>6
  DEF SetCookie, AccessInv, TypeOK, HistoriesAgree, Is, DeactivatedFadesOut,
      StaleAdminFades, MetricsOpen
<1>7. CASE Logout(c)
  BY <1>1, <1>2, <1>7
  DEF Logout, AccessInv, TypeOK, HistoriesAgree, Is, DeactivatedFadesOut,
      StaleAdminFades, MetricsOpen
<1> QED
  BY <1>3, <1>4, <1>5, <1>6, <1>7

\* Requests on their way change no account and no token.
LEMMA RequestSteps ==
    ASSUME AccessInv, NEW r \in Requests, Authorize(r) \/ Load(r) \/ Fail(r)
    PROVE  AccessInv'
<1>1. UNCHANGED <<user, token, issuing, inactive, demoted>>
  BY DEF Authorize, Load, Fail
<1>2. /\ HistoriesAgree' /\ DeactivatedFadesOut' /\ StaleAdminFades'
  BY <1>1 DEF AccessInv, HistoriesAgree, Is, DeactivatedFadesOut, StaleAdminFades, MetricsOpen
<1>3. req' \in [Requests -> {Idle} \cup Authorized \cup Loaded] /\ OthersOnly'
      /\ LoadedIsThere'
  <2>1. CASE Authorize(r)
    <3>1. PICK c \in Clients, on \in Users, change \in Changes : \E by \in Permitted(c) :
              /\ NotOwn(by, on)
              /\ req' = [req EXCEPT ![r] = [pc |-> "authorized", by |-> by, on |-> on,
                                            change |-> change]]
      BY <2>1 DEF Authorize
    <3>2. PICK by \in Permitted(c) :
              /\ NotOwn(by, on)
              /\ req' = [req EXCEPT ![r] = [pc |-> "authorized", by |-> by, on |-> on,
                                            change |-> change]]
      BY <3>1
    <3>3. by \in Users
      BY DEF Permitted, Authenticated, AccessInv, TypeOK, Token
    <3> DEFINE q == [pc |-> "authorized", by |-> by, on |-> on, change |-> change]
    <3>4. q \in Authorized /\ q # Idle /\ q.by # q.on /\ q.pc # "loaded"
      BY <3>2, <3>3, IdleIsIdle DEF NotOwn, Authorized
    <3>5. req' = [req EXCEPT ![r] = q]
      BY <3>2
    <3> HIDE DEF q
    <3> QED
      BY <1>1, <3>4, <3>5 DEF AccessInv, TypeOK, OthersOnly, LoadedIsThere
  <2>2. CASE Load(r)
    <3>1. req[r] \in Authorized /\ user[req[r].on] \in Row
      BY <2>2, IdleIsIdle DEF Load, AccessInv, TypeOK, Authorized, Loaded
    <3>2. req[r] # Idle /\ req[r].by # req[r].on
      BY <3>1, IdleIsIdle DEF AccessInv, OthersOnly
    <3> QED
      BY <2>2, <3>1, <3>2
      DEF Load, Authorized, Loaded, AccessInv, TypeOK, OthersOnly, LoadedIsThere
  <2>3. CASE Fail(r)
    BY <2>3, IdleIsIdle DEF Fail, AccessInv, TypeOK, OthersOnly, LoadedIsThere
  <2> QED
    BY <2>1, <2>2, <2>3
<1> QED
  BY <1>1, <1>2, <1>3 DEF AccessInv, TypeOK

\* Histories that follow a change of the accounts never grow.
LEMMA NotedSteps ==
    ASSUME AccessInv, user' \in [Users -> Row \cup {Null}], Noted, UNCHANGED <<token, issuing>>
    PROVE  /\ inactive' \in [Users -> 0..Lifetime] /\ demoted' \in [Users -> 0..Lifetime]
           /\ HistoriesAgree' /\ DeactivatedFadesOut' /\ StaleAdminFades'
<1> USE LifetimeAssumption
<1>1. \A u \in Users :
        /\ inactive'[u] \in {0, inactive[u]} /\ demoted'[u] \in {0, demoted[u]}
        /\ Is(u, "active")' => inactive'[u] = 0
        /\ Is(u, "admin")' => demoted'[u] = 0
  BY DEF Noted
<1>2. inactive' \in [Users -> 0..Lifetime] /\ demoted' \in [Users -> 0..Lifetime]
  BY <1>1 DEF Noted, AccessInv, TypeOK
<1>3. HistoriesAgree'
  BY <1>1 DEF AccessInv, TypeOK, HistoriesAgree
<1>4. DeactivatedFadesOut' /\ StaleAdminFades'
  BY <1>1 DEF AccessInv, TypeOK, DeactivatedFadesOut, StaleAdminFades, MetricsOpen, Token
<1> QED
  BY <1>2, <1>3, <1>4

\* The one account a request that commits writes, and that it is another's.
LEMMA CommitSteps ==
    ASSUME AccessInv, NEW r \in Requests, Commit(r) \/ Create(r)
    PROVE  /\ AccessInv'
           /\ req[r].on \in Users /\ req[r].by # req[r].on
           /\ req'[r] = Idle
           /\ \A u \in Users : u # req[r].on => user'[u] = user[u]
           /\ Create(r) => user[req[r].on] = Null
           /\ Commit(r) => req[r].pc = "loaded"
<1>1. req[r] \in Authorized \cup Loaded
  BY IdleIsIdle DEF Commit, Create, AccessInv, TypeOK
<1>2. req[r].on \in Users /\ req[r].by # req[r].on /\ req[r].change \in Changes
  BY <1>1, IdleIsIdle DEF Authorized, Loaded, AccessInv, OthersOnly
<1>3. req' = [req EXCEPT ![r] = Idle] /\ Noted /\ UNCHANGED <<token, issuing>>
  BY DEF Commit, Create
<1>4. PICK row \in Row : user' = [user EXCEPT ![req[r].on] = row]
  <2>1. CASE Commit(r)
    <3>1. req[r] \in Loaded
      BY <1>1, <2>1 DEF Commit, Authorized
    <3>2. user[req[r].on] \in Row
      BY <1>2, <2>1 DEF Commit, AccessInv, TypeOK, LoadedIsThere
    <3> QED
      BY <1>2, <2>1, <3>1, <3>2, WrittenIsRow DEF Commit
  <2>2. CASE Create(r)
    <3>1. req[r].change["admin"] \in BOOLEAN
      BY <1>2, <2>2, ChangesAssumption DEF Create
    <3>2. [admin |-> req[r].change.admin, active |-> TRUE] \in Row
      BY <3>1 DEF Row
    <3> QED
      BY <2>2, <3>2 DEF Create
  <2> QED
    BY <2>1, <2>2
<1>5. user' \in [Users -> Row \cup {Null}] /\ user'[req[r].on] # Null
      /\ \A u \in Users : u # req[r].on => user'[u] = user[u]
  BY <1>2, <1>4, NullAssumption DEF AccessInv, TypeOK, Row
<1>6. req' \in [Requests -> {Idle} \cup Authorized \cup Loaded] /\ OthersOnly' /\ LoadedIsThere'
  <2>1. req'[r] = Idle /\ \A q \in Requests : q # r => req'[q] = req[q]
    BY <1>3 DEF AccessInv, TypeOK
  <2>2. \A q \in Requests : req[q].pc = "loaded" => req[q].on \in Users
    BY DEF AccessInv, TypeOK, Idle, Authorized, Loaded
  <2>3. OthersOnly' /\ LoadedIsThere'
    BY <1>5, <2>1, <2>2, IdleIsIdle DEF AccessInv, OthersOnly, LoadedIsThere
  <2> QED
    BY <1>3, <2>3 DEF AccessInv, TypeOK
<1>7. AccessInv'
  BY <1>3, <1>5, <1>6, NotedSteps DEF AccessInv, TypeOK
<1> QED
  BY <1>2, <1>3, <1>5, <1>7 DEF Commit, Create, AccessInv, TypeOK

\* Time passes between the reading of a row and the next only when no token is made.
LEMMA TickSteps ==
    ASSUME AccessInv, Tick
    PROVE  AccessInv'
<1> USE LifetimeAssumption, NullAssumption
<1>1. UNCHANGED <<user, issuing, req>> /\ \A c \in Clients : issuing[c] = Null
  BY DEF Tick
<1>2. OthersOnly' /\ LoadedIsThere'
  BY <1>1 DEF AccessInv, OthersOnly, LoadedIsThere
<1>3. \A t \in Token :
        /\ Aged(t) \in Token \cup {Null}
        /\ Aged(t) # Null => /\ Aged(t).user = t.user /\ Aged(t).admin = t.admin
                             /\ Aged(t).left = t.left - 1
  BY DEF Aged, Token
<1>4. \A n \in 0..Lifetime : Later(n) \in 0..Lifetime /\ Later(n) <= n + 1
  BY DEF Later
<1>5. \A u \in Users :
        /\ inactive'[u] \in 0..Lifetime /\ inactive'[u] <= inactive[u] + 1
        /\ Is(u, "active") => inactive'[u] = 0
        /\ demoted'[u] \in 0..Lifetime /\ demoted'[u] <= demoted[u] + 1
        /\ Is(u, "admin") => demoted'[u] = 0
  BY <1>4 DEF Tick, AccessInv, TypeOK
<1>6. \A c \in Clients :
        /\ token'[c] \in Token \cup {Null}
        /\ token'[c] # Null => /\ token[c] \in Token
                               /\ token'[c].user = token[c].user
                               /\ token'[c].admin = token[c].admin
                               /\ token'[c].left = token[c].left - 1
  BY <1>3 DEF Tick, AccessInv, TypeOK
<1>7. TypeOK'
  BY <1>1, <1>5, <1>6 DEF Tick, AccessInv, TypeOK
<1>8. HistoriesAgree'
  BY <1>1, <1>5 DEF AccessInv, HistoriesAgree, Is
<1>9. DeactivatedFadesOut'
  <2> SUFFICES ASSUME NEW c \in Clients, token'[c] # Null
               PROVE  inactive'[token'[c].user] + token'[c].left <= Lifetime
    BY DEF DeactivatedFadesOut
  <2>1. /\ token[c] # Null /\ token[c].user \in Users /\ token[c].left \in 1..Lifetime
        /\ inactive[token[c].user] + token[c].left <= Lifetime
        /\ inactive[token[c].user] \in 0..Lifetime
    BY <1>6 DEF AccessInv, TypeOK, DeactivatedFadesOut, Token, Tick
  <2> QED
    BY <1>5, <1>6, <2>1
<1>10. StaleAdminFades'
  <2> SUFFICES ASSUME NEW c \in Clients, token'[c] # Null, token'[c].admin
               PROVE  demoted'[token'[c].user] + token'[c].left <= Lifetime
    BY DEF StaleAdminFades, MetricsOpen
  <2>1. /\ token[c] # Null /\ token[c].user \in Users /\ token[c].left \in 1..Lifetime
        /\ demoted[token[c].user] + token[c].left <= Lifetime
        /\ demoted[token[c].user] \in 0..Lifetime
    BY <1>6 DEF AccessInv, TypeOK, StaleAdminFades, MetricsOpen, Token, Tick
  <2> QED
    BY <1>5, <1>6, <2>1
<1> QED
  BY <1>2, <1>7, <1>8, <1>9, <1>10 DEF AccessInv

\* Every step.
LEMMA NextAccess == AccessInv /\ [Next]_vars => AccessInv'
<1> SUFFICES ASSUME AccessInv, [Next]_vars PROVE AccessInv'
  OBVIOUS
<1>1. CASE UNCHANGED vars
  BY <1>1 DEF vars, AccessInv, TypeOK, HistoriesAgree, Is, OthersOnly, LoadedIsThere,
              DeactivatedFadesOut, StaleAdminFades, MetricsOpen
<1>2. CASE \E c \in Clients : ReadLogin(c) \/ ReadRefresh(c) \/ Issue(c) \/ Logout(c)
  BY <1>2, TokenSteps
<1>3. CASE \E c, d \in Clients : SetCookie(c, d)
  BY <1>3, TokenSteps
<1>4. CASE \E r \in Requests : Authorize(r) \/ Load(r) \/ Commit(r) \/ Create(r) \/ Fail(r)
  BY <1>4, RequestSteps, CommitSteps
<1>5. CASE Tick
  BY <1>5, TickSteps
<1> QED
  BY <1>1, <1>2, <1>3, <1>4, <1>5 DEF Next

LEMMA AccessInvariant == Spec => []AccessInv
BY InitAccess, NextAccess, PTL DEF Spec

-----------------------------------------------------------------------------
\* Rows, tokens and requests keep their types.
THEOREM AccessTypeCorrect == Spec => []TypeOK
<1>1. AccessInv => TypeOK
  BY DEF AccessInv
<1> QED
  BY <1>1, AccessInvariant, PTL

\* However many clients refresh and hand on its tokens, none of a deactivated account
\* is valid one lifetime after the deactivation (deps.py, auth.py).
THEOREM DeactivationIsFinal == Spec => []DeactivatedFadesOut
<1>1. AccessInv => DeactivatedFadesOut
  BY DEF AccessInv
<1> QED
  BY <1>1, AccessInvariant, PTL

\* /metrics, which believes the role in the token (main.py), is closed to an account one
\* lifetime after it stopped being an administrator.
THEOREM StaleRoleEnds == Spec => []StaleAdminFades
<1>1. AccessInv => StaleAdminFades
  BY DEF AccessInv
<1> QED
  BY <1>1, AccessInvariant, PTL

\* What was taken from an account fades out with the tokens that name it.
THEOREM RightsDoFade == Spec => []RightsFade
<1>1. AccessInv => RightsFade
  BY DEF AccessInv, RightsFade
<1> QED
  BY <1>1, AccessInvariant, PTL

\* The last administrator is removed only by a request whose actor is no longer one
\* (users.py refuses a request on its own account).
THEOREM LastAdminNeedsARace == Spec => LastAdminGoesOnlyByRace
<1> DEFINE Race == \E r \in Requests : req[r].pc = "loaded" /\ req'[r] = Idle
                                       /\ req[r].by \notin Admins
<1>1. ASSUME AccessInv, [Next]_vars, Admins # {}, Admins' = {}
      PROVE  Race
  <2>1. PICK r \in Requests : Commit(r) \/ Create(r)
    <3>1. user' # user
      BY <1>1 DEF Admins, Is
    <3> QED
      BY <1>1, <3>1
      DEF Next, vars, ReadLogin, ReadRefresh, Issue, Logout, SetCookie, Authorize, Load,
          Fail, Tick
  <2>2. /\ req[r].on \in Users /\ req[r].by # req[r].on /\ req'[r] = Idle
        /\ \A u \in Users : u # req[r].on => user'[u] = user[u]
        /\ Create(r) => user[req[r].on] = Null
        /\ Commit(r) => req[r].pc = "loaded"
    BY <1>1, <2>1, CommitSteps
  <2>3. \A u \in Admins : u = req[r].on
    BY <1>1, <2>2 DEF Admins, Is
  <2>4. Commit(r)
    BY <1>1, <2>1, <2>2, <2>3 DEF Admins, Is
  <2> QED
    BY <2>2, <2>3, <2>4
<1>2. AccessInv /\ [Next]_vars => [Admins # {} /\ Admins' = {} => Race]_vars
  BY <1>1
<1> QED
  BY <1>2, AccessInvariant, PTL DEF Spec, LastAdminGoesOnlyByRace

-----------------------------------------------------------------------------
(* The imports of a URL *)

\* A document has its number once it is inserted, and the chunks written so far.
Counted ==
    \A i \in Importers :
        /\ job[i].embedded <= job[i].chunks
        /\ job[i].chunks <= job[i].total
        /\ job[i].pc = "chunk" => job[i].chunks < job[i].total
        /\ job[i].pc \in {"chunk", "commit"} => job[i].id # 0
        /\ job[i].pc \in {"idle", "delete", "insert"} => job[i].chunks = 0

\* What a request has not found was committed by others since.
KnownOrLater ==
    \A i \in Importers : job[i].pc # "idle" => Import!Ids \subseteq job[i].found \cup later[i]

ImportInv == Import!TypeOK /\ Counted /\ KnownOrLater

-----------------------------------------------------------------------------
\* What the steps make of a job is one.
LEMMA JobStarts ==
    ASSUME NEW j \in Import!Job, NEW found \in SUBSET (1..MaxDocs), NEW total \in 0..MaxChunks
    PROVE  [j EXCEPT !.pc = "delete", !.found = found, !.total = total] \in Import!Job
BY DEF Import!Job

LEMMA JobInserts ==
    ASSUME NEW j \in Import!Job, NEW id \in 0..MaxDocs, NEW next \in {"commit", "chunk"}
    PROVE  [j EXCEPT !.id = id, !.pc = next] \in Import!Job
BY DEF Import!Job

LEMMA JobCounts ==
    ASSUME NEW j \in Import!Job, NEW next \in {"commit", "chunk"},
           NEW c \in 0..MaxChunks, NEW e \in 0..MaxChunks
    PROVE  [j EXCEPT !.chunks = c, !.embedded = e, !.pc = next] \in Import!Job
BY DEF Import!Job

LEMMA IdleIs ==
    ASSUME MaxDocs \in Nat, MaxChunks \in Nat
    PROVE  /\ Import!Idle \in Import!Job /\ Import!Idle.pc = "idle" /\ Import!Idle.id = 0
           /\ Import!Idle.total = 0 /\ Import!Idle.chunks = 0 /\ Import!Idle.embedded = 0
BY DEF Import!Idle, Import!Job

LEMMA InitImport == ASSUME MaxDocs \in Nat, MaxChunks \in Nat, Import!Init PROVE ImportInv
BY DEF Import!Init, ImportInv, Import!TypeOK, Counted, KnownOrLater, Import!Idle, Import!Job

\* One request moves on, and commits nothing.
LEMMA OneJob ==
    ASSUME ImportInv, NEW i \in Importers, NEW j \in Import!Job, job' = [job EXCEPT ![i] = j],
           later' = later, docs' = docs, inserted' \in 0..MaxDocs,
           MaxDocs \in Nat, MaxChunks \in Nat,
           j.embedded <= j.chunks, j.chunks <= j.total,
           j.pc = "chunk" => j.chunks < j.total,
           j.pc \in {"chunk", "commit"} => j.id # 0,
           j.pc \in {"idle", "delete", "insert"} => j.chunks = 0,
           j.pc # "idle" => Import!Ids \subseteq j.found \cup later[i]
    PROVE  ImportInv'
<1>1. job'[i] = j /\ \A k \in Importers \ {i} : job'[k] = job[k]
  BY DEF ImportInv, Import!TypeOK
<1>2. Import!TypeOK'
  BY DEF ImportInv, Import!TypeOK
<1>3. Counted'
  BY <1>1 DEF ImportInv, Counted
<1>4. KnownOrLater'
  BY <1>1 DEF ImportInv, KnownOrLater, Import!Ids
<1> QED
  BY <1>2, <1>3, <1>4 DEF ImportInv

LEMMA NextImport ==
    ASSUME MaxDocs \in Nat, MaxChunks \in Nat, ImportInv, [Import!Next]_(Import!vars)
    PROVE  ImportInv'
<1>1. \A i \in Importers : job[i] \in Import!Job
  BY DEF ImportInv, Import!TypeOK
<1>2. Import!Ids \subseteq 1..MaxDocs
  BY DEF ImportInv, Import!TypeOK, Import!Ids, Import!Doc
<1>3. ASSUME NEW i \in Importers, NEW total \in 0..MaxChunks, Import!Select(i, total)
      PROVE  ImportInv'
  <2> DEFINE j == [Import!Idle EXCEPT !.pc = "delete", !.found = Import!Existing, !.total = total]
  <2>1. /\ j \in Import!Job /\ j.pc = "delete" /\ j.found = Import!Ids
        /\ j.total = total /\ j.chunks = 0 /\ j.embedded = 0
    <3>1. j \in Import!Job
      BY <1>2, IdleIs, JobStarts DEF Import!Existing
    <3>2. DOMAIN Import!Idle = {"pc", "found", "id", "total", "chunks", "embedded"}
      BY DEF Import!Idle
    <3> QED
      BY <3>1, <3>2, IdleIs DEF Import!Existing
  <2> DEFINE none == [later EXCEPT ![i] = {}]
  <2>3. /\ job'[i] = j /\ \A k \in Importers \ {i} : job'[k] = job[k] /\ later'[k] = later[k]
        /\ job' = [job EXCEPT ![i] = j] /\ later' = none /\ UNCHANGED <<docs, inserted>>
    BY <1>3 DEF Import!Select, ImportInv, Import!TypeOK
  <2> HIDE DEF j
  <2>4. Import!TypeOK'
    BY <2>1, <2>3 DEF ImportInv, Import!TypeOK
  <2>5. Counted' /\ KnownOrLater'
    BY <2>1, <2>3 DEF ImportInv, Counted, KnownOrLater, Import!Ids
  <2> QED
    BY <2>4, <2>5 DEF ImportInv
<1>4. ASSUME NEW i \in Importers, Import!Delete(i)
      PROVE  ImportInv'
  <2> DEFINE j == [job[i] EXCEPT !.pc = "insert"]
  <2>1. /\ j \in Import!Job /\ j.embedded = job[i].embedded /\ j.chunks = job[i].chunks
        /\ j.total = job[i].total /\ j.found = job[i].found /\ j.pc = "insert"
    BY <1>1 DEF Import!Job
  <2>2. job' = [job EXCEPT ![i] = j] /\ UNCHANGED <<docs, inserted, later>> /\ job[i].pc = "delete"
    BY <1>4 DEF Import!Delete
  <2> HIDE DEF j
  <2> QED
    BY <2>1, <2>2, OneJob DEF ImportInv, Import!TypeOK, Counted, KnownOrLater
<1>5. ASSUME NEW i \in Importers, Import!Insert(i)
      PROVE  ImportInv'
  <2> DEFINE j == [job[i] EXCEPT !.id = inserted + 1,
                                 !.pc = IF job[i].total = 0 THEN "commit" ELSE "chunk"]
  <2>1. job' = [job EXCEPT ![i] = j] /\ inserted' = inserted + 1 /\ inserted < MaxDocs
        /\ job[i].pc = "insert" /\ UNCHANGED <<docs, later>>
    BY <1>5 DEF Import!Insert
  <2>2. inserted + 1 \in 1..MaxDocs
    BY <2>1 DEF ImportInv, Import!TypeOK
  <2>3. /\ j \in Import!Job /\ j.embedded = job[i].embedded /\ j.chunks = job[i].chunks
        /\ j.total = job[i].total /\ j.found = job[i].found /\ j.id = inserted + 1
        /\ j.pc = IF job[i].total = 0 THEN "commit" ELSE "chunk"
    <3> DEFINE next == IF job[i].total = 0 THEN "commit" ELSE "chunk"
               n == inserted + 1
    <3>1. job[i] \in Import!Job /\ n \in 0..MaxDocs /\ next \in {"commit", "chunk"}
      BY <1>1, <2>2
    <3> HIDE DEF next, n
    <3>2. [job[i] EXCEPT !.id = n, !.pc = next] \in Import!Job
      BY <3>1, JobInserts
    <3>3. j \in Import!Job
      BY <3>2 DEF next, n
    <3> QED
      BY <3>1, <3>3 DEF Import!Job
  <2> HIDE DEF j
  <2>4. /\ job[i].total \in Nat /\ job[i].chunks = 0 /\ job[i].embedded <= 0
        /\ Import!Ids \subseteq job[i].found \cup later[i]
    BY <1>1, <2>1 DEF ImportInv, Counted, KnownOrLater, Import!Job
  <2>5. /\ j.pc = "chunk" => j.chunks < j.total
        /\ j.embedded <= j.chunks /\ j.chunks <= j.total
        /\ j.pc \in {"chunk", "commit"} /\ j.id # 0
    BY <2>2, <2>3, <2>4 DEF Import!Job
  <2>6. inserted' \in 0..MaxDocs
    BY <2>1, <2>2
  <2> QED
    BY <2>1, <2>3, <2>4, <2>5, <2>6, OneJob
<1>6. ASSUME NEW i \in Importers, Import!Chunk(i)
      PROVE  ImportInv'
  <2>1. PICK ok \in {0, 1} :
           job' = [job EXCEPT ![i].chunks = @ + 1, ![i].embedded = @ + ok,
                              ![i].pc = IF Import!LastChunk(i) THEN "commit" ELSE "chunk"]
    BY <1>6 DEF Import!Chunk
  <2> DEFINE j == [job[i] EXCEPT !.chunks = @ + 1, !.embedded = @ + ok,
                                 !.pc = IF Import!LastChunk(i) THEN "commit" ELSE "chunk"]
  <2>2. job' = [job EXCEPT ![i] = j] /\ job[i].pc = "chunk" /\ UNCHANGED <<docs, inserted, later>>
    BY <1>6, <2>1 DEF Import!Chunk, ImportInv, Import!TypeOK
  <2>3. /\ job[i].chunks \in Nat /\ job[i].embedded \in Nat /\ job[i].total \in 0..MaxChunks
        /\ job[i].chunks < job[i].total /\ job[i].embedded <= job[i].chunks
        /\ job[i].id # 0 /\ Import!Ids \subseteq job[i].found \cup later[i]
    BY <1>1, <2>2 DEF ImportInv, Counted, KnownOrLater, Import!Job
  <2>4. /\ j \in Import!Job /\ j.embedded = job[i].embedded + ok /\ j.chunks = job[i].chunks + 1
        /\ j.total = job[i].total /\ j.found = job[i].found /\ j.id = job[i].id
        /\ j.pc = IF Import!LastChunk(i) THEN "commit" ELSE "chunk"
    <3> DEFINE next == IF Import!LastChunk(i) THEN "commit" ELSE "chunk"
               c == job[i].chunks + 1
               e == job[i].embedded + ok
    <3>1. job[i] \in Import!Job /\ c \in 0..MaxChunks /\ e \in 0..MaxChunks /\ next \in {"commit", "chunk"}
      BY <1>1, <2>3
    <3> HIDE DEF next, c, e
    <3>2. [job[i] EXCEPT !.chunks = c, !.embedded = e, !.pc = next] \in Import!Job
      BY <3>1, JobCounts
    <3>3. j \in Import!Job
      BY <3>2 DEF next, c, e
    <3> QED
      BY <3>1, <3>3 DEF Import!Job
  <2> HIDE DEF j
  <2>5. j.pc = "chunk" => j.chunks < j.total
    BY <2>3, <2>4 DEF Import!LastChunk
  <2>6. j.embedded <= j.chunks /\ j.chunks <= j.total /\ j.pc \in {"chunk", "commit"}
    BY <2>3, <2>4
  <2>7. inserted' \in 0..MaxDocs /\ UNCHANGED <<docs, later>>
    BY <2>2 DEF ImportInv, Import!TypeOK
  <2> QED
    BY <2>2, <2>3, <2>4, <2>5, <2>6, <2>7, OneJob
<1>7. ASSUME NEW i \in Importers, Import!Commit(i)
      PROVE  ImportInv'
  <2>1. /\ job[i].pc = "commit" /\ docs' = Import!Replaced(i) /\ inserted' = inserted
        /\ job' = [job EXCEPT ![i] = Import!Idle]
        /\ later' = [j \in Importers |-> IF j = i \/ job[j].pc = "idle" THEN {}
                                         ELSE later[j] \cup {job[i].id}]
    BY <1>7 DEF Import!Commit
  <2>2. job[i].id \in 1..MaxDocs /\ job[i].chunks \in 0..MaxChunks /\ job[i].embedded \in 0..MaxChunks
    BY <1>1, <2>1 DEF ImportInv, Counted, Import!Job
  <2>3. docs' \subseteq Import!Doc /\ Import!Ids' \subseteq Import!Ids \cup {job[i].id}
    BY <2>1, <2>2 DEF Import!Replaced, Import!Without, Import!Ids, Import!Doc, ImportInv, Import!TypeOK
  <2>4. Import!Idle \in Import!Job /\ Import!Idle.pc = "idle" /\ Import!Idle.chunks = 0 /\ Import!Idle.embedded = 0 /\ Import!Idle.total = 0
    BY DEF Import!Idle, Import!Job
  <2>5. job'[i] = Import!Idle /\ \A k \in Importers \ {i} : job'[k] = job[k]
    BY <2>1 DEF ImportInv, Import!TypeOK
  <2>6. Import!TypeOK'
    BY <2>1, <2>2, <2>3, <2>4 DEF ImportInv, Import!TypeOK
  <2>7. Counted'
    BY <2>4, <2>5 DEF ImportInv, Counted
  <2>8. KnownOrLater'
    BY <2>1, <2>3, <2>4, <2>5 DEF ImportInv, KnownOrLater
  <2> QED
    BY <2>6, <2>7, <2>8 DEF ImportInv
<1>8. ASSUME NEW i \in Importers, Import!Abort(i)
      PROVE  ImportInv'
  <2>1. Import!Idle \in Import!Job /\ Import!Idle.pc = "idle" /\ Import!Idle.chunks = 0 /\ Import!Idle.embedded = 0 /\ Import!Idle.total = 0
    BY DEF Import!Idle, Import!Job
  <2>2. /\ job'[i] = Import!Idle /\ \A k \in Importers \ {i} : job'[k] = job[k] /\ later'[k] = later[k]
        /\ job' = [job EXCEPT ![i] = Import!Idle] /\ later' = [later EXCEPT ![i] = {}]
        /\ UNCHANGED <<docs, inserted>>
    BY <1>8 DEF Import!Abort, ImportInv, Import!TypeOK
  <2>3. Import!TypeOK'
    BY <2>1, <2>2 DEF ImportInv, Import!TypeOK
  <2>4. Counted' /\ KnownOrLater'
    BY <2>1, <2>2 DEF ImportInv, Counted, KnownOrLater, Import!Ids
  <2> QED
    BY <2>3, <2>4 DEF ImportInv
<1>9. ASSUME NEW id \in 1..MaxDocs, Import!DeleteDocument(id)
      PROVE  ImportInv'
  <2>1. docs' \subseteq docs /\ Import!Ids' \subseteq Import!Ids /\ UNCHANGED <<inserted, job, later>>
    BY <1>9 DEF Import!DeleteDocument, Import!Without, Import!Ids
  <2> QED
    BY <2>1 DEF ImportInv, Import!TypeOK, Counted, KnownOrLater
<1>10. CASE UNCHANGED Import!vars
  BY <1>10 DEF Import!vars, ImportInv, Import!TypeOK, Counted, KnownOrLater, Import!Ids
<1> QED
  BY <1>3, <1>4, <1>5, <1>6, <1>7, <1>8, <1>9, <1>10 DEF Import!Next

LEMMA ImportInvariant == ASSUME MaxDocs \in Nat, MaxChunks \in Nat PROVE Import!Spec => []ImportInv
BY InitImport, NextImport, PTL DEF Import!Spec

-----------------------------------------------------------------------------
\* What is true of the imports alone is true of them beside the others.
LEMMA SuiteImports == SuiteSpec => Import!Spec
<1>1. SuiteInit => Import!Init
  BY DEF SuiteInit
<1>2. [SuiteNext]_<<which, vars, scriptVars, importVars>> => [Import!Next]_(Import!vars)
  BY DEF SuiteNext, importVars, Import!vars
<1> QED
  BY <1>1, <1>2, PTL DEF SuiteSpec, Import!Spec

\* Documents, requests and histories keep their types.
THEOREM ImportTypeCorrect == SuiteSpec => []Import!TypeOK
<1>1. ImportInv => Import!TypeOK
  BY DEF ImportInv
<1> QED
  BY <1>1, SuiteImports, ImportInvariant, BoundsAssumption, PTL

\* An import that commits (knowledge_service.py import_document) leaves none of the
\* documents of its URL that it could see.
THEOREM ImportsReplace == SuiteSpec => ImportReplaces
<1> DEFINE Leaves(i) ==
             job[i].pc = "commit" /\ job'[i].pc = "idle" /\ docs' # docs =>
               {d.id : d \in docs'} \subseteq {job[i].id} \cup later[i]
<1>1. ASSUME ImportInv, [Import!Next]_(Import!vars), NEW i \in Importers,
             job[i].pc = "commit", job'[i].pc = "idle", docs' # docs
      PROVE  {d.id : d \in docs'} \subseteq {job[i].id} \cup later[i]
  <2>1. Import!Commit(i)
    <3>1. \A j \in Importers \ {i} : ~Import!Commit(j)
      BY <1>1 DEF Import!Commit, ImportInv, Import!TypeOK
    <3>2. \A id \in 1..MaxDocs : ~Import!DeleteDocument(id)
      BY <1>1 DEF Import!DeleteDocument
    <3> QED
      BY <1>1, <3>1, <3>2 DEF Import!Next, Import!vars, Import!Select, Import!Delete, Import!Insert, Import!Chunk, Import!Abort
  <2>2. Import!Ids \subseteq job[i].found \cup later[i]
    BY <1>1 DEF ImportInv, KnownOrLater
  <2> QED
    BY <2>1, <2>2 DEF Import!Commit, Import!Replaced, Import!Without, Import!Ids
<1>2. ImportInv /\ [Import!Next]_(Import!vars) => [\A i \in Importers : Leaves(i)]_(Import!vars)
  BY <1>1
<1> QED
  BY <1>2, SuiteImports, ImportInvariant, BoundsAssumption, PTL
     DEF Import!Spec, ImportReplaces, Import!ImportReplaces

-----------------------------------------------------------------------------
(* The seed script *)

\* Where the script stands: before its rows, at its keyed lists, or behind them.
Behind == {"columns", "dictionary", "tables", "relationships", "commit"}
KeyNames == {"glossary", "metrics", "samples", "knowledge"}

\* The four lists of d are at edition e.
AtEdition(d, e) == \A k \in KeyNames : d.keyed[k] = e
OneEdition(d) == \A j, k \in KeyNames : d.keyed[j] = d.keyed[k] /\ d.keyed[j] # Script!Lacking

\* While no row was missed, a list that is done is at the edition the script runs with.
DoneSoFar(i) == ~tx.partial => \A j \in 1..(i - 1) : tx.keyed[Script!Keyed[j]] = lists

\* What may be committed: a transaction that has refused a statement never is.
ListsMove ==
    /\ ~broken => \A i \in 1..4 : pc = Script!Keyed[i] => DoneSoFar(i)
    /\ ~broken /\ pc \in Behind =>
         (~tx.partial => OneEdition(tx)) /\ (~rejected => AtEdition(tx, lists))

\* A failed row is reported, and the run ends before it inserts what has no key.
FailuresShow ==
    /\ pc # "idle" /\ tx.partial => rejected
    /\ broken => rejected /\ pc \in KeyNames \cup {"columns"}
    /\ pc \in KeyNames \cup Behind /\ ~rejected => tx.ready
    /\ outcome = "done" => pc = "idle"

\* A run adds one copy of a relationship.
CopiesCount ==
    /\ \A r \in Rows : db.relationships[r] <= lists /\ tx.relationships[r] <= lists
    /\ pc # "idle" => \A r \in Rows : db.relationships[r] < lists
    /\ pc \notin {"idle", "relationships", "commit"} =>
         \A r \in Rows : tx.relationships[r] < lists
    /\ pc = "relationships" => \A r \in todo : tx.relationships[r] < lists

ScriptInv ==
    /\ Script!TypeOK /\ Script!KeyedTogether /\ Script!CleanRunIsComplete
    /\ tx.catalogue = db.catalogue
    /\ ListsMove /\ FailuresShow /\ CopiesCount

LEMMA KeyedIs ==
    /\ Script!Keyed[1] = "glossary" /\ Script!Keyed[2] = "metrics"
    /\ Script!Keyed[3] = "samples" /\ Script!Keyed[4] = "knowledge"
    /\ Len(Script!Keyed) = 4 /\ Script!Range(Script!Keyed) = KeyNames
BY DEF Script!Keyed, Script!Range, KeyNames

\* The step after each list.
LEMMA NextListIs ==
    /\ Append(Script!Keyed, "columns")[2] = "metrics"
    /\ Append(Script!Keyed, "columns")[3] = "samples"
    /\ Append(Script!Keyed, "columns")[4] = "knowledge"
    /\ Append(Script!Keyed, "columns")[5] = "columns"
BY DEF Script!Keyed

\* What the steps make of a database is one.
LEMMA DatabaseUpserts ==
    ASSUME NEW d \in Script!Database, NEW k \in KeyNames, NEW e \in 0..Script!Lacking
    PROVE  /\ [d EXCEPT !.keyed[k] = e] \in Script!Database
           /\ [d EXCEPT !.keyed[k] = e].keyed = [d.keyed EXCEPT ![k] = e]
           /\ [d EXCEPT !.keyed[k] = e].partial = d.partial
           /\ [d EXCEPT !.keyed[k] = e].ready = d.ready
           /\ [d EXCEPT !.keyed[k] = e].catalogue = d.catalogue
           /\ [d EXCEPT !.keyed[k] = e].relationships = d.relationships
<1> DEFINE f == [d.keyed EXCEPT ![k] = e]
<1>1. d.keyed \in [KeyNames -> 0..Script!Lacking] /\ f \in [KeyNames -> 0..Script!Lacking]
  BY KeyedIs DEF Script!Database
<1>2. [d EXCEPT !.keyed[k] = e] = [d EXCEPT !.keyed = f]
  OBVIOUS
<1> HIDE DEF f
<1>3. /\ [d EXCEPT !.keyed = f] \in Script!Database
      /\ [d EXCEPT !.keyed = f].keyed = f
      /\ [d EXCEPT !.keyed = f].partial = d.partial
      /\ [d EXCEPT !.keyed = f].ready = d.ready
      /\ [d EXCEPT !.keyed = f].catalogue = d.catalogue
      /\ [d EXCEPT !.keyed = f].relationships = d.relationships
  BY <1>1, KeyedIs DEF Script!Database
<1> QED
  BY <1>2, <1>3 DEF f

LEMMA DatabaseCopies ==
    ASSUME NEW d \in Script!Database, NEW n \in 0..MaxCatalogues
    PROVE  /\ [d EXCEPT !.catalogue = n] \in Script!Database
           /\ [d EXCEPT !.catalogue = n].keyed = d.keyed
           /\ [d EXCEPT !.catalogue = n].partial = d.partial
           /\ [d EXCEPT !.catalogue = n].ready = d.ready
           /\ [d EXCEPT !.catalogue = n].catalogue = n
           /\ [d EXCEPT !.catalogue = n].relationships = d.relationships
BY DEF Script!Database

LEMMA DatabaseIsReady ==
    ASSUME NEW d \in Script!Database, NEW r \in BOOLEAN
    PROVE  /\ [d EXCEPT !.ready = r] \in Script!Database
           /\ [d EXCEPT !.ready = r].keyed = d.keyed
           /\ [d EXCEPT !.ready = r].partial = d.partial
           /\ [d EXCEPT !.ready = r].ready = r
           /\ [d EXCEPT !.ready = r].catalogue = d.catalogue
           /\ [d EXCEPT !.ready = r].relationships = d.relationships
BY DEF Script!Database

LEMMA NothingIs ==
    ASSUME NEW n \in 0..MaxCatalogues, NEW r \in BOOLEAN
    PROVE  /\ Script!Nothing(n, r) \in Script!Database
           /\ AtEdition(Script!Nothing(n, r), 0)
           /\ Script!Nothing(n, r).catalogue = n
           /\ Script!Nothing(n, r).ready = r /\ ~Script!Nothing(n, r).partial
           /\ \A q \in Rows : Script!Nothing(n, r).relationships[q] = 0
BY KeyedIs, BoundsAssumption DEF Script!Nothing, Script!Database, Script!Lacking, AtEdition

\* A run that ignores what the last one missed.
LEMMA DatabaseStarts ==
    ASSUME NEW d \in Script!Database, NEW p \in BOOLEAN
    PROVE  /\ [d EXCEPT !.partial = p] \in Script!Database
           /\ [d EXCEPT !.partial = p].keyed = d.keyed
           /\ [d EXCEPT !.partial = p].partial = p
           /\ [d EXCEPT !.partial = p].ready = d.ready
           /\ [d EXCEPT !.partial = p].catalogue = d.catalogue
           /\ [d EXCEPT !.partial = p].relationships = d.relationships
BY DEF Script!Database

LEMMA LackingIs ==
    /\ Script!Lacking \in 0..Script!Lacking
    /\ \A e \in 0..MaxEditions : e \in 0..Script!Lacking /\ e # Script!Lacking
BY BoundsAssumption DEF Script!Lacking

LEMMA DatabaseInserts ==
    ASSUME NEW d \in Script!Database, NEW q \in Rows, NEW e \in 0..MaxEditions
    PROVE  /\ [d EXCEPT !.dictionary[q] = e] \in Script!Database
           /\ [d EXCEPT !.dictionary[q] = e].keyed = d.keyed
           /\ [d EXCEPT !.dictionary[q] = e].partial = d.partial
           /\ [d EXCEPT !.dictionary[q] = e].ready = d.ready
           /\ [d EXCEPT !.dictionary[q] = e].catalogue = d.catalogue
           /\ [d EXCEPT !.dictionary[q] = e].relationships = d.relationships
<1> DEFINE f == [d.dictionary EXCEPT ![q] = e]
<1>1. f \in [Rows -> 0..MaxEditions]
  BY DEF Script!Database
<1>2. [d EXCEPT !.dictionary[q] = e] = [d EXCEPT !.dictionary = f]
  OBVIOUS
<1> HIDE DEF f
<1>3. /\ [d EXCEPT !.dictionary = f] \in Script!Database
      /\ [d EXCEPT !.dictionary = f].keyed = d.keyed
      /\ [d EXCEPT !.dictionary = f].partial = d.partial
      /\ [d EXCEPT !.dictionary = f].ready = d.ready
      /\ [d EXCEPT !.dictionary = f].catalogue = d.catalogue
      /\ [d EXCEPT !.dictionary = f].relationships = d.relationships
  BY <1>1 DEF Script!Database
<1> QED
  BY <1>2, <1>3

LEMMA DatabaseAddsCopy ==
    ASSUME NEW d \in Script!Database, NEW q \in Rows, NEW e \in 0..MaxEditions
    PROVE  /\ [d EXCEPT !.relationships[q] = e] \in Script!Database
           /\ [d EXCEPT !.relationships[q] = e].keyed = d.keyed
           /\ [d EXCEPT !.relationships[q] = e].partial = d.partial
           /\ [d EXCEPT !.relationships[q] = e].ready = d.ready
           /\ [d EXCEPT !.relationships[q] = e].catalogue = d.catalogue
           /\ [d EXCEPT !.relationships[q] = e].relationships = [d.relationships EXCEPT ![q] = e]
<1> DEFINE f == [d.relationships EXCEPT ![q] = e]
<1>1. f \in [Rows -> 0..MaxEditions]
  BY DEF Script!Database
<1>2. [d EXCEPT !.relationships[q] = e] = [d EXCEPT !.relationships = f]
  OBVIOUS
<1> HIDE DEF f
<1>3. /\ [d EXCEPT !.relationships = f] \in Script!Database
      /\ [d EXCEPT !.relationships = f].keyed = d.keyed
      /\ [d EXCEPT !.relationships = f].partial = d.partial
      /\ [d EXCEPT !.relationships = f].ready = d.ready
      /\ [d EXCEPT !.relationships = f].catalogue = d.catalogue
      /\ [d EXCEPT !.relationships = f].relationships = f
  BY <1>1 DEF Script!Database
<1> QED
  BY <1>2, <1>3 DEF f

-----------------------------------------------------------------------------
LEMMA InitScript == Script!Init => ScriptInv
<1> SUFFICES ASSUME Script!Init PROVE ScriptInv
  OBVIOUS
<1>1. /\ db = Script!Nothing(0, FALSE) /\ tx = db /\ ~broken /\ ~rejected
      /\ broken \in BOOLEAN /\ rejected \in BOOLEAN
      /\ pc = "idle" /\ lists = 0 /\ known = 0 /\ todo = {} /\ outcome = "none"
  BY DEF Script!Init
<1>2. 0 \in 0..MaxCatalogues /\ 0 \in 0..MaxEditions
  BY BoundsAssumption
<1>3. /\ db \in Script!Database /\ AtEdition(db, 0) /\ ~db.partial
      /\ \A q \in Rows : db.relationships[q] = 0
  BY <1>1, <1>2, NothingIs
<1>4. Script!TypeOK
  BY <1>1, <1>2, <1>3 DEF Script!TypeOK
<1>5. Script!KeyedTogether /\ Script!CleanRunIsComplete
  BY <1>1, <1>2, <1>3, KeyedIs, LackingIs DEF Script!KeyedTogether, Script!CleanRunIsComplete, AtEdition
<1>6. ListsMove /\ FailuresShow
  BY <1>1, KeyedIs DEF ListsMove, FailuresShow, Behind, KeyNames
<1>7. CopiesCount
  <2>1. \A q \in Rows : db.relationships[q] = 0 /\ tx.relationships[q] = 0
    BY <1>1, <1>3
  <2>2. \A q \in Rows : db.relationships[q] <= lists /\ tx.relationships[q] <= lists
    <3>1. lists = 0 /\ 0 <= 0
      BY <1>1
    <3> QED
      BY <2>1, <3>1
  <2> QED
    BY <1>1, <2>2 DEF CopiesCount
<1> QED
  BY <1>1, <1>4, <1>5, <1>6, <1>7 DEF ScriptInv

\* A run that ends goes back to what is committed.
LEMMA QuitScript ==
    ASSUME ScriptInv, NEW result \in {"none", "error"}, Script!Quit(result),
           UNCHANGED <<db, lists, rejected>>, known' \in 0..MaxCatalogues
    PROVE  ScriptInv'
<1>1. /\ tx' = db /\ ~broken' /\ broken' \in BOOLEAN /\ pc' = "idle" /\ todo' = {}
      /\ outcome' = result
  BY DEF Script!Quit
<1>2. Script!TypeOK'
  BY <1>1 DEF ScriptInv, Script!TypeOK
<1>3. Script!KeyedTogether' /\ Script!CleanRunIsComplete'
  BY <1>1 DEF ScriptInv, Script!KeyedTogether, Script!CleanRunIsComplete
<1>4. ListsMove' /\ FailuresShow'
  BY <1>1, KeyedIs DEF ListsMove, FailuresShow, Behind, KeyNames
<1>5. CopiesCount'
  BY <1>1 DEF ScriptInv, CopiesCount
<1> QED
  BY <1>1, <1>2, <1>3, <1>4, <1>5 DEF ScriptInv

LEMMA StartScript == ASSUME ScriptInv, Script!Start PROVE ScriptInv'
<1>1. /\ pc = "idle" /\ lists < MaxEditions /\ lists' = lists + 1 /\ pc' = "ensure"
      /\ ~rejected' /\ rejected' \in BOOLEAN /\ outcome' = "none" /\ UNCHANGED <<db, broken, known, todo>>
  BY DEF Script!Start
<1>2. tx' = Script!Nothing(db.catalogue, db.ready) \/ tx' = [db EXCEPT !.partial = FALSE]
  BY DEF Script!Start
<1>3. db \in Script!Database /\ db.catalogue \in 0..MaxCatalogues /\ db.ready \in BOOLEAN
  BY DEF ScriptInv, Script!TypeOK, Script!Database
<1>5. /\ tx' \in Script!Database /\ tx'.catalogue = db.catalogue /\ ~tx'.partial
      /\ \A q \in Rows : tx'.relationships[q] = 0 \/ tx'.relationships[q] = db.relationships[q]
  <2>1. CASE tx' = Script!Nothing(db.catalogue, db.ready)
    BY <1>3, <2>1, NothingIs
  <2>2. CASE tx' = [db EXCEPT !.partial = FALSE]
    BY <1>3, <2>2, DatabaseStarts
  <2> QED BY <1>2, <2>1, <2>2
<1>6. ~broken
  BY <1>1 DEF ScriptInv, FailuresShow, KeyNames
<1>7. lists \in Nat /\ lists' \in 0..MaxEditions /\ MaxEditions \in Nat
  BY <1>1, BoundsAssumption DEF ScriptInv, Script!TypeOK
<1>8. Script!TypeOK'
  BY <1>1, <1>5, <1>7 DEF ScriptInv, Script!TypeOK
<1>9. Script!KeyedTogether' /\ Script!CleanRunIsComplete'
  BY <1>1 DEF ScriptInv, Script!KeyedTogether, Script!CleanRunIsComplete
<1>10. ListsMove' /\ FailuresShow'
  BY <1>1, <1>5, <1>6, KeyedIs DEF ListsMove, FailuresShow, Behind, KeyNames
<1>11. CopiesCount'
  <2>1. \A q \in Rows : db.relationships[q] \in Nat /\ db.relationships[q] <= lists
    BY <1>3 DEF ScriptInv, CopiesCount, Script!Database
  <2> QED
    BY <1>1, <1>5, <1>7, <2>1 DEF CopiesCount
<1> QED
  BY <1>1, <1>5, <1>8, <1>9, <1>10, <1>11 DEF ScriptInv

LEMMA EnsureScript == ASSUME ScriptInv, Script!Ensure PROVE ScriptInv'
<1>1. pc = "ensure" /\ UNCHANGED <<db, lists, known, rejected>>
  BY DEF Script!Ensure
<1>2. known \in 0..MaxCatalogues /\ tx \in Script!Database
  BY DEF ScriptInv, Script!TypeOK
<1>3. CASE Script!Quit("error")
  BY <1>1, <1>2, <1>3, QuitScript
<1>4. CASE /\ tx' = [tx EXCEPT !.ready = TRUE] /\ pc' = "glossary"
           /\ UNCHANGED <<broken, todo, outcome>>
  <2>1. /\ tx' \in Script!Database /\ tx'.keyed = tx.keyed /\ tx'.partial = tx.partial /\ tx'.ready
        /\ tx'.catalogue = tx.catalogue /\ tx'.relationships = tx.relationships
    BY <1>2, <1>4, DatabaseIsReady
  <2>2. Script!TypeOK'
    BY <1>1, <1>4, <2>1, KeyedIs DEF ScriptInv, Script!TypeOK, KeyNames
  <2>3. Script!KeyedTogether' /\ Script!CleanRunIsComplete' /\ tx'.catalogue = db'.catalogue
    BY <1>1, <1>4, <2>1 DEF ScriptInv, Script!KeyedTogether, Script!CleanRunIsComplete
  <2>5. ListsMove'
    BY <1>4, KeyedIs DEF ListsMove, DoneSoFar, Behind, KeyNames
  <2>6. FailuresShow' /\ CopiesCount'
    BY <1>1, <1>4, <2>1 DEF ScriptInv, FailuresShow, CopiesCount, KeyNames, Behind
  <2> QED
    BY <2>2, <2>3, <2>5, <2>6 DEF ScriptInv
<1> QED
  BY <1>3, <1>4, KeyedIs DEF Script!Ensure

\* A list is written, or a row of it fails.
LEMMA UpsertScript ==
    ASSUME ScriptInv, NEW i \in 1..4, Script!Upsert(i)
    PROVE  ScriptInv'
<1> DEFINE k == Script!Keyed[i]
           after == Append(Script!Keyed, "columns")[i + 1]
<1>1. /\ pc = k /\ pc' = after /\ UNCHANGED <<db, lists, known, todo, outcome>>
      /\ Script!Written(k) \/ Script!Missed(k) \/ Script!Refused
  BY DEF Script!Upsert
<1>2. k \in KeyNames /\ after \in KeyNames \cup {"columns"} /\ k # "ensure" /\ k # "idle"
      /\ after # "ensure" /\ after # "idle" /\ after # "relationships" /\ after # "commit"
      /\ k # "relationships" /\ k # "commit"
  BY KeyedIs, NextListIs DEF KeyNames
<1> HIDE DEF k, after
<1>3. tx \in Script!Database /\ lists \in 0..MaxEditions
  BY DEF ScriptInv, Script!TypeOK
<1>w. ASSUME Script!Written(k)
      PROVE  /\ ~broken /\ UNCHANGED <<broken, rejected>>
             /\ tx' \in Script!Database /\ tx'.ready = tx.ready /\ tx'.partial = tx.partial
             /\ tx'.catalogue = tx.catalogue /\ tx'.relationships = tx.relationships
             /\ tx'.keyed = [tx.keyed EXCEPT ![k] = lists]
  <2>1. ~broken /\ UNCHANGED <<broken, rejected>> /\ tx' = [tx EXCEPT !.keyed[k] = lists]
    BY <1>w DEF Script!Written
  <2>2. lists \in 0..Script!Lacking
    BY <1>3, LackingIs
  <2> QED BY <1>2, <1>3, <2>1, <2>2, DatabaseUpserts
<1>m. ASSUME Script!Missed(k)
      PROVE  /\ UNCHANGED broken /\ rejected' /\ rejected' \in BOOLEAN
             /\ tx' \in Script!Database /\ tx'.ready = tx.ready /\ tx'.partial
             /\ tx'.catalogue = tx.catalogue /\ tx'.relationships = tx.relationships
  <2> DEFINE d == [tx EXCEPT !.keyed[k] = Script!Lacking]
  <2>1. /\ UNCHANGED broken /\ rejected' /\ rejected' \in BOOLEAN
        /\ tx' = [tx EXCEPT !.keyed[k] = Script!Lacking, !.partial = TRUE]
    BY <1>m DEF Script!Missed
  <2>2. tx' = [d EXCEPT !.partial = TRUE]
    BY <2>1
  <2>3. /\ d \in Script!Database /\ d.ready = tx.ready
        /\ d.catalogue = tx.catalogue /\ d.relationships = tx.relationships
    BY <1>2, <1>3, LackingIs, DatabaseUpserts
  <2> HIDE DEF d
  <2> QED BY <2>1, <2>2, <2>3, DatabaseStarts
<1>r. ASSUME Script!Refused
      PROVE  broken' /\ broken' \in BOOLEAN /\ rejected' /\ rejected' \in BOOLEAN /\ UNCHANGED tx
  BY <1>r DEF Script!Refused
<1>4. /\ tx' \in Script!Database /\ tx'.ready = tx.ready
      /\ tx'.catalogue = tx.catalogue /\ tx'.relationships = tx.relationships
      /\ broken' \in BOOLEAN /\ rejected' \in BOOLEAN
      /\ broken' => broken \/ rejected'
      /\ tx'.partial => tx.partial \/ rejected'
      /\ rejected => rejected'
  <2>1. broken \in BOOLEAN /\ rejected \in BOOLEAN
    BY DEF ScriptInv, Script!TypeOK
  <2>2. CASE Script!Written(k)
    BY <1>w, <2>1, <2>2
  <2>3. CASE Script!Missed(k)
    BY <1>m, <2>1, <2>3
  <2>4. CASE Script!Refused
    BY <1>r, <1>3, <2>1, <2>4
  <2> QED BY <1>1, <2>2, <2>3, <2>4
<1>5. Script!TypeOK'
  BY <1>1, <1>2, <1>4, KeyedIs DEF ScriptInv, Script!TypeOK
<1>6. Script!KeyedTogether' /\ Script!CleanRunIsComplete' /\ tx'.catalogue = db'.catalogue
  BY <1>1, <1>2, <1>4 DEF ScriptInv, FailuresShow, Script!KeyedTogether, Script!CleanRunIsComplete
<1>7. FailuresShow'
  <2>1. broken' => rejected'
    BY <1>4 DEF ScriptInv, FailuresShow
  <2>2. pc' \in KeyNames \cup {"columns"} /\ outcome' # "done"
    BY <1>1, <1>2 DEF ScriptInv, FailuresShow
  <2>3. ~rejected' => tx'.ready
    BY <1>1, <1>2, <1>4 DEF ScriptInv, FailuresShow
  <2>4. tx'.partial => rejected'
    BY <1>1, <1>2, <1>4 DEF ScriptInv, FailuresShow
  <2> QED
    BY <2>1, <2>2, <2>3, <2>4 DEF FailuresShow
<1>8. CopiesCount'
  BY <1>1, <1>2, <1>4 DEF ScriptInv, CopiesCount
<1>9. ListsMove'
  <2>1. CASE broken'
    BY <1>2, <2>1 DEF ListsMove
  <2>2. CASE tx'.partial /\ rejected'
    BY <2>2, <1>2 DEF ListsMove, DoneSoFar
  <2>3. CASE ~broken' /\ ~(tx'.partial /\ rejected')
    <3>1. Script!Written(k)
      BY <1>1, <1>m, <1>r, <2>3
    <3>2. ~broken /\ tx'.keyed = [tx.keyed EXCEPT ![k] = lists] /\ ~tx'.partial /\ DoneSoFar(i) /\ ~tx.partial
      <4>1. ~broken /\ DoneSoFar(i)
        BY <1>1, <1>w, <3>1 DEF ScriptInv, ListsMove, k
      <4>2. ~tx'.partial
        BY <1>7, <1>2, <1>1, <2>3 DEF FailuresShow
      <4> QED BY <1>w, <3>1, <4>1, <4>2
    <3>3. tx.keyed \in [KeyNames -> 0..Script!Lacking]
      BY <1>3, KeyedIs DEF Script!Database
    <3>4. \A j \in 1..i : tx'.keyed[Script!Keyed[j]] = lists
      BY <3>2, <3>3, KeyedIs DEF DoneSoFar, k, KeyNames
    <3>5. CASE i < 4
      <4>1. pc' = Script!Keyed[i + 1] /\ pc' \in KeyNames /\ \A j \in 1..4 : pc' = Script!Keyed[j] => j = i + 1
        <5>1. i = 1 \/ i = 2 \/ i = 3
          BY <3>5
        <5>2. CASE i = 1
          BY <1>1, <5>2, KeyedIs, NextListIs DEF after, KeyNames
        <5>3. CASE i = 2
          BY <1>1, <5>3, KeyedIs, NextListIs DEF after, KeyNames
        <5>4. CASE i = 3
          BY <1>1, <5>4, KeyedIs, NextListIs DEF after, KeyNames
        <5> QED BY <5>1, <5>2, <5>3, <5>4
      <4>2. DoneSoFar(i + 1)'
        BY <1>1, <3>4 DEF DoneSoFar
      <4>3. pc' \notin Behind
        BY <4>1 DEF Behind, KeyNames
      <4>4. \A j \in 1..4 : pc' = Script!Keyed[j] => DoneSoFar(j)'
        BY <4>1, <4>2
      <4> QED
        BY <4>3, <4>4 DEF ListsMove
    <3>6. CASE i = 4
      <4>1. pc' = "columns"
        <5>1. i + 1 = 5
          BY <3>6
        <5> QED
          BY <1>1, <5>1, NextListIs DEF after
      <4>2. AtEdition(tx', lists')
        BY <1>1, <3>4, <3>6, KeyedIs DEF AtEdition, KeyNames
      <4>3. OneEdition(tx')
        BY <1>1, <1>3, <4>2, LackingIs DEF AtEdition, OneEdition
      <4> QED
        BY <4>1, <4>2, <4>3, KeyedIs DEF ListsMove
    <3> QED BY <3>5, <3>6
  <2> QED
    BY <2>1, <2>2, <2>3
<1> QED
  BY <1>5, <1>6, <1>7, <1>8, <1>9 DEF ScriptInv

LEMMA SelectScript ==
    ASSUME ScriptInv, NEW label \in {"columns", "tables"}, NEW rows, NEW skipped,
           Script!Select(label, rows, skipped),
           \/ label = "columns" /\ rows = "dictionary" /\ skipped = "tables"
           \/ label = "tables" /\ rows = "relationships" /\ skipped = "commit"
    PROVE  ScriptInv'
<1>1. pc = label /\ known' = tx.catalogue /\ UNCHANGED <<db, lists, rejected>>
  BY DEF Script!Select
<1>2. known' \in 0..MaxCatalogues
  BY <1>1 DEF ScriptInv, Script!TypeOK, Script!Database
<1>3. CASE broken
  BY <1>1, <1>2, <1>3, QuitScript DEF Script!Select
<1>4. CASE ~broken
  <2>1. /\ pc' = IF tx.catalogue = 0 THEN skipped ELSE rows
        /\ todo' = Rows /\ UNCHANGED <<tx, broken, outcome>>
    BY <1>4 DEF Script!Select
  <2>2. /\ pc' \in {"dictionary", "tables", "relationships", "commit"}
        /\ pc \in {"columns", "tables"}
    BY <1>1, <2>1
  <2>3. Script!TypeOK'
    BY <1>1, <1>2, <2>1, <2>2 DEF ScriptInv, Script!TypeOK
  <2>4. Script!KeyedTogether' /\ Script!CleanRunIsComplete' /\ tx'.catalogue = db'.catalogue
    BY <1>1, <2>1, <2>2 DEF ScriptInv, FailuresShow, Script!KeyedTogether, Script!CleanRunIsComplete
  <2>5. (~tx.partial => OneEdition(tx)) /\ (~rejected => AtEdition(tx, lists))
    BY <1>4, <2>2 DEF ScriptInv, ListsMove, Behind
  <2>6. ListsMove'
    BY <1>1, <2>1, <2>2, <2>5, KeyedIs DEF ListsMove, OneEdition, AtEdition
  <2>7. FailuresShow'
    BY <1>1, <1>4, <2>1, <2>2 DEF ScriptInv, FailuresShow, Behind, KeyNames
  <2>8. CopiesCount'
    BY <1>1, <2>1, <2>2 DEF ScriptInv, CopiesCount
  <2> QED
    BY <2>3, <2>4, <2>6, <2>7, <2>8 DEF ScriptInv
<1> QED
  BY <1>3, <1>4

\* A row is inserted, or fails and takes the transaction with it, or none is left.
LEMMA RowOfScript ==
    ASSUME ScriptInv, pc \in {"dictionary", "relationships"},
           UNCHANGED <<db, broken, lists, known, outcome>>,
           tx' \in Script!Database, tx'.catalogue = tx.catalogue, pc' = pc, todo' \subseteq todo,
           \/ /\ tx'.keyed = tx.keyed /\ tx'.partial = tx.partial /\ tx'.ready = tx.ready
              /\ UNCHANGED rejected
           \/ tx' = db /\ rejected' = TRUE,
           \A q \in Rows : tx'.relationships[q] <= lists,
           pc = "relationships" => \A q \in todo' : tx'.relationships[q] < lists,
           pc # "relationships" => \A q \in Rows : tx'.relationships[q] < lists
    PROVE  ScriptInv'
<1>1. Script!TypeOK'
  BY DEF ScriptInv, Script!TypeOK
<1>2. Script!KeyedTogether' /\ Script!CleanRunIsComplete'
  BY DEF ScriptInv, FailuresShow, Script!KeyedTogether, Script!CleanRunIsComplete
<1>3. ~broken /\ (~db.partial => OneEdition(db))
  BY KeyedIs DEF ScriptInv, FailuresShow, KeyNames, Script!KeyedTogether, OneEdition
<1>4. (~tx.partial => OneEdition(tx)) /\ (~rejected => AtEdition(tx, lists))
  BY <1>3 DEF ScriptInv, ListsMove, Behind
<1>5. ListsMove'
  BY <1>3, <1>4, KeyedIs DEF ListsMove, OneEdition, AtEdition
<1>6. FailuresShow'
  BY DEF ScriptInv, FailuresShow, Behind, KeyNames
<1>7. CopiesCount'
  BY DEF ScriptInv, CopiesCount
<1> QED
  BY <1>1, <1>2, <1>5, <1>6, <1>7 DEF ScriptInv

LEMMA DictionaryScript == ASSUME ScriptInv, Script!UpsertDictionary PROVE ScriptInv'
<1>1. pc = "dictionary" /\ UNCHANGED <<db, broken, lists, known, outcome>>
  BY DEF Script!UpsertDictionary, Script!InsertRow
<1>2. /\ tx \in Script!Database /\ db \in Script!Database /\ lists \in 0..MaxEditions /\ todo \subseteq Rows
      /\ tx.catalogue = db.catalogue
  BY DEF ScriptInv, Script!TypeOK
<1>3. /\ \A q \in Rows : tx.relationships[q] < lists /\ db.relationships[q] < lists
      /\ \A q \in Rows : tx.relationships[q] <= lists /\ db.relationships[q] <= lists
  BY <1>1 DEF ScriptInv, CopiesCount
<1>4. ASSUME NEW r \in todo,
             tx' = [tx EXCEPT !.dictionary[r] = lists], todo' = Script!WithoutRow(r),
             UNCHANGED <<rejected, pc>>
      PROVE  ScriptInv'
  <2>1. /\ tx' \in Script!Database /\ tx'.keyed = tx.keyed /\ tx'.partial = tx.partial /\ tx'.ready = tx.ready
        /\ tx'.catalogue = tx.catalogue /\ tx'.relationships = tx.relationships
    BY <1>2, <1>4, DatabaseInserts
  <2> QED
    BY <1>1, <1>3, <1>4, <2>1, RowOfScript DEF Script!WithoutRow
<1>5. ASSUME NEW r \in todo, Script!RowFails(r), UNCHANGED pc
      PROVE  ScriptInv'
  BY <1>1, <1>2, <1>3, <1>5, RowOfScript DEF Script!RowFails
<1>s. ASSUME NEW r \in todo, Script!RowSkipped(r), UNCHANGED pc
      PROVE  ScriptInv'
  BY <1>1, <1>2, <1>3, <1>s, RowOfScript DEF Script!RowSkipped, Script!WithoutRow
<1>6. ASSUME todo = {}, pc' = "tables", UNCHANGED <<tx, todo, rejected>>
      PROVE  ScriptInv'
  <2>1. Script!TypeOK' /\ Script!KeyedTogether' /\ Script!CleanRunIsComplete'
    BY <1>1, <1>6 DEF ScriptInv, FailuresShow, Script!TypeOK, Script!KeyedTogether, Script!CleanRunIsComplete
  <2>2. ListsMove' /\ FailuresShow'
    BY <1>1, <1>6, KeyedIs DEF ScriptInv, ListsMove, FailuresShow, Behind, KeyNames, OneEdition, AtEdition
  <2>3. CopiesCount'
    BY <1>1, <1>6 DEF ScriptInv, CopiesCount
  <2> QED
    BY <1>1, <1>6, <2>1, <2>2, <2>3 DEF ScriptInv
<1> QED
  BY <1>4, <1>5, <1>s, <1>6 DEF Script!UpsertDictionary, Script!InsertRow

LEMMA RelationshipScript == ASSUME ScriptInv, Script!UpsertRelationship PROVE ScriptInv'
<1>1. pc = "relationships" /\ UNCHANGED <<db, broken, lists, known, outcome>>
  BY DEF Script!UpsertRelationship, Script!InsertRow
<1>2. /\ tx \in Script!Database /\ db \in Script!Database /\ lists \in 0..MaxEditions /\ todo \subseteq Rows
      /\ tx.catalogue = db.catalogue
  BY DEF ScriptInv, Script!TypeOK
<1>3. /\ \A q \in Rows : tx.relationships[q] <= lists /\ db.relationships[q] < lists
      /\ \A q \in Rows : db.relationships[q] <= lists
      /\ \A q \in todo : tx.relationships[q] < lists
  BY <1>1 DEF ScriptInv, CopiesCount
<1>4. ASSUME NEW r \in todo,
             tx' = [tx EXCEPT !.relationships[r] = @ + 1], todo' = Script!WithoutRow(r),
             UNCHANGED <<rejected, pc>>
      PROVE  ScriptInv'
  <2>1. tx.relationships[r] < MaxEditions /\ r \in Rows /\ tx.relationships \in [Rows -> Nat]
    BY <1>2, <1>3, <1>4, BoundsAssumption DEF Script!Database
  <2> DEFINE n == tx.relationships[r] + 1
  <2>0. n \in 0..MaxEditions /\ tx' = [tx EXCEPT !.relationships[r] = n]
    BY <1>4, <2>1, BoundsAssumption
  <2> HIDE DEF n
  <2>2. /\ tx' \in Script!Database /\ tx'.keyed = tx.keyed /\ tx'.partial = tx.partial /\ tx'.ready = tx.ready
        /\ tx'.catalogue = tx.catalogue
        /\ tx'.relationships = [tx.relationships EXCEPT ![r] = n]
    BY <1>2, <2>0, <2>1, DatabaseAddsCopy
  <2>3. /\ \A q \in Rows \ {r} : tx'.relationships[q] = tx.relationships[q]
        /\ tx'.relationships[r] <= lists
    BY <1>2, <1>3, <1>4, <2>1, <2>2 DEF n
  <2>4. /\ \A q \in Rows : tx'.relationships[q] <= lists
        /\ \A q \in todo' : tx'.relationships[q] < lists
    BY <1>2, <1>3, <1>4, <2>3 DEF Script!WithoutRow
  <2> QED
    BY <1>1, <1>4, <2>2, <2>4, RowOfScript DEF Script!WithoutRow
<1>5. ASSUME NEW r \in todo, Script!RowFails(r), UNCHANGED pc
      PROVE  ScriptInv'
  BY <1>1, <1>2, <1>3, <1>5, RowOfScript DEF Script!RowFails
<1>s. ASSUME NEW r \in todo, Script!RowSkipped(r), UNCHANGED pc
      PROVE  ScriptInv'
  BY <1>1, <1>2, <1>3, <1>s, RowOfScript DEF Script!RowSkipped, Script!WithoutRow
<1>6. ASSUME todo = {}, pc' = "commit", UNCHANGED <<tx, todo, rejected>>
      PROVE  ScriptInv'
  <2>1. Script!TypeOK' /\ Script!KeyedTogether' /\ Script!CleanRunIsComplete'
    BY <1>1, <1>6 DEF ScriptInv, FailuresShow, Script!TypeOK, Script!KeyedTogether, Script!CleanRunIsComplete
  <2>2. ListsMove' /\ FailuresShow'
    BY <1>1, <1>6, KeyedIs DEF ScriptInv, ListsMove, FailuresShow, Behind, KeyNames, OneEdition, AtEdition
  <2>3. CopiesCount'
    BY <1>1, <1>6 DEF ScriptInv, CopiesCount
  <2> QED
    BY <1>1, <1>6, <2>1, <2>2, <2>3 DEF ScriptInv
<1> QED
  BY <1>4, <1>5, <1>s, <1>6 DEF Script!UpsertRelationship, Script!InsertRow

LEMMA CommitScript == ASSUME ScriptInv, Script!Commit PROVE ScriptInv'
<1>1. /\ pc = "commit" /\ db' = tx /\ pc' = "idle" /\ todo' = {} /\ outcome' = "done"
      /\ UNCHANGED <<tx, broken, lists, known, rejected>>
  BY DEF Script!Commit
<1>2. ~broken
  BY <1>1 DEF ScriptInv, FailuresShow, KeyNames
<1>3. (~tx.partial => OneEdition(tx)) /\ (~rejected => AtEdition(tx, lists) /\ tx.ready)
  BY <1>1, <1>2 DEF ScriptInv, ListsMove, FailuresShow, Behind
<1>4. Script!TypeOK'
  BY <1>1 DEF ScriptInv, Script!TypeOK
<1>5. Script!KeyedTogether' /\ Script!CleanRunIsComplete'
  BY <1>1, <1>3, KeyedIs DEF Script!KeyedTogether, Script!CleanRunIsComplete, OneEdition, AtEdition
<1>6. ListsMove' /\ FailuresShow'
  BY <1>1, <1>2, KeyedIs DEF ListsMove, FailuresShow, Behind, KeyNames
<1>7. CopiesCount'
  BY <1>1 DEF ScriptInv, CopiesCount
<1> QED
  BY <1>1, <1>4, <1>5, <1>6, <1>7 DEF ScriptInv

LEMMA IntrospectScript == ASSUME ScriptInv, Script!Introspect PROVE ScriptInv'
<1>1. /\ db.catalogue < MaxCatalogues
      /\ db' = [db EXCEPT !.catalogue = @ + 1] /\ tx' = [tx EXCEPT !.catalogue = @ + 1]
      /\ UNCHANGED <<broken, pc, lists, known, todo, rejected, outcome>>
  BY DEF Script!Introspect
<1>2. /\ tx \in Script!Database /\ db \in Script!Database /\ tx.catalogue = db.catalogue
      /\ db.catalogue + 1 \in 0..MaxCatalogues
  BY <1>1, BoundsAssumption DEF ScriptInv, Script!TypeOK, Script!Database
<1> DEFINE n == db.catalogue + 1
<1>0. n \in 0..MaxCatalogues /\ db' = [db EXCEPT !.catalogue = n] /\ tx' = [tx EXCEPT !.catalogue = n]
  BY <1>1, <1>2
<1> HIDE DEF n
<1>3. /\ db' \in Script!Database /\ db'.keyed = db.keyed /\ db'.partial = db.partial /\ db'.ready = db.ready
      /\ db'.relationships = db.relationships /\ db'.catalogue = n
  BY <1>0, <1>2, DatabaseCopies
<1>4. /\ tx' \in Script!Database /\ tx'.keyed = tx.keyed /\ tx'.partial = tx.partial /\ tx'.ready = tx.ready
      /\ tx'.relationships = tx.relationships /\ tx'.catalogue = n
  BY <1>0, <1>2, DatabaseCopies
<1>5. Script!TypeOK'
  BY <1>1, <1>3, <1>4 DEF ScriptInv, Script!TypeOK
<1>6. Script!KeyedTogether' /\ Script!CleanRunIsComplete'
  BY <1>1, <1>3 DEF ScriptInv, Script!KeyedTogether, Script!CleanRunIsComplete
<1>7. ListsMove'
  BY <1>1, <1>4 DEF ScriptInv, ListsMove, DoneSoFar, OneEdition, AtEdition
<1>8. FailuresShow' /\ CopiesCount'
  BY <1>1, <1>3, <1>4 DEF ScriptInv, FailuresShow, CopiesCount
<1> QED
  BY <1>3, <1>4, <1>5, <1>6, <1>7, <1>8 DEF ScriptInv

LEMMA NextScript == ASSUME ScriptInv, [Script!Next]_scriptVars PROVE ScriptInv'
<1>1. ASSUME Script!Kill PROVE ScriptInv'
  <2>1. known' \in 0..MaxCatalogues
    BY <1>1 DEF Script!Kill, ScriptInv, Script!TypeOK
  <2>2. PICK result \in {"none", "error"} : Script!Quit(result)
    BY <1>1 DEF Script!Kill
  <2> QED
    BY <1>1, <2>1, <2>2, QuitScript DEF Script!Kill
<1>2. CASE UNCHANGED scriptVars
  BY <1>2 DEF scriptVars, ScriptInv, Script!TypeOK, Script!KeyedTogether, Script!CleanRunIsComplete,
              ListsMove, DoneSoFar, OneEdition, AtEdition, FailuresShow, CopiesCount
<1>3. ASSUME NEW i \in 1..Len(Script!Keyed), Script!Upsert(i) PROVE ScriptInv'
  BY <1>3, KeyedIs, UpsertScript
<1>4. Script!Select("columns", "dictionary", "tables") => ScriptInv'
  BY SelectScript
<1>5. Script!Select("tables", "relationships", "commit") => ScriptInv'
  BY SelectScript
<1> QED
  BY <1>1, <1>2, <1>3, <1>4, <1>5, StartScript, EnsureScript, DictionaryScript, RelationshipScript,
     CommitScript, IntrospectScript DEF Script!Next

\* Whatever the database refuses and whenever the script is killed, its four keyed lists
\* stay at one edition (scripts/seed_sqlserver_metadata.py main), unless the run that
\* wrote them has missed a row before it reached the database; and a run that reports no
\* failed row has written them all.
THEOREM TheScriptIsSound == SuiteSpec => []ScriptIsSound
<1> DEFINE Inv == which = "script" => ScriptInv
<1>1. SuiteInit => Inv
  BY InitScript DEF SuiteInit
<1>2. Inv /\ [SuiteNext]_<<which, vars, scriptVars, importVars>> => Inv'
  <2> SUFFICES ASSUME Inv, [SuiteNext]_<<which, vars, scriptVars, importVars>>, which' = "script"
               PROVE  ScriptInv'
    OBVIOUS
  <2>1. which = "script" /\ [Script!Next]_scriptVars
    BY DEF SuiteNext
  <2> QED
    BY <2>1, NextScript
<1>3. Inv => ScriptIsSound
  BY DEF ScriptInv, ScriptIsSound
<1> QED
  BY <1>1, <1>2, <1>3, PTL DEF SuiteSpec
=============================================================================
