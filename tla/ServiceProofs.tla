----------------------------- MODULE ServiceProofs -----------------------------
(***************************************************************************)
(* Accounts stay unique and whoever registered can log in; who is          *)
(* deactivated stays out; a reader of a listing misses no more than was    *)
(* deleted.  For any sets and any number of requests.                      *)
(***************************************************************************)
EXTENDS Services, WeeklyProofs

-------------------------------------------------------------------------------
(* Accounts *)

\* A request that has reached a statement asked for what the statement is about.
CallsMatch ==
  \A r \in Requests :
    /\ stmt[r] \in {"email", "username", "insert"} => form[r] \in Account!RegisterCalls
    /\ stmt[r] = "authenticate" => form[r] \in Account!LoginCalls

\* Whoever was told 201 has a row.
AckedHaveRows == \A a \in acked : \E u \in users : u.email = a.email /\ u.password = a.password

AccountInv == AccountsTypeOK /\ CallsMatch /\ UniqueAccounts /\ AckedHaveRows

\* Usernames are stored as the validator left them.
LEMMA CanonicalNames ==
  ASSUME NEW c \in Account!RegisterCalls
  PROVE  /\ c.email \in Emails /\ c.password \in Passwords
         /\ c.username \in Names /\ Lower[c.username] = c.username
BY AccountsAssumption DEF Account!RegisterCalls, Account!Canonical

\* Answering a request changes nothing but its slot.
LEMMA AnswerKeeps ==
  ASSUME AccountInv, NEW r \in Requests, NEW code \in {0, 200, 400, 403, 500},
         Account!Answer(r, code),
         UNCHANGED <<users, nextId, acked>>
  PROVE  AccountInv'
<1>1. AccountsTypeOK' /\ CallsMatch'
  BY DEF AccountInv, AccountsTypeOK, Account!TypeOK, CallsMatch, Account!Answer
<1>2. UniqueAccounts' /\ AckedHaveRows'
  BY DEF AccountInv, UniqueAccounts, Account!UniqueAccounts, AckedHaveRows
<1> QED BY <1>1, <1>2 DEF AccountInv

\* A new request, or a SELECT.
LEMMA ReadKeeps ==
  ASSUME AccountInv, NEW r \in Requests,
         \/ \E c \in Account!RegisterCalls \cup Account!LoginCalls : Account!Receive(r, c)
         \/ Account!CheckEmail(r) \/ Account!CheckUsername(r)
         \/ Account!Authenticate(r) \/ Account!Abort(r)
  PROVE  AccountInv'
<1>1. ASSUME NEW c \in Account!RegisterCalls \cup Account!LoginCalls, Account!Receive(r, c)
      PROVE  AccountInv'
  <2>1. AccountsTypeOK'
    BY <1>1 DEF AccountInv, AccountsTypeOK, Account!TypeOK, Account!Receive
  <2>2. c.op = "register" => c \in Account!RegisterCalls
    BY DEF Account!LoginCalls
  <2>3. c.op # "register" => c \in Account!LoginCalls
    BY DEF Account!RegisterCalls
  <2>4. CallsMatch'
    BY <1>1, <2>2, <2>3 DEF AccountInv, AccountsTypeOK, Account!TypeOK, CallsMatch,
       Account!Receive
  <2>5. UniqueAccounts' /\ AckedHaveRows'
    BY <1>1 DEF AccountInv, UniqueAccounts, Account!UniqueAccounts, AckedHaveRows, Account!Receive
  <2> QED BY <2>1, <2>4, <2>5 DEF AccountInv
<1>2. ASSUME stmt[r] \in {"email", "username"}, NEW next \in {"username", "insert"},
             Account!Goto(r, next),
             UNCHANGED <<users, nextId, acked>>
      PROVE  AccountInv'
  <2>1. AccountsTypeOK' /\ CallsMatch'
    BY <1>2 DEF AccountInv, AccountsTypeOK, Account!TypeOK, CallsMatch, Account!Goto
  <2>2. UniqueAccounts' /\ AckedHaveRows'
    BY <1>2 DEF AccountInv, UniqueAccounts, Account!UniqueAccounts, AckedHaveRows
  <2> QED BY <2>1, <2>2 DEF AccountInv
<1>3. CASE Account!CheckEmail(r) \/ Account!CheckUsername(r)
  BY <1>2, <1>3, AnswerKeeps DEF Account!CheckEmail, Account!CheckUsername
<1>4. CASE Account!Authenticate(r) \/ Account!Abort(r)
  BY <1>4, AnswerKeeps DEF Account!Authenticate, Account!Abort
<1> QED BY <1>1, <1>3, <1>4

\* The commit of a registration.
LEMMA InsertKeeps ==
  ASSUME AccountInv, NEW r \in Requests, Account!Insert(r)
  PROVE  AccountInv'
<1> DEFINE c == form[r]
<1>1. c \in Account!RegisterCalls
  BY DEF AccountInv, CallsMatch, Account!Insert
<1>2. CASE Account!Clashes(c) /\ Account!Answer(r, 500) /\ UNCHANGED <<users, nextId, acked>>
  BY <1>2, AnswerKeeps
<1>3. CASE ~Account!Clashes(c)
  <2>1. /\ nextId <= MaxUsers /\ nextId' = nextId + 1 /\ users' = users \cup {Account!Row(c)}
        /\ acked' = acked \cup {[email |-> c.email, password |-> c.password]}
        /\ Account!Answer(r, 201)
    BY <1>3 DEF Account!Insert
  <2>2. /\ Account!Row(c) \in Account!User
        /\ Account!Row(c).email = c.email /\ Account!Row(c).username = c.username
        /\ Account!Row(c).password = c.password
    BY <1>1, <2>1, CanonicalNames, AccountsAssumption DEF AccountInv, AccountsTypeOK,
       Account!TypeOK, Account!Row, Account!User
  <2>3. [email |-> c.email, password |-> c.password] \in [email : Emails, password : Passwords]
    BY <1>1, CanonicalNames
  <2>4. AccountsTypeOK'
    <3>1. nextId' \in 1..(MaxUsers + 1)
      BY <2>1, AccountsAssumption DEF AccountInv, AccountsTypeOK, Account!TypeOK
    <3> QED BY <2>1, <2>2, <2>3, <3>1 DEF AccountInv, AccountsTypeOK, Account!TypeOK,
               Account!Answer
  <2>5. CallsMatch'
    BY <2>1 DEF AccountInv, AccountsTypeOK, Account!TypeOK, CallsMatch, Account!Answer
  <2>6. ASSUME NEW u \in users
        PROVE  u.email # c.email /\ Lower[u.username] # Lower[c.username]
    <3>1. u.email # c.email /\ u.username # c.username
      BY <1>3 DEF Account!Clashes, Account!ByEmail, Account!ByUsername
    <3>2. Lower[u.username] = u.username /\ Lower[c.username] = c.username
      BY <1>1, CanonicalNames DEF AccountInv, AccountsTypeOK, Account!TypeOK, Account!User
    <3> QED BY <3>1, <3>2
  <2>7. UniqueAccounts'
    BY <2>1, <2>2, <2>6 DEF AccountInv, UniqueAccounts, Account!UniqueAccounts
  <2>8. AckedHaveRows'
    BY <2>1, <2>2 DEF AccountInv, AckedHaveRows
  <2> QED BY <2>4, <2>5, <2>7, <2>8 DEF AccountInv
<1> QED BY <1>2, <1>3 DEF Account!Insert

\* The invariant holds initially and every step keeps it.
LEMMA AccountInvariance == Account!Spec => []AccountInv
<1>1. Account!Init => AccountInv
  <2> SUFFICES ASSUME Account!Init PROVE AccountInv
    OBVIOUS
  <2>1. AccountsTypeOK
    BY AccountsAssumption DEF Account!Init, AccountsTypeOK, Account!TypeOK
  <2> QED BY <2>1 DEF Account!Init, AccountInv, CallsMatch, UniqueAccounts,
             Account!UniqueAccounts, AckedHaveRows
<1>2. AccountInv /\ [Account!Next]_Account!vars => AccountInv'
  <2> SUFFICES ASSUME AccountInv, [Account!Next]_Account!vars PROVE AccountInv'
    OBVIOUS
  <2>1. CASE UNCHANGED Account!vars
    BY <2>1 DEF Account!vars, AccountInv, AccountsTypeOK, Account!TypeOK, CallsMatch,
       UniqueAccounts, Account!UniqueAccounts, AckedHaveRows
  <2> QED BY <2>1, ReadKeeps, InsertKeeps DEF Account!Next
<1> QED BY <1>1, <1>2, PTL DEF Account!Spec

\* However many registrations overlap, accounts have different addresses and
\* usernames that differ in more than case.
THEOREM AccountsAreUnique == Account!Spec => []UniqueAccounts
<1>1. AccountInv => UniqueAccounts
  BY DEF AccountInv
<1> QED BY <1>1, AccountInvariance, PTL

\* Every variable keeps its type; usernames are stored in lower case.
THEOREM AccountsTypeCorrect == Account!Spec => []AccountsTypeOK
<1>1. AccountInv => AccountsTypeOK
  BY DEF AccountInv
<1> QED BY <1>1, AccountInvariance, PTL

\* A registration answered with 201 is never undone by another one: its
\* credentials are not turned away.
THEOREM RegisteredUsersLogIn == Account!Spec => RegisteredCanLogIn
<1> DEFINE Login(r) == /\ stmt[r] = "authenticate" /\ stmt'[r] = "idle"
                       /\ [email |-> form[r].email, password |-> form[r].password] \in acked
<1>1. AccountInv /\ [Account!Next]_Account!vars
        => [\A r \in Requests : Login(r) => answer' # 403]_Account!vars
  <2> SUFFICES ASSUME AccountInv, Account!Next, NEW r \in Requests, Login(r)
               PROVE  answer' # 403
    OBVIOUS
  <2>1. PICK q \in Requests :
          \/ \E c \in Account!RegisterCalls \cup Account!LoginCalls : Account!Receive(q, c)
          \/ Account!CheckEmail(q) \/ Account!CheckUsername(q) \/ Account!Insert(q)
          \/ Account!Authenticate(q) \/ Account!Abort(q)
    BY DEF Account!Next
  <2>2. Account!Verified(form[r])
    BY DEF AccountInv, AckedHaveRows, Account!Verified, Account!ByEmail
  <2>3. CASE q # r
    BY <2>1, <2>3 DEF AccountInv, AccountsTypeOK, Account!TypeOK, Account!Receive,
       Account!CheckEmail, Account!CheckUsername, Account!Insert, Account!Authenticate,
       Account!Abort, Account!Answer, Account!Goto
  <2>4. CASE q = r
    <3>1. Account!Authenticate(r) \/ Account!Abort(r)
      BY <2>1, <2>4 DEF Account!Receive, Account!CheckEmail, Account!CheckUsername, Account!Insert
    <3> QED BY <2>2, <3>1 DEF Account!Authenticate, Account!Abort, Account!Answer
  <2> QED BY <2>3, <2>4
<1> QED BY <1>1, AccountInvariance, PTL DEF Account!Spec, RegisteredCanLogIn,
           Account!RegisteredCanLogIn

-------------------------------------------------------------------------------
(* Sessions *)

\* Who has the check of the account behind them was not late, and a late request
\* is one whose account is inactive for good.
SessionInv ==
  /\ SessionsTypeOK
  /\ \A r \in Requests :
       /\ step[r] # "idle" => asked[r] # Session!NoCall
       /\ step[r] = "decode" => asked[r].op \in {"refresh", "protected"}
       /\ step[r] = "issue" => ~late[r]
       /\ late[r] => step[r] # "idle" /\ ~active[asked[r].user]

\* A call names an account; one with a token does not come as a login.
LEMMA SessionCalls ==
  ASSUME NEW c \in Session!LoginCalls \cup Session!TokenCalls, tokens \in SUBSET Session!Tokens
  PROVE  /\ c # Session!NoCall /\ c.user \in Holders
         /\ c.op \in {"login", "refresh", "protected"}
<1>1. \A t \in Session!Tokens : t.sub \in Holders
  BY DEF Session!Tokens, Session!Token
<1>2. c.op \in {"login", "refresh", "protected"} /\ c.user \in Holders
  BY <1>1 DEF Session!LoginCalls, Session!TokenCalls
<1> QED BY <1>2 DEF Session!NoCall

\* Tokens that are issued add to the calls there can be.
LEMMA MoreTokens ==
  ASSUME tokens \subseteq tokens'
  PROVE  Session!TokenCalls \subseteq Session!TokenCalls'
BY DEF Session!TokenCalls

\* Answering a request changes its slot only, and forgets it was late.
LEMMA SessionAnswer ==
  ASSUME SessionInv, NEW r \in Requests, NEW code \in {0, 200, 401, 403}, Session!Answer(r, code),
         UNCHANGED <<active, clock>>, tokens \subseteq tokens', tokens' \in SUBSET Session!Tokens
  PROVE  SessionInv'
<1>1. SessionsTypeOK'
  <2>1. /\ step' = [step EXCEPT ![r] = "idle"] /\ asked' = [asked EXCEPT ![r] = Session!NoCall]
        /\ late' = [late EXCEPT ![r] = FALSE] /\ status' = code
    BY DEF Session!Answer
  <2> QED
    BY <2>1, MoreTokens DEF SessionInv, SessionsTypeOK, Session!TypeOK, Session!LoginCalls,
                             Session!NoCall
<1>2. ASSUME NEW q \in Requests
      PROVE  /\ step'[q] # "idle" => asked'[q] # Session!NoCall
             /\ step'[q] = "decode" => asked'[q].op \in {"refresh", "protected"}
             /\ step'[q] = "issue" => ~late'[q]
             /\ late'[q] => step'[q] # "idle" /\ ~active'[asked'[q].user]
  BY DEF SessionInv, SessionsTypeOK, Session!TypeOK, Session!Answer
<1> QED BY <1>1, <1>2 DEF SessionInv, Session!NoCall

\* A request that goes on to its next statement, having shown it may.
LEMMA SessionGoto ==
  ASSUME SessionInv, NEW r \in Requests, NEW next \in {"user", "issue"}, Session!Goto(r, next),
         step[r] # "idle", next = "issue" => ~late[r], UNCHANGED <<active, clock, tokens>>
  PROVE  SessionInv'
<1>1. SessionsTypeOK'
  BY DEF SessionInv, SessionsTypeOK, Session!TypeOK, Session!Goto, Session!TokenCalls
<1>2. ASSUME NEW q \in Requests
      PROVE  /\ step'[q] # "idle" => asked'[q] # Session!NoCall
             /\ step'[q] = "decode" => asked'[q].op \in {"refresh", "protected"}
             /\ step'[q] = "issue" => ~late'[q]
             /\ late'[q] => step'[q] # "idle" /\ ~active'[asked'[q].user]
  BY DEF SessionInv, SessionsTypeOK, Session!TypeOK, Session!Goto
<1> QED BY <1>1, <1>2 DEF SessionInv, Session!NoCall

\* The steps of a request.
SessionStep(r) == \/ \E c \in Session!LoginCalls \cup Session!TokenCalls : Session!Receive(r, c)
                  \/ Session!Decode(r) \/ Session!FindUser(r) \/ Session!Issue(r)

\* A request that came too late is at most told so; the others may pass.
LEMMA SessionStepKeeps ==
  ASSUME SessionInv, NEW r \in Requests, SessionStep(r)
  PROVE  SessionInv'
<1>1. ASSUME NEW c \in Session!LoginCalls \cup Session!TokenCalls, Session!Receive(r, c)
      PROVE  SessionInv'
  <2>1. c # Session!NoCall /\ c.user \in Holders /\ c.op \in {"login", "refresh", "protected"}
    BY SessionCalls DEF SessionInv, SessionsTypeOK, Session!TypeOK
  <2>2. SessionsTypeOK'
    BY <1>1, <2>1 DEF SessionInv, SessionsTypeOK, Session!TypeOK, Session!Receive,
                      Session!TokenCalls
  <2>3. ASSUME NEW q \in Requests
        PROVE  /\ step'[q] # "idle" => asked'[q] # Session!NoCall
               /\ step'[q] = "decode" => asked'[q].op \in {"refresh", "protected"}
               /\ step'[q] = "issue" => ~late'[q]
               /\ late'[q] => step'[q] # "idle" /\ ~active'[asked'[q].user]
    BY <1>1, <2>1 DEF SessionInv, SessionsTypeOK, Session!TypeOK, Session!Receive
  <2> QED BY <2>2, <2>3 DEF SessionInv, Session!NoCall
<1>2. CASE Session!Decode(r)
  BY <1>2, SessionAnswer, SessionGoto
     DEF Session!Decode, SessionInv, SessionsTypeOK, Session!TypeOK
<1>3. CASE Session!FindUser(r)
  <2>1. late[r] => ~Session!MayPass(asked[r].user)
    BY DEF SessionInv, Session!MayPass
  <2>2. step[r] # "idle" /\ UNCHANGED <<active, tokens, clock>> /\ tokens \in SUBSET Session!Tokens
    BY <1>3 DEF Session!FindUser, SessionInv, SessionsTypeOK, Session!TypeOK
  <2>3. \/ \E code \in {200, 401, 403} : Session!Answer(r, code)
        \/ Session!MayPass(asked[r].user) /\ Session!Goto(r, "issue")
    BY <1>3 DEF Session!FindUser
  <2> QED BY <2>1, <2>2, <2>3, SessionAnswer, SessionGoto
<1>4. CASE Session!Issue(r)
  <2>1. asked[r].user \in Holders
    BY <1>4, SessionCalls DEF Session!Issue, SessionInv, SessionsTypeOK, Session!TypeOK
  <2>2. clock \in Times /\ tokens \in SUBSET Session!Tokens
    BY DEF SessionInv, SessionsTypeOK, Session!TypeOK
  <2>3. /\ Session!create_access_token(asked[r].user) \in Session!Tokens
        /\ Session!create_refresh_token(asked[r].user) \in Session!Tokens
    <3> DEFINE pair(u, t) == {Session!Token(u, "access", t, ACCESS_TOKEN_EXPIRE_MINUTES),
                              Session!Token(u, "refresh", t, REFRESH_TOKEN_EXPIRE_DAYS)}
    <3>1. pair(asked[r].user, clock) \in {pair(u, t) : u \in Holders, t \in Times}
      BY <2>1, <2>2
    <3>2. Session!Tokens = UNION {pair(u, t) : u \in Holders, t \in Times}
      BY DEF Session!Tokens
    <3>3. pair(asked[r].user, clock) \subseteq Session!Tokens
      <4> HIDE DEF pair
      <4> QED BY <3>1, <3>2
    <3>4. pair(asked[r].user, clock)
            = {Session!create_access_token(asked[r].user), Session!create_refresh_token(asked[r].user)}
      BY DEF Session!create_access_token, Session!create_refresh_token
    <3> QED BY <3>3, <3>4
  <2> QED BY <1>4, <2>2, <2>3, SessionAnswer DEF Session!Issue
<1> QED BY <1>1, <1>2, <1>3, <1>4 DEF SessionStep

\* The invariant holds initially and every step keeps it; nobody is activated.
LEMMA SessionInvariance == Session!Spec => []SessionInv
<1>1. Session!Init => SessionInv
  BY DEF Session!Init, SessionInv, SessionsTypeOK, Session!TypeOK
<1>2. SessionInv /\ [Session!Next]_Session!vars => SessionInv'
  <2> SUFFICES ASSUME SessionInv, [Session!Next]_Session!vars PROVE SessionInv'
    OBVIOUS
  <2>1. ASSUME NEW u \in Holders, Session!Deactivate(u) PROVE SessionInv'
    BY <2>1 DEF SessionInv, SessionsTypeOK, Session!TypeOK, Session!Deactivate, Session!NoCall,
                Session!TokenCalls
  <2>2. CASE Session!Tick
    BY <2>2 DEF SessionInv, SessionsTypeOK, Session!TypeOK, Session!Tick, Session!NoCall,
                Session!TokenCalls
  <2>3. CASE UNCHANGED Session!vars
    BY <2>3 DEF SessionInv, SessionsTypeOK, Session!TypeOK, Session!vars, Session!NoCall,
                Session!TokenCalls
  <2> QED BY <2>1, <2>2, <2>3, SessionStepKeeps DEF Session!Next, SessionStep
<1> QED BY <1>1, <1>2, PTL DEF Session!Spec

\* Sessions: every variable keeps its type.
THEOREM SessionsTypeCorrect == Session!Spec => []SessionsTypeOK
<1>1. SessionInv => SessionsTypeOK
  BY DEF SessionInv
<1> QED BY <1>1, SessionInvariance, PTL

\* DeactivatedStayOut: no endpoint answers 200 to a request that came after the
\* deactivation, whatever tokens it carries and whoever refreshes meanwhile.
THEOREM TheDeactivatedStayOut == Session!Spec => DeactivatedStayOut
<1> DEFINE Out(r) == late[r] /\ step'[r] = "idle" => status' # 200
<1>1. SessionInv /\ [Session!Next]_Session!vars => [\A r \in Requests : Out(r)]_Session!vars
  <2> SUFFICES ASSUME SessionInv, Session!Next, NEW r \in Requests, late[r], step'[r] = "idle"
               PROVE  status' # 200
    OBVIOUS
  <2>1. step[r] # "idle" /\ step[r] # "issue" /\ ~active[asked[r].user]
    BY DEF SessionInv
  <2>2. PICK q \in Requests : SessionStep(q)
    BY <2>1 DEF Session!Next, SessionStep, Session!Deactivate, Session!Tick
  <2>3. q = r
    BY <2>1, <2>2 DEF SessionStep, SessionInv, SessionsTypeOK, Session!TypeOK, Session!Receive,
                      Session!Decode, Session!FindUser, Session!Issue, Session!Answer, Session!Goto
  <2> QED
    BY <2>1, <2>2, <2>3 DEF SessionStep, SessionInv, SessionsTypeOK, Session!TypeOK,
                            Session!Receive, Session!Decode, Session!FindUser, Session!Issue,
                            Session!Answer, Session!Goto, Session!MayPass
<1> QED BY <1>1, SessionInvariance, PTL
        DEF Session!Spec, DeactivatedStayOut, Session!DeactivatedStayOut

-------------------------------------------------------------------------------
(* Listings *)

\* What an ORDER BY needs: rows it can compare, no two of them the same.
Sortable(L) == /\ IsFiniteSet(L)
               /\ \A e \in L : e.created_at \in Nat /\ e.date_happened \in Nat
               /\ \A e, f \in L : e.created_at = f.created_at => e = f

RankIn(L, e) == Cardinality({f \in L : Listing!Precedes(f, e)})

\* The rank of a row is its distance from the top.
LEMMA RankFacts ==
  ASSUME NEW L, Sortable(L)
  PROVE  /\ Cardinality(L) \in Nat
         /\ \A e \in L : RankIn(L, e) \in Nat /\ RankIn(L, e) < Cardinality(L)
         /\ \A e, f \in L : RankIn(L, e) = RankIn(L, f) => e = f
<1> DEFINE above(e) == {f \in L : Listing!Precedes(f, e)}
<1>1. IsFiniteSet(L) /\ Cardinality(L) \in Nat
  BY FS_CardinalityType DEF Sortable
<1>2. ASSUME NEW e \in L
      PROVE  /\ IsFiniteSet(above(e)) /\ Cardinality(above(e)) \in Nat
             /\ e \notin above(e) /\ Cardinality(above(e)) < Cardinality(L)
  <2>1. above(e) \in SUBSET L /\ e \notin above(e)
    BY DEF Sortable, Listing!Precedes
  <2> HIDE DEF above
  <2>2. IsFiniteSet(above(e)) /\ Cardinality(above(e)) <= Cardinality(L)
        /\ (Cardinality(L) = Cardinality(above(e)) => L = above(e))
    BY <1>1, <2>1, FS_Subset
  <2>3. Cardinality(above(e)) \in Nat
    BY <2>2, FS_CardinalityType
  <2> QED BY <1>1, <2>1, <2>2, <2>3
<1>3. ASSUME NEW e \in L, NEW f \in L, Listing!Precedes(e, f)
      PROVE  Cardinality(above(e)) < Cardinality(above(f))
  <2>1. above(e) \in SUBSET above(f) /\ e \in above(f)
    BY <1>3 DEF Sortable, Listing!Precedes
  <2>2. IsFiniteSet(above(f)) /\ e \notin above(e)
        /\ Cardinality(above(e)) \in Nat /\ Cardinality(above(f)) \in Nat
    BY <1>2
  <2> HIDE DEF above
  <2>3. Cardinality(above(e)) <= Cardinality(above(f))
        /\ (Cardinality(above(f)) = Cardinality(above(e)) => above(f) = above(e))
    BY <2>1, <2>2, FS_Subset
  <2> QED BY <2>1, <2>2, <2>3
<1>4. \A e, f \in L : e # f => Listing!Precedes(e, f) \/ Listing!Precedes(f, e)
  BY DEF Sortable, Listing!Precedes
<1>5. \A e \in L : RankIn(L, e) = Cardinality(above(e))
  BY DEF RankIn
<1> HIDE DEF above
<1>6. ASSUME NEW e \in L, NEW f \in L, e # f PROVE RankIn(L, e) # RankIn(L, f)
  <2>1. Cardinality(above(e)) < Cardinality(above(f)) \/ Cardinality(above(f)) < Cardinality(above(e))
    BY <1>3, <1>4, <1>6
  <2> QED BY <1>2, <1>5, <2>1
<1> QED BY <1>1, <1>2, <1>5, <1>6

\* Every place on the list is taken.
LEMMA RankOnto ==
  ASSUME NEW L, Sortable(L), NEW n \in Nat, n < Cardinality(L)
  PROVE  \E e \in L : RankIn(L, e) = n
<1> DEFINE c == Cardinality(L)
           rank == [e \in L |-> RankIn(L, e)]
<1>1. c \in Nat /\ rank \in Injection(L, 0..(c - 1))
  BY RankFacts DEF Injection, IsInjective
<1>2. IsFiniteSet(0..(c - 1)) /\ Cardinality(0..(c - 1)) = c
  BY <1>1, FS_Interval
<1> HIDE DEF rank
<1>3. rank \in Surjection(L, 0..(c - 1))
  BY <1>1, <1>2, FS_Injection
<1>4. n \in 0..(c - 1)
  BY <1>1
<1>5. \E e \in L : rank[e] = n
  BY <1>3, <1>4 DEF Surjection
<1> QED BY <1>5 DEF rank

\* A page that is not full is the last; a full one lies within the list.
LEMMA PageSize ==
  ASSUME NEW L, Sortable(L), NEW n \in Nat, NEW k \in Nat \ {0}
  PROVE  LET P == {e \in L : n <= RankIn(L, e) /\ RankIn(L, e) < n + k}
         IN  /\ Cardinality(P) < k => \A e \in L : RankIn(L, e) < n + k
             /\ Cardinality(P) >= k => n + k <= Cardinality(L)
<1> DEFINE P == {e \in L : n <= RankIn(L, e) /\ RankIn(L, e) < n + k}
           rank == [e \in P |-> RankIn(L, e)]
           I == n..(n + k - 1)
<1>1. IsFiniteSet(I) /\ Cardinality(I) = k
  BY FS_Interval
<1>2. IsFiniteSet(P) /\ Cardinality(P) \in Nat
  BY FS_Subset, FS_CardinalityType DEF Sortable
<1>3. rank \in Injection(P, I)
  BY RankFacts DEF Injection, IsInjective
<1>4. ASSUME Cardinality(P) < k, NEW e \in L, RankIn(L, e) >= n + k PROVE FALSE
  <2>1. \A i \in I : \E f \in P : RankIn(L, f) = i
    <3> SUFFICES ASSUME NEW i \in I PROVE \E f \in P : RankIn(L, f) = i
      OBVIOUS
    <3>1. i \in Nat /\ i < Cardinality(L)
      BY <1>4, RankFacts
    <3>2. PICK f \in L : RankIn(L, f) = i
      BY <3>1, RankOnto
    <3> QED BY <3>2
  <2>2. rank \in Surjection(P, I)
    BY <1>3, <2>1 DEF Surjection, Injection
  <2> HIDE DEF P, rank, I
  <2>3. Cardinality(I) <= Cardinality(P)
    BY <1>2, <2>2, FS_Surjection
  <2> QED BY <1>1, <1>2, <1>4, <2>3
<1>5. ASSUME Cardinality(P) >= k PROVE n + k <= Cardinality(L)
  <2>1. rank \in Surjection(P, I)
    <3> HIDE DEF P, rank, I
    <3>1. Cardinality(P) <= Cardinality(I)
          /\ (Cardinality(P) = Cardinality(I) <=> rank \in Surjection(P, I))
      BY <1>1, <1>3, FS_Injection
    <3> QED BY <1>1, <1>2, <1>5, <3>1
  <2>2. n + k - 1 \in I
    OBVIOUS
  <2>3. PICK f \in P : rank[f] = n + k - 1
    <3> HIDE DEF P, rank, I
    <3> QED BY <2>1, <2>2 DEF Surjection
  <2>4. n + k - 1 < Cardinality(L) /\ Cardinality(L) \in Nat
    BY <2>3, RankFacts
  <2> QED BY <2>4
<1>6. \A e \in L : RankIn(L, e) \in Nat
  BY RankFacts
<1> QED BY <1>4, <1>5, <1>6

\* Rows that come in push the others down and nothing up.
LEMMA RankGrows ==
  ASSUME NEW L, NEW M, Sortable(M), L \subseteq M, NEW e \in L
  PROVE  RankIn(L, e) <= RankIn(M, e)
<1> DEFINE A == {f \in L : Listing!Precedes(f, e)}
           B == {f \in M : Listing!Precedes(f, e)}
<1>1. A \in SUBSET B /\ B \in SUBSET M /\ IsFiniteSet(M)
  BY DEF Sortable
<1> HIDE DEF A, B
<1>2. Cardinality(A) <= Cardinality(B)
  BY <1>1, FS_Subset
<1> QED BY <1>2 DEF RankIn, A, B

\* A row that goes lets the others move up by one place at most.
LEMMA RankDrops ==
  ASSUME NEW L, Sortable(L), NEW d \in L, NEW e \in L \ {d}
  PROVE  RankIn(L, e) - 1 <= RankIn(L \ {d}, e)
<1> DEFINE A == {f \in L : Listing!Precedes(f, e)}
           B == {f \in L \ {d} : Listing!Precedes(f, e)}
<1>1. B = A \ {d} /\ A \in SUBSET L /\ IsFiniteSet(L)
  BY DEF Sortable
<1> HIDE DEF A, B
<1>2. IsFiniteSet(A) /\ Cardinality(A) \in Nat
  BY <1>1, FS_Subset, FS_CardinalityType
<1>3. Cardinality(B) = IF d \in A THEN Cardinality(A) - 1 ELSE Cardinality(A)
  BY <1>1, <1>2, FS_RemoveElement
<1>4. Cardinality(A) - 1 <= Cardinality(B)
  BY <1>2, <1>3
<1> QED BY <1>4 DEF RankIn, A, B

\* The rows of L with a stamp in W that stand before place n.
Passed(L, W, n) == {e \in L : e.created_at \in W /\ RankIn(L, e) < n}

\* They are finitely many.
LEMMA PassedFinite ==
  ASSUME NEW L, Sortable(L), NEW W, NEW n
  PROVE  IsFiniteSet(Passed(L, W, n)) /\ Cardinality(Passed(L, W, n)) \in Nat
<1>1. Passed(L, W, n) \in SUBSET L /\ IsFiniteSet(L)
  BY DEF Passed, Sortable
<1> QED BY <1>1, FS_Subset, FS_CardinalityType

\* More rows, and fewer to wait for: no more of these have been passed.
LEMMA PassedGrows ==
  ASSUME NEW L, NEW M, Sortable(M), L \subseteq M, NEW n \in Nat,
         NEW W, \A e \in M : e.created_at \in W => e \in L
  PROVE  Cardinality(Passed(M, W, n)) <= Cardinality(Passed(L, W, n))
<1>1. Sortable(L)
  BY FS_Subset DEF Sortable
<1>2. ASSUME NEW e \in Passed(M, W, n)
      PROVE  e \in Passed(L, W, n)
  <2>1. e \in L /\ RankIn(L, e) <= RankIn(M, e)
    BY RankGrows DEF Passed
  <2>2. RankIn(L, e) \in Nat /\ RankIn(M, e) \in Nat
    BY <1>1, <2>1, RankFacts
  <2> QED BY <2>1, <2>2 DEF Passed
<1>3. Passed(M, W, n) \in SUBSET Passed(L, W, n) /\ Passed(L, W, n) \in SUBSET L
  BY <1>2 DEF Passed
<1>4. IsFiniteSet(Passed(L, W, n))
  BY <1>1, <1>3, FS_Subset DEF Sortable
<1> QED BY <1>3, <1>4, FS_Subset

\* One row less, and one more has been passed at most: the one that moved up from
\* place n.
LEMMA PassedDrops ==
  ASSUME NEW L, Sortable(L), NEW d \in L, NEW n \in Nat, NEW W, NEW V, V \subseteq W
  PROVE  Cardinality(Passed(L \ {d}, V, n)) <= Cardinality(Passed(L, W, n)) + 1
<1> DEFINE P == Passed(L, W, n)
           Q == Passed(L \ {d}, V, n)
<1>1. Sortable(L \ {d})
  BY FS_Subset DEF Sortable
<1>2. IsFiniteSet(P) /\ Cardinality(P) \in Nat
  <2>1. P \in SUBSET L /\ IsFiniteSet(L)
    BY DEF Passed, Sortable
  <2> QED BY <2>1, FS_Subset, FS_CardinalityType
<1>3. ASSUME NEW e \in Q
      PROVE  e \in P \/ (e \in L /\ RankIn(L, e) = n)
  <2>1. e \in L \ {d} /\ e.created_at \in W /\ RankIn(L \ {d}, e) < n
    BY DEF Passed
  <2>2. RankIn(L, e) - 1 <= RankIn(L \ {d}, e)
    BY <2>1, RankDrops
  <2>3. RankIn(L, e) \in Nat /\ RankIn(L \ {d}, e) \in Nat
    BY <1>1, <2>1, RankFacts
  <2> QED BY <2>1, <2>2, <2>3 DEF Passed
<1> HIDE DEF P, Q
<1>4. CASE Q \subseteq P
  <2>1. Q \in SUBSET P
    BY <1>4
  <2>2. IsFiniteSet(Q) /\ Cardinality(Q) <= Cardinality(P)
    BY <1>2, <2>1, FS_Subset
  <2>3. Cardinality(Q) \in Nat
    BY <2>2, FS_CardinalityType
  <2> QED BY <1>2, <2>2, <2>3 DEF P, Q
<1>5. CASE ~ (Q \subseteq P)
  <2>1. PICK x \in Q : x \in L /\ RankIn(L, x) = n
    BY <1>3, <1>5
  <2>2. Q \in SUBSET (P \cup {x})
    BY <1>3, <2>1, RankFacts
  <2>3. IsFiniteSet(P \cup {x}) /\ Cardinality(P \cup {x}) <= Cardinality(P) + 1
        /\ Cardinality(P \cup {x}) \in Nat
    <3>1. /\ IsFiniteSet(P \cup {x})
          /\ Cardinality(P \cup {x}) = IF x \in P THEN Cardinality(P) ELSE Cardinality(P) + 1
      BY <1>2, FS_AddElement
    <3> QED BY <1>2, <3>1
  <2>4. IsFiniteSet(Q) /\ Cardinality(Q) <= Cardinality(P \cup {x})
    BY <2>2, <2>3, FS_Subset
  <2>5. Cardinality(Q) \in Nat
    BY <2>4, FS_CardinalityType
  <2> QED BY <1>2, <2>3, <2>4, <2>5 DEF P, Q
<1> QED BY <1>4, <1>5

\* The rows have different stamps; what has been passed without being listed, and
\* in the end what has not been listed at all, is no more than what was deleted.
Reading == page \in {"members", "count", "page"}
Waiting == before \ listed
ListingInv ==
  /\ ListingsTypeOK
  /\ Sortable(recorded)
  /\ deleted \subseteq Listing!Stamped(recorded)
  /\ deleted \cap Listing!Stamped(Listing!Live) = {}
  /\ Reading => /\ skip <= Cardinality(Stamps)
                /\ Cardinality(Passed(Listing!Live, Waiting, skip)) <= Cardinality(deleted)
  /\ MissedByDeletions

\* The live rows are sortable, have different stamps and are as many at most.
LEMMA LiveFacts ==
  ASSUME ListingInv
  PROVE  /\ Listing!Live \subseteq recorded /\ Sortable(Listing!Live)
         /\ Cardinality(Listing!Live) \in Nat /\ Cardinality(Stamps) \in Nat
         /\ Cardinality(Listing!Live) <= Cardinality(Stamps)
         /\ IsFiniteSet(deleted) /\ Cardinality(deleted) \in Nat
<1> DEFINE L == Listing!Live
           stamp == [e \in L |-> e.created_at]
<1>1. L \in SUBSET recorded
  BY DEF Listing!Live
<1>2. Sortable(L)
  BY <1>1, FS_Subset DEF ListingInv, Sortable
<1>3. \A e \in L : e.created_at \in Stamps
  BY <1>1 DEF ListingInv, ListingsTypeOK, Listing!TypeOK, Listing!Expense
<1>4. stamp \in Injection(L, Stamps)
  BY <1>2, <1>3 DEF Sortable, Injection, IsInjective
<1> HIDE DEF stamp, L
<1>5. IsFiniteSet(L) /\ Cardinality(L) <= Cardinality(Stamps)
  BY <1>4, ListingAssumption, FS_Injection
<1>6. deleted \in SUBSET Stamps
  BY DEF ListingInv, ListingsTypeOK, Listing!TypeOK, Listing!Stamped, Listing!Expense
<1>7. IsFiniteSet(deleted)
  BY <1>6, ListingAssumption, FS_Subset
<1> QED BY <1>1, <1>2, <1>5, <1>7, ListingAssumption, FS_CardinalityType DEF L

\* An instance of FiniteSets counts like any other.
LEMMA Counting == \A S : Listing!Cardinality(S) = Cardinality(S)
BY DEF Listing!Cardinality, Cardinality

\* What a page is, of the live rows.
LEMMA PageIs ==
  ASSUME NEW n
  PROVE  Listing!Page(n) = {e \in Listing!Live : n <= RankIn(Listing!Live, e)
                                                /\ RankIn(Listing!Live, e) < n + Limit}
BY Counting DEF Listing!Page, Listing!Rank, RankIn

\* Nothing has been passed at the top of the list.
LEMMA NothingPassed ==
  ASSUME NEW L, Sortable(L), NEW W
  PROVE  Passed(L, W, 0) = {}
<1>1. \A e \in L : ~(RankIn(L, e) < 0)
  BY RankFacts
<1> QED BY <1>1 DEF Passed

\* The statements before the page change nothing that matters.
LEMMA ReaderKeeps ==
  ASSUME ListingInv,
         Listing!Begin \/ Listing!CheckMember \/ Listing!Count \/ Listing!Close \/ Listing!ComeOrGo
  PROVE  ListingInv'
<1>1. UNCHANGED recorded /\ Listing!Live' = Listing!Live
  BY DEF Listing!Begin, Listing!CheckMember, Listing!Count, Listing!Close, Listing!ComeOrGo,
         Listing!rows, Listing!Live
<1>2. CASE Listing!Begin
  <2>1. page' = "members" /\ skip' = 0 /\ listed' = {} /\ deleted' = {}
        /\ before' = Listing!Stamped(Listing!Live) /\ UNCHANGED <<member, total>>
    BY <1>2 DEF Listing!Begin, Listing!rows
  <2>2. Cardinality(Stamps) \in Nat /\ Sortable(Listing!Live)
    BY LiveFacts
  <2>3. ListingsTypeOK'
    <3>1. total' \in 0..Listing!Cardinality(Stamps)
          /\ skip' \in 0..(Listing!Cardinality(Stamps) + Limit)
      BY <2>1, <2>2, Counting, ListingAssumption DEF ListingInv, ListingsTypeOK, Listing!TypeOK
    <3>2. before' \subseteq Listing!Stamped(Listing!Live)'
      BY <1>1, <2>1 DEF Listing!Stamped
    <3> QED BY <1>1, <2>1, <3>1, <3>2 DEF ListingInv, ListingsTypeOK, Listing!TypeOK
  <2>4. Cardinality(Passed(Listing!Live', Waiting', skip')) <= Cardinality(deleted')
    BY <1>1, <2>1, <2>2, NothingPassed, FS_EmptySet
  <2>5. Sortable(recorded)' /\ MissedByDeletions'
    BY <1>1, <2>1 DEF ListingInv, Sortable, MissedByDeletions, Listing!MissedByDeletions
  <2>6. deleted' \subseteq Listing!Stamped(recorded)'
        /\ deleted' \cap Listing!Stamped(Listing!Live)' = {}
    BY <2>1
  <2> QED BY <2>1, <2>2, <2>3, <2>4, <2>5, <2>6 DEF ListingInv, Reading
<1>3. CASE Listing!CheckMember \/ Listing!Count \/ Listing!Close \/ Listing!ComeOrGo
  <2>1. /\ UNCHANGED <<skip, listed, before, deleted>>
        /\ page' \in {"idle", "members", "count", "page", "done"}
        /\ Reading' => Reading
        /\ page' = "done" => page = "done"
        /\ total' \in {total, Cardinality(Listing!Live)}
        /\ member' \in BOOLEAN
    BY <1>3, Counting DEF Listing!CheckMember, Listing!Count, Listing!Close, Listing!ComeOrGo, Listing!rows,
                Reading, ListingInv, ListingsTypeOK, Listing!TypeOK
  <2>2. total' \in 0..Cardinality(Stamps)
    BY <2>1, LiveFacts, Counting DEF ListingInv, ListingsTypeOK, Listing!TypeOK
  <2>3. ListingsTypeOK'
    <3>1. total' \in 0..Listing!Cardinality(Stamps)
      BY <2>2, Counting
    <3>2. Listing!Stamped(Listing!Live)' = Listing!Stamped(Listing!Live)
      BY <1>1 DEF Listing!Stamped
    <3> QED BY <1>1, <2>1, <3>1, <3>2 DEF ListingInv, ListingsTypeOK, Listing!TypeOK
  <2> QED
    BY <1>1, <2>1, <2>3 DEF ListingInv, Sortable, Waiting, Listing!Stamped,
                            MissedByDeletions, Listing!MissedByDeletions
<1> QED BY <1>2, <1>3

\* A page lists whatever it passes, and a page that is not full passes all there is.
LEMMA ReadPageKeeps ==
  ASSUME ListingInv, Listing!ReadPage
  PROVE  ListingInv'
<1> DEFINE L == Listing!Live
           P == Listing!Page(skip)
<1>1. /\ page = "page" /\ UNCHANGED <<recorded, member, total, before, deleted>>
      /\ listed' = listed \cup Listing!Stamped(P) /\ skip' = skip + Limit
      /\ page' = IF Cardinality(P) < Limit THEN "done" ELSE "members"
      /\ L' = L
  BY Counting DEF Listing!ReadPage, Listing!rows, Listing!Live
<1>2. /\ Sortable(L) /\ L \subseteq recorded /\ Limit \in Nat \ {0} /\ skip \in Nat
      /\ Cardinality(L) <= Cardinality(Stamps) /\ Cardinality(Stamps) \in Nat
      /\ Cardinality(L) \in Nat
      /\ skip <= Cardinality(Stamps) /\ IsFiniteSet(deleted) /\ Cardinality(deleted) \in Nat
      /\ Cardinality(Passed(L, Waiting, skip)) <= Cardinality(deleted)
  BY <1>1, LiveFacts, Counting, ListingAssumption
     DEF ListingInv, Reading, ListingsTypeOK, Listing!TypeOK
<1>3. P = {e \in L : skip <= RankIn(L, e) /\ RankIn(L, e) < skip + Limit}
  BY PageIs
<1>4. /\ Cardinality(P) < Limit => \A e \in L : RankIn(L, e) < skip + Limit
      /\ Cardinality(P) >= Limit => skip + Limit <= Cardinality(L)
  BY <1>2, <1>3, PageSize
<1>5. Cardinality(P) \in Nat
  <2>1. P \in SUBSET L
    BY <1>3
  <2> HIDE DEF P
  <2> QED BY <1>2, <2>1, FS_Subset, FS_CardinalityType DEF Sortable
<1>6. /\ before \subseteq Listing!Stamped(L)
      /\ \A e, f \in recorded : e.created_at = f.created_at => e = f
      /\ P \subseteq L /\ \A e \in L : ~e.is_deleted
  BY <1>3 DEF ListingInv, ListingsTypeOK, Listing!TypeOK, Sortable, Listing!Live
<1> DEFINE W2 == before \ listed'
           Q == Passed(L, W2, skip + Limit)
<1>7. Q \subseteq Passed(L, Waiting, skip)
  <2> SUFFICES ASSUME NEW e \in Q PROVE e \in Passed(L, Waiting, skip)
    OBVIOUS
  <2>1. e \in L /\ e.created_at \in Waiting /\ RankIn(L, e) < skip + Limit /\ e \notin P
    BY <1>1 DEF Passed, Waiting, Listing!Stamped
  <2>2. RankIn(L, e) \in Nat
    BY <1>2, <2>1, RankFacts
  <2> HIDE DEF P, L
  <2> QED BY <1>2, <1>3, <2>1, <2>2 DEF Passed
<1>8. IsFiniteSet(Q) /\ Cardinality(Q) \in Nat /\ Cardinality(Q) <= Cardinality(deleted)
  <2>1. Passed(L, Waiting, skip) \in SUBSET L /\ Q \in SUBSET Passed(L, Waiting, skip)
    BY <1>7 DEF Passed
  <2> HIDE DEF Q, L
  <2>2. IsFiniteSet(Passed(L, Waiting, skip))
    BY <1>2, <2>1, FS_Subset DEF Sortable
  <2>3. IsFiniteSet(Q) /\ Cardinality(Q) <= Cardinality(Passed(L, Waiting, skip))
    BY <2>1, <2>2, FS_Subset
  <2> QED BY <1>2, <2>2, <2>3, FS_CardinalityType
<1>9. ASSUME page' = "done"
      PROVE  Cardinality(W2) <= Cardinality(deleted)
  <2> DEFINE stamp == [e \in Q |-> e.created_at]
  <2>1. \A e \in L : RankIn(L, e) < skip + Limit
    BY <1>1, <1>4, <1>9
  <2>2. \A w \in W2 : \E e \in Q : e.created_at = w
    BY <1>6, <2>1 DEF Listing!Stamped, Passed
  <2>3. \A e \in Q : e.created_at \in W2
    BY DEF Passed
  <2>4. stamp \in Surjection(Q, W2)
    <3> HIDE DEF Q, W2
    <3> QED BY <2>2, <2>3 DEF Surjection
  <2> HIDE DEF Q, W2, stamp
  <2>5. IsFiniteSet(W2) /\ Cardinality(W2) <= Cardinality(Q)
    BY <1>8, <2>4, FS_Surjection
  <2>6. Cardinality(W2) \in Nat
    BY <2>5, FS_CardinalityType
  <2> QED BY <1>2, <1>8, <2>5, <2>6
<1>10. ListingsTypeOK'
  <2>1. skip' \in 0..(Cardinality(Stamps) + Limit)
    <3> HIDE DEF P, L
    <3> QED BY <1>1, <1>2
  <2>2. \A e \in recorded : e.created_at \in listed' /\ e.is_deleted => e.created_at \in deleted
    BY <1>1, <1>2, <1>6 DEF Listing!Stamped, ListingInv, ListingsTypeOK, Listing!TypeOK
  <2>3. page' \in {"done", "members"}
    BY <1>1
  <2>4. before' \subseteq Listing!Stamped(L')
    BY <1>1, <1>6
  <2>5. skip' \in 0..(Listing!Cardinality(Stamps) + Limit)
    BY <2>1, Counting
  <2> HIDE DEF P
  <2> QED BY <1>1, <2>2, <2>3, <2>4, <2>5 DEF ListingInv, ListingsTypeOK, Listing!TypeOK
<1>11. Reading' => skip' <= Cardinality(Stamps)
  <2> HIDE DEF P, L
  <2> QED BY <1>1, <1>2, <1>4, <1>5 DEF Reading
<1>12. Cardinality(Passed(L', Waiting', skip')) <= Cardinality(deleted')
  BY <1>1, <1>8 DEF Waiting
<1>13. MissedByDeletions'
  BY <1>1, <1>9, Counting DEF MissedByDeletions, Listing!MissedByDeletions
<1>14. Sortable(recorded)' /\ deleted' \subseteq Listing!Stamped(recorded)'
       /\ deleted' \cap Listing!Stamped(L)' = {}
  BY <1>1 DEF ListingInv, Sortable, Listing!Stamped
<1> QED BY <1>10, <1>11, <1>12, <1>13, <1>14 DEF ListingInv

\* Who was waited for is live, and the row that comes in is a new one.
LEMMA RecordKeeps ==
  ASSUME ListingInv, NEW e \in Listing!Expense, Listing!Record(e)
  PROVE  ListingInv'
<1> DEFINE L == Listing!Live
           M == L \cup {e}
<1>1. /\ e.created_at \notin Listing!Stamped(recorded) /\ ~e.is_deleted
      /\ recorded' = recorded \cup {e}
      /\ UNCHANGED <<member, page, skip, total, listed, before, deleted>>
  BY DEF Listing!Record
<1>2. Listing!Live' = M /\ Listing!Stamped(recorded)' = Listing!Stamped(recorded) \cup {e.created_at}
      /\ Listing!Stamped(M) = Listing!Stamped(L) \cup {e.created_at}
      /\ Listing!Stamped(L) \subseteq Listing!Stamped(recorded)
  BY <1>1 DEF Listing!Live, Listing!Stamped
<1>3. Sortable(recorded)'
  <2>1. IsFiniteSet(recorded')
    BY <1>1, FS_AddElement DEF ListingInv, Sortable
  <2>2. \A f \in recorded : e.created_at # f.created_at
    BY <1>1 DEF Listing!Stamped
  <2>3. e.created_at \in Nat /\ e.date_happened \in Nat
    BY ListingAssumption DEF Listing!Expense
  <2> QED BY <1>1, <2>1, <2>2, <2>3 DEF ListingInv, Sortable
<1>4. ListingsTypeOK'
  <2>1. before \subseteq Listing!Stamped(L)
    BY DEF ListingInv, ListingsTypeOK, Listing!TypeOK
  <2>2. before' \subseteq Listing!Stamped(Listing!Live')
    BY <1>1, <1>2, <2>1
  <2> HIDE DEF L, M
  <2> QED BY <1>1, <2>2 DEF ListingInv, ListingsTypeOK, Listing!TypeOK
<1>5. deleted' \subseteq Listing!Stamped(recorded)'
      /\ deleted' \cap Listing!Stamped(Listing!Live)' = {}
  <2>1. deleted \subseteq Listing!Stamped(recorded) /\ deleted \cap Listing!Stamped(L) = {}
    BY DEF ListingInv
  <2>2. Listing!Stamped(Listing!Live)' = Listing!Stamped(M)
    BY <1>2 DEF Listing!Stamped
  <2> HIDE DEF L, M
  <2> QED BY <1>1, <1>2, <2>1, <2>2
<1>6. Reading' => /\ skip' <= Cardinality(Stamps)
                  /\ Cardinality(Passed(Listing!Live', Waiting', skip')) <= Cardinality(deleted')
  <2> SUFFICES ASSUME Reading
               PROVE  /\ skip <= Cardinality(Stamps)
                      /\ Cardinality(Passed(M, Waiting, skip)) <= Cardinality(deleted)
    BY <1>1, <1>2 DEF Reading, Waiting
  <2>1. Sortable(M)
    <3>1. M \in SUBSET recorded' /\ IsFiniteSet(recorded')
      BY <1>1, <1>3 DEF Sortable, Listing!Live
    <3>2. IsFiniteSet(M)
      BY <3>1, FS_Subset
    <3> QED BY <1>3, <3>1, <3>2 DEF Sortable
  <2>2. skip \in Nat /\ \A f \in M : f.created_at \in Waiting => f \in L
    <3>1. before \subseteq Listing!Stamped(L) /\ skip \in 0..(Listing!Cardinality(Stamps) + Limit)
      BY DEF ListingInv, ListingsTypeOK, Listing!TypeOK
    <3>2. e.created_at \notin Waiting
      BY <1>1, <1>2, <3>1 DEF Waiting
    <3> QED BY <3>1, <3>2
  <2>3. Cardinality(Passed(M, Waiting, skip)) <= Cardinality(Passed(L, Waiting, skip))
    <3> HIDE DEF M, L
    <3>1. L \subseteq M
      BY DEF M
    <3> QED BY <2>1, <2>2, <3>1, PassedGrows
  <2>4. /\ skip <= Cardinality(Stamps) /\ Cardinality(Passed(L, Waiting, skip)) <= Cardinality(deleted)
        /\ Sortable(L) /\ Cardinality(deleted) \in Nat
    BY LiveFacts DEF ListingInv
  <2>5. Cardinality(Passed(L, Waiting, skip)) \in Nat /\ Cardinality(Passed(M, Waiting, skip)) \in Nat
    BY <2>1, <2>4, PassedFinite
  <2> HIDE DEF L, M
  <2> QED BY <2>3, <2>4, <2>5
<1>7. MissedByDeletions'
  BY <1>1 DEF ListingInv, MissedByDeletions, Listing!MissedByDeletions
<1> QED BY <1>3, <1>4, <1>5, <1>6, <1>7 DEF ListingInv

\* A deletion lets one row slip past the reader at most, and is counted.
LEMMA DeleteKeeps ==
  ASSUME ListingInv, NEW d \in Listing!Live, Listing!Delete(d)
  PROVE  ListingInv'
<1> DEFINE L == Listing!Live
           M == L \ {d}
           gone == [d EXCEPT !.is_deleted = TRUE]
<1>1. /\ recorded' = (recorded \ {d}) \cup {gone}
      /\ before' = before \ {d.created_at} /\ deleted' = deleted \cup {d.created_at}
      /\ UNCHANGED <<member, page, skip, total, listed>>
  BY DEF Listing!Delete
<1>2. /\ d \in recorded /\ ~d.is_deleted /\ recorded \subseteq Listing!Expense
      /\ gone \in Listing!Expense /\ gone.is_deleted
      /\ gone.created_at = d.created_at /\ gone.date_happened = d.date_happened
  BY DEF ListingInv, ListingsTypeOK, Listing!TypeOK, Listing!Live, Listing!Expense
<1> HIDE DEF gone
<1>3. /\ Listing!Live' = M
      /\ Listing!Stamped(recorded)' = Listing!Stamped(recorded)
      /\ Listing!Stamped(M) = Listing!Stamped(L) \ {d.created_at}
      /\ d.created_at \in Listing!Stamped(L)
  <2>1. \A f \in L : f.created_at = d.created_at => f = d
    BY <1>2 DEF ListingInv, Sortable, Listing!Live
  <2>2. Listing!Live' = M
    BY <1>1, <1>2 DEF Listing!Live
  <2>3. Listing!Stamped(recorded)' = Listing!Stamped(recorded)
    BY <1>1, <1>2 DEF Listing!Stamped
  <2> HIDE DEF L
  <2>4. d \in L
    BY DEF L
  <2> QED BY <2>1, <2>2, <2>3, <2>4 DEF Listing!Stamped
<1>4. Sortable(recorded)'
  <2>1. IsFiniteSet(recorded')
    <3>1. IsFiniteSet(recorded \ {d})
      BY FS_Subset DEF ListingInv, Sortable
    <3> QED BY <1>1, <3>1, FS_AddElement
  <2> QED BY <1>1, <1>2, <2>1 DEF ListingInv, Sortable
<1>5. Sortable(L) /\ IsFiniteSet(deleted) /\ Cardinality(deleted) \in Nat /\ IsFiniteSet(Stamps)
      /\ Cardinality(deleted') = Cardinality(deleted) + 1
  <2>1. d.created_at \notin deleted
    BY <1>3 DEF ListingInv
  <2> QED BY <1>1, <2>1, LiveFacts, ListingAssumption, FS_AddElement
<1>6. before \subseteq Listing!Stamped(L) /\ before \subseteq Stamps
      /\ skip \in Nat
  BY DEF ListingInv, ListingsTypeOK, Listing!TypeOK, Listing!Live, Listing!Stamped, Listing!Expense
<1>7. ListingsTypeOK'
  <2>1. before' \subseteq Listing!Stamped(Listing!Live')
    <3> HIDE DEF L, M
    <3> QED BY <1>1, <1>3, <1>6
  <2>2. \A f \in recorded' : f.created_at \in listed' /\ f.is_deleted => f.created_at \in deleted'
    BY <1>1, <1>2 DEF ListingInv, ListingsTypeOK, Listing!TypeOK
  <2> QED BY <1>1, <1>2, <2>1, <2>2 DEF ListingInv, ListingsTypeOK, Listing!TypeOK
<1>8. deleted' \subseteq Listing!Stamped(recorded)'
      /\ deleted' \cap Listing!Stamped(Listing!Live)' = {}
  <2>1. deleted \subseteq Listing!Stamped(recorded) /\ deleted \cap Listing!Stamped(L) = {}
    BY DEF ListingInv
  <2>2. Listing!Stamped(Listing!Live)' = Listing!Stamped(M)
    BY <1>3 DEF Listing!Stamped
  <2>3. d.created_at \in Listing!Stamped(recorded)
    BY <1>2 DEF Listing!Stamped
  <2> HIDE DEF L, M
  <2> QED BY <1>1, <1>3, <2>1, <2>2, <2>3
<1>9. Reading' => /\ skip' <= Cardinality(Stamps)
                  /\ Cardinality(Passed(Listing!Live', Waiting', skip')) <= Cardinality(deleted')
  <2> DEFINE V == Waiting \ {d.created_at}
  <2> SUFFICES ASSUME Reading
               PROVE  /\ skip <= Cardinality(Stamps)
                      /\ Cardinality(Passed(M, V, skip)) <= Cardinality(deleted) + 1
    <3>1. Waiting' = V
      BY <1>1 DEF Waiting
    <3> HIDE DEF V, M
    <3> QED BY <1>1, <1>3, <1>5, <3>1 DEF Reading
  <2>1. /\ skip <= Cardinality(Stamps)
        /\ Cardinality(Passed(L, Waiting, skip)) <= Cardinality(deleted)
    BY DEF ListingInv
  <2>2. Cardinality(Passed(M, V, skip)) <= Cardinality(Passed(L, Waiting, skip)) + 1
    <3> HIDE DEF L
    <3>1. d \in L
      BY DEF L
    <3> QED BY <1>5, <1>6, <3>1, PassedDrops
  <2>3. Cardinality(Passed(L, Waiting, skip)) \in Nat /\ Cardinality(Passed(M, V, skip)) \in Nat
    <3>1. Sortable(M)
      BY <1>5, FS_Subset DEF Sortable
    <3> QED BY <1>5, <3>1, PassedFinite
  <2> HIDE DEF L, M, V
  <2> QED BY <1>5, <2>1, <2>2, <2>3
<1>10. MissedByDeletions'
  <2> SUFFICES ASSUME page = "done"
               PROVE  Cardinality(before' \ listed) <= Cardinality(deleted) + 1
    BY <1>1, <1>5, Counting DEF MissedByDeletions, Listing!MissedByDeletions
  <2>1. Cardinality(before \ listed) <= Cardinality(deleted)
    BY Counting DEF ListingInv, MissedByDeletions, Listing!MissedByDeletions
  <2> DEFINE S == before \ listed
             T == before' \ listed
  <2>2. T \in SUBSET S /\ S \in SUBSET Stamps
    BY <1>1, <1>6
  <2> HIDE DEF S, T
  <2>3. IsFiniteSet(S) /\ IsFiniteSet(T) /\ Cardinality(T) <= Cardinality(S)
    BY <1>5, <2>2, FS_Subset
  <2>4. Cardinality(S) \in Nat /\ Cardinality(T) \in Nat /\ Cardinality(S) <= Cardinality(deleted)
    BY <2>1, <2>3, FS_CardinalityType DEF S
  <2> QED BY <1>5, <2>3, <2>4 DEF T
<1> QED BY <1>4, <1>7, <1>8, <1>9, <1>10 DEF ListingInv

\* ListingInv holds in every reachable state.
LEMMA ListingInvariant == Listing!Spec => []ListingInv
<1>1. Listing!Init => ListingInv
  <2> SUFFICES ASSUME Listing!Init PROVE ListingInv
    OBVIOUS
  <2>1. recorded = {} /\ member = TRUE /\ page = "idle" /\ skip = 0 /\ total = 0
        /\ listed = {} /\ before = {} /\ deleted = {}
    BY DEF Listing!Init
  <2>2. Cardinality(Stamps) \in Nat /\ IsFiniteSet(recorded)
    BY <2>1, ListingAssumption, FS_CardinalityType, FS_EmptySet
  <2>3. ListingsTypeOK
    BY <2>1, <2>2, Counting, ListingAssumption DEF ListingsTypeOK, Listing!TypeOK
  <2> QED BY <2>1, <2>2, <2>3 DEF ListingInv, Sortable, Reading, MissedByDeletions,
                                Listing!MissedByDeletions
<1>2. ListingInv /\ UNCHANGED Listing!vars => ListingInv'
  BY DEF ListingInv, Listing!vars, Listing!rows, ListingsTypeOK, Listing!TypeOK, Listing!Live,
         Listing!Stamped, Sortable, Reading, Waiting, MissedByDeletions, Listing!MissedByDeletions
<1>3. ListingInv /\ [Listing!Next]_Listing!vars => ListingInv'
  <2> SUFFICES ASSUME ListingInv, Listing!Next PROVE ListingInv'
    BY <1>2
  <2>1. CASE Listing!Begin \/ Listing!CheckMember \/ Listing!Count \/ Listing!Close \/ Listing!ComeOrGo
    BY <2>1, ReaderKeeps
  <2>2. CASE Listing!ReadPage
    BY <2>2, ReadPageKeeps
  <2>3. CASE \E e \in Listing!Expense : Listing!Record(e)
    BY <2>3, RecordKeeps
  <2>4. CASE \E e \in Listing!Live : Listing!Delete(e)
    BY <2>4, DeleteKeeps
  <2> QED BY <2>1, <2>2, <2>3, <2>4 DEF Listing!Next
<1> QED BY <1>1, <1>3, PTL DEF Listing!Spec

\* ListingsTypeOK: a page of get_group_expenses never lists a row that was deleted
\* before the reader began, and asks for no page beyond the rows there can be.
THEOREM ListingsTypeCorrect == Listing!Spec => []ListingsTypeOK
<1>1. ListingInv => ListingsTypeOK
  BY DEF ListingInv
<1> QED BY <1>1, ListingInvariant, PTL

\* MissedByDeletions: however pages, new rows and deletions interleave, a reader of
\* get_group_expenses misses no more rows than were deleted meanwhile.
THEOREM MissesAreDeletions == Listing!Spec => []MissedByDeletions
<1>1. ListingInv => MissedByDeletions
  BY DEF ListingInv
<1> QED BY <1>1, ListingInvariant, PTL

-------------------------------------------------------------------------------
(* The parts together *)

\* Every behaviour of the services, cut down to the variables of one part, is a
\* behaviour of that part: what is proved of a part holds beside the others.
THEOREM EveryPartIsItself ==
  ServicesSpec => /\ Account!Spec /\ Session!Spec /\ Listing!Spec
                  /\ Init /\ [][Next]_vars
<1> DEFINE all == <<part, accountVars, sessionVars, listingVars, vars>>
<1>1. ServicesInit => Account!Init /\ Session!Init /\ Listing!Init /\ Init
  BY DEF ServicesInit
<1>2. [ServicesNext]_all => /\ [Account!Next]_Account!vars /\ [Session!Next]_Session!vars
                            /\ [Listing!Next]_Listing!vars /\ [Next]_vars
  <2>1. UNCHANGED accountVars => UNCHANGED Account!vars
    BY DEF accountVars, Account!vars
  <2>2. UNCHANGED sessionVars => UNCHANGED Session!vars
    BY DEF sessionVars, Session!vars
  <2>3. UNCHANGED listingVars => UNCHANGED Listing!vars
    BY DEF listingVars, Listing!vars, Listing!rows
  <2> QED BY <2>1, <2>2, <2>3 DEF ServicesNext
<1> QED BY <1>1, <1>2, PTL DEF ServicesSpec, Account!Spec, Session!Spec, Listing!Spec

\* What register_user, login, refresh, get_current_user, get_group_expenses and
\* send_weekly_summary promise, of the services together: every safety property
\* that is checked of them.
THEOREM ServicesKeepTheirPromises ==
  ServicesSpec => /\ [](AccountsTypeOK /\ SessionsTypeOK /\ ListingsTypeOK /\ WeeklyTypeOK)
                  /\ [](UniqueAccounts /\ MissedByDeletions)
                  /\ [](SummariesBalance /\ MailAddsUp /\ NobodyForgotten)
                  /\ RegisteredCanLogIn /\ DeactivatedStayOut /\ StoppedByStrangers
<1>1. ServicesSpec => Account!Spec /\ Session!Spec /\ Listing!Spec /\ Safety
  BY EveryPartIsItself DEF Safety
<1> QED
  BY <1>1, AccountsTypeCorrect, SessionsTypeCorrect, ListingsTypeCorrect, WeeklyTypeCorrect,
     AccountsAreUnique, MissesAreDeletions, SummariesAddUp, MailsAddUp, NobodyIsForgotten,
     RegisteredUsersLogIn, TheDeactivatedStayOut, OnlyStrangersStop, PTL
===============================================================================
