------------------------------- MODULE Accounts -------------------------------
(***************************************************************************)
(* register_user and authenticate_user (auth_service.py) behind the        *)
(* register and login endpoints: each SELECT is a step, and registrations  *)
(* of the same e-mail address or username overlap.  Nothing deletes an     *)
(* account.  The tokens a login issues are Sessions' matter.               *)
(***************************************************************************)
EXTENDS Naturals, FiniteSets, Functions

CONSTANTS Requests,    \* slots for requests in flight
          Emails, Passwords,
          Names,       \* usernames as typed
          Lower,       \* what validate_username makes of them
          MaxUsers     \* bound: accounts ever created

VARIABLES users,   \* rows of users
          nextId,  \* the next primary key
          pc,      \* per request: the statement it runs next
          call,    \* per request: what was asked
          acked,   \* credentials of registrations answered with 201
          reply    \* the status the last step sent, 0 if it sent none

vars == <<users, nextId, pc, call, acked, reply>>

\* The validator of RegisterRequest lowercases the username.
AsTyped(name)   == name                                            \* mutant
Canonical(name) == Lower[name]

RegisterCalls == [op : {"register"}, email : Emails, password : Passwords,
                  username : {Canonical(n) : n \in Names}]
LoginCalls    == [op : {"login"}, email : Emails, password : Passwords]
NoCall == [op |-> "none"]

ByEmail(email)   == {u \in users : u.email = email}
ByUsername(name) == {u \in users : u.username = name}

\* The unique constraints of the users table.
EmailClashes(c) == ByEmail(c.email) # {}                           \* mutant
Clashes(c) == ByEmail(c.email) \cup ByUsername(c.username) # {}

Answer(r, code) == /\ pc'   = [pc   EXCEPT ![r] = "idle"]
                   /\ call' = [call EXCEPT ![r] = NoCall]
                   /\ reply' = code

Goto(r, step) == pc' = [pc EXCEPT ![r] = step] /\ reply' = 0 /\ UNCHANGED call

Receive(r, c) ==
  /\ pc[r] = "idle"
  /\ pc'   = [pc   EXCEPT ![r] = IF c.op = "register" THEN "email" ELSE "authenticate"]
  /\ call' = [call EXCEPT ![r] = c]
  /\ reply' = 0
  /\ UNCHANGED <<users, nextId, acked>>

CheckEmail(r) == /\ pc[r] = "email"
                 /\ IF ByEmail(call[r].email) # {} THEN Answer(r, 400) ELSE Goto(r, "username")
                 /\ UNCHANGED <<users, nextId, acked>>

CheckUsername(r) ==
  /\ pc[r] = "username"
  /\ IF ByUsername(call[r].username) # {} THEN Answer(r, 400) ELSE Goto(r, "insert")
  /\ UNCHANGED <<users, nextId, acked>>

Row(c) == [id |-> nextId, email |-> c.email, username |-> c.username, password |-> c.password]

Upsert(r) == /\ pc[r] = "insert" /\ nextId <= MaxUsers               \* mutant
             /\ users' = (users \ (ByEmail(call[r].email) \cup ByUsername(call[r].username)))
                          \cup {Row(call[r])}
             /\ nextId' = nextId + 1
             /\ acked' = acked \cup {[email |-> call[r].email, password |-> call[r].password]}
             /\ Answer(r, 201)
\* INSERT and COMMIT; the IntegrityError is nobody's ValueError.
Insert(r) ==
  /\ pc[r] = "insert"
  /\ \/ Clashes(call[r]) /\ Answer(r, 500) /\ UNCHANGED <<users, nextId, acked>>
     \/ /\ ~Clashes(call[r]) /\ nextId <= MaxUsers
        /\ users' = users \cup {Row(call[r])}
        /\ nextId' = nextId + 1
        /\ acked' = acked \cup {[email |-> call[r].email, password |-> call[r].password]}
        /\ Answer(r, 201)

\* authenticate_user: the row with this e-mail address has this password's hash.
Verified(c) == \E u \in ByEmail(c.email) : u.password = c.password
Authenticate(r) == /\ pc[r] = "authenticate"
                   /\ Answer(r, IF Verified(call[r]) THEN 200 ELSE 403)
                   /\ UNCHANGED <<users, nextId, acked>>

\* The process or the connection dies before the commit.
Abort(r) == pc[r] # "idle" /\ Answer(r, 0) /\ UNCHANGED <<users, nextId, acked>>

Next == \E r \in Requests :
          \/ \E c \in RegisterCalls \cup LoginCalls : Receive(r, c)
          \/ CheckEmail(r) \/ CheckUsername(r) \/ Insert(r) \/ Authenticate(r) \/ Abort(r)

Init == /\ users = {} /\ nextId = 1 /\ acked = {} /\ reply = 0
        /\ pc   = [r \in Requests |-> "idle"]
        /\ call = [r \in Requests |-> NoCall]

Spec == Init /\ [][Next]_vars

-------------------------------------------------------------------------------
(* Properties *)

User == [id : 1..MaxUsers, email : Emails, username : {n \in Names : Lower[n] = n},
         password : Passwords]

\* Every variable holds a value of its type.
TypeOK == /\ users \in SUBSET User
          /\ nextId \in 1..(MaxUsers + 1)
          /\ pc \in [Requests -> {"idle", "email", "username", "insert", "authenticate"}]
          /\ call \in [Requests -> RegisterCalls \cup LoginCalls \cup {NoCall}]
          /\ acked \in SUBSET [email : Emails, password : Passwords]
          /\ reply \in {0, 200, 201, 400, 403, 500}

\* However registrations overlap, no two accounts have the same e-mail address,
\* nor usernames that differ in nothing but case.
UniqueAccounts == \A u, v \in users :
  u.email = v.email \/ Lower[u.username] = Lower[v.username] => u = v

\* Whoever was told 201 can log in with that e-mail address and password from
\* then on, whatever others register.
RegisteredCanLogIn ==
  [][\A r \in Requests :
       /\ pc[r] = "authenticate" /\ pc'[r] = "idle"
       /\ [email |-> call[r].email, password |-> call[r].password] \in acked
       => reply' # 403]_vars
===============================================================================
