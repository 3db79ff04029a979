------------------------------- MODULE Sessions -------------------------------
(***************************************************************************)
(* The tokens of signed-in users: login and refresh (api/v1/auth.py) issue *)
(* pairs (security.py), refresh and every protected endpoint (deps.py)     *)
(* decode one, then read the account.  Accounts are deactivated behind the *)
(* API's back, no endpoint does it.  Signatures are PyJWT's: whatever      *)
(* decodes was issued.  Time is in minutes.                                *)
(***************************************************************************)
EXTENDS Naturals, FiniteSets

CONSTANTS Users,       \* accounts
          Requests,    \* slots for requests in flight
          ACCESS_TOKEN_EXPIRE_MINUTES, REFRESH_TOKEN_EXPIRE_DAYS,
          Times        \* the moments at which anything happens, naturals

VARIABLES active,  \* per account: users.is_active
          tokens,  \* all tokens ever issued
          clock,
          pc,      \* per request: the step it takes next
          call,    \* per request: what was asked
          late,    \* history, per request: it came when the account was inactive
          reply    \* the status the last step sent, 0 if it sent none

vars == <<active, tokens, clock, pc, call, late, reply>>

Token(user, type, now, lifetime) ==
  [sub |-> user, type |-> type, iat |-> now, exp |-> now + lifetime]
create_access_token(user)  == Token(user, "access", clock, ACCESS_TOKEN_EXPIRE_MINUTES)
AccessAgain(user) == Token(user, "access", clock, REFRESH_TOKEN_EXPIRE_DAYS)  \* mutant
\* timedelta(minutes=settings.REFRESH_TOKEN_EXPIRE_DAYS)
create_refresh_token(user) == Token(user, "refresh", clock, REFRESH_TOKEN_EXPIRE_DAYS)

Tokens == UNION {{Token(u, "access", t, ACCESS_TOKEN_EXPIRE_MINUTES),
                  Token(u, "refresh", t, REFRESH_TOKEN_EXPIRE_DAYS)} : u \in Users, t \in Times}

\* authenticate_user has matched the password (Accounts).
LoginCalls == [op : {"login"}, user : Users]
TokenCalls == {[op |-> op, user |-> t.sub, token |-> t] : op \in {"refresh", "protected"}, t \in tokens}
NoCall == [op |-> "none"]

Expected == [refresh |-> "refresh", protected |-> "access"]

Answer(r, code) == /\ pc'   = [pc   EXCEPT ![r] = "idle"]
                   /\ call' = [call EXCEPT ![r] = NoCall]
                   /\ late' = [late EXCEPT ![r] = FALSE]
                   /\ reply' = code
Goto(r, step) == pc' = [pc EXCEPT ![r] = step] /\ reply' = 0 /\ UNCHANGED <<call, late>>

Receive(r, c) ==
  /\ pc[r] = "idle"
  /\ pc'   = [pc   EXCEPT ![r] = IF c.op = "login" THEN "user" ELSE "decode"]
  /\ call' = [call EXCEPT ![r] = c]
  /\ late' = [late EXCEPT ![r] = ~active[c.user]]
  /\ reply' = 0
  /\ UNCHANGED <<active, tokens, clock>>

\* decode_token, and the check of the type claim.
Expired(t) == t.exp <= clock
Decode(r) ==
  /\ pc[r] = "decode"
  /\ LET t == call[r].token IN
       IF Expired(t) \/ t.type # Expected[call[r].op] THEN Answer(r, 401) ELSE Goto(r, "user")
  /\ UNCHANGED <<active, tokens, clock>>

\* The SELECT of the account.
Exists(u) == TRUE                                                  \* mutant
MayPass(u) == active[u]
FindUser(r) ==
  /\ pc[r] = "user"
  /\ LET c == call[r] IN
       \/ ~MayPass(c.user) /\ Answer(r, IF c.op = "refresh" THEN 401 ELSE 403)
       \/ MayPass(c.user) /\ c.op = "protected" /\ Answer(r, 200)
       \/ MayPass(c.user) /\ c.op # "protected" /\ Goto(r, "issue")
  /\ UNCHANGED <<active, tokens, clock>>

Issue(r) == /\ pc[r] = "issue"
            /\ tokens' = tokens \cup {create_access_token(call[r].user),
                                      create_refresh_token(call[r].user)}
            /\ Answer(r, 200)
            /\ UNCHANGED <<active, clock>>

Deactivate(u) == /\ active[u]
                 /\ active' = [active EXCEPT ![u] = FALSE]
                 /\ reply' = 0
                 /\ UNCHANGED <<tokens, clock, pc, call, late>>

Tick == /\ \E t \in Times : t > clock /\ clock' = t
        /\ reply' = 0
        /\ UNCHANGED <<active, tokens, pc, call, late>>

Next == \/ \E r \in Requests : \/ \E c \in LoginCalls \cup TokenCalls : Receive(r, c)
                               \/ Decode(r) \/ FindUser(r) \/ Issue(r)
        \/ \E u \in Users : Deactivate(u)
        \/ Tick

Init == /\ active = [u \in Users |-> TRUE]
        /\ tokens = {} /\ clock \in Times /\ reply = 0
        /\ pc   = [r \in Requests |-> "idle"]
        /\ call = [r \in Requests |-> NoCall]
        /\ late = [r \in Requests |-> FALSE]

Spec == Init /\ [][Next]_vars

-------------------------------------------------------------------------------
(* Properties *)

\* Every variable holds a value of its type.
TypeOK == /\ active \in [Users -> BOOLEAN]
          /\ tokens \in SUBSET Tokens
          /\ clock \in Times
          /\ pc \in [Requests -> {"idle", "decode", "user", "issue"}]
          /\ call \in [Requests -> LoginCalls \cup TokenCalls \cup {NoCall}]
          /\ late \in [Requests -> BOOLEAN]
          /\ reply \in {0, 200, 401, 403}

\* Whatever tokens are still around, and even if a refresh that had passed the
\* check issues more of them: who comes after the deactivation is turned away.
DeactivatedStayOut == [][\A r \in Requests : late[r] /\ pc'[r] = "idle" => reply' # 200]_vars
===============================================================================
