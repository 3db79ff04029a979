------------------------------ MODULE Membership ------------------------------
(***************************************************************************)
(* The membership endpoints of group_service.py as concurrent requests.    *)
(* PostgreSQL runs at READ COMMITTED and a request holds one session, so   *)
(* every SELECT is a step of its own and every INSERT or DELETE takes      *)
(* effect together with the commit that follows it: between two steps of a *)
(* request, other requests run.  What a request read earlier (the role of  *)
(* the requester, the row to delete, the number of admins) may be stale    *)
(* when it is used.                                                        *)
(***************************************************************************)
EXTENDS Integers, FiniteSets

CONSTANTS Users,         \* registered users
          Unregistered,  \* an e-mail address nobody registered
          Groups,        \* group identifiers, in use or not
          NoUser,        \* groups.created_by of a group not yet created
          Requests,      \* slots for requests in flight
          MaxRows        \* bound: membership rows ever inserted

ASSUME UsersAssumption == NoUser \notin Users /\ Unregistered \notin Users
ASSUME MaxRowsAssumption == MaxRows \in Nat

VARIABLES founder,  \* [Groups -> Users or NoUser]: groups.created_by
          members,  \* the rows of group_members
          nextRow,  \* the next primary key; keys are never used twice
          pc,       \* per request: the statement it runs next
          call,     \* per request: what was asked and by whom
          found,    \* per request: the row it read and means to delete
          reply     \* per request: the last HTTP status it answered

vars == <<founder, members, nextRow, pc, call, found, reply>>

Roles == {"admin", "member"}
Row   == [id : Nat, group : Groups, user : Users, role : Roles]
NoRow == [id |-> 0]

Call == [op : {"invite", "remove", "leave"}, group : Groups, user : Users,
         target : Users \cup {Unregistered}]
NoCall == [op |-> "none"]

\* The calls the routes can make: leave names no target but the caller, and
\* only invite goes by an e-mail address.
Sensible(c) == /\ c.op = "leave" => c.target = c.user
               /\ c.target = Unregistered => c.op = "invite"

Steps == {"idle", "authorise", "lookup", "insert", "refetch", "count", "delete"}
Codes == {0, 201, 204, 400, 403, 404, 409, 500}

-------------------------------------------------------------------------------
(* The queries *)

RowsOf(g, u)    == {m \in members : m.group = g /\ m.user = u}
AdminsOf(g)     == {m \in members : m.group = g /\ m.role = "admin"}
IsAdmin(g, u)   == \E m \in RowsOf(g, u) : m.role = "admin"

\* The guard that keeps the last admin in the group.
NeverLast(g)    == FALSE                                           \* mutant
OnlyAdmin(g)    == Cardinality(AdminsOf(g)) <= 1

\* UniqueConstraint("group_id", "user_id") on group_members.
NeverClashes(g, u) == FALSE                                        \* mutant
Clashes(g, u)      == RowsOf(g, u) # {}

\* DELETE ... WHERE id = ...: the primary key, not the pair.
HitByPair(row, m) == m.group = row.group /\ m.user = row.user      \* mutant
Hit(row, m)       == m.id = row.id

InvitedAsAdmin == "admin"                                          \* mutant
InvitedRole    == "member"

-------------------------------------------------------------------------------
(* Steps of a request *)

Goto(r, step) == /\ pc' = [pc EXCEPT ![r] = step]
                 /\ UNCHANGED <<call, reply>>

Answer(r, code) == /\ pc'    = [pc    EXCEPT ![r] = "idle"]
                   /\ call'  = [call  EXCEPT ![r] = NoCall]
                   /\ found' = [found EXCEPT ![r] = NoRow]
                   /\ reply' = [reply EXCEPT ![r] = code]

Insert(g, u, role) ==
  /\ members' = members \cup {[id |-> nextRow, group |-> g, user |-> u, role |-> role]}
  /\ nextRow' = nextRow + 1

\* create_group: one transaction inserts the group and its creator as admin.
CreateGroup(g, u) ==
  /\ founder[g] = NoUser
  /\ nextRow <= MaxRows
  /\ founder' = [founder EXCEPT ![g] = u]
  /\ Insert(g, u, "admin")
  /\ UNCHANGED <<pc, call, found, reply>>

Receive(r, c) ==
  /\ pc[r] = "idle"
  /\ Sensible(c)
  /\ pc'    = [pc    EXCEPT ![r] = IF c.op = "leave" THEN "lookup" ELSE "authorise"]
  /\ call'  = [call  EXCEPT ![r] = c]
  /\ reply' = [reply EXCEPT ![r] = 0]
  /\ UNCHANGED <<founder, members, nextRow, found>>

\* _require_role(..., MemberRole.admin)
Authorise(r) ==
  /\ pc[r] = "authorise"
  /\ IF IsAdmin(call[r].group, call[r].user)
       THEN Goto(r, "lookup") /\ UNCHANGED found
       ELSE Answer(r, 403)
  /\ UNCHANGED <<founder, members, nextRow>>

\* invite_member: find the user by e-mail, then look for a membership.
InviteAnyEmail(r) ==                                               \* mutant
  /\ pc[r] = "lookup" /\ call[r].op = "invite"
  /\ IF RowsOf(call[r].group, call[r].target) # {}
       THEN Answer(r, 409)
       ELSE Goto(r, "insert") /\ UNCHANGED found
  /\ UNCHANGED <<founder, members, nextRow>>

InviteLookup(r) ==
  /\ pc[r] = "lookup" /\ call[r].op = "invite"
  /\ LET c == call[r] IN
       \/ c.target = Unregistered /\ Answer(r, 404)
       \/ /\ c.target # Unregistered /\ RowsOf(c.group, c.target) # {}
          /\ Answer(r, 409)
       \/ /\ c.target # Unregistered /\ RowsOf(c.group, c.target) = {}
          /\ Goto(r, "insert") /\ UNCHANGED found
  /\ UNCHANGED <<founder, members, nextRow>>

\* invite_member: INSERT and COMMIT; a duplicate raises IntegrityError, which
\* nothing catches.
InviteInsert(r) ==
  /\ pc[r] = "insert"
  /\ LET c == call[r] IN
       \/ /\ Clashes(c.group, c.target)
          /\ Answer(r, 500)
          /\ UNCHANGED <<members, nextRow>>
       \/ /\ ~Clashes(c.group, c.target)
          /\ nextRow <= MaxRows
          /\ Insert(c.group, c.target, InvitedRole)
          /\ Goto(r, "refetch") /\ UNCHANGED found
  /\ UNCHANGED founder

\* invite_member: scalar_one() on the new row, which may be gone again.
InviteRefetch(r) ==
  /\ pc[r] = "refetch"
  /\ Answer(r, IF RowsOf(call[r].group, call[r].target) = {} THEN 500 ELSE 201)
  /\ UNCHANGED <<founder, members, nextRow>>

\* remove_member and leave_group: read the row to delete.
TargetLookup(r) ==
  /\ pc[r] = "lookup" /\ call[r].op # "invite"
  /\ LET rows == RowsOf(call[r].group, call[r].target) IN
       \/ rows = {} /\ Answer(r, 404)
       \/ \E m \in rows :
            /\ found' = [found EXCEPT ![r] = m]
            /\ Goto(r, IF m.role = "admin" THEN "count" ELSE "delete")
  /\ UNCHANGED <<founder, members, nextRow>>

\* remove_member and leave_group: _count_admins.
CountAdmins(r) ==
  /\ pc[r] = "count"
  /\ IF OnlyAdmin(call[r].group)
       THEN Answer(r, 400)
       ELSE Goto(r, "delete") /\ UNCHANGED found
  /\ UNCHANGED <<founder, members, nextRow>>

\* remove_member and leave_group: DELETE and COMMIT.  A row that is already
\* gone is only a warning, and the answer is the same.
Delete(r) ==
  /\ pc[r] = "delete"
  /\ members' = {m \in members : ~Hit(found[r], m)}
  /\ Answer(r, 204)
  /\ UNCHANGED <<founder, nextRow>>

\* The process or the connection dies: the open transaction, which has written
\* nothing yet, is rolled back.
Abort(r) ==
  /\ pc[r] # "idle"
  /\ Answer(r, 0)
  /\ UNCHANGED <<founder, members, nextRow>>

Next == \/ \E g \in Groups, u \in Users : CreateGroup(g, u)
        \/ \E r \in Requests, c \in Call : Receive(r, c)
        \/ \E r \in Requests : \/ Authorise(r) \/ InviteLookup(r) \/ InviteInsert(r)
                               \/ InviteRefetch(r) \/ TargetLookup(r) \/ CountAdmins(r)
                               \/ Delete(r) \/ Abort(r)

Init == /\ founder = [g \in Groups |-> NoUser]
        /\ members = {}
        /\ nextRow = 1
        /\ pc    = [r \in Requests |-> "idle"]
        /\ call  = [r \in Requests |-> NoCall]
        /\ found = [r \in Requests |-> NoRow]
        /\ reply = [r \in Requests |-> 0]

Spec == Init /\ [][Next]_vars

-------------------------------------------------------------------------------
(* Properties *)

\* Every variable holds a value of its type.
TypeOK == /\ founder \in [Groups -> Users \cup {NoUser}]
          /\ members \in SUBSET Row
          /\ nextRow \in Nat
          /\ pc    \in [Requests -> Steps]
          /\ call  \in [Requests -> Call \cup {NoCall}]
          /\ found \in [Requests -> Row \cup {NoRow}]
          /\ reply \in [Requests -> Codes]

\* A group never loses its creator and never gets a second admin, whatever the
\* order in which invitations, removals and departures interleave: the check
\* "only admin" in remove_member and leave_group reads a count that is stale by
\* the time the row is deleted.
CreatorIsSoleAdmin ==
  \A g \in Groups : {m.user : m \in AdminsOf(g)} = {founder[g]} \ {NoUser}

\* Nobody is in a group twice, although invite_member checks for a membership
\* in one statement and inserts in another.
OneRowPerUser ==
  \A m, n \in members : m.group = n.group /\ m.user = n.user => m = n

\* A row disappears only through a request that read this very row (so a slow
\* removal does not hit a membership granted since), and that was made by the
\* member or by someone who is an admin of the group at that moment.
Removes(r, m) == /\ pc[r] = "delete" /\ pc'[r] = "idle"
                 /\ found[r] = m
                 /\ \/ call[r].user = m.user
                    \/ IsAdmin(m.group, call[r].user)
RemovalsAuthorised ==
  [][\A m \in members \ members' : \E r \in Requests : Removes(r, m)]_vars

\* The roster the rest of the system relies on.
Roster == INSTANCE GroupRoster WITH
            roster <- [g \in Groups |-> {m.user : m \in {n \in members : n.group = g}}]
ImplementsRoster == Roster!RosterSpec

\* A membership invited twice at once is refused, not an internal error: the
\* comment in invite_member says it prevents duplicate memberships.
NoServerError == \A r \in Requests : reply[r] # 500
===============================================================================
