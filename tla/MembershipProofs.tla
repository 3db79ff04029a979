--------------------------- MODULE MembershipProofs ---------------------------
(***************************************************************************)
(* The safety properties of Membership, for any sets of users, groups and  *)
(* requests.  The argument: the founder of a group is its only admin, so   *)
(* the guard "only admin" always refuses, so a row that reaches its DELETE *)
(* was never an admin's, so the founder's row is never deleted.  Stale     *)
(* reads do no harm because primary keys are never reused.                 *)
(***************************************************************************)
EXTENDS Membership, FiniteSetTheorems, TLAPS

\* Keys identify rows, and the key a request holds means the row it read.
KeysOK == /\ nextRow > 0
          /\ \A m \in members : m.id > 0 /\ m.id < nextRow
          /\ \A m, n \in members : m.id = n.id => m = n
          /\ \A r \in Requests : /\ found[r].id < nextRow
                                 /\ \A m \in members : m.id = found[r].id => m = found[r]

\* The admins are the founders, and a founder has a row.
AdminsOK == /\ \A m \in members : m.role = "admin" <=> m.user = founder[m.group]
            /\ \A m \in members : founder[m.group] # NoUser
            /\ \A g \in Groups : founder[g] # NoUser =>
                 \E m \in members : m.group = g /\ m.user = founder[g]

\* What a request at each of its steps has already established.
Asked(r) == call[r] \in Call /\ Sensible(call[r])
RequestOK(r) ==
  /\ pc[r] = "idle" \/ Asked(r)
  /\ pc[r] = "authorise" => call[r].op # "leave"
  /\ pc[r] \notin {"idle", "authorise"} /\ call[r].op # "leave"
       => founder[call[r].group] = call[r].user
  /\ pc[r] \in {"insert", "refetch"} => call[r].op = "invite" /\ call[r].target \in Users
  /\ pc[r] \in {"count", "delete"} =>
       /\ call[r].op # "invite"
       /\ found[r] \in Row
       /\ found[r].group = call[r].group /\ found[r].user = call[r].target
       /\ founder[found[r].group] # NoUser
  /\ pc[r] = "delete" => found[r].user # founder[found[r].group]

\* The inductive invariant.
IInv == /\ TypeOK
        /\ KeysOK
        /\ AdminsOK
        /\ OneRowPerUser
        /\ \A r \in Requests : RequestOK(r)

-------------------------------------------------------------------------------

\* Without groups and requests there is nothing to violate.
LEMMA InitIInv == Init => IInv
BY UsersAssumption
DEF Init, IInv, TypeOK, KeysOK, AdminsOK, OneRowPerUser, RequestOK, Row, NoRow,
    Call, NoCall, Steps, Codes

\* There is at most one admin row, so the guard always refuses an admin.
LEMMA AdminRefused ==
  ASSUME IInv, NEW g \in Groups
  PROVE  Cardinality(AdminsOf(g)) <= 1
<1>1. CASE AdminsOf(g) = {}
  BY <1>1, FS_EmptySet
<1>2. CASE AdminsOf(g) # {}
  <2>1. PICK m \in members : m.group = g /\ m.role = "admin"
    BY <1>2 DEF AdminsOf
  <2>2. AdminsOf(g) = {m}
    BY <2>1 DEF AdminsOf, IInv, AdminsOK, OneRowPerUser
  <2>3. Cardinality({m}) = 1
    BY FS_Singleton
  <2> QED BY <2>2, <2>3
<1> QED BY <1>1, <1>2

\* Inserting a row that clashes with none, with a fresh key.
LEMMA InsertKeepsRows ==
  ASSUME IInv, NEW g \in Groups, NEW u \in Users, NEW role \in Roles,
         Insert(g, u, role), UNCHANGED found,
         RowsOf(g, u) = {}
  PROVE  /\ members' \in SUBSET Row /\ nextRow' \in Nat
         /\ KeysOK'
         /\ OneRowPerUser'
<1> DEFINE row == [id |-> nextRow, group |-> g, user |-> u, role |-> role]
<1>1. row \in Row /\ members' = members \cup {row} /\ nextRow' = nextRow + 1
  BY DEF Insert, IInv, TypeOK, Row
<1>2. \A r \in Requests : found[r].id \in Nat
  BY DEF IInv, TypeOK, Row, NoRow
<1>3. \A m \in members : m.id \in Nat
  BY DEF IInv, TypeOK, Row
<1>4. members' \in SUBSET Row /\ nextRow' \in Nat
  BY <1>1 DEF IInv, TypeOK
<1>5. KeysOK'
  <2>1. (nextRow > 0 /\ \A m \in members : m.id > 0 /\ m.id < nextRow)'
    BY <1>1, <1>3 DEF IInv, TypeOK, KeysOK
  <2>2. (\A m, n \in members : m.id = n.id => m = n)'
    BY <1>1, <1>3 DEF IInv, TypeOK, KeysOK
  <2>3. (\A r \in Requests : /\ found[r].id < nextRow
                             /\ \A m \in members : m.id = found[r].id => m = found[r])'
    BY <1>1, <1>2, <1>3 DEF IInv, TypeOK, KeysOK
  <2> QED BY <2>1, <2>2, <2>3 DEF KeysOK
<1>6. OneRowPerUser'
  BY <1>1 DEF IInv, OneRowPerUser, RowsOf
<1> QED BY <1>4, <1>5, <1>6

-------------------------------------------------------------------------------
(* Every step keeps the invariant. *)

\* A new group starts with one row, its creator as admin (create_group).
LEMMA CreateGroupIInv ==
  ASSUME IInv, NEW g \in Groups, NEW u \in Users, CreateGroup(g, u)
  PROVE  IInv'
<1>1. \A m \in members : m.group # g
  BY DEF IInv, AdminsOK, CreateGroup
<1>2. /\ members' \in SUBSET Row /\ nextRow' \in Nat
      /\ KeysOK' /\ OneRowPerUser'
  BY <1>1, InsertKeepsRows DEF CreateGroup, RowsOf, Roles
<1>3. TypeOK'
  BY <1>2 DEF CreateGroup, IInv, TypeOK
<1>4. AdminsOK'
  <2> DEFINE row == [id |-> nextRow, group |-> g, user |-> u, role |-> "admin"]
  <2>1. members' = members \cup {row} /\ founder' = [founder EXCEPT ![g] = u]
    BY DEF CreateGroup, Insert
  <2>2. row.group = g /\ row.user = u /\ row.role = "admin" /\ row \in members'
    BY <2>1
  <2>3. /\ founder'[g] = u /\ u # NoUser
        /\ \A h \in Groups : h # g => founder'[h] = founder[h]
    BY <2>1, UsersAssumption DEF IInv, TypeOK
  <2>4. \A m \in members : m.group \in Groups
    BY DEF IInv, TypeOK, Row
  <2> HIDE DEF row
  <2> QED BY <1>1, <2>1, <2>2, <2>3, <2>4 DEF IInv, AdminsOK
<1>5. ASSUME NEW r \in Requests PROVE RequestOK(r)'
  <2>1. founder[g] = NoUser /\ \A h \in Groups : h # g => founder'[h] = founder[h]
    BY DEF CreateGroup, IInv, TypeOK
  <2>2. UNCHANGED <<pc, call, found>>
    BY DEF CreateGroup
  <2>3. Asked(r) => call[r].group \in Groups /\ call[r].user # NoUser
    BY UsersAssumption DEF Asked, Call
  <2>4. found[r] \in Row => found[r].group \in Groups
    BY DEF Row
  <2> QED BY <2>1, <2>2, <2>3, <2>4 DEF IInv, RequestOK, Asked
<1> QED BY <1>2, <1>3, <1>4, <1>5 DEF IInv

\* A step that leaves the tables alone only has to account for its own request.
LEMMA QuietStep ==
  ASSUME IInv, UNCHANGED <<founder, members, nextRow>>, TypeOK',
         NEW r \in Requests,
         \A s \in Requests \ {r} : /\ pc'[s] = pc[s]
                                   /\ call'[s] = call[s]
                                   /\ found'[s] = found[s],
         found'[r] \in members \cup {found[r], NoRow},
         RequestOK(r)'
  PROVE  IInv'
<1>1. KeysOK'
  <2>1. ASSUME NEW s \in Requests
        PROVE  (/\ found[s].id < nextRow
                /\ \A m \in members : m.id = found[s].id => m = found[s])'
    <3>1. CASE s # r \/ found'[r] = found[r]
      BY <3>1 DEF IInv, KeysOK
    <3>2. CASE s = r /\ found'[r] = NoRow
      BY <3>2 DEF IInv, KeysOK, NoRow
    <3>3. CASE s = r /\ found'[r] \in members
      BY <3>3 DEF IInv, KeysOK
    <3> QED BY <3>1, <3>2, <3>3
  <2> QED BY <2>1 DEF IInv, KeysOK
<1>2. AdminsOK' /\ OneRowPerUser'
  BY DEF IInv, AdminsOK, OneRowPerUser
<1>3. \A s \in Requests : RequestOK(s)'
  BY DEF IInv, RequestOK, Asked
<1> QED BY <1>1, <1>2, <1>3 DEF IInv

\* Answering, whatever the code, when the tables are left alone.
LEMMA QuietAnswer ==
  ASSUME IInv, UNCHANGED <<founder, members, nextRow>>,
         NEW r \in Requests, NEW code \in Codes, Answer(r, code)
  PROVE  IInv'
<1>1. TypeOK'
  BY DEF IInv, TypeOK, Answer, Steps
<1>2. pc'[r] = "idle" /\ found'[r] = NoRow
  BY DEF IInv, TypeOK, Answer
<1>3. \A s \in Requests \ {r} : pc'[s] = pc[s] /\ call'[s] = call[s] /\ found'[s] = found[s]
  BY DEF IInv, TypeOK, Answer
<1>4. RequestOK(r)'
  BY <1>2 DEF RequestOK
<1> QED BY <1>1, <1>2, <1>3, <1>4, QuietStep

\* Going on to another step, when the tables are left alone.
LEMMA QuietGoto ==
  ASSUME IInv, UNCHANGED <<founder, members, nextRow>>,
         NEW r \in Requests, NEW step \in Steps, Goto(r, step),
         found' \in [Requests -> Row \cup {NoRow}],
         \A s \in Requests \ {r} : found'[s] = found[s],
         found'[r] \in members \cup {found[r], NoRow},
         RequestOK(r)'
  PROVE  IInv'
<1>1. TypeOK'
  BY DEF IInv, TypeOK, Goto
<1>2. \A s \in Requests \ {r} : pc'[s] = pc[s] /\ call'[s] = call[s]
  BY DEF IInv, TypeOK, Goto
<1> QED BY <1>1, <1>2, QuietStep

\* A request that arrives has read nothing yet.
LEMMA ReceiveIInv ==
  ASSUME IInv, NEW r \in Requests, NEW c \in Call, Receive(r, c)
  PROVE  IInv'
<1>1. TypeOK'
  BY DEF IInv, TypeOK, Receive, Steps, Codes
<1>2. \A s \in Requests \ {r} : pc'[s] = pc[s] /\ call'[s] = call[s] /\ found'[s] = found[s]
  BY DEF IInv, TypeOK, Receive
<1>3. /\ pc'[r] = IF c.op = "leave" THEN "lookup" ELSE "authorise"
      /\ call'[r] = c /\ Sensible(c)
  BY DEF IInv, TypeOK, Receive
<1>4. RequestOK(r)'
  BY <1>3 DEF RequestOK, Asked
<1>5. UNCHANGED <<founder, members, nextRow, found>>
  BY DEF Receive
<1> QED BY <1>1, <1>2, <1>4, <1>5, QuietStep

\* What _require_role saw was true then: the requester is the creator.
LEMMA AuthoriseIInv ==
  ASSUME IInv, NEW r \in Requests, Authorise(r)
  PROVE  IInv'
<1>1. CASE IsAdmin(call[r].group, call[r].user)
  <2>1. Goto(r, "lookup") /\ UNCHANGED <<founder, members, nextRow, found>>
    BY <1>1 DEF Authorise
  <2>2. founder[call[r].group] = call[r].user
    BY <1>1 DEF IsAdmin, RowsOf, IInv, AdminsOK
  <2>3. pc'[r] = "lookup" /\ UNCHANGED <<call, founder>> /\ Asked(r)
    BY <2>1 DEF Goto, Authorise, IInv, TypeOK, RequestOK
  <2>4. RequestOK(r)'
    BY <2>2, <2>3 DEF RequestOK, Asked
  <2> QED BY <2>1, <2>4, QuietGoto DEF Steps, IInv, TypeOK
<1>2. CASE ~IsAdmin(call[r].group, call[r].user)
  BY <1>2, QuietAnswer DEF Authorise, Codes
<1> QED BY <1>1, <1>2

\* The lookup of invite_member changes no row.
LEMMA InviteLookupIInv ==
  ASSUME IInv, NEW r \in Requests, InviteLookup(r)
  PROVE  IInv'
<1>1. CASE Answer(r, 404) \/ Answer(r, 409)
  BY <1>1, QuietAnswer DEF InviteLookup, Codes
<1>2. CASE Goto(r, "insert") /\ UNCHANGED found /\ call[r].target # Unregistered
  <2>1. UNCHANGED <<founder, members, nextRow>> /\ call[r].op = "invite" /\ pc[r] = "lookup"
    BY DEF InviteLookup
  <2>2. Asked(r) /\ call[r].target \in Users /\ founder[call[r].group] = call[r].user
    BY <1>2, <2>1 DEF IInv, RequestOK, Asked, Call
  <2>3. pc'[r] = "insert" /\ UNCHANGED call
    BY <1>2 DEF Goto, IInv, TypeOK
  <2>4. RequestOK(r)'
    BY <2>1, <2>2, <2>3 DEF RequestOK, Asked
  <2> QED BY <1>2, <2>1, <2>4, QuietGoto DEF Steps, IInv, TypeOK
<1> QED BY <1>1, <1>2 DEF InviteLookup

\* The new row is a plain member, and uq_group_member keeps it the only one.
LEMMA InviteInsertIInv ==
  ASSUME IInv, NEW r \in Requests, InviteInsert(r)
  PROVE  IInv'
<1> DEFINE g == call[r].group
           u == call[r].target
<1>0. Asked(r) /\ g \in Groups /\ u \in Users /\ founder[g] = call[r].user
      /\ call[r].op = "invite" /\ founder[g] \in Users /\ pc[r] = "insert"
  BY DEF InviteInsert, IInv, RequestOK, Asked, Call
<1>1. CASE Answer(r, 500) /\ UNCHANGED <<members, nextRow>>
  BY <1>1, QuietAnswer DEF InviteInsert, Codes
<1>2. CASE /\ RowsOf(g, u) = {}
           /\ Insert(g, u, "member")
           /\ Goto(r, "refetch") /\ UNCHANGED found
  <2>1. /\ members' \in SUBSET Row /\ nextRow' \in Nat
        /\ KeysOK' /\ OneRowPerUser'
    BY <1>0, <1>2, InsertKeepsRows DEF Roles
  <2>2. UNCHANGED <<founder, call, found, reply>> /\ pc' = [pc EXCEPT ![r] = "refetch"]
    BY <1>2 DEF InviteInsert, Goto
  <2>3. TypeOK'
    BY <2>1, <2>2 DEF IInv, TypeOK, Steps
  <2>4. AdminsOK'
    <3> DEFINE row == [id |-> nextRow, group |-> g, user |-> u, role |-> "member"]
    <3>1. members' = members \cup {row}
      BY <1>2 DEF Insert
    <3>2. u # founder[g] /\ founder[g] # NoUser
      BY <1>0, <1>2, UsersAssumption DEF IInv, AdminsOK, RowsOf
    <3>3. row.group = g /\ row.user = u /\ row.role = "member"
      OBVIOUS
    <3> HIDE DEF row
    <3> QED BY <2>2, <3>1, <3>2, <3>3 DEF IInv, AdminsOK
  <2>5. ASSUME NEW s \in Requests PROVE RequestOK(s)'
    <3>1. CASE s = r
      BY <1>0, <2>2, <3>1 DEF IInv, TypeOK, RequestOK, Asked
    <3>2. CASE s # r
      BY <2>2, <3>2 DEF IInv, TypeOK, RequestOK, Asked
    <3> QED BY <3>1, <3>2
  <2> QED BY <2>1, <2>3, <2>4, <2>5 DEF IInv
<1> QED BY <1>1, <1>2 DEF InviteInsert, Clashes, InvitedRole

\* The row remove_member or leave_group finds is the target's in that group; only a
\* row that is not an admin's goes straight to its DELETE.
LEMMA TargetLookupIInv ==
  ASSUME IInv, NEW r \in Requests, TargetLookup(r)
  PROVE  IInv'
<1>1. CASE Answer(r, 404)
  BY <1>1, QuietAnswer DEF TargetLookup, Codes
<1>2. ASSUME NEW m \in RowsOf(call[r].group, call[r].target),
             found' = [found EXCEPT ![r] = m],
             Goto(r, IF m.role = "admin" THEN "count" ELSE "delete")
      PROVE  IInv'
  <2>1. /\ m \in members /\ m \in Row
        /\ m.group = call[r].group /\ m.user = call[r].target
    BY <1>2 DEF RowsOf, IInv, TypeOK
  <2>2. /\ UNCHANGED <<founder, members, nextRow, call>>
        /\ call[r].op # "invite" /\ pc[r] = "lookup"
    BY <1>2 DEF TargetLookup, Goto
  <2>3. /\ found' \in [Requests -> Row \cup {NoRow}] /\ found'[r] = m
        /\ \A s \in Requests \ {r} : found'[s] = found[s]
    BY <1>2, <2>1 DEF IInv, TypeOK
  <2>4. pc'[r] = IF m.role = "admin" THEN "count" ELSE "delete"
    BY <1>2 DEF Goto, IInv, TypeOK
  <2>5. founder[m.group] # NoUser /\ (m.role = "admin" <=> m.user = founder[m.group])
    BY <2>1 DEF IInv, AdminsOK
  <2>6. RequestOK(r)'
    BY <2>1, <2>2, <2>3, <2>4, <2>5 DEF IInv, RequestOK, Asked
  <2> QED BY <1>2, <2>1, <2>2, <2>3, <2>6, QuietGoto DEF Steps
<1> QED BY <1>1, <1>2 DEF TargetLookup

\* The guard refuses: an admin's row never goes on to its DELETE.
LEMMA CountAdminsIInv ==
  ASSUME IInv, NEW r \in Requests, CountAdmins(r)
  PROVE  IInv'
<1>1. call[r].group \in Groups
  BY DEF CountAdmins, IInv, RequestOK, Asked, Call
<1>2. Answer(r, 400)
  BY <1>1, AdminRefused DEF CountAdmins, OnlyAdmin
<1> QED BY <1>2, QuietAnswer DEF CountAdmins, Codes

\* Deleting a row that was read as a plain member's takes no admin away.
LEMMA DeleteIInv ==
  ASSUME IInv, NEW r \in Requests, Delete(r)
  PROVE  IInv'
<1>1. /\ members' = {m \in members : m.id # found[r].id}
      /\ UNCHANGED <<founder, nextRow>> /\ Answer(r, 204)
      /\ found[r].user # founder[found[r].group]
  BY DEF Delete, Hit, IInv, RequestOK
<1>2. members' \subseteq members /\ \A m \in members \ members' : m = found[r]
  BY <1>1 DEF IInv, KeysOK
<1>3. TypeOK'
  BY <1>1, <1>2 DEF IInv, TypeOK, Answer, Steps, Codes
<1>4. found'[r] = NoRow /\ \A s \in Requests \ {r} : found'[s] = found[s]
  BY <1>1 DEF IInv, TypeOK, Answer
<1>5. KeysOK'
  <2>1. ASSUME NEW s \in Requests
        PROVE  (/\ found[s].id < nextRow
                /\ \A m \in members : m.id = found[s].id => m = found[s])'
    BY <1>1, <1>2, <1>4 DEF IInv, KeysOK, NoRow
  <2> QED BY <1>1, <1>2, <2>1 DEF IInv, KeysOK
<1>6. AdminsOK' /\ OneRowPerUser'
  BY <1>1, <1>2 DEF IInv, AdminsOK, OneRowPerUser
<1>7. ASSUME NEW s \in Requests PROVE RequestOK(s)'
  BY <1>1, <1>4 DEF IInv, TypeOK, RequestOK, Asked, Answer
<1> QED BY <1>3, <1>5, <1>6, <1>7 DEF IInv

\* A step of the system keeps the invariant.
LEMMA NextIInv == IInv /\ [Next]_vars => IInv'
<1> SUFFICES ASSUME IInv, [Next]_vars PROVE IInv'
  OBVIOUS
<1>1. ASSUME NEW g \in Groups, NEW u \in Users, CreateGroup(g, u) PROVE IInv'
  BY <1>1, CreateGroupIInv
<1>2. ASSUME NEW r \in Requests, NEW c \in Call, Receive(r, c) PROVE IInv'
  BY <1>2, ReceiveIInv
<1>3. ASSUME NEW r \in Requests,
             Authorise(r) \/ InviteLookup(r) \/ InviteInsert(r) \/ TargetLookup(r)
               \/ CountAdmins(r) \/ Delete(r)
      PROVE  IInv'
  BY <1>3, AuthoriseIInv, InviteLookupIInv, InviteInsertIInv, TargetLookupIInv,
     CountAdminsIInv, DeleteIInv
<1>4. ASSUME NEW r \in Requests, InviteRefetch(r) \/ Abort(r) PROVE IInv'
  BY <1>4, QuietAnswer DEF InviteRefetch, Abort, Codes
<1>5. CASE UNCHANGED vars
  BY <1>5 DEF vars, IInv, TypeOK, KeysOK, AdminsOK, OneRowPerUser, RequestOK, Asked
<1> QED BY <1>1, <1>2, <1>3, <1>4, <1>5 DEF Next

\* The steps above, put together.
LEMMA Inductive == Spec => []IInv
BY InitIInv, NextIInv, PTL DEF Spec

-------------------------------------------------------------------------------
(* What the endpoints guarantee *)

\* Every variable keeps its type.
THEOREM TypeCorrect == Spec => []TypeOK
<1>1. IInv => TypeOK
  BY DEF IInv
<1> QED BY <1>1, Inductive, PTL

\* The creator of a group is its one admin for as long as the group exists: no
\* interleaving of invitations, removals and departures takes the role away or
\* gives it to a second user.
THEOREM SoleAdmin == Spec => []CreatorIsSoleAdmin
<1>1. IInv => CreatorIsSoleAdmin
  <2> SUFFICES ASSUME IInv, NEW g \in Groups
               PROVE  {m.user : m \in AdminsOf(g)} = {founder[g]} \ {NoUser}
    BY DEF CreatorIsSoleAdmin
  <2>1. \A m \in AdminsOf(g) : m.user = founder[g] /\ founder[g] # NoUser
    BY DEF AdminsOf, IInv, AdminsOK
  <2>2. founder[g] # NoUser => \E m \in AdminsOf(g) : m.user = founder[g]
    BY DEF AdminsOf, IInv, AdminsOK
  <2> QED BY <2>1, <2>2
<1> QED BY <1>1, Inductive, PTL

\* Nobody holds two memberships in a group.
THEOREM NoDuplicates == Spec => []OneRowPerUser
<1>1. IInv => OneRowPerUser
  BY DEF IInv
<1> QED BY <1>1, Inductive, PTL

\* Only Delete takes rows away, and it takes the row the request read.
LEMMA OnlyDeleteRemoves ==
  ASSUME IInv, [Next]_vars, NEW m \in members \ members'
  PROVE  \E r \in Requests : Delete(r) /\ m = found[r]
<1>1. PICK r \in Requests : Delete(r)
  BY DEF Next, vars, CreateGroup, Insert, Receive, Authorise, InviteLookup, InviteInsert,
         InviteRefetch, TargetLookup, CountAdmins, Abort
<1>2. m.id = found[r].id
  BY <1>1 DEF Delete, Hit
<1> QED BY <1>1, <1>2 DEF IInv, KeysOK

\* A membership ends only through a request that read that very row and was made
\* by its owner or by somebody who is an admin of the group when it ends.
THEOREM RemovalsAreAuthorised == Spec => RemovalsAuthorised
<1>1. IInv /\ [Next]_vars
        => [\A m \in members \ members' : \E r \in Requests : Removes(r, m)]_vars
  <2> SUFFICES ASSUME IInv, [Next]_vars, NEW m \in members \ members'
               PROVE  \E r \in Requests : Removes(r, m)
    OBVIOUS
  <2>1. PICK r \in Requests : Delete(r) /\ m = found[r]
    BY OnlyDeleteRemoves
  <2>2. /\ pc[r] = "delete" /\ pc'[r] = "idle"
        /\ Asked(r) /\ call[r].op # "invite"
        /\ m.group = call[r].group /\ m.user = call[r].target
    BY <2>1 DEF Delete, Answer, IInv, TypeOK, RequestOK
  <2>3. CASE call[r].op = "leave"
    BY <2>1, <2>2, <2>3 DEF Removes, Asked, Sensible
  <2>4. CASE call[r].op # "leave"
    <3>1. founder[m.group] = call[r].user /\ m.group \in Groups /\ founder[m.group] # NoUser
      BY <2>2, <2>4, UsersAssumption DEF IInv, RequestOK, Asked, Call
    <3>2. IsAdmin(m.group, call[r].user)
      BY <3>1 DEF IInv, AdminsOK, IsAdmin, RowsOf
    <3> QED BY <2>1, <2>2, <3>2 DEF Removes
  <2> QED BY <2>3, <2>4
<1> QED BY <1>1, Inductive, PTL DEF Spec, RemovalsAuthorised

-------------------------------------------------------------------------------
(* Refinement: the rows of group_members implement the roster. *)

RosterOf(g) == {m.user : m \in {n \in members : n.group = g}}

\* Membership seen through the mapping is a roster.
LEMMA OnRoster ==
  ASSUME NEW g, NEW x
  PROVE  /\ x \in RosterOf(g)  <=> \E m \in members  : m.group = g /\ m.user = x
         /\ x \in RosterOf(g)' <=> \E m \in members' : m.group = g /\ m.user = x
BY DEF RosterOf

\* The roster of one group changes, those of the others do not.
LEMMA OneRosterChanges ==
  ASSUME NEW g \in Groups, NEW S, RosterOf(g)' = S,
         \A h \in Groups : h # g => RosterOf(h)' = RosterOf(h)
  PROVE  [h \in Groups |-> RosterOf(h)]' = [[h \in Groups |-> RosterOf(h)] EXCEPT ![g] = S]
OBVIOUS

\* create_group founds a group.
LEMMA FoundStep ==
  ASSUME IInv, NEW g \in Groups, NEW u \in Users, CreateGroup(g, u)
  PROVE  Roster!Found(g, u)
<1>1. \A m \in members : m.group # g
  BY DEF CreateGroup, IInv, AdminsOK
<1>2. PICK row : row.group = g /\ row.user = u /\ members' = members \cup {row}
  BY DEF CreateGroup, Insert
<1>3. \A x : x \in RosterOf(g)' <=> x \in {u}
  BY <1>1, <1>2, OnRoster
<1>4. ASSUME NEW h \in Groups, h # g PROVE RosterOf(h)' = RosterOf(h)
  <2>1. \A x : x \in RosterOf(h)' <=> x \in RosterOf(h)
    BY <1>2, <1>4, OnRoster
  <2> QED BY <2>1 DEF RosterOf
<1>5. RosterOf(g)' = {u}
  BY <1>3 DEF RosterOf
<1> QED BY <1>4, <1>5, OneRosterChanges DEF CreateGroup, Roster!Found, RosterOf

\* The INSERT of invite_member admits one user.
LEMMA AdmitStep ==
  ASSUME IInv, NEW g \in Groups, NEW u \in Users, NEW row,
         row.group = g /\ row.user = u /\ members' = members \cup {row},
         RowsOf(g, u) = {}, founder[g] # NoUser, UNCHANGED founder
  PROVE  Roster!Admit(g, u)
<1>1. \A x : x \in RosterOf(g)' <=> x \in RosterOf(g) \cup {u}
  BY OnRoster
<1>2. ASSUME NEW h \in Groups, h # g PROVE RosterOf(h)' = RosterOf(h)
  <2>1. \A x : x \in RosterOf(h)' <=> x \in RosterOf(h)
    BY <1>2, OnRoster
  <2> QED BY <2>1 DEF RosterOf
<1>3. RosterOf(g)' = RosterOf(g) \cup {u}
  BY <1>1 DEF RosterOf
<1>4. u \notin RosterOf(g)
  BY OnRoster DEF RowsOf
<1> QED BY <1>2, <1>3, <1>4, OneRosterChanges DEF Roster!Admit, RosterOf

\* The DELETE of remove_member and leave_group drops one user or nobody.
LEMMA DropStep ==
  ASSUME IInv, NEW g \in Groups, NEW u \in Users, NEW row \in members,
         row.group = g /\ row.user = u /\ members' = members \ {row},
         u # founder[g], UNCHANGED founder
  PROVE  Roster!Drop(g, u)
<1>1. \A x : x \in RosterOf(g)' <=> x \in RosterOf(g) \ {u}
  BY OnRoster DEF IInv, OneRowPerUser
<1>2. ASSUME NEW h \in Groups, h # g PROVE RosterOf(h)' = RosterOf(h)
  <2>1. \A x : x \in RosterOf(h)' <=> x \in RosterOf(h)
    BY <1>2, OnRoster
  <2> QED BY <2>1 DEF RosterOf
<1>3. RosterOf(g)' = RosterOf(g) \ {u}
  BY <1>1 DEF RosterOf
<1>4. u \in RosterOf(g)
  BY OnRoster
<1> QED BY <1>2, <1>3, <1>4, OneRosterChanges DEF Roster!Drop, RosterOf

\* Every step is a step of the roster or leaves it alone.
LEMMA StepImplementsRoster ==
  ASSUME IInv, [Next]_vars
  PROVE  [Roster!RosterNext]_(Roster!rosterVars)
<1>1. CASE UNCHANGED <<founder, members>>
  BY <1>1 DEF Roster!rosterVars
<1>2. ASSUME NEW g \in Groups, NEW u \in Users, CreateGroup(g, u)
      PROVE  Roster!RosterNext
  BY <1>2, FoundStep DEF Roster!RosterNext
<1>3. ASSUME NEW r \in Requests, InviteInsert(r), members' # members
      PROVE  Roster!RosterNext
  <2>1. PICK g \in Groups, u \in Users : g = call[r].group /\ u = call[r].target
    BY <1>3 DEF InviteInsert, IInv, RequestOK, Asked, Call
  <2>2. founder[g] # NoUser
    BY <1>3, <2>1, UsersAssumption DEF InviteInsert, IInv, RequestOK, Asked, Call
  <2>3. RowsOf(g, u) = {} /\ Insert(g, u, "member") /\ UNCHANGED founder
    BY <1>3, <2>1 DEF InviteInsert, Clashes, InvitedRole
  <2>4. PICK row : row.group = g /\ row.user = u /\ members' = members \cup {row}
    BY <2>3 DEF Insert
  <2> QED BY <2>2, <2>3, <2>4, AdmitStep DEF Roster!RosterNext
<1>4. ASSUME NEW r \in Requests, Delete(r), members' # members
      PROVE  Roster!RosterNext
  <2>1. found[r] \in Row /\ found[r].user # founder[found[r].group]
    BY <1>4 DEF Delete, IInv, RequestOK
  <2>2. PICK row \in members : row = found[r]
    BY <1>4 DEF Delete, Hit, IInv, KeysOK
  <2>3. PICK g \in Groups, u \in Users : row.group = g /\ row.user = u
    BY <2>1, <2>2 DEF Row
  <2>4. members' = members \ {row} /\ UNCHANGED founder
    BY <1>4, <2>2 DEF Delete, Hit, IInv, KeysOK
  <2> QED BY <2>1, <2>2, <2>3, <2>4, DropStep DEF Roster!RosterNext
<1>5. \/ UNCHANGED <<founder, members>>
      \/ \E g \in Groups, u \in Users : CreateGroup(g, u)
      \/ \E r \in Requests : (InviteInsert(r) \/ Delete(r)) /\ members' # members
  BY DEF Next, vars, Receive, Authorise, InviteLookup, InviteInsert, InviteRefetch,
         TargetLookup, CountAdmins, Delete, Abort
<1> QED BY <1>1, <1>2, <1>3, <1>4, <1>5

\* Seen from outside, the endpoints found groups and admit or drop one user at
\* a time, and never drop the founder.
THEOREM MembershipImplementsRoster == Spec => ImplementsRoster
<1>1. Init => Roster!RosterInit
  BY DEF Init, Roster!RosterInit
<1>2. IInv /\ [Next]_vars => [Roster!RosterNext]_(Roster!rosterVars)
  BY StepImplementsRoster
<1> QED BY <1>1, <1>2, Inductive, PTL DEF Spec, ImplementsRoster, Roster!RosterSpec
===============================================================================
