----------------------------- MODULE GroupRoster -----------------------------
(***************************************************************************)
(* What the membership endpoints promise the rest of the system: a group   *)
(* has the user who created it as a member for good, and everyone else     *)
(* comes and goes one at a time.  Membership (group_service.py) implements *)
(* this specification and Ledger builds on it.                             *)
(***************************************************************************)
CONSTANTS Users,    \* registered users
          Groups,   \* group identifiers, in use or not
          NoUser    \* the founder of a group that does not exist yet

ASSUME NoUserAssumption == NoUser \notin Users

VARIABLES founder,  \* groups.created_by
          roster    \* the users with a row in group_members, per group

rosterVars == <<founder, roster>>

RosterInit == /\ founder = [g \in Groups |-> NoUser]
              /\ roster  = [g \in Groups |-> {}]

\* create_group: the group and its creator's membership in one transaction.
Found(g, u) == /\ founder[g] = NoUser
               /\ founder' = [founder EXCEPT ![g] = u]
               /\ roster'  = [roster  EXCEPT ![g] = {u}]

\* invite_member, at its commit.
Admit(g, u) == /\ founder[g] # NoUser
               /\ u \notin roster[g]
               /\ roster' = [roster EXCEPT ![g] = @ \cup {u}]
               /\ UNCHANGED founder

\* remove_member and leave_group, at their commit.
Drop(g, u) == /\ u \in roster[g]
              /\ u # founder[g]
              /\ roster' = [roster EXCEPT ![g] = @ \ {u}]
              /\ UNCHANGED founder

RosterNext == \E g \in Groups, u \in Users : Found(g, u) \/ Admit(g, u) \/ Drop(g, u)

RosterSpec == RosterInit /\ [][RosterNext]_rosterVars

RosterTypeOK == /\ founder \in [Groups -> Users \cup {NoUser}]
                /\ roster  \in [Groups -> SUBSET Users]
===============================================================================
