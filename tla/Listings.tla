------------------------------- MODULE Listings -------------------------------
(***************************************************************************)
(* A member reads all expenses of a group, page by page, through           *)
(* get_group_expenses (expense_service.py), which runs three SELECTs a     *)
(* page: the members, the total, the page.  Meanwhile expenses are         *)
(* recorded, with any date and not always committed in the order of their  *)
(* created_at, and deleted, and the member may leave.                      *)
(***************************************************************************)
EXTENDS Naturals, FiniteSets

CONSTANTS Dates,    \* values of date_happened, naturals
          Stamps,   \* values of created_at, naturals, each of one expense
          Limit     \* expenses per page, at least one

VARIABLES expenses,  \* the rows of the group
          member,    \* whether the reader is a member
          pc,        \* the statement of the page that runs next
          skip,      \* where the page begins
          total,     \* the total the page states
          listed,    \* created_at of the expenses on the pages so far
          before,    \* history: live when the reader began, and still live
          deleted    \* history: expenses deleted since the reader began

rows == <<expenses, member>>
vars == <<rows, pc, skip, total, listed, before, deleted>>

Expense == [created_at : Stamps, date_happened : Dates, is_deleted : BOOLEAN]

AllRows == expenses                                                \* mutant
Live    == {e \in expenses : ~e.is_deleted}
Stamped(E) == {e.created_at : e \in E}

\* ORDER BY date_happened DESC, created_at DESC
Precedes(e, f) == \/ e.date_happened > f.date_happened
                  \/ e.date_happened = f.date_happened /\ e.created_at > f.created_at
Rank(e) == Cardinality({f \in Live : Precedes(f, e)})

\* OFFSET skip LIMIT limit
PageAfter(n) == {e \in Live : n < Rank(e) /\ Rank(e) <= n + Limit}  \* mutant
Page(n)      == {e \in Live : n <= Rank(e) /\ Rank(e) < n + Limit}

-------------------------------------------------------------------------------
(* Steps of the reader *)

Begin == /\ pc = "idle"
         /\ pc' = "members"
         /\ skip' = 0 /\ listed' = {} /\ deleted' = {}
         /\ before' = Stamped(Live)
         /\ UNCHANGED <<rows, total>>

CheckMember == /\ pc = "members"
               /\ pc' = IF member THEN "count" ELSE "idle"
               /\ UNCHANGED <<rows, skip, total, listed, before, deleted>>

Count == /\ pc = "count"
         /\ total' = Cardinality(Live)
         /\ pc' = "page"
         /\ UNCHANGED <<rows, skip, listed, before, deleted>>

\* The reader asks for the next page until one is not full.
ReadPage == /\ pc = "page"
            /\ listed' = listed \cup Stamped(Page(skip))
            /\ skip' = skip + Limit
            /\ pc' = IF Cardinality(Page(skip)) < Limit THEN "done" ELSE "members"
            /\ UNCHANGED <<rows, total, before, deleted>>

Close == pc = "done" /\ pc' = "idle" /\ UNCHANGED <<rows, skip, total, listed, before, deleted>>

-------------------------------------------------------------------------------
(* Meanwhile *)

Record(e) == /\ e.created_at \notin Stamped(expenses) /\ ~e.is_deleted
             /\ expenses' = expenses \cup {e}
             /\ UNCHANGED <<member, pc, skip, total, listed, before, deleted>>

Delete(e) == /\ expenses' = (expenses \ {e}) \cup {[e EXCEPT !.is_deleted = TRUE]}
             /\ before' = before \ {e.created_at}
             /\ deleted' = deleted \cup {e.created_at}
             /\ UNCHANGED <<member, pc, skip, total, listed>>

ComeOrGo == member' = ~member /\ UNCHANGED <<expenses, pc, skip, total, listed, before, deleted>>

Next == \/ Begin \/ CheckMember \/ Count \/ ReadPage \/ Close
        \/ (\E e \in Expense : Record(e)) \/ (\E e \in Live : Delete(e)) \/ ComeOrGo

Init == /\ expenses = {} /\ member = TRUE
        /\ pc = "idle" /\ skip = 0 /\ total = 0
        /\ listed = {} /\ before = {} /\ deleted = {}

Spec == Init /\ [][Next]_vars

-------------------------------------------------------------------------------
(* Properties *)

\* Every variable holds a value of its type; what a page lists was live until
\* then.
TypeOK == /\ expenses \subseteq Expense /\ member \in BOOLEAN
          /\ pc \in {"idle", "members", "count", "page", "done"}
          /\ skip \in 0..(Cardinality(Stamps) + Limit)
          /\ total \in 0..Cardinality(Stamps)
          /\ \A e \in expenses : e.created_at \in listed /\ e.is_deleted => e.created_at \in deleted
          /\ before \subseteq Stamped(Live)

\* Records that come in can only repeat an expense; every deletion can make the
\* reader miss one expense at most, and without deletions nothing is missed.
MissedByDeletions == pc = "done" => Cardinality(before \ listed) <= Cardinality(deleted)
===============================================================================
