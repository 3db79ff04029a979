---------------------------- MODULE MCLedgerGroups ----------------------------
(***************************************************************************)
(* Two instances of Ledger in one run: one group and every kind of record, *)
(* or all groups and fewer records, so that the admin of one can name an   *)
(* expense of another.  The behaviour picks the groups it uses.            *)
(***************************************************************************)
EXTENDS MCLedger

CONSTANTS FewRecords, FewAmounts   \* bounds for behaviours that use several groups

VARIABLE used

FewCalls == [op : {"expense"}, group : Groups, user : Users, form : GoodForms]
              \cup [op : {"settlement"}, group : Groups, user : Users,
                    receiver : Users, amount : FewAmounts]
              \cup [op : {"delete"}, group : Groups, user : Users, id : 1..FewRecords]
              \cup ReportCall

WithinBounds ==
  /\ \A g \in Groups \ used : founder'[g] = NoUser
  /\ \A r \in Requests : call'[r] # NoCall => call'[r].group \in used
  /\ Cardinality(used) > 1 => /\ nextId' <= FewRecords + 1
                              /\ \A r \in Requests : call'[r] \in FewCalls \cup {NoCall}

MCInit == used \in SUBSET Groups \ {{}} /\ Init
MCNext == Next /\ WithinBounds /\ UNCHANGED used
MCSpec == MCInit /\ [][MCNext]_<<vars, used>>
===============================================================================
