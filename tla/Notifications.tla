---------------------------- MODULE Notifications ----------------------------
(***************************************************************************)
(* The mails about a new expense or settlement: the request queues a       *)
(* message after its commit (expense_service.py, settlement_service.py),   *)
(* a Celery worker takes it, reads the record and the group and mails the  *)
(* recipients (email_tasks.py).  Requests and workers die, the database,   *)
(* the broker and the mail server fail.  Celery acknowledges a message     *)
(* when a worker takes it and delivers it once.  Deleted expenses are      *)
(* mailed about like any other: the task does not look at is_deleted.      *)
(***************************************************************************)
EXTENDS GroupRoster, Naturals, FiniteSets

CONSTANTS Records,   \* expenses and settlements ever recorded
          Workers    \* processes of the Celery worker (--concurrency=2)

MaxRetries == 3
RetryDelay == 60

VARIABLES row,       \* per record: what is committed
          request,   \* per record: the request that records it
          queue,     \* messages at the broker
          worker,    \* per worker: the task it runs
          mails,     \* per record and user: mails delivered
          bounced,   \* per record: users whose mail could not be sent
          finished,  \* records whose task returned
          dropped,   \* records whose message was lost or given up
          stayed     \* history: members ever since the record was committed

outcome == <<mails, bounced, finished, dropped>>
vars    == <<rosterVars, row, request, queue, worker, outcome, stayed>>

NoRow == [kind |-> "none"]
Rows  == [kind : {"expense"}, group : Groups]
           \cup [kind : {"settlement"}, group : Groups, receiver : Users]
Message(r, n) == [record |-> r, retries |-> n, countdown |-> IF n = 0 THEN 0 ELSE RetryDelay]
Messages == {Message(r, n) : r \in Records, n \in 0..MaxRetries}

\* All members hear of an expense, the receiver of a settlement.
Recipients(new) == IF new.kind = "expense" THEN roster[new.group] ELSE {new.receiver}

Idle == [stage |-> "idle"]
Task(stage, m, unmailed) == [stage |-> stage, msg |-> m, unmailed |-> unmailed]
Goto(w, stage, unmailed) == worker' = [worker EXCEPT ![w] = Task(stage, @.msg, unmailed)]
Release(w) == worker' = [worker EXCEPT ![w] = Idle]
Record(w)  == worker[w].msg.record

-------------------------------------------------------------------------------
(* The request *)

\* create_expense, create_settlement: COMMIT.  Membership was checked earlier
\* and may have ended (Ledger); the group is there for good.
Commit(r, new) == /\ request[r] = "none"
                  /\ founder[new.group] # NoUser
                  /\ row' = [row EXCEPT ![r] = new]
                  /\ request' = [request EXCEPT ![r] = "queueing"]
                  /\ stayed' = [stayed EXCEPT ![r] = roster[new.group]]
                  /\ UNCHANGED <<rosterVars, queue, worker, outcome>>

\* .delay(): a broker that cannot be reached is logged and the mail is lost.
Delay(r) == /\ request[r] = "queueing"
            /\ request' = [request EXCEPT ![r] = "over"]
            /\ \/ queue' = queue \cup {Message(r, 0)} /\ UNCHANGED dropped
               \/ dropped' = dropped \cup {r} /\ UNCHANGED queue
            /\ UNCHANGED <<rosterVars, row, worker, mails, bounced, finished, stayed>>

\* The process dies between the commit and .delay(), or the SELECT there fails.
Die(r) == /\ request[r] = "queueing"
          /\ request' = [request EXCEPT ![r] = "over"]
          /\ dropped' = dropped \cup {r}
          /\ UNCHANGED <<rosterVars, row, queue, worker, mails, bounced, finished, stayed>>

-------------------------------------------------------------------------------
(* The worker *)

Take(w, m) == /\ worker[w] = Idle /\ m \in queue
              /\ queue' = queue \ {m}
              /\ worker' = [worker EXCEPT ![w] = Task("record", m, {})]
              /\ UNCHANGED <<rosterVars, row, request, outcome, stayed>>

\* The SELECT of the expense or settlement; nobody ever removes the row.
ReadRecord(w) == /\ worker[w].stage = "record"
                 /\ row[Record(w)] # NoRow
                 /\ Goto(w, "group", {})
                 /\ UNCHANGED <<rosterVars, row, request, queue, outcome, stayed>>

\* The SELECT of the group with its members.
ReadGroup(w) == /\ worker[w].stage = "group"
                /\ Goto(w, "mail", Recipients(row[Record(w)]))
                /\ UNCHANGED <<rosterVars, row, request, queue, outcome, stayed>>

Send(w, u) == /\ worker[w].stage = "mail" /\ u \in worker[w].unmailed
              /\ mails' = [mails EXCEPT ![Record(w)][u] = @ + 1]
              /\ Goto(w, "mail", worker[w].unmailed \ {u})
              /\ UNCHANGED <<rosterVars, row, request, queue, bounced, finished, dropped, stayed>>

\* self.retry: after a minute, up to three times; lost if the broker is down.
RetriesForever(m) == TRUE                                          \* mutant
RetriesLeft(m) == m.retries < MaxRetries
NextTry(m) == Message(m.record, m.retries + 1)
Retry(w) == LET m == worker[w].msg IN
              /\ Release(w)
              /\ \/ /\ RetriesLeft(m)
                    /\ queue' = queue \cup {NextTry(m)}
                    /\ UNCHANGED dropped
                 \/ dropped' = dropped \cup {m.record} /\ UNCHANGED queue
              /\ UNCHANGED <<rosterVars, row, request, mails, bounced, finished, stayed>>

\* The session is open from the first SELECT until the last mail is out: a lost
\* connection makes a SELECT fail, or the rollback and dispose of _task_db behind
\* the mails.
Closing(w) == worker[w].stage = "mail" /\ worker[w].unmailed = {}
Reconnects(w) == /\ worker[w].stage \in {"record", "group"}          \* mutant
                 /\ Goto(w, "record", {})
                 /\ UNCHANGED <<rosterVars, row, request, queue, outcome, stayed>>
Fail(w) == (worker[w].stage \in {"record", "group"} \/ Closing(w)) /\ Retry(w)

\* The mail server refuses a mail: log per-recipient failure and continue.
BounceRaises(w, u) == worker[w].stage = "mail" /\ u \in worker[w].unmailed /\ Retry(w)  \* mutant
BounceStops(w, u) == /\ worker[w].stage = "mail" /\ u \in worker[w].unmailed  \* mutant
                     /\ bounced' = [bounced EXCEPT ![Record(w)] = @ \cup {u}]
                     /\ Goto(w, "mail", {})
                     /\ UNCHANGED <<rosterVars, row, request, queue, mails, finished, dropped, stayed>>
Bounce(w, u) == /\ worker[w].stage = "mail" /\ u \in worker[w].unmailed
                /\ bounced' = [bounced EXCEPT ![Record(w)] = @ \cup {u}]
                /\ Goto(w, "mail", worker[w].unmailed \ {u})
                /\ UNCHANGED <<rosterVars, row, request, queue, mails, finished, dropped, stayed>>

\* Everybody was tried and the session closed without an error.
Return(w) == /\ Closing(w)
             /\ finished' = finished \cup {Record(w)}
             /\ Release(w)
             /\ UNCHANGED <<rosterVars, row, request, queue, mails, bounced, dropped, stayed>>

\* The worker process dies; its message was acknowledged when it was taken.
Kill(w) == /\ worker[w] # Idle
           /\ Release(w)
           /\ dropped' = dropped \cup {Record(w)}
           /\ UNCHANGED <<rosterVars, row, request, queue, mails, bounced, finished, stayed>>

Work(w) == \/ \E m \in queue : Take(w, m)
           \/ ReadRecord(w) \/ ReadGroup(w) \/ Fail(w) \/ Return(w)
           \/ \E u \in Users : Send(w, u) \/ Bounce(w, u)

RosterChanges ==
  /\ RosterNext
  /\ stayed' = [r \in Records |-> IF row[r] = NoRow THEN {} ELSE stayed[r] \cap roster'[row[r].group]]
  /\ UNCHANGED <<row, request, queue, worker, outcome>>

Next == \/ RosterChanges
        \/ \E r \in Records : (\E new \in Rows : Commit(r, new)) \/ Delay(r) \/ Die(r)
        \/ \E w \in Workers : Work(w) \/ Kill(w)

Init == /\ RosterInit
        /\ row     = [r \in Records |-> NoRow]
        /\ request = [r \in Records |-> "none"]
        /\ queue   = {}
        /\ worker  = [w \in Workers |-> Idle]
        /\ mails   = [r \in Records |-> [u \in Users |-> 0]]
        /\ bounced = [r \in Records |-> {}]
        /\ finished = {} /\ dropped = {}
        /\ stayed  = [r \in Records |-> {}]

\* A request goes on after its commit, workers take messages while there are any
\* and go on with a task they have begun.
Fairness == /\ \A r \in Records : WF_vars(Delay(r))
            /\ \A w \in Workers : WF_vars(Work(w))
Spec == Init /\ [][Next]_vars /\ Fairness

-------------------------------------------------------------------------------
(* Properties *)

\* Every variable holds a value of its type; nobody gets more mails about a record
\* than its task has tries.
Tasks == {Task(stage, m, U) : stage \in {"record", "group", "mail"}, m \in Messages,
                              U \in SUBSET Users}
NotificationsTypeOK ==
  /\ RosterTypeOK
  /\ row \in [Records -> Rows \cup {NoRow}]
  /\ request \in [Records -> {"none", "queueing", "over"}]
  /\ queue \in SUBSET Messages
  /\ worker \in [Workers -> Tasks \cup {Idle}]
  /\ mails \in [Records -> [Users -> 0..(MaxRetries + 1)]]
  /\ bounced \in [Records -> SUBSET Users]
  /\ finished \in SUBSET Records /\ dropped \in SUBSET Records
  /\ stayed \in [Records -> SUBSET Users]

\* Who has to hear of a record, whoever comes and goes; who has heard of it, or
\* would have if the mail server had taken the mail.
Due(r)   == IF row[r].kind = "expense" THEN stayed[r] ELSE {row[r].receiver}
Told(r)  == {u \in Users : mails[r][u] > 0} \cup bounced[r]
Tried(r) == Due(r) \subseteq Told(r)

\* Send individual email to each member: one mail to each of them about a record.
\* The code does not keep to it.
AtMostOneMail == \A r \in Records, u \in Users : mails[r][u] <= 1

\* What it does keep to: whatever fails and is retried, nobody gets a second mail
\* before everyone who has to hear of the record was tried.
AgainAfterEveryone ==
  \A r \in Records : (\E u \in Users : mails[r][u] > 1) => Tried(r)

\* Notify all group members; one recipient's failure does not block the others:
\* a task that returns has mailed, or tried to mail, everyone who has been in the
\* group ever since the expense was committed, or the receiver of the settlement.
NobodySkipped == \A r \in finished : Tried(r)

\* A message is never tried forever and never forgotten: its task returns, or the
\* message is lost to one of the failures above.
EveryMessageEnds ==
  \A r \in Records : request[r] = "queueing" ~> r \in finished \cup dropped
===============================================================================
