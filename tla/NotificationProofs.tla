--------------------------- MODULE NotificationProofs ---------------------------
(***************************************************************************)
(* Nobody is skipped, and nobody is mailed again before everyone was       *)
(* tried, for any number of records, users and workers.                    *)
(***************************************************************************)
EXTENDS Notifications, TLAPS

-------------------------------------------------------------------------------
(* The inductive invariant *)

Busy(w, r) == worker[w] # Idle /\ Record(w) = r
Fresh(r)   == \A u \in Users : mails[r][u] = 0

\* A record is in one place: its request, one message, or one worker.
OnePlace ==
  /\ \A r \in Records : request[r] # "over" =>
       /\ Fresh(r) /\ r \notin finished
       /\ \A m \in queue : m.record # r
       /\ \A w \in Workers : ~Busy(w, r)
  /\ \A m, n \in queue : m.record = n.record => m = n
  /\ \A m \in queue, w \in Workers : ~Busy(w, m.record)
  /\ \A v, w \in Workers : worker[v] # Idle /\ Busy(w, Record(v)) => v = w

\* Before a task begins to mail, either no task about its record has, or one has
\* come to everyone; each try so far has mailed nobody more than once.
Ready(m) == /\ Fresh(m.record) \/ Tried(m.record)
            /\ \A u \in Users : mails[m.record][u] <= m.retries

\* Those the task has not come to have no mail of this try.
Mailing(m, U) == /\ (\A u \in U : mails[m.record][u] = 0) \/ Tried(m.record)
                 /\ \A u \in Users : mails[m.record][u] <= m.retries + 1
                 /\ \A u \in U : mails[m.record][u] <= m.retries

Rounds ==
  /\ \A m \in queue : Ready(m)
  /\ \A w \in Workers :
       /\ worker[w].stage \in {"record", "group"} => Ready(worker[w].msg)
       /\ worker[w].stage = "mail" => Mailing(worker[w].msg, worker[w].unmailed)

\* Whoever stayed is still a member, and is told or about to be told.
Staying ==
  /\ \A r \in Records : request[r] = "none" <=> row[r] = NoRow
  /\ \A r \in Records : row[r] # NoRow => stayed[r] \subseteq roster[row[r].group]
  /\ \A w \in Workers :
       worker[w].stage = "mail" => Due(Record(w)) \subseteq worker[w].unmailed \cup Told(Record(w))

IInv == /\ NotificationsTypeOK /\ OnePlace /\ Rounds /\ Staying
        /\ AgainAfterEveryone /\ NobodySkipped

-------------------------------------------------------------------------------
(* Messages and tasks *)

\* The fields of a message.
LEMMA MessageFields ==
  ASSUME NEW m \in Messages
  PROVE  /\ m.record \in Records /\ m.retries \in 0..MaxRetries
         /\ m = Message(m.record, m.retries)
         /\ m.retries < MaxRetries => NextTry(m) \in Messages
         /\ NextTry(m).record = m.record
BY DEF Messages, Message, NextTry, MaxRetries

\* The fields of a worker's task.
LEMMA TaskFields ==
  ASSUME NotificationsTypeOK, NEW w \in Workers, worker[w] # Idle
  PROVE  /\ worker[w] = Task(worker[w].stage, worker[w].msg, worker[w].unmailed)
         /\ worker[w].stage \in {"record", "group", "mail"}
         /\ worker[w].msg \in Messages /\ worker[w].unmailed \in SUBSET Users
         /\ Record(w) \in Records
BY MessageFields DEF NotificationsTypeOK, Tasks, Task, Record

\* An idle worker has no stage of a task.
LEMMA IdleFields ==
  ASSUME NEW w \in Workers
  PROVE  worker[w] = Idle => worker[w].stage \notin {"record", "group", "mail"}
BY DEF Idle

\* A worker that goes on with its task.
LEMMA GotoFields ==
  ASSUME NotificationsTypeOK, NEW w \in Workers, worker[w] # Idle,
         NEW stage \in {"record", "group", "mail"}, NEW U \in SUBSET Users, Goto(w, stage, U)
  PROVE  /\ worker' \in [Workers -> Tasks \cup {Idle}]
         /\ worker'[w] = Task(stage, worker[w].msg, U) /\ worker'[w] # Idle
         /\ \A v \in Workers \ {w} : worker'[v] = worker[v]
<1>1. worker[w].msg \in Messages
  BY TaskFields
<1>2. Task(stage, worker[w].msg, U) \in Tasks
  BY <1>1 DEF Tasks
<1>3. worker' = [worker EXCEPT ![w] = Task(stage, worker[w].msg, U)]
  BY DEF Goto
<1>4. worker \in [Workers -> Tasks \cup {Idle}]
  BY DEF NotificationsTypeOK
<1>5. Task(stage, worker[w].msg, U) # Idle
  BY DEF Task, Idle
<1> QED BY <1>2, <1>3, <1>4, <1>5

\* A worker whose task is over.
LEMMA ReleaseFields ==
  ASSUME NotificationsTypeOK, NEW w \in Workers, Release(w)
  PROVE  /\ worker' \in [Workers -> Tasks \cup {Idle}]
         /\ worker'[w] = Idle
         /\ \A v \in Workers \ {w} : worker'[v] = worker[v]
BY DEF NotificationsTypeOK, Release

\* A record about which nothing is mailed: its tasks stay where they are.
Quiet(q) == /\ mails'[q] = mails[q] /\ bounced'[q] = bounced[q]
            /\ row'[q] = row[q] /\ stayed'[q] \subseteq stayed[q]

\* What is true of a quiet record stays true.
LEMMA QuietKeeps ==
  ASSUME NEW q \in Records, Quiet(q)
  PROVE  /\ Fresh(q) => Fresh(q)'
         /\ Told(q)' = Told(q) /\ Due(q)' \subseteq Due(q)
         /\ Tried(q) => Tried(q)'
         /\ \A m \in Messages : m.record = q /\ Ready(m) => Ready(m)'
         /\ \A m \in Messages, U \in SUBSET Users : m.record = q /\ Mailing(m, U) => Mailing(m, U)'
<1>1. Told(q)' = Told(q) /\ Due(q)' \subseteq Due(q) /\ (Fresh(q) => Fresh(q)')
  BY DEF Quiet, Told, Due, Fresh
<1>2. Tried(q) => Tried(q)'
  BY <1>1 DEF Tried
<1>3. ASSUME NEW m \in Messages, m.record = q, Ready(m)
      PROVE  Ready(m)'
  BY <1>1, <1>2, <1>3 DEF Quiet, Ready
<1>4. ASSUME NEW m \in Messages, NEW U \in SUBSET Users, m.record = q, Mailing(m, U)
      PROVE  Mailing(m, U)'
  BY <1>2, <1>4 DEF Quiet, Mailing
<1> QED BY <1>1, <1>2, <1>3, <1>4

\* A worker that stays at a quiet record keeps what Rounds and Staying say of it.
LEMMA WorkerKeeps ==
  ASSUME IInv, NEW w \in Workers, worker'[w] = worker[w],
         worker[w] # Idle => Quiet(Record(w))
  PROVE  /\ (worker[w].stage \in {"record", "group"} => Ready(worker[w].msg))'
         /\ (worker[w].stage = "mail" => Mailing(worker[w].msg, worker[w].unmailed))'
         /\ (worker[w].stage = "mail"
               => Due(Record(w)) \subseteq worker[w].unmailed \cup Told(Record(w)))'
<1>1. CASE worker[w] = Idle
  BY <1>1, IdleFields
<1>2. CASE worker[w] # Idle
  <2>1. PICK q \in Records, m \in Messages, U \in SUBSET Users :
          /\ q = Record(w) /\ m = worker[w].msg /\ U = worker[w].unmailed /\ m.record = q
    BY <1>2, TaskFields DEF IInv, Record
  <2>2. /\ Record(w)' = q /\ worker'[w].msg = m /\ worker'[w].unmailed = U
        /\ worker'[w].stage = worker[w].stage
    BY <2>1 DEF Record
  <2>3. /\ Ready(m) => Ready(m)'
        /\ Mailing(m, U) => Mailing(m, U)'
        /\ Told(q)' = Told(q) /\ Due(q)' \subseteq Due(q)
    BY <1>2, <2>1, QuietKeeps
  <2>4. worker[w].stage \in {"record", "group"} => Ready(m)'
    BY <2>1, <2>3 DEF IInv, Rounds
  <2>5. worker[w].stage = "mail" => Mailing(m, U)'
    BY <2>1, <2>3 DEF IInv, Rounds
  <2>6. worker[w].stage = "mail" => Due(q)' \subseteq U \cup Told(q)'
    BY <2>1, <2>3 DEF IInv, Staying
  <2>7. (worker[w].stage \in {"record", "group"} => Ready(worker[w].msg))'
    BY <2>2, <2>4 DEF Ready, Fresh, Tried, Due, Told
  <2>8. (worker[w].stage = "mail" => Mailing(worker[w].msg, worker[w].unmailed))'
    BY <2>2, <2>5 DEF Mailing, Tried, Due, Told
  <2>9. (worker[w].stage = "mail"
           => Due(Record(w)) \subseteq worker[w].unmailed \cup Told(Record(w)))'
    BY <2>2, <2>6 DEF Due, Told
  <2> QED BY <2>7, <2>8, <2>9
<1> QED BY <1>1, <1>2

\* Rounds says the same of worker w after a step that mails nobody, if it said so
\* of the task that w has then.
LEMMA TaskKeeps ==
  ASSUME IInv, NEW w \in Workers, UNCHANGED <<mails, bounced, row, stayed>>,
         worker'[w].stage \in {"record", "group"} => Ready(worker'[w].msg),
         worker'[w].stage = "mail" => Mailing(worker'[w].msg, worker'[w].unmailed),
         \A v \in Workers \ {w} : worker'[v] = worker[v],
         \A m \in queue' : Ready(m)
  PROVE  Rounds'
<1>1. \A m : Ready(m) => Ready(m)'
  BY DEF Ready, Fresh, Tried, Due, Told
<1>2. (worker[w].stage \in {"record", "group"} => Ready(worker[w].msg))'
  BY DEF Ready, Fresh, Tried, Due, Told
<1>3. (worker[w].stage = "mail" => Mailing(worker[w].msg, worker[w].unmailed))'
  BY DEF Mailing, Tried, Due, Told
<1>4. \A q \in Records : Quiet(q)
  BY DEF Quiet
<1>5. ASSUME NEW v \in Workers \ {w}
      PROVE  /\ (worker[v].stage \in {"record", "group"} => Ready(worker[v].msg))'
             /\ (worker[v].stage = "mail" => Mailing(worker[v].msg, worker[v].unmailed))'
  <2>1. worker[v] # Idle => Quiet(Record(v))
    BY <1>4, TaskFields DEF IInv
  <2> QED BY <2>1, WorkerKeeps
<1> QED BY <1>1, <1>2, <1>3, <1>5 DEF Rounds

-------------------------------------------------------------------------------
(* The steps *)

\* The commit of a record.
LEMMA CommitKeeps ==
  ASSUME IInv, NEW r \in Records, NEW new \in Rows, Commit(r, new)
  PROVE  IInv'
<1>1. new.group \in Groups /\ new # NoRow /\ roster[new.group] \in SUBSET Users
  BY DEF IInv, NotificationsTypeOK, RosterTypeOK, Rows, NoRow
<1>2. NotificationsTypeOK'
  BY <1>1 DEF IInv, NotificationsTypeOK, Commit, rosterVars, outcome, RosterTypeOK
<1>3. OnePlace'
  BY DEF IInv, NotificationsTypeOK, OnePlace, Commit, outcome, Busy, Record, Fresh
<1>4. /\ row'[r] = new /\ stayed'[r] = roster[new.group] /\ request'[r] = "queueing"
      /\ \A q \in Records \ {r} : row'[q] = row[q] /\ stayed'[q] = stayed[q] /\ request'[q] = request[q]
      /\ UNCHANGED <<roster, mails, bounced, finished, worker, queue>>
  BY DEF IInv, NotificationsTypeOK, Commit, rosterVars, outcome
<1>5. /\ request[r] = "none" /\ r \notin finished /\ Fresh(r)
      /\ \A m \in queue : m.record # r
      /\ \A w \in Workers : ~Busy(w, r)
  BY DEF IInv, OnePlace, Commit
<1>6. \A q \in Records \ {r} : Quiet(q)
  BY <1>4 DEF Quiet
<1>7. \A m \in queue : Ready(m)'
  <2> SUFFICES ASSUME NEW m \in queue PROVE Ready(m)'
    OBVIOUS
  <2>1. m \in Messages /\ m.record \in Records \ {r} /\ Ready(m)
    BY <1>5, MessageFields DEF IInv, NotificationsTypeOK, Rounds
  <2> QED BY <1>6, <2>1, QuietKeeps
<1>8. ASSUME NEW w \in Workers, worker[w] # Idle PROVE Quiet(Record(w))
  BY <1>5, <1>6, <1>8, TaskFields DEF IInv, Busy
<1>9. Rounds'
  <2>1. \A w \in Workers : worker'[w] = worker[w]
    BY <1>4
  <2> QED BY <1>4, <1>7, <1>8, <2>1, WorkerKeeps DEF Rounds, Ready, Mailing, Fresh, Tried, Due, Told
<1>10. Staying'
  <2>1. \A q \in Records : /\ (request[q] = "none" <=> row[q] = NoRow)'
                           /\ (row[q] # NoRow => stayed[q] \subseteq roster[row[q].group])'
    BY <1>1, <1>4 DEF IInv, Staying
  <2>2. \A w \in Workers : worker'[w] = worker[w]
    BY <1>4
  <2> QED BY <2>1, <2>2, <1>8, WorkerKeeps DEF Staying
<1>11. AgainAfterEveryone'
  <2>1. \A u \in Users : ~(mails'[r][u] > 1)
    BY <1>4, <1>5 DEF Fresh
  <2>2. ASSUME NEW q \in Records \ {r}, \E u \in Users : mails'[q][u] > 1
        PROVE  Tried(q)'
    BY <1>4, <1>6, <2>2, QuietKeeps DEF IInv, AgainAfterEveryone
  <2> QED BY <2>1, <2>2 DEF AgainAfterEveryone
<1>12. NobodySkipped'
  <2>1. \A q \in finished : q \in Records \ {r}
    BY <1>5 DEF IInv, NotificationsTypeOK
  <2> QED BY <1>4, <1>6, <2>1, QuietKeeps DEF IInv, NobodySkipped
<1> QED BY <1>2, <1>3, <1>9, <1>10, <1>11, <1>12 DEF IInv

\* Queueing the message, or failing to.
LEMMA DelayKeeps ==
  ASSUME IInv, NEW r \in Records, Delay(r) \/ Die(r)
  PROVE  IInv'
<1>0. /\ request[r] = "queueing" /\ request' = [request EXCEPT ![r] = "over"]
      /\ \/ queue' = queue \cup {Message(r, 0)} /\ UNCHANGED dropped
         \/ dropped' = dropped \cup {r} /\ UNCHANGED queue
      /\ UNCHANGED <<founder, roster, row, worker, mails, bounced, finished, stayed>>
  BY DEF Delay, Die, rosterVars
<1>1. Message(r, 0) \in Messages /\ Message(r, 0).record = r
  BY DEF Messages, Message, MaxRetries
<1>2. NotificationsTypeOK'
  BY <1>0, <1>1 DEF IInv, NotificationsTypeOK, RosterTypeOK
<1>3. /\ Fresh(r) /\ \A m \in queue : m.record # r
      /\ \A w \in Workers : ~Busy(w, r)
  BY <1>0 DEF IInv, OnePlace
<1>4. OnePlace'
  BY <1>0, <1>1, <1>3 DEF IInv, NotificationsTypeOK, OnePlace, Busy, Record, Fresh
<1>5. Ready(Message(r, 0))
  BY <1>1, <1>3 DEF Ready, Fresh, Message
<1>6. Rounds'
  BY <1>0, <1>5 DEF IInv, Rounds, Ready, Mailing, Fresh, Tried, Due, Told
<1>7. Staying' /\ AgainAfterEveryone' /\ NobodySkipped'
  BY <1>0 DEF IInv, NotificationsTypeOK, Staying, AgainAfterEveryone, NobodySkipped, Record,
              Tried, Due, Told
<1> QED BY <1>2, <1>4, <1>6, <1>7 DEF IInv

\* A worker takes a message.
LEMMA TakeKeeps ==
  ASSUME IInv, NEW w \in Workers, NEW m \in queue, Take(w, m)
  PROVE  IInv'
<1>1. /\ worker[w] = Idle /\ queue' = queue \ {m}
      /\ worker' = [worker EXCEPT ![w] = Task("record", m, {})]
      /\ UNCHANGED <<founder, roster, row, request, mails, bounced, finished, dropped, stayed>>
  BY DEF Take, rosterVars, outcome
<1>2. /\ m \in Messages /\ m.record \in Records
      /\ Task("record", m, {}) \in Tasks /\ Task("record", m, {}) # Idle
  <2>1. m \in Messages
    BY DEF IInv, NotificationsTypeOK
  <2>2. Task("record", m, {}) \in Tasks
    BY <2>1 DEF Tasks
  <2>3. Task("record", m, {}) # Idle
    BY DEF Task, Idle
  <2> QED BY <2>1, <2>2, <2>3, MessageFields
<1>3. /\ worker'[w] = Task("record", m, {})
      /\ \A v \in Workers \ {w} : worker'[v] = worker[v]
  BY <1>1 DEF IInv, NotificationsTypeOK
<1>4. NotificationsTypeOK'
  BY <1>1, <1>2 DEF IInv, NotificationsTypeOK, RosterTypeOK
<1>5. worker'[w].stage = "record" /\ worker'[w].msg = m
  BY <1>3 DEF Task
<1>6. OnePlace'
  BY <1>1, <1>2, <1>3, <1>5 DEF IInv, NotificationsTypeOK, OnePlace, Busy, Record, Fresh
<1>7. Rounds'
  <2>1. \A n \in queue : Ready(n)
    BY DEF IInv, Rounds
  <2> QED BY <1>1, <1>3, <1>5, <2>1, TaskKeeps
<1>8. Staying' /\ AgainAfterEveryone' /\ NobodySkipped'
  BY <1>1, <1>3, <1>5 DEF IInv, Staying, AgainAfterEveryone, NobodySkipped, Record, Tried, Due, Told
<1> QED BY <1>4, <1>6, <1>7, <1>8 DEF IInv

\* A worker reads, or starts the mailing.
LEMMA ReadKeeps ==
  ASSUME IInv, NEW w \in Workers, ReadRecord(w) \/ ReadGroup(w)
  PROVE  IInv'
<1> DEFINE U == IF worker[w].stage = "record" THEN {} ELSE Recipients(row[Record(w)])
           stage == IF worker[w].stage = "record" THEN "group" ELSE "mail"
<1>1. /\ worker[w].stage \in {"record", "group"} /\ worker[w] # Idle
      /\ Goto(w, stage, U)
      /\ UNCHANGED <<founder, roster, row, request, queue, mails, bounced, finished, dropped, stayed>>
  BY IdleFields DEF ReadRecord, ReadGroup, rosterVars, outcome
<1>2. /\ Record(w) \in Records /\ row[Record(w)] \in Rows
      /\ stayed[Record(w)] \subseteq roster[row[Record(w)].group]
  <2>1. Record(w) \in Records
    BY <1>1, TaskFields DEF IInv
  <2>2. request[Record(w)] = "over"
    BY <1>1, <2>1 DEF IInv, OnePlace, Busy
  <2>3. row[Record(w)] # NoRow
    BY <2>1, <2>2 DEF IInv, Staying
  <2> QED BY <2>1, <2>3 DEF IInv, NotificationsTypeOK, Staying
<1>3. U \in SUBSET Users /\ stage \in {"record", "group", "mail"}
  <2>1. /\ row[Record(w)].group \in Groups
        /\ row[Record(w)].kind # "expense" => row[Record(w)].receiver \in Users
    BY <1>2 DEF Rows
  <2> QED BY <2>1 DEF IInv, NotificationsTypeOK, RosterTypeOK, Recipients
<1>4. worker[w].stage = "group" => Due(Record(w)) \subseteq U
  BY <1>2 DEF Recipients, Due
<1>5. stage = "mail" => worker[w].stage = "group"
  BY <1>1
<1> HIDE DEF U, stage
<1>6. /\ worker' \in [Workers -> Tasks \cup {Idle}]
      /\ worker'[w] = Task(stage, worker[w].msg, U) /\ worker'[w] # Idle
      /\ \A v \in Workers \ {w} : worker'[v] = worker[v]
  BY <1>1, <1>3, GotoFields DEF IInv
<1>7. worker'[w].stage = stage /\ worker'[w].msg = worker[w].msg /\ worker'[w].unmailed = U
  BY <1>6 DEF Task
<1>8. NotificationsTypeOK'
  BY <1>1, <1>6 DEF IInv, NotificationsTypeOK, RosterTypeOK
<1>9. Ready(worker[w].msg)
  BY <1>1 DEF IInv, Rounds
<1>10. OnePlace'
  BY <1>1, <1>6, <1>7 DEF IInv, OnePlace, Busy, Record, Fresh
<1>11. Mailing(worker[w].msg, U)
  <2>1. worker[w].msg \in Messages /\ mails \in [Records -> [Users -> 0..(MaxRetries + 1)]]
    BY <1>1, TaskFields DEF IInv, NotificationsTypeOK
  <2>2. /\ worker[w].msg.retries \in Nat
        /\ \A u \in Users : mails[worker[w].msg.record][u] \in Nat
    BY <2>1, MessageFields DEF MaxRetries
  <2> QED BY <1>3, <1>9, <2>2 DEF Ready, Mailing, Fresh
<1>12. Rounds'
  <2>1. \A m \in queue : Ready(m)
    BY DEF IInv, Rounds
  <2> QED BY <1>1, <1>6, <1>7, <1>9, <1>11, <2>1, TaskKeeps
<1>13. Staying'
  BY <1>1, <1>4, <1>5, <1>6, <1>7 DEF IInv, Staying, Record, Due, Told
<1>14. AgainAfterEveryone' /\ NobodySkipped'
  BY <1>1 DEF IInv, AgainAfterEveryone, NobodySkipped, Tried, Due, Told
<1> QED BY <1>8, <1>10, <1>12, <1>13, <1>14 DEF IInv

\* A mail goes out, or comes back.
LEMMA MailKeeps ==
  ASSUME IInv, NEW w \in Workers, NEW u \in Users, Send(w, u) \/ Bounce(w, u)
  PROVE  IInv'
<1>0. PICK r, U : r = Record(w) /\ U = worker[w].unmailed \ {u}
  OBVIOUS
<1>1. /\ worker[w].stage = "mail" /\ u \in worker[w].unmailed /\ worker[w] # Idle
      /\ Goto(w, "mail", U)
      /\ \/ mails' = [mails EXCEPT ![r][u] = @ + 1] /\ UNCHANGED bounced
         \/ bounced' = [bounced EXCEPT ![r] = @ \cup {u}] /\ UNCHANGED mails
      /\ UNCHANGED <<founder, roster, row, request, queue, finished, dropped, stayed>>
  BY <1>0, IdleFields DEF Send, Bounce, rosterVars
<1>2. r \in Records /\ worker[w].unmailed \in SUBSET Users /\ U \in SUBSET Users
  BY <1>0, <1>1, TaskFields DEF IInv
<1>3. /\ worker' \in [Workers -> Tasks \cup {Idle}]
      /\ worker'[w] = Task("mail", worker[w].msg, U) /\ worker'[w] # Idle
      /\ \A v \in Workers \ {w} : worker'[v] = worker[v]
  BY <1>1, <1>2, GotoFields DEF IInv
<1>4. worker'[w].stage = "mail" /\ worker'[w].msg = worker[w].msg /\ worker'[w].unmailed = U
  BY <1>3 DEF Task
<1>5. /\ worker[w].msg \in Messages /\ worker[w].msg.record = r
      /\ worker[w].msg.retries \in 0..MaxRetries
      /\ Mailing(worker[w].msg, worker[w].unmailed)
  BY <1>0, <1>1, TaskFields, MessageFields DEF IInv, Rounds, Record
<1>6. mails[r][u] \in Nat /\ mails[r][u] <= worker[w].msg.retries /\ (mails[r][u] = 0 \/ Tried(r))
  <2>1. mails[r][u] \in 0..(MaxRetries + 1)
    BY <1>1, <1>2 DEF IInv, NotificationsTypeOK
  <2> QED BY <1>1, <1>5, <2>1 DEF Mailing, MaxRetries
<1>7. /\ mails' \in [Records -> [Users -> 0..(MaxRetries + 1)]]
      /\ bounced' \in [Records -> SUBSET Users]
      /\ \A q \in Records, v \in Users : q # r \/ v # u => mails'[q][v] = mails[q][v]
      /\ mails'[r][u] \in {mails[r][u], mails[r][u] + 1}
      /\ \A q \in Records : bounced[q] \subseteq bounced'[q]
      /\ \A q \in Records \ {r} : mails'[q] = mails[q] /\ bounced'[q] = bounced[q]
      /\ mails'[r][u] = mails[r][u] + 1 \/ u \in bounced'[r]
  <2>1. /\ mails \in [Records -> [Users -> 0..(MaxRetries + 1)]]
        /\ bounced \in [Records -> SUBSET Users]
    BY DEF IInv, NotificationsTypeOK
  <2>2. CASE mails' = [mails EXCEPT ![r][u] = @ + 1] /\ UNCHANGED bounced
    <3>1. mails[r][u] + 1 \in 0..(MaxRetries + 1)
      BY <1>5, <1>6 DEF MaxRetries
    <3> QED BY <1>2, <2>1, <2>2, <3>1
  <2>3. CASE bounced' = [bounced EXCEPT ![r] = @ \cup {u}] /\ UNCHANGED mails
    BY <1>2, <2>1, <2>3
  <2> QED BY <1>1, <2>2, <2>3
<1>8. NotificationsTypeOK'
  BY <1>1, <1>3, <1>7 DEF IInv, NotificationsTypeOK, RosterTypeOK
<1>9. /\ request[r] = "over"
      /\ \A m \in queue : m.record # r
      /\ \A v \in Workers \ {w} : worker[v] # Idle => Record(v) # r
  BY <1>0, <1>1, <1>2 DEF IInv, OnePlace, Busy
<1>10. \A q \in Records \ {r} : Quiet(q)
  BY <1>1, <1>7 DEF Quiet
<1>11. OnePlace'
  BY <1>1, <1>3, <1>4, <1>9, <1>10, QuietKeeps DEF IInv, OnePlace, Busy, Record
<1>12. Told(r) \subseteq Told(r)' /\ u \in Told(r)' /\ Due(r)' = Due(r)
  <2>1. \A v \in Users : mails[r][v] \in Nat
    BY <1>2 DEF IInv, NotificationsTypeOK
  <2>2. Due(r)' = Due(r)
    BY <1>1 DEF Due
  <2>3. /\ {v \in Users : mails[r][v] > 0} \subseteq {v \in Users : mails'[r][v] > 0}
        /\ bounced[r] \subseteq bounced'[r] /\ (mails'[r][u] > 0 \/ u \in bounced'[r])
    BY <1>2, <1>6, <1>7, <2>1
  <2> QED BY <2>2, <2>3 DEF Told
<1>14. \A q \in Records : Tried(q) => Due(q)' \subseteq Told(q)'
  <2>1. ASSUME NEW q \in Records \ {r}, Tried(q) PROVE Due(q)' \subseteq Told(q)'
    BY <1>10, <2>1, QuietKeeps DEF Tried
  <2> QED BY <1>12, <2>1 DEF Tried
<1>15. AgainAfterEveryone'
  <2>1. ASSUME NEW q \in Records, NEW v \in Users, mails'[q][v] > 1
        PROVE  Tried(q)
    <3>1. CASE mails[q][v] > 1
      BY <3>1 DEF IInv, AgainAfterEveryone
    <3>2. CASE ~(mails[q][v] > 1)
      <4>1. q = r /\ v = u /\ mails[r][u] # 0
        BY <1>6, <1>7, <2>1, <3>2
      <4> QED BY <1>6, <4>1
    <3> QED BY <3>1, <3>2
  <2> QED BY <1>14, <2>1 DEF AgainAfterEveryone, Tried
<1>16. NobodySkipped'
  BY <1>1, <1>14 DEF IInv, NotificationsTypeOK, NobodySkipped, Tried
<1>17. Mailing(worker[w].msg, U)'
  <2>1. worker'[w].msg.record = r
    BY <1>4, <1>5
  <2>2. \A v \in U : v \in Users /\ v # u /\ v \in worker[w].unmailed
    BY <1>0, <1>2
  <2>3. \A v \in U : mails'[r][v] = mails[r][v] /\ mails'[r][v] <= worker[w].msg.retries
    BY <1>2, <1>5, <1>7, <2>2 DEF Mailing
  <2>4. \A v \in Users : mails'[r][v] <= worker[w].msg.retries + 1
    BY <1>2, <1>5, <1>6, <1>7 DEF Mailing
  <2>5. (\A v \in U : mails'[r][v] = 0) \/ (Due(r)' \subseteq Told(r)')
    BY <1>2, <1>5, <1>14, <2>2, <2>3 DEF Mailing
  <2> QED BY <1>4, <1>5, <2>1, <2>3, <2>4, <2>5 DEF Mailing, Tried, Due, Told, Record
<1>18. \A v \in Workers \ {w} : worker[v] # Idle => Quiet(Record(v))
  BY <1>9, <1>10, TaskFields DEF IInv
<1>19. Rounds'
  <2>1. \A m \in queue : Ready(m)'
    BY <1>9, <1>10, QuietKeeps, MessageFields DEF IInv, NotificationsTypeOK, Rounds
  <2>2. ASSUME NEW v \in Workers \ {w}
        PROVE  /\ (worker[v].stage \in {"record", "group"} => Ready(worker[v].msg))'
               /\ (worker[v].stage = "mail" => Mailing(worker[v].msg, worker[v].unmailed))'
    BY <1>3, <1>18, WorkerKeeps
  <2>3. /\ (worker[w].stage \in {"record", "group"} => Ready(worker[w].msg))'
        /\ (worker[w].stage = "mail" => Mailing(worker[w].msg, worker[w].unmailed))'
    BY <1>4, <1>17 DEF Mailing
  <2> QED BY <1>1, <2>1, <2>2, <2>3 DEF Rounds, Ready
<1>20. Staying'
  <2>1. ASSUME NEW v \in Workers \ {w}
        PROVE  (worker[v].stage = "mail"
                  => Due(Record(v)) \subseteq worker[v].unmailed \cup Told(Record(v)))'
    BY <1>3, <1>18, WorkerKeeps
  <2>2. Record(w)' = r /\ Due(r) \subseteq worker[w].unmailed \cup Told(r)
    BY <1>0, <1>1, <1>4 DEF IInv, Staying, Record
  <2>3. Due(r)' \subseteq U \cup Told(r)'
    BY <1>0, <1>12, <2>2
  <2>4. Due(Record(w))' \subseteq worker'[w].unmailed \cup Told(Record(w))'
    BY <1>4, <2>2, <2>3 DEF Due, Told
  <2> QED BY <1>1, <2>1, <2>4 DEF IInv, Staying
<1> QED BY <1>8, <1>11, <1>15, <1>16, <1>19, <1>20 DEF IInv

\* A task is over: it returned, will be retried, or its worker died.
LEMMA ReleaseKeeps ==
  ASSUME IInv, NEW w \in Workers, Fail(w) \/ Return(w) \/ Kill(w)
  PROVE  IInv'
<1> DEFINE r == Record(w)
           m == worker[w].msg
<1>1. /\ worker[w] # Idle /\ Release(w)
      /\ UNCHANGED <<founder, roster, row, request, mails, bounced, stayed>>
  BY IdleFields DEF Fail, Closing, Retry, Return, Kill, rosterVars
<1>2. r \in Records /\ m \in Messages
  BY <1>1, TaskFields DEF IInv
<1>3. /\ worker' \in [Workers -> Tasks \cup {Idle}]
      /\ worker'[w] = Idle
      /\ \A v \in Workers \ {w} : worker'[v] = worker[v]
  BY <1>1, ReleaseFields DEF IInv
<1>4. /\ request[r] = "over"
      /\ \A n \in queue : n.record # r
      /\ \A v \in Workers \ {w} : worker[v] # Idle => Record(v) # r
  BY <1>1, <1>2 DEF IInv, OnePlace, Busy
<1>5. finished' = finished \/ (finished' = finished \cup {r} /\ Return(w))
  BY DEF Fail, Retry, Return, Kill
<1>6. dropped' \in {dropped, dropped \cup {r}}
  BY DEF Fail, Retry, Return, Kill, Record
<1>7. \/ queue' = queue
      \/ /\ queue' = queue \cup {NextTry(m)} /\ NextTry(m) \in Messages /\ NextTry(m).record = r
         /\ Ready(NextTry(m))
  <2>1. ASSUME Fail(w), RetriesLeft(m), queue' = queue \cup {NextTry(m)}
        PROVE  NextTry(m) \in Messages /\ NextTry(m).record = r /\ Ready(NextTry(m))
    <3>1. /\ m.retries \in Nat /\ NextTry(m).retries = m.retries + 1
          /\ NextTry(m) \in Messages /\ NextTry(m).record = r /\ m.record = r
      BY <1>2, <2>1, MessageFields DEF RetriesLeft, Record, NextTry, Message, MaxRetries
    <3>2. \A u \in Users : mails[r][u] \in Nat
      BY <1>2 DEF IInv, NotificationsTypeOK
    <3>3. CASE worker[w].stage \in {"record", "group"}
      BY <3>1, <3>2, <3>3 DEF IInv, Rounds, Ready
    <3>4. CASE Closing(w)
      <4>1. Tried(r)
        BY <3>4 DEF Closing, IInv, Staying, Tried
      <4>2. \A u \in Users : mails[r][u] <= m.retries + 1
        BY <3>1, <3>4 DEF Closing, IInv, Rounds, Mailing
      <4> QED BY <3>1, <4>1, <4>2 DEF Ready
    <3> QED BY <2>1, <3>1, <3>3, <3>4 DEF Fail
  <2> QED BY <2>1 DEF Fail, Retry, Return, Kill
<1>8. NotificationsTypeOK'
  BY <1>1, <1>2, <1>3, <1>5, <1>6, <1>7 DEF IInv, NotificationsTypeOK, RosterTypeOK
<1>9. OnePlace'
  BY <1>1, <1>3, <1>4, <1>5, <1>7 DEF IInv, OnePlace, Busy, Record, Fresh
<1>10. worker'[w].stage \notin {"record", "group", "mail"}
  BY <1>3 DEF Idle
<1>11. Rounds'
  <2>1. \A n \in queue' : Ready(n)
    BY <1>7 DEF IInv, Rounds
  <2> QED BY <1>1, <1>3, <1>10, <2>1, TaskKeeps
<1>12. Staying' /\ AgainAfterEveryone'
  BY <1>1, <1>3, <1>10 DEF IInv, Staying, AgainAfterEveryone, Record, Tried, Due, Told
<1>13. NobodySkipped'
  <2>1. Return(w) => Tried(r)
    BY DEF IInv, Staying, Return, Closing, Tried
  <2> QED BY <1>1, <1>5, <2>1 DEF IInv, NobodySkipped, Tried, Due, Told
<1> QED BY <1>8, <1>9, <1>11, <1>12, <1>13 DEF IInv

\* Users come and go.
LEMMA RosterKeeps ==
  ASSUME IInv, RosterChanges
  PROVE  IInv'
<1>1. /\ UNCHANGED <<row, request, queue, worker, mails, bounced, finished, dropped>>
      /\ stayed' = [r \in Records |-> IF row[r] = NoRow THEN {} ELSE stayed[r] \cap roster'[row[r].group]]
  BY DEF RosterChanges, outcome
<1>2. RosterTypeOK'
  <2>1. RosterTypeOK /\ RosterNext
    BY DEF IInv, NotificationsTypeOK, RosterChanges
  <2> QED BY <2>1 DEF RosterTypeOK, RosterNext, Found, Admit, Drop
<1>3. \A r \in Records : stayed'[r] \subseteq stayed[r] /\ stayed'[r] \in SUBSET Users
  BY <1>1 DEF IInv, NotificationsTypeOK
<1>4. NotificationsTypeOK'
  BY <1>1, <1>2, <1>3 DEF IInv, NotificationsTypeOK
<1>5. OnePlace'
  BY <1>1 DEF IInv, OnePlace, Busy, Record, Fresh
<1>6. \A q \in Records : Quiet(q)
  BY <1>1, <1>3 DEF Quiet
<1>7. \A w \in Workers : worker'[w] = worker[w] /\ (worker[w] # Idle => Quiet(Record(w)))
  BY <1>1, <1>6, TaskFields DEF IInv
<1>8. Rounds'
  <2>1. \A m \in queue : Ready(m)'
    BY <1>6, QuietKeeps, MessageFields DEF IInv, NotificationsTypeOK, Rounds
  <2> QED BY <1>1, <1>7, <2>1, WorkerKeeps DEF Rounds, Ready
<1>9. Staying'
  <2>1. \A r \in Records : row[r] # NoRow => stayed'[r] \subseteq roster'[row[r].group]
    BY <1>1
  <2> QED BY <1>1, <1>7, <2>1, WorkerKeeps DEF IInv, Staying
<1>10. AgainAfterEveryone' /\ NobodySkipped'
  BY <1>1, <1>6, QuietKeeps DEF IInv, NotificationsTypeOK, AgainAfterEveryone, NobodySkipped
<1> QED BY <1>4, <1>5, <1>8, <1>9, <1>10 DEF IInv

\* Nothing happens.
LEMMA StutterKeeps ==
  ASSUME IInv, UNCHANGED vars
  PROVE  IInv'
<1>1. UNCHANGED <<founder, roster, row, request, queue, worker, mails, bounced, finished, dropped, stayed>>
  BY DEF vars, rosterVars, outcome
<1>2. NotificationsTypeOK' /\ OnePlace'
  BY <1>1 DEF IInv, NotificationsTypeOK, RosterTypeOK, OnePlace, Busy, Record, Fresh
<1>3. Rounds' /\ Staying'
  BY <1>1 DEF IInv, Rounds, Ready, Mailing, Staying, Record, Fresh, Tried, Due, Told
<1>4. AgainAfterEveryone' /\ NobodySkipped'
  BY <1>1 DEF IInv, AgainAfterEveryone, NobodySkipped, Tried, Due, Told
<1> QED BY <1>2, <1>3, <1>4 DEF IInv

\* Initially nothing is recorded and nobody has a mail.
LEMMA InitHolds == Init => IInv
<1> SUFFICES ASSUME Init PROVE IInv
  OBVIOUS
<1>1. NotificationsTypeOK
  BY DEF Init, RosterInit, NotificationsTypeOK, RosterTypeOK, MaxRetries
<1>2. \A w \in Workers : worker[w] = Idle
  BY DEF Init
<1>3. OnePlace /\ Rounds
  BY <1>2, IdleFields DEF Init, OnePlace, Rounds, Busy, Fresh
<1>4. AgainAfterEveryone /\ Staying /\ NobodySkipped
  BY <1>2, IdleFields DEF Init, AgainAfterEveryone, Staying, NobodySkipped
<1> QED BY <1>1, <1>3, <1>4 DEF IInv

\* The invariant is inductive.
LEMMA NextKeeps ==
  ASSUME IInv, [Next]_vars
  PROVE  IInv'
<1>1. ASSUME NEW w \in Workers, Work(w) PROVE IInv'
  BY <1>1, TakeKeeps, ReadKeeps, MailKeeps, ReleaseKeeps DEF Work
<1>2. ASSUME NEW w \in Workers, Kill(w) PROVE IInv'
  BY <1>2, ReleaseKeeps
<1> QED BY <1>1, <1>2, RosterKeeps, CommitKeeps, DelayKeeps, StutterKeeps DEF Next

\* The invariant holds in every reachable state.
LEMMA Invariance == Spec => []IInv
BY InitHolds, NextKeeps, PTL DEF Spec

-------------------------------------------------------------------------------
(* Theorems *)

\* Every variable of the notifications keeps its type; in particular no message
\* is retried more than three times, and nobody gets more than four mails.
THEOREM TypeCorrect == Spec => []NotificationsTypeOK
<1>1. IInv => NotificationsTypeOK
  BY DEF IInv
<1> QED BY <1>1, Invariance, PTL

\* send_expense_notification and send_settlement_notification: a retry mails
\* nobody a second time unless an earlier try has come to everyone, since
\* nothing fails between the first mail and the last.
THEOREM EveryoneBeforeAgain == Spec => []AgainAfterEveryone
<1>1. IInv => AgainAfterEveryone
  BY DEF IInv
<1> QED BY <1>1, Invariance, PTL

\* A task that returns has mailed, or tried to mail, every member who has stayed
\* in the group since the expense was committed, or the receiver of the settlement.
THEOREM NobodyIsSkipped == Spec => []NobodySkipped
<1>1. IInv => NobodySkipped
  BY DEF IInv
<1> QED BY <1>1, Invariance, PTL
===============================================================================
