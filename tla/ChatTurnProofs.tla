------------------------------ MODULE ChatTurnProofs ------------------------------
(***************************************************************************)
(* For any callers, tasks, plans and kits, and wherever the agent dies:    *)
(* the steps of a task on disk are a whole list, a fact the user was told  *)
(* is remembered is on disk, no call runs twice in a turn, the ledger's    *)
(* row is settled, and the transcript holds whole turns.                   *)
(***************************************************************************)
EXTENDS ChatTurn, SequenceTheorems, TLAPS

-----------------------------------------------------------------------------
(* The task store: calls of one connection share its transaction.          *)

Steps == Seq({"pending", "in_progress", "completed"})
Status == StatusOf \cup {"keep", "none"}
TaskRow == [status : Status, closed : BOOLEAN, steps : Steps]
Op == {"create", "update", "steps", "start", "pause", "advance"}
Sql == {"insert_task", "get", "list", "write", "delete", "insert", "commit"}
CallRecord == [op : Op \cup {"none"}, task : Task, to : Status, row : TaskRow, plan : Steps,
               todo : Seq(Sql), outcome : {"ok", "failed"}]

\* Only the operations that follow from the steps list them.
CallOf == {c \in CallRecord : c.op \in {"start", "pause", "advance"}
                              \/ \A i \in DOMAIN c.todo : c.todo[i] # "list"}

StoreTyped ==
    /\ disk \in [Task -> TaskRow] /\ draft \in [Task -> TaskRow]
    /\ writer \in {"none", "agent", Cli}
    /\ call \in [Members -> CallOf]
    /\ asked \in [Task -> SUBSET Steps]
    /\ torn \in BOOLEAN

\* A statement that changes rows is followed by its commit, a delete by the insert;
\* nothing is inserted or committed after a read or another commit, and a task is
\* inserted by the first statement of its call.
InOrder(todo) ==
    \A i \in DOMAIN todo :
        /\ todo[i] \in {"insert_task", "write", "insert"} => i + 1 \in DOMAIN todo /\ todo[i + 1] = "commit"
        /\ todo[i] = "delete" => i + 1 \in DOMAIN todo /\ todo[i + 1] = "insert"
        /\ todo[i] \in {"get", "list", "commit"} /\ i + 1 \in DOMAIN todo =>
              todo[i + 1] \notin {"insert", "commit", "insert_task"}

CallsOrdered == \A w \in Members : InOrder(call[w].todo)

\* A call that has begun to change rows: its transaction is open.
Inside(w) == Upcoming(w, "insert") \/ Upcoming(w, "commit")

\* One call at most is inside a connection's transaction, and whoever holds the
\* write lock has one inside it.
OneInside ==
    /\ \A w \in Members : Inside(w) =>
          writer = Conn(w) /\ \A v \in Members \ {w} : Conn(v) = Conn(w) => ~Inside(v)
    /\ writer # "none" => \E w \in Members : Inside(w) /\ Conn(w) = writer

\* A transaction is made of whole step lists, but for the task whose steps are
\* deleted and not yet inserted.
DraftIsWhole ==
    /\ writer = "none" => draft = disk
    /\ \A k \in Task : draft[k].steps \in asked[k] \/ \E w \in Members : Upcoming(w, "insert") /\ call[w].task = k
    /\ \A w \in Members : Upcoming(w, "insert") =>
          draft[call[w].task].steps = <<>> /\ call[w].plan \in asked[call[w].task]
    /\ \A w \in Members : Upcoming(w, "insert_task") => <<>> \in asked[call[w].task]

DiskIsWhole == \A k \in Task : disk[k].steps \in asked[k]

StoreInv == StoreTyped /\ CallsOrdered /\ (torn \/ (OneInside /\ DraftIsWhole /\ DiskIsWhole))

-----------------------------------------------------------------------------
\* What is left of a call after its first statement.
LEMMA RestInOrder ==
    ASSUME NEW todo \in Seq(Sql), todo # <<>>, InOrder(todo)
    PROVE  /\ Tail(todo) \in Seq(Sql) /\ InOrder(Tail(todo))
           /\ Head(todo) \in {"insert_task", "write", "insert"} => Tail(todo) # <<>> /\ Head(Tail(todo)) = "commit"
           /\ Head(todo) = "delete" => Tail(todo) # <<>> /\ Head(Tail(todo)) = "insert"
           /\ Head(todo) \in {"get", "list", "commit"} /\ Tail(todo) # <<>> =>
                 Head(Tail(todo)) \notin {"insert", "commit", "insert_task"}
<1>1. /\ Len(todo) \in Nat \ {0} /\ DOMAIN todo = 1 .. Len(todo) /\ Head(todo) = todo[1]
      /\ Tail(todo) \in Seq(Sql) /\ Len(Tail(todo)) = Len(todo) - 1
      /\ DOMAIN Tail(todo) = 1 .. Len(todo) - 1
      /\ \A i \in 1 .. Len(todo) - 1 : Tail(todo)[i] = todo[i + 1]
  OBVIOUS
<1>2. InOrder(Tail(todo))
  <2> SUFFICES ASSUME NEW i \in 1 .. Len(todo) - 1
               PROVE  LET rest == Tail(todo) IN
                      /\ rest[i] \in {"insert_task", "write", "insert"} => i + 1 \in DOMAIN rest /\ rest[i + 1] = "commit"
                      /\ rest[i] = "delete" => i + 1 \in DOMAIN rest /\ rest[i + 1] = "insert"
                      /\ rest[i] \in {"get", "list", "commit"} /\ i + 1 \in DOMAIN rest =>
                            rest[i + 1] \notin {"insert", "commit", "insert_task"}
    BY <1>1 DEF InOrder
  <2>1. i + 1 \in DOMAIN todo /\ Tail(todo)[i] = todo[i + 1]
    BY <1>1
  <2>2. i + 2 \in DOMAIN todo <=> i + 1 \in DOMAIN Tail(todo)
    BY <1>1
  <2>3. i + 1 \in DOMAIN Tail(todo) => Tail(todo)[i + 1] = todo[i + 2]
    BY <1>1
  <2>4. (i + 1) + 1 = i + 2
    OBVIOUS
  <2> QED BY <2>1, <2>2, <2>3, <2>4 DEF InOrder
<1>3. 1 \in DOMAIN todo
  BY <1>1
<1>4. 1 + 1 \in DOMAIN todo <=> Tail(todo) # <<>>
  BY <1>1
<1>5. Tail(todo) # <<>> => Head(Tail(todo)) = todo[1 + 1]
  BY <1>1
<1> QED BY <1>1, <1>2, <1>3, <1>4, <1>5 DEF InOrder

\* A sequence of statements that begins outside a transaction, and one that ends
\* with its commit.
Begins(todo) == todo \in Seq(Sql) /\ InOrder(todo) /\ (todo # <<>> => Head(todo) \notin {"insert", "commit"})
Commits(todo) == Begins(todo) /\ todo # <<>> /\ todo[Len(todo)] = "commit"

LEMMA OneAfterAnother ==
    ASSUME NEW s, NEW t, Commits(s), Begins(t), t # <<>> => Head(t) # "insert_task"
    PROVE  Begins(s \o t)
<1>1. /\ s \in Seq(Sql) /\ t \in Seq(Sql) /\ s \o t \in Seq(Sql)
      /\ Len(s) \in Nat \ {0} /\ Len(t) \in Nat /\ Len(s \o t) = Len(s) + Len(t)
      /\ DOMAIN s = 1 .. Len(s) /\ DOMAIN t = 1 .. Len(t) /\ DOMAIN (s \o t) = 1 .. Len(s) + Len(t)
      /\ \A i \in 1 .. Len(s) : (s \o t)[i] = s[i]
      /\ \A i \in 1 .. Len(t) : (s \o t)[Len(s) + i] = t[i]
  BY DEF Commits, Begins
<1>2. Head(s \o t) = Head(s)
  BY <1>1
<1> DEFINE u == s \o t
<1>3. ASSUME NEW i \in DOMAIN u
      PROVE  /\ u[i] \in {"insert_task", "write", "insert"} => i + 1 \in DOMAIN u /\ u[i + 1] = "commit"
             /\ u[i] = "delete" => i + 1 \in DOMAIN u /\ u[i + 1] = "insert"
             /\ u[i] \in {"get", "list", "commit"} /\ i + 1 \in DOMAIN u =>
                    u[i + 1] \notin {"insert", "commit", "insert_task"}
  <2>1. CASE i \in 1 .. Len(s) - 1
    <3>1. u[i] = s[i] /\ u[i + 1] = s[i + 1] /\ i \in DOMAIN s /\ i + 1 \in DOMAIN s /\ i + 1 \in DOMAIN u
      BY <1>1, <2>1
    <3> QED BY <3>1 DEF Commits, Begins, InOrder
  <2>2. CASE i = Len(s)
    <3>1. u[i] = "commit"
      BY <1>1, <2>2 DEF Commits
    <3>2. i + 1 \in DOMAIN u => t # <<>> /\ u[i + 1] = Head(t)
      BY <1>1, <2>2
    <3> QED BY <3>1, <3>2 DEF Begins
  <2>3. CASE i > Len(s)
    <3> DEFINE j == i - Len(s)
    <3>0. j \in 1 .. Len(t) /\ i = Len(s) + j
      BY <1>1, <1>3, <2>3
    <3>1. j \in DOMAIN t /\ i = Len(s) + j /\ u[Len(s) + j] = t[j]
      BY <1>1, <3>0
    <3>2. i + 1 \in DOMAIN u <=> j + 1 \in DOMAIN t
      BY <1>1, <3>1
    <3>3. j + 1 \in DOMAIN t => u[i + 1] = t[j + 1]
      BY <1>1, <3>1
    <3> QED BY <3>1, <3>2, <3>3 DEF Begins, InOrder
  <2> QED BY <2>1, <2>2, <2>3, <1>1
<1>4. InOrder(u)
  BY <1>3 DEF InOrder
<1>5. s \o t # <<>>
  BY <1>1
<1> QED BY <1>1, <1>2, <1>4, <1>5 DEF Begins, Commits

\* The statements of every operation are in order, and begin outside a transaction.
LEMMA OperationsInOrder ==
    /\ Begins(<<>>) /\ Begins(<<"get", "list">>)
    /\ Commits(Create) /\ Commits(Update) /\ Commits(ReplaceSteps)
    /\ Head(Update) # "insert_task" /\ Head(ReplaceSteps) # "insert_task" /\ Head(<<"get", "list">>) # "insert_task"
<1>1. Begins(<<>>) /\ Begins(<<"get", "list">>)
  BY DEF Begins, InOrder, Sql
<1>2. Commits(Create)
  BY DEF Commits, Begins, Create, InOrder, Sql
<1>3. Commits(Update)
  BY DEF Commits, Begins, Update, InOrder, Sql
<1>4. Commits(ReplaceSteps)
  BY DEF Commits, Begins, ReplaceSteps, InOrder, Sql
<1>5. /\ Head(Update) # "insert_task" /\ Head(ReplaceSteps) # "insert_task"
      /\ Head(<<"get", "list">>) # "insert_task"
  BY DEF Update, ReplaceSteps
<1> QED BY <1>1, <1>2, <1>3, <1>4, <1>5

LEMMA FirstInOrder ==
    ASSUME NEW op \in Op
    PROVE  /\ Begins(FirstStatements(op))
           /\ op # "create" => Head(FirstStatements(op)) # "insert_task"
  BY OperationsInOrder DEF FirstStatements, Commits, Op

LEMMA FollowingInOrder ==
    ASSUME NEW steps, NEW following
    PROVE  LET todo == Statements(steps, following)
           IN  Begins(todo) /\ (todo # <<>> => Head(todo) # "insert_task")
<1>1. Begins(ReplaceSteps \o Update) /\ Begins(ReplaceSteps \o <<>>)
  BY OperationsInOrder, OneAfterAnother DEF Commits
<1>2. /\ <<>> \o Update = Update /\ <<>> \o <<>> = <<>>
      /\ Head(ReplaceSteps \o Update) = "get" /\ Head(ReplaceSteps \o <<>>) = "get"
  BY DEF Update, ReplaceSteps
<1> QED BY <1>1, <1>2, OperationsInOrder DEF Statements, Commits
-----------------------------------------------------------------------------
LEMMA PoppedTyped ==
    ASSUME NEW c \in CallOf, c.todo # <<>>
    PROVE  [c EXCEPT !.todo = Tail(c.todo)] \in CallOf
<1>1. /\ c.todo \in Seq(Sql) /\ Tail(c.todo) \in Seq(Sql) /\ Len(Tail(c.todo)) = Len(c.todo) - 1
      /\ DOMAIN c.todo = 1 .. Len(c.todo) /\ DOMAIN Tail(c.todo) = 1 .. Len(c.todo) - 1 /\ Len(c.todo) \in Nat
      /\ \A i \in 1 .. Len(c.todo) - 1 : Tail(c.todo)[i] = c.todo[i + 1]
  BY DEF CallOf, CallRecord
<1>2. (\A i \in DOMAIN c.todo : c.todo[i] # "list") => \A i \in DOMAIN Tail(c.todo) : Tail(c.todo)[i] # "list"
  BY <1>1
<1>3. [c EXCEPT !.todo = Tail(c.todo)] \in CallRecord
  BY <1>1 DEF CallOf, CallRecord
<1> QED BY <1>2, <1>3 DEF CallOf, CallRecord

\* The connection of a member.
LEMMA ConnOf ==
    \A w \in Members :
        /\ Conn(w) \in {"agent", Cli} /\ Conn(w) # "none"
        /\ (Conn(w) = Cli <=> w = Cli)
  BY TaskStoreAssumption DEF Members, Conn

LEMMA IdleTyped ==
    ASSUME NEW outcome \in {"ok", "failed"}
    PROVE  /\ Idle \in CallOf /\ [Idle EXCEPT !.outcome = outcome] \in CallOf
           /\ Idle.todo = <<>> /\ [Idle EXCEPT !.outcome = outcome].todo = <<>>
<1>1. (CHOOSE k \in Task : TRUE) \in Task
  BY ChatTurnAssumption
<1>2. NoTask \in TaskRow /\ <<>> \in Steps /\ <<>> \in Seq(Sql) /\ "open" \in Status
  BY DEF NoTask, TaskRow, Steps, Status, StatusOf
<1>3. Idle \in CallRecord /\ [Idle EXCEPT !.outcome = outcome] \in CallRecord
  BY <1>1, <1>2 DEF Idle, CallRecord
<1>4. Idle.todo = <<>> /\ [Idle EXCEPT !.outcome = outcome].todo = <<>>
  BY DEF Idle
<1>5. DOMAIN <<>> = {}
  OBVIOUS
<1>6. \A c \in CallRecord : c.todo = <<>> => c \in CallOf
  BY <1>5 DEF CallOf
<1> QED BY <1>3, <1>4, <1>6

\* A call that ends, outside its connection's transaction or with the transaction
\* noted as torn, leaves the others as they were.
LEMMA CallEnds ==
    ASSUME StoreInv, NEW w \in Members, NEW outcome \in {"ok", "failed"}, Return(w, outcome),
           UNCHANGED <<disk, draft, writer, asked>>, torn' \in BOOLEAN, torn => torn',
           torn' \/ ~Inside(w)
    PROVE  StoreInv'
<1> DEFINE ended == [Idle EXCEPT !.outcome = outcome]
<1>1. call' = [call EXCEPT ![w] = ended] /\ ended \in CallOf /\ ended.todo = <<>>
  BY IdleTyped DEF Return
<1>2. StoreTyped'
  BY <1>1 DEF StoreInv, StoreTyped
<1>3. /\ \A v \in Members \ {w} : call'[v] = call[v]
      /\ call'[w].todo = <<>>
  BY <1>1 DEF StoreInv, StoreTyped
<1>4. CallsOrdered'
  BY <1>3, OperationsInOrder DEF StoreInv, CallsOrdered, Begins
<1>5. ASSUME ~torn' PROVE OneInside' /\ DraftIsWhole' /\ DiskIsWhole'
  <2>1. OneInside /\ DraftIsWhole /\ DiskIsWhole /\ ~Inside(w)
    BY <1>5 DEF StoreInv
  <2>2. \A v \in Members : /\ Upcoming(v, "insert")' <=> Upcoming(v, "insert")
                           /\ Upcoming(v, "commit")' <=> Upcoming(v, "commit")
    BY <1>3, <2>1 DEF Inside, Upcoming
  <2>3. OneInside'
    BY <2>1, <2>2 DEF OneInside, Inside, Upcoming, Conn
  <2>4. \A v \in Members : Upcoming(v, "insert")' => call'[v] = call[v]
    BY <1>3 DEF Upcoming
  <2>5. \A v \in Members : Upcoming(v, "insert") => call'[v] = call[v]
    BY <2>2, <2>4 DEF Upcoming
  <2>6. DraftIsWhole'
    BY <2>1, <2>2, <2>4, <2>5, <1>3 DEF DraftIsWhole, Upcoming
  <2> QED BY <2>1, <2>3, <2>6 DEF DiskIsWhole
<1> QED BY <1>2, <1>4, <1>5 DEF StoreInv, StoreTyped

\* A call that goes on to its next statement, outside a transaction before and after.
LEMMA CallGoesOn ==
    ASSUME StoreInv, NEW w \in Members, NEW next \in CallOf, call' = [call EXCEPT ![w] = next],
           UNCHANGED <<disk, draft, writer, asked, torn>>,
           ~Inside(w), Begins(next.todo),
           ~torn /\ next.todo # <<>> /\ Head(next.todo) = "insert_task" => <<>> \in asked[next.task]
    PROVE  StoreInv'
<1>1. StoreTyped'
  BY DEF StoreInv, StoreTyped
<1>2. \A v \in Members : call'[v] = IF v = w THEN next ELSE call[v]
  BY DEF StoreInv, StoreTyped
<1>3. CallsOrdered'
  BY <1>2 DEF StoreInv, CallsOrdered, Begins
<1>4. ASSUME ~torn PROVE OneInside' /\ DraftIsWhole' /\ DiskIsWhole'
  <2>1. OneInside /\ DraftIsWhole /\ DiskIsWhole
    BY <1>4 DEF StoreInv
  <2>2. \A v \in Members : /\ Upcoming(v, "insert")' <=> Upcoming(v, "insert")
                           /\ Upcoming(v, "commit")' <=> Upcoming(v, "commit")
    <3>1. ~Upcoming(w, "insert") /\ ~Upcoming(w, "commit")
      BY DEF Inside
    <3>2. next.todo # <<>> => Head(next.todo) \notin {"insert", "commit"}
      BY DEF Begins
    <3> QED BY <1>2, <3>1, <3>2 DEF Upcoming
  <2>3. OneInside'
    BY <2>1, <2>2 DEF OneInside, Inside, Upcoming, Conn
  <2>4. \A v \in Members : Upcoming(v, "insert") => call'[v] = call[v]
    BY <1>2 DEF Inside
  <2>5. \A v \in Members : Upcoming(v, "insert_task")' => <<>> \in asked[call'[v].task]
    BY <1>2, <2>1, <1>4 DEF DraftIsWhole, Upcoming
  <2>6. DraftIsWhole'
    BY <2>1, <2>2, <2>4, <2>5 DEF DraftIsWhole, Upcoming
  <2> QED BY <2>1, <2>3, <2>6 DEF DiskIsWhole
<1> QED BY <1>1, <1>3, <1>4 DEF StoreInv

\* A statement that changes rows finds nobody else inside, unless the transaction
\* is noted as torn: the first one opens it on the rows of the disk.
LEMMA Alone ==
    ASSUME StoreInv, ~torn, NEW w \in Members, call[w].todo # <<>>, ~Meets(w), writer \in {"none", Conn(w)}
    PROVE  /\ \A v \in Members \ {w} : ~Inside(v)
           /\ Inside(w) => Rows(w) = draft
           /\ ~Inside(w) => draft = disk /\ Rows(w) = disk
<1>1. OneInside /\ DraftIsWhole
  BY DEF StoreInv
<1>2. Conn(w) # "none"
  BY ConnOf
<1>3. CASE Inside(w)
  <2>1. writer = Conn(w)
    BY <1>1, <1>3 DEF OneInside
  <2>2. \A v \in Members \ {w} : ~Inside(v)
    BY <1>1, <1>3, <2>1 DEF OneInside
  <2> QED BY <1>3, <2>1, <2>2 DEF Rows
<1>4. CASE ~Inside(w)
  <2>1. writer # Conn(w)
    <3> SUFFICES ASSUME writer = Conn(w) PROVE FALSE
      OBVIOUS
    <3>1. PICK v \in Members : Inside(v) /\ Conn(v) = writer
      BY <1>1, <1>2 DEF OneInside
    <3>2. v # w /\ call[v].todo # <<>>
      BY <3>1, <1>4 DEF Inside, Upcoming
    <3> QED BY <3>1, <3>2 DEF Meets
  <2>2. writer = "none"
    BY <2>1
  <2>3. \A v \in Members : ~Inside(v)
    BY <1>1, <2>2, ConnOf DEF OneInside
  <2>4. draft = disk /\ Rows(w) = disk
    BY <1>1, <2>1, <2>2 DEF DraftIsWhole, Rows
  <2> QED BY <1>4, <2>3, <2>4
<1> QED BY <1>3, <1>4

\* Such a statement keeps the store in order when the rows it leaves are whole, or
\* the insert comes next.
LEMMA RowsChange ==
    ASSUME StoreInv, NEW w \in Members, call[w].todo # <<>>,
           Head(call[w].todo) \in {"insert_task", "write", "delete", "insert"},
           NEW rows \in [Task -> TaskRow], Write(w, rows),
           call' = [call EXCEPT ![w] = Popped(w)], torn' = (torn \/ Meets(w)), UNCHANGED disk,
           asked' \in [Task -> SUBSET Steps], \A k \in Task : asked[k] \subseteq asked'[k],
           ~torn' => \A k \in Task :
                rows[k].steps \in asked'[k] \/ (Head(call[w].todo) = "delete" /\ call[w].task = k),
           ~torn' /\ Head(call[w].todo) = "delete" =>
                rows[call[w].task].steps = <<>> /\ call[w].plan \in asked'[call[w].task]
    PROVE  StoreInv'
<1> DEFINE rest == Tail(call[w].todo)
<1>1. call[w] \in CallOf /\ call[w].todo \in Seq(Sql) /\ InOrder(call[w].todo)
  BY DEF StoreInv, StoreTyped, CallsOrdered, CallOf, CallRecord
<1>2. /\ rest \in Seq(Sql) /\ InOrder(rest) /\ rest # <<>>
      /\ Head(call[w].todo) = "delete" => Head(rest) = "insert"
      /\ Head(call[w].todo) # "delete" => Head(rest) = "commit"
  BY <1>1, RestInOrder
<1>3. /\ call' = [call EXCEPT ![w] = [call[w] EXCEPT !.todo = rest]]
      /\ [call[w] EXCEPT !.todo = rest] \in CallOf
  BY <1>1, PoppedTyped DEF Popped
<1>4. /\ \A v \in Members \ {w} : call'[v] = call[v]
      /\ call'[w].todo = rest
      /\ call'[w].task = call[w].task /\ call'[w].plan = call[w].plan
  BY <1>1, <1>3 DEF StoreInv, StoreTyped, CallOf, CallRecord
<1>5. StoreTyped'
  BY <1>3, ConnOf DEF StoreInv, StoreTyped, Write
<1>6. CallsOrdered'
  BY <1>2, <1>4 DEF StoreInv, CallsOrdered
<1>7. ASSUME ~torn' PROVE OneInside' /\ DraftIsWhole' /\ DiskIsWhole'
  <2>1. ~torn /\ ~Meets(w) /\ OneInside /\ DraftIsWhole /\ DiskIsWhole
    BY <1>7 DEF StoreInv, StoreTyped, Meets
  <2>2. \A v \in Members \ {w} : ~Inside(v)
    BY <2>1, Alone DEF Write
  <2>3. \A v \in Members \ {w} : ~(Upcoming(v, "insert")') /\ ~(Upcoming(v, "commit")')
    BY <2>2, <1>4 DEF Inside, Upcoming
  <2>4. /\ Upcoming(w, "insert")' <=> Head(call[w].todo) = "delete"
        /\ Upcoming(w, "commit")' <=> Head(call[w].todo) # "delete"
    BY <1>2, <1>4 DEF Upcoming
  <2>5. writer' = Conn(w) /\ draft' = rows /\ Conn(w) # "none"
    BY ConnOf DEF Write
  <2>6. OneInside'
    BY <2>3, <2>4, <2>5 DEF OneInside, Inside, Upcoming, Conn
  <2>7. \A k \in Task : draft'[k].steps \in asked'[k] \/ (Upcoming(w, "insert")' /\ call'[w].task = k)
    BY <1>7, <2>4, <2>5, <1>4 DEF Upcoming
  <2>8. /\ draft'[call'[w].task].steps = <<>> \/ ~Upcoming(w, "insert")'
        /\ call'[w].plan \in asked'[call'[w].task] \/ ~Upcoming(w, "insert")'
    BY <1>7, <2>4, <2>5, <1>4 DEF Upcoming
  <2>9. \A v \in Members : Upcoming(v, "insert_task")' => <<>> \in asked'[call'[v].task]
    <3>1. \A v \in Members : call[v].task \in Task
      BY DEF StoreInv, StoreTyped, CallOf, CallRecord
    <3>2. ~(Upcoming(w, "insert_task")')
      BY <1>2, <1>4 DEF Upcoming
    <3> QED BY <3>1, <3>2, <1>4, <2>1 DEF DraftIsWhole, Upcoming
  <2>10. DraftIsWhole'
    BY <2>3, <2>5, <2>7, <2>8, <2>9 DEF DraftIsWhole, Upcoming
  <2> QED BY <2>1, <2>6, <2>10 DEF DiskIsWhole
<1> QED BY <1>5, <1>6, <1>7 DEF StoreInv, StoreTyped

-----------------------------------------------------------------------------
\* Rows as a member sees them.
LEMMA RowsTyped ==
    ASSUME StoreInv, NEW w \in Members
    PROVE  Rows(w) \in [Task -> TaskRow] /\ call[w] \in CallOf
  BY DEF StoreInv, StoreTyped, Rows

\* A task that is inserted was asked for with no steps.
LEMMA InsertTaskKeeps ==
    ASSUME StoreInv, NEW w \in Members, InsertTask(w)
    PROVE  StoreInv'
<1> DEFINE k == call[w].task
           new == [status |-> call[w].to, closed |-> call[w].to \in Closing, steps |-> <<>>]
           rows == [Rows(w) EXCEPT ![k] = new]
<1>1. /\ call[w].todo # <<>> /\ Head(call[w].todo) = "insert_task" /\ Write(w, rows)
      /\ call' = [call EXCEPT ![w] = Popped(w)] /\ torn' = (torn \/ Meets(w)) /\ UNCHANGED <<disk, asked>>
  BY DEF InsertTask, Upcoming
<1>2. k \in Task /\ new \in TaskRow
  BY RowsTyped DEF CallOf, CallRecord, TaskRow, Steps
<1>3. rows \in [Task -> TaskRow] /\ rows[k].steps = <<>> /\ \A j \in Task \ {k} : rows[j] = Rows(w)[j]
  BY <1>2, RowsTyped
<1>4. asked' \in [Task -> SUBSET Steps] /\ \A j \in Task : asked[j] \subseteq asked'[j]
  BY <1>1 DEF StoreInv, StoreTyped
<1>5. ~torn' => \A j \in Task : rows[j].steps \in asked'[j]
  <2> SUFFICES ASSUME ~torn', NEW j \in Task PROVE rows[j].steps \in asked'[j]
    OBVIOUS
  <2>1. ~torn /\ ~Meets(w) /\ DraftIsWhole /\ DiskIsWhole
    BY <1>1 DEF StoreInv, StoreTyped, Meets
  <2>2. ~Inside(w)
    BY <1>1 DEF Inside, Upcoming
  <2>3. Rows(w) = disk
    BY <2>1, <2>2, <1>1, Alone DEF Write
  <2>4. Rows(w)[j].steps \in asked[j]
    BY <2>1, <2>3 DEF DiskIsWhole
  <2>5. <<>> \in asked[k]
    BY <2>1, <1>1 DEF DraftIsWhole, Upcoming
  <2> QED BY <1>1, <1>2, <1>3, <2>4, <2>5
<1> HIDE DEF rows
<1> QED BY <1>1, <1>3, <1>4, <1>5, RowsChange

\* A task that is written keeps its steps.
LEMMA WriteTaskKeeps ==
    ASSUME StoreInv, NEW w \in Members, WriteTask(w)
    PROVE  StoreInv'
<1> DEFINE k == call[w].task
           new == Updated(call[w].row, call[w].to)
           rows == [Rows(w) EXCEPT ![k].status = new.status, ![k].closed = new.closed]
<1>1. /\ call[w].todo # <<>> /\ Head(call[w].todo) = "write" /\ Write(w, rows)
      /\ call' = [call EXCEPT ![w] = Popped(w)] /\ torn' = (torn \/ Meets(w)) /\ UNCHANGED <<disk, asked>>
  BY DEF WriteTask, Upcoming
<1>2. k \in Task /\ new \in TaskRow
  <2>1. k \in Task /\ call[w].row \in TaskRow /\ call[w].to \in Status
    BY RowsTyped DEF CallOf, CallRecord
  <2>2. (call[w].to \in Closing) \in BOOLEAN
    OBVIOUS
  <2>3. [call[w].row EXCEPT !.status = call[w].to, !.closed = call[w].to \in Closing] \in TaskRow
    BY <2>1, <2>2 DEF TaskRow
  <2> QED BY <2>1, <2>3 DEF Updated
<1>3. rows \in [Task -> TaskRow] /\ \A j \in Task : rows[j].steps = Rows(w)[j].steps
  <2>1. new.status \in Status /\ new.closed \in BOOLEAN
    BY <1>2 DEF TaskRow
  <2> HIDE DEF new
  <2> QED BY <1>2, <2>1, RowsTyped DEF TaskRow
<1>4. asked' \in [Task -> SUBSET Steps] /\ \A j \in Task : asked[j] \subseteq asked'[j]
  BY <1>1 DEF StoreInv, StoreTyped
<1>5. ~torn' => \A j \in Task : rows[j].steps \in asked'[j]
  <2> SUFFICES ASSUME ~torn', NEW j \in Task PROVE rows[j].steps \in asked'[j]
    OBVIOUS
  <2>1. ~torn /\ ~Meets(w) /\ DiskIsWhole
    BY <1>1 DEF StoreInv, StoreTyped, Meets
  <2>2. ~Inside(w)
    BY <1>1 DEF Inside, Upcoming
  <2>3. Rows(w) = disk
    BY <2>1, <2>2, <1>1, Alone DEF Write
  <2> QED BY <1>1, <1>3, <2>1, <2>3 DEF DiskIsWhole
<1> HIDE DEF rows
<1> QED BY <1>1, <1>3, <1>4, <1>5, RowsChange

\* Steps that are deleted will be those of the plan, which is now asked for.
LEMMA DeleteStepsKeeps ==
    ASSUME StoreInv, NEW w \in Members, DeleteSteps(w)
    PROVE  StoreInv'
<1> DEFINE k == call[w].task
           rows == [Rows(w) EXCEPT ![k].steps = <<>>]
<1>1. /\ call[w].todo # <<>> /\ Head(call[w].todo) = "delete" /\ Write(w, rows)
      /\ asked' = [asked EXCEPT ![k] = @ \cup {call[w].plan}]
      /\ call' = [call EXCEPT ![w] = Popped(w)] /\ torn' = (torn \/ Meets(w)) /\ UNCHANGED disk
  BY DEF DeleteSteps, Upcoming
<1>2. k \in Task /\ call[w].plan \in Steps /\ <<>> \in Steps
  BY RowsTyped DEF CallOf, CallRecord, Steps
<1>3. /\ rows \in [Task -> TaskRow] /\ rows[k].steps = <<>>
      /\ \A j \in Task \ {k} : rows[j] = Rows(w)[j]
  BY <1>2, RowsTyped DEF TaskRow
<1>4. /\ asked' \in [Task -> SUBSET Steps] /\ call[w].plan \in asked'[k]
      /\ \A j \in Task : asked[j] \subseteq asked'[j]
  BY <1>1, <1>2 DEF StoreInv, StoreTyped
<1>5. ~torn' => \A j \in Task \ {k} : rows[j].steps \in asked'[j]
  <2> SUFFICES ASSUME ~torn', NEW j \in Task \ {k} PROVE rows[j].steps \in asked'[j]
    OBVIOUS
  <2>1. ~torn /\ ~Meets(w) /\ DiskIsWhole
    BY <1>1 DEF StoreInv, StoreTyped, Meets
  <2>2. ~Inside(w)
    BY <1>1 DEF Inside, Upcoming
  <2>3. Rows(w) = disk
    BY <2>1, <2>2, <1>1, Alone DEF Write
  <2> QED BY <1>3, <1>4, <2>1, <2>3 DEF DiskIsWhole
<1> HIDE DEF rows
<1> QED BY <1>1, <1>3, <1>4, <1>5, RowsChange

\* Steps that are inserted are the plan, after nothing.
LEMMA InsertStepsKeeps ==
    ASSUME StoreInv, NEW w \in Members, InsertSteps(w)
    PROVE  StoreInv'
<1> DEFINE k == call[w].task
           rows == [Rows(w) EXCEPT ![k].steps = @ \o call[w].plan]
<1>1. /\ call[w].todo # <<>> /\ Head(call[w].todo) = "insert" /\ Write(w, rows)
      /\ call' = [call EXCEPT ![w] = Popped(w)] /\ torn' = (torn \/ Meets(w)) /\ UNCHANGED <<disk, asked>>
  BY DEF InsertSteps, Upcoming
<1>2. k \in Task /\ call[w].plan \in Steps
  BY RowsTyped DEF CallOf, CallRecord
<1>3. Rows(w)[k].steps \o call[w].plan \in Steps
  BY <1>2, RowsTyped DEF TaskRow, Steps
<1>4. /\ rows \in [Task -> TaskRow] /\ rows[k].steps = Rows(w)[k].steps \o call[w].plan
      /\ \A j \in Task \ {k} : rows[j] = Rows(w)[j]
  BY <1>2, <1>3, RowsTyped DEF TaskRow
<1>5. asked' \in [Task -> SUBSET Steps] /\ \A j \in Task : asked[j] \subseteq asked'[j]
  BY <1>1 DEF StoreInv, StoreTyped
<1>6. ~torn' => \A j \in Task : rows[j].steps \in asked'[j]
  <2> SUFFICES ASSUME ~torn', NEW j \in Task PROVE rows[j].steps \in asked'[j]
    OBVIOUS
  <2>1. ~torn /\ ~Meets(w) /\ DraftIsWhole
    BY <1>1 DEF StoreInv, StoreTyped, Meets
  <2>2. Upcoming(w, "insert") /\ Inside(w)
    BY <1>1 DEF Inside, Upcoming
  <2>3. Rows(w) = draft /\ \A v \in Members \ {w} : ~Upcoming(v, "insert")
    BY <2>1, <2>2, <1>1, Alone DEF Write, Inside
  <2>4. CASE j = k
    <3>1. draft[k].steps = <<>> /\ call[w].plan \in asked[k]
      BY <2>1, <2>2 DEF DraftIsWhole
    <3>2. <<>> \o call[w].plan = call[w].plan
      BY <1>2 DEF Steps
    <3> QED BY <1>1, <1>4, <2>3, <2>4, <3>1, <3>2
  <2>5. CASE j # k
    <3>1. draft[j].steps \in asked[j]
      BY <2>1, <2>3, <2>5 DEF DraftIsWhole
    <3> QED BY <1>1, <1>4, <2>3, <2>5, <3>1
  <2> QED BY <2>4, <2>5
<1> HIDE DEF rows
<1> QED BY <1>1, <1>4, <1>5, <1>6, RowsChange

\* A commit puts whole lists on the disk: nobody else is inside the transaction.
LEMMA CommitKeeps ==
    ASSUME StoreInv, NEW w \in Members, Commit(w)
    PROVE  StoreInv'
<1> DEFINE rest == Tail(call[w].todo)
           next == IF rest = <<>> THEN Idle ELSE Popped(w)
<1>1. /\ call[w].todo # <<>> /\ Head(call[w].todo) = "commit" /\ Upcoming(w, "commit")
      /\ disk' = Rows(w) /\ draft' = Rows(w) /\ writer' = IF writer = Conn(w) THEN "none" ELSE writer
      /\ call' = [call EXCEPT ![w] = next] /\ UNCHANGED <<asked, torn>>
  BY DEF Commit, Upcoming
<1>2. call[w] \in CallOf /\ call[w].todo \in Seq(Sql) /\ InOrder(call[w].todo)
  BY DEF StoreInv, StoreTyped, CallsOrdered, CallOf, CallRecord
<1>3. /\ rest \in Seq(Sql) /\ InOrder(rest)
      /\ rest # <<>> => Head(rest) \notin {"insert", "commit", "insert_task"}
  BY <1>1, <1>2, RestInOrder
<1>4. Idle \in CallOf /\ Idle.todo = <<>>
  <2>1. Idle = [Idle EXCEPT !.outcome = "ok"]
    BY DEF Idle
  <2> QED BY <2>1, IdleTyped
<1>5. next \in CallOf /\ next.todo = rest
  BY <1>1, <1>2, <1>3, <1>4, PoppedTyped DEF Popped, CallOf, CallRecord
<1>6. (\A v \in Members \ {w} : call'[v] = call[v]) /\ call'[w].todo = rest
  BY <1>1, <1>5 DEF StoreInv, StoreTyped
<1>7. StoreTyped'
  BY <1>1, <1>5, RowsTyped DEF StoreInv, StoreTyped
<1>8. CallsOrdered'
  BY <1>3, <1>6 DEF StoreInv, CallsOrdered
<1>9. ASSUME ~torn PROVE OneInside' /\ DraftIsWhole' /\ DiskIsWhole'
  <2>1. OneInside /\ DraftIsWhole /\ DiskIsWhole /\ Inside(w)
    BY <1>1, <1>9 DEF StoreInv, Inside
  <2>2. writer = Conn(w) /\ Rows(w) = draft /\ writer' = "none"
    BY <1>1, <2>1 DEF OneInside, Rows
  <2>3. \A v \in Members \ {w} : ~Upcoming(v, "insert") /\ ~Upcoming(v, "commit")
    BY <2>1, <2>2 DEF OneInside, Inside
  <2>4. ~Upcoming(w, "insert")
    BY <1>1 DEF Upcoming
  <2>5. \A v \in Members : ~(Upcoming(v, "insert")') /\ ~(Upcoming(v, "commit")')
    BY <2>3, <1>6, <1>3 DEF Upcoming
  <2>6. OneInside'
    BY <2>2, <2>5 DEF OneInside, Inside, Upcoming
  <2>7. DiskIsWhole'
    BY <2>1, <2>2, <2>3, <2>4, <1>1 DEF DraftIsWhole, DiskIsWhole
  <2>8. \A v \in Members : Upcoming(v, "insert_task")' => <<>> \in asked[call'[v].task]
    BY <2>1, <1>3, <1>6 DEF DraftIsWhole, Upcoming
  <2>9. DraftIsWhole'
    BY <1>1, <2>5, <2>7, <2>8 DEF DraftIsWhole, DiskIsWhole, Upcoming
  <2> QED BY <2>6, <2>7, <2>9
<1> QED BY <1>1, <1>7, <1>8, <1>9 DEF StoreInv

\* A read is outside the transaction, and so is what comes after it.
LEMMA GetTaskKeeps ==
    ASSUME StoreInv, NEW w \in Members, GetTask(w)
    PROVE  StoreInv'
<1> DEFINE task == Rows(w)[call[w].task]
           next == [Popped(w) EXCEPT !.row = task]
<1>1. /\ call[w].todo # <<>> /\ Head(call[w].todo) = "get" /\ UNCHANGED <<disk, draft, writer, asked, torn>>
      /\ (\E outcome \in {"ok", "failed"} : Return(w, outcome)) \/ call' = [call EXCEPT ![w] = next]
  BY DEF GetTask, Upcoming
<1>2. ~Inside(w)
  BY <1>1 DEF Inside, Upcoming
<1>3. torn' \in BOOLEAN /\ torn' = torn
  BY <1>1 DEF StoreInv, StoreTyped
<1>4. CASE \E outcome \in {"ok", "failed"} : Return(w, outcome)
  BY <1>1, <1>2, <1>3, <1>4, CallEnds
<1>5. CASE call' = [call EXCEPT ![w] = next]
  <2>1. call[w] \in CallOf /\ task \in TaskRow /\ call[w].todo \in Seq(Sql) /\ InOrder(call[w].todo)
    BY RowsTyped DEF CallOf, CallRecord, StoreInv, CallsOrdered
  <2>2. /\ Tail(call[w].todo) \in Seq(Sql) /\ InOrder(Tail(call[w].todo))
        /\ Tail(call[w].todo) # <<>> => Head(Tail(call[w].todo)) \notin {"insert", "commit", "insert_task"}
    BY <1>1, <2>1, RestInOrder
  <2>3. next \in CallOf /\ next.todo = Tail(call[w].todo)
    <3>1. Popped(w) \in CallOf
      BY <1>1, <2>1, PoppedTyped DEF Popped
    <3> QED BY <2>1, <3>1 DEF Popped, CallOf, CallRecord
  <2>4. Begins(next.todo)
    BY <2>2, <2>3 DEF Begins
  <2> HIDE DEF next
  <2> QED BY <1>1, <1>2, <1>5, <2>2, <2>3, <2>4, CallGoesOn
<1> QED BY <1>1, <1>4, <1>5

\* So are the statements chosen once the steps are read.
LEMMA FollowingTyped ==
    ASSUME NEW op \in {"start", "pause", "advance"}, NEW steps \in Steps
    PROVE  Following(op, steps).plan \in Steps /\ Following(op, steps).to \in Status
<1>1. \A i \in DOMAIN steps : steps[i] \in {"pending", "in_progress", "completed"}
  BY DEF Steps
<1>2. \A f : (DOMAIN f = DOMAIN steps /\ f = [i \in DOMAIN f |-> f[i]]
              /\ \A i \in DOMAIN steps : f[i] \in {"pending", "in_progress", "completed"}) => f \in Steps
  <2>1. PICK n \in Nat : DOMAIN steps = 1 .. n
    BY DEF Steps
  <2> QED BY <2>1 DEF Steps
<1>3. Started(steps) \in Steps
  BY <1>1, <1>2 DEF Started
<1>4. Paused(steps) \in Steps
  BY <1>1, <1>2 DEF Paused
<1>5. Advanced(steps) \in Steps
  <2>1. /\ DOMAIN Advanced(steps) = DOMAIN steps
        /\ Advanced(steps) = [i \in DOMAIN Advanced(steps) |-> Advanced(steps)[i]]
    BY DEF Advanced
  <2>2. \A i \in DOMAIN steps : Advanced(steps)[i] \in {"pending", "in_progress", "completed"}
    BY <1>1 DEF Advanced
  <2> QED BY <1>2, <2>1, <2>2
<1> QED BY <1>3, <1>4, <1>5 DEF Following, Status, StatusOf, Closing

LEMMA ListStepsKeeps ==
    ASSUME StoreInv, NEW w \in Members, ListSteps(w)
    PROVE  StoreInv'
<1> DEFINE steps == Rows(w)[call[w].task].steps
           following == Following(call[w].op, steps)
           todo == Statements(steps, following)
           next == [Popped(w) EXCEPT !.plan = following.plan, !.to = following.to, !.todo = todo]
<1>1. /\ call[w].todo # <<>> /\ Head(call[w].todo) = "list" /\ UNCHANGED <<disk, draft, writer, asked, torn>>
      /\ Return(w, "ok") \/ call' = [call EXCEPT ![w] = next]
  BY DEF ListSteps, Upcoming
<1>2. ~Inside(w)
  BY <1>1 DEF Inside, Upcoming
<1>3. torn' \in BOOLEAN /\ torn' = torn
  BY <1>1 DEF StoreInv, StoreTyped
<1>4. CASE Return(w, "ok")
  BY <1>1, <1>2, <1>3, <1>4, CallEnds
<1>5. CASE call' = [call EXCEPT ![w] = next]
  <2>1. call[w] \in CallOf /\ call[w] \in CallRecord /\ steps \in Steps
    BY RowsTyped DEF CallOf, CallRecord, TaskRow
  <2>2. call[w].op \in {"start", "pause", "advance"}
    <3>1. call[w].todo \in Seq(Sql)
      BY <2>1 DEF CallRecord
    <3>2. 1 \in DOMAIN call[w].todo /\ call[w].todo[1] = "list"
      BY <1>1, <3>1
    <3> QED BY <2>1, <3>2 DEF CallOf
  <2>3. following.plan \in Steps /\ following.to \in Status
    BY <2>1, <2>2, FollowingTyped
  <2>4. Begins(todo) /\ (todo # <<>> => Head(todo) # "insert_task")
    BY FollowingInOrder
  <2>5. todo \in Seq(Sql)
    BY <2>4 DEF Begins
  <2> HIDE DEF following, todo
  <2>6. next \in CallRecord /\ next.todo = todo /\ next.op = call[w].op
    BY <2>1, <2>3, <2>5 DEF Popped, CallRecord
  <2>7. next \in CallOf
    BY <2>2, <2>6 DEF CallOf
  <2> HIDE DEF next
  <2> QED BY <1>1, <1>2, <1>5, <2>4, <2>6, <2>7, CallGoesOn
<1> QED BY <1>1, <1>4, <1>5

LEMMA StatementKeeps ==
    ASSUME StoreInv, NEW w \in Members, Statement(w)
    PROVE  StoreInv'
  BY InsertTaskKeeps, GetTaskKeeps, ListStepsKeeps, WriteTaskKeeps, DeleteStepsKeeps, InsertStepsKeeps,
     CommitKeeps DEF Statement

\* A call that fails, times out or is cancelled ends outside a transaction, or the
\* transaction it leaves open is noted as torn.
LEMMA FaultKeeps ==
    ASSUME StoreInv, NEW w \in Members, StoreFault(w) \/ Cancel(w)
    PROVE  StoreInv'
<1>1. torn \in BOOLEAN
  BY DEF StoreInv, StoreTyped
<1>2. CASE InsertFails(w)
  <2>1. Return(w, "failed") /\ torn' = TRUE /\ UNCHANGED <<disk, draft, writer, asked>>
    BY <1>2 DEF InsertFails
  <2> QED BY <2>1, CallEnds
<1>3. CASE LockTimesOut(w)
  <2>1. /\ Return(w, "failed") /\ UNCHANGED <<disk, draft, writer, asked, torn>>
        /\ writer # Conn(w)
    BY <1>3 DEF LockTimesOut
  <2>2. torn \/ ~Inside(w)
    BY <2>1 DEF StoreInv, OneInside
  <2> QED BY <1>1, <2>1, <2>2, CallEnds
<1>4. CASE Cancel(w)
  <2>1. /\ Return(w, "failed") /\ UNCHANGED <<disk, draft, writer, asked>>
        /\ torn' = (torn \/ writer = Conn(w))
    BY <1>4 DEF Cancel, Left
  <2>2. torn' \in BOOLEAN /\ (torn => torn') /\ (torn' \/ ~Inside(w))
    BY <2>1, <1>1 DEF StoreInv, OneInside
  <2> QED BY <2>1, <2>2, CallEnds
<1> QED BY <1>2, <1>3, <1>4 DEF StoreFault

\* A killed agent takes its connection's transaction with it; the command line's
\* goes on.
LEMMA CrashKeeps ==
    ASSUME StoreInv, StoreCrash
    PROVE  StoreInv'
<1>1. /\ call' = [w \in Members |-> IF w = Cli THEN call[w] ELSE Idle]
      /\ writer = "agent" => draft' = disk /\ writer' = "none"
      /\ writer # "agent" => UNCHANGED <<draft, writer>>
      /\ UNCHANGED <<disk, asked, torn>>
  BY DEF StoreCrash, RollBack
<1>2. Idle \in CallOf /\ Idle.todo = <<>>
  <2>1. Idle = [Idle EXCEPT !.outcome = "ok"]
    BY DEF Idle
  <2> QED BY <2>1, IdleTyped
<1>3. Cli \in Members /\ Cli # "none" /\ Cli # "agent" /\ \A w \in Members : Conn(w) = IF w = Cli THEN Cli ELSE "agent"
  BY TaskStoreAssumption DEF Members, Conn
<1>4. StoreTyped'
  BY <1>1, <1>2 DEF StoreInv, StoreTyped
<1>5. (\A v \in Members \ {Cli} : call'[v].todo = <<>>) /\ call'[Cli] = call[Cli]
  BY <1>1, <1>2, <1>3
<1>6. CallsOrdered'
  BY <1>3, <1>5, OperationsInOrder DEF StoreInv, CallsOrdered, Begins
<1>7. ASSUME ~torn PROVE OneInside' /\ DraftIsWhole' /\ DiskIsWhole'
  <2>1. OneInside /\ DraftIsWhole /\ DiskIsWhole
    BY <1>7 DEF StoreInv
  <2>2. \A v \in Members \ {Cli} : ~(Upcoming(v, "insert")') /\ ~(Upcoming(v, "commit")') /\ ~(Upcoming(v, "insert_task")')
    BY <1>5 DEF Upcoming
  <2>3. /\ Upcoming(Cli, "insert")' <=> Upcoming(Cli, "insert")
        /\ Upcoming(Cli, "commit")' <=> Upcoming(Cli, "commit")
        /\ Upcoming(Cli, "insert_task")' <=> Upcoming(Cli, "insert_task")
    BY <1>5 DEF Upcoming
  <2>4. Inside(Cli) => writer = Cli
    BY <1>3, <2>1 DEF OneInside
  <2>5. writer = Cli => Inside(Cli)
    BY <1>3, <2>1 DEF OneInside
  <2>6. writer \in {"none", "agent", Cli}
    BY DEF StoreInv, StoreTyped
  <2>7. OneInside'
    <3>1. \A v \in Members : Inside(v)' => v = Cli /\ writer' = Cli
      BY <1>1, <1>3, <2>2, <2>3, <2>4 DEF Inside, Upcoming
    <3>2. writer' # "none" => writer' = Cli /\ Inside(Cli)'
      BY <1>1, <1>3, <2>3, <2>5, <2>6 DEF Inside, Upcoming
    <3> QED BY <1>3, <3>1, <3>2 DEF OneInside, Inside, Upcoming, Conn
  <2>8. \A k \in Task : draft'[k].steps \in asked[k] \/ (Upcoming(Cli, "insert")' /\ call'[Cli].task = k)
    <3>1. CASE writer = "agent"
      BY <1>1, <2>1, <3>1 DEF DiskIsWhole
    <3>2. CASE writer # "agent"
      <4>1. \A v \in Members \ {Cli} : ~Upcoming(v, "insert")
        BY <1>3, <2>1, <3>2 DEF OneInside, Inside
      <4>2. \A k \in Task : draft[k].steps \in asked[k] \/ (Upcoming(Cli, "insert") /\ call[Cli].task = k)
        BY <2>1, <4>1 DEF DraftIsWhole
      <4> QED BY <1>1, <1>5, <2>3, <3>2, <4>2 DEF Upcoming
    <3> QED BY <3>1, <3>2
  <2>9. Upcoming(Cli, "insert")' => draft' = draft
    BY <1>1, <1>3, <2>3, <2>4 DEF Inside, Upcoming
  <2>10. \A v \in Members : Upcoming(v, "insert")' =>
            draft'[call'[v].task].steps = <<>> /\ call'[v].plan \in asked[call'[v].task]
    BY <1>3, <1>5, <2>1, <2>2, <2>3, <2>9 DEF DraftIsWhole, Upcoming
  <2>11. \A v \in Members : Upcoming(v, "insert_task")' => <<>> \in asked[call'[v].task]
    BY <1>3, <1>5, <2>1, <2>2, <2>3 DEF DraftIsWhole, Upcoming
  <2>12. writer' = "none" => draft' = disk'
    BY <1>1, <2>1 DEF DraftIsWhole
  <2>13. DraftIsWhole'
    BY <1>1, <1>3, <2>8, <2>10, <2>11, <2>12 DEF DraftIsWhole, Upcoming
  <2> QED BY <1>1, <2>1, <2>7, <2>13 DEF DiskIsWhole
<1> QED BY <1>1, <1>4, <1>6, <1>7 DEF StoreInv

\* A call begins outside a transaction; a task it is to insert is not there yet.
LEMMA AskKeeps ==
    ASSUME StoreInv, NEW w \in Members, NEW op \in Op, NEW k \in Task, NEW to \in Status, NEW plan \in Steps,
           Ask(w, op, k, to, plan)
    PROVE  StoreInv'
<1> DEFINE next == [op |-> op, task |-> k, to |-> to, row |-> NoTask, plan |-> plan,
                    todo |-> FirstStatements(op), outcome |-> "ok"]
<1>1. /\ call[w].todo = <<>> /\ (op = "create" => disk[k] = NoTask)
      /\ call' = [call EXCEPT ![w] = next] /\ UNCHANGED <<disk, draft, writer, asked, torn>>
  BY DEF Ask, Fresh
<1>2. Begins(FirstStatements(op)) /\ (op # "create" => Head(FirstStatements(op)) # "insert_task")
  BY FirstInOrder
<1>3. NoTask \in TaskRow /\ NoTask.steps = <<>>
  BY DEF NoTask, TaskRow, Steps, Status, StatusOf
<1>4. next \in CallRecord /\ next.todo = FirstStatements(op) /\ next.op = op /\ next.task = k
  BY <1>2, <1>3 DEF CallRecord, Begins
<1>5. next \in CallOf
  <2>1. ASSUME op \notin {"start", "pause", "advance"}, NEW i \in DOMAIN FirstStatements(op)
        PROVE  FirstStatements(op)[i] # "list"
    BY <2>1 DEF FirstStatements, Create, Update, ReplaceSteps, Op
  <2> QED BY <1>4, <2>1 DEF CallOf
<1>6. ~Inside(w)
  BY <1>1 DEF Inside, Upcoming
<1>7. ~torn /\ op = "create" => <<>> \in asked[k]
  BY <1>1, <1>3 DEF StoreInv, DiskIsWhole
<1> HIDE DEF next
<1> QED BY <1>1, <1>2, <1>4, <1>5, <1>6, <1>7, CallGoesOn

LEMMA StoreStart == Init => StoreInv
<1> SUFFICES ASSUME Init PROVE StoreInv
  OBVIOUS
<1>1. /\ disk \in [Task -> Stored] /\ draft = disk /\ writer = "none" /\ call = [w \in Members |-> Idle]
      /\ asked = [k \in Task |-> {disk[k].steps}] /\ torn = FALSE
  BY DEF Init, StoreInit
<1>2. Idle \in CallOf /\ Idle.todo = <<>>
  <2>1. Idle = [Idle EXCEPT !.outcome = "ok"]
    BY DEF Idle
  <2> QED BY <2>1, IdleTyped
<1>3. Stored \subseteq TaskRow
  <2>1. NoTask \in TaskRow
    BY DEF NoTask, TaskRow, Steps, Status
  <2>2. "open" \in Status /\ Plan \subseteq Steps
    BY TaskStoreAssumption DEF Status, StatusOf, Steps
  <2>3. \A plan \in Plan : [status |-> "open", closed |-> FALSE, steps |-> plan] \in TaskRow
    BY <2>2 DEF TaskRow
  <2> QED BY <2>1, <2>3 DEF Stored
<1>4. \A k \in Task : disk[k] \in TaskRow /\ disk[k].steps \in Steps
  BY <1>1, <1>3 DEF TaskRow
<1>5. StoreTyped
  BY <1>1, <1>2, <1>3, <1>4 DEF StoreTyped
<1>6. CallsOrdered
  BY <1>1, <1>2, OperationsInOrder DEF CallsOrdered, Begins
<1>7. \A w \in Members : ~Upcoming(w, "insert") /\ ~Upcoming(w, "commit") /\ ~Upcoming(w, "insert_task")
  BY <1>1, <1>2 DEF Upcoming
<1>8. OneInside /\ DraftIsWhole /\ DiskIsWhole
  BY <1>1, <1>7 DEF OneInside, DraftIsWhole, DiskIsWhole, Inside
<1> QED BY <1>5, <1>6, <1>8 DEF StoreInv

-----------------------------------------------------------------------------
(* The turn of a handler, and what it has said of its tool calls.          *)

Message == {"user", "call", "tool", "assistant"}
Tools == {"read", "raise", "remember", "forget", "update", "steps", "broken"}
Results == {"ok", "completed", "failed", "duplicate"}
Where == {"idle", "asking", "command", "next", "store", "remember", "forget", "record", "note",
          "storing", "committing", "done"}
Working == {"store", "remember", "forget", "record", "note"}
Memo == UNION {[tools -> Results] : tools \in SUBSET Tools}
Tally == [status : {"none", "running", "failed", "completed"}, actions : Nat, failed : Nat]
TurnRecord == [at : Where, wants : SUBSET {"remember", "forget", "task", "command"}, sent : Seq(Message),
               round : Nat, calls : Seq(Tools), said : Seq(Message), seen : Memo, result : Results,
               tally : Tally]

\* A call is followed by its first result, and a result by no other beginning; all
\* calls are answered when a result is the last that was said.
Answering(said) ==
    \A i \in DOMAIN said :
        /\ said[i] \in {"call", "tool"}
        /\ i = 1 => said[i] = "call"
        /\ said[i] = "call" /\ i < Len(said) => said[i + 1] = "tool"
AllAnswered(said) == Answering(said) /\ (said # <<>> => said[Len(said)] = "tool")

\* A turn that works on a call has it in hand; a turn that asks or stores has
\* answered all calls; a result that is given again was remembered; a memory command
\* is no turn of the loop.
TurnOf ==
    {t \in TurnRecord :
        /\ t.at \notin {"idle", "remember", "forget", "done"} => "command" \notin t.wants
        /\ t.at \in Working /\ "command" \notin t.wants => t.calls # <<>>
        /\ t.at \in {"asking", "storing"} => AllAnswered(t.said)
        /\ t.at \in Working \cup {"next"} /\ "command" \notin t.wants =>
              /\ Answering(t.said) /\ t.said # <<>>
              /\ t.calls = <<>> => AllAnswered(t.said)
        /\ t.at = "record" /\ t.result = "duplicate" => Head(t.calls) \in DOMAIN t.seen}

TurnTyped == /\ used \in Kits /\ turn \in [Caller -> TurnOf]
             /\ chat \in Seq(Message) /\ chatDraft \in Seq(Message)

LEMMA SaidMore ==
    ASSUME NEW said \in Seq(Message), Answering(said)
    PROVE  /\ said # <<>> => AllAnswered(Append(said, "tool"))
           /\ AllAnswered(said) => Answering(Append(said, "call"))
           /\ Append(said, "tool") \in Seq(Message) /\ Append(said, "call") \in Seq(Message)
           /\ Append(said, "tool") # <<>> /\ Append(said, "call") # <<>>
<1>1. ASSUME NEW x \in Message
      PROVE  /\ Append(said, x) \in Seq(Message) /\ Len(Append(said, x)) = Len(said) + 1
             /\ DOMAIN Append(said, x) = 1 .. Len(said) + 1 /\ Append(said, x)[Len(said) + 1] = x
             /\ \A i \in 1 .. Len(said) : Append(said, x)[i] = said[i]
             /\ Append(said, x) # <<>>
  OBVIOUS
<1>2. "tool" \in Message /\ "call" \in Message /\ DOMAIN said = 1 .. Len(said) /\ Len(said) \in Nat
  BY DEF Message
<1>3. ASSUME said # <<>> PROVE AllAnswered(Append(said, "tool"))
  <2> DEFINE s == Append(said, "tool")
  <2>1. /\ Len(s) = Len(said) + 1 /\ DOMAIN s = 1 .. Len(said) + 1 /\ s[Len(said) + 1] = "tool"
        /\ \A i \in 1 .. Len(said) : s[i] = said[i]
    BY <1>1, <1>2
  <2>2. Len(said) > 0
    BY <1>3, <1>2
  <2> HIDE DEF s
  <2>3. Answering(s)
    <3> SUFFICES ASSUME NEW i \in DOMAIN s
                 PROVE  /\ s[i] \in {"call", "tool"}
                        /\ i = 1 => s[i] = "call"
                        /\ s[i] = "call" /\ i < Len(s) => s[i + 1] = "tool"
      BY DEF Answering
    <3>1. CASE i = Len(said) + 1
      BY <3>1, <2>1, <2>2, <1>2
    <3>2. CASE i \in 1 .. Len(said) - 1
      BY <3>2, <2>1, <1>2 DEF Answering
    <3>3. CASE i = Len(said)
      BY <3>3, <2>1, <2>2, <1>2 DEF Answering
    <3>4. i \in 1 .. Len(said) - 1 \/ i = Len(said) \/ i = Len(said) + 1
      BY <2>1, <1>2
    <3> QED BY <3>1, <3>2, <3>3, <3>4
  <2>4. AllAnswered(s)
    BY <2>1, <2>3 DEF AllAnswered
  <2> QED BY <2>4 DEF s
<1>4. ASSUME AllAnswered(said) PROVE Answering(Append(said, "call"))
  <2> DEFINE s == Append(said, "call")
  <2>1. /\ Len(s) = Len(said) + 1 /\ DOMAIN s = 1 .. Len(said) + 1 /\ s[Len(said) + 1] = "call"
        /\ \A i \in 1 .. Len(said) : s[i] = said[i]
    BY <1>1, <1>2
  <2> HIDE DEF s
  <2>2. ASSUME NEW i \in DOMAIN s
        PROVE  /\ s[i] \in {"call", "tool"}
               /\ i = 1 => s[i] = "call"
               /\ s[i] = "call" /\ i < Len(s) => s[i + 1] = "tool"
    <3>1. CASE i = Len(said) + 1
      BY <3>1, <2>1, <1>2
    <3>2. CASE i \in 1 .. Len(said) - 1
      BY <3>2, <2>1, <1>2 DEF Answering
    <3>3. CASE i = Len(said)
      <4>1. i \in DOMAIN said /\ said # <<>>
        BY <3>3, <2>1, <2>2, <1>2
      <4>2. s[i] = "tool" /\ (i = 1 => s[i] = "call")
        BY <1>4, <2>1, <3>3, <4>1, <1>2 DEF AllAnswered, Answering
      <4> QED BY <4>2
    <3>4. i \in 1 .. Len(said) - 1 \/ i = Len(said) \/ i = Len(said) + 1
      BY <2>1, <2>2, <1>2
    <3> QED BY <3>1, <3>2, <3>3, <3>4
  <2>3. Answering(s)
    BY <2>2 DEF Answering
  <2> QED BY <2>3 DEF s
<1> QED BY <1>1, <1>2, <1>3, <1>4

LEMMA FreeTyped ==
    /\ Free \in TurnOf
    /\ <<>> \in Memo /\ AllAnswered(<<>>)
<1>1. DOMAIN <<>> = {} /\ <<>> \in Seq(Tools) /\ <<>> \in Seq(Message)
  OBVIOUS
<1>2. <<>> \in Memo
  <2>1. <<>> \in [{} -> Results]
    BY <1>1
  <2> QED BY <2>1 DEF Memo
<1>3. AllAnswered(<<>>)
  BY <1>1 DEF AllAnswered, Answering
<1>4. Free \in TurnRecord
  <2>1. NoRow \in Tally
    BY DEF NoRow, Tally
  <2> QED BY <1>1, <1>2, <2>1 DEF Free, TurnRecord, Where, Results
<1>5. Free.at = "idle"
  BY DEF Free
<1> QED BY <1>2, <1>3, <1>4, <1>5 DEF TurnOf, Working

LEMMA RecentTyped == TurnTyped => Recent(chatDraft) \in Seq(Message)
<1> SUFFICES ASSUME TurnTyped PROVE Recent(chatDraft) \in Seq(Message)
  OBVIOUS
<1>1. chatDraft \in Seq(Message) /\ Len(chatDraft) \in Nat /\ Window \in Nat
  BY ChatTurnAssumption DEF TurnTyped
<1> DEFINE from == IF Len(chatDraft) > Window THEN Len(chatDraft) - Window + 1 ELSE 1
<1>2. from \in 1 .. Len(chatDraft) + 1 /\ Len(chatDraft) \in from - 1 .. Len(chatDraft)
  BY <1>1
<1>3. SubSeq(chatDraft, from, Len(chatDraft)) \in Seq(Message)
  BY <1>1, <1>2, SubSeqProperties
<1> QED BY <1>3 DEF Recent

\* A call that has got its result is still in hand.
LEMMA AnsweredTyped ==
    ASSUME TurnTyped, NEW w \in Caller, NEW result \in Results, turn[w].at \in Working \cup {"next"},
           "command" \notin turn[w].wants, turn[w].calls # <<>>,
           result = "duplicate" => Head(turn[w].calls) \in DOMAIN turn[w].seen
    PROVE  Answered(w, result) \in TurnOf
<1> DEFINE t == turn[w]
           u == Answered(w, result)
<1>1. t \in TurnOf /\ t \in TurnRecord
  BY DEF TurnTyped, TurnOf
<1>2. /\ u \in TurnRecord /\ u.at = "record" /\ u.result = result
      /\ u.wants = t.wants /\ u.calls = t.calls /\ u.said = t.said /\ u.seen = t.seen
  BY <1>1 DEF Answered, TurnRecord, Where
<1>3. Answering(t.said) /\ t.said # <<>> /\ (t.calls = <<>> => AllAnswered(t.said))
  BY <1>1 DEF TurnOf
<1> HIDE DEF u
<1>4. u \in TurnOf
  BY <1>2, <1>3 DEF TurnOf, Working
<1> QED BY <1>4 DEF u

\* What the actions of a turn leave a handler with.
LEMMA TurnStepTyped ==
    ASSUME TurnTyped, NEW w \in Caller, TurnStep(w)
    PROVE  turn'[w] \in TurnOf /\ turn' = [turn EXCEPT ![w] = turn'[w]]
<1> DEFINE t == turn[w]
<1>1. t \in TurnOf /\ t \in TurnRecord /\ t.calls \in Seq(Tools) /\ turn \in [Caller -> TurnOf] /\ used \in Kits
  BY DEF TurnTyped, TurnOf, TurnRecord
<1>2. ASSUME NEW u \in TurnOf, turn' = [turn EXCEPT ![w] = u]
      PROVE  turn'[w] \in TurnOf /\ turn' = [turn EXCEPT ![w] = turn'[w]]
  BY <1>1, <1>2
<1>3. ASSUME NEW where \in {"done", "committing"}, Goto(w, where), where = "committing" => t.at = "storing"
      PROVE  turn'[w] \in TurnOf /\ turn' = [turn EXCEPT ![w] = turn'[w]]
  <2> DEFINE u == [t EXCEPT !.at = where]
  <2>1. /\ u \in TurnRecord /\ u.at = where /\ u.wants = t.wants
    BY <1>1, <1>3 DEF TurnRecord, Where
  <2>2. where = "committing" => "command" \notin t.wants
    BY <1>1, <1>3 DEF TurnOf
  <2>3. turn' = [turn EXCEPT ![w] = u]
    BY <1>3 DEF Goto
  <2> HIDE DEF u
  <2>4. u \in TurnOf
    BY <2>1, <2>2, <1>3 DEF TurnOf, Working
  <2> QED BY <1>2, <2>3, <2>4
<1>4. CASE CommandReturns(w) \/ AnswerFails(w) \/ CommitChat(w) \/ AppendMany(w)
  BY <1>4, <1>3 DEF CommandReturns, AnswerFails, CommitChat, AppendMany, At
<1>5. CASE AnswerText(w) \/ FollowUp(w)
  <2>1. PICK where \in {"storing", "asking"} : Goto(w, where)
    BY <1>5 DEF AnswerText, FollowUp
  <2>2. t.at = "asking" \/ (t.at = "next" /\ t.calls = <<>>)
    BY <1>5 DEF AnswerText, FollowUp, At
  <2>3. AllAnswered(t.said) /\ "command" \notin t.wants
    BY <1>1, <2>2 DEF TurnOf
  <2> DEFINE u == [t EXCEPT !.at = where]
  <2>4. /\ u \in TurnRecord /\ u.at = where /\ u.wants = t.wants /\ u.said = t.said
    BY <1>1 DEF TurnRecord, Where
  <2>5. turn' = [turn EXCEPT ![w] = u]
    BY <2>1 DEF Goto
  <2> HIDE DEF u
  <2>6. u \in TurnOf
    BY <2>3, <2>4 DEF TurnOf, Working
  <2> QED BY <1>2, <2>5, <2>6
<1>6. ASSUME NEW calls \in Answers, AnswerCalls(w, calls)
      PROVE  turn'[w] \in TurnOf /\ turn' = [turn EXCEPT ![w] = turn'[w]]
  <2> DEFINE u == [t EXCEPT !.at = "next", !.calls = calls, !.said = Append(@, "call"),
                            !.round = IF @ < used.rounds THEN @ + 1 ELSE @]
  <2>1. turn' = [turn EXCEPT ![w] = u] /\ t.at = "asking"
    BY <1>6 DEF AnswerCalls, At
  <2>2. calls \in Seq(Tools) /\ calls # <<>>
    <3>1. PICK n \in 1 .. used.calls : calls \in [1 .. n -> used.tools]
      BY DEF Answers
    <3>2. used.tools \subseteq Tools
      BY <1>1, ChatTurnAssumption DEF Tools
    <3> QED BY <3>1, <3>2
  <2>3. AllAnswered(t.said) /\ "command" \notin t.wants /\ t.said \in Seq(Message)
    BY <1>1, <2>1 DEF TurnOf, TurnRecord
  <2>4. Answering(Append(t.said, "call")) /\ Append(t.said, "call") # <<>> /\ Append(t.said, "call") \in Seq(Message)
    BY <2>3, SaidMore DEF AllAnswered
  <2>5. (IF t.round < used.rounds THEN t.round + 1 ELSE t.round) \in Nat
    BY <1>1 DEF TurnRecord
  <2>6. /\ u \in TurnRecord /\ u.at = "next" /\ u.wants = t.wants /\ u.calls = calls
        /\ u.said = Append(t.said, "call")
    BY <1>1, <2>2, <2>4, <2>5 DEF TurnRecord, Where
  <2> HIDE DEF u
  <2>7. u \in TurnOf
    BY <2>2, <2>3, <2>4, <2>6 DEF TurnOf, Working
  <2> QED BY <1>2, <2>1, <2>7
<1>7. CASE SkipBroken(w)
  <2>1. /\ t.at = "next" /\ t.calls # <<>> /\ "command" \notin t.wants
        /\ Answering(t.said) /\ t.said # <<>> /\ t.said \in Seq(Message)
    BY <1>1, <1>7 DEF SkipBroken, Ready, At, TurnOf, TurnRecord, Working
  <2> DEFINE u == [t EXCEPT !.calls = Tail(@), !.said = Append(@, "tool")]
  <2>2. turn' = [turn EXCEPT ![w] = u] /\ t.at = "next"
    BY <1>7 DEF SkipBroken, Ready, At
  <2>3. AllAnswered(Append(t.said, "tool")) /\ Append(t.said, "tool") # <<>> /\ Append(t.said, "tool") \in Seq(Message)
    BY <2>1, SaidMore
  <2>4. Tail(t.calls) \in Seq(Tools)
    BY <1>1, <2>1
  <2>5. /\ u \in TurnRecord /\ u.at = "next" /\ u.wants = t.wants /\ u.said = Append(t.said, "tool")
    BY <1>1, <2>2, <2>3, <2>4 DEF TurnRecord, Where
  <2> HIDE DEF u
  <2>6. u \in TurnOf
    BY <2>1, <2>3, <2>5 DEF TurnOf, Working, AllAnswered
  <2> QED BY <1>2, <2>2, <2>6
<1>8. CASE AnswerWithout(w)
  <2> DEFINE result == IF Seen(w, Tool(w)) THEN "duplicate" ELSE "failed"
  <2>1. /\ t.at = "next" /\ t.calls # <<>> /\ "command" \notin t.wants
        /\ turn' = [turn EXCEPT ![w] = Answered(w, result)]
    BY <1>1, <1>8 DEF AnswerWithout, Ready, At, TurnOf
  <2>2. result \in Results /\ (result = "duplicate" => Head(t.calls) \in DOMAIN t.seen)
    BY DEF Results, Seen, Tool
  <2> HIDE DEF result
  <2> QED BY <1>2, <2>1, <2>2, AnsweredTyped
<1>9. CASE ExecuteSimple(w)
  <2>1. PICK result \in {"failed", "completed"} :
          /\ t.at = "next" /\ t.calls # <<>> /\ "command" \notin t.wants
          /\ turn' = [turn EXCEPT ![w] = Answered(w, result)]
    BY <1>1, <1>9 DEF ExecuteSimple, Executes, Ready, At, TurnOf
  <2> QED BY <1>2, <2>1, AnsweredTyped DEF Results
<1>10. ASSUME NEW tool \in {"update", "steps", "remember", "forget"}, Executes(w, tool),
              NEW where \in {"store", "remember", "forget"}, Goto(w, where)
       PROVE  turn'[w] \in TurnOf /\ turn' = [turn EXCEPT ![w] = turn'[w]]
  <2> DEFINE u == [t EXCEPT !.at = where]
  <2>1. t.at = "next" /\ t.calls # <<>>
    BY <1>10 DEF Executes, Ready, At
  <2>2. "command" \notin t.wants /\ Answering(t.said) /\ t.said # <<>>
    BY <1>1, <2>1 DEF TurnOf, Working
  <2>3. /\ u \in TurnRecord /\ u.at = where /\ u.wants = t.wants /\ u.said = t.said /\ u.calls = t.calls
    BY <1>1 DEF TurnRecord, Where
  <2>4. turn' = [turn EXCEPT ![w] = u]
    BY <1>10 DEF Goto
  <2> HIDE DEF u
  <2>5. u \in TurnOf
    BY <2>1, <2>2, <2>3 DEF TurnOf, Working
  <2> QED BY <1>2, <2>4, <2>5
<1>11. CASE \E tool \in {"update", "steps"} : \E order \in Orders(tool) : ExecuteTask(w, tool, order[1], order[2])
  BY <1>10, <1>11 DEF ExecuteTask
<1>12. CASE ExecuteMemory(w)
  <2>1. PICK tool \in {"remember", "forget"} : SetAndFlush(w, tool)
    BY <1>12 DEF ExecuteMemory
  <2>2. Executes(w, tool) /\ (Goto(w, tool) \/ turn' = [turn EXCEPT ![w] = Answered(w, "failed")])
    BY <2>1 DEF SetAndFlush
  <2>3. t.at = "next" /\ t.calls # <<>> /\ "command" \notin t.wants
    BY <1>1, <2>2 DEF Executes, Ready, At, TurnOf
  <2>4. CASE Goto(w, tool)
    BY <1>10, <2>2, <2>4
  <2>5. CASE turn' = [turn EXCEPT ![w] = Answered(w, "failed")]
    BY <1>2, <2>3, <2>5, AnsweredTyped DEF Results
  <2> QED BY <2>2, <2>4, <2>5
<1>13. CASE TaskReturns(w)
  <2>1. PICK result \in {"failed", "completed"} : t.at = "store" /\ turn' = [turn EXCEPT ![w] = Answered(w, result)]
    BY <1>13 DEF TaskReturns, At
  <2>2. t.calls # <<>> /\ "command" \notin t.wants
    BY <1>1, <2>1 DEF TurnOf, Working
  <2> QED BY <1>2, <2>1, <2>2, AnsweredTyped DEF Results, Working
<1>14. CASE CommitFlush(w)
  <2>1. t.at \in {"remember", "forget"}
    BY <1>14 DEF CommitFlush
  <2>2. CASE "command" \in t.wants
    <3> DEFINE u == [t EXCEPT !.at = "done"]
    <3>1. turn' = [turn EXCEPT ![w] = u]
      BY <1>14, <2>2 DEF CommitFlush
    <3>2. u \in TurnRecord /\ u.at = "done"
      BY <1>1 DEF TurnRecord, Where
    <3> HIDE DEF u
    <3>3. u \in TurnOf
      BY <3>2 DEF TurnOf, Working
    <3> QED BY <1>2, <3>1, <3>3
  <2>3. CASE "command" \notin t.wants
    <3>1. turn' = [turn EXCEPT ![w] = Answered(w, "completed")]
      BY <1>14, <2>3 DEF CommitFlush
    <3>2. t.calls # <<>>
      BY <1>1, <2>1, <2>3 DEF TurnOf, Working
    <3> QED BY <1>2, <2>1, <2>3, <3>1, <3>2, AnsweredTyped DEF Results, Working
  <2> QED BY <2>2, <2>3
<1>15. CASE ToolTimesOut(w)
  <2>1. /\ t.at \in {"store", "remember", "forget"} /\ "command" \notin t.wants
        /\ turn' = [turn EXCEPT ![w] = Answered(w, "failed")]
    BY <1>15 DEF ToolTimesOut
  <2>2. t.calls # <<>>
    BY <1>1, <2>1 DEF TurnOf, Working
  <2> QED BY <1>2, <2>1, <2>2, AnsweredTyped DEF Results, Working
<1>16. CASE RecordAction(w)
  <2> DEFINE u == [t EXCEPT !.at = "note", !.seen = Remembered(w)]
  <2>1. t.at = "record" /\ turn' = [turn EXCEPT ![w] = u]
    BY <1>16 DEF RecordAction, At
  <2>2. /\ t.calls # <<>> /\ "command" \notin t.wants /\ Answering(t.said) /\ t.said # <<>>
    BY <1>1, <2>1 DEF TurnOf, Working
  <2>3. Remembered(w) \in Memo
    <3>1. Head(t.calls) \in Tools /\ t.seen \in Memo /\ t.result \in Results
      BY <1>1, <2>2 DEF TurnRecord
    <3>2. PICK tools \in SUBSET Tools : t.seen \in [tools -> Results]
      BY <3>1 DEF Memo
    <3> DEFINE next == [tool \in tools \cup {Head(t.calls)} |->
                          IF tool = Head(t.calls) THEN t.result ELSE t.seen[tool]]
    <3>3. Remembered(w) = IF t.result = "duplicate" THEN t.seen ELSE next
      BY <3>2 DEF Remembered, Tool
    <3>4. next \in [tools \cup {Head(t.calls)} -> Results]
      BY <3>1, <3>2
    <3>5. tools \cup {Head(t.calls)} \in SUBSET Tools
      BY <3>1, <3>2
    <3> HIDE DEF next
    <3>6. next \in Memo
      BY <3>4, <3>5 DEF Memo
    <3> QED BY <3>1, <3>3, <3>6
  <2>4. /\ u \in TurnRecord /\ u.at = "note" /\ u.wants = t.wants /\ u.said = t.said /\ u.calls = t.calls
    BY <1>1, <2>3 DEF TurnRecord, Where
  <2> HIDE DEF u
  <2>5. u \in TurnOf
    BY <2>2, <2>4 DEF TurnOf, Working
  <2> QED BY <1>2, <2>1, <2>5
<1>17. CASE NoteTask(w)
  <2>1. /\ t.at = "note" /\ t.calls # <<>> /\ "command" \notin t.wants
        /\ Answering(t.said) /\ t.said # <<>> /\ t.said \in Seq(Message)
    BY <1>1, <1>17 DEF NoteTask, At, TurnOf, TurnRecord, Working
  <2> DEFINE u == [t EXCEPT !.at = "next", !.calls = Tail(@), !.said = Append(@, "tool"),
                            !.tally = Noted(@, t.result)]
  <2>2. turn' = [turn EXCEPT ![w] = u]
    BY <1>17 DEF NoteTask
  <2>7. Noted(t.tally, t.result) \in Tally
    BY <1>1 DEF TurnRecord, Noted, Tally
  <2>3. AllAnswered(Append(t.said, "tool")) /\ Append(t.said, "tool") # <<>> /\ Append(t.said, "tool") \in Seq(Message)
    BY <2>1, SaidMore
  <2>4. Tail(t.calls) \in Seq(Tools)
    BY <1>1, <2>1
  <2>5. /\ u \in TurnRecord /\ u.at = "next" /\ u.wants = t.wants /\ u.said = Append(t.said, "tool")
    BY <1>1, <2>3, <2>4, <2>7 DEF TurnRecord, Where
  <2> HIDE DEF u
  <2>6. u \in TurnOf
    BY <2>1, <2>3, <2>5 DEF TurnOf, Working, AllAnswered
  <2> QED BY <1>2, <2>2, <2>6
<1>18. CASE WriteFails(w)
  <2>1. CASE t.at \in {"remember", "forget"} /\ "command" \notin t.wants
    <3>1. turn' = [turn EXCEPT ![w] = Answered(w, "failed")]
      BY <1>18, <2>1 DEF WriteFails
    <3>2. t.calls # <<>>
      BY <1>1, <2>1 DEF TurnOf, Working
    <3> QED BY <1>2, <2>1, <3>1, <3>2, AnsweredTyped DEF Results, Working
  <2>2. CASE ~(t.at \in {"remember", "forget"} /\ "command" \notin t.wants)
    <3>1. Goto(w, "done")
      BY <1>18, <2>2 DEF WriteFails, Goto
    <3> QED BY <1>3, <3>1
  <2> QED BY <2>1, <2>2
<1> QED BY <1>4, <1>5, <1>6, <1>7, <1>8, <1>9, <1>11, <1>12, <1>13, <1>14, <1>15, <1>16, <1>17, <1>18 DEF TurnStep

-----------------------------------------------------------------------------
(* What the transcript holds.                                              *)

Whole(m) ==
    /\ \A i \in DOMAIN m :
          /\ m[i] = "user" <=> i = 1 \/ (i > 1 /\ m[i - 1] = "assistant")
          /\ m[i] = "call" => m[i + 1] = "tool"
          /\ m[i] = "tool" => m[i - 1] \in {"call", "tool"}
    /\ m # <<>> => m[Len(m)] = "assistant"

\* A turn appended to whole turns leaves whole turns.
LEMMA AppendedWhole ==
    ASSUME NEW m \in Seq(Message), Whole(m), NEW said \in Seq(Message), AllAnswered(said)
    PROVE  /\ m \o (<<"user">> \o said \o <<"assistant">>) \in Seq(Message)
           /\ Whole(m \o (<<"user">> \o said \o <<"assistant">>))
<1> DEFINE block == <<"user">> \o said \o <<"assistant">>
           all == m \o block
           n == Len(m)
           k == Len(said)
<1>1. /\ n \in Nat /\ k \in Nat /\ DOMAIN m = 1 .. n /\ DOMAIN said = 1 .. k
  OBVIOUS
<1>2. <<"user">> \in Seq(Message) /\ <<"assistant">> \in Seq(Message)
  BY DEF Message
<1>3. /\ block \in Seq(Message) /\ Len(block) = k + 2
      /\ block[1] = "user" /\ block[k + 2] = "assistant"
      /\ \A i \in 1 .. k : block[i + 1] = said[i]
  <2> DEFINE front == <<"user">> \o said
  <2>1. /\ front \in Seq(Message) /\ Len(front) = k + 1 /\ front[1] = "user"
        /\ \A i \in 1 .. k : front[i + 1] = said[i]
    BY <1>1, <1>2
  <2> HIDE DEF front
  <2>2. /\ front \o <<"assistant">> \in Seq(Message) /\ Len(front \o <<"assistant">>) = k + 2
        /\ (front \o <<"assistant">>)[k + 2] = "assistant"
        /\ \A i \in 1 .. k + 1 : (front \o <<"assistant">>)[i] = front[i]
    BY <1>1, <1>2, <2>1
  <2>3. block = front \o <<"assistant">>
    BY DEF front
  <2> HIDE DEF block
  <2>4. \A i \in 1 .. k : block[i + 1] = front[i + 1]
    BY <2>2, <2>3, <1>1
  <2>5. block[1] = front[1]
    BY <2>2, <2>3, <1>1
  <2> QED BY <2>1, <2>2, <2>3, <2>4, <2>5
<1> HIDE DEF block
<1>4. /\ all \in Seq(Message) /\ Len(all) = n + k + 2 /\ DOMAIN all = 1 .. n + k + 2
      /\ \A i \in 1 .. n : all[i] = m[i]
      /\ \A i \in 1 .. k + 2 : all[n + i] = block[i]
  BY <1>1, <1>3
<1> HIDE DEF all
<1>5. /\ all[n + 1] = "user" /\ all[n + k + 2] = "assistant"
      /\ \A i \in 1 .. k : all[n + i + 1] = said[i]
  <2>1. all[n + 1] = block[1] /\ all[n + (k + 2)] = block[k + 2] /\ n + (k + 2) = n + k + 2
    BY <1>1, <1>4
  <2>2. ASSUME NEW i \in 1 .. k PROVE all[n + i + 1] = said[i]
    <3>1. i + 1 \in 1 .. k + 2 /\ n + (i + 1) = n + i + 1
      BY <1>1
    <3> QED BY <3>1, <1>3, <1>4
  <2> QED BY <2>1, <2>2, <1>3
<1>6. n > 0 => m[n] = "assistant"
  BY <1>1 DEF Whole
<1>7. ASSUME NEW i \in DOMAIN all
      PROVE  /\ all[i] = "user" <=> i = 1 \/ (i > 1 /\ all[i - 1] = "assistant")
             /\ all[i] = "call" => all[i + 1] = "tool"
             /\ all[i] = "tool" => all[i - 1] \in {"call", "tool"}
  <2>1. CASE i \in 1 .. n
    <3>1. all[i] = m[i] /\ (i > 1 => all[i - 1] = m[i - 1]) /\ (i < n => all[i + 1] = m[i + 1])
      BY <2>1, <1>1, <1>4
    <3>2. /\ m[i] = "user" <=> i = 1 \/ (i > 1 /\ m[i - 1] = "assistant")
          /\ m[i] = "call" => m[i + 1] = "tool"
          /\ m[i] = "tool" => m[i - 1] \in {"call", "tool"}
      BY <2>1, <1>1 DEF Whole
    <3>3. m[i] = "call" => i < n
      BY <2>1, <1>1, <1>6
    <3>4. m[i] = "tool" => i > 1
      <4> SUFFICES ASSUME m[i] = "tool", i = 1 PROVE FALSE
        BY <2>1, <1>1
      <4> QED BY <3>2
    <3> QED BY <3>1, <3>2, <3>3, <3>4, <2>1, <1>1
  <2>2. CASE i = n + 1
    <3>1. n > 0 => all[i - 1] = "assistant"
      BY <2>2, <1>1, <1>4, <1>6
    <3> QED BY <3>1, <2>2, <1>1, <1>5
  <2>3. CASE i \in n + 2 .. n + k + 1
    <3>1. PICK j \in 1 .. k : i = n + j + 1
      <4>1. i - n - 1 \in 1 .. k /\ i = n + (i - n - 1) + 1
        BY <2>3, <1>1
      <4> QED BY <4>1
    <3>2. all[i] = said[j]
      BY <3>1, <1>5
    <3>3. said[j] \in {"call", "tool"} /\ (j = 1 => said[j] = "call")
      BY <3>1, <1>1 DEF AllAnswered, Answering
    <3>4. all[i - 1] = IF j = 1 THEN "user" ELSE said[j - 1]
      <4>1. CASE j = 1
        BY <4>1, <3>1, <1>1, <1>5
      <4>2. CASE j # 1
        <5>1. j - 1 \in 1 .. k
          BY <4>2, <1>1
        <5>2. i - 1 = n + (j - 1) + 1
          BY <3>1, <1>1
        <5> QED BY <5>1, <5>2, <4>2, <1>5
      <4> QED BY <4>1, <4>2
    <3>5. j # 1 => said[j - 1] \in {"call", "tool"}
      <4>1. j # 1 => j - 1 \in 1 .. k
        BY <3>1, <2>3, <1>1
      <4> QED BY <4>1, <1>1 DEF AllAnswered, Answering
    <3>6. said[j] = "call" => j < k /\ said[j + 1] = "tool"
      <4> SUFFICES ASSUME said[j] = "call" PROVE j < k /\ said[j + 1] = "tool"
        OBVIOUS
      <4>1. said # <<>>
        BY <3>1, <1>1
      <4>2. j < k
        <5>1. said[k] = "tool"
          BY <4>1 DEF AllAnswered
        <5>2. j # k
          BY <5>1
        <5>3. j \in 1 .. k /\ k \in Nat
          BY <3>1, <1>1
        <5>4. \A b \in Nat : \A a \in 1 .. b : a # b => a < b
          OBVIOUS
        <5> QED BY <5>2, <5>3, <5>4
      <4>3. said[j + 1] = "tool"
        BY <4>2, <3>1, <1>1 DEF AllAnswered, Answering
      <4> QED BY <4>2, <4>3
    <3>7. j < k => all[i + 1] = said[j + 1]
      <4> SUFFICES ASSUME j < k PROVE all[i + 1] = said[j + 1]
        OBVIOUS
      <4>1. j + 1 \in 1 .. k /\ i + 1 = n + (j + 1) + 1
        BY <3>1, <1>1
      <4> QED BY <4>1, <1>5
    <3> QED BY <3>1, <3>2, <3>3, <3>4, <3>5, <3>6, <3>7, <2>3, <1>1
  <2>4. CASE i = n + k + 2
    <3>1. all[i] = "assistant" /\ i > 1
      BY <2>4, <1>1, <1>5
    <3>2. all[i - 1] = IF k = 0 THEN "user" ELSE said[k]
      <4>1. CASE k = 0
        BY <4>1, <2>4, <1>1, <1>5
      <4>2. CASE k # 0
        <5>1. k \in 1 .. k /\ i - 1 = n + k + 1
          BY <4>2, <2>4, <1>1
        <5> QED BY <5>1, <4>2, <1>5
      <4> QED BY <4>1, <4>2
    <3>3. k # 0 => said[k] = "tool"
      BY <1>1 DEF AllAnswered
    <3> QED BY <3>1, <3>2, <3>3
  <2>5. i \in 1 .. n \/ i = n + 1 \/ i \in n + 2 .. n + k + 1 \/ i = n + k + 2
    <3>1. i \in Nat /\ 1 <= i /\ i <= n + k + 2
      BY <1>1, <1>4
    <3>2. i <= n \/ i = n + 1 \/ (n + 2 <= i /\ i <= n + k + 1) \/ i = n + k + 2
      BY <3>1, <1>1
    <3> QED BY <3>1, <3>2, <1>1
  <2> QED BY <2>1, <2>2, <2>3, <2>4, <2>5
<1>8. all[Len(all)] = "assistant"
  BY <1>4, <1>5
<1>9. Whole(all)
  BY <1>7, <1>8 DEF Whole
<1> QED BY <1>4, <1>9 DEF all, block

-----------------------------------------------------------------------------
(* What a step does to the turns, the transcript and the store.            *)

\* A message of the user, or a command of his.
Speaks(w) ==
    \/ \E wants \in SUBSET Intents : OnUserMessage(w, wants)
    \/ \E tool \in Intents \ {"task"} : OnMemoryCommand(w, tool)
    \/ \E op \in used.commands : \E order \in Orders(op) : OnTaskCommand(w, op, order[1], order[2])

\* What goes on beside the turns.
Beside ==
    \/ \E w \in Members : StoreStep(w)
    \/ \E op \in {"create", "update"} : \E order \in Orders(op) : RunCli(op, order[1])

LEMMA StepCases ==
    ASSUME [Next]_vars
    PROVE  \/ \E w \in Caller : Speaks(w) \/ TurnStep(w)
           \/ Beside
           \/ \E old \in BOOLEAN : Restart(old)
           \/ UNCHANGED vars
  BY DEF Next, Speaks, Beside

\* What is asked of the store is an operation it has.
LEMMA OrdersTyped ==
    ASSUME NEW op \in Op, NEW order \in Orders(op)
    PROVE  order[1] \in Status /\ order[2] \in Steps
<1>1. Plan \cup {<<>>} \subseteq Steps
  <2>1. Plan \subseteq Steps
    BY TaskStoreAssumption DEF Steps
  <2>2. <<>> \in Steps
    BY DEF Steps
  <2> QED BY <2>1, <2>2
<1>2. "open" \in Status /\ StatusOf \cup {"keep"} \subseteq Status /\ <<>> \in Steps
  BY <1>1 DEF Status, StatusOf
<1>3. CASE op = "update"
  BY <1>2, <1>3 DEF Orders
<1>4. CASE op = "steps"
  BY <1>1, <1>2, <1>4 DEF Orders
<1>5. CASE op = "create" \/ op \in {"start", "pause", "advance"}
  BY <1>2, <1>5 DEF Orders
<1> QED BY <1>3, <1>4, <1>5 DEF Op

\* A handler that takes a message begins afresh.
LEMMA SpeaksTyped ==
    ASSUME TurnTyped, NEW w \in Caller, Speaks(w)
    PROVE  /\ turn'[w] \in TurnOf /\ turn' = [turn EXCEPT ![w] = turn'[w]]
           /\ turn'[w].said = <<>> /\ turn'[w].tally = NoRow
           /\ turn'[w].at \in {"asking", "command", "done"} \/ "command" \in turn'[w].wants
           /\ NewTurn(w)
           /\ UNCHANGED <<used, Transcript>>
<1>1. turn \in [Caller -> TurnOf] /\ Free \in TurnOf /\ Free \in TurnRecord /\ Free.said = <<>> /\ Free.wants = {}
      /\ Free.tally = NoRow
  BY FreeTyped DEF TurnTyped, TurnOf, Free
<1>2. ASSUME NEW u \in TurnOf, turn' = [turn EXCEPT ![w] = u]
      PROVE  turn'[w] = u /\ turn' = [turn EXCEPT ![w] = turn'[w]]
  BY <1>1, <1>2
<1>3. ASSUME NEW wants \in SUBSET Intents, OnUserMessage(w, wants)
      PROVE  turn'[w] \in TurnOf /\ turn' = [turn EXCEPT ![w] = turn'[w]] /\ turn'[w].said = <<>> /\ turn'[w].at = "asking"
             /\ turn'[w].tally = NoRow
  <2> DEFINE u == [Free EXCEPT !.at = "asking", !.wants = wants, !.sent = Recent(chatDraft)]
  <2>1. turn' = [turn EXCEPT ![w] = u]
    BY <1>3 DEF OnUserMessage
  <2>2. wants \subseteq {"remember", "forget", "task"}
    BY DEF Intents
  <2>3. u \in TurnRecord /\ u.at = "asking" /\ u.wants = wants /\ u.said = <<>> /\ u.tally = NoRow
    BY <1>1, <2>2, RecentTyped DEF TurnRecord, Where
  <2> HIDE DEF u
  <2>4. u \in TurnOf
    BY <2>2, <2>3, FreeTyped DEF TurnOf, Working
  <2> QED BY <1>2, <2>1, <2>3, <2>4
<1>4. ASSUME NEW where \in {"command", "done"}, turn' = [turn EXCEPT ![w] = [Free EXCEPT !.at = where]]
      PROVE  turn'[w] \in TurnOf /\ turn' = [turn EXCEPT ![w] = turn'[w]] /\ turn'[w].said = <<>> /\ turn'[w].at = where
             /\ turn'[w].tally = NoRow
  <2> DEFINE u == [Free EXCEPT !.at = where]
  <2>1. u \in TurnRecord /\ u.at = where /\ u.wants = {} /\ u.said = <<>> /\ u.tally = NoRow
    BY <1>1 DEF TurnRecord, Where
  <2>2. turn' = [turn EXCEPT ![w] = u]
    BY <1>4
  <2> HIDE DEF u
  <2>3. u \in TurnOf
    BY <2>1 DEF TurnOf, Working
  <2> QED BY <1>2, <2>1, <2>2, <2>3
<1>5. ASSUME NEW tool \in {"remember", "forget"},
             turn' = [turn EXCEPT ![w] = [Free EXCEPT !.at = tool, !.wants = {"command"}]]
      PROVE  turn'[w] \in TurnOf /\ turn' = [turn EXCEPT ![w] = turn'[w]] /\ turn'[w].said = <<>>
             /\ "command" \in turn'[w].wants /\ turn'[w].tally = NoRow
  <2> DEFINE u == [Free EXCEPT !.at = tool, !.wants = {"command"}]
  <2>1. u \in TurnRecord /\ u.at = tool /\ u.wants = {"command"} /\ u.said = <<>> /\ u.tally = NoRow
    BY <1>1 DEF TurnRecord, Where
  <2>2. turn' = [turn EXCEPT ![w] = u]
    BY <1>5
  <2> HIDE DEF u
  <2>3. u \in TurnOf
    BY <2>1 DEF TurnOf, Working
  <2> QED BY <1>2, <2>1, <2>2, <2>3
<1>6. CASE \E wants \in SUBSET Intents : OnUserMessage(w, wants)
  <2>1. NewTurn(w) /\ UNCHANGED <<used, Transcript>>
    BY <1>6 DEF OnUserMessage
  <2> QED BY <1>3, <1>6, <2>1
<1>7. CASE \E tool \in Intents \ {"task"} : OnMemoryCommand(w, tool)
  <2>1. NewTurn(w) /\ UNCHANGED <<used, Transcript>>
    BY <1>7 DEF OnMemoryCommand
  <2>2. \/ \E tool \in {"remember", "forget"} : turn' = [turn EXCEPT ![w] = [Free EXCEPT !.at = tool, !.wants = {"command"}]]
        \/ turn' = [turn EXCEPT ![w] = [Free EXCEPT !.at = "done"]]
    BY <1>7 DEF OnMemoryCommand, Intents
  <2> QED BY <1>4, <1>5, <2>1, <2>2
<1>8. CASE \E op \in used.commands : \E order \in Orders(op) : OnTaskCommand(w, op, order[1], order[2])
  <2>1. NewTurn(w) /\ UNCHANGED <<used, Transcript>>
        /\ turn' = [turn EXCEPT ![w] = [Free EXCEPT !.at = "command"]]
    BY <1>8 DEF OnTaskCommand
  <2> QED BY <1>4, <2>1
<1> QED BY <1>6, <1>7, <1>8 DEF Speaks

TranscriptInv == TurnTyped /\ Whole(chat) /\ Whole(chatDraft)

\* A settled turn is appended whole; nothing else grows the transcript.
LEMMA TurnStepTranscript ==
    ASSUME TranscriptInv, NEW w \in Caller, TurnStep(w)
    PROVE  /\ chat' \in Seq(Message) /\ chatDraft' \in Seq(Message)
           /\ Whole(chat') /\ Whole(chatDraft') /\ used' = used
<1>1. chat \in Seq(Message) /\ chatDraft \in Seq(Message) /\ Whole(chat) /\ Whole(chatDraft)
  BY DEF TranscriptInv, TurnTyped
<1>2. CASE AppendMany(w)
  <2>1. turn[w].at = "storing" /\ chatDraft' = chatDraft \o Block(w) /\ UNCHANGED <<used, chat>>
    BY <1>2 DEF AppendMany, At
  <2>2. turn[w].said \in Seq(Message) /\ AllAnswered(turn[w].said)
    BY <2>1 DEF TranscriptInv, TurnTyped, TurnOf, TurnRecord
  <2> QED BY <1>1, <2>1, <2>2, AppendedWhole DEF Block
<1>3. CASE CommitChat(w)
  BY <1>1, <1>3 DEF CommitChat
<1>4. CASE ~AppendMany(w) /\ ~CommitChat(w)
  <2>1. UNCHANGED <<used, Transcript>>
    <3>1. CASE CommandReturns(w) \/ AnswerText(w) \/ AnswerFails(w) \/ SkipBroken(w) \/ AnswerWithout(w)
      BY <3>1 DEF CommandReturns, AnswerText, AnswerFails, SkipBroken, AnswerWithout
    <3>2. CASE \E calls \in Answers : AnswerCalls(w, calls)
      BY <3>2 DEF AnswerCalls
    <3>3. CASE ExecuteSimple(w) \/ ExecuteMemory(w)
      BY <3>3 DEF ExecuteSimple, ExecuteMemory, SetAndFlush
    <3>4. CASE \E tool \in {"update", "steps"} : \E order \in Orders(tool) : ExecuteTask(w, tool, order[1], order[2])
      BY <3>4 DEF ExecuteTask
    <3>5. CASE TaskReturns(w) \/ CommitFlush(w) \/ ToolTimesOut(w) \/ WriteFails(w)
      BY <3>5 DEF TaskReturns, CommitFlush, ToolTimesOut, WriteFails
    <3>6. CASE RecordAction(w) \/ NoteTask(w) \/ FollowUp(w)
      BY <3>6 DEF RecordAction, NoteTask, FollowUp
    <3> QED BY <1>4, <3>1, <3>2, <3>3, <3>4, <3>5, <3>6 DEF TurnStep
  <2> QED BY <1>1, <2>1 DEF Transcript
<1> QED BY <1>2, <1>3, <1>4

\* What goes on beside the turns leaves them and the transcript alone.
LEMMA BesideLeavesTurns ==
    ASSUME Beside
    PROVE  UNCHANGED <<used, turn, Transcript, audit, Profile, runs>>
  BY DEF Beside, StoreStep, RunCli, chatVars, Transcript, Profile, audit

LEMMA TranscriptStep == TranscriptInv /\ [Next]_vars => TranscriptInv'
<1> SUFFICES ASSUME TranscriptInv, [Next]_vars PROVE TranscriptInv'
  OBVIOUS
<1>1. TurnTyped /\ turn \in [Caller -> TurnOf]
  BY DEF TranscriptInv, TurnTyped
<1>2. ASSUME NEW w \in Caller, turn'[w] \in TurnOf, turn' = [turn EXCEPT ![w] = turn'[w]]
      PROVE  turn' \in [Caller -> TurnOf]
  BY <1>1, <1>2
<1>3. ASSUME NEW w \in Caller, Speaks(w) PROVE TranscriptInv'
  <2>1. turn' \in [Caller -> TurnOf]
    BY <1>1, <1>2, <1>3, SpeaksTyped
  <2>2. UNCHANGED <<used, Transcript>>
    BY <1>1, <1>3, SpeaksTyped
  <2> QED BY <2>1, <2>2 DEF TranscriptInv, TurnTyped, Transcript, Whole
<1>4. ASSUME NEW w \in Caller, TurnStep(w) PROVE TranscriptInv'
  <2>1. turn' \in [Caller -> TurnOf]
    BY <1>1, <1>2, <1>4, TurnStepTyped
  <2> QED BY <1>1, <1>4, <2>1, TurnStepTranscript DEF TranscriptInv, TurnTyped, Whole
<1>5. CASE Beside \/ UNCHANGED vars
  <2>1. UNCHANGED <<used, turn, chat, chatDraft>>
    BY <1>5, BesideLeavesTurns DEF vars, chatVars, Transcript
  <2> QED BY <2>1 DEF TranscriptInv, TurnTyped, Whole
<1>6. ASSUME NEW old \in BOOLEAN, Restart(old) PROVE TranscriptInv'
  <2>1. turn' = [w \in Caller |-> Free] /\ chatDraft' = chat /\ UNCHANGED <<used, chat>>
    BY <1>6 DEF Restart
  <2> QED BY <2>1, FreeTyped DEF TranscriptInv, TurnTyped, Whole
<1> QED BY <1>3, <1>4, <1>5, <1>6, StepCases

LEMMA TranscriptStart == Init => TranscriptInv
<1> SUFFICES ASSUME Init PROVE TranscriptInv
  OBVIOUS
<1>1. used \in Kits /\ turn = [w \in Caller |-> Free] /\ chat = <<>> /\ chatDraft = <<>>
  BY DEF Init, ChatInit
<1>2. <<>> \in Seq(Message) /\ DOMAIN <<>> = {}
  OBVIOUS
<1>3. Whole(<<>>)
  BY <1>2 DEF Whole
<1> QED BY <1>1, <1>2, <1>3, FreeTyped DEF TranscriptInv, TurnTyped

LEMMA TranscriptInvariant == Spec => []TranscriptInv
  BY TranscriptStart, TranscriptStep, PTL DEF Spec

\* The transcript holds whole turns, in spite of crashes, errors and two handlers
\* storing at once.
THEOREM PersistedWhole == Spec => []PersistedTurnsAreWhole
<1>1. TranscriptInv => PersistedTurnsAreWhole
  BY DEF TranscriptInv, Whole, PersistedTurnsAreWhole
<1> QED BY TranscriptInvariant, <1>1, PTL

-----------------------------------------------------------------------------
(* The step lists of the tasks.                                            *)

LEMMA StoreStepKeeps ==
    ASSUME TranscriptInv, StoreInv, [Next]_vars
    PROVE  StoreInv'
<1>1. Caller \subseteq Members /\ Cli \in Members
  BY DEF Members
<1>2. used \in Kits /\ used.commands \subseteq Op
  BY ChatTurnAssumption DEF TranscriptInv, TurnTyped, Op
<1>3. ASSUME NEW w \in Members, NEW op \in Op, NEW order \in Orders(op), Ask(w, op, TaskOfUser, order[1], order[2])
      PROVE  StoreInv'
  BY <1>3, OrdersTyped, AskKeeps, ChatTurnAssumption
<1>4. ASSUME UNCHANGED storeVars PROVE StoreInv'
  BY <1>4 DEF StoreInv, StoreTyped, CallsOrdered, OneInside, DraftIsWhole, DiskIsWhole, Inside, Upcoming, storeVars
<1>5. ASSUME NEW w \in Caller, Speaks(w) PROVE StoreInv'
  <2>1. CASE \E op \in used.commands : \E order \in Orders(op) : OnTaskCommand(w, op, order[1], order[2])
    BY <1>1, <1>2, <1>3, <2>1 DEF OnTaskCommand
  <2>2. CASE (\E wants \in SUBSET Intents : OnUserMessage(w, wants))
             \/ \E tool \in Intents \ {"task"} : OnMemoryCommand(w, tool)
    BY <1>4, <2>2 DEF OnUserMessage, OnMemoryCommand
  <2> QED BY <1>5, <2>1, <2>2 DEF Speaks
<1>6. ASSUME NEW w \in Caller, TurnStep(w) PROVE StoreInv'
  <2>1. CASE \E tool \in {"update", "steps"} : \E order \in Orders(tool) : ExecuteTask(w, tool, order[1], order[2])
    BY <1>1, <1>3, <2>1 DEF ExecuteTask, Op
  <2>2. CASE ToolTimesOut(w)
    <3>1. Cancel(w) \/ UNCHANGED storeVars
      BY <2>2 DEF ToolTimesOut
    <3> QED BY <1>1, <1>4, <3>1, FaultKeeps
  <2>3. CASE CommandReturns(w) \/ AnswerText(w) \/ AnswerFails(w) \/ SkipBroken(w) \/ AnswerWithout(w)
    BY <1>4, <2>3 DEF CommandReturns, AnswerText, AnswerFails, SkipBroken, AnswerWithout
  <2>4. CASE \E calls \in Answers : AnswerCalls(w, calls)
    BY <1>4, <2>4 DEF AnswerCalls
  <2>5. CASE ExecuteSimple(w) \/ ExecuteMemory(w)
    BY <1>4, <2>5 DEF ExecuteSimple, ExecuteMemory, SetAndFlush
  <2>6. CASE TaskReturns(w) \/ CommitFlush(w) \/ RecordAction(w) \/ NoteTask(w) \/ FollowUp(w)
    BY <1>4, <2>6 DEF TaskReturns, CommitFlush, RecordAction, NoteTask, FollowUp
  <2>7. CASE AppendMany(w) \/ CommitChat(w) \/ WriteFails(w)
    BY <1>4, <2>7 DEF AppendMany, CommitChat, WriteFails
  <2> QED BY <1>6, <2>1, <2>2, <2>3, <2>4, <2>5, <2>6, <2>7 DEF TurnStep
<1>7. CASE Beside
  <2>1. CASE \E w \in Members : StoreStep(w)
    BY <2>1, StatementKeeps, FaultKeeps DEF StoreStep
  <2>2. CASE \E op \in {"create", "update"} : \E order \in Orders(op) : RunCli(op, order[1])
    <3>1. PICK op \in {"create", "update"} : \E order \in Orders(op) : RunCli(op, order[1])
      BY <2>2
    <3>2. PICK order \in Orders(op) : Ask(Cli, op, TaskOfUser, order[1], <<>>)
      BY <3>1 DEF RunCli
    <3>3. op \in Op /\ <<>> \in Steps
      BY DEF Op, Steps
    <3> QED BY <1>1, <3>2, <3>3, OrdersTyped, AskKeeps, ChatTurnAssumption
  <2> QED BY <1>7, <2>1, <2>2 DEF Beside
<1>8. ASSUME NEW old \in BOOLEAN, Restart(old) PROVE StoreInv'
  BY <1>8, CrashKeeps DEF Restart
<1>9. CASE UNCHANGED vars
  BY <1>4, <1>9 DEF vars
<1> QED BY <1>5, <1>6, <1>7, <1>8, <1>9, StepCases

\* The steps of a task on disk are a list somebody asked for, whole, unless a call
\* was cancelled, failed or overlapped another inside the transaction.
THEOREM StepsStayWhole == Spec => []StepsAreWhole
<1>1. StoreInv => StepsAreWhole
  BY DEF StoreInv, DiskIsWhole, StepsAreWhole
<1> QED BY StoreStart, StoreStepKeeps, TranscriptInvariant, <1>1, PTL DEF Spec

-----------------------------------------------------------------------------
(* The profile.                                                            *)

\* What the user was told is in the cache, in what the connection has written and on
\* disk; a flush under way has written the fact it is about to tell of, unless the fact
\* was forgotten since.
ProfileInv ==
    /\ TranscriptInv
    /\ told \subseteq facts /\ told \subseteq factsDraft /\ told \subseteq factsDisk
    /\ \A w \in Caller : At(w, "remember") /\ w \in facts => w \in factsDraft

LEMMA ProfileStep == ProfileInv /\ [Next]_vars => ProfileInv'
<1> SUFFICES ASSUME ProfileInv, [Next]_vars PROVE ProfileInv'
  OBVIOUS
<1>1. TranscriptInv' /\ TurnTyped /\ turn \in [Caller -> TurnOf]
      /\ \A w \in Caller : turn[w] \in TurnOf /\ turn[w] \in TurnRecord
  BY TranscriptStep DEF ProfileInv, TranscriptInv, TurnTyped, TurnOf
<1>2. ASSUME NEW changed, SetFacts(changed) PROVE ProfileInv'
  BY <1>1, <1>2 DEF SetFacts, ProfileInv
<1>3. ASSUME NEW w \in Caller, turn' = [turn EXCEPT ![w] = turn'[w]], turn'[w].at # "remember", UNCHANGED Profile
      PROVE  ProfileInv'
  BY <1>1, <1>3 DEF ProfileInv, Profile, At
<1>4. ASSUME NEW w \in Caller, turn' = [turn EXCEPT ![w] = turn'[w]], turn'[w].at # "remember",
             NEW tool \in {"remember", "forget"}, NEW changed \in Changed(w, tool), SetUnwritten(changed)
      PROVE  ProfileInv'
  <2>1. changed \subseteq facts \cup {w}
    BY DEF Changed
  <2> QED BY <1>1, <1>4, <2>1 DEF SetUnwritten, ProfileInv, At
<1>5. ASSUME NEW w \in Caller, Speaks(w) PROVE ProfileInv'
  <2>1. turn' = [turn EXCEPT ![w] = turn'[w]]
    BY <1>1, <1>5, SpeaksTyped
  <2>2. CASE \E tool \in Intents \ {"task"} : OnMemoryCommand(w, tool)
    <3>1. PICK tool \in {"remember", "forget"} : OnMemoryCommand(w, tool)
      BY <2>2 DEF Intents
    <3>2. \/ \E changed : SetFacts(changed)
          \/ /\ UNCHANGED Profile \/ \E changed \in Changed(w, tool) : SetUnwritten(changed)
             /\ turn' = [turn EXCEPT ![w] = [Free EXCEPT !.at = "done"]]
      BY <3>1 DEF OnMemoryCommand
    <3>3. turn' = [turn EXCEPT ![w] = [Free EXCEPT !.at = "done"]] => turn'[w].at = "done"
      BY <1>1 DEF Free
    <3> QED BY <1>2, <1>3, <1>4, <2>1, <3>2, <3>3
  <2>3. CASE \E wants \in SUBSET Intents : OnUserMessage(w, wants)
    <3>1. UNCHANGED Profile /\ turn'[w].at = "asking"
      BY <1>1, <2>3 DEF OnUserMessage, Free
    <3> QED BY <1>3, <2>1, <3>1
  <2>4. CASE \E op \in used.commands : \E order \in Orders(op) : OnTaskCommand(w, op, order[1], order[2])
    <3>1. UNCHANGED Profile /\ turn'[w].at = "command"
      BY <1>1, <2>4 DEF OnTaskCommand, Free
    <3> QED BY <1>3, <2>1, <3>1
  <2> QED BY <1>5, <2>2, <2>3, <2>4 DEF Speaks
<1>6. ASSUME NEW w \in Caller, TurnStep(w) PROVE ProfileInv'
  <2>1. turn' = [turn EXCEPT ![w] = turn'[w]] /\ turn[w] \in TurnRecord
    BY <1>1, <1>6, TurnStepTyped
  <2>2. ASSUME NEW result, turn' = [turn EXCEPT ![w] = Answered(w, result)] PROVE turn'[w].at = "record"
    BY <1>1, <2>1, <2>2 DEF Answered, TurnRecord
  <2>3. ASSUME NEW where, Goto(w, where) PROVE turn'[w].at = where
    BY <1>1, <2>1, <2>3 DEF Goto, TurnRecord
  <2>4. CASE ExecuteMemory(w)
    <3>1. PICK tool \in {"remember", "forget"} : SetAndFlush(w, tool)
      BY <2>4 DEF ExecuteMemory
    <3>2. \/ \E changed : SetFacts(changed)
          \/ /\ \E changed \in Changed(w, tool) : SetUnwritten(changed)
             /\ turn' = [turn EXCEPT ![w] = Answered(w, "failed")]
      BY <3>1 DEF SetAndFlush
    <3> QED BY <1>2, <1>4, <2>1, <2>2, <3>2
  <2>5. CASE CommitFlush(w)
    <3>1. turn'[w].at \in {"done", "record"}
      BY <1>1, <2>1, <2>5 DEF CommitFlush, Answered, TurnRecord
    <3>2. /\ factsDisk' = factsDraft /\ UNCHANGED <<facts, factsDraft>>
          /\ told' \subseteq told \cup ({w} \cap facts) /\ (~At(w, "remember") => told' = told)
      BY <2>5 DEF CommitFlush
    <3>3. told' \subseteq facts /\ told' \subseteq factsDraft
      <4>1. CASE At(w, "remember")
        BY <3>2, <4>1 DEF ProfileInv
      <4>2. CASE ~At(w, "remember")
        BY <3>2, <4>2 DEF ProfileInv
      <4> QED BY <4>1, <4>2
    <3> QED BY <1>1, <2>1, <3>1, <3>2, <3>3 DEF ProfileInv, At
  <2>6. CASE CommandReturns(w) \/ AnswerText(w) \/ AnswerFails(w) \/ FollowUp(w) \/ AppendMany(w) \/ CommitChat(w)
    <3>1. UNCHANGED Profile /\ \E where \in {"done", "storing", "asking", "committing"} : Goto(w, where)
      BY <2>6 DEF CommandReturns, AnswerText, AnswerFails, FollowUp, AppendMany, CommitChat
    <3> QED BY <1>3, <2>1, <2>3, <3>1
  <2>7. CASE \E calls \in Answers : AnswerCalls(w, calls)
    <3>1. UNCHANGED Profile /\ turn'[w].at = "next"
      BY <1>1, <2>1, <2>7 DEF AnswerCalls, TurnRecord
    <3> QED BY <1>3, <2>1, <3>1
  <2>8. CASE ExecuteSimple(w) \/ ToolTimesOut(w) \/ TaskReturns(w) \/ AnswerWithout(w)
    <3>1. UNCHANGED Profile /\ \E result : turn' = [turn EXCEPT ![w] = Answered(w, result)]
      BY <2>8 DEF ExecuteSimple, ToolTimesOut, TaskReturns, AnswerWithout
    <3> QED BY <1>3, <2>1, <2>2, <3>1
  <2>9. CASE \E tool \in {"update", "steps"} : \E order \in Orders(tool) : ExecuteTask(w, tool, order[1], order[2])
    <3>1. UNCHANGED Profile /\ Goto(w, "store")
      BY <2>9 DEF ExecuteTask
    <3> QED BY <1>3, <2>1, <2>3, <3>1
  <2>10. CASE SkipBroken(w) \/ RecordAction(w) \/ NoteTask(w)
    <3>1. UNCHANGED Profile /\ turn'[w].at \in {"next", "note"}
      BY <1>1, <2>1, <2>10 DEF SkipBroken, Ready, At, RecordAction, NoteTask, TurnRecord
    <3> QED BY <1>3, <2>1, <3>1
  <2>11. CASE WriteFails(w)
    <3>1. UNCHANGED Profile /\ turn'[w].at \in {"record", "done"}
      BY <1>1, <2>1, <2>11 DEF WriteFails, Answered, TurnRecord
    <3> QED BY <1>3, <2>1, <3>1
  <2> QED BY <1>6, <2>4, <2>5, <2>6, <2>7, <2>8, <2>9, <2>10, <2>11 DEF TurnStep
<1>7. CASE Beside \/ UNCHANGED vars
  <2>1. UNCHANGED turn /\ UNCHANGED Profile
    BY <1>7, BesideLeavesTurns DEF vars, chatVars, Profile
  <2> QED BY <1>1, <2>1 DEF ProfileInv, At, Profile
<1>8. ASSUME NEW old \in BOOLEAN, Restart(old) PROVE ProfileInv'
  BY <1>1, <1>8 DEF Restart, ProfileInv
<1> QED BY <1>5, <1>6, <1>7, <1>8, StepCases

\* A fact the user was told is remembered, and that nobody told it to forget since, is
\* on disk: also when two turns flush at once, a flush raises or is cancelled, or the
\* agent dies.
THEOREM ToldIsDurable == Spec => []RememberedIsDurable
<1>1. Init => ProfileInv
  <2> SUFFICES ASSUME Init PROVE ProfileInv
    OBVIOUS
  <2>1. told = {} /\ facts = {}
    BY DEF Init, ChatInit
  <2> QED BY <2>1, TranscriptStart DEF ProfileInv
<1>2. ProfileInv => RememberedIsDurable
  BY DEF ProfileInv, RememberedIsDurable
<1> QED BY <1>1, <1>2, ProfileStep, PTL DEF Spec

-----------------------------------------------------------------------------
(* The calls a turn's executor was given.                                  *)

\* What was executed in a turn is remembered, or is the call in hand.
Known(w, tool) ==
    \/ tool \in DOMAIN turn[w].seen
    \/ turn[w].at \in Working \ {"note"} /\ tool = Head(turn[w].calls)

InLoop(w) == turn[w].at \in Working \cup {"asking", "next"} /\ "command" \notin turn[w].wants

RunsInv ==
    /\ TranscriptInv
    /\ runs \in [Caller -> Seq(Tools)]
    /\ OncePerTurn
    /\ \A w \in Caller : InLoop(w) => \A i \in DOMAIN runs[w] : Known(w, runs[w][i])

\* A handler whose executor is given nothing forgets nothing it was given.
LEMMA RunsKept ==
    ASSUME RunsInv, NEW w \in Caller, turn' = [turn EXCEPT ![w] = turn'[w]], runs' = runs, TranscriptInv',
           InLoop(w)' => InLoop(w) /\ \A tool \in Tools : Known(w, tool) => Known(w, tool)'
    PROVE  RunsInv'
<1>1. \A v \in Caller \ {w} : turn'[v] = turn[v]
  BY DEF RunsInv, TranscriptInv, TurnTyped
<1>2. ASSUME NEW v \in Caller, InLoop(v)', NEW i \in DOMAIN runs[v] PROVE Known(v, runs[v][i])'
  <2>1. runs[v][i] \in Tools
    BY <1>2 DEF RunsInv
  <2>2. CASE v = w
    BY <1>2, <2>1, <2>2 DEF RunsInv, InLoop, Known
  <2>3. CASE v # w
    BY <1>1, <1>2, <2>3 DEF RunsInv, InLoop, Known
  <2> QED BY <2>2, <2>3
<1>3. OncePerTurn' /\ runs' \in [Caller -> Seq(Tools)]
  BY DEF RunsInv, OncePerTurn
<1>4. \A v \in Caller : InLoop(v)' => \A i \in DOMAIN runs'[v] : Known(v, runs[v][i])'
  BY <1>2 DEF InLoop, Known
<1> QED BY <1>3, <1>4 DEF RunsInv, InLoop, Known

\* A call that is executed was not remembered, so it is none of those executed.
LEMMA RunsAdded ==
    ASSUME RunsInv, NEW w \in Caller, NEW tool \in Tools, Executes(w, tool), TranscriptInv',
           turn' = [turn EXCEPT ![w] = turn'[w]], turn'[w].at \in Working \ {"note"},
           turn'[w].seen = turn[w].seen, turn'[w].calls = turn[w].calls
    PROVE  RunsInv'
<1>1. /\ turn[w].at = "next" /\ Head(turn[w].calls) = tool /\ tool \notin DOMAIN turn[w].seen
      /\ runs' = [runs EXCEPT ![w] = Append(@, tool)]
  BY DEF Executes, Ready, At, Tool, Seen
<1>2. "command" \notin turn[w].wants
  BY <1>1 DEF RunsInv, TranscriptInv, TurnTyped, TurnOf
<1>3. /\ runs[w] \in Seq(Tools) /\ runs \in [Caller -> Seq(Tools)]
      /\ \A v \in Caller \ {w} : turn'[v] = turn[v] /\ runs'[v] = runs[v]
      /\ runs'[w] = Append(runs[w], tool) /\ runs' \in [Caller -> Seq(Tools)]
  BY <1>1 DEF RunsInv, TranscriptInv, TurnTyped
<1>4. /\ DOMAIN runs[w] = 1 .. Len(runs[w]) /\ Len(runs[w]) \in Nat
      /\ DOMAIN runs'[w] = 1 .. Len(runs[w]) + 1 /\ runs'[w][Len(runs[w]) + 1] = tool
      /\ \A i \in 1 .. Len(runs[w]) : runs'[w][i] = runs[w][i]
  BY <1>3
<1>5. \A i \in DOMAIN runs[w] : runs[w][i] \in DOMAIN turn[w].seen
  BY <1>1, <1>2 DEF RunsInv, InLoop, Known, Working
<1>6. \A i, j \in DOMAIN runs'[w] : runs'[w][i] = runs'[w][j] => i = j
  <2>1. \A i, j \in DOMAIN runs[w] : runs[w][i] = runs[w][j] => i = j
    BY DEF RunsInv, OncePerTurn
  <2>2. \A i \in DOMAIN runs[w] : runs[w][i] # tool
    BY <1>1, <1>5
  <2>3. \A i \in DOMAIN runs'[w] : i \in DOMAIN runs[w] \/ i = Len(runs[w]) + 1
    BY <1>4
  <2> QED BY <1>4, <2>1, <2>2, <2>3
<1>7. OncePerTurn'
  BY <1>3, <1>6 DEF RunsInv, OncePerTurn
<1>8. ASSUME NEW v \in Caller, InLoop(v)', NEW i \in DOMAIN runs'[v] PROVE Known(v, runs[v][i])'
  <2>1. CASE v = w
    <3>1. runs'[w][i] = tool \/ runs'[w][i] \in DOMAIN turn[w].seen
      <4>1. i \in DOMAIN runs'[w]
        BY <1>8, <2>1
      <4>2. i \in 1 .. Len(runs[w]) \/ i = Len(runs[w]) + 1
        BY <1>4, <4>1
      <4> QED BY <1>4, <1>5, <4>2
    <3> QED BY <1>1, <2>1, <3>1 DEF Known
  <2>2. CASE v # w
    <3>1. turn'[v] = turn[v] /\ runs'[v] = runs[v]
      BY <1>3, <2>2
    <3>2. InLoop(v) /\ i \in DOMAIN runs[v]
      BY <1>8, <3>1 DEF InLoop
    <3>3. Known(v, runs[v][i])
      BY <3>2 DEF RunsInv
    <3> QED BY <3>1, <3>3 DEF Known
  <2> QED BY <2>1, <2>2
<1>9. \A v \in Caller : InLoop(v)' => \A i \in DOMAIN runs'[v] : Known(v, runs[v][i])'
  BY <1>8 DEF InLoop, Known
<1> QED BY <1>3, <1>7, <1>9 DEF RunsInv, InLoop, Known

LEMMA RunsStep == RunsInv /\ [Next]_vars => RunsInv'
<1> SUFFICES ASSUME RunsInv, [Next]_vars PROVE RunsInv'
  OBVIOUS
<1>1. TranscriptInv' /\ TurnTyped /\ TranscriptInv
  BY TranscriptStep DEF RunsInv, TranscriptInv
<1>2. /\ turn \in [Caller -> TurnOf] /\ runs \in [Caller -> Seq(Tools)]
      /\ \A w \in Caller : turn[w] \in TurnOf /\ turn[w] \in TurnRecord
  BY <1>1 DEF RunsInv, TurnTyped, TurnOf
<1>3. ASSUME NEW w \in Caller, Speaks(w) PROVE RunsInv'
  <2>1. turn' = [turn EXCEPT ![w] = turn'[w]] /\ runs' = [runs EXCEPT ![w] = <<>>]
    BY <1>1, <1>3, SpeaksTyped DEF NewTurn
  <2>2. /\ \A v \in Caller \ {w} : turn'[v] = turn[v] /\ runs'[v] = runs[v]
        /\ runs'[w] = <<>> /\ <<>> \in Seq(Tools) /\ DOMAIN <<>> = {} /\ runs' \in [Caller -> Seq(Tools)]
    BY <1>2, <2>1
  <2>3. OncePerTurn'
    BY <2>2 DEF RunsInv, OncePerTurn
  <2>4. \A v \in Caller : InLoop(v)' => \A i \in DOMAIN runs'[v] : Known(v, runs[v][i])'
    <3> SUFFICES ASSUME NEW v \in Caller, InLoop(v)', NEW i \in DOMAIN runs'[v]
                 PROVE  Known(v, runs[v][i])'
      BY DEF InLoop, Known
    <3>1. v # w
      BY <2>2
    <3>2. turn'[v] = turn[v] /\ runs'[v] = runs[v]
      BY <2>2, <3>1
    <3>3. InLoop(v) /\ i \in DOMAIN runs[v]
      BY <3>2 DEF InLoop
    <3>4. Known(v, runs[v][i])
      BY <3>3 DEF RunsInv
    <3> QED BY <3>2, <3>4 DEF Known
  <2> QED BY <1>1, <2>2, <2>3, <2>4 DEF RunsInv, InLoop, Known
<1>4. ASSUME NEW w \in Caller, TurnStep(w) PROVE RunsInv'
  <2>1. turn' = [turn EXCEPT ![w] = turn'[w]] /\ turn'[w] \in TurnOf
    BY <1>1, <1>4, TurnStepTyped
  <2>2. CASE CommandReturns(w) \/ AnswerFails(w) \/ AnswerText(w) \/ AppendMany(w) \/ CommitChat(w)
    <3>1. runs' = runs /\ turn'[w].at \in {"done", "storing", "committing"}
      BY <1>2, <2>2 DEF CommandReturns, AnswerFails, AnswerText, AppendMany, CommitChat, Goto, TurnRecord
    <3> QED BY <1>1, <2>1, <3>1, RunsKept DEF InLoop, Working
  <2>3. ASSUME NEW calls \in Answers, AnswerCalls(w, calls) PROVE RunsInv'
    <3>1. /\ runs' = runs /\ turn[w].at = "asking" /\ turn'[w].seen = turn[w].seen
      BY <1>2, <2>3 DEF AnswerCalls, At, TurnRecord
    <3>2. InLoop(w)
      BY <1>2, <3>1 DEF InLoop, TurnOf
    <3> QED BY <1>1, <2>1, <3>1, <3>2, RunsKept DEF Known, Working
  <2>4. CASE SkipBroken(w) \/ FollowUp(w)
    <3>1. runs' = runs /\ turn[w].at = "next" /\ turn'[w].seen = turn[w].seen
      BY <1>2, <2>4 DEF SkipBroken, FollowUp, Ready, At, Goto, TurnRecord
    <3>2. InLoop(w)
      BY <1>2, <3>1 DEF InLoop, TurnOf
    <3> QED BY <1>1, <2>1, <3>1, <3>2, RunsKept DEF Known, Working
  <2>5. CASE AnswerWithout(w)
    <3>1. runs' = runs /\ turn[w].at = "next" /\ turn'[w].seen = turn[w].seen
      BY <1>2, <2>5 DEF AnswerWithout, Answered, Ready, At, TurnRecord
    <3>2. InLoop(w)
      BY <1>2, <3>1 DEF InLoop, TurnOf
    <3> QED BY <1>1, <2>1, <3>1, <3>2, RunsKept DEF Known, Working
  <2>6. CASE ExecuteSimple(w)
    <3>1. PICK tool \in {"read", "raise", "forget"} :
            /\ Executes(w, tool)
            /\ turn'[w].at = "record" /\ turn'[w].seen = turn[w].seen /\ turn'[w].calls = turn[w].calls
      BY <1>2, <2>6 DEF ExecuteSimple, Answered, TurnRecord
    <3>2. tool \in Tools
      BY DEF Tools
    <3> QED BY <1>1, <2>1, <3>1, <3>2, RunsAdded DEF Working
  <2>7. CASE \E tool \in {"update", "steps"} : \E order \in Orders(tool) : ExecuteTask(w, tool, order[1], order[2])
    <3>1. PICK tool \in {"update", "steps"} :
            /\ Executes(w, tool)
            /\ turn'[w].at = "store" /\ turn'[w].seen = turn[w].seen /\ turn'[w].calls = turn[w].calls
      BY <1>2, <2>7 DEF ExecuteTask, Goto, TurnRecord
    <3>2. tool \in Tools
      BY DEF Tools
    <3> QED BY <1>1, <2>1, <3>1, <3>2, RunsAdded DEF Working
  <2>8. CASE ExecuteMemory(w)
    <3>1. PICK tool \in {"remember", "forget"} :
            /\ Executes(w, tool)
            /\ turn'[w].at \in {tool, "record"} /\ turn'[w].seen = turn[w].seen /\ turn'[w].calls = turn[w].calls
      BY <1>2, <2>8 DEF ExecuteMemory, SetAndFlush, Goto, Answered, TurnRecord
    <3>2. tool \in Tools
      BY DEF Tools
    <3> QED BY <1>1, <2>1, <3>1, <3>2, RunsAdded DEF Working
  <2>9. CASE TaskReturns(w) \/ ToolTimesOut(w)
    <3>1. /\ runs' = runs /\ turn[w].at \in {"store", "remember", "forget"} /\ turn'[w].at = "record"
          /\ turn'[w].seen = turn[w].seen /\ turn'[w].calls = turn[w].calls /\ turn'[w].wants = turn[w].wants
      <4>1. CASE TaskReturns(w)
        BY <1>2, <4>1 DEF TaskReturns, Answered, At, TurnRecord
      <4>2. CASE ToolTimesOut(w)
        BY <1>2, <4>2 DEF ToolTimesOut, Answered, At, TurnRecord
      <4> QED BY <2>9, <4>1, <4>2
    <3> QED BY <1>1, <2>1, <3>1, RunsKept DEF Known, InLoop, Working
  <2>10. CASE CommitFlush(w)
    <3>1. runs' = runs /\ turn[w].at \in {"remember", "forget"}
      BY <2>10 DEF CommitFlush
    <3>2. CASE "command" \in turn[w].wants
      <4>1. turn'[w].at = "done"
        BY <1>2, <2>10, <3>2 DEF CommitFlush, TurnRecord
      <4> QED BY <1>1, <2>1, <3>1, <4>1, RunsKept DEF InLoop, Working
    <3>3. CASE "command" \notin turn[w].wants
      <4>1. /\ turn'[w].at = "record" /\ turn'[w].seen = turn[w].seen
            /\ turn'[w].calls = turn[w].calls /\ turn'[w].wants = turn[w].wants
        BY <1>2, <2>10, <3>3 DEF CommitFlush, Answered, TurnRecord
      <4> QED BY <1>1, <2>1, <3>1, <4>1, RunsKept DEF Known, InLoop, Working
    <3> QED BY <3>2, <3>3
  <2>11. CASE RecordAction(w)
    <3>1. /\ runs' = runs /\ turn[w].at = "record" /\ turn'[w].at = "note"
          /\ turn'[w].seen = Remembered(w) /\ turn'[w].wants = turn[w].wants
      BY <1>2, <2>11 DEF RecordAction, At, TurnRecord
    <3>2. turn[w].result = "duplicate" => Head(turn[w].calls) \in DOMAIN turn[w].seen
      BY <1>2, <3>1 DEF TurnOf
    <3>3. /\ DOMAIN turn[w].seen \subseteq DOMAIN Remembered(w)
          /\ Head(turn[w].calls) \in DOMAIN Remembered(w)
      BY <3>2 DEF Remembered, Tool
    <3> QED BY <1>1, <2>1, <3>1, <3>3, RunsKept DEF Known, InLoop, Working
  <2>12. CASE NoteTask(w)
    <3>1. /\ runs' = runs /\ turn[w].at = "note" /\ turn'[w].seen = turn[w].seen
      BY <1>2, <2>12 DEF NoteTask, At, TurnRecord
    <3>2. InLoop(w)
      BY <1>2, <3>1 DEF InLoop, TurnOf, Working
    <3> QED BY <1>1, <2>1, <3>1, <3>2, RunsKept DEF Known, Working
  <2>13. CASE WriteFails(w)
    <3>1. runs' = runs /\ turn[w].at \in {"remember", "forget", "storing", "committing"}
      BY <2>13 DEF WriteFails
    <3>2. \/ turn'[w].at = "done"
          \/ /\ turn[w].at \in {"remember", "forget"} /\ turn'[w].at = "record" /\ turn'[w].seen = turn[w].seen
             /\ turn'[w].calls = turn[w].calls /\ turn'[w].wants = turn[w].wants
      BY <1>2, <2>13 DEF WriteFails, Answered, TurnRecord
    <3>3. CASE turn'[w].at = "done"
      BY <1>1, <2>1, <3>1, <3>3, RunsKept DEF InLoop, Working
    <3>4. CASE turn'[w].at # "done"
      BY <1>1, <2>1, <3>1, <3>2, <3>4, RunsKept DEF Known, InLoop, Working
    <3> QED BY <3>3, <3>4
  <2> QED BY <1>4, <2>2, <2>3, <2>4, <2>5, <2>6, <2>7, <2>8, <2>9, <2>10, <2>11, <2>12, <2>13 DEF TurnStep
<1>5. CASE Beside \/ UNCHANGED vars
  <2>1. UNCHANGED <<turn, runs>>
    BY <1>5, BesideLeavesTurns DEF vars, chatVars
  <2> QED BY <1>1, <2>1 DEF RunsInv, OncePerTurn, InLoop, Known
<1>6. ASSUME NEW old \in BOOLEAN, Restart(old) PROVE RunsInv'
  <2>1. turn' = [w \in Caller |-> Free] /\ runs' = runs
    BY <1>6 DEF Restart
  <2>2. \A w \in Caller : turn'[w].at = "idle"
    BY <2>1 DEF Free
  <2> QED BY <1>1, <2>1, <2>2 DEF RunsInv, OncePerTurn, InLoop, Working
<1> QED BY <1>3, <1>4, <1>5, <1>6, StepCases

\* However the model repeats itself, a turn hands the same call to the executor at
\* most once, also when the first was denied its result by a timeout.
THEOREM CalledOnce == Spec => []OncePerTurn
<1>1. Init => RunsInv
  <2> SUFFICES ASSUME Init PROVE RunsInv
    OBVIOUS
  <2>1. runs = [w \in Caller |-> <<>>] /\ turn = [w \in Caller |-> Free]
    BY DEF Init, ChatInit
  <2>2. \A w \in Caller : turn[w].at = "idle" /\ DOMAIN runs[w] = {} /\ runs[w] \in Seq(Tools)
    BY <2>1 DEF Free
  <2> QED BY <2>1, <2>2, TranscriptStart DEF RunsInv, OncePerTurn, InLoop, Working
<1>2. RunsInv => OncePerTurn
  BY DEF RunsInv
<1> QED BY <1>1, <1>2, RunsStep, PTL DEF Spec

-----------------------------------------------------------------------------
(* The lifecycle row.                                                      *)

Losses == {"action", "row"}

\* A tally counts the first n results, knows whether one of them failed, and says so.
Counts(r, given, n) ==
    /\ r.actions = n
    /\ r.failed > 0 <=> \E i \in 1 .. n : given[i] = "failed"
    /\ n > 0 => r.status = IF r.failed > 0 THEN "failed" ELSE "completed"

\* The tally in memory counts every result, also one whose append raised; between the
\* append and the upsert the last result is still to count.  The row is the tally unless
\* its last write raised, the ledger the results unless an append did.
Agrees(w) ==
    /\ turn[w].at \notin {"idle", "note"} =>
          /\ Counts(turn[w].tally, results[w], Len(results[w]))
          /\ "row" \notin lost[w] /\ results[w] # <<>> => row[w] = turn[w].tally
    /\ turn[w].at = "note" =>
          /\ results[w] # <<>> /\ results[w][Len(results[w])] = turn[w].result
          /\ Counts(turn[w].tally, results[w], Len(results[w]) - 1)
    /\ turn[w].at # "idle" /\ turn[w].said = <<>> => results[w] = <<>>
    /\ "action" \notin lost[w] => ledger[w] = results[w]

AuditTyped ==
    /\ row \in [Caller -> Tally] /\ ledger \in [Caller -> Seq(Results)]
    /\ results \in [Caller -> Seq(Results)] /\ lost \in [Caller -> SUBSET Losses]

RowInv == TranscriptInv /\ AuditTyped /\ \A w \in Caller : Agrees(w)

\* A step of one handler changes its own row, ledger, results and losses only.
LEMMA RowChanges ==
    ASSUME RowInv, TranscriptInv', NEW w \in Caller, turn' = [turn EXCEPT ![w] = turn'[w]],
           NEW r \in Tally, row' = [row EXCEPT ![w] = r],
           NEW g \in Seq(Results), ledger' = [ledger EXCEPT ![w] = g],
           NEW given \in Seq(Results), results' = [results EXCEPT ![w] = given],
           NEW l \in SUBSET Losses, lost' = [lost EXCEPT ![w] = l],
           Agrees(w)'
    PROVE  RowInv'
<1>1. AuditTyped'
  BY DEF RowInv, AuditTyped
<1>2. ASSUME NEW v \in Caller \ {w} PROVE Agrees(v)'
  <2>1. turn'[v] = turn[v] /\ row'[v] = row[v] /\ ledger'[v] = ledger[v] /\ results'[v] = results[v] /\ lost'[v] = lost[v]
    BY DEF RowInv, AuditTyped, TranscriptInv, TurnTyped
  <2>2. Agrees(v)
    BY DEF RowInv
  <2> QED BY <2>1, <2>2 DEF Agrees
<1>3. \A v \in Caller : Agrees(v)'
  BY <1>2
<1>4. (\A v \in Caller : Agrees(v))'
  BY <1>3 DEF Agrees
<1> QED BY <1>1, <1>4 DEF RowInv

\* A handler that leaves them and its tally alone still agrees with them.
LEMMA RowKept ==
    ASSUME RowInv, TranscriptInv', NEW w \in Caller, turn' = [turn EXCEPT ![w] = turn'[w]],
           UNCHANGED audit, turn[w].at \notin {"idle", "note"}, turn'[w].at # "note",
           turn'[w].tally = turn[w].tally, turn'[w].said = <<>> => turn[w].said = <<>>
    PROVE  RowInv'
<1>1. UNCHANGED <<row, ledger, results, lost>>
  BY DEF audit
<1>2. /\ row[w] \in Tally /\ ledger[w] \in Seq(Results) /\ results[w] \in Seq(Results) /\ lost[w] \in SUBSET Losses
      /\ row' = [row EXCEPT ![w] = row[w]] /\ ledger' = [ledger EXCEPT ![w] = ledger[w]]
      /\ results' = [results EXCEPT ![w] = results[w]] /\ lost' = [lost EXCEPT ![w] = lost[w]]
  BY <1>1 DEF RowInv, AuditTyped
<1>3. Agrees(w)
  BY DEF RowInv
<1>4. Agrees(w)'
  BY <1>1, <1>3 DEF Agrees
<1> QED BY <1>2, <1>4, RowChanges

LEMMA RowStep == RowInv /\ [Next]_vars => RowInv'
<1> SUFFICES ASSUME RowInv, [Next]_vars PROVE RowInv'
  OBVIOUS
<1>1. TranscriptInv /\ TranscriptInv' /\ TurnTyped /\ turn \in [Caller -> TurnOf]
      /\ \A w \in Caller : turn[w] \in TurnOf /\ turn[w] \in TurnRecord
  BY TranscriptStep DEF RowInv, TranscriptInv, TurnTyped, TurnOf
<1>2. NoRow \in Tally /\ Counts(NoRow, <<>>, 0) /\ <<>> \in Seq(Results) /\ Len(<<>>) = 0
  BY DEF NoRow, Tally, Counts
<1>3. ASSUME NEW w \in Caller, Speaks(w) PROVE RowInv'
  <2>1. /\ turn' = [turn EXCEPT ![w] = turn'[w]] /\ turn'[w] \in TurnOf
        /\ turn'[w].at \in {"asking", "command", "done"} \/ "command" \in turn'[w].wants
        /\ turn'[w].tally = NoRow /\ NewTurn(w)
    BY <1>1, <1>3, SpeaksTyped
  <2>2. turn'[w].at # "note"
    BY <2>1 DEF TurnOf
  <2>3. ledger'[w] = <<>> /\ results'[w] = <<>>
    BY <2>1 DEF NewTurn, RowInv, AuditTyped
  <2>4. Agrees(w)'
    BY <1>2, <2>1, <2>2, <2>3 DEF Agrees
  <2>5. /\ row' = [row EXCEPT ![w] = NoRow] /\ ledger' = [ledger EXCEPT ![w] = <<>>]
        /\ results' = [results EXCEPT ![w] = <<>>] /\ lost' = [lost EXCEPT ![w] = {}] /\ {} \in SUBSET Losses
    BY <2>1 DEF NewTurn
  <2> QED BY <1>1, <1>2, <2>1, <2>4, <2>5, RowChanges
<1>4. ASSUME NEW w \in Caller, TurnStep(w) PROVE RowInv'
  <2>1. turn' = [turn EXCEPT ![w] = turn'[w]] /\ turn'[w] \in TurnOf /\ turn[w] \in TurnRecord
    BY <1>1, <1>4, TurnStepTyped
  <2>2. /\ row[w] \in Tally /\ ledger[w] \in Seq(Results) /\ results[w] \in Seq(Results)
        /\ lost[w] \in SUBSET Losses /\ Len(results[w]) \in Nat
        /\ turn[w].result \in Results /\ turn[w].tally \in Tally
    BY <1>1 DEF RowInv, AuditTyped, TurnRecord
  <2>3. Agrees(w)
    BY DEF RowInv
  <2>4. ASSUME UNCHANGED audit, turn[w].at \notin {"idle", "note"}, NEW result,
               turn' = [turn EXCEPT ![w] = Answered(w, result)]
        PROVE  RowInv'
    <3>1. turn'[w].at = "record" /\ turn'[w].tally = turn[w].tally /\ turn'[w].said = turn[w].said
      BY <1>1, <2>1, <2>4 DEF Answered, TurnRecord
    <3> QED BY <1>1, <2>1, <2>4, <3>1, RowKept
  <2>5. ASSUME UNCHANGED audit, turn[w].at \notin {"idle", "note"}, NEW where, where # "note", Goto(w, where)
        PROVE  RowInv'
    <3>1. turn'[w].at = where /\ turn'[w].tally = turn[w].tally /\ turn'[w].said = turn[w].said
      BY <1>1, <2>1, <2>5 DEF Goto, TurnRecord
    <3> QED BY <1>1, <2>1, <2>5, <3>1, RowKept
  <2>6. CASE CommandReturns(w) \/ AnswerFails(w) \/ AnswerText(w) \/ FollowUp(w) \/ AppendMany(w) \/ CommitChat(w)
    <3>1. /\ UNCHANGED audit /\ turn[w].at \in {"command", "asking", "next", "storing", "committing"}
          /\ \E where \in {"done", "storing", "asking", "committing"} : Goto(w, where)
      BY <2>6 DEF CommandReturns, AnswerFails, AnswerText, FollowUp, AppendMany, CommitChat, At
    <3> QED BY <2>5, <3>1
  <2>7. CASE SkipBroken(w)
    <3>1. /\ UNCHANGED audit /\ turn[w].at = "next" /\ turn'[w].at = "next" /\ turn'[w].tally = turn[w].tally
          /\ turn'[w].said = Append(turn[w].said, "tool")
      BY <1>1, <2>1, <2>7 DEF SkipBroken, Ready, At, TurnRecord
    <3>2. turn'[w].said # <<>>
      BY <2>1, <3>1 DEF TurnRecord
    <3> QED BY <1>1, <2>1, <3>1, <3>2, RowKept
  <2>8. CASE AnswerWithout(w) \/ ExecuteSimple(w) \/ TaskReturns(w) \/ ToolTimesOut(w)
    <3>1. /\ UNCHANGED audit /\ turn[w].at \in {"next", "store", "remember", "forget"}
          /\ \E result : turn' = [turn EXCEPT ![w] = Answered(w, result)]
      BY <2>8 DEF AnswerWithout, ExecuteSimple, Executes, TaskReturns, ToolTimesOut, Ready, At
    <3> QED BY <2>4, <3>1
  <2>9. CASE ExecuteMemory(w)
    <3>1. PICK tool \in {"remember", "forget"} : SetAndFlush(w, tool)
      BY <2>9 DEF ExecuteMemory
    <3>2. /\ UNCHANGED audit /\ turn[w].at = "next"
          /\ Goto(w, tool) \/ turn' = [turn EXCEPT ![w] = Answered(w, "failed")]
      BY <3>1 DEF SetAndFlush, Executes, Ready, At
    <3> QED BY <2>4, <2>5, <3>2
  <2>10. CASE \E tool \in {"update", "steps"} : \E order \in Orders(tool) : ExecuteTask(w, tool, order[1], order[2])
    <3>1. UNCHANGED audit /\ Goto(w, "store") /\ turn[w].at = "next"
      BY <2>10 DEF ExecuteTask, Executes, Ready, At
    <3> QED BY <2>5, <3>1
  <2>11. CASE CommitFlush(w) \/ WriteFails(w)
    <3>1. /\ UNCHANGED audit /\ turn[w].at \in {"remember", "forget", "storing", "committing"}
          /\ (\E result : turn' = [turn EXCEPT ![w] = Answered(w, result)]) \/ Goto(w, "done")
      <4>1. CASE CommitFlush(w)
        BY <4>1 DEF CommitFlush, Goto
      <4>2. CASE WriteFails(w)
        BY <4>2 DEF WriteFails, Goto
      <4> QED BY <2>11, <4>1, <4>2
    <3> QED BY <2>4, <2>5, <3>1
  <2>12. ASSUME NEW calls \in Answers, AnswerCalls(w, calls) PROVE RowInv'
    <3>1. /\ UNCHANGED <<ledger, results>> /\ turn[w].at = "asking" /\ turn'[w].at = "next"
          /\ turn'[w].tally = turn[w].tally /\ turn'[w].said = Append(turn[w].said, "call")
      BY <1>1, <2>1, <2>12 DEF AnswerCalls, At, TurnRecord
    <3>2. turn'[w].said # <<>>
      <4>1. turn[w].said \in Seq(Message) /\ "call" \in Message
        BY <2>1 DEF TurnRecord, Message
      <4>2. Append(turn[w].said, "call") # <<>>
        BY <4>1
      <4> QED BY <3>1, <4>2
    <3>3. CASE turn[w].said # <<>>
      <4>1. UNCHANGED audit
        BY <2>12, <3>1, <3>3 DEF AnswerCalls, audit
      <4> QED BY <1>1, <2>1, <3>1, <3>3, <4>1, RowKept
    <3>4. CASE turn[w].said = <<>>
      <4>1. Upsert(w, [NoRow EXCEPT !.status = "running"])
        BY <2>12, <3>4 DEF AnswerCalls
      <4>2. PICK r \in Tally, l \in SUBSET Losses :
              /\ row' = [row EXCEPT ![w] = r] /\ lost' = [lost EXCEPT ![w] = l]
              /\ "action" \notin l => "action" \notin lost[w]
        <5>1. [NoRow EXCEPT !.status = "running"] \in Tally
          BY DEF NoRow, Tally
        <5>2. row = [row EXCEPT ![w] = row[w]]
          BY DEF RowInv, AuditTyped
        <5>3. lost[w] \cup {"row"} \in SUBSET Losses /\ lost[w] \ {"row"} \in SUBSET Losses
          BY <2>2 DEF Losses
        <5> QED BY <2>2, <4>1, <5>1, <5>2, <5>3 DEF Upsert
      <4>3. results'[w] = <<>> /\ results[w] = <<>> /\ ledger'[w] = ledger[w] /\ lost'[w] = l
        BY <2>3, <3>1, <3>4, <4>2 DEF Agrees, RowInv, AuditTyped
      <4>4. Counts(turn[w].tally, <<>>, 0)
        BY <1>2, <2>3, <3>1, <4>3 DEF Agrees
      <4>5. Agrees(w)'
        BY <1>2, <2>3, <3>1, <4>2, <4>3, <4>4 DEF Agrees
      <4>6. ledger' = [ledger EXCEPT ![w] = ledger[w]] /\ results' = [results EXCEPT ![w] = results[w]]
        BY <3>1 DEF RowInv, AuditTyped
      <4> QED BY <1>1, <2>1, <2>2, <4>2, <4>5, <4>6, RowChanges
    <3> QED BY <3>3, <3>4
  <2>13. CASE RecordAction(w)
    <3> DEFINE more == Append(results[w], turn[w].result)
    <3>1. /\ row' = row /\ turn[w].at = "record" /\ turn'[w].at = "note" /\ turn'[w].result = turn[w].result
          /\ turn'[w].tally = turn[w].tally /\ turn'[w].said = turn[w].said
          /\ results' = [results EXCEPT ![w] = more]
      BY <1>1, <2>1, <2>13 DEF RecordAction, At, TurnRecord
    <3>2. /\ more \in Seq(Results) /\ Len(more) = Len(results[w]) + 1 /\ more[Len(more)] = turn[w].result
          /\ \A i \in 1 .. Len(results[w]) : more[i] = results[w][i]
      BY <2>2
    <3>3. results'[w] = more /\ row' = [row EXCEPT ![w] = row[w]]
      BY <3>1 DEF RowInv, AuditTyped
    <3>4. PICK g \in Seq(Results), l \in SUBSET Losses :
            /\ ledger' = [ledger EXCEPT ![w] = g] /\ lost' = [lost EXCEPT ![w] = l]
            /\ "action" \notin l => g = more
      <4>1. CASE ledger' = [ledger EXCEPT ![w] = Append(@, turn[w].result)] /\ lost' = lost
        <5>1. Append(ledger[w], turn[w].result) \in Seq(Results) /\ lost' = [lost EXCEPT ![w] = lost[w]]
          BY <2>2, <4>1 DEF RowInv, AuditTyped
        <5>2. "action" \notin lost[w] => Append(ledger[w], turn[w].result) = more
          BY <2>3 DEF Agrees
        <5> QED BY <2>2, <4>1, <5>1, <5>2
      <4>2. CASE ledger' = ledger /\ lost' = [lost EXCEPT ![w] = @ \cup {"action"}]
        <5>1. ledger' = [ledger EXCEPT ![w] = ledger[w]] /\ lost[w] \cup {"action"} \in SUBSET Losses
          BY <2>2, <4>2 DEF RowInv, AuditTyped, Losses
        <5> QED BY <2>2, <4>2, <5>1
      <4> QED BY <2>13, <4>1, <4>2 DEF RecordAction
    <3>5. lost'[w] = l /\ ledger'[w] = g
      BY <3>4 DEF RowInv, AuditTyped
    <3>6. Counts(turn[w].tally, results[w], Len(results[w]))
      BY <2>3, <3>1 DEF Agrees
    <3>7. Len(more) - 1 = Len(results[w]) /\ more # <<>>
      <4>1. Len(more) = Len(results[w]) + 1
        BY <3>2
      <4> HIDE DEF more
      <4> QED BY <1>2, <2>2, <4>1
    <3>8. turn[w].said # <<>>
      BY <1>1, <3>1 DEF TurnOf, Working
    <3> HIDE DEF more
    <3>9. Counts(turn[w].tally, more, Len(more) - 1)
      BY <3>2, <3>6, <3>7 DEF Counts
    <3>10. more[Len(more)] = turn[w].result
      BY <3>2
    <3>11. Agrees(w)'
      BY <3>1, <3>3, <3>4, <3>5, <3>7, <3>8, <3>9, <3>10 DEF Agrees
    <3>12. more \in Seq(Results)
      BY <3>2
    <3> QED BY <1>1, <2>1, <2>2, <3>1, <3>3, <3>4, <3>11, <3>12, RowChanges
  <2>14. CASE NoteTask(w)
    <3> DEFINE n == Len(results[w])
               t == turn[w].tally
               u == Noted(t, turn[w].result)
    <3>1. /\ UNCHANGED <<ledger, results>> /\ turn[w].at = "note" /\ turn'[w].at = "next"
          /\ turn'[w].tally = u /\ turn'[w].said = Append(turn[w].said, "tool") /\ Upsert(w, u)
      BY <1>1, <2>1, <2>14 DEF NoteTask, At, TurnRecord
    <3>2. u \in Tally
      BY <2>2 DEF Noted, Tally
    <3>3. turn'[w].said # <<>>
      BY <2>1, <3>1 DEF TurnRecord
    <3>4. Counts(t, results[w], n - 1) /\ results[w] # <<>> /\ results[w][n] = turn[w].result
      BY <2>3, <3>1 DEF Agrees
    <3>5. n > 0 /\ n \in Nat /\ \A i \in 1 .. n : i \in 1 .. n - 1 \/ i = n
      BY <2>2, <3>4
    <3>6. Counts(u, results[w], n)
      <4>1. /\ u.actions = t.actions + 1
            /\ u.failed = t.failed + (IF turn[w].result = "failed" THEN 1 ELSE 0)
            /\ u.status = IF u.failed > 0 THEN "failed" ELSE "completed"
        BY DEF Noted
      <4>2. t.failed \in Nat /\ t.actions \in Nat
        BY <2>2 DEF Tally
      <4>3. u.actions = n
        BY <3>4, <3>5, <4>1, <4>2 DEF Counts
      <4>4. u.failed > 0 <=> t.failed > 0 \/ turn[w].result = "failed"
        BY <4>1, <4>2
      <4>5. (\E i \in 1 .. n : results[w][i] = "failed")
              <=> (\E i \in 1 .. n - 1 : results[w][i] = "failed") \/ results[w][n] = "failed"
        BY <3>5
      <4> QED BY <3>4, <4>1, <4>3, <4>4, <4>5 DEF Counts
    <3> HIDE DEF u
    <3>7. PICK r \in Tally, l \in SUBSET Losses :
            /\ row' = [row EXCEPT ![w] = r] /\ lost' = [lost EXCEPT ![w] = l]
            /\ "action" \notin l => "action" \notin lost[w]
            /\ "row" \notin l => r = u
      <4>1. row = [row EXCEPT ![w] = row[w]]
        BY DEF RowInv, AuditTyped
      <4>2. lost[w] \cup {"row"} \in SUBSET Losses /\ lost[w] \ {"row"} \in SUBSET Losses
        BY <2>2 DEF Losses
      <4> QED BY <2>2, <3>1, <3>2, <4>1, <4>2 DEF Upsert
    <3>8. /\ row'[w] = r /\ lost'[w] = l /\ results'[w] = results[w] /\ ledger'[w] = ledger[w]
          /\ ledger' = [ledger EXCEPT ![w] = ledger[w]] /\ results' = [results EXCEPT ![w] = results[w]]
      BY <3>1, <3>7 DEF RowInv, AuditTyped
    <3>9. Agrees(w)'
      BY <2>3, <3>1, <3>3, <3>6, <3>7, <3>8 DEF Agrees
    <3> QED BY <1>1, <2>1, <2>2, <3>7, <3>8, <3>9, RowChanges
  <2> QED BY <1>4, <2>6, <2>7, <2>8, <2>9, <2>10, <2>11, <2>12, <2>13, <2>14 DEF TurnStep
<1>5. CASE Beside \/ UNCHANGED vars
  <2>1. UNCHANGED turn /\ UNCHANGED <<row, ledger, results, lost>>
    BY <1>5, BesideLeavesTurns DEF vars, chatVars, audit
  <2> QED BY <1>1, <2>1 DEF RowInv, AuditTyped, Agrees
<1>6. ASSUME NEW old \in BOOLEAN, Restart(old) PROVE RowInv'
  <2>1. turn' = [w \in Caller |-> Free] /\ UNCHANGED <<ledger, results, lost>>
    BY <1>6 DEF Restart
  <2>2. \A w \in Caller : turn'[w].at = "idle"
    BY <2>1 DEF Free
  <2>3. row' \in [Caller -> Tally]
    <3>1. ASSUME NEW w \in Caller
          PROVE  /\ row[w] \in Tally
                 /\ [row[w] EXCEPT !.status = "failed",
                                   !.failed = IF @ = 0 /\ row[w].actions > 0 THEN 1 ELSE @] \in Tally
      BY DEF RowInv, AuditTyped, Tally
    <3> QED BY <1>6, <3>1 DEF Restart
  <2> QED BY <1>1, <2>1, <2>2, <2>3 DEF RowInv, AuditTyped, Agrees
<1> QED BY <1>3, <1>4, <1>5, <1>6, StepCases

\* The lifecycle row of a settled turn counts every call of the turn, and is failed
\* exactly when one of them failed, whichever writes raised and were swallowed before
\* the last one landed; the ledger holds the results of a turn none of whose appends
\* raised.
THEOREM RowSettles == Spec => []TaskRowSettled
<1>1. Init => RowInv
  <2> SUFFICES ASSUME Init PROVE RowInv
    OBVIOUS
  <2>1. /\ row = [w \in Caller |-> NoRow] /\ turn = [w \in Caller |-> Free]
        /\ ledger = [w \in Caller |-> <<>>] /\ results = [w \in Caller |-> <<>>] /\ lost = [w \in Caller |-> {}]
    BY DEF Init, ChatInit
  <2>2. NoRow \in Tally /\ <<>> \in Seq(Results) /\ {} \in SUBSET Losses
        /\ \A w \in Caller : turn[w].at = "idle" /\ ledger[w] = results[w]
    BY <2>1 DEF Free, NoRow, Tally
  <2>3. AuditTyped
    BY <2>1, <2>2 DEF AuditTyped
  <2> QED BY <2>2, <2>3, TranscriptStart DEF RowInv, Agrees
<1>2. RowInv => TaskRowSettled
  <2> SUFFICES ASSUME RowInv, NEW w \in Caller, At(w, "done"), results[w] # <<>>
               PROVE  /\ "row" \notin lost[w] =>
                            /\ row[w].actions = Len(results[w])
                            /\ row[w].status = IF \E i \in DOMAIN results[w] : results[w][i] = "failed"
                                               THEN "failed" ELSE "completed"
                      /\ "action" \notin lost[w] => ledger[w] = results[w]
    BY DEF TaskRowSettled
  <2>1. /\ Counts(turn[w].tally, results[w], Len(results[w]))
        /\ "row" \notin lost[w] => row[w] = turn[w].tally
        /\ "action" \notin lost[w] => ledger[w] = results[w]
    BY DEF RowInv, Agrees, At
  <2>2. Len(results[w]) > 0 /\ DOMAIN results[w] = 1 .. Len(results[w])
    BY DEF RowInv, AuditTyped
  <2> QED BY <2>1, <2>2 DEF Counts
<1> QED BY <1>1, <1>2, RowStep, PTL DEF Spec
=================================================================================
