------------------------------- MODULE TaskStore -------------------------------
(***************************************************************************)
(* The durable task list (memory/tasks.py) as SQLite sees it: one          *)
(* connection shared by everything inside the agent, one more for every    *)
(* run of the command line.  The first statement of a connection that      *)
(* changes a row opens its transaction and takes the write lock; a commit  *)
(* ends it, whichever call awaited it.  Every await between two statements *)
(* is a place where another call runs, the caller is cancelled or the      *)
(* agent dies.                                                             *)
(***************************************************************************)
EXTENDS Naturals, Sequences, FiniteSets

CONSTANTS Task,         \* task ids
          Caller,       \* those that call the store inside the agent
          Cli,          \* the command line, a process of its own
          Plan          \* the step lists callers ask for: sequences of step statuses

ASSUME TaskStoreAssumption == /\ Cli \notin Caller \cup {"none", "agent"}
                              /\ Plan \subseteq Seq({"pending", "in_progress", "completed"})

VARIABLES disk,         \* the committed rows: each task's status, close time and steps
          draft,        \* the rows as the open transaction sees them
          writer,       \* the connection that holds the write lock
          call,         \* per caller: its operation and the statements it still has to run
          asked,        \* history: the step lists whole requests would leave, per task
          torn          \* history: a call left, or met, a half-done transaction

storeVars == <<disk, draft, writer, call, asked, torn>>

Closing == {"done", "cancelled"}
StatusOf == {"open", "in_progress"} \cup Closing
NoTask == [status |-> "none", closed |-> FALSE, steps |-> <<>>]

(* Each store operation as its statements; the commit is the last.         *)
ReplaceInTwoCommits == <<"get", "delete", "commit", "insert", "commit">>  \* Faulty variant: commits between delete and insert
Create == <<"insert_task", "commit">>
Update == <<"get", "write", "commit">>
ReplaceSteps == <<"get", "delete", "insert", "commit">>
Idle == [op |-> "none", task |-> CHOOSE k \in Task : TRUE, to |-> "open",
         row |-> NoTask, plan |-> <<>>, todo |-> <<>>, outcome |-> "ok"]

Members == Caller \cup {Cli}
Conn(w) == IF w = Cli THEN Cli ELSE "agent"
Rows(w) == IF writer = Conn(w) THEN draft ELSE disk
Upcoming(w, statement) == call[w].todo # <<>> /\ Head(call[w].todo) = statement
Popped(w) == [call[w] EXCEPT !.todo = Tail(@)]
Return(w, outcome) == call' = [call EXCEPT ![w] = [Idle EXCEPT !.outcome = outcome]]

(* A DML statement waits for the write lock and begins the transaction.    *)
Write(w, rows) ==
    /\ writer \in {"none", Conn(w)}
    /\ writer' = Conn(w)
    /\ draft' = rows

RollBack == draft' = disk /\ writer' = "none"

(* A statement that finds its connection's transaction already under way.  *)
Meets(w) == writer = Conn(w) /\ \E v \in Members \ {w} : call[v].todo # <<>> /\ Conn(v) = Conn(w)
Left(w) == writer = Conn(w)

Stored == {NoTask} \cup {[status |-> "open", closed |-> FALSE, steps |-> plan] : plan \in Plan}

StoreInit ==
    /\ disk \in [Task -> Stored]
    /\ draft = disk
    /\ writer = "none"
    /\ call = [w \in Members |-> Idle]
    /\ asked = [k \in Task |-> {disk[k].steps}]
    /\ torn = FALSE

-----------------------------------------------------------------------------
(* The operations of the chat commands, the tools and the command line.    *)
FirstStatements(op) ==
    CASE op = "create" -> Create
      [] op = "update" -> Update
      [] op = "steps" -> ReplaceSteps
      [] op \in {"start", "pause", "advance"} -> <<"get", "list">>

(* A new task gets an id nobody uses.                                      *)
Fresh(k) == disk[k] = NoTask /\ draft[k] = NoTask /\ \A v \in Members : call[v].op # "create"

Ask(w, op, k, to, plan) ==
    /\ call[w].todo = <<>>
    /\ op = "create" => Fresh(k)
    /\ call' = [call EXCEPT ![w] = [op |-> op, task |-> k, to |-> to, row |-> NoTask,
                                    plan |-> plan, todo |-> FirstStatements(op),
                                    outcome |-> "ok"]]
    /\ UNCHANGED <<disk, draft, writer, asked, torn>>

InsertTask(w) ==
    LET k == call[w].task IN
    /\ Upcoming(w, "insert_task")
    /\ Write(w, [Rows(w) EXCEPT ![k] = [status |-> call[w].to,
                                        closed |-> call[w].to \in Closing, steps |-> <<>>]])
    /\ call' = [call EXCEPT ![w] = Popped(w)]
    /\ torn' = (torn \/ Meets(w))
    /\ UNCHANGED <<disk, asked>>

(* A missing task, or a step list with two steps in progress, ends the     *)
(* call before anything is written.                                        *)
Busy(steps) == {i \in DOMAIN steps : steps[i] = "in_progress"}
Rejected(w) == Head(Tail(call[w].todo)) = "delete" /\ Cardinality(Busy(call[w].plan)) > 1

GetTask(w) ==
    /\ Upcoming(w, "get")
    /\ LET row == Rows(w)[call[w].task] IN
       IF row = NoTask \/ Rejected(w)
       THEN Return(w, IF row = NoTask THEN "ok" ELSE "failed")
       ELSE call' = [call EXCEPT ![w] = [Popped(w) EXCEPT !.row = row]]
    /\ UNCHANGED <<disk, draft, writer, asked, torn>>

(* The step an advance completes, and the pending one after it; 0 is none. *)
First(indices) == IF indices = {} THEN 0 ELSE CHOOSE i \in indices : \A j \in indices : i <= j
Pending(steps) == {i \in DOMAIN steps : steps[i] = "pending"}
Current(steps) == IF Busy(steps) # {} THEN First(Busy(steps)) ELSE First(Pending(steps))
After(steps, i) == First({j \in Pending(steps) : j > i})

Started(steps) == [steps EXCEPT ![Current(steps)] = "in_progress"]
Paused(steps) == [i \in DOMAIN steps |-> IF steps[i] = "in_progress" THEN "pending" ELSE steps[i]]
Advanced(steps) ==
    [i \in DOMAIN steps |-> CASE i = Current(steps) -> "completed"
                              [] i = After(steps, Current(steps)) -> "in_progress"
                              [] OTHER -> steps[i]]

(* What remains to be done once the steps are read: a new list of steps,   *)
(* a new status of the task, both or neither.                              *)
Following(op, steps) ==
    CASE op = "start" /\ Busy(steps) = {} /\ Pending(steps) # {} -> [plan |-> Started(steps), to |-> "in_progress"]
      [] op = "start" /\ (Busy(steps) # {} \/ Pending(steps) = {}) -> [plan |-> steps, to |-> "in_progress"]
      [] op = "pause" -> [plan |-> Paused(steps), to |-> "open"]
      [] op = "advance" /\ Current(steps) = 0 -> [plan |-> steps, to |-> "none"]
      [] op = "advance" /\ Current(steps) # 0 ->
             [plan |-> Advanced(steps), to |-> IF After(steps, Current(steps)) = 0 THEN "done" ELSE "none"]

Statements(steps, following) ==
    (IF following.plan # steps THEN ReplaceSteps ELSE <<>>)
      \o (IF following.to # "none" THEN Update ELSE <<>>)

ListSteps(w) ==
    LET steps == Rows(w)[call[w].task].steps
        following == Following(call[w].op, steps)
        todo == Statements(steps, following)
    IN
    /\ Upcoming(w, "list")
    /\ IF todo = <<>>
       THEN Return(w, "ok")
       ELSE call' = [call EXCEPT ![w] = [Popped(w) EXCEPT !.plan = following.plan,
                                                          !.to = following.to, !.todo = todo]]
    /\ UNCHANGED <<disk, draft, writer, asked, torn>>

(* An update writes back the whole row it read, with what was asked for    *)
(* changed: a new title keeps the old status.                              *)
Updated(row, to) ==
    IF to = "keep" THEN row
    ELSE [row EXCEPT !.status = to, !.closed = to \in Closing]

WriteTask(w) ==
    LET k == call[w].task
        row == Updated(call[w].row, call[w].to)
    IN
    /\ Upcoming(w, "write")
    /\ Write(w, [Rows(w) EXCEPT ![k].status = row.status, ![k].closed = row.closed])
    /\ call' = [call EXCEPT ![w] = Popped(w)]
    /\ torn' = (torn \/ Meets(w))
    /\ UNCHANGED <<disk, asked>>

DeleteSteps(w) ==
    LET k == call[w].task IN
    /\ Upcoming(w, "delete")
    /\ Write(w, [Rows(w) EXCEPT ![k].steps = <<>>])
    /\ asked' = [asked EXCEPT ![k] = @ \cup {call[w].plan}]
    /\ call' = [call EXCEPT ![w] = Popped(w)]
    /\ torn' = (torn \/ Meets(w))
    /\ UNCHANGED disk

InsertSteps(w) ==
    LET k == call[w].task IN
    /\ Upcoming(w, "insert")
    /\ Write(w, [Rows(w) EXCEPT ![k].steps = @ \o call[w].plan])
    /\ call' = [call EXCEPT ![w] = Popped(w)]
    /\ torn' = (torn \/ Meets(w))
    /\ UNCHANGED <<disk, asked>>

(* An id the steps carry twice violates the primary key: the exception     *)
(* ends the call, the deletes before it stay in the open transaction.      *)
InsertFails(w) ==
    /\ Upcoming(w, "insert")
    /\ call[w].op = "steps"
    /\ call[w].plan # <<>>
    /\ torn' = TRUE
    /\ Return(w, "failed")
    /\ UNCHANGED <<disk, draft, writer, asked>>

Commit(w) ==
    /\ Upcoming(w, "commit")
    /\ disk' = Rows(w)
    /\ draft' = Rows(w)
    /\ writer' = IF writer = Conn(w) THEN "none" ELSE writer
    /\ call' = [call EXCEPT ![w] = IF Tail(call[w].todo) = <<>> THEN Idle ELSE Popped(w)]
    /\ UNCHANGED <<asked, torn>>

(* The other connection holds the lock for five seconds: the statement     *)
(* fails with "database is locked".                                        *)
WaitsForLock(w) == w \notin Members /\ UNCHANGED storeVars  \* Faulty variant: no busy timeout
LockTimesOut(w) ==
    /\ \E s \in {"insert_task", "write", "delete", "insert"} : Upcoming(w, s)
    /\ writer \notin {"none", Conn(w)}
    /\ Return(w, "failed")
    /\ UNCHANGED <<disk, draft, writer, asked, torn>>

(* A tool's timeout cancels the call where it awaits.                      *)
Cancel(w) ==
    /\ call[w].todo # <<>>
    /\ Return(w, "failed")
    /\ torn' = (torn \/ Left(w))
    /\ UNCHANGED <<disk, draft, writer, asked>>

(* A killed process takes its transaction with it.                         *)
StoreCrash ==
    /\ call' = [w \in Members |-> IF w = Cli THEN call[w] ELSE Idle]
    /\ IF writer = "agent" THEN RollBack ELSE UNCHANGED <<draft, writer>>
    /\ UNCHANGED <<disk, asked, torn>>

Statement(w) ==
    \/ InsertTask(w) \/ GetTask(w) \/ ListSteps(w) \/ WriteTask(w)
    \/ DeleteSteps(w) \/ InsertSteps(w) \/ Commit(w)

StoreFault(w) == InsertFails(w) \/ LockTimesOut(w)

-----------------------------------------------------------------------------
(* Replacing the steps of a task is all or nothing (tasks.py:347-405): as  *)
(* long as no call was cancelled, failed or overlapped another inside the  *)
(* transaction, the committed steps are a list somebody asked for, also    *)
(* after a crash between the delete and the insert.                        *)
StepsAreWhole == torn \/ \A k \in Task : disk[k].steps \in asked[k]

(* What the rows and the lock are made of.                                 *)
StoreTypeOK ==
    /\ disk \in [Task -> [status : StatusOf \cup {"none"}, closed : BOOLEAN,
                          steps : Seq({"pending", "in_progress", "completed"})]]
    /\ writer \in {"none", "agent", Cli}
    /\ torn \in BOOLEAN
=============================================================================
