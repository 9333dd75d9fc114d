------------------------------- MODULE ChatTurn -------------------------------
(***************************************************************************)
(* From a message of the user to the settled reply: the chain of composers *)
(* (a task command, a memory command, the language model), the loop that   *)
(* executes the model's tool calls over the stores, the ledger it keeps of *)
(* them, and the chat transcript the next request is built from.  A second *)
(* message may arrive on a new connection while the first is composed.     *)
(***************************************************************************)
EXTENDS TaskStore, SequencesExt

CONSTANTS Kits,         \* instances: the tools, the task commands and the stored tasks in play,
                        \* the round limit, and the bounds: calls in an answer, messages, runs
                        \* of the command line, deaths of the agent, writes that raise
          TaskOfUser,   \* the task the user speaks of
          Window        \* memory_window: how many messages a request carries

ASSUME ChatTurnAssumption ==
    /\ Window \in Nat
    /\ TaskOfUser \in Task
    /\ \A kit \in Kits :
         /\ kit.tools \subseteq {"read", "raise", "remember", "forget", "update", "steps", "broken"}
         /\ kit.stored \subseteq Stored
         /\ kit.rounds \in Nat \ {0}
         /\ kit.commands \subseteq {"create", "update", "steps", "start", "pause", "advance"}

VARIABLES used,         \* the kit of this behaviour
          turn,         \* per composing handler: where it is and what it holds
          chat,         \* chat_messages: the committed transcript
          chatDraft,    \* the transcript with the rows not committed yet
          row,          \* tool_tasks: the lifecycle row of each handler's last turn
          ledger,       \* tool_actions: the statuses recorded under that row
          results,      \* history: the results of the turn's calls
          lost,         \* history: "action", an append to the ledger raised in this turn;
                        \* "row", the last upsert of the row did
          facts,        \* the profile's cache
          factsDraft,   \* what its connection has written
          factsDisk,    \* what it has committed
          told,         \* history: facts the user was told are remembered
          runs,         \* history: the calls a turn's executor was given
          left          \* bounds: turns, cli, crashes, faults

audit == <<row, ledger, results, lost>>
chatVars == <<used, turn, chat, chatDraft, audit, facts, factsDraft, factsDisk, told, runs, left>>
vars == <<storeVars, chatVars>>

(* A turn keeps the tally of its calls in memory (_ToolTaskAccumulator); the *)
(* row is its copy on disk.                                                *)
NoRow == [status |-> "none", actions |-> 0, failed |-> 0]
Free == [at |-> "idle", wants |-> {}, sent |-> <<>>, round |-> 0, calls |-> <<>>,
         said |-> <<>>, seen |-> <<>>, result |-> "ok", tally |-> NoRow]

At(w, where) == turn[w].at = where
Goto(w, where) == turn' = [turn EXCEPT ![w].at = where]
Profile == <<facts, factsDraft, factsDisk, told>>
Transcript == <<chat, chatDraft>>

(* sqlite raises: the database is locked for too long, or the disk is full. *)
Fault == left.faults > 0 /\ left' = [left EXCEPT !.faults = @ - 1]

ChatInit ==
    /\ used \in Kits
    /\ turn = [w \in Caller |-> Free]
    /\ chat = <<>> /\ chatDraft = <<>>
    /\ row = [w \in Caller |-> NoRow]
    /\ ledger = [w \in Caller |-> <<>>]
    /\ results = [w \in Caller |-> <<>>]
    /\ lost = [w \in Caller |-> {}]
    /\ facts = {} /\ factsDraft = {} /\ factsDisk = {} /\ told = {}
    /\ runs = [w \in Caller |-> <<>>]
    /\ left = [turns |-> used.turns, cli |-> used.cli, crashes |-> used.crashes, faults |-> used.faults]

Init == StoreInit /\ ChatInit /\ \A k \in Task : disk[k] \in used.stored

-----------------------------------------------------------------------------
(* What a request to the model carries of earlier turns: the last messages *)
(* of the transcript, and the new one.                                     *)
Recent(messages) == SubSeq(messages, IF Len(messages) > Window THEN Len(messages) - Window + 1 ELSE 1,
                           Len(messages))

(* An endpoint refuses a tool result whose call the request does not hold. *)
Readable(messages) ==
    \A i \in DOMAIN messages : messages[i] = "tool" => \E j \in 1 .. i - 1 : messages[j] = "call"

(* Every turn has a ledger and a row of its own, under a fresh task id.    *)
NewTurn(w) ==
    /\ turn[w].at \in {"idle", "done"}
    /\ row' = [row EXCEPT ![w] = NoRow]
    /\ ledger' = [ledger EXCEPT ![w] = <<>>]
    /\ results' = [results EXCEPT ![w] = <<>>]
    /\ lost' = [lost EXCEPT ![w] = {}]
    /\ runs' = [runs EXCEPT ![w] = <<>>]

(* The message arrives: the placeholder is shown and the composers look at *)
(* the text.  What no command composer takes goes to the model, with what  *)
(* the text explicitly asks for ("remember", "forget", "task").            *)
OnUserMessage(w, wants) ==
    /\ left.turns > 0
    /\ left' = [left EXCEPT !.turns = @ - 1]
    /\ turn' = [turn EXCEPT ![w] = [Free EXCEPT !.at = "asking", !.wants = wants,
                                                !.sent = Recent(chatDraft)]]
    /\ NewTurn(w)
    /\ UNCHANGED <<used, storeVars, Transcript, Profile>>

(* A task command goes straight to the store; its audit is one ledger row, *)
(* under no tool task.                                                     *)
OnTaskCommand(w, op, to, plan) ==
    /\ left.turns > 0
    /\ left' = [left EXCEPT !.turns = @ - 1]
    /\ turn' = [turn EXCEPT ![w] = [Free EXCEPT !.at = "command"]]
    /\ Ask(w, op, TaskOfUser, to, plan)
    /\ NewTurn(w)
    /\ UNCHANGED <<used, Transcript, Profile>>

CommandReturns(w) ==
    /\ At(w, "command")
    /\ call[w].todo = <<>>
    /\ Goto(w, "done")
    /\ UNCHANGED <<used, storeVars, Transcript, audit, Profile, runs, left>>

(* set and the statement of the flush run before the first await, the      *)
(* commit after it.  What is set differs from the cache (it is stamped with *)
(* the time), so set always marks the key dirty and flush finds it marked: *)
(* the key an overlapping flush clears after its commit is marked again by *)
(* whoever sets it next, and the dirty set is left out.                    *)
SetFacts(changed) ==
    /\ facts' = changed
    /\ factsDraft' = changed
    /\ told' = told \cap changed
    /\ UNCHANGED factsDisk

(* The statement raises: the cache has changed, the database has not.      *)
SetUnwritten(changed) ==
    /\ facts' = changed
    /\ told' = told \cap changed
    /\ UNCHANGED <<factsDraft, factsDisk>>

(* Every user tells a fact of his own; what is to be forgotten may match   *)
(* several.                                                                *)
Changed(w, tool) == IF tool = "remember" THEN {facts \cup {w}}
                    ELSE {facts \ some : some \in SUBSET facts \ {{}}}

(* "Remember that ..." and "forget ..." do not reach the model, whose loop *)
(* and ledger know nothing of them.                                        *)
OnMemoryCommand(w, tool) ==
    /\ left.turns > 0
    /\ \/ /\ \E changed \in Changed(w, tool) : SetFacts(changed)
          /\ turn' = [turn EXCEPT ![w] = [Free EXCEPT !.at = tool, !.wants = {"command"}]]
          /\ left' = [left EXCEPT !.turns = @ - 1]
       \/ /\ left.faults > 0
          /\ \E changed \in Changed(w, tool) : SetUnwritten(changed)
          /\ turn' = [turn EXCEPT ![w] = [Free EXCEPT !.at = "done"]]
          /\ left' = [left EXCEPT !.turns = @ - 1, !.faults = @ - 1]
       \/ /\ Changed(w, tool) = {}
          /\ turn' = [turn EXCEPT ![w] = [Free EXCEPT !.at = "done"]]
          /\ left' = [left EXCEPT !.turns = @ - 1]
          /\ UNCHANGED Profile
    /\ NewTurn(w)
    /\ UNCHANGED <<used, storeVars, Transcript>>

-----------------------------------------------------------------------------
(* The model answers.  Text ends the turn once it is stored (tool calls    *)
(* streamed behind text are dropped); calls start or continue the loop; an *)
(* empty answer leaves the placeholder; an error, or a request the         *)
(* endpoint refuses, falls back to the canned reply and stores nothing.    *)
AnswerText(w) ==
    /\ At(w, "asking")
    /\ Readable(turn[w].sent)
    /\ Goto(w, "storing")
    /\ UNCHANGED <<used, storeVars, Transcript, audit, Profile, runs, left>>

AnswerFailsKeepingUser(w) ==  \* Faulty variant: does not retract the user's message
    /\ At(w, "asking")
    /\ chatDraft' = Append(chatDraft, "user")
    /\ chat' = chatDraft'
    /\ Goto(w, "done")
    /\ UNCHANGED <<used, storeVars, audit, Profile, runs, left>>

AnswerFails(w) ==
    /\ At(w, "asking")
    /\ Goto(w, "done")
    /\ UNCHANGED <<used, storeVars, Transcript, audit, Profile, runs, left>>

Another(w) == turn[w].round < used.rounds

(* A write of the row that raises is logged and forgotten.                 *)
Upsert(w, r) ==
    \/ /\ row' = [row EXCEPT ![w] = r]
       /\ lost' = [lost EXCEPT ![w] = @ \ {"row"}]
       /\ UNCHANGED left
    \/ /\ Fault
       /\ lost' = [lost EXCEPT ![w] = @ \cup {"row"}]
       /\ UNCHANGED row

(* The first call of the turn creates the lifecycle row.                   *)
AnswerCalls(w, calls) ==
    /\ At(w, "asking")
    /\ Readable(turn[w].sent)
    /\ Another(w)
    /\ turn' = [turn EXCEPT ![w].at = "next", ![w].calls = calls,
                            ![w].said = Append(@, "call"),
                            ![w].round = IF @ < used.rounds THEN @ + 1 ELSE @]
    /\ IF turn[w].said = <<>> THEN Upsert(w, [NoRow EXCEPT !.status = "running"])
       ELSE UNCHANGED <<row, lost, left>>
    /\ UNCHANGED <<used, storeVars, Transcript, ledger, results, Profile, runs>>

-----------------------------------------------------------------------------
(* One call of the answer at a time.                                       *)
Tool(w) == Head(turn[w].calls)
Seen(w, tool) == tool \in DOMAIN turn[w].seen
Denied(w, tool) ==
    \/ tool = "remember" /\ "remember" \notin turn[w].wants
    \/ tool = "forget" /\ "forget" \notin turn[w].wants
    \/ tool \in {"update", "steps"} /\ "task" \notin turn[w].wants

Ready(w) == At(w, "next") /\ turn[w].calls # <<>>
Answered(w, result) == [turn[w] EXCEPT !.at = "record", !.result = result]

(* A call without a function gets a message and no ledger row.             *)
SkipBroken(w) ==
    /\ Ready(w)
    /\ Tool(w) = "broken"
    /\ turn' = [turn EXCEPT ![w].calls = Tail(@), ![w].said = Append(@, "tool")]
    /\ UNCHANGED <<used, storeVars, Transcript, audit, Profile, runs, left>>

(* The same call again in one turn gets the first one's result; a call the *)
(* policy denies fails; neither reaches the executor.                      *)
AnswerWithout(w) ==
    /\ Ready(w)
    /\ Tool(w) # "broken"
    /\ Seen(w, Tool(w)) \/ Denied(w, Tool(w))
    /\ turn' = [turn EXCEPT ![w] = Answered(w, IF Seen(w, Tool(w)) THEN "duplicate" ELSE "failed")]
    /\ UNCHANGED <<used, storeVars, Transcript, audit, Profile, runs, left>>

Executes(w, tool) ==
    /\ Ready(w)
    /\ Tool(w) = tool
    /\ ~Seen(w, tool)
    /\ ~Denied(w, tool)
    /\ runs' = [runs EXCEPT ![w] = Append(@, tool)]

ExecuteSimple(w) ==
    /\ \E tool \in {"read", "raise"} \cup (IF facts = {} THEN {"forget"} ELSE {}) :
         /\ Executes(w, tool)
         /\ turn' = [turn EXCEPT ![w] = Answered(w, IF tool = "raise" THEN "failed" ELSE "completed")]
    /\ UNCHANGED <<used, storeVars, Transcript, audit, Profile, left>>

ExecuteTask(w, tool, to, plan) ==
    /\ Executes(w, tool)
    /\ Ask(w, tool, TaskOfUser, to, plan)
    /\ Goto(w, "store")
    /\ UNCHANGED <<used, Transcript, audit, Profile, left>>

TaskReturns(w) ==
    /\ At(w, "store")
    /\ call[w].todo = <<>>
    /\ turn' = [turn EXCEPT ![w] = Answered(w, IF call[w].outcome = "failed" THEN "failed" ELSE "completed")]
    /\ UNCHANGED <<used, storeVars, Transcript, audit, Profile, runs, left>>

SetAndFlush(w, tool) ==
    /\ Executes(w, tool)
    /\ \/ /\ \E changed \in Changed(w, tool) : SetFacts(changed)
          /\ Goto(w, tool)
          /\ UNCHANGED left
       \/ /\ \E changed \in Changed(w, tool) : SetUnwritten(changed)
          /\ turn' = [turn EXCEPT ![w] = Answered(w, "failed")]
          /\ Fault
    /\ UNCHANGED <<used, storeVars, Transcript, audit>>

RememberLater(w) ==  \* Faulty variant: answers before the flush
    \/ /\ Executes(w, "remember")
       /\ facts' = facts \cup {w}
       /\ told' = told \cup {w}
       /\ turn' = [turn EXCEPT ![w] = Answered(w, "completed")]
       /\ UNCHANGED <<used, storeVars, Transcript, audit, factsDraft, factsDisk, left>>
    \/ SetAndFlush(w, "forget")

ExecuteMemory(w) == SetAndFlush(w, "remember") \/ SetAndFlush(w, "forget")

CommitFlush(w) ==
    /\ turn[w].at \in {"remember", "forget"}
    /\ factsDisk' = factsDraft
    /\ told' = IF At(w, "remember") THEN told \cup ({w} \cap facts) ELSE told
    /\ turn' = [turn EXCEPT ![w] = IF "command" \in @.wants THEN [@ EXCEPT !.at = "done"]
                                   ELSE Answered(w, "completed")]
    /\ UNCHANGED <<used, storeVars, Transcript, audit, facts, factsDraft, runs, left>>

(* wait_for: the executor is cancelled where it awaits.                    *)
ToolTimesOut(w) ==
    /\ turn[w].at \in {"store", "remember", "forget"}
    /\ "command" \notin turn[w].wants
    /\ IF At(w, "store") THEN Cancel(w) ELSE UNCHANGED storeVars
    /\ turn' = [turn EXCEPT ![w] = Answered(w, "failed")]
    /\ UNCHANGED <<used, Transcript, audit, Profile, runs, left>>

(* The result is remembered for the turn and goes to the ledger, then the  *)
(* lifecycle row is brought up to date and the message is made.  An append *)
(* that raises is logged, and the call is counted all the same.  What      *)
(* raises in its commit only has written: the connection's next commit     *)
(* takes it along.                                                         *)
RememberedOnSuccess(w) ==  \* Faulty variant: a failed call may be repeated
    IF turn[w].result # "completed" THEN turn[w].seen
    ELSE [tool \in DOMAIN turn[w].seen \cup {Tool(w)} |->
            IF tool = Tool(w) THEN turn[w].result ELSE turn[w].seen[tool]]

Remembered(w) ==
    IF turn[w].result = "duplicate" THEN turn[w].seen
    ELSE [tool \in DOMAIN turn[w].seen \cup {Tool(w)} |->
            IF tool = Tool(w) THEN turn[w].result ELSE turn[w].seen[tool]]

RecordAction(w) ==
    /\ At(w, "record")
    /\ results' = [results EXCEPT ![w] = Append(@, turn[w].result)]
    /\ \/ /\ ledger' = [ledger EXCEPT ![w] = Append(@, turn[w].result)]
          /\ UNCHANGED <<lost, left>>
       \/ /\ Fault
          /\ lost' = [lost EXCEPT ![w] = @ \cup {"action"}]
          /\ UNCHANGED ledger
    /\ turn' = [turn EXCEPT ![w].at = "note", ![w].seen = Remembered(w)]
    /\ UNCHANGED <<used, storeVars, Transcript, row, Profile, runs>>

NotedLast(old, result) ==  \* Faulty variant: the last call decides
    LET failed == old.failed + (IF result = "failed" THEN 1 ELSE 0) IN
    [status |-> IF result = "failed" THEN "failed" ELSE "completed",
     actions |-> old.actions + 1, failed |-> failed]

Noted(old, result) ==
    LET failed == old.failed + (IF result = "failed" THEN 1 ELSE 0) IN
    [status |-> IF failed > 0 THEN "failed" ELSE "completed",
     actions |-> old.actions + 1, failed |-> failed]

NoteTask(w) ==
    /\ At(w, "note")
    /\ turn' = [turn EXCEPT ![w].at = "next", ![w].calls = Tail(@), ![w].said = Append(@, "tool"),
                            ![w].tally = Noted(@, turn[w].result)]
    /\ Upsert(w, Noted(turn[w].tally, turn[w].result))
    /\ UNCHANGED <<used, storeVars, Transcript, ledger, results, Profile, runs>>

(* All calls of the round are answered: the follow-up request, without     *)
(* tools in the last round.                                                *)
FollowUp(w) ==
    /\ At(w, "next")
    /\ turn[w].calls = <<>>
    /\ Goto(w, "asking")
    /\ UNCHANGED <<used, storeVars, Transcript, audit, Profile, runs, left>>

-----------------------------------------------------------------------------
(* A settled turn is appended to the transcript whole, in one statement;   *)
(* the summary is read and written before the commit.                      *)
Block(w) == <<"user">> \o turn[w].said \o <<"assistant">>

AppendMany(w) ==
    /\ At(w, "storing")
    /\ chatDraft' = chatDraft \o Block(w)
    /\ Goto(w, "committing")
    /\ UNCHANGED <<used, storeVars, chat, audit, Profile, runs, left>>

CommitChat(w) ==
    /\ At(w, "committing")
    /\ chat' = chatDraft
    /\ Goto(w, "done")
    /\ UNCHANGED <<used, storeVars, chatDraft, audit, Profile, runs, left>>

(* A commit raises, or a statement before it: what was written stays in    *)
(* the connection's transaction.  A tool fails, a command or a turn that   *)
(* was to be stored ends.                                                  *)
WriteFails(w) ==
    /\ turn[w].at \in {"remember", "forget", "storing", "committing"}
    /\ Fault
    /\ turn' = [turn EXCEPT ![w] = IF @.at \in {"remember", "forget"} /\ "command" \notin @.wants
                                   THEN Answered(w, "failed") ELSE [@ EXCEPT !.at = "done"]]
    /\ UNCHANGED <<used, storeVars, Transcript, audit, Profile, runs>>

-----------------------------------------------------------------------------
(* The command line adds and updates tasks.                                *)
RunCli(op, to) ==
    /\ left.cli > 0
    /\ left' = [left EXCEPT !.cli = @ - 1]
    /\ Ask(Cli, op, TaskOfUser, to, <<>>)
    /\ UNCHANGED <<used, turn, Transcript, audit, Profile, runs>>

(* The agent dies and starts again: what no connection had committed is    *)
(* gone.  Rows left running are failed when they are older than a cutoff   *)
(* by then.                                                                *)
Restart(old) ==
    /\ left.crashes > 0
    /\ left' = [left EXCEPT !.crashes = @ - 1]
    /\ StoreCrash
    /\ turn' = [w \in Caller |-> Free]
    /\ chatDraft' = chat
    /\ facts' = factsDisk /\ factsDraft' = factsDisk
    /\ row' = [w \in Caller |->
                 IF old /\ row[w].status = "running"
                 THEN [row[w] EXCEPT !.status = "failed",
                                     !.failed = IF @ = 0 /\ row[w].actions > 0 THEN 1 ELSE @]
                 ELSE row[w]]
    /\ UNCHANGED <<used, chat, ledger, results, lost, factsDisk, told, runs>>

StoreStep(w) == (Statement(w) \/ StoreFault(w)) /\ UNCHANGED chatVars

Orders(op) ==
    CASE op = "create" -> {"open"} \X {<<>>}
      [] op = "update" -> (StatusOf \cup {"keep"}) \X {<<>>}
      [] op = "steps" -> {"open"} \X (Plan \cup {<<>>})
      [] op \in {"start", "pause", "advance"} -> {"open"} \X {<<>>}
Intents == {tool \in {"remember", "forget"} : tool \in used.tools}
             \cup (IF used.tools \cap {"update", "steps"} = {} THEN {} ELSE {"task"})
Answers == UNION {[1 .. n -> used.tools] : n \in 1 .. used.calls}

TurnStep(w) ==
    \/ CommandReturns(w) \/ AnswerText(w) \/ AnswerFails(w)
    \/ \E calls \in Answers : AnswerCalls(w, calls)
    \/ SkipBroken(w) \/ AnswerWithout(w) \/ ExecuteSimple(w)
    \/ \E tool \in {"update", "steps"} : \E order \in Orders(tool) : ExecuteTask(w, tool, order[1], order[2])
    \/ TaskReturns(w) \/ ExecuteMemory(w) \/ CommitFlush(w) \/ ToolTimesOut(w)
    \/ RecordAction(w) \/ NoteTask(w) \/ FollowUp(w)
    \/ AppendMany(w) \/ CommitChat(w) \/ WriteFails(w)

Next ==
    \/ \E w \in Caller, wants \in SUBSET Intents : OnUserMessage(w, wants)
    \/ \E w \in Caller, tool \in Intents \ {"task"} : OnMemoryCommand(w, tool)
    \/ \E w \in Caller, op \in used.commands :
         \E order \in Orders(op) : OnTaskCommand(w, op, order[1], order[2])
    \/ \E w \in Caller : TurnStep(w)
    \/ \E w \in Members : StoreStep(w)
    \/ \E op \in {"create", "update"} : \E order \in Orders(op) : RunCli(op, order[1])
    \/ \E old \in BOOLEAN : Restart(old)

Spec == Init /\ [][Next]_vars

(* The event loop runs what is ready, the model's answers and the tools    *)
(* have deadlines, and so does a wait for the lock.                        *)
FairSpec == Spec /\ \A w \in Caller : WF_vars(TurnStep(w)) /\ WF_vars(StoreStep(w))

-----------------------------------------------------------------------------
(* However the model repeats itself, a turn hands the same call to the     *)
(* executor at most once, also when the first was denied a result by its   *)
(* timeout (llm_chat.py:1441).                                             *)
OncePerTurn == \A w \in Caller : \A i, j \in DOMAIN runs[w] : runs[w][i] = runs[w][j] => i = j

(* The lifecycle row of a settled turn says how its calls went: how many   *)
(* there were, and failed exactly when one of them failed.  It is true     *)
(* when the last write of it landed, whichever of the writes before it     *)
(* raised and was swallowed (llm_chat.py:1586-1631); only the ledger keeps *)
(* the gap of an append that raised.                                       *)
TaskRowSettled ==
    \A w \in Caller :
        At(w, "done") /\ results[w] # <<>> =>
            /\ "row" \notin lost[w] =>
                  /\ row[w].actions = Len(results[w])
                  /\ row[w].status = IF \E i \in DOMAIN results[w] : results[w][i] = "failed"
                                     THEN "failed" ELSE "completed"
            /\ "action" \notin lost[w] => ledger[w] = results[w]

(* The transcript holds whole turns, in spite of crashes, errors and two   *)
(* handlers storing at once: each opens with the user's message, answers   *)
(* every call and closes with the assistant's text (chat.py:84-111).       *)
PersistedTurnsAreWhole ==
    /\ \A i \in DOMAIN chat :
          /\ chat[i] = "user" <=> i = 1 \/ (i > 1 /\ chat[i - 1] = "assistant")
          /\ chat[i] = "call" => chat[i + 1] = "tool"
          /\ chat[i] = "tool" => chat[i - 1] \in {"call", "tool"}
    /\ chat # <<>> => chat[Len(chat)] = "assistant"

(* A fact the user was told is remembered, and that nobody told it to      *)
(* forget since, is on disk: also when two turns flush at once, a flush    *)
(* raises or is cancelled by its timeout, or the agent dies                *)
(* (profile.py:108-129).                                                   *)
RememberedIsDurable == told \subseteq factsDisk

(* Every message is settled: rounds are limited, tools and answers time    *)
(* out and a wait for the database's lock does (llm_chat.py:1327).         *)
TurnEnds == \A w \in Caller : turn[w].at \notin {"idle", "done"} ~> turn[w].at \in {"idle", "done"}

(* "The composer keeps the last memory_window user/assistant turns"        *)
(* (llm_chat.py:11-13): what a request carries of them opens with the      *)
(* user's message.  The code cuts by messages, so the window may open with *)
(* a tool result without its call; the endpoint refuses that, nothing is   *)
(* stored, and every later request is cut at the same place.               *)
HistoryIsWholeTurns ==
    \A w \in Caller : At(w, "asking") /\ turn[w].sent # <<>> => turn[w].sent[1] = "user"
=============================================================================
