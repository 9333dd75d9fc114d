---------------------------- MODULE AgentSessionsProofs ----------------------------
(***************************************************************************)
(* For any sessions, any hooks and any number of exits of the agent, and   *)
(* beside whatever else follows sessions: the hook files a session writes  *)
(* are handled in the order it wrote them, and none is lost.               *)
(***************************************************************************)
EXTENDS AgentSessions, TLAPS

\* The hook directory and the pass over it keep their types.
InboxTypeOK ==
    /\ moves \in 0..MaxMoves
    /\ begun \in [HookSession -> {NoHook} \cup HookFile]
    /\ inbox \subseteq HookFile /\ batch \subseteq HookFile
    /\ handling \in {NoHook} \cup HookFile
    /\ written \subseteq Sent /\ handled \subseteq Sent

\* What a pass has listed and not yet taken is still in the directory: only the
\* file whose handler has run is unlinked, and that one has left the pass.
PassIsInInbox ==
    /\ batch \subseteq inbox
    /\ handling # NoHook => NameOf(handling) \in handled /\ handling \notin batch

\* The files in the directory and those handled are written ones, and a written one
\* is handled or still there.
NoneIsLost ==
    /\ handled \subseteq written
    /\ \A f \in inbox : NameOf(f) \in written
    /\ \A g \in written : g \in handled \/ \E f \in inbox : NameOf(f) = g

\* A file of a pass has no predecessor that is neither handled nor in the pass: a
\* hook written while the pass runs is younger than every one its session wrote.
PassHasPredecessors ==
    \A f \in batch, g \in written :
        g[1] = f.sid /\ g[2] < f.ts => g \in handled \/ \E h \in batch : NameOf(h) = g

\* A hook that has begun is younger than all that its session has written, and no
\* time stamp is ahead of the clock.
BegunIsYoungest ==
    /\ \A g \in written : g[2] <= moves
    /\ \A s \in HookSession : begun[s] # NoHook =>
            /\ begun[s].sid = s /\ begun[s].ts <= moves
            /\ \A g \in written : g[1] = s => g[2] < begun[s].ts

HookInv ==
    InboxTypeOK /\ PassIsInInbox /\ NoneIsLost /\ PassHasPredecessors /\ BegunIsYoungest /\ HooksInOrder

USE DEF NameOf

-----------------------------------------------------------------------------
\* Before any hook is sent there is nothing to put in order.
LEMMA HookStart == Init => HookInv
<1> SUFFICES ASSUME Init PROVE HookInv
  OBVIOUS
<1>1. InboxTypeOK
  BY SessionAssumption DEF Init, InboxTypeOK
<1>2. PassIsInInbox /\ NoneIsLost /\ PassHasPredecessors /\ BegunIsYoungest /\ HooksInOrder
  BY DEF Init, PassIsInInbox, NoneIsLost, PassHasPredecessors, BegunIsYoungest, HooksInOrder
<1> QED BY <1>1, <1>2 DEF HookInv

\* A step that leaves the hook files alone, whether or not the clock moves.
LEMMA HooksUntouched ==
    ASSUME HookInv, UNCHANGED inboxVars, moves' = moves \/ Move
    PROVE  HookInv'
<1>1. moves \in 0..MaxMoves /\ moves' \in 0..MaxMoves /\ moves' >= moves
  BY SessionAssumption DEF HookInv, InboxTypeOK, Move
<1>2. InboxTypeOK'
  BY <1>1 DEF HookInv, InboxTypeOK, inboxVars
<1>3. PassIsInInbox' /\ NoneIsLost' /\ PassHasPredecessors' /\ HooksInOrder'
  BY DEF HookInv, PassIsInInbox, NoneIsLost, PassHasPredecessors, HooksInOrder, inboxVars
<1>4. BegunIsYoungest'
  <2>1. \A g \in written : g[2] \in Nat
    BY DEF HookInv, InboxTypeOK, Sent
  <2>2. \A s \in HookSession : begun[s] # NoHook => begun[s].ts \in Nat
    BY DEF HookInv, InboxTypeOK, HookFile
  <2> QED BY <1>1, <2>1, <2>2 DEF HookInv, BegunIsYoungest, inboxVars
<1> QED BY <1>2, <1>3, <1>4 DEF HookInv

-----------------------------------------------------------------------------
\* `deskmate hook ingest` stamps the event before anything younger exists.
LEMMA BeginInOrder ==
    ASSUME HookInv, NEW s \in HookSession, NEW k \in Hooks, NEW ref \in BOOLEAN, BeginHook(s, k, ref)
    PROVE  HookInv'
<1>1. /\ moves \in Nat /\ moves < MaxMoves /\ moves' = moves + 1 /\ MaxMoves \in Nat
      /\ begun' = [begun EXCEPT ![s] = [sid |-> s, ts |-> moves + 1, kind |-> k, ref |-> ref]]
      /\ UNCHANGED <<inbox, batch, handling, written, handled>>
  BY SessionAssumption DEF HookInv, InboxTypeOK, BeginHook, Move
<1>2. [sid |-> s, ts |-> moves + 1, kind |-> k, ref |-> ref] \in HookFile
  BY <1>1, SessionAssumption DEF HookFile
<1>3. InboxTypeOK'
  BY <1>1, <1>2 DEF HookInv, InboxTypeOK
<1>4. PassIsInInbox' /\ NoneIsLost' /\ PassHasPredecessors' /\ HooksInOrder'
  BY <1>1 DEF HookInv, PassIsInInbox, NoneIsLost, PassHasPredecessors, HooksInOrder
<1>5. BegunIsYoungest'
  <2>1. \A g \in written : g[2] \in Nat /\ g[2] <= moves
    BY DEF HookInv, InboxTypeOK, Sent, BegunIsYoungest
  <2>2. \A r \in HookSession : begun[r] # NoHook => begun[r].ts \in Nat
    BY DEF HookInv, InboxTypeOK, HookFile
  <2>3. ASSUME NEW r \in HookSession, begun'[r] # NoHook
        PROVE  /\ begun'[r].sid = r /\ begun'[r].ts <= moves'
               /\ \A g \in written : g[1] = r => g[2] < begun'[r].ts
    <3>1. CASE r = s
      <4>1. begun'[r] = [sid |-> s, ts |-> moves + 1, kind |-> k, ref |-> ref]
        BY <1>1, <3>1 DEF HookInv, InboxTypeOK
      <4> QED BY <4>1, <3>1, <1>1, <2>1
    <3>2. CASE r # s
      <4>1. begun'[r] = begun[r]
        BY <1>1, <3>2 DEF HookInv, InboxTypeOK
      <4> QED BY <4>1, <2>3, <1>1, <2>2 DEF HookInv, BegunIsYoungest
    <3> QED BY <3>1, <3>2
  <2> QED BY <2>1, <2>3, <1>1 DEF BegunIsYoungest
<1> QED BY <1>3, <1>4, <1>5 DEF HookInv

\* write_hook_event: the file that appears is the youngest of its session, so it is
\* the predecessor of nothing that is listed or handled.
LEMMA WriteInOrder ==
    ASSUME HookInv, NEW s \in HookSession, WriteHookEvent(s)
    PROVE  HookInv'
<1> DEFINE new == NameOf(begun[s])
<1>1. /\ begun[s] # NoHook
      /\ inbox' = inbox \cup {begun[s]} /\ written' = written \cup {new}
      /\ begun' = [begun EXCEPT ![s] = NoHook]
      /\ UNCHANGED <<batch, handling, handled, moves>>
  BY DEF WriteHookEvent
<1>2. /\ begun[s] \in HookFile /\ begun[s].sid = s /\ new[1] = s
      /\ new[2] \in Nat /\ new[2] = begun[s].ts /\ new[2] <= moves /\ new \in Sent
  BY <1>1 DEF HookInv, InboxTypeOK, BegunIsYoungest, HookFile, Sent
<1>3. \A g \in written : g[2] \in Nat /\ (g[1] = s => g[2] < new[2])
  BY <1>1, <1>2 DEF HookInv, InboxTypeOK, BegunIsYoungest, Sent
<1>4. InboxTypeOK'
  BY <1>1, <1>2 DEF HookInv, InboxTypeOK
<1>5. PassIsInInbox'
  BY <1>1 DEF HookInv, PassIsInInbox
<1>6. NoneIsLost'
  BY <1>1 DEF HookInv, NoneIsLost
<1>7. PassHasPredecessors'
  <2>1. \A f \in batch : f.sid = s => f.ts < new[2]
    BY <1>3 DEF HookInv, PassIsInInbox, NoneIsLost
  <2>2. \A f \in batch : f.ts \in Nat
    BY DEF HookInv, InboxTypeOK, HookFile
  <2>3. \A f \in batch : ~(new[1] = f.sid /\ new[2] < f.ts)
    BY <2>1, <2>2, <1>2
  <2> QED BY <1>1, <2>3 DEF HookInv, PassHasPredecessors
<1>8. BegunIsYoungest'
  <2>1. \A r \in HookSession : begun'[r] = IF r = s THEN NoHook ELSE begun[r]
    BY <1>1 DEF HookInv, InboxTypeOK
  <2> QED BY <1>1, <1>2, <2>1 DEF HookInv, BegunIsYoungest
<1>9. HooksInOrder'
  <2>1. \A f \in handled : f[2] \in Nat /\ ~(f[1] = new[1] /\ new[2] < f[2])
    BY <1>2, <1>3 DEF HookInv, NoneIsLost
  <2> QED BY <1>1, <2>1 DEF HookInv, HooksInOrder
<1> QED BY <1>4, <1>5, <1>6, <1>7, <1>8, <1>9 DEF HookInv

\* drain_once lists everything that is in the directory, so what it does not list
\* is handled.
LEMMA ListInOrder ==
    ASSUME HookInv, ListEventFiles
    PROVE  HookInv'
<1>1. handling = NoHook /\ batch' = inbox /\ UNCHANGED <<begun, inbox, handling, written, handled, moves>>
  BY DEF ListEventFiles
<1>2. InboxTypeOK'
  BY <1>1 DEF HookInv, InboxTypeOK
<1>3. PassIsInInbox' /\ NoneIsLost' /\ BegunIsYoungest' /\ HooksInOrder'
  BY <1>1 DEF HookInv, PassIsInInbox, NoneIsLost, BegunIsYoungest, HooksInOrder
<1>4. PassHasPredecessors'
  BY <1>1 DEF HookInv, NoneIsLost, PassHasPredecessors
<1> QED BY <1>2, <1>3, <1>4 DEF HookInv

\* The first file of the pass is handled: its predecessors, were they in the pass,
\* would have come first.
LEMMA HandleInOrder ==
    ASSUME HookInv, HandleFile
    PROVE  HookInv'
<1>1. PICK f \in FirstFile :
        /\ handling' = f /\ batch' = batch \ {f} /\ handled' = handled \cup {NameOf(f)}
        /\ UNCHANGED <<begun, inbox, written, moves>>
  BY DEF HandleFile
<1>2. /\ f \in batch /\ f \in inbox /\ f \in HookFile /\ NameOf(f) \in written
      /\ \A g \in batch : f.ts <= g.ts
  BY DEF FirstFile, HookInv, InboxTypeOK, PassIsInInbox, NoneIsLost
<1>3. InboxTypeOK'
  <2>1. NameOf(f) \in Sent
    BY <1>2 DEF HookInv, InboxTypeOK
  <2> QED BY <1>1, <1>2, <2>1 DEF HookInv, InboxTypeOK
<1>4. PassIsInInbox'
  BY <1>1, <1>2 DEF HookInv, PassIsInInbox
<1>5. NoneIsLost'
  BY <1>1, <1>2 DEF HookInv, NoneIsLost
<1>6. PassHasPredecessors'
  BY <1>1 DEF HookInv, PassHasPredecessors
<1>7. BegunIsYoungest'
  BY <1>1 DEF HookInv, BegunIsYoungest
<1>8. HooksInOrder'
  <2>1. ASSUME NEW g \in written, g[1] = f.sid, g[2] < f.ts PROVE g \in handled
    <3>1. \A h \in batch : h.ts \in Nat /\ f.ts \in Nat /\ f.ts <= h.ts
      BY <1>2 DEF HookInv, InboxTypeOK, HookFile
    <3>2. ~ \E h \in batch : NameOf(h) = g
      BY <2>1, <3>1
    <3> QED BY <1>2, <2>1, <3>2 DEF HookInv, PassHasPredecessors
  <2>2. NameOf(f)[1] = f.sid /\ NameOf(f)[2] = f.ts
    OBVIOUS
  <2> QED BY <1>1, <2>1, <2>2 DEF HookInv, HooksInOrder
<1> QED BY <1>3, <1>4, <1>5, <1>6, <1>7, <1>8 DEF HookInv

\* The file that is unlinked is handled.
LEMMA UnlinkInOrder ==
    ASSUME HookInv, UnlinkFile
    PROVE  HookInv'
<1>1. /\ handling # NoHook /\ inbox' = inbox \ {handling} /\ handling' = NoHook
      /\ UNCHANGED <<begun, batch, written, handled, moves>>
  BY DEF UnlinkFile, Unlinked
<1>2. NameOf(handling) \in handled /\ handling \notin batch
  BY <1>1 DEF HookInv, PassIsInInbox
<1>3. InboxTypeOK'
  BY <1>1 DEF HookInv, InboxTypeOK
<1>4. PassIsInInbox' /\ NoneIsLost'
  BY <1>1, <1>2 DEF HookInv, PassIsInInbox, NoneIsLost
<1>5. PassHasPredecessors' /\ BegunIsYoungest' /\ HooksInOrder'
  BY <1>1 DEF HookInv, PassHasPredecessors, BegunIsYoungest, HooksInOrder
<1> QED BY <1>3, <1>4, <1>5 DEF HookInv

\* An exit forgets the pass and the file being handled; the directory stays.
LEMMA ExitInOrder ==
    ASSUME HookInv, Exit
    PROVE  HookInv'
<1>1. batch' = {} /\ handling' = NoHook /\ UNCHANGED <<begun, inbox, written, handled, moves>>
  BY DEF Exit
<1>2. InboxTypeOK' /\ PassIsInInbox' /\ PassHasPredecessors'
  BY <1>1 DEF HookInv, InboxTypeOK, PassIsInInbox, PassHasPredecessors
<1>3. NoneIsLost' /\ BegunIsYoungest' /\ HooksInOrder'
  BY <1>1 DEF HookInv, NoneIsLost, BegunIsYoungest, HooksInOrder
<1> QED BY <1>2, <1>3 DEF HookInv

-----------------------------------------------------------------------------
\* Everything else that follows sessions leaves the hook files alone.
LEMMA OthersLeaveHooks ==
    ASSUME CodexStep \/ ClaudeStep \/ RuntimeStep \/ UserStep \/ Reap \/ Tick \/ Start
           \/ \E w \in Feed : HandleFeed(w)
    PROVE  UNCHANGED inboxVars /\ (moves' = moves \/ Move)
<1>1. CASE CodexStep
  <2>1. CASE StartServer \/ RequestTimesOut \/ LoseServer
    BY <2>1 DEF StartServer, RequestTimesOut, LoseServer
  <2>2. CASE \E t \in Thread, n \in Statuses : ListThreads(t, n) \/ Notify(t, n)
    BY <2>2 DEF ListThreads, Notify
  <2>3. ASSUME NEW t \in Thread, NEW row, AppendRollout(t, row) PROVE UNCHANGED inboxVars /\ Move
    BY <2>3 DEF AppendRollout
  <2>4. CASE \E t \in Thread : ScanRollout(t)
    BY <2>4 DEF ScanRollout
  <2> QED BY <1>1, <2>1, <2>2, <2>3, <2>4 DEF CodexStep
<1>2. CASE ClaudeStep
  BY <1>2 DEF ClaudeStep, AppendRow, ScanRows
<1>3. CASE RuntimeStep
  <2>1. ASSUME NEW broken, NEW where, NEW unread, ScanOnce(broken, where, unread)
        PROVE  UNCHANGED inboxVars /\ moves' = moves
    BY <2>1 DEF ScanOnce
  <2>2. CASE \E r \in Row : ProcessMoves(r)
    BY <2>2 DEF ProcessMoves
  <2>3. CASE \E r \in AiderRow, tail \in LastBlock : WriteTranscript(r, tail)
    BY <2>3 DEF WriteTranscript
  <2>4. CASE \E k \in KiroSpec, status \in TaskStatus : WriteMeta(k, status)
    BY <2>4 DEF WriteMeta
  <2> QED BY <1>3, <2>1, <2>2, <2>3, <2>4 DEF RuntimeStep, Scan
<1>4. CASE UserStep
  BY <1>4 DEF UserStep, Jump, AnswerQuestion, ResolveApproval
<1>5. CASE Reap \/ Tick \/ Start
  BY <1>5 DEF Reap, Tick, Start, bounds
<1>6. CASE \E w \in Feed : HandleFeed(w)
  BY <1>6 DEF HandleFeed
<1> QED BY <1>1, <1>2, <1>3, <1>4, <1>5, <1>6

\* Every step keeps the hook files in order.
LEMMA HookStepInOrder == HookInv /\ [Next]_vars => HookInv'
<1> SUFFICES ASSUME HookInv, [Next]_vars PROVE HookInv'
  OBVIOUS
<1>1. CASE HookStep
  <2>1. CASE \E s \in HookSession, k \in Hooks, ref \in BOOLEAN : BeginHook(s, k, ref)
    BY <2>1, BeginInOrder
  <2>2. CASE \E s \in HookSession : WriteHookEvent(s)
    BY <2>2, WriteInOrder
  <2>3. CASE ListEventFiles \/ HandleFile \/ UnlinkFile
    BY <2>3, ListInOrder, HandleInOrder, UnlinkInOrder
  <2> QED BY <1>1, <2>1, <2>2, <2>3 DEF HookStep
<1>2. CASE CodexStep \/ ClaudeStep \/ RuntimeStep \/ UserStep \/ Reap \/ Tick \/ Start
           \/ \E w \in Feed : HandleFeed(w)
  BY <1>2, OthersLeaveHooks, HooksUntouched
<1>3. CASE Exit
  BY <1>3, ExitInOrder
<1>4. CASE UNCHANGED vars
  BY <1>4, HooksUntouched DEF vars, bounds
<1> QED BY <1>1, <1>2, <1>3, <1>4 DEF Next

LEMMA HookInvariant == Spec => []HookInv
  BY HookStart, HookStepInOrder, PTL DEF Spec

\* When a hook's handler has run, so has that of every hook its session wrote
\* before it, wherever the agent exited.
THEOREM HandledInOrder == Spec => []HooksInOrder
<1>1. HookInv => HooksInOrder
  BY DEF HookInv
<1> QED BY HookInvariant, <1>1, PTL

\* The hook files no handler has run for are in the directory, wherever the agent
\* exited: the safety half of HooksAreHandled.
THEOREM WrittenIsKept == Spec => [](written \subseteq handled \cup {NameOf(f) : f \in inbox})
<1>1. HookInv => written \subseteq handled \cup {NameOf(f) : f \in inbox}
  BY DEF HookInv, NoneIsLost
<1> QED BY HookInvariant, <1>1, PTL

-----------------------------------------------------------------------------
(* Passive sources.                                                        *)

\* A session has all its fields, and only what the reducer recorded waits for the
\* user: the scanner's own rows never do.
Fields == {"phase", "state", "kind", "hooked", "age", "unobserved", "since"}
WaitIsReported(old) ==
    \/ old = Absent
    \/ /\ old = [f \in Fields |-> old[f]]
       /\ old.phase \in Waiting => old.kind = "hook_session"

RecordInv == sessions = [s \in Sid |-> sessions[s]] /\ \A s \in Sid : WaitIsReported(sessions[s])

\* Who waits is there, and has been reported.
LEMMA WaitingIsPresent ==
    ASSUME NEW old, WaitIsReported(old), old.phase \in Waiting
    PROVE  /\ Present(old) /\ old.kind = "hook_session" /\ IsHookSession(old)
           /\ old = [f \in Fields |-> old[f]]
  BY DEF WaitIsReported, Present, Absent, Waiting, IsHookSession

\* A session as the store or the scanner makes one.
LEMMA SessionFields ==
    ASSUME NEW phase, NEW kind, NEW hooked, NEW age
    PROVE  (phase \in Waiting => kind = "hook_session")
           => WaitIsReported(Session(phase, kind, hooked, age))
<1> DEFINE new == Session(phase, kind, hooked, age)
<1>1. new = [f \in Fields |-> new[f]] /\ new.phase = phase /\ new.kind = kind
  BY DEF Session, Fields
<1> QED BY <1>1 DEF WaitIsReported

LEMMA ReducedIsReported ==
    ASSUME NEW old, NEW e, WaitIsReported(old)
    PROVE  WaitIsReported(Reduce(old, e))
<1>1. ASSUME NEW phase PROVE WaitIsReported(Upserted(e, phase))
  BY SessionFields DEF Upserted
<1>2. ASSUME e.class = "jump", Present(old) PROVE WaitIsReported([old EXCEPT !.age = e.age, !.hooked = TRUE])
  BY <1>2 DEF WaitIsReported, Present, Fields
<1> QED BY <1>1, <1>2 DEF Reduce

\* An activity leaves a session that waits waiting.
LEMMA ActivityKeepsWait ==
    ASSUME NEW old, NEW e, WaitIsReported(old), old.phase \in Waiting,
           e.class = "activity", e.phase \in Informational
    PROVE  Reduce(old, e).phase \in Waiting
  BY WaitingIsPresent DEF Reduce, Upserted, Session, PreservesActionableState

\* The scan and its observers keep the records sound, and change none that waits.
LEMMA ScanKeepsWait ==
    ASSUME RecordInv, NEW s \in Sid, NEW broken, NEW unread
    PROVE  /\ WaitIsReported(Observed(s, broken, unread))
           /\ Waits(s) => Observed(s, broken, unread) = sessions[s]
<1> DEFINE old == sessions[s]
<1>1. WaitIsReported(old)
  BY DEF RecordInv
<1>2. ASSUME NEW now, WaitIsReported(now), NEW e
      PROVE  WaitIsReported(Forwarded(now, e))
  BY <1>2, ReducedIsReported DEF Forwarded
<1>3. WaitIsReported(Scanned(s))
  <2>1. ASSUME NEW r, NEW kept, WaitIsReported(kept) PROVE WaitIsReported(ScannedRow(r, kept))
    <3>1. ASSUME Present(kept), ~IsHookSession(kept) PROVE kept.phase \notin Waiting
      BY <2>1, <3>1, WaitingIsPresent
    <3>2. WaitIsReported(Session("running", "runtime", FALSE, 0))
      BY SessionFields DEF Waiting
    <3>3. ASSUME NEW since, NEW unobserved, kept.phase \notin Waiting
          PROVE  WaitIsReported([Session(kept.phase, "runtime", FALSE, 0) EXCEPT
                                    !.since = since, !.unobserved = unobserved])
      BY <3>3 DEF WaitIsReported, Session, Fields
    <3> QED BY <2>1, <3>1, <3>2, <3>3 DEF ScannedRow
  <2>2. ASSUME NEW kept, WaitIsReported(kept) PROVE WaitIsReported(RemovedRow(kept))
    BY <2>2 DEF RemovedRow, WaitIsReported
  <2> QED BY <1>1, <2>1, <2>2 DEF Scanned
<1>4. WaitIsReported(Observed(s, broken, unread))
  BY <1>2, <1>3 DEF Observed
<1>5. ASSUME Waits(s) PROVE Observed(s, broken, unread) = old
  <2>1. Present(old) /\ old.kind = "hook_session" /\ IsHookSession(old)
    BY <1>1, <1>5, WaitingIsPresent DEF Waits
  <2>2. Scanned(s) = old
    BY <2>1 DEF Scanned, ScannedRow, RemovedRow
  <2>3. \A e : Forwarded(old, e) = old
    BY <2>1 DEF Forwarded
  <2> QED BY <2>2, <2>3 DEF Observed
<1> QED BY <1>4, <1>5

\* Every step keeps the records sound.
LEMMA RecordStep == RecordInv /\ [Next]_vars => RecordInv'
<1> SUFFICES ASSUME RecordInv, [Next]_vars PROVE RecordInv'
  OBVIOUS
<1>1. ASSUME UNCHANGED sessions PROVE RecordInv'
  BY <1>1 DEF RecordInv
<1>2. ASSUME NEW new, sessions' = [s \in Sid |-> new[s]], \A s \in Sid : WaitIsReported(new[s])
      PROVE  RecordInv'
  BY <1>2 DEF RecordInv
<1>3. ASSUME NEW s, NEW new, sessions' = [sessions EXCEPT ![s] = new],
             s \in Sid => WaitIsReported(new)
      PROVE  RecordInv'
  BY <1>3 DEF RecordInv
<1>4. ASSUME NEW s, NEW e, Apply(s, e) PROVE RecordInv'
  <2>1. sessions' = [sessions EXCEPT ![s] = Reduce(sessions[s], e)]
    BY <1>4 DEF Apply
  <2>2. s \in Sid => WaitIsReported(Reduce(sessions[s], e))
    BY ReducedIsReported DEF RecordInv
  <2> QED BY <1>3, <2>1, <2>2
<1>5. CASE HookStep
  <2>1. UNCHANGED sessions \/ \E s, e : Apply(s, e)
    BY <1>5 DEF HookStep, BeginHook, WriteHookEvent, ListEventFiles, HandleFile, UnlinkFile
  <2> QED BY <1>1, <1>4, <2>1
<1>6. CASE CodexStep \/ ClaudeStep \/ \E w \in Feed : HandleFeed(w)
  <2>1. UNCHANGED sessions \/ \E s, e : Apply(s, e)
    BY <1>6 DEF CodexStep, ClaudeStep, StartServer, RequestTimesOut, LoseServer, ListThreads, Notify,
                AppendRollout, ScanRollout, AppendRow, ScanRows, HandleFeed
  <2> QED BY <1>1, <1>4, <2>1
<1>7. ASSUME NEW broken, NEW where, NEW unread, ScanOnce(broken, where, unread) PROVE RecordInv'
  <2>1. sessions' = [s \in Sid |-> Observed(s, broken, unread)]
    BY <1>7 DEF ScanOnce
  <2> QED BY <2>1, ScanKeepsWait DEF RecordInv
<1>8. CASE RuntimeStep
  <2>1. UNCHANGED sessions \/ \E broken, where, unread : ScanOnce(broken, where, unread)
    BY <1>8 DEF RuntimeStep, Scan, ProcessMoves, WriteTranscript, WriteMeta
  <2> QED BY <1>1, <1>7, <2>1
<1>9. ASSUME NEW s \in Sid, Jump(s) \/ AnswerQuestion(s) \/ ResolveApproval(s) PROVE RecordInv'
  <2>1. WaitIsReported(sessions[s])
    BY DEF RecordInv
  <2>2. CASE Jump(s)
    <3>1. /\ Present(sessions[s])
          /\ sessions' = [sessions EXCEPT ![s] = [sessions[s] EXCEPT !.state = "active", !.age = 0]]
      BY <2>2 DEF Jump, RecordInv
    <3>2. WaitIsReported([sessions[s] EXCEPT !.state = "active", !.age = 0])
      BY <2>1, <3>1 DEF WaitIsReported, Present, Fields
    <3> QED BY <1>3, <3>1, <3>2
  <2>3. CASE AnswerQuestion(s)
    <3>1. /\ sessions[s].phase \in Waiting
          /\ sessions' = [sessions EXCEPT ![s] =
                            [sessions[s] EXCEPT !.state = "active", !.age = 0, !.phase = "running"]]
      BY <2>3 DEF AnswerQuestion, RecordInv, Waiting
    <3>2. WaitIsReported([sessions[s] EXCEPT !.state = "active", !.age = 0, !.phase = "running"])
      BY <2>1, <3>1, WaitingIsPresent DEF WaitIsReported, Fields, Waiting
    <3> QED BY <1>3, <3>1, <3>2
  <2>4. CASE ResolveApproval(s)
    <3>1. sessions' = [sessions EXCEPT ![s] = IF Present(sessions[s]) THEN Resumed(sessions[s]) ELSE sessions[s]]
      BY <2>4 DEF ResolveApproval
    <3>2. Present(sessions[s]) => WaitIsReported(Resumed(sessions[s]))
      BY <2>1 DEF Resumed, WaitIsReported, Present, Fields, Ended, Waiting
    <3> QED BY <1>3, <2>1, <3>1, <3>2
  <2> QED BY <1>9, <2>2, <2>3, <2>4
<1>10. CASE Reap
  <2> DEFINE new == [s \in Sid |->
            IF Reapable(sessions[s]) /\ sessions[s].age >= StaleTtl
            THEN [sessions[s] EXCEPT !.state = "closed", !.phase = "completed", !.age = 0]
            ELSE sessions[s]]
  <2>1. sessions' = new
    BY <1>10 DEF Reap
  <2>2. ASSUME NEW s \in Sid PROVE WaitIsReported(new[s])
    <3>1. WaitIsReported(sessions[s])
      BY DEF RecordInv
    <3>2. ASSUME Present(sessions[s])
          PROVE  WaitIsReported([sessions[s] EXCEPT !.state = "closed", !.phase = "completed", !.age = 0])
      BY <3>1, <3>2 DEF WaitIsReported, Present, Fields, Waiting
    <3> QED BY <3>1, <3>2 DEF Reapable
  <2> QED BY <1>2, <2>1, <2>2
<1>11. CASE Tick
  <2>1. ASSUME NEW s \in Sid, NEW age, NEW since
        PROVE  /\ WaitIsReported(sessions[s]) /\ WaitIsReported(Absent)
               /\ Present(sessions[s]) => WaitIsReported([sessions[s] EXCEPT !.age = age, !.since = since])
    BY DEF RecordInv, WaitIsReported, Present, Fields
  <2>2. sessions' = [s \in Sid |-> IF Present(sessions[s])
            THEN [sessions[s] EXCEPT !.age = Older(sessions[s].age),
                                     !.since = IF s \in CodexRow THEN Older(sessions[s].since) ELSE sessions[s].since]
            ELSE Absent]
    BY <1>11 DEF Tick
  <2> QED BY <2>1, <2>2 DEF RecordInv
<1>12. CASE Exit \/ Start \/ UNCHANGED vars
  <2>1. sessions' = [s \in Sid |-> Absent] \/ UNCHANGED sessions
    BY <1>12 DEF Exit, Start, vars
  <2>2. WaitIsReported(Absent)
    BY DEF WaitIsReported
  <2> QED BY <1>1, <2>1, <2>2 DEF RecordInv
<1> QED BY <1>5, <1>6, <1>8, <1>9, <1>10, <1>11, <1>12 DEF Next, UserStep

\* The activity of a transcript, a scan with its observers and the reaper leave a
\* session that waits for the user waiting, however the sources share ids.
THEOREM WaitsStay == Spec => PassiveKeepsWait
<1>1. Init => RecordInv
  BY DEF Init, RecordInv, WaitIsReported
<1>2. RecordInv /\ [Next]_vars => [PassiveStep => \A s \in Sid : Waits(s) => Waits(s)']_vars
  <2> SUFFICES ASSUME RecordInv, PassiveStep, NEW s \in Sid, Waits(s) PROVE Waits(s)'
    BY DEF Waits
  <2>1. WaitIsReported(sessions[s]) /\ sessions[s].phase \in Waiting
    BY DEF RecordInv, Waits
  <2>2. ASSUME NEW broken, NEW where, NEW unread, ScanOnce(broken, where, unread) PROVE Waits(s)'
    BY <2>2, ScanKeepsWait DEF ScanOnce, Waits
  <2>3. CASE Reap
    <3>1. ~Reapable(sessions[s])
      BY <2>1 DEF Reapable, Informational, Waiting
    <3> QED BY <2>3, <3>1 DEF Reap, Waits
  <2>4. ASSUME NEW w \in Feed, HandleFeed(w), Head(feed[w]).event.class = "activity",
               Head(feed[w]).event.phase \in Informational
        PROVE  Waits(s)'
    <3> DEFINE item == Head(feed[w])
    <3>1. sessions' = [sessions EXCEPT ![item.sid] = Reduce(sessions[item.sid], item.event)]
      BY <2>4 DEF HandleFeed, Apply
    <3>2. Reduce(sessions[s], item.event).phase \in Waiting
      BY <2>1, <2>4, ActivityKeepsWait
    <3> HIDE DEF item
    <3> QED BY <2>1, <3>1, <3>2 DEF RecordInv, Waits
  <2> QED BY <2>2, <2>3, <2>4 DEF PassiveStep, Scan
<1> QED BY <1>1, <1>2, RecordStep, PTL DEF Spec, PassiveKeepsWait
=============================================================================
