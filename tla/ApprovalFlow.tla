----------------------------- MODULE ApprovalFlow -----------------------------
(***************************************************************************)
(* The life of an approval in the agent: ApprovalStore (approvals/store),  *)
(* the ApprovalRouter that answers a user's permission.resolve click       *)
(* (approvals/router), the effect an Allow releases                        *)
(* (app._handle_approval_resolved) and the session phases the reducer and  *)
(* the router write on the way.  The bubbles are in ApprovalSurface.       *)
(*                                                                         *)
(* The agent is one asyncio loop: an action below runs from one await to   *)
(* the next.  A Handler is the client-handler task of one bridge           *)
(* connection; two of them overlap while a reconnecting client replaces a  *)
(* connection whose last click is still being served.                      *)
(***************************************************************************)
EXTENDS Naturals

CONSTANTS
    Approval,    \* approval ids
    Computer,    \* ids of PendingComputerActionStore: computer-control-N
    Suggestion,  \* memory- and task-suggestion ids, uuids
    Demo,        \* the demo panel's one approval id
    Session,     \* agent session ids
    NoSession,   \* the session_id None of an approval nobody's session waits on
    SessionOf,   \* approval id -> the session that asked
    Handler,     \* bridge client-handler tasks
    MaxAsks      \* bound: times one id is asked

ASSUME ApprovalAssumption ==
    /\ Computer \subseteq Approval
    /\ Suggestion \subseteq Approval \ Computer
    /\ Demo \in Approval \ (Computer \cup Suggestion)
    /\ NoSession \notin Session
    /\ SessionOf \in [Approval -> Session \cup {NoSession}]
    /\ \A a \in Computer \cup Suggestion \cup {Demo} : SessionOf[a] = NoSession
    /\ MaxAsks \in Nat

\* Ids minted fresh for one action; every other id may be asked again.
OneShot == Computer \cup Suggestion
\* Ids that hooks and app-server events ask under, one session each.
Hooked == {a \in Approval : SessionOf[a] # NoSession}

Decision == {"allow", "deny"}
\* "cancelled" is left only by the demo panel, which forgets the record at once;
\* "expired" is never reached: nothing in the agent calls expire or expire_due.
Status == {"none", "pending", "resolved"}
\* RUNNING stands for every informational phase, "ended" for COMPLETED and FAILED.
Phase == {"absent", "running", "waiting_for_approval", "waiting_for_answer", "ended"}
HandlerState == {"idle", "failing", "dismissing", "writing", "recording", "feedback"}

VARIABLES
    status,     \* ApprovalStore._by_id[a].status, "none" when the id is unknown
    phase,      \* SessionStore: phase of each session
    handler,    \* where each handler task stands inside _handle_interaction
    claim,      \* the approval whose updated record the handler holds
    verdict,    \* the decision in that record
    connected,  \* BridgeServer._batcher is not None: send does not raise
    asks,       \* history: how often each id was asked
    verdicts,   \* history: the decisions the store accepted for a one-shot id
    applied,    \* history: how often the effect of an Allow was carried out
    abandoned,  \* history: approvals whose handler raised before it was done
    cleared     \* history: the demo panel wiped the store

task == <<handler, claim, verdict>>
history == <<asks, verdicts, applied, abandoned, cleared>>
vars == <<status, phase, task, connected, history>>

TypeOK ==
    /\ status \in [Approval -> Status]
    /\ phase \in [Session -> Phase]
    /\ handler \in [Handler -> HandlerState]
    /\ claim \in [Handler -> Approval]
    /\ verdict \in [Handler -> Decision]
    /\ connected \in BOOLEAN
    /\ asks \in [Approval -> 0..MaxAsks]
    /\ verdicts \in [OneShot -> SUBSET Decision]
    /\ applied \in [OneShot -> Nat]
    /\ abandoned \subseteq Approval
    /\ cleared \in BOOLEAN

Init ==
    /\ status = [a \in Approval |-> "none"]
    /\ phase = [s \in Session |-> "absent"]
    /\ handler = [h \in Handler |-> "idle"]
    /\ claim = [h \in Handler |-> Demo]
    /\ verdict = [h \in Handler |-> "deny"]
    /\ connected = TRUE
    /\ asks = [a \in Approval |-> 0]
    /\ verdicts = [a \in OneShot |-> {}]
    /\ applied = [a \in OneShot |-> 0]
    /\ abandoned = {}
    /\ cleared = FALSE

-----------------------------------------------------------------------------
(***************************************************************************)
(* ApprovalStore.                                                          *)
(***************************************************************************)

\* ApprovalStore.add: a known id is replaced, whatever became of it.
Add(a) ==
    /\ asks[a] < MaxAsks
    /\ status' = [status EXCEPT ![a] = "pending"]
    /\ asks' = [asks EXCEPT ![a] = @ + 1]

\* Faulty variant: a double click resolves a record that is resolved already.
ResolveAnyRecord(a, d) ==
    /\ status[a] # "none"
    /\ status' = [status EXCEPT ![a] = "resolved"]
    /\ verdicts' = [o \in OneShot |-> verdicts[o] \cup IF o = a THEN {d} ELSE {}]

\* ApprovalStore.resolve with a decision, on a record that is still pending.
ResolveRecord(a, d) ==
    /\ status[a] = "pending"
    /\ status' = [status EXCEPT ![a] = "resolved"]
    /\ verdicts' = [o \in OneShot |-> verdicts[o] \cup IF o = a THEN {d} ELSE {}]

\* A gated action or a suggestion is asked about once, under a new id.
AskFor(a) ==
    /\ asks[a] = 0
    /\ Add(a)
    /\ UNCHANGED <<phase, task, connected, verdicts, applied, abandoned, cleared>>

\* The composer of computer actions, or the tool.
AskComputerAction(a) == a \in Computer /\ AskFor(a)

\* What the chat heard the user say of himself, or of a task.
AskSuggestion(a) == a \in Suggestion /\ AskFor(a)

AskOneShot(a) == AskComputerAction(a) \/ AskSuggestion(a)

\* The demo panel asks under its fixed id, again and again.
AskDemo ==
    /\ Add(Demo)
    /\ UNCHANGED <<phase, task, connected, verdicts, applied, abandoned, cleared>>

\* The demo panel's clear: cancel the demo approval, then forget them all.
DemoClear ==
    /\ status' = [a \in Approval |-> "none"]
    /\ cleared' = TRUE
    /\ UNCHANGED <<phase, task, connected, asks, verdicts, applied, abandoned>>

-----------------------------------------------------------------------------
(***************************************************************************)
(* Agent events that reach the session of a hooked approval                *)
(* (AgentEventReducer.apply).                                              *)
(***************************************************************************)

\* PermissionRequested: the session waits, the approval is added.
PermissionRequested(a) ==
    /\ a \in Hooked
    /\ phase' = [phase EXCEPT ![SessionOf[a]] = "waiting_for_approval"]
    /\ Add(a)
    /\ UNCHANGED <<task, connected, verdicts, applied, abandoned, cleared>>

SetPhase(s, p) ==
    /\ phase' = [phase EXCEPT ![s] = p]
    /\ UNCHANGED <<status, task, connected, history>>

QuestionAsked(s) == SetPhase(s, "waiting_for_answer")

SessionCompleted(s) == SetPhase(s, "ended")

\* SessionStarted writes its phase over whatever was there.
SessionStarted(s) == SetPhase(s, "running")

PreservesActionableState(s) == phase[s] \in {"waiting_for_approval", "waiting_for_answer"}

\* An informational phase never demotes a session that waits for the user.
SessionActivityUpdated(s) ==
    /\ ~PreservesActionableState(s)
    /\ SetPhase(s, "running")

-----------------------------------------------------------------------------
(***************************************************************************)
(* ApprovalRouter.handle, one await after another.                         *)
(***************************************************************************)

\* The click is accepted: the record is resolved and dismiss_island is sent
\* in the same step (every approval of the agent has a surface_id).  Without a
\* client the sink raises: while the handler read the task list the connection
\* closed, or the handler of the one before it took the batcher (BridgeServer).
Resolve(h, a, d) ==
    /\ handler[h] = "idle"
    /\ ResolveRecord(a, d)
    /\ handler' = [handler EXCEPT ![h] = IF connected THEN "dismissing" ELSE "failing"]
    /\ claim' = [claim EXCEPT ![h] = a]
    /\ verdict' = [verdict EXCEPT ![h] = d]
    /\ UNCHANGED <<phase, connected, asks, applied, abandoned, cleared>>

Step(h, from, to) ==
    /\ handler[h] = from
    /\ handler' = [handler EXCEPT ![h] = to]
    /\ UNCHANGED <<status, claim, verdict, connected, asks, verdicts, cleared>>

\* The sink's exception leaves handle: nothing after the dismiss happens.
Abandon(h) ==
    /\ Step(h, "failing", "idle")
    /\ abandoned' = abandoned \cup {claim[h]}
    /\ UNCHANGED <<phase, applied>>

\* The decision a handler acts on is in its own copy of the record.
Allowed(h) == verdict[h] = "allow"

ResumePhase(s) == IF phase[s] \in {"absent", "ended"} THEN phase[s] ELSE "running"

\* A hooked approval: its session runs again, and there is nothing to do.
ResumeSession(h) ==
    /\ claim[h] \in Hooked
    /\ Step(h, "dismissing", "idle")
    /\ phase' = [phase EXCEPT ![SessionOf[claim[h]]] = ResumePhase(SessionOf[claim[h]])]
    /\ UNCHANGED <<applied, abandoned>>

CarryOut(h, times) == applied' = [applied EXCEPT ![claim[h]] = @ + times]

\* Faulty variant: the action runs whatever the user decided.
RunAnyComputerAction(h) ==
    /\ claim[h] \in Computer
    /\ Step(h, "dismissing", "feedback")
    /\ CarryOut(h, 1)
    /\ UNCHANGED <<phase, abandoned>>

\* A computer action runs at once, in the router's own step, when allowed.
RunComputerAction(h) ==
    /\ claim[h] \in Computer
    /\ Step(h, "dismissing", "feedback")
    /\ CarryOut(h, IF Allowed(h) THEN 1 ELSE 0)
    /\ UNCHANGED <<phase, abandoned>>

\* Faulty variants: a skipped suggestion is written; an allowed one is not.
WriteAnySuggestion(h) ==
    /\ claim[h] \in Suggestion
    /\ Step(h, "dismissing", "writing")
    /\ UNCHANGED <<phase, applied, abandoned>>

RecordAnySuggestion(h) ==
    /\ claim[h] \in Suggestion
    /\ Step(h, "dismissing", "recording")
    /\ UNCHANGED <<phase, applied, abandoned>>

\* An allowed suggestion is written first; a skipped one is only recorded.
ResolveSuggestion(h) ==
    /\ claim[h] \in Suggestion
    /\ Step(h, "dismissing", IF Allowed(h) THEN "writing" ELSE "recording")
    /\ UNCHANGED <<phase, applied, abandoned>>

\* An approval nobody acts on (the demo's) needs no more than its dismissal.
FinishPlain(h) ==
    /\ claim[h] \notin Hooked \cup OneShot
    /\ Step(h, "dismissing", "idle")
    /\ UNCHANGED <<phase, applied, abandoned>>

\* The profile flush or the task insert returns.
WriteSuggestion(h) ==
    /\ Step(h, "writing", "recording")
    /\ CarryOut(h, 1)
    /\ UNCHANGED <<phase, abandoned>>

\* The database raises out of handle: a task is not there, a memory is, but
\* in the profile's memory only.
FailSuggestion(h) ==
    /\ Step(h, "writing", "idle")
    /\ \E times \in {0, 1} : CarryOut(h, times)
    /\ abandoned' = abandoned \cup {claim[h]}
    /\ UNCHANGED <<phase>>

\* The audit entry is written; its failure is logged and swallowed.
RecordSuggestion(h) ==
    /\ Step(h, "recording", "feedback")
    /\ UNCHANGED <<phase, applied, abandoned>>

\* The status bubble is sent, or raises into the bridge's handler log.
GiveFeedback(h) ==
    /\ Step(h, "feedback", "idle")
    /\ UNCHANGED <<phase, applied, abandoned>>

\* The client's socket closes, or the client is back.
ConnectionChanges ==
    /\ connected' = ~connected
    /\ UNCHANGED <<status, phase, task, history>>

-----------------------------------------------------------------------------

Ask == AskDemo \/ \E a \in Approval : AskOneShot(a) \/ PermissionRequested(a)

AgentEvents ==
    \E s \in Session : \/ QuestionAsked(s)
                       \/ SessionCompleted(s)
                       \/ SessionStarted(s)
                       \/ SessionActivityUpdated(s)

Click == \E h \in Handler, a \in Approval, d \in Decision : Resolve(h, a, d)

Proceed(h) ==
    \/ Abandon(h)
    \/ ResumeSession(h)
    \/ RunComputerAction(h)
    \/ ResolveSuggestion(h)
    \/ FinishPlain(h)
    \/ WriteSuggestion(h)
    \/ FailSuggestion(h)
    \/ RecordSuggestion(h)
    \/ GiveFeedback(h)

Next ==
    \/ Ask
    \/ DemoClear
    \/ AgentEvents
    \/ Click
    \/ \E h \in Handler : Proceed(h)
    \/ ConnectionChanges

Spec == Init /\ [][Next]_vars

\* asyncio resumes every handler whose await is over; nothing else is promised.
FairSpec == Spec /\ \A h \in Handler : WF_vars(Proceed(h))

-----------------------------------------------------------------------------
(***************************************************************************)
(* Properties.                                                             *)
(***************************************************************************)

\* The action behind a one-shot approval is carried out at most once, however
\* the clicks, the overlapping handlers of two connections and the demo's clear
\* interleave: ApprovalStore.resolve accepts one click and refuses the rest.
EffectAtMostOnce == \A a \in OneShot : applied[a] \leq 1

\* No action runs, and no suggestion is written, that the user did not allow, or
\* that was also denied: a handler acts on the record its own click resolved.
EffectNeedsConsent ==
    \A a \in OneShot : applied[a] > 0 => verdicts[a] = {"allow"}

\* Handler h will still write the session of approval a.
Closing(h, a) == claim[h] = a /\ handler[h] \in {"dismissing", "failing"}

\* A session waits for an approval only while one of its approvals is pending or
\* the handler that resolved it is on its way to resume the session.  Left out:
\* sessions of an approval whose handler raised, and the demo's clear.
WaitHasCause ==
    \A s \in Session :
        phase[s] = "waiting_for_approval" /\ ~cleared =>
            \E a \in Hooked :
                /\ SessionOf[a] = s
                /\ \/ status[a] = "pending"
                   \/ a \in abandoned
                   \/ \E h \in Handler : Closing(h, a)

\* An allowed action is eventually carried out, unless its handler raised: the
\* awaits between the click and the effect all return and nothing in between
\* drops the click.
AllowTakesEffect ==
    \A a \in OneShot :
        "allow" \in verdicts[a] ~> applied[a] > 0 \/ a \in abandoned

\* What became of the action behind approval a.
GateOf(a) ==
    CASE applied[a] > 0 -> "done"
      [] applied[a] = 0 /\ "allow" \in verdicts[a] -> "allowed"
      [] applied[a] = 0 /\ verdicts[a] = {"deny"} -> "denied"
      [] applied[a] = 0 /\ verdicts[a] = {} -> IF status[a] = "pending" THEN "asked"
                                               ELSE IF asks[a] = 0 THEN "unasked"
                                               ELSE "withdrawn"

Consent == INSTANCE ConsentGate WITH Id <- OneShot, gate <- [a \in OneShot |-> GateOf(a)]

\* The whole flow implements the consent gate over its one-shot approvals: ask,
\* one answer, at most one release, nothing released without an Allow, and no
\* answered question is ever open again.
ImplementsConsentGate == Consent!GateSpec

\* approvals/router.py, step 2 of the close-loop, says a resolved approval puts
\* its session back to RUNNING; the dismiss before it may raise.
ResolvedSessionResumes ==
    \A a \in Hooked :
        phase[SessionOf[a]] = "waiting_for_approval" /\ ~cleared =>
            \E b \in Hooked :
                /\ SessionOf[b] = SessionOf[a]
                /\ status[b] = "pending" \/ \E h \in Handler : Closing(h, b)
=============================================================================
