-------------------------- MODULE ApprovalFlowProofs --------------------------
(***************************************************************************)
(* Type correctness of ApprovalFlow and the two facts about consent, for   *)
(* any sets of approvals, sessions and handlers.                           *)
(***************************************************************************)
EXTENDS ApprovalFlow, TLAPS

Active(h) == handler[h] # "idle"

\* Only suggestions are written and recorded.
StagesFit == \A h \in Handler : handler[h] \in {"writing", "recording"} => claim[h] \in Suggestion

\* An id nobody asked under is unknown, and one that is open, or was never asked,
\* has no verdict: an id is asked once, so a verdict is never asked for again.
OpenHasNoVerdict ==
    \A a \in OneShot : /\ asks[a] = 0 => status[a] = "none"
                       /\ asks[a] = 0 \/ status[a] = "pending" => verdicts[a] = {}

\* Without a verdict nothing was done and no handler is at work.
VerdictFirst ==
    \A a \in OneShot :
        verdicts[a] = {} => /\ applied[a] = 0
                            /\ \A h \in Handler : Active(h) => claim[h] # a

\* A handler at work has the only verdict there is in its copy of the record.
HandlerHasVerdict ==
    \A h \in Handler :
        Active(h) /\ claim[h] \in OneShot => verdicts[claim[h]] = {verdict[h]}

\* No two handlers work on one one-shot approval.
ClaimsDiffer ==
    \A g, h \in Handler :
        Active(g) /\ Active(h) /\ g # h /\ claim[g] \in OneShot => claim[g] # claim[h]

\* A handler that may still carry out an effect is the first to do so.
EffectAhead ==
    \A h \in Handler :
        handler[h] \in {"dismissing", "writing"} /\ claim[h] \in OneShot
            => applied[claim[h]] = 0

\* Only an allowed suggestion is written.
WriterAllowed == \A h \in Handler : handler[h] = "writing" => verdict[h] = "allow"

IInv ==
    /\ TypeOK
    /\ StagesFit
    /\ OpenHasNoVerdict
    /\ VerdictFirst
    /\ HandlerHasVerdict
    /\ ClaimsDiffer
    /\ EffectAhead
    /\ WriterAllowed
    /\ EffectAtMostOnce
    /\ EffectNeedsConsent

USE DEF Decision, Status, Phase, HandlerState, OneShot

LEMMA InitIInv == Init => IInv
  <1> SUFFICES ASSUME Init PROVE IInv
    OBVIOUS
  <1>1. TypeOK
    <2>1. /\ status \in [Approval -> Status]
          /\ phase \in [Session -> Phase]
          /\ asks \in [Approval -> 0..MaxAsks]
      BY ApprovalAssumption DEF Init
    <2>2. /\ handler \in [Handler -> HandlerState]
          /\ claim \in [Handler -> Approval]
          /\ verdict \in [Handler -> Decision]
      BY ApprovalAssumption DEF Init
    <2>3. verdicts \in [OneShot -> SUBSET Decision] /\ applied \in [OneShot -> Nat]
      BY DEF Init
    <2> QED BY <2>1, <2>2, <2>3 DEF Init, TypeOK
  <1>2. StagesFit /\ OpenHasNoVerdict /\ VerdictFirst
    BY ApprovalAssumption DEF Init, StagesFit, OpenHasNoVerdict, VerdictFirst, Active
  <1>3. HandlerHasVerdict /\ ClaimsDiffer /\ EffectAhead /\ WriterAllowed
    BY ApprovalAssumption
    DEF Init, HandlerHasVerdict, ClaimsDiffer, EffectAhead, WriterAllowed, Active
  <1>4. EffectAtMostOnce /\ EffectNeedsConsent
    BY DEF Init, EffectAtMostOnce, EffectNeedsConsent
  <1> QED BY <1>1, <1>2, <1>3, <1>4 DEF IInv

LEMMA TypeStep == IInv /\ [Next]_vars => TypeOK'
  <1> SUFFICES ASSUME TypeOK, StagesFit, [Next]_vars PROVE TypeOK'
    BY DEF IInv
  <1> USE ApprovalAssumption DEF TypeOK
  <1>1. CASE AskDemo
    BY <1>1 DEF AskDemo, Add, task
  <1>2. ASSUME NEW a \in Approval, AskOneShot(a) PROVE TypeOK'
    BY <1>2 DEF AskOneShot, AskComputerAction, AskSuggestion, AskFor, Add, task
  <1>3. ASSUME NEW a \in Approval, PermissionRequested(a) PROVE TypeOK'
    BY <1>3 DEF PermissionRequested, Hooked, Add, task
  <1>4. CASE DemoClear
    BY <1>4 DEF DemoClear, task
  <1>5. ASSUME NEW s \in Session, NEW p \in Phase, SetPhase(s, p) PROVE TypeOK'
    BY <1>5 DEF SetPhase, task, history
  <1>6. CASE AgentEvents
    BY <1>6, <1>5 DEF AgentEvents, QuestionAsked, SessionCompleted, SessionStarted,
                      SessionActivityUpdated
  <1>7. ASSUME NEW h \in Handler, NEW a \in Approval, NEW d \in Decision, Resolve(h, a, d)
        PROVE  TypeOK'
    BY <1>7 DEF Resolve, ResolveRecord
  <1>8. ASSUME NEW h \in Handler, Proceed(h) PROVE TypeOK'
    <2>1. CASE Abandon(h)
      BY <2>1 DEF Abandon, Step
    <2>2. CASE ResumeSession(h)
      BY <2>2 DEF ResumeSession, Step, Hooked, ResumePhase
    <2>3. CASE RunComputerAction(h)
      BY <2>3 DEF RunComputerAction, Step, CarryOut
    <2>4. CASE ResolveSuggestion(h)
      BY <2>4 DEF ResolveSuggestion, Step
    <2>5. CASE FinishPlain(h)
      BY <2>5 DEF FinishPlain, Step
    <2>6. CASE WriteSuggestion(h)
      BY <2>6 DEF WriteSuggestion, Step, CarryOut, StagesFit
    <2>7. CASE FailSuggestion(h)
      BY <2>7 DEF FailSuggestion, Step, CarryOut, StagesFit
    <2>8. CASE RecordSuggestion(h)
      BY <2>8 DEF RecordSuggestion, Step, StagesFit
    <2>9. CASE GiveFeedback(h)
      BY <2>9 DEF GiveFeedback, Step
    <2> QED BY <1>8, <2>1, <2>2, <2>3, <2>4, <2>5, <2>6, <2>7, <2>8, <2>9 DEF Proceed
  <1>9. CASE ConnectionChanges
    BY <1>9 DEF ConnectionChanges, task, history
  <1>10. CASE UNCHANGED vars
    BY <1>10 DEF vars, task, history
  <1> QED BY <1>1, <1>2, <1>3, <1>4, <1>6, <1>7, <1>8, <1>9, <1>10 DEF Next, Ask, Click
\* The part of IInv that consent rests on.
ConsentInv ==
    /\ StagesFit
    /\ OpenHasNoVerdict
    /\ VerdictFirst
    /\ HandlerHasVerdict
    /\ ClaimsDiffer
    /\ EffectAhead
    /\ WriterAllowed
    /\ EffectAtMostOnce
    /\ EffectNeedsConsent

LEMMA ConsentStep == IInv /\ [Next]_vars => ConsentInv'
  <1> SUFFICES ASSUME TypeOK, ConsentInv, [Next]_vars PROVE ConsentInv'
    BY DEF IInv, ConsentInv
  <1> USE ApprovalAssumption DEF Active
  <1> DEFINE Quiet == UNCHANGED <<status, task, asks, verdicts, applied>>
  <1>1. CASE Quiet
    BY <1>1 DEF ConsentInv, StagesFit, OpenHasNoVerdict, VerdictFirst, HandlerHasVerdict, task,
                ClaimsDiffer, EffectAhead, WriterAllowed, EffectAtMostOnce, EffectNeedsConsent
  <1>2. ASSUME NEW a \in Approval, Add(a), UNCHANGED <<task, verdicts, applied>>,
               a \in OneShot => asks[a] = 0
        PROVE  ConsentInv'
    <2>1. StagesFit' /\ HandlerHasVerdict' /\ ClaimsDiffer' /\ EffectAhead' /\ WriterAllowed'
      BY <1>2 DEF ConsentInv, StagesFit, HandlerHasVerdict, ClaimsDiffer, EffectAhead,
                  WriterAllowed, task
    <2>2. OpenHasNoVerdict'
      BY <1>2 DEF ConsentInv, OpenHasNoVerdict, Add, TypeOK
    <2>3. VerdictFirst' /\ EffectAtMostOnce' /\ EffectNeedsConsent'
      BY <1>2 DEF ConsentInv, VerdictFirst, EffectAtMostOnce, EffectNeedsConsent, task
    <2> QED BY <2>1, <2>2, <2>3 DEF ConsentInv
  <1>3. CASE DemoClear
    BY <1>3 DEF DemoClear, task, ConsentInv, StagesFit, OpenHasNoVerdict, VerdictFirst,
                HandlerHasVerdict, ClaimsDiffer, EffectAhead, WriterAllowed,
                EffectAtMostOnce, EffectNeedsConsent
  <1>4. ASSUME NEW h \in Handler, NEW a \in Approval, NEW d \in Decision, Resolve(h, a, d)
        PROVE  ConsentInv'
    <2> USE <1>4 DEF Resolve, ResolveRecord, TypeOK
    <2>1. a \in OneShot => /\ verdicts[a] = {}
                          /\ applied[a] = 0
                          /\ \A g \in Handler : Active(g) => claim[g] # a
                          /\ verdicts'[a] = {d}
      BY DEF ConsentInv, OpenHasNoVerdict, VerdictFirst
    <2>2. \A b \in OneShot : b # a => verdicts'[b] = verdicts[b]
      OBVIOUS
    <2>3. /\ handler'[h] \in {"dismissing", "failing"}
          /\ claim'[h] = a
          /\ verdict'[h] = d
          /\ \A g \in Handler \ {h} : /\ handler'[g] = handler[g]
                                     /\ claim'[g] = claim[g]
                                     /\ verdict'[g] = verdict[g]
      OBVIOUS
    <2>4. StagesFit' /\ WriterAllowed'
      BY <2>3 DEF ConsentInv, StagesFit, WriterAllowed
    <2>5. OpenHasNoVerdict'
      BY <2>2 DEF ConsentInv, OpenHasNoVerdict
    <2>6. VerdictFirst'
      BY <2>1, <2>2, <2>3 DEF ConsentInv, VerdictFirst
    <2>7. HandlerHasVerdict'
      BY <2>1, <2>2, <2>3 DEF ConsentInv, HandlerHasVerdict
    <2>8. ClaimsDiffer'
      BY <2>1, <2>3 DEF ConsentInv, ClaimsDiffer
    <2>9. EffectAhead'
      BY <2>1, <2>3 DEF ConsentInv, EffectAhead
    <2>10. EffectAtMostOnce' /\ EffectNeedsConsent'
      BY <2>1, <2>2 DEF ConsentInv, EffectAtMostOnce, EffectNeedsConsent
    <2> QED BY <2>4, <2>5, <2>6, <2>7, <2>8, <2>9, <2>10 DEF ConsentInv
  <1>5. ASSUME NEW h \in Handler, NEW from \in HandlerState, NEW to \in HandlerState,
               Step(h, from, to), from # "idle",
               to \in {"writing", "recording"} => claim[h] \in Suggestion,
               to = "writing" => from = "dismissing" /\ Allowed(h),
               to # "dismissing",
               \/ UNCHANGED applied
               \/ /\ claim[h] \in OneShot
                  /\ from \in {"dismissing", "writing"}
                  /\ to \notin {"dismissing", "writing"}
                  /\ Allowed(h)
                  /\ CarryOut(h, 1)
        PROVE  ConsentInv'
    <2> USE <1>5 DEF Step, Allowed, TypeOK
    <2>1. \A g \in Handler \ {h} : handler'[g] = handler[g]
      OBVIOUS
    <2>2. handler'[h] = to /\ handler[h] = from
      OBVIOUS
    <2>3. StagesFit' /\ WriterAllowed'
      BY <2>1, <2>2 DEF ConsentInv, StagesFit, WriterAllowed
    <2>4. OpenHasNoVerdict' /\ HandlerHasVerdict' /\ ClaimsDiffer'
      BY <2>1, <2>2 DEF ConsentInv, OpenHasNoVerdict, HandlerHasVerdict, ClaimsDiffer
    <2>5. CASE UNCHANGED applied
      BY <2>1, <2>2, <2>3, <2>4, <2>5
      DEF ConsentInv, VerdictFirst, EffectAhead, EffectAtMostOnce, EffectNeedsConsent
    <2>6. CASE ~UNCHANGED applied
      <3>1. /\ claim[h] \in OneShot
            /\ applied[claim[h]] = 0
            /\ applied'[claim[h]] = 1
            /\ verdicts[claim[h]] = {"allow"}
            /\ \A a \in OneShot : a # claim[h] => applied'[a] = applied[a]
        BY <2>6 DEF ConsentInv, EffectAhead, HandlerHasVerdict, CarryOut
      <3>2. VerdictFirst'
        BY <2>1, <2>2, <3>1 DEF ConsentInv, VerdictFirst
      <3>3. EffectAhead'
        BY <2>1, <2>2, <2>6, <3>1 DEF ConsentInv, EffectAhead, ClaimsDiffer
      <3>4. EffectAtMostOnce' /\ EffectNeedsConsent'
        BY <3>1 DEF ConsentInv, EffectAtMostOnce, EffectNeedsConsent
      <3> QED BY <2>3, <2>4, <3>2, <3>3, <3>4 DEF ConsentInv
    <2> QED BY <2>5, <2>6
  <1>6. ASSUME NEW h \in Handler, Proceed(h) PROVE ConsentInv'
    <2>1. CASE Abandon(h)
      BY <2>1, <1>5 DEF Abandon
    <2>2. CASE ResumeSession(h)
      BY <2>2, <1>5 DEF ResumeSession
    <2>3. CASE RunComputerAction(h)
      <3>1. CarryOut(h, 0) => UNCHANGED applied
        BY DEF CarryOut, TypeOK
      <3> QED BY <2>3, <1>5, <3>1 DEF RunComputerAction
    <2>4. CASE ResolveSuggestion(h)
      BY <2>4, <1>5 DEF ResolveSuggestion
    <2>5. CASE FinishPlain(h)
      BY <2>5, <1>5 DEF FinishPlain
    <2>6. CASE WriteSuggestion(h)
      BY <2>6, <1>5 DEF WriteSuggestion, Step, ConsentInv, StagesFit, WriterAllowed, Allowed
    <2>7. CASE FailSuggestion(h)
      <3>1. CarryOut(h, 0) => UNCHANGED applied
        BY DEF CarryOut, TypeOK
      <3>2. claim[h] \in OneShot /\ Allowed(h)
        BY <2>7 DEF FailSuggestion, Step, ConsentInv, StagesFit, WriterAllowed, Allowed
      <3> QED BY <2>7, <1>5, <3>1, <3>2 DEF FailSuggestion
    <2>8. CASE RecordSuggestion(h)
      BY <2>8, <1>5 DEF RecordSuggestion
    <2>9. CASE GiveFeedback(h)
      BY <2>9, <1>5 DEF GiveFeedback
    <2> QED BY <1>6, <2>1, <2>2, <2>3, <2>4, <2>5, <2>6, <2>7, <2>8, <2>9 DEF Proceed
  <1>7. CASE Ask
    BY <1>7, <1>2 DEF Ask, AskDemo, AskOneShot, AskComputerAction, AskSuggestion, AskFor, PermissionRequested, Hooked
  <1>8. CASE AgentEvents
    BY <1>8, <1>1 DEF AgentEvents, QuestionAsked, SessionCompleted, SessionStarted,
                      SessionActivityUpdated, SetPhase, history
  <1>9. CASE ConnectionChanges
    BY <1>9, <1>1 DEF ConnectionChanges, history
  <1>10. CASE UNCHANGED vars
    BY <1>10, <1>1 DEF vars, history
  <1> QED BY <1>3, <1>4, <1>6, <1>7, <1>8, <1>9, <1>10 DEF Next, Click

\* Every reachable state satisfies the inductive invariant.
LEMMA Invariance == Spec => []IInv
  <1>1. IInv /\ [Next]_vars => IInv'
    BY TypeStep, ConsentStep DEF IInv, ConsentInv
  <1> QED BY <1>1, InitIInv, PTL DEF Spec

\* The variables keep their types in every reachable state.
THEOREM TypeCorrect == Spec => []TypeOK
  <1>1. IInv => TypeOK
    BY DEF IInv
  <1> QED BY <1>1, Invariance, PTL

\* No action behind an approval is carried out twice, whatever the clicks and the
\* handlers of overlapping connections do.
THEOREM EffectOnce == Spec => []EffectAtMostOnce
  <1>1. IInv => EffectAtMostOnce
    BY DEF IInv
  <1> QED BY <1>1, Invariance, PTL

\* Nothing is carried out that the user did not allow, or also denied.
THEOREM EffectConsented == Spec => []EffectNeedsConsent
  <1>1. IInv => EffectNeedsConsent
    BY DEF IInv
  <1> QED BY <1>1, Invariance, PTL
-----------------------------------------------------------------------------
\* What session s waits for, or who will resume it.
Cause(s, a) ==
    /\ a \in Hooked /\ SessionOf[a] = s
    /\ status[a] = "pending" \/ a \in abandoned \/ \E h \in Handler : Closing(h, a)

\* A step that leaves the phases alone and takes no cause away.
LEMMA CauseKept ==
    ASSUME WaitHasCause, phase' = phase, cleared' = cleared,
           NEW s \in Session, phase'[s] = "waiting_for_approval", ~cleared,
           \A a \in Hooked : Cause(s, a) => Cause(s, a)'
    PROVE  \E a \in Hooked : Cause(s, a)'
  BY DEF WaitHasCause, Cause

LEMMA CauseStep == TypeOK /\ WaitHasCause /\ [Next]_vars => WaitHasCause'
  <1> SUFFICES ASSUME TypeOK, WaitHasCause, [Next]_vars,
                      NEW s \in Session, phase'[s] = "waiting_for_approval", ~cleared'
               PROVE  \E a \in Hooked : Cause(s, a)'
    BY DEF WaitHasCause, Cause, Hooked, Closing
  <1> DEFINE Kept == \A a \in Hooked : Cause(s, a) => Cause(s, a)'
  <1>1. /\ handler \in [Handler -> HandlerState] /\ claim \in [Handler -> Approval]
        /\ status \in [Approval -> Status] /\ phase \in [Session -> Phase]
        /\ Hooked \subseteq Approval /\ \A a \in Hooked : SessionOf[a] \in Session
        /\ Hooked \cap (OneShot \cup {Demo}) = {}
    BY ApprovalAssumption DEF TypeOK, Hooked
  <1>2. ASSUME UNCHANGED <<phase, cleared>>, Kept PROVE \E a \in Hooked : Cause(s, a)'
    BY <1>2, CauseKept
  <1>3. ASSUME NEW b \in Approval, Add(b), UNCHANGED <<phase, task, abandoned, cleared>>
        PROVE  \E a \in Hooked : Cause(s, a)'
    <2>1. Kept
      BY <1>1, <1>3 DEF Cause, Closing, Add, task, Hooked
    <2> QED BY <1>2, <1>3, <2>1
  <1>4. ASSUME NEW b \in Approval, PermissionRequested(b) PROVE \E a \in Hooked : Cause(s, a)'
    <2>1. /\ b \in Hooked /\ status' = [status EXCEPT ![b] = "pending"] /\ status'[b] = "pending"
          /\ phase' = [phase EXCEPT ![SessionOf[b]] = "waiting_for_approval"]
          /\ UNCHANGED <<handler, claim, abandoned, cleared>>
      BY <1>1, <1>4 DEF PermissionRequested, Add, task
    <2>2. CASE s = SessionOf[b]
      BY <2>1, <2>2 DEF Cause, Hooked
    <2>3. CASE s # SessionOf[b]
      <3>1. phase[s] = "waiting_for_approval"
        BY <1>1, <2>1, <2>3
      <3>2. PICK a \in Hooked : Cause(s, a)
        BY <2>1, <3>1 DEF WaitHasCause, Cause
      <3>3. Cause(s, a)'
        BY <1>1, <2>1, <3>2 DEF Cause, Closing, Hooked
      <3> QED BY <3>2, <3>3 DEF Cause, Hooked, Closing
    <2> QED BY <2>2, <2>3
  <1>5. ASSUME NEW t \in Session, NEW p \in Phase \ {"waiting_for_approval"}, SetPhase(t, p)
        PROVE  \E a \in Hooked : Cause(s, a)'
    <2>1. phase[s] = "waiting_for_approval" /\ UNCHANGED <<status, handler, claim, abandoned, cleared>>
      BY <1>1, <1>5 DEF SetPhase, task, history
    <2>2. PICK a \in Hooked : Cause(s, a)
      BY <2>1 DEF WaitHasCause, Cause
    <2>3. Cause(s, a)'
      BY <2>1, <2>2 DEF Cause, Closing, Hooked
    <2> QED BY <2>2, <2>3 DEF Cause, Hooked, Closing
  <1>6. ASSUME NEW h \in Handler, NEW b \in Approval, NEW d \in Decision, Resolve(h, b, d)
        PROVE  \E a \in Hooked : Cause(s, a)'
    <2>1. /\ handler[h] = "idle" /\ UNCHANGED <<phase, abandoned, cleared>>
          /\ status' = [status EXCEPT ![b] = "resolved"]
          /\ handler' = [handler EXCEPT ![h] = handler'[h]] /\ handler'[h] \in {"dismissing", "failing"}
          /\ claim' = [claim EXCEPT ![h] = b] /\ claim'[h] = b
      BY <1>1, <1>6 DEF Resolve, ResolveRecord
    <2>2. ASSUME NEW a \in Hooked, Cause(s, a) PROVE Cause(s, a)'
      <3>1. CASE a = b
        BY <2>1, <2>2, <3>1 DEF Cause, Closing, Hooked
      <3>2. CASE a # b
        BY <1>1, <2>1, <2>2, <3>2 DEF Cause, Closing, Hooked
      <3> QED BY <3>1, <3>2
    <2> QED BY <1>2, <2>1, <2>2 DEF Cause, Closing, Hooked
  <1>7. ASSUME NEW h \in Handler, UNCHANGED <<status, claim, cleared, phase>>,
               handler' = [handler EXCEPT ![h] = handler'[h]], abandoned \subseteq abandoned',
               \/ claim[h] \notin Hooked
               \/ handler[h] \notin {"dismissing", "failing"}
               \/ claim[h] \in abandoned'
        PROVE  \E a \in Hooked : Cause(s, a)'
    <2>1. Kept
      BY <1>1, <1>7 DEF Cause, Closing, Hooked
    <2> QED BY <1>2, <1>7, <2>1
  <1>8. ASSUME NEW h \in Handler, Proceed(h) PROVE \E a \in Hooked : Cause(s, a)'
    <2>1. CASE Abandon(h)
      BY <1>1, <1>7, <2>1 DEF Abandon, Step
    <2>2. CASE ResumeSession(h)
      <3> DEFINE t == SessionOf[claim[h]]
      <3>1. /\ claim[h] \in Hooked /\ UNCHANGED <<status, claim, cleared, abandoned>>
            /\ handler' = [handler EXCEPT ![h] = "idle"]
            /\ phase' = [phase EXCEPT ![t] = ResumePhase(t)] /\ t \in Session
        BY <1>1, <2>2 DEF ResumeSession, Step
      <3>2. s # t /\ phase[s] = "waiting_for_approval"
        BY <1>1, <3>1 DEF ResumePhase
      <3>3. PICK a \in Hooked : Cause(s, a)
        BY <3>1, <3>2 DEF WaitHasCause, Cause
      <3>4. Cause(s, a)'
        BY <1>1, <3>1, <3>2, <3>3 DEF Cause, Closing, Hooked
      <3> QED BY <3>3, <3>4 DEF Cause, Hooked, Closing
    <2>3. CASE RunComputerAction(h)
      BY <1>1, <1>7, <2>3 DEF RunComputerAction, Step
    <2>4. CASE ResolveSuggestion(h)
      BY <1>1, <1>7, <2>4 DEF ResolveSuggestion, Step
    <2>5. CASE FinishPlain(h)
      BY <1>1, <1>7, <2>5 DEF FinishPlain, Step
    <2>6. CASE WriteSuggestion(h) \/ RecordSuggestion(h) \/ GiveFeedback(h)
      BY <1>1, <1>7, <2>6 DEF WriteSuggestion, RecordSuggestion, GiveFeedback, Step
    <2>7. CASE FailSuggestion(h)
      BY <1>1, <1>7, <2>7 DEF FailSuggestion, Step
    <2> QED BY <1>8, <2>1, <2>2, <2>3, <2>4, <2>5, <2>6, <2>7 DEF Proceed
  <1>9. CASE ConnectionChanges \/ UNCHANGED vars
    <2>1. UNCHANGED <<status, phase, handler, claim, abandoned, cleared>>
      BY <1>9 DEF ConnectionChanges, vars, task, history
    <2>2. Kept
      BY <2>1 DEF Cause, Closing, Hooked
    <2> QED BY <1>2, <2>1, <2>2
  <1>10. CASE Ask
    <2>1. CASE AskDemo
      BY <1>3, <2>1, ApprovalAssumption DEF AskDemo
    <2>2. ASSUME NEW b \in Approval, AskOneShot(b) PROVE \E a \in Hooked : Cause(s, a)'
      BY <1>3, <2>2 DEF AskOneShot, AskComputerAction, AskSuggestion, AskFor
    <2> QED BY <1>4, <1>10, <2>1, <2>2 DEF Ask
  <1>11. CASE AgentEvents
    BY <1>5, <1>11 DEF AgentEvents, QuestionAsked, SessionCompleted, SessionStarted, SessionActivityUpdated
  <1>12. ~DemoClear
    BY DEF DemoClear
  <1> QED BY <1>6, <1>8, <1>9, <1>10, <1>11, <1>12 DEF Next, Click

\* A session waits for an approval only while one is pending, a handler that
\* answered one is on its way, or one that answered has raised.
THEOREM WaitsHaveCause == Spec => []WaitHasCause
  <1>1. Init => WaitHasCause
    BY DEF Init, WaitHasCause
  <1>2. IInv => TypeOK
    BY DEF IInv
  <1> QED BY <1>1, <1>2, CauseStep, Invariance, PTL DEF Spec

-----------------------------------------------------------------------------
(***************************************************************************)
(* ApprovalFlow implements ConsentGate.                                    *)
(***************************************************************************)

gateBar == [a \in OneShot |-> GateOf(a)]

LEMMA GateInitially == Init => Consent!GateInit
  <1> SUFFICES ASSUME Init PROVE gateBar = [a \in OneShot |-> "unasked"]
    BY DEF Consent!GateInit, gateBar
  <1> QED BY ApprovalAssumption DEF Init, GateOf, gateBar

\* A step that changes no one-shot approval's fields keeps the gate.
LEMMA GateKept ==
  ASSUME NEW a \in OneShot, status'[a] = status[a], asks'[a] = asks[a],
         verdicts'[a] = verdicts[a], applied'[a] = applied[a]
  PROVE  GateOf(a)' = GateOf(a)
  BY DEF GateOf

LEMMA GateStep == IInv /\ [Next]_vars => [Consent!GateNext]_gateBar
  <1> SUFFICES ASSUME IInv, [Next]_vars PROVE [Consent!GateNext]_gateBar
    OBVIOUS
  <1> USE ApprovalAssumption
  <1>1. CASE UNCHANGED <<status, asks, verdicts, applied>>
    <2>1. UNCHANGED gateBar
      BY <1>1 DEF gateBar, GateOf
    <2> QED BY <2>1
  <1>2. ASSUME NEW a \in Approval, Add(a), UNCHANGED <<verdicts, applied>>,
               a \in OneShot => asks[a] = 0
        PROVE  [Consent!GateNext]_gateBar
    <2>1. \A b \in OneShot : b # a => GateOf(b)' = GateOf(b)
      BY <1>2, GateKept DEF Add, IInv, TypeOK
    <2>2. CASE a \in OneShot
      <3>1. GateOf(a) = "unasked" /\ GateOf(a)' = "asked"
        BY <1>2, <2>2 DEF Add, GateOf, IInv, TypeOK, OpenHasNoVerdict, VerdictFirst
      <3>2. Consent!Ask(a)
        BY <2>1, <2>2, <3>1 DEF Consent!Ask, gateBar
      <3> QED BY <2>2, <3>2 DEF Consent!GateNext, gateBar
    <2>3. CASE a \notin OneShot
      <3>1. UNCHANGED gateBar
        BY <2>1, <2>3 DEF gateBar
      <3> QED BY <3>1
    <2> QED BY <2>2, <2>3
  <1>3. CASE DemoClear
    <2>1. \A a \in OneShot :
             GateOf(a)' = IF GateOf(a) = "asked" THEN "withdrawn" ELSE GateOf(a)
      <3> SUFFICES ASSUME NEW a \in OneShot
                   PROVE  GateOf(a)' = IF GateOf(a) = "asked" THEN "withdrawn" ELSE GateOf(a)
        OBVIOUS
      <3>1. /\ status'[a] = "none"
            /\ status[a] = "pending" => asks[a] # 0
            /\ asks'[a] = asks[a] /\ verdicts'[a] = verdicts[a] /\ applied'[a] = applied[a]
            /\ applied[a] \in Nat /\ verdicts[a] \in SUBSET Decision
        BY <1>3 DEF DemoClear, IInv, OpenHasNoVerdict, TypeOK
      <3> QED BY <3>1 DEF GateOf
    <2>2. Consent!Withdraw
      BY <2>1 DEF Consent!Withdraw, gateBar
    <2> QED BY <2>2 DEF Consent!GateNext, gateBar
  <1>4. ASSUME NEW h \in Handler, NEW a \in Approval, NEW d \in Decision, Resolve(h, a, d)
        PROVE  [Consent!GateNext]_gateBar
    <2> USE <1>4 DEF Resolve, ResolveRecord
    <2>1. \A b \in OneShot : b # a => GateOf(b)' = GateOf(b)
      BY GateKept DEF IInv, TypeOK
    <2>2. CASE a \in OneShot
      <3>1. /\ verdicts[a] = {} /\ applied[a] = 0 /\ applied'[a] = 0
            /\ verdicts'[a] = {d} /\ status[a] = "pending"
        BY <2>2 DEF IInv, TypeOK, OpenHasNoVerdict, VerdictFirst
      <3>2. GateOf(a) = "asked" /\ GateOf(a)' \in {"allowed", "denied"}
        <4>1. GateOf(a) = "asked"
          BY ONLY <3>1 DEF GateOf
        <4>2. CASE d = "allow"
          BY ONLY <3>1, <4>1, <4>2 DEF GateOf
        <4>3. CASE d = "deny"
          BY ONLY <3>1, <4>1, <4>3 DEF GateOf
        <4> QED BY <4>2, <4>3
      <3>3. ASSUME NEW answer \in {"allowed", "denied"}, GateOf(a)' = answer
            PROVE  gateBar' = [gateBar EXCEPT ![a] = answer]
        BY <2>1, <2>2, <3>3 DEF gateBar
      <3>4. Consent!Answer(a)
        BY <2>2, <3>2, <3>3 DEF Consent!Answer, gateBar
      <3> QED BY <2>2, <3>4 DEF Consent!GateNext, gateBar
    <2>3. CASE a \notin OneShot
      <3>1. UNCHANGED gateBar
        BY <2>1, <2>3 DEF gateBar
      <3> QED BY <3>1
    <2> QED BY <2>2, <2>3
  <1>5. ASSUME NEW h \in Handler, NEW a \in OneShot, claim[h] = a, Allowed(h), CarryOut(h, 1),
               handler[h] \in {"dismissing", "writing"}, UNCHANGED <<status, asks, verdicts>>
        PROVE  [Consent!GateNext]_gateBar
    <2>1. \A b \in OneShot : b # a => GateOf(b)' = GateOf(b)
      BY <1>5, GateKept DEF CarryOut, IInv, TypeOK
    <2>2. applied[a] = 0 /\ applied'[a] = 1 /\ verdicts[a] = {"allow"}
      BY <1>5 DEF CarryOut, IInv, TypeOK, EffectAhead, HandlerHasVerdict, Active, Allowed
    <2>3. GateOf(a) = "allowed" /\ GateOf(a)' = "done"
      BY <2>2 DEF GateOf
    <2>4. Consent!Release(a)
      BY <2>1, <2>3 DEF Consent!Release, gateBar
    <2> QED BY <2>4 DEF Consent!GateNext, gateBar
  <1>6. \A h \in Handler : CarryOut(h, 0) => UNCHANGED applied
    BY DEF CarryOut, IInv, TypeOK
  <1>7. ASSUME NEW h \in Handler, Proceed(h) PROVE [Consent!GateNext]_gateBar
    <2> USE DEF Step
    <2>1. CASE Abandon(h) \/ ResumeSession(h) \/ ResolveSuggestion(h) \/ FinishPlain(h)
      BY <2>1, <1>1 DEF Abandon, ResumeSession, ResolveSuggestion, FinishPlain
    <2>2. CASE RecordSuggestion(h) \/ GiveFeedback(h)
      BY <2>2, <1>1 DEF RecordSuggestion, GiveFeedback
    <2>3. CASE RunComputerAction(h)
      BY <2>3, <1>1, <1>5, <1>6 DEF RunComputerAction
    <2>4. CASE WriteSuggestion(h)
      BY <2>4, <1>5 DEF WriteSuggestion, IInv, StagesFit, WriterAllowed, Allowed
    <2>5. CASE FailSuggestion(h)
      <3>1. claim[h] \in OneShot /\ Allowed(h)
        BY <2>5 DEF FailSuggestion, IInv, StagesFit, WriterAllowed, Allowed
      <3> QED BY <2>5, <1>1, <1>5, <1>6, <3>1 DEF FailSuggestion
    <2> QED BY <1>7, <2>1, <2>2, <2>3, <2>4, <2>5 DEF Proceed
  <1>8. CASE Ask
    BY <1>8, <1>2 DEF Ask, AskDemo, AskOneShot, AskComputerAction, AskSuggestion, AskFor, PermissionRequested, Hooked
  <1>9. CASE AgentEvents
    BY <1>9, <1>1 DEF AgentEvents, QuestionAsked, SessionCompleted, SessionStarted,
                      SessionActivityUpdated, SetPhase, history
  <1>10. CASE ConnectionChanges \/ UNCHANGED vars
    BY <1>10, <1>1 DEF ConnectionChanges, vars, history
  <1> QED BY <1>3, <1>4, <1>7, <1>8, <1>9, <1>10 DEF Next, Click

\* The approval flow implements the consent gate: every step of it asks, takes one
\* answer, releases an allowed action once, withdraws open questions, or stutters.
THEOREM FlowImplementsConsentGate == Spec => ImplementsConsentGate
  <1>1. IInv /\ [Next]_vars => [Consent!GateNext]_gateBar
    BY GateStep
  <1> QED BY <1>1, GateInitially, Invariance, PTL
          DEF Spec, ImplementsConsentGate, Consent!GateSpec, gateBar
=============================================================================
