-------------------------------- MODULE PartsMC --------------------------------
(***************************************************************************)
(* The parts that share no state with each other or with the rest, checked *)
(* side by side: a behaviour is one of the part it begins as, the others   *)
(* rest in an initial state of theirs. The ticks are two parts: a user who *)
(* moves between editors for a short while, and one who is away from them  *)
(* for long enough that the window of the nudges rolls.                    *)
(***************************************************************************)
EXTENDS HookInstaller, EnvelopeBatcher, PerceptionTick, Lifecycle, TaskNudges, BuildPill,
        ReconnectingClient, ReplyStream

VARIABLE part

Part == {"installer", "batcher", "tick", "away", "life", "nudges", "pill", "client", "reply"}

\* Bound: the clock while the user moves between editors.
ShortTime == 4

allVars == <<part, installerVars, batcherVars, tickVars, lifeVars, nudgeVars, pillVars, linkVars, replyVars>>

PartsInit ==
    /\ part \in Part
    /\ InstallerInit /\ BatcherInit /\ TickInit /\ LifeInit /\ NudgeInit /\ PillInit /\ ClientInit
    /\ ReplyInit
    /\ part # "installer" => feature = "absent" /\ \A a \in Agent : users[a] = {}
    /\ part # "client" => ~listening
    /\ part # "nudges" => /\ \A e \in Errand : errand[e] = "open"
                          /\ recent = CHOOSE s \in [1..Cardinality(Errand) -> Errand] : ToSet(s) = Errand

PartsNext ==
    \/ /\ part = "installer" /\ InstallerNext
       /\ UNCHANGED <<part, batcherVars, tickVars, lifeVars, nudgeVars, pillVars, linkVars, replyVars>>
    \/ /\ part = "batcher" /\ BatcherNext
       /\ UNCHANGED <<part, installerVars, tickVars, lifeVars, nudgeVars, pillVars, linkVars, replyVars>>
    \/ /\ part = "tick" /\ TickNext /\ now' <= ShortTime
       /\ UNCHANGED <<part, installerVars, batcherVars, lifeVars, nudgeVars, pillVars, linkVars, replyVars>>
    \/ /\ part = "away" /\ TickNext /\ run'.app \in {Away, Broken} /\ losses' = 0
       /\ UNCHANGED <<part, installerVars, batcherVars, lifeVars, nudgeVars, pillVars, linkVars, replyVars>>
    \/ /\ part = "life" /\ LifeNext
       /\ UNCHANGED <<part, installerVars, batcherVars, tickVars, nudgeVars, pillVars, linkVars, replyVars>>
    \/ /\ part = "nudges" /\ NudgeNext
       /\ UNCHANGED <<part, installerVars, batcherVars, tickVars, lifeVars, pillVars, linkVars, replyVars>>
    \/ /\ part = "pill" /\ PillNext
       /\ UNCHANGED <<part, installerVars, batcherVars, tickVars, lifeVars, nudgeVars, linkVars, replyVars>>
    \/ /\ part = "client" /\ ClientNext
       /\ UNCHANGED <<part, installerVars, batcherVars, tickVars, lifeVars, nudgeVars, pillVars, replyVars>>
    \/ /\ part = "reply" /\ ReplyNext
       /\ UNCHANGED <<part, installerVars, batcherVars, tickVars, lifeVars, nudgeVars, pillVars,
                      linkVars>>

\* The fairness of each part's own specification, for the behaviours of it.
PartsFairness ==
    /\ WF_batcherVars(part = "batcher" /\ Run)
    /\ WF_lifeVars(part = "life" /\ LifeProceeds)
    /\ WF_nudgeVars(part = "nudges" /\ ProcessOnce)
    /\ WF_nudgeVars(part = "nudges" /\ PollSleeps)
    /\ WF_pillVars(part = "pill" /\ DrainReport)
    /\ WF_pillVars(part = "pill" /\ SleepersAge)
    /\ WF_pillVars(part = "pill" /\ \E s \in sleepers : DelayedDismiss(s))
    /\ WF_linkVars(part = "client" /\ Proceeds)

PartsSpec == PartsInit /\ [][PartsNext]_allVars /\ PartsFairness
=============================================================================
