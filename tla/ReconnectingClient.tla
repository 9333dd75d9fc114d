--------------------------- MODULE ReconnectingClient ---------------------------
(***************************************************************************)
(* ReconnectingBridgeClient around BridgeClient (DeskmateCore): one inner  *)
(* client at a time is made by a factory that has already started it; when *)
(* it reports that it is disconnected, or the factory throws, a retry is   *)
(* planned.                                                                *)
(*                                                                         *)
(* Three queues meet here.  The inner client reads its socket on a queue   *)
(* of its own and reports through the main queue to the serial work queue, *)
(* where retries and start run too; stop waits for the work queue from the *)
(* main thread.  An attempt to connect holds the work queue and is two     *)
(* steps, since the inner client can read before its handlers are on it.   *)
(*                                                                         *)
(* A retry fires after a delay of any length: the backoff and its jitter   *)
(* are left out, and so are the envelopes.                                 *)
(***************************************************************************)
EXTENDS Naturals, Sequences, SequencesExt, FiniteSets

CONSTANTS
    MaxClients,     \* bound: inner clients made
    MaxStarts,      \* bound: calls of start
    MaxCrashes      \* bound: ends of the agent

ASSUME ClientAssumption == {MaxClients, MaxStarts, MaxCrashes} \subseteq Nat

Client == 1..MaxClients
NoClient == 0
StartCall == 0      \* the work queue holds calls of start and clients that report

VARIABLES
    listening,  \* the agent accepts connections
    crashes,    \* how often it ended
    ended,      \* clients whose socket the agent has closed
    socket,     \* of each client: "none", "open", "closed", or "lost": open, with nobody to read it
    hears,      \* clients with the wrapper's handlers on them
    trying, inner, linkState,       \* running, current, _state
    attempt,    \* the client the factory has returned and the attempt has not installed
    retry,      \* pendingRetry has yet to fire
    strays,     \* retries yet to fire that pendingRetry has forgotten
    mainQueue, workQueue,
    starts,     \* calls of start
    deaf,       \* history: clients that ended before they had a handler to tell
    overlapped  \* history: a start while an earlier client had yet to report

linkVars == <<listening, crashes, ended, socket, hears, trying, inner, linkState,
                attempt, retry, strays, mainQueue, workQueue, starts, deaf, overlapped>>

ClientTypeOK ==
    /\ {listening, trying, retry, overlapped} \subseteq BOOLEAN
    /\ crashes \in 0..MaxCrashes /\ starts \in 0..MaxStarts /\ strays \in Nat
    /\ socket \in [Client -> {"none", "open", "closed", "lost"}]
    /\ ended \cup hears \cup deaf \subseteq Client
    /\ {inner, attempt} \subseteq Client \cup {NoClient}
    /\ linkState \in {"stopped", "connecting", "connected", "waiting"}
    /\ mainQueue \in Seq(Client) /\ workQueue \in Seq(Client \cup {StartCall})

ClientInit ==
    /\ listening \in BOOLEAN
    /\ trying = FALSE /\ inner = NoClient /\ linkState = "stopped" /\ attempt = NoClient
    /\ socket = [c \in Client |-> "none"]
    /\ ended = {} /\ hears = {} /\ deaf = {}
    /\ retry = FALSE /\ strays = 0 /\ crashes = 0 /\ starts = 0
    /\ mainQueue = <<>> /\ workQueue = <<>> /\ overlapped = FALSE

\* The sockets after the wrapper lets go of its client.  One that is still open is
\* deallocated with its read source, and its descriptor stays open.
Released(c) ==
    [d \in Client |-> IF d = c /\ socket[d] = "open" THEN "lost" ELSE socket[d]]

\* scheduleRetryLocked: the new retry is the one that stop would cancel.
\* `pending` and `left` are the retries that have yet to fire.
ScheduleRetry(pending, left) ==
    /\ linkState' = "waiting"
    /\ retry' = TRUE
    /\ strays' = left + (IF pending THEN 1 ELSE 0)

\* attemptConnectLocked, up to the factory's return; the agent closes the
\* connection it had when it accepts another.
AttemptConnect(pending, left) ==
    IF listening
      THEN \E c \in Client :
            /\ socket[c] = "none" /\ \A d \in 1..(c - 1) : socket[d] # "none"
            /\ socket' = [socket EXCEPT ![c] = "open"]
            /\ ended' = ended \cup {d \in Client : socket[d] \in {"open", "lost"}}
            /\ attempt' = c
            /\ linkState' = "connecting" /\ retry' = pending /\ strays' = left
      ELSE ScheduleRetry(pending, left) /\ UNCHANGED <<socket, ended, attempt>>

\* The handlers go on the new client and it becomes the current one.
Install ==
    /\ attempt # NoClient
    /\ hears' = hears \cup {attempt}
    /\ inner' = attempt /\ attempt' = NoClient
    /\ socket' = Released(inner)
    /\ linkState' = "connected"
    /\ UNCHANGED <<listening, crashes, ended, trying, retry, strays, mainQueue, workQueue,
                   starts, deaf, overlapped>>

Free == attempt = NoClient

FireRetry ==
    /\ Free /\ retry
    /\ IF trying THEN AttemptConnect(FALSE, strays)
                  ELSE retry' = FALSE /\ UNCHANGED <<socket, ended, attempt, linkState, strays>>
    /\ UNCHANGED <<listening, crashes, hears, trying, inner, mainQueue, workQueue,
                   starts, deaf, overlapped>>

FireStray ==
    /\ Free /\ strays > 0
    /\ IF trying THEN AttemptConnect(retry, strays - 1)
                  ELSE strays' = strays - 1 /\ UNCHANGED <<socket, ended, attempt, linkState, retry>>
    /\ UNCHANGED <<listening, crashes, hears, trying, inner, mainQueue, workQueue,
                   starts, deaf, overlapped>>

\* start, on the work queue.
HandleStart ==
    /\ Free /\ workQueue # <<>> /\ Head(workQueue) = StartCall
    /\ workQueue' = Tail(workQueue)
    /\ trying' = TRUE
    /\ IF trying
         THEN UNCHANGED <<socket, ended, attempt, linkState, retry, strays, overlapped>>
         ELSE /\ AttemptConnect(retry, strays)
              /\ overlapped' = (overlapped \/ (ToSet(mainQueue) \cup ToSet(workQueue)) \cap Client # {})
    /\ UNCHANGED <<listening, crashes, hears, inner, mainQueue, starts, deaf>>

\* Faulty variant: the report is taken, and nothing is planned.
HandleReportOnly ==
    /\ Free /\ workQueue # <<>> /\ Head(workQueue) # StartCall
    /\ workQueue' = Tail(workQueue)
    /\ IF trying THEN inner' = NoClient /\ socket' = Released(inner)
                  ELSE UNCHANGED <<inner, socket>>
    /\ UNCHANGED <<listening, crashes, ended, hears, trying, linkState, attempt, retry, strays,
                   mainQueue, starts, deaf, overlapped>>

\* handleClientStateChangeLocked: whoever reports, the current client is dropped.
HandleReport ==
    /\ Free /\ workQueue # <<>> /\ Head(workQueue) # StartCall
    /\ workQueue' = Tail(workQueue)
    /\ IF trying
         THEN inner' = NoClient /\ socket' = Released(inner) /\ ScheduleRetry(retry, strays)
         ELSE UNCHANGED <<inner, socket, linkState, retry, strays>>
    /\ UNCHANGED <<listening, crashes, ended, hears, trying, attempt, mainQueue, starts,
                   deaf, overlapped>>

\* The inner client's callback, on the main queue, hands the report on.
Hop ==
    /\ mainQueue # <<>>
    /\ mainQueue' = Tail(mainQueue)
    /\ workQueue' = Append(workQueue, Head(mainQueue))
    /\ UNCHANGED <<listening, crashes, ended, socket, hears, trying, inner, linkState,
                   attempt, retry, strays, starts, deaf, overlapped>>

\* readAvailable at the end of the stream, or a failed read: teardownLocked.
ReadEnd(c) ==
    /\ socket[c] = "open" /\ c \in ended
    /\ socket' = [socket EXCEPT ![c] = "closed"]
    /\ IF c \in hears THEN mainQueue' = Append(mainQueue, c) /\ UNCHANGED deaf
                      ELSE deaf' = deaf \cup {c} /\ UNCHANGED mainQueue
    /\ UNCHANGED <<listening, crashes, ended, hears, trying, inner, linkState, attempt,
                   retry, strays, workQueue, starts, overlapped>>

Start ==
    /\ starts < MaxStarts
    /\ starts' = starts + 1
    /\ workQueue' = Append(workQueue, StartCall)
    /\ UNCHANGED <<listening, crashes, ended, socket, hears, trying, inner, linkState,
                   attempt, retry, strays, mainQueue, deaf, overlapped>>

\* stop waits until the work queue has done what was there before.
Stop ==
    /\ Free /\ workQueue = <<>> /\ starts > 0
    /\ trying' = FALSE /\ retry' = FALSE
    /\ inner' = NoClient /\ linkState' = "stopped"
    /\ IF inner # NoClient /\ socket[inner] = "open"
         THEN /\ socket' = [socket EXCEPT ![inner] = "closed"]
              /\ mainQueue' = Append(mainQueue, inner)
         ELSE UNCHANGED <<socket, mainQueue>>
    /\ UNCHANGED <<listening, crashes, ended, hears, attempt, strays, workQueue, starts,
                   deaf, overlapped>>

AgentEnds ==
    /\ listening /\ crashes < MaxCrashes
    /\ listening' = FALSE /\ crashes' = crashes + 1
    /\ ended' = {c \in Client : socket[c] # "none"}
    /\ UNCHANGED <<socket, hears, trying, inner, linkState, attempt, retry, strays,
                   mainQueue, workQueue, starts, deaf, overlapped>>

AgentStarts ==
    /\ ~listening /\ listening' = TRUE
    /\ UNCHANGED <<crashes, ended, socket, hears, trying, inner, linkState, attempt, retry,
                   strays, mainQueue, workQueue, starts, deaf, overlapped>>

\* What goes on by itself.
Proceeds == Install \/ HandleStart \/ HandleReport \/ FireRetry \/ FireStray \/ Hop \/ \E c \in Client : ReadEnd(c)

ClientNext == Proceeds \/ Start \/ Stop \/ AgentEnds \/ AgentStarts

\* The queues run what is put on them, timers fire, and a socket at its end is read; that
\* one of these goes on is enough, since only a missing agent lets them go on for ever.
ClientSpec == ClientInit /\ [][ClientNext]_linkVars /\ WF_linkVars(Proceeds)

-----------------------------------------------------------------------------

Linked == inner # NoClient /\ socket[inner] = "open"

\* Once it is to run and the agent stays, the wrapper ends with a client whose socket is
\* open, whatever was lost on the way: attemptConnectLocked and the reports of former
\* clients.  The exception is a client that ended before onStateChange was put on it.
RunningClientConnects ==
    <>[](trying /\ listening) => <>[](Linked \/ inner \in deaf)

\* Unless a start overtook the report of an earlier client, the application never has
\* two sockets to the agent, and none it has forgotten.
OneLink ==
    ~overlapped => Cardinality({c \in Client : socket[c] \in {"open", "lost"}}) <= 1

\* A connected wrapper has a live client, or the report of its end is under way; a
\* stopped one has neither a client nor a retry that would make one.
LinkIsTrue ==
    /\ linkState = "connected" =>
         /\ inner # NoClient
         /\ \/ Linked \/ inner \in deaf
            \/ inner \in ToSet(mainQueue) \cup ToSet(workQueue)
    /\ ~trying => linkState = "stopped" /\ inner = NoClient /\ attempt = NoClient /\ ~retry

\* The wrapper keeps trying to establish and re-establish the link
\* (ReconnectingBridgeClient.swift:9), without the exception above.
LinkIsRestored == <>[](trying /\ listening) => <>[]Linked

\* Never two sockets, however start follows stop.
OneLinkAlways == Cardinality({c \in Client : socket[c] \in {"open", "lost"}}) <= 1
=============================================================================
