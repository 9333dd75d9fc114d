----------------------------- MODULE BridgeServer -----------------------------
(***************************************************************************)
(* The bridge's one-client socket server (bridge/server) and the app hooks *)
(* it calls on connect and disconnect: the fields a client handler shares  *)
(* with the handler of the connection before it, the batchers' buffers,    *)
(* and the heartbeat loops.                                                *)
(*                                                                         *)
(* Every accepted connection runs one _handle_client task.  The tasks share *)
(* _writer, _batcher and _heartbeat_task, and each gives them up in its    *)
(* own finally, three awaits long.  EnvelopeBatcher is here what it        *)
(* promises: a buffer that a timer or a flush writes out, in order.        *)
(***************************************************************************)
EXTENDS Naturals, Sequences

CONSTANTS
    Conn,       \* accepted connections, each with its handler, writer and batcher
    None,
    MaxTraffic  \* bound: requests, intents, pings and pongs

ASSUME BridgeAssumption ==
    /\ None \notin Conn
    /\ MaxTraffic \in Nat

Envelope == {"snapshot", "ready", "intent", "ping", "pong"}
\* absent -> greeting (building the snapshot) -> announcing (ready is next) ->
\* reading <-> serving (a business handler runs) -> flushing -> closing -> gone
HandlerState == {"absent", "greeting", "announcing", "reading", "serving",
                 "flushing", "closing", "gone"}

VARIABLES
    handler,    \* where each connection's _handle_client stands
    peer,       \* connections whose client end is open
    open,       \* connections whose server-side writer is not closing
    writer,     \* _writer
    batcher,    \* _batcher: the connection whose handler created it
    heartbeat,  \* _heartbeat_task: the connection whose handler created it
    beating,    \* connections whose heartbeat loop still runs
    buffer,     \* envelopes pending in each batcher
    received,   \* what was written to each client
    ready,      \* agent_ready_sent
    traffic,    \* history: requests, intents, pings and pongs
    newest,     \* history: the connection accepted last
    overlapped  \* history: a client connected while the handler before it still ran

fields == <<writer, batcher, heartbeat>>
vars == <<handler, peer, open, fields, beating, buffer, received, ready, traffic, newest,
          overlapped>>

TypeOK ==
    /\ handler \in [Conn -> HandlerState]
    /\ peer \subseteq Conn
    /\ open \subseteq Conn
    /\ writer \in Conn \cup {None}
    /\ batcher \in Conn \cup {None}
    /\ heartbeat \in Conn \cup {None}
    /\ beating \subseteq Conn
    /\ buffer \in [Conn -> Seq(Envelope)]
    /\ received \in [Conn -> Seq(Envelope)]
    /\ ready \in BOOLEAN
    /\ traffic \in 0..MaxTraffic
    /\ newest \in Conn \cup {None}
    /\ overlapped \in BOOLEAN

Init ==
    /\ handler = [c \in Conn |-> "absent"]
    /\ peer = {}
    /\ open = {}
    /\ writer = None
    /\ batcher = None
    /\ heartbeat = None
    /\ beating = {}
    /\ buffer = [c \in Conn |-> <<>>]
    /\ received = [c \in Conn |-> <<>>]
    /\ ready = FALSE
    /\ traffic = 0
    /\ newest = None
    /\ overlapped = FALSE

-----------------------------------------------------------------------------
(***************************************************************************)
(* Sending.                                                                *)
(***************************************************************************)

Connected == batcher # None

CountTraffic == traffic < MaxTraffic /\ traffic' = traffic + 1

\* send: the envelope goes to whichever batcher is installed now.
Buffer(envelope) == buffer' = [buffer EXCEPT ![batcher] = Append(@, envelope)]

\* _write_batch: a batch is written to whichever writer is installed now, or
\* dropped when there is none or it is closing.
WriteOut(batch) ==
    received' = IF writer \in open
                THEN [received EXCEPT ![writer] = @ \o batch]
                ELSE received

\* The batcher of c hands over what it holds: its window is over.
FlushWindow(c) ==
    /\ buffer[c] # <<>>
    /\ WriteOut(buffer[c])
    /\ buffer' = [buffer EXCEPT ![c] = <<>>]
    /\ UNCHANGED <<handler, peer, open, fields, beating, ready, traffic, newest, overlapped>>

\* A projector, scheduler or reply sends an intent; without a batcher it raises.
SendIntent ==
    /\ Connected
    /\ CountTraffic
    /\ Buffer("intent")
    /\ UNCHANGED <<handler, peer, open, fields, beating, received, ready, newest, overlapped>>

-----------------------------------------------------------------------------
(***************************************************************************)
(* _handle_client.                                                         *)
(***************************************************************************)

Running(c) == handler[c] \notin {"absent", "gone"}

\* Faulty variant: no heartbeat loop is started.
AcceptWithoutLoop(c) ==
    /\ handler[c] = "absent"
    /\ handler' = [handler EXCEPT ![c] = "greeting"]
    /\ peer' = peer \cup {c}
    /\ open' = (open \ {writer}) \cup {c}
    /\ writer' = c
    /\ batcher' = c
    /\ newest' = c
    /\ overlapped' = (overlapped \/ \E d \in Conn : Running(d))
    /\ UNCHANGED <<heartbeat, beating, buffer, received, ready, traffic>>

\* A connection is accepted: the old writer is closed, all three fields are the
\* new connection's, and the connect hook starts to build the snapshot.
Accept(c) ==
    /\ handler[c] = "absent"
    /\ handler' = [handler EXCEPT ![c] = "greeting"]
    /\ peer' = peer \cup {c}
    /\ open' = (open \ {writer}) \cup {c}
    /\ writer' = c
    /\ batcher' = c
    /\ heartbeat' = c
    /\ beating' = beating \cup {c}
    /\ newest' = c
    /\ overlapped' = (overlapped \/ \E d \in Conn : Running(d))
    /\ UNCHANGED <<buffer, received, ready, traffic>>

\* Faulty variant: agent.ready does not wait for the snapshot.
SendReadyFirst(c) ==
    /\ handler[c] = "greeting"
    /\ Connected
    /\ Buffer("ready")
    /\ handler' = [handler EXCEPT ![c] = "announcing"]
    /\ UNCHANGED <<peer, open, fields, beating, received, ready, traffic, newest, overlapped>>

\* The snapshot is built and sent, then agent.ready.  A send that raises ends
\* the hook; the server logs it and reads on.
SendSnapshot(c) ==
    /\ handler[c] = "greeting"
    /\ \/ /\ Connected
          /\ Buffer("snapshot")
          /\ handler' = [handler EXCEPT ![c] = "announcing"]
       \/ /\ ~Connected
          /\ handler' = [handler EXCEPT ![c] = "reading"]
          /\ UNCHANGED buffer
    /\ UNCHANGED <<peer, open, fields, beating, received, ready, traffic, newest, overlapped>>

SendReady(c) ==
    /\ handler[c] = "announcing"
    /\ handler' = [handler EXCEPT ![c] = "reading"]
    /\ \/ Connected /\ Buffer("ready") /\ ready' = TRUE
       \/ ~Connected /\ UNCHANGED <<buffer, ready>>
    /\ UNCHANGED <<peer, open, fields, beating, received, traffic, newest, overlapped>>

\* What had arrived can still be read after the client left, and after the server
\* closed the transport.
CanRead(c) == handler[c] = "reading"

\* A ping is answered past the window: send, then flush.
AnswerPing(c) ==
    /\ CanRead(c)
    /\ Connected
    /\ CountTraffic
    /\ WriteOut(Append(buffer[batcher], "pong"))
    /\ buffer' = [buffer EXCEPT ![batcher] = <<>>]
    /\ UNCHANGED <<handler, peer, open, fields, beating, ready, newest, overlapped>>

\* A business envelope: its handler awaits databases and the model, for long.
Serve(c) ==
    /\ CanRead(c)
    /\ CountTraffic
    /\ handler' = [handler EXCEPT ![c] = "serving"]
    /\ UNCHANGED <<peer, open, fields, beating, buffer, received, ready, newest, overlapped>>

Served(c) ==
    /\ handler[c] = "serving"
    /\ handler' = [handler EXCEPT ![c] = "reading"]
    /\ UNCHANGED <<peer, open, fields, beating, buffer, received, ready, traffic, newest, overlapped>>

\* End of file, because the client left or the server closed the transport.  The
\* finally cancels the heartbeat task that is installed now and flushes the
\* batcher that is installed now.
EndOfFile(c) ==
    /\ handler[c] = "reading"
    /\ c \notin peer \/ c \notin open
    /\ beating' = beating \ {heartbeat}
    /\ heartbeat' = IF heartbeat \in beating THEN None ELSE heartbeat
    /\ \/ /\ Connected
          /\ WriteOut(buffer[batcher])
          /\ buffer' = [buffer EXCEPT ![batcher] = <<>>]
          /\ handler' = [handler EXCEPT ![c] = "flushing"]
          /\ UNCHANGED open
       \/ /\ ~Connected
          /\ handler' = [handler EXCEPT ![c] = "closing"]
          /\ open' = open \ {c}
          /\ UNCHANGED <<buffer, received>>
    /\ UNCHANGED <<peer, writer, batcher, ready, traffic, newest, overlapped>>

\* The flush is over: no batcher any more, and the writer closes.
DropBatcher(c) ==
    /\ handler[c] = "flushing"
    /\ handler' = [handler EXCEPT ![c] = "closing"]
    /\ batcher' = None
    /\ open' = open \ {c}
    /\ UNCHANGED <<peer, writer, heartbeat, beating, buffer, received, ready, traffic, newest, overlapped>>

\* Faulty variant: every handler clears _writer, whoever's it is.
LeaveWithAnyWriter(c) ==
    /\ handler[c] = "closing"
    /\ handler' = [handler EXCEPT ![c] = "gone"]
    /\ writer' = None
    /\ ready' = FALSE
    /\ UNCHANGED <<peer, open, batcher, heartbeat, beating, buffer, received, traffic, newest, overlapped>>

\* The writer is closed.  It is given up only by its own handler; then the
\* disconnect hook runs.
Leave(c) ==
    /\ handler[c] = "closing"
    /\ handler' = [handler EXCEPT ![c] = "gone"]
    /\ writer' = IF writer = c THEN None ELSE writer
    /\ ready' = FALSE
    /\ UNCHANGED <<peer, open, batcher, heartbeat, beating, buffer, received, traffic, newest, overlapped>>

\* The client closes its end, or its process ends.
ClientLeaves(c) ==
    /\ c \in peer
    /\ peer' = peer \ {c}
    /\ UNCHANGED <<handler, open, fields, beating, buffer, received, ready, traffic, newest, overlapped>>

\* A silent interval is over: the loop ends when there is no open writer, else it
\* sends a ping (or logs that there is no batcher) and sleeps again.
Beat(c) ==
    /\ c \in beating
    /\ \/ /\ writer \notin open
          /\ beating' = beating \ {c}
          /\ UNCHANGED <<buffer, traffic>>
       \/ /\ writer \in open
          /\ Connected
          /\ CountTraffic
          /\ Buffer("ping")
          /\ UNCHANGED beating
    /\ UNCHANGED <<handler, peer, open, fields, received, ready, newest, overlapped>>

-----------------------------------------------------------------------------

HandlerStep(c) ==
    \/ SendSnapshot(c)
    \/ SendReady(c)
    \/ Served(c)
    \/ EndOfFile(c)
    \/ DropBatcher(c)
    \/ Leave(c)

Next ==
    \/ SendIntent
    \/ \E c \in Conn :
          \/ Accept(c)
          \/ AnswerPing(c)
          \/ Serve(c)
          \/ HandlerStep(c)
          \/ FlushWindow(c)
          \/ Beat(c)
          \/ ClientLeaves(c)

Spec == Init /\ [][Next]_vars

\* The loop resumes handlers, timers and heartbeat loops.  No client has to
\* connect, write or leave, and the agent has to send nothing.
FairSpec ==
    /\ Spec
    /\ \A c \in Conn : WF_vars(HandlerStep(c)) /\ WF_vars(FlushWindow(c)) /\ WF_vars(Beat(c))

-----------------------------------------------------------------------------

\* The connection accepted last, from its accept to its own end of file.
Live(c) == c = newest /\ handler[c] \in {"greeting", "announcing", "reading", "serving"}

\* However late the handlers of earlier connections come to their finally, the
\* newest connection keeps _writer: a handler gives up only its own.
NewestKeepsWriter == \A c \in Conn : Live(c) => writer = c

\* _writer never outlives the handler that installed it.
WriterHasHandler == writer # None => Running(writer)

\* One client after another: while a connection is live, send reaches its own
\* batcher and its own heartbeat loop runs, and is the one that its end cancels.
LiveConnectionIsServed ==
    ~overlapped => \A c \in Conn : Live(c) => batcher = c /\ heartbeat = c /\ c \in beating

\* One client after another: each is told agent.ready only after a snapshot, though
\* its handler shares the fields with the remains of the handler before it.
ReadyFollowsSnapshot ==
    ~overlapped => \A c \in Conn : \A i \in 1..Len(received[c]) :
        received[c][i] = "ready" => \E j \in 1..(i - 1) : received[c][j] = "snapshot"

\* The handler of a connection whose client left, or that was replaced, comes to
\* its end, whatever the other handlers do to the fields it cleans up.
StaleHandlerLeaves ==
    \A c \in Conn : Running(c) /\ (c \notin peer \/ c \notin open) ~> handler[c] = "gone"

\* Heartbeat loops do not pile up: when the last handler is gone, the loops that
\* nobody can cancel any more end by themselves.
LoopsEnd == (newest # None /\ \A c \in Conn : ~Running(c)) ~>
                (beating = {} \/ \E c \in Conn : Running(c))

\* bridge/server.py says of a reconnect that the stale connection is dropped
\* cleanly so that the new one is not blocked: a send on it should not raise.
ReconnectIsNotBlocked == \A c \in Conn : Live(c) /\ c \in peer => Connected
=============================================================================
