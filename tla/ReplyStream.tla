------------------------------ MODULE ReplyStream ------------------------------
(***************************************************************************)
(* Dispatcher.on_user_message with a streaming composer, as far as the     *)
(* screen: a placeholder bubble, the first token that takes its place, and *)
(* patches of the reply's bubble until a last one with the whole text.     *)
(* Both bubbles have ids that every message uses again.                    *)
(*                                                                         *)
(* A connection's handler takes one message after another; a second stream *)
(* beside the first is possible when a connection replaces another.  All   *)
(* bubbles here have the same priority, so BubbleQueue evicts the oldest.  *)
(* The bubbles of other senders are left out (ApprovalSurface has them).   *)
(***************************************************************************)
EXTENDS BubbleQueue, SequencesExt, FiniteSetsExt

CONSTANTS
    MaxMessages,    \* bound: messages of the user
    MaxTokens,      \* bound: tokens of a reply
    MaxLinks,       \* bound: connections
    QueueSize       \* BubbleQueue.maxActive

ASSUME ReplyAssumption ==
    /\ {MaxMessages, MaxTokens} \subseteq Nat
    /\ {MaxLinks, QueueSize} \subseteq Nat \ {0}

UserMessage == 1..MaxMessages
Intent == [kind : {"show", "patch", "dismiss"}, id : {"ack", "reply"}, of : UserMessage, got : 0..MaxTokens]
Balloon == [id : {"ack", "reply"}, of : UserMessage, got : 0..MaxTokens, expired : BOOLEAN]

VARIABLES
    turn,       \* where the handler of a message stands
    tokens,     \* accumulated: how much of the reply there is
    since,      \* the connection on which a message came
    link,       \* the present connection, the linked-th
    linked,     \* a client is connected
    line,       \* intents under way to the client
    balloons,   \* BubbleQueue.entries; expired past the ttl
    lost,       \* history: an intent found no client, or went with its connection
    mixed       \* history: messages whose reply met another's under the same id

replyVars == <<turn, tokens, since, link, linked, line, balloons, lost, mixed>>

ReplyTypeOK ==
    /\ turn \in [UserMessage -> {"unsent", "acked", "swapping", "streaming", "ended"}]
    /\ tokens \in [UserMessage -> 0..MaxTokens]
    /\ since \in [UserMessage -> 0..MaxLinks]
    /\ link \in 1..MaxLinks
    /\ {linked, lost} \subseteq BOOLEAN
    /\ line \in Seq(Intent)
    /\ balloons \in Seq(Balloon) /\ Len(balloons) <= QueueSize
    /\ mixed \subseteq UserMessage

ReplyInit ==
    /\ turn = [m \in UserMessage |-> "unsent"]
    /\ tokens = [m \in UserMessage |-> 0]
    /\ since = [m \in UserMessage |-> 0]
    /\ link = 1 /\ linked = TRUE /\ line = <<>> /\ balloons = <<>>
    /\ lost = FALSE /\ mixed = {}

-----------------------------------------------------------------------------
(***************************************************************************)
(* The agent.                                                              *)
(***************************************************************************)

Say(kind, id, m, n) == line' = Append(line, [kind |-> kind, id |-> id, of |-> m, got |-> n])

\* The sink raises without a client.  In the stream's loop that is caught, and the
\* last patch, which is sent at once, raises again and ends the handler.
Raises(m) ==
    /\ ~linked
    /\ turn' = [turn EXCEPT ![m] = "ended"]
    /\ lost' = TRUE
    /\ UNCHANGED line

UnderWay(m) == turn[m] \in {"acked", "swapping", "streaming"}

\* The message is read and the placeholder sent.
Acknowledge(m) ==
    /\ turn[m] = "unsent" /\ linked
    /\ \A n \in UserMessage : n < m => turn[n] # "unsent"
    /\ \A n \in UserMessage : UnderWay(n) => since[n] < link
    /\ turn' = [turn EXCEPT ![m] = "acked"]
    /\ since' = [since EXCEPT ![m] = link]
    /\ Say("show", "ack", m, 0)
    /\ UNCHANGED <<tokens, link, linked, balloons, lost, mixed>>

\* The first token: the placeholder is dismissed,
FirstToken(m) ==
    /\ turn[m] = "acked" /\ MaxTokens > 0
    /\ tokens' = [tokens EXCEPT ![m] = 1]
    /\ \/ Raises(m)
       \/ /\ linked
          /\ turn' = [turn EXCEPT ![m] = "swapping"]
          /\ Say("dismiss", "ack", m, 0)
          /\ UNCHANGED lost
    /\ UNCHANGED <<since, link, linked, balloons, mixed>>

\* and the reply's bubble is sent.
ShowReply(m) ==
    /\ turn[m] = "swapping"
    /\ \/ Raises(m)
       \/ /\ linked
          /\ turn' = [turn EXCEPT ![m] = "streaming"]
          /\ Say("show", "reply", m, tokens[m])
          /\ UNCHANGED lost
    /\ UNCHANGED <<tokens, since, link, linked, balloons, mixed>>

\* A further token; it is patched in when the flush interval is over.
NextToken(m) ==
    /\ turn[m] = "streaming" /\ tokens[m] < MaxTokens
    /\ tokens' = [tokens EXCEPT ![m] = @ + 1]
    /\ \/ UNCHANGED <<turn, line, lost>>
       \/ Raises(m)
       \/ linked /\ Say("patch", "reply", m, tokens[m] + 1) /\ UNCHANGED <<turn, lost>>
    /\ UNCHANGED <<since, link, linked, balloons, mixed>>

\* Faulty variant: a stream that fails is given up without the last patch.
StreamEndsUnsettled(m) ==
    /\ turn[m] \in {"acked", "streaming"}
    /\ turn' = [turn EXCEPT ![m] = "ended"]
    /\ UNCHANGED <<tokens, since, link, linked, line, balloons, lost, mixed>>

\* The stream is over, or the composer has failed: the whole text so far is patched
\* in.  With no token the placeholder stays.
StreamEnds(m) ==
    /\ \/ /\ turn[m] = "acked"
          /\ turn' = [turn EXCEPT ![m] = "ended"]
          /\ UNCHANGED <<line, lost>>
       \/ turn[m] = "streaming" /\ Raises(m)
       \/ /\ turn[m] = "streaming" /\ linked
          /\ turn' = [turn EXCEPT ![m] = "ended"]
          /\ Say("patch", "reply", m, tokens[m])
          /\ UNCHANGED lost
    /\ UNCHANGED <<tokens, since, link, linked, balloons, mixed>>

-----------------------------------------------------------------------------
(***************************************************************************)
(* The connection, and the client's queue.                                 *)
(***************************************************************************)

Unlink ==
    /\ linked /\ linked' = FALSE
    /\ lost' = (lost \/ line # <<>>)
    /\ line' = <<>>
    /\ UNCHANGED <<turn, tokens, since, link, balloons, mixed>>

Relink ==
    /\ ~linked /\ link < MaxLinks
    /\ linked' = TRUE /\ link' = link + 1
    /\ UNCHANGED <<turn, tokens, since, line, balloons, lost, mixed>>

\* enqueue: prune, append whatever the id, evict the oldest.
Enqueued(q, balloon) ==
    LET full == Append(Unexpired(q), balloon)
    IN IF Len(full) > QueueSize THEN Tail(full) ELSE full

\* update: the first entry with the id takes the text, and keeps its place and ttl.
Patched(q, intent) ==
    LET i == Min(With(q, intent.id))
    IN [q EXCEPT ![i].of = intent.of, ![i].got = intent.got]

\* The messages whose replies the intent brings together under one id.
Meeting(q, intent) ==
    LET others == {b.of : b \in {c \in ToSet(q) : c.id = "reply" /\ c.of # intent.of}}
    IN IF intent.id = "reply" /\ others # {} THEN others \cup {intent.of} ELSE {}

\* The client reads the next intent.
TakeIntent ==
    /\ line # <<>>
    /\ line' = Tail(line)
    /\ LET intent == Head(line)
       IN \/ /\ intent.kind = "show"
             /\ balloons' = Enqueued(balloons, [id |-> intent.id, of |-> intent.of,
                                                got |-> intent.got, expired |-> FALSE])
             /\ mixed' = mixed \cup Meeting(Unexpired(balloons), intent)
          \/ /\ intent.kind = "patch"
             /\ balloons' = IF With(balloons, "reply") = {} THEN balloons ELSE Patched(balloons, intent)
             /\ mixed' = mixed \cup Meeting(balloons, intent)
          \/ /\ intent.kind = "dismiss"
             /\ balloons' = RemoveId(balloons, intent.id)
             /\ UNCHANGED mixed
    /\ UNCHANGED <<turn, tokens, since, link, linked, lost>>

\* A ttl elapses; bubbles of one id have one ttl.
Age(i) ==
    /\ ~balloons[i].expired
    /\ \A j \in With(balloons, balloons[i].id) : j < i => balloons[j].expired
    /\ balloons' = [balloons EXCEPT ![i].expired = TRUE]
    /\ UNCHANGED <<turn, tokens, since, link, linked, line, lost, mixed>>

-----------------------------------------------------------------------------

ReplyNext ==
    \/ \E m \in UserMessage : \/ Acknowledge(m) \/ FirstToken(m) \/ ShowReply(m)
                              \/ NextToken(m) \/ StreamEnds(m)
    \/ Unlink \/ Relink \/ TakeIntent
    \/ \E i \in DOMAIN balloons : Age(i)

ReplySpec == ReplyInit /\ [][ReplyNext]_replyVars

Settled == line = <<>> /\ \A m \in UserMessage : ~UnderWay(m)

\* When nothing is under way and nothing was lost, a message has left on the client
\* its placeholder if no token came, and otherwise its whole reply: _stream_reply
\* patches the last time however the stream ends.  The exception is a reply that met
\* another's, since the second bubble of an id is never patched.
RepliesSettle ==
    Settled /\ ~lost =>
        \A b \in ToSet(balloons) :
            \/ b.id = "ack" /\ tokens[b.of] = 0
            \/ b.id = "reply" /\ (b.got = tokens[b.of] \/ b.of \in mixed)

\* dispatcher.py:229 has the bubble settle on the complete reply, whatever came before.
EveryReplySettles ==
    Settled /\ ~lost =>
        \A b \in ToSet(balloons) : b.id = "reply" => b.got = tokens[b.of]
=============================================================================
