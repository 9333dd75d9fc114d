--------------------------- MODULE BridgeServerProofs ---------------------------
(***************************************************************************)
(* Who owns the fields that the client handlers share, for any number of   *)
(* connections whose handlers overlap in any way, and that the batcher     *)
(* hands on what it is given, for any senders and flushes.                 *)
(***************************************************************************)
EXTENDS BridgeServer, EnvelopeBatcher, SequenceTheorems, TLAPS

FieldsTyped ==
    /\ handler \in [Conn -> HandlerState]
    /\ {writer, batcher, heartbeat, newest} \subseteq Conn \cup {None}
    /\ overlapped \in BOOLEAN

\* Until two handlers overlap only the newest connection's handler is at work.
OneAtATime == ~overlapped => \A c \in Conn : Running(c) => c = newest

\* Until then nobody has closed a live connection's writer: its heartbeat loop
\* finds it open and goes on.
LiveIsOpen == ~overlapped => \A c \in Conn : Live(c) => c \in open

IInv ==
    /\ FieldsTyped
    /\ NewestKeepsWriter
    /\ WriterHasHandler
    /\ OneAtATime
    /\ LiveIsOpen
    /\ LiveConnectionIsServed

USE DEF HandlerState, Running, Live

LEMMA InitIInv == Init => IInv
  BY BridgeAssumption
  DEF Init, IInv, FieldsTyped, NewestKeepsWriter, WriterHasHandler, OneAtATime, LiveIsOpen,
      LiveConnectionIsServed

\* A step that moves one running handler on, or none, and leaves the fields alone,
\* keeps the invariant when it closes no writer and ends no loop.
LEMMA HandlerMovesOn ==
    ASSUME IInv, NEW c \in Conn, NEW to \in HandlerState,
           Running(c), to \notin {"absent", "gone"},
           to \in {"greeting", "announcing", "reading", "serving"} =>
               handler[c] \in {"greeting", "announcing", "reading", "serving"},
           handler' = [handler EXCEPT ![c] = to] \/ handler' = handler,
           UNCHANGED <<writer, batcher, heartbeat, open, beating, newest, overlapped>>
    PROVE  IInv'
  <1>1. FieldsTyped' /\ WriterHasHandler'
    BY DEF IInv, FieldsTyped, WriterHasHandler
  <1>2. \A d \in Conn : (Live(d))' => Live(d)
    BY DEF IInv, FieldsTyped
  <1>3. \A d \in Conn : (Running(d))' => Running(d)
    BY DEF IInv, FieldsTyped
  <1>4. NewestKeepsWriter' /\ OneAtATime' /\ LiveIsOpen' /\ LiveConnectionIsServed'
    BY <1>2, <1>3 DEF IInv, NewestKeepsWriter, OneAtATime, LiveIsOpen, LiveConnectionIsServed
  <1> QED BY <1>1, <1>4 DEF IInv

\* A step that touches neither handlers nor fields keeps it.
LEMMA NothingMoves ==
    ASSUME IInv,
           UNCHANGED <<handler, writer, batcher, heartbeat, open, beating, newest, overlapped>>
    PROVE  IInv'
  BY DEF IInv, FieldsTyped, NewestKeepsWriter, WriterHasHandler, OneAtATime, LiveIsOpen,
         LiveConnectionIsServed

LEMMA AcceptKeeps == ASSUME IInv, NEW c \in Conn, Accept(c) PROVE IInv'
  <1>1. FieldsTyped' /\ WriterHasHandler'
    BY BridgeAssumption DEF Accept, IInv, FieldsTyped, WriterHasHandler
  <1>2. \A d \in Conn : (Live(d))' => d = c
    BY DEF Accept
  <1>3. NewestKeepsWriter' /\ LiveIsOpen' /\ LiveConnectionIsServed'
    BY <1>2 DEF Accept, NewestKeepsWriter, LiveIsOpen, LiveConnectionIsServed
  <1>4. OneAtATime'
    BY DEF Accept, IInv, FieldsTyped, OneAtATime
  <1> QED BY <1>1, <1>3, <1>4 DEF IInv

\* Nobody but the newest connection's handler is at its end of file while it is
\* live, so that its loop is cancelled and its writer closed by itself alone.
LEMMA EndOfFileKeeps == ASSUME IInv, NEW c \in Conn, EndOfFile(c) PROVE IInv'
  <1>1. /\ handler[c] = "reading"
        /\ handler' = [handler EXCEPT ![c] = "flushing"]
              \/ handler' = [handler EXCEPT ![c] = "closing"]
        /\ heartbeat' = heartbeat \/ heartbeat' = None
        /\ UNCHANGED <<writer, batcher, newest, overlapped>>
    BY DEF EndOfFile
  <1>2. FieldsTyped' /\ WriterHasHandler'
    BY <1>1 DEF IInv, FieldsTyped, WriterHasHandler
  <1>3. /\ \A d \in Conn : (Live(d))' => Live(d) /\ d # c
        /\ \A d \in Conn : (Running(d))' => Running(d)
    BY <1>1 DEF IInv, FieldsTyped
  <1>4. NewestKeepsWriter' /\ OneAtATime'
    BY <1>1, <1>3 DEF IInv, NewestKeepsWriter, OneAtATime
  <1>5. ~overlapped' => \A d \in Conn : ~(Live(d))'
    BY <1>1, <1>3 DEF IInv, OneAtATime
  <1>6. LiveIsOpen' /\ LiveConnectionIsServed'
    BY <1>5 DEF LiveIsOpen, LiveConnectionIsServed
  <1> QED BY <1>2, <1>4, <1>6 DEF IInv

LEMMA DropBatcherKeeps == ASSUME IInv, NEW c \in Conn, DropBatcher(c) PROVE IInv'
  <1>1. /\ handler[c] = "flushing"
        /\ handler' = [handler EXCEPT ![c] = "closing"]
        /\ batcher' = None
        /\ UNCHANGED <<writer, heartbeat, beating, newest, overlapped>>
    BY DEF DropBatcher
  <1>2. FieldsTyped' /\ WriterHasHandler'
    BY <1>1 DEF IInv, FieldsTyped, WriterHasHandler
  <1>3. /\ \A d \in Conn : (Live(d))' => Live(d) /\ d # c
        /\ \A d \in Conn : (Running(d))' => Running(d)
    BY <1>1 DEF IInv, FieldsTyped
  <1>4. NewestKeepsWriter' /\ OneAtATime'
    BY <1>1, <1>3 DEF IInv, NewestKeepsWriter, OneAtATime
  <1>5. ~overlapped' => \A d \in Conn : ~(Live(d))'
    BY <1>1, <1>3 DEF IInv, OneAtATime
  <1>6. LiveIsOpen' /\ LiveConnectionIsServed'
    BY <1>5 DEF LiveIsOpen, LiveConnectionIsServed
  <1> QED BY <1>2, <1>4, <1>6 DEF IInv

\* A handler that leaves takes _writer with it only when it is its own, which it
\* is not when a newer connection is live.
LEMMA LeaveKeeps == ASSUME IInv, NEW c \in Conn, Leave(c) PROVE IInv'
  <1>1. /\ handler[c] = "closing"
        /\ handler' = [handler EXCEPT ![c] = "gone"]
        /\ writer' = IF writer = c THEN None ELSE writer
        /\ UNCHANGED <<batcher, heartbeat, open, beating, newest, overlapped>>
    BY DEF Leave
  <1>2. FieldsTyped' /\ WriterHasHandler'
    BY <1>1 DEF IInv, FieldsTyped, WriterHasHandler
  <1>3. /\ \A d \in Conn : (Live(d))' => Live(d) /\ d # c
        /\ \A d \in Conn : (Running(d))' => Running(d)
    BY <1>1 DEF IInv, FieldsTyped
  <1>4. NewestKeepsWriter' /\ OneAtATime' /\ LiveIsOpen' /\ LiveConnectionIsServed'
    BY <1>1, <1>3
    DEF IInv, NewestKeepsWriter, OneAtATime, LiveIsOpen, LiveConnectionIsServed
  <1> QED BY <1>2, <1>4 DEF IInv

\* A loop ends by itself only when there is no open writer: never that of the live
\* connection while it is the only one.
LEMMA BeatKeeps == ASSUME IInv, NEW c \in Conn, Beat(c) PROVE IInv'
  <1>1. CASE writer \in open
    BY <1>1, NothingMoves DEF Beat, fields
  <1>2. CASE writer \notin open
    <2>1. UNCHANGED <<handler, writer, batcher, heartbeat, open, newest, overlapped>>
      BY DEF Beat, fields
    <2>2. ~overlapped => \A d \in Conn : ~Live(d)
      BY <1>2 DEF IInv, LiveIsOpen, NewestKeepsWriter
    <2> QED
      BY <2>1, <2>2
      DEF IInv, FieldsTyped, NewestKeepsWriter, WriterHasHandler, OneAtATime, LiveIsOpen,
          LiveConnectionIsServed
  <1> QED BY <1>1, <1>2

LEMMA StepIInv == IInv /\ [Next]_vars => IInv'
  <1> SUFFICES ASSUME IInv, [Next]_vars PROVE IInv'
    OBVIOUS
  <1>1. ASSUME NEW c \in Conn, SendSnapshot(c) PROVE IInv'
    <2>1. handler[c] = "greeting" /\ UNCHANGED <<writer, batcher, heartbeat, open, beating, newest, overlapped>>
      BY <1>1 DEF SendSnapshot, fields
    <2>2. CASE Connected
      BY <1>1, <2>1, <2>2, HandlerMovesOn DEF SendSnapshot
    <2>3. CASE ~Connected
      BY <1>1, <2>1, <2>3, HandlerMovesOn DEF SendSnapshot
    <2> QED BY <2>2, <2>3
  <1>2. ASSUME NEW c \in Conn, SendReady(c) PROVE IInv'
    BY <1>2, HandlerMovesOn DEF SendReady, fields
  <1>3. ASSUME NEW c \in Conn, Serve(c) PROVE IInv'
    BY <1>3, HandlerMovesOn DEF Serve, CanRead, fields
  <1>4. ASSUME NEW c \in Conn, Served(c) PROVE IInv'
    BY <1>4, HandlerMovesOn DEF Served, fields
  <1>5. ASSUME NEW c \in Conn, AnswerPing(c) \/ FlushWindow(c) \/ ClientLeaves(c) PROVE IInv'
    BY <1>5, NothingMoves DEF AnswerPing, FlushWindow, ClientLeaves, fields
  <1>6. CASE SendIntent \/ UNCHANGED vars
    BY <1>6, NothingMoves DEF SendIntent, vars, fields
  <1> QED
    BY <1>1, <1>2, <1>3, <1>4, <1>5, <1>6, AcceptKeeps, EndOfFileKeeps, DropBatcherKeeps,
       LeaveKeeps, BeatKeeps
    DEF Next, HandlerStep

LEMMA Invariance == Spec => []IInv
  BY InitIInv, StepIInv, PTL DEF Spec

\* The newest connection keeps _writer until its own end of file, however many
\* stale handlers come to their finally meanwhile.
THEOREM WriterKept == Spec => []NewestKeepsWriter
  BY Invariance, PTL DEF IInv

\* _writer is None or the writer of a handler that has not left.
THEOREM WriterOwned == Spec => []WriterHasHandler
  BY Invariance, PTL DEF IInv

\* As long as every handler leaves before the next client is accepted, the fields
\* of a live connection are its own and its heartbeat loop runs.
THEOREM LiveServed == Spec => []LiveConnectionIsServed
  BY Invariance, PTL DEF IInv

-----------------------------------------------------------------------------
(***************************************************************************)
(* The order in which a client is greeted.                                 *)
(***************************************************************************)

Has(s, envelope) == \E i \in 1..Len(s) : s[i] = envelope
Greeted(s) == \A i \in 1..Len(s) : s[i] = "ready" => \E j \in 1..(i - 1) : s[j] = "snapshot"

MessagesTyped ==
    /\ buffer \in [Conn -> Seq(Envelope)]
    /\ received \in [Conn -> Seq(Envelope)]

\* Only a handler on its way from the greeting to its end has agent.ready in its
\* batcher: what the remains of an earlier one hold may go to any client.
ReadyIsInTime ==
    \A c \in Conn : handler[c] \in {"absent", "greeting", "flushing", "closing", "gone"} =>
                       ~Has(buffer[c], "ready")

\* What a client got is in order, and what waits for it is when it comes next.
MessagesInOrder ==
    \A c \in Conn : /\ Greeted(received[c])
                    /\ Has(received[c], "snapshot") \/ Greeted(buffer[c])

\* A handler that is to announce has sent its snapshot.
SnapshotIsSent ==
    \A c \in Conn : handler[c] = "announcing" =>
                       Has(received[c], "snapshot") \/ Has(buffer[c], "snapshot")

GreetInv ==
    /\ IInv
    /\ MessagesTyped
    /\ ~overlapped => ReadyIsInTime /\ MessagesInOrder /\ SnapshotIsSent

LEMMA Appended ==
    ASSUME NEW s \in Seq(Envelope), NEW e \in Envelope
    PROVE  /\ Append(s, e) \in Seq(Envelope)
           /\ \A x : Has(Append(s, e), x) <=> Has(s, x) \/ e = x
           /\ Greeted(s) /\ (e # "ready" \/ Has(s, "snapshot")) => Greeted(Append(s, e))
  <1>1. /\ Append(s, e) \in Seq(Envelope)
        /\ Len(s) \in Nat /\ Len(Append(s, e)) = Len(s) + 1
        /\ \A i \in 1..Len(s) : Append(s, e)[i] = s[i]
        /\ Append(s, e)[Len(s) + 1] = e
    OBVIOUS
  <1>2. \A x : Has(Append(s, e), x) <=> Has(s, x) \/ e = x
    BY <1>1 DEF Has
  <1>3. ASSUME Greeted(s), e # "ready" \/ Has(s, "snapshot") PROVE Greeted(Append(s, e))
    BY <1>1, <1>3 DEF Greeted, Has
  <1> QED BY <1>1, <1>2, <1>3

LEMMA Joined ==
    ASSUME NEW s \in Seq(Envelope), NEW t \in Seq(Envelope)
    PROVE  /\ s \o t \in Seq(Envelope)
           /\ \A x : Has(s \o t, x) <=> Has(s, x) \/ Has(t, x)
           /\ Greeted(s) /\ (Has(s, "snapshot") \/ Greeted(t)) => Greeted(s \o t)
  <1>1. /\ s \o t \in Seq(Envelope)
        /\ Len(s) \in Nat /\ Len(t) \in Nat /\ Len(s \o t) = Len(s) + Len(t)
        /\ \A i \in 1..Len(s) : (s \o t)[i] = s[i]
        /\ \A i \in 1..Len(t) : (s \o t)[Len(s) + i] = t[i]
    OBVIOUS
  <1>2. \A i \in 1..Len(s \o t) : i \in 1..Len(s) \/ i - Len(s) \in 1..Len(t)
    BY <1>1
  <1>3. ASSUME NEW i \in 1..Len(s \o t), i \notin 1..Len(s)
        PROVE  i - Len(s) \in 1..Len(t) /\ (s \o t)[i] = t[i - Len(s)]
    <2>1. i - Len(s) \in 1..Len(t) /\ i = Len(s) + (i - Len(s))
      BY <1>1, <1>2, <1>3
    <2> QED BY <1>1, <2>1
  <1>4. \A x : Has(s \o t, x) <=> Has(s, x) \/ Has(t, x)
    <2> SUFFICES ASSUME NEW x PROVE Has(s \o t, x) <=> Has(s, x) \/ Has(t, x)
      OBVIOUS
    <2>1. Has(s \o t, x) => Has(s, x) \/ Has(t, x)
      BY <1>1, <1>3 DEF Has
    <2>2. Has(s, x) => Has(s \o t, x)
      BY <1>1 DEF Has
    <2>3. ASSUME Has(t, x) PROVE Has(s \o t, x)
      <3>1. PICK i \in 1..Len(t) : t[i] = x
        BY <2>3 DEF Has
      <3>2. Len(s) + i \in 1..Len(s \o t)
        BY <1>1
      <3> QED BY <1>1, <3>1, <3>2 DEF Has
    <2> QED BY <2>1, <2>2, <2>3
  <1>5. ASSUME Greeted(s), Has(s, "snapshot") \/ Greeted(t) PROVE Greeted(s \o t)
    <2> SUFFICES ASSUME NEW i \in 1..Len(s \o t), (s \o t)[i] = "ready"
                 PROVE  \E j \in 1..(i - 1) : (s \o t)[j] = "snapshot"
      BY DEF Greeted
    <2>1. CASE i \in 1..Len(s)
      <3>1. PICK j \in 1..(i - 1) : s[j] = "snapshot"
        BY <1>1, <1>5, <2>1 DEF Greeted
      <3>2. j \in 1..Len(s)
        BY <1>1, <2>1
      <3> QED BY <1>1, <3>1, <3>2
    <2>2. CASE i \notin 1..Len(s) /\ Has(s, "snapshot")
      <3>1. PICK j \in 1..Len(s) : s[j] = "snapshot"
        BY <2>2 DEF Has
      <3>2. j \in 1..(i - 1)
        BY <1>1, <1>3, <2>2
      <3> QED BY <1>1, <3>1, <3>2
    <2>3. CASE i \notin 1..Len(s) /\ Greeted(t)
      <3>1. i - Len(s) \in 1..Len(t) /\ t[i - Len(s)] = "ready"
        BY <1>3, <2>3
      <3>2. PICK j \in 1..(i - Len(s) - 1) : t[j] = "snapshot"
        BY <2>3, <3>1 DEF Greeted
      <3>3. Len(s) + j \in 1..(i - 1) /\ j \in 1..Len(t)
        BY <1>1, <3>1
      <3> QED BY <1>1, <3>2, <3>3
    <2> QED BY <1>5, <2>1, <2>2, <2>3
  <1> QED BY <1>1, <1>4, <1>5

LEMMA Nothing == Greeted(<<>>) /\ <<>> \in Seq(Envelope) /\ \A x : ~Has(<<>>, x)
  BY DEF Greeted, Has

LEMMA InitGreetInv == Init => GreetInv
  BY InitIInv, Nothing
  DEF Init, GreetInv, MessagesTyped, ReadyIsInTime, MessagesInOrder, SnapshotIsSent

Quiet == {"absent", "greeting", "flushing", "closing", "gone"}
InOrder == ReadyIsInTime /\ MessagesInOrder /\ SnapshotIsSent

\* While handlers do not overlap, the one that runs is the newest connection's and
\* is served by its own batcher and writer until its end of file.
LEMMA OneIsServed ==
    ASSUME IInv, ~overlapped, NEW c \in Conn, handler[c] \notin Quiet \ {"greeting"}
    PROVE  batcher = c /\ writer = c /\ c \in open
  BY DEF IInv, OneAtATime, NewestKeepsWriter, LiveIsOpen, LiveConnectionIsServed, FieldsTyped, Quiet

\* Handlers move on without sending anything.
LEMMA MovesInOrder ==
    ASSUME InOrder, UNCHANGED <<buffer, received>>,
           \A d \in Conn : /\ handler'[d] \in Quiet => handler[d] \in Quiet
                           /\ handler'[d] = "announcing" => handler[d] = "announcing"
    PROVE  InOrder'
  BY DEF InOrder, ReadyIsInTime, MessagesInOrder, SnapshotIsSent, Quiet

\* Anything but agent.ready may be sent at any time.
LEMMA BufferInOrder ==
    ASSUME MessagesTyped, InOrder, NEW d \in Conn, NEW e \in Envelope, e # "ready",
           buffer' = [buffer EXCEPT ![d] = Append(@, e)], received' = received,
           \A x \in Conn : /\ handler'[x] \in Quiet => handler[x] \in Quiet
                           /\ handler'[x] = "announcing" =>
                                  handler[x] = "announcing" \/ (x = d /\ e = "snapshot")
    PROVE  InOrder'
  <1>1. /\ buffer[d] \in Seq(Envelope) /\ buffer'[d] = Append(buffer[d], e)
        /\ \A x \in Conn \ {d} : buffer'[x] = buffer[x]
    BY DEF MessagesTyped
  <1>2. /\ \A x : Has(buffer'[d], x) <=> Has(buffer[d], x) \/ e = x
        /\ Greeted(buffer[d]) => Greeted(buffer'[d])
    BY <1>1, Appended
  <1>3. ReadyIsInTime'
    BY <1>1, <1>2 DEF InOrder, ReadyIsInTime, Quiet
  <1>4. MessagesInOrder'
    BY <1>1, <1>2 DEF InOrder, MessagesInOrder
  <1>5. SnapshotIsSent'
    BY <1>1, <1>2 DEF InOrder, SnapshotIsSent
  <1> QED BY <1>3, <1>4, <1>5 DEF InOrder

\* A batcher hands over what it holds, and maybe a pong, to its own client.
LEMMA WriteInOrder ==
    ASSUME MessagesTyped, InOrder, NEW d \in Conn, NEW batch \in Seq(Envelope),
           batch = buffer[d] \/ batch = Append(buffer[d], "pong"),
           received' = [received EXCEPT ![d] = @ \o batch],
           buffer' = [buffer EXCEPT ![d] = <<>>],
           \A x \in Conn : /\ handler'[x] \in Quiet => handler[x] \in Quiet \/ x = d
                           /\ handler'[x] = "announcing" => handler[x] = "announcing"
    PROVE  InOrder'
  <1>1. /\ buffer[d] \in Seq(Envelope) /\ received[d] \in Seq(Envelope)
        /\ buffer'[d] = <<>> /\ received'[d] = received[d] \o batch
        /\ \A x \in Conn \ {d} : buffer'[x] = buffer[x] /\ received'[x] = received[x]
    BY DEF MessagesTyped
  <1>2. /\ Greeted(buffer[d]) => Greeted(batch)
        /\ Has(buffer[d], "snapshot") => Has(batch, "snapshot")
    BY <1>1, Appended DEF Envelope
  <1>3. /\ \A x : Has(received'[d], x) <=> Has(received[d], x) \/ Has(batch, x)
        /\ Greeted(received[d]) /\ (Has(received[d], "snapshot") \/ Greeted(batch)) => Greeted(received'[d])
    <2>1. received[d] \in Seq(Envelope)
      BY <1>1
    <2>2. /\ \A x : Has(received[d] \o batch, x) <=> Has(received[d], x) \/ Has(batch, x)
          /\ Greeted(received[d]) /\ (Has(received[d], "snapshot") \/ Greeted(batch)) =>
                Greeted(received[d] \o batch)
      BY <2>1, Joined
    <2>3. received'[d] = received[d] \o batch
      BY <1>1
    <2> HIDE DEF Has, Greeted
    <2> QED BY ONLY <2>2, <2>3
  <1>4. ReadyIsInTime'
    BY <1>1, Nothing DEF InOrder, ReadyIsInTime, Quiet
  <1>5. MessagesInOrder'
    BY <1>1, <1>2, <1>3, Nothing DEF InOrder, MessagesInOrder
  <1>6. SnapshotIsSent'
    BY <1>1, <1>2, <1>3 DEF InOrder, SnapshotIsSent
  <1> QED BY <1>4, <1>5, <1>6 DEF InOrder

\* What the remains of a handler wrote down goes to whoever is the client now; it
\* holds no agent.ready.
LEMMA RemainsInOrder ==
    ASSUME MessagesTyped, InOrder, NEW c \in Conn, handler[c] \in Quiet,
           buffer' = [buffer EXCEPT ![c] = <<>>], WriteOut(buffer[c]), handler' = handler
    PROVE  InOrder'
  <1>1. /\ buffer[c] \in Seq(Envelope) /\ ~Has(buffer[c], "ready") /\ Greeted(buffer[c])
        /\ buffer'[c] = <<>>
        /\ \A x \in Conn \ {c} : buffer'[x] = buffer[x]
    BY DEF MessagesTyped, InOrder, ReadyIsInTime, Quiet, Greeted, Has
  <1>2. \A x \in Conn : /\ received'[x] = received[x] \/ received'[x] = received[x] \o buffer[c]
                        /\ received[x] \in Seq(Envelope)
    BY DEF MessagesTyped, WriteOut
  <1>3. ASSUME NEW x \in Conn
        PROVE  /\ Has(received[x], "snapshot") => Has(received'[x], "snapshot")
               /\ Greeted(received[x]) => Greeted(received'[x])
    <2>1. CASE received'[x] = received[x]
      BY <2>1
    <2>2. CASE received'[x] = received[x] \o buffer[c]
      <3>1. /\ Has(received[x], "snapshot") => Has(received[x] \o buffer[c], "snapshot")
            /\ Greeted(received[x]) => Greeted(received[x] \o buffer[c])
        BY <1>1, <1>2, Joined
      <3> QED BY ONLY <2>2, <3>1
    <2> QED BY <1>2, <2>1, <2>2
  <1>4. ReadyIsInTime'
    BY <1>1, Nothing DEF InOrder, ReadyIsInTime
  <1>5. MessagesInOrder'
    BY <1>1, <1>3, Nothing DEF InOrder, MessagesInOrder
  <1>6. SnapshotIsSent'
    BY <1>1, <1>3 DEF InOrder, SnapshotIsSent, Quiet
  <1> QED BY <1>4, <1>5, <1>6 DEF InOrder

LEMMA ReadyInOrder ==
    ASSUME MessagesTyped, InOrder, NEW c \in Conn, handler[c] = "announcing",
           handler' = [handler EXCEPT ![c] = "reading"], handler \in [Conn -> HandlerState],
           buffer' = [buffer EXCEPT ![c] = Append(@, "ready")], received' = received
    PROVE  InOrder'
  <1>1. /\ buffer[c] \in Seq(Envelope) /\ buffer'[c] = Append(buffer[c], "ready")
        /\ \A x \in Conn \ {c} : buffer'[x] = buffer[x]
        /\ "ready" \in Envelope
    BY DEF MessagesTyped, Envelope
  <1>2. /\ Has(buffer[c], "snapshot") => Has(buffer'[c], "snapshot")
        /\ Greeted(buffer[c]) /\ Has(buffer[c], "snapshot") => Greeted(buffer'[c])
    BY <1>1, Appended
  <1>3. Has(received[c], "snapshot") \/ Has(buffer[c], "snapshot")
    BY DEF InOrder, SnapshotIsSent
  <1>4. ReadyIsInTime'
    BY <1>1 DEF InOrder, ReadyIsInTime
  <1>5. MessagesInOrder'
    BY <1>1, <1>2, <1>3 DEF InOrder, MessagesInOrder
  <1>6. SnapshotIsSent'
    BY <1>1, <1>2 DEF InOrder, SnapshotIsSent
  <1> QED BY <1>4, <1>5, <1>6 DEF InOrder

LEMMA StepTyped == GreetInv /\ [Next]_vars => MessagesTyped'
  <1> SUFFICES ASSUME GreetInv, [Next]_vars PROVE MessagesTyped'
    OBVIOUS
  <1>1. /\ MessagesTyped /\ FieldsTyped /\ <<>> \in Seq(Envelope)
        /\ \A c \in Conn : buffer[c] \in Seq(Envelope) /\ received[c] \in Seq(Envelope)
        /\ Connected => batcher \in Conn
        /\ {"snapshot", "ready", "intent", "ping", "pong"} \subseteq Envelope
    BY DEF GreetInv, IInv, FieldsTyped, MessagesTyped, Connected, Envelope
  <1>2. ASSUME NEW e \in Envelope, Connected, Buffer(e), received' = received PROVE MessagesTyped'
    BY <1>1, <1>2, Appended DEF Buffer, MessagesTyped
  <1>3. ASSUME NEW c \in Conn, NEW batch \in Seq(Envelope), WriteOut(batch),
               buffer' = [buffer EXCEPT ![c] = <<>>]
        PROVE  MessagesTyped'
    <2>1. \A x \in Conn : received[x] \o batch \in Seq(Envelope)
      BY <1>1, Joined
    <2>2. received' \in [Conn -> Seq(Envelope)]
      BY <1>1, <1>3, <2>1 DEF WriteOut, MessagesTyped
    <2> QED BY <1>1, <1>3, <2>2 DEF MessagesTyped
  <1>4. ASSUME NEW c \in Conn, AnswerPing(c) PROVE MessagesTyped'
    <2>1. Append(buffer[batcher], "pong") \in Seq(Envelope) /\ batcher \in Conn
      BY <1>1, <1>4, Appended DEF AnswerPing
    <2> QED BY <1>3, <1>4, <2>1 DEF AnswerPing
  <1>5. ASSUME NEW c \in Conn, EndOfFile(c) PROVE MessagesTyped'
    <2>1. CASE Connected
      BY <1>1, <1>3, <1>5, <2>1 DEF EndOfFile
    <2>2. CASE ~Connected
      BY <1>1, <1>5, <2>2 DEF EndOfFile, MessagesTyped
    <2> QED BY <2>1, <2>2
  <1>6. ASSUME NEW c \in Conn, FlushWindow(c) PROVE MessagesTyped'
    BY <1>1, <1>3, <1>6 DEF FlushWindow
  <1>7. CASE UNCHANGED <<buffer, received>>
    BY <1>1, <1>7 DEF MessagesTyped
  <1>8. ASSUME NEW c \in Conn, SendSnapshot(c) \/ SendReady(c) \/ Beat(c) PROVE MessagesTyped'
    BY <1>1, <1>2, <1>7, <1>8 DEF SendSnapshot, SendReady, Beat
  <1>9. CASE SendIntent
    BY <1>1, <1>2, <1>9 DEF SendIntent
  <1>10. ASSUME NEW c \in Conn,
                Accept(c) \/ Serve(c) \/ Served(c) \/ DropBatcher(c) \/ Leave(c) \/ ClientLeaves(c)
         PROVE  MessagesTyped'
    BY <1>7, <1>10 DEF Accept, Serve, Served, DropBatcher, Leave, ClientLeaves
  <1>11. CASE UNCHANGED vars
    BY <1>7, <1>11 DEF vars
  <1> QED
    BY <1>4, <1>5, <1>6, <1>8, <1>9, <1>10, <1>11 DEF Next, HandlerStep

LEMMA StepInOrder == GreetInv /\ [Next]_vars /\ ~overlapped' => InOrder'
  <1> SUFFICES ASSUME GreetInv, [Next]_vars, ~overlapped' PROVE InOrder'
    OBVIOUS
  <1>1. ~overlapped
    BY DEF GreetInv, IInv, FieldsTyped, Next, HandlerStep, SendIntent, Accept, AnswerPing, Serve, Served,
           SendSnapshot, SendReady, EndOfFile, DropBatcher, Leave, FlushWindow, Beat, ClientLeaves, vars
  <1>2. /\ IInv /\ MessagesTyped /\ InOrder /\ handler \in [Conn -> HandlerState]
        /\ Connected => batcher \in Conn
        /\ {"snapshot", "ready", "intent", "ping", "pong"} \subseteq Envelope
    BY <1>1 DEF GreetInv, IInv, FieldsTyped, InOrder, Connected, Envelope
  <1>3. ASSUME NEW c \in Conn, SendSnapshot(c) PROVE InOrder'
    <2>1. batcher = c /\ Connected
      BY <1>1, <1>2, <1>3, OneIsServed, BridgeAssumption DEF SendSnapshot, Quiet, Connected
    <2>2. handler' = [handler EXCEPT ![c] = "announcing"]
      BY <1>3, <2>1 DEF SendSnapshot
    <2> QED BY <1>2, <1>3, <2>1, <2>2, BufferInOrder DEF SendSnapshot, Buffer, Quiet
  <1>4. ASSUME NEW c \in Conn, SendReady(c) PROVE InOrder'
    <2>1. batcher = c /\ Connected
      BY <1>1, <1>2, <1>4, OneIsServed, BridgeAssumption DEF SendReady, Quiet, Connected
    <2> QED BY <1>2, <1>4, <2>1, ReadyInOrder DEF SendReady, Buffer
  <1>5. ASSUME NEW c \in Conn, AnswerPing(c) PROVE InOrder'
    <2>1. batcher = c /\ writer = c /\ c \in open
      BY <1>1, <1>2, <1>5, OneIsServed DEF AnswerPing, CanRead, Quiet
    <2>2. Append(buffer[c], "pong") \in Seq(Envelope)
      BY <1>2, Appended DEF MessagesTyped
    <2> QED BY <1>2, <1>5, <2>1, <2>2, WriteInOrder DEF AnswerPing, WriteOut
  <1>6. ASSUME NEW c \in Conn, EndOfFile(c) PROVE InOrder'
    <2>1. batcher = c /\ writer = c /\ c \in open /\ Connected
      BY <1>1, <1>2, <1>6, OneIsServed, BridgeAssumption DEF EndOfFile, Quiet, Connected
    <2>2. buffer[c] \in Seq(Envelope)
      BY <1>2 DEF MessagesTyped
    <2>3. handler' = [handler EXCEPT ![c] = "flushing"]
      BY <1>6, <2>1 DEF EndOfFile
    <2> QED BY <1>2, <1>6, <2>1, <2>2, <2>3, WriteInOrder DEF EndOfFile, WriteOut
  <1>7. ASSUME NEW c \in Conn, FlushWindow(c) PROVE InOrder'
    <2>1. CASE handler[c] \in Quiet
      BY <1>2, <1>7, <2>1, RemainsInOrder DEF FlushWindow
    <2>2. CASE handler[c] \notin Quiet
      <3>1. writer = c /\ c \in open /\ buffer[c] \in Seq(Envelope)
        BY <1>1, <1>2, <2>2, OneIsServed DEF MessagesTyped
      <3> QED BY <1>2, <1>7, <3>1, WriteInOrder DEF FlushWindow, WriteOut
    <2> QED BY <2>1, <2>2
  <1>8. ASSUME NEW c \in Conn, Beat(c) PROVE InOrder'
    BY <1>2, <1>8, BufferInOrder, MovesInOrder DEF Beat, Buffer
  <1>9. CASE SendIntent
    BY <1>2, <1>9, BufferInOrder DEF SendIntent, Buffer
  <1>10. ASSUME NEW c \in Conn, Accept(c) \/ Serve(c) \/ Served(c) PROVE InOrder'
    BY <1>2, <1>10, MovesInOrder DEF Accept, Serve, Served, CanRead, Quiet
  <1>11. ASSUME NEW c \in Conn, DropBatcher(c) \/ Leave(c) \/ ClientLeaves(c) PROVE InOrder'
    BY <1>2, <1>11, MovesInOrder DEF DropBatcher, Leave, ClientLeaves, Quiet
  <1>12. CASE UNCHANGED vars
    BY <1>2, <1>12, MovesInOrder DEF vars
  <1> QED
    BY <1>3, <1>4, <1>5, <1>6, <1>7, <1>8, <1>9, <1>10, <1>11, <1>12 DEF Next, HandlerStep

LEMMA GreetInvariance == Spec => []GreetInv
  <1>1. GreetInv /\ [Next]_vars => GreetInv'
    BY StepIInv, StepTyped, StepInOrder DEF GreetInv, InOrder
  <1> QED BY InitGreetInv, <1>1, PTL DEF Spec

\* As long as every handler leaves before the next client is accepted, each client
\* reads agent.ready after a snapshot, though what an earlier handler left in its
\* batcher is written to the client that is there.
THEOREM ReadyAfterSnapshot == Spec => []ReadyFollowsSnapshot
  <1>1. GreetInv => ReadyFollowsSnapshot
    BY DEF GreetInv, MessagesInOrder, Greeted, ReadyFollowsSnapshot
  <1> QED BY GreetInvariance, <1>1, PTL

\* The sets of connections, and the two flags the hooks and the bounds keep.
ConnectionsTyped ==
    /\ peer \subseteq Conn /\ open \subseteq Conn /\ beating \subseteq Conn
    /\ ready \in BOOLEAN
    /\ traffic \in 0..MaxTraffic

LEMMA StepConnections == ConnectionsTyped /\ [Next]_vars => ConnectionsTyped'
  <1> SUFFICES ASSUME ConnectionsTyped, [Next]_vars PROVE ConnectionsTyped'
    OBVIOUS
  <1>1. (traffic \in 0..MaxTraffic)'
    <2>1. traffic' = traffic \/ CountTraffic
      BY DEF Next, HandlerStep, vars, SendIntent, Accept, AnswerPing, Serve, Served, SendSnapshot,
             SendReady, EndOfFile, DropBatcher, Leave, FlushWindow, Beat, ClientLeaves
    <2> QED BY <2>1, BridgeAssumption DEF ConnectionsTyped, CountTraffic
  <1>2. ready' \in {ready, TRUE, FALSE}
    BY DEF Next, HandlerStep, vars, SendIntent, Accept, AnswerPing, Serve, Served, SendSnapshot,
           SendReady, EndOfFile, DropBatcher, Leave, FlushWindow, Beat, ClientLeaves
  <1>3. (peer \subseteq Conn)' /\ (open \subseteq Conn)' /\ (beating \subseteq Conn)'
    BY DEF ConnectionsTyped, Next, HandlerStep, vars, SendIntent, Accept, AnswerPing, Serve, Served,
           SendSnapshot, SendReady, EndOfFile, DropBatcher, Leave, FlushWindow, Beat, ClientLeaves
  <1> QED BY <1>1, <1>2, <1>3 DEF ConnectionsTyped

\* On any number of connections and under any traffic: every loop, writer and batcher
\* is a connection's, and what is buffered or read is made of whole envelopes.
THEOREM BridgeTypeCorrect == Spec => []TypeOK
  <1>1. Init => ConnectionsTyped
    <2>1. Init => peer \subseteq Conn /\ open \subseteq Conn /\ beating \subseteq Conn
      BY DEF Init
    <2>2. Init => ready \in BOOLEAN
      BY DEF Init
    <2>3. Init => traffic \in 0..MaxTraffic
      BY BridgeAssumption DEF Init
    <2> QED BY <2>1, <2>2, <2>3 DEF ConnectionsTyped
  <1>2. GreetInv /\ ConnectionsTyped => TypeOK
    BY DEF GreetInv, IInv, FieldsTyped, MessagesTyped, ConnectionsTyped, TypeOK
  <1> QED BY <1>1, <1>2, StepConnections, GreetInvariance, PTL DEF Spec

-----------------------------------------------------------------------------
(***************************************************************************)
(* The batcher: for any senders, flushes and envelopes, the sink is handed *)
(* the calls in their order, and what is pending has somebody on his way.  *)
(***************************************************************************)

\* Nobody is in the lock's queue twice.
WaitersDiffer == \A i, j \in 1..Len(waiters) : waiters[i] = waiters[j] => i = j

\* Whoever holds the lock across an await is a flush or the timer and not in its
\* queue; nothing is collected while the sink writes, and a flush that awaits the
\* timer finds it cancelled or done.
LockIsKept ==
    /\ owner = NoOwner <=> stage = "none"
    /\ owner \notin Sender
    /\ owner # NoOwner => ~Waits(owner)
    /\ stage = "cancelling" => owner \in Flusher /\ timer \in {"cancelled", "done"}
    /\ stage = "writing" => pending = <<>>

\* A timer is cancelled only by a flush that awaits it, and past its sleep it holds
\* the lock or waits for it.
TimerIsKnown ==
    /\ timer = "cancelled" => stage = "cancelling"
    /\ timer = "awake" => owner = Timer \/ Waits(Timer)
    /\ owner = Timer => timer = "awake"
    /\ Waits(Timer) => timer \in {"awake", "cancelled"}

BatcherInv ==
    /\ BatcherTypeOK
    /\ WaitersDiffer
    /\ LockIsKept
    /\ TimerIsKnown
    /\ NoEnvelopeStranded
    /\ CallsInOrder

\* The last part of CallsInOrder: the queue brings its letters in their order.
LettersGrow ==
    \A i, j \in 1..Len(waiters) :
        i < j /\ {waiters[i], waiters[j]} \subseteq Sender =>
            letter[waiters[i]] < letter[waiters[j]]

-----------------------------------------------------------------------------
\* RemoveAt leaves the other positions in their order.
LEMMA RemovedAt ==
    ASSUME NEW S, NEW w \in Seq(S), NEW i \in 1..Len(w)
    PROVE  /\ RemoveAt(w, i) \in Seq(S)
           /\ Len(RemoveAt(w, i)) = Len(w) - 1
           /\ \A j \in 1..(Len(w) - 1) : RemoveAt(w, i)[j] = w[IF j < i THEN j ELSE j + 1]
<1> DEFINE front == SubSeq(w, 1, i - 1)
           back == SubSeq(w, i + 1, Len(w))
<1>1. /\ front \in Seq(S) /\ Len(front) = i - 1
      /\ \A j \in 1..(i - 1) : front[j] = w[j]
  OBVIOUS
<1>2. /\ back \in Seq(S) /\ Len(back) = Len(w) - i
      /\ \A j \in 1..(Len(w) - i) : back[j] = w[i + j]
  OBVIOUS
<1>3. RemoveAt(w, i) = front \o back
  BY DEF RemoveAt
<1> HIDE DEF front, back
<1>4. /\ front \o back \in Seq(S)
      /\ Len(front \o back) = Len(front) + Len(back)
      /\ \A j \in 1..(Len(front) + Len(back)) :
            (front \o back)[j] = IF j <= Len(front) THEN front[j] ELSE back[j - Len(front)]
  BY <1>1, <1>2, ConcatProperties
<1>5. ASSUME NEW j \in 1..(Len(w) - 1)
      PROVE  (front \o back)[j] = w[IF j < i THEN j ELSE j + 1]
  <2>1. CASE j < i
    BY <1>1, <1>2, <1>4, <2>1
  <2>2. CASE ~(j < i)
    <3>1. (front \o back)[j] = back[j - (i - 1)] /\ j - (i - 1) \in 1..(Len(w) - i)
      BY <1>1, <1>2, <1>4, <2>2
    <3>2. back[j - (i - 1)] = w[i + (j - (i - 1))] /\ i + (j - (i - 1)) = j + 1
      BY <1>2, <3>1
    <3> QED BY <2>2, <3>1, <3>2
  <2> QED BY <2>1, <2>2
<1> QED BY <1>1, <1>2, <1>3, <1>4, <1>5

\* A task that joins the lock's queue is its last.
LEMMA OneComes ==
    ASSUME waiters \in Seq(Task), WaitersDiffer, NEW t \in Task, ~Waits(t),
           waiters' = Append(waiters, t)
    PROVE  /\ waiters' \in Seq(Task)
           /\ Len(waiters') = Len(waiters) + 1
           /\ \A i \in 1..Len(waiters) : waiters'[i] = waiters[i]
           /\ waiters'[Len(waiters) + 1] = t
           /\ WaitersDiffer'
           /\ \A u : Waits(u)' <=> Waits(u) \/ u = t
<1>1. /\ waiters' \in Seq(Task) /\ Len(waiters') = Len(waiters) + 1 /\ Len(waiters) \in Nat
      /\ \A i \in 1..Len(waiters) : waiters'[i] = waiters[i]
      /\ waiters'[Len(waiters) + 1] = t
  BY AppendProperties
<1>2. \A i \in 1..Len(waiters') : i \in 1..Len(waiters) \/ i = Len(waiters) + 1
  BY <1>1
<1>3. WaitersDiffer'
  <2>1. \A i \in 1..Len(waiters) : waiters[i] # t
    BY DEF Waits
  <2>2. ASSUME NEW i \in 1..Len(waiters'), NEW j \in 1..Len(waiters'), waiters'[i] = waiters'[j]
        PROVE  i = j
    BY <1>1, <1>2, <2>1, <2>2 DEF WaitersDiffer
  <2> QED BY <2>2 DEF WaitersDiffer
<1>4. ASSUME NEW u PROVE Waits(u)' <=> Waits(u) \/ u = t
  <2>1. \A i \in 1..Len(waiters) : i \in 1..Len(waiters')
    BY <1>1
  <2>2. Len(waiters) + 1 \in 1..Len(waiters')
    BY <1>1
  <2> QED BY <1>1, <1>2, <2>1, <2>2 DEF Waits
<1> QED BY <1>1, <1>3, <1>4

\* One that leaves it, from any place, leaves the others in their order.
LEMMA OneLeaves ==
    ASSUME waiters \in Seq(Task), WaitersDiffer, NEW i \in 1..Len(waiters),
           Len(waiters') = Len(waiters) - 1,
           \A j \in 1..(Len(waiters) - 1) : waiters'[j] = waiters[IF j < i THEN j ELSE j + 1]
    PROVE  /\ WaitersDiffer'
           /\ \A u : Waits(u)' <=> Waits(u) /\ u # waiters[i]
           /\ \A j, k \in 1..Len(waiters') :
                j < k => \E a, b \in 1..Len(waiters) :
                            /\ a < b /\ a # i /\ b # i
                            /\ waiters'[j] = waiters[a] /\ waiters'[k] = waiters[b]
<1> DEFINE at(j) == IF j < i THEN j ELSE j + 1
           N == Len(waiters)
<1>0. N \in Nat /\ i \in 1..N /\ Len(waiters') = N - 1
  OBVIOUS
<1>1. /\ \A j \in 1..(N - 1) : at(j) \in 1..N /\ at(j) # i /\ waiters'[j] = waiters[at(j)]
      /\ \A j, k \in 1..(N - 1) : j < k => at(j) < at(k)
      /\ \A j, k \in 1..(N - 1) : at(j) = at(k) => j = k
  BY <1>0
<1>2. \A a \in 1..N : a # i => \E j \in 1..(N - 1) : at(j) = a
  <2> SUFFICES ASSUME NEW a \in 1..N, a # i PROVE \E j \in 1..(N - 1) : at(j) = a
    OBVIOUS
  <2>1. CASE a < i
    <3>1. a \in 1..(N - 1) /\ at(a) = a
      BY <1>0, <2>1
    <3> QED BY <3>1
  <2>2. CASE ~(a < i)
    <3>1. a - 1 \in 1..(N - 1) /\ at(a - 1) = a
      BY <1>0, <2>2
    <3> QED BY <3>1
  <2> QED BY <2>1, <2>2
<1> HIDE DEF at
<1>3. WaitersDiffer'
  <2>1. ASSUME NEW j \in 1..(N - 1), NEW k \in 1..(N - 1), waiters'[j] = waiters'[k] PROVE j = k
    <3>1. /\ at(j) \in 1..N /\ at(k) \in 1..N
          /\ waiters'[j] = waiters[at(j)] /\ waiters'[k] = waiters[at(k)]
      BY <1>1
    <3>2. at(j) = at(k)
      BY <2>1, <3>1 DEF WaitersDiffer
    <3> QED BY <1>1, <3>2
  <2> QED BY <1>0, <2>1 DEF WaitersDiffer
<1>4. ASSUME NEW u PROVE Waits(u)' <=> Waits(u) /\ u # waiters[i]
  <2>1. ASSUME Waits(u)' PROVE Waits(u) /\ u # waiters[i]
    <3>1. PICK j \in 1..(N - 1) : waiters'[j] = u
      BY <1>0, <2>1 DEF Waits
    <3>2. at(j) \in 1..N /\ at(j) # i /\ waiters[at(j)] = u
      BY <1>1, <3>1
    <3> QED BY <1>0, <3>2 DEF Waits, WaitersDiffer
  <2>2. ASSUME Waits(u), u # waiters[i] PROVE Waits(u)'
    <3>1. PICK a \in 1..N : waiters[a] = u
      BY <2>2 DEF Waits
    <3>2. PICK j \in 1..(N - 1) : at(j) = a
      BY <1>2, <2>2, <3>1
    <3>3. waiters'[j] = u
      BY <1>1, <3>1, <3>2
    <3> QED BY <1>0, <3>3 DEF Waits
  <2> QED BY <2>1, <2>2
<1>5. ASSUME NEW j \in 1..(N - 1), NEW k \in 1..(N - 1), j < k
      PROVE  \E a, b \in 1..N :
                /\ a < b /\ a # i /\ b # i
                /\ waiters'[j] = waiters[a] /\ waiters'[k] = waiters[b]
  <2>1. /\ at(j) \in 1..N /\ at(k) \in 1..N /\ at(j) < at(k) /\ at(j) # i /\ at(k) # i
        /\ waiters'[j] = waiters[at(j)] /\ waiters'[k] = waiters[at(k)]
    BY <1>1, <1>5
  <2> QED BY <2>1
<1> QED BY <1>0, <1>3, <1>4, <1>5

\* The first leaves it when the lock is his.
LEMMA FirstLeaves ==
    ASSUME waiters \in Seq(Task), WaitersDiffer, waiters # <<>>, waiters' = Tail(waiters)
    PROVE  /\ waiters' \in Seq(Task)
           /\ WaitersDiffer'
           /\ Head(waiters) = waiters[1] /\ 1 \in 1..Len(waiters)
           /\ \A u : Waits(u)' <=> Waits(u) /\ u # Head(waiters)
           /\ \A j, k \in 1..Len(waiters') :
                j < k => \E a, b \in 1..Len(waiters) :
                            /\ a < b /\ a # 1 /\ b # 1
                            /\ waiters'[j] = waiters[a] /\ waiters'[k] = waiters[b]
<1>1. /\ waiters' \in Seq(Task) /\ Len(waiters') = Len(waiters) - 1
      /\ \A j \in 1..Len(waiters') : waiters'[j] = waiters[j + 1]
  BY HeadTailProperties
<1>2. 1 \in 1..Len(waiters) /\ Head(waiters) = waiters[1] /\ Len(waiters) \in Nat
  OBVIOUS
<1>3. \A j \in 1..(Len(waiters) - 1) : waiters'[j] = waiters[IF j < 1 THEN j ELSE j + 1]
  BY <1>1, <1>2
<1> QED BY <1>1, <1>2, <1>3, OneLeaves

\* What is written and pending is in order.
Numbered(w) == w = [i \in 1..Len(w) |-> i]

\* An envelope appended in its turn.
LEMMA NumberedAppend ==
    ASSUME NEW h \in Seq(1..MaxEnvelopes), NEW p \in Seq(1..MaxEnvelopes),
           NEW e \in 1..MaxEnvelopes, Numbered(h \o p), e = Len(h \o p) + 1
    PROVE  Numbered(h \o Append(p, e)) /\ Len(h \o Append(p, e)) = e
<1> DEFINE S == 1..MaxEnvelopes
<1>0. h \in Seq(S) /\ p \in Seq(S) /\ e \in S
  OBVIOUS
<1> HIDE DEF S
<1> DEFINE w == h \o p
           v == h \o Append(p, e)
<1>1. /\ w \in Seq(S) /\ Len(w) = Len(h) + Len(p)
      /\ \A i \in 1..(Len(h) + Len(p)) : w[i] = IF i <= Len(h) THEN h[i] ELSE p[i - Len(h)]
  BY <1>0, ConcatProperties
<1>2. /\ Append(p, e) \in Seq(S) /\ Len(Append(p, e)) = Len(p) + 1
      /\ \A i \in 1..Len(p) : Append(p, e)[i] = p[i]
      /\ Append(p, e)[Len(p) + 1] = e
  BY <1>0, AppendProperties
<1> DEFINE q == Append(p, e)
<1>3. q \in Seq(S) /\ Len(q) = Len(p) + 1 /\ v = h \o q
  BY <1>0, <1>2
<1>4. (\A i \in 1..Len(p) : q[i] = p[i]) /\ q[Len(p) + 1] = e
  BY <1>2
<1> HIDE DEF q
<1>5. /\ h \o q \in Seq(S) /\ Len(h \o q) = Len(h) + Len(q)
      /\ \A i \in 1..(Len(h) + Len(q)) : (h \o q)[i] = IF i <= Len(h) THEN h[i] ELSE q[i - Len(h)]
  BY <1>0, <1>3, ConcatProperties
<1>6. v \in Seq(S) /\ Len(v) = Len(w) + 1 /\ Len(h) \in Nat /\ Len(p) \in Nat
  BY <1>1, <1>3, <1>5
<1>7. \A i \in 1..Len(w) : w[i] = i
  BY Zenon DEF Numbered
<1>8. ASSUME NEW i \in 1..Len(v) PROVE v[i] = i
  <2>1. CASE i <= Len(h)
    BY <1>1, <1>3, <1>5, <1>6, <1>7, <2>1
  <2>2. CASE Len(h) < i /\ i <= Len(w)
    <3>1. i - Len(h) \in 1..Len(p) /\ v[i] = q[i - Len(h)]
      BY <1>1, <1>3, <1>5, <1>6, <2>2
    <3>2. w[i] = p[i - Len(h)] /\ w[i] = i
      BY <1>1, <1>6, <1>7, <2>2
    <3> QED BY <1>4, <3>1, <3>2
  <2>3. CASE i = Len(w) + 1
    <3>1. v[i] = q[i - Len(h)] /\ i - Len(h) = Len(p) + 1
      BY <1>1, <1>3, <1>5, <1>6, <2>3
    <3> QED BY <1>4, <2>3, <3>1
  <2> QED BY <1>1, <1>6, <2>1, <2>2, <2>3
<1> HIDE DEF v
<1>9. v = [i \in 1..Len(v) |-> i]
  <2>1. v = [i \in 1..Len(v) |-> v[i]]
    BY <1>6
  <2> QED BY <1>8, <2>1
<1> USE DEF v
<1> QED BY <1>6, <1>9 DEF Numbered

\* A batch that is handed on.
LEMMA NumberedHanded ==
    ASSUME NEW h \in Seq(1..MaxEnvelopes), NEW p \in Seq(1..MaxEnvelopes)
    PROVE  (h \o p) \o <<>> = h \o p /\ h \o p \in Seq(1..MaxEnvelopes)
<1>1. h \o p \in Seq(1..MaxEnvelopes)
  BY ConcatProperties
<1> QED BY <1>1, ConcatEmptySeq

-----------------------------------------------------------------------------
\* While the queue's senders stay and what is written and pending is the same.
LEMMA SameOrder ==
    ASSUME CallsInOrder, UNCHANGED <<calls, letter>>, handed' \o pending' = handed \o pending,
           \A s \in Sender : Waits(s)' <=> Waits(s), LettersGrow'
    PROVE  CallsInOrder'
<1>1. Waiting' = Waiting
  BY DEF Waiting
<1> QED BY <1>1 DEF CallsInOrder, LettersGrow

\* A task that is no sender joins the queue, or leaves it.
LEMMA NoSenderCame ==
    ASSUME waiters \in Seq(Task), WaitersDiffer, NEW t \in Task, t \notin Sender, ~Waits(t),
           waiters' = Append(waiters, t), CallsInOrder, UNCHANGED <<calls, letter, handed, pending>>
    PROVE  CallsInOrder'
<1>1. /\ Len(waiters') = Len(waiters) + 1 /\ Len(waiters) \in Nat
      /\ \A i \in 1..Len(waiters) : waiters'[i] = waiters[i]
      /\ waiters'[Len(waiters) + 1] = t
      /\ \A u : Waits(u)' <=> Waits(u) \/ u = t
  BY OneComes
<1>2. LettersGrow'
  <2>1. ASSUME NEW i \in 1..Len(waiters'), NEW j \in 1..Len(waiters'), i < j,
               {waiters'[i], waiters'[j]} \subseteq Sender
        PROVE  letter[waiters'[i]] < letter[waiters'[j]]
    <3>1. j # Len(waiters) + 1
      BY <1>1, <2>1
    <3>2. i \in 1..Len(waiters) /\ j \in 1..Len(waiters)
      BY <1>1, <2>1, <3>1
    <3> QED BY <1>1, <2>1, <3>2 DEF CallsInOrder
  <2> QED BY <2>1 DEF LettersGrow
<1>3. \A s \in Sender : Waits(s)' <=> Waits(s)
  BY <1>1
<1> QED BY <1>2, <1>3, SameOrder

LEMMA NoSenderWent ==
    ASSUME NEW i \in 1..Len(waiters), waiters[i] \notin Sender, CallsInOrder,
           \A u : Waits(u)' <=> Waits(u) /\ u # waiters[i],
           \A j, k \in 1..Len(waiters') :
                j < k => \E a, b \in 1..Len(waiters) :
                            /\ a < b /\ a # i /\ b # i
                            /\ waiters'[j] = waiters[a] /\ waiters'[k] = waiters[b],
           UNCHANGED <<calls, letter>>, handed' \o pending' = handed \o pending
    PROVE  CallsInOrder'
<1>1. LettersGrow'
  <2>1. ASSUME NEW j \in 1..Len(waiters'), NEW k \in 1..Len(waiters'), j < k,
               {waiters'[j], waiters'[k]} \subseteq Sender
        PROVE  letter[waiters'[j]] < letter[waiters'[k]]
    <3>1. PICK a \in 1..Len(waiters), b \in 1..Len(waiters) :
             a < b /\ waiters'[j] = waiters[a] /\ waiters'[k] = waiters[b]
      BY <2>1
    <3> QED BY <2>1, <3>1 DEF CallsInOrder
  <2> QED BY <2>1 DEF LettersGrow
<1>2. \A s \in Sender : Waits(s)' <=> Waits(s)
  OBVIOUS
<1> QED BY <1>1, <1>2, SameOrder

\* enqueue under the lock (EnvelopeBatcher.enqueue): the window task it starts, or
\* the one it leaves, will come for the envelope.
LEMMA Collected ==
    ASSUME BatcherInv, owner = NoOwner, NEW e \in 1..MaxEnvelopes, Collect(e),
           Waits(Timer)' <=> Waits(Timer), UNCHANGED <<owner, stage>>
    PROVE  /\ pending' \in Seq(1..MaxEnvelopes) /\ timer' \in SleepState
           /\ LockIsKept' /\ TimerIsKnown' /\ NoEnvelopeStranded'
<1>1. stage = "none" /\ timer # "cancelled" /\ owner # Timer
  BY BatcherAssumption DEF BatcherInv, LockIsKept, TimerIsKnown
<1>2. timer' = (IF timer = "done" THEN "sleeping" ELSE timer) /\ pending' = Append(pending, e)
  BY DEF Collect
<1>3. pending' \in Seq(1..MaxEnvelopes) /\ timer' \in SleepState
  BY <1>2 DEF BatcherInv, BatcherTypeOK, SleepState
<1>4. LockIsKept'
  BY <1>1 DEF BatcherInv, LockIsKept
<1>5. TimerIsKnown'
  BY <1>1, <1>2 DEF BatcherInv, TimerIsKnown
<1>6. NoEnvelopeStranded'
  BY <1>1, <1>2 DEF BatcherInv, BatcherTypeOK, SleepState, TimerIsKnown, NoEnvelopeStranded
<1> QED BY <1>3, <1>4, <1>5, <1>6

\* The batch is handed on by a task that has the lock.
LEMMA Flushed ==
    ASSUME BatcherTypeOK, NEW t \in Flusher \cup {Timer}, FlushNow(t)
    PROVE  /\ pending' = <<>> /\ pending' \in Seq(1..MaxEnvelopes)
           /\ handed' \in Seq(1..MaxEnvelopes)
           /\ handed' \o pending' = handed \o pending
           /\ owner' \in {NoOwner, t} /\ stage' \in {"none", "writing"}
           /\ owner' = NoOwner <=> stage' = "none"
           /\ owner' = NoOwner <=> pending = <<>>
<1>1. t # NoOwner
  BY BatcherAssumption
<1>2. /\ pending' = <<>> /\ handed' = handed \o pending
      /\ owner' = (IF pending = <<>> THEN NoOwner ELSE t)
      /\ stage' = (IF pending = <<>> THEN "none" ELSE "writing")
  BY DEF FlushNow
<1>3. handed \in Seq(1..MaxEnvelopes) /\ pending \in Seq(1..MaxEnvelopes)
  BY DEF BatcherTypeOK
<1>4. (handed \o pending) \o <<>> = handed \o pending /\ handed \o pending \in Seq(1..MaxEnvelopes)
  BY <1>3, NumberedHanded
<1>5. <<>> \in Seq(1..MaxEnvelopes)
  OBVIOUS
<1> QED BY <1>1, <1>2, <1>4, <1>5

\* flush under the lock (EnvelopeBatcher.flush, _cancel_timer_locked).
LEMMA FlushBegins ==
    ASSUME BatcherInv, owner = NoOwner, NEW f \in Flusher, BeginFlush(f), ~Waits(f)',
           Waits(Timer)' <=> Waits(Timer)
    PROVE  /\ pending' \in Seq(1..MaxEnvelopes) /\ handed' \in Seq(1..MaxEnvelopes)
           /\ timer' \in SleepState /\ owner' \in Task \cup {NoOwner}
           /\ stage' \in {"none", "cancelling", "writing"}
           /\ handed' \o pending' = handed \o pending
           /\ LockIsKept' /\ TimerIsKnown' /\ NoEnvelopeStranded'
<1>0. f # NoOwner /\ f # Timer /\ f \notin Sender /\ NoOwner \notin Sender /\ NoOwner # Timer
  BY BatcherAssumption
<1>1. CASE timer = "done"
  <2>1. FlushNow(f) /\ timer' = timer
    BY <1>1 DEF BeginFlush
  <2>2. /\ pending' = <<>> /\ pending' \in Seq(1..MaxEnvelopes)
        /\ handed' \in Seq(1..MaxEnvelopes)
        /\ handed' \o pending' = handed \o pending
        /\ owner' \in {NoOwner, f} /\ stage' \in {"none", "writing"}
        /\ owner' = NoOwner <=> stage' = "none"
    BY <2>1, Flushed DEF BatcherInv
  <2>3. LockIsKept'
    BY <1>0, <2>2 DEF LockIsKept
  <2>4. TimerIsKnown'
    BY <1>0, <1>1, <2>1, <2>2 DEF BatcherInv, TimerIsKnown
  <2>5. NoEnvelopeStranded'
    BY <2>2 DEF NoEnvelopeStranded
  <2> QED BY <1>1, <2>1, <2>2, <2>3, <2>4, <2>5 DEF Task, SleepState
<1>2. CASE timer # "done"
  <2>1. timer' = "cancelled" /\ owner' = f /\ stage' = "cancelling" /\ UNCHANGED <<pending, handed>>
    BY <1>2 DEF BeginFlush
  <2>2. LockIsKept'
    BY <1>0, <2>1 DEF LockIsKept
  <2>3. TimerIsKnown'
    BY <1>0, <2>1 DEF BatcherInv, TimerIsKnown
  <2>4. NoEnvelopeStranded'
    BY <2>1 DEF NoEnvelopeStranded
  <2> QED BY <2>1, <2>2, <2>3, <2>4 DEF BatcherInv, BatcherTypeOK, Task, SleepState
<1> QED BY <1>1, <1>2

-----------------------------------------------------------------------------
LEMMA EnqueueStep ==
    ASSUME BatcherInv, NEW s \in Sender, Enqueue(s)
    PROVE  BatcherInv'
<1>0. /\ calls' = calls + 1 /\ calls' \in 1..MaxEnvelopes /\ calls \in Nat
      /\ ~Waits(s) /\ owner # s /\ s \in Task /\ s # Timer
      /\ UNCHANGED <<owner, stage, handed>>
  BY BatcherAssumption DEF BatcherInv, BatcherTypeOK, Enqueue, Busy, Task
<1>1. /\ handed \in Seq(1..MaxEnvelopes) /\ pending \in Seq(1..MaxEnvelopes)
      /\ handed \o pending \in Seq(1..MaxEnvelopes) /\ Len(handed \o pending) \in Nat
  <2>1. handed \in Seq(1..MaxEnvelopes) /\ pending \in Seq(1..MaxEnvelopes)
    BY DEF BatcherInv, BatcherTypeOK
  <2>2. handed \o pending \in Seq(1..MaxEnvelopes)
    BY <2>1, ConcatProperties
  <2> QED BY <2>1, <2>2
<1>2. CASE LockIsFree /\ Collect(calls') /\ UNCHANGED <<waiters, letter>>
  <2>1. owner = NoOwner /\ waiters = <<>> /\ \A t : ~Waits(t) /\ ~Waits(t)'
    BY <1>2 DEF LockIsFree, Waits
  <2>2. /\ pending' \in Seq(1..MaxEnvelopes) /\ timer' \in SleepState
        /\ LockIsKept' /\ TimerIsKnown' /\ NoEnvelopeStranded'
    BY <1>0, <1>2, <2>1, Collected
  <2>3. BatcherTypeOK'
    BY <1>0, <1>2, <2>2 DEF BatcherInv, BatcherTypeOK
  <2>4. WaitersDiffer'
    BY <1>2 DEF BatcherInv, WaitersDiffer
  <2>5. Waiting = {} /\ Waiting' = {}
    BY <2>1 DEF Waiting
  <2>6. calls = Len(handed \o pending)
    <3> DEFINE n == Len(handed \o pending)
    <3>1. (n + 1)..calls = {} /\ n <= calls /\ n \in Nat
      BY <1>1, <2>5 DEF BatcherInv, CallsInOrder
    <3> HIDE DEF n
    <3>2. calls \notin (n + 1)..calls
      BY <3>1
    <3>3. n = calls
      BY <1>0, <3>1, <3>2
    <3> QED BY <3>3 DEF n
  <2>7. Numbered(handed' \o pending') /\ Len(handed' \o pending') = calls'
    <3>1. Numbered(handed \o pending)
      BY DEF BatcherInv, CallsInOrder, Numbered
    <3>2. handed' \o pending' = handed \o Append(pending, calls')
      BY <1>0, <1>2 DEF Collect
    <3>3. calls' \in 1..MaxEnvelopes /\ calls' = Len(handed \o pending) + 1
      BY <1>0, <2>6
    <3> DEFINE e == calls'
    <3>4. e \in 1..MaxEnvelopes /\ e = Len(handed \o pending) + 1
      BY <3>3
    <3> HIDE DEF e
    <3>5. Numbered(handed \o Append(pending, e)) /\ Len(handed \o Append(pending, e)) = e
      BY <1>1, <3>1, <3>4, NumberedAppend
    <3> QED BY <3>2, <3>5 DEF e
  <2>8. (calls' + 1)..calls' = {}
    BY <1>0
  <2>9. CallsInOrder'
    <3>1. LettersGrow'
      BY <1>2, <2>1 DEF LettersGrow
    <3>2. calls' <= calls'
      BY <1>0
    <3> QED BY <2>5, <2>7, <2>8, <3>1, <3>2 DEF CallsInOrder, LettersGrow, Numbered
  <2> QED BY <2>2, <2>3, <2>4, <2>9 DEF BatcherInv
<1>3. CASE QueueUp(s) /\ letter' = [letter EXCEPT ![s] = calls'] /\ UNCHANGED <<pending, timer>>
  <2>0. waiters \in Seq(Task) /\ WaitersDiffer /\ waiters' = Append(waiters, s)
    BY <1>3 DEF BatcherInv, BatcherTypeOK, QueueUp
  <2>1. /\ waiters' \in Seq(Task)
        /\ Len(waiters') = Len(waiters) + 1 /\ Len(waiters) \in Nat
        /\ \A i \in 1..Len(waiters) : waiters'[i] = waiters[i]
        /\ waiters'[Len(waiters) + 1] = s
        /\ WaitersDiffer'
        /\ \A u : Waits(u)' <=> Waits(u) \/ u = s
    BY <1>0, <2>0, OneComes
  <2>2. BatcherTypeOK'
    BY <1>0, <1>3, <2>1 DEF BatcherInv, BatcherTypeOK
  <2>3. LockIsKept' /\ TimerIsKnown' /\ NoEnvelopeStranded'
    BY <1>0, <1>3, <2>1 DEF BatcherInv, LockIsKept, TimerIsKnown, NoEnvelopeStranded
  <2>4. /\ letter \in [Sender -> 0..MaxEnvelopes] /\ letter'[s] = calls + 1
        /\ \A t \in Sender : t # s => letter'[t] = letter[t]
    BY <1>0, <1>3 DEF BatcherInv, BatcherTypeOK
  <2>5. Waiting' = Waiting \cup {calls + 1}
    <3>1. {t \in Sender : Waits(t)'} = {t \in Sender : Waits(t)} \cup {s}
      BY <2>1
    <3> QED BY <1>0, <2>1, <2>4, <3>1 DEF Waiting
  <2>6. LettersGrow'
    <3> SUFFICES ASSUME NEW i \in 1..Len(waiters'), NEW j \in 1..Len(waiters'), i < j,
                        {waiters'[i], waiters'[j]} \subseteq Sender
                 PROVE  letter'[waiters'[i]] < letter'[waiters'[j]]
      BY DEF LettersGrow
    <3>1. i \in 1..Len(waiters) /\ waiters'[i] = waiters[i] /\ waiters[i] \in Sender
      BY <2>1
    <3>2. waiters[i] # s /\ Waits(waiters[i])
      BY <1>0, <3>1 DEF Waits
    <3>3. CASE j \in 1..Len(waiters)
      <4>1. waiters'[j] = waiters[j] /\ waiters[j] \in Sender /\ waiters[j] # s
        BY <1>0, <2>1, <3>3 DEF Waits
      <4>2. letter[waiters[i]] < letter[waiters[j]]
        BY <3>1, <3>3, <4>1 DEF BatcherInv, CallsInOrder
      <4> QED BY <2>4, <3>1, <3>2, <4>1, <4>2
    <3>4. CASE j = Len(waiters) + 1
      <4>1. letter[waiters[i]] \in Waiting
        BY <3>1, <3>2 DEF Waiting
      <4>2. letter[waiters[i]] \in (Len(handed \o pending) + 1)..calls
        BY <4>1 DEF BatcherInv, CallsInOrder
      <4>3. letter[waiters[i]] < calls + 1
        BY <1>0, <1>1, <4>2
      <4> QED BY <2>1, <2>4, <3>1, <3>2, <3>4, <4>3
    <3> QED BY <2>1, <3>3, <3>4
  <2>7. CallsInOrder'
    <3>1. UNCHANGED <<handed, pending>>
      BY <1>0, <1>3
    <3> DEFINE n == Len(handed \o pending)
    <3>2. n \in Nat /\ n <= calls /\ Waiting = (n + 1)..calls
      BY <1>1 DEF BatcherInv, CallsInOrder
    <3>3. Waiting' = (n + 1)..calls' /\ n <= calls'
      <4> HIDE DEF n
      <4> QED BY <1>0, <2>5, <3>2
    <3>4. handed \o pending = [i \in 1..n |-> i]
      BY DEF BatcherInv, CallsInOrder
    <3> QED BY <2>6, <3>1, <3>3, <3>4 DEF CallsInOrder, LettersGrow
  <2> QED BY <2>1, <2>2, <2>3, <2>7 DEF BatcherInv
<1> QED BY <1>2, <1>3 DEF Enqueue

LEMMA EnqueueGrantedStep ==
    ASSUME BatcherInv, NEW s \in Sender, EnqueueGranted(s)
    PROVE  BatcherInv'
<1>0. /\ owner = NoOwner /\ waiters # <<>> /\ Head(waiters) = s /\ waiters' = Tail(waiters)
      /\ Collect(letter[s]) /\ letter' = [letter EXCEPT ![s] = 0]
      /\ UNCHANGED <<owner, stage, calls, handed>>
      /\ waiters \in Seq(Task) /\ WaitersDiffer /\ s # Timer
  BY BatcherAssumption DEF BatcherInv, BatcherTypeOK, EnqueueGranted, NextIs
<1>1. /\ waiters' \in Seq(Task)
      /\ WaitersDiffer'
      /\ waiters[1] = s /\ 1 \in 1..Len(waiters)
      /\ \A u : Waits(u)' <=> Waits(u) /\ u # s
      /\ \A j, k \in 1..Len(waiters') :
            j < k => \E a, b \in 1..Len(waiters) :
                        /\ a < b /\ a # 1 /\ b # 1
                        /\ waiters'[j] = waiters[a] /\ waiters'[k] = waiters[b]
  BY <1>0, FirstLeaves
<1>2. /\ handed \in Seq(1..MaxEnvelopes) /\ pending \in Seq(1..MaxEnvelopes)
      /\ Len(handed \o pending) \in Nat /\ calls \in 0..MaxEnvelopes
      /\ letter \in [Sender -> 0..MaxEnvelopes]
  <2>1. handed \in Seq(1..MaxEnvelopes) /\ pending \in Seq(1..MaxEnvelopes)
    BY DEF BatcherInv, BatcherTypeOK
  <2>2. handed \o pending \in Seq(1..MaxEnvelopes)
    BY <2>1, ConcatProperties
  <2> QED BY <2>1, <2>2 DEF BatcherInv, BatcherTypeOK
<1> DEFINE n == Len(handed \o pending)
<1>3. /\ Numbered(handed \o pending) /\ n \in Nat /\ n <= calls /\ Waiting = (n + 1)..calls
      /\ \A i, j \in 1..Len(waiters) :
            i < j /\ {waiters[i], waiters[j]} \subseteq Sender =>
                letter[waiters[i]] < letter[waiters[j]]
  BY <1>2 DEF BatcherInv, CallsInOrder, Numbered
<1> HIDE DEF n
<1>4. \A t \in Sender : Waits(t) => letter[t] \in (n + 1)..calls
  BY <1>3 DEF Waiting
<1>5. Waits(s)
  BY <1>1 DEF Waits
\* The first sender in the queue brings the envelope that is due.
<1>6. \A t \in Sender : Waits(t) /\ t # s => letter[s] < letter[t]
  <2> SUFFICES ASSUME NEW t \in Sender, Waits(t), t # s PROVE letter[s] < letter[t]
    OBVIOUS
  <2>1. PICK k \in 1..Len(waiters) : waiters[k] = t
    BY DEF Waits
  <2>2. k # 1 /\ 1 < k
    BY <1>1, <2>1
  <2> QED BY <1>1, <1>3, <2>1, <2>2
<1>7. letter[s] = n + 1
  <2>1. letter[s] \in (n + 1)..calls
    BY <1>4, <1>5
  <2>2. n + 1 \in Waiting
    BY <1>2, <1>3, <2>1
  <2>3. PICK t \in Sender : Waits(t) /\ letter[t] = n + 1
    BY <2>2 DEF Waiting
  <2>4. CASE t = s
    BY <2>3, <2>4
  <2>5. CASE t # s
    <3>1. letter[s] < n + 1
      BY <1>6, <2>3, <2>5
    <3> QED BY <1>2, <1>3, <2>1, <3>1
  <2> QED BY <2>4, <2>5
<1>8. letter[s] \in 1..MaxEnvelopes
  BY <1>2, <1>3, <1>4, <1>5
<1>9. /\ pending' \in Seq(1..MaxEnvelopes) /\ timer' \in SleepState
      /\ LockIsKept' /\ TimerIsKnown' /\ NoEnvelopeStranded'
  <2>1. Waits(Timer)' <=> Waits(Timer)
    BY <1>0, <1>1
  <2>2. UNCHANGED <<owner, stage>>
    BY <1>0
  <2> DEFINE e == letter[s]
  <2>3. e \in 1..MaxEnvelopes /\ Collect(e)
    BY <1>0, <1>8
  <2> HIDE DEF e
  <2> QED BY <1>0, <2>1, <2>2, <2>3, Collected
<1>10. letter' \in [Sender -> 0..MaxEnvelopes] /\ \A t \in Sender : t # s => letter'[t] = letter[t]
  BY <1>0, <1>2, BatcherAssumption
<1>11. BatcherTypeOK'
  BY <1>0, <1>1, <1>9, <1>10 DEF BatcherInv, BatcherTypeOK
<1>12. Waiting' = (n + 2)..calls'
  <2>1. Waiting' = Waiting \ {letter[s]}
    <3>1. ASSUME NEW x \in Waiting' PROVE x \in Waiting \ {letter[s]}
      <4>1. PICK t \in Sender : Waits(t)' /\ x = letter'[t]
        BY <3>1 DEF Waiting
      <4>2. Waits(t) /\ t # s /\ x = letter[t]
        BY <1>1, <1>10, <4>1
      <4>3. letter[t] # letter[s]
        BY <1>2, <1>6, <4>2
      <4> QED BY <4>2, <4>3 DEF Waiting
    <3>2. ASSUME NEW x \in Waiting \ {letter[s]} PROVE x \in Waiting'
      <4>1. PICK t \in Sender : Waits(t) /\ x = letter[t]
        BY <3>2 DEF Waiting
      <4>2. Waits(t)' /\ x = letter'[t]
        BY <1>1, <1>10, <3>2, <4>1
      <4> QED BY <4>2 DEF Waiting
    <3> QED BY <3>1, <3>2
  <2> QED BY <1>0, <1>2, <1>3, <1>7, <2>1
<1>13. Numbered(handed' \o pending') /\ Len(handed' \o pending') = n + 1
  <2> DEFINE e == letter[s]
  <2>1. handed' \o pending' = handed \o Append(pending, e)
    BY <1>0 DEF Collect
  <2>2. e \in 1..MaxEnvelopes /\ e = Len(handed \o pending) + 1 /\ e = n + 1
    BY <1>7, <1>8 DEF n
  <2> HIDE DEF e
  <2>3. Numbered(handed \o Append(pending, e)) /\ Len(handed \o Append(pending, e)) = e
    BY <1>2, <1>3, <2>2, NumberedAppend
  <2> QED BY <2>1, <2>2, <2>3
<1>14. LettersGrow'
  <2> SUFFICES ASSUME NEW j \in 1..Len(waiters'), NEW k \in 1..Len(waiters'), j < k,
                      {waiters'[j], waiters'[k]} \subseteq Sender
               PROVE  letter'[waiters'[j]] < letter'[waiters'[k]]
    BY DEF LettersGrow
  <2>1. PICK a \in 1..Len(waiters), b \in 1..Len(waiters) :
            /\ a < b /\ a # 1 /\ b # 1
            /\ waiters'[j] = waiters[a] /\ waiters'[k] = waiters[b]
    BY <1>1
  <2>2. waiters[a] # s /\ waiters[b] # s
    BY <1>0, <1>1, <2>1 DEF WaitersDiffer
  <2>3. letter[waiters[a]] < letter[waiters[b]]
    BY <1>3, <2>1
  <2> QED BY <1>10, <2>1, <2>2, <2>3
<1>15. CallsInOrder'
  <2>1. n + 1 <= calls' /\ (n + 1) + 1 = n + 2
    BY <1>0, <1>2, <1>3, <1>4, <1>5, <1>7
  <2> QED BY <1>12, <1>13, <1>14, <2>1 DEF CallsInOrder, LettersGrow, Numbered
<1> QED BY <1>1, <1>9, <1>11, <1>15 DEF BatcherInv

LEMMA FlushStep ==
    ASSUME BatcherInv, NEW f \in Flusher, Flush(f)
    PROVE  BatcherInv'
<1>0. /\ ~Waits(f) /\ owner # f /\ f \in Task /\ f \notin Sender /\ f # Timer
      /\ UNCHANGED <<letter, calls>>
  BY BatcherAssumption DEF Flush, Busy, Task
<1>1. CASE LockIsFree /\ BeginFlush(f) /\ UNCHANGED waiters
  <2>1. owner = NoOwner /\ ~Waits(f)' /\ (Waits(Timer)' <=> Waits(Timer)) /\ UNCHANGED waiters
    BY <1>0, <1>1 DEF LockIsFree, Waits
  <2>2. /\ pending' \in Seq(1..MaxEnvelopes) /\ handed' \in Seq(1..MaxEnvelopes)
        /\ timer' \in SleepState /\ owner' \in Task \cup {NoOwner}
        /\ stage' \in {"none", "cancelling", "writing"}
        /\ handed' \o pending' = handed \o pending
        /\ LockIsKept' /\ TimerIsKnown' /\ NoEnvelopeStranded'
    BY <1>1, <2>1, FlushBegins
  <2>3. BatcherTypeOK' /\ WaitersDiffer'
    BY <1>0, <2>1, <2>2 DEF BatcherInv, BatcherTypeOK, WaitersDiffer
  <2>4. CallsInOrder'
    <3>1. (\A s \in Sender : Waits(s)' <=> Waits(s)) /\ LettersGrow'
      BY <1>0, <2>1 DEF Waits, LettersGrow, BatcherInv, CallsInOrder
    <3> QED BY <1>0, <2>2, <3>1, SameOrder DEF BatcherInv
  <2> QED BY <2>2, <2>3, <2>4 DEF BatcherInv
<1>2. CASE QueueUp(f) /\ UNCHANGED <<pending, timer, owner, stage, handed>>
  <2>0. waiters \in Seq(Task) /\ WaitersDiffer /\ waiters' = Append(waiters, f)
    BY <1>2 DEF BatcherInv, BatcherTypeOK, QueueUp
  <2>1. waiters' \in Seq(Task) /\ WaitersDiffer' /\ \A u : Waits(u)' <=> Waits(u) \/ u = f
    BY <1>0, <2>0, OneComes
  <2>2. BatcherTypeOK'
    BY <1>0, <1>2, <2>1 DEF BatcherInv, BatcherTypeOK
  <2>3. LockIsKept' /\ TimerIsKnown' /\ NoEnvelopeStranded'
    BY <1>0, <1>2, <2>1 DEF BatcherInv, LockIsKept, TimerIsKnown, NoEnvelopeStranded
  <2>4. CallsInOrder'
    BY <1>0, <1>2, <2>0, NoSenderCame DEF BatcherInv
  <2> QED BY <2>1, <2>2, <2>3, <2>4 DEF BatcherInv
<1> QED BY <1>1, <1>2 DEF Flush

LEMMA FlushGrantedStep ==
    ASSUME BatcherInv, NEW f \in Flusher, FlushGranted(f)
    PROVE  BatcherInv'
<1>0. /\ owner = NoOwner /\ waiters # <<>> /\ Head(waiters) = f /\ waiters' = Tail(waiters)
      /\ BeginFlush(f) /\ UNCHANGED <<letter, calls>>
      /\ waiters \in Seq(Task) /\ WaitersDiffer /\ f # Timer /\ f \notin Sender
  BY BatcherAssumption DEF BatcherInv, BatcherTypeOK, FlushGranted, NextIs
<1>1. /\ waiters' \in Seq(Task)
      /\ WaitersDiffer'
      /\ waiters[1] = f /\ 1 \in 1..Len(waiters)
      /\ \A u : Waits(u)' <=> Waits(u) /\ u # waiters[1]
      /\ \A j, k \in 1..Len(waiters') :
            j < k => \E a, b \in 1..Len(waiters) :
                        /\ a < b /\ a # 1 /\ b # 1
                        /\ waiters'[j] = waiters[a] /\ waiters'[k] = waiters[b]
  BY <1>0, FirstLeaves
<1>2. /\ pending' \in Seq(1..MaxEnvelopes) /\ handed' \in Seq(1..MaxEnvelopes)
      /\ timer' \in SleepState /\ owner' \in Task \cup {NoOwner}
      /\ stage' \in {"none", "cancelling", "writing"}
      /\ handed' \o pending' = handed \o pending
      /\ LockIsKept' /\ TimerIsKnown' /\ NoEnvelopeStranded'
  <2>1. ~Waits(f)' /\ (Waits(Timer)' <=> Waits(Timer))
    BY <1>0, <1>1
  <2> QED BY <1>0, <2>1, FlushBegins
<1>3. BatcherTypeOK'
  BY <1>0, <1>1, <1>2 DEF BatcherInv, BatcherTypeOK
<1>4. CallsInOrder'
  <2>1. waiters[1] \notin Sender /\ CallsInOrder /\ UNCHANGED <<calls, letter>>
    BY <1>0, <1>1 DEF BatcherInv
  <2> QED BY <1>1, <1>2, <2>1, NoSenderWent
<1> QED BY <1>1, <1>2, <1>3, <1>4 DEF BatcherInv

LEMMA FlushResumesStep ==
    ASSUME BatcherInv, NEW f \in Flusher, FlushResumes(f)
    PROVE  BatcherInv'
<1>0. /\ owner = f /\ f # NoOwner /\ f # Timer /\ f \notin Sender /\ f \in Task
      /\ timer = "done" /\ FlushNow(f) /\ UNCHANGED <<timer, waiters, letter, calls>>
  BY BatcherAssumption DEF FlushResumes, Task
<1>1. /\ pending' = <<>> /\ pending' \in Seq(1..MaxEnvelopes)
      /\ handed' \in Seq(1..MaxEnvelopes)
      /\ handed' \o pending' = handed \o pending
      /\ owner' \in {NoOwner, f} /\ stage' \in {"none", "writing"}
      /\ owner' = NoOwner <=> stage' = "none"
  BY <1>0, Flushed DEF BatcherInv
<1>2. \A u : Waits(u)' <=> Waits(u)
  BY <1>0 DEF Waits
<1>3. BatcherTypeOK' /\ WaitersDiffer'
  BY <1>0, <1>1 DEF BatcherInv, BatcherTypeOK, WaitersDiffer
<1>4. LockIsKept'
  BY <1>0, <1>1, <1>2, BatcherAssumption DEF BatcherInv, LockIsKept
<1>5. TimerIsKnown'
  BY <1>0, <1>1, <1>2, BatcherAssumption DEF BatcherInv, TimerIsKnown
<1>6. NoEnvelopeStranded'
  BY <1>1 DEF NoEnvelopeStranded
<1>7. CallsInOrder'
  <2>1. LettersGrow'
    BY <1>0 DEF LettersGrow, BatcherInv, CallsInOrder
  <2> QED BY <1>0, <1>1, <1>2, <2>1, SameOrder DEF BatcherInv
<1> QED BY <1>3, <1>4, <1>5, <1>6, <1>7 DEF BatcherInv

LEMMA TimerEndsStep ==
    ASSUME BatcherInv, TimerEnds
    PROVE  BatcherInv'
<1>0. /\ timer = "cancelled" /\ timer' = "done" /\ stage = "cancelling" /\ owner \in Flusher
      /\ UNCHANGED <<pending, owner, letter, stage, calls, handed>>
      /\ Timer \notin Sender /\ Timer # owner /\ owner # NoOwner
      /\ waiters \in Seq(Task) /\ WaitersDiffer
  BY BatcherAssumption DEF BatcherInv, BatcherTypeOK, TimerEnds, LockIsKept, TimerIsKnown
<1>1. /\ waiters' \in Seq(Task) /\ WaitersDiffer' /\ CallsInOrder'
      /\ \A u : Waits(u)' <=> Waits(u) /\ u # Timer
  <2>1. CASE Waits(Timer)
    <3>1. PICK i \in 1..Len(waiters) : waiters[i] = Timer /\ waiters' = RemoveAt(waiters, i)
      BY <2>1 DEF TimerEnds
    <3>2. /\ waiters' \in Seq(Task) /\ Len(waiters') = Len(waiters) - 1
          /\ \A j \in 1..(Len(waiters) - 1) : waiters'[j] = waiters[IF j < i THEN j ELSE j + 1]
      BY <1>0, <3>1, RemovedAt
    <3>3. /\ WaitersDiffer'
          /\ \A u : Waits(u)' <=> Waits(u) /\ u # waiters[i]
          /\ \A j, k \in 1..Len(waiters') :
                j < k => \E a, b \in 1..Len(waiters) :
                            /\ a < b /\ a # i /\ b # i
                            /\ waiters'[j] = waiters[a] /\ waiters'[k] = waiters[b]
      BY <1>0, <3>2, OneLeaves
    <3>4. CallsInOrder'
      <4>1. /\ waiters[i] \notin Sender /\ CallsInOrder /\ UNCHANGED <<calls, letter>>
            /\ handed' \o pending' = handed \o pending
        BY <1>0, <3>1 DEF BatcherInv
      <4> QED BY <3>3, <4>1, NoSenderWent
    <3> QED BY <3>1, <3>2, <3>3, <3>4
  <2>2. CASE ~Waits(Timer)
    <3>1. waiters' = waiters
      BY <2>2 DEF TimerEnds
    <3>2. \A u : Waits(u)' <=> Waits(u)
      BY <3>1 DEF Waits
    <3>3. CallsInOrder'
      <4>1. LettersGrow'
        BY <1>0, <3>1 DEF LettersGrow, BatcherInv, CallsInOrder
      <4>2. handed' \o pending' = handed \o pending
        BY <1>0
      <4> QED BY <1>0, <3>2, <4>1, <4>2, SameOrder DEF BatcherInv
    <3> QED BY <1>0, <2>2, <3>1, <3>2, <3>3 DEF WaitersDiffer
  <2> QED BY <2>1, <2>2
<1>2. BatcherTypeOK'
  BY <1>0, <1>1 DEF BatcherInv, BatcherTypeOK, SleepState
<1>3. LockIsKept'
  BY <1>0, <1>1 DEF BatcherInv, LockIsKept
<1>4. TimerIsKnown'
  BY <1>0, <1>1 DEF TimerIsKnown
<1>5. NoEnvelopeStranded'
  BY <1>0 DEF NoEnvelopeStranded
<1> QED BY <1>1, <1>2, <1>3, <1>4, <1>5 DEF BatcherInv

LEMMA TimerFiresStep ==
    ASSUME BatcherInv, TimerFires
    PROVE  BatcherInv'
<1>0. /\ timer = "sleeping" /\ ~Waits(Timer) /\ owner # Timer
      /\ UNCHANGED <<letter, calls>>
      /\ Timer \in Task /\ Timer \notin Sender /\ Timer # NoOwner /\ NoOwner \notin Sender
      /\ Timer \notin Flusher /\ stage # "cancelling"
  BY BatcherAssumption DEF BatcherInv, LockIsKept, TimerIsKnown, TimerFires, Task
<1>1. CASE /\ LockIsFree
           /\ FlushNow(Timer)
           /\ timer' = (IF pending = <<>> THEN "done" ELSE "awake")
           /\ UNCHANGED waiters
  <2>1. /\ pending' = <<>> /\ pending' \in Seq(1..MaxEnvelopes)
        /\ handed' \in Seq(1..MaxEnvelopes)
        /\ handed' \o pending' = handed \o pending
        /\ owner' \in {NoOwner, Timer} /\ stage' \in {"none", "writing"}
        /\ owner' = NoOwner <=> stage' = "none"
        /\ owner' = NoOwner <=> pending = <<>>
    BY <1>1, Flushed DEF BatcherInv
  <2>2. \A u : Waits(u)' <=> Waits(u)
    BY <1>1 DEF Waits
  <2>3. BatcherTypeOK' /\ WaitersDiffer'
    BY <1>0, <1>1, <2>1 DEF BatcherInv, BatcherTypeOK, WaitersDiffer, SleepState
  <2>4. LockIsKept'
    BY <1>0, <2>1, <2>2 DEF LockIsKept
  <2>5. TimerIsKnown'
    BY <1>0, <1>1, <2>1, <2>2 DEF TimerIsKnown
  <2>6. NoEnvelopeStranded'
    BY <2>1 DEF NoEnvelopeStranded
  <2>7. CallsInOrder'
    <3>1. LettersGrow'
      BY <1>0, <1>1 DEF LettersGrow, BatcherInv, CallsInOrder
    <3> QED BY <1>0, <2>1, <2>2, <3>1, SameOrder DEF BatcherInv
  <2> QED BY <2>3, <2>4, <2>5, <2>6, <2>7 DEF BatcherInv
<1>2. CASE QueueUp(Timer) /\ timer' = "awake" /\ UNCHANGED <<pending, owner, stage, handed>>
  <2>0. waiters \in Seq(Task) /\ WaitersDiffer /\ waiters' = Append(waiters, Timer)
    BY <1>2 DEF BatcherInv, BatcherTypeOK, QueueUp
  <2>1. waiters' \in Seq(Task) /\ WaitersDiffer' /\ \A u : Waits(u)' <=> Waits(u) \/ u = Timer
    BY <1>0, <2>0, OneComes
  <2>2. BatcherTypeOK'
    BY <1>0, <1>2, <2>1 DEF BatcherInv, BatcherTypeOK, SleepState
  <2>3. LockIsKept'
    BY <1>0, <1>2, <2>1 DEF BatcherInv, LockIsKept
  <2>4. TimerIsKnown' /\ NoEnvelopeStranded'
    BY <1>0, <1>2, <2>1 DEF TimerIsKnown, NoEnvelopeStranded
  <2>5. CallsInOrder'
    BY <1>0, <1>2, <2>0, NoSenderCame DEF BatcherInv
  <2> QED BY <2>1, <2>2, <2>3, <2>4, <2>5 DEF BatcherInv
<1> QED BY <1>1, <1>2 DEF TimerFires

LEMMA TimerGrantedStep ==
    ASSUME BatcherInv, TimerGranted
    PROVE  BatcherInv'
<1>0. /\ owner = NoOwner /\ waiters # <<>> /\ Head(waiters) = Timer /\ waiters' = Tail(waiters)
      /\ FlushNow(Timer) /\ timer' = (IF pending = <<>> THEN "done" ELSE "awake")
      /\ UNCHANGED <<letter, calls>>
      /\ waiters \in Seq(Task) /\ WaitersDiffer
      /\ Timer \in Task /\ Timer \notin Sender /\ Timer # NoOwner /\ NoOwner \notin Sender
  BY BatcherAssumption DEF BatcherInv, BatcherTypeOK, TimerGranted, NextIs, Task
<1>1. /\ waiters' \in Seq(Task)
      /\ WaitersDiffer'
      /\ waiters[1] = Timer /\ 1 \in 1..Len(waiters)
      /\ \A u : Waits(u)' <=> Waits(u) /\ u # waiters[1]
      /\ \A j, k \in 1..Len(waiters') :
            j < k => \E a, b \in 1..Len(waiters) :
                        /\ a < b /\ a # 1 /\ b # 1
                        /\ waiters'[j] = waiters[a] /\ waiters'[k] = waiters[b]
  BY <1>0, FirstLeaves
<1>2. /\ pending' = <<>> /\ pending' \in Seq(1..MaxEnvelopes)
      /\ handed' \in Seq(1..MaxEnvelopes)
      /\ handed' \o pending' = handed \o pending
      /\ owner' \in {NoOwner, Timer} /\ stage' \in {"none", "writing"}
      /\ owner' = NoOwner <=> stage' = "none"
      /\ owner' = NoOwner <=> pending = <<>>
  BY <1>0, Flushed DEF BatcherInv
<1>3. BatcherTypeOK'
  BY <1>0, <1>1, <1>2 DEF BatcherInv, BatcherTypeOK, SleepState
<1>4. LockIsKept'
  BY <1>0, <1>1, <1>2 DEF LockIsKept
<1>5. TimerIsKnown'
  BY <1>0, <1>1, <1>2 DEF TimerIsKnown
<1>6. NoEnvelopeStranded'
  BY <1>2 DEF NoEnvelopeStranded
<1>7. CallsInOrder'
  <2>1. waiters[1] \notin Sender /\ CallsInOrder /\ UNCHANGED <<calls, letter>>
    BY <1>0, <1>1 DEF BatcherInv
  <2> QED BY <1>1, <1>2, <2>1, NoSenderWent
<1> QED BY <1>1, <1>3, <1>4, <1>5, <1>6, <1>7 DEF BatcherInv

LEMMA SinkReturnsStep ==
    ASSUME BatcherInv, SinkReturns
    PROVE  BatcherInv'
<1>0. /\ stage = "writing" /\ stage' = "none" /\ owner' = NoOwner /\ pending = <<>>
      /\ timer' = (IF owner = Timer THEN "done" ELSE timer)
      /\ UNCHANGED <<pending, waiters, letter, calls, handed>>
      /\ owner # NoOwner /\ ~Waits(owner) /\ timer # "cancelled"
      /\ Timer # NoOwner /\ NoOwner \notin Sender
  BY BatcherAssumption DEF BatcherInv, LockIsKept, TimerIsKnown, SinkReturns
<1>1. \A u : Waits(u)' <=> Waits(u)
  BY <1>0 DEF Waits
<1>2. BatcherTypeOK' /\ WaitersDiffer'
  BY <1>0 DEF BatcherInv, BatcherTypeOK, WaitersDiffer, SleepState
<1>3. LockIsKept'
  BY <1>0 DEF LockIsKept
<1>4. TimerIsKnown'
  BY <1>0, <1>1 DEF BatcherInv, TimerIsKnown
<1>5. NoEnvelopeStranded'
  BY <1>0 DEF NoEnvelopeStranded
<1>6. CallsInOrder'
  <2>1. LettersGrow' /\ handed' \o pending' = handed \o pending
    BY <1>0 DEF LettersGrow, BatcherInv, CallsInOrder
  <2> QED BY <1>0, <1>1, <2>1, SameOrder DEF BatcherInv
<1> QED BY <1>2, <1>3, <1>4, <1>5, <1>6 DEF BatcherInv

-----------------------------------------------------------------------------
LEMMA BatcherStarts == BatcherInit => BatcherInv
<1> SUFFICES ASSUME BatcherInit PROVE BatcherInv
  OBVIOUS
<1>1. /\ waiters = <<>> /\ pending = <<>> /\ handed = <<>> /\ calls = 0
      /\ owner = NoOwner /\ stage = "none" /\ timer = "done" /\ letter = [s \in Sender |-> 0]
  BY DEF BatcherInit
<1>2. BatcherTypeOK
  BY <1>1, BatcherAssumption DEF BatcherTypeOK, SleepState
<1>3. \A u : ~Waits(u)
  BY <1>1 DEF Waits
<1>4. WaitersDiffer /\ LockIsKept /\ TimerIsKnown /\ NoEnvelopeStranded
  BY <1>1, <1>3, BatcherAssumption DEF WaitersDiffer, LockIsKept, TimerIsKnown, NoEnvelopeStranded
<1>5. CallsInOrder
  <2>1. handed \o pending = <<>> /\ Len(handed \o pending) = 0
    BY <1>1
  <2>2. Waiting = {} /\ 1..0 = {}
    BY <1>3 DEF Waiting
  <2>3. <<>> = [i \in 1..0 |-> i]
    OBVIOUS
  <2> QED BY <1>1, <2>1, <2>2, <2>3 DEF CallsInOrder
<1> QED BY <1>2, <1>4, <1>5 DEF BatcherInv

LEMMA BatcherStep == BatcherInv /\ [BatcherNext]_batcherVars => BatcherInv'
<1> SUFFICES ASSUME BatcherInv, [BatcherNext]_batcherVars PROVE BatcherInv'
  OBVIOUS
<1>1. CASE \E s \in Sender : Enqueue(s)
  BY <1>1, EnqueueStep
<1>2. CASE \E f \in Flusher : Flush(f)
  BY <1>2, FlushStep
<1>3. CASE \E s \in Sender : EnqueueGranted(s)
  BY <1>3, EnqueueGrantedStep
<1>4. CASE \E f \in Flusher : FlushGranted(f)
  BY <1>4, FlushGrantedStep
<1>5. CASE \E f \in Flusher : FlushResumes(f)
  BY <1>5, FlushResumesStep
<1>6. CASE TimerEnds
  BY <1>6, TimerEndsStep
<1>7. CASE TimerFires
  BY <1>7, TimerFiresStep
<1>8. CASE TimerGranted
  BY <1>8, TimerGrantedStep
<1>9. CASE SinkReturns
  BY <1>9, SinkReturnsStep
<1>10. CASE UNCHANGED batcherVars
  BY <1>10 DEF batcherVars, BatcherInv, BatcherTypeOK, WaitersDiffer, LockIsKept, TimerIsKnown,
               NoEnvelopeStranded, CallsInOrder, Waiting, Waits
<1> QED BY <1>1, <1>2, <1>3, <1>4, <1>5, <1>6, <1>7, <1>8, <1>9, <1>10 DEF BatcherNext, Run

LEMMA BatcherInvariant == BatcherSpec => []BatcherInv
  BY BatcherStarts, BatcherStep, PTL DEF BatcherSpec

\* The batcher's buffer, lock, queue and timer keep their types, for any tasks.
THEOREM BatcherTypeCorrect == BatcherSpec => []BatcherTypeOK
<1>1. BatcherInv => BatcherTypeOK
  BY DEF BatcherInv
<1> QED BY <1>1, BatcherInvariant, PTL

\* The sink gets every envelope once and in the order of the calls, whatever flush,
\* close, the window and its cancellation do (EnvelopeBatcher).
THEOREM HandedInOrder == BatcherSpec => []CallsInOrder
<1>1. BatcherInv => CallsInOrder
  BY DEF BatcherInv
<1> QED BY <1>1, BatcherInvariant, PTL

\* No envelope is pending without a window task or a flush on its way to it.
THEOREM NoneStranded == BatcherSpec => []NoEnvelopeStranded
<1>1. BatcherInv => NoEnvelopeStranded
  BY DEF BatcherInv
<1> QED BY <1>1, BatcherInvariant, PTL
===============================================================================
