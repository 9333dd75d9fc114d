---------------------------- MODULE EnvelopeBatcher ----------------------------
(***************************************************************************)
(* EnvelopeBatcher (bridge/batcher): enqueue collects envelopes, a timer   *)
(* task hands them to the sink one window later, flush does so at once     *)
(* (for a PONG, and when the connection closes).  One asyncio.Lock covers  *)
(* all three and is held across the sink's await.                          *)
(*                                                                         *)
(* A sender's enqueue has no await under the lock, so it is one step once  *)
(* the lock is its own.  Envelopes are numbered in the order in which      *)
(* enqueue was called.                                                     *)
(***************************************************************************)
EXTENDS Naturals, Sequences, SequencesExt

CONSTANTS
    Sender,         \* tasks that call enqueue
    Flusher,        \* tasks that call flush or close
    Timer,          \* the window task; at most one is alive
    MaxEnvelopes    \* bound: calls of enqueue

NoOwner == "none"

ASSUME BatcherAssumption ==
    /\ Sender \cap Flusher = {}
    /\ Timer \notin Sender \cup Flusher
    /\ NoOwner \notin Sender \cup Flusher \cup {Timer}
    /\ MaxEnvelopes \in Nat

Task == Sender \cup Flusher \cup {Timer}
SleepState == {"done", "sleeping", "cancelled", "awake"}

VARIABLES
    pending,    \* _pending
    timer,      \* _timer: "done" also stands for None, "awake" is past its sleep
    owner,      \* who holds _lock across an await
    waiters,    \* who waits for _lock, first come first served
    letter,     \* the envelope a waiting sender brings
    stage,      \* what the owner awaits: the cancelled timer or the sink
    calls,      \* enqueue calls so far
    handed      \* what the sink was handed, in order

batcherVars == <<pending, timer, owner, waiters, letter, stage, calls, handed>>

BatcherTypeOK ==
    /\ pending \in Seq(1..MaxEnvelopes)
    /\ timer \in SleepState
    /\ owner \in Task \cup {NoOwner}
    /\ waiters \in Seq(Task)
    /\ letter \in [Sender -> 0..MaxEnvelopes]
    /\ stage \in {"none", "cancelling", "writing"}
    /\ calls \in 0..MaxEnvelopes
    /\ handed \in Seq(1..MaxEnvelopes)

BatcherInit ==
    /\ pending = <<>>
    /\ timer = "done"
    /\ owner = NoOwner
    /\ waiters = <<>>
    /\ letter = [s \in Sender |-> 0]
    /\ stage = "none"
    /\ calls = 0
    /\ handed = <<>>

-----------------------------------------------------------------------------

LockIsFree == owner = NoOwner /\ waiters = <<>>
Waits(t) == \E i \in 1..Len(waiters) : waiters[i] = t
Busy(t) == owner = t \/ Waits(t)

\* The next waiter of a released lock runs before anybody who comes later.
NextIs(t) == owner = NoOwner /\ waiters # <<>> /\ Head(waiters) = t

\* asyncio.Lock: a task that finds the lock taken, or others waiting, queues up.
QueueUp(t) ==
    /\ ~LockIsFree
    /\ waiters' = Append(waiters, t)

\* enqueue under the lock: no timer task alive means a new one starts.
Collect(envelope) ==
    /\ pending' = Append(pending, envelope)
    /\ timer' = IF timer = "done" THEN "sleeping" ELSE timer

\* _flush_now_locked: the sink writes the batch at once and awaits the drain;
\* with nothing pending the lock is released again.
FlushNow(t) ==
    /\ pending' = <<>>
    /\ handed' = handed \o pending
    /\ owner' = IF pending = <<>> THEN NoOwner ELSE t
    /\ stage' = IF pending = <<>> THEN "none" ELSE "writing"

\* flush under the lock: a live timer is cancelled and awaited first.
BeginFlush(f) ==
    IF timer = "done"
    THEN FlushNow(f) /\ UNCHANGED timer
    ELSE /\ timer' = "cancelled"
         /\ owner' = f
         /\ stage' = "cancelling"
         /\ UNCHANGED <<pending, handed>>

Enqueue(s) ==
    /\ ~Busy(s)
    /\ calls < MaxEnvelopes
    /\ calls' = calls + 1
    /\ \/ /\ LockIsFree
          /\ Collect(calls')
          /\ UNCHANGED <<waiters, letter>>
       \/ /\ QueueUp(s)
          /\ letter' = [letter EXCEPT ![s] = calls']
          /\ UNCHANGED <<pending, timer>>
    /\ UNCHANGED <<owner, stage, handed>>

EnqueueGranted(s) ==
    /\ NextIs(s)
    /\ waiters' = Tail(waiters)
    /\ Collect(letter[s])
    /\ letter' = [letter EXCEPT ![s] = 0]
    /\ UNCHANGED <<owner, stage, calls, handed>>

Flush(f) ==
    /\ ~Busy(f)
    /\ \/ LockIsFree /\ BeginFlush(f) /\ UNCHANGED waiters
       \/ QueueUp(f) /\ UNCHANGED <<pending, timer, owner, stage, handed>>
    /\ UNCHANGED <<letter, calls>>

FlushGranted(f) ==
    /\ NextIs(f)
    /\ waiters' = Tail(waiters)
    /\ BeginFlush(f)
    /\ UNCHANGED <<letter, calls>>

\* The cancelled timer task ends: it leaves its sleep, or the lock's queue.
TimerEnds ==
    /\ timer = "cancelled"
    /\ timer' = "done"
    /\ IF Waits(Timer)
         THEN \E i \in 1..Len(waiters) : waiters[i] = Timer /\ waiters' = RemoveAt(waiters, i)
         ELSE UNCHANGED waiters
    /\ UNCHANGED <<pending, owner, letter, stage, calls, handed>>

\* Faulty variant: the timer's cancellation ends the flush as well.
FlushGivesUp(f) ==
    /\ owner = f
    /\ stage = "cancelling"
    /\ timer = "done"
    /\ owner' = NoOwner
    /\ stage' = "none"
    /\ UNCHANGED <<pending, timer, waiters, letter, calls, handed>>

\* flush resumes after the timer it cancelled is over.
FlushResumes(f) ==
    /\ owner = f
    /\ stage = "cancelling"
    /\ timer = "done"
    /\ FlushNow(f)
    /\ UNCHANGED <<timer, waiters, letter, calls>>

\* The window is over.
TimerFires ==
    /\ timer = "sleeping"
    /\ \/ /\ LockIsFree
          /\ FlushNow(Timer)
          /\ timer' = IF pending = <<>> THEN "done" ELSE "awake"
          /\ UNCHANGED waiters
       \/ /\ QueueUp(Timer)
          /\ timer' = "awake"
          /\ UNCHANGED <<pending, owner, stage, handed>>
    /\ UNCHANGED <<letter, calls>>

TimerGranted ==
    /\ NextIs(Timer)
    /\ timer = "awake"
    /\ waiters' = Tail(waiters)
    /\ FlushNow(Timer)
    /\ timer' = IF pending = <<>> THEN "done" ELSE "awake"
    /\ UNCHANGED <<letter, calls>>

\* The sink's drain is over: the lock is free, and a timer task is done.
SinkReturns ==
    /\ stage = "writing"
    /\ stage' = "none"
    /\ owner' = NoOwner
    /\ timer' = IF owner = Timer THEN "done" ELSE timer
    /\ UNCHANGED <<pending, waiters, letter, calls, handed>>

-----------------------------------------------------------------------------

Run ==
    \/ \E s \in Sender : EnqueueGranted(s)
    \/ \E f \in Flusher : FlushGranted(f) \/ FlushResumes(f)
    \/ TimerEnds
    \/ TimerFires
    \/ TimerGranted
    \/ SinkReturns

BatcherNext ==
    \/ \E s \in Sender : Enqueue(s)
    \/ \E f \in Flusher : Flush(f)
    \/ Run

BatcherSpec == BatcherInit /\ [][BatcherNext]_batcherVars

\* The event loop runs what is ready; the sink's drain returns because the
\* transport either empties its buffer or fails.
BatcherFairSpec == BatcherSpec /\ WF_batcherVars(Run)

-----------------------------------------------------------------------------

\* An envelope is never stranded: while something is pending a window task is
\* on its way to it, or a flush that will hand it over holds the lock or is
\* about to.  Enqueue must see a timer that is about to finish as still alive
\* exactly when that timer has not yet taken its batch.
NoEnvelopeStranded ==
    pending # <<>> =>
        \/ timer = "sleeping"
        \/ timer = "awake" /\ Waits(Timer)
        \/ owner \in Flusher /\ stage = "cancelling"

\* What senders in the lock's queue bring.
Waiting == {letter[s] : s \in {t \in Sender : Waits(t)}}

\* Nothing is lost, duplicated or reordered, whatever flush, close and the timer
\* do: what the sink got, what is pending and what waits for the lock are, end
\* to end, the calls in the order they were made.
CallsInOrder ==
    LET written == handed \o pending
    IN  /\ written = [i \in 1..Len(written) |-> i]
        /\ Len(written) <= calls
        /\ Waiting = (Len(written) + 1)..calls
        /\ \A i, j \in 1..Len(waiters) :
              i < j /\ {waiters[i], waiters[j]} \subseteq Sender =>
                  letter[waiters[i]] < letter[waiters[j]]

\* Every envelope reaches the sink: no flush and no cancelled timer can put it
\* off for ever.
EveryEnvelopeIsHanded == \A n \in 1..MaxEnvelopes : calls \geq n ~> Len(handed) \geq n

\* A flush comes to its end even when it has to cancel the timer first: the lock
\* it holds while it awaits the timer is not what the timer waits for.
FlushReturns == \A f \in Flusher : Busy(f) ~> ~Busy(f)
=============================================================================
