------------------------------ MODULE Delivery ------------------------------
(***************************************************************************)
(* Publishing: the retry policy of the loop                                *)
(* (src/internal/ingest/backpressure.go) around the RabbitMQ sink          *)
(* (src/internal/sink/rabbitmq/rabbitmq.go), with the AMQP library, the    *)
(* broker and the consumer's queue around them.                            *)
(*                                                                         *)
(* The loop has messages 1, 2, ... to publish, one at a time.  The broker  *)
(* answers each on its own time: a confirmation, a rejection when the      *)
(* queue is full, or, when no queue is bound, the message itself and then  *)
(* a confirmation.  The library's dispatcher hands the answers on, in      *)
(* order, and blocks when nobody takes a returned message.  The channel    *)
(* may die, the process may be stopped or killed; a message on its way     *)
(* then may still reach the broker, any time later.                        *)
(*                                                                         *)
(* Abstractions.  A message is its place in the order of publishing.  The  *)
(* loop may save after any message (IngestLoop models when).  Publisher    *)
(* confirms are on, the default.  One publish is outstanding at a time     *)
(* (the mutex, and a single caller), so a confirmation needs no delivery   *)
(* tag.  A dial that fails leaves the process down, to be restarted.       *)
(*                                                                         *)
(* A definition commented "Mutated" is a wrong form of the one that        *)
(* follows it, used only to show that a property would notice.             *)
(***************************************************************************)
EXTENDS Integers, Sequences

CONSTANTS
  LastMessage,     \* bound: the number of messages
  Invalid,         \* messages whose envelope fails validation
  QueueLimit,      \* max-length of the consumer's queue
  ReturnsBuffer,   \* returnsBuffer
  InitialBackoff,  \* publishRetryInitialBackoff
  MaxBackoff,      \* publishRetryMaxBackoff
  MaxFaults        \* bound: deaths, stops, kills and lost bindings

Messages == 1 .. LastMessage

ASSUME DeliveryAssumption ==
  /\ LastMessage \in Nat
  /\ Invalid \subseteq Messages
  /\ QueueLimit \in Nat \ {0}
  /\ ReturnsBuffer \in Nat \ {0}
  /\ InitialBackoff \in Nat \ {0} /\ MaxBackoff \in Nat
  /\ InitialBackoff <= MaxBackoff
  /\ MaxFaults \in Nat

VARIABLES
  pc,       \* where the loop is in a publish
  next,     \* the message to publish
  saved,    \* the last message behind the saved cursor
  backoff,  \* the wait after the next rejection
  stop,     \* ctx is cancelled
  chan,     \* the AMQP channel
  wire,     \* the message written to the connection, 0 for none
  frames,   \* the broker's answers not yet dispatched
  returns,  \* Sink.returns: message ids
  confirm,  \* the publish's own confirmation
  late,     \* messages written to connections that have died since
  bound,    \* the consumer's queue is bound to the exchange
  depth,    \* messages in the queue
  arrived,  \* history: messages that have been in the queue
  refused,  \* history: messages the broker returned to this process
  faults    \* history: faults so far

broker == <<bound, depth, arrived>>
link   == <<chan, wire, frames, returns, confirm, late>>
vars == <<pc, next, saved, backoff, stop, link, broker, refused, faults>>

Frames == [kind : {"ack", "nack", "return"}, msg : Messages]
Frame(kind, m) == [kind |-> kind, msg |-> m]
InFlight == IF wire = 0 THEN {} ELSE {wire}
Fault == faults < MaxFaults /\ faults' = faults + 1

-----------------------------------------------------------------------------
(* The process                                                             *)

(* An error leaves Publish, and Ingest with it; Sink.Close drops the       *)
(* channel.                                                                *)
Exit ==
  /\ pc' = "down" /\ chan' = "closed" /\ late' = late \cup InFlight
  /\ wire' = 0 /\ frames' = <<>> /\ returns' = <<>> /\ confirm' = "none"
  /\ UNCHANGED <<next, saved, backoff, stop, broker, refused>>

(* Mutated: the process keeps the channel it had.                          *)
BootSameChannel ==
  /\ pc = "down" /\ pc' = "idle"
  /\ next' = saved + 1 /\ backoff' = InitialBackoff
  /\ stop' = FALSE /\ refused' = {}
  /\ UNCHANGED <<saved, link, broker, faults>>

(* The process starts, connects, and resumes from the saved position.      *)
Boot ==
  /\ pc = "down" /\ pc' = "idle"
  /\ next' = saved + 1 /\ backoff' = InitialBackoff
  /\ chan' = "open" /\ stop' = FALSE /\ refused' = {}
  /\ UNCHANGED <<saved, wire, frames, returns, confirm, late, broker, faults>>

(* Mutated: the position is saved before its message is accepted.          *)
SaveAhead ==
  /\ pc = "idle" /\ next \in Messages /\ saved' = next
  /\ UNCHANGED <<pc, next, backoff, stop, link, broker, refused, faults>>

(* The loop saves its position, between two publishes.                     *)
Save ==
  /\ pc = "idle" /\ saved' = next - 1
  /\ UNCHANGED <<pc, next, backoff, stop, link, broker, refused, faults>>

(* backpressureSink.Publish begins.                                        *)
Begin ==
  /\ pc = "idle" /\ next \in Messages
  /\ pc' = "send" /\ backoff' = InitialBackoff
  /\ UNCHANGED <<next, saved, stop, link, broker, refused, faults>>

(* An invalid envelope never reaches the broker, and is fatal.             *)
Validate == pc = "send" /\ next \in Invalid /\ Exit /\ UNCHANGED faults

(* Sink.Publish hands the message to the channel.                          *)
Transmit ==
  /\ pc = "send" /\ next \notin Invalid /\ chan = "open"
  /\ pc' = "await" /\ wire' = next /\ confirm' = "pending"
  /\ UNCHANGED <<next, saved, backoff, stop, chan, frames, returns, late,
                 broker, refused, faults>>


(* The channel is dead: ErrSinkUnavailable, fatal.                         *)
SendFails ==
  /\ pc = "send" /\ next \notin Invalid /\ chan = "closed"
  /\ Exit /\ UNCHANGED faults

(* awaitConfirm: the confirmation has resolved; a rejection waits before   *)
(* it is tried again.                                                      *)
Answered ==
  /\ pc = "await" /\ confirm # "pending"
  /\ pc' = IF confirm = "acked" THEN "check" ELSE "backoff"
  /\ UNCHANGED <<next, saved, backoff, stop, link, broker, refused, faults>>

(* Mutated: a message the broker gave back is retried.                     *)
ReturnRetried ==
  /\ pc = "check" /\ \E i \in 1 .. Len(returns) : returns[i] = next
  /\ pc' = "backoff" /\ returns' = <<>>
  /\ UNCHANGED <<next, saved, backoff, stop, chan, wire, frames, confirm, late,
                 broker, refused, faults>>

(* checkReturned finds this message given back: ErrSinkUnroutable, fatal.  *)
Returned ==
  /\ pc = "check" /\ \E i \in 1 .. Len(returns) : returns[i] = next
  /\ Exit /\ UNCHANGED faults

(* Mutated: a confirmation is success.                                     *)
AcceptedOnConfirm ==
  /\ pc = "check" /\ pc' = "idle" /\ next' = next + 1
  /\ returns' = <<>> /\ confirm' = "none"
  /\ UNCHANGED <<saved, backoff, stop, chan, wire, frames, late, broker,
                 refused, faults>>

(* checkReturned finds nothing, or returns of other messages, which it     *)
(* drops: the publish has succeeded.                                       *)
Accepted ==
  /\ pc = "check" /\ \A i \in 1 .. Len(returns) : returns[i] # next
  /\ pc' = "idle" /\ next' = next + 1
  /\ returns' = <<>> /\ confirm' = "none"
  /\ UNCHANGED <<saved, backoff, stop, chan, wire, frames, late, broker,
                 refused, faults>>

(* Mutated: the wait is doubled without a limit.                           *)
DoubledFreely(b) == 2 * b

Doubled(b) == IF b >= MaxBackoff THEN b
              ELSE IF 2 * b > MaxBackoff THEN MaxBackoff ELSE 2 * b

(* The backoff is over: publish again.  A cancelled ctx ends the wait       *)
(* before its timer can.                                                   *)
Retry ==
  /\ pc = "backoff" /\ ~stop /\ pc' = "send" /\ backoff' = Doubled(backoff)
  /\ UNCHANGED <<next, saved, stop, link, broker, refused, faults>>

(* The warning ticker: the wait goes on.                                   *)
StillWaiting == pc = "await" /\ confirm = "pending" /\ UNCHANGED vars

(* The loop, waitCtx or awaitConfirm sees that ctx is cancelled.           *)
Stopped ==
  /\ stop /\ pc \in {"idle", "await", "backoff"}
  /\ Exit /\ UNCHANGED faults

(* SIGTERM.                                                                *)
Stop ==
  /\ pc # "down" /\ ~stop /\ Fault /\ stop' = TRUE
  /\ UNCHANGED <<pc, next, saved, backoff, link, broker, refused>>

Crash == pc # "down" /\ Fault /\ Exit

-----------------------------------------------------------------------------
(* The AMQP library                                                        *)

(* Mutated: the listener is unbuffered and nobody receives.                *)
NoRoom == FALSE

Room == Len(returns) < ReturnsBuffer

(* The dispatcher hands on the next frame; a returned message needs room.  *)
Dispatch ==
  /\ frames # <<>> /\ frames' = Tail(frames)
  /\ LET f == Head(frames) IN
       \/ /\ f.kind = "return" /\ Room
          /\ returns' = Append(returns, f.msg) /\ UNCHANGED confirm
       \/ /\ f.kind # "return"
          /\ confirm' = IF f.kind = "ack" THEN "acked" ELSE "nacked"
          /\ UNCHANGED returns
  /\ UNCHANGED <<pc, next, saved, backoff, stop, chan, wire, late, broker,
                 refused, faults>>

(* The channel dies: what is pending is nacked, answers under way are lost.*)
ShutDown ==
  /\ chan = "open" /\ Fault /\ chan' = "closed"
  /\ late' = late \cup InFlight /\ wire' = 0 /\ frames' = <<>>
  /\ confirm' = IF confirm = "pending" THEN "nacked" ELSE confirm
  /\ UNCHANGED <<pc, next, saved, backoff, stop, returns, broker, refused>>

-----------------------------------------------------------------------------
(* The broker and the consumer                                             *)

Enqueue(m) == depth' = depth + 1 /\ arrived' = arrived \cup {m}

(* The broker takes the message from the connection and answers it.        *)
Receive ==
  /\ wire # 0 /\ wire' = 0
  /\ \/ /\ bound /\ depth < QueueLimit /\ Enqueue(wire)
        /\ frames' = Append(frames, Frame("ack", wire)) /\ UNCHANGED refused
     \/ /\ bound /\ depth >= QueueLimit
        /\ frames' = Append(frames, Frame("nack", wire))
        /\ UNCHANGED <<depth, arrived, refused>>
     \/ /\ ~bound
        /\ frames' = frames \o <<Frame("return", wire), Frame("ack", wire)>>
        /\ refused' = refused \cup {wire} /\ UNCHANGED <<depth, arrived>>
  /\ UNCHANGED <<pc, next, saved, backoff, stop, chan, returns, confirm, late,
                 bound, faults>>

(* The broker takes a message from a connection that has died.             *)
ReceiveLate(m) ==
  /\ m \in late /\ late' = late \ {m}
  /\ IF bound /\ depth < QueueLimit THEN Enqueue(m)
                                    ELSE UNCHANGED <<depth, arrived>>
  /\ UNCHANGED <<pc, next, saved, backoff, stop, chan, wire, frames, returns,
                 confirm, bound, refused, faults>>

Consume ==
  /\ depth > 0 /\ depth' = depth - 1
  /\ UNCHANGED <<pc, next, saved, backoff, stop, link, bound, arrived, refused,
                 faults>>

Unbind ==
  /\ bound /\ Fault /\ bound' = FALSE
  /\ UNCHANGED <<pc, next, saved, backoff, stop, link, depth, arrived, refused>>

Bind ==
  /\ ~bound /\ bound' = TRUE
  /\ UNCHANGED <<pc, next, saved, backoff, stop, link, depth, arrived, refused,
                 faults>>

-----------------------------------------------------------------------------
Init ==
  /\ pc = "down" /\ next = 1 /\ saved = 0 /\ backoff = InitialBackoff
  /\ stop = FALSE /\ chan = "closed" /\ wire = 0 /\ frames = <<>>
  /\ returns = <<>> /\ confirm = "none" /\ late = {}
  /\ bound \in BOOLEAN /\ depth = 0 /\ arrived = {} /\ refused = {}
  /\ faults = 0

Publishing ==
  \/ Begin \/ Validate \/ Transmit \/ SendFails \/ Answered \/ Returned
  \/ Accepted \/ Retry \/ Stopped

Next ==
  \/ Boot \/ Save \/ Publishing \/ StillWaiting \/ Stop \/ Crash
  \/ Dispatch \/ ShutDown
  \/ Receive \/ Consume \/ Unbind \/ Bind
  \/ \E m \in Messages : ReceiveLate(m)

Spec == Init /\ [][Next]_vars

(* The process is restarted and its goroutine runs; the dispatcher runs.   *)
(* What the broker and the consumer do is assumed only where a property    *)
(* says so.                                                                *)
FairSpec == Spec /\ WF_vars(Boot) /\ WF_vars(Publishing) /\ WF_vars(Dispatch)

-----------------------------------------------------------------------------
(* Properties                                                              *)

TypeOK ==
  /\ pc \in {"down", "idle", "send", "await", "check", "backoff"}
  /\ next \in 1 .. LastMessage + 1
  /\ pc \in {"send", "await", "check", "backoff"} => next \in Messages
  /\ saved \in 0 .. LastMessage
  /\ backoff \in InitialBackoff .. MaxBackoff
  /\ stop \in BOOLEAN /\ bound \in BOOLEAN
  /\ chan \in {"open", "closed"}
  /\ wire \in 0 .. LastMessage
  /\ frames \in Seq(Frames)
  /\ returns \in Seq(Messages)
  /\ confirm \in {"none", "pending", "acked", "nacked"}
  /\ late \subseteq Messages /\ arrived \subseteq Messages
  /\ refused \subseteq Messages
  /\ depth \in 0 .. QueueLimit
  /\ faults \in 0 .. MaxFaults

(* A message the loop has moved on from, or saved behind its cursor, has   *)
(* been in the consumer's queue (sink.go: "Returns nil only when delivery  *)
(* can be claimed"): not merely confirmed, since the broker confirms what  *)
(* it gives back, and not on the strength of another message's answer.     *)
SuccessMeansQueued ==
  /\ pc # "down" => 1 .. next - 1 \subseteq arrived
  /\ 1 .. saved \subseteq arrived

(* A message given back to this process is never sent again by it          *)
(* (backpressure.go: "every retry would confirm and come straight back     *)
(* returned — a silent hot loop, not recovery").                           *)
NoHotLoop == [][pc = "send" /\ pc' = "await" => next \notin refused]_vars

(* To the loop all this is an outbox: messages arrive in order and the     *)
(* saved position follows them, through retries, deaths and messages that  *)
(* arrive long after their process.                                        *)
Out == INSTANCE Outbox
ImplementsOutbox == Out!Spec


(* If the broker reads what it is sent, a publish is answered (awaitConfirm*)
(* has "deliberately NO timeout").  The dispatcher must not be stuck on a  *)
(* message given back while the publisher waits for the confirmation that  *)
(* comes after it.                                                         *)
AnswerComes == WF_vars(Receive) => (pc = "await" ~> pc # "await")

(* If the broker runs, its queue is bound again and drained, every message *)
(* before the first invalid one arrives, with no limit on the retries.     *)
Reachable == {m \in Messages : 1 .. m \cap Invalid = {}}
AllArrive ==
  (WF_vars(Receive) /\ WF_vars(Bind) /\ WF_vars(Consume))
    => <>(Reachable \subseteq arrived)
=============================================================================
