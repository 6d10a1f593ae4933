-------------------------- MODULE Delivery_proofs ---------------------------
(***************************************************************************)
(* Proofs about publishing, for every number of messages, every queue      *)
(* limit, buffer size, backoff and number of faults.                       *)
(***************************************************************************)
EXTENDS Delivery, TLAPS

-----------------------------------------------------------------------------
(* The inductive invariant.  That a success means a queued message rests   *)
(* on where the message, its return and its confirmation can be while the  *)
(* publish waits.                                                          *)

Given == \E i \in 1 .. Len(returns) : returns[i] = next

Ack    == Frame("ack", next)
Nack   == Frame("nack", next)
Return == Frame("return", next)

(* A message is on the wire only before its answer, and its predecessors   *)
(* have arrived, also when its connection has died.                        *)
WireInv ==
  /\ wire # 0 =>
       /\ pc = "await" /\ wire = next /\ confirm = "pending"
       /\ frames = <<>> /\ next \notin refused
  /\ \A m \in late : 1 .. m - 1 \subseteq arrived

(* The answers under way are those to this publish, the return first.      *)
AnswerInv ==
  frames # <<>> =>
    /\ pc = "await" /\ confirm = "pending" /\ wire = 0
    /\ \/ frames = <<Nack>> /\ next \notin refused
       \/ frames = <<Return, Ack>>
       \/ frames = <<Ack>> /\ (next \in arrived \/ Given)

(* What a resolved confirmation says.                                      *)
ConfirmInv ==
  /\ pc = "check" => confirm = "acked"
  /\ pc \in {"await", "check"} /\ confirm = "acked" => next \in arrived \/ Given
  /\ pc = "await" => confirm # "none"

(* Where a message that was given back can be: its return on the way or    *)
(* received, or the channel dead.                                          *)
RefusedInv ==
  pc # "down" =>
    /\ refused \subseteq {next}
    /\ next \in refused =>
         \/ pc = "await" /\ frames = <<Return, Ack>>
         \/ pc = "await" /\ frames = <<Ack>> /\ Given
         \/ pc \in {"await", "check"} /\ confirm = "acked" /\ Given
         \/ /\ chan = "closed" /\ confirm = "nacked"
            /\ pc \in {"await", "backoff", "send"}

PositionInv == pc # "down" => saved < next

IInv ==
  /\ TypeOK /\ SuccessMeansQueued /\ PositionInv
  /\ WireInv /\ AnswerInv /\ ConfirmInv /\ RefusedInv

-----------------------------------------------------------------------------
(* Doubling stays within the limit.                                        *)
LEMMA DoubledInRange ==
  ASSUME NEW b \in InitialBackoff .. MaxBackoff
  PROVE  Doubled(b) \in InitialBackoff .. MaxBackoff
  BY DeliveryAssumption DEF Doubled

(* A queue with room takes one more.                                       *)
LEMMA DepthInRange ==
  ASSUME NEW d \in 0 .. QueueLimit, d < QueueLimit
  PROVE  d + 1 \in 0 .. QueueLimit
  BY DeliveryAssumption

(* Every step keeps the types.                                             *)
LEMMA TypeStep == IInv /\ [Next]_vars => TypeOK'
<1> SUFFICES ASSUME IInv, [Next]_vars PROVE TypeOK'
  OBVIOUS
<1> USE DeliveryAssumption
<1>0. TypeOK
  BY DEF IInv
<1>1. CASE Exit /\ faults' \in 0 .. MaxFaults
  <2>1. late' \subseteq Messages
    BY <1>0, <1>1 DEF Exit, TypeOK, InFlight, Messages
  <2>2. QED
    BY <1>0, <1>1, <2>1 DEF Exit, TypeOK, broker
<1>2. CASE Boot
  <2>1. next' \in 1 .. LastMessage + 1 /\ backoff' \in InitialBackoff .. MaxBackoff
    BY <1>0, <1>2 DEF Boot, TypeOK
  <2>2. QED
    BY <1>0, <1>2, <2>1 DEF Boot, TypeOK, broker
<1>3. CASE Save
  <2>1. saved' \in 0 .. LastMessage
    BY <1>0, <1>3 DEF Save, TypeOK
  <2>2. QED
    BY <1>0, <1>3, <2>1 DEF Save, TypeOK, link, broker
<1>4. CASE Begin
  <2>1. backoff' \in InitialBackoff .. MaxBackoff
    BY <1>4 DEF Begin
  <2>2. QED
    BY <1>0, <1>4, <2>1 DEF Begin, TypeOK, link, broker
<1>5. CASE Transmit
  <2>1. wire' \in 0 .. LastMessage
    BY <1>0, <1>5 DEF Transmit, TypeOK, Messages
  <2>2. QED
    BY <1>0, <1>5, <2>1 DEF Transmit, TypeOK, broker
<1>6. CASE Answered
  BY <1>0, <1>6 DEF Answered, TypeOK, link, broker
<1>7. CASE Accepted
  <2>1. next' \in 1 .. LastMessage + 1
    BY <1>0, <1>7 DEF Accepted, TypeOK, Messages
  <2>2. QED
    BY <1>0, <1>7, <2>1 DEF Accepted, TypeOK, broker
<1>8. CASE Retry
  <2>1. backoff' \in InitialBackoff .. MaxBackoff
    BY <1>0, <1>8, DoubledInRange DEF Retry, TypeOK
  <2>2. QED
    BY <1>0, <1>8, <2>1 DEF Retry, TypeOK, link, broker
<1>9. CASE Stop
  <2>1. faults' \in 0 .. MaxFaults
    BY <1>0, <1>9 DEF Stop, Fault, TypeOK
  <2>2. QED
    BY <1>0, <1>9, <2>1 DEF Stop, TypeOK, link, broker
<1>10. CASE Dispatch
  <2>1. /\ Head(frames) \in Frames
        /\ frames' \in Seq(Frames)
    BY <1>0, <1>10 DEF Dispatch, TypeOK
  <2>2. returns' \in Seq(Messages)
    <3>1. Head(frames).msg \in Messages
      BY <2>1 DEF Frames
    <3>2. returns \in Seq(Messages) /\ returns' \in {returns, Append(returns, Head(frames).msg)}
      BY <1>0, <1>10 DEF Dispatch, TypeOK
    <3>3. QED
      BY <3>1, <3>2
  <2>3. confirm' \in {"none", "pending", "acked", "nacked"}
    BY <1>0, <1>10 DEF Dispatch, TypeOK
  <2>4. QED
    BY <1>0, <1>10, <2>1, <2>2, <2>3 DEF Dispatch, TypeOK, broker
<1>11. CASE ShutDown
  <2>1. late' \subseteq Messages
    BY <1>0, <1>11 DEF ShutDown, TypeOK, InFlight, Messages
  <2>2. QED
    BY <1>0, <1>11, <2>1 DEF ShutDown, Fault, TypeOK, broker
<1>12. CASE Receive
  <2>1. wire \in Messages
    BY <1>0, <1>12 DEF Receive, TypeOK, Messages
  <2>2. frames' \in Seq(Frames)
    <3>1. \A k \in {"ack", "nack", "return"} : Frame(k, wire) \in Frames
      BY <2>1 DEF Frame, Frames
    <3>2. frames \in Seq(Frames)
      BY <1>0 DEF TypeOK
    <3>3. <<Frame("return", wire), Frame("ack", wire)>> \in Seq(Frames)
      BY <3>1
    <3>4. frames' \in {Append(frames, Frame("ack", wire)),
                      Append(frames, Frame("nack", wire)),
                      frames \o <<Frame("return", wire), Frame("ack", wire)>>}
      BY <1>12 DEF Receive
    <3>5. CASE frames' = frames \o <<Frame("return", wire), Frame("ack", wire)>>
      BY <3>2, <3>3, <3>5
    <3>6. CASE frames' = Append(frames, Frame("ack", wire))
      BY <3>1, <3>2, <3>6
    <3>7. CASE frames' = Append(frames, Frame("nack", wire))
      BY <3>1, <3>2, <3>7
    <3>8. QED
      BY <3>4, <3>5, <3>6, <3>7
  <2>3. /\ depth' \in 0 .. QueueLimit
        /\ arrived' \subseteq Messages /\ refused' \subseteq Messages
    <3>1. /\ depth \in 0 .. QueueLimit
          /\ arrived \subseteq Messages /\ refused \subseteq Messages
      BY <1>0 DEF TypeOK
    <3>2. /\ depth' = depth \/ (depth < QueueLimit /\ depth' = depth + 1)
          /\ arrived' \in {arrived, arrived \cup {wire}}
          /\ refused' \in {refused, refused \cup {wire}}
      BY <1>12 DEF Receive, Enqueue
    <3>3. depth' \in 0 .. QueueLimit
      BY <3>1, <3>2, DepthInRange
    <3>4. arrived' \subseteq Messages /\ refused' \subseteq Messages
      BY <2>1, <3>1, <3>2
    <3>5. QED
      BY <3>3, <3>4
  <2>4. QED
    BY <1>0, <1>12, <2>2, <2>3 DEF Receive, TypeOK
<1>13. CASE \E m \in Messages : ReceiveLate(m)
  <2>1. PICK m \in Messages : ReceiveLate(m)
    BY <1>13
  <2>2. /\ depth' \in 0 .. QueueLimit /\ arrived' \subseteq Messages
        /\ late' \subseteq Messages
    <3>1. /\ depth \in 0 .. QueueLimit
          /\ arrived \subseteq Messages /\ late \subseteq Messages
      BY <1>0 DEF TypeOK
    <3>2. /\ depth' = depth \/ (depth < QueueLimit /\ depth' = depth + 1)
          /\ arrived' \in {arrived, arrived \cup {m}}
          /\ late' = late \ {m}
      BY <2>1 DEF ReceiveLate, Enqueue
    <3>3. depth' \in 0 .. QueueLimit
      BY <3>1, <3>2, DepthInRange
    <3>4. arrived' \subseteq Messages /\ late' \subseteq Messages
      BY <3>1, <3>2
    <3>5. QED
      BY <3>3, <3>4
  <2>3. QED
    BY <1>0, <2>1, <2>2 DEF ReceiveLate, TypeOK
<1>14. CASE Consume
  <2>1. depth' \in 0 .. QueueLimit
    BY <1>0, <1>14 DEF Consume, TypeOK
  <2>2. QED
    BY <1>0, <1>14, <2>1 DEF Consume, TypeOK, link
<1>15. CASE Unbind \/ Bind
  <2>1. faults \in 0 .. MaxFaults
    BY <1>0 DEF TypeOK
  <2>2. faults' = faults \/ (faults < MaxFaults /\ faults' = faults + 1)
    BY <1>15 DEF Unbind, Bind, Fault
  <2>3. faults' \in 0 .. MaxFaults
    BY <2>1, <2>2
  <2>4. bound' \in BOOLEAN
    BY <1>15 DEF Unbind, Bind
  <2>5. QED
    BY <1>0, <1>15, <2>3, <2>4 DEF Unbind, Bind, TypeOK, link
<1>16. CASE UNCHANGED vars
  BY <1>0, <1>16 DEF TypeOK, vars, link, broker
<1>17. CASE Validate \/ SendFails \/ Returned \/ Stopped \/ Crash
  <2>1. faults' \in 0 .. MaxFaults
    BY <1>0, <1>17 DEF Validate, SendFails, Returned, Stopped, Crash, Fault, TypeOK
  <2>2. QED
    BY <1>1, <1>17, <2>1 DEF Validate, SendFails, Returned, Stopped, Crash
<1>18. QED
  BY <1>2, <1>3, <1>4, <1>5, <1>6, <1>7, <1>8, <1>9, <1>10, <1>11, <1>12,
     <1>13, <1>14, <1>15, <1>16, <1>17 DEF Next, Publishing, StillWaiting

-----------------------------------------------------------------------------
(* What the steps do, in the words of the invariant                        *)

(* Five ways out, one exit.                                                *)
LEMMA ExitCases ==
  Validate \/ SendFails \/ Returned \/ Stopped \/ Crash => Exit
  BY DEF Validate, SendFails, Returned, Stopped, Crash

(* The dispatcher hands on a rejection, a returned message with its        *)
(* confirmation behind it, or a confirmation.                              *)
LEMMA DispatchCases ==
  ASSUME IInv, Dispatch
  PROVE  /\ pc = "await" /\ confirm = "pending" /\ wire = 0
         /\ \/ /\ frames = <<Nack>> /\ next \notin refused /\ frames' = <<>>
               /\ confirm' = "nacked" /\ returns' = returns
            \/ /\ frames = <<Return, Ack>> /\ frames' = <<Ack>>
               /\ confirm' = "pending" /\ returns' = Append(returns, next)
            \/ /\ frames = <<Ack>> /\ frames' = <<>> /\ (next \in arrived \/ Given)
               /\ confirm' = "acked" /\ returns' = returns
<1>1. /\ pc = "await" /\ confirm = "pending" /\ wire = 0
      /\ \/ frames = <<Nack>> /\ next \notin refused
         \/ frames = <<Return, Ack>>
         \/ frames = <<Ack>> /\ (next \in arrived \/ Given)
  BY DEF IInv, AnswerInv, Dispatch
<1>2. CASE frames = <<Nack>> /\ next \notin refused
  <2>1. Head(frames) = Nack /\ Tail(frames) = <<>>
    BY <1>2
  <2>2. QED
    BY <1>1, <1>2, <2>1 DEF Dispatch, Nack, Frame
<1>3. CASE frames = <<Return, Ack>>
  <2>1. Head(frames) = Return /\ Tail(frames) = <<Ack>>
    BY <1>3
  <2>2. QED
    BY <1>1, <1>3, <2>1 DEF Dispatch, Return, Frame
<1>4. CASE frames = <<Ack>> /\ (next \in arrived \/ Given)
  <2>1. Head(frames) = Ack /\ Tail(frames) = <<>>
    BY <1>4
  <2>2. QED
    BY <1>1, <1>4, <2>1 DEF Dispatch, Ack, Frame
<1>5. QED
  BY <1>1, <1>2, <1>3, <1>4

(* The broker queues the message, rejects it or gives it back.             *)
LEMMA ReceiveCases ==
  ASSUME IInv, Receive
  PROVE  /\ pc = "await" /\ wire = next /\ confirm = "pending"
         /\ next \notin refused
         /\ \/ /\ frames' = <<Ack>> /\ refused' = refused
               /\ arrived' = arrived \cup {next}
            \/ frames' = <<Nack>> /\ refused' = refused /\ arrived' = arrived
            \/ /\ frames' = <<Return, Ack>> /\ arrived' = arrived
               /\ refused' = refused \cup {next}
<1>1. /\ pc = "await" /\ wire = next /\ confirm = "pending" /\ frames = <<>>
      /\ next \notin refused
  BY DEF IInv, WireInv, Receive
<1>2. /\ Append(frames, Ack) = <<Ack>> /\ Append(frames, Nack) = <<Nack>>
      /\ frames \o <<Return, Ack>> = <<Return, Ack>>
  BY <1>1
<1>3. QED
  BY <1>1, <1>2 DEF Receive, Enqueue, Ack, Nack, Return

(* A message appended to the returns is there.                             *)
LEMMA AppendGiven ==
  ASSUME NEW s \in Seq(Messages), NEW m \in Messages
  PROVE  \E i \in 1 .. Len(Append(s, m)) : Append(s, m)[i] = m
<1>1. Len(s) + 1 \in 1 .. Len(Append(s, m)) /\ Append(s, m)[Len(s) + 1] = m
  OBVIOUS
<1>2. QED
  BY <1>1

-----------------------------------------------------------------------------
(* The steps of the invariant                                              *)

(* What the loop has moved on from was queued.                             *)
LEMMA QueueStep == IInv /\ [Next]_vars => SuccessMeansQueued' /\ PositionInv'
<1> SUFFICES ASSUME IInv, [Next]_vars PROVE SuccessMeansQueued' /\ PositionInv'
  OBVIOUS
<1>0. /\ TypeOK /\ SuccessMeansQueued /\ PositionInv /\ ConfirmInv
      /\ next \in Int /\ saved \in Int
  BY DEF IInv, TypeOK
<1>1. CASE Exit
  BY <1>0, <1>1 DEF Exit, broker, SuccessMeansQueued, PositionInv
<1>2. CASE Boot
  BY <1>0, <1>2 DEF Boot, broker, SuccessMeansQueued, PositionInv
<1>3. CASE Save
  BY <1>0, <1>3 DEF Save, broker, SuccessMeansQueued, PositionInv
<1>4. CASE Accepted
  <2>1. next \in arrived
    BY <1>0, <1>4 DEF Accepted, ConfirmInv, Given
  <2>2. 1 .. next \subseteq arrived
    BY <1>0, <1>4, <2>1 DEF Accepted, SuccessMeansQueued
  <2>3. 1 .. next' - 1 \subseteq arrived
    BY <1>0, <1>4, <2>2 DEF Accepted
  <2>4. QED
    BY <1>0, <1>4, <2>3 DEF Accepted, broker, SuccessMeansQueued, PositionInv
<1>5. CASE /\ arrived \subseteq arrived' /\ UNCHANGED <<next, saved>>
           /\ pc' # "down" => pc # "down"
  BY <1>0, <1>5 DEF SuccessMeansQueued, PositionInv
<1>6. CASE Receive \/ \E m \in Messages : ReceiveLate(m)
  BY <1>5, <1>6 DEF Receive, ReceiveLate, Enqueue
<1>7. CASE Begin \/ Transmit \/ Answered \/ Retry \/ Stop \/ Dispatch \/ ShutDown
           \/ Consume \/ Unbind \/ Bind \/ UNCHANGED vars
  BY <1>5, <1>7 DEF Begin, Transmit, Answered, Retry, Stop, Dispatch, ShutDown,
                    Consume, Unbind, Bind, vars, broker
<1>8. QED
  BY <1>1, <1>2, <1>3, <1>4, <1>6, <1>7, ExitCases
     DEF Next, Publishing, StillWaiting

(* A message on the wire, or on a dead connection, is in its place.        *)
LEMMA WireStep == IInv /\ [Next]_vars => WireInv'
<1> SUFFICES ASSUME IInv, [Next]_vars PROVE WireInv'
  OBVIOUS
<1>0. /\ TypeOK /\ SuccessMeansQueued /\ WireInv /\ AnswerInv /\ RefusedInv
      /\ next \in Int
  BY DEF IInv, TypeOK
<1>1. \A m \in late \cup InFlight : 1 .. m - 1 \subseteq arrived
  <2>1. ASSUME wire # 0 PROVE 1 .. wire - 1 \subseteq arrived
    BY <1>0, <2>1 DEF WireInv, SuccessMeansQueued
  <2>2. QED
    BY <1>0, <2>1 DEF WireInv, InFlight
<1>2. CASE Exit \/ ShutDown
  BY <1>1, <1>2 DEF Exit, ShutDown, broker, WireInv
<1>3. CASE Transmit
  <2>1. frames = <<>>
    BY <1>0, <1>3 DEF Transmit, AnswerInv
  <2>2. next \notin refused
    BY <1>0, <1>3 DEF Transmit, RefusedInv
  <2>3. QED
    BY <1>0, <1>3, <2>1, <2>2 DEF Transmit, broker, WireInv
<1>4. CASE Receive
  BY <1>0, <1>4 DEF Receive, Enqueue, WireInv
<1>5. CASE \E m \in Messages : ReceiveLate(m)
  BY <1>0, <1>5 DEF ReceiveLate, Enqueue, WireInv
<1>6. CASE Dispatch
  BY <1>0, <1>6, DispatchCases DEF Dispatch, broker, WireInv
<1>7. CASE wire = 0 /\ UNCHANGED <<wire, late, arrived>>
  BY <1>0, <1>7 DEF WireInv
<1>8. CASE Boot \/ Save \/ Begin \/ Answered \/ Accepted \/ Retry
  <2>1. wire = 0
    BY <1>0, <1>8 DEF Boot, Save, Begin, Answered, Accepted, Retry, WireInv
  <2>2. QED
    BY <1>7, <1>8, <2>1
       DEF Boot, Save, Begin, Answered, Accepted, Retry, link, broker
<1>9. CASE Stop \/ Consume \/ Unbind \/ Bind \/ UNCHANGED vars
  <2>1. UNCHANGED <<pc, next, wire, confirm, frames, refused, late, arrived>>
    BY <1>9 DEF Stop, Consume, Unbind, Bind, vars, link, broker
  <2>2. QED
    BY <1>0, <2>1 DEF WireInv
<1>10. QED
  BY <1>2, <1>3, <1>4, <1>5, <1>6, <1>8, <1>9, ExitCases
     DEF Next, Publishing, StillWaiting

(* The answers under way stay those to this publish.                       *)
LEMMA AnswerStep == IInv /\ [Next]_vars => AnswerInv'
<1> SUFFICES ASSUME IInv, [Next]_vars PROVE AnswerInv'
  OBVIOUS
<1>0. TypeOK /\ WireInv /\ AnswerInv
  BY DEF IInv
<1>1. CASE frames' = <<>>
  BY <1>1 DEF AnswerInv
<1>2. CASE Exit \/ ShutDown
  BY <1>1, <1>2 DEF Exit, ShutDown
<1>3. CASE Boot \/ Save \/ Begin \/ Answered \/ Accepted \/ Retry \/ Transmit
  <2>1. frames = <<>>
    BY <1>0, <1>3
       DEF Boot, Save, Begin, Answered, Accepted, Retry, Transmit, AnswerInv
  <2>2. QED
    BY <1>1, <1>3, <2>1
       DEF Boot, Save, Begin, Answered, Accepted, Retry, Transmit, link
<1>4. CASE Receive
  <2>1. /\ pc' = "await" /\ confirm' = "pending" /\ wire' = 0 /\ next' = next
        /\ returns' = returns
    BY <1>4, ReceiveCases DEF Receive
  <2>2. Ack' = Ack /\ Nack' = Nack /\ Return' = Return
    BY <2>1 DEF Ack, Nack, Return
  <2>3. QED
    BY <1>4, <2>1, <2>2, ReceiveCases DEF AnswerInv
<1>5. CASE Dispatch
  <2>1. UNCHANGED <<pc, next, wire, arrived>>
    BY <1>5 DEF Dispatch, broker
  <2>2. Ack' = Ack
    BY <2>1 DEF Ack
  <2>3. CASE frames' = <<Ack>> /\ returns' = Append(returns, next) /\ confirm' = "pending"
    <3>1. next \in Messages /\ returns \in Seq(Messages)
      BY <1>0, <1>5, DispatchCases DEF TypeOK
    <3>2. Given'
      BY <2>1, <2>3, <3>1, AppendGiven DEF Given
    <3>3. QED
      BY <1>5, <2>1, <2>2, <2>3, <3>2, DispatchCases DEF AnswerInv
  <2>4. QED
    BY <1>1, <1>5, <2>3, DispatchCases
<1>6. CASE UNCHANGED <<pc, next, wire, confirm, frames, returns, refused>>
           /\ arrived \subseteq arrived'
  BY <1>0, <1>6 DEF AnswerInv, Given, Ack, Nack, Return
<1>7. CASE \/ \E m \in Messages : ReceiveLate(m)
           \/ Stop \/ Consume \/ Unbind \/ Bind \/ UNCHANGED vars
  BY <1>6, <1>7 DEF ReceiveLate, Enqueue, Stop, Consume, Unbind, Bind, vars, link, broker
<1>8. QED
  BY <1>2, <1>3, <1>4, <1>5, <1>7, ExitCases DEF Next, Publishing, StillWaiting

(* A confirmation says that the message was queued or given back.          *)
LEMMA ConfirmStep == IInv /\ [Next]_vars => ConfirmInv'
<1> SUFFICES ASSUME IInv, [Next]_vars PROVE ConfirmInv'
  OBVIOUS
<1>0. TypeOK /\ ConfirmInv
  BY DEF IInv
<1>1. CASE Exit
  BY <1>1 DEF Exit, ConfirmInv
<1>2. CASE Boot \/ Save \/ Begin \/ Transmit \/ Accepted \/ Retry
  BY <1>2 DEF Boot, Save, Begin, Transmit, Accepted, Retry, ConfirmInv
<1>3. CASE Answered
  BY <1>0, <1>3 DEF Answered, link, broker, ConfirmInv, Given
<1>4. CASE ShutDown
  BY <1>0, <1>4 DEF ShutDown, broker, ConfirmInv, Given
<1>5. CASE Dispatch
  <2>1. UNCHANGED <<pc, next, arrived>>
    BY <1>5 DEF Dispatch, broker
  <2>2. QED
    BY <1>5, <2>1, DispatchCases DEF ConfirmInv, Given
<1>6. CASE UNCHANGED <<pc, next, confirm, returns>> /\ arrived \subseteq arrived'
  BY <1>0, <1>6 DEF ConfirmInv, Given
<1>7. CASE \/ Receive \/ \E m \in Messages : ReceiveLate(m)
           \/ Stop \/ Consume \/ Unbind \/ Bind \/ UNCHANGED vars
  BY <1>6, <1>7 DEF Receive, ReceiveLate, Enqueue, Stop, Consume, Unbind, Bind,
                    vars, link, broker
<1>8. QED
  BY <1>1, <1>2, <1>3, <1>4, <1>5, <1>7, ExitCases
     DEF Next, Publishing, StillWaiting

(* A message given back is on its way to a fatal end.                      *)
LEMMA RefusedStep == IInv /\ [Next]_vars => RefusedInv'
<1> SUFFICES ASSUME IInv, [Next]_vars PROVE RefusedInv'
  OBVIOUS
<1>0. TypeOK /\ WireInv /\ AnswerInv /\ ConfirmInv /\ RefusedInv
  BY DEF IInv
<1>1. CASE Exit
  BY <1>1 DEF Exit, RefusedInv
<1>2. CASE Boot
  BY <1>2 DEF Boot, RefusedInv
<1>3. CASE Save \/ Begin \/ Transmit
  <2>1. refused = {}
    BY <1>0, <1>3 DEF Save, Begin, Transmit, RefusedInv
  <2>2. QED
    BY <1>3, <2>1 DEF Save, Begin, Transmit, RefusedInv
<1>4. CASE Accepted
  <2>1. refused = {}
    BY <1>0, <1>4 DEF Accepted, RefusedInv, ConfirmInv, Given
  <2>2. QED
    BY <1>4, <2>1 DEF Accepted, RefusedInv
<1>5. CASE Answered
  <2>1. frames = <<>>
    BY <1>0, <1>5 DEF Answered, AnswerInv
  <2>2. QED
    BY <1>0, <1>5, <2>1 DEF Answered, link, RefusedInv, Given
<1>6. CASE Retry
  BY <1>0, <1>6 DEF Retry, link, RefusedInv
<1>7. CASE Receive
  <2>1. /\ pc = "await" /\ pc' = pc /\ next' = next /\ next \notin refused
        /\ refused \subseteq {next}
    BY <1>0, <1>7, ReceiveCases DEF Receive, RefusedInv
  <2>2. Ack' = Ack /\ Return' = Return
    BY <2>1 DEF Ack, Return
  <2>3. QED
    BY <1>7, <2>1, <2>2, ReceiveCases DEF RefusedInv
<1>8. CASE Dispatch
  <2>1. UNCHANGED <<pc, next, chan, refused>>
    BY <1>8 DEF Dispatch
  <2>2. Ack' = Ack /\ pc = "await" /\ refused \subseteq {next}
    BY <1>0, <1>8, <2>1, DispatchCases DEF Ack, RefusedInv
  <2>3. CASE frames = <<Nack>> /\ next \notin refused
    BY <2>1, <2>2, <2>3 DEF RefusedInv
  <2>4. CASE frames' = <<Ack>> /\ returns' = Append(returns, next)
    <3>1. next \in Messages /\ returns \in Seq(Messages)
      BY <1>0, <2>2 DEF TypeOK
    <3>2. Given'
      BY <2>1, <2>4, <3>1, AppendGiven DEF Given
    <3>3. QED
      BY <2>1, <2>2, <2>4, <3>2 DEF RefusedInv
  <2>5. CASE frames = <<Ack>> /\ confirm' = "acked" /\ returns' = returns
    <3>1. next \in refused => Given
      <4>1. <<Ack>> # <<Return, Ack>> /\ confirm = "pending"
        BY <1>8, DispatchCases
      <4>2. QED
        BY <1>0, <2>2, <2>5, <4>1 DEF RefusedInv
    <3>2. QED
      BY <2>1, <2>2, <2>5, <3>1 DEF RefusedInv, Given
  <2>6. QED
    BY <1>8, <2>3, <2>4, <2>5, DispatchCases
<1>9. CASE ShutDown
  <2>1. frames # <<>> => confirm = "pending"
    BY <1>0 DEF AnswerInv
  <2>2. <<Return, Ack>> # <<>> /\ <<Ack>> # <<>>
    OBVIOUS
  <2>3. QED
    BY <1>0, <1>9, <2>1, <2>2 DEF ShutDown, RefusedInv, Given
<1>10. CASE UNCHANGED <<pc, next, chan, confirm, frames, returns, refused>>
  BY <1>0, <1>10 DEF RefusedInv, Given, Ack, Return
<1>11. CASE \/ \E m \in Messages : ReceiveLate(m)
            \/ Stop \/ Consume \/ Unbind \/ Bind \/ UNCHANGED vars
  BY <1>10, <1>11 DEF ReceiveLate, Stop, Consume, Unbind, Bind, vars, link, broker
<1>12. QED
  BY <1>1, <1>2, <1>3, <1>4, <1>5, <1>6, <1>7, <1>8, <1>9, <1>11, ExitCases
     DEF Next, Publishing, StillWaiting

-----------------------------------------------------------------------------
(* The theorems                                                            *)

LEMMA Initially == Init => IInv
<1> SUFFICES ASSUME Init PROVE IInv
  OBVIOUS
<1>1. /\ backoff \in InitialBackoff .. MaxBackoff /\ next \in 1 .. LastMessage + 1
      /\ saved \in 0 .. LastMessage /\ wire \in 0 .. LastMessage
      /\ depth \in 0 .. QueueLimit /\ faults \in 0 .. MaxFaults
  BY DeliveryAssumption DEF Init
<1>2. TypeOK
  <2>1. frames \in Seq(Frames) /\ returns \in Seq(Messages)
    BY DEF Init
  <2>2. /\ pc \in {"down", "idle", "send", "await", "check", "backoff"}
        /\ pc \in {"send", "await", "check", "backoff"} => next \in Messages
        /\ chan \in {"open", "closed"}
        /\ confirm \in {"none", "pending", "acked", "nacked"}
    BY DEF Init
  <2>3. stop \in BOOLEAN /\ bound \in BOOLEAN
    BY Zenon DEF Init
  <2>4. late \subseteq Messages /\ arrived \subseteq Messages /\ refused \subseteq Messages
    BY DEF Init
  <2>5. QED
    BY <1>1, <2>1, <2>2, <2>3, <2>4 DEF TypeOK
<1>3. SuccessMeansQueued /\ PositionInv
  BY DEF Init, SuccessMeansQueued, PositionInv
<1>4. WireInv /\ AnswerInv /\ ConfirmInv /\ RefusedInv
  BY DEF Init, WireInv, AnswerInv, ConfirmInv, RefusedInv
<1>5. QED
  BY <1>2, <1>3, <1>4 DEF IInv

(* The invariant holds in every state (Sink.Publish, Publish).             *)
THEOREM Inductive == Spec => []IInv
<1>1. IInv /\ [Next]_vars => IInv'
  BY TypeStep, QueueStep, WireStep, AnswerStep, ConfirmStep, RefusedStep DEF IInv
<1>2. QED
  BY Initially, <1>1, PTL DEF Spec

(* Every variable keeps its type, the backoff its limit, the queue its     *)
(* length (backpressure.go, Publish).                                      *)
THEOREM TypeCorrect == Spec => []TypeOK
<1>1. IInv => TypeOK
  BY DEF IInv
<1>2. QED
  BY <1>1, Inductive, PTL

(* What Publish reported as success, and what the cursor covers, has been  *)
(* in the consumer's queue (rabbitmq.go, awaitConfirm and checkReturned).  *)
THEOREM Queued == Spec => []SuccessMeansQueued
<1>1. IInv => SuccessMeansQueued
  BY DEF IInv
<1>2. QED
  BY <1>1, Inductive, PTL

(* A process never sends a message again that was given back to it, also   *)
(* when the connection dies between the return and its confirmation        *)
(* (backpressure.go, Publish).                                             *)
THEOREM NeverHot == Spec => NoHotLoop
<1>1. IInv /\ [Next]_vars => [pc = "send" /\ pc' = "await" => next \notin refused]_vars
  <2> SUFFICES ASSUME IInv, Next, pc = "send", pc' = "await"
               PROVE  next \notin refused
    BY DEF vars
  <2>1. Transmit
    BY DEF Next, Publishing, Boot, Save, Begin, Validate, SendFails, Answered,
           Returned, Accepted, Retry, Stopped, StillWaiting, Stop, Crash, Exit,
           Dispatch, ShutDown, Receive, ReceiveLate, Consume, Unbind, Bind
  <2>2. QED
    BY <2>1 DEF Transmit, IInv, RefusedInv
<1>2. QED
  BY <1>1, Inductive, PTL DEF Spec, NoHotLoop

(* Publishing implements the outbox the loop relies on: first arrivals in  *)
(* order, the saved position behind them (backpressure.go, rabbitmq.go).   *)
THEOREM OutboxImplemented == Spec => ImplementsOutbox
<1>1. Init => Out!Init
  BY DEF Init, Out!Init
<1>2. IInv /\ [Next]_vars => [Out!Next]_Out!vars
  <2> SUFFICES ASSUME IInv, [Next]_vars, ~UNCHANGED <<arrived, saved>>
               PROVE  Out!Next
    BY DEF Out!vars
  <2>0. /\ SuccessMeansQueued /\ PositionInv /\ WireInv
        /\ next \in Int /\ next >= 1 /\ saved \in Int
    BY DEF IInv, TypeOK
  <2>1. CASE Save
    <3>1. saved' \in Nat /\ saved' > saved
      BY <2>0, <2>1 DEF Save, PositionInv, broker
    <3>2. QED
      BY <2>0, <2>1, <3>1 DEF Save, SuccessMeansQueued, broker, Out!Next, Out!Commit
  <2>2. CASE Receive
    <3>1. next \in Messages
      BY <2>2, ReceiveCases DEF IInv, TypeOK
    <3>2. 1 .. next - 1 \subseteq arrived
      BY <2>0, <2>2, ReceiveCases DEF SuccessMeansQueued
    <3>3. arrived' = arrived \cup {next} /\ saved' = saved
      BY <2>2, ReceiveCases DEF Receive
    <3>4. QED
      BY <3>1, <3>2, <3>3 DEF Out!Next, Out!Arrive
  <2>3. CASE \E m \in Messages : ReceiveLate(m)
    <3>1. PICK m \in Messages : ReceiveLate(m)
      BY <2>3
    <3>2. 1 .. m - 1 \subseteq arrived
      BY <2>0, <3>1 DEF ReceiveLate, WireInv
    <3>3. arrived' = arrived \cup {m} /\ saved' = saved
      BY <3>1 DEF ReceiveLate, Enqueue
    <3>4. QED
      BY <3>1, <3>2, <3>3 DEF Out!Next, Out!Arrive
  <2>4. QED
    BY <2>1, <2>2, <2>3
       DEF Next, Publishing, Boot, Begin, Validate, Transmit, SendFails, Answered,
           Returned, Accepted, Retry, Stopped, StillWaiting, Stop, Crash, Exit,
           Dispatch, ShutDown, Consume, Unbind, Bind, vars, broker
<1>3. QED
  BY <1>1, <1>2, Inductive, PTL DEF Spec, ImplementsOutbox, Out!Spec
=============================================================================
