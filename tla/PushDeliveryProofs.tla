-------------------------- MODULE PushDeliveryProofs --------------------------
(***************************************************************************)
(* The safety of push deliveries for any number of devices, handlers and   *)
(* requests, any budget of attempts, and any repetition by the queue.      *)
(***************************************************************************)
EXTENDS PushDelivery, FiniteSetTheorems, TLAPS

(* Before a request inserts the send there is nothing to work on.          *)
Untouched ==
  /\ \A d \in Devices : /\ delivery[d].status = "Absent" /\ ~delivery[d].done
                        /\ message[d].state = "absent" /\ accepted[d] = 0
  /\ \A w \in Workers : handler[w].pc = "idle"
  /\ \A r \in Requests : request[r].pc \notin {"persisted", "sent", "failed"}

EmptyUntilSent == send.status = "Absent" => Untouched

(* What a row says of its attempts: an open row has one left, and one that *)
(* was accepted is no longer up for a claim.                               *)
RowOK(row, taken) ==
  /\ row.status \in {"Absent", "Pending"} => row.attempts = 0
  /\ row.status = "Failed" /\ ~row.done => row.attempts < MaxAttempts
  /\ row.status = "Succeeded" => taken = 1 /\ row.done
  /\ row.status = "Exhausted" => row.done
  /\ taken = 0 \/ (taken = 1 /\ (row.status = "InProgress" \/ row.done))

RowsOK == \A d \in Devices : RowOK(delivery[d], accepted[d])

(* A handler past its claim has the attempt the row counts, and knows what *)
(* the provider has answered.                                              *)
HandlerOK(h, row, taken) ==
  /\ h.pc # "idle" => h.device \in Devices
  /\ h.pc \in {"deliver", "settle"} =>
       /\ row.status = "InProgress" \/ row.done
       /\ h.number = row.attempts
  /\ h.pc = "deliver" => taken = 0
  /\ h.pc = "settle" => /\ h.outcome \in Answers
                        /\ taken = IF h.outcome = "accepted" THEN 1 ELSE 0

HandlersOK ==
  \A w \in Workers : handler[w].pc # "idle" =>
    HandlerOK(handler[w], delivery[handler[w].device], accepted[handler[w].device])

(* One request has inserted the send.                                      *)
Inserted(r) == request[r].pc \in {"persisted", "sent", "failed"}
OneInserter == \A q, r \in Requests : Inserted(q) /\ Inserted(r) => q = r

(* A message has a retry left while it waits, and none exists before the   *)
(* dispatch of the request that inserted the send.                         *)
MessageOK(m) ==
  /\ m.state = "absent" => m.tries = 0 /\ m.holder = None
  /\ m.state = "ready" => m.tries <= MaxRetries

MessagesOK == \A d \in Devices : MessageOK(message[d])

UndispatchedOK ==
  \A r \in Requests : request[r].pc = "persisted" => \A d \in Devices : message[d].state = "absent"

IInv == /\ TypeOK
        /\ EmptyUntilSent
        /\ RowsOK
        /\ HandlersOK
        /\ OneClaimant
        /\ OneInserter
        /\ MessagesOK
        /\ UndispatchedOK

-----------------------------------------------------------------------------
LEMMA CountFacts ==
  ASSUME TypeOK
  PROVE  /\ Tallies \in TallyType
         /\ NoTally \in TallyType
         /\ Counts \subseteq Nat /\ 0 \in Counts
         /\ 0 \in 0..MaxAttempts /\ 0 \in 0..MaxRetries + 1
<1>1. IsFiniteSet(Devices) /\ Cardinality(Devices) \in Nat
  BY PushAssumption, FS_CardinalityType
<1>2. \A S \in SUBSET Devices : Cardinality(S) \in Counts
  BY <1>1, FS_Subset, FS_CardinalityType DEF Counts
<1>3. 0 \in Counts /\ Counts \subseteq Nat
  BY <1>1 DEF Counts
<1>4. Children \subseteq Devices
  BY DEF Children
<1> DEFINE succeeded == {d \in Children : delivery[d].status = "Succeeded"}
           settled == {d \in Children : Settled(delivery[d])}
<1>5. succeeded \subseteq Devices /\ settled \ succeeded \subseteq Devices
      /\ Children \ settled \subseteq Devices
  BY <1>4
<1>6. Tallies \in TallyType
  <2>1. Tallies = [succeeded |-> Cardinality(succeeded), failed |-> Cardinality(settled \ succeeded),
                   inFlight |-> Cardinality(Children \ settled)]
    BY DEF Tallies
  <2>2. Cardinality(succeeded) \in Counts /\ Cardinality(settled \ succeeded) \in Counts
        /\ Cardinality(Children \ settled) \in Counts
    BY <1>2, <1>5
  <2> HIDE DEF succeeded, settled
  <2> QED BY <2>1, <2>2 DEF TallyType
<1>7. NoTally \in TallyType
  BY <1>3 DEF NoTally, TallyType
<1> QED BY <1>3, <1>6, <1>7, PushAssumption

LEMMA IdleFacts ==
  ASSUME TypeOK
  PROVE  /\ Idle \in HandlerType /\ Idle.pc = "idle"
         /\ \A d \in Devices, p \in {"claim", "exhaust"} :
              LET h == [Idle EXCEPT !.pc = p, !.device = d]
              IN h \in HandlerType /\ h.pc = p /\ h.device = d
BY CountFacts DEF Idle, HandlerType

LEMMA InitIInv == Init => IInv
<1> SUFFICES ASSUME Init PROVE IInv
  OBVIOUS
<1>1. 0 \in Counts /\ 0 \in 0..MaxAttempts /\ 0 \in 0..MaxRetries + 1
      /\ 0 \in 0..MaxCrashes /\ 0 \in 0..MaxChanges
  BY PushAssumption, FS_CardinalityType DEF Counts
<1>2. Idle \in HandlerType /\ Idle.pc = "idle"
  BY <1>1 DEF Idle, HandlerType, NoTally, TallyType
<1>3. TypeOK
  <2>1. send \in SendType
    BY <1>1 DEF Init, SendType, SendStatuses
  <2>2. delivery \in [Devices -> DeliveryType]
    BY <1>1 DEF Init, DeliveryType, Statuses
  <2>3. message \in [Devices -> MessageType]
    BY <1>1 DEF Init, MessageType
  <2>4. handler \in [Workers -> HandlerType]
    BY <1>2 DEF Init
  <2>5. request \in [Requests -> RequestType]
    BY DEF Init, RequestType
  <2>6. accepted \in [Devices -> 0..2] /\ crashes \in 0..MaxCrashes /\ changes \in 0..MaxChanges
    BY <1>1 DEF Init
  <2> QED BY <2>1, <2>2, <2>3, <2>4, <2>5, <2>6 DEF TypeOK, Init
<1>4. Untouched
  BY <1>2 DEF Init, Untouched
<1>5. RowsOK
  BY DEF Init, RowsOK, RowOK
<1>6. HandlersOK /\ OneClaimant
  BY <1>2 DEF Init, HandlersOK, OneClaimant, Claimed
<1>7. OneInserter
  BY DEF Init, OneInserter, Inserted
<1>8. MessagesOK /\ UndispatchedOK
  BY PushAssumption DEF Init, MessagesOK, MessageOK, UndispatchedOK
<1> QED BY <1>3, <1>4, <1>5, <1>6, <1>7, <1>8 DEF IInv, EmptyUntilSent

-----------------------------------------------------------------------------
(* The queue.                                                              *)
LEMMA ReturnedFacts ==
  ASSUME NEW m \in MessageType, MessageOK(m), m.state # "absent"
  PROVE  Returned(m) \in MessageType /\ MessageOK(Returned(m)) /\ Returned(m).state # "absent"
<1>1. m.tries \in Nat /\ MaxRetries \in Nat
  BY PushAssumption DEF MessageType
<1>2. CASE m.tries > MaxRetries
  <2>1. Returned(m) = [m EXCEPT !.holder = None, !.state = "dead"]
    BY <1>2 DEF Returned
  <2> QED BY <2>1 DEF MessageType, MessageOK
<1>3. CASE ~(m.tries > MaxRetries)
  <2>1. Returned(m) = [m EXCEPT !.holder = None, !.state = "ready"]
    BY <1>3 DEF Returned
  <2>2. m.tries <= MaxRetries
    BY <1>1, <1>3
  <2>3. Returned(m) \in MessageType
    BY <2>1 DEF MessageType
  <2>4. Returned(m).tries = m.tries /\ Returned(m).state = "ready"
    BY <2>1 DEF MessageType
  <2> QED BY <2>2, <2>3, <2>4 DEF MessageOK
<1> QED BY <1>2, <1>3

(* Returning or acknowledging a message touches none that does not exist.  *)
LEMMA QueueFacts ==
  ASSUME IInv, NEW w \in Workers, NEW d \in Devices, NEW q, q \in {Retried(d, w), Acked(d, w)}
  PROVE  /\ q \in [Devices -> MessageType]
         /\ \A e \in Devices : MessageOK(q[e])
         /\ \A e \in Devices : message[e].state = "absent" => q[e].state = "absent"
<1>1. /\ message \in [Devices -> MessageType]
      /\ \A e \in Devices : MessageOK(message[e])
  BY DEF IInv, TypeOK, MessagesOK
<1>2. CASE message[d].holder = w
  <2>1. message[d].state # "absent"
    BY <1>1, <1>2, PushAssumption DEF MessageOK
  <2> DEFINE a == [message[d] EXCEPT !.state = "gone", !.holder = None]
  <2>2. a \in MessageType /\ MessageOK(a)
    BY <1>1 DEF MessageType, MessageOK
  <2>3. Acked(d, w) = [message EXCEPT ![d] = a]
    BY <1>1, <1>2 DEF Acked, MessageType
  <2>4. Retried(d, w) = [message EXCEPT ![d] = Returned(message[d])]
    BY <1>2 DEF Retried
  <2> HIDE DEF a
  <2> QED BY <1>1, <2>1, <2>2, <2>3, <2>4, ReturnedFacts
<1>3. CASE message[d].holder # w
  BY <1>1, <1>3 DEF Retried, Acked
<1> QED BY <1>2, <1>3

-----------------------------------------------------------------------------
(* A step of one handler that changes at most one row.                     *)
LEMMA HandlerStep ==
  ASSUME IInv, TypeOK', NEW w \in Workers, NEW d \in Devices,
         send.status # "Absent", send'.status # "Absent", request' = request,
         \A v \in Workers \ {w} : handler'[v] = handler[v],
         \A e \in Devices \ {d} : delivery'[e] = delivery[e] /\ accepted'[e] = accepted[e],
         RowOK(delivery'[d], accepted'[d]),
         handler'[w].pc # "idle" =>
           /\ handler'[w].device = d
           /\ HandlerOK(handler'[w], delivery'[d], accepted'[d]),
         \A v \in Workers \ {w} : (handler[v].pc # "idle" /\ handler[v].device = d) =>
           HandlerOK(handler[v], delivery'[d], accepted'[d]),
         handler'[w].pc \in {"deliver", "settle"} =>
           \A v \in Workers \ {w} : ~(Claimed(v) /\ handler[v].device = d),
         \A e \in Devices : MessageOK(message'[e]),
         \A e \in Devices : message[e].state = "absent" => message'[e].state = "absent"
  PROVE  IInv'
<1>1. EmptyUntilSent' /\ OneInserter'
  BY DEF EmptyUntilSent, IInv, OneInserter, Inserted
<1>2. RowsOK'
  <2> SUFFICES ASSUME NEW e \in Devices PROVE RowOK(delivery'[e], accepted'[e])
    BY DEF RowsOK, RowOK
  <2> QED BY DEF IInv, RowsOK
<1>3. HandlersOK'
  <2> SUFFICES ASSUME NEW v \in Workers, handler'[v].pc # "idle"
               PROVE  HandlerOK(handler'[v], delivery'[handler'[v].device],
                                accepted'[handler'[v].device])
    BY DEF HandlersOK, HandlerOK
  <2>1. CASE v = w
    BY <2>1
  <2>2. CASE v # w
    <3>1. handler'[v] = handler[v]
      BY <2>2
    <3>2. HandlerOK(handler[v], delivery[handler[v].device], accepted[handler[v].device])
      BY <3>1 DEF IInv, HandlersOK
    <3>3. handler[v].device \in Devices
      BY <3>1, <3>2 DEF HandlerOK
    <3>4. CASE handler[v].device = d
      BY <2>2, <3>1, <3>4
    <3>5. CASE handler[v].device # d
      BY <3>1, <3>2, <3>3, <3>5
    <3> QED BY <3>4, <3>5
  <2> QED BY <2>1, <2>2
<1>4. OneClaimant'
  BY DEF IInv, OneClaimant, Claimed
<1>5. MessagesOK' /\ UndispatchedOK'
  BY DEF IInv, MessagesOK, MessageOK, UndispatchedOK
<1> QED BY <1>1, <1>2, <1>3, <1>4, <1>5 DEF IInv

(* Who is busy works on a device of a send that was inserted.              *)
LEMMA BusyFacts ==
  ASSUME IInv, NEW w \in Workers, handler[w].pc # "idle"
  PROVE  /\ send.status # "Absent"
         /\ handler[w] \in HandlerType /\ handler[w].device \in Devices
         /\ HandlerOK(handler[w], delivery[handler[w].device], accepted[handler[w].device])
         /\ delivery[handler[w].device] \in DeliveryType
         /\ RowOK(delivery[handler[w].device], accepted[handler[w].device])
<1>1. HandlerOK(handler[w], delivery[handler[w].device], accepted[handler[w].device])
  BY DEF IInv, HandlersOK
<1>2. handler[w].device \in Devices
  BY <1>1 DEF HandlerOK
<1>3. send.status # "Absent"
  BY DEF IInv, EmptyUntilSent, Untouched
<1> QED BY <1>1, <1>2, <1>3 DEF IInv, TypeOK, RowsOK

(* A step of a handler that leaves the rows alone.                         *)
LEMMA QuietHandlerStep ==
  ASSUME IInv, NEW w \in Workers, NEW d \in Devices, NEW h \in HandlerType,
         handler' = [handler EXCEPT ![w] = h],
         send.status # "Absent", send' \in SendType, send'.status # "Absent",
         UNCHANGED <<delivery, request, accepted>>,
         live' \subseteq Devices, enabled' \in BOOLEAN, missed' \in BOOLEAN,
         crashes' \in 0..MaxCrashes, changes' \in 0..MaxChanges,
         message' \in [Devices -> MessageType],
         \A e \in Devices : MessageOK(message'[e]),
         \A e \in Devices : message[e].state = "absent" => message'[e].state = "absent",
         h.pc # "idle" => h.device = d,
         h.pc \notin {"deliver", "settle"}
  PROVE  IInv'
<1>1. TypeOK'
  BY DEF IInv, TypeOK
<1>2. handler'[w] = h /\ \A v \in Workers \ {w} : handler'[v] = handler[v]
  BY DEF IInv, TypeOK
<1>3. RowOK(delivery'[d], accepted'[d])
  BY DEF IInv, RowsOK
<1>4. handler'[w].pc # "idle" =>
        handler'[w].device = d /\ HandlerOK(handler'[w], delivery'[d], accepted'[d])
  BY <1>2 DEF HandlerOK
<1>5. \A v \in Workers \ {w} : (handler[v].pc # "idle" /\ handler[v].device = d) =>
        HandlerOK(handler[v], delivery'[d], accepted'[d])
  BY DEF IInv, HandlersOK
<1>6. \A e \in Devices \ {d} : delivery'[e] = delivery[e] /\ accepted'[e] = accepted[e]
  OBVIOUS
<1> QED BY <1>1, <1>2, <1>3, <1>4, <1>5, <1>6, HandlerStep

-----------------------------------------------------------------------------
(* Handlers that start, end, or look.                                      *)
LEMMA TakeIInv ==
  ASSUME IInv, NEW w \in Workers, NEW d \in Devices, Take(w, d) \/ TakeDead(w, d)
  PROVE  IInv'
<1> DEFINE m == message[d]
           p == IF m.state = "ready" THEN "claim" ELSE "exhaust"
           h == [Idle EXCEPT !.pc = p, !.device = d]
<1>1. /\ message \in [Devices -> MessageType] /\ m \in MessageType /\ MessageOK(m)
      /\ TypeOK
  BY DEF IInv, TypeOK, MessagesOK
<1>2. m.state # "absent" /\ send.status # "Absent"
  BY DEF Take, TakeDead, IInv, EmptyUntilSent, Untouched
<1>3. PICK n \in MessageType : /\ message' = [message EXCEPT ![d] = n]
                               /\ MessageOK(n)
  <2>1. CASE Take(w, d)
    <3> DEFINE n == [m EXCEPT !.state = "held", !.tries = @ + 1, !.holder = w]
    <3>1. m.tries + 1 \in 0..MaxRetries + 1
      BY <1>1, <2>1, PushAssumption DEF Take, MessageOK, MessageType
    <3>2. n \in MessageType /\ n.state = "held"
      BY <1>1, <3>1 DEF MessageType
    <3>3. message' = [message EXCEPT ![d] = n]
      BY <1>1, <2>1 DEF Take, MessageType
    <3> HIDE DEF n
    <3> QED BY <3>2, <3>3 DEF MessageOK
  <2>2. CASE TakeDead(w, d)
    <3> DEFINE n == [m EXCEPT !.holder = w]
    <3>1. n \in MessageType /\ n.state = "dead"
      BY <1>1, <2>2 DEF TakeDead, MessageType
    <3>2. message' = [message EXCEPT ![d] = n]
      BY <2>2 DEF TakeDead
    <3> HIDE DEF n
    <3> QED BY <3>1, <3>2 DEF MessageOK
  <2> QED BY <2>1, <2>2
<1>4. /\ message' \in [Devices -> MessageType]
      /\ \A e \in Devices : MessageOK(message'[e])
      /\ \A e \in Devices : message[e].state = "absent" => message'[e].state = "absent"
  BY <1>1, <1>2, <1>3 DEF IInv, MessagesOK
<1>5. h \in HandlerType /\ h.pc = p /\ h.device = d
  <2>1. p \in {"claim", "exhaust"}
    OBVIOUS
  <2>2. Idle \in HandlerType
    BY <1>1, IdleFacts
  <2> HIDE DEF p
  <2> QED BY <2>1, <2>2 DEF HandlerType
<1>6. handler' = [handler EXCEPT ![w] = h]
  BY DEF Take, TakeDead, Starts
<1>7. p \notin {"deliver", "settle"}
  OBVIOUS
<1>8. /\ UNCHANGED <<delivery, request, accepted, send, live, enabled, changes, missed, crashes>>
      /\ send \in SendType /\ live \subseteq Devices /\ enabled \in BOOLEAN /\ missed \in BOOLEAN
      /\ crashes \in 0..MaxCrashes /\ changes \in 0..MaxChanges
  BY <1>1 DEF Take, TakeDead, rows, devices, history, TypeOK
<1> HIDE DEF h, p
<1> QED BY <1>2, <1>4, <1>5, <1>6, <1>7, <1>8, QuietHandlerStep

(* Ending a handler with its message returned or acknowledged.             *)
LEMMA EndIInv ==
  ASSUME IInv, NEW w \in Workers, handler[w].pc # "idle", Ends(w),
         message' = Retried(handler[w].device, w) \/ message' = Acked(handler[w].device, w),
         send' \in SendType, send'.status # "Absent", missed' \in BOOLEAN,
         crashes' \in 0..MaxCrashes, UNCHANGED <<delivery, devices, request, accepted>>
  PROVE  IInv'
<1> DEFINE d == handler[w].device
<1>1. send.status # "Absent" /\ d \in Devices
  BY BusyFacts
<1>0. message' \in {Retried(d, w), Acked(d, w)}
  OBVIOUS
<1> HIDE DEF d
<1>2. /\ message' \in [Devices -> MessageType]
      /\ \A e \in Devices : MessageOK(message'[e])
      /\ \A e \in Devices : message[e].state = "absent" => message'[e].state = "absent"
  <2>1. PICK q : q \in {Retried(d, w), Acked(d, w)} /\ message' = q
    BY <1>0
  <2>2. /\ q \in [Devices -> MessageType]
        /\ \A e \in Devices : MessageOK(q[e])
        /\ \A e \in Devices : message[e].state = "absent" => q[e].state = "absent"
    BY <1>1, <2>1, QueueFacts
  <2> QED BY <2>1, <2>2
<1>3. Idle \in HandlerType /\ Idle.pc = "idle" /\ handler' = [handler EXCEPT ![w] = Idle]
  BY IdleFacts DEF Ends, IInv
<1>4. live' \subseteq Devices /\ enabled' \in BOOLEAN /\ changes' \in 0..MaxChanges
  BY DEF devices, IInv, TypeOK
<1> QED BY <1>1, <1>2, <1>3, <1>4, QuietHandlerStep

(* A busy handler that goes on with its device and changes no row.         *)
LEMMA LookStep ==
  ASSUME IInv, NEW w \in Workers, handler[w].pc # "idle", NEW h \in HandlerType,
         handler' = [handler EXCEPT ![w] = h],
         h.device = handler[w].device, h.pc \notin {"deliver", "settle"},
         live' \subseteq Devices,
         UNCHANGED <<rows, enabled, changes, message, request, history>>
  PROVE  IInv'
<1> DEFINE d == handler[w].device
<1>1. send.status # "Absent" /\ d \in Devices
  BY BusyFacts
<1>2. UNCHANGED <<send, delivery, enabled, changes, message, request, accepted, missed, crashes>>
  BY DEF rows, history
<1>3. TypeOK /\ \A e \in Devices : MessageOK(message[e])
  BY DEF IInv, MessagesOK
<1>4. /\ send' \in SendType /\ send'.status # "Absent"
      /\ enabled' \in BOOLEAN /\ missed' \in BOOLEAN
      /\ crashes' \in 0..MaxCrashes /\ changes' \in 0..MaxChanges
      /\ message' \in [Devices -> MessageType]
  BY <1>1, <1>2, <1>3 DEF TypeOK
<1>5. /\ \A e \in Devices : MessageOK(message'[e])
      /\ \A e \in Devices : message[e].state = "absent" => message'[e].state = "absent"
  BY <1>2, <1>3
<1>6. h.device = d
  OBVIOUS
<1> HIDE DEF d
<1> QED BY <1>1, <1>2, <1>4, <1>5, <1>6, QuietHandlerStep

LEMMA ShownFacts ==
  ASSUME send \in SendType, NEW t \in TallyType
  PROVE  Shown(t) \in SendType /\ Shown(t).status # "Absent"
<1>1. RolledUp(t) \in SendStatuses /\ RolledUp(t) # "Absent"
  BY DEF RolledUp, SendStatuses
<1> QED BY <1>1 DEF Shown, SendType, TallyType

LEMMA QuietIInv ==
  ASSUME IInv, NEW w \in Workers,
         Lose(w) \/ Gate(w) \/ Invalidate(w) \/ Tally(w) \/ RollUp(w) \/ Crash(w)
  PROVE  IInv'
<1> DEFINE d == handler[w].device
<1>1. handler[w].pc # "idle"
  BY DEF Lose, Gate, Invalidate, Tally, RollUp, Crash
<1>2. send.status # "Absent" /\ handler[w] \in HandlerType /\ d \in Devices
  BY <1>1, BusyFacts
<1>3. TypeOK /\ \A e \in Devices : MessageOK(message[e])
  BY DEF IInv, MessagesOK
<1>4. CASE Lose(w)
  BY <1>1, <1>2, <1>3, <1>4, EndIInv DEF Lose, rows, history, TypeOK
<1>5. CASE Gate(w)
  <2> DEFINE h == [handler[w] EXCEPT !.renewed = FALSE,
                     !.pc = IF handler[w].renewed THEN "tally" ELSE "invalidate"]
  <2>1. h \in HandlerType /\ h.pc \in {"tally", "invalidate"} /\ h.device = d
    BY <1>2 DEF HandlerType
  <2>2. handler' = [handler EXCEPT ![w] = h]
    BY <1>2, <1>5 DEF Gate, HandlerType
  <2>9. live' \subseteq Devices /\ UNCHANGED <<rows, enabled, changes, message, request, history>>
    BY <1>3, <1>5 DEF Gate, devices, TypeOK
  <2> HIDE DEF h
  <2> QED BY <1>1, <2>1, <2>2, <2>9, LookStep
<1>6. CASE Invalidate(w)
  <2> DEFINE h == [handler[w] EXCEPT !.pc = "tally"]
  <2>1. h \in HandlerType /\ h.pc = "tally" /\ h.device = d
    BY <1>2 DEF HandlerType
  <2>2. handler' = [handler EXCEPT ![w] = h]
    BY <1>6 DEF Invalidate, Goto
  <2>9. live' \subseteq Devices /\ UNCHANGED <<rows, enabled, changes, message, request, history>>
    BY <1>3, <1>6 DEF Invalidate, devices, TypeOK
  <2> HIDE DEF h
  <2> QED BY <1>1, <2>1, <2>2, <2>9, LookStep
<1>7. CASE Tally(w)
  <2> DEFINE h == [handler[w] EXCEPT !.pc = "rollup", !.seen = Tallies]
  <2>1. Tallies \in TallyType
    BY <1>3, CountFacts
  <2>2. h \in HandlerType /\ h.pc = "rollup" /\ h.device = d
    BY <1>2, <2>1 DEF HandlerType
  <2>3. handler' = [handler EXCEPT ![w] = h]
    BY <1>2, <1>7 DEF Tally, HandlerType
  <2>9. live' \subseteq Devices /\ UNCHANGED <<rows, enabled, changes, message, request, history>>
    BY <1>3, <1>7 DEF Tally, devices, TypeOK
  <2> HIDE DEF h
  <2> QED BY <1>1, <2>2, <2>3, <2>9, LookStep
<1>8. CASE RollUp(w)
  <2>1. handler[w].seen \in TallyType
    BY <1>2 DEF HandlerType
  <2>2. send' \in SendType /\ send'.status # "Absent"
    BY <1>3, <1>8, <2>1, ShownFacts DEF RollUp, TypeOK
  <2>3. missed' \in BOOLEAN /\ crashes' \in 0..MaxCrashes
    BY <1>3, <1>8 DEF RollUp, TypeOK
  <2> QED BY <1>1, <1>8, <2>2, <2>3, EndIInv DEF RollUp, devices
<1>9. CASE Crash(w)
  <2>1. crashes' \in 0..MaxCrashes /\ missed' \in BOOLEAN
    BY <1>3, <1>9, PushAssumption DEF Crash, TypeOK, OwesRollUp
  <2> QED BY <1>1, <1>2, <1>3, <1>9, <2>1, EndIInv DEF Crash, rows, TypeOK
<1> QED BY <1>4, <1>5, <1>6, <1>7, <1>8, <1>9

-----------------------------------------------------------------------------
(* A busy handler goes on as h and leaves its row, accepted so often.      *)
ChangesRow(w, h, row, taken) ==
  LET d == handler[w].device
      others == {v \in Workers \ {w} : handler[v].device = d}
  IN  /\ handler[w].pc # "idle"
      /\ h \in HandlerType /\ row \in DeliveryType /\ taken \in 0..2
      /\ handler' = [handler EXCEPT ![w] = h]
      /\ delivery' = [delivery EXCEPT ![d] = row]
      /\ accepted' = [accepted EXCEPT ![d] = taken]
      /\ UNCHANGED <<send, live, enabled, changes, message, request, missed, crashes>>
      /\ h.device = d /\ HandlerOK(h, row, taken) /\ RowOK(row, taken)
      /\ \A v \in others : handler[v].pc # "idle" => HandlerOK(handler[v], row, taken)
      /\ h.pc \in {"deliver", "settle"} => \A v \in others : ~Claimed(v)

(* Such a step keeps the invariant.                                       *)
LEMMA RowStep ==
  ASSUME IInv, NEW w \in Workers, NEW h, NEW row, NEW taken, ChangesRow(w, h, row, taken)
  PROVE  IInv'
<1> DEFINE d == handler[w].device
<1> USE DEF ChangesRow
<1>1. send.status # "Absent" /\ d \in Devices
  BY BusyFacts
<1>2. TypeOK /\ \A e \in Devices : MessageOK(message[e])
  BY DEF IInv, MessagesOK
<1>3. TypeOK'
  BY <1>1, <1>2 DEF TypeOK
<1>4. handler'[w] = h /\ \A v \in Workers \ {w} : handler'[v] = handler[v]
  BY <1>2 DEF TypeOK
<1>5. /\ delivery'[d] = row /\ accepted'[d] = taken
      /\ \A e \in Devices \ {d} : delivery'[e] = delivery[e] /\ accepted'[e] = accepted[e]
  BY <1>1, <1>2 DEF TypeOK
<1>6. /\ send'.status # "Absent" /\ request' = request
      /\ \A e \in Devices : MessageOK(message'[e])
      /\ \A e \in Devices : message[e].state = "absent" => message'[e].state = "absent"
  BY <1>1, <1>2
<1> QED BY <1>1, <1>3, <1>4, <1>5, <1>6, HandlerStep

(* Nobody else is past the claim of a delivery that one handler claimed.   *)
LEMMA ClaimantFacts ==
  ASSUME IInv, NEW w \in Workers, Claimed(w), NEW v \in Workers \ {w},
         handler[v].device = handler[w].device
  PROVE  handler[v].pc \notin {"deliver", "settle"}
BY DEF IInv, OneClaimant, Claimed

LEMMA ClaimIInv ==
  ASSUME IInv, NEW w \in Workers, Claim(w)
  PROVE  IInv'
<1> DEFINE d == handler[w].device
           row == delivery[d]
<1>1. handler[w].pc = "claim"
  BY DEF Claim
<1>2. /\ handler[w] \in HandlerType /\ d \in Devices
      /\ row \in DeliveryType /\ RowOK(row, accepted[d])
  BY <1>1, BusyFacts
<1>3. TypeOK
  BY DEF IInv
<1>4. UNCHANGED <<send, live, enabled, changes, message, request, accepted, missed, crashes>>
  BY DEF Claim, devices, history
<1>5. CASE Claimable(row)
  <2> DEFINE h == [handler[w] EXCEPT !.pc = "deliver", !.number = row.attempts + 1]
             new == [row EXCEPT !.status = "InProgress", !.attempts = row.attempts + 1]
  <2>1. row.attempts + 1 \in 0..MaxAttempts
    BY <1>2, <1>5, PushAssumption DEF RowOK, Claimable, DeliveryType
  <2>2. accepted[d] = 0
    BY <1>2, <1>5 DEF RowOK, Claimable
  <2>3. h \in HandlerType /\ h.pc = "deliver" /\ h.number = row.attempts + 1 /\ h.device = d
    BY <1>2, <2>1 DEF HandlerType
  <2>4. /\ new \in DeliveryType /\ new.status = "InProgress"
        /\ new.attempts = row.attempts + 1
    BY <1>2, <2>1 DEF DeliveryType, Statuses
  <2>5. delivery' = [delivery EXCEPT ![d] = new]
    BY <1>2, <1>3, <1>5 DEF Claim, TypeOK, DeliveryType
  <2>6. handler' = [handler EXCEPT ![w] = h]
    BY <1>2, <1>3, <1>5 DEF Claim, TypeOK, HandlerType
  <2>7. accepted' = [accepted EXCEPT ![d] = accepted[d]] /\ accepted[d] \in 0..2
    BY <1>2, <1>3, <1>4 DEF TypeOK
  <2> HIDE DEF h, new
  <2>8. HandlerOK(h, new, accepted[d]) /\ RowOK(new, accepted[d])
    BY <1>2, <2>2, <2>3, <2>4 DEF HandlerOK, RowOK
  <2>9. ASSUME NEW v \in Workers \ {w}, handler[v].pc # "idle", handler[v].device = d
        PROVE  HandlerOK(handler[v], new, accepted[d]) /\ ~Claimed(v)
    <3>1. HandlerOK(handler[v], row, accepted[d])
      BY <2>9 DEF IInv, HandlersOK
    <3>2. handler[v].pc \notin {"deliver", "settle"}
      BY <1>5, <3>1 DEF HandlerOK, Claimable
    <3> QED BY <1>2, <2>9, <3>2 DEF HandlerOK, Claimed
  <2>10. \A v \in Workers \ {w} : ~(Claimed(v) /\ handler[v].device = d)
    BY <2>9 DEF Claimed
  <2> HIDE DEF d, row
  <2>11. ChangesRow(w, h, new, accepted[d])
    BY <1>1, <1>4, <2>3, <2>4, <2>5, <2>6, <2>7, <2>8, <2>9, <2>10 DEF ChangesRow, d
  <2> QED BY <2>11, RowStep
<1>6. CASE ~Claimable(row)
  <2> DEFINE h == [handler[w] EXCEPT !.pc = "lost"]
  <2>1. h \in HandlerType /\ h.pc = "lost" /\ h.device = d
    BY <1>2 DEF HandlerType
  <2>2. handler' = [handler EXCEPT ![w] = h]
    BY <1>6 DEF Claim, Goto
  <2>3. live' \subseteq Devices /\ UNCHANGED <<rows, enabled, changes, message, request, history>>
    BY <1>3, <1>4, <1>6 DEF Claim, rows, history, TypeOK
  <2> HIDE DEF h
  <2> QED BY <1>1, <2>1, <2>2, <2>3, LookStep
<1> QED BY <1>5, <1>6

LEMMA DeliverIInv ==
  ASSUME IInv, NEW w \in Workers, Deliver(w)
  PROVE  IInv'
<1> DEFINE d == handler[w].device
           row == delivery[d]
<1>1. handler[w].pc = "deliver"
  BY DEF Deliver
<1>2. /\ handler[w] \in HandlerType /\ d \in Devices /\ row \in DeliveryType
      /\ HandlerOK(handler[w], row, accepted[d]) /\ RowOK(row, accepted[d])
  BY <1>1, BusyFacts
<1>3. TypeOK
  BY DEF IInv
<1>4. UNCHANGED <<send, delivery, live, enabled, changes, message, request, missed, crashes>>
  BY DEF Deliver, rows, devices
<1>5. PICK answer \in Answers :
        /\ handler' = [handler EXCEPT ![w].pc = "settle", ![w].outcome = answer]
        /\ accepted' = [accepted EXCEPT
             ![d] = IF answer = "accepted" /\ @ < 2 THEN @ + 1 ELSE @]
  BY DEF Deliver, Answers
<1>6. accepted[d] = 0
  BY <1>1, <1>2 DEF HandlerOK
<1> DEFINE h == [handler[w] EXCEPT !.pc = "settle", !.outcome = answer]
           taken == IF answer = "accepted" THEN 1 ELSE 0
<1>7. h \in HandlerType /\ h.pc = "settle" /\ h.outcome = answer /\ h.device = d
      /\ h.number = handler[w].number
  BY <1>2 DEF HandlerType, Answers
<1>8. handler' = [handler EXCEPT ![w] = h]
  BY <1>2, <1>3, <1>5 DEF TypeOK, HandlerType
<1>9. accepted' = [accepted EXCEPT ![d] = taken] /\ taken \in 0..2
  BY <1>2, <1>3, <1>5, <1>6 DEF TypeOK
<1>10. delivery' = [delivery EXCEPT ![d] = row]
  BY <1>2, <1>3, <1>4 DEF TypeOK
<1>11. HandlerOK(h, row, taken) /\ RowOK(row, taken)
  <2> HIDE DEF h
  <2> QED BY <1>1, <1>2, <1>6, <1>7 DEF HandlerOK, RowOK
<1>12. ASSUME NEW v \in Workers \ {w}, handler[v].device = d
       PROVE  HandlerOK(handler[v], row, taken) /\ ~Claimed(v)
  <2>1. handler[v].pc \notin {"deliver", "settle"}
    BY <1>1, <1>12, ClaimantFacts DEF Claimed
  <2> QED BY <1>2, <1>12, <2>1 DEF HandlerOK, Claimed
<1> HIDE DEF h, taken, row, d
<1>13. ChangesRow(w, h, row, taken)
  BY <1>1, <1>2, <1>4, <1>7, <1>8, <1>9, <1>10, <1>11, <1>12 DEF ChangesRow, d
<1> QED BY <1>13, RowStep

(* What a verdict leaves in the row.                                       *)
LEMMA VerdictFacts ==
  ASSUME NEW h \in HandlerType, h.outcome \in Answers
  PROVE  /\ Verdict(h) \in {"Succeeded", "Failed", "Exhausted"}
         /\ Retries(h) => Verdict(h) = "Failed" /\ h.number < MaxAttempts
         /\ Verdict(h) = "Succeeded" <=> h.outcome = "accepted"
         /\ h.outcome = "accepted" => ~Retries(h)
BY DEF Verdict, Retries, Answers

LEMMA SettleIInv ==
  ASSUME IInv, NEW w \in Workers, Settle(w)
  PROVE  IInv'
<1> DEFINE d == handler[w].device
           row == delivery[d]
           g == handler[w]
<1>1. g.pc = "settle"
  BY DEF Settle
<1>2. /\ g \in HandlerType /\ d \in Devices /\ row \in DeliveryType
      /\ HandlerOK(g, row, accepted[d]) /\ RowOK(row, accepted[d])
  BY <1>1, BusyFacts
<1>3. TypeOK
  BY DEF IInv
<1>4. UNCHANGED <<send, live, enabled, changes, message, request, accepted, missed, crashes>>
  BY DEF Settle, devices, history
<1> DEFINE h == IF g.outcome = "unregistered"
                THEN [Idle EXCEPT !.pc = "gate", !.device = d, !.renewed = g.renewed]
                ELSE [Idle EXCEPT !.pc = "tally", !.device = d, !.retry = Retries(g)]
           new == [row EXCEPT !.status = Verdict(g), !.done = row.done \/ ~Retries(g)]
<1>5. /\ Verdict(g) \in {"Succeeded", "Failed", "Exhausted"} /\ Retries(g) \in BOOLEAN
      /\ Retries(g) => Verdict(g) = "Failed" /\ g.number < MaxAttempts
      /\ Verdict(g) = "Succeeded" <=> g.outcome = "accepted"
      /\ g.outcome = "accepted" => ~Retries(g)
  <2>1. g.outcome \in Answers
    BY <1>1, <1>2 DEF HandlerOK
  <2> QED BY <1>2, <2>1, VerdictFacts DEF Retries
<1>6. h \in HandlerType /\ h.pc \in {"gate", "tally"} /\ h.device = d
  <2>1. Idle \in HandlerType
    BY <1>3, IdleFacts
  <2>2. CASE g.outcome = "unregistered"
    <3>1. h = [Idle EXCEPT !.pc = "gate", !.device = d, !.renewed = g.renewed]
      BY <2>2
    <3>2. g.renewed \in BOOLEAN
      BY <1>2 DEF HandlerType
    <3> HIDE DEF h, g
    <3> QED BY <1>2, <2>1, <3>1, <3>2 DEF HandlerType
  <2>3. CASE g.outcome # "unregistered"
    <3>1. h = [Idle EXCEPT !.pc = "tally", !.device = d, !.retry = Retries(g)]
      BY <2>3
    <3> HIDE DEF h, g
    <3> QED BY <1>2, <1>5, <2>1, <3>1 DEF HandlerType
  <2> QED BY <2>2, <2>3
<1>7. /\ new \in DeliveryType /\ new.status = Verdict(g) /\ new.attempts = row.attempts
      /\ new.done = (row.done \/ ~Retries(g))
  BY <1>2, <1>5 DEF DeliveryType, Statuses
<1>8. handler' = [handler EXCEPT ![w] = h]
  BY DEF Settle
<1>9. delivery' = [delivery EXCEPT ![d] = new]
  BY <1>2, <1>3 DEF Settle, TypeOK, DeliveryType
<1>10. accepted' = [accepted EXCEPT ![d] = accepted[d]] /\ accepted[d] \in 0..2
  BY <1>2, <1>3, <1>4 DEF TypeOK
<1> HIDE DEF h, new
<1>11. RowOK(new, accepted[d])
  BY <1>1, <1>2, <1>5, <1>7 DEF HandlerOK, RowOK
<1>12. HandlerOK(h, new, accepted[d])
  BY <1>2, <1>6 DEF HandlerOK
<1>13. ASSUME NEW v \in Workers \ {w}, handler[v].device = d
       PROVE  HandlerOK(handler[v], new, accepted[d])
  <2>1. handler[v].pc \notin {"deliver", "settle"}
    BY <1>1, <1>13, ClaimantFacts DEF Claimed
  <2> QED BY <1>2, <1>13, <2>1 DEF HandlerOK
<1>14. h.pc \notin {"deliver", "settle"} /\ g.pc # "idle"
  BY <1>1, <1>6
<1> HIDE DEF row, d
<1>15. ChangesRow(w, h, new, accepted[d])
  BY <1>4, <1>6, <1>7, <1>8, <1>9, <1>10, <1>11, <1>12, <1>13, <1>14 DEF ChangesRow, d
<1> QED BY <1>15, RowStep

LEMMA MarkExhaustedIInv ==
  ASSUME IInv, NEW w \in Workers, MarkExhausted(w)
  PROVE  IInv'
<1> DEFINE d == handler[w].device
           row == delivery[d]
<1>1. handler[w].pc = "exhaust"
  BY DEF MarkExhausted
<1>2. /\ handler[w] \in HandlerType /\ d \in Devices /\ send.status # "Absent"
      /\ row \in DeliveryType /\ RowOK(row, accepted[d])
  BY <1>1, BusyFacts
<1>3. TypeOK
  BY DEF IInv
<1>4. UNCHANGED <<send, live, enabled, changes, request, accepted, missed, crashes>>
  BY DEF MarkExhausted, devices, history
<1>5. CASE row.done
  <2>1. /\ send' \in SendType /\ send'.status # "Absent" /\ missed' \in BOOLEAN
        /\ crashes' \in 0..MaxCrashes /\ UNCHANGED <<delivery, devices, request, accepted>>
    BY <1>2, <1>3, <1>4, <1>5 DEF MarkExhausted, devices, TypeOK
  <2>2. Ends(w) /\ message' = Acked(d, w)
    BY <1>5 DEF MarkExhausted
  <2> QED BY <1>1, <2>1, <2>2, EndIInv
<1>6. CASE ~row.done
  <2> DEFINE h == [handler[w] EXCEPT !.pc = "tally"]
             new == [row EXCEPT !.status = "Exhausted", !.done = TRUE]
  <2>1. h \in HandlerType /\ h.pc = "tally" /\ h.device = d
    BY <1>2 DEF HandlerType
  <2>2. /\ new \in DeliveryType /\ new.status = "Exhausted" /\ new.done
        /\ new.attempts = row.attempts
    BY <1>2 DEF DeliveryType, Statuses
  <2>3. handler' = [handler EXCEPT ![w] = h] /\ message' = message
    BY <1>6 DEF MarkExhausted, Goto
  <2>4. delivery' = [delivery EXCEPT ![d] = new]
    BY <1>2, <1>3, <1>6 DEF MarkExhausted, TypeOK, DeliveryType
  <2>5. accepted' = [accepted EXCEPT ![d] = accepted[d]] /\ accepted[d] \in 0..2
    BY <1>2, <1>3, <1>4 DEF TypeOK
  <2> HIDE DEF h, new
  <2>6. RowOK(new, accepted[d]) /\ HandlerOK(h, new, accepted[d])
    BY <1>2, <2>1, <2>2 DEF HandlerOK, RowOK
  <2>7. ASSUME NEW v \in Workers \ {w}, handler[v].pc # "idle", handler[v].device = d
        PROVE  HandlerOK(handler[v], new, accepted[d])
    <3>1. HandlerOK(handler[v], row, accepted[d])
      BY <2>7 DEF IInv, HandlersOK
    <3> QED BY <2>2, <3>1 DEF HandlerOK
  <2>8. h.pc \notin {"deliver", "settle"} /\ handler[w].pc # "idle"
    BY <1>1, <2>1
  <2> HIDE DEF row, d
  <2>9. ChangesRow(w, h, new, accepted[d])
    BY <1>4, <2>1, <2>2, <2>3, <2>4, <2>5, <2>6, <2>7, <2>8 DEF ChangesRow, d
  <2> QED BY <2>9, RowStep
<1> QED BY <1>5, <1>6

-----------------------------------------------------------------------------
(* The requests.                                                           *)
LEMMA RequestFacts ==
  ASSUME TypeOK, NEW r \in Requests, NEW pc, NEW targets \in SUBSET Devices,
         pc \in {"new", "resolved", "persisted", "sent", "failed", "replayed", "rejected"},
         RequestBecomes(r, pc, targets)
  PROVE  /\ request' \in [Requests -> RequestType]
         /\ request'[r].pc = pc
         /\ \A q \in Requests \ {r} : request'[q] = request[q]
BY DEF RequestBecomes, TypeOK, RequestType

(* What the parts of the invariant that speak of handlers rest on.         *)
LEMMA SameWork ==
  ASSUME IInv, UNCHANGED <<delivery, handler, accepted>>
  PROVE  RowsOK' /\ HandlersOK' /\ OneClaimant'
BY DEF IInv, RowsOK, RowOK, HandlersOK, HandlerOK, OneClaimant, Claimed

(* A request that answers, or goes on to insert.                           *)
LEMMA AnswerIInv ==
  ASSUME IInv, NEW r \in Requests, NEW pc \in {"resolved", "replayed", "rejected"},
         NEW targets \in SUBSET Devices, RequestBecomes(r, pc, targets),
         UNCHANGED <<rows, devices, message, handler, history>>
  PROVE  IInv'
<1>1. UNCHANGED <<send, delivery, live, enabled, changes, message, handler,
                  accepted, missed, crashes>>
  BY DEF rows, devices, history
<1>2. TypeOK
  BY DEF IInv
<1>3. /\ request' \in [Requests -> RequestType] /\ request'[r].pc = pc
      /\ \A q \in Requests \ {r} : request'[q] = request[q]
  BY <1>2, RequestFacts
<1>4. TypeOK'
  BY <1>1, <1>2, <1>3 DEF TypeOK
<1>5. \A q \in Requests : request'[q].pc \in {"persisted", "sent", "failed"} =>
        q # r /\ request'[q] = request[q]
  BY <1>3
<1>6. EmptyUntilSent' /\ OneInserter' /\ MessagesOK' /\ UndispatchedOK'
  <2>1. EmptyUntilSent'
    BY <1>1, <1>5 DEF IInv, EmptyUntilSent, Untouched
  <2>2. OneInserter'
    BY <1>5 DEF IInv, OneInserter, Inserted
  <2>3. MessagesOK' /\ UndispatchedOK'
    BY <1>1, <1>5 DEF IInv, MessagesOK, MessageOK, UndispatchedOK
  <2> QED BY <2>1, <2>2, <2>3
<1> QED BY <1>1, <1>4, <1>6, SameWork DEF IInv

LEMMA LookIInv ==
  ASSUME IInv, NEW r \in Requests, Look(r)
  PROVE  IInv'
<1>1. PICK pc \in {"resolved", "replayed", "rejected"}, targets \in SUBSET Devices :
        RequestBecomes(r, pc, targets)
  <2>1. live \in SUBSET Devices /\ {} \in SUBSET Devices
    BY DEF IInv, TypeOK
  <2> QED BY <2>1 DEF Look
<1> QED BY <1>1, AnswerIInv DEF Look

LEMMA PersistIInv ==
  ASSUME IInv, NEW r \in Requests, Persist(r)
  PROVE  IInv'
<1> DEFINE targets == request[r].devices
<1>1. TypeOK
  BY DEF IInv
<1>2. targets \in SUBSET Devices
  BY <1>1 DEF TypeOK, RequestType
<1>3. CASE KeyTaken
  <2>1. RequestBecomes(r, "replayed", {}) /\ UNCHANGED <<rows, devices, message, handler, history>>
    BY <1>3 DEF Persist
  <2> QED BY <2>1, AnswerIInv
<1>4. CASE ~KeyTaken
  <2>1. /\ UNCHANGED <<live, enabled, changes, message, handler, accepted, missed, crashes>>
        /\ RequestBecomes(r, "persisted", targets)
    BY <1>4 DEF Persist, devices, history
  <2>2. Untouched
    BY <1>4 DEF KeyTaken, IInv, EmptyUntilSent
  <2>3. /\ send' \in SendType
        /\ send'.status # "Absent"
    BY <1>1, <1>4 DEF Persist, TypeOK, SendType, SendStatuses
  <2>4. /\ request' \in [Requests -> RequestType] /\ request'[r].pc = "persisted"
        /\ \A q \in Requests \ {r} : request'[q] = request[q]
    BY <1>1, <1>2, <2>1, RequestFacts
  <2> DEFINE new == [status |-> "Pending", attempts |-> 0, done |-> FALSE]
  <2>5. new \in DeliveryType /\ RowOK(new, 0)
    BY <1>1, CountFacts DEF DeliveryType, Statuses, RowOK
  <2>6. delivery' = [d \in Devices |-> IF d \in targets THEN new ELSE delivery[d]]
    BY <1>4 DEF Persist
  <2> HIDE DEF new
  <2>7. \A d \in Devices : /\ delivery'[d] \in DeliveryType
                           /\ RowOK(delivery'[d], accepted'[d])
    BY <1>1, <2>1, <2>2, <2>5, <2>6 DEF TypeOK, Untouched, IInv, RowsOK
  <2>8. TypeOK'
    BY <1>1, <2>1, <2>3, <2>4, <2>6, <2>7 DEF TypeOK
  <2>9. RowsOK'
    BY <2>7 DEF RowsOK, RowOK
  <2>10. HandlersOK' /\ OneClaimant'
    BY <2>1, <2>2 DEF HandlersOK, HandlerOK, OneClaimant, Claimed, Untouched
  <2>11. OneInserter'
    BY <2>2, <2>4 DEF OneInserter, Inserted, Untouched
  <2>12. MessagesOK' /\ UndispatchedOK'
    BY <2>1, <2>2 DEF IInv, MessagesOK, MessageOK, UndispatchedOK, Untouched
  <2> QED BY <2>3, <2>8, <2>9, <2>10, <2>11, <2>12 DEF IInv, EmptyUntilSent
<1> QED BY <1>3, <1>4

(* A dispatch that succeeds or fails changes nothing but messages.         *)
LEMMA DispatchIInv ==
  ASSUME IInv, NEW r \in Requests, Dispatch(r) \/ LoseDispatch(r)
  PROVE  IInv'
<1>1. TypeOK /\ Inserted(r)
  BY DEF IInv, Inserted, Dispatch, LoseDispatch
<1>2. UNCHANGED <<send, delivery, live, enabled, changes, handler, accepted, missed>>
  BY DEF Dispatch, LoseDispatch, rows, devices, history
<1>3. crashes' \in 0..MaxCrashes
  BY <1>1, PushAssumption DEF Dispatch, LoseDispatch, history, TypeOK
<1>4. PICK pc \in {"sent", "failed"} : RequestBecomes(r, pc, {})
  BY DEF Dispatch, LoseDispatch
<1>5. /\ request' \in [Requests -> RequestType] /\ request'[r].pc = pc
      /\ \A q \in Requests \ {r} : request'[q] = request[q]
  BY <1>1, <1>4, RequestFacts
<1>6. /\ message' \in [Devices -> MessageType]
      /\ \A e \in Devices : MessageOK(message'[e])
  <2>1. /\ message \in [Devices -> MessageType]
        /\ \A e \in Devices : MessageOK(message[e]) /\ message[e].state = "absent"
    BY <1>1 DEF TypeOK, IInv, MessagesOK, UndispatchedOK, Dispatch, LoseDispatch
  <2>2. CASE LoseDispatch(r)
    BY <2>1, <2>2 DEF LoseDispatch
  <2>3. CASE Dispatch(r)
    <3>1. ASSUME NEW e \in Devices
          PROVE  /\ [message[e] EXCEPT !.state = "ready"] \in MessageType
                 /\ MessageOK([message[e] EXCEPT !.state = "ready"])
      BY <2>1, PushAssumption DEF MessageType, MessageOK
    <3>2. message' = [d \in Devices |->
            IF d \in request[r].devices THEN [message[d] EXCEPT !.state = "ready"] ELSE message[d]]
      BY <2>3 DEF Dispatch
    <3> QED BY <2>1, <3>1, <3>2
  <2> QED BY <2>2, <2>3
<1>7. TypeOK'
  BY <1>1, <1>2, <1>3, <1>5, <1>6 DEF TypeOK
<1>8. send.status # "Absent"
  BY <1>1 DEF IInv, EmptyUntilSent, Untouched, Inserted
<1>9. EmptyUntilSent' /\ MessagesOK'
  BY <1>2, <1>6, <1>8 DEF EmptyUntilSent, MessagesOK, MessageOK
<1>10. OneInserter'
  BY <1>1, <1>5 DEF IInv, OneInserter, Inserted
<1>11. UndispatchedOK'
  BY <1>1, <1>5 DEF IInv, OneInserter, Inserted, UndispatchedOK
<1> QED BY <1>2, <1>7, <1>9, <1>10, <1>11, SameWork DEF IInv

-----------------------------------------------------------------------------
(* The environment.                                                        *)
LEMMA OverdueIInv ==
  ASSUME IInv, NEW d \in Devices, Overdue(d)
  PROVE  IInv'
<1>1. TypeOK
  BY DEF IInv
<1>2. UNCHANGED <<send, delivery, live, enabled, changes, handler, request,
                  accepted, missed, crashes>>
  BY DEF Overdue, rows, devices, history
<1>3. message \in [Devices -> MessageType] /\ \A e \in Devices : MessageOK(message[e])
  BY DEF IInv, TypeOK, MessagesOK
<1>4. message[d].state # "absent" /\ message' = [message EXCEPT ![d] = Returned(message[d])]
  BY DEF Overdue
<1>5. Returned(message[d]) \in MessageType /\ MessageOK(Returned(message[d]))
      /\ Returned(message[d]).state # "absent"
  BY <1>3, <1>4, ReturnedFacts
<1>6. /\ message' \in [Devices -> MessageType]
      /\ \A e \in Devices : MessageOK(message'[e])
      /\ \A e \in Devices : message[e].state = "absent" => message'[e].state = "absent"
  BY <1>3, <1>4, <1>5
<1>7. TypeOK'
  BY <1>1, <1>2, <1>6 DEF TypeOK
<1>8. EmptyUntilSent'
  BY <1>2, <1>4 DEF IInv, EmptyUntilSent, Untouched
<1>9. OneInserter' /\ MessagesOK' /\ UndispatchedOK'
  BY <1>2, <1>6 DEF IInv, OneInserter, Inserted, MessagesOK, MessageOK, UndispatchedOK
<1> QED BY <1>2, <1>7, <1>8, <1>9, SameWork DEF IInv

(* A device's date tells a handler nothing but that.                       *)
LEMMA DatedFacts ==
  ASSUME TypeOK, NEW d \in Devices, Dated(d)
  PROVE  /\ handler' \in [Workers -> HandlerType]
         /\ \A w \in Workers : /\ handler'[w].pc = handler[w].pc
                               /\ handler'[w].device = handler[w].device
                               /\ handler'[w].number = handler[w].number
                               /\ handler'[w].outcome = handler[w].outcome
                               /\ handler'[w].seen = handler[w].seen
<1>1. PICK later \in SUBSET Workers :
        handler' = [w \in Workers |->
          IF w \in later THEN [handler[w] EXCEPT !.renewed = TRUE] ELSE handler[w]]
  BY DEF Dated
<1>2. ASSUME NEW w \in Workers
      PROVE  LET h == [handler[w] EXCEPT !.renewed = TRUE]
             IN  /\ h \in HandlerType /\ h.pc = handler[w].pc /\ h.device = handler[w].device
                 /\ h.number = handler[w].number /\ h.outcome = handler[w].outcome
                 /\ h.seen = handler[w].seen
  BY DEF TypeOK, HandlerType
<1>3. handler \in [Workers -> HandlerType]
  BY DEF TypeOK
<1> QED BY <1>1, <1>2, <1>3

LEMMA ChangeIInv ==
  ASSUME IInv,
         Configure \/ \E d \in Devices : Register(d) \/ Refresh(d) \/ Unregister(d)
  PROVE  IInv'
<1>1. TypeOK
  BY DEF IInv
<1>2. UNCHANGED <<send, delivery, message, request, accepted, missed, crashes>>
  BY DEF Configure, Register, Refresh, Unregister, rows, history
<1>3. /\ live' \subseteq Devices /\ enabled' \in BOOLEAN /\ changes' \in 0..MaxChanges
  <2>1. Change => changes' \in 0..MaxChanges
    BY <1>1, PushAssumption DEF Change, TypeOK
  <2>2. CASE Configure
    BY <1>1, <2>1, <2>2 DEF Configure, TypeOK
  <2>3. CASE \E d \in Devices : Register(d) \/ Refresh(d) \/ Unregister(d)
    <3>1. PICK d \in Devices : Register(d) \/ Refresh(d) \/ Unregister(d)
      BY <2>3
    <3> QED BY <1>1, <2>1, <3>1 DEF Register, Refresh, Unregister, TypeOK
  <2> QED BY <2>2, <2>3
<1>4. /\ handler' \in [Workers -> HandlerType]
      /\ \A w \in Workers : /\ handler'[w].pc = handler[w].pc
                            /\ handler'[w].device = handler[w].device
                            /\ handler'[w].number = handler[w].number
                            /\ handler'[w].outcome = handler[w].outcome
  <2>1. CASE Configure
    BY <1>1, <2>1 DEF Configure, TypeOK
  <2>2. CASE \E d \in Devices : Register(d) \/ Refresh(d) \/ Unregister(d)
    <3>1. PICK d \in Devices : Dated(d)
      BY <2>2 DEF Register, Refresh, Unregister
    <3> QED BY <1>1, <3>1, DatedFacts
  <2> QED BY <2>1, <2>2
<1>5. TypeOK'
  BY <1>1, <1>2, <1>3, <1>4 DEF TypeOK
<1>6. EmptyUntilSent'
  BY <1>2, <1>4 DEF IInv, EmptyUntilSent, Untouched
<1>7. RowsOK' /\ OneInserter' /\ MessagesOK' /\ UndispatchedOK'
  BY <1>2 DEF IInv, RowsOK, RowOK, OneInserter, Inserted, MessagesOK, MessageOK, UndispatchedOK
<1>8. HandlersOK'
  BY <1>2, <1>4 DEF IInv, HandlersOK, HandlerOK
<1>9. OneClaimant'
  BY <1>4 DEF IInv, OneClaimant, Claimed
<1> QED BY <1>5, <1>6, <1>7, <1>8, <1>9 DEF IInv

LEMMA NextIInv == IInv /\ [Next]_vars => IInv'
<1> SUFFICES ASSUME IInv, [Next]_vars PROVE IInv'
  OBVIOUS
<1>1. CASE \E r \in Requests : Look(r) \/ Persist(r) \/ Dispatch(r) \/ LoseDispatch(r)
  BY <1>1, LookIInv, PersistIInv, DispatchIInv
<1>2. CASE Queue
  BY <1>2, TakeIInv DEF Queue
<1>3. CASE \E w \in Workers : Handle(w) \/ Crash(w)
  <2>1. PICK w \in Workers : Handle(w) \/ Crash(w)
    BY <1>3
  <2>2. CASE Claim(w)
    BY <2>2, ClaimIInv
  <2>3. CASE Deliver(w)
    BY <2>3, DeliverIInv
  <2>4. CASE Settle(w)
    BY <2>4, SettleIInv
  <2>5. CASE MarkExhausted(w)
    BY <2>5, MarkExhaustedIInv
  <2>6. CASE Lose(w) \/ Gate(w) \/ Invalidate(w) \/ Tally(w) \/ RollUp(w) \/ Crash(w)
    BY <2>6, QuietIInv
  <2> QED BY <2>1, <2>2, <2>3, <2>4, <2>5, <2>6 DEF Handle
<1>4. CASE \E d \in Devices : Overdue(d)
  BY <1>4, OverdueIInv
<1>5. CASE Configure \/ \E d \in Devices : Register(d) \/ Refresh(d) \/ Unregister(d)
  BY <1>5, ChangeIInv
<1>6. CASE UNCHANGED vars
  <2>1. UNCHANGED <<send, delivery, live, enabled, changes, message, handler, request,
                    accepted, missed, crashes>>
    BY <1>6 DEF vars, rows, devices, history
  <2>2. TypeOK'
    BY <2>1 DEF IInv, TypeOK
  <2>3. EmptyUntilSent' /\ OneInserter'
    BY <2>1 DEF IInv, EmptyUntilSent, Untouched, OneInserter, Inserted
  <2>4. MessagesOK' /\ UndispatchedOK'
    BY <2>1 DEF IInv, MessagesOK, MessageOK, UndispatchedOK
  <2> QED BY <2>1, <2>2, <2>3, <2>4, SameWork DEF IInv
<1> QED BY <1>1, <1>2, <1>3, <1>4, <1>5, <1>6 DEF Next

LEMMA IInvHolds == Spec => []IInv
<1>1. Init => IInv
  BY InitIInv
<1>2. IInv /\ [Next]_vars => IInv'
  BY NextIInv
<1> QED BY <1>1, <1>2, PTL DEF Spec

-----------------------------------------------------------------------------
(* Every row counts no more attempts than its budget, and every other      *)
(* column of send, deliveries, messages and handlers keeps its type.       *)
THEOREM DeliveriesKeepTheirTypes == Spec => []TypeOK
<1>1. IInv => TypeOK
  BY DEF IInv
<1> QED BY <1>1, IInvHolds, PTL

(* Two handlers never work on one delivery at once, although the queue     *)
(* hands its message out again while a handler still runs.                 *)
THEOREM OneHandlerPerDelivery == Spec => []OneClaimant
<1>1. IInv => OneClaimant
  BY DEF IInv
<1> QED BY <1>1, IInvHolds, PTL

(* The provider accepts a delivery at most once, and exactly once when the *)
(* row says Succeeded.                                                     *)
THEOREM PushedAtMostOnce == Spec => []AcceptedOnce
<1>1. IInv => AcceptedOnce
  BY DEF IInv, RowsOK, RowOK, AcceptedOnce
<1> QED BY <1>1, IInvHolds, PTL

(* However many requests use the key, one of them creates the send.        *)
THEOREM SentOncePerKey == Spec => []OneSendPerKey
<1>1. ASSUME IInv PROVE OneSendPerKey
  <2> DEFINE S == {r \in Requests : Inserted(r)}
  <2>1. OneSendPerKey <=> Cardinality(S) <= 1
    BY DEF OneSendPerKey, Inserted
  <2>2. CASE S = {}
    BY <2>1, <2>2, FS_EmptySet
  <2>3. CASE S # {}
    <3>1. PICK r \in S : TRUE
      BY <2>3
    <3>2. S = {r}
      BY <1>1, <3>1 DEF IInv, OneInserter
    <3>3. Cardinality(S) = 1
      BY <3>2, FS_Singleton
    <3> HIDE DEF S
    <3> QED BY <2>1, <3>3
  <2> QED BY <2>2, <2>3
<1> QED BY <1>1, IInvHolds, PTL

(* A step on a row that is done leaves it done with the attempts it had.   *)
LEMMA DoneStep ==
  ASSUME IInv, [Next]_vars, NEW d \in Devices, delivery[d].done
  PROVE  delivery'[d].done /\ delivery'[d].attempts = delivery[d].attempts
<1>1. delivery \in [Devices -> DeliveryType]
  BY DEF IInv, TypeOK
<1>2. ASSUME delivery' = delivery
      PROVE  delivery'[d].done /\ delivery'[d].attempts = delivery[d].attempts
  BY <1>2
<1>3. ASSUME NEW w \in Workers, Claim(w)
      PROVE  delivery'[d].done /\ delivery'[d].attempts = delivery[d].attempts
  <2>1. Claimable(delivery[handler[w].device]) => handler[w].device # d
    BY DEF Claimable
  <2> QED BY <1>1, <1>3, <2>1 DEF Claim
<1>4. ASSUME NEW w \in Workers, Settle(w)
      PROVE  delivery'[d].done /\ delivery'[d].attempts = delivery[d].attempts
  <2>1. delivery[d] \in DeliveryType
    BY <1>1
  <2> DEFINE new == [delivery[d] EXCEPT !.status = Verdict(handler[w]),
                                        !.done = @ \/ ~Retries(handler[w])]
  <2>2. new.done /\ new.attempts = delivery[d].attempts
    BY <2>1 DEF DeliveryType
  <2>3. delivery'[d] = delivery[d] \/ delivery'[d] = new
    BY <1>1, <1>4 DEF Settle, DeliveryType
  <2> HIDE DEF new
  <2> QED BY <2>2, <2>3
<1>5. ASSUME NEW w \in Workers, MarkExhausted(w)
      PROVE  delivery'[d].done /\ delivery'[d].attempts = delivery[d].attempts
  BY <1>1, <1>5 DEF MarkExhausted
<1>6. ASSUME NEW r \in Requests, Persist(r)
      PROVE  delivery'[d].done /\ delivery'[d].attempts = delivery[d].attempts
  <2>1. KeyTaken
    BY DEF IInv, EmptyUntilSent, Untouched, KeyTaken
  <2> QED BY <1>6, <2>1 DEF Persist, rows
<1>7. ASSUME NEW w \in Workers,
             Lose(w) \/ Deliver(w) \/ Gate(w) \/ Invalidate(w) \/ Tally(w) \/ RollUp(w) \/ Crash(w)
      PROVE  delivery' = delivery
  BY <1>7 DEF Lose, Deliver, Gate, Invalidate, Tally, RollUp, Crash, rows
<1>8. ASSUME NEW r \in Requests, Look(r) \/ Dispatch(r) \/ LoseDispatch(r)
      PROVE  delivery' = delivery
  BY <1>8 DEF Look, Dispatch, LoseDispatch, rows
<1>9. ASSUME \/ UNCHANGED vars \/ Configure \/ Queue
             \/ \E e \in Devices : Overdue(e) \/ Register(e) \/ Refresh(e) \/ Unregister(e)
      PROVE  delivery' = delivery
  BY <1>9 DEF vars, rows, Configure, Queue, Take, TakeDead, Overdue, Register, Refresh, Unregister
<1> QED BY <1>2, <1>3, <1>4, <1>5, <1>6, <1>7, <1>8, <1>9 DEF Next, Handle

(* A completed delivery is never reopened nor attempted again, also not by *)
(* a handler that settles it late.                                         *)
THEOREM FinishedForGood == Spec => FinishedStays
<1>1. IInv /\ [Next]_vars =>
        [\A d \in Devices : delivery[d].done =>
           delivery'[d].done /\ delivery'[d].attempts = delivery[d].attempts]_vars
  BY DoneStep
<1> QED BY <1>1, IInvHolds, PTL DEF Spec, FinishedStays

-----------------------------------------------------------------------------
(* The parent row tells the deliveries.                                    *)

(* What is completed counts as settled, so that a count of nothing in      *)
(* flight says that everything is done, and goes on being right however    *)
(* late the handler that made it writes the parent.                        *)
CompletedIsSettled == \A d \in Devices : delivery[d].done => Settled(delivery[d])
AllDone == \A d \in Children : delivery[d].done
CountedDone ==
  \A w \in Workers : handler[w].pc = "rollup" /\ handler[w].seen.inFlight = 0 => AllDone

NothingShown == send.status = "Absent" => send.succeeded = 0 /\ send.failed = 0

ParentInv == CompletedIsSettled /\ CountedDone /\ NothingShown /\ ParentTells

SucceededRows == {d \in Children : delivery[d].status = "Succeeded"}
SettledRows == {d \in Children : Settled(delivery[d])}

Owing == {"gate", "invalidate", "tally", "rollup"}

LEMMA TallyFields ==
  ASSUME TypeOK
  PROVE  /\ Tallies.succeeded = Cardinality(SucceededRows)
         /\ Tallies.failed = Cardinality(SettledRows \ SucceededRows)
         /\ Tallies.inFlight = Cardinality(Children \ SettledRows)
         /\ Children \subseteq Devices /\ IsFiniteSet(Children \ SettledRows)
<1>1. /\ Tallies.succeeded = Cardinality(SucceededRows)
      /\ Tallies.failed = Cardinality(SettledRows \ SucceededRows)
      /\ Tallies.inFlight = Cardinality(Children \ SettledRows)
  BY DEF Tallies, SucceededRows, SettledRows
<1>2. Children \subseteq Devices /\ Children \ SettledRows \subseteq Devices
  BY DEF Children
<1>3. IsFiniteSet(Children \ SettledRows)
  BY <1>2, PushAssumption, FS_Subset
<1> QED BY <1>1, <1>2, <1>3

(* Nothing is in flight exactly when every delivery is done. *)
LEMMA NothingInFlight ==
  ASSUME TypeOK, RowsOK, CompletedIsSettled
  PROVE  Tallies.inFlight = 0 <=> AllDone
<1>1. \A d \in Devices : Settled(delivery[d]) <=> delivery[d].done
  BY DEF RowsOK, RowOK, CompletedIsSettled, Settled
<1>2. Children \ SettledRows = {} <=> AllDone
  BY <1>1 DEF SettledRows, AllDone, Children
<1>3. Tallies.inFlight = 0 <=> Children \ SettledRows = {}
  BY TallyFields, FS_EmptySet
<1> QED BY <1>2, <1>3

(* A handler takes a step that makes it owe a roll-up, or keeps it owing.  *)
LEMMA OwingStep ==
  ASSUME IInv, ParentInv, NEW w \in Workers, NEW x, handler' = [handler EXCEPT ![w] = x],
         x.pc \in Owing, x.pc = "rollup" /\ x.seen.inFlight = 0 => AllDone',
         UNCHANGED send, AllDone => AllDone', CompletedIsSettled'
  PROVE  ParentInv'
<1>1. handler'[w] = x /\ \A v \in Workers \ {w} : handler'[v] = handler[v]
  BY DEF IInv, TypeOK
<1>2. OwesRollUp(w)'
  BY <1>1 DEF OwesRollUp, Owing
<1>3. CountedDone'
  BY <1>1 DEF ParentInv, CountedDone
<1>4. ParentTells'
  BY <1>2 DEF ParentInv, ParentTells, AllDone
<1> QED BY <1>3, <1>4 DEF ParentInv, NothingShown

(* A step that leaves the deliveries' counts alone, and no handler stops   *)
(* owing a roll-up.                                                        *)
LEMMA RestingStep ==
  ASSUME IInv, ParentInv,
         \A v \in Workers : handler'[v].pc = "rollup" =>
            handler[v].pc = "rollup" /\ handler'[v].seen = handler[v].seen,
         \A v \in Workers : handler[v].pc \in Owing => handler'[v].pc \in Owing,
         UNCHANGED <<send, missed, Tallies>>, AllDone => AllDone', CompletedIsSettled'
  PROVE  ParentInv'
<1>1. CountedDone'
  BY DEF ParentInv, CountedDone
<1>2. (\A v \in Workers : ~OwesRollUp(v))' => \A v \in Workers : ~OwesRollUp(v)
  BY DEF OwesRollUp, Owing
<1>3. /\ send' = send /\ missed' = missed /\ Tallies' = Tallies
      /\ RolledUp(Tallies)' = RolledUp(Tallies)
  BY DEF RolledUp
<1>4. ParentTells'
  BY <1>2, <1>3 DEF ParentInv, ParentTells, AllDone
<1> QED BY <1>1, <1>3, <1>4 DEF ParentInv, NothingShown

LEMMA RowsKept ==
  ASSUME ParentInv, UNCHANGED delivery
  PROVE  Tallies' = Tallies /\ (AllDone => AllDone') /\ CompletedIsSettled'
  BY DEF ParentInv, Tallies, AllDone, CompletedIsSettled, Children, Settled

(* The claim of an open row counts as in flight what was in flight before. *)
LEMMA ClaimParent ==
  ASSUME IInv, ParentInv, NEW w \in Workers, Claim(w)
  PROVE  ParentInv'
<1>1. PICK d : d = handler[w].device
  OBVIOUS
<1>2. d \in Devices /\ delivery \in [Devices -> DeliveryType]
  BY <1>1, BusyFacts DEF Claim, IInv, TypeOK
<1>3. UNCHANGED <<send, missed>>
  BY DEF Claim, history
<1>4. /\ \A v \in Workers : handler'[v].pc = "rollup" =>
            handler[v].pc = "rollup" /\ handler'[v].seen = handler[v].seen
      /\ \A v \in Workers : handler[v].pc \in Owing => handler'[v].pc \in Owing
  <2>1. \A v \in Workers \ {w} : handler'[v] = handler[v]
    BY DEF Claim, Goto, IInv, TypeOK
  <2>2. handler'[w].pc \in {"deliver", "lost"}
    BY DEF Claim, Goto, IInv, TypeOK, HandlerType
  <2> QED BY <2>1, <2>2 DEF Claim, Owing
<1>5. CASE ~Claimable(delivery[d])
  BY <1>1, <1>3, <1>4, <1>5, RowsKept, RestingStep DEF Claim
<1>6. CASE Claimable(delivery[d])
  <2>1. /\ delivery'[d].status = "InProgress" /\ delivery'[d].done = delivery[d].done
        /\ \A e \in Devices \ {d} : delivery'[e] = delivery[e]
    BY <1>1, <1>2, <1>6 DEF Claim, DeliveryType
  <2>2. delivery[d].status \in {"Pending", "Failed"} /\ ~delivery[d].done
    BY <1>6 DEF Claimable
  <2>3. Children' = Children
    BY <2>1, <2>2 DEF Children
  <2>4. SucceededRows' = SucceededRows /\ SettledRows' = SettledRows
    BY <2>1, <2>2, <2>3 DEF SucceededRows, SettledRows, Settled, Children
  <2>5. Tallies' = Tallies
    BY <2>3, <2>4 DEF Tallies, SucceededRows, SettledRows
  <2>6. ~AllDone /\ CompletedIsSettled'
    BY <1>2, <2>1, <2>2 DEF AllDone, Children, ParentInv, CompletedIsSettled, Settled
  <2> QED BY <1>3, <1>4, <2>5, <2>6, RestingStep
<1> QED BY <1>5, <1>6

LEMMA SettleParent ==
  ASSUME IInv, ParentInv, NEW w \in Workers, Settle(w)
  PROVE  ParentInv'
<1>1. PICK h, d : h = handler[w] /\ d = h.device
  OBVIOUS
<1>2. /\ d \in Devices /\ delivery \in [Devices -> DeliveryType] /\ h \in HandlerType
      /\ delivery[d].status = "InProgress" \/ delivery[d].done
  BY <1>1, BusyFacts DEF Settle, HandlerOK, IInv, TypeOK
<1>3. /\ delivery'[d].status = Verdict(h)
      /\ delivery'[d].done <=> delivery[d].done \/ ~Retries(h)
      /\ \A e \in Devices \ {d} : delivery'[e] = delivery[e]
  <2> DEFINE new == [delivery[d] EXCEPT !.status = Verdict(h), !.done = @ \/ ~Retries(h)]
  <2>1. delivery' = [delivery EXCEPT ![d] = new]
    BY <1>1, <1>2 DEF Settle, DeliveryType
  <2>2. new.status = Verdict(h) /\ (new.done <=> delivery[d].done \/ ~Retries(h))
    BY <1>2 DEF DeliveryType
  <2> HIDE DEF new
  <2> QED BY <1>2, <2>1, <2>2
<1>4. Verdict(h) \in {"Succeeded", "Failed", "Exhausted"}
  BY DEF Verdict
<1>5. CompletedIsSettled'
  BY <1>3, <1>4 DEF ParentInv, CompletedIsSettled, Settled
<1>6. AllDone => AllDone'
  BY <1>2, <1>3 DEF AllDone, Children
<1>7. PICK x : handler' = [handler EXCEPT ![w] = x] /\ x.pc \in {"gate", "tally"}
  <2> DEFINE y == [Idle EXCEPT !.pc = "gate", !.device = h.device, !.renewed = h.renewed]
             z == [Idle EXCEPT !.pc = "tally", !.device = h.device, !.retry = Retries(h)]
  <2>1. y.pc = "gate" /\ z.pc = "tally"
    BY DEF Idle
  <2>2. handler' = [handler EXCEPT ![w] = IF h.outcome = "unregistered" THEN y ELSE z]
    BY <1>1 DEF Settle
  <2> HIDE DEF y, z
  <2> QED BY <2>1, <2>2
<1>8. UNCHANGED send
  BY DEF Settle
<1> QED BY <1>5, <1>6, <1>7, <1>8, OwingStep DEF Owing

LEMMA ExhaustParent ==
  ASSUME IInv, ParentInv, NEW w \in Workers, MarkExhausted(w)
  PROVE  ParentInv'
<1>1. PICK h, d : h = handler[w] /\ d = h.device
  OBVIOUS
<1>2. /\ d \in Devices /\ delivery \in [Devices -> DeliveryType] /\ handler \in [Workers -> HandlerType]
      /\ h.pc = "exhaust" /\ UNCHANGED <<send, missed>>
  BY <1>1, BusyFacts DEF MarkExhausted, IInv, TypeOK, history
<1>3. CASE delivery[d].done
  <2>1. handler' = [handler EXCEPT ![w] = Idle] /\ delivery' = delivery /\ Idle.pc = "idle"
    BY <1>1, <1>3 DEF MarkExhausted, Ends, Idle
  <2>2. /\ \A v \in Workers : handler'[v].pc = "rollup" =>
              handler[v].pc = "rollup" /\ handler'[v].seen = handler[v].seen
        /\ \A v \in Workers : handler[v].pc \in Owing => handler'[v].pc \in Owing
    BY <1>1, <1>2, <2>1 DEF Owing
  <2> QED BY <1>2, <2>1, <2>2, RowsKept, RestingStep
<1>4. CASE ~delivery[d].done
  <2>1. /\ delivery'[d].status = "Exhausted" /\ delivery'[d].done
        /\ \A e \in Devices \ {d} : delivery'[e] = delivery[e]
    BY <1>1, <1>2, <1>4 DEF MarkExhausted, DeliveryType
  <2>2. CompletedIsSettled' /\ (AllDone => AllDone')
    BY <2>1 DEF ParentInv, CompletedIsSettled, Settled, AllDone, Children
  <2> DEFINE x == [h EXCEPT !.pc = "tally"]
  <2>3. handler' = [handler EXCEPT ![w] = x] /\ x.pc = "tally"
    BY <1>1, <1>2, <1>4 DEF MarkExhausted, Goto, HandlerType
  <2> HIDE DEF x
  <2> QED BY <1>2, <2>2, <2>3, OwingStep DEF Owing
<1> QED BY <1>3, <1>4

(* The handler counts, and later writes what it has counted. *)
LEMMA TallyParent ==
  ASSUME IInv, ParentInv, NEW w \in Workers, Gate(w) \/ Invalidate(w) \/ Tally(w)
  PROVE  ParentInv'
<1>1. handler[w] \in HandlerType /\ TypeOK /\ RowsOK /\ CompletedIsSettled
  BY DEF IInv, TypeOK, ParentInv
<1>2. UNCHANGED <<send, delivery>>
  BY DEF Gate, Invalidate, Tally, rows
<1>3. PICK x : /\ handler' = [handler EXCEPT ![w] = x] /\ x.pc \in Owing
               /\ x.pc = "rollup" => x.seen = Tallies
  <2>1. CASE Gate(w)
    <3> DEFINE x == [handler[w] EXCEPT !.renewed = FALSE,
                       !.pc = IF handler[w].renewed THEN "tally" ELSE "invalidate"]
    <3>1. handler' = [handler EXCEPT ![w] = x]
      BY <1>1, <2>1 DEF Gate, HandlerType
    <3>2. x.pc \in {"tally", "invalidate"}
      BY <1>1 DEF HandlerType
    <3> HIDE DEF x
    <3> QED BY <3>1, <3>2 DEF Owing
  <2>2. CASE Invalidate(w)
    <3> DEFINE x == [handler[w] EXCEPT !.pc = "tally"]
    <3>1. handler' = [handler EXCEPT ![w] = x] /\ x.pc = "tally"
      BY <1>1, <2>2 DEF Invalidate, Goto, HandlerType
    <3> HIDE DEF x
    <3> QED BY <3>1 DEF Owing
  <2>3. CASE Tally(w)
    <3> DEFINE x == [handler[w] EXCEPT !.pc = "rollup", !.seen = Tallies]
    <3>1. handler' = [handler EXCEPT ![w] = x] /\ x.pc = "rollup" /\ x.seen = Tallies
      BY <1>1, <2>3 DEF Tally, HandlerType
    <3> HIDE DEF x
    <3> QED BY <3>1 DEF Owing
  <2> QED BY <2>1, <2>2, <2>3
<1>4. x.pc = "rollup" /\ x.seen.inFlight = 0 => AllDone'
  BY <1>1, <1>2, <1>3, NothingInFlight, RowsKept
<1> QED BY <1>2, <1>3, <1>4, RowsKept, OwingStep

(* A roll-up that has read the rows as they are shows them; one that has   *)
(* counted nothing in flight completes a send whose deliveries are done.   *)
LEMMA RollUpParent ==
  ASSUME IInv, ParentInv, NEW w \in Workers, RollUp(w)
  PROVE  ParentInv'
<1>1. PICK t : t = handler[w].seen
  OBVIOUS
<1>2. /\ TypeOK /\ RowsOK /\ CompletedIsSettled /\ t \in TallyType
      /\ send \in SendType /\ handler \in [Workers -> HandlerType]
  BY <1>1 DEF IInv, TypeOK, ParentInv, HandlerType
<1>3. /\ send' = Shown(t) /\ missed' = (t # Tallies) /\ UNCHANGED delivery
      /\ handler[w].pc = "rollup" /\ handler' = [handler EXCEPT ![w] = Idle]
  BY <1>1 DEF RollUp, Ends
<1>4. /\ send'.status = RolledUp(t) /\ send'.succeeded = t.succeeded /\ send'.failed = t.failed
      /\ send'.done <=> send.done \/ t.inFlight = 0
  BY <1>2, <1>3 DEF Shown, SendType
<1>5. t.inFlight = 0 => AllDone
  BY <1>1, <1>3 DEF ParentInv, CountedDone
<1>6. CountedDone'
  <2>1. handler'[w].pc = "idle" /\ \A v \in Workers \ {w} : handler'[v] = handler[v]
    BY <1>2, <1>3 DEF Idle
  <2> QED BY <2>1, <1>3, RowsKept DEF ParentInv, CountedDone
<1>7. Tallies' = Tallies /\ (AllDone => AllDone') /\ CompletedIsSettled'
  BY <1>3, RowsKept
<1>8. send'.done => AllDone'
  BY <1>4, <1>5, <1>7 DEF ParentInv, ParentTells, AllDone
<1>9. ASSUME ~missed'
      PROVE  /\ send'.succeeded = Tallies'.succeeded
             /\ send'.failed = Tallies'.failed
             /\ send'.status = RolledUp(Tallies)'
             /\ send'.done <=> Tallies'.inFlight = 0
  <2>1. t = Tallies /\ Tallies' = t /\ RolledUp(Tallies)' = RolledUp(t)
    BY <1>3, <1>7, <1>9 DEF RolledUp
  <2>2. send.done => Tallies.inFlight = 0
    BY <1>2, NothingInFlight DEF ParentInv, ParentTells, AllDone
  <2> QED BY <1>4, <2>1, <2>2
<1>10. ParentTells'
  BY <1>8, <1>9 DEF ParentTells, AllDone
<1>11. NothingShown'
  BY <1>2, <1>3, ShownFacts DEF NothingShown
<1> QED BY <1>6, <1>7, <1>10, <1>11 DEF ParentInv

(* A handler that dies owing a roll-up takes it along. *)
LEMMA CrashParent ==
  ASSUME IInv, ParentInv, NEW w \in Workers, Crash(w)
  PROVE  ParentInv'
<1>1. /\ UNCHANGED <<send, delivery>> /\ missed' = (missed \/ OwesRollUp(w))
      /\ handler' = [handler EXCEPT ![w] = Idle] /\ Idle.pc = "idle"
      /\ handler \in [Workers -> HandlerType]
  BY DEF Crash, Ends, rows, Idle, IInv, TypeOK
<1>2. \A v \in Workers : handler'[v] = IF v = w THEN Idle ELSE handler[v]
  BY <1>1
<1>3. CASE OwesRollUp(w)
  <2>1. CountedDone' /\ missed'
    BY <1>1, <1>2, <1>3, RowsKept DEF ParentInv, CountedDone
  <2>2. ParentTells'
    BY <1>1, <2>1, RowsKept DEF ParentInv, ParentTells, AllDone
  <2> QED BY <1>1, <2>1, <2>2, RowsKept DEF ParentInv, NothingShown
<1>4. CASE ~OwesRollUp(w)
  <2>1. handler[w].pc \notin Owing /\ missed' = missed
    BY <1>1, <1>4 DEF OwesRollUp, Owing, IInv, TypeOK
  <2>2. /\ \A v \in Workers : handler'[v].pc = "rollup" =>
              handler[v].pc = "rollup" /\ handler'[v].seen = handler[v].seen
        /\ \A v \in Workers : handler[v].pc \in Owing => handler'[v].pc \in Owing
    BY <1>1, <1>2, <2>1
  <2> QED BY <1>1, <2>1, <2>2, RowsKept, RestingStep
<1> QED BY <1>3, <1>4

(* The send and its deliveries are inserted together. *)
LEMMA PersistParent ==
  ASSUME IInv, ParentInv, NEW r \in Requests, Persist(r)
  PROVE  ParentInv'
<1>1. UNCHANGED <<handler, missed>>
  BY DEF Persist, history
<1>2. CASE KeyTaken
  <2>1. UNCHANGED <<send, delivery>>
    BY <1>2 DEF Persist, rows
  <2> QED BY <1>1, <2>1, RowsKept, RestingStep
<1>3. CASE ~KeyTaken
  <2> DEFINE targets == request[r].devices
  <2>1. /\ send' = [send EXCEPT !.status = IF targets = {} THEN "NoRecipients" ELSE "Pending",
                                !.done = targets = {}]
        /\ delivery' = [d \in Devices |->
             IF d \in targets THEN [status |-> "Pending", attempts |-> 0, done |-> FALSE]
             ELSE delivery[d]]
    BY <1>3 DEF Persist
  <2>2. /\ targets \subseteq Devices /\ Untouched /\ send \in SendType
    BY <1>3 DEF KeyTaken, IInv, EmptyUntilSent, TypeOK, RequestType
  <2>3. /\ send'.status = IF targets = {} THEN "NoRecipients" ELSE "Pending"
        /\ send'.done <=> targets = {}
        /\ send'.succeeded = send.succeeded /\ send'.failed = send.failed
    BY <2>1, <2>2 DEF SendType
  <2>4. \A d \in Devices : /\ delivery'[d].status = IF d \in targets THEN "Pending" ELSE "Absent"
                           /\ ~delivery'[d].done
    BY <2>1, <2>2 DEF Untouched
  <2> HIDE DEF targets
  <2>5. Children' = targets /\ SucceededRows' = {} /\ SettledRows' = {}
    BY <2>2, <2>4 DEF Children, SucceededRows, SettledRows, Settled
  <2>7. /\ Tallies'.succeeded = 0 /\ Tallies'.failed = 0
        /\ Tallies'.inFlight = Cardinality(targets)
    <3>1. /\ Tallies'.succeeded = Cardinality(SucceededRows)'
          /\ Tallies'.failed = Cardinality(SettledRows \ SucceededRows)'
          /\ Tallies'.inFlight = Cardinality(Children \ SettledRows)'
      BY DEF Tallies, SucceededRows, SettledRows
    <3> QED BY <2>5, <3>1, FS_EmptySet
  <2>8. Cardinality(targets) \in Nat /\ (Cardinality(targets) = 0 <=> targets = {})
    BY <2>2, PushAssumption, FS_Subset, FS_CardinalityType, FS_EmptySet
  <2>9. send.succeeded = 0 /\ send.failed = 0
    BY <1>3, <2>2 DEF KeyTaken, ParentInv, NothingShown
  <2>10. /\ send'.status # "Absent"
         /\ send'.succeeded = Tallies'.succeeded /\ send'.failed = Tallies'.failed
         /\ send'.done <=> Tallies'.inFlight = 0
    BY <2>3, <2>7, <2>8, <2>9
  <2>11. \/ send'.status = RolledUp(Tallies)'
         \/ send'.status = "Pending" /\ Tallies'.inFlight > 0
    <3>1. CASE targets = {}
      <4>1. RolledUp(Tallies)' = "NoRecipients"
        BY <2>7, <2>8, <3>1 DEF RolledUp
      <4> QED BY <2>3, <3>1, <4>1
    <3>2. CASE targets # {}
      BY <2>3, <2>7, <2>8, <3>2
    <3> QED BY <3>1, <3>2
  <2>12. send'.done => AllDone'
    BY <2>3, <2>5 DEF AllDone
  <2>13. ParentTells'
    BY <2>10, <2>11, <2>12 DEF ParentTells, AllDone
  <2>14. CompletedIsSettled' /\ CountedDone' /\ NothingShown'
    BY <1>1, <2>2, <2>4, <2>10 DEF CompletedIsSettled, CountedDone, NothingShown, Untouched
  <2> QED BY <2>13, <2>14 DEF ParentInv
<1> QED BY <1>2, <1>3

(* Whatever else happens changes no row. *)
LEMMA OthersParent ==
  ASSUME IInv, ParentInv,
         \/ \E r \in Requests : Look(r) \/ Dispatch(r) \/ LoseDispatch(r)
         \/ Queue
         \/ \E w \in Workers : Lose(w) \/ Deliver(w)
         \/ \E d \in Devices : Overdue(d) \/ Register(d) \/ Refresh(d) \/ Unregister(d)
         \/ Configure
         \/ UNCHANGED vars
  PROVE  ParentInv'
<1> DEFINE Still == /\ \A v \in Workers : handler'[v].pc = "rollup" =>
                         handler[v].pc = "rollup" /\ handler'[v].seen = handler[v].seen
                    /\ \A v \in Workers : handler[v].pc \in Owing => handler'[v].pc \in Owing
<1>1. TypeOK /\ handler \in [Workers -> HandlerType]
  BY DEF IInv, TypeOK
<1>2. ASSUME NEW w \in Workers, handler[w].pc \notin Owing,
             NEW x, x.pc \notin Owing, handler' = [handler EXCEPT ![w] = x]
      PROVE  Still
  <2>1. \A v \in Workers : handler'[v] = IF v = w THEN x ELSE handler[v]
    BY <1>1, <1>2
  <2> QED BY <1>2, <2>1 DEF Owing
<1>3. CASE \E r \in Requests : Look(r) \/ Dispatch(r) \/ LoseDispatch(r)
  <2>1. UNCHANGED <<send, delivery, missed, handler>>
    BY <1>3 DEF Look, Dispatch, LoseDispatch, rows, history
  <2> QED BY <2>1, RowsKept, RestingStep
<1>4. CASE Queue
  <2>1. PICK w \in Workers, d \in Devices : Take(w, d) \/ TakeDead(w, d)
    BY <1>4 DEF Queue
  <2>2. UNCHANGED <<send, delivery, missed>> /\ handler[w].pc = "idle"
    BY <2>1 DEF Take, TakeDead, rows, history
  <2>3. PICK p \in {"claim", "exhaust"} :
          handler' = [handler EXCEPT ![w] = [Idle EXCEPT !.pc = p, !.device = d]]
    BY <2>1 DEF Take, TakeDead, Starts
  <2>4. [Idle EXCEPT !.pc = p, !.device = d].pc = p
    BY DEF Idle
  <2>5. Still
    BY <1>2, <2>2, <2>3, <2>4 DEF Owing
  <2> QED BY <2>2, <2>5, RowsKept, RestingStep
<1>5. CASE \E w \in Workers : Lose(w)
  <2>1. PICK w \in Workers : Lose(w)
    BY <1>5
  <2>2. /\ UNCHANGED <<send, delivery, missed>> /\ handler[w].pc = "lost"
        /\ handler' = [handler EXCEPT ![w] = Idle] /\ Idle.pc = "idle"
    BY <2>1 DEF Lose, Ends, Idle, rows, history
  <2>3. Still
    BY <1>2, <2>2 DEF Owing
  <2> QED BY <2>2, <2>3, RowsKept, RestingStep
<1>6. CASE \E w \in Workers : Deliver(w)
  <2>1. PICK w \in Workers : Deliver(w)
    BY <1>6
  <2>2. UNCHANGED <<send, delivery, missed>> /\ handler[w].pc = "deliver"
    BY <2>1 DEF Deliver, rows
  <2>3. PICK x : handler' = [handler EXCEPT ![w] = x] /\ x.pc = "settle"
    <3>1. PICK answer : handler' = [handler EXCEPT ![w].pc = "settle", ![w].outcome = answer]
      BY <2>1 DEF Deliver
    <3> DEFINE x == [handler[w] EXCEPT !.pc = "settle", !.outcome = answer]
    <3>2. handler' = [handler EXCEPT ![w] = x] /\ x.pc = "settle"
      BY <1>1, <3>1 DEF HandlerType
    <3> HIDE DEF x
    <3> QED BY <3>2
  <2>4. Still
    BY <1>2, <2>2, <2>3 DEF Owing
  <2> QED BY <2>2, <2>4, RowsKept, RestingStep
<1>7. CASE Configure \/ \E d \in Devices : Overdue(d)
  <2>1. UNCHANGED <<send, delivery, missed, handler>>
    BY <1>7 DEF Configure, Overdue, rows, history
  <2> QED BY <2>1, RowsKept, RestingStep
<1>8. CASE \E d \in Devices : Register(d) \/ Refresh(d) \/ Unregister(d)
  <2>1. PICK d \in Devices : Register(d) \/ Refresh(d) \/ Unregister(d)
    BY <1>8
  <2>2. UNCHANGED <<send, delivery, missed>> /\ Dated(d)
    BY <2>1 DEF Register, Refresh, Unregister, rows, history
  <2>3. Still
    BY <1>1, <2>2, DatedFacts
  <2> QED BY <2>2, <2>3, RowsKept, RestingStep
<1>9. CASE UNCHANGED vars
  <2>1. UNCHANGED <<send, delivery, missed, handler>>
    BY <1>9 DEF vars, rows, history
  <2> QED BY <2>1, RowsKept, RestingStep
<1> QED BY <1>3, <1>4, <1>5, <1>6, <1>7, <1>8, <1>9

LEMMA ParentStep == IInv /\ ParentInv /\ [Next]_vars => ParentInv'
<1> SUFFICES ASSUME IInv, ParentInv, [Next]_vars PROVE ParentInv'
  OBVIOUS
<1>1. CASE \E r \in Requests : Persist(r)
  BY <1>1, PersistParent
<1>2. CASE \E w \in Workers : Handle(w) \/ Crash(w)
  BY <1>2, ClaimParent, SettleParent, ExhaustParent, TallyParent, RollUpParent, CrashParent,
     OthersParent DEF Handle
<1>3. CASE ~(\E r \in Requests : Persist(r)) /\ ~(\E w \in Workers : Handle(w) \/ Crash(w))
  BY <1>3, OthersParent DEF Next
<1> QED BY <1>1, <1>2, <1>3

LEMMA InitParent == Init => ParentInv
<1> SUFFICES ASSUME Init PROVE ParentInv
  OBVIOUS
<1>1. CompletedIsSettled /\ NothingShown
  BY DEF Init, CompletedIsSettled, NothingShown
<1>2. CountedDone
  BY DEF Init, CountedDone, Idle
<1>3. ParentTells
  BY DEF Init, ParentTells
<1> QED BY <1>1, <1>2, <1>3 DEF ParentInv

(* The parent is completed only when every delivery is settled for good;   *)
(* and once no roll-up is on its way it shows the deliveries as they are,  *)
(* unless one was lost or had read old rows.                               *)
THEOREM ParentShowsItsDeliveries == Spec => []ParentTells
<1>1. Init => ParentInv
  BY InitParent
<1>2. IInv /\ ParentInv /\ [Next]_vars => ParentInv'
  BY ParentStep
<1>3. ParentInv => ParentTells
  BY DEF ParentInv
<1> QED BY <1>1, <1>2, <1>3, IInvHolds, PTL DEF Spec
=============================================================================
