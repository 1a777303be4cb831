----------------------- MODULE WebhookDeliveryProofs -----------------------
(***************************************************************************)
(* The safety of webhook deliveries for any number of deliveries, any      *)
(* schedule, sweep batch and threshold, and any number of manual retries   *)
(* and faults.                                                             *)
(***************************************************************************)
EXTENDS WebhookDelivery, FiniteSetTheorems, TLAPS

(* The highest attempt number delivery d may reach so far. *)
Top(d) == MaxAttempts + retries[d]

RetryingOf(d) == {p \in retrying : p[1] = d}

(* What a row says is backed by the attempt log and by the receiver, and   *)
(* leaves room for the attempt that may follow.                            *)
RowOK(row, top, logged, answered) ==
  /\ row.status \in {"Absent", "Pending"} => row.attempts = 0
  /\ row.status = "InProgress" => row.attempts + 1 <= top
  /\ row.status = "Failed" => row.attempts + 1 <= MaxAttempts
  /\ row.status = "Succeeded" =>
       row.attempts \in answered /\ <<row.attempts, TRUE>> \in logged
  /\ row.status = "Exhausted" =>
       row.attempts >= MaxAttempts /\ <<row.attempts, FALSE>> \in logged
  /\ row.attempts <= top

(* The answer an instance carries from post to its last mark is recorded.  *)
InstanceOK(i, top, logged, answered) ==
  /\ i.attempt <= top
  /\ i.pc \in Running => i.attempt \in Numbers
  /\ i.pc = "sleep" => i.attempt + 1 <= MaxAttempts
  /\ i.pc \in {"record", "mark", "count", "disable", "settled"} /\ i.ok
       => i.attempt \in answered
  /\ i.pc \in {"mark", "count", "disable", "settled"} => <<i.attempt, i.ok>> \in logged

RowsOK == \A d \in Deliveries : RowOK(delivery[d], Top(d), log[d], acked[d])

InstancesOK == \A d \in Deliveries, n \in Numbers :
                 InstanceOK(instance[d][n], Top(d), log[d], acked[d])

(* Dispatches and retries under way stay below the ceiling, too. *)
MessagesOK ==
  \A d \in Deliveries, n \in Numbers :
    /\ <<d, n>> \in inbox => n <= Top(d)
    /\ <<d, n>> \in retrying => n <= Top(d) + 1

(* A retry under way has its place among MaxRetries. *)
RetriesOK ==
  \A d \in Deliveries : retries[d] + Cardinality(RetryingOf(d)) <= MaxRetries

(* Until its first mark a delivery is known by its first number alone. *)
FirstOnly(d) ==
  \A n \in Numbers :
    /\ <<d, n>> \notin retrying
    /\ n # 1 => instance[d][n].pc = "none" /\ <<d, n>> \notin inbox

UntriedIsFirst ==
  \A d \in Deliveries : delivery[d].status \in {"Absent", "Pending"} => FirstOnly(d)

IInv == /\ TypeOK
        /\ RowsOK
        /\ InstancesOK
        /\ MessagesOK
        /\ RetriesOK
        /\ UntriedIsFirst

-----------------------------------------------------------------------------
LEMMA NumberFacts ==
  /\ Numbers \subseteq Nat /\ 1 \in Numbers
  /\ 0 \in 0..MaxDelay /\ 0 \in 0..StaleAfter /\ 0 \in (-StaleAfter)..MaxDelay
  /\ \A k \in 0..MaxDelay : k \in (-StaleAfter)..MaxDelay
BY WebhookAssumption DEF Numbers

LEMMA AttemptFacts ==
  /\ \A row \in DeliveryType : row.attempts \in Nat
  /\ \A i \in InstanceType : i.attempt \in Nat
<1>1. {0} \cup Numbers \subseteq Nat
  BY NumberFacts
<1>2. \A row \in DeliveryType : row.attempts \in {0} \cup Numbers
  BY DEF DeliveryType
<1>3. \A i \in InstanceType : i.attempt \in {0} \cup Numbers
  BY DEF InstanceType
<1> QED BY <1>1, <1>2, <1>3

(* More log, more answers and a higher ceiling break neither a row nor an  *)
(* instance.                                                               *)
LEMMA RowMonotone ==
  ASSUME NEW row \in DeliveryType, NEW top \in Nat, NEW more \in Nat, top <= more,
         NEW logged, NEW logged2, logged \subseteq logged2,
         NEW answered, NEW answered2, answered \subseteq answered2,
         RowOK(row, top, logged, answered)
  PROVE  RowOK(row, more, logged2, answered2)
<1>1. row.attempts \in Nat
  BY AttemptFacts
<1> QED BY <1>1, WebhookAssumption DEF RowOK

LEMMA InstanceMonotone ==
  ASSUME NEW i \in InstanceType, NEW top \in Nat, NEW more \in Nat, top <= more,
         NEW logged, NEW logged2, logged \subseteq logged2,
         NEW answered, NEW answered2, answered \subseteq answered2,
         InstanceOK(i, top, logged, answered)
  PROVE  InstanceOK(i, more, logged2, answered2)
<1>1. i.attempt \in Nat
  BY AttemptFacts
<1> QED BY <1>1 DEF InstanceOK

(* The three marks: each leaves a row that its attempt backs. *)
LEMMA MarkedRowFacts ==
  ASSUME NEW row \in DeliveryType, NEW k \in Numbers, NEW ok \in BOOLEAN,
         NEW top \in Nat, k <= top, NEW logged, NEW answered,
         ok => k \in answered, <<k, ok>> \in logged
  PROVE  /\ MarkedRow(row, k, ok) \in DeliveryType
         /\ RowOK(MarkedRow(row, k, ok), top, logged, answered)
         /\ MarkedRow(row, k, ok).status \notin {"Absent", "Pending"}
<1> DEFINE new == MarkedRow(row, k, ok)
<1>1. k \in Nat
  BY NumberFacts
<1>2. CASE ok
  <2>1. new = [row EXCEPT !.status = "Succeeded", !.attempts = k, !.due = 0]
    BY <1>2 DEF MarkedRow
  <2>2. new \in DeliveryType /\ new.status = "Succeeded" /\ new.attempts = k
    BY <2>1, NumberFacts DEF DeliveryType
  <2>3. k \in answered /\ <<k, TRUE>> \in logged
    <3>1. ok = TRUE
      BY <1>2
    <3> QED BY <1>2, <3>1
  <2> QED BY <1>1, <2>2, <2>3 DEF RowOK
<1>3. CASE ~ok /\ HasRetry(k)
  <2>1. new = [row EXCEPT !.status = "Failed", !.attempts = k, !.due = RetryDelay(k)]
    BY <1>3 DEF MarkedRow
  <2>2. k + 1 <= MaxAttempts /\ k + 1 \in 1..MaxAttempts
    BY <1>1, <1>3, WebhookAssumption DEF HasRetry
  <2>3. RetryDelay(k) \in (-StaleAfter)..MaxDelay
    BY <2>2, NumberFacts, WebhookAssumption DEF RetryDelay
  <2>4. new \in DeliveryType /\ new.status = "Failed" /\ new.attempts = k
    BY <2>1, <2>3 DEF DeliveryType
  <2> QED BY <1>1, <2>2, <2>4 DEF RowOK
<1>4. CASE ~ok /\ ~HasRetry(k)
  <2>1. new = [row EXCEPT !.status = "Exhausted", !.attempts = k, !.due = 0]
    BY <1>4 DEF MarkedRow
  <2>2. new \in DeliveryType /\ new.status = "Exhausted" /\ new.attempts = k
    BY <2>1, NumberFacts DEF DeliveryType
  <2>3. k >= MaxAttempts
    BY <1>1, <1>4, WebhookAssumption DEF HasRetry
  <2>4. <<k, FALSE>> \in logged
    <3>1. ok = FALSE
      BY <1>4
    <3> QED BY <3>1
  <2> QED BY <1>1, <2>2, <2>3, <2>4 DEF RowOK
<1> QED BY <1>2, <1>3, <1>4

LEMMA TopFacts ==
  ASSUME TypeOK, NEW d \in Deliveries
  PROVE  Top(d) \in Nat /\ MaxAttempts <= Top(d) /\ retries[d] \in 0..MaxRetries
BY WebhookAssumption DEF TypeOK, Top

-----------------------------------------------------------------------------
(* Initially there is no row, no instance and nothing under way. *)
LEMMA InitIInv == Init => IInv
<1> SUFFICES ASSUME Init PROVE IInv
  OBVIOUS
<1>1. TypeOK
  <2>1. endpoint \in EndpointType
    BY WebhookAssumption DEF Init, EndpointType
  <2>2. delivery \in [Deliveries -> DeliveryType]
    BY NumberFacts DEF Init, DeliveryType
  <2>3. instance \in [Deliveries -> [Numbers -> InstanceType]]
    <3>1. NoInstance \in InstanceType
      BY NumberFacts DEF NoInstance, InstanceType
    <3> QED BY <3>1 DEF Init
  <2>4. retries \in [Deliveries -> 0..MaxRetries] /\ faults \in 0..MaxFaults
    BY WebhookAssumption DEF Init
  <2> QED BY <2>1, <2>2, <2>3, <2>4 DEF TypeOK, Init
<1>2. RowsOK
  BY WebhookAssumption DEF RowsOK, RowOK, Init, Top
<1>3. InstancesOK
  BY WebhookAssumption DEF InstancesOK, InstanceOK, NoInstance, Running, Init, Top
<1>4. MessagesOK /\ UntriedIsFirst
  BY DEF MessagesOK, UntriedIsFirst, FirstOnly, NoInstance, Init
<1>5. RetriesOK
  <2>1. \A d \in Deliveries : RetryingOf(d) = {}
    BY DEF RetryingOf, Init
  <2>2. \A d \in Deliveries : Cardinality(RetryingOf(d)) = 0
    BY <2>1, FS_EmptySet
  <2>3. \A d \in Deliveries : retries[d] = 0
    BY DEF Init
  <2> HIDE DEF RetryingOf
  <2> QED BY <2>2, <2>3, WebhookAssumption DEF RetriesOK
<1> QED BY <1>1, <1>2, <1>3, <1>4, <1>5 DEF IInv

-----------------------------------------------------------------------------
(* A step of one instance, which may mark its row: the workflow, the       *)
(* runner and its faults are all of this form.                             *)
LEMMA InstanceStep ==
  ASSUME IInv, NEW d \in Deliveries, NEW n \in Numbers,
         NEW i \in InstanceType, NEW row \in DeliveryType,
         instance' = [instance EXCEPT ![d][n] = i],
         delivery' = [delivery EXCEPT ![d] = row],
         inbox' \subseteq inbox,
         UNCHANGED <<retrying, retries>>,
         endpoint' \in EndpointType, faults' \in 0..MaxFaults,
         log' \in [Deliveries -> SUBSET (Numbers \X BOOLEAN)],
         acked' \in [Deliveries -> SUBSET Numbers],
         \A e \in Deliveries : log[e] \subseteq log'[e] /\ acked[e] \subseteq acked'[e],
         InstanceOK(i, Top(d), log'[d], acked'[d]),
         RowOK(row, Top(d), log'[d], acked'[d]),
         row.status \in {"Absent", "Pending"} => row.status = delivery[d].status,
         n = 1 \/ instance[d][n].pc # "none" \/ <<d, n>> \in inbox
  PROVE  IInv'
<1> USE DEF IInv
<1>1. /\ delivery \in [Deliveries -> DeliveryType]
      /\ instance \in [Deliveries -> [Numbers -> InstanceType]]
  BY DEF TypeOK
<1>2. \A e \in Deliveries : delivery'[e] = IF e = d THEN row ELSE delivery[e]
  BY <1>1
<1>3. \A e \in Deliveries, m \in Numbers :
        instance'[e][m] = IF e = d /\ m = n THEN i ELSE instance[e][m]
  BY <1>1
<1>4. \A e \in Deliveries : Top(e)' = Top(e) /\ Top(e) \in Nat
  BY TopFacts DEF Top
<1>5. TypeOK'
  <2>1. delivery' \in [Deliveries -> DeliveryType]
    BY <1>1
  <2>2. instance' \in [Deliveries -> [Numbers -> InstanceType]]
    BY <1>1
  <2> QED BY <2>1, <2>2 DEF TypeOK
<1>6. RowsOK'
  <2> SUFFICES ASSUME NEW e \in Deliveries
               PROVE  RowOK(delivery'[e], Top(e)', log'[e], acked'[e])
    BY DEF RowsOK
  <2>1. CASE e = d
    BY <2>1, <1>2, <1>4
  <2>2. CASE e # d
    <3>1. RowOK(delivery[e], Top(e), log[e], acked[e])
      BY DEF RowsOK
    <3>2. RowOK(delivery[e], Top(e), log'[e], acked'[e])
      BY <3>1, <1>1, <1>4, RowMonotone
    <3> QED BY <3>2, <2>2, <1>2, <1>4
  <2> QED BY <2>1, <2>2
<1>7. InstancesOK'
  <2> SUFFICES ASSUME NEW e \in Deliveries, NEW m \in Numbers
               PROVE  InstanceOK(instance'[e][m], Top(e)', log'[e], acked'[e])
    BY DEF InstancesOK
  <2>1. CASE e = d /\ m = n
    BY <2>1, <1>3, <1>4
  <2>2. CASE ~(e = d /\ m = n)
    <3>1. InstanceOK(instance[e][m], Top(e), log[e], acked[e])
      BY DEF InstancesOK
    <3>2. instance[e][m] \in InstanceType
      BY <1>1
    <3>3. InstanceOK(instance[e][m], Top(e), log'[e], acked'[e])
      BY <3>1, <3>2, <1>4, InstanceMonotone
    <3> QED BY <3>3, <2>2, <1>3, <1>4
  <2> QED BY <2>1, <2>2
<1>8. MessagesOK'
  BY <1>4 DEF MessagesOK
<1>9. RetriesOK'
  BY DEF RetriesOK, RetryingOf
<1>10. UntriedIsFirst'
  <2> SUFFICES ASSUME NEW e \in Deliveries, delivery'[e].status \in {"Absent", "Pending"}
               PROVE  FirstOnly(e)'
    BY DEF UntriedIsFirst
  <2>1. delivery[e].status \in {"Absent", "Pending"}
    BY <1>2
  <2>2. FirstOnly(e)
    BY <2>1 DEF UntriedIsFirst
  <2> QED BY <2>2, <1>3 DEF FirstOnly
<1> QED BY <1>5, <1>6, <1>7, <1>8, <1>9, <1>10

(* The same for a step that leaves the row and its log alone. *)
LEMMA QuietStep ==
  ASSUME IInv, NEW d \in Deliveries, NEW n \in Numbers, NEW i \in InstanceType,
         instance' = [instance EXCEPT ![d][n] = i],
         inbox' \subseteq inbox,
         UNCHANGED <<delivery, log, acked, retrying, retries>>,
         endpoint' \in EndpointType, faults' \in 0..MaxFaults,
         InstanceOK(i, Top(d), log[d], acked[d]),
         n = 1 \/ instance[d][n].pc # "none" \/ <<d, n>> \in inbox
  PROVE  IInv'
<1> DEFINE row == delivery[d]
<1>1. /\ row \in DeliveryType /\ delivery' = [delivery EXCEPT ![d] = row]
      /\ log' \in [Deliveries -> SUBSET (Numbers \X BOOLEAN)]
      /\ acked' \in [Deliveries -> SUBSET Numbers]
  BY DEF IInv, TypeOK
<1>2. RowOK(row, Top(d), log'[d], acked'[d])
  BY DEF IInv, RowsOK
<1> HIDE DEF row
<1>3. row.status \in {"Absent", "Pending"} => row.status = delivery[d].status
  BY DEF row
<1> QED BY <1>1, <1>2, <1>3, InstanceStep

-----------------------------------------------------------------------------
(* The runner *)
LEMMA InstanceFacts ==
  ASSUME IInv, NEW d \in Deliveries, NEW n \in Numbers
  PROVE  /\ instance[d][n] \in InstanceType
         /\ delivery[d] \in DeliveryType
         /\ InstanceOK(instance[d][n], Top(d), log[d], acked[d])
         /\ RowOK(delivery[d], Top(d), log[d], acked[d])
BY DEF IInv, TypeOK, InstancesOK, RowsOK

LEMMA OverFacts ==
  ASSUME TypeOK, NEW pc \in Ended, NEW d \in Deliveries
  PROVE  Over(pc) \in InstanceType /\ InstanceOK(Over(pc), Top(d), log[d], acked[d])
<1>1. NoInstance \in InstanceType /\ NoInstance.attempt = 0
  BY NumberFacts DEF NoInstance, InstanceType
<1>2. Over(pc) \in InstanceType /\ Over(pc).attempt = 0 /\ Over(pc).pc = pc
  BY <1>1 DEF Over, InstanceType
<1>3. 0 <= Top(d)
  BY TopFacts
<1> QED BY <1>2, <1>3 DEF InstanceOK, Ended, Running

(* An instance is created for the number it is dispatched for. *)
LEMMA DispatchIInv ==
  ASSUME IInv, NEW d \in Deliveries, NEW n \in Numbers, Dispatch(d, n)
  PROVE  IInv'
<1> DEFINE i == [instance[d][n] EXCEPT !.pc = "load", !.attempt = n]
<1>1. /\ UNCHANGED <<delivery, log, acked, retrying, retries, endpoint, faults>>
      /\ inbox' \subseteq inbox /\ <<d, n>> \in inbox
  BY DEF Dispatch, retryVars, historyVars
<1>2. endpoint' \in EndpointType /\ faults' \in 0..MaxFaults
  BY <1>1 DEF IInv, TypeOK
<1>3. CASE instance[d][n].pc = "none"
  <2>1. instance' = [instance EXCEPT ![d][n] = i]
    BY <1>3 DEF Dispatch, Key, IInv, TypeOK
  <2>2. i \in InstanceType /\ i.pc = "load" /\ i.attempt = n
    <3>1. instance[d][n] \in InstanceType
      BY InstanceFacts
    <3> QED BY <3>1 DEF InstanceType, Running
  <2>3. n <= Top(d)
    BY <1>1 DEF IInv, MessagesOK
  <2>4. InstanceOK(i, Top(d), log[d], acked[d])
    BY <2>2, <2>3 DEF InstanceOK
  <2> QED BY <2>1, <2>2, <2>3, <2>4, <1>1, <1>2, QuietStep
<1>4. CASE instance[d][n].pc # "none"
  <2> DEFINE j == instance[d][n]
  <2>1. instance' = [instance EXCEPT ![d][n] = j]
    BY <1>4 DEF Dispatch, Key, IInv, TypeOK
  <2>2. j \in InstanceType /\ InstanceOK(j, Top(d), log[d], acked[d])
    BY InstanceFacts
  <2> HIDE DEF j
  <2> QED BY <2>1, <2>2, <1>1, <1>2, <1>4, QuietStep
<1> QED BY <1>3, <1>4

(* A dispatch is lost, or a step is executed again, or an instance fails.  *)
LEMMA FaultIInv ==
  ASSUME IInv, NEW d \in Deliveries, NEW n \in Numbers,
         LoseDispatch(d, n) \/ RetryStep(d, n) \/ FailInstance(d, n)
  PROVE  IInv'
<1>1. endpoint' \in EndpointType /\ faults' \in 0..MaxFaults
  BY WebhookAssumption
     DEF LoseDispatch, RetryStep, FailInstance, Fault, IInv, TypeOK
<1>2. /\ instance[d][n] \in InstanceType
      /\ InstanceOK(instance[d][n], Top(d), log[d], acked[d])
  BY InstanceFacts
<1>3. CASE LoseDispatch(d, n)
  <2> DEFINE j == instance[d][n]
  <2>1. instance' = [instance EXCEPT ![d][n] = j]
    BY <1>3 DEF LoseDispatch, IInv, TypeOK
  <2>2. /\ UNCHANGED <<delivery, log, acked, retrying, retries>>
        /\ inbox' \subseteq inbox /\ <<d, n>> \in inbox
    BY <1>3 DEF LoseDispatch, retryVars, historyVars
  <2>3. j \in InstanceType /\ InstanceOK(j, Top(d), log[d], acked[d])
    BY <1>2
  <2> HIDE DEF j
  <2> QED BY <2>1, <2>2, <2>3, <1>1, QuietStep
<1>4. CASE RetryStep(d, n)
  <2> DEFINE pc == Restart(instance[d][n].pc)
             i == [instance[d][n] EXCEPT !.pc = pc]
  <2>1. instance' = [instance EXCEPT ![d][n] = i]
    BY <1>4 DEF RetryStep, IInv, TypeOK
  <2>2. /\ UNCHANGED <<delivery, log, acked, retrying, retries, inbox>>
        /\ instance[d][n].pc \in {"post", "record", "count", "disable", "settled"}
    BY <1>4 DEF RetryStep, retryVars, historyVars
  <2>3. \/ pc = "load"
        \/ pc = "mark" /\ instance[d][n].pc \in {"count", "disable", "settled"}
    BY <2>2 DEF Restart
  <2> HIDE DEF pc
  <2>4. i \in InstanceType /\ i.pc = pc
        /\ i.attempt = instance[d][n].attempt /\ i.ok = instance[d][n].ok
    BY <1>2, <2>3 DEF InstanceType, Running
  <2> HIDE DEF i
  <2>5. InstanceOK(i, Top(d), log[d], acked[d])
    BY <1>2, <2>2, <2>3, <2>4 DEF InstanceOK, Running
  <2> QED BY <2>1, <2>2, <2>4, <2>5, <1>1, QuietStep
<1>5. CASE FailInstance(d, n)
  <2> DEFINE i == Over("errored")
  <2>1. instance' = [instance EXCEPT ![d][n] = i]
    BY <1>5 DEF FailInstance
  <2>2. /\ UNCHANGED <<delivery, log, acked, retrying, retries, inbox>>
        /\ instance[d][n].pc \in Running
    BY <1>5 DEF FailInstance, retryVars, historyVars
  <2>3. i \in InstanceType /\ InstanceOK(i, Top(d), log[d], acked[d])
    BY OverFacts DEF IInv, Ended
  <2>4. instance[d][n].pc # "none"
    BY <2>2 DEF Running
  <2> HIDE DEF i
  <2> QED BY <2>1, <2>2, <2>3, <2>4, <1>1, QuietStep
<1> QED BY <1>3, <1>4, <1>5

-----------------------------------------------------------------------------
(* The workflow.  Load, Count, Disable, Leave and Wake leave the row and   *)
(* its log alone.                                                          *)
LEMMA QuietIInv ==
  ASSUME IInv, NEW d \in Deliveries, NEW n \in Numbers,
         Load(d, n) \/ Count(d, n) \/ Disable(d, n) \/ Leave(d, n) \/ Wake(d, n)
  PROVE  IInv'
<1> DEFINE i == instance[d][n]
<1>1. /\ i \in InstanceType /\ InstanceOK(i, Top(d), log[d], acked[d])
      /\ endpoint \in EndpointType /\ faults \in 0..MaxFaults
      /\ instance \in [Deliveries -> [Numbers -> InstanceType]]
  BY InstanceFacts DEF IInv, TypeOK
<1>2. /\ UNCHANGED <<delivery, log, acked, retrying, retries, inbox, faults>>
      /\ i.pc \in Running
  BY DEF Load, Count, Disable, Leave, Wake, At, Running, retryVars, historyVars
<1>3. i.pc # "none"
  BY <1>2 DEF Running
<1>4. ASSUME NEW pc \in {"skipped", "done"}, UNCHANGED endpoint,
             instance' = [instance EXCEPT ![d][n] = Over(pc)]
      PROVE  IInv'
  <2> DEFINE j == Over(pc)
  <2>1. j \in InstanceType /\ InstanceOK(j, Top(d), log[d], acked[d])
    BY OverFacts DEF Ended, IInv
  <2>2. instance' = [instance EXCEPT ![d][n] = j]
    BY <1>4
  <2> HIDE DEF j
  <2> QED BY <2>1, <2>2, <1>1, <1>2, <1>3, <1>4, QuietStep
<1>5. ASSUME NEW pc \in Running, Goto(d, n, pc), endpoint' \in EndpointType,
             pc = "sleep" => i.attempt + 1 <= MaxAttempts,
             pc \in {"record", "mark", "count", "disable", "settled"}
               => i.pc \in {"mark", "count", "disable", "settled"}
      PROVE  IInv'
  <2> DEFINE j == [i EXCEPT !.pc = pc]
  <2>1. instance' = [instance EXCEPT ![d][n] = j]
    BY <1>1, <1>5 DEF Goto
  <2>2. j \in InstanceType /\ j.pc = pc /\ j.attempt = i.attempt /\ j.ok = i.ok
    BY <1>1, <1>5 DEF InstanceType
  <2>3. InstanceOK(j, Top(d), log[d], acked[d])
    BY <2>2, <1>1, <1>2, <1>5 DEF InstanceOK
  <2> HIDE DEF i, j
  <2>4. instance[d][n].pc # "none"
    BY <1>3 DEF i
  <2> QED BY <2>1, <2>2, <2>3, <2>4, <1>1, <1>2, <1>5, QuietStep
<1>6. CASE Load(d, n)
  <2>1. CASE endpoint.status = "Active"
    BY <1>1, <1>5, <1>6, <2>1 DEF Load, Running
  <2>2. CASE endpoint.status # "Active"
    BY <1>4, <1>6, <2>2 DEF Load
  <2> QED BY <2>1, <2>2
<1>7. CASE Count(d, n)
  <2>1. i.pc = "count"
    BY <1>7 DEF Count, At
  <2>2. CASE endpoint.status = "Deleted"
    <3>1. Goto(d, n, "settled") /\ UNCHANGED endpoint
      BY <1>7, <2>2 DEF Count
    <3> QED BY <3>1, <2>1, <1>1, <1>5 DEF Running
  <2>3. CASE endpoint.status # "Deleted"
    <3> DEFINE raised == IF endpoint.failures < Threshold THEN endpoint.failures + 1
                                                          ELSE Threshold
               failures == IF i.ok THEN 0 ELSE raised
               pc == IF TooMany(failures) THEN "disable" ELSE "settled"
    <3>1. endpoint' = [endpoint EXCEPT !.failures = failures] /\ Goto(d, n, pc)
      BY <1>7, <2>3 DEF Count
    <3>2. failures \in 0..Threshold
      <4>1. endpoint.failures \in 0..Threshold
        BY <1>1 DEF EndpointType
      <4> QED BY <4>1, WebhookAssumption
    <3>3. pc \in {"disable", "settled"}
      OBVIOUS
    <3> HIDE DEF failures, pc
    <3>4. endpoint' \in EndpointType
      BY <3>1, <3>2, <1>1 DEF EndpointType
    <3> QED BY <3>1, <3>3, <3>4, <2>1, <1>5 DEF Running
  <2> QED BY <2>2, <2>3
<1>8. CASE Disable(d, n)
  <2>1. i.pc = "disable" /\ Goto(d, n, "settled")
    BY <1>8 DEF Disable, At
  <2>2. endpoint' \in EndpointType
    BY <1>1, <1>8 DEF Disable, EndpointType
  <2> QED BY <2>1, <2>2, <1>5 DEF Running
<1>9. CASE Leave(d, n)
  <2>1. i.pc = "settled" /\ UNCHANGED endpoint
    BY <1>9 DEF Leave, At
  <2>2. CASE i.ok \/ ~HasRetry(i.attempt)
    BY <1>4, <1>9, <2>1, <2>2 DEF Leave
  <2>3. CASE ~i.ok /\ HasRetry(i.attempt)
    BY <1>1, <1>5, <1>9, <2>1, <2>3 DEF Leave, HasRetry, Running
  <2> QED BY <2>2, <2>3
<1>10. CASE Wake(d, n)
  <2> DEFINE k == i.attempt + 1
             j == [i EXCEPT !.pc = "load", !.attempt = k]
  <2>1. i.pc = "sleep" /\ UNCHANGED endpoint
    BY <1>10 DEF Wake, At
  <2>2. instance' = [instance EXCEPT ![d][n] = j]
    BY <1>1, <1>10 DEF Wake
  <2>3. k <= MaxAttempts /\ k \in Numbers /\ k <= Top(d)
    <3>1. i.attempt \in Nat
      BY <1>1, AttemptFacts
    <3>2. k <= MaxAttempts
      BY <1>1, <2>1 DEF InstanceOK
    <3>3. MaxAttempts <= Top(d) /\ Top(d) \in Nat
      BY TopFacts DEF IInv
    <3>4. k \in Nat /\ 1 <= k
      BY <3>1
    <3> HIDE DEF k
    <3> QED BY <3>2, <3>3, <3>4, WebhookAssumption DEF Numbers
  <2> HIDE DEF k
  <2>4. j \in InstanceType /\ j.pc = "load" /\ j.attempt = k
    BY <1>1, <2>3 DEF InstanceType, Running
  <2>5. InstanceOK(j, Top(d), log[d], acked[d])
    BY <2>3, <2>4 DEF InstanceOK
  <2> HIDE DEF i, j
  <2>6. instance[d][n].pc # "none"
    BY <1>3 DEF i
  <2> QED BY <2>1, <2>2, <2>4, <2>5, <2>6, <1>1, <1>2, QuietStep
<1> QED BY <1>6, <1>7, <1>8, <1>9, <1>10

(* Post records the answer in the instance and with the receiver. *)
LEMMA PostIInv ==
  ASSUME IInv, NEW d \in Deliveries, NEW n \in Numbers,
         NEW accepted \in BOOLEAN, NEW ok \in BOOLEAN, Post(d, n, accepted, ok)
  PROVE  IInv'
<1> DEFINE i == instance[d][n]
           j == [i EXCEPT !.pc = "record", !.ok = ok]
           row == delivery[d]
<1>1. /\ i \in InstanceType /\ InstanceOK(i, Top(d), log[d], acked[d])
      /\ row \in DeliveryType /\ RowOK(row, Top(d), log[d], acked[d])
      /\ instance \in [Deliveries -> [Numbers -> InstanceType]]
      /\ endpoint \in EndpointType /\ faults \in 0..MaxFaults
      /\ delivery \in [Deliveries -> DeliveryType]
      /\ log \in [Deliveries -> SUBSET (Numbers \X BOOLEAN)]
      /\ acked \in [Deliveries -> SUBSET Numbers]
  BY InstanceFacts DEF IInv, TypeOK
<1>2. /\ i.pc = "post" /\ (ok => accepted)
      /\ UNCHANGED <<endpoint, delivery, log, inbox, faults, retrying, retries>>
  BY DEF Post, At, retryVars
<1>3. instance' = [instance EXCEPT ![d][n] = j]
  BY <1>1 DEF Post
<1>4. i.attempt \in Numbers
  BY <1>1, <1>2 DEF InstanceOK, Running
<1>5. /\ acked' \in [Deliveries -> SUBSET Numbers]
      /\ \A e \in Deliveries : acked[e] \subseteq acked'[e]
      /\ ok => i.attempt \in acked'[d]
  BY <1>1, <1>2, <1>4 DEF Post
<1>6. j \in InstanceType /\ j.pc = "record" /\ j.attempt = i.attempt /\ j.ok = ok
  BY <1>1 DEF InstanceType, Running
<1>7. InstanceOK(j, Top(d), log'[d], acked'[d])
  BY <1>1, <1>2, <1>4, <1>5, <1>6 DEF InstanceOK
<1>8. Top(d) \in Nat
  BY TopFacts DEF IInv
<1>9. RowOK(row, Top(d), log'[d], acked'[d])
  BY <1>1, <1>2, <1>5, <1>8, RowMonotone
<1>10. delivery' = [delivery EXCEPT ![d] = row]
  BY <1>1, <1>2
<1>11. /\ row.status \in {"Absent", "Pending"} => row.status = delivery[d].status
       /\ instance[d][n].pc # "none"
       /\ log' \in [Deliveries -> SUBSET (Numbers \X BOOLEAN)]
       /\ \A e \in Deliveries : log[e] \subseteq log'[e] /\ acked[e] \subseteq acked'[e]
       /\ endpoint' \in EndpointType /\ faults' \in 0..MaxFaults
       /\ inbox' \subseteq inbox /\ UNCHANGED <<retrying, retries>>
  BY <1>1, <1>2, <1>5
<1> HIDE DEF i, j, row
<1> QED BY <1>1, <1>3, <1>5, <1>6, <1>7, <1>9, <1>10, <1>11, InstanceStep

(* Record puts the answer into the log. *)
LEMMA RecordIInv ==
  ASSUME IInv, NEW d \in Deliveries, NEW n \in Numbers, Record(d, n)
  PROVE  IInv'
<1> DEFINE i == instance[d][n]
           j == [i EXCEPT !.pc = "mark"]
           row == delivery[d]
<1>1. /\ i \in InstanceType /\ InstanceOK(i, Top(d), log[d], acked[d])
      /\ row \in DeliveryType /\ RowOK(row, Top(d), log[d], acked[d])
      /\ instance \in [Deliveries -> [Numbers -> InstanceType]]
      /\ endpoint \in EndpointType /\ faults \in 0..MaxFaults
      /\ delivery \in [Deliveries -> DeliveryType]
      /\ log \in [Deliveries -> SUBSET (Numbers \X BOOLEAN)]
      /\ acked \in [Deliveries -> SUBSET Numbers]
  BY InstanceFacts DEF IInv, TypeOK
<1>2. /\ i.pc = "record" /\ instance' = [instance EXCEPT ![d][n] = j]
      /\ UNCHANGED <<endpoint, delivery, inbox, acked, faults, retrying, retries>>
      /\ log' = [log EXCEPT ![d] = @ \cup {<<i.attempt, i.ok>>}]
  BY <1>1 DEF Record, At, Goto, retryVars
<1>3. i.attempt \in Numbers /\ i.ok \in BOOLEAN
  BY <1>1, <1>2 DEF InstanceOK, InstanceType, Running
<1>4. <<i.attempt, i.ok>> \in Numbers \X BOOLEAN
  BY <1>3
<1> DEFINE entry == <<i.attempt, i.ok>>
<1>5. /\ log' \in [Deliveries -> SUBSET (Numbers \X BOOLEAN)]
      /\ \A e \in Deliveries : log[e] \subseteq log'[e]
      /\ entry \in log'[d]
  <2> HIDE DEF entry
  <2>1. log' = [log EXCEPT ![d] = @ \cup {entry}] /\ entry \in Numbers \X BOOLEAN
    BY <1>2, <1>4 DEF entry
  <2> QED BY <2>1, <1>1
<1>6. j \in InstanceType /\ j.pc = "mark" /\ j.attempt = i.attempt /\ j.ok = i.ok
  BY <1>1 DEF InstanceType, Running
<1>7. InstanceOK(j, Top(d), log'[d], acked'[d])
  BY <1>1, <1>2, <1>3, <1>5, <1>6 DEF InstanceOK
<1>8. Top(d) \in Nat
  BY TopFacts DEF IInv
<1>9. RowOK(row, Top(d), log'[d], acked'[d])
  BY <1>1, <1>2, <1>5, <1>8, RowMonotone
<1>10. delivery' = [delivery EXCEPT ![d] = row]
  BY <1>1, <1>2
<1>11. /\ row.status \in {"Absent", "Pending"} => row.status = delivery[d].status
       /\ instance[d][n].pc # "none"
       /\ acked' \in [Deliveries -> SUBSET Numbers]
       /\ \A e \in Deliveries : log[e] \subseteq log'[e] /\ acked[e] \subseteq acked'[e]
       /\ endpoint' \in EndpointType /\ faults' \in 0..MaxFaults
       /\ inbox' \subseteq inbox /\ UNCHANGED <<retrying, retries>>
  BY <1>1, <1>2, <1>5
<1> HIDE DEF i, j, row
<1> QED BY <1>1, <1>2, <1>5, <1>6, <1>7, <1>9, <1>10, <1>11, InstanceStep

(* Mark writes what the log says to the row, whatever the row has become.  *)
LEMMA MarkIInv ==
  ASSUME IInv, NEW d \in Deliveries, NEW n \in Numbers, Mark(d, n)
  PROVE  IInv'
<1> DEFINE i == instance[d][n]
           wait == IF ~i.ok /\ HasRetry(i.attempt) THEN RetryDelay(i.attempt) ELSE 0
           j == [i EXCEPT !.pc = "count", !.wait = wait]
           row == MarkedRow(delivery[d], i.attempt, i.ok)
<1>1. /\ i \in InstanceType /\ InstanceOK(i, Top(d), log[d], acked[d])
      /\ delivery[d] \in DeliveryType
      /\ instance \in [Deliveries -> [Numbers -> InstanceType]]
      /\ endpoint \in EndpointType /\ faults \in 0..MaxFaults
      /\ delivery \in [Deliveries -> DeliveryType]
      /\ log \in [Deliveries -> SUBSET (Numbers \X BOOLEAN)]
      /\ acked \in [Deliveries -> SUBSET Numbers]
  BY InstanceFacts DEF IInv, TypeOK
<1>2. /\ i.pc = "mark"
      /\ UNCHANGED <<endpoint, log, inbox, acked, faults, retrying, retries>>
      /\ delivery' = [delivery EXCEPT ![d] = row]
  BY DEF Mark, At, retryVars, historyVars
<1>3. instance' = [instance EXCEPT ![d][n] = j]
  BY <1>1 DEF Mark
<1>4. i.attempt \in Numbers /\ i.ok \in BOOLEAN /\ i.attempt \in Nat
  BY <1>1, <1>2, NumberFacts DEF InstanceOK, InstanceType, Running
<1>5. wait \in 0..MaxDelay
  <2>1. CASE HasRetry(i.attempt)
    <3>1. i.attempt + 1 \in 1..MaxAttempts
      BY <1>4, <2>1, WebhookAssumption DEF HasRetry
    <3> QED BY <3>1, WebhookAssumption DEF RetryDelay
  <2>2. CASE ~HasRetry(i.attempt)
    BY <2>2, WebhookAssumption
  <2> QED BY <2>1, <2>2
<1>6. j \in InstanceType /\ j.pc = "count" /\ j.attempt = i.attempt /\ j.ok = i.ok
  <2> HIDE DEF wait
  <2> QED BY <1>1, <1>5 DEF InstanceType, Running
<1> HIDE DEF wait
<1>7. InstanceOK(j, Top(d), log'[d], acked'[d])
  BY <1>1, <1>2, <1>4, <1>6 DEF InstanceOK
<1>8. Top(d) \in Nat
  BY TopFacts DEF IInv
<1>9. /\ row \in DeliveryType /\ RowOK(row, Top(d), log[d], acked[d])
      /\ row.status \notin {"Absent", "Pending"}
  <2>1. /\ i.attempt <= Top(d) /\ <<i.attempt, i.ok>> \in log[d]
        /\ i.ok => i.attempt \in acked[d]
    BY <1>1, <1>2 DEF InstanceOK
  <2> HIDE DEF i
  <2> QED BY <2>1, <1>1, <1>4, <1>8, MarkedRowFacts
<1> HIDE DEF j, row
<1>10. /\ instance[d][n].pc # "none"
       /\ RowOK(row, Top(d), log'[d], acked'[d])
       /\ log' \in [Deliveries -> SUBSET (Numbers \X BOOLEAN)]
       /\ acked' \in [Deliveries -> SUBSET Numbers]
       /\ \A e \in Deliveries : log[e] \subseteq log'[e] /\ acked[e] \subseteq acked'[e]
       /\ endpoint' \in EndpointType /\ faults' \in 0..MaxFaults
       /\ inbox' \subseteq inbox /\ UNCHANGED <<retrying, retries>>
  BY <1>1, <1>2, <1>9
<1> HIDE DEF i
<1> QED BY <1>1, <1>2, <1>3, <1>6, <1>7, <1>9, <1>10, InstanceStep

-----------------------------------------------------------------------------
(* Producers, sweep and people *)

(* A new row is dispatched for its first attempt. *)
LEMMA InsertIInv ==
  ASSUME IInv, NEW d \in Deliveries, Insert(d)
  PROVE  IInv'
<1> DEFINE row == [delivery[d] EXCEPT !.status = "Pending"]
<1>1. /\ delivery[d].status = "Absent"
      /\ delivery' = [delivery EXCEPT ![d] = row]
      /\ inbox' = inbox \cup {<<d, 1>>}
      /\ UNCHANGED <<endpoint, log, instance, retrying, retries, acked, faults>>
  BY DEF Insert, retryVars, historyVars
<1>2. /\ delivery \in [Deliveries -> DeliveryType]
      /\ RowOK(delivery[d], Top(d), log[d], acked[d])
  BY DEF IInv, TypeOK, RowsOK
<1>3. row \in DeliveryType /\ row.status = "Pending" /\ row.attempts = delivery[d].attempts
  BY <1>2 DEF DeliveryType
<1>4. RowOK(row, Top(d), log[d], acked[d])
  BY <1>1, <1>2, <1>3 DEF RowOK
<1> HIDE DEF row
<1>5. \A e \in Deliveries : delivery'[e] = IF e = d THEN row ELSE delivery[e]
  BY <1>1, <1>2
<1>6. \A e \in Deliveries : Top(e)' = Top(e)
  BY <1>1 DEF Top
<1>7. TypeOK'
  <2>1. delivery' \in [Deliveries -> DeliveryType]
    BY <1>1, <1>2, <1>3
  <2>2. inbox' \subseteq Deliveries \X Numbers
    BY <1>1, NumberFacts DEF IInv, TypeOK
  <2> QED BY <1>1, <2>1, <2>2 DEF IInv, TypeOK
<1>8. RowsOK'
  BY <1>1, <1>4, <1>5, <1>6 DEF IInv, RowsOK
<1>9. InstancesOK'
  BY <1>1, <1>6 DEF IInv, InstancesOK
<1>10. MessagesOK'
  <2>1. 1 <= Top(d)
    BY TopFacts, WebhookAssumption DEF IInv
  <2> QED BY <1>1, <1>6, <2>1 DEF IInv, MessagesOK
<1>11. RetriesOK'
  BY <1>1 DEF IInv, RetriesOK, RetryingOf
<1>12. UntriedIsFirst'
  <2> SUFFICES ASSUME NEW e \in Deliveries, delivery'[e].status \in {"Absent", "Pending"}
               PROVE  FirstOnly(e)'
    BY DEF UntriedIsFirst
  <2>1. FirstOnly(e)
    BY <1>1, <1>5 DEF IInv, UntriedIsFirst
  <2> QED BY <1>1, <2>1 DEF FirstOnly
<1> QED BY <1>7, <1>8, <1>9, <1>10, <1>11, <1>12 DEF IInv

(* The number the sweep dispatches for a stalled row: below the ceiling,   *)
(* and the first one for a delivery that was never marked.                 *)
LEMMA StalledFacts ==
  ASSUME IInv, NEW d \in Deliveries, Stalled(delivery[d])
  PROVE  /\ NextNumber(delivery[d]) \in Numbers
         /\ NextNumber(delivery[d]) <= Top(d)
         /\ delivery[d].status \in {"Absent", "Pending"} => NextNumber(delivery[d]) = 1
<1> DEFINE row == delivery[d]
<1>1. /\ row \in DeliveryType /\ RowOK(row, Top(d), log[d], acked[d])
      /\ row.status \in {"Pending", "InProgress", "Failed"}
  BY DEF Stalled, IInv, TypeOK, RowsOK
<1>2. row.attempts \in Nat
  BY <1>1, AttemptFacts
<1>3. Top(d) \in Nat /\ MaxAttempts <= Top(d) /\ Top(d) <= MaxAttempts + MaxRetries
  BY TopFacts, WebhookAssumption DEF IInv, Top
<1>4. row.attempts + 1 <= Top(d)
  BY <1>1, <1>2, <1>3, WebhookAssumption DEF RowOK
<1>5. row.status \in {"Absent", "Pending"} => row.attempts = 0
  BY <1>1 DEF RowOK
<1> HIDE DEF row
<1>6. NextNumber(row) = row.attempts + 1
  BY DEF NextNumber
<1>7. NextNumber(row) \in Numbers
  BY <1>2, <1>3, <1>4, <1>6, WebhookAssumption DEF Numbers
<1>8. row = delivery[d]
  BY DEF row
<1> QED BY <1>2, <1>4, <1>5, <1>6, <1>7, <1>8

LEMMA SweepIInv ==
  ASSUME IInv, Sweep
  PROVE  IInv'
<1>1. UNCHANGED <<endpoint, delivery, log, instance, retrying, retries, acked, faults>>
  BY DEF Sweep, retryVars, historyVars
<1>2. PICK S \in SUBSET Deliveries :
        /\ \A d \in S : Stalled(delivery[d])
        /\ inbox' = inbox \cup {<<d, NextNumber(delivery[d])>> : d \in S}
  BY DEF Sweep
<1>3. ASSUME NEW d \in S
      PROVE  /\ NextNumber(delivery[d]) \in Numbers
             /\ NextNumber(delivery[d]) <= Top(d)
             /\ delivery[d].status \in {"Absent", "Pending"}
                  => NextNumber(delivery[d]) = 1
  BY <1>2, StalledFacts
<1>4. \A e \in Deliveries, m \in Numbers :
        <<e, m>> \in inbox' => <<e, m>> \in inbox \/ (e \in S /\ m = NextNumber(delivery[e]))
  BY <1>2
<1>5. TypeOK'
  <2>1. inbox' \subseteq Deliveries \X Numbers
    BY <1>2, <1>3 DEF IInv, TypeOK
  <2> QED BY <1>1, <2>1 DEF IInv, TypeOK
<1>6. RowsOK' /\ InstancesOK' /\ RetriesOK'
  BY <1>1 DEF IInv, RowsOK, InstancesOK, RetriesOK, RetryingOf, Top
<1>7. MessagesOK'
  BY <1>1, <1>3, <1>4 DEF IInv, MessagesOK, Top
<1>8. UntriedIsFirst'
  <2> SUFFICES ASSUME NEW e \in Deliveries, delivery[e].status \in {"Absent", "Pending"}
               PROVE  FirstOnly(e)'
    BY <1>1 DEF UntriedIsFirst
  <2>1. FirstOnly(e)
    BY DEF IInv, UntriedIsFirst
  <2>2. \A m \in Numbers : m # 1 => <<e, m>> \notin inbox'
    BY <1>3, <1>4, <2>1 DEF FirstOnly
  <2> QED BY <1>1, <2>1, <2>2 DEF FirstOnly
<1> QED BY <1>5, <1>6, <1>7, <1>8 DEF IInv

LEMMA RetryingFinite ==
  ASSUME TypeOK, NEW d \in Deliveries
  PROVE  IsFiniteSet(RetryingOf(d)) /\ Cardinality(RetryingOf(d)) \in Nat
<1>1. IsFiniteSet(Numbers)
  BY FS_Interval, WebhookAssumption DEF Numbers
<1>2. IsFiniteSet({d} \X Numbers)
  BY <1>1, FS_Singleton, FS_Product
<1>3. RetryingOf(d) \subseteq {d} \X Numbers
  BY DEF RetryingOf, TypeOK
<1> QED BY <1>2, <1>3, FS_Subset, FS_CardinalityType

(* A retry that begins takes one of the places that are left. *)
LEMMA BeginRetryIInv ==
  ASSUME IInv, NEW d \in Deliveries, BeginRetry(d)
  PROVE  IInv'
<1> DEFINE row == delivery[d]
           k == NextNumber(row)
           p == <<d, k>>
<1>1. /\ UNCHANGED <<endpoint, delivery, log, instance, inbox, retries, acked, faults>>
      /\ retrying' = retrying \cup {p}
      /\ row.status \in {"Failed", "Exhausted"}
      /\ retries[d] + Cardinality(RetryingOf(d)) < MaxRetries
  BY DEF BeginRetry, Retryable, RetryingOf, historyVars
<1>2. row \in DeliveryType /\ RowOK(row, Top(d), log[d], acked[d])
  BY DEF IInv, TypeOK, RowsOK
<1>3. row.attempts \in Nat /\ row.attempts <= Top(d) /\ k = row.attempts + 1
  BY <1>2, AttemptFacts DEF RowOK, NextNumber
<1>4. /\ retries[d] \in Nat /\ Top(d) = MaxAttempts + retries[d]
      /\ IsFiniteSet(RetryingOf(d)) /\ Cardinality(RetryingOf(d)) \in Nat
  BY TopFacts, RetryingFinite DEF IInv, Top
<1> HIDE DEF k
<1>5. k \in Numbers /\ k <= Top(d) + 1
  <2>1. retries[d] + 1 <= MaxRetries
    BY <1>1, <1>4, WebhookAssumption
  <2>2. k \in Nat /\ 1 <= k /\ k <= MaxAttempts + retries[d] + 1
    <3> DEFINE attempts == row.attempts
    <3>1. attempts \in Nat /\ attempts <= MaxAttempts + retries[d] /\ k = attempts + 1
      BY <1>3, <1>4
    <3> HIDE DEF attempts
    <3> QED BY <3>1, <1>4, WebhookAssumption
  <2>3. k <= MaxAttempts + MaxRetries
    BY <2>1, <2>2, <1>4, WebhookAssumption
  <2> QED BY <1>4, <2>2, <2>3, WebhookAssumption DEF Numbers
<1>6. TypeOK'
  BY <1>1, <1>5 DEF IInv, TypeOK
<1>7. RowsOK' /\ InstancesOK'
  BY <1>1 DEF IInv, RowsOK, InstancesOK, Top
<1>8. MessagesOK'
  BY <1>1, <1>5 DEF IInv, MessagesOK, Top
<1>9. RetriesOK'
  <2> SUFFICES ASSUME NEW e \in Deliveries
               PROVE  retries[e] + Cardinality(RetryingOf(e)') <= MaxRetries
    BY <1>1 DEF RetriesOK
  <2>1. CASE e = d
    <3>1. RetryingOf(d)' = RetryingOf(d) \cup {p}
      BY <1>1 DEF RetryingOf
    <3>2. /\ Cardinality(RetryingOf(d) \cup {p}) <= Cardinality(RetryingOf(d)) + 1
          /\ Cardinality(RetryingOf(d) \cup {p}) \in Nat
      <4> DEFINE few == Cardinality(RetryingOf(d))
                 more == Cardinality(RetryingOf(d) \cup {p})
      <4> HIDE DEF p
      <4>1. few \in Nat
        BY <1>4
      <4>2. more = few \/ more = few + 1
        BY <1>4, FS_AddElement
      <4> HIDE DEF few, more
      <4>3. more <= few + 1 /\ more \in Nat
        BY <4>1, <4>2
      <4> QED BY <4>3 DEF few, more
    <3>3. /\ Cardinality(RetryingOf(d)') <= Cardinality(RetryingOf(d)) + 1
          /\ Cardinality(RetryingOf(d)') \in Nat
      BY <3>1, <3>2
    <3> QED BY <2>1, <3>3, <1>1, <1>4, WebhookAssumption
  <2>2. CASE e # d
    <3>1. RetryingOf(e)' = RetryingOf(e)
      BY <1>1, <2>2 DEF RetryingOf
    <3> QED BY <3>1 DEF IInv, RetriesOK
  <2> QED BY <2>1, <2>2
<1>10. UntriedIsFirst'
  <2> SUFFICES ASSUME NEW e \in Deliveries, delivery[e].status \in {"Absent", "Pending"}
               PROVE  FirstOnly(e)'
    BY <1>1 DEF UntriedIsFirst
  <2>1. FirstOnly(e) /\ e # d
    BY <1>1 DEF IInv, UntriedIsFirst
  <2> QED BY <1>1, <2>1 DEF FirstOnly
<1> QED BY <1>6, <1>7, <1>8, <1>9, <1>10 DEF IInv

(* A retry that ends raises the ceiling by the attempt it dispatches. *)
LEMMA FinishRetryIInv ==
  ASSUME IInv, NEW d \in Deliveries, NEW n \in Numbers, FinishRetry(d, n)
  PROVE  IInv'
<1> DEFINE p == <<d, n>>
           row == [delivery[d] EXCEPT !.status = "InProgress", !.due = 0]
<1>1. /\ p \in retrying /\ retrying' = retrying \ {p}
      /\ retries' = [retries EXCEPT ![d] = @ + 1]
      /\ inbox' = inbox \cup {p}
      /\ UNCHANGED <<endpoint, log, instance, acked, faults>>
  BY DEF FinishRetry, historyVars
<1>2. /\ delivery \in [Deliveries -> DeliveryType]
      /\ RowOK(delivery[d], Top(d), log[d], acked[d])
      /\ retries \in [Deliveries -> 0..MaxRetries]
  BY DEF IInv, TypeOK, RowsOK
<1>3. delivery' = [delivery EXCEPT ![d] = row]
  BY <1>2 DEF FinishRetry
<1>4. row \in DeliveryType /\ row.status = "InProgress" /\ row.attempts = delivery[d].attempts
  BY <1>2, NumberFacts DEF DeliveryType
<1>5. row.attempts \in Nat /\ row.attempts <= Top(d)
  BY <1>2, <1>4, AttemptFacts DEF RowOK
<1> HIDE DEF row
<1>6. \A e \in Deliveries :
        /\ delivery'[e] = IF e = d THEN row ELSE delivery[e]
        /\ Top(e)' = IF e = d THEN Top(e) + 1 ELSE Top(e)
        /\ Top(e) \in Nat /\ Top(e)' \in Nat /\ Top(e) <= Top(e)'
  <2> SUFFICES ASSUME NEW e \in Deliveries
               PROVE  /\ delivery'[e] = IF e = d THEN row ELSE delivery[e]
                      /\ Top(e)' = IF e = d THEN Top(e) + 1 ELSE Top(e)
                      /\ Top(e) \in Nat /\ Top(e)' \in Nat /\ Top(e) <= Top(e)'
    OBVIOUS
  <2>1. delivery'[e] = IF e = d THEN row ELSE delivery[e]
    BY <1>2, <1>3
  <2>2. retries'[e] = IF e = d THEN retries[e] + 1 ELSE retries[e]
    BY <1>1, <1>2
  <2>3. Top(e) = MaxAttempts + retries[e] /\ Top(e)' = MaxAttempts + retries'[e]
    BY DEF Top
  <2>4. retries[e] \in Nat /\ MaxAttempts \in Nat
    BY <1>2, WebhookAssumption
  <2> QED BY <2>1, <2>2, <2>3, <2>4
<1>7. /\ IsFiniteSet(RetryingOf(d)) /\ Cardinality(RetryingOf(d)) \in Nat
      /\ p \in RetryingOf(d) /\ RetryingOf(d)' = RetryingOf(d) \ {p}
  BY <1>1, RetryingFinite DEF IInv, RetryingOf
<1>8. Cardinality(RetryingOf(d)') = Cardinality(RetryingOf(d)) - 1
      /\ Cardinality(RetryingOf(d)') \in Nat
  BY <1>7, FS_RemoveElement, FS_CardinalityType
<1>9. RetriesOK'
  <2> SUFFICES ASSUME NEW e \in Deliveries
               PROVE  retries'[e] + Cardinality(RetryingOf(e)') <= MaxRetries
    BY DEF RetriesOK
  <2>1. retries[e] + Cardinality(RetryingOf(e)) <= MaxRetries
    BY DEF IInv, RetriesOK
  <2>2. CASE e = d
    <3>1. retries'[d] = retries[d] + 1 /\ retries[d] \in Nat
      BY <1>1, <1>2
    <3> QED BY <2>1, <2>2, <3>1, <1>7, <1>8
  <2>3. CASE e # d
    <3>1. RetryingOf(e)' = RetryingOf(e)
      BY <1>1, <2>3 DEF RetryingOf
    <3>2. retries'[e] = retries[e]
      BY <1>1, <1>2, <2>3
    <3> QED BY <2>1, <3>1, <3>2
  <2> QED BY <2>2, <2>3
<1>10. TypeOK'
  <2>1. delivery' \in [Deliveries -> DeliveryType]
    BY <1>2, <1>3, <1>4
  <2>2. retries' \in [Deliveries -> 0..MaxRetries]
    <3>1. retries[d] + Cardinality(RetryingOf(d)) <= MaxRetries
      BY DEF IInv, RetriesOK
    <3>2. retries[d] + 1 \in 0..MaxRetries
      BY <3>1, <1>2, <1>7, <1>8, WebhookAssumption
    <3> QED BY <3>2, <1>1, <1>2
  <2>3. inbox' \subseteq Deliveries \X Numbers /\ retrying' \subseteq Deliveries \X Numbers
    BY <1>1 DEF IInv, TypeOK
  <2> QED BY <1>1, <2>1, <2>2, <2>3 DEF IInv, TypeOK
<1>11. RowsOK'
  <2> SUFFICES ASSUME NEW e \in Deliveries
               PROVE  RowOK(delivery'[e], Top(e)', log[e], acked[e])
    BY <1>1 DEF RowsOK
  <2>1. CASE e = d
    <3>1. RowOK(row, Top(d)', log[d], acked[d])
      BY <1>4, <1>5, <1>6 DEF RowOK
    <3> QED BY <3>1, <2>1, <1>6
  <2>2. CASE e # d
    BY <2>2, <1>6 DEF IInv, RowsOK
  <2> QED BY <2>1, <2>2
<1>12. InstancesOK'
  <2> SUFFICES ASSUME NEW e \in Deliveries, NEW m \in Numbers
               PROVE  InstanceOK(instance[e][m], Top(e)', log[e], acked[e])
    BY <1>1 DEF InstancesOK
  <2>1. /\ instance[e][m] \in InstanceType
        /\ InstanceOK(instance[e][m], Top(e), log[e], acked[e])
    BY DEF IInv, TypeOK, InstancesOK
  <2> QED BY <2>1, <1>6, InstanceMonotone
<1>13. MessagesOK'
  <2> SUFFICES ASSUME NEW e \in Deliveries, NEW m \in Numbers
               PROVE  /\ <<e, m>> \in inbox' => m <= Top(e)'
                      /\ <<e, m>> \in retrying' => m <= Top(e)' + 1
    BY DEF MessagesOK
  <2>1. /\ <<e, m>> \in inbox => m <= Top(e)
        /\ <<e, m>> \in retrying => m <= Top(e) + 1
        /\ m \in Nat
    BY NumberFacts DEF IInv, MessagesOK
  <2>2. <<e, m>> \in retrying' => m <= Top(e)' + 1
    BY <2>1, <1>1, <1>6
  <2>3. <<e, m>> = p => m <= Top(e)'
    BY <2>1, <1>1, <1>6
  <2> QED BY <2>1, <2>2, <2>3, <1>1, <1>6
<1>14. UntriedIsFirst'
  <2> SUFFICES ASSUME NEW e \in Deliveries, delivery'[e].status \in {"Absent", "Pending"}
               PROVE  FirstOnly(e)'
    BY DEF UntriedIsFirst
  <2>1. e # d /\ delivery[e].status \in {"Absent", "Pending"}
    BY <1>4, <1>6
  <2>2. FirstOnly(e)
    BY <2>1 DEF IInv, UntriedIsFirst
  <2> QED BY <1>1, <2>1, <2>2 DEF FirstOnly
<1> QED BY <1>9, <1>10, <1>11, <1>12, <1>13, <1>14 DEF IInv

(* The endpoint row is set; no invariant here but its type reads it. *)
LEMMA EndpointIInv ==
  ASSUME IInv, Enable \/ Suspend \/ DeleteEndpoint
  PROVE  IInv'
<1>1. UNCHANGED <<delivery, log, instance, inbox, retrying, retries, acked, faults>>
  BY DEF Enable, Suspend, DeleteEndpoint, SetEndpoint, retryVars, historyVars
<1>2. endpoint' \in EndpointType
  <2>1. endpoint \in EndpointType
    BY DEF IInv, TypeOK
  <2> QED BY <2>1, WebhookAssumption
          DEF Enable, Suspend, DeleteEndpoint, SetEndpoint, EndpointType
<1> QED BY <1>1, <1>2 DEF IInv, TypeOK, RowsOK, InstancesOK, MessagesOK, RetriesOK,
                          RetryingOf, UntriedIsFirst, FirstOnly, Top

(* Time touches neither a status nor an attempt. *)
LEMMA OlderFacts ==
  ASSUME NEW row \in DeliveryType
  PROVE  /\ Older(row) \in DeliveryType
         /\ Older(row).status = row.status
         /\ Older(row).attempts = row.attempts
<1> DEFINE age == IF row.status # "Absent" /\ row.age < StaleAfter THEN row.age + 1 ELSE row.age
           due == IF row.status = "Failed" /\ row.due > -StaleAfter THEN row.due - 1 ELSE row.due
<1>1. row.age \in 0..StaleAfter /\ row.due \in (-StaleAfter)..MaxDelay
  BY DEF DeliveryType
<1>2. age \in 0..StaleAfter /\ due \in (-StaleAfter)..MaxDelay
  BY <1>1, WebhookAssumption
<1>3. Older(row) = [row EXCEPT !.age = age, !.due = due]
  BY DEF Older, DeliveryType
<1> HIDE DEF age, due
<1> QED BY <1>2, <1>3 DEF DeliveryType

LEMMA TickIInv ==
  ASSUME IInv, Tick
  PROVE  IInv'
<1>1. /\ UNCHANGED <<endpoint, log, inbox, retrying, retries, acked, faults>>
      /\ delivery' = [d \in Deliveries |-> Older(delivery[d])]
      /\ \A d \in Deliveries : delivery[d] \in DeliveryType
  BY DEF Tick, retryVars, historyVars, IInv, TypeOK
<1>2. \A d \in Deliveries : /\ delivery'[d] \in DeliveryType
                           /\ delivery'[d].status = delivery[d].status
                           /\ delivery'[d].attempts = delivery[d].attempts
  BY <1>1, OlderFacts
<1>3. ASSUME NEW d \in Deliveries, NEW n \in Numbers
      PROVE  /\ instance'[d][n] \in InstanceType
             /\ instance'[d][n].pc = instance[d][n].pc
             /\ instance'[d][n].attempt = instance[d][n].attempt
             /\ instance'[d][n].ok = instance[d][n].ok
  <2> DEFINE wait == IF instance[d][n].wait > 0 THEN instance[d][n].wait - 1
                                                ELSE instance[d][n].wait
  <2>1. instance[d][n] \in InstanceType
    BY DEF IInv, TypeOK
  <2>2. wait \in 0..MaxDelay
    <3>1. instance[d][n].wait \in 0..MaxDelay
      BY <2>1 DEF InstanceType
    <3> QED BY <3>1, WebhookAssumption
  <2>3. instance'[d][n] = [instance[d][n] EXCEPT !.wait = wait]
    BY <2>1 DEF Tick, InstanceType
  <2> HIDE DEF wait
  <2> QED BY <2>1, <2>2, <2>3 DEF InstanceType
<1>4. TypeOK'
  <2>1. delivery' \in [Deliveries -> DeliveryType]
    BY <1>1, <1>2
  <2>2. instance' \in [Deliveries -> [Numbers -> InstanceType]]
    BY <1>3 DEF Tick
  <2> QED BY <1>1, <2>1, <2>2 DEF IInv, TypeOK
<1>5. RowsOK'
  <2> SUFFICES ASSUME NEW d \in Deliveries
               PROVE  RowOK(delivery'[d], Top(d), log[d], acked[d])
    BY <1>1 DEF RowsOK, Top
  <2>1. RowOK(delivery[d], Top(d), log[d], acked[d])
    BY DEF IInv, RowsOK
  <2> QED BY <1>2, <2>1 DEF RowOK
<1>6. InstancesOK'
  <2> SUFFICES ASSUME NEW d \in Deliveries, NEW n \in Numbers
               PROVE  InstanceOK(instance'[d][n], Top(d), log[d], acked[d])
    BY <1>1 DEF InstancesOK, Top
  <2>1. InstanceOK(instance[d][n], Top(d), log[d], acked[d])
    BY DEF IInv, InstancesOK
  <2> QED BY <1>3, <2>1 DEF InstanceOK
<1>7. MessagesOK' /\ RetriesOK'
  BY <1>1 DEF IInv, MessagesOK, RetriesOK, RetryingOf, Top
<1>8. UntriedIsFirst'
  BY <1>1, <1>2, <1>3 DEF IInv, UntriedIsFirst, FirstOnly
<1> QED BY <1>4, <1>5, <1>6, <1>7, <1>8 DEF IInv

-----------------------------------------------------------------------------
LEMMA NextIInv == IInv /\ [Next]_vars => IInv'
<1> SUFFICES ASSUME IInv, [Next]_vars PROVE IInv'
  OBVIOUS
<1>1. ASSUME NEW d \in Deliveries, Emit(d) \/ TestEndpoint(d) PROVE IInv'
  BY <1>1, InsertIInv DEF Emit, TestEndpoint
<1>2. ASSUME NEW d \in Deliveries, NEW n \in Numbers, Run(d, n) PROVE IInv'
  BY <1>2, QuietIInv, PostIInv, RecordIInv, MarkIInv DEF Run
<1>3. ASSUME NEW d \in Deliveries, NEW n \in Numbers,
             LoseDispatch(d, n) \/ RetryStep(d, n) \/ FailInstance(d, n)
      PROVE  IInv'
  BY <1>3, FaultIInv
<1>4. CASE UNCHANGED vars
  BY <1>4 DEF vars, IInv, TypeOK, RowsOK, InstancesOK, MessagesOK, RetriesOK,
              RetryingOf, UntriedIsFirst, FirstOnly, Top
<1> QED BY <1>1, <1>2, <1>3, <1>4, DispatchIInv, BeginRetryIInv, FinishRetryIInv,
           SweepIInv, EndpointIInv, TickIInv DEF Next

(* Whatever retries, sweeps, faults and parallel instances do, the         *)
(* invariant holds of every reachable state.                               *)
THEOREM WebhookInvariant == Spec => []IInv
<1> QED BY InitIInv, NextIInv, PTL DEF Spec

(* The typing of the state, with every attempt number within the bound     *)
(* that manual retries set.                                                *)
THEOREM WebhookTypes == Spec => []TypeOK
<1>1. IInv => TypeOK
  BY DEF IInv
<1> QED BY <1>1, WebhookInvariant, PTL

(* A row that says Succeeded was acknowledged by its receiver.             *)
THEOREM SuccessIsEarned == Spec => []SucceededIsAcknowledged
<1>1. IInv => SucceededIsAcknowledged
  BY DEF IInv, RowsOK, RowOK, SucceededIsAcknowledged
<1> QED BY <1>1, WebhookInvariant, PTL

(* A delivery is given up only after its schedule is used up.              *)
THEOREM ExhaustionIsEarned == Spec => []ExhaustedIsSpent
<1>1. IInv => ExhaustedIsSpent
  BY DEF IInv, RowsOK, RowOK, ExhaustedIsSpent
<1> QED BY <1>1, WebhookInvariant, PTL

(* Only manual retries take a delivery beyond its schedule, by one attempt *)
(* each.                                                                   *)
THEOREM ScheduleIsTheCeiling == Spec => []AttemptsAreBounded
<1>1. IInv => AttemptsAreBounded
  BY DEF IInv, RowsOK, RowOK, Top, AttemptsAreBounded
<1> QED BY <1>1, WebhookInvariant, PTL

(* Before its first mark a delivery has one driver at most. *)
THEOREM FirstAttemptIsDrivenOnce == Spec => []PendingHasOneDriver
<1>1. IInv => PendingHasOneDriver
  <2> SUFFICES ASSUME IInv, NEW d \in Deliveries, delivery[d].status = "Pending"
               PROVE  \A n \in Numbers : Live(d, n) => n = 1
    BY DEF PendingHasOneDriver
  <2>1. FirstOnly(d)
    BY DEF IInv, UntriedIsFirst
  <2> QED BY <2>1 DEF FirstOnly, Live, Running
<1> QED BY <1>1, WebhookInvariant, PTL

-----------------------------------------------------------------------------
(* The endpoint.  FailingEndpointIsStopped is inductive by itself, given   *)
(* the types: only Count raises the counter, and it then goes to disable.  *)

(* Steps that leave the endpoint alone and keep every pending stop. *)
LEMMA PendingStopStays ==
  ASSUME TypeOK, FailingEndpointIsStopped, endpoint' = endpoint,
         faults' = 0 => faults = 0,
         \A d \in Deliveries, n \in Numbers :
           At(d, n, "disable") => At(d, n, "disable")'
  PROVE  FailingEndpointIsStopped'
BY DEF FailingEndpointIsStopped

LEMMA CountStops ==
  ASSUME TypeOK, FailingEndpointIsStopped, NEW d \in Deliveries, NEW n \in Numbers,
         Count(d, n)
  PROVE  FailingEndpointIsStopped'
<1> DEFINE i == instance[d][n]
           raised == IF endpoint.failures < Threshold THEN endpoint.failures + 1
                                                      ELSE Threshold
           failures == IF i.ok THEN 0 ELSE raised
           pc == IF TooMany(failures) THEN "disable" ELSE "settled"
<1>1. /\ i.pc = "count" /\ UNCHANGED faults
      /\ instance \in [Deliveries -> [Numbers -> InstanceType]]
      /\ endpoint \in EndpointType
  BY DEF Count, At, TypeOK
<1>2. CASE endpoint.status = "Deleted"
  <2>1. UNCHANGED endpoint
    BY <1>2 DEF Count
  <2> QED BY <1>2, <2>1 DEF FailingEndpointIsStopped
<1>3. CASE endpoint.status # "Deleted"
  <2>1. endpoint' = [endpoint EXCEPT !.failures = failures] /\ Goto(d, n, pc)
    BY <1>3 DEF Count
  <2>2. failures \in 0..Threshold
    <3>1. endpoint.failures \in 0..Threshold
      BY <1>1 DEF EndpointType
    <3> QED BY <3>1, WebhookAssumption
  <2>3. failures = Threshold => pc = "disable"
    BY <2>2, WebhookAssumption DEF TooMany
  <2> HIDE DEF failures, pc
  <2>4. endpoint'.failures = failures
    BY <1>1, <2>1 DEF EndpointType
  <2>5. instance'[d][n].pc = pc
    <3>1. instance'[d][n] = [i EXCEPT !.pc = pc] /\ i \in InstanceType
      BY <1>1, <2>1 DEF Goto
    <3> QED BY <3>1 DEF InstanceType
  <2> QED BY <2>3, <2>4, <2>5 DEF FailingEndpointIsStopped, At
<1> QED BY <1>2, <1>3

LEMMA NextStops ==
  ASSUME TypeOK, FailingEndpointIsStopped, [Next]_vars
  PROVE  FailingEndpointIsStopped'
<1> USE DEF At
<1>1. /\ instance \in [Deliveries -> [Numbers -> InstanceType]]
      /\ faults \in Nat /\ endpoint \in EndpointType
  BY WebhookAssumption DEF TypeOK
<1>2. ASSUME NEW d \in Deliveries, Emit(d) \/ TestEndpoint(d) \/ BeginRetry(d)
      PROVE  FailingEndpointIsStopped'
  BY <1>2, PendingStopStays DEF Emit, TestEndpoint, Insert, BeginRetry
<1>3. ASSUME NEW d \in Deliveries, NEW n \in Numbers, Dispatch(d, n)
      PROVE  FailingEndpointIsStopped'
  <2>1. \/ instance' = instance
        \/ /\ instance[d][n].pc = "none"
           /\ \A e \in Deliveries, m \in Numbers :
                ~(e = d /\ m = n) => instance'[e][m] = instance[e][m]
    BY <1>1, <1>3 DEF Dispatch, Key
  <2> QED BY <1>3, <2>1, PendingStopStays DEF Dispatch
<1>4. ASSUME NEW d \in Deliveries, NEW n \in Numbers,
             LoseDispatch(d, n) \/ RetryStep(d, n) \/ FailInstance(d, n)
      PROVE  FailingEndpointIsStopped'
  <2>1. faults' = faults + 1
    BY <1>4 DEF LoseDispatch, RetryStep, FailInstance, Fault
  <2> QED BY <1>1, <2>1 DEF FailingEndpointIsStopped
<1>5. ASSUME NEW d \in Deliveries, NEW n \in Numbers, FinishRetry(d, n)
      PROVE  FailingEndpointIsStopped'
  BY <1>5, PendingStopStays DEF FinishRetry
<1>6. ASSUME NEW d \in Deliveries, NEW n \in Numbers, Run(d, n)
      PROVE  FailingEndpointIsStopped'
  <2>1. CASE Count(d, n)
    BY <2>1, CountStops
  <2>2. CASE Disable(d, n)
    <3>1. endpoint'.status # "Active"
      BY <1>1, <2>2 DEF Disable, EndpointType
    <3> QED BY <3>1 DEF FailingEndpointIsStopped
  <2>3. ASSUME NEW j, instance' = [instance EXCEPT ![d][n] = j],
               instance[d][n].pc # "disable", UNCHANGED <<endpoint, faults>>
        PROVE  FailingEndpointIsStopped'
    <3>1. \A e \in Deliveries, m \in Numbers :
            ~(e = d /\ m = n) => instance'[e][m] = instance[e][m]
      BY <1>1, <2>3
    <3> QED BY <3>1, <2>3, PendingStopStays
  <2> DEFINE i == instance[d][n]
  <2>4. CASE Load(d, n)
    <3>1. \/ instance' = [instance EXCEPT ![d][n] = [i EXCEPT !.pc = "post"]]
          \/ instance' = [instance EXCEPT ![d][n] = Over("skipped")]
      BY <1>1, <2>4 DEF Load, Goto
    <3> QED BY <3>1, <2>3, <2>4 DEF Load
  <2>5. ASSUME NEW accepted \in BOOLEAN, NEW ok \in BOOLEAN, Post(d, n, accepted, ok)
        PROVE  FailingEndpointIsStopped'
    <3>1. instance' = [instance EXCEPT ![d][n] = [i EXCEPT !.pc = "record", !.ok = ok]]
      BY <1>1, <2>5 DEF Post
    <3> QED BY <3>1, <2>3, <2>5 DEF Post
  <2>6. CASE Record(d, n)
    <3>1. instance' = [instance EXCEPT ![d][n] = [i EXCEPT !.pc = "mark"]]
      BY <1>1, <2>6 DEF Record, Goto
    <3> QED BY <3>1, <2>3, <2>6 DEF Record
  <2>7. CASE Mark(d, n)
    <3> DEFINE wait == IF ~i.ok /\ HasRetry(i.attempt) THEN RetryDelay(i.attempt) ELSE 0
    <3>1. instance' = [instance EXCEPT ![d][n] = [i EXCEPT !.pc = "count", !.wait = wait]]
      BY <1>1, <2>7 DEF Mark
    <3> HIDE DEF wait
    <3> QED BY <3>1, <2>3, <2>7 DEF Mark
  <2>8. CASE Leave(d, n)
    <3>1. \/ instance' = [instance EXCEPT ![d][n] = Over("done")]
          \/ instance' = [instance EXCEPT ![d][n] = [i EXCEPT !.pc = "sleep"]]
      BY <1>1, <2>8 DEF Leave, Goto
    <3> QED BY <3>1, <2>3, <2>8 DEF Leave
  <2>9. CASE Wake(d, n)
    <3>1. instance' = [instance EXCEPT ![d][n] = [i EXCEPT !.pc = "load", !.attempt = @ + 1]]
      BY <1>1, <2>9 DEF Wake
    <3> QED BY <3>1, <2>3, <2>9 DEF Wake
  <2> QED BY <1>6, <2>1, <2>2, <2>4, <2>5, <2>6, <2>7, <2>8, <2>9 DEF Run
<1>7. CASE Sweep
  BY <1>7, PendingStopStays DEF Sweep
<1>8. CASE Enable \/ Suspend \/ DeleteEndpoint
  <2>1. endpoint'.status # "Active" \/ endpoint'.failures = 0
    BY <1>1, <1>8 DEF Enable, Suspend, DeleteEndpoint, SetEndpoint, EndpointType
  <2> QED BY <2>1, WebhookAssumption DEF FailingEndpointIsStopped
<1>9. CASE Tick
  <2>1. \A d \in Deliveries, n \in Numbers : instance'[d][n].pc = instance[d][n].pc
    <3> SUFFICES ASSUME NEW d \in Deliveries, NEW n \in Numbers
                 PROVE  instance'[d][n].pc = instance[d][n].pc
      OBVIOUS
    <3> DEFINE wait == IF instance[d][n].wait > 0 THEN instance[d][n].wait - 1
                                                  ELSE instance[d][n].wait
    <3>1. instance'[d][n] = [instance[d][n] EXCEPT !.wait = wait]
      BY <1>9 DEF Tick
    <3>2. instance[d][n] \in InstanceType
      BY <1>1
    <3> HIDE DEF wait
    <3> QED BY <3>1, <3>2 DEF InstanceType
  <2> QED BY <1>9, <2>1, PendingStopStays DEF Tick
<1>10. CASE UNCHANGED vars
  BY <1>10, PendingStopStays DEF vars
<1> QED BY <1>2, <1>3, <1>4, <1>5, <1>6, <1>7, <1>8, <1>9, <1>10 DEF Next

(* With any number of deliveries failing at once, an active endpoint at    *)
(* the threshold is about to be stopped unless a fault intervenes.         *)
THEOREM FailingEndpointStops == Spec => []FailingEndpointIsStopped
<1>1. Init => FailingEndpointIsStopped
  BY WebhookAssumption DEF Init, FailingEndpointIsStopped
<1>2. TypeOK /\ FailingEndpointIsStopped /\ [Next]_vars => FailingEndpointIsStopped'
  BY NextStops
<1> QED BY <1>1, <1>2, WebhookTypes, PTL DEF Spec

=============================================================================
