------------------------ MODULE PurchaseLedgerProofs ------------------------
(***************************************************************************)
(* The safety of the purchase ledger for any number of rows and workers,   *)
(* any batch size, attempt limit and retry schedule.                       *)
(***************************************************************************)
EXTENDS PurchaseLedger, TLAPS

(* The inductive invariant.  PublishedIsDelivered alone is not inductive:  *)
(* it needs the answer in flight to be true of the sink (AnswersStayTrue), *)
(* and the row a compare-and-set hits to be the row that answer is about   *)
(* (ClaimsAreBacked).                                                      *)
IInv == /\ TypeOK
        /\ ClaimsAreBacked
        /\ AnswersStayTrue
        /\ PublishedIsDelivered
        /\ OnlyDeadLettersAreExhausted

-----------------------------------------------------------------------------
(* What the row updates of the store return. *)
LEMMA ClaimedType ==
  ASSUME NEW row \in RowType, NEW t \in Tokens
  PROVE  /\ Claimed(row, t) \in RowType
         /\ Claimed(row, t).status = "InProgress"
         /\ Claimed(row, t).claimedBy = t
         /\ Claimed(row, t).attempts = row.attempts
<1>1. 0 \in 0..StaleAfter
  BY LedgerAssumption
<1> QED BY <1>1 DEF Claimed, RowType, Statuses

LEMMA ReleasedType ==
  ASSUME NEW row \in RowType
  PROVE  /\ Released(row) \in RowType
         /\ Released(row).status = "Pending"
         /\ Released(row).claimedBy = Nobody
         /\ Released(row).attempts = row.attempts
<1>1. 0 \in 0..StaleAfter
  BY LedgerAssumption
<1> QED BY <1>1 DEF Released, RowType, Statuses

LEMMA PublishedRowType ==
  ASSUME NEW row \in RowType
  PROVE  /\ PublishedRow(row) \in RowType
         /\ PublishedRow(row).status = "Published"
         /\ PublishedRow(row).claimedBy = Nobody
         /\ PublishedRow(row).attempts = row.attempts
<1>1. 0 \in 0..StaleAfter
  BY LedgerAssumption
<1>2. Settled(row) \in RowType /\ Settled(row).claimedBy = Nobody
      /\ Settled(row).attempts = row.attempts
  BY <1>1 DEF Settled, RowType
<1> QED BY <1>2 DEF PublishedRow, RowType, Statuses, Errors

LEMMA DeadRowType ==
  ASSUME NEW row \in RowType, NEW n \in 0..MaxAttempts, NEW e \in Errors
  PROVE  /\ DeadRow(row, n, e) \in RowType
         /\ DeadRow(row, n, e).status = "DeadLetter"
         /\ DeadRow(row, n, e).claimedBy = Nobody
         /\ DeadRow(row, n, e).attempts = n
<1>1. 0 \in 0..StaleAfter /\ 0 \in 0..SweepAge
  BY LedgerAssumption
<1>2. Settled(row) \in RowType /\ Settled(row).claimedBy = Nobody
  BY <1>1 DEF Settled, RowType
<1> QED BY <1>1, <1>2 DEF DeadRow, RowType, Statuses, Errors

LEMMA RetriedRowType ==
  ASSUME NEW row \in RowType, NEW n \in 0..MaxAttempts, NEW d \in 0..BackoffCap
  PROVE  /\ RetriedRow(row, n, d) \in RowType
         /\ RetriedRow(row, n, d).status = "Pending"
         /\ RetriedRow(row, n, d).claimedBy = Nobody
         /\ RetriedRow(row, n, d).attempts = n
<1>1. 0 \in 0..StaleAfter
  BY LedgerAssumption
<1>2. Settled(row) \in RowType /\ Settled(row).claimedBy = Nobody
  BY <1>1 DEF Settled, RowType
<1> QED BY <1>2 DEF RetriedRow, RowType, Statuses, Errors

LEMMA RequeuedType ==
  ASSUME NEW row \in RowType
  PROVE  /\ Requeued(row) \in RowType
         /\ Requeued(row).status = "Pending"
         /\ Requeued(row).claimedBy = Nobody
         /\ Requeued(row).attempts = 0
<1>1. /\ 0 \in 0..StaleAfter /\ 0 \in 0..SweepAge
      /\ 0 \in 0..BackoffCap /\ 0 \in 0..MaxAttempts
  BY LedgerAssumption
<1>2. Settled(row) \in RowType /\ Settled(row).claimedBy = Nobody
  BY <1>1 DEF Settled, RowType
<1> QED BY <1>1, <1>2 DEF Requeued, RowType, Statuses

LEMMA AgedType ==
  ASSUME NEW row \in RowType
  PROVE  /\ Aged(row) \in RowType
         /\ Aged(row).status = row.status
         /\ Aged(row).claimedBy = row.claimedBy
         /\ Aged(row).attempts = row.attempts
<1> DEFINE age == IF row.status = "InProgress" /\ row.claimAge < StaleAfter
                  THEN row.claimAge + 1 ELSE row.claimAge
           rest == IF row.wait > 0 THEN row.wait - 1 ELSE row.wait
           dead == IF row.status = "DeadLetter" /\ row.deadAge < SweepAge
                   THEN row.deadAge + 1 ELSE row.deadAge
<1>1. row.claimAge \in 0..StaleAfter /\ row.wait \in 0..BackoffCap
      /\ row.deadAge \in 0..SweepAge
  BY DEF RowType
<1>2. age \in 0..StaleAfter /\ rest \in 0..BackoffCap /\ dead \in 0..SweepAge
  BY <1>1, LedgerAssumption
<1>3. Aged(row) = [row EXCEPT !.claimAge = age, !.wait = rest, !.deadAge = dead]
  BY DEF Aged, RowType
<1> HIDE DEF age, rest, dead
<1> QED BY <1>2, <1>3 DEF RowType

-----------------------------------------------------------------------------
(* Initially no row exists and no worker polls. *)
LEMMA InitIInv == Init => IInv
<1> SUFFICES ASSUME Init PROVE IInv
  OBVIOUS
<1> USE LedgerAssumption DEF Init
<1>1. TypeOK
  BY DEF TypeOK, AbsentRow, RowType, Statuses, Errors, FlightType
<1>2. ClaimsAreBacked
  BY DEF ClaimsAreBacked, AbsentRow, Holds
<1>3. AnswersStayTrue
  BY DEF AnswersStayTrue
<1>4. PublishedIsDelivered /\ OnlyDeadLettersAreExhausted
  BY DEF PublishedIsDelivered, OnlyDeadLettersAreExhausted, AbsentRow
<1> QED BY <1>1, <1>2, <1>3, <1>4 DEF IInv

-----------------------------------------------------------------------------
(* A purchase transaction adds a row nobody claims or delivers yet. *)
LEMMA StageIInv ==
  ASSUME IInv, NEW r \in Rows, Stage(r)
  PROVE  IInv'
<1> DEFINE row == [ledger[r] EXCEPT !.status = "Pending"]
<1>1. /\ ledger[r].status = "Absent"
      /\ ledger' = [ledger EXCEPT ![r] = row]
      /\ UNCHANGED <<sunk, token, todo, seen, flight, crashes>>
  BY DEF Stage, workerVars
<1>2. PICK S \in SUBSET Events : payload' = [payload EXCEPT ![r] = S]
  BY DEF Stage
<1>3. corrupt' \in SUBSET Rows
  BY DEF Stage, IInv, TypeOK
<1>4. ledger \in [Rows -> RowType] /\ payload \in [Rows -> SUBSET Events]
  BY DEF IInv, TypeOK
<1>5. row \in RowType /\ row.status = "Pending"
      /\ row.claimedBy = ledger[r].claimedBy /\ row.attempts = ledger[r].attempts
  BY <1>4 DEF RowType, Statuses
<1> HIDE DEF row
<1>6. \A q \in Rows : /\ ledger'[q] = IF q = r THEN row ELSE ledger[q]
                      /\ q # r => payload'[q] = payload[q]
  BY <1>1, <1>2, <1>4
<1>7. TypeOK'
  BY <1>1, <1>2, <1>3, <1>5 DEF IInv, TypeOK
<1>8. ClaimsAreBacked'
  BY <1>1, <1>5, <1>6 DEF IInv, ClaimsAreBacked, Holds
<1>9. AnswersStayTrue'
  <2> SUFFICES ASSUME NEW w \in Workers
               PROVE  /\ token[w] = Nobody => todo[w] = {}
                      /\ \A q \in todo[w] : ledger'[q].status # "Absent"
                      /\ flight[w] # NoFlight =>
                           /\ flight[w].row \in todo[w]
                           /\ flight[w].answer = "stored"
                                => payload'[flight[w].row] \subseteq sunk[flight[w].row]
    BY <1>1 DEF AnswersStayTrue
  <2>1. todo[w] \subseteq Rows /\ r \notin todo[w]
    BY <1>1 DEF IInv, TypeOK, AnswersStayTrue
  <2> QED BY <1>6, <2>1 DEF IInv, AnswersStayTrue
<1>10. PublishedIsDelivered'
  BY <1>1, <1>5, <1>6 DEF IInv, PublishedIsDelivered
<1>11. OnlyDeadLettersAreExhausted'
  <2>1. ledger[r].attempts < MaxAttempts
    BY <1>1 DEF IInv, OnlyDeadLettersAreExhausted
  <2> QED BY <1>5, <1>6, <2>1 DEF IInv, OnlyDeadLettersAreExhausted
<1> QED BY <1>7, <1>8, <1>9, <1>10, <1>11 DEF IInv

-----------------------------------------------------------------------------
(* Claiming a batch under a fresh token, and releasing the stale claims. *)
LEMMA ClaimIInv ==
  ASSUME IInv, NEW w \in Workers, Claim(w)
  PROVE  IInv'
<1> DEFINE batch == Oldest(Due)
<1>1. PICK t \in FreshTokens :
        /\ ledger' = [r \in Rows |->
                        IF r \in batch THEN Claimed(ledger[r], t)
                        ELSE IF r \in StaleClaims THEN Released(ledger[r])
                        ELSE ledger[r]]
        /\ todo' = [todo EXCEPT ![w] = batch]
        /\ token' = [token EXCEPT ![w] = IF batch = {} THEN Nobody ELSE t]
        /\ seen' = [seen EXCEPT ![w] =
                      [r \in Rows |-> IF r \in batch THEN ledger[r].attempts
                                      ELSE 0]]
  BY DEF Claim
<1>2. /\ token[w] = Nobody
      /\ UNCHANGED <<flight, crashes, payload, corrupt, sunk>>
  BY DEF Claim, payloadVars
<1>3. batch \subseteq Due
  BY DEF Oldest
<1> HIDE DEF batch
<1>4. /\ ledger \in [Rows -> RowType]
      /\ token \in [Workers -> Tokens \cup {Nobody}]
      /\ todo \in [Workers -> SUBSET Rows]
      /\ seen \in [Workers -> [Rows -> 0..MaxAttempts]]
      /\ flight \in [Workers -> FlightType]
  BY DEF IInv, TypeOK
<1>5. /\ t \in Tokens /\ t # Nobody
      /\ \A r \in Rows : ledger[r].claimedBy # t
      /\ \A v \in Workers : token[v] # t
  BY LedgerAssumption DEF FreshTokens
<1>6. Due \subseteq Rows /\ StaleClaims \subseteq Rows
  BY DEF Due, StaleClaims
<1>7. \A r \in batch : /\ Claimed(ledger[r], t) \in RowType
                       /\ Claimed(ledger[r], t).status = "InProgress"
                       /\ Claimed(ledger[r], t).claimedBy = t
                       /\ Claimed(ledger[r], t).attempts = ledger[r].attempts
                       /\ ledger[r].status \in {"Pending", "InProgress"}
  BY <1>3, <1>4, <1>5, ClaimedType DEF Due, StaleClaims
<1>8. \A r \in StaleClaims : /\ Released(ledger[r]) \in RowType
                             /\ Released(ledger[r]).status = "Pending"
                             /\ Released(ledger[r]).claimedBy = Nobody
                             /\ Released(ledger[r]).attempts = ledger[r].attempts
                             /\ ledger[r].status = "InProgress"
  BY <1>4, ReleasedType DEF StaleClaims
<1>9. \A r \in Rows : ledger'[r] = IF r \in batch THEN Claimed(ledger[r], t)
                                   ELSE IF r \in StaleClaims THEN Released(ledger[r])
                                   ELSE ledger[r]
  BY <1>1
<1>10. \A v \in Workers : /\ todo'[v] = IF v = w THEN batch ELSE todo[v]
                          /\ v # w => token'[v] = token[v] /\ seen'[v] = seen[v]
  BY <1>1, <1>4
<1>11. /\ token'[w] = IF batch = {} THEN Nobody ELSE t
       /\ \A r \in batch : seen'[w][r] = ledger[r].attempts
  BY <1>1, <1>3, <1>4, <1>6
<1>12. TypeOK'
  <2>1. ledger' \in [Rows -> RowType]
    BY <1>1, <1>4, <1>7, <1>8
  <2>2. todo' \in [Workers -> SUBSET Rows] /\ token' \in [Workers -> Tokens \cup {Nobody}]
    BY <1>1, <1>3, <1>4, <1>5, <1>6
  <2>3. \A r \in Rows : ledger[r].attempts \in 0..MaxAttempts
    BY <1>4 DEF RowType
  <2>4. seen' \in [Workers -> [Rows -> 0..MaxAttempts]]
    BY <1>1, <1>4, <2>3, LedgerAssumption
  <2> QED BY <1>2, <2>1, <2>2, <2>4 DEF IInv, TypeOK
<1>13. ClaimsAreBacked'
  <2>1. \A r \in Rows : ledger'[r].status = "InProgress" <=> ledger'[r].claimedBy # Nobody
    BY <1>5, <1>7, <1>8, <1>9 DEF IInv, ClaimsAreBacked
  <2>2. \A u, v \in Workers : token'[u] = token'[v] /\ token'[u] # Nobody => u = v
    BY <1>5, <1>10, <1>11 DEF IInv, ClaimsAreBacked
  <2>3. ASSUME NEW v \in Workers, NEW r \in Rows,
               token'[v] # Nobody, ledger'[r].claimedBy = token'[v]
        PROVE  r \in todo'[v] /\ seen'[v][r] = ledger'[r].attempts
    <3>1. CASE v = w
      BY <1>5, <1>7, <1>8, <1>9, <1>10, <1>11, <2>3, <3>1
    <3>2. CASE v # w
      <4>1. r \notin batch /\ r \notin StaleClaims /\ ledger'[r] = ledger[r]
        BY <1>5, <1>7, <1>8, <1>9, <1>10, <2>3, <3>2
      <4> QED BY <1>10, <2>3, <3>2, <4>1 DEF IInv, ClaimsAreBacked, Holds
    <3> QED BY <3>1, <3>2
  <2> QED BY <2>1, <2>2, <2>3 DEF ClaimsAreBacked, Holds
<1>14. AnswersStayTrue'
  <2> SUFFICES ASSUME NEW v \in Workers
               PROVE  /\ token'[v] = Nobody => todo'[v] = {}
                      /\ \A r \in todo'[v] : ledger'[r].status # "Absent"
                      /\ flight[v] # NoFlight =>
                           /\ flight[v].row \in todo'[v]
                           /\ flight[v].answer = "stored"
                                => payload[flight[v].row] \subseteq sunk[flight[v].row]
    BY <1>2 DEF AnswersStayTrue
  <2>1. \A r \in Rows : ledger[r].status # "Absent" => ledger'[r].status # "Absent"
    BY <1>7, <1>8, <1>9
  <2>2. CASE v = w
    <3>1. flight[w] = NoFlight
      BY <1>2 DEF IInv, AnswersStayTrue
    <3>2. \A r \in batch : ledger'[r].status # "Absent"
      BY <1>3, <1>6, <1>7, <1>9
    <3> QED BY <1>5, <1>10, <1>11, <2>2, <3>1, <3>2
  <2>3. CASE v # w
    BY <1>4, <1>10, <2>1, <2>3 DEF IInv, AnswersStayTrue
  <2> QED BY <2>2, <2>3
<1>15. PublishedIsDelivered'
  BY <1>2, <1>7, <1>8, <1>9 DEF IInv, PublishedIsDelivered
<1>16. OnlyDeadLettersAreExhausted'
  BY <1>3, <1>6, <1>7, <1>8, <1>9 DEF IInv, OnlyDeadLettersAreExhausted
<1> QED BY <1>12, <1>13, <1>14, <1>15, <1>16 DEF IInv

-----------------------------------------------------------------------------
(* A worker settles one of its rows.  If it lost the claim, the row stays; *)
(* if it still has it, the row it writes must be a settled one, delivered  *)
(* if it is Published and with attempts left unless it is a dead letter.   *)
LEMMA FinishIInv ==
  ASSUME IInv, NEW w \in Workers, NEW r \in todo[w], NEW row,
         OwnedClaim(w, r) =>
           /\ row \in RowType
           /\ row.status \in {"Pending", "Published", "DeadLetter"}
           /\ row.claimedBy = Nobody
           /\ row.status = "Published" => payload[r] \subseteq sunk[r]
           /\ row.status # "DeadLetter" => row.attempts < MaxAttempts,
         CompareAndSet(w, r, row), Finish(w, r), UNCHANGED payloadVars
  PROVE  IInv'
<1>1. /\ ledger \in [Rows -> RowType]
      /\ token \in [Workers -> Tokens \cup {Nobody}]
      /\ todo \in [Workers -> SUBSET Rows]
      /\ seen \in [Workers -> [Rows -> 0..MaxAttempts]]
      /\ flight \in [Workers -> FlightType]
  BY DEF IInv, TypeOK
<1>2. r \in Rows /\ token[w] # Nobody
  BY <1>1 DEF IInv, AnswersStayTrue
<1>3. /\ UNCHANGED <<payload, corrupt, sunk, crashes>>
      /\ todo' = [todo EXCEPT ![w] = @ \ {r}]
      /\ flight' = [flight EXCEPT ![w] = NoFlight]
      /\ seen' = [seen EXCEPT ![w][r] = 0]
      /\ token' = [token EXCEPT ![w] = IF todo[w] \ {r} = {} THEN Nobody ELSE @]
  BY DEF Finish, payloadVars
<1>4. \A q \in Rows : ledger'[q] = IF q = r /\ OwnedClaim(w, r) THEN row ELSE ledger[q]
  BY <1>1, <1>2 DEF CompareAndSet
<1>5. \A v \in Workers :
        /\ v # w => /\ todo'[v] = todo[v] /\ token'[v] = token[v]
                    /\ seen'[v] = seen[v] /\ flight'[v] = flight[v]
        /\ todo'[w] = todo[w] \ {r}
        /\ flight'[w] = NoFlight
        /\ token'[w] = IF todo[w] \ {r} = {} THEN Nobody ELSE token[w]
        /\ \A q \in Rows : q # r => seen'[w][q] = seen[w][q]
  BY <1>1, <1>3
<1>6. TypeOK'
  <2>1. ledger' \in [Rows -> RowType]
    BY <1>1, <1>2 DEF CompareAndSet
  <2>2. 0 \in 0..MaxAttempts
    BY LedgerAssumption
  <2>3. /\ todo' \in [Workers -> SUBSET Rows]
        /\ token' \in [Workers -> Tokens \cup {Nobody}]
        /\ flight' \in [Workers -> FlightType]
    BY <1>1, <1>3 DEF FlightType
  <2>4. seen' \in [Workers -> [Rows -> 0..MaxAttempts]]
    BY <1>1, <1>3, <2>2
  <2> QED BY <1>3, <2>1, <2>3, <2>4 DEF IInv, TypeOK
<1>7. ClaimsAreBacked'
  <2>1. \A q \in Rows : ledger'[q].status = "InProgress" <=> ledger'[q].claimedBy # Nobody
    BY <1>4 DEF IInv, ClaimsAreBacked
  <2>2. \A u, v \in Workers : token'[u] = token'[v] /\ token'[u] # Nobody => u = v
    BY <1>5 DEF IInv, ClaimsAreBacked
  <2>3. ASSUME NEW v \in Workers, NEW q \in Rows,
               token'[v] # Nobody, ledger'[q].claimedBy = token'[v]
        PROVE  q \in todo'[v] /\ seen'[v][q] = ledger'[q].attempts
    <3>1. ledger'[q] = ledger[q] /\ token'[v] = token[v]
      BY <1>4, <1>5, <2>3
    <3>2. q \in todo[v] /\ seen[v][q] = ledger[q].attempts
      BY <2>3, <3>1 DEF IInv, ClaimsAreBacked, Holds
    <3>3. CASE v # w
      BY <1>5, <3>1, <3>2, <3>3
    <3>4. CASE v = w
      <4>1. q # r
        <5> SUFFICES ASSUME q = r PROVE FALSE
          OBVIOUS
        <5>1. ledger[r].claimedBy = token[w]
          BY <2>3, <3>1, <3>4
        <5>2. OwnedClaim(w, r)
          BY <1>2, <5>1 DEF OwnedClaim, IInv, ClaimsAreBacked
        <5> QED BY <1>4, <1>2, <2>3, <5>2
      <4> QED BY <1>5, <3>1, <3>2, <3>4, <4>1
    <3> QED BY <3>3, <3>4
  <2> QED BY <2>1, <2>2, <2>3 DEF ClaimsAreBacked, Holds
<1>8. AnswersStayTrue'
  <2> SUFFICES ASSUME NEW v \in Workers
               PROVE  /\ token'[v] = Nobody => todo'[v] = {}
                      /\ \A q \in todo'[v] : ledger'[q].status # "Absent"
                      /\ flight'[v] # NoFlight =>
                           /\ flight'[v].row \in todo'[v]
                           /\ flight'[v].answer = "stored"
                                => payload[flight'[v].row] \subseteq sunk[flight'[v].row]
    BY <1>3 DEF AnswersStayTrue
  <2>1. \A q \in Rows : ledger[q].status # "Absent" => ledger'[q].status # "Absent"
    BY <1>4
  <2>2. CASE v = w
    <3>1. flight'[v] = NoFlight /\ todo'[v] = todo[w] \ {r}
      BY <1>5, <2>2
    <3>2. token'[v] = Nobody => todo'[v] = {}
      BY <1>2, <1>5, <2>2
    <3>3. \A q \in todo'[v] : q \in Rows /\ ledger[q].status # "Absent"
      BY <1>1, <3>1 DEF IInv, AnswersStayTrue
    <3> QED BY <2>1, <3>1, <3>2, <3>3
  <2>3. CASE v # w
    <3>1. /\ todo'[v] = todo[v] /\ token'[v] = token[v]
          /\ flight'[v] = flight[v] /\ todo[v] \subseteq Rows
      BY <1>1, <1>5, <2>3
    <3> QED BY <2>1, <3>1 DEF IInv, AnswersStayTrue
  <2> QED BY <2>2, <2>3
<1>9. PublishedIsDelivered'
  BY <1>3, <1>4 DEF IInv, PublishedIsDelivered
<1>10. OnlyDeadLettersAreExhausted'
  BY <1>4 DEF IInv, OnlyDeadLettersAreExhausted
<1> QED BY <1>6, <1>7, <1>8, <1>9, <1>10 DEF IInv

(* A row a worker still owns has been tried fewer than MaxAttempts times,  *)
(* and the worker knows how often.                                         *)
LEMMA OwnedAttempt ==
  ASSUME IInv, NEW w \in Workers, NEW r \in todo[w], OwnedClaim(w, r)
  PROVE  /\ ledger[r] \in RowType
         /\ seen[w][r] = ledger[r].attempts
         /\ seen[w][r] + 1 \in 1..MaxAttempts
         /\ ledger[r].attempts < MaxAttempts
<1>1. r \in Rows /\ ledger[r] \in RowType /\ token[w] # Nobody
  BY DEF IInv, TypeOK, AnswersStayTrue
<1>2. ledger[r].attempts \in 0..MaxAttempts
  BY <1>1 DEF RowType
<1>3. seen[w][r] = ledger[r].attempts
  BY <1>1 DEF IInv, ClaimsAreBacked, Holds, OwnedClaim
<1>4. ledger[r].attempts < MaxAttempts
  BY <1>1 DEF IInv, OnlyDeadLettersAreExhausted, OwnedClaim
<1> QED BY <1>1, <1>2, <1>3, <1>4, LedgerAssumption

-----------------------------------------------------------------------------
(* processRow, case by case *)

LEMMA RejectCorruptIInv ==
  ASSUME IInv, NEW w \in Workers, NEW r \in Rows, RejectCorrupt(w, r)
  PROVE  IInv'
<1> DEFINE row == DeadRow(ledger[r], seen[w][r] + 1, "poison")
<1>1. /\ r \in todo[w] /\ CompareAndSet(w, r, row)
      /\ Finish(w, r) /\ UNCHANGED payloadVars
  BY DEF RejectCorrupt
<1>2. ASSUME OwnedClaim(w, r)
      PROVE  row \in RowType /\ row.status = "DeadLetter" /\ row.claimedBy = Nobody
  <2>1. ledger[r] \in RowType /\ seen[w][r] + 1 \in 0..MaxAttempts
    BY <1>1, <1>2, OwnedAttempt
  <2> QED BY <2>1, DeadRowType DEF Errors
<1> HIDE DEF row
<1> QED BY <1>1, <1>2, FinishIInv

LEMMA PublishEmptyIInv ==
  ASSUME IInv, NEW w \in Workers, NEW r \in Rows, PublishEmpty(w, r)
  PROVE  IInv'
<1> DEFINE row == PublishedRow(ledger[r])
<1>1. /\ r \in todo[w] /\ CompareAndSet(w, r, row)
      /\ Finish(w, r) /\ UNCHANGED payloadVars /\ payload[r] = {}
  BY DEF PublishEmpty
<1>2. ASSUME OwnedClaim(w, r)
      PROVE  /\ row \in RowType /\ row.status = "Published"
             /\ row.claimedBy = Nobody /\ row.attempts < MaxAttempts
  <2>1. ledger[r] \in RowType /\ ledger[r].attempts < MaxAttempts
    BY <1>1, <1>2, OwnedAttempt
  <2> QED BY <2>1, PublishedRowType
<1> HIDE DEF row
<1> QED BY <1>1, <1>2, FinishIInv

LEMMA SettleIInv ==
  ASSUME IInv, NEW w \in Workers, NEW r \in Rows, Settle(w, r)
  PROVE  IInv'
<1> DEFINE n == seen[w][r] + 1
           answer == flight[w].answer
           row == Outcome(ledger[r], n, answer)
<1>1. /\ flight[w].row = r /\ CompareAndSet(w, r, row)
      /\ Finish(w, r) /\ UNCHANGED payloadVars
  BY DEF Settle
<1>2. flight[w] \in [row: Rows, answer: Answers]
  BY <1>1 DEF IInv, TypeOK, FlightType, NoFlight, Rows
<1>3. flight[w] # NoFlight
  BY <1>2 DEF NoFlight, Rows
<1>4. /\ r \in todo[w] /\ answer \in Answers
      /\ answer = "stored" => payload[r] \subseteq sunk[r]
  BY <1>1, <1>2, <1>3 DEF IInv, AnswersStayTrue
<1> HIDE DEF answer
<1>5. ASSUME OwnedClaim(w, r)
      PROVE  /\ row \in RowType
             /\ row.status \in {"Pending", "Published", "DeadLetter"}
             /\ row.claimedBy = Nobody
             /\ row.status = "Published" => payload[r] \subseteq sunk[r]
             /\ row.status # "DeadLetter" => row.attempts < MaxAttempts
  <2>1. /\ ledger[r] \in RowType /\ n \in 1..MaxAttempts
        /\ ledger[r].attempts < MaxAttempts
    BY <1>4, <1>5, OwnedAttempt
  <2>2. n \in 0..MaxAttempts /\ Backoff[n] \in 0..BackoffCap
    BY <2>1, LedgerAssumption
  <2> HIDE DEF n
  <2>3. CASE answer = "stored"
    <3>1. row = PublishedRow(ledger[r])
      BY <2>3 DEF Outcome
    <3> QED BY <1>4, <2>1, <2>3, <3>1, PublishedRowType
  <2>4. CASE answer = "poison"
    <3>1. row = DeadRow(ledger[r], n, "poison")
      BY <2>4 DEF Outcome
    <3> QED BY <2>1, <2>2, <3>1, DeadRowType DEF Errors
  <2>5. CASE answer = "failed" /\ Exhausted(n)
    <3>1. row = DeadRow(ledger[r], n, "transient")
      BY <2>5 DEF Outcome
    <3> QED BY <2>1, <2>2, <3>1, DeadRowType DEF Errors
  <2>6. CASE answer = "failed" /\ ~Exhausted(n)
    <3>1. row = RetriedRow(ledger[r], n, Backoff[n])
      BY <2>6 DEF Outcome
    <3>2. n < MaxAttempts
      BY <2>1, <2>6, LedgerAssumption DEF Exhausted
    <3> QED BY <2>1, <2>2, <3>1, <3>2, RetriedRowType
  <2> QED BY <1>4, <2>3, <2>4, <2>5, <2>6 DEF Answers
<1> HIDE DEF row
<1> QED BY <1>1, <1>4, <1>5, FinishIInv

LEMMA DeliverIInv ==
  ASSUME IInv, NEW w \in Workers, NEW r \in Rows, NEW S \in SUBSET Events,
         NEW answer \in Answers, Deliver(w, r, S, answer)
  PROVE  IInv'
<1>1. /\ r \in todo[w] /\ Honest(r, S, answer) /\ S \subseteq payload[r]
      /\ sunk' = [sunk EXCEPT ![r] = @ \cup S]
      /\ flight' = [flight EXCEPT ![w] = [row |-> r, answer |-> answer]]
      /\ UNCHANGED <<ledger, payload, corrupt, token, todo, seen, crashes>>
  BY DEF Deliver
<1>2. /\ sunk \in [Rows -> SUBSET Events] /\ payload \in [Rows -> SUBSET Events]
      /\ flight \in [Workers -> FlightType] /\ todo \in [Workers -> SUBSET Rows]
  BY DEF IInv, TypeOK
<1>3. \A q \in Rows : sunk[q] \subseteq sunk'[q]
  BY <1>1, <1>2
<1>4. answer = "stored" => payload[r] \subseteq sunk'[r]
  BY <1>1, <1>2 DEF Honest
<1>5. TypeOK'
  BY <1>1, <1>2 DEF IInv, TypeOK, FlightType
<1>6. ClaimsAreBacked'
  BY <1>1 DEF IInv, ClaimsAreBacked, Holds
<1>7. AnswersStayTrue'
  <2> SUFFICES ASSUME NEW v \in Workers
               PROVE  flight'[v] # NoFlight =>
                        /\ flight'[v].row \in todo[v]
                        /\ flight'[v].answer = "stored"
                             => payload[flight'[v].row] \subseteq sunk'[flight'[v].row]
    BY <1>1 DEF IInv, AnswersStayTrue
  <2>1. CASE v = w
    <3>1. flight'[v] = [row |-> r, answer |-> answer]
      BY <1>1, <1>2, <2>1
    <3> QED BY <1>1, <1>4, <2>1, <3>1
  <2>2. CASE v # w
    <3>1. flight'[v] = flight[v]
      BY <1>1, <1>2, <2>2
    <3>2. flight[v] # NoFlight => /\ flight[v].row \in todo[v]
                                  /\ flight[v].row \in Rows
      BY <1>2 DEF IInv, AnswersStayTrue
    <3> QED BY <1>3, <3>1, <3>2 DEF IInv, AnswersStayTrue
  <2> QED BY <2>1, <2>2
<1>8. PublishedIsDelivered' /\ OnlyDeadLettersAreExhausted'
  BY <1>1, <1>3 DEF IInv, PublishedIsDelivered, OnlyDeadLettersAreExhausted
<1> QED BY <1>5, <1>6, <1>7, <1>8 DEF IInv

(* A crashed worker forgets everything; the rows it claimed stay as they   *)
(* are until their claims go stale.                                        *)
LEMMA CrashIInv ==
  ASSUME IInv, NEW w \in Workers, Crash(w)
  PROVE  IInv'
<1>1. /\ token' = [token EXCEPT ![w] = Nobody]
      /\ todo' = [todo EXCEPT ![w] = {}]
      /\ flight' = [flight EXCEPT ![w] = NoFlight]
      /\ seen' = [seen EXCEPT ![w] = [r \in Rows |-> 0]]
      /\ crashes < MaxCrashes /\ crashes' = crashes + 1
      /\ UNCHANGED <<ledger, payload, corrupt, sunk>>
  BY DEF Crash, payloadVars
<1>2. /\ token \in [Workers -> Tokens \cup {Nobody}]
      /\ todo \in [Workers -> SUBSET Rows]
      /\ seen \in [Workers -> [Rows -> 0..MaxAttempts]]
      /\ flight \in [Workers -> FlightType]
      /\ crashes \in 0..MaxCrashes
  BY DEF IInv, TypeOK
<1>3. TypeOK'
  <2>1. 0 \in 0..MaxAttempts /\ crashes' \in 0..MaxCrashes
    BY <1>1, <1>2, LedgerAssumption
  <2>2. seen' \in [Workers -> [Rows -> 0..MaxAttempts]]
    BY <1>1, <1>2, <2>1
  <2>3. flight' \in [Workers -> FlightType]
    BY <1>1, <1>2 DEF FlightType
  <2> QED BY <1>1, <1>2, <2>1, <2>2, <2>3 DEF IInv, TypeOK
<1>4. ClaimsAreBacked'
  BY <1>1, <1>2 DEF IInv, ClaimsAreBacked, Holds
<1>5. AnswersStayTrue'
  BY <1>1, <1>2 DEF IInv, AnswersStayTrue
<1>6. PublishedIsDelivered' /\ OnlyDeadLettersAreExhausted'
  BY <1>1 DEF IInv, PublishedIsDelivered, OnlyDeadLettersAreExhausted
<1> QED BY <1>3, <1>4, <1>5, <1>6 DEF IInv

-----------------------------------------------------------------------------
(* Replays put dead letters, and nothing else, back in the queue. *)
LEMMA ReplayIInv ==
  ASSUME IInv, NEW D \in SUBSET Rows,
         \A r \in D : ledger[r].status = "DeadLetter",
         ledger' = [r \in Rows |-> IF r \in D THEN Requeued(ledger[r]) ELSE ledger[r]],
         UNCHANGED payloadVars, UNCHANGED workerVars
  PROVE  IInv'
<1>1. /\ ledger \in [Rows -> RowType]
      /\ UNCHANGED <<payload, corrupt, sunk, token, todo, seen, flight, crashes>>
  BY DEF IInv, TypeOK, payloadVars, workerVars
<1>2. \A r \in Rows :
        IF r \in D
        THEN /\ ledger'[r] \in RowType /\ ledger'[r].status = "Pending"
             /\ ledger'[r].claimedBy = Nobody /\ ledger'[r].attempts = 0
             /\ ledger[r].status = "DeadLetter"
        ELSE ledger'[r] = ledger[r]
  BY <1>1, RequeuedType
<1>3. TypeOK'
  <2>1. ledger' \in [Rows -> RowType]
    BY <1>1, <1>2
  <2> QED BY <1>1, <2>1 DEF IInv, TypeOK
<1>4. ClaimsAreBacked'
  BY <1>1, <1>2 DEF IInv, ClaimsAreBacked, Holds
<1>5. AnswersStayTrue'
  BY <1>1, <1>2 DEF IInv, AnswersStayTrue, TypeOK
<1>6. PublishedIsDelivered' /\ OnlyDeadLettersAreExhausted'
  BY <1>1, <1>2, LedgerAssumption
  DEF IInv, PublishedIsDelivered, OnlyDeadLettersAreExhausted
<1> QED BY <1>3, <1>4, <1>5, <1>6 DEF IInv

LEMMA RequeueIInv ==
  ASSUME IInv, NEW ids \in SUBSET Rows, Requeue(ids)
  PROVE  IInv'
<1> DEFINE D == {r \in ids : Replayable(r)}
<1>1. ledger' = [r \in Rows |-> IF r \in D THEN Requeued(ledger[r]) ELSE ledger[r]]
  BY DEF Requeue
<1>2. D \in SUBSET Rows /\ \A r \in D : ledger[r].status = "DeadLetter"
  BY DEF Replayable
<1> HIDE DEF D
<1> QED BY <1>1, <1>2, ReplayIInv DEF Requeue

LEMMA SweepIInv == ASSUME IInv, Sweep PROVE IInv'
<1>1. /\ TransientDead \in SUBSET Rows
      /\ \A r \in TransientDead : ledger[r].status = "DeadLetter"
  BY DEF TransientDead
<1> QED BY <1>1, ReplayIInv DEF Sweep

(* The clock only moves the distances. *)
LEMMA TickIInv == ASSUME IInv, Tick PROVE IInv'
<1>1. /\ ledger \in [Rows -> RowType]
      /\ ledger' = [r \in Rows |-> Aged(ledger[r])]
      /\ UNCHANGED <<payload, corrupt, sunk, token, todo, seen, flight, crashes>>
  BY DEF IInv, TypeOK, Tick, payloadVars, workerVars
<1>2. \A r \in Rows : /\ ledger'[r] \in RowType
                      /\ ledger'[r].status = ledger[r].status
                      /\ ledger'[r].claimedBy = ledger[r].claimedBy
                      /\ ledger'[r].attempts = ledger[r].attempts
  BY <1>1, AgedType
<1>3. TypeOK'
  <2>1. ledger' \in [Rows -> RowType]
    BY <1>1, <1>2
  <2> QED BY <1>1, <2>1 DEF IInv, TypeOK
<1>4. ClaimsAreBacked'
  BY <1>1, <1>2 DEF IInv, ClaimsAreBacked, Holds
<1>5. AnswersStayTrue'
  BY <1>1, <1>2 DEF IInv, AnswersStayTrue, TypeOK
<1>6. PublishedIsDelivered' /\ OnlyDeadLettersAreExhausted'
  BY <1>1, <1>2 DEF IInv, PublishedIsDelivered, OnlyDeadLettersAreExhausted
<1> QED BY <1>3, <1>4, <1>5, <1>6 DEF IInv

-----------------------------------------------------------------------------
(* Every step of the ledger preserves the inductive invariant. *)
LEMMA NextIInv == IInv /\ [Next]_vars => IInv'
<1> SUFFICES ASSUME IInv, [Next]_vars PROVE IInv'
  OBVIOUS
<1>1. ASSUME NEW r \in Rows, Stage(r) PROVE IInv'
  BY <1>1, StageIInv
<1>2. ASSUME NEW w \in Workers, Claim(w) PROVE IInv'
  BY <1>2, ClaimIInv
<1>3. ASSUME NEW w \in Workers, Work(w) PROVE IInv'
  BY <1>3, RejectCorruptIInv, PublishEmptyIInv, DeliverIInv, SettleIInv DEF Work
<1>4. ASSUME NEW w \in Workers, Crash(w) PROVE IInv'
  BY <1>4, CrashIInv
<1>5. ASSUME NEW ids \in SUBSET Rows, Requeue(ids) PROVE IInv'
  BY <1>5, RequeueIInv
<1>6. CASE Sweep
  BY <1>6, SweepIInv
<1>7. CASE Tick
  BY <1>7, TickIInv
<1>8. CASE UNCHANGED vars
  BY <1>8 DEF vars, IInv, TypeOK, ClaimsAreBacked, Holds, AnswersStayTrue,
              PublishedIsDelivered, OnlyDeadLettersAreExhausted
<1> QED BY <1>1, <1>2, <1>3, <1>4, <1>5, <1>6, <1>7, <1>8 DEF Next

(* The inductive invariant holds in every reachable state. *)
THEOREM LedgerInvariant == Spec => []IInv
BY InitIInv, NextIInv, PTL DEF Spec

(* Every variable keeps its type: attempts never pass MaxAttempts, delays  *)
(* never pass the cap.                                                     *)
THEOREM LedgerTypes == Spec => []TypeOK
<1>1. IInv => TypeOK
  BY DEF IInv
<1> QED BY <1>1, LedgerInvariant, PTL

(* A token on a row is backed by exactly one live poll or by none, however *)
(* many workers drain the ledger.                                          *)
THEOREM ClaimsStayExclusive == Spec => []ClaimsAreBacked
<1>1. IInv => ClaimsAreBacked
  BY DEF IInv
<1> QED BY <1>1, LedgerInvariant, PTL

(* No published revenue event is missing from the sink. *)
THEOREM NothingIsLost == Spec => []PublishedIsDelivered
<1>1. IInv => PublishedIsDelivered
  BY DEF IInv
<1> QED BY <1>1, LedgerInvariant, PTL

(* Only dead letters are out of attempts. *)
THEOREM QueuedRowsCanBeTried == Spec => []OnlyDeadLettersAreExhausted
<1>1. IInv => OnlyDeadLettersAreExhausted
  BY DEF IInv
<1> QED BY <1>1, LedgerInvariant, PTL

(* An answer of the sink is still true when it is written to the ledger,   *)
(* whatever happened to the row since.                                     *)
THEOREM AnswersOutliveTheWait == Spec => []AnswersStayTrue
<1>1. IInv => AnswersStayTrue
  BY DEF IInv
<1> QED BY <1>1, LedgerInvariant, PTL

-----------------------------------------------------------------------------
(* The ledger implements the outbox *)

phaseOf == [r \in Rows |-> Phase(ledger[r].status)]

LEMMA PhaseOfStatus ==
  /\ Phase("Absent") = "absent"
  /\ Phase("Pending") = "queued"
  /\ Phase("InProgress") = "queued"
  /\ Phase("Published") = "published"
  /\ Phase("DeadLetter") = "buried"
BY DEF Phase

(* A step that keeps every status is a stutter of the outbox. *)
LEMMA SamePhase ==
  ASSUME \A r \in Rows : ledger'[r].status = ledger[r].status
                         \/ {ledger[r].status, ledger'[r].status}
                              \subseteq {"Pending", "InProgress"}
  PROVE  phaseOf' = phaseOf
<1>1. \A r \in Rows : Phase(ledger'[r].status) = Phase(ledger[r].status)
  BY DEF Phase
<1> QED BY <1>1 DEF phaseOf

(* Settling a row publishes it, buries it, queues it again, or, when the   *)
(* claim is gone, does nothing.                                            *)
LEMMA FinishOutbox ==
  ASSUME IInv, NEW w \in Workers, NEW r \in todo[w], NEW row,
         OwnedClaim(w, r) =>
           /\ row.status \in {"Pending", "Published", "DeadLetter"}
           /\ row.status = "Published" => payload[r] \subseteq sunk[r],
         CompareAndSet(w, r, row), UNCHANGED payloadVars
  PROVE  [Outbox!Next]_(Outbox!vars)
<1>1. /\ r \in Rows /\ ledger \in [Rows -> RowType]
      /\ UNCHANGED <<payload, sunk>>
  BY DEF IInv, TypeOK, payloadVars
<1>2. CASE ~OwnedClaim(w, r)
  <2>1. ledger' = ledger
    BY <1>2 DEF CompareAndSet
  <2> QED BY <1>1, <2>1 DEF Outbox!vars
<1>3. CASE OwnedClaim(w, r)
  <2>1. \A q \in Rows : ledger'[q] = IF q = r THEN row ELSE ledger[q]
    BY <1>1, <1>3 DEF CompareAndSet
  <2>2. ledger[r].status = "InProgress"
    BY <1>3 DEF OwnedClaim
  <2>3. phaseOf[r] = "queued"
    BY <1>1, <2>2 DEF phaseOf, Phase
  <2>4. phaseOf' = [phaseOf EXCEPT ![r] = Phase(row.status)]
    BY <1>1, <2>1 DEF phaseOf
  <2>5. CASE row.status = "Pending"
    <3>1. phaseOf' = phaseOf
      BY <2>1, <2>2, <2>5, SamePhase
    <3> QED BY <1>1, <3>1 DEF Outbox!vars, phaseOf
  <2>6. CASE row.status = "Published"
    <3>1. Phase(row.status) = "published"
      BY <2>6 DEF Phase
    <3>2. payload[r] \subseteq sunk[r]
      BY <1>3, <2>6
    <3>3. Outbox!Publish(r)
      BY <1>1, <2>3, <2>4, <3>1, <3>2 DEF Outbox!Publish, phaseOf
    <3> QED BY <1>1, <3>3 DEF Outbox!Next, Outbox!Rows, Rows
  <2>7. CASE row.status = "DeadLetter"
    <3>1. Phase(row.status) = "buried"
      BY <2>7 DEF Phase
    <3>2. Outbox!Bury(r)
      BY <1>1, <2>3, <2>4, <3>1 DEF Outbox!Bury, phaseOf
    <3> QED BY <1>1, <3>2 DEF Outbox!Next, Outbox!Rows, Rows
  <2> QED BY <1>3, <2>5, <2>6, <2>7
<1> QED BY <1>2, <1>3

(* The three ways processRow settles a row. *)
LEMMA WorkOutbox ==
  ASSUME IInv, NEW w \in Workers, Work(w)
  PROVE  [Outbox!Next]_(Outbox!vars)
<1>1. PICK r \in Rows :
        \/ RejectCorrupt(w, r)
        \/ PublishEmpty(w, r)
        \/ \E S \in SUBSET Events, answer \in Answers : Deliver(w, r, S, answer)
        \/ Settle(w, r)
  BY DEF Work
<1>2. CASE RejectCorrupt(w, r)
  <2> DEFINE row == DeadRow(ledger[r], seen[w][r] + 1, "poison")
  <2>1. r \in todo[w] /\ CompareAndSet(w, r, row) /\ UNCHANGED payloadVars
    BY <1>2 DEF RejectCorrupt
  <2>2. OwnedClaim(w, r) => row.status = "DeadLetter"
    <3> SUFFICES ASSUME OwnedClaim(w, r) PROVE row.status = "DeadLetter"
      OBVIOUS
    <3>1. ledger[r] \in RowType /\ seen[w][r] + 1 \in 0..MaxAttempts
      BY <2>1, OwnedAttempt
    <3> QED BY <3>1, DeadRowType DEF Errors
  <2> HIDE DEF row
  <2> QED BY <2>1, <2>2, FinishOutbox
<1>3. CASE PublishEmpty(w, r)
  <2> DEFINE row == PublishedRow(ledger[r])
  <2>1. /\ r \in todo[w] /\ CompareAndSet(w, r, row) /\ UNCHANGED payloadVars
        /\ payload[r] = {}
    BY <1>3 DEF PublishEmpty
  <2>2. ledger[r] \in RowType
    BY DEF IInv, TypeOK
  <2>3. row.status = "Published"
    BY <2>2, PublishedRowType
  <2> HIDE DEF row
  <2> QED BY <2>1, <2>3, FinishOutbox
<1>4. CASE \E S \in SUBSET Events, answer \in Answers : Deliver(w, r, S, answer)
  <2>1. PICK S \in SUBSET Events, answer \in Answers : Deliver(w, r, S, answer)
    BY <1>4
  <2>2. /\ r \in todo[w] /\ S \in SUBSET payload[r]
        /\ sunk' = [sunk EXCEPT ![r] = @ \cup S]
        /\ UNCHANGED <<ledger, payload>>
    BY <2>1 DEF Deliver
  <2>3. phaseOf[r] # "absent"
    <3>1. ledger[r].status \in Statuses \ {"Absent"}
      BY <2>2 DEF IInv, TypeOK, RowType, AnswersStayTrue
    <3> QED BY <3>1 DEF phaseOf, Phase, Statuses
  <2>4. Outbox!Accept(r)
    BY <2>2, <2>3 DEF Outbox!Accept, phaseOf
  <2> QED BY <2>4 DEF Outbox!Next, Outbox!Rows, Rows
<1>5. CASE Settle(w, r)
  <2> DEFINE n == seen[w][r] + 1
             answer == flight[w].answer
             row == Outcome(ledger[r], n, answer)
  <2>1. flight[w].row = r /\ CompareAndSet(w, r, row) /\ UNCHANGED payloadVars
    BY <1>5 DEF Settle
  <2>2. flight[w] \in [row: Rows, answer: Answers]
    BY <2>1 DEF IInv, TypeOK, FlightType, NoFlight, Rows
  <2>3. flight[w] # NoFlight
    BY <2>2 DEF NoFlight, Rows
  <2>4. /\ r \in todo[w] /\ answer \in Answers
        /\ answer = "stored" => payload[r] \subseteq sunk[r]
    BY <2>1, <2>2, <2>3 DEF IInv, AnswersStayTrue
  <2> HIDE DEF answer
  <2>5. OwnedClaim(w, r) =>
          /\ row.status \in {"Pending", "Published", "DeadLetter"}
          /\ row.status = "Published" => payload[r] \subseteq sunk[r]
    <3> SUFFICES ASSUME OwnedClaim(w, r)
                 PROVE  /\ row.status \in {"Pending", "Published", "DeadLetter"}
                        /\ row.status = "Published" => answer = "stored"
      BY <2>4
    <3>1. ledger[r] \in RowType /\ n \in 0..MaxAttempts /\ Backoff[n] \in 0..BackoffCap
      <4>1. ledger[r] \in RowType /\ n \in 1..MaxAttempts
        BY <2>4, OwnedAttempt
      <4> QED BY <4>1, LedgerAssumption
    <3> HIDE DEF n
    <3>2. answer = "poison" => row.status = "DeadLetter"
      BY <3>1, DeadRowType DEF Outcome, Errors
    <3>3. answer = "failed" /\ Exhausted(n) => row.status = "DeadLetter"
      BY <3>1, DeadRowType DEF Outcome, Errors
    <3>4. answer = "failed" /\ ~Exhausted(n) => row.status = "Pending"
      BY <3>1, RetriedRowType DEF Outcome
    <3>5. answer = "stored" => row.status = "Published"
      BY <3>1, PublishedRowType DEF Outcome
    <3> QED BY <2>4, <3>2, <3>3, <3>4, <3>5 DEF Answers
  <2> HIDE DEF row
  <2> QED BY <2>1, <2>4, <2>5, FinishOutbox
<1> QED BY <1>1, <1>2, <1>3, <1>4, <1>5

(* A replay revives the dead letters it selects. *)
LEMMA ReplayOutbox ==
  ASSUME IInv, NEW D \in SUBSET Rows,
         \A r \in D : ledger[r].status = "DeadLetter",
         ledger' = [r \in Rows |-> IF r \in D THEN Requeued(ledger[r]) ELSE ledger[r]],
         UNCHANGED payloadVars
  PROVE  Outbox!Next
<1>1. UNCHANGED <<payload, sunk>> /\ ledger \in [Rows -> RowType]
  BY DEF IInv, TypeOK, payloadVars
<1>2. \A r \in Rows : ledger'[r].status = IF r \in D THEN "Pending" ELSE ledger[r].status
  BY <1>1, RequeuedType
<1>3. \A r \in D : phaseOf[r] = "buried"
  BY DEF phaseOf, Phase
<1>4. phaseOf' = [r \in Rows |-> IF r \in D THEN "queued" ELSE phaseOf[r]]
  <2>1. \A r \in Rows : Phase(ledger'[r].status)
                          = IF r \in D THEN "queued" ELSE Phase(ledger[r].status)
    BY <1>2, PhaseOfStatus
  <2> QED BY <2>1 DEF phaseOf
<1>5. Outbox!Revive(D)
  BY <1>1, <1>3, <1>4 DEF Outbox!Revive, Outbox!Rows, Rows, phaseOf
<1> QED BY <1>5 DEF Outbox!Next, Outbox!Rows, Rows

(* Every step of the ledger is a step of the outbox, or a stutter. *)
LEMMA NextOutbox == IInv /\ [Next]_vars => [Outbox!Next]_(Outbox!vars)
<1> SUFFICES ASSUME IInv, [Next]_vars PROVE [Outbox!Next]_(Outbox!vars)
  OBVIOUS
<1>0. ledger \in [Rows -> RowType]
  BY DEF IInv, TypeOK
<1>1. ASSUME NEW r \in Rows, Stage(r) PROVE Outbox!Next
  <2>1. /\ ledger[r].status = "Absent"
        /\ ledger' = [ledger EXCEPT ![r].status = "Pending"]
        /\ \E S \in SUBSET Events : payload' = [payload EXCEPT ![r] = S]
        /\ UNCHANGED sunk
    BY <1>1 DEF Stage
  <2>2. \A q \in Rows : ledger'[q].status = IF q = r THEN "Pending" ELSE ledger[q].status
    BY <1>0, <2>1 DEF RowType
  <2>3. phaseOf[r] = "absent" /\ phaseOf' = [phaseOf EXCEPT ![r] = "queued"]
    <3>1. \A q \in Rows : Phase(ledger'[q].status)
                            = IF q = r THEN "queued" ELSE Phase(ledger[q].status)
      BY <2>2, PhaseOfStatus
    <3> QED BY <2>1, <3>1, PhaseOfStatus DEF phaseOf
  <2>4. Outbox!Enqueue(r)
    BY <2>1, <2>3 DEF Outbox!Enqueue, phaseOf
  <2> QED BY <2>4 DEF Outbox!Next, Outbox!Rows, Rows
<1>2. ASSUME NEW w \in Workers, Claim(w) PROVE UNCHANGED Outbox!vars
  <2> DEFINE batch == Oldest(Due)
  <2>1. PICK t \in Tokens :
          ledger' = [r \in Rows |->
                       IF r \in batch THEN Claimed(ledger[r], t)
                       ELSE IF r \in StaleClaims THEN Released(ledger[r])
                       ELSE ledger[r]]
    BY <1>2 DEF Claim, FreshTokens
  <2>2. /\ \A r \in batch : ledger[r].status \in {"Pending", "InProgress"}
        /\ \A r \in StaleClaims : ledger[r].status = "InProgress"
    BY DEF Oldest, Due, StaleClaims
  <2> HIDE DEF batch
  <2>3. phaseOf' = phaseOf
    <3>1. \A r \in Rows :
            \/ ledger'[r].status = ledger[r].status
            \/ {ledger[r].status, ledger'[r].status} \subseteq {"Pending", "InProgress"}
      BY <1>0, <2>1, <2>2, ClaimedType, ReleasedType
    <3> QED BY <3>1, SamePhase
  <2> QED BY <1>2, <2>3 DEF Claim, payloadVars, Outbox!vars, phaseOf
<1>3. ASSUME NEW w \in Workers, Work(w) PROVE [Outbox!Next]_(Outbox!vars)
  BY <1>3, WorkOutbox
<1>4. ASSUME NEW w \in Workers, Crash(w) PROVE UNCHANGED Outbox!vars
  BY <1>4 DEF Crash, payloadVars, Outbox!vars
<1>5. ASSUME NEW ids \in SUBSET Rows, Requeue(ids) PROVE Outbox!Next
  <2> DEFINE D == {r \in ids : Replayable(r)}
  <2>1. /\ D \in SUBSET Rows /\ \A r \in D : ledger[r].status = "DeadLetter"
        /\ ledger' = [r \in Rows |-> IF r \in D THEN Requeued(ledger[r]) ELSE ledger[r]]
        /\ UNCHANGED payloadVars
    BY <1>5 DEF Replayable, Requeue
  <2> HIDE DEF D
  <2> QED BY <2>1, ReplayOutbox
<1>6. CASE Sweep
  <2>1. /\ TransientDead \in SUBSET Rows
        /\ \A r \in TransientDead : ledger[r].status = "DeadLetter"
    BY DEF TransientDead
  <2> QED BY <1>6, <2>1, ReplayOutbox DEF Sweep
<1>7. CASE Tick
  <2>1. \A r \in Rows : ledger'[r].status = ledger[r].status
    BY <1>0, <1>7, AgedType DEF Tick
  <2>2. phaseOf' = phaseOf
    BY <2>1, SamePhase
  <2> QED BY <1>7, <2>2 DEF Tick, payloadVars, Outbox!vars, phaseOf
<1>8. CASE UNCHANGED vars
  BY <1>8 DEF vars, Outbox!vars
<1> QED BY <1>1, <1>2, <1>3, <1>4, <1>5, <1>6, <1>7, <1>8 DEF Next

(* The ledger table with its workers, crashes, stale claims and replays    *)
(* implements the abstract outbox: at-least-once delivery, publication     *)
(* once and only after the sink has every event.                           *)
THEOREM LedgerImplementsOutbox == Spec => ImplementsOutbox
<1>1. Init => Outbox!Init
  BY DEF Init, AbsentRow, Phase, Outbox!Init, Outbox!Rows, Rows
<1>2. IInv /\ [Next]_vars => [Outbox!Next]_(Outbox!vars)
  BY NextOutbox
<1> QED BY <1>1, <1>2, LedgerInvariant, PTL DEF Spec, ImplementsOutbox, Outbox!Spec

-----------------------------------------------------------------------------
(* What one step may do to a row of the ledger.  The action properties     *)
(* follow from the list of ways in which a row can change at all.          *)

Before(r) == <<ledger[r].status, ledger[r].claimedBy, ledger[r].attempts>>
After(r) == <<ledger'[r].status, ledger'[r].claimedBy, ledger'[r].attempts>>

Untouched(r) == After(r) = Before(r)

Created(r) == ledger[r].status = "Absent" /\ ledger'[r].attempts = ledger[r].attempts

TakenOrReleased(r) ==
  /\ ledger[r].status = "InProgress" => ledger[r].claimAge = StaleAfter
  /\ ledger'[r].attempts = ledger[r].attempts

SettledBy(w, r) ==
  /\ Holds(w, r) /\ r \in todo[w] /\ r \notin todo'[w]
  /\ ledger[r].status = "InProgress"
  /\ \/ ledger'[r].attempts = ledger[r].attempts
     \/ /\ ledger'[r].attempts = ledger[r].attempts + 1
        /\ ledger'[r].status \in {"Pending", "DeadLetter"}

Replayed(r) == /\ ledger[r].status = "DeadLetter"
               /\ ledger'[r].status = "Pending" /\ ledger'[r].attempts = 0

RowStep(r) == \/ Untouched(r)
              \/ Created(r)
              \/ TakenOrReleased(r)
              \/ \E w \in Workers : SettledBy(w, r)
              \/ Replayed(r)

-----------------------------------------------------------------------------
(* A worker that finishes a row settles it if it still holds the claim,    *)
(* and leaves every row alone if it does not.                              *)
LEMMA FinishRowStep ==
  ASSUME IInv, NEW w \in Workers, NEW r \in todo[w], NEW row,
         OwnedClaim(w, r) =>
           \/ row.attempts = ledger[r].attempts
           \/ /\ row.attempts = ledger[r].attempts + 1
              /\ row.status \in {"Pending", "DeadLetter"},
         CompareAndSet(w, r, row), Finish(w, r)
  PROVE  \A q \in Rows : RowStep(q)
<1>1. /\ r \in Rows /\ token[w] # Nobody
      /\ ledger \in [Rows -> RowType] /\ todo \in [Workers -> SUBSET Rows]
  BY DEF IInv, TypeOK, AnswersStayTrue
<1>2. CASE ~OwnedClaim(w, r)
  BY <1>2 DEF CompareAndSet, RowStep, Untouched, Before, After
<1>3. CASE OwnedClaim(w, r)
  <2>1. \A q \in Rows : ledger'[q] = IF q = r THEN row ELSE ledger[q]
    BY <1>1, <1>3 DEF CompareAndSet
  <2>2. r \notin todo'[w]
    BY <1>1 DEF Finish
  <2>3. SettledBy(w, r)
    BY <1>1, <1>3, <2>1, <2>2 DEF SettledBy, OwnedClaim, Holds
  <2> QED BY <2>1, <2>3 DEF RowStep, Untouched, Before, After
<1> QED BY <1>2, <1>3

(* The branches of processRow. *)
LEMMA WorkRowStep ==
  ASSUME IInv, NEW w \in Workers, Work(w)
  PROVE  \A q \in Rows : RowStep(q)
<1>1. PICK r \in Rows :
        \/ RejectCorrupt(w, r)
        \/ PublishEmpty(w, r)
        \/ \E S \in SUBSET Events, answer \in Answers : Deliver(w, r, S, answer)
        \/ Settle(w, r)
  BY DEF Work
<1>2. CASE RejectCorrupt(w, r)
  <2> DEFINE n == seen[w][r] + 1
             row == DeadRow(ledger[r], n, "poison")
  <2>1. r \in todo[w] /\ CompareAndSet(w, r, row) /\ Finish(w, r)
    BY <1>2 DEF RejectCorrupt
  <2>2. ASSUME OwnedClaim(w, r)
        PROVE  row.attempts = ledger[r].attempts + 1 /\ row.status = "DeadLetter"
    <3>1. /\ ledger[r] \in RowType /\ n \in 0..MaxAttempts
          /\ n = ledger[r].attempts + 1
      BY <2>1, <2>2, OwnedAttempt
    <3> HIDE DEF n
    <3> QED BY <3>1, DeadRowType DEF Errors
  <2> HIDE DEF row
  <2> QED BY <2>1, <2>2, FinishRowStep
<1>3. CASE PublishEmpty(w, r)
  <2> DEFINE row == PublishedRow(ledger[r])
  <2>1. r \in todo[w] /\ CompareAndSet(w, r, row) /\ Finish(w, r)
    BY <1>3 DEF PublishEmpty
  <2>2. row.attempts = ledger[r].attempts
    BY PublishedRowType DEF IInv, TypeOK
  <2> HIDE DEF row
  <2> QED BY <2>1, <2>2, FinishRowStep
<1>4. CASE \E S \in SUBSET Events, answer \in Answers : Deliver(w, r, S, answer)
  BY <1>4 DEF Deliver, RowStep, Untouched, Before, After
<1>5. CASE Settle(w, r)
  <2> DEFINE n == seen[w][r] + 1
             answer == flight[w].answer
             row == Outcome(ledger[r], n, answer)
  <2>1. flight[w].row = r /\ CompareAndSet(w, r, row) /\ Finish(w, r)
    BY <1>5 DEF Settle
  <2>2. flight[w] \in [row: Rows, answer: Answers]
    BY <2>1 DEF IInv, TypeOK, FlightType, NoFlight, Rows
  <2>3. flight[w] # NoFlight
    BY <2>2 DEF NoFlight, Rows
  <2>4. r \in todo[w] /\ answer \in Answers
    BY <2>1, <2>2, <2>3 DEF IInv, AnswersStayTrue
  <2> HIDE DEF answer
  <2>5. ASSUME OwnedClaim(w, r)
        PROVE  \/ row.attempts = ledger[r].attempts
               \/ /\ row.attempts = ledger[r].attempts + 1
                  /\ row.status \in {"Pending", "DeadLetter"}
    <3>1. /\ ledger[r] \in RowType /\ n \in 1..MaxAttempts
          /\ n = ledger[r].attempts + 1
      BY <2>4, <2>5, OwnedAttempt
    <3>2. n \in 0..MaxAttempts /\ Backoff[n] \in 0..BackoffCap
      BY <3>1, LedgerAssumption
    <3> HIDE DEF n
    <3>3. CASE answer = "stored"
      BY <3>1, <3>3, PublishedRowType DEF Outcome
    <3>4. CASE answer = "poison"
      BY <3>1, <3>2, <3>4, DeadRowType DEF Outcome, Errors
    <3>5. CASE answer = "failed" /\ Exhausted(n)
      BY <3>1, <3>2, <3>5, DeadRowType DEF Outcome, Errors
    <3>6. CASE answer = "failed" /\ ~Exhausted(n)
      BY <3>1, <3>2, <3>6, RetriedRowType DEF Outcome
    <3> QED BY <2>4, <3>3, <3>4, <3>5, <3>6 DEF Answers
  <2> HIDE DEF row
  <2> QED BY <2>1, <2>4, <2>5, FinishRowStep
<1> QED BY <1>1, <1>2, <1>3, <1>4, <1>5

(* A replay touches dead letters only. *)
LEMMA ReplayRowStep ==
  ASSUME IInv, NEW D \in SUBSET Rows,
         \A r \in D : ledger[r].status = "DeadLetter",
         ledger' = [r \in Rows |-> IF r \in D THEN Requeued(ledger[r]) ELSE ledger[r]]
  PROVE  \A q \in Rows : RowStep(q)
<1>1. \A r \in D : Replayed(r)
  BY RequeuedType DEF IInv, TypeOK, Replayed
<1> QED BY <1>1 DEF RowStep, Untouched, Before, After

(* Every row changes in one of the five ways. *)
LEMMA NextRowStep == IInv /\ [Next]_vars => \A q \in Rows : RowStep(q)
<1> SUFFICES ASSUME IInv, [Next]_vars PROVE \A q \in Rows : RowStep(q)
  OBVIOUS
<1>0. ledger \in [Rows -> RowType]
  BY DEF IInv, TypeOK
<1>1. ASSUME NEW r \in Rows, Stage(r) PROVE \A q \in Rows : RowStep(q)
  <2>1. /\ ledger[r].status = "Absent"
        /\ \A q \in Rows \ {r} : ledger'[q] = ledger[q]
        /\ ledger'[r].attempts = ledger[r].attempts
    BY <1>0, <1>1 DEF Stage, RowType
  <2> QED BY <2>1 DEF RowStep, Untouched, Before, After, Created
<1>2. ASSUME NEW w \in Workers, Claim(w) PROVE \A q \in Rows : RowStep(q)
  <2> DEFINE batch == Oldest(Due)
  <2>1. PICK t \in Tokens :
          ledger' = [r \in Rows |->
                       IF r \in batch THEN Claimed(ledger[r], t)
                       ELSE IF r \in StaleClaims THEN Released(ledger[r])
                       ELSE ledger[r]]
    BY <1>2 DEF Claim, FreshTokens
  <2>2. \A r \in batch \cup StaleClaims :
          ledger[r].status = "InProgress" => ledger[r].claimAge = StaleAfter
    BY DEF Oldest, Due, StaleClaims
  <2> HIDE DEF batch
  <2>3. \A r \in Rows : r \in batch \cup StaleClaims => TakenOrReleased(r)
    BY <1>0, <2>1, <2>2, ClaimedType, ReleasedType DEF TakenOrReleased
  <2>4. \A r \in Rows : r \notin batch \cup StaleClaims => Untouched(r)
    BY <2>1 DEF Untouched, Before, After
  <2> QED BY <2>3, <2>4 DEF RowStep
<1>3. ASSUME NEW w \in Workers, Work(w) PROVE \A q \in Rows : RowStep(q)
  BY <1>3, WorkRowStep
<1>4. ASSUME NEW w \in Workers, Crash(w) PROVE \A q \in Rows : RowStep(q)
  BY <1>4 DEF Crash, RowStep, Untouched, Before, After
<1>5. ASSUME NEW ids \in SUBSET Rows, Requeue(ids) PROVE \A q \in Rows : RowStep(q)
  <2> DEFINE D == {r \in ids : Replayable(r)}
  <2>1. /\ D \in SUBSET Rows /\ \A r \in D : ledger[r].status = "DeadLetter"
        /\ ledger' = [r \in Rows |-> IF r \in D THEN Requeued(ledger[r]) ELSE ledger[r]]
    BY <1>5 DEF Replayable, Requeue
  <2> HIDE DEF D
  <2> QED BY <2>1, ReplayRowStep
<1>6. CASE Sweep
  <2>1. /\ TransientDead \in SUBSET Rows
        /\ \A r \in TransientDead : ledger[r].status = "DeadLetter"
    BY DEF TransientDead
  <2> QED BY <1>6, <2>1, ReplayRowStep DEF Sweep
<1>7. CASE Tick
  <2>1. \A r \in Rows : Untouched(r)
    BY <1>0, <1>7, AgedType DEF Tick, Untouched, Before, After
  <2> QED BY <2>1 DEF RowStep
<1>8. CASE UNCHANGED vars
  BY <1>8 DEF vars, RowStep, Untouched, Before, After
<1> QED BY <1>1, <1>2, <1>3, <1>4, <1>5, <1>6, <1>7, <1>8 DEF Next

-----------------------------------------------------------------------------
(* However many drains overlap, a claimed row leaves its claim only        *)
(* through the poll that holds it or after the stale-claim time.           *)
THEOREM ClaimsAreSettledByTheirOwner == Spec => OnlyTheClaimantSettles
<1> DEFINE A == \A r \in Rows :
                  /\ ledger[r].status = "InProgress"
                  /\ <<ledger'[r].status, ledger'[r].claimedBy>>
                       # <<ledger[r].status, ledger[r].claimedBy>>
                  => \/ ledger[r].claimAge = StaleAfter
                     \/ \E w \in Workers : /\ Holds(w, r)
                                           /\ r \in todo[w] /\ r \notin todo'[w]
<1>1. (\A r \in Rows : RowStep(r)) => A
  BY DEF RowStep, Untouched, Before, After, Created, TakenOrReleased, SettledBy, Replayed
<1>2. IInv /\ [Next]_vars => [A]_vars
  BY <1>1, NextRowStep
<1> QED BY <1>2, LedgerInvariant, PTL DEF Spec, OnlyTheClaimantSettles

(* No stale worker or replay rewinds or skips a failed attempt.            *)
THEOREM AttemptsAreNeverRewound == Spec => AttemptsCountFailures
<1> DEFINE A == \A r \in Rows :
                  LET before == ledger[r]
                      after == ledger'[r] IN
                  before.attempts # after.attempts =>
                    \/ /\ after.attempts = before.attempts + 1
                       /\ before.status = "InProgress"
                       /\ after.status \in {"Pending", "DeadLetter"}
                    \/ /\ after.attempts = 0
                       /\ before.status = "DeadLetter" /\ after.status = "Pending"
<1>1. (\A r \in Rows : RowStep(r)) => A
  BY DEF RowStep, Untouched, Before, After, Created, TakenOrReleased, SettledBy, Replayed
<1>2. IInv /\ [Next]_vars => [A]_vars
  BY <1>1, NextRowStep
<1> QED BY <1>2, LedgerInvariant, PTL DEF Spec, AttemptsCountFailures

-----------------------------------------------------------------------------
(* Corrupt rows: lastError, the only thing the sweep sees, is backed by    *)
(* the payload.  A corrupt row is buried for poison alone, and it is never *)
(* with the sink, whose answer could bury it for another reason.           *)
CorruptIsPoison ==
  /\ \A r \in corrupt : ledger[r].status = "DeadLetter" => ledger[r].lastError = "poison"
  /\ \A w \in Workers : flight[w] # NoFlight => flight[w].row \notin corrupt

LEMMA DeadRowError ==
  ASSUME NEW row \in RowType, NEW n, NEW e
  PROVE  DeadRow(row, n, e).lastError = e
<1>1. Settled(row) = [row EXCEPT !.claimedBy = Nobody, !.claimAge = 0]
  BY DEF Settled
<1> QED BY <1>1 DEF DeadRow, RowType

LEMMA AgedError ==
  ASSUME NEW row \in RowType
  PROVE  Aged(row).lastError = row.lastError
BY DEF Aged, RowType

LEMMA FinishCorrupt ==
  ASSUME IInv, CorruptIsPoison, NEW w \in Workers, NEW r \in todo[w], NEW row,
         r \in corrupt /\ OwnedClaim(w, r) /\ row.status = "DeadLetter"
           => row.lastError = "poison",
         CompareAndSet(w, r, row), Finish(w, r), UNCHANGED payloadVars
  PROVE  CorruptIsPoison'
<1>1. /\ r \in Rows /\ corrupt \in SUBSET Rows /\ ledger \in [Rows -> RowType]
      /\ flight \in [Workers -> FlightType]
      /\ corrupt' = corrupt /\ flight' = [flight EXCEPT ![w] = NoFlight]
  BY DEF IInv, TypeOK, payloadVars, Finish
<1>2. \A q \in Rows : ledger'[q] = IF q = r /\ OwnedClaim(w, r) THEN row ELSE ledger[q]
  BY <1>1 DEF CompareAndSet
<1> QED BY <1>1, <1>2 DEF CorruptIsPoison

LEMMA ReplayCorrupt ==
  ASSUME IInv, CorruptIsPoison, NEW D \in SUBSET Rows,
         ledger' = [r \in Rows |-> IF r \in D THEN Requeued(ledger[r]) ELSE ledger[r]],
         UNCHANGED <<corrupt, flight>>
  PROVE  CorruptIsPoison'
<1>1. corrupt \in SUBSET Rows /\ ledger \in [Rows -> RowType]
  BY DEF IInv, TypeOK
<1>2. \A r \in D : ledger'[r].status = "Pending"
  BY <1>1, RequeuedType
<1> QED BY <1>1, <1>2 DEF CorruptIsPoison

LEMMA NextCorrupt == IInv /\ CorruptIsPoison /\ [Next]_vars => CorruptIsPoison'
<1> SUFFICES ASSUME IInv, CorruptIsPoison, [Next]_vars PROVE CorruptIsPoison'
  OBVIOUS
<1>0. /\ ledger \in [Rows -> RowType] /\ corrupt \in SUBSET Rows
      /\ flight \in [Workers -> FlightType] /\ todo \in [Workers -> SUBSET Rows]
  BY DEF IInv, TypeOK
<1>1. ASSUME NEW r \in Rows, Stage(r) PROVE CorruptIsPoison'
  <2>1. /\ ledger[r].status = "Absent"
        /\ ledger' = [ledger EXCEPT ![r].status = "Pending"]
        /\ corrupt' \in {corrupt, corrupt \cup {r}}
        /\ flight' = flight
    BY <1>1 DEF Stage, workerVars
  <2>2. /\ ledger'[r].status = "Pending"
        /\ \A q \in Rows \ {r} : ledger'[q] = ledger[q]
    BY <1>0, <2>1 DEF RowType
  <2>3. \A w \in Workers : flight[w] # NoFlight => flight[w].row # r
    BY <2>1 DEF IInv, AnswersStayTrue
  <2> QED BY <1>0, <2>1, <2>2, <2>3 DEF CorruptIsPoison
<1>2. ASSUME NEW w \in Workers, Claim(w) PROVE CorruptIsPoison'
  <2> DEFINE batch == Oldest(Due)
  <2>1. PICK t \in Tokens :
          ledger' = [r \in Rows |->
                       IF r \in batch THEN Claimed(ledger[r], t)
                       ELSE IF r \in StaleClaims THEN Released(ledger[r])
                       ELSE ledger[r]]
    BY <1>2 DEF Claim, FreshTokens
  <2>2. UNCHANGED <<corrupt, flight>>
    BY <1>2 DEF Claim, payloadVars
  <2> HIDE DEF batch
  <2>3. \A r \in Rows : ledger'[r].status = "DeadLetter" => ledger'[r] = ledger[r]
    BY <1>0, <2>1, ClaimedType, ReleasedType
  <2> QED BY <1>0, <2>2, <2>3 DEF CorruptIsPoison
<1>3. ASSUME NEW w \in Workers, NEW r \in Rows, RejectCorrupt(w, r)
      PROVE  CorruptIsPoison'
  <2> DEFINE row == DeadRow(ledger[r], seen[w][r] + 1, "poison")
  <2>1. /\ r \in todo[w] /\ CompareAndSet(w, r, row) /\ Finish(w, r)
        /\ UNCHANGED payloadVars
    BY <1>3 DEF RejectCorrupt
  <2>2. row.lastError = "poison"
    BY <1>0, DeadRowError
  <2> HIDE DEF row
  <2> QED BY <2>1, <2>2, FinishCorrupt
<1>4. ASSUME NEW w \in Workers, NEW r \in Rows, PublishEmpty(w, r)
      PROVE  CorruptIsPoison'
  BY <1>4, FinishCorrupt DEF PublishEmpty
<1>5. ASSUME NEW w \in Workers, NEW r \in Rows, NEW S \in SUBSET Events,
             NEW answer \in Answers, Deliver(w, r, S, answer)
      PROVE  CorruptIsPoison'
  BY <1>0, <1>5 DEF Deliver, CorruptIsPoison
<1>6. ASSUME NEW w \in Workers, NEW r \in Rows, Settle(w, r)
      PROVE  CorruptIsPoison'
  <2>1. flight[w] # NoFlight /\ flight[w].row = r
    BY <1>6 DEF Settle, NoFlight, Rows
  <2>2. r \in todo[w] /\ r \notin corrupt
    BY <2>1 DEF IInv, AnswersStayTrue, CorruptIsPoison
  <2> QED BY <1>6, <2>2, FinishCorrupt DEF Settle
<1>7. ASSUME NEW w \in Workers, Crash(w) PROVE CorruptIsPoison'
  BY <1>0, <1>7 DEF Crash, payloadVars, CorruptIsPoison
<1>8. ASSUME NEW ids \in SUBSET Rows, Requeue(ids) PROVE CorruptIsPoison'
  <2> DEFINE D == {r \in ids : Replayable(r)}
  <2>1. /\ D \in SUBSET Rows /\ UNCHANGED <<corrupt, flight>>
        /\ ledger' = [r \in Rows |-> IF r \in D THEN Requeued(ledger[r]) ELSE ledger[r]]
    BY <1>8 DEF Requeue, payloadVars, workerVars
  <2> HIDE DEF D
  <2> QED BY <2>1, ReplayCorrupt
<1>9. CASE Sweep
  <2>1. TransientDead \in SUBSET Rows
    BY DEF TransientDead
  <2> QED BY <1>9, <2>1, ReplayCorrupt DEF Sweep, payloadVars, workerVars
<1>10. CASE Tick
  BY <1>0, <1>10, AgedType, AgedError
     DEF Tick, payloadVars, workerVars, CorruptIsPoison
<1>11. CASE UNCHANGED vars
  BY <1>11 DEF vars, CorruptIsPoison
<1> QED BY <1>1, <1>2, <1>3, <1>4, <1>5, <1>6, <1>7, <1>8, <1>9, <1>10, <1>11
        DEF Next, Work

(* The sweep never brings back what cannot be decoded, after any history   *)
(* of claims, failures and operator replays.                               *)
THEOREM SweepNeverRevivesCorruptRows == Spec => SweepSparesCorruptRows
<1> DEFINE A == Sweep => \A r \in corrupt : ledger'[r] = ledger[r]
<1>1. Init => CorruptIsPoison
  BY DEF Init, CorruptIsPoison
<1>2. IInv /\ CorruptIsPoison => A
  <2> SUFFICES ASSUME IInv, CorruptIsPoison, Sweep, NEW r \in corrupt
               PROVE  ledger'[r] = ledger[r]
    OBVIOUS
  <2>1. r \in Rows /\ r \notin TransientDead
    BY DEF IInv, TypeOK, CorruptIsPoison, TransientDead
  <2> QED BY <2>1 DEF Sweep
<1>3. IInv /\ CorruptIsPoison /\ [Next]_vars => CorruptIsPoison' /\ [A]_vars
  BY <1>2, NextCorrupt
<1> QED BY <1>1, <1>3, LedgerInvariant, PTL DEF Spec, SweepSparesCorruptRows

=============================================================================
