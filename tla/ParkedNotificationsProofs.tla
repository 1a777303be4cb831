----------------------- MODULE ParkedNotificationsProofs -----------------------
(***************************************************************************)
(* No acknowledged event is lost while it is parked, replayed or expired,  *)
(* for any number of events, purchases, sweeps, workflows and faults.      *)
(***************************************************************************)
EXTENDS ParkedNotifications, TLAPS

(* A request that is about to enter its event as applied has committed it. *)
NotesRecorded == \A e \in Events : request[e].pc = "note" => e \in recorded

(* A run that is about to resolve a row has committed the row's event.     *)
MarksRecorded ==
  \A r \in Runs : run[r].pc = "mark" /\ run[r].applied => Foremost(run[r]) \subseteq recorded

(* A row that says applied was committed; an acknowledged event that was   *)
(* not committed has a row, and rows are never removed.                    *)
RowsKept ==
  \A e \in Events : /\ row[e].result = "applied" => e \in recorded
                    /\ e \in acked => e \in recorded \/ row[e].result # "none"

IInv == TypeOK /\ NotesRecorded /\ MarksRecorded /\ RowsKept

-----------------------------------------------------------------------------
LEMMA RowIsTyped ==
  ASSUME TypeOK, NEW e \in Events
  PROVE  /\ row[e] \in RowType
         /\ row[e].result \in ParkedResults \cup {"none", "applied", "expired"}
         /\ row[e].attempts \in 0..MaxAttempts
<1>1. row[e] \in RowType
  BY DEF TypeOK
<1> QED BY <1>1 DEF RowType

LEMMA RunIsTyped ==
  ASSUME TypeOK, NEW r \in Runs
  PROVE  /\ run[r] \in RunType
         /\ run[r].todo \subseteq Events /\ run[r].wave \subseteq Purchases
         /\ run[r].job \subseteq Jobs
         /\ run[r].pc \in {"replay", "mark"} <=> run[r].todo # {}
<1>1. run[r] \in RunType
  BY DEF TypeOK
<1> QED BY <1>1 DEF RunType, TypeOK

LEMMA IdleRunIsTyped == IdleRun \in RunType /\ IdleRun.pc = "idle" /\ IdleRun.todo = {}
  BY DEF IdleRun, RunType

(* At most one event is next in a run: no two precede each other.          *)
LEMMA OneIsForemost ==
  ASSUME ParkedAssumption, NEW s \in RunType, NEW d \in Foremost(s), NEW e \in Foremost(s)
  PROVE  d = e
<1> SUFFICES ASSUME d # e PROVE FALSE
  OBVIOUS
<1>1. d \in Events /\ e \in Events
  BY DEF Foremost, RunType
<1>2. Precedes(d, e) /\ Precedes(e, d)
  BY DEF Foremost
<1>3. d \in Nat /\ e \in Nat
  BY <1>1 DEF ParkedAssumption
<1>4. IsReport(d) \in BOOLEAN /\ IsReport(e) \in BOOLEAN
  BY DEF IsReport
<1> QED BY <1>2, <1>3, <1>4 DEF Precedes

LEMMA ExpiredRows ==
  ASSUME TypeOK, NEW rows, ExpireRows(rows)
  PROVE  /\ row' \in [Events -> RowType]
         /\ \A e \in Events : row'[e].result = row[e].result \/ row'[e].result = "expired"
<1>1. ASSUME NEW e \in Events
      PROVE  row'[e] \in RowType /\ (row'[e].result = row[e].result \/ row'[e].result = "expired")
  <2>1. row'[e] = IF e \in rows THEN [row[e] EXCEPT !.result = "expired"] ELSE row[e]
    BY DEF ExpireRows
  <2>2. [row[e] EXCEPT !.result = "expired"] \in RowType
        /\ [row[e] EXCEPT !.result = "expired"].result = "expired"
    BY RowIsTyped DEF RowType
  <2> QED BY <2>1, <2>2, RowIsTyped
<1> QED BY <1>1 DEF ExpireRows

LEMMA AdvancedIsTyped ==
  ASSUME NEW s \in RunType
  PROVE  /\ Advanced(s) \in RunType
         /\ Advanced(s).pc \in {"idle", "find"} /\ Advanced(s).todo = {}
<1>1. CASE s.stage = "product" /\ s.wave # {}
  <2> DEFINE t == [s EXCEPT !.pc = "find", !.stage = "dependents", !.todo = {}, !.applied = FALSE]
  <2>1. t \in RunType /\ t.pc = "find" /\ t.todo = {}
    BY DEF RunType
  <2> QED BY <1>1, <2>1 DEF Advanced
<1>2. CASE ~(s.stage = "product" /\ s.wave # {})
  BY <1>2, IdleRunIsTyped DEF Advanced
<1> QED BY <1>1, <1>2

-----------------------------------------------------------------------------
(* One run changes, to a state without a replayed row: what is kept of it. *)
LEMMA RunMoves ==
  ASSUME ParkedAssumption, TypeOK, MarksRecorded, NEW r \in Runs, NEW t \in RunType,
         t.pc \in {"replay", "mark"} <=> t.todo # {}, t.pc # "mark",
         run' = [run EXCEPT ![r] = t], recorded \subseteq recorded', provider' = provider
  PROVE  /\ run' \in [Runs -> RunType]
         /\ \A q \in Runs : run'[q].pc \in {"replay", "mark"} <=> run'[q].todo # {}
         /\ MarksRecorded'
<1>1. run \in [Runs -> RunType]
  BY DEF TypeOK
<1>2. run' \in [Runs -> RunType]
  BY <1>1
<1>3. \A q \in Runs : run'[q] = IF q = r THEN t ELSE run[q]
  BY <1>1
<1>4. \A q \in Runs : run'[q].pc \in {"replay", "mark"} <=> run'[q].todo # {}
  BY <1>3 DEF TypeOK
<1>5. MarksRecorded'
  <2> SUFFICES ASSUME NEW q \in Runs, run'[q].pc = "mark", run'[q].applied
               PROVE  Foremost(run[q])' \subseteq recorded'
    BY DEF MarksRecorded
  <2>1. q # r /\ run'[q] = run[q]
    BY <1>3
  <2>2. Foremost(run[q]) \subseteq recorded
    BY <2>1 DEF MarksRecorded
  <2>3. Foremost(run[q])' = Foremost(run[q])
    BY <2>1 DEF Foremost, Precedes, IsReport
  <2> QED BY <2>2, <2>3
<1> QED BY <1>2, <1>4, <1>5

(* A step that changes no run keeps what is known of the runs.             *)
LEMMA RunsStay ==
  ASSUME TypeOK, MarksRecorded, UNCHANGED <<run, provider>>, recorded \subseteq recorded'
  PROVE  /\ run' \in [Runs -> RunType]
         /\ \A q \in Runs : run'[q].pc \in {"replay", "mark"} <=> run'[q].todo # {}
         /\ MarksRecorded'
<1>1. run' \in [Runs -> RunType]
  BY DEF TypeOK
<1>2. \A q \in Runs : run'[q].pc \in {"replay", "mark"} <=> run'[q].todo # {}
  BY DEF TypeOK
<1>3. MarksRecorded'
  <2> SUFFICES ASSUME NEW q \in Runs, run[q].pc = "mark", run[q].applied
               PROVE  Foremost(run[q])' \subseteq recorded'
    BY DEF MarksRecorded
  <2>1. Foremost(run[q]) \subseteq recorded
    BY DEF MarksRecorded
  <2>2. Foremost(run[q])' = Foremost(run[q])
    BY DEF Foremost, Precedes, IsReport
  <2> QED BY <2>1, <2>2
<1> QED BY <1>1, <1>2, <1>3

LEMMA RequestIsTyped ==
  ASSUME TypeOK, NEW e \in Events
  PROVE  request[e] \in RequestType /\ request[e].reason \in ParkedResults
<1>1. request[e] \in RequestType
  BY DEF TypeOK
<1> QED BY <1>1 DEF RequestType

LEMMA IdleRequestIsTyped == IdleRequest \in RequestType /\ IdleRequest.pc = "idle"
  BY DEF IdleRequest, RequestType, ParkedResults

LEMMA InitIInv == ParkedAssumption /\ Init => IInv
<1> SUFFICES ASSUME ParkedAssumption, Init PROVE IInv
  OBVIOUS
<1>1. row \in [Events -> RowType]
  <2>1. 0 \in 0..MaxAttempts
    BY DEF ParkedAssumption
  <2>2. [result |-> "none", attempts |-> 0] \in RowType
    BY <2>1 DEF RowType
  <2> QED BY <2>2 DEF Init
<1>2. request \in [Events -> RequestType] /\ run \in [Runs -> RunType]
  BY IdleRequestIsTyped, IdleRunIsTyped DEF Init
<1>3. \A r \in Runs : run[r].pc \in {"replay", "mark"} <=> run[r].todo # {}
  BY IdleRunIsTyped DEF Init
<1>4. changes \in 0..MaxChanges /\ faults \in 0..MaxFaults
  BY DEF Init, ParkedAssumption
<1>5. TypeOK
  BY <1>1, <1>2, <1>3, <1>4 DEF Init, TypeOK
<1>6. NotesRecorded
  BY IdleRequestIsTyped DEF Init, NotesRecorded
<1>7. MarksRecorded
  BY IdleRunIsTyped DEF Init, MarksRecorded
<1>8. RowsKept
  BY DEF Init, RowsKept
<1> QED BY <1>5, <1>6, <1>7, <1>8 DEF IInv

-----------------------------------------------------------------------------
(* Requests.                                                               *)

LEMMA RowInserted ==
  ASSUME TypeOK, NEW e \in Events, NEW result \in ParkedResults \cup {"applied"},
         row' = InsertedIfAbsent(e, result)
  PROVE  /\ row' \in [Events -> RowType]
         /\ row'[e].result # "none"
         /\ \A d \in Events : \/ row'[d].result = row[d].result
                              \/ d = e /\ row'[d].result = result
<1>1. row \in [Events -> RowType] /\ row[e] \in RowType
  BY DEF TypeOK
<1>2. [row[e] EXCEPT !.result = result] \in RowType
      /\ [row[e] EXCEPT !.result = result].result = result
  BY <1>1 DEF RowType
<1>3. CASE row[e].result = "none"
  <2>1. row' = [row EXCEPT ![e] = [row[e] EXCEPT !.result = result]]
    BY <1>1, <1>3 DEF InsertedIfAbsent
  <2> QED BY <1>1, <1>2, <2>1 DEF ParkedResults
<1>4. CASE row[e].result # "none"
  BY <1>1, <1>4 DEF InsertedIfAbsent
<1> QED BY <1>3, <1>4

LEMMA ArriveStep == ASSUME ParkedAssumption, IInv, NEW e \in Events, Arrive(e) PROVE IInv'
<1>1. run' = run /\ provider' = provider /\ recorded' = recorded /\ row' = row /\ acked' = acked
  BY DEF Arrive
<1>2. request' \in [Events -> RequestType]
  <2> DEFINE t == [request[e] EXCEPT !.pc = IF Gated(e) THEN "gate" ELSE "record"]
  <2>1. t \in RequestType
    BY RequestIsTyped DEF IInv, RequestType
  <2>2. request' = [request EXCEPT ![e] = t]
    BY DEF Arrive
  <2> QED BY <2>1, <2>2 DEF IInv, TypeOK
<1>3. \A d \in Events : request'[d].pc = "note" => request[d].pc = "note"
  <2>1. request'[e].pc # "note"
    BY RequestIsTyped DEF Arrive, IInv, TypeOK, RequestType
  <2> QED BY <2>1 DEF Arrive, IInv, TypeOK
<1>4. TypeOK' /\ MarksRecorded'
  BY <1>1, <1>2, RunsStay DEF IInv, TypeOK, Arrive, counts
<1>5. NotesRecorded'
  BY <1>1, <1>3 DEF IInv, NotesRecorded
<1>6. RowsKept'
  BY <1>1 DEF IInv, RowsKept
<1> QED BY <1>4, <1>5, <1>6 DEF IInv

LEMMA PassGateStep == ASSUME ParkedAssumption, IInv, NEW e \in Events, PassGate(e) PROVE IInv'
<1>1. run' = run /\ provider' = provider /\ recorded' = recorded /\ row' = row /\ acked' = acked
  BY DEF PassGate
<1>2. PICK t \in RequestType : t.pc # "note" /\ request' = [request EXCEPT ![e] = t]
  <2>1. CASE Confirmed(e)
    <3> DEFINE t == [request[e] EXCEPT !.pc = "record"]
    <3>1. t \in RequestType /\ t.pc # "note"
      BY RequestIsTyped DEF IInv, RequestType
    <3> QED BY <2>1, <3>1 DEF PassGate
  <2>2. CASE ~Confirmed(e)
    <3>1. [pc |-> "park", reason |-> "parked_sdk"] \in RequestType
      BY DEF RequestType, ParkedResults
    <3> QED BY <2>2, <3>1 DEF PassGate, ToPark
  <2> QED BY <2>1, <2>2
<1>3. request' \in [Events -> RequestType]
      /\ \A d \in Events : request'[d].pc = "note" => request[d].pc = "note"
  BY <1>2 DEF IInv, TypeOK
<1>4. TypeOK' /\ MarksRecorded'
  BY <1>1, <1>3, RunsStay DEF IInv, TypeOK, PassGate, counts
<1>5. NotesRecorded'
  BY <1>1, <1>3 DEF IInv, NotesRecorded
<1>6. RowsKept'
  BY <1>1 DEF IInv, RowsKept
<1> QED BY <1>4, <1>5, <1>6 DEF IInv

LEMMA AcceptStep == ASSUME ParkedAssumption, IInv, NEW e \in Events, Accept(e) PROVE IInv'
<1>1. run' = run /\ provider' = provider /\ row' = row /\ acked' = acked
  BY DEF Accept
<1>2. recorded \subseteq recorded' /\ recorded' \subseteq Events
  BY DEF Accept, IInv, TypeOK
<1>3. PICK t \in RequestType : /\ t.pc = "note" => e \in recorded'
                               /\ request' = [request EXCEPT ![e] = t]
  <2>1. CASE Available(e) /\ recorded' = recorded \cup {e} /\ request' = [request EXCEPT ![e].pc = "note"]
    <3> DEFINE t == [request[e] EXCEPT !.pc = "note"]
    <3>1. t \in RequestType
      BY RequestIsTyped DEF IInv, RequestType
    <3>2. request' = [request EXCEPT ![e] = t] /\ e \in recorded'
      BY <2>1
    <3> QED BY <3>1, <3>2
  <2>2. CASE ToPark(e, Lacking(e))
    <3>1. [pc |-> "park", reason |-> Lacking(e)] \in RequestType
      BY DEF RequestType, ParkedResults, Lacking
    <3> QED BY <2>2, <3>1 DEF ToPark
  <2> QED BY <2>1, <2>2 DEF Accept
<1>4. request' \in [Events -> RequestType]
      /\ \A d \in Events : request'[d].pc = "note" => request[d].pc = "note" \/ d \in recorded'
  BY <1>3 DEF IInv, TypeOK
<1>5. TypeOK' /\ MarksRecorded'
  BY <1>1, <1>2, <1>4, RunsStay DEF IInv, TypeOK, Accept, counts
<1>6. NotesRecorded'
  BY <1>2, <1>4 DEF IInv, NotesRecorded
<1>7. RowsKept'
  BY <1>1, <1>2 DEF IInv, RowsKept
<1> QED BY <1>5, <1>6, <1>7 DEF IInv

(* An answer ends the request and may acknowledge its event.               *)
LEMMA Answered ==
  ASSUME ParkedAssumption, TypeOK, NEW e \in Events, Answer(e)
  PROVE  /\ request' \in [Events -> RequestType]
         /\ \A d \in Events : request'[d].pc = "note" => request[d].pc = "note"
         /\ acked' \subseteq Events /\ faults' \in 0..MaxFaults
         /\ \A d \in Events : d \in acked' => d \in acked \/ d = e
<1>1. request' = [request EXCEPT ![e] = IdleRequest]
  BY DEF Answer
<1>2. request' \in [Events -> RequestType]
      /\ \A d \in Events : request'[d].pc = "note" => request[d].pc = "note"
  BY <1>1, IdleRequestIsTyped DEF TypeOK
<1>3. faults' \in 0..MaxFaults
  BY DEF Answer, TypeOK, ParkedAssumption
<1>4. acked' \subseteq Events /\ \A d \in Events : d \in acked' => d \in acked \/ d = e
  BY DEF Answer, TypeOK
<1> QED BY <1>2, <1>3, <1>4

LEMMA ParkStep == ASSUME ParkedAssumption, IInv, NEW e \in Events, Park(e) PROVE IInv'
<1>1. run' = run /\ provider' = provider /\ recorded' = recorded
  BY DEF Park
<1>2. /\ row' \in [Events -> RowType] /\ row'[e].result # "none"
      /\ \A d \in Events : row'[d].result = row[d].result \/ row'[d].result \in ParkedResults
  <2>1. TypeOK /\ row' = InsertedIfAbsent(e, request[e].reason)
    BY DEF IInv, Park
  <2>2. request[e].reason \in ParkedResults
    BY <2>1, RequestIsTyped
  <2>3. request[e].reason \in ParkedResults \cup {"applied"}
    BY <2>2
  <2>4. /\ row' \in [Events -> RowType] /\ row'[e].result # "none"
        /\ \A d \in Events : \/ row'[d].result = row[d].result
                             \/ d = e /\ row'[d].result = request[e].reason
    BY <2>1, <2>3, RowInserted
  <2> QED BY <2>2, <2>4
<1>3. /\ request' \in [Events -> RequestType]
      /\ \A d \in Events : request'[d].pc = "note" => request[d].pc = "note"
      /\ acked' \subseteq Events /\ faults' \in 0..MaxFaults
      /\ \A d \in Events : d \in acked' => d \in acked \/ d = e
  BY Answered DEF IInv, Park
<1>4. TypeOK' /\ MarksRecorded'
  BY <1>1, <1>2, <1>3, RunsStay DEF IInv, TypeOK, Park
<1>5. NotesRecorded'
  BY <1>1, <1>3 DEF IInv, NotesRecorded
<1>6. RowsKept'
  BY <1>1, <1>2, <1>3 DEF IInv, RowsKept, ParkedResults
<1> QED BY <1>4, <1>5, <1>6 DEF IInv

LEMMA NoteStep == ASSUME ParkedAssumption, IInv, NEW e \in Events, Note(e) PROVE IInv'
<1>1. run' = run /\ provider' = provider /\ recorded' = recorded
  BY DEF Note
<1>2. e \in recorded
  BY DEF Note, IInv, NotesRecorded
<1>3. /\ row' \in [Events -> RowType]
      /\ \A d \in Events : row'[d].result = row[d].result \/ (d = e /\ row'[d].result = "applied")
  <2>1. CASE row' = InsertedIfAbsent(e, "applied")
    BY <2>1, RowInserted DEF IInv
  <2>2. CASE UNCHANGED row
    BY <2>2 DEF IInv, TypeOK
  <2> QED BY <2>1, <2>2 DEF Note
<1>4. due' \subseteq Jobs
  <2>1. CASE IsReport(e)
    BY <2>1 DEF Note, IInv, TypeOK, Jobs, IsReport
  <2>2. CASE ~IsReport(e)
    BY <2>2 DEF Note, IInv, TypeOK
  <2> QED BY <2>1, <2>2
<1>5. /\ request' \in [Events -> RequestType]
      /\ \A d \in Events : request'[d].pc = "note" => request[d].pc = "note"
      /\ acked' \subseteq Events /\ faults' \in 0..MaxFaults
      /\ \A d \in Events : d \in acked' => d \in acked \/ d = e
  BY Answered DEF IInv, Note
<1>6. TypeOK' /\ MarksRecorded'
  BY <1>1, <1>3, <1>4, <1>5, RunsStay DEF IInv, TypeOK, Note
<1>7. NotesRecorded'
  BY <1>1, <1>5 DEF IInv, NotesRecorded
<1>8. RowsKept'
  BY <1>1, <1>2, <1>3, <1>5 DEF IInv, RowsKept
<1> QED BY <1>6, <1>7, <1>8 DEF IInv

LEMMA RejectStep == ASSUME ParkedAssumption, IInv, NEW e \in Events, Reject(e) PROVE IInv'
<1>1. run' = run /\ provider' = provider /\ recorded' = recorded /\ row' = row /\ acked' = acked
  BY DEF Reject
<1>2. request' \in [Events -> RequestType]
      /\ \A d \in Events : request'[d].pc = "note" => request[d].pc = "note"
  BY IdleRequestIsTyped DEF Reject, IInv, TypeOK
<1>3. faults' \in 0..MaxFaults
  BY DEF Reject, IInv, TypeOK, ParkedAssumption
<1>4. TypeOK' /\ MarksRecorded'
  BY <1>1, <1>2, <1>3, RunsStay DEF IInv, TypeOK, Reject
<1>5. NotesRecorded'
  BY <1>1, <1>2 DEF IInv, NotesRecorded
<1>6. RowsKept'
  BY <1>1 DEF IInv, RowsKept
<1> QED BY <1>4, <1>5, <1>6 DEF IInv

-----------------------------------------------------------------------------
(* Runs.                                                                   *)

(* A run that starts or goes on without a replayed row.                    *)
LEMMA SweepStep == ASSUME ParkedAssumption, IInv, NEW r \in Runs, Sweep(r) PROVE IInv'
<1> DEFINE expired == {e \in Events : Expires(e)}
           product == mapped /\ \E e \in Events \ expired : row[e].result = "parked_mapping"
           wave == {Original[e] : e \in {d \in Dependents \ expired : Waves(d)}}
           all == IF provider = "stripe" /\ (product \/ wave # {}) THEN Purchases ELSE wave
<1>1. request' = request /\ provider' = provider /\ recorded' = recorded /\ acked' = acked
  BY DEF Sweep
<1>2. /\ row' \in [Events -> RowType]
      /\ \A e \in Events : row'[e].result = row[e].result \/ row'[e].result = "expired"
  <2>1. TypeOK /\ ExpireRows(expired)
    BY DEF IInv, Sweep
  <2> QED BY <2>1, ExpiredRows
<1>3. all \subseteq Purchases
  BY DEF ParkedAssumption
<1>4. PICK t \in RunType : /\ t.todo = {} /\ t.pc \in {"idle", "find"}
                           /\ run' = [run EXCEPT ![r] = t]
  <2> HIDE DEF product, wave, all
  <2>1. run' = [run EXCEPT ![r] =
                  IF product THEN [IdleRun EXCEPT !.pc = "find", !.wave = all]
                  ELSE IF wave # {}
                  THEN [IdleRun EXCEPT !.pc = "find", !.stage = "dependents", !.wave = all]
                  ELSE IdleRun]
    BY DEF Sweep, product, wave, all
  <2>2. /\ [IdleRun EXCEPT !.pc = "find", !.wave = all] \in RunType
        /\ [IdleRun EXCEPT !.pc = "find", !.wave = all].todo = {}
        /\ [IdleRun EXCEPT !.pc = "find", !.wave = all].pc = "find"
    BY <1>3 DEF IdleRun, RunType
  <2>3. /\ [IdleRun EXCEPT !.pc = "find", !.stage = "dependents", !.wave = all] \in RunType
        /\ [IdleRun EXCEPT !.pc = "find", !.stage = "dependents", !.wave = all].todo = {}
        /\ [IdleRun EXCEPT !.pc = "find", !.stage = "dependents", !.wave = all].pc = "find"
    BY <1>3 DEF IdleRun, RunType
  <2> QED BY <2>1, <2>2, <2>3, IdleRunIsTyped
<1>5. /\ run' \in [Runs -> RunType]
      /\ \A q \in Runs : run'[q].pc \in {"replay", "mark"} <=> run'[q].todo # {}
      /\ MarksRecorded'
  <2>1. t.pc \in {"replay", "mark"} <=> t.todo # {}
    BY <1>4
  <2>2. t.pc # "mark" /\ TypeOK /\ MarksRecorded /\ recorded \subseteq recorded'
    BY <1>1, <1>4 DEF IInv
  <2> QED BY <1>1, <1>4, <2>1, <2>2, RunMoves
<1>6. TypeOK'
  BY <1>1, <1>2, <1>5 DEF IInv, TypeOK, Sweep, counts
<1>7. NotesRecorded'
  BY <1>1 DEF IInv, NotesRecorded
<1>8. RowsKept'
  BY <1>1, <1>2 DEF IInv, RowsKept
<1> QED BY <1>5, <1>6, <1>7, <1>8 DEF IInv

LEMMA StartStep ==
  ASSUME ParkedAssumption, IInv, NEW r \in Runs, NEW j \in Jobs, Start(r, j) PROVE IInv'
<1>1. /\ request' = request /\ provider' = provider /\ recorded' = recorded /\ acked' = acked
      /\ row' = row /\ due' \subseteq Jobs
  BY DEF Start, IInv, TypeOK
<1>2. PICK t \in RunType : t.todo = {} /\ t.pc = "find" /\ run' = [run EXCEPT ![r] = t]
  <2>1. CASE j = Mapping
    <3> DEFINE t == [IdleRun EXCEPT !.pc = "find", !.job = {j},
                                    !.wave = IF provider = "stripe" THEN Purchases ELSE {}]
    <3>1. t \in RunType /\ t.todo = {} /\ t.pc = "find"
      BY DEF IdleRun, RunType
    <3> QED BY <2>1, <3>1 DEF Start
  <2>2. CASE j # Mapping
    <3> DEFINE t == [IdleRun EXCEPT !.pc = "find", !.job = {j}, !.stage = "dependents", !.wave = {j}]
    <3>1. t \in RunType /\ t.todo = {} /\ t.pc = "find"
      BY <2>2 DEF IdleRun, RunType, Jobs
    <3> QED BY <2>2, <3>1 DEF Start
  <2> QED BY <2>1, <2>2
<1>3. /\ run' \in [Runs -> RunType]
      /\ \A q \in Runs : run'[q].pc \in {"replay", "mark"} <=> run'[q].todo # {}
      /\ MarksRecorded'
  <2>1. t.pc \in {"replay", "mark"} <=> t.todo # {}
    BY <1>2
  <2>2. t.pc # "mark" /\ TypeOK /\ MarksRecorded /\ recorded \subseteq recorded'
    BY <1>1, <1>2 DEF IInv
  <2> QED BY <1>1, <1>2, <2>1, <2>2, RunMoves
<1>4. TypeOK'
  BY <1>1, <1>3 DEF IInv, TypeOK, Start, counts
<1>5. NotesRecorded' /\ RowsKept'
  BY <1>1 DEF IInv, NotesRecorded, RowsKept
<1> QED BY <1>3, <1>4, <1>5 DEF IInv

LEMMA FindStep == ASSUME ParkedAssumption, IInv, NEW r \in Runs, Find(r) PROVE IInv'
<1>1. UNCHANGED <<provider, mapped, row, recorded, acked, due, aged, request, changes, faults>>
  BY DEF Find, counts
<1>2. run[r] \in RunType
  BY RunIsTyped DEF IInv
<1>3. PICK t \in RunType : /\ t.pc \in {"replay", "mark"} <=> t.todo # {}
                           /\ t.pc # "mark"
                           /\ run' = [run EXCEPT ![r] = t]
  <2>1. CASE Found(run[r]) = {}
    <3>1. run' = [run EXCEPT ![r] = Advanced(run[r])]
      BY <2>1 DEF Find
    <3> QED BY <1>2, <3>1, AdvancedIsTyped
  <2>2. CASE Found(run[r]) # {}
    <3> DEFINE t == [run[r] EXCEPT !.pc = "replay", !.todo = Found(run[r])]
    <3>1. Found(run[r]) \subseteq Events
      BY DEF Found, ParkedAssumption
    <3>2. t \in RunType /\ t.pc = "replay" /\ t.todo # {}
      BY <1>2, <2>2, <3>1 DEF RunType
    <3>3. run' = [run EXCEPT ![r] = t]
      BY <2>2 DEF Find
    <3> QED BY <3>2, <3>3
  <2> QED BY <2>1, <2>2
<1>4. /\ run' \in [Runs -> RunType]
      /\ \A q \in Runs : run'[q].pc \in {"replay", "mark"} <=> run'[q].todo # {}
      /\ MarksRecorded'
  <2>1. TypeOK /\ MarksRecorded /\ recorded \subseteq recorded' /\ provider' = provider
    BY <1>1 DEF IInv
  <2> QED BY <1>3, <2>1, RunMoves
<1>5. TypeOK'
  BY <1>1, <1>4 DEF IInv, TypeOK
<1>6. NotesRecorded' /\ RowsKept'
  BY <1>1 DEF IInv, NotesRecorded, RowsKept
<1> QED BY <1>4, <1>5, <1>6 DEF IInv

LEMMA DieStep == ASSUME ParkedAssumption, IInv, NEW r \in Runs, Die(r) PROVE IInv'
<1>1. UNCHANGED <<provider, mapped, row, recorded, acked, aged, request, changes>>
  BY DEF Die
<1>2. due' \subseteq Jobs
  BY RunIsTyped DEF Die, IInv, TypeOK
<1>3. faults' \in 0..MaxFaults
  BY DEF Die, IInv, TypeOK, ParkedAssumption
<1>4. /\ run' \in [Runs -> RunType]
      /\ \A q \in Runs : run'[q].pc \in {"replay", "mark"} <=> run'[q].todo # {}
      /\ MarksRecorded'
  <2>1. TypeOK /\ MarksRecorded /\ recorded \subseteq recorded' /\ provider' = provider
    BY <1>1 DEF IInv
  <2>2. run' = [run EXCEPT ![r] = IdleRun]
    BY DEF Die
  <2>3. (IdleRun.pc \in {"replay", "mark"} <=> IdleRun.todo # {}) /\ IdleRun.pc # "mark"
    BY IdleRunIsTyped
  <2> QED BY <2>1, <2>2, <2>3, IdleRunIsTyped, RunMoves
<1>5. TypeOK'
  BY <1>1, <1>2, <1>3, <1>4 DEF IInv, TypeOK
<1>6. NotesRecorded' /\ RowsKept'
  BY <1>1 DEF IInv, NotesRecorded, RowsKept
<1> QED BY <1>4, <1>5, <1>6 DEF IInv

LEMMA ReplayStep == ASSUME ParkedAssumption, IInv, NEW r \in Runs, Replay(r) PROVE IInv'
<1>1. UNCHANGED <<provider, mapped, row, acked, due, aged, request, changes>>
  BY DEF Replay
<1>2. run[r] \in RunType /\ run[r].pc = "replay" /\ run[r].todo # {} /\ run \in [Runs -> RunType]
  BY RunIsTyped DEF IInv, TypeOK, Replay
<1>3. PICK e \in Foremost(run[r]), applied \in BOOLEAN :
        /\ recorded' = IF applied THEN recorded \cup {e} ELSE recorded
        /\ run' = [run EXCEPT ![r].pc = "mark", ![r].applied = applied]
        /\ faults' \in {faults, faults + 1} /\ (faults' # faults => faults < MaxFaults)
  BY DEF Replay
<1>4. e \in Events
  BY <1>2 DEF Foremost, RunType
<1>5. recorded \subseteq recorded' /\ recorded' \subseteq Events
  BY <1>3, <1>4 DEF IInv, TypeOK
<1> DEFINE t == [run[r] EXCEPT !.pc = "mark", !.applied = applied]
<1>6. t \in RunType /\ t.pc = "mark" /\ t.todo = run[r].todo /\ t.applied = applied
  BY <1>2, <1>3 DEF RunType
<1>7. run' = [run EXCEPT ![r] = t]
  BY <1>2, <1>3
<1> HIDE DEF t
<1>8. run' \in [Runs -> RunType] /\ \A q \in Runs : run'[q] = IF q = r THEN t ELSE run[q]
  BY <1>2, <1>6, <1>7
<1>9. \A q \in Runs : run'[q].pc \in {"replay", "mark"} <=> run'[q].todo # {}
  BY <1>2, <1>6, <1>8 DEF IInv, TypeOK
<1>10. MarksRecorded'
  <2> SUFFICES ASSUME NEW q \in Runs, run'[q].pc = "mark", run'[q].applied
               PROVE  Foremost(run[q])' \subseteq recorded'
    BY DEF MarksRecorded
  <2>1. run'[q].todo = run[q].todo
    BY <1>6, <1>8
  <2>2. Foremost(run[q])' = Foremost(run[q])
    BY <1>1, <2>1 DEF Foremost, Precedes, IsReport
  <2>3. CASE q = r
    <3>1. applied /\ e \in recorded'
      BY <1>3, <1>6, <1>8, <2>3
    <3>2. \A d \in Foremost(run[r]) : d = e
      BY <1>2, OneIsForemost
    <3> QED BY <2>2, <2>3, <3>1, <3>2
  <2>4. CASE q # r
    <3>1. run[q].pc = "mark" /\ run[q].applied
      BY <1>8, <2>4
    <3>2. Foremost(run[q]) \subseteq recorded
      BY <3>1 DEF IInv, MarksRecorded
    <3> QED BY <1>5, <2>2, <3>2
  <2> QED BY <2>3, <2>4
<1>11. faults' \in 0..MaxFaults
  BY <1>3 DEF IInv, TypeOK, ParkedAssumption
<1>12. TypeOK'
  BY <1>1, <1>5, <1>8, <1>9, <1>11 DEF IInv, TypeOK
<1>13. NotesRecorded' /\ RowsKept'
  BY <1>1, <1>5 DEF IInv, NotesRecorded, RowsKept
<1> QED BY <1>10, <1>12, <1>13 DEF IInv

LEMMA TriedIsTyped ==
  ASSUME ParkedAssumption, TypeOK, NEW e \in Events
  PROVE  Tried(e) \in 0..MaxAttempts
  BY RowIsTyped DEF Tried, ParkedAssumption

LEMMA LeftIsTyped ==
  ASSUME NEW s \in RunType, NEW e \in s.todo
  PROVE  Left(s, e) \in RunType /\ Left(s, e).pc = "replay"
<1> DEFINE wave == IF s.stage = "product" /\ IsReport(e) /\ s.applied
                   THEN s.wave \cup {e} ELSE s.wave
<1>1. wave \subseteq Purchases /\ s.todo \ {e} \subseteq Events
  BY DEF RunType, IsReport
<1> HIDE DEF wave
<1>2. Left(s, e) = [s EXCEPT !.pc = "replay", !.todo = s.todo \ {e}, !.applied = FALSE,
                             !.wave = wave]
  BY DEF Left, wave
<1> QED BY <1>1, <1>2 DEF RunType

LEMMA MarkStep == ASSUME ParkedAssumption, IInv, NEW r \in Runs, Mark(r) PROVE IInv'
<1>1. UNCHANGED <<provider, mapped, recorded, acked, due, aged, request, changes, faults>>
  BY DEF Mark, counts
<1>2. run[r] \in RunType /\ run[r].pc = "mark"
  BY RunIsTyped DEF IInv, Mark
<1>3. PICK e \in Foremost(run[r]) :
        /\ row' = [row EXCEPT ![e] =
             [result |-> IF Handled(run[r]) THEN "applied" ELSE row[e].result,
              attempts |-> Tried(e)]]
        /\ run' = [run EXCEPT ![r] = IF Left(run[r], e).todo = {} THEN Advanced(Left(run[r], e))
                                     ELSE Left(run[r], e)]
  BY DEF Mark
<1>4. e \in run[r].todo /\ e \in Events
  BY <1>2 DEF Foremost, RunType
<1>5. Handled(run[r]) => e \in recorded
  BY <1>2 DEF IInv, MarksRecorded, Handled
<1>6. /\ row' \in [Events -> RowType]
      /\ \A d \in Events : \/ row'[d].result = row[d].result
                           \/ d = e /\ Handled(run[r]) /\ row'[d].result = "applied"
  <2> DEFINE result == IF Handled(run[r]) THEN "applied" ELSE row[e].result
  <2>1. row \in [Events -> RowType] /\ Tried(e) \in 0..MaxAttempts
    BY <1>4, TriedIsTyped DEF IInv, TypeOK
  <2>2. result \in ParkedResults \cup {"none", "applied", "expired"}
    BY <1>4, RowIsTyped DEF IInv
  <2> HIDE DEF result
  <2>3. [result |-> result, attempts |-> Tried(e)] \in RowType
    BY <2>1, <2>2 DEF RowType
  <2>4. row' = [row EXCEPT ![e] = [result |-> result, attempts |-> Tried(e)]]
    BY <1>3 DEF result
  <2>5. /\ row' \in [Events -> RowType] /\ row'[e].result = result
        /\ \A d \in Events \ {e} : row'[d] = row[d]
    BY <1>4, <2>1, <2>3, <2>4
  <2> QED BY <2>5 DEF result
<1>7. PICK t \in RunType : /\ t.pc \in {"replay", "mark"} <=> t.todo # {}
                           /\ t.pc # "mark"
                           /\ run' = [run EXCEPT ![r] = t]
  <2>1. Left(run[r], e) \in RunType /\ Left(run[r], e).pc = "replay"
    BY <1>2, <1>4, LeftIsTyped
  <2>2. CASE Left(run[r], e).todo = {}
    BY <1>3, <2>1, <2>2, AdvancedIsTyped
  <2>3. CASE Left(run[r], e).todo # {}
    BY <1>3, <2>1, <2>3
  <2> QED BY <2>2, <2>3
<1>8. /\ run' \in [Runs -> RunType]
      /\ \A q \in Runs : run'[q].pc \in {"replay", "mark"} <=> run'[q].todo # {}
      /\ MarksRecorded'
  <2>1. TypeOK /\ MarksRecorded /\ recorded \subseteq recorded' /\ provider' = provider
    BY <1>1 DEF IInv
  <2> QED BY <1>7, <2>1, RunMoves
<1>9. TypeOK'
  BY <1>1, <1>6, <1>8 DEF IInv, TypeOK
<1>10. NotesRecorded'
  BY <1>1 DEF IInv, NotesRecorded
<1>11. RowsKept'
  BY <1>1, <1>5, <1>6 DEF IInv, RowsKept
<1> QED BY <1>8, <1>9, <1>10, <1>11 DEF IInv

-----------------------------------------------------------------------------
(* The surroundings, and every step.                                       *)

LEMMA SurroundingsStep ==
  ASSUME ParkedAssumption, IInv, Map \/ Unmap \/ \E e \in Events : Age(e)
  PROVE  IInv'
<1>1. UNCHANGED <<provider, row, recorded, acked, request, run, faults>>
  BY DEF Map, Unmap, Age, counts
<1>2. mapped' \in BOOLEAN
  <2>1. mapped \in BOOLEAN
    BY DEF IInv, TypeOK
  <2>2. mapped' = TRUE \/ mapped' = FALSE \/ mapped' = mapped
    BY DEF Map, Unmap, Age
  <2> QED BY <2>1, <2>2, Zenon
<1>3. changes' \in 0..MaxChanges
  <2>1. changes \in 0..MaxChanges /\ MaxChanges \in Nat
    BY DEF IInv, TypeOK, ParkedAssumption
  <2>2. changes' = changes \/ (changes < MaxChanges /\ changes' = changes + 1)
    BY DEF Map, Unmap, Age, counts
  <2> QED BY <2>1, <2>2
<1>4. due' \subseteq Jobs /\ aged' \subseteq Events
  BY DEF Map, Unmap, Age, IInv, TypeOK, Jobs
<1>5. MarksRecorded'
  BY <1>1, RunsStay DEF IInv
<1>6. TypeOK'
  BY <1>1, <1>2, <1>3, <1>4 DEF IInv, TypeOK
<1>7. NotesRecorded' /\ RowsKept'
  BY <1>1 DEF IInv, NotesRecorded, RowsKept
<1> QED BY <1>5, <1>6, <1>7 DEF IInv

LEMMA ExpireStep == ASSUME ParkedAssumption, IInv, ExpireUnconfirmed PROVE IInv'
<1>1. UNCHANGED <<provider, mapped, recorded, acked, due, aged, request, run, changes, faults>>
  BY DEF ExpireUnconfirmed, counts
<1>2. /\ row' \in [Events -> RowType]
      /\ \A e \in Events : row'[e].result = row[e].result \/ row'[e].result = "expired"
  BY ExpiredRows DEF IInv, ExpireUnconfirmed
<1>3. MarksRecorded'
  BY <1>1, RunsStay DEF IInv
<1>4. TypeOK'
  BY <1>1, <1>2 DEF IInv, TypeOK
<1>5. NotesRecorded'
  BY <1>1 DEF IInv, NotesRecorded
<1>6. RowsKept'
  BY <1>1, <1>2 DEF IInv, RowsKept
<1> QED BY <1>3, <1>4, <1>5, <1>6 DEF IInv

LEMMA NextIInv == ParkedAssumption /\ IInv /\ [Next]_vars => IInv'
<1> SUFFICES ASSUME ParkedAssumption, IInv, [Next]_vars PROVE IInv'
  OBVIOUS
<1>1. ASSUME NEW e \in Events, Handle(e) PROVE IInv'
  BY <1>1, ArriveStep, PassGateStep, AcceptStep, ParkStep, NoteStep, RejectStep DEF Handle
<1>2. ASSUME NEW r \in Runs, Work(r) PROVE IInv'
  BY <1>2, FindStep, ReplayStep, MarkStep DEF Work
<1>3. ASSUME NEW r \in Runs, Die(r) PROVE IInv'
  BY <1>3, DieStep
<1>4. ASSUME NEW r \in Sweeps, Sweep(r) PROVE IInv'
  BY <1>4, SweepStep DEF Runs
<1>5. ASSUME NEW r \in Workflows, NEW j \in Jobs, Start(r, j) PROVE IInv'
  BY <1>5, StartStep DEF Runs
<1>6. CASE Map \/ Unmap \/ \E e \in Events : Age(e)
  BY <1>6, SurroundingsStep
<1>7. CASE ExpireUnconfirmed
  BY <1>7, ExpireStep
<1>8. CASE UNCHANGED vars
  <2>1. UNCHANGED <<provider, mapped, row, recorded, acked, due, aged, request, run, changes, faults>>
    BY <1>8 DEF vars, counts
  <2>2. MarksRecorded'
    BY <2>1, RunsStay DEF IInv
  <2>3. TypeOK'
    BY <2>1 DEF IInv, TypeOK
  <2>4. NotesRecorded' /\ RowsKept'
    BY <2>1 DEF IInv, NotesRecorded, RowsKept
  <2> QED BY <2>2, <2>3, <2>4 DEF IInv
<1> QED BY <1>1, <1>2, <1>3, <1>4, <1>5, <1>6, <1>7, <1>8 DEF Next

(* The inductive invariant: what a request or a run is about to write as   *)
(* applied is committed, and rows are never removed.                       *)
THEOREM ParkedInvariant == Spec => []IInv
<1>1. Init => IInv
  BY InitIInv, ParkedAssumption
<1>2. IInv /\ [Next]_vars => IInv'
  BY NextIInv, ParkedAssumption
<1> QED BY <1>1, <1>2, PTL DEF Spec

(* The notification table, requests and runs keep their types; attempts    *)
(* never pass the cap at which the sweep expires a row.                    *)
THEOREM ParkedTypes == Spec => []TypeOK
<1>1. IInv => TypeOK
  BY DEF IInv
<1> QED BY <1>1, ParkedInvariant, PTL

(* An acknowledged event is committed, parked or was expired by the rules, *)
(* and a row that says applied was committed, for any interleaving of      *)
(* requests, replays, sweeps and expiries.                                 *)
THEOREM AcknowledgedEventsSurvive == Spec => []NothingIsLost
<1>1. IInv => NothingIsLost
  <2> SUFFICES ASSUME IInv, NEW e \in Events
               PROVE  /\ e \in acked => e \in recorded \/ Parked(e) \/ row[e].result = "expired"
                      /\ row[e].result = "applied" => e \in recorded
    BY DEF NothingIsLost
  <2>1. row[e].result \in ParkedResults \cup {"none", "applied", "expired"}
    BY RowIsTyped DEF IInv
  <2> QED BY <2>1 DEF IInv, RowsKept, Parked
<1> QED BY <1>1, ParkedInvariant, PTL

=============================================================================
