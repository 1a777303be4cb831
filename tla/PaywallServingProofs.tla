------------------------ MODULE PaywallServingProofs ------------------------
(***************************************************************************)
(* A released paywall never loses its active release, and has two only     *)
(* after crossed activations; a location shows one thing at a time; a      *)
(* concluded experiment stays concluded and is shown nowhere; a paywall    *)
(* deployed from code is shown in its active release: for any requests,    *)
(* locations, paywalls, versions and experiments.                          *)
(***************************************************************************)
EXTENDS PaywallServing, FiniteSetTheorems, TLAPS

(* What a request knows, by what it asks for and where it is.              *)
Fields == {"version", "content", "by", "fresh", "follow", "active", "held", "rows", "pins",
           "setup", "status"}
Shape(x) == x = [f \in Fields |-> x[f]]

(* The release to activate is there, or there is a document to insert.     *)
Activates(c, x) ==
  /\ c.paywall \in Paywalls
  /\ x.version \in Versions
  /\ x.fresh => x.content \in Contents
  /\ ~x.fresh => x.version \in Released(c.paywall)

(* About to commit, it has locked that release and what it will clear:     *)
(* everything that was active, unless another activation came first.       *)
Holds(c, x) ==
  /\ x.held \subseteq Released(c.paywall) \cup {x.version}
  /\ c.paywall \notin overtaken => x.active \subseteq x.held

Knows(c, place, x) ==
  /\ Shape(x)
  /\ c.op = "draft" /\ place = "write" => x.version \in Versions /\ x.by \in Requests
  /\ place = "lookUp" =>
       c.paywall \in Paywalls /\ x.version \in Versions /\ x.content \in Contents
  /\ place \in {"snapshot", "apply", "commit"} => Activates(c, x)
  /\ place = "commit" => Holds(c, x)

ReleaseTypes ==
  /\ call \in [Requests -> CallType]
  /\ draft \in [Paywalls -> SUBSET DraftRow]
  /\ release \in [Paywalls -> [Versions -> Release \cup {None}]]
  /\ at \in [Requests -> Places]
  /\ seen = [r \in Requests |-> seen[r]]

AllKnow == \A r \in Requests : Knows(call[r], at[r], seen[r])

IInv == ReleaseTypes /\ AllKnow /\ ActiveRelease

-----------------------------------------------------------------------------
LEMMA PaywallOfCall ==
  ASSUME NEW c \in CallType, c.op \in ReleaseCalls \cup {"assign"}
  PROVE  /\ c.paywall \in Paywalls
         /\ c.op \in {"draft", "deploy"} => c.content \in Contents
  BY DEF CallType, ReleaseCalls

(* A request that has ended, or holds nothing of a release, knows enough.  *)
LEMMA NothingToKnow ==
  ASSUME NEW c, NEW x, NEW place, Shape(x),
         place \notin {"lookUp", "snapshot", "apply", "commit"},
         c.op = "draft" => place # "write"
  PROVE  Knows(c, place, x)
  BY DEF Knows

LEMMA UnreadHasShape == Shape(Unread) /\ ~Unread.fresh
  BY DEF Shape, Fields, Unread

(* Releases are added and never removed; what a request knows stays true.  *)
LEMMA KnowledgeStays ==
  ASSUME NEW c, NEW x, NEW place, Knows(c, place, x),
         \A p \in Paywalls : Released(p) \subseteq Released(p)',
         overtaken \subseteq overtaken'
  PROVE  Knows(c, place, x)'
<1>1. Shape(x)'
  BY DEF Knows, Shape
<1>2. ASSUME Activates(c, x) PROVE Activates(c, x)'
  BY <1>2 DEF Activates
<1>3. ASSUME Activates(c, x), Holds(c, x) PROVE Holds(c, x)'
  BY <1>3 DEF Activates, Holds
<1> QED BY <1>1, <1>2, <1>3 DEF Knows

(* A step of one request: it knows enough, releases only come, and each     *)
(* paywall keeps its active release.                                       *)
LEMMA RequestGoes ==
  ASSUME IInv, NEW r \in Requests, NEW c, c = call[r], NEW place \in Places, NEW x,
         Knows(c, place, x)', Go(r, place), Read(r, x), UNCHANGED call,
         \A p \in Paywalls : Released(p) \subseteq Released(p)',
         overtaken \subseteq overtaken',
         draft' \in [Paywalls -> SUBSET DraftRow],
         release' \in [Paywalls -> [Versions -> Release \cup {None}]],
         ActiveRelease'
  PROVE  IInv'
<1>1. /\ call' = call
      /\ at' = [at EXCEPT ![r] = place] /\ seen' = [seen EXCEPT ![r] = x]
  BY DEF Go, Read
<1>2. /\ at' \in [Requests -> Places]
      /\ \A q \in Requests : at'[q] = IF q = r THEN place ELSE at[q]
  BY <1>1 DEF IInv, ReleaseTypes
<1>3. /\ seen' = [q \in Requests |-> seen'[q]]
      /\ \A q \in Requests : seen'[q] = IF q = r THEN x ELSE seen[q]
  BY <1>1 DEF IInv, ReleaseTypes
<1>4. ReleaseTypes'
  BY <1>1, <1>2, <1>3 DEF IInv, ReleaseTypes
<1>5. AllKnow'
  <2> SUFFICES ASSUME NEW q \in Requests PROVE Knows(call[q], at[q], seen[q])'
    BY DEF AllKnow
  <2>1. PICK d, l, y : d = call[q] /\ l = at'[q] /\ y = seen'[q]
    OBVIOUS
  <2>2. CASE q = r
    BY <1>1, <1>2, <1>3, <2>1, <2>2
  <2>3. CASE q # r
    <3>1. Knows(d, l, y)
      BY <1>2, <1>3, <2>1, <2>3 DEF IInv, AllKnow
    <3>2. Knows(d, l, y)'
      BY <3>1, KnowledgeStays
    <3> QED BY <1>1, <2>1, <3>2
  <2> QED BY <2>2, <2>3
<1> QED BY <1>4, <1>5 DEF IInv

(* A step of one request that leaves the releases alone.                   *)
LEMMA RequestMoves ==
  ASSUME IInv, NEW r \in Requests, NEW place \in Places, NEW x,
         Knows(call[r], place, x),
         Go(r, place), Read(r, x), UNCHANGED <<call, release>>,
         overtaken \subseteq overtaken',
         draft' \in [Paywalls -> SUBSET DraftRow]
  PROVE  IInv'
<1>1. PICK c : c = call[r]
  OBVIOUS
<1>2. \A p \in Paywalls : Released(p)' = Released(p) /\ Active(p)' = Active(p)
  BY DEF Released, Active
<1>3. Knows(c, place, x)'
  BY <1>1, <1>2, KnowledgeStays
<1>4. ActiveRelease'
  BY <1>2 DEF IInv, ActiveRelease
<1>5. release' \in [Paywalls -> [Versions -> Release \cup {None}]]
  BY DEF IInv, ReleaseTypes
<1> QED BY <1>1, <1>2, <1>3, <1>4, <1>5, RequestGoes

(* The same, of a request that has ended.                                  *)
LEMMA RequestEnds ==
  ASSUME IInv, NEW r \in Requests, NEW place \in {"done", "failed"},
         Ends(r, place), UNCHANGED <<call, release>>,
         overtaken \subseteq overtaken',
         draft' \in [Paywalls -> SUBSET DraftRow]
  PROVE  IInv'
<1>1. place \in Places /\ Go(r, place) /\ Read(r, Unread)
  BY DEF Ends, Places
<1>2. Knows(call[r], place, Unread)
  BY NothingToKnow, UnreadHasShape
<1> QED BY <1>1, <1>2, RequestMoves

(* The same, of a request that reads or writes something else than releases. *)
LEMMA RequestElsewhere ==
  ASSUME IInv, NEW r \in Requests, NEW place \in Places, NEW x,
         place \notin {"lookUp", "snapshot", "apply", "commit"},
         call[r].op = "draft" => place # "write", Shape(x),
         Go(r, place), Read(r, x), UNCHANGED <<call, release, draft>>,
         overtaken \subseteq overtaken'
  PROVE  IInv'
<1>1. Knows(call[r], place, x)
  BY NothingToKnow
<1>2. draft' \in [Paywalls -> SUBSET DraftRow]
  BY DEF IInv, ReleaseTypes
<1> QED BY <1>1, <1>2, RequestMoves

LEMMA SeenStays ==
  ASSUME IInv, NEW r \in Requests, UNCHANGED seen
  PROVE  Read(r, seen[r]) /\ Shape(seen[r])
<1>1. seen = [q \in Requests |-> seen[q]] /\ Shape(seen[r])
  BY DEF IInv, ReleaseTypes, AllKnow, Knows
<1> QED BY <1>1 DEF Read

-----------------------------------------------------------------------------
(* Drafts and what precedes an activation. *)

LEMMA DraftStep ==
  ASSUME IInv, NEW r \in Requests, ReadDraft(r) \/ WriteDraft(r)
  PROVE  IInv'
<1>0. call[r] \in CallType /\ draft \in [Paywalls -> SUBSET DraftRow]
  BY DEF IInv, ReleaseTypes
<1>1. CASE ReadDraft(r)
  <2> DEFINE p == call[r].paywall
  <2>0. call[r].op = "draft" /\ p \in Paywalls
    BY <1>0, <1>1, PaywallOfCall DEF ReadDraft, Begins, ReleaseCalls
  <2>1. PICK v \in Versions, found \in {d.by : d \in draft[p]} \cup {r} :
          Read(r, [Unread EXCEPT !.version = v, !.by = found])
    BY <1>1 DEF ReadDraft
  <2> DEFINE x == [Unread EXCEPT !.version = v, !.by = found]
  <2>2. found \in Requests
    BY <1>0, <2>0 DEF DraftRow
  <2>3. Shape(x) /\ x.version \in Versions /\ x.by \in Requests
    BY <2>2, UnreadHasShape DEF Shape, Fields
  <2>4. Knows(call[r], "write", x)
    BY <2>3 DEF Knows
  <2>5. Read(r, x) /\ Go(r, "write") /\ UNCHANGED <<call, release, draft, overtaken>>
    BY <1>1, <2>1 DEF ReadDraft, tables, history
  <2>6. "write" \in Places
    BY DEF Places
  <2> HIDE DEF x
  <2> QED BY <1>0, <2>4, <2>5, <2>6, RequestMoves
<1>2. CASE WriteDraft(r)
  <2> DEFINE p == call[r].paywall
  <2>1. /\ call[r].op = "draft" /\ p \in Paywalls /\ call[r].content \in Contents
        /\ seen[r].by \in Requests /\ seen[r].version \in Versions
    BY <1>0, <1>2, PaywallOfCall DEF WriteDraft, Is, ReleaseCalls, IInv, AllKnow, Knows
  <2> DEFINE d == [by |-> seen[r].by, version |-> seen[r].version, content |-> call[r].content]
  <2>2. d \in DraftRow
    BY <2>1 DEF DraftRow
  <2>3. draft' = [draft EXCEPT ![p] = {e \in draft[p] : e.by # seen[r].by} \cup {d}]
    BY <1>2 DEF WriteDraft
  <2>4. draft' \in [Paywalls -> SUBSET DraftRow]
    <3> HIDE DEF d
    <3> QED BY <1>0, <2>1, <2>2, <2>3
  <2>5. Ends(r, "done") /\ UNCHANGED <<call, release, overtaken>>
    BY <1>2 DEF WriteDraft, history
  <2> QED BY <2>4, <2>5, RequestEnds
<1> QED BY <1>1, <1>2

LEMMA PublishStep ==
  ASSUME IInv, NEW r \in Requests, ReadPublish(r) \/ LookUpReleased(r)
  PROVE  IInv'
<1>0. call[r] \in CallType /\ draft \in [Paywalls -> SUBSET DraftRow] /\ Knows(call[r], at[r], seen[r])
  BY DEF IInv, ReleaseTypes, AllKnow
<1>1. CASE ReadPublish(r)
  <2>0. call[r].op = "publish" /\ call[r].paywall \in Paywalls
    BY <1>0, <1>1, PaywallOfCall DEF ReadPublish, Begins, ReleaseCalls
  <2>1. PICK d \in draft[call[r].paywall] :
          Read(r, [Unread EXCEPT !.version = d.version, !.content = d.content])
    BY <1>1 DEF ReadPublish
  <2> DEFINE x == [Unread EXCEPT !.version = d.version, !.content = d.content]
  <2>2. d.version \in Versions /\ d.content \in Contents
    BY <1>0, <2>0 DEF DraftRow
  <2>3. Shape(x) /\ x.version \in Versions /\ x.content \in Contents
    BY <2>2, UnreadHasShape DEF Shape, Fields
  <2>4. Knows(call[r], "lookUp", x)
    BY <2>0, <2>3 DEF Knows
  <2>5. Read(r, x) /\ Go(r, "lookUp") /\ UNCHANGED <<call, release, draft, overtaken>>
    BY <1>1, <2>1 DEF ReadPublish, tables, history
  <2>6. "lookUp" \in Places
    BY DEF Places
  <2> HIDE DEF x
  <2> QED BY <1>0, <2>4, <2>5, <2>6, RequestMoves
<1>2. CASE LookUpReleased(r)
  <2> DEFINE y == seen[r]
             new == y.version \notin Released(call[r].paywall)
             x == [y EXCEPT !.fresh = new]
  <2>1. call[r].paywall \in Paywalls /\ y.version \in Versions /\ y.content \in Contents /\ Shape(y)
    BY <1>0, <1>2 DEF LookUpReleased, Is, Knows
  <2>2. /\ x.version = y.version /\ x.content = y.content /\ (x.fresh <=> new)
        /\ Shape(x)
    BY <2>1 DEF Shape, Fields
  <2>3. Activates(call[r], x)
    BY <2>1, <2>2 DEF Activates
  <2>4. Knows(call[r], "snapshot", x)
    BY <2>2, <2>3 DEF Knows
  <2>5. Read(r, x) /\ Go(r, "snapshot") /\ UNCHANGED <<call, release, draft, overtaken>>
    BY <1>2 DEF LookUpReleased, tables, history
  <2>6. "snapshot" \in Places
    BY DEF Places
  <2> HIDE DEF x
  <2> QED BY <1>0, <2>4, <2>5, <2>6, RequestMoves
<1> QED BY <1>1, <1>2

LEMMA ActivateStep ==
  ASSUME IInv, NEW r \in Requests, ReadActivate(r) \/ ReadPaywall(r)
  PROVE  IInv'
<1>0. call[r] \in CallType /\ draft \in [Paywalls -> SUBSET DraftRow]
  BY DEF IInv, ReleaseTypes
<1>1. CASE ReadActivate(r)
  <2>0. call[r].paywall \in Paywalls
    BY <1>0, <1>1, PaywallOfCall DEF ReadActivate, Begins, ReleaseCalls
  <2> DEFINE follows == (source[call[r].paywall] = "code")
  <2>1. PICK v \in Released(call[r].paywall) :
          Read(r, [Unread EXCEPT !.version = v, !.follow = follows])
    BY <1>1 DEF ReadActivate
  <2> DEFINE x == [Unread EXCEPT !.version = v, !.follow = follows]
  <2>2. Shape(x) /\ x.version = v /\ ~x.fresh
    BY UnreadHasShape DEF Shape, Fields
  <2>3. v \in Versions
    BY DEF Released
  <2>4. Activates(call[r], x)
    <3> HIDE DEF x
    <3> QED BY <2>0, <2>2, <2>3 DEF Activates
  <2>5. Knows(call[r], "snapshot", x)
    <3> HIDE DEF x
    <3> QED BY <2>2, <2>4 DEF Knows
  <2>6. Read(r, x) /\ Go(r, "snapshot") /\ UNCHANGED <<call, release, draft, overtaken>>
    BY <1>1, <2>1 DEF ReadActivate, tables, history
  <2>7. "snapshot" \in Places
    BY DEF Places
  <2> HIDE DEF x
  <2> QED BY <1>0, <2>5, <2>6, <2>7, RequestMoves
<1>2. CASE ReadPaywall(r)
  <2>1. PICK place \in {"create", "adopt"} : Go(r, place)
    BY <1>2 DEF ReadPaywall
  <2>2. UNCHANGED <<call, release, draft, overtaken, seen>> /\ place \in Places
    BY <1>2 DEF ReadPaywall, tables, history, Places
  <2> QED BY <2>1, <2>2, SeenStays, RequestElsewhere
<1> QED BY <1>1, <1>2

LEMMA ChooseStep ==
  ASSUME IInv, NEW r \in Requests, KeepActive(r) \/ ChooseRelease(r)
  PROVE  IInv'
<1>0. call[r] \in CallType /\ draft \in [Paywalls -> SUBSET DraftRow]
  BY DEF IInv, ReleaseTypes
<1>1. CASE KeepActive(r)
  <2>1. Ends(r, "done") /\ UNCHANGED <<call, release, draft, overtaken>>
    BY <1>1 DEF KeepActive
  <2> QED BY <1>0, <2>1, RequestEnds
<1>2. CASE ChooseRelease(r)
  <2> DEFINE p == call[r].paywall
             Seen(v, new) == [Unread EXCEPT !.version = v, !.content = call[r].content,
                                            !.fresh = new, !.follow = TRUE]
  <2>0. p \in Paywalls /\ call[r].content \in Contents
    BY <1>0, <1>2, PaywallOfCall DEF ChooseRelease, WritesPaywall, Is, ReleaseCalls
  <2>1. PICK v \in Versions, new \in BOOLEAN :
          Read(r, Seen(v, new)) /\ (~new => v \in Released(p))
    BY <1>2 DEF ChooseRelease, Released
  <2> DEFINE x == Seen(v, new)
  <2>2. Shape(x) /\ x.version = v /\ x.fresh = new /\ x.content = call[r].content
    BY UnreadHasShape DEF Shape, Fields
  <2>3. Activates(call[r], x)
    <3> HIDE DEF x
    <3> QED BY <2>0, <2>1, <2>2 DEF Activates
  <2>4. Knows(call[r], "snapshot", x)
    <3> HIDE DEF x
    <3> QED BY <2>2, <2>3 DEF Knows
  <2>5. Read(r, x) /\ Go(r, "snapshot") /\ UNCHANGED <<call, release, draft, overtaken>>
    BY <1>2, <2>1 DEF ChooseRelease, tables, history
  <2>6. "snapshot" \in Places
    BY DEF Places
  <2> HIDE DEF x
  <2> QED BY <1>0, <2>4, <2>5, <2>6, RequestMoves
<1> QED BY <1>1, <1>2

-----------------------------------------------------------------------------
(* The activation transaction. *)

LEMMA ActivationKnows ==
  ASSUME IInv, NEW r \in Requests, at[r] \in {"snapshot", "apply", "commit"}
  PROVE  /\ Shape(seen[r]) /\ Activates(call[r], seen[r])
         /\ at[r] = "commit" => Holds(call[r], seen[r])
  BY DEF IInv, AllKnow, Knows

LEMMA SnapshotStep ==
  ASSUME IInv, NEW r \in Requests, Snapshot(r)
  PROVE  IInv'
<1> DEFINE y == seen[r]
           x == [y EXCEPT !.active = Active(call[r].paywall)]
<1>1. Shape(y) /\ Activates(call[r], y)
  BY ActivationKnows DEF Snapshot, Is
<1>2. /\ Shape(x) /\ x.version = y.version /\ x.content = y.content /\ x.fresh = y.fresh
  BY <1>1 DEF Shape, Fields
<1>3. Read(r, x) /\ Go(r, "apply") /\ UNCHANGED <<call, release, draft, overtaken>>
  BY DEF Snapshot, tables, history
<1>4. "apply" \in Places /\ draft' \in [Paywalls -> SUBSET DraftRow]
  BY <1>3 DEF Places, IInv, ReleaseTypes
<1> HIDE DEF x
<1>5. Activates(call[r], x)
  BY <1>1, <1>2 DEF Activates
<1>6. Knows(call[r], "apply", x)
  BY <1>2, <1>5 DEF Knows
<1> QED BY <1>3, <1>4, <1>6, RequestMoves

LEMMA ApplyStep ==
  ASSUME IInv, NEW r \in Requests, Apply(r)
  PROVE  IInv'
<1>1. PICK c, p, y : c = call[r] /\ p = c.paywall /\ y = seen[r]
  OBVIOUS
<1>2. Shape(y) /\ Activates(c, y)
  BY <1>1, ActivationKnows DEF Apply, Is
<1>3. PICK locks, rows :
        /\ locks = (y.active \cap Active(p)) \cup {y.version}
        /\ Read(r, [y EXCEPT !.held = locks, !.rows = rows])
  BY <1>1 DEF Apply, ToClear
<1> DEFINE x == [y EXCEPT !.held = locks, !.rows = rows]
<1>4. /\ Shape(x) /\ x.version = y.version /\ x.content = y.content /\ x.fresh = y.fresh
      /\ x.held = locks /\ x.active = y.active
  BY <1>2 DEF Shape, Fields
<1>5. overtaken' = IF Active(p) = y.active THEN overtaken ELSE overtaken \cup {p}
  BY <1>1 DEF Apply
<1>6. /\ Read(r, x) /\ Go(r, "commit") /\ UNCHANGED <<call, release, draft>>
      /\ "commit" \in Places /\ overtaken \subseteq overtaken'
  BY <1>3, <1>5 DEF Apply, tables, Places
<1> HIDE DEF x
<1>7. \A q \in Paywalls : Released(q)' = Released(q) /\ Active(q)' = Active(q)
  BY <1>6 DEF Released, Active
<1>8. Activates(c, x)'
  BY <1>2, <1>4, <1>7 DEF Activates
<1>9. Holds(c, x)'
  <2>1. x.held \subseteq Released(c.paywall)' \cup {x.version}
    BY <1>1, <1>2, <1>3, <1>4, <1>7 DEF Activates, Active
  <2>2. c.paywall \notin overtaken' => x.active \subseteq x.held
    BY <1>1, <1>3, <1>4, <1>5
  <2> QED BY <2>1, <2>2 DEF Holds
<1>10. Knows(c, "commit", x)'
  BY <1>4, <1>8, <1>9 DEF Knows, Shape
<1>11. ActiveRelease'
  BY <1>6, <1>7 DEF IInv, ActiveRelease
<1>12. /\ draft' \in [Paywalls -> SUBSET DraftRow]
       /\ release' \in [Paywalls -> [Versions -> Release \cup {None}]]
  BY <1>6 DEF IInv, ReleaseTypes
<1> QED BY <1>1, <1>6, <1>7, <1>10, <1>11, <1>12, RequestGoes

LEMMA CommitStep ==
  ASSUME NoneAssumption, IInv, NEW r \in Requests, Commit(r)
  PROVE  IInv'
<1>1. PICK c, p, y, v : c = call[r] /\ p = c.paywall /\ y = seen[r] /\ v = y.version
  OBVIOUS
<1>2. Activates(c, y) /\ Holds(c, y) /\ p \in Paywalls /\ v \in Versions
  BY <1>1, ActivationKnows DEF Commit, Is, Activates
<1> DEFINE row(u) ==
      IF u = v THEN [content |-> IF y.fresh THEN y.content ELSE release[p][v].content,
                     active |-> TRUE]
      ELSE IF u \in y.held THEN [release[p][u] EXCEPT !.active = FALSE]
      ELSE release[p][u]
<1>3. release' = [release EXCEPT ![p] = [u \in Versions |-> row(u)]]
  BY <1>1 DEF Commit
<1>4. release \in [Paywalls -> [Versions -> Release \cup {None}]]
  BY DEF IInv, ReleaseTypes
<1>5. row(v) \in Release /\ row(v).active
  <2>1. (IF y.fresh THEN y.content ELSE release[p][v].content) \in Contents
    BY <1>1, <1>2, <1>4 DEF Activates, Released, Release
  <2> QED BY <2>1 DEF Release
<1>6. ASSUME NEW u \in Versions, u # v
      PROVE  /\ row(u) \in Release \cup {None}
             /\ row(u) = None <=> release[p][u] = None
             /\ row(u) # None /\ row(u).active => release[p][u].active /\ u \notin y.held
  <2>1. CASE u \in y.held
    <3>1. release[p][u] \in Release
      BY <1>1, <1>2, <1>4, <1>6, <2>1 DEF Holds, Released
    <3>2. /\ [release[p][u] EXCEPT !.active = FALSE] \in Release
          /\ ~[release[p][u] EXCEPT !.active = FALSE].active
      BY <3>1 DEF Release
    <3> QED BY <1>6, <2>1, <3>1, <3>2 DEF NoneAssumption
  <2>2. CASE u \notin y.held
    BY <1>2, <1>4, <1>6, <2>2
  <2> QED BY <2>1, <2>2
<1> HIDE DEF row
<1>7. \A q \in Paywalls, u \in Versions :
        release'[q][u] = IF q = p THEN row(u) ELSE release[q][u]
  BY <1>2, <1>3, <1>4
<1>8. release' \in [Paywalls -> [Versions -> Release \cup {None}]]
  <2>1. [u \in Versions |-> row(u)] \in [Versions -> Release \cup {None}]
    BY <1>5, <1>6
  <2> QED BY <1>2, <1>3, <1>4, <2>1
<1>9. \A q \in Paywalls : Released(q) \subseteq Released(q)'
  BY <1>5, <1>6, <1>7 DEF Released, NoneAssumption
<1>10. v \in Active(p)'
  BY <1>2, <1>5, <1>7 DEF Active, Released, NoneAssumption
<1>11. /\ overtaken \subseteq overtaken'
       /\ p \notin overtaken' => Active(p) = y.active
  BY <1>1 DEF Commit
<1>12. p \notin overtaken' => Active(p)' \subseteq {v}
  <2> SUFFICES ASSUME p \notin overtaken', NEW u \in Active(p)', u # v PROVE FALSE
    OBVIOUS
  <2>1. u \in Versions /\ row(u) # None /\ row(u).active
    BY <1>2, <1>7 DEF Active, Released
  <2>2. release[p][u] # None /\ release[p][u].active /\ u \notin y.held
    BY <1>6, <2>1
  <2>3. u \in y.active
    BY <1>11, <2>1, <2>2 DEF Active, Released
  <2> QED BY <1>1, <1>2, <1>11, <2>2, <2>3 DEF Holds
<1>13. \A q \in Paywalls \ {p} : Released(q)' = Released(q) /\ Active(q)' = Active(q)
  BY <1>7 DEF Released, Active
<1>14. ActiveRelease'
  <2> SUFFICES ASSUME NEW q \in Paywalls, Released(q)' # {}
               PROVE  /\ Active(q)' # {}
                      /\ q \notin overtaken' => \A u, w \in Active(q)' : u = w
    BY DEF ActiveRelease
  <2>1. CASE q = p
    BY <1>10, <1>12, <2>1
  <2>2. CASE q # p
    BY <1>11, <1>13, <2>2 DEF IInv, ActiveRelease
  <2> QED BY <2>1, <2>2
<1>15. /\ Go(r, "done") /\ Read(r, Unread) /\ UNCHANGED <<call, draft>>
       /\ "done" \in Places /\ draft' \in [Paywalls -> SUBSET DraftRow]
  BY DEF Commit, Ends, Places, IInv, ReleaseTypes
<1>16. Knows(c, "done", Unread)'
  <2>1. Knows(c, "done", Unread)
    BY NothingToKnow, UnreadHasShape
  <2> QED BY <2>1, <1>9, <1>11, KnowledgeStays
<1> QED BY <1>1, <1>8, <1>9, <1>11, <1>14, <1>15, <1>16, RequestGoes

-----------------------------------------------------------------------------
(* Requests on locations and experiments write no release. *)

LEMMA FailStep ==
  ASSUME IInv, NEW r \in Requests, Fail(r)
  PROVE  IInv'
<1>1. Ends(r, "failed") /\ UNCHANGED <<call, release, draft, overtaken>>
  BY DEF Fail, tables, history
<1>2. draft' \in [Paywalls -> SUBSET DraftRow]
  BY <1>1 DEF IInv, ReleaseTypes
<1> QED BY <1>1, <1>2, RequestEnds

(* A request on a location or an experiment ends. *)
LEMMA LastSteps ==
  ASSUME IInv, NEW r \in Requests,
         Clear(r) \/ Assign(r) \/ Save(r) \/ Start(r) \/ Pause(r) \/ Conclude(r)
           \/ Archive(r) \/ Restore(r)
  PROVE  IInv'
<1>1. Ends(r, "done") /\ UNCHANGED <<call, release, draft>>
  BY DEF Clear, Assign, Save, Start, Pause, Conclude, Archive, Restore, ReplaceShowings
<1>2. overtaken \subseteq overtaken'
  BY DEF Clear, Assign, Save, Start, Pause, Conclude, Archive, Restore, history
<1>3. draft' \in [Paywalls -> SUBSET DraftRow]
  BY <1>1 DEF IInv, ReleaseTypes
<1> QED BY <1>1, <1>2, <1>3, RequestEnds

(* It reads, and keeps what it has read for a later step. *)
LEMMA FirstSteps ==
  ASSUME IInv, NEW r \in Requests,
         ReadAssign(r) \/ ReadSave(r) \/ ReadStart(r) \/ ReadPause(r) \/ ReadConclude(r)
           \/ ReadArchive(r)
  PROVE  IInv'
<1>1. PICK place \in {"collect", "write", "enable", "disable"} :
        Go(r, place) /\ (call[r].op = "draft" => place # "write")
  BY DEF ReadAssign, ReadSave, ReadStart, ReadPause, ReadConclude, ReadArchive,
         ReadExperiment, Begins
<1>2. PICK x : Read(r, x) /\ Shape(x)
  <2>1. CASE ReadAssign(r)
    <3>1. PICK pins : Read(r, [Unread EXCEPT !.pins = pins])
      BY <2>1 DEF ReadAssign
    <3> QED BY <3>1, UnreadHasShape DEF Shape, Fields
  <2>2. ASSUME NEW op, NEW to, ReadExperiment(r, op, to)
        PROVE  \E x : Read(r, x) /\ Shape(x)
    <3>1. PICK status, setup :
            Read(r, [Unread EXCEPT !.status = status, !.setup = setup])
      BY <2>2 DEF ReadExperiment
    <3> DEFINE x == [Unread EXCEPT !.status = status, !.setup = setup]
    <3>2. Shape(x)
      BY UnreadHasShape DEF Shape, Fields
    <3> HIDE DEF x
    <3> QED BY <3>1, <3>2 DEF x
  <2>3. CASE ReadSave(r)
    BY <2>2, <2>3 DEF ReadSave
  <2>4. CASE ReadStart(r)
    BY <2>2, <2>4 DEF ReadStart
  <2>5. CASE ReadPause(r) \/ ReadConclude(r) \/ ReadArchive(r)
    BY <2>2, <2>5 DEF ReadPause, ReadConclude, ReadArchive
  <2> QED BY <2>1, <2>3, <2>4, <2>5
<1>3. UNCHANGED <<call, release, draft, overtaken>>
  BY DEF ReadAssign, ReadSave, ReadStart, ReadPause, ReadConclude, ReadArchive,
         ReadExperiment, tables, history
<1> QED BY <1>1, <1>2, <1>3, RequestElsewhere DEF Places

(* It collects rows, chooses what to show, or switches the flag. *)
LEMMA MiddleSteps ==
  ASSUME IInv, NEW r \in Requests,
         SnapshotShowings(r) \/ EnableFlag(r) \/ DisableFlag(r) \/ ChooseWinners(r)
  PROVE  IInv'
<1>1. PICK place \in {"collect", "choose", "switch", "write"} :
        Go(r, place) /\ (call[r].op = "draft" => place # "write")
  BY DEF SnapshotShowings, EnableFlag, DisableFlag, ChooseWinners, Is
<1>2. Shape(seen[r])
  BY DEF IInv, AllKnow, Knows
<1>3. PICK x : Read(r, x) /\ Shape(x)
  <2>1. CASE \E S : Read(r, [seen[r] EXCEPT !.rows = S])
    BY <1>2, <2>1 DEF Shape, Fields
  <2>2. CASE \E S : Read(r, [seen[r] EXCEPT !.pins = S])
    BY <1>2, <2>2 DEF Shape, Fields
  <2>3. CASE DisableFlag(r)
    BY <2>3, SeenStays DEF DisableFlag
  <2> QED BY <2>1, <2>2, <2>3 DEF SnapshotShowings, EnableFlag, ChooseWinners
<1>4. UNCHANGED <<call, release, draft, overtaken>>
  BY DEF SnapshotShowings, EnableFlag, DisableFlag, ChooseWinners, tables, history
<1> QED BY <1>1, <1>3, <1>4, RequestElsewhere DEF Places

-----------------------------------------------------------------------------
LEMMA InitialReleases ==
  ASSUME CallsAssumption, StartsAssumption, Init
  PROVE  IInv
<1>1. PICK s \in Starts : release = s.release
  BY DEF Init
<1>2. /\ s \in StartType
      /\ \A p \in Paywalls :
           LET released == {v \in Versions : s.release[p][v] # None}
               active == {v \in released : s.release[p][v].active} IN
           /\ released # {} => active # {} /\ s.source[p] # None
           /\ \A u, v \in active : u = v
  BY DEF StartsAssumption
<1>3. ReleaseTypes
  <2>1. release \in [Paywalls -> [Versions -> Release \cup {None}]]
    BY <1>1, <1>2 DEF StartType
  <2>2. /\ call \in [Requests -> CallType] /\ draft \in [Paywalls -> SUBSET DraftRow]
        /\ at \in [Requests -> Places] /\ seen = [r \in Requests |-> seen[r]]
    BY DEF Init, CallsAssumption, Places
  <2> QED BY <2>1, <2>2 DEF ReleaseTypes
<1>4. AllKnow
  BY NothingToKnow, UnreadHasShape DEF Init, AllKnow
<1>5. ActiveRelease
  BY <1>1, <1>2 DEF ActiveRelease, Active, Released
<1> QED BY <1>3, <1>4, <1>5 DEF IInv

LEMMA IInvIsInductive ==
  ASSUME NoneAssumption, IInv, [Next]_vars
  PROVE  IInv'
<1>1. ASSUME NEW r \in Requests, Fail(r) PROVE IInv'
  BY <1>1, FailStep
<1>2. ASSUME NEW r \in Requests, Releasing(r) PROVE IInv'
  BY <1>2, DraftStep, PublishStep, ActivateStep, ChooseStep, SnapshotStep, ApplyStep,
     CommitStep DEF Releasing
<1>3. ASSUME NEW r \in Requests, Showing(r) PROVE IInv'
  BY <1>3, FirstSteps, MiddleSteps, LastSteps DEF Showing
<1>4. ASSUME NEW r \in Requests, Experimenting(r) PROVE IInv'
  BY <1>4, FirstSteps, MiddleSteps, LastSteps DEF Experimenting
<1>5. CASE UNCHANGED vars
  <2>1. UNCHANGED <<call, draft, release, at, seen, overtaken>>
    BY <1>5 DEF vars, tables, history
  <2>2. \A p \in Paywalls : Released(p)' = Released(p) /\ Active(p)' = Active(p)
    BY <2>1 DEF Released, Active
  <2>3. AllKnow'
    <3> SUFFICES ASSUME NEW q \in Requests PROVE Knows(call[q], at[q], seen[q])'
      BY DEF AllKnow
    <3>1. PICK c, l, y : c = call[q] /\ l = at[q] /\ y = seen[q]
      OBVIOUS
    <3>2. Knows(c, l, y)
      BY <3>1 DEF IInv, AllKnow
    <3>3. Knows(c, l, y)'
      BY <2>1, <2>2, <3>2, KnowledgeStays
    <3> QED BY <2>1, <3>1, <3>3
  <2> QED BY <2>1, <2>2, <2>3 DEF IInv, ReleaseTypes, ActiveRelease
<1> QED BY <1>1, <1>2, <1>3, <1>4, <1>5 DEF Next

(* The inductive invariant holds of every reachable state.                 *)
THEOREM ReleasesInvariant == Spec => []IInv
<1>1. Init => IInv
  BY CallsAssumption, StartsAssumption, InitialReleases
<1>2. IInv /\ [Next]_vars => IInv'
  BY NoneAssumption, IInvIsInductive
<1> QED BY <1>1, <1>2, PTL DEF Spec

(* Every paywall with a release has an active one, and no second one unless *)
(* two activations of it crossed.                                           *)
THEOREM OneActiveRelease == Spec => []ActiveRelease
<1>1. IInv => ActiveRelease
  BY DEF IInv
<1> QED BY <1>1, ReleasesInvariant, PTL

-----------------------------------------------------------------------------
(* Showings: a location shows one thing at a time, and a concluded         *)
(* experiment stays concluded, unless requests cross on it.                *)

PinFields == {"location", "paywall", "version", "flag"}
PinShape(x) == x = [f \in PinFields |-> x[f]]
ExperimentFields == {"status", "enabled", "archived", "setup"}

(* Where a request replaces showings.                                      *)
Goals(c, x) == IF c.op = "assign" THEN {c.location} ELSE Targets(x.setup)

(* What a request will show: one pin per location, of the locations it     *)
(* clears.  A start or a pause has not seen a concluded experiment.        *)
Prepared(c, place, x) ==
  /\ \A s \in x.rows : PinShape(s.pin)
  /\ \A y \in x.pins : PinShape(y)
  /\ \A y, z \in x.pins : y.location = z.location => y = z
  /\ place \in {"enable", "disable"} \/ c.op \in ReleaseCalls => x.pins = {}
  /\ place \in {"collect", "choose", "switch"} => \A y \in x.pins : y.location \in Goals(c, x)
  /\ c.op \in {"start", "pause"} /\ place \notin {"idle", "done", "failed"} =>
       x.status # "concluded"

AllPrepared == \A r \in Requests : Prepared(call[r], at[r], seen[r])
OpenShapes == \A s \in open : PinShape(s.pin)
ExperimentShapes ==
  /\ experiment = [e \in Experiments |-> experiment[e]]
  /\ \A e \in Experiments : experiment[e] = [f \in ExperimentFields |-> experiment[e][f]]

ShowInv == AllPrepared /\ OpenShapes /\ ExperimentShapes /\ OneShowing

(* A step keeps the experiments' shape, and those concluded stay so.       *)
Final ==
  /\ ExperimentShapes'
  /\ \A e \in Experiments :
       experiment[e].status = "concluded" =>
         experiment'[e].status = "concluded" \/ e \in overtaken'

-----------------------------------------------------------------------------
LEMMA ReplacedAreGoals ==
  ASSUME NEW r \in Requests
  PROVE  Replaced(r) = Goals(call[r], seen[r])
  BY DEF Replaced, Goals

LEMMA NothingPrepared ==
  ASSUME NEW c, NEW place \in {"done", "failed"}
  PROVE  Prepared(c, place, Unread)
<1>1. Unread.rows = {} /\ Unread.pins = {}
  BY DEF Unread
<1> QED BY <1>1 DEF Prepared

(* One request takes a step; the showings at each location stay one.       *)
LEMMA ShowingGoes ==
  ASSUME IInv, ShowInv, NEW r \in Requests, NEW place, NEW x,
         Prepared(call[r], place, x), Go(r, place), Read(r, x), UNCHANGED call,
         OpenShapes', OneShowing', ExperimentShapes'
  PROVE  ShowInv'
<1>1. /\ at \in [Requests -> Places] /\ seen = [q \in Requests |-> seen[q]]
      /\ at' = [at EXCEPT ![r] = place] /\ seen' = [seen EXCEPT ![r] = x]
  BY DEF IInv, ReleaseTypes, Go, Read
<1>2. ASSUME NEW q \in Requests PROVE Prepared(call[q], at[q], seen[q])'
  <2>1. CASE q = r
    <3>1. at'[q] = place /\ seen'[q] = x
      BY <1>1, <2>1
    <3> QED BY <2>1, <3>1 DEF Prepared, Goals
  <2>2. CASE q # r
    <3>1. at'[q] = at[q] /\ seen'[q] = seen[q]
      BY <1>1, <2>2
    <3>2. Prepared(call[q], at[q], seen[q])
      BY DEF ShowInv, AllPrepared
    <3> QED BY <3>1, <3>2 DEF Prepared, Goals
  <2> QED BY <2>1, <2>2
<1> QED BY <1>2 DEF ShowInv, AllPrepared

(* No showing is opened: locations stay as they are or go dark.            *)
LEMMA NothingOpened ==
  ASSUME ShowInv, open' \subseteq open, overtaken \subseteq overtaken'
  PROVE  OpenShapes' /\ OneShowing'
  BY DEF ShowInv, OpenShapes, OneShowing, OpenAt

LEMMA ShowingStays ==
  ASSUME IInv, ShowInv, NEW r \in Requests, NEW place, NEW x,
         Prepared(call[r], place, x), Go(r, place), Read(r, x), UNCHANGED call,
         open' \subseteq open, overtaken \subseteq overtaken', Final
  PROVE  ShowInv' /\ Final
  BY NothingOpened, ShowingGoes DEF Final

LEMMA NothingConcluded ==
  ASSUME ShowInv, UNCHANGED experiment
  PROVE  Final
  BY DEF ShowInv, ExperimentShapes, Final

(* An experiment row is written; its status is kept, or it becomes         *)
(* concluded, or was not so, or was written by another request meanwhile.  *)
LEMMA ExperimentChanges ==
  ASSUME ShowInv, NEW e \in Experiments, NEW f \in ExperimentFields, NEW w,
         Change(e, [experiment[e] EXCEPT ![f] = w]),
         f = "status" =>
           \/ w = "concluded" \/ experiment[e].status # "concluded" \/ e \in overtaken'
  PROVE  Final
<1>1. /\ experiment = [d \in Experiments |-> experiment[d]]
      /\ \A d \in Experiments : experiment[d] = [g \in ExperimentFields |-> experiment[d][g]]
      /\ experiment' = [experiment EXCEPT ![e] = [experiment[e] EXCEPT ![f] = w]]
  BY DEF ShowInv, ExperimentShapes, Change
<1>2. \A d \in Experiments :
        experiment'[d] = IF d = e THEN [experiment[e] EXCEPT ![f] = w] ELSE experiment[d]
  BY <1>1
<1>3. experiment' = [d \in Experiments |-> experiment'[d]]
  BY <1>1
<1>4. \A g \in ExperimentFields :
        experiment'[e][g] = IF g = f THEN w ELSE experiment[e][g]
  BY <1>1, <1>2
<1>5. experiment'[e] = [g \in ExperimentFields |-> experiment'[e][g]]
  BY <1>1, <1>2
<1>6. ExperimentShapes'
  BY <1>1, <1>2, <1>3, <1>5 DEF ExperimentShapes
<1>7. experiment[e].status = "concluded" =>
        experiment'[e].status = "concluded" \/ e \in overtaken'
  BY <1>4 DEF ExperimentFields
<1> QED BY <1>2, <1>6, <1>7 DEF Final

-----------------------------------------------------------------------------
LEMMA SeenIsPrepared ==
  ASSUME IInv, ShowInv, NEW r \in Requests
  PROVE  Prepared(call[r], at[r], seen[r]) /\ Shape(seen[r]) /\ call[r] \in CallType
  BY DEF IInv, ReleaseTypes, AllKnow, Knows, ShowInv, AllPrepared

LEMMA EmptyIsPrepared ==
  ASSUME NEW c, NEW place, NEW x, x.rows = {}, x.pins = {},
         c.op \in {"start", "pause"} => x.status # "concluded"
  PROVE  Prepared(c, place, x)
  BY DEF Prepared

(* A request on releases collects no location and starts no experiment.    *)
LEMMA ReleaseIsPrepared ==
  ASSUME NEW c, c.op \in ReleaseCalls, NEW place, NEW x,
         place \notin {"enable", "disable", "collect", "choose", "switch"},
         \A s \in x.rows : PinShape(s.pin), x.pins = {}
  PROVE  Prepared(c, place, x)
  BY DEF Prepared, ReleaseCalls

LEMMA UnreadIsEmpty == Shape(Unread) /\ Unread.rows = {} /\ Unread.pins = {}
  BY UnreadHasShape DEF Unread

(* Steps of requests on releases, but for the commit of an activation. *)
LEMMA ReleaseReads ==
  ASSUME IInv, ShowInv, NEW r \in Requests,
         ReadDraft(r) \/ ReadPublish(r) \/ ReadActivate(r) \/ ChooseRelease(r)
  PROVE  ShowInv' /\ Final
<1>1. /\ call[r].op \in ReleaseCalls
      /\ UNCHANGED <<call, open, overtaken, experiment>>
  BY DEF ReadDraft, ReadPublish, ReadActivate, ChooseRelease, WritesPaywall, Begins, Is,
         ReleaseCalls, tables, history
<1>2. PICK place \in {"write", "lookUp", "snapshot"} : Go(r, place)
  BY DEF ReadDraft, ReadPublish, ReadActivate, ChooseRelease
<1>3. PICK x : Read(r, x) /\ x.rows = {} /\ x.pins = {}
  <2>1. ASSUME NEW v, NEW w, Read(r, [Unread EXCEPT !.version = v, !.by = w])
        PROVE  \E x : Read(r, x) /\ x.rows = {} /\ x.pins = {}
    <3> DEFINE x == [Unread EXCEPT !.version = v, !.by = w]
    <3>1. x.rows = {} /\ x.pins = {}
      BY UnreadIsEmpty DEF Shape, Fields
    <3>2. Read(r, x)
      BY <2>1
    <3> HIDE DEF x
    <3> QED BY <3>1, <3>2
  <2>2. ASSUME NEW v, NEW w, Read(r, [Unread EXCEPT !.version = v, !.content = w])
        PROVE  \E x : Read(r, x) /\ x.rows = {} /\ x.pins = {}
    <3> DEFINE x == [Unread EXCEPT !.version = v, !.content = w]
    <3>1. x.rows = {} /\ x.pins = {}
      BY UnreadIsEmpty DEF Shape, Fields
    <3>2. Read(r, x)
      BY <2>2
    <3> HIDE DEF x
    <3> QED BY <3>1, <3>2
  <2>3. ASSUME NEW v, NEW w, Read(r, [Unread EXCEPT !.version = v, !.follow = w])
        PROVE  \E x : Read(r, x) /\ x.rows = {} /\ x.pins = {}
    <3> DEFINE x == [Unread EXCEPT !.version = v, !.follow = w]
    <3>1. x.rows = {} /\ x.pins = {}
      BY UnreadIsEmpty DEF Shape, Fields
    <3>2. Read(r, x)
      BY <2>3
    <3> HIDE DEF x
    <3> QED BY <3>1, <3>2
  <2>4. ASSUME NEW v, NEW w, NEW t, NEW u, Read(r, [Unread EXCEPT !.version = v, !.content = w, !.fresh = t, !.follow = u])
        PROVE  \E x : Read(r, x) /\ x.rows = {} /\ x.pins = {}
    <3> DEFINE x == [Unread EXCEPT !.version = v, !.content = w, !.fresh = t, !.follow = u]
    <3>1. x.rows = {} /\ x.pins = {}
      BY UnreadIsEmpty DEF Shape, Fields
    <3>2. Read(r, x)
      BY <2>4
    <3> HIDE DEF x
    <3> QED BY <3>1, <3>2
  <2>5. CASE ReadDraft(r)
    BY <2>1, <2>5 DEF ReadDraft
  <2>6. CASE ReadPublish(r)
    BY <2>2, <2>6 DEF ReadPublish
  <2>7. CASE ReadActivate(r)
    BY <2>3, <2>7 DEF ReadActivate
  <2>8. CASE ChooseRelease(r)
    BY <2>4, <2>8 DEF ChooseRelease
  <2> QED BY <2>5, <2>6, <2>7, <2>8
<1>4. Prepared(call[r], place, x)
  BY <1>1, <1>3, ReleaseIsPrepared
<1> QED BY <1>1, <1>2, <1>3, <1>4, NothingConcluded, ShowingStays

(* The rows an activation reads are open ones. *)
LEMMA ReleaseGoesOn ==
  ASSUME IInv, ShowInv, NEW r \in Requests,
         LookUpReleased(r) \/ ReadPaywall(r) \/ Snapshot(r) \/ Apply(r)
  PROVE  ShowInv' /\ Final
<1>1. /\ call[r].op \in ReleaseCalls
      /\ UNCHANGED <<call, open, experiment>> /\ overtaken \subseteq overtaken'
  BY DEF LookUpReleased, ReadPaywall, Snapshot, Apply, Begins, Is, Activations,
         ReleaseCalls, tables, history
<1>2. PICK place \in {"snapshot", "create", "adopt", "apply", "commit"} : Go(r, place)
  BY DEF LookUpReleased, ReadPaywall, Snapshot, Apply
<1>3. /\ Shape(seen[r]) /\ \A s \in seen[r].rows : PinShape(s.pin)
  BY SeenIsPrepared DEF Prepared
<1>4. seen[r].pins = {}
  BY <1>1, SeenIsPrepared DEF Prepared
<1>5. PICK x : Read(r, x) /\ x.pins = {} /\ \A s \in x.rows : PinShape(s.pin)
  <2>1. CASE ReadPaywall(r)
    BY <1>3, <1>4, <2>1, SeenStays DEF ReadPaywall
  <2>2. ASSUME NEW w, Read(r, [seen[r] EXCEPT !.fresh = w])
        PROVE  \E x : Read(r, x) /\ x.pins = {} /\ \A s \in x.rows : PinShape(s.pin)
    <3> DEFINE x == [seen[r] EXCEPT !.fresh = w]
    <3>1. x.rows = seen[r].rows /\ x.pins = {}
      BY <1>3, <1>4 DEF Shape, Fields
    <3> HIDE DEF x
    <3> QED BY <1>3, <2>2, <3>1 DEF x
  <2>3. ASSUME NEW w, Read(r, [seen[r] EXCEPT !.active = w])
        PROVE  \E x : Read(r, x) /\ x.pins = {} /\ \A s \in x.rows : PinShape(s.pin)
    <3> DEFINE x == [seen[r] EXCEPT !.active = w]
    <3>1. x.rows = seen[r].rows /\ x.pins = {}
      BY <1>3, <1>4 DEF Shape, Fields
    <3> HIDE DEF x
    <3> QED BY <1>3, <2>3, <3>1 DEF x
  <2>4. CASE Apply(r)
    <3>1. PICK locks, rows : /\ rows \subseteq open
                             /\ Read(r, [seen[r] EXCEPT !.held = locks, !.rows = rows])
      BY <2>4 DEF Apply, Stale
    <3> DEFINE x == [seen[r] EXCEPT !.held = locks, !.rows = rows]
    <3>2. x.rows = rows /\ x.pins = {}
      BY <1>3, <1>4 DEF Shape, Fields
    <3>3. \A s \in rows : PinShape(s.pin)
      BY <3>1 DEF ShowInv, OpenShapes
    <3> HIDE DEF x
    <3> QED BY <3>1, <3>2, <3>3 DEF x
  <2>5. CASE LookUpReleased(r)
    BY <2>2, <2>5 DEF LookUpReleased
  <2>6. CASE Snapshot(r)
    BY <2>3, <2>6 DEF Snapshot
  <2> QED BY <2>1, <2>4, <2>5, <2>6
<1>6. Prepared(call[r], place, x)
  BY <1>1, <1>5, ReleaseIsPrepared
<1> QED BY <1>1, <1>2, <1>5, <1>6, NothingConcluded, ShowingStays

(* A request ends, having opened nothing. *)
LEMMA EndsOpeningNothing ==
  ASSUME IInv, ShowInv, NEW r \in Requests, NEW place \in {"done", "failed"},
         Ends(r, place), UNCHANGED call, open' \subseteq open,
         overtaken \subseteq overtaken', Final
  PROVE  ShowInv' /\ Final
<1>1. Prepared(call[r], place, Unread) /\ Go(r, place) /\ Read(r, Unread)
  BY NothingPrepared DEF Ends
<1> QED BY <1>1, ShowingStays

LEMMA PlainEnds ==
  ASSUME IInv, ShowInv, NEW r \in Requests,
         Fail(r) \/ WriteDraft(r) \/ KeepActive(r) \/ Clear(r)
  PROVE  ShowInv' /\ Final
<1>1. PICK place \in {"done", "failed"} : Ends(r, place)
  BY DEF Fail, WriteDraft, KeepActive, Clear
<1>2. /\ UNCHANGED <<call, experiment>> /\ overtaken \subseteq overtaken'
      /\ open' \subseteq open
  BY DEF Fail, WriteDraft, KeepActive, Clear, tables, history
<1> QED BY <1>1, <1>2, NothingConcluded, EndsOpeningNothing

LEMMA ExperimentEnds ==
  ASSUME IInv, ShowInv, NEW r \in Requests,
         Save(r) \/ Pause(r) \/ Archive(r) \/ Restore(r)
  PROVE  ShowInv' /\ Final
<1>1. Ends(r, "done") /\ UNCHANGED <<call, open>> /\ overtaken \subseteq overtaken'
  BY DEF Save, Pause, Archive, Restore, history
<1>2. PICK e : e = call[r].experiment
  OBVIOUS
<1>3. call[r].op \in {"save", "pause", "archive", "restore"}
  BY DEF Save, Pause, Archive, Restore, Begins, Is
<1>4. e \in Experiments
  BY <1>2, <1>3, SeenIsPrepared DEF CallType
<1>5. ASSUME Pause(r) PROVE Final
  <2>1. seen[r].status # "concluded"
    BY <1>5, SeenIsPrepared DEF Pause, Is, Prepared
  <2>2. experiment[e].status # "concluded" \/ e \in overtaken'
    BY <1>2, <1>5, <2>1 DEF Pause, Changed
  <2>3. Change(e, [experiment[e] EXCEPT !["status"] = "paused"])
    BY <1>2, <1>5 DEF Pause
  <2> QED BY <1>4, <2>2, <2>3, ExperimentChanges DEF ExperimentFields
<1>6. ASSUME NEW f \in ExperimentFields \ {"status"}, NEW w,
             Change(e, [experiment[e] EXCEPT ![f] = w])
      PROVE  Final
  BY <1>4, <1>6, ExperimentChanges
<1>7. ASSUME Save(r) PROVE Final
  <2>1. Change(e, [experiment[e] EXCEPT !["setup"] = call[r].setup])
    BY <1>2, <1>7 DEF Save
  <2> QED BY <1>6, <2>1 DEF ExperimentFields
<1>8. ASSUME Archive(r) \/ Restore(r) PROVE Final
  <2>1. PICK w : Change(e, [experiment[e] EXCEPT !["archived"] = w])
    BY <1>2, <1>8 DEF Archive, Restore
  <2> QED BY <1>6, <2>1 DEF ExperimentFields
<1>9. Final
  BY <1>5, <1>7, <1>8
<1> QED BY <1>1, <1>9, EndsOpeningNothing

-----------------------------------------------------------------------------
(* What a request on a location or an experiment prepares. *)

LEMMA ExperimentReads ==
  ASSUME IInv, ShowInv, NEW r \in Requests,
         ReadSave(r) \/ ReadStart(r) \/ ReadPause(r) \/ ReadConclude(r) \/ ReadArchive(r)
  PROVE  ShowInv' /\ Final
<1> DEFINE e == call[r].experiment
           x == [Unread EXCEPT !.status = experiment[e].status, !.setup = experiment[e].setup]
<1>1. PICK place \in {"write", "enable", "disable"} : Go(r, place)
  BY DEF ReadSave, ReadStart, ReadPause, ReadConclude, ReadArchive, ReadExperiment
<1>2. Read(r, x) /\ UNCHANGED <<call, open, overtaken, experiment>>
  BY DEF ReadSave, ReadStart, ReadPause, ReadConclude, ReadArchive, ReadExperiment,
         tables, history
<1>3. call[r].op \in {"start", "pause"} => experiment[e].status # "concluded"
  BY DEF ReadSave, ReadStart, ReadPause, ReadConclude, ReadArchive, ReadExperiment, Begins
<1>4. x.rows = {} /\ x.pins = {} /\ x.status = experiment[e].status
  BY UnreadIsEmpty DEF Shape, Fields
<1> HIDE DEF x
<1>5. Prepared(call[r], place, x)
  BY <1>3, <1>4, EmptyIsPrepared
<1> QED BY <1>1, <1>2, <1>5, NothingConcluded, ShowingStays

LEMMA AssignReads ==
  ASSUME IInv, ShowInv, NEW r \in Requests, ReadAssign(r)
  PROVE  ShowInv' /\ Final
<1>1. PICK v : Read(r, [Unread EXCEPT !.pins =
                 {[location |-> call[r].location, paywall |-> call[r].paywall,
                   version |-> v, flag |-> None]}])
  BY DEF ReadAssign
<1> DEFINE y == [location |-> call[r].location, paywall |-> call[r].paywall,
                 version |-> v, flag |-> None]
           x == [Unread EXCEPT !.pins = {y}]
<1>2. PinShape(y) /\ y.location = call[r].location
  BY DEF PinShape, PinFields
<1> HIDE DEF y
<1>3. x.rows = {} /\ x.pins = {y}
  BY UnreadIsEmpty DEF Shape, Fields
<1>4. /\ Read(r, x) /\ Go(r, "collect") /\ call[r].op = "assign"
      /\ UNCHANGED <<call, open, overtaken, experiment>>
  BY <1>1 DEF ReadAssign, Begins, tables, history, y
<1> HIDE DEF x
<1>5. Prepared(call[r], "collect", x)
  BY <1>2, <1>3, <1>4 DEF Prepared, Goals, ReleaseCalls
<1> QED BY <1>4, <1>5, NothingConcluded, ShowingStays

LEMMA FlagStep ==
  ASSUME IInv, ShowInv, NEW r \in Requests, EnableFlag(r) \/ DisableFlag(r)
  PROVE  ShowInv' /\ Final
<1>1. /\ call[r].op \in {"start", "pause", "conclude", "archive"}
      /\ at[r] \in {"enable", "disable"}
      /\ UNCHANGED <<call, open, overtaken>>
  BY DEF EnableFlag, DisableFlag, Is, history
<1>2. PICK e : e = call[r].experiment
  OBVIOUS
<1>3. e \in Experiments
  BY <1>1, <1>2, SeenIsPrepared DEF CallType
<1>4. PICK w : Change(e, [experiment[e] EXCEPT !["enabled"] = w])
  BY <1>2 DEF EnableFlag, DisableFlag
<1>5. Final
  BY <1>3, <1>4, ExperimentChanges DEF ExperimentFields
<1>6. /\ Shape(seen[r]) /\ seen[r].pins = {}
      /\ \A s \in seen[r].rows : PinShape(s.pin)
      /\ call[r].op \in {"start", "pause"} => seen[r].status # "concluded"
  BY <1>1, SeenIsPrepared DEF Prepared
<1>7. CASE EnableFlag(r)
  <2> DEFINE pin(l) == [location |-> l, paywall |-> None, version |-> None, flag |-> e]
             pins == {pin(l) : l \in Replaced(r)}
             x == [seen[r] EXCEPT !.pins = pins]
  <2>1. Read(r, x) /\ Go(r, "collect") /\ call[r].op = "start"
    BY <1>2, <1>7 DEF EnableFlag, Is
  <2>2. \A l : PinShape(pin(l)) /\ pin(l).location = l
    BY DEF PinShape, PinFields
  <2> HIDE DEF pin
  <2>3. /\ \A y \in pins : PinShape(y) /\ y.location \in Replaced(r)
        /\ \A y, z \in pins : y.location = z.location => y = z
    BY <2>2
  <2> HIDE DEF pins
  <2>4. x.rows = seen[r].rows /\ x.pins = pins /\ x.setup = seen[r].setup
        /\ x.status = seen[r].status
    BY <1>6 DEF Shape, Fields
  <2> HIDE DEF x
  <2>5. Prepared(call[r], "collect", x)
    BY <1>6, <2>1, <2>3, <2>4, ReplacedAreGoals DEF Prepared, Goals, ReleaseCalls
  <2> QED BY <1>1, <1>5, <2>1, <2>5, ShowingStays
<1>8. CASE DisableFlag(r)
  <2>1. PICK place \in {"collect", "write"} : Go(r, place)
    BY <1>8 DEF DisableFlag
  <2>2. Read(r, seen[r])
    BY <1>8, SeenStays DEF DisableFlag
  <2>3. Prepared(call[r], place, seen[r])
    BY <1>6 DEF Prepared
  <2> QED BY <1>1, <1>5, <2>1, <2>2, <2>3, ShowingStays
<1> QED BY <1>7, <1>8

LEMMA CollectStep ==
  ASSUME IInv, ShowInv, NEW r \in Requests, SnapshotShowings(r)
  PROVE  ShowInv' /\ Final
<1>1. PICK rows : /\ rows \subseteq open
                  /\ Read(r, [seen[r] EXCEPT !.rows = rows])
  BY DEF SnapshotShowings, OpenAt
<1> DEFINE x == [seen[r] EXCEPT !.rows = rows]
<1>2. PICK place \in {"choose", "switch"} : Go(r, place)
  BY DEF SnapshotShowings
<1>3. /\ at[r] = "collect" /\ call[r].op \in Replaces
      /\ UNCHANGED <<call, open, overtaken, experiment>>
  BY DEF SnapshotShowings, Is, tables, history
<1>4. Prepared(call[r], at[r], seen[r]) /\ Shape(seen[r])
  BY SeenIsPrepared
<1>5. /\ x.rows = rows /\ x.pins = seen[r].pins /\ x.setup = seen[r].setup
      /\ x.status = seen[r].status
  BY <1>4 DEF Shape, Fields
<1>6. Read(r, x)
  BY <1>1
<1>7. \A s \in rows : PinShape(s.pin)
  BY <1>1 DEF ShowInv, OpenShapes
<1> HIDE DEF x
<1>8. Goals(call[r], x) = Goals(call[r], seen[r])
  BY <1>5 DEF Goals
<1>9. Prepared(call[r], place, x)
  BY <1>3, <1>4, <1>5, <1>7, <1>8 DEF Prepared
<1> QED BY <1>2, <1>3, <1>6, <1>9, NothingConcluded, ShowingStays

LEMMA ChooseWinnersStep ==
  ASSUME IInv, ShowInv, NEW r \in Requests, ChooseWinners(r)
  PROVE  ShowInv' /\ Final
<1> DEFINE pin(l, v) == [location |-> l, paywall |-> Winner(r, l).paywall,
                         version |-> v[l], flag |-> None]
<1>1. PICK kept, v : /\ kept \subseteq Replaced(r)
                     /\ Read(r, [seen[r] EXCEPT !.pins = {pin(l, v) : l \in kept}])
  BY DEF ChooseWinners
<1> DEFINE pins == {pin(l, v) : l \in kept}
           x == [seen[r] EXCEPT !.pins = pins]
<1>2. \A l : PinShape(pin(l, v)) /\ pin(l, v).location = l
  BY DEF PinShape, PinFields
<1>3. Read(r, x)
  BY <1>1
<1> HIDE DEF pin
<1>4. /\ \A y \in pins : PinShape(y) /\ y.location \in Replaced(r)
      /\ \A y, z \in pins : y.location = z.location => y = z
  BY <1>1, <1>2
<1> HIDE DEF pins
<1>5. /\ call[r].op = "conclude" /\ Go(r, "switch")
      /\ UNCHANGED <<call, open, overtaken, experiment>>
  BY DEF ChooseWinners, Is, tables, history
<1>6. Prepared(call[r], at[r], seen[r]) /\ Shape(seen[r])
  BY SeenIsPrepared
<1>7. x.rows = seen[r].rows /\ x.pins = pins /\ x.setup = seen[r].setup
  BY <1>6 DEF Shape, Fields
<1> HIDE DEF x
<1>8. Prepared(call[r], "switch", x)
  BY <1>4, <1>5, <1>6, <1>7, ReplacedAreGoals DEF Prepared, Goals, ReleaseCalls
<1> QED BY <1>3, <1>5, <1>8, NothingConcluded, ShowingStays

-----------------------------------------------------------------------------
(* Showings are replaced. *)

(* A location that r does not touch keeps its rows; one that r has found   *)
(* unchanged shows what r pins to it.                                      *)
LEMMA ReplacedOnce ==
  ASSUME ShowInv, NEW r \in Requests, ReplaceShowings(r),
         overtaken \cup Outdated(r) \subseteq overtaken'
  PROVE  OpenShapes' /\ OneShowing'
<1> DEFINE pins == seen[r].pins
           New(x) == [id |-> Numbering(pins)[x], pin |-> x]
<1>1. at[r] = "switch" /\ open' = (open \ seen[r].rows) \cup {New(x) : x \in pins}
  BY DEF ReplaceShowings, Is, Ending
<1>2. \A x : New(x).pin = x
  OBVIOUS
<1> HIDE DEF New
<1>3. /\ \A x \in pins : PinShape(x) /\ x.location \in Replaced(r)
      /\ \A x, y \in pins : x.location = y.location => x = y
  BY <1>1, ReplacedAreGoals DEF ShowInv, AllPrepared, Prepared
<1>4. OpenShapes'
  BY <1>1, <1>2, <1>3 DEF ShowInv, OpenShapes
<1>5. ASSUME NEW l \in Locations \ overtaken', NEW s \in OpenAt(l)', NEW t \in OpenAt(l)'
      PROVE  s = t
  <2>1. /\ s \in open' /\ t \in open' /\ s.pin.location = l /\ t.pin.location = l
        /\ l \notin overtaken /\ l \notin Outdated(r)
    BY <1>5 DEF OpenAt
  <2>2. CASE l \in Replaced(r)
    <3>1. OpenAt(l) \subseteq seen[r].rows
      BY <2>1, <2>2 DEF Outdated
    <3>2. s \notin open \ seen[r].rows /\ t \notin open \ seen[r].rows
      BY <2>1, <3>1 DEF OpenAt
    <3>3. PICK x \in pins, y \in pins : s = New(x) /\ t = New(y)
      BY <1>1, <2>1, <3>2
    <3> QED BY <1>2, <1>3, <2>1, <3>3
  <2>3. CASE l \notin Replaced(r)
    <3>1. \A x \in pins : New(x).pin.location # l
      BY <1>2, <1>3, <2>3
    <3>2. s \in OpenAt(l) /\ t \in OpenAt(l)
      BY <1>1, <2>1, <3>1 DEF OpenAt
    <3> QED BY <2>1, <3>2 DEF ShowInv, OneShowing
  <2> QED BY <2>2, <2>3
<1>6. OneShowing'
  BY <1>5 DEF OneShowing
<1> QED BY <1>4, <1>6

LEMMA ReplaceStep ==
  ASSUME IInv, ShowInv, NEW r \in Requests, Assign(r) \/ Start(r) \/ Conclude(r)
  PROVE  ShowInv' /\ Final
<1>1. /\ ReplaceShowings(r) /\ Ends(r, "done") /\ at[r] = "switch" /\ UNCHANGED call
      /\ overtaken \cup Outdated(r) \subseteq overtaken'
  BY DEF Assign, Start, Conclude, ReplaceShowings, Is
<1>2. PICK e : e = call[r].experiment
  OBVIOUS
<1>3. CASE Assign(r)
  <2>1. Final
    BY <1>3, NothingConcluded DEF Assign
  <2> QED BY <1>1, <2>1, NothingPrepared, ReplacedOnce, ShowingGoes DEF Ends, Final
<1>4. CASE Start(r)
  <2>1. e \in Experiments
    BY <1>2, <1>4, SeenIsPrepared DEF Start, CallType
  <2>2. seen[r].status # "concluded"
    BY <1>1, <1>4, SeenIsPrepared DEF Start, Prepared
  <2>3. experiment[e].status # "concluded" \/ e \in overtaken'
    BY <1>2, <1>4, <2>2 DEF Start, Changed
  <2>4. Change(e, [experiment[e] EXCEPT !["status"] = "running"])
    BY <1>2, <1>4 DEF Start
  <2>5. Final
    BY <2>1, <2>3, <2>4, ExperimentChanges DEF ExperimentFields
  <2> QED BY <1>1, <2>5, NothingPrepared, ReplacedOnce, ShowingGoes DEF Ends, Final
<1>5. CASE Conclude(r)
  <2>1. e \in Experiments
    BY <1>2, <1>5, SeenIsPrepared DEF Conclude, CallType
  <2>2. Change(e, [experiment[e] EXCEPT !["status"] = "concluded"])
    BY <1>2, <1>5 DEF Conclude
  <2>3. Final
    BY <2>1, <2>2, ExperimentChanges DEF ExperimentFields
  <2> QED BY <1>1, <2>3, NothingPrepared, ReplacedOnce, ShowingGoes DEF Ends, Final
<1> QED BY <1>3, <1>4, <1>5

(* An activation puts one row for each row it ends, at the same location.  *)
LEMMA CommitMoves ==
  ASSUME IInv, ShowInv, NEW r \in Requests, Commit(r)
  PROVE  ShowInv' /\ Final
<1> DEFINE old == seen[r].rows
           v == seen[r].version
           New(s) == [id |-> Numbering(old)[s], pin |-> [s.pin EXCEPT !.version = v]]
<1>1. open' = (open \ old) \cup {New(s) : s \in old}
  BY DEF Commit
<1>2. /\ overtaken \subseteq overtaken'
      /\ \A s \in old \ open : s.pin.location \in overtaken'
  BY DEF Commit
<1>3. \A s \in old : PinShape(s.pin)
  BY SeenIsPrepared DEF Prepared
<1>4. ASSUME NEW s \in old
      PROVE  PinShape(New(s).pin) /\ New(s).pin.location = s.pin.location
  BY <1>3 DEF PinShape, PinFields
<1> HIDE DEF New
<1>5. OpenShapes'
  BY <1>1, <1>4 DEF ShowInv, OpenShapes
<1>6. ASSUME NEW l \in Locations \ overtaken', NEW s \in OpenAt(l)', NEW t \in OpenAt(l)'
      PROVE  s = t
  <2>1. l \notin overtaken /\ \A x, y \in OpenAt(l) : x = y
    BY <1>2 DEF ShowInv, OneShowing
  <2>2. \A x \in OpenAt(l)' : \/ x \in OpenAt(l) \ old
                              \/ \E w \in OpenAt(l) \cap old : x = New(w)
    <3> SUFFICES ASSUME NEW x \in OpenAt(l)'
                 PROVE  x \in OpenAt(l) \ old \/ \E w \in OpenAt(l) \cap old : x = New(w)
      OBVIOUS
    <3>1. x \in open' /\ x.pin.location = l
      BY DEF OpenAt
    <3>2. CASE x \in open \ old
      BY <3>1, <3>2 DEF OpenAt
    <3>3. CASE x \notin open \ old
      <4>1. PICK w \in old : x = New(w)
        BY <1>1, <3>1, <3>3
      <4>2. w.pin.location = l
        BY <1>4, <3>1, <4>1
      <4>3. w \in open
        BY <1>2, <4>2
      <4> QED BY <4>1, <4>2, <4>3 DEF OpenAt
    <3> QED BY <3>2, <3>3
  <2> QED BY <2>1, <2>2
<1>7. OneShowing'
  BY <1>6 DEF OneShowing
<1>8. /\ Go(r, "done") /\ Read(r, Unread) /\ UNCHANGED <<call, experiment>>
      /\ Prepared(call[r], "done", Unread)
  BY NothingPrepared DEF Commit, Ends
<1> QED BY <1>5, <1>7, <1>8, NothingConcluded, ShowingGoes DEF Final

-----------------------------------------------------------------------------
LEMMA InitialShowings ==
  ASSUME CallsAssumption, StartsAssumption, Init
  PROVE  ShowInv
<1>1. PICK s \in Starts : open = s.open /\ experiment = s.experiment
  BY DEF Init
<1>2. /\ s \in StartType
      /\ \A x, y \in s.open : x.id = y.id \/ x.pin.location = y.pin.location => x = y
  BY DEF StartsAssumption
<1>3. AllPrepared
  BY UnreadIsEmpty DEF Init, AllPrepared, Prepared
<1>4. OpenShapes
  <2> SUFFICES ASSUME NEW x \in open PROVE PinShape(x.pin)
    BY DEF OpenShapes
  <2>1. x.pin \in Pin
    BY <1>1, <1>2 DEF StartType, Row
  <2> QED BY <2>1 DEF Pin, PinShape, PinFields
<1>5. ExperimentShapes
  BY <1>1, <1>2 DEF StartType, Experiment, ExperimentShapes, ExperimentFields
<1>6. OneShowing
  BY <1>1, <1>2 DEF OneShowing, OpenAt
<1> QED BY <1>3, <1>4, <1>5, <1>6 DEF ShowInv

LEMMA ShowingStep ==
  ASSUME IInv, ShowInv, [Next]_vars
  PROVE  ShowInv' /\ Final
<1>1. ASSUME NEW r \in Requests, Fail(r) PROVE ShowInv' /\ Final
  BY <1>1, PlainEnds
<1>2. ASSUME NEW r \in Requests, Releasing(r) PROVE ShowInv' /\ Final
  BY <1>2, ReleaseReads, ReleaseGoesOn, PlainEnds, CommitMoves DEF Releasing
<1>3. ASSUME NEW r \in Requests, Showing(r) PROVE ShowInv' /\ Final
  BY <1>3, AssignReads, PlainEnds, CollectStep, ReplaceStep DEF Showing
<1>4. ASSUME NEW r \in Requests, Experimenting(r) PROVE ShowInv' /\ Final
  BY <1>4, ExperimentReads, ExperimentEnds, FlagStep, ChooseWinnersStep, ReplaceStep
     DEF Experimenting
<1>5. CASE UNCHANGED vars
  <2>1. UNCHANGED <<call, at, seen, open, experiment, overtaken>>
    BY <1>5 DEF vars, tables, history
  <2>2. AllPrepared'
    BY <2>1 DEF ShowInv, AllPrepared, Prepared, Goals
  <2>3. OpenShapes' /\ OneShowing'
    BY <2>1, NothingOpened
  <2>4. Final
    BY <2>1, NothingConcluded
  <2> QED BY <2>2, <2>3, <2>4 DEF ShowInv, Final
<1> QED BY <1>1, <1>2, <1>3, <1>4, <1>5 DEF Next

THEOREM ShowingsInvariant == Spec => []ShowInv
<1>1. Init => ShowInv
  BY CallsAssumption, StartsAssumption, InitialShowings
<1>2. IInv /\ ShowInv /\ [Next]_vars => ShowInv'
  BY ShowingStep
<1> QED BY <1>1, <1>2, ReleasesInvariant, PTL DEF Spec

(* A location has at most one open showing, unless a request replaced its  *)
(* showings after they had changed under it.                               *)
THEOREM OneShowingPerLocation == Spec => []OneShowing
<1>1. ShowInv => OneShowing
  BY DEF ShowInv
<1> QED BY <1>1, ShowingsInvariant, PTL

(* A concluded experiment is never started or paused again, unless by a    *)
(* request that had read it before it was concluded.                       *)
THEOREM ConcludedForGood == Spec => ConcludedIsFinal
<1>1. IInv /\ ShowInv /\ [Next]_vars =>
        [\A e \in Experiments :
           experiment[e].status = "concluded" =>
             experiment'[e].status = "concluded" \/ e \in overtaken']_vars
  BY ShowingStep DEF Final
<1> QED BY <1>1, ReleasesInvariant, ShowingsInvariant, PTL DEF Spec, ConcludedIsFinal

-----------------------------------------------------------------------------
Ended == {"idle", "done", "failed"}
OfExperiment == {"save", "start", "pause", "archive", "conclude"}

(* A start pins its experiment, all else pins releases.                    *)
PinnedBy(c) == IF c.op = "start" THEN c.experiment ELSE None

(* What a request has read of experiments and showings; an activation about *)
(* to commit has read showings of its own paywall.                         *)
Sees(c, place, x) ==
  /\ x \in SeenType
  /\ IsFiniteSet(x.rows) /\ IsFiniteSet(x.pins)
  /\ c.op \in OfExperiment /\ place \notin Ended => x.setup \in SetupType
  /\ \A y \in x.pins : y.flag = PinnedBy(c)
  /\ place = "commit" => \A s \in x.rows : s.pin.paywall = c.paywall /\ s.pin.flag = None

TableTypes ==
  /\ source \in [Paywalls -> {None, "editor", "code"}]
  /\ open \subseteq Row /\ IsFiniteSet(open)
  /\ issued \in Nat
  /\ archived \subseteq Locations
  /\ experiment \in [Experiments -> Experiment]
  /\ overtaken \subseteq Paywalls \cup Locations \cup Experiments
  /\ astray \subseteq Paywalls
  /\ moved \subseteq Experiments
  /\ named \subseteq Nat

AllSee == \A r \in Requests : Sees(call[r], at[r], seen[r])
Types == call \in [Requests -> Calls] /\ TableTypes /\ AllSee

-----------------------------------------------------------------------------
(* Showings are numbered in any order. *)
LEMMA NumbersAreNew ==
  ASSUME NEW S, IsFiniteSet(S), issued \in Nat, NEW x \in S
  PROVE  Numbering(S)[x] \in Nat
<1> DEFINE n == Cardinality(S)
           Places0 == (issued + 1)..(issued + n)
           Numbers(f) == f \in [S -> Places0] /\ \A y, z \in S : f[y] = f[z] => y = z
<1>1. n \in Nat /\ ExistsBijection(1..n, S)
  BY FS_CardinalityType
<1>2. PICK g \in Bijection(1..n, S) : TRUE
  BY <1>1 DEF ExistsBijection
<1>3. /\ g \in [1..n -> S]
      /\ \A y \in S : \E i \in 1..n : g[i] = y
  BY <1>2 DEF Bijection, Injection, Surjection
<1> DEFINE At(y) == CHOOSE i \in 1..n : g[i] = y
           h == [y \in S |-> issued + At(y)]
<1>4. \A y \in S : At(y) \in 1..n /\ g[At(y)] = y
  BY <1>3
<1> HIDE DEF At
<1>5. \A y \in S : h[y] = issued + At(y) /\ h[y] \in Places0
  BY <1>1, <1>4
<1>6. h \in [S -> Places0]
  BY <1>5
<1>7. \A y, z \in S : h[y] = h[z] => y = z
  <2> SUFFICES ASSUME NEW y \in S, NEW z \in S, h[y] = h[z] PROVE y = z
    OBVIOUS
  <2>1. At(y) \in Int /\ At(z) \in Int /\ issued + At(y) = issued + At(z)
    BY <1>1, <1>4, <1>5
  <2>2. At(y) = At(z)
    BY <2>1
  <2> QED BY <1>4, <2>2
<1>8. Numbers(h)
  BY <1>6, <1>7
<1> HIDE DEF h, n
<1>9. Numbers(Numbering(S))
  BY <1>8 DEF Numbering, n
<1>10. Numbering(S)[x] \in Places0
  BY <1>9
<1> QED BY <1>1, <1>10

LEMMA FiniteImage ==
  ASSUME NEW S, IsFiniteSet(S), NEW f
  PROVE  IsFiniteSet({f[x] : x \in S})
<1> DEFINE g == [x \in S |-> f[x]]
<1>1. g \in Surjection(S, {f[x] : x \in S})
  BY DEF Surjection
<1> QED BY <1>1, FS_Surjection

LEMMA UnreadIsTyped == Unread \in SeenType /\ Unread.rows = {} /\ Unread.pins = {}
  BY DEF Unread, SeenType, Statuses

LEMMA NothingSeen ==
  ASSUME NEW c, NEW place \in Ended
  PROVE  Sees(c, place, Unread)
  BY UnreadIsTyped, FS_EmptySet DEF Sees, Ended

(* One request takes a step and every table keeps its type.                *)
LEMMA TypesGo ==
  ASSUME IInv, Types, NEW r \in Requests, NEW place, NEW x,
         Sees(call[r], place, x), Go(r, place), Read(r, x), UNCHANGED call, TableTypes'
  PROVE  Types'
<1>1. /\ at \in [Requests -> Places] /\ seen = [q \in Requests |-> seen[q]]
      /\ at' = [at EXCEPT ![r] = place] /\ seen' = [seen EXCEPT ![r] = x]
  BY DEF IInv, ReleaseTypes, Go, Read
<1>2. ASSUME NEW q \in Requests PROVE Sees(call[q], at[q], seen[q])'
  <2>1. CASE q = r
    <3>1. at'[q] = place /\ seen'[q] = x
      BY <1>1, <2>1
    <3> QED BY <2>1, <3>1 DEF Sees, PinnedBy
  <2>2. CASE q # r
    <3>1. at'[q] = at[q] /\ seen'[q] = seen[q]
      BY <1>1, <2>2
    <3>2. Sees(call[q], at[q], seen[q])
      BY DEF Types, AllSee
    <3> QED BY <3>1, <3>2 DEF Sees, PinnedBy
  <2> QED BY <2>1, <2>2
<1> QED BY <1>2 DEF Types, AllSee

(* A step that writes no table but what is overtaken. *)
LEMMA TypesStay ==
  ASSUME IInv, Types, NEW r \in Requests, NEW place, NEW x,
         Sees(call[r], place, x), Go(r, place), Read(r, x), UNCHANGED call,
         UNCHANGED <<source, open, issued, archived, experiment, astray, moved, named>>,
         overtaken' \subseteq Paywalls \cup Locations \cup Experiments
  PROVE  Types'
<1>1. TableTypes'
  BY DEF Types, TableTypes
<1> QED BY <1>1, TypesGo

LEMMA TypesEnd ==
  ASSUME IInv, Types, NEW r \in Requests, NEW place \in {"done", "failed"},
         Ends(r, place), UNCHANGED call, TableTypes'
  PROVE  Types'
<1>1. Sees(call[r], place, Unread) /\ Go(r, place) /\ Read(r, Unread)
  BY NothingSeen DEF Ends, Ended
<1> QED BY <1>1, TypesGo

LEMMA SeenIsTyped ==
  ASSUME IInv, Types, NEW r \in Requests
  PROVE  /\ Sees(call[r], at[r], seen[r]) /\ seen[r] \in SeenType
         /\ call[r] \in CallType /\ TableTypes
  BY DEF Types, AllSee, Sees, IInv, ReleaseTypes

(* A request on releases pins nothing, and reads no experiment. *)
LEMMA ReleaseSees ==
  ASSUME NEW c, c.op \in ReleaseCalls, NEW place, place # "commit", NEW x \in SeenType,
         IsFiniteSet(x.rows), x.pins = {}
  PROVE  Sees(c, place, x)
  BY FS_EmptySet DEF Sees, ReleaseCalls, OfExperiment

-----------------------------------------------------------------------------
(* Requests on releases keep the types. *)

LEMMA ReadsAreTyped ==
  ASSUME IInv, Types, NEW r \in Requests,
         ReadDraft(r) \/ ReadPublish(r) \/ ReadActivate(r) \/ ChooseRelease(r)
  PROVE  Types'
<1>1. /\ call[r].op \in ReleaseCalls
      /\ UNCHANGED <<call, source, open, issued, archived, experiment, astray, moved, named, overtaken>>
  BY DEF ReadDraft, ReadPublish, ReadActivate, ChooseRelease, WritesPaywall, Begins, Is,
         ReleaseCalls, tables, history
<1>2. PICK place \in {"write", "lookUp", "snapshot"} : Go(r, place)
  BY DEF ReadDraft, ReadPublish, ReadActivate, ChooseRelease
<1>3. /\ call[r] \in CallType /\ call[r].paywall \in Paywalls
      /\ call[r].op \in {"draft", "deploy"} => call[r].content \in Contents
      /\ draft \in [Paywalls -> SUBSET DraftRow]
  BY <1>1, SeenIsTyped, PaywallOfCall DEF IInv, ReleaseTypes
<1>4. PICK x \in SeenType : Read(r, x) /\ x.rows = {} /\ x.pins = {}
  <2> DEFINE Typed(y) == y \in SeenType /\ y.rows = {} /\ y.pins = {}
             First(v, w) == [Unread EXCEPT !.version = v, !.by = w]
             Second(v, w) == [Unread EXCEPT !.version = v, !.content = w]
             Third(v, w) == [Unread EXCEPT !.version = v, !.follow = w]
             Fourth(v, w, t, u) ==
               [Unread EXCEPT !.version = v, !.content = w, !.fresh = t, !.follow = u]
  <2>1. ASSUME NEW v \in Versions, NEW w \in Requests PROVE Typed(First(v, w))
    BY DEF Unread, SeenType, Statuses
  <2>2. ASSUME NEW v \in Versions, NEW w \in Contents PROVE Typed(Second(v, w))
    BY DEF Unread, SeenType, Statuses
  <2>3. ASSUME NEW v \in Versions, NEW w \in BOOLEAN PROVE Typed(Third(v, w))
    BY DEF Unread, SeenType, Statuses
  <2>4. ASSUME NEW v \in Versions, NEW w \in Contents, NEW t \in BOOLEAN, NEW u \in BOOLEAN
        PROVE  Typed(Fourth(v, w, t, u))
    BY DEF Unread, SeenType, Statuses
  <2>5. CASE ReadDraft(r)
    <3>1. PICK v \in Versions, w \in {d.by : d \in draft[call[r].paywall]} \cup {r} :
            Read(r, First(v, w))
      BY <2>5 DEF ReadDraft
    <3>2. w \in Requests
      BY <1>3 DEF DraftRow
    <3> HIDE DEF First, Typed
    <3>3. Typed(First(v, w))
      BY <2>1, <3>2
    <3> QED BY <3>1, <3>3 DEF Typed
  <2>6. CASE ReadPublish(r)
    <3>1. PICK d \in draft[call[r].paywall] : Read(r, Second(d.version, d.content))
      BY <2>6 DEF ReadPublish
    <3>2. d.version \in Versions /\ d.content \in Contents
      BY <1>3 DEF DraftRow
    <3> HIDE DEF Second, Typed
    <3>3. Typed(Second(d.version, d.content))
      BY <2>2, <3>2
    <3> QED BY <3>1, <3>3 DEF Typed
  <2>7. CASE ReadActivate(r)
    <3>1. PICK v \in Versions, w \in BOOLEAN : Read(r, Third(v, w))
      BY <2>7 DEF ReadActivate, Released
    <3> HIDE DEF Third, Typed
    <3> QED BY <2>3, <3>1 DEF Typed
  <2>8. CASE ChooseRelease(r)
    <3>1. call[r].content \in Contents
      BY <1>3, <2>8 DEF ChooseRelease, WritesPaywall, Is
    <3>2. PICK v \in Versions, t \in BOOLEAN : Read(r, Fourth(v, call[r].content, t, TRUE))
      BY <2>8 DEF ChooseRelease, Released
    <3> HIDE DEF Fourth, Typed
    <3> QED BY <2>4, <3>1, <3>2 DEF Typed
  <2> QED BY <2>5, <2>6, <2>7, <2>8
<1>5. Sees(call[r], place, x)
  BY <1>1, <1>4, ReleaseSees, FS_EmptySet
<1>6. overtaken' \subseteq Paywalls \cup Locations \cup Experiments
  BY <1>1 DEF Types, TableTypes
<1> QED BY <1>1, <1>2, <1>4, <1>5, <1>6, TypesStay

(* A paywall read from a call on releases. *)
LEMMA ReleasesPaywall ==
  ASSUME IInv, NEW r \in Requests, call[r].op \in ReleaseCalls
  PROVE  /\ call[r] \in CallType /\ call[r].paywall \in Paywalls
         /\ Active(call[r].paywall) \subseteq Versions
<1>1. call[r] \in CallType
  BY DEF IInv, ReleaseTypes
<1> QED BY <1>1, PaywallOfCall DEF Active, Released

LEMMA ActivationsAreTyped ==
  ASSUME IInv, ShowInv, Types, NEW r \in Requests,
         LookUpReleased(r) \/ ReadPaywall(r) \/ Snapshot(r) \/ Apply(r)
  PROVE  Types'
<1>1. /\ call[r].op \in ReleaseCalls
      /\ UNCHANGED <<call, source, open, issued, archived, experiment, astray, moved, named>>
      /\ overtaken' \subseteq overtaken \cup {call[r].paywall}
  BY DEF LookUpReleased, ReadPaywall, Snapshot, Apply, Begins, Is, Activations,
         ReleaseCalls, tables, history
<1>2. call[r].paywall \in Paywalls /\ Active(call[r].paywall) \subseteq Versions
  BY <1>1, ReleasesPaywall
<1>3. overtaken' \subseteq Paywalls \cup Locations \cup Experiments
  BY <1>1, <1>2 DEF Types, TableTypes
<1>4. /\ seen[r] \in SeenType /\ IsFiniteSet(seen[r].rows) /\ Shape(seen[r])
      /\ seen[r].pins = {}
  BY <1>1, SeenIsTyped, SeenIsPrepared DEF Sees, Prepared
<1>5. CASE ReadPaywall(r)
  <2>1. PICK place \in {"create", "adopt"} : Go(r, place)
    BY <1>5 DEF ReadPaywall
  <2>2. Read(r, seen[r])
    BY <1>5, SeenStays DEF ReadPaywall
  <2>3. Sees(call[r], place, seen[r])
    BY <1>1, <1>4, ReleaseSees
  <2> QED BY <1>1, <1>3, <2>1, <2>2, <2>3, TypesStay
<1>6. CASE LookUpReleased(r)
  <2> DEFINE new == seen[r].version \notin Released(call[r].paywall)
             x == [seen[r] EXCEPT !.fresh = new]
  <2>1. x \in SeenType /\ x.rows = seen[r].rows /\ x.pins = {}
    BY <1>4 DEF SeenType
  <2>2. Read(r, x) /\ Go(r, "snapshot")
    BY <1>6 DEF LookUpReleased
  <2> HIDE DEF x
  <2>3. Sees(call[r], "snapshot", x)
    BY <1>1, <1>4, <2>1, ReleaseSees
  <2> QED BY <1>1, <1>3, <2>2, <2>3, TypesStay
<1>7. CASE Snapshot(r)
  <2> DEFINE x == [seen[r] EXCEPT !.active = Active(call[r].paywall)]
  <2>1. x \in SeenType /\ x.rows = seen[r].rows /\ x.pins = {}
    BY <1>2, <1>4 DEF SeenType
  <2>2. Read(r, x) /\ Go(r, "apply")
    BY <1>7 DEF Snapshot
  <2> HIDE DEF x
  <2>3. Sees(call[r], "apply", x)
    BY <1>1, <1>4, <2>1, ReleaseSees
  <2> QED BY <1>1, <1>3, <2>2, <2>3, TypesStay
<1>8. CASE Apply(r)
  <2> DEFINE locks == ToClear(r) \cup {seen[r].version}
             rows == IF seen[r].follow THEN Stale(call[r].paywall, seen[r].version) ELSE {}
             x == [seen[r] EXCEPT !.held = locks, !.rows = rows]
  <2>1. seen[r].version \in Versions
    BY <1>8, ActivationKnows DEF Apply, Is, Activates
  <2>2. locks \subseteq Versions
    BY <1>2, <2>1 DEF ToClear
  <2>3. /\ rows \subseteq open
        /\ \A s \in rows : s.pin.paywall = call[r].paywall /\ s.pin.flag = None
    BY DEF Stale
  <2>4. rows \subseteq Row /\ IsFiniteSet(rows)
    BY <2>3, FS_Subset DEF Types, TableTypes
  <2>5. Read(r, x) /\ Go(r, "commit")
    BY <1>8 DEF Apply
  <2> HIDE DEF locks, rows
  <2>6. x \in SeenType /\ x.rows = rows /\ x.pins = {}
    BY <1>4, <2>2, <2>4 DEF SeenType
  <2> HIDE DEF x
  <2>7. Sees(call[r], "commit", x)
    BY <1>1, <2>3, <2>4, <2>6, FS_EmptySet DEF Sees, ReleaseCalls, OfExperiment
  <2> QED BY <1>1, <1>3, <2>5, <2>7, TypesStay
<1> QED BY <1>5, <1>6, <1>7, <1>8

(* Requests that end without a showing of their own. *)
LEMMA PlainEndsAreTyped ==
  ASSUME IInv, Types, NEW r \in Requests,
         Fail(r) \/ WriteDraft(r) \/ KeepActive(r) \/ Clear(r)
  PROVE  Types'
<1>1. PICK place \in {"done", "failed"} : Ends(r, place)
  BY DEF Fail, WriteDraft, KeepActive, Clear
<1>2. UNCHANGED <<call, issued, experiment, overtaken, moved, named>>
  BY DEF Fail, WriteDraft, KeepActive, Clear, tables, history
<1>3. CASE Fail(r) \/ WriteDraft(r)
  <2>1. TableTypes'
    BY <1>2, <1>3 DEF Fail, WriteDraft, tables, history, Types, TableTypes
  <2> QED BY <1>1, <1>2, <2>1, TypesEnd
<1>4. CASE KeepActive(r)
  <2>1. call[r].paywall \in Paywalls
    BY <1>4, ReleasesPaywall DEF KeepActive, WritesPaywall, Is, ReleaseCalls
  <2>2. /\ source' = [source EXCEPT ![call[r].paywall] = "code"]
        /\ astray' \subseteq astray \cup {call[r].paywall} /\ UNCHANGED <<open, archived>>
    BY <1>4 DEF KeepActive
  <2>3. TableTypes'
    BY <1>2, <2>1, <2>2 DEF Types, TableTypes
  <2> QED BY <1>1, <1>2, <2>3, TypesEnd
<1>5. CASE Clear(r)
  <2>1. call[r].op \in {"clear", "archiveLocation"} /\ call[r] \in CallType
    BY <1>5, SeenIsTyped DEF Clear, Begins
  <2>2. call[r].location \in Locations
    BY <2>1 DEF CallType
  <2>3. /\ open' \subseteq open /\ archived' \subseteq archived \cup {call[r].location}
        /\ UNCHANGED <<source, astray>>
    BY <1>5 DEF Clear, history
  <2>4. open' \subseteq Row /\ IsFiniteSet(open')
    BY <2>3, FS_Subset DEF Types, TableTypes
  <2>5. TableTypes'
    BY <1>2, <2>2, <2>3, <2>4 DEF Types, TableTypes
  <2> QED BY <1>1, <1>2, <2>5, TypesEnd
<1> QED BY <1>3, <1>4, <1>5

LEMMA CommitIsTyped ==
  ASSUME IInv, Types, NEW r \in Requests, Commit(r)
  PROVE  Types'
<1> DEFINE old == seen[r].rows
           v == seen[r].version
           numbers == Numbering(old)
           Pinned(s) == [s.pin EXCEPT !.version = v]
           New(s) == [id |-> numbers[s], pin |-> Pinned(s)]
           p == call[r].paywall
<1>1. /\ call[r].op \in ReleaseCalls /\ at[r] = "commit"
      /\ UNCHANGED <<call, archived, experiment, moved, named>> /\ Ends(r, "done")
      /\ source' \in {source, [source EXCEPT ![p] = "code"]}
      /\ open' = (open \ old) \cup {New(s) : s \in old}
      /\ issued' = issued + Cardinality(old)
      /\ overtaken' \subseteq overtaken \cup {p} \cup {s.pin.location : s \in old}
      /\ astray' \subseteq astray \cup {p}
  BY DEF Commit, Is, Activations, ReleaseCalls
<1>2. p \in Paywalls /\ v \in Versions
  BY <1>1, ReleasesPaywall, ActivationKnows DEF Activates
<1>3. /\ old \subseteq Row /\ IsFiniteSet(old)
      /\ \A s \in old : s.pin.flag = None
  BY <1>1, SeenIsTyped DEF Sees, SeenType
<1>4. ASSUME NEW s \in old
      PROVE  s.pin.location \in Locations /\ New(s) \in Row
  <2>1. numbers[s] \in Nat
    BY <1>3, NumbersAreNew DEF Types, TableTypes
  <2>2. s.pin \in [location: Locations, paywall: Paywalls, version: Versions, flag: {None}]
    BY <1>3, NoneAssumption DEF Row, Pin
  <2>3. Pinned(s) \in Pin
    BY <1>2, <2>2 DEF Pin
  <2> HIDE DEF numbers, Pinned
  <2> QED BY <2>1, <2>2, <2>3 DEF Row
<1> HIDE DEF New
<1>5. IsFiniteSet({New(s) : s \in old})
  <2>1. PICK g, S : g = [s \in old |-> New(s)] /\ S = old
    OBVIOUS
  <2>2. IsFiniteSet({g[s] : s \in S})
    BY <1>3, <2>1, FiniteImage
  <2>3. {g[s] : s \in S} = {New(s) : s \in old}
    BY <2>1
  <2> QED BY <2>2, <2>3
<1>6. open' \subseteq Row /\ IsFiniteSet(open')
  BY <1>1, <1>4, <1>5, FS_Difference, FS_Union DEF Types, TableTypes
<1>7. issued' \in Nat
  BY <1>1, <1>3, FS_CardinalityType DEF Types, TableTypes
<1>8. TableTypes'
  BY <1>1, <1>2, <1>4, <1>6, <1>7 DEF Types, TableTypes
<1> QED BY <1>1, <1>8, TypesEnd

-----------------------------------------------------------------------------
(* Requests on locations and experiments keep the types. *)

(* What is saved now names no release. *)
LEMMA SavedSetups == SetupNaming({None}) \subseteq SetupType
<1> SUFFICES ASSUME NEW s \in SetupNaming({None}) PROVE s \in SetupType
  OBVIOUS
<1>1. \A a \in Arms : s[a] \in [Locations -> [paywall: Paywalls, version: {None}] \cup {None}]
  BY DEF SetupNaming
<1>2. \A a \in Arms, l \in Locations :
        s[a][l] \in [paywall: Paywalls, version: Versions \cup {None}] \cup {None}
  BY <1>1
<1>3. \A a \in Arms :
        s[a] \in [Locations -> [paywall: Paywalls, version: Versions \cup {None}] \cup {None}]
  BY <1>1, <1>2
<1> QED BY <1>3 DEF SetupNaming, SetupType

LEMMA CallFields ==
  ASSUME NEW c \in CallType
  PROVE  /\ c.op \in OfExperiment \cup {"restore"} => c.experiment \in Experiments
         /\ c.op = "save" => c.setup \in SetupType
         /\ c.op = "conclude" => c.winner \in Arms
         /\ c.op \in {"assign", "clear", "archiveLocation"} => c.location \in Locations
         /\ c.op = "assign" => c.paywall \in Paywalls
<1>1. c.op = "save" => c.setup \in SetupNaming({None})
  BY DEF CallType
<1>2. c.op = "save" => c.setup \in SetupType
  BY <1>1, SavedSetups
<1> QED BY <1>2 DEF CallType, OfExperiment

(* The locations a request replaces are finitely many. *)
LEMMA ReplacedAreLocations ==
  ASSUME IInv, NEW r \in Requests, call[r].op \in Replaces
  PROVE  Replaced(r) \subseteq Locations /\ IsFiniteSet(Replaced(r))
<1>1. call[r] \in CallType
  BY DEF IInv, ReleaseTypes
<1>2. Replaced(r) \subseteq Locations
  BY <1>1, CallFields DEF Replaced, Targets
<1> QED BY <1>2, BoundsAssumption, FS_Subset

LEMMA AssignReadsTyped ==
  ASSUME IInv, Types, NEW r \in Requests, ReadAssign(r)
  PROVE  Types'
<1>1. /\ call[r].op = "assign" /\ Go(r, "collect")
      /\ UNCHANGED <<call, source, open, issued, archived, experiment, astray, moved, named, overtaken>>
  BY DEF ReadAssign, Begins, tables, history
<1>2. call[r].location \in Locations /\ call[r].paywall \in Paywalls
  BY <1>1, SeenIsTyped, CallFields
<1>3. PICK v \in Versions : Read(r, [Unread EXCEPT !.pins =
        {[location |-> call[r].location, paywall |-> call[r].paywall,
          version |-> v, flag |-> None]}])
  BY DEF ReadAssign, Active, Released
<1> DEFINE y == [location |-> call[r].location, paywall |-> call[r].paywall,
                 version |-> v, flag |-> None]
           x == [Unread EXCEPT !.pins = {y}]
<1>4. y \in Pin /\ y.flag = None
  BY <1>2 DEF Pin
<1>5. Read(r, x)
  BY <1>3
<1> HIDE DEF y
<1>6. x \in SeenType /\ x.rows = {} /\ x.pins = {y}
  BY <1>4 DEF Unread, SeenType, Statuses
<1> HIDE DEF x
<1>7. Sees(call[r], "collect", x)
  BY <1>1, <1>4, <1>6, FS_EmptySet, FS_Singleton DEF Sees, OfExperiment, PinnedBy
<1>8. overtaken' \subseteq Paywalls \cup Locations \cup Experiments
  BY <1>1 DEF Types, TableTypes
<1> QED BY <1>1, <1>5, <1>7, <1>8, TypesStay

LEMMA ExperimentReadsTyped ==
  ASSUME IInv, Types, NEW r \in Requests,
         ReadSave(r) \/ ReadStart(r) \/ ReadPause(r) \/ ReadConclude(r) \/ ReadArchive(r)
  PROVE  Types'
<1> DEFINE e == call[r].experiment
           x == [Unread EXCEPT !.status = experiment[e].status, !.setup = experiment[e].setup]
<1>1. PICK place \in {"write", "enable", "disable"} : Go(r, place)
  BY DEF ReadSave, ReadStart, ReadPause, ReadConclude, ReadArchive, ReadExperiment
<1>2. /\ Read(r, x) /\ call[r].op \in OfExperiment
      /\ UNCHANGED <<call, source, open, issued, archived, experiment, astray, moved, named, overtaken>>
  BY DEF ReadSave, ReadStart, ReadPause, ReadConclude, ReadArchive, ReadExperiment, Begins,
         OfExperiment, tables, history
<1>3. experiment[e] \in Experiment
  BY <1>2, SeenIsTyped, CallFields DEF TableTypes
<1>4. x \in SeenType /\ x.rows = {} /\ x.pins = {} /\ x.setup \in SetupType
  BY <1>3 DEF Unread, SeenType, Experiment
<1> HIDE DEF x
<1>5. Sees(call[r], place, x)
  BY <1>4, FS_EmptySet DEF Sees
<1>6. overtaken' \subseteq Paywalls \cup Locations \cup Experiments
  BY <1>2 DEF Types, TableTypes
<1> QED BY <1>1, <1>2, <1>5, <1>6, TypesStay

(* One field of an experiment row is written. *)
LEMMA ExperimentsStayTyped ==
  ASSUME Types, NEW e \in Experiments, NEW x \in Experiment, Change(e, x)
  PROVE  experiment' \in [Experiments -> Experiment]
  BY DEF Types, TableTypes, Change

LEMMA FlagsAreTyped ==
  ASSUME IInv, ShowInv, Types, NEW r \in Requests, EnableFlag(r) \/ DisableFlag(r)
  PROVE  Types'
<1>1. /\ call[r].op \in OfExperiment /\ at[r] \in {"enable", "disable"}
      /\ UNCHANGED <<call, source, open, issued, archived, astray, moved, named, overtaken>>
  BY DEF EnableFlag, DisableFlag, Is, OfExperiment, history
<1>2. PICK e : e = call[r].experiment
  OBVIOUS
<1>3. e \in Experiments
  BY <1>1, <1>2, SeenIsTyped, CallFields
<1>4. PICK b \in BOOLEAN : Change(e, [experiment[e] EXCEPT !.enabled = b])
  BY <1>2 DEF EnableFlag, DisableFlag
<1>5. [experiment[e] EXCEPT !.enabled = b] \in Experiment
  BY <1>3 DEF Types, TableTypes, Experiment
<1>6. TableTypes'
  BY <1>1, <1>3, <1>4, <1>5, ExperimentsStayTyped DEF Types, TableTypes
<1>7. /\ seen[r] \in SeenType /\ IsFiniteSet(seen[r].rows) /\ seen[r].setup \in SetupType
      /\ seen[r].pins = {}
  BY <1>1, SeenIsTyped, SeenIsPrepared DEF Sees, Prepared, Ended
<1>8. CASE EnableFlag(r)
  <2> DEFINE pin(l) == [location |-> l, paywall |-> None, version |-> None, flag |-> e]
             pins == {pin(l) : l \in Replaced(r)}
             x == [seen[r] EXCEPT !.pins = pins]
  <2>1. Read(r, x) /\ Go(r, "collect") /\ call[r].op = "start"
    BY <1>2, <1>8 DEF EnableFlag, Is
  <2>2. Replaced(r) \subseteq Locations /\ IsFiniteSet(Replaced(r))
    BY <2>1, ReplacedAreLocations DEF Replaces
  <2>3. \A l \in Replaced(r) : pin(l) \in Pin /\ pin(l).flag = e
    BY <1>3, <2>2 DEF Pin
  <2> HIDE DEF pin
  <2>4. IsFiniteSet(pins)
    <3>1. PICK g, S : g = [l \in Replaced(r) |-> pin(l)] /\ S = Replaced(r)
      OBVIOUS
    <3>2. IsFiniteSet({g[l] : l \in S})
      BY <2>2, <3>1, FiniteImage
    <3>3. {g[l] : l \in S} = pins
      BY <3>1
    <3> QED BY <3>2, <3>3
  <2>5. pins \subseteq Pin /\ \A y \in pins : y.flag = e
    BY <2>3
  <2> HIDE DEF pins
  <2>6. /\ x \in SeenType /\ x.rows = seen[r].rows /\ x.pins = pins
        /\ x.setup = seen[r].setup
    BY <1>7, <2>5 DEF SeenType
  <2> HIDE DEF x
  <2>7. Sees(call[r], "collect", x)
    BY <1>2, <1>7, <2>1, <2>4, <2>5, <2>6 DEF Sees, PinnedBy
  <2> QED BY <1>1, <1>6, <2>1, <2>7, TypesGo
<1>9. CASE DisableFlag(r)
  <2>1. PICK place \in {"collect", "write"} : Go(r, place)
    BY <1>9 DEF DisableFlag
  <2>2. Read(r, seen[r])
    BY <1>9, SeenStays DEF DisableFlag
  <2>3. Sees(call[r], place, seen[r])
    BY <1>7, FS_EmptySet DEF Sees
  <2> QED BY <1>1, <1>6, <2>1, <2>2, <2>3, TypesGo
<1> QED BY <1>8, <1>9

LEMMA ExperimentEndsTyped ==
  ASSUME IInv, Types, NEW r \in Requests,
         Save(r) \/ Pause(r) \/ Archive(r) \/ Restore(r)
  PROVE  Types'
<1>1. /\ Ends(r, "done") /\ UNCHANGED <<call, source, open, issued, archived, astray, named>>
      /\ call[r].op \in OfExperiment \cup {"restore"}
  BY DEF Save, Pause, Archive, Restore, Begins, Is, OfExperiment, history
<1>2. PICK e : e = call[r].experiment
  OBVIOUS
<1>3. e \in Experiments /\ experiment[e] \in Experiment
  BY <1>1, <1>2, SeenIsTyped, CallFields DEF TableTypes
<1>4. PICK x \in Experiment : Change(e, x)
  <2>1. CASE Save(r)
    <3>1. call[r].setup \in SetupType
      BY <2>1, SeenIsTyped, CallFields DEF Save, Is
    <3>2. [experiment[e] EXCEPT !.setup = call[r].setup] \in Experiment
      BY <1>3, <3>1 DEF Experiment
    <3> QED BY <1>2, <2>1, <3>2 DEF Save
  <2>2. CASE Pause(r)
    <3>1. [experiment[e] EXCEPT !.status = "paused"] \in Experiment
      BY <1>3 DEF Experiment, Statuses
    <3> QED BY <1>2, <2>2, <3>1 DEF Pause
  <2>3. CASE Archive(r) \/ Restore(r)
    <3>1. PICK b \in BOOLEAN : Change(e, [experiment[e] EXCEPT !.archived = b])
      BY <1>2, <2>3 DEF Archive, Restore
    <3>2. [experiment[e] EXCEPT !.archived = b] \in Experiment
      BY <1>3 DEF Experiment
    <3> QED BY <3>1, <3>2
  <2> QED BY <2>1, <2>2, <2>3
<1>5. moved' \subseteq moved \cup {e} /\ overtaken' \subseteq overtaken \cup {e}
  BY <1>2 DEF Save, Pause, Archive, Restore, history
<1>6. TableTypes'
  BY <1>1, <1>3, <1>4, <1>5, ExperimentsStayTyped DEF Types, TableTypes
<1> QED BY <1>1, <1>6, TypesEnd

LEMMA CollectIsTyped ==
  ASSUME IInv, Types, NEW r \in Requests, SnapshotShowings(r)
  PROVE  Types'
<1>1. PICK rows : /\ rows \subseteq open
                  /\ Read(r, [seen[r] EXCEPT !.rows = rows])
  BY DEF SnapshotShowings, OpenAt
<1> DEFINE x == [seen[r] EXCEPT !.rows = rows]
<1>2. PICK place \in {"choose", "switch"} : Go(r, place)
  BY DEF SnapshotShowings
<1>3. /\ at[r] = "collect"
      /\ UNCHANGED <<call, source, open, issued, archived, experiment, astray, moved, named, overtaken>>
  BY DEF SnapshotShowings, Is, tables, history
<1>4. Read(r, x)
  BY <1>1
<1>5. rows \subseteq Row /\ IsFiniteSet(rows)
  BY <1>1, FS_Subset DEF Types, TableTypes
<1>6. /\ x \in SeenType /\ x.rows = rows /\ x.pins = seen[r].pins
      /\ x.setup = seen[r].setup
  BY <1>5, SeenIsTyped DEF SeenType
<1> HIDE DEF x
<1>7. Sees(call[r], place, x)
  BY <1>3, <1>5, <1>6, SeenIsTyped DEF Sees, Ended
<1>8. overtaken' \subseteq Paywalls \cup Locations \cup Experiments
  BY <1>3 DEF Types, TableTypes
<1> QED BY <1>2, <1>3, <1>4, <1>7, <1>8, TypesStay

LEMMA WinnersAreTyped ==
  ASSUME IInv, Types, NEW r \in Requests, ChooseWinners(r)
  PROVE  Types'
<1> DEFINE pin(l, v) == [location |-> l, paywall |-> Winner(r, l).paywall,
                         version |-> v[l], flag |-> None]
<1>1. PICK kept, v : /\ kept \subseteq Replaced(r) /\ v \in [kept -> Versions]
                     /\ \A l \in kept : Winner(r, l) # None
                     /\ Read(r, [seen[r] EXCEPT !.pins = {pin(l, v) : l \in kept}])
  BY DEF ChooseWinners
<1> DEFINE pins == {pin(l, v) : l \in kept}
           x == [seen[r] EXCEPT !.pins = pins]
<1>2. /\ call[r].op = "conclude" /\ at[r] = "choose" /\ Go(r, "switch") /\ Read(r, x)
      /\ UNCHANGED <<call, source, open, issued, archived, experiment, astray, moved, named, overtaken>>
  BY <1>1 DEF ChooseWinners, Is, tables, history
<1>3. /\ seen[r] \in SeenType /\ IsFiniteSet(seen[r].rows) /\ seen[r].setup \in SetupType
      /\ call[r].winner \in Arms
  BY <1>2, SeenIsTyped, CallFields DEF Sees, Ended, OfExperiment
<1>4. kept \subseteq Locations /\ IsFiniteSet(kept)
  BY <1>1, <1>2, ReplacedAreLocations, FS_Subset DEF Replaces
<1>5. \A l \in kept : Winner(r, l).paywall \in Paywalls
  <2> SUFFICES ASSUME NEW l \in kept PROVE Winner(r, l).paywall \in Paywalls
    OBVIOUS
  <2>1. \A a \in Arms :
          seen[r].setup[a][l] # None => seen[r].setup[a][l].paywall \in Paywalls
    BY <1>3, <1>4 DEF SetupType, SetupNaming
  <2>2. "control" \in Arms
    BY DEF Arms
  <2> QED BY <1>1, <1>3, <2>1, <2>2 DEF Winner
<1>6. \A l \in kept : pin(l, v) \in Pin /\ pin(l, v).flag = None
  BY <1>1, <1>4, <1>5 DEF Pin
<1> HIDE DEF pin
<1>7. IsFiniteSet(pins)
  <2>1. PICK g, S : g = [l \in kept |-> pin(l, v)] /\ S = kept
    OBVIOUS
  <2>2. IsFiniteSet({g[l] : l \in S})
    BY <1>4, <2>1, FiniteImage
  <2>3. {g[l] : l \in S} = pins
    BY <2>1
  <2> QED BY <2>2, <2>3
<1>8. pins \subseteq Pin /\ \A y \in pins : y.flag = None
  BY <1>6
<1> HIDE DEF pins
<1>9. /\ x \in SeenType /\ x.rows = seen[r].rows /\ x.pins = pins
      /\ x.setup = seen[r].setup
  BY <1>3, <1>8 DEF SeenType
<1> HIDE DEF x
<1>10. Sees(call[r], "switch", x)
  BY <1>2, <1>3, <1>7, <1>8, <1>9 DEF Sees, PinnedBy
<1>11. overtaken' \subseteq Paywalls \cup Locations \cup Experiments
  BY <1>2 DEF Types, TableTypes
<1> QED BY <1>2, <1>10, <1>11, TypesStay

(* What a replacement opens is what the request has prepared. *)
LEMMA ReplacedAreTyped ==
  ASSUME Types, NEW r \in Requests, ReplaceShowings(r)
  PROVE  open' \subseteq Row /\ IsFiniteSet(open') /\ issued' \in Nat
<1> DEFINE pins == seen[r].pins
           numbers == Numbering(pins)
           New(x) == [id |-> numbers[x], pin |-> x]
<1>1. /\ open' = (open \ seen[r].rows) \cup {New(x) : x \in pins}
      /\ issued' = issued + Cardinality(pins)
  BY DEF ReplaceShowings, Ending
<1>2. pins \subseteq Pin /\ IsFiniteSet(pins)
  BY DEF Types, AllSee, Sees, SeenType
<1>3. \A x \in pins : numbers[x] \in Nat
  BY <1>2, NumbersAreNew DEF Types, TableTypes
<1> HIDE DEF numbers
<1>4. \A x \in pins : New(x) \in Row
  BY <1>2, <1>3 DEF Row
<1> HIDE DEF New
<1>5. IsFiniteSet({New(x) : x \in pins})
  <2>1. PICK g, S : g = [x \in pins |-> New(x)] /\ S = pins
    OBVIOUS
  <2>2. IsFiniteSet({g[x] : x \in S})
    BY <1>2, <2>1, FiniteImage
  <2>3. {g[x] : x \in S} = {New(x) : x \in pins}
    BY <2>1
  <2> QED BY <2>2, <2>3
<1>6. open' \subseteq Row /\ IsFiniteSet(open')
  BY <1>1, <1>4, <1>5, FS_Difference, FS_Union DEF Types, TableTypes
<1>7. issued' \in Nat
  BY <1>1, <1>2, FS_CardinalityType DEF Types, TableTypes
<1> QED BY <1>6, <1>7

LEMMA ReplaceIsTyped ==
  ASSUME IInv, Types, NEW r \in Requests, Assign(r) \/ Start(r) \/ Conclude(r)
  PROVE  Types'
<1>1. /\ ReplaceShowings(r) /\ Ends(r, "done")
      /\ UNCHANGED <<call, source, archived, moved>>
      /\ call[r].op \in Replaces
  BY DEF Assign, Start, Conclude, ReplaceShowings, Is
<1>2. open' \subseteq Row /\ IsFiniteSet(open') /\ issued' \in Nat
  BY <1>1, ReplacedAreTyped
<1>3. Outdated(r) \subseteq Locations
  BY <1>1, ReplacedAreLocations DEF Outdated
<1>4. Superseded(r) \subseteq Paywalls
  BY SeenIsTyped, NoneAssumption DEF Superseded, SeenType, Pin
<1>5. named' \subseteq Nat
  <2>1. IsFiniteSet(seen[r].pins) /\ issued \in Nat /\ named \subseteq Nat
    BY SeenIsTyped DEF Sees, TableTypes
  <2>2. \A x \in Named(r) : Numbering(seen[r].pins)[x] \in Nat
    BY <2>1, NumbersAreNew DEF Named
  <2>3. named' \in {named, named \cup {Numbering(seen[r].pins)[x] : x \in Named(r)}}
    BY DEF Assign, Start, Conclude
  <2> QED BY <2>1, <2>2, <2>3
<1>6. CASE Assign(r)
  <2>1. TableTypes'
    BY <1>1, <1>2, <1>3, <1>4, <1>5, <1>6 DEF Assign, Types, TableTypes
  <2> QED BY <1>1, <2>1, TypesEnd
<1>7. CASE Start(r) \/ Conclude(r)
  <2>1. PICK e : e = call[r].experiment
    OBVIOUS
  <2>2. e \in Experiments
    BY <1>7, <2>1, SeenIsTyped, CallFields DEF Start, Conclude, OfExperiment
  <2>3. PICK status \in {"running", "concluded"} :
          Change(e, [experiment[e] EXCEPT !.status = status])
    BY <1>7, <2>1 DEF Start, Conclude
  <2>4. [experiment[e] EXCEPT !.status = status] \in Experiment
    BY <2>2 DEF Types, TableTypes, Experiment, Statuses
  <2>5. experiment' \in [Experiments -> Experiment]
    BY <2>2, <2>3, <2>4, ExperimentsStayTyped
  <2>6. /\ overtaken' \subseteq overtaken \cup Outdated(r) \cup {e}
        /\ astray' \subseteq astray \cup Superseded(r)
    BY <1>7, <2>1 DEF Start, Conclude
  <2>7. TableTypes'
    BY <1>1, <1>2, <1>3, <1>4, <1>5, <2>2, <2>5, <2>6 DEF Types, TableTypes
  <2> QED BY <1>1, <2>7, TypesEnd
<1> QED BY <1>6, <1>7

-----------------------------------------------------------------------------
LEMMA InitialTypes ==
  ASSUME Init
  PROVE  Types
<1>1. PICK s \in Starts :
        /\ source = s.source /\ release = s.release /\ open = s.open
        /\ issued = Cardinality(s.open) /\ experiment = s.experiment
  BY DEF Init
<1>2. s \in StartType /\ IsFiniteSet(s.open)
  BY StartsAssumption
<1>3. TableTypes
  <2>1. issued \in Nat
    BY <1>1, <1>2, FS_CardinalityType
  <2> QED BY <1>1, <1>2, <2>1 DEF Init, StartType, TableTypes
<1>4. AllSee
  BY NothingSeen DEF Init, AllSee, Ended
<1> QED BY <1>3, <1>4 DEF Init, Types

LEMMA TypesStep ==
  ASSUME IInv, ShowInv, Types, [Next]_vars
  PROVE  Types'
<1>1. ASSUME NEW r \in Requests, Fail(r) PROVE Types'
  BY <1>1, PlainEndsAreTyped
<1>2. ASSUME NEW r \in Requests, Releasing(r) PROVE Types'
  BY <1>2, ReadsAreTyped, ActivationsAreTyped, PlainEndsAreTyped, CommitIsTyped DEF Releasing
<1>3. ASSUME NEW r \in Requests, Showing(r) PROVE Types'
  BY <1>3, AssignReadsTyped, PlainEndsAreTyped, CollectIsTyped, ReplaceIsTyped DEF Showing
<1>4. ASSUME NEW r \in Requests, Experimenting(r) PROVE Types'
  BY <1>4, ExperimentReadsTyped, ExperimentEndsTyped, FlagsAreTyped, WinnersAreTyped,
     ReplaceIsTyped DEF Experimenting
<1>5. CASE UNCHANGED vars
  BY <1>5 DEF vars, tables, history, Types, TableTypes, AllSee, Sees, PinnedBy
<1> QED BY <1>1, <1>2, <1>3, <1>4, <1>5 DEF Next

THEOREM ServingTypesInvariant == Spec => []Types
<1>1. Init => Types
  BY InitialTypes
<1>2. IInv /\ ShowInv /\ Types /\ [Next]_vars => Types'
  BY TypesStep
<1> QED BY <1>1, <1>2, ReleasesInvariant, ShowingsInvariant, PTL DEF Spec

(* Every row and whatever a request has read keeps its type. *)
THEOREM ServingTypes == Spec => []TypeOK
<1>1. IInv /\ Types => TypeOK
  BY DEF IInv, ReleaseTypes, Types, TableTypes, AllSee, Sees, TypeOK
<1> QED BY <1>1, ReleasesInvariant, ServingTypesInvariant, PTL

-----------------------------------------------------------------------------
(* What is shown of code paywalls and of experiments.                      *)

(* An experiment that is shown has been started, and is shown where it is  *)
(* placed: that is why a conclusion reaches all of it.                     *)
Placement ==
  \A s \in open :
    LET e == s.pin.flag IN
    e # None =>
      /\ experiment[e].status # "draft"
      /\ e \notin moved \cup overtaken => s.pin.location \in Targets(experiment[e].setup)

Follows == Placement /\ CodeFollows /\ ConcludedLetsGo

(* An open showing pins a release or an experiment. *)
LEMMA PinsAreEither ==
  ASSUME Types, NEW s \in open
  PROVE  /\ s.pin.location \in Locations
         /\ s.pin.flag = None => s.pin.paywall \in Paywalls
         /\ s.pin.flag # None => s.pin.flag \in Experiments
  BY NoneAssumption DEF Types, TableTypes, Row, Pin

HistoryGrows ==
  /\ overtaken \subseteq overtaken' /\ astray \subseteq astray'
  /\ moved \subseteq moved' /\ named \subseteq named'

(* What a showing that stays open needs: its paywall is not of code, or    *)
(* gone astray, or active as it was; its experiment is as it was, or was   *)
(* paused or started.                                                      *)
PaywallStays(p) ==
  source'[p] = "code" /\ p \notin astray' => source[p] = "code" /\ Active(p)' = Active(p)
ExperimentStays(e) ==
  /\ experiment[e].status # "draft" => experiment'[e].status # "draft"
  /\ experiment'[e].status = "concluded" => experiment[e].status = "concluded"
  /\ e \notin moved' => experiment'[e].setup = experiment[e].setup

LEMMA ShownStays ==
  ASSUME Types, Follows, HistoryGrows, NEW s \in open,
         s.pin.flag = None => PaywallStays(s.pin.paywall),
         s.pin.flag # None => ExperimentStays(s.pin.flag)
  PROVE  LET p == s.pin.paywall
             e == s.pin.flag IN
         /\ (/\ e = None /\ source'[p] = "code" /\ s.id \notin named'
             /\ p \notin overtaken' \cup astray')
              => s.pin.version \in Active(p)'
         /\ e # None =>
              /\ experiment'[e].status # "draft"
              /\ e \notin moved' \cup overtaken' => s.pin.location \in Targets(experiment'[e].setup)
         /\ (e # None /\ e \notin moved' /\ {e, s.pin.location} \cap overtaken' = {})
              => experiment'[e].status # "concluded"
<1> DEFINE p == s.pin.paywall
           e == s.pin.flag
<1>1. (/\ e = None /\ source'[p] = "code" /\ s.id \notin named'
       /\ p \notin overtaken' \cup astray')
        => s.pin.version \in Active(p)'
  BY DEF Follows, CodeFollows, HistoryGrows, PaywallStays
<1>2. e # None =>
        /\ experiment'[e].status # "draft"
        /\ e \notin moved' \cup overtaken' => s.pin.location \in Targets(experiment'[e].setup)
  BY DEF Follows, Placement, HistoryGrows, ExperimentStays
<1>3. (e # None /\ e \notin moved' /\ {e, s.pin.location} \cap overtaken' = {})
        => experiment'[e].status # "concluded"
  BY DEF Follows, ConcludedLetsGo, HistoryGrows, ExperimentStays
<1> QED BY <1>1, <1>2, <1>3

(* A step that opens no showing.                                           *)
LEMMA FollowsOn ==
  ASSUME Types, Follows, HistoryGrows, open' \subseteq open,
         \A p \in Paywalls : PaywallStays(p),
         \A e \in Experiments : ExperimentStays(e)
  PROVE  Follows'
<1>1. \A s \in open' : /\ s \in open
                       /\ s.pin.flag = None => PaywallStays(s.pin.paywall)
                       /\ s.pin.flag # None => ExperimentStays(s.pin.flag)
  BY PinsAreEither
<1>2. Placement'
  BY <1>1, ShownStays DEF Placement
<1>3. CodeFollows'
  BY <1>1, ShownStays DEF CodeFollows
<1>4. ConcludedLetsGo'
  BY <1>1, ShownStays DEF ConcludedLetsGo
<1> QED BY <1>2, <1>3, <1>4 DEF Follows

LEMMA PaywallsStay ==
  ASSUME UNCHANGED <<source, release>>
  PROVE  \A p : PaywallStays(p)
  BY DEF PaywallStays, Active, Released

LEMMA ExperimentsStay ==
  ASSUME UNCHANGED experiment
  PROVE  \A e : ExperimentStays(e)
  BY DEF ExperimentStays

(* Steps that only read, end, or write something else. *)
LEMMA OthersFollow ==
  ASSUME Types, Follows, NEW r \in Requests,
         \/ Fail(r) \/ ReadDraft(r) \/ WriteDraft(r) \/ ReadPublish(r) \/ LookUpReleased(r)
         \/ ReadActivate(r) \/ ReadPaywall(r) \/ ChooseRelease(r) \/ Snapshot(r) \/ Apply(r)
         \/ ReadAssign(r) \/ Clear(r) \/ SnapshotShowings(r)
         \/ ReadSave(r) \/ ReadStart(r) \/ ReadPause(r) \/ ReadConclude(r) \/ ReadArchive(r)
         \/ ChooseWinners(r)
  PROVE  Follows'
<1> DEFINE Kept == /\ open' \subseteq open /\ UNCHANGED <<source, release, experiment>>
                   /\ HistoryGrows
<1>1. ASSUME \/ Fail(r) \/ ReadDraft(r) \/ WriteDraft(r) \/ ReadPublish(r) \/ LookUpReleased(r)
             \/ ReadActivate(r) \/ ReadPaywall(r) \/ ChooseRelease(r) \/ Snapshot(r)
      PROVE  Kept
  BY <1>1 DEF Fail, ReadDraft, WriteDraft, ReadPublish, LookUpReleased, ReadActivate,
              ReadPaywall, ChooseRelease, Snapshot, tables, history, HistoryGrows
<1>2. ASSUME Apply(r) \/ ReadAssign(r) \/ Clear(r) \/ SnapshotShowings(r) \/ ChooseWinners(r)
      PROVE  Kept
  <2>1. CASE Apply(r)
    BY <2>1 DEF Apply, tables, HistoryGrows
  <2>2. CASE Clear(r)
    BY <2>2 DEF Clear, history, HistoryGrows
  <2>3. CASE ReadAssign(r) \/ SnapshotShowings(r) \/ ChooseWinners(r)
    BY <2>3 DEF ReadAssign, SnapshotShowings, ChooseWinners, tables, history, HistoryGrows
  <2> QED BY <1>2, <2>1, <2>2, <2>3
<1>3. ASSUME ReadSave(r) \/ ReadStart(r) \/ ReadPause(r) \/ ReadConclude(r) \/ ReadArchive(r)
      PROVE  Kept
  BY <1>3 DEF ReadSave, ReadStart, ReadPause, ReadConclude, ReadArchive, ReadExperiment,
              tables, history, HistoryGrows
<1> QED BY <1>1, <1>2, <1>3, PaywallsStay, ExperimentsStay, FollowsOn

(* A deploy that keeps the active release: a paywall edited in Studio until *)
(* now goes astray.                                                        *)
LEMMA KeepFollows ==
  ASSUME IInv, Types, Follows, NEW r \in Requests, KeepActive(r)
  PROVE  Follows'
<1>1. PICK p : p = call[r].paywall
  OBVIOUS
<1>2. /\ source' = [source EXCEPT ![p] = "code"]
      /\ astray' = IF source[p] = "code" THEN astray ELSE astray \cup {p}
      /\ UNCHANGED <<release, open, experiment, overtaken, moved, named>>
  BY <1>1 DEF KeepActive
<1>3. \A q \in Paywalls : PaywallStays(q)
  BY <1>2 DEF Types, TableTypes, PaywallStays, Active, Released
<1> QED BY <1>2, <1>3, ExperimentsStay, FollowsOn DEF HistoryGrows

(* The release a request commits is active, other paywalls keep theirs.    *)
LEMMA CommitActivates ==
  ASSUME IInv, NEW r \in Requests, Commit(r), NEW p, p = call[r].paywall
  PROVE  /\ seen[r].version \in Active(p)'
         /\ \A q \in Paywalls \ {p} : Active(q)' = Active(q)
<1>1. PICK c, y, v : c = call[r] /\ p = c.paywall /\ y = seen[r] /\ v = y.version
  OBVIOUS
<1>2. Activates(c, y) /\ p \in Paywalls /\ v \in Versions
  BY <1>1, ActivationKnows DEF Commit, Is, Activates
<1> DEFINE x == [content |-> IF y.fresh THEN y.content ELSE release[p][v].content,
                 active |-> TRUE]
           f == [u \in Versions |->
                   IF u = v THEN x
                   ELSE IF u \in y.held THEN [release[p][u] EXCEPT !.active = FALSE]
                   ELSE release[p][u]]
<1>3. release' = [release EXCEPT ![p] = f]
  BY <1>1 DEF Commit
<1>4. release \in [Paywalls -> [Versions -> Release \cup {None}]]
  BY DEF IInv, ReleaseTypes
<1>5. x \in Release /\ x.active
  <2>1. (IF y.fresh THEN y.content ELSE release[p][v].content) \in Contents
    BY <1>1, <1>2, <1>4 DEF Activates, Released, Release
  <2> QED BY <2>1 DEF Release
<1>6. f[v] = x
  BY <1>2
<1> HIDE DEF x, f
<1>7. /\ release'[p][v] = x
      /\ \A q \in Paywalls \ {p} : release'[q] = release[q]
  BY <1>2, <1>3, <1>4, <1>6
<1> QED BY <1>1, <1>2, <1>5, <1>7, NoneAssumption DEF Active, Released

(* An activation moves every showing of a code paywall, or it goes astray. *)
LEMMA CommitFollows ==
  ASSUME IInv, Types, Follows, NEW r \in Requests, Commit(r)
  PROVE  Follows'
<1> DEFINE old == seen[r].rows
           v == seen[r].version
           New(s) == [id |-> Numbering(old)[s], pin |-> [s.pin EXCEPT !.version = v]]
<1>1. PICK p : p = call[r].paywall
  OBVIOUS
<1> DEFINE codes == call[r].op = "deploy" \/ source[p] = "code"
<1>2. /\ call[r].op \in ReleaseCalls /\ at[r] = "commit"
      /\ UNCHANGED <<experiment, moved, named>> /\ overtaken \subseteq overtaken'
      /\ source' = IF codes THEN [source EXCEPT ![p] = "code"] ELSE source
      /\ open' = (open \ old) \cup {New(s) : s \in old}
      /\ astray' = astray \cup (IF codes /\ Stale(p, v) \ old # {} THEN {p} ELSE {})
  BY <1>1 DEF Commit, Is, Activations, ReleaseCalls
<1>3. p \in Paywalls /\ v \in Versions
  BY <1>1, <1>2, ReleasesPaywall, ActivationKnows DEF Activates
<1>4. v \in Active(p)' /\ \A q \in Paywalls \ {p} : Active(q)' = Active(q)
  BY <1>1, CommitActivates
<1>5. ASSUME NEW s \in old
      PROVE  /\ New(s).pin.paywall = p /\ New(s).pin.version = v /\ New(s).pin.flag = None
  <2>1. s.pin \in Pin /\ s.pin.paywall = p /\ s.pin.flag = None
    BY <1>1, <1>2, SeenIsTyped DEF Sees, SeenType, Row
  <2>2. [s.pin EXCEPT !.version = v].version = v
    BY <2>1 DEF Pin
  <2>3. /\ [s.pin EXCEPT !.version = v].paywall = p
        /\ [s.pin EXCEPT !.version = v].flag = None
    BY <2>1 DEF Pin
  <2> QED BY <2>2, <2>3
<1> HIDE DEF New
<1>6. \A s \in open' : s \in open \ old \/ \E t \in old : s = New(t)
  BY <1>2
<1>7. HistoryGrows
  BY <1>2 DEF HistoryGrows
<1>8. \A e : ExperimentStays(e)
  BY <1>2, ExperimentsStay
<1>9. \A q \in Paywalls \ {p} : PaywallStays(q)
  BY <1>2, <1>4 DEF Types, TableTypes, PaywallStays
<1>10. Placement' /\ ConcludedLetsGo'
  <2>1. \A s \in open' : s.pin.flag # None => s \in open
    BY <1>5, <1>6
  <2>2. Placement'
    BY <1>7, <1>8, <2>1 DEF Follows, Placement, HistoryGrows, ExperimentStays
  <2>3. ConcludedLetsGo'
    BY <1>7, <1>8, <2>1 DEF Follows, ConcludedLetsGo, HistoryGrows, ExperimentStays
  <2> QED BY <2>2, <2>3
<1>11. CodeFollows'
  <2> SUFFICES ASSUME NEW s \in open', s.pin.flag = None, source'[s.pin.paywall] = "code",
                      s.id \notin named', s.pin.paywall \notin overtaken' \cup astray'
               PROVE  s.pin.version \in Active(s.pin.paywall)'
    BY DEF CodeFollows
  <2>1. CASE \E t \in old : s = New(t)
    BY <1>4, <1>5, <2>1
  <2>2. CASE s \in open \ old /\ s.pin.paywall = p
    <3>1. codes
      BY <1>2, <2>2 DEF Types, TableTypes
    <3>2. s \notin Stale(p, v)
      BY <1>2, <2>2, <3>1
    <3>3. s.pin.version = v
      BY <2>2, <3>2 DEF Stale
    <3> QED BY <1>4, <2>2, <3>3
  <2>3. CASE s \in open \ old /\ s.pin.paywall # p
    <3>1. PaywallStays(s.pin.paywall)
      BY <1>9, <2>3, PinsAreEither
    <3> QED BY <1>7, <2>3, <3>1, ShownStays
  <2> QED BY <1>6, <2>1, <2>2, <2>3
<1> QED BY <1>10, <1>11 DEF Follows

(* What an experiment row becomes when one field of it is written. *)
LEMMA ExperimentRow ==
  ASSUME Types, NEW e \in Experiments, NEW x, Change(e, x)
  PROVE  /\ experiment'[e] = x /\ \A d \in Experiments \ {e} : experiment'[d] = experiment[d]
         /\ experiment[e] \in Experiment
  BY DEF Types, TableTypes, Change

(* The flag, the archive mark and the placements of an experiment; only a  *)
(* draft, which is shown nowhere, is saved without moving it.              *)
LEMMA ExperimentsFollow ==
  ASSUME IInv, Types, Follows, NEW r \in Requests,
         \/ EnableFlag(r) \/ DisableFlag(r) \/ Save(r) \/ Pause(r) \/ Archive(r) \/ Restore(r)
  PROVE  Follows'
<1>1. PICK e : e = call[r].experiment
  OBVIOUS
<1>2. e \in Experiments
  <2>1. call[r].op \in OfExperiment \cup {"restore"}
    BY DEF EnableFlag, DisableFlag, Save, Pause, Archive, Restore, Begins, Is, OfExperiment
  <2> QED BY <1>1, <2>1, SeenIsTyped, CallFields
<1>3. UNCHANGED <<open, source, release>> /\ HistoryGrows
  BY DEF EnableFlag, DisableFlag, Save, Pause, Archive, Restore, history, HistoryGrows
<1>4. ASSUME NEW d \in Experiments, experiment[d].status # "draft" \/ ~Save(r) \/ d # e
      PROVE  ExperimentStays(d)
  <2>1. CASE d # e
    <3>1. PICK x : Change(e, x)
      BY <1>1 DEF EnableFlag, DisableFlag, Save, Pause, Archive, Restore
    <3>2. experiment'[d] = experiment[d]
      BY <1>2, <2>1, <3>1, ExperimentRow
    <3> QED BY <3>2 DEF ExperimentStays
  <2>2. CASE d = e /\ Save(r)
    <3>1. Change(e, [experiment[e] EXCEPT !.setup = call[r].setup]) /\ e \in moved'
      BY <1>1, <1>4, <2>2 DEF Save
    <3>2. experiment'[e].status = experiment[e].status
      BY <1>2, <3>1, ExperimentRow DEF Experiment
    <3> QED BY <2>2, <3>1, <3>2 DEF ExperimentStays
  <2>3. CASE d = e /\ (EnableFlag(r) \/ DisableFlag(r))
    <3>1. PICK b : Change(e, [experiment[e] EXCEPT !.enabled = b])
      BY <1>1, <2>3 DEF EnableFlag, DisableFlag
    <3>2. /\ experiment'[e].status = experiment[e].status
          /\ experiment'[e].setup = experiment[e].setup
      BY <1>2, <3>1, ExperimentRow DEF Experiment
    <3> QED BY <2>3, <3>2 DEF ExperimentStays
  <2>4. CASE d = e /\ (Archive(r) \/ Restore(r))
    <3>1. PICK b : Change(e, [experiment[e] EXCEPT !.archived = b])
      BY <1>1, <2>4 DEF Archive, Restore
    <3>2. /\ experiment'[e].status = experiment[e].status
          /\ experiment'[e].setup = experiment[e].setup
      BY <1>2, <3>1, ExperimentRow DEF Experiment
    <3> QED BY <2>4, <3>2 DEF ExperimentStays
  <2>5. CASE d = e /\ Pause(r)
    <3>1. Change(e, [experiment[e] EXCEPT !.status = "paused"])
      BY <1>1, <2>5 DEF Pause
    <3>2. /\ experiment'[e].status = "paused"
          /\ experiment'[e].setup = experiment[e].setup
      BY <1>2, <3>1, ExperimentRow DEF Experiment
    <3> QED BY <2>5, <3>2 DEF ExperimentStays
  <2> QED BY <2>1, <2>2, <2>3, <2>4, <2>5
<1>5. \A s \in open : /\ PaywallStays(s.pin.paywall)
                      /\ s.pin.flag # None => ExperimentStays(s.pin.flag)
  <2> SUFFICES ASSUME NEW s \in open, s.pin.flag # None PROVE ExperimentStays(s.pin.flag)
    BY <1>3, PaywallsStay
  <2>1. s.pin.flag \in Experiments /\ experiment[s.pin.flag].status # "draft"
    BY PinsAreEither DEF Follows, Placement
  <2> QED BY <1>4, <2>1
<1>6. Placement'
  BY <1>3, <1>5, ShownStays DEF Placement
<1>7. CodeFollows'
  BY <1>3, <1>5, ShownStays DEF CodeFollows
<1>8. ConcludedLetsGo'
  BY <1>3, <1>5, ShownStays DEF ConcludedLetsGo
<1> QED BY <1>6, <1>7, <1>8 DEF Follows

-----------------------------------------------------------------------------
(* Showings are replaced. *)

(* An experiment that a start or a conclusion finds unchanged has the      *)
(* placements the request read.                                            *)
LEMMA UnchangedSetup ==
  ASSUME IInv, Types, NEW r \in Requests, at[r] = "switch", call[r].op \in {"start", "conclude"},
         ~Changed(r)
  PROVE  Replaced(r) = Targets(experiment[call[r].experiment].setup)
<1>1. seen[r].setup \in SetupType
  BY SeenIsTyped DEF Sees, OfExperiment, Ended
<1> QED BY <1>1, NoneAssumption DEF Changed, Replaced

LEMMA Replacing ==
  ASSUME IInv, ShowInv, Types, NEW r \in Requests, ReplaceShowings(r)
  PROVE  /\ at[r] = "switch" /\ call[r].op \in Replaces
         /\ \A s \in open' :
              \/ s \in open \ seen[r].rows
              \/ s.pin \in seen[r].pins /\ s.id = Numbering(seen[r].pins)[s.pin]
         /\ \A y \in seen[r].pins :
              y \in Pin /\ y.flag = PinnedBy(call[r]) /\ y.location \in Replaced(r)
<1>1. /\ at[r] = "switch" /\ call[r].op \in Replaces
      /\ open' = (open \ seen[r].rows)
                   \cup {[id |-> Numbering(seen[r].pins)[x], pin |-> x] : x \in seen[r].pins}
  BY DEF ReplaceShowings, Ending, Is
<1>2. \A y \in seen[r].pins : y \in Pin /\ y.flag = PinnedBy(call[r])
  BY SeenIsTyped DEF Sees, SeenType
<1>3. \A y \in seen[r].pins : y.location \in Replaced(r)
  BY <1>1, SeenIsPrepared, ReplacedAreGoals DEF Prepared
<1> QED BY <1>1, <1>2, <1>3

(* Releases pinned: those a placement names, active ones, or their paywall *)
(* goes astray.                                                            *)
LEMMA PinnedReleases ==
  ASSUME IInv, ShowInv, Types, Follows, NEW r \in Requests, ReplaceShowings(r),
         call[r].op # "start", UNCHANGED <<source, release>>,
         overtaken \subseteq overtaken', astray' = astray \cup Superseded(r),
         named \subseteq named', \A x \in Named(r) : Numbering(seen[r].pins)[x] \in named'
  PROVE  /\ CodeFollows'
         /\ \A s \in open' : s.pin.flag # None => s \in open \ seen[r].rows
<1>1. \A s \in open' : \/ s \in open \ seen[r].rows
                       \/ /\ s.pin \in seen[r].pins /\ s.pin.flag = None
                          /\ s.id = Numbering(seen[r].pins)[s.pin]
  BY Replacing DEF PinnedBy
<1>2. \A p : PaywallStays(p)
  BY PaywallsStay
<1>3. \A y \in seen[r].pins \ Named(r) :
        y.flag = None /\ y.paywall \notin astray' => y.version \in Active(y.paywall)
  BY DEF Superseded
<1>4. CodeFollows'
  <2> SUFFICES ASSUME NEW s \in open', s.pin.flag = None, source'[s.pin.paywall] = "code",
                      s.id \notin named', s.pin.paywall \notin overtaken' \cup astray'
               PROVE  s.pin.version \in Active(s.pin.paywall)'
    BY DEF CodeFollows
  <2>1. CASE s \in open
    BY <1>2, <2>1 DEF Follows, CodeFollows, PaywallStays
  <2>2. CASE s.pin \in seen[r].pins /\ s.id = Numbering(seen[r].pins)[s.pin]
    <3>1. s.pin \notin Named(r)
      BY <2>2
    <3>2. s.pin.version \in Active(s.pin.paywall)
      BY <1>3, <2>2, <3>1
    <3> QED BY <3>2 DEF Active, Released
  <2> QED BY <1>1, <2>1, <2>2
<1> QED BY <1>1, <1>4

LEMMA AssignFollows ==
  ASSUME IInv, ShowInv, Types, Follows, NEW r \in Requests, Assign(r)
  PROVE  Follows'
<1>1. /\ ReplaceShowings(r) /\ call[r].op = "assign"
      /\ UNCHANGED <<source, release, experiment>> /\ HistoryGrows
      /\ overtaken \subseteq overtaken' /\ astray' = astray \cup Superseded(r)
      /\ named' = named /\ Named(r) = {}
  BY DEF Assign, HistoryGrows, Named
<1>2. CodeFollows' /\ \A s \in open' : s.pin.flag # None => s \in open
  BY <1>1, PinnedReleases
<1>3. \A e : ExperimentStays(e)
  BY <1>1, ExperimentsStay
<1>4. Placement'
  BY <1>1, <1>2, <1>3 DEF Follows, Placement, HistoryGrows, ExperimentStays
<1>5. ConcludedLetsGo'
  BY <1>1, <1>2, <1>3 DEF Follows, ConcludedLetsGo, HistoryGrows, ExperimentStays
<1> QED BY <1>2, <1>4, <1>5 DEF Follows

LEMMA StartFollows ==
  ASSUME IInv, ShowInv, Types, Follows, NEW r \in Requests, Start(r)
  PROVE  Follows'
<1>1. PICK e : e = call[r].experiment
  OBVIOUS
<1>2. /\ ReplaceShowings(r) /\ call[r].op = "start"
      /\ UNCHANGED <<source, release>> /\ HistoryGrows
      /\ Change(e, [experiment[e] EXCEPT !.status = "running"])
      /\ Changed(r) => e \in overtaken'
  BY <1>1 DEF Start, HistoryGrows
<1>3. e \in Experiments /\ e # None
  BY <1>1, <1>2, SeenIsTyped, CallFields, NoneAssumption DEF OfExperiment
<1>4. /\ experiment'[e].status = "running" /\ experiment'[e].setup = experiment[e].setup
      /\ \A d \in Experiments \ {e} : experiment'[d] = experiment[d]
  BY <1>2, <1>3, ExperimentRow DEF Experiment
<1>5. \A d \in Experiments : ExperimentStays(d)
  BY <1>4 DEF ExperimentStays
<1>6. \A s \in open' :
        \/ /\ s \in open
           /\ PaywallStays(s.pin.paywall)
           /\ s.pin.flag # None => ExperimentStays(s.pin.flag)
        \/ s.pin.flag = e /\ s.pin.location \in Replaced(r)
  BY <1>1, <1>2, <1>5, Replacing, PinsAreEither, PaywallsStay DEF PinnedBy
<1>7. e \notin overtaken' => Replaced(r) = Targets(experiment'[e].setup)
  BY <1>1, <1>2, <1>4, UnchangedSetup, Replacing
<1>8. Placement'
  BY <1>2, <1>4, <1>6, <1>7, ShownStays DEF Placement
<1>9. CodeFollows'
  BY <1>2, <1>3, <1>6, ShownStays DEF CodeFollows
<1>10. ConcludedLetsGo'
  BY <1>2, <1>4, <1>6, ShownStays DEF ConcludedLetsGo
<1> QED BY <1>8, <1>9, <1>10 DEF Follows

(* Where the experiment still shows, it is placed; the request has read    *)
(* these placements and what is open there, or was overtaken.              *)
LEMMA ConcludeFollows ==
  ASSUME IInv, ShowInv, Types, Follows, NEW r \in Requests, Conclude(r)
  PROVE  Follows'
<1>1. PICK e : e = call[r].experiment
  OBVIOUS
<1>2. /\ ReplaceShowings(r) /\ call[r].op = "conclude"
      /\ UNCHANGED <<source, release>> /\ HistoryGrows
      /\ Change(e, [experiment[e] EXCEPT !.status = "concluded"])
      /\ overtaken' = overtaken \cup Outdated(r) \cup (IF Changed(r) THEN {e} ELSE {})
      /\ astray' = astray \cup Superseded(r) /\ moved' = moved
      /\ named' = named \cup {Numbering(seen[r].pins)[x] : x \in Named(r)}
  BY <1>1 DEF Conclude, HistoryGrows
<1>3. e \in Experiments /\ e # None
  BY <1>1, <1>2, SeenIsTyped, CallFields, NoneAssumption DEF OfExperiment
<1>4. /\ experiment'[e].status = "concluded" /\ experiment'[e].setup = experiment[e].setup
      /\ \A d \in Experiments \ {e} : experiment'[d] = experiment[d]
  BY <1>2, <1>3, ExperimentRow DEF Experiment
<1>5. CodeFollows' /\ \A s \in open' : s.pin.flag # None => s \in open \ seen[r].rows
  BY <1>2, PinnedReleases
<1>6. \A s \in open' : s.pin.flag # None => s.pin.flag \in Experiments
  BY <1>5, PinsAreEither
<1>7. Placement'
  BY <1>2, <1>4, <1>5, <1>6 DEF Follows, Placement, HistoryGrows
<1>8. ASSUME NEW s \in open', s.pin.flag = e, e \notin moved',
             {e, s.pin.location} \cap overtaken' = {}
      PROVE  FALSE
  <2>1. s \in open \ seen[r].rows /\ s.pin.location \in Locations
    BY <1>3, <1>5, <1>8, PinsAreEither
  <2>2. ~Changed(r) /\ e \notin overtaken /\ s.pin.location \notin Outdated(r)
    BY <1>2, <1>8
  <2>3. s.pin.location \in Targets(experiment[e].setup)
    BY <1>2, <1>3, <1>8, <2>1, <2>2 DEF Follows, Placement
  <2>4. s.pin.location \in Replaced(r)
    BY <1>1, <1>2, <2>2, <2>3, UnchangedSetup, Replacing
  <2>5. OpenAt(s.pin.location) \subseteq seen[r].rows
    BY <2>2, <2>4 DEF Outdated
  <2> QED BY <2>1, <2>5 DEF OpenAt
<1>9. ConcludedLetsGo'
  BY <1>2, <1>4, <1>5, <1>6, <1>8 DEF Follows, ConcludedLetsGo, HistoryGrows
<1> QED BY <1>5, <1>7, <1>9 DEF Follows

-----------------------------------------------------------------------------
LEMMA InitiallyFollows ==
  ASSUME Init
  PROVE  Follows
<1>1. PICK s \in Starts :
        source = s.source /\ release = s.release /\ open = s.open /\ experiment = s.experiment
  BY DEF Init
<1>2. s \in StartType
  BY StartsAssumption
<1>3. CodeFollows
  <2> SUFFICES ASSUME NEW x \in open, x.pin.flag = None, source[x.pin.paywall] = "code"
               PROVE  x.pin.version \in Active(x.pin.paywall)
    BY DEF CodeFollows
  <2>1. x.pin.paywall \in Paywalls
    BY <1>1, <1>2, NoneAssumption DEF StartType, Row, Pin
  <2> QED BY <1>1, <2>1, StartsAssumption DEF Active, Released
<1>4. \A x \in open : x.pin.flag # None =>
        LET e == experiment[x.pin.flag] IN
        e.status \in {"running", "paused"} /\ x.pin.location \in Targets(e.setup)
  BY <1>1, StartsAssumption
<1> QED BY <1>3, <1>4 DEF Follows, Placement, ConcludedLetsGo

LEMMA FollowsStep ==
  ASSUME IInv, ShowInv, Types, Follows, [Next]_vars
  PROVE  Follows'
<1>1. ASSUME NEW r \in Requests, Fail(r) PROVE Follows'
  BY <1>1, OthersFollow
<1>2. ASSUME NEW r \in Requests, Releasing(r) PROVE Follows'
  BY <1>2, OthersFollow, KeepFollows, CommitFollows DEF Releasing
<1>3. ASSUME NEW r \in Requests, Showing(r) PROVE Follows'
  BY <1>3, OthersFollow, AssignFollows DEF Showing
<1>4. ASSUME NEW r \in Requests, Experimenting(r) PROVE Follows'
  BY <1>4, OthersFollow, ExperimentsFollow, StartFollows, ConcludeFollows DEF Experimenting
<1>5. CASE UNCHANGED vars
  <2>1. UNCHANGED <<open, source, release, experiment, overtaken, astray, moved, named>>
    BY <1>5 DEF vars, tables, history
  <2> QED BY <2>1, PaywallsStay, ExperimentsStay, FollowsOn DEF HistoryGrows
<1> QED BY <1>1, <1>2, <1>3, <1>4, <1>5 DEF Next

THEOREM FollowsInvariant == Spec => []Follows
<1>1. Init => Follows
  BY InitiallyFollows
<1>2. IInv /\ ShowInv /\ Types /\ Follows /\ [Next]_vars => Follows'
  BY FollowsStep
<1> QED BY <1>1, <1>2, ReleasesInvariant, ShowingsInvariant, ServingTypesInvariant, PTL DEF Spec

(* What is pinned of a paywall deployed from code is an active release,    *)
(* unless a placement named it, or the paywall was overtaken or its pin    *)
(* had been superseded when committed.                                     *)
THEOREM CodeIsShownAsDeployed == Spec => []CodeFollows
<1>1. Follows => CodeFollows
  BY DEF Follows
<1> QED BY <1>1, FollowsInvariant, PTL

(* A concluded experiment is shown nowhere, if its placements stayed as    *)
(* started and no request crossed the conclusion.                          *)
THEOREM ConcludedIsShownNowhere == Spec => []ConcludedLetsGo
<1>1. Follows => ConcludedLetsGo
  BY DEF Follows
<1> QED BY <1>1, FollowsInvariant, PTL

=============================================================================
