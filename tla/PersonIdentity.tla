---------------------------- MODULE PersonIdentity ----------------------------
(***************************************************************************)
(* Person identity of one project: events carry a distinct id, the service *)
(* resolves it to a person, creates the person when there is none, folds   *)
(* the event's trait write into it, and an identify stitches two distinct  *)
(* ids together, which may merge two persons.                              *)
(*                                                                         *)
(* Every operation is one READ COMMITTED transaction.  It reads under the  *)
(* advisory locks of its distinct ids, and it locks person rows only after *)
(* it has read them, so a step is a read; the writes and the commit are    *)
(* one step, taken when no other transaction holds a row it updates.       *)
(* A person is named by the distinct id it was created for: a distinct id  *)
(* creates at most one, which BornOnce checks.                             *)
(***************************************************************************)
EXTENDS Integers, FiniteSets, Sequences

CONSTANTS
  Ids,        \* distinct ids, and the names of persons
  Anonymous,  \* distinct ids with the reserved anonymous prefix
  Workers,    \* concurrent transactions
  Events,     \* events, in the order of their ids (the tie-break of writes)
  Stories,    \* what the events may say
  None,
  MaxRuns     \* bound: how often an event is processed (redelivery)

Kinds == {"resolve", "identify", "rebuild"}
EventType == [kind: Kinds, id: Ids, prev: Ids, ts: Nat, write: {"none", "set", "setOnce"}]

\* A trait cell is the event that wrote the value: 0 when nobody did.
Cells == Events \cup {0}
PersonRow == [seen: Nat, cell: Cells, into: Ids \cup {None}]

ASSUME IdentityAssumption ==
  /\ Ids \subseteq Int /\ IsFiniteSet(Ids) /\ Anonymous \subseteq Ids
  /\ Events \subseteq Int \ {0}
  /\ \A s \in Stories : \A e \in DOMAIN s : e \in Events /\ s[e] \in EventType
  /\ None \notin Ids /\ None \notin PersonRow
  /\ MaxRuns \in Nat

VARIABLES
  story,    \* what each event says
  persons,  \* person rows
  mapping,  \* person_identity: distinct id -> person
  token,    \* person_external_identifier: account token of an id -> person
  log,      \* identity_assertion: the events that stitched
  tx,       \* the open transaction of each worker
  runs,     \* how often each event has been taken up
  born,     \* history: how many persons each distinct id has created
  wrote,    \* history: the person each event's trait write went to
  torn      \* history: a commit overwrote what another one had changed

tables == <<persons, mapping, token, log, born, wrote, torn>>
vars == <<story, tables, tx, runs>>

Idle == [phase |-> "idle"]
TxType ==
  {Idle}
    \cup [phase: {"aimed"}, ev: Events, fresh: BOOLEAN, target: Ids, row: PersonRow]
    \cup [phase: {"sighted"}, ev: Events, fresh: BOOLEAN, target: Ids, row: PersonRow,
          source: Ids \cup {None}, srow: PersonRow \cup {None}]
    \cup [phase: {"listed"}, ev: Events, rows: [Ids -> Ids \cup {None}]]
    \cup [phase: {"planned"}, ev: Events, rows: [Ids -> Ids \cup {None}],
          people: [Ids -> PersonRow \cup {None}], asserted: SUBSET Events]

TypeOK ==
  /\ story \in Stories
  /\ persons \in [Ids -> PersonRow \cup {None}]
  /\ mapping \in [Ids -> Ids \cup {None}]
  /\ token \in [Ids -> Ids \cup {None}]
  /\ log \subseteq Events
  /\ tx \in [Workers -> TxType]
  /\ runs \in [Events -> 0..MaxRuns]
  /\ born \in [Ids -> Nat]
  /\ wrote \in [Events -> Ids \cup {None}]
  /\ torn \in BOOLEAN
  /\ \A p \in Ids : persons[p] # None => persons[p].into # p

Init ==
  /\ story \in Stories
  /\ persons = [p \in Ids |-> None]
  /\ mapping = [x \in Ids |-> None]
  /\ token = [x \in Ids |-> None]
  /\ log = {}
  /\ tx = [w \in Workers |-> Idle]
  /\ runs = [e \in Events |-> 0]
  /\ born = [x \in Ids |-> 0]
  /\ wrote = [e \in Events |-> None]
  /\ torn = FALSE

----------------------------------------------------------------------------
(* Traits: one key, last writer wins.                                      *)

\* isLater: the order of writes, by timestamp and then by event id.
Later(a, b) ==
  story[a].ts > story[b].ts \/ (story[a].ts = story[b].ts /\ a > b)

\* applyTraitWrite: whether the write of e replaces the cell c.
WriteWins(e, c) ==
  \/ c = 0
  \/ story[e].write = "setOnce" /\ story[c].write = "setOnce" /\ Later(c, e)
  \/ story[e].write = "set" /\ (story[c].write = "setOnce" \/ Later(e, c))

ApplyWrite(c, e) == IF story[e].write # "none" /\ WriteWins(e, c) THEN e ELSE c

\* traitCellWins: which of two persons' cells survives their merge.
CellWins(a, b) ==
  IF story[a].write # story[b].write THEN story[a].write = "set"
  ELSE IF story[a].write = "set" THEN Later(a, b) ELSE Later(b, a)

CombineCells_KeepLeft(l, r) == IF l = 0 THEN r ELSE l

CombineCells(l, r) == IF r = 0 \/ (l # 0 /\ CellWins(l, r)) THEN l ELSE r

\* foldTraits: the reference, over a whole set of writes.
Fold(writes) ==
  LET sets == {e \in writes : story[e].write = "set"}
      onces == {e \in writes : story[e].write = "setOnce"}
  IN IF sets # {} THEN CHOOSE e \in sets : \A f \in sets \ {e} : Later(e, f)
     ELSE IF onces # {} THEN CHOOSE e \in onces : \A f \in onces \ {e} : Later(f, e)
     ELSE 0

----------------------------------------------------------------------------
(* Persons, merges and the identity graph.                                 *)

\* comparePersonForMerge: the person seen first, the smaller name on a tie.
Older(people, p, q) ==
  people[p].seen < people[q].seen \/ (people[p].seen = people[q].seen /\ p <= q)

\* followMerge: where the chain of merges from p leads.
MergedTo(p) == IF persons[p].into = None THEN p ELSE persons[p].into
Follow(p, n) ==
  LET reach[k \in 0..n] == IF k = 0 THEN p ELSE MergedTo(reach[k - 1])
  IN reach[n]
Canonical(p) == Follow(p, Cardinality(Ids))

\* The live person that p's chain ends at: none when the chain never ends,
\* which keeps its reader busy for good.
Ends(p) == {q \in Ids : q = Canonical(p) /\ persons[q].into = None}

\* resolveIdentities: the distinct ids connected to x by assertions.
Pair(e) == {story[e].prev, story[e].id}
Neighbours(asserted, ids) ==
  ids \cup UNION {Pair(e) : e \in {f \in asserted : Pair(f) \cap ids # {}}}
Component(asserted, x) ==
  LET grow[n \in 0..Cardinality(Ids)] ==
        IF n = 0 THEN {x} ELSE Neighbours(asserted, grow[n - 1])
  IN grow[Cardinality(Ids)]

\* planProjectionRebuild: the oldest person mapped in x's component.
PlannedPerson(rows, people, asserted, x) ==
  LET found == {rows[y] : y \in Component(asserted, x)} \ {None}
  IN IF found = {} THEN None ELSE CHOOSE p \in found : \A q \in found : Older(people, p, q)

\* The diff of rebuildProject: mapping rows, and persons to mark merged.
Repointed(rows, people, asserted) ==
  {x \in Ids : rows[x] # None /\ PlannedPerson(rows, people, asserted, x) \notin {rows[x], None}}
Remerged(rows, people, asserted) ==
  {p \in Ids : \E x \in Ids :
     /\ rows[x] = p
     /\ PlannedPerson(rows, people, asserted, x) \notin {p, people[p].into, None}}

----------------------------------------------------------------------------
(* Locks.                                                                  *)

Touched(e) ==
  CASE story[e].kind = "resolve" -> {story[e].id}
    [] story[e].kind = "identify" -> Pair(e)
    [] OTHER -> {}

LockedByOthers_None(w) == {}

\* The advisory locks of the distinct ids that others hold.
LockedByOthers(w) == UNION {Touched(tx[v].ev) : v \in {u \in Workers \ {w} : tx[u] # Idle}}

\* The mapping rows others hold FOR UPDATE: identify locks them, resolve does not.
HeldRows(w) ==
  UNION {Pair(tx[v].ev) : v \in {u \in Workers \ {w} : tx[u].phase \in {"aimed", "sighted"}
                                    /\ story[tx[u].ev].kind = "identify"}}

----------------------------------------------------------------------------
(* Reading.                                                                *)

NewRow(e) == [seen |-> story[e].ts, into |-> None,
              cell |-> IF story[e].kind = "resolve" THEN ApplyWrite(0, e) ELSE 0]

Take(e) == runs[e] < MaxRuns /\ runs' = [runs EXCEPT ![e] = @ + 1]

\* The transaction takes its advisory locks, in their order, and reads the
\* target's person, which it creates when the distinct id has no mapping.
Aim(w, e) ==
  /\ tx[w] = Idle /\ story[e].kind # "rebuild"
  /\ story[e].kind = "identify" => story[e].id \notin Anonymous
  /\ Take(e)
  /\ Touched(e) \cap LockedByOthers(w) = {}
  /\ LET x == story[e].id
         fresh == mapping[x] = None
     IN \E p \in IF fresh THEN {x} ELSE Ends(mapping[x]) :
          tx' = [tx EXCEPT ![w] =
            [phase |-> "aimed", ev |-> e, fresh |-> fresh, target |-> p,
             row |-> IF fresh THEN NewRow(e) ELSE persons[p]]]
  /\ UNCHANGED <<story, tables>>

\* identify reads the mapping and the person of the previous distinct id.
Sight(w) ==
  /\ tx[w].phase = "aimed" /\ story[tx[w].ev].kind = "identify"
  /\ LET t == tx[w]
         x == story[t.ev].prev
         own == t.fresh /\ x = t.target
     IN \E p \in IF own THEN {x} ELSE IF mapping[x] = None THEN {None} ELSE Ends(mapping[x]) :
          tx' = [tx EXCEPT ![w] =
            [phase |-> "sighted", ev |-> t.ev, fresh |-> t.fresh, target |-> t.target,
             row |-> t.row, source |-> p,
             srow |-> IF own THEN t.row ELSE IF p = None THEN None ELSE persons[p]]]
  /\ UNCHANGED <<story, tables, runs>>

----------------------------------------------------------------------------
(* Writing and committing.                                                 *)

\* A row the transaction is about to overwrite is not what it has read.
Stale(p, row) == persons[p] # row

Min2(a, b) == IF a < b THEN a ELSE b

\* updatePersonProfile: columns computed from the copy read, by id.
Profile(people, p, row, e) ==
  [people EXCEPT ![p].seen = Min2(row.seen, story[e].ts), ![p].cell = ApplyWrite(row.cell, e)]

\* The tables with what the transaction has inserted for its target.
WithTarget(t) ==
  IF t.fresh THEN [persons EXCEPT ![t.target] = t.row] ELSE persons
MappedTarget(t) ==
  IF t.fresh THEN [mapping EXCEPT ![t.target] = t.target] ELSE mapping

Close(w, t) ==
  /\ tx' = [tx EXCEPT ![w] = Idle]
  /\ born' = IF t.fresh THEN [born EXCEPT ![t.target] = @ + 1] ELSE born
  /\ UNCHANGED <<story, runs>>

Record(e, p) == wrote' = IF story[e].write = "none" THEN wrote ELSE [wrote EXCEPT ![e] = p]

\* resolveDistinctId with shouldCreatePerson.
Resolve(w) ==
  /\ tx[w].phase = "aimed" /\ story[tx[w].ev].kind = "resolve"
  /\ LET t == tx[w]
     IN /\ persons' = IF t.fresh THEN WithTarget(t) ELSE Profile(persons, t.target, t.row, t.ev)
        /\ mapping' = MappedTarget(t)
        /\ token' = IF t.fresh THEN [token EXCEPT ![t.target] = t.target] ELSE token
        /\ torn' = (torn \/ (~t.fresh /\ Stale(t.target, t.row)))
        /\ Record(t.ev, t.target)
        /\ Close(w, t)
  /\ UNCHANGED log

\* The source already belongs to a different identified person.
Conflicting(t) ==
  t.source \notin {None, t.target} /\ story[t.ev].prev \notin Anonymous

RealMerge_SamePerson(t) == t.source # None /\ ~Conflicting(t)

RealMerge(t) ==
  /\ t.source \notin {None, t.target} /\ ~Conflicting(t)
  /\ story[t.ev].prev # story[t.ev].id

\* updateTarget stitches a previous distinct id that has no person.
Stitches(t) == t.source = None /\ story[t.ev].prev # story[t.ev].id

Asserts_MergeOnly(t) == RealMerge(t)

\* appendAssertion is called for a merge and for a stitch.
Asserts(t) == RealMerge(t) \/ Stitches(t)

SourceWins_Never(t) == FALSE

\* comparePersonForMerge, on the copies the transaction has read.
SourceWins(t) ==
  t.srow.seen < t.row.seen \/ (t.srow.seen = t.row.seen /\ t.source <= t.target)

\* Both distinct ids are bound to the survivor, unless the source conflicts.
Bindings(t, survivor) ==
  [x \in Ids |-> IF x = story[t.ev].id \/ (x = story[t.ev].prev /\ ~Conflicting(t))
                 THEN survivor ELSE token[x]]

Outdated(t) ==
  \/ ~t.fresh /\ Stale(t.target, t.row)
  \/ t.source \notin {None, t.target} /\ Stale(t.source, t.srow)

Moved_NamedOnly(t, loser, named) == {named}

\* The loser's whole cluster, and the distinct id the identify has named.
Moved(t, loser, named) == {x \in Ids : MappedTarget(t)[x] = loser} \cup {named}

\* mergePeople: the older person takes the other's traits and all of its
\* distinct ids, and the other is archived.
Merge(w) ==
  /\ tx[w].phase = "sighted" /\ RealMerge(tx[w])
  /\ LET t == tx[w]
         winner == IF SourceWins(t) THEN t.source ELSE t.target
         loser == IF SourceWins(t) THEN t.target ELSE t.source
         wrow == IF SourceWins(t) THEN t.srow ELSE t.row
         lrow == IF SourceWins(t) THEN t.row ELSE t.srow
         named == IF SourceWins(t) THEN story[t.ev].id ELSE story[t.ev].prev
         moved == Moved(t, loser, named)
         merged == [wrow EXCEPT !.cell = CombineCells(wrow.cell, lrow.cell)]
     IN /\ moved \cap HeldRows(w) = {}
        /\ persons' = [Profile(WithTarget(t), winner, merged, t.ev) EXCEPT ![loser].into = winner]
        /\ mapping' = [x \in Ids |-> IF x \in moved THEN winner ELSE MappedTarget(t)[x]]
        /\ token' = Bindings(t, winner)
        /\ log' = IF Asserts(t) THEN log \cup {t.ev} ELSE log
        /\ torn' = (torn \/ Outdated(t))
        /\ Record(t.ev, winner)
        /\ Close(w, t)

\* updateTarget: no other person to merge; the write goes to the target.
UpdateTarget(w) ==
  /\ tx[w].phase = "sighted" /\ ~RealMerge(tx[w])
  /\ LET t == tx[w]
     IN /\ persons' = Profile(WithTarget(t), t.target, t.row, t.ev)
        /\ mapping' = IF Stitches(t) THEN [MappedTarget(t) EXCEPT ![story[t.ev].prev] = t.target]
                      ELSE MappedTarget(t)
        /\ token' = Bindings(t, t.target)
        /\ log' = IF Asserts(t) THEN log \cup {t.ev} ELSE log
        /\ torn' = (torn \/ Outdated(t))
        /\ Record(t.ev, t.target)
        /\ Close(w, t)

\* rebuildProject reads the mappings, then the assertions and the persons, and
\* writes the difference to its plan; it takes no lock.
List(w, e) ==
  /\ tx[w] = Idle /\ story[e].kind = "rebuild"
  /\ Take(e)
  /\ tx' = [tx EXCEPT ![w] = [phase |-> "listed", ev |-> e, rows |-> mapping]]
  /\ UNCHANGED <<story, tables>>

Plan(w) ==
  /\ tx[w].phase = "listed"
  /\ tx' = [tx EXCEPT ![w] = [phase |-> "planned", ev |-> tx[w].ev, rows |-> tx[w].rows,
                              people |-> persons, asserted |-> log]]
  /\ UNCHANGED <<story, tables, runs>>

Rebuild(w) ==
  /\ tx[w].phase = "planned"
  /\ LET t == tx[w]
         ids == Repointed(t.rows, t.people, t.asserted)
         gone == Remerged(t.rows, t.people, t.asserted)
         Heir(p) == PlannedPerson(t.rows, t.people, t.asserted, CHOOSE x \in Ids : t.rows[x] = p)
     IN /\ ids \cap HeldRows(w) = {}
        /\ mapping' = [x \in Ids |-> IF x \in ids THEN PlannedPerson(t.rows, t.people, t.asserted, x)
                                     ELSE mapping[x]]
        /\ persons' = [p \in Ids |-> IF p \in gone THEN [persons[p] EXCEPT !.into = Heir(p)]
                                     ELSE persons[p]]
        /\ torn' = (torn \/ (ids \cup gone # {}
                              /\ <<t.rows, t.people, t.asserted>> # <<mapping, persons, log>>))
  /\ tx' = [tx EXCEPT ![w] = Idle]
  /\ UNCHANGED <<story, token, log, runs, born, wrote>>

\* An error, a crash or the choice of a deadlock victim rolls a transaction back.
Abort(w) ==
  /\ tx[w] # Idle
  /\ tx' = [tx EXCEPT ![w] = Idle]
  /\ UNCHANGED <<story, tables, runs>>

Next ==
  \E w \in Workers :
    \/ \E e \in DOMAIN story : Aim(w, e) \/ List(w, e)
    \/ Sight(w) \/ Resolve(w) \/ Merge(w) \/ UpdateTarget(w)
    \/ Plan(w) \/ Rebuild(w) \/ Abort(w)

Spec == Init /\ [][Next]_vars

----------------------------------------------------------------------------
(* Properties.                                                             *)

\* Concurrent first events of a distinct id create one person: the comment at
\* ensureCanonicalPersonForDistinctId, "leaving two persons" without the lock.
BornOnce == \A x \in Ids : born[x] <= 1

\* Two distinct ids name one person, and a person is merged into another, only
\* where the assertion log connects them: the log is the source of truth the
\* projection can be rebuilt from, also after racing merges and a rebuild.
NothingStitchedUnasserted ==
  \A x \in Ids :
    /\ \A y \in Ids : (mapping[x] # None /\ mapping[x] = mapping[y]) => y \in Component(log, x)
    /\ (persons[x] # None /\ persons[x].into # None) => persons[x].into \in Component(log, x)

\* A live person's trait is the fold of every write its distinct ids and the
\* persons merged into it received, whatever the order and however often the
\* events came, unless a commit overwrote a row another had changed.
TraitsAreFolded ==
  ~torn => \A p \in Ids :
    (persons[p] # None /\ persons[p].into = None) =>
      persons[p].cell = Fold({e \in Events : wrote[e] # None /\ Canonical(wrote[e]) = p})

\* A merge leads to an older person, so a chain of merges ends at a live one and
\* followMerge returns.
LeadsToElder ==
  ~torn => \A p \in Ids :
    (persons[p] # None /\ persons[p].into # None) => Older(persons, persons[p].into, p) /\ Ends(p) # {}

\* The projection the requests build is the one the log defines: rebuildProject
\* would change nothing, and every mapping names its person directly.  An
\* account token leads to the person its distinct id resolves to, through every
\* merge, so a store's webhook finds the customer.
RebuildAgrees ==
  ~torn =>
    /\ Repointed(mapping, persons, log) = {}
    /\ Remerged(mapping, persons, log) = {}
    /\ \A x \in Ids :
         /\ mapping[x] # None => persons[mapping[x]].into = None
         /\ token[x] # None =>
              mapping[x] # None /\ Canonical(token[x]) = Canonical(mapping[x])
=============================================================================
