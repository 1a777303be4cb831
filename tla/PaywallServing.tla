---------------------------- MODULE PaywallServing ----------------------------
(***************************************************************************)
(* What the paywall locations of a project show: releases of paywalls,     *)
(* drafted and published in Studio or deployed from code, one of them      *)
(* active per paywall; showings, which pin a release or an experiment to a *)
(* location; and the experiments' life cycle, which replaces showings.     *)
(*                                                                         *)
(* A request is one call of a service, from its reads to its commit or to  *)
(* an error.  Transactions are READ COMMITTED: an UPDATE collects the rows *)
(* it matches (Snapshot, SnapshotShowings), waits for those another one    *)
(* has locked, and skips the ones that no longer match; it does not see    *)
(* rows committed after it collected.  Rows written are visible at commit. *)
(* What a request has read and not yet used is in seen.                    *)
(***************************************************************************)
EXTENDS Naturals, FiniteSets

CONSTANTS
  Requests,     \* calls under way
  Calls,        \* what may be called
  Starts,       \* the rows there may be at first
  Paywalls, Locations, Experiments,
  Contents,     \* rendered documents (content hashes)
  None,
  MaxVersion,   \* bound: release versions of a paywall
  MaxOverlap    \* bound: calls under way at once

Versions == 1..MaxVersion
Arms == {"control", "variant"}

\* The placements of an experiment: the paywall of each arm at each location.
\* Rows written when a treatment named a release still name it.
SetupNaming(versions) ==
  [Arms -> [Locations -> [paywall: Paywalls, version: versions] \cup {None}]]
SetupType == SetupNaming(Versions \cup {None})

ReleaseCalls == {"draft", "publish", "deploy", "activate"}
CallType ==
  [op: {"publish", "activate"}, paywall: Paywalls]
    \cup [op: {"draft", "deploy"}, paywall: Paywalls, content: Contents]
    \cup [op: {"assign"}, location: Locations, paywall: Paywalls]
    \cup [op: {"clear", "archiveLocation"}, location: Locations]
    \cup [op: {"save"}, experiment: Experiments, setup: SetupNaming({None})]
    \cup [op: {"start", "pause", "archive", "restore"}, experiment: Experiments]
    \cup [op: {"conclude"}, experiment: Experiments, winner: Arms]

Statuses == {"draft", "running", "paused", "concluded"}
Experiment == [status: Statuses, enabled: BOOLEAN, archived: BOOLEAN, setup: SetupType]
Release == [content: Contents, active: BOOLEAN]
\* What a showing says: at this location, a release or an experiment.
Pin ==
  [location: Locations, paywall: Paywalls, version: Versions, flag: {None}]
    \cup [location: Locations, paywall: {None}, version: {None}, flag: Experiments]
Row == [id: Nat, pin: Pin]
StartType ==
  [source: [Paywalls -> {None, "editor", "code"}],
   release: [Paywalls -> [Versions -> Release \cup {None}]],
   open: SUBSET Row,
   experiment: [Experiments -> Experiment]]

ASSUME BoundsAssumption == MaxVersion \in Nat /\ MaxOverlap \in Nat /\ IsFiniteSet(Locations)

ASSUME NoneAssumption ==
  /\ None \notin Paywalls \cup Locations \cup Experiments \cup Contents \cup Nat \cup Release
  /\ None \notin SetupType \cup [paywall: Paywalls, version: Versions \cup {None}]

ASSUME CallsAssumption == Calls \subseteq CallType

\* Where an experiment has a placement, in one arm or another.
Targets(setup) == {l \in Locations : \E a \in Arms : setup[a][l] # None}

\* A location has at most one open showing, a released paywall one active
\* release; what is open of a paywall deployed from code is that release, and
\* an experiment is open where it is placed, once started and until concluded.
ASSUME StartsAssumption ==
  \A s \in Starts :
    /\ s \in StartType
    /\ IsFiniteSet(s.open)
    /\ \A x \in s.open : x.id \in 1..Cardinality(s.open)
    /\ \A x, y \in s.open : x.id = y.id \/ x.pin.location = y.pin.location => x = y
    /\ \A p \in Paywalls :
         LET released == {v \in Versions : s.release[p][v] # None}
             active == {v \in released : s.release[p][v].active} IN
         /\ released # {} => active # {} /\ s.source[p] # None
         /\ \A u, v \in active : u = v
         /\ s.source[p] = "code" =>
              \A x \in s.open : x.pin.paywall = p => x.pin.version \in active
    /\ \A x \in s.open : x.pin.flag # None =>
         LET e == s.experiment[x.pin.flag] IN
         e.status \in {"running", "paused"} /\ x.pin.location \in Targets(e.setup)

\* A release that a placement names is one of its paywall.
ASSUME PlacementsAssumption ==
  \A s \in Starts, e \in Experiments, a \in Arms, l \in Locations :
    LET x == s.experiment[e].setup[a][l] IN
    x # None /\ x.version # None => s.release[x.paywall][x.version] # None

VARIABLES
  call,        \* what each request asks for
  source,      \* paywall rows: absent (None), or where the paywall is authored
  draft,       \* draft rows of each paywall
  release,     \* released rows of each paywall, by version
  open,        \* paywall_location_showing rows that have not ended
  issued,      \* showing rows created so far
  archived,    \* archived locations
  experiment,  \* experiment rows, each with the enabled flag behind it
  at,          \* where each request is
  seen,        \* what each request has read, and the release rows it has locked
  overtaken,   \* history: paywalls, locations and experiments a request wrote
               \*   to although their rows had changed since it read them
  astray,      \* history: paywalls with a showing no activation will move or moved
  moved,       \* history: experiments whose placements changed after a start
  named        \* history: showings whose release a placement named

tables == <<source, draft, release, open, issued, archived, experiment>>
history == <<overtaken, astray, moved, named>>
vars == <<call, tables, at, seen, history>>

Released(p) == {v \in Versions : release[p][v] # None}
Active(p) == {v \in Released(p) : release[p][v].active}
Drafted(p) == {d.version : d \in draft[p]}
Newest(S, v) == v \in S \cup {0} /\ \A u \in S : u <= v
OpenAt(l) == {s \in open : s.pin.location = l}
Placed(setup) ==
  {x.paywall : x \in {setup[a][l] : a \in Arms, l \in Locations} \ {None}}

DraftRow == [by: Requests, version: Versions, content: Contents]
Places ==
  {"idle", "write", "lookUp", "create", "adopt", "snapshot", "apply", "commit", "collect",
   "choose", "switch", "enable", "disable", "done", "failed"}
SeenType ==
  [version: Versions \cup {None}, content: Contents \cup {None}, by: Requests \cup {None},
   fresh: BOOLEAN, follow: BOOLEAN, active: SUBSET Versions, held: SUBSET Versions,
   rows: SUBSET Row, pins: SUBSET Pin, setup: SetupType \cup {None},
   status: Statuses \cup {None}]
Unread ==
  [version |-> None, content |-> None, by |-> None, fresh |-> FALSE, follow |-> FALSE,
   active |-> {}, held |-> {}, rows |-> {}, pins |-> {}, setup |-> None, status |-> None]

TypeOK ==
  /\ call \in [Requests -> Calls]
  /\ source \in [Paywalls -> {None, "editor", "code"}]
  /\ draft \in [Paywalls -> SUBSET DraftRow]
  /\ release \in [Paywalls -> [Versions -> Release \cup {None}]]
  /\ open \subseteq Row
  /\ issued \in Nat
  /\ archived \subseteq Locations
  /\ experiment \in [Experiments -> Experiment]
  /\ at \in [Requests -> Places]
  /\ seen \in [Requests -> SeenType]
  /\ overtaken \subseteq Paywalls \cup Locations \cup Experiments
  /\ astray \subseteq Paywalls
  /\ moved \subseteq Experiments
  /\ named \subseteq Nat

Init ==
  /\ call \in [Requests -> Calls]
  /\ \E s \in Starts :
       /\ source = s.source
       /\ release = s.release
       /\ open = s.open
       /\ issued = Cardinality(s.open)
       /\ experiment = s.experiment
  /\ draft = [p \in Paywalls |-> {}]
  /\ archived = {}
  /\ at = [r \in Requests |-> "idle"]
  /\ seen = [r \in Requests |-> Unread]
  /\ overtaken = {} /\ astray = {} /\ moved = {} /\ named = {}

----------------------------------------------------------------------------
(* Steps of a request. *)

UnderWay == {r \in Requests : at[r] \notin {"idle", "done", "failed"}}

Begins(r, op) ==
  /\ call[r].op = op
  /\ at[r] = "idle"
  /\ Cardinality(UnderWay) < MaxOverlap

Is(r, ops, place) == call[r].op \in ops /\ at[r] = place

Go(r, place) == at' = [at EXCEPT ![r] = place]
Read(r, fields) == seen' = [seen EXCEPT ![r] = fields]
Ends(r, place) == Go(r, place) /\ Read(r, Unread)

\* An error answer, or the process dies: an open transaction is rolled back.
Fail(r) ==
  /\ r \in UnderWay
  /\ Ends(r, "failed")
  /\ UNCHANGED <<call, tables, history>>

----------------------------------------------------------------------------
(* Studio: PaywallReleaseService. *)

\* createRelease reads the newest draft and the newest released version; a
\* request that finds no draft inserts a row of its own.
ReadDraft(r) ==
  LET p == call[r].paywall IN
  /\ Begins(r, "draft")
  /\ source[p] # None
  /\ \E v \in Versions, found \in {d.by : d \in draft[p]} \cup {r} :
       /\ Newest(Released(p), v - 1)
       /\ IF draft[p] = {} THEN found = r
                           ELSE \E d \in draft[p] : d.by = found /\ Newest(Drafted(p), d.version)
       /\ Read(r, [Unread EXCEPT !.version = v, !.by = found])
  /\ Go(r, "write")
  /\ UNCHANGED <<call, tables, history>>

\* Version and status are unique per paywall.
WriteDraft(r) ==
  LET p == call[r].paywall
      others == {d \in draft[p] : d.by # seen[r].by} IN
  /\ Is(r, {"draft"}, "write")
  /\ \A d \in others : d.version # seen[r].version
  /\ draft' = [draft EXCEPT ![p] =
       others \cup {[by |-> seen[r].by, version |-> seen[r].version, content |-> call[r].content]}]
  /\ Ends(r, "done")
  /\ UNCHANGED <<call, source, release, open, issued, archived, experiment, history>>

\* publishRelease reads the draft, and then whether its version is released.
ReadPublish(r) ==
  /\ Begins(r, "publish")
  /\ \E d \in draft[call[r].paywall] :
       Read(r, [Unread EXCEPT !.version = d.version, !.content = d.content])
  /\ Go(r, "lookUp")
  /\ UNCHANGED <<call, tables, history>>

LookUpReleased(r) ==
  /\ Is(r, {"publish"}, "lookUp")
  /\ Read(r, [seen[r] EXCEPT !.fresh = seen[r].version \notin Released(call[r].paywall)])
  /\ Go(r, "snapshot")
  /\ UNCHANGED <<call, tables, history>>

----------------------------------------------------------------------------
(* Code deploys: PaywallDeployService. *)

ReadActivate(r) ==
  LET p == call[r].paywall IN
  /\ Begins(r, "activate")
  /\ \E v \in Released(p) :
       Read(r, [Unread EXCEPT !.version = v, !.follow = (source[p] = "code")])
  /\ Go(r, "snapshot")
  /\ UNCHANGED <<call, tables, history>>

ReadPaywall(r) ==
  /\ Begins(r, "deploy")
  /\ Go(r, IF source[call[r].paywall] = None THEN "create" ELSE "adopt")
  /\ UNCHANGED <<call, tables, seen, history>>

\* A deploy that has written the paywall row keeps it locked until it commits.
PaywallLocked(p) ==
  \E q \in Requests : /\ call[q].op = "deploy" /\ call[q].paywall = p
                      /\ at[q] \in {"snapshot", "apply", "commit"}

\* commitPaywall: the paywall row is written, then the newest release is read.
\* Its content again: the release is reused, at once if it is still active.
WritesPaywall(r) ==
  /\ \/ Is(r, {"deploy"}, "adopt")
     \/ Is(r, {"deploy"}, "create") /\ source[call[r].paywall] = None
  /\ ~PaywallLocked(call[r].paywall)

SameContent(r, v) ==
  LET p == call[r].paywall IN
  v \in Released(p) /\ Newest(Released(p), v) /\ release[p][v].content = call[r].content

KeepActive(r) ==
  LET p == call[r].paywall IN
  /\ WritesPaywall(r)
  /\ \E v \in Active(p) : SameContent(r, v)
  /\ source' = [source EXCEPT ![p] = "code"]
  /\ astray' = IF source[p] = "code" THEN astray ELSE astray \cup {p}
  /\ Ends(r, "done")
  /\ UNCHANGED <<call, draft, release, open, issued, archived, experiment, overtaken, moved, named>>

ChooseRelease(r) ==
  LET p == call[r].paywall
      Chosen(v, new) ==
        Read(r, [Unread EXCEPT !.version = v, !.content = call[r].content,
                               !.fresh = new, !.follow = TRUE]) IN
  /\ WritesPaywall(r)
  /\ \/ \E v \in Released(p) \ Active(p) : SameContent(r, v) /\ Chosen(v, FALSE)
     \/ /\ \A v \in Released(p) : ~SameContent(r, v)
        /\ \E v \in Versions : Newest(Released(p) \cup Drafted(p), v - 1) /\ Chosen(v, TRUE)
  /\ Go(r, "snapshot")
  /\ UNCHANGED <<call, tables, history>>

----------------------------------------------------------------------------
(* The activation transaction of publish, activate and deploy. *)

Activations == {"publish", "activate", "deploy"}

\* Release rows of p that the transactions of other requests have locked.
Locked(r, p) ==
  UNION {seen[q].held : q \in {q \in Requests \ {r} :
                                 call[q].op \in Activations /\ call[q].paywall = p}}

\* What a request has collected and is still so when it clears isActive.
\* Mutant: only the newest release is cleared.
ToClear_Newest(r) ==
  {v \in seen[r].active \cap Active(call[r].paywall) : Newest(Released(call[r].paywall), v)}
ToClear(r) == seen[r].active \cap Active(call[r].paywall)

\* The UPDATE that clears isActive collects its rows,
Snapshot(r) ==
  /\ Is(r, Activations, "snapshot")
  /\ Read(r, [seen[r] EXCEPT !.active = Active(call[r].paywall)])
  /\ Go(r, "apply")
  /\ UNCHANGED <<call, tables, history>>

\* Mutant: a rollback moves nothing.
Stale_Older(p, v) ==
  {s \in open : s.pin.paywall = p /\ s.pin.flag = None /\ s.pin.version < v}
Stale(p, v) ==
  {s \in open : s.pin.paywall = p /\ s.pin.flag = None /\ s.pin.version # v}

\* waits for their locks and skips those no longer active; the release is
\* activated or inserted, and the showings that pin another one are read.
Apply(r) ==
  LET p == call[r].paywall
      v == seen[r].version IN
  /\ Is(r, Activations, "apply")
  /\ Locked(r, p) \cap (seen[r].active \cup {v}) = {}
  /\ seen[r].fresh => v \notin Released(p)
  /\ Read(r, [seen[r] EXCEPT !.held = ToClear(r) \cup {v},
                             !.rows = IF seen[r].follow THEN Stale(p, v) ELSE {}])
  /\ overtaken' = IF Active(p) = seen[r].active THEN overtaken ELSE overtaken \cup {p}
  /\ Go(r, "commit")
  /\ UNCHANGED <<call, tables, astray, moved, named>>

\* Ids for new rows, one for each member of S.
Numbering(S) ==
  CHOOSE f \in [S -> (issued + 1)..(issued + Cardinality(S))] :
    \A x, y \in S : f[x] = f[y] => x = y

\* propagateActiveReleaseToOpenShowings: the rows read are ended by id, also
\* those ended since, and every one of them is replaced.
Commit(r) ==
  LET p == call[r].paywall
      v == seen[r].version
      old == seen[r].rows
      code == call[r].op = "deploy" \/ source[p] = "code" IN
  /\ Is(r, Activations, "commit")
  /\ release' = [release EXCEPT ![p] =
       [u \in Versions |->
          IF u = v THEN [content |-> IF seen[r].fresh THEN seen[r].content
                                                      ELSE release[p][v].content,
                         active |-> TRUE]
          ELSE IF u \in seen[r].held THEN [release[p][u] EXCEPT !.active = FALSE]
          ELSE release[p][u]]]
  /\ source' = IF code THEN [source EXCEPT ![p] = "code"] ELSE source
  /\ open' = (open \ old) \cup
       {[id |-> Numbering(old)[s], pin |-> [s.pin EXCEPT !.version = v]] : s \in old}
  /\ issued' = issued + Cardinality(old)
  /\ overtaken' = overtaken
       \cup (IF Active(p) = seen[r].active THEN {} ELSE {p})
       \cup {s.pin.location : s \in old \ open}
  /\ astray' = astray \cup (IF code /\ Stale(p, v) \ old # {} THEN {p} ELSE {})
  /\ Ends(r, "done")
  /\ UNCHANGED <<call, draft, archived, experiment, moved, named>>

----------------------------------------------------------------------------
(* Locations: PaywallLocationService. *)

ReadAssign(r) ==
  /\ Begins(r, "assign")
  /\ call[r].location \notin archived
  /\ \E v \in Active(call[r].paywall) :
       Read(r, [Unread EXCEPT !.pins =
         {[location |-> call[r].location, paywall |-> call[r].paywall,
           version |-> v, flag |-> None]}])
  /\ Go(r, "collect")
  /\ UNCHANGED <<call, tables, history>>

\* clearLocationShowing and archiveLocation end what is open.
Clear(r) ==
  /\ Begins(r, "clear") \/ Begins(r, "archiveLocation")
  /\ open' = open \ OpenAt(call[r].location)
  /\ archived' = IF call[r].op = "clear" THEN archived ELSE archived \cup {call[r].location}
  /\ Ends(r, "done")
  /\ UNCHANGED <<call, source, draft, release, issued, experiment, history>>

----------------------------------------------------------------------------
(* The transaction that replaces the showings of locations. *)

Replaces == {"assign", "start", "conclude"}
\* The placement of the winner, or of the control where it has none.
Winner(r, l) ==
  LET setup == seen[r].setup IN
  IF setup[call[r].winner][l] # None THEN setup[call[r].winner][l] ELSE setup["control"][l]

\* Mutant: a location without a winner is not touched.
Replaced_ByWinner(r) ==
  IF call[r].op = "assign" THEN {call[r].location}
  ELSE {l \in Targets(seen[r].setup) :
          call[r].op = "conclude" => Winner(r, l) # None}
Replaced(r) ==
  IF call[r].op = "assign" THEN {call[r].location} ELSE Targets(seen[r].setup)

\* The UPDATEs that end the open showings collect their rows.
SnapshotShowings(r) ==
  /\ Is(r, Replaces, "collect")
  /\ Read(r, [seen[r] EXCEPT !.rows = UNION {OpenAt(l) : l \in Replaced(r)}])
  /\ Go(r, IF call[r].op = "conclude" THEN "choose" ELSE "switch")
  /\ UNCHANGED <<call, tables, history>>

\* Mutant: experiments' showings are left open.
Ending_Releases(r) == {s \in seen[r].rows : s.pin.flag = None}
Ending(r) == seen[r].rows

\* Pins whose release the placement promoted named.
Named(r) ==
  {x \in seen[r].pins : call[r].op = "conclude" /\ Winner(r, x.location).version # None}

\* The rows collected end and the pins read become open rows.
ReplaceShowings(r) ==
  LET pins == seen[r].pins IN
  /\ Is(r, Replaces, "switch")
  /\ open' = (open \ Ending(r)) \cup {[id |-> Numbering(pins)[x], pin |-> x] : x \in pins}
  /\ issued' = issued + Cardinality(pins)
  /\ Ends(r, "done")

\* What has changed since r read it: locations, and paywalls it pins.
Outdated(r) ==
  {l \in Replaced(r) : OpenAt(l) # {s \in seen[r].rows : s.pin.location = l}}
Superseded(r) ==
  {x.paywall : x \in {x \in seen[r].pins \ Named(r) :
                        x.flag = None /\ x.version \notin Active(x.paywall)}}

Assign(r) ==
  /\ call[r].op = "assign"
  /\ ReplaceShowings(r)
  /\ overtaken' = overtaken \cup Outdated(r)
  /\ astray' = astray \cup Superseded(r)
  /\ UNCHANGED <<call, source, draft, release, archived, experiment, moved, named>>

----------------------------------------------------------------------------
(* Experiments: ExperimentService. *)

Change(e, fields) == experiment' = [experiment EXCEPT ![e] = fields]
\* What the request read of e is still so.
Changed(r) ==
  LET x == experiment[call[r].experiment] IN
  x.status # seen[r].status \/ seen[r].setup \notin {None, x.setup}

ReadExperiment(r, op, place) ==
  LET x == experiment[call[r].experiment] IN
  /\ Begins(r, op)
  /\ Read(r, [Unread EXCEPT !.status = x.status, !.setup = x.setup])
  /\ Go(r, place)
  /\ UNCHANGED <<call, tables, history>>

ReadSave(r) ==
  /\ ReadExperiment(r, "save", "write")
  /\ experiment[call[r].experiment].status # "running"

\* saveSetup replaces the placements; a start has shown the old ones.
Save(r) ==
  LET e == call[r].experiment IN
  /\ Is(r, {"save"}, "write")
  /\ Change(e, [experiment[e] EXCEPT !.setup = call[r].setup])
  /\ moved' = IF experiment[e].status = "draft" THEN moved ELSE moved \cup {e}
  /\ Ends(r, "done")
  /\ UNCHANGED <<call, source, draft, release, open, issued, archived, overtaken, astray, named>>

\* Whatever is placed has an active release, and findFirst shows no other
\* experiment at the locations.
ReadStart(r) ==
  LET e == call[r].experiment IN
  /\ ReadExperiment(r, "start", "enable")
  /\ experiment[e].status # "concluded"
  /\ \A p \in Placed(experiment[e].setup) : Active(p) # {}
  /\ \A l \in Targets(experiment[e].setup) :
       OpenAt(l) = {} \/ \E s \in OpenAt(l) : s.pin.flag \in {None, e}

EnableFlag(r) ==
  LET e == call[r].experiment IN
  /\ Is(r, {"start"}, "enable")
  /\ Change(e, [experiment[e] EXCEPT !.enabled = TRUE])
  /\ Read(r, [seen[r] EXCEPT !.pins =
       {[location |-> l, paywall |-> None, version |-> None, flag |-> e] : l \in Replaced(r)}])
  /\ Go(r, "collect")
  /\ UNCHANGED <<call, source, draft, release, open, issued, archived, history>>

Start(r) ==
  LET e == call[r].experiment IN
  /\ call[r].op = "start"
  /\ ReplaceShowings(r)
  /\ Change(e, [experiment[e] EXCEPT !.status = "running"])
  /\ overtaken' = overtaken \cup Outdated(r) \cup (IF Changed(r) THEN {e} ELSE {})
  /\ UNCHANGED <<call, source, draft, release, archived, astray, moved, named>>

ReadPause(r) ==
  /\ ReadExperiment(r, "pause", "disable")
  /\ experiment[call[r].experiment].status = "running"

ReadConclude(r) == ReadExperiment(r, "conclude", "disable")

ReadArchive(r) == ReadExperiment(r, "archive", "disable")

DisableFlag(r) ==
  LET e == call[r].experiment IN
  /\ Is(r, {"pause", "conclude", "archive"}, "disable")
  /\ Change(e, [experiment[e] EXCEPT !.enabled = FALSE])
  /\ Go(r, IF call[r].op = "conclude" THEN "collect" ELSE "write")
  /\ UNCHANGED <<call, source, draft, release, open, issued, archived, seen, history>>

\* The status is written whatever it has become.
Pause(r) ==
  LET e == call[r].experiment IN
  /\ Is(r, {"pause"}, "write")
  /\ Change(e, [experiment[e] EXCEPT !.status = "paused"])
  /\ overtaken' = IF Changed(r) THEN overtaken \cup {e} ELSE overtaken
  /\ Ends(r, "done")
  /\ UNCHANGED <<call, source, draft, release, open, issued, archived, astray, moved, named>>

\* The release a placement names is promoted, active or not; where it names
\* none, the active one, and without one the location is left empty.
Promotable(placement) ==
  IF placement.version # None THEN {placement.version} ELSE Active(placement.paywall)

ChooseWinners(r) ==
  LET kept == {l \in Replaced(r) : Winner(r, l) # None /\ Promotable(Winner(r, l)) # {}} IN
  /\ Is(r, {"conclude"}, "choose")
  /\ \E v \in [kept -> Versions] :
       /\ \A l \in kept : v[l] \in Promotable(Winner(r, l))
       /\ Read(r, [seen[r] EXCEPT !.pins =
            {[location |-> l, paywall |-> Winner(r, l).paywall, version |-> v[l],
              flag |-> None] : l \in kept}])
  /\ Go(r, "switch")
  /\ UNCHANGED <<call, tables, history>>

Conclude(r) ==
  LET e == call[r].experiment IN
  /\ call[r].op = "conclude"
  /\ ReplaceShowings(r)
  /\ Change(e, [experiment[e] EXCEPT !.status = "concluded"])
  /\ overtaken' = overtaken \cup Outdated(r) \cup (IF Changed(r) THEN {e} ELSE {})
  /\ astray' = astray \cup Superseded(r)
  /\ named' = named \cup {Numbering(seen[r].pins)[x] : x \in Named(r)}
  /\ UNCHANGED <<call, source, draft, release, archived, moved>>

\* Mutant: archived becomes a status.
Archive_Status(r) ==
  LET e == call[r].experiment IN
  /\ Is(r, {"archive"}, "write")
  /\ Change(e, [experiment[e] EXCEPT !.status = "archived"])
  /\ Ends(r, "done")
  /\ UNCHANGED <<call, source, draft, release, open, issued, archived, history>>
Archive(r) ==
  LET e == call[r].experiment IN
  /\ Is(r, {"archive"}, "write")
  /\ Change(e, [experiment[e] EXCEPT !.archived = TRUE])
  /\ Ends(r, "done")
  /\ UNCHANGED <<call, source, draft, release, open, issued, archived, history>>

Restore(r) ==
  LET e == call[r].experiment IN
  /\ Begins(r, "restore")
  /\ Change(e, [experiment[e] EXCEPT !.archived = FALSE])
  /\ Ends(r, "done")
  /\ UNCHANGED <<call, source, draft, release, open, issued, archived, history>>

----------------------------------------------------------------------------
Releasing(r) ==
  \/ ReadDraft(r) \/ WriteDraft(r) \/ ReadPublish(r) \/ LookUpReleased(r)
  \/ ReadActivate(r) \/ ReadPaywall(r) \/ KeepActive(r) \/ ChooseRelease(r)
  \/ Snapshot(r) \/ Apply(r) \/ Commit(r)

Showing(r) == ReadAssign(r) \/ Clear(r) \/ SnapshotShowings(r) \/ Assign(r)

Experimenting(r) ==
  \/ ReadSave(r) \/ Save(r) \/ ReadStart(r) \/ EnableFlag(r) \/ Start(r)
  \/ ReadPause(r) \/ ReadConclude(r) \/ ReadArchive(r) \/ DisableFlag(r)
  \/ Pause(r) \/ ChooseWinners(r) \/ Conclude(r) \/ Archive(r) \/ Restore(r)

Next == \E r \in Requests : Fail(r) \/ Releasing(r) \/ Showing(r) \/ Experimenting(r)

Spec == Init /\ [][Next]_vars

----------------------------------------------------------------------------
\* A paywall that has a release always has an active one, and only one unless
\* two activations crossed (paywall_release: one version active per paywall).
ActiveRelease ==
  \A p \in Paywalls :
    Released(p) # {} =>
      /\ Active(p) # {}
      /\ p \notin overtaken => \A u, v \in Active(p) : u = v

\* A location shows one thing at a time, unless its showings were replaced
\* while another request replaced them.
OneShowing ==
  \A l \in Locations \ overtaken : \A s, t \in OpenAt(l) : s = t

\* What is pinned of a paywall deployed from code is its active release: an
\* activation or a deploy moves every open showing with it.  Only a conclusion
\* that promotes a release its placement names (a row older than "the active
\* published version is resolved at serve time") may pin another one, and that
\* showing too is moved by the next activation.
CodeFollows ==
  \A s \in open :
    LET p == s.pin.paywall IN
    (/\ s.pin.flag = None
     /\ source[p] = "code"
     /\ s.id \notin named
     /\ p \notin overtaken \cup astray) => s.pin.version \in Active(p)

\* A concluded experiment has given up every location (concludeExperiment: "so
\* no location is ever left dangling"), if its placements stayed as started.
ConcludedLetsGo ==
  \A s \in open :
    LET e == s.pin.flag IN
    (e # None /\ e \notin moved /\ {e, s.pin.location} \cap overtaken = {})
      => experiment[e].status # "concluded"

\* A concluded experiment is never started or paused again, unless by a
\* request that read its status before.
ConcludedIsFinal ==
  [][\A e \in Experiments :
       experiment[e].status = "concluded" =>
         experiment'[e].status = "concluded" \/ e \in overtaken']_vars
=============================================================================
