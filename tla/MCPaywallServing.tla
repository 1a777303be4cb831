-------------------------- MODULE MCPaywallServing --------------------------
(* A paywall deployed from code and one edited in Studio, which share a     *)
(* location, and an experiment that places one against the other.           *)
EXTENDS PaywallServing, TLC

CONSTANTS coded, edited, home, offer, test, oldDoc, newDoc, r1, r2, r3

MCRequests == {r1, r2, r3}
MCPaywalls == {coded, edited}
MCLocations == {home, offer}
MCExperiments == {test}
MCContents == {oldDoc, newDoc}

Place(p, v) == [paywall |-> p, version |-> v]
\* The control shows a paywall at home, the variant one at each location.
Setup(control, variant) ==
  [control |-> (home :> control) @@ (offer :> None),
   variant |-> (home :> variant) @@ (offer :> Place(edited, None))]
AtHome == [a \in Arms |-> (home :> Place(edited, None)) @@ (offer :> None)]

Live(c) == [content |-> c, active |-> TRUE]
Shelved(c) == [content |-> c, active |-> FALSE]
Shows(n, l, p, v, e) ==
  [id |-> n, pin |-> [location |-> l, paywall |-> p, version |-> v, flag |-> e]]

MCStarts ==
  LET releases == (coded :> <<Shelved(oldDoc), Live(newDoc), None, None>>)
                    @@ (edited :> <<Live(oldDoc), None, None, None>>)
      drafted == [status |-> "draft", enabled |-> FALSE, archived |-> FALSE,
                setup |-> Setup(Place(edited, None), Place(coded, None))]
      running == [drafted EXCEPT !.status = "running", !.enabled = TRUE,
                !.setup = Setup(Place(coded, 1), Place(coded, None))] IN
  { \* the coded paywall is shown at home
    [source |-> (coded :> "code") @@ (edited :> "editor"), release |-> releases,
     open |-> {Shows(1, home, coded, 2, None)}, experiment |-> (test :> drafted)],
    \* it was edited in Studio until now
    [source |-> (coded :> "editor") @@ (edited :> "editor"), release |-> releases,
     open |-> {Shows(1, home, coded, 2, None)}, experiment |-> (test :> drafted)],
    \* it was never deployed
    [source |-> (coded :> None) @@ (edited :> "editor"),
     release |-> [releases EXCEPT ![coded] = [v \in Versions |-> None]],
     open |-> {Shows(1, home, edited, 1, None)}, experiment |-> (test :> drafted)],
    \* an experiment runs whose control names the release before the active one
    [source |-> (coded :> "code") @@ (edited :> "editor"), release |-> releases,
     open |-> {Shows(1, home, None, None, test), Shows(2, offer, None, None, test)},
     experiment |-> (test :> running)] }

MCCalls ==
  [op: {"activate"}, paywall: {coded}]
    \cup [op: {"publish"}, paywall: {edited}]
    \cup [op: {"draft"}, paywall: {edited}, content: {newDoc}]
    \cup [op: {"deploy"}, paywall: {coded}, content: {oldDoc, newDoc}]
    \cup [op: {"assign"}, location: {home}, paywall: {coded, edited}]
    \cup [op: {"clear", "archiveLocation"}, location: {home}]
    \cup [op: {"save"}, experiment: {test}, setup: {AtHome}]
    \cup [op: {"start", "pause", "archive", "restore"}, experiment: {test}]
    \cup [op: {"conclude"}, experiment: {test}, winner: Arms]

Symmetry == Permutations(Requests)
=============================================================================
