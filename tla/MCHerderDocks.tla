---------------------------- MODULE MCHerderDocks ----------------------------
(***************************************************************************)
(* The docks of spaces on a page: moving among them with the browser's      *)
(* history (HerderHome) and keeping them in storage (HerderSpaces).  Each   *)
(* leaves the other's state out, so a behavior runs one of them and the     *)
(* other rests; a run checks the two side by side.                          *)
(***************************************************************************)
EXTENDS HerderHome, FiniteSets, TLC

CONSTANTS s1, s2, Names, Main, Panels, Tabs, Prompt, Edits, Faults, SpacesActs

VARIABLES
    part,    \* which of them this behavior runs
    disk, space, tab, kept, met, edits, faults

svars == <<disk, space, tab, kept, met, edits, faults>>

S == INSTANCE HerderSpaces WITH Spaces <- Names

ASSUME S!SpacesAssumption

MCOrder == <<s1, s2>>

\* Agents are interchangeable, and so are panels and pages of one browser.
Symmetry == Permutations(Agents) \cup Permutations(Tabs) \cup Permutations(Panels)

\* The part that rests does so from one of its initial states.
MCInit ==
    /\ Init /\ S!Init /\ part \in {"home", "spaces"}
    /\ part = "home" => kept[Main] = {}
    /\ part = "spaces" => view = Lens /\ active = s1 /\ Cardinality(docks[s1].tabs) = 1

\* A closed space or a followed link takes the place of a history entry, a
\* fault that of an edit.
MCNext ==
    /\ part' = part
    /\ \/ part = "home" /\ Next /\ Len(nav'.stack) + spent' <= MaxStack /\ UNCHANGED svars
       \/ part = "spaces" /\ S!Next /\ edits' + faults' <= SpacesActs /\ UNCHANGED vars

MCSpec == MCInit /\ [][MCNext]_<<part, vars, svars>>

\* What the user put in a space and did not close is in a page's dock or in
\* storage, and so is the text a page could not read.  (spacesStore.ts,
\* dockStore.ts)
NothingLost == S!NothingDiscarded /\ S!UnreadableKept
==============================================================================
