--------------------------- MODULE MCHerderWriting ---------------------------
(***************************************************************************)
(* What the owner writes and arranges: notes, composers and sends           *)
(* (HerderNotes), and the fleet's sidebar (HerderSidebar).  They share no   *)
(* state, so a behavior runs one of them and the other rests; a run checks  *)
(* the two side by side.                                                    *)
(***************************************************************************)
EXTENDS HerderSidebar

CONSTANTS a1, a2, a3, w1, w2, n1, Words, Dock, Peek, Free, Tomb

VARIABLES
    part,    \* which of them this behavior runs
    notes, disk, dirty, saving, draft, box, sends, quick, appended, editing,
    sent, gone, written, faults, reloads

nvars == <<notes, disk, dirty, saving, draft, box, sends, quick, appended, editing,
           sent, gone, written, faults, reloads>>

\* One agent and one note, with one send, one fault and one reload.
N == INSTANCE HerderNotes
     WITH Agents <- {a1}, NoteIDs <- {n1}, MaxNotes <- 1, MaxSends <- 1, MaxFaults <- 1, MaxReloads <- 1

ASSUME N!WritingAssumption

\* Words are interchangeable; the sidebar knows none.
Symmetry == Permutations(Words)

MCBorn == (a1 :> 1) @@ (a2 :> 2) @@ (a3 :> 3)
NoOwner == [a \in Agents |-> Nobody]
MCOwners == {NoOwner, [NoOwner EXCEPT ![a3] = a1]}
MCMaxChanges == [fold |-> 2, assign |-> 2, name |-> 1]
MCHome == (a1 :> w1) @@ (a2 :> w2) @@ (a3 :> Nobody)
MCMain == (w1 :> w1) @@ (w2 :> w1)
\* Folding starts from every assignment of managers among the agents and the
\* owner, with a subagent or without, in one lane or none; the rest from one.
SidebarInit ==
    /\ Init
    /\ \A a \in Agents : fleet.lane[a] = IF a # a3 /\ fleet.lanes # {} THEN CHOOSE l \in Lanes : TRUE ELSE Nobody
    /\ fleet.lanes # {} => habit = "fold"
    /\ fleet.owner # NoOwner => fleet.boss[a3] = Unknown /\ habit # "name"
    /\ IF habit = "fold" THEN \A a \in {a1, a2} : fleet.boss[a] # Unknown
       ELSE \A a \in {a1, a2} : fleet.boss[a] = Human
    /\ fleet.owner = NoOwner => fleet.boss[a3] = IF habit # "fold" THEN Unknown ELSE IF fleet.lanes = {} THEN a1 ELSE Human
    /\ fleet.owner # NoOwner /\ habit = "fold" => fleet.lanes # {}
    /\ open # Nothing => habit = "fold" /\ fleet.lanes = {}

\* The part that rests does so from one of its initial states.
MCInit ==
    /\ SidebarInit /\ N!Init /\ part \in {"sidebar", "notes"}
    /\ part = "notes" => habit = "name"

\* While the page assigns, a second change is one of its own, of a manager,
\* and the last step; with a Task subagent or a new lane there is one change.
Assigning ==
    /\ habit = "assign" => changes < 2
    /\ habit = "assign" /\ changes' > 1 =>
          /\ fleet.owner = NoOwner /\ fleet.lanes = {} /\ pending = Nothing
          /\ changes' # changes => calls' # calls

\* A page is reloaded or storage refuses a write, not both.
MCNext ==
    /\ part' = part
    /\ \/ part = "sidebar" /\ Next /\ Assigning /\ UNCHANGED nvars
       \/ part = "notes" /\ N!Next /\ faults' + reloads' <= 1 /\ UNCHANGED vars

MCSpec == MCInit /\ [][MCNext]_<<part, vars, nvars>>

\* No word the owner wrote is lost, in memory or over a reload.  (notesStore.ts,
\* composerDraft.ts, noteHandOff.ts)
WordsKept == N!WritingKept /\ N!DurableKept

\* The sidebar draws every agent once, and no assignment it offers breaks the
\* forest.  (sidebarNodes.ts, reparentModel.ts)
ForestKept == DrawnOnce /\ OffersKeepForest
=============================================================================
