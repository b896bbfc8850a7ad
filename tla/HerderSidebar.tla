---------------------------- MODULE HerderSidebar ----------------------------
(***************************************************************************)
(* The fleet sidebar of the herder web client: the three trees it draws    *)
(* from the board (placement, supervision, lanes), which rows are open     *)
(* (sidebarView.ts), drag and drop onto a manager or a lane                *)
(* (reparentModel.ts, laneDropModel.ts), the reassign list of the palette  *)
(* (reassignModel.ts), the pending "+ lane" header and renaming.           *)
(*                                                                         *)
(* The server's assignments change under the page (other browsers, agents  *)
(* that come and go) and the page sees them a board at a time, so a drop   *)
(* is planned on a board that may be old.  Siblings are drawn, and the     *)
(* trees grown, in the order the agents were created.  A lane is its name; *)
(* leads, pull requests, titles and terminals are left out.  What the      *)
(* owner does is taken one habit at a time: folding rows, assigning, or    *)
(* naming; they touch different state.                                     *)
(***************************************************************************)
EXTENDS Naturals, FiniteSets, SequencesExt

CONSTANTS
    Agents,
    Born,          \* when each was created: created_at, then the name
    Owners,        \* for each agent the one a Task subagent runs under, else Nobody
    Home,          \* the workspace of an agent's pane, else Nobody
    Workspaces,
    MainOf,        \* the workspace a worktree's workspace belongs to, or itself
    Lanes,
    Human, Unknown,   \* managers that are no agent
    Nobody,           \* no agent, lane or workspace
    Root,             \* the top level of a tree, and the empty drop target
    Nothing,          \* no value
    MaxChanges,    \* for each habit
    MaxCalls, MaxToggles

ASSUME SidebarAssumption ==
    /\ \A a, x \in Agents : Born[a] \in Nat /\ (Born[a] = Born[x] => a = x)
    /\ \A o \in Owners : \A a \in Agents : o[a] \in Agents => o[o[a]] = Nobody
    /\ \A h \in {"fold", "assign", "name"} : MaxChanges[h] \in Nat

VARIABLES
    fleet,      \* the server's agents, managers and lanes
    board,      \* the board the page shows, or Nothing
    view,       \* the tree that is drawn
    open,       \* expandedItems, or Nothing before the first board
    spaces, managers,  \* knownWorkspaceItems and knownManagerItems, or Nothing
    folded,     \* history: rows that are shut, by the owner or by EnterOnBoard, and not opened since
    drag,       \* the row being dragged, or Nothing
    pending,    \* the "+ lane" header waiting for its first agent, or Nothing
    lane,       \* the lane whose space is entered, or Nobody
    renaming,   \* the rename editor, or Nothing
    calls,      \* requests the page waits for; history: a manager's chart when planned
    changes, toggles,
    habit       \* "fold", "assign" or "name"

folds == <<open, spaces, managers, folded>>
limits == <<changes, toggles, habit>>
vars == <<fleet, board, view, folds, drag, pending, lane, renaming, calls, limits>>

Boss == Agents \cup {Human, Unknown}
Fleet == [agents: SUBSET Agents, owner: Owners, boss: [Agents -> Boss],
          lane: [Agents -> Lanes \cup {Nobody}], lanes: SUBSET Lanes]
Call == [kind: {"manager"}, agent: Agents, to: Boss, on: [Agents -> Agents \cup {Nobody}]]
          \cup [kind: {"lane", "newLane"}, agent: Agents, to: Lanes]
          \cup [kind: {"rename"}, agent: Agents]

-----------------------------------------------------------------------------
(* The trees.  A tree is a set of edges, from an agent, a header or Root   *)
(* to an agent or a header; b is a board.                                  *)

\* A Task subagent is drawn under its owner, whoever manages it.
Nested(b, a) == b.owner[a] \in b.agents

\* manager_state, as the serve folds it.
ManagerState(b, a) ==
    CASE b.boss[a] = Human -> "operator"
      [] b.boss[a] = Unknown -> "unknown"
      [] OTHER -> IF b.boss[a] \in b.agents THEN "live" ELSE "ended"

ByCreation(S) == SetToSortSeq(S, LAMBDA x, y : Born[x] < Born[y])
Tasks(b, a) == {x \in b.agents : b.owner[x] = a}
Drawn(tree) == {e[2] : e \in tree}

\* addAgent over the agents of s, at the node at: each not drawn yet is, and
\* then those under it.
RECURSIVE Grow(_, _, _, _)
Grow(s, at, tree, under) ==
    IF s = <<>> THEN tree
    ELSE Grow(Tail(s), at,
              IF Head(s) \in Drawn(tree) THEN tree
              ELSE Grow(under[Head(s)], Head(s), tree \cup {<<at, Head(s)>>}, under), under)

\* buildSupervisionNodes: those a human or nobody manages, then those of each
\* ended manager under its tombstone, then whatever a cycle hid.
Reports(b, m) == {a \in b.agents : ~Nested(b, a) /\ b.boss[a] = m /\ m # a}
Ended(b) == {m \in Agents \ b.agents : Reports(b, m) # {}}

\* Mutant: rows that no root reaches are not looked for.
SupervisionTree_RootsOnly(b) ==
    LET under == [a \in Agents |-> ByCreation(Reports(b, a)) \o ByCreation(Tasks(b, a))]
        top == Grow(ByCreation(Reports(b, Human) \cup Reports(b, Unknown)), Root, {}, under)
        tombs == FoldSet(LAMBDA m, t : Grow(ByCreation(Reports(b, m)), <<"tombstone", m>>, t, under),
                         top, Ended(b))
    IN tombs \cup {<<Root, <<"tombstone", m>>>> : m \in Ended(b)}

SupervisionTree(b) ==
    LET under == [a \in Agents |-> ByCreation(Reports(b, a)) \o ByCreation(Tasks(b, a))]
        top == Grow(ByCreation(Reports(b, Human) \cup Reports(b, Unknown)), Root, {}, under)
        tombs == FoldSet(LAMBDA m, t : Grow(ByCreation(Reports(b, m)), <<"tombstone", m>>, t, under),
                         top, Ended(b))
    IN Grow(ByCreation(b.agents), Root, tombs, under)
         \cup {<<Root, <<"tombstone", m>>>> : m \in Ended(b)}

\* The lane roster: a subagent follows its owner.
LaneOf(b, a) == IF Nested(b, a) THEN b.lane[b.owner[a]] ELSE b.lane[a]
Members(b, l) == {a \in b.agents : LaneOf(b, a) = l}
ParentOf(b, a) == IF Nested(b, a) THEN b.owner[a]
                  ELSE IF b.boss[a] \in b.agents /\ b.boss[a] # a THEN b.boss[a] ELSE Nobody

\* Who is drawn under whom.
Chart(b) == [a \in Agents |-> IF a \in b.agents THEN ParentOf(b, a) ELSE Nobody]

\* buildLaneNodes, one header (No lane's is Nobody): the members whose parent
\* is no member, then those of a cycle of members.
LaneTree(b, l) ==
    LET under == [a \in Agents |-> ByCreation({x \in Members(b, l) : ParentOf(b, x) = a})]
        roots == {a \in Members(b, l) : ParentOf(b, a) \notin Members(b, l)}
        tree == Grow(ByCreation(roots), <<"lane", l>>, {}, under)
    IN Grow(ByCreation(Members(b, l)), <<"lane", l>>, tree, under)

\* buildSidebarNodes: workspaces with their worktrees, panes, and Unplaced.
PlacementTree(b) ==
    {<<IF MainOf[w] = w THEN Root ELSE MainOf[w], w>> : w \in Workspaces}
      \cup {<<IF Nested(b, a) THEN b.owner[a] ELSE Home[a], a>> : a \in b.agents}
      \cup {<<Root, Nobody>>}

-----------------------------------------------------------------------------
(* Which rows are open.                                                    *)

Item(node) == IF node \in Agents THEN <<"agent", node>> ELSE node
Inner(tree) == {e[1] : e \in tree} \ {Root}

\* managerItems of the supervision and lanes trees: rows with rows under them
\* (a Task subagent's never count).
Managers(b) ==
    {Item(n) : n \in {m \in Inner(SupervisionTree(b)) : m \in Agents => ~Nested(b, m)}}
      \cup UNION {{IF n \in Agents THEN <<"lane", l, n>> ELSE n :
                     n \in {m \in Inner(LaneTree(b, l)) : m \in Agents => ~Nested(b, m)}} :
                  l \in b.lanes \cup {Nobody}}
SpaceItems == {<<"workspace", w>> : w \in Workspaces}

\* defaultExpanded: every group, and every agent with rows under it.
AllOpen(b) ==
    Managers(b) \cup {Item(n) : n \in Inner(SupervisionTree(b))}
      \cup UNION {{<<"lane", l, n>> : n \in Inner(LaneTree(b, l)) \cap Agents} : l \in b.lanes \cup {Nobody}}
      \cup SpaceItems \cup {<<"workspace", Nobody>>}
      \cup {<<"pane", n>> : n \in Inner(PlacementTree(b)) \cap Agents}
TreeItems(all) == {i \in all : i[1] \notin {"workspace", "pane"}}

\* Mutant: what is known is replaced by what the board has, so a row that
\* comes back opens again.
Reconciled_Replaced(m, all, s) ==
    IF s.open = Nothing THEN [open |-> all, spaces |-> SpaceItems, managers |-> m]
    ELSE IF s.spaces = Nothing THEN [s EXCEPT !.spaces = SpaceItems]
    ELSE IF s.managers = Nothing THEN [s EXCEPT !.open = @ \cup TreeItems(all), !.managers = m]
    ELSE [open |-> s.open \cup ((SpaceItems \cup m) \ (s.spaces \cup s.managers)),
          spaces |-> SpaceItems, managers |-> m]

\* reconcileExpansion over the rows m that fold and all that have rows under
\* them: the first board opens all; a browser that knew only the placement
\* tree opens the others once; later, only what it never saw.
Reconciled(m, all, s) ==
    IF s.open = Nothing THEN [open |-> all, spaces |-> SpaceItems, managers |-> m]
    ELSE IF s.spaces = Nothing THEN [s EXCEPT !.spaces = SpaceItems]
    ELSE IF s.managers = Nothing THEN [s EXCEPT !.open = @ \cup TreeItems(all), !.managers = m]
    ELSE [open |-> s.open \cup ((SpaceItems \cup m) \ (s.spaces \cup s.managers)),
          spaces |-> s.spaces \cup SpaceItems, managers |-> s.managers \cup m]

\* The effect runs again after each change it makes, at most three times.
Settled(b, s) == LET m == Managers(b)
                     all == AllOpen(b)
                     R(x) == Reconciled(m, all, x)
                 IN R(R(R(s)))
Shown == board # Nothing
Expansion == [open |-> open, spaces |-> spaces, managers |-> managers]

-----------------------------------------------------------------------------
(* Drops.                                                                  *)

\* descendants of a row in the tree the sidebar drew.
TreeBelow(tree, a) ==
    LET Step(S) == S \cup {e[2] : e \in {x \in tree : x[1] \in S}}
    IN FoldFunction(LAMBDA x, S : Step(S), {e[2] : e \in {x \in tree : x[1] = a}}, [n \in 1 .. Cardinality(Agents) |-> n])

\* reassignDescendants: the same from the managers themselves.
GraphBelow(b, a) ==
    LET Kids(S) == {x \in b.agents : ParentOf(b, x) \in S}
        Step(S) == S \cup Kids(S)
    IN FoldFunction(LAMBDA x, S : Step(S), Kids({a}), [n \in 1 .. Cardinality(Agents) |-> n])

\* Mutant: a row may be dropped on one below it.
ReparentRefused_Below(b, a, m, below) ==
    \/ a \notin b.agents \/ m \notin b.agents
    \/ m = a \/ ManagerState(b, m) = "ended"

\* reparentRefusal of agent a onto the row of agent m.  A target whose own
\* manager has ended is refused too.
ReparentRefused(b, a, m, below) ==
    \/ a \notin b.agents \/ m \notin b.agents
    \/ m = a \/ m \in below \/ ManagerState(b, m) = "ended"

\* Mutant: it is asked whether the source is below the target.
ManagerDrops_Swapped(b, a) ==
    IF a \notin b.agents THEN {}
    ELSE LET tree == SupervisionTree(b)
         IN {Human} \cup {m \in Agents : ~ReparentRefused(b, a, m, IF a \in TreeBelow(tree, m) THEN {m} ELSE {})}

\* reparentDrop: a manager, or the empty top level for the owner.
ManagerDrops(b, a) ==
    IF a \notin b.agents THEN {}
    ELSE LET below == TreeBelow(SupervisionTree(b), a)
         IN {Human} \cup {m \in Agents : ~ReparentRefused(b, a, m, below)}

\* reassignCandidates of the palette.
Candidates(b, a) ==
    LET below == GraphBelow(b, a)
    IN {Human} \cup {m \in b.agents : ~Nested(b, m) /\ ~ReparentRefused(b, a, m, below)}

\* The manager's call, with the chart it was planned on.
Assigned(a, m) == [kind |-> "manager", agent |-> a, to |-> m, on |-> Chart(board)]

\* planSidebarDrop of the dragged row.
Plans ==
    IF view = "supervision"
    THEN {Assigned(drag.agent, m) : m \in ManagerDrops(board, drag.agent)}
    ELSE IF drag.agent \notin board.agents \/ LaneOf(board, drag.agent) # drag.lane THEN {}
    ELSE {[kind |-> "lane", agent |-> drag.agent, to |-> l] :
            l \in board.lanes}
           \cup (IF pending = Nothing THEN {}
                 ELSE {[kind |-> "newLane", agent |-> drag.agent, to |-> pending]})

Submit(call) ==
    /\ Cardinality(calls) < MaxCalls
    /\ calls' = calls \cup {call}

-----------------------------------------------------------------------------
Init ==
    /\ \E boss \in [Agents -> Boss], owner \in Owners, in \in [Agents -> Lanes \cup {Nobody}] :
          /\ \A a \in Agents : boss[a] # a
          /\ fleet = [agents |-> Agents, owner |-> owner, boss |-> boss, lane |-> in,
                      lanes |-> {in[a] : a \in Agents} \ {Nobody}]
    /\ board = Nothing /\ view = "supervision"
    /\ \/ open = Nothing /\ spaces = Nothing /\ managers = Nothing
       \/ open = {} /\ spaces \in {Nothing, {<<"workspace", w>> : w \in Workspaces}} /\ managers = Nothing
    /\ folded = IF open = Nothing THEN {} ELSE {<<"workspace", w>> : w \in Workspaces}
    /\ drag = Nothing /\ pending = Nothing /\ lane = Nobody
    /\ renaming = Nothing /\ calls = {} /\ changes = 0 /\ toggles = 0
    /\ habit \in {"fold", "assign", "name"}

\* The server's record changes, at most MaxChanges times.
Changed(f) == changes < MaxChanges[habit] /\ changes' = changes + 1 /\ fleet' = f /\ UNCHANGED <<toggles, habit>>

\* What others do: an agent ends, its Task subagents with it, or comes back,
\* or is assigned.
Elsewhere ==
    /\ \/ \E a \in fleet.agents : Changed([fleet EXCEPT !.agents = @ \ ({a} \cup Tasks(fleet, a))])
       \/ \E a \in {x \in Agents \ fleet.agents : fleet.owner[x] \in fleet.agents \cup {Nobody}} :
             Changed([fleet EXCEPT !.agents = @ \cup {a}])
       \/ \E a \in fleet.agents : \E m \in (fleet.agents \cup {Human}) \ {a} :
             Changed([fleet EXCEPT !.boss[a] = m])
       \/ \E a \in fleet.agents, l \in fleet.lanes : Changed([fleet EXCEPT !.lane[a] = l])
    /\ UNCHANGED <<board, view, folds, drag, pending, lane, renaming, calls>>

\* The board the serve folds: the lanes with a member.
BoardOf(f) == [f EXCEPT !.lanes = {l \in f.lanes : Members(f, l) # {}}]

\* The rows the owner closed, but for those a browser that knew only the
\* placement tree opens once.
StillFolded(b) == IF managers = Nothing THEN folded \ TreeItems(AllOpen(b)) ELSE folded

\* The effect of a new board.
BoardArrives ==
    /\ board' = BoardOf(fleet) /\ board' # board
    /\ LET s == Settled(board', Expansion) IN open' = s.open /\ spaces' = s.spaces /\ managers' = s.managers
    /\ folded' = StillFolded(board')
    /\ UNCHANGED <<fleet, view, drag, pending, lane, renaming, calls, limits>>

\* Another tree is drawn; it matters to drops only.
Look(v) ==
    /\ habit = "assign" /\ v # view /\ drag = Nothing
    /\ view' = v
    /\ UNCHANGED <<fleet, board, folds, drag, pending, lane, renaming, calls, limits>>

\* The chevron of a row that is drawn.
Toggle ==
    /\ habit = "fold" /\ board # Nothing
    /\ toggles < MaxToggles /\ toggles' = toggles + 1
    /\ \E item \in AllOpen(board) :
          /\ open' = (open \ {item}) \cup ({item} \ open)
          /\ folded' = IF item \in open THEN folded \cup {item} ELSE folded \ {item}
    /\ UNCHANGED <<fleet, board, view, spaces, managers, drag, pending, lane, renaming, calls, changes, habit>>

\* Entering the space of a lane of the board, or of the address before there
\* is a board, opens its header.
Enter(l) ==
    /\ habit = "fold"
    /\ l # lane /\ (Shown /\ l # Nobody => l \in board.lanes)
    /\ lane' = l
    /\ IF l = Nobody \/ open = Nothing THEN UNCHANGED folds
       ELSE /\ open' = open \cup {<<"lane", l>>} /\ folded' = folded \ {<<"lane", l>>}
            /\ UNCHANGED <<spaces, managers>>
    /\ toggles < MaxToggles /\ toggles' = toggles + 1
    /\ UNCHANGED <<fleet, board, view, drag, pending, renaming, calls, changes, habit>>

\* A lane is entered in the render a new board is drawn in: both effects start
\* from the same expandedItems, the header's writes over what the board's had
\* opened, and the board's, run again, finds those rows known already.
EnterOnBoard(l) ==
    /\ habit = "fold"
    /\ Shown /\ l \in board.lanes /\ l # lane /\ <<"lane", l>> \notin open
    /\ board' = BoardOf(fleet) /\ board' # board
    /\ lane' = l
    /\ LET r == Reconciled(Managers(board'), AllOpen(board'), Expansion)
           s == Settled(board', [r EXCEPT !.open = open \cup {<<"lane", l>>}])
       IN  /\ open' = s.open /\ spaces' = s.spaces /\ managers' = s.managers
           /\ folded' = (StillFolded(board') \ {<<"lane", l>>}) \cup (r.open \ s.open)
    /\ UNCHANGED <<fleet, view, drag, pending, renaming, calls, limits>>

\* A row is picked up; the board may change before it is dropped.
Drag(a) ==
    /\ habit = "assign"
    /\ board # Nothing /\ a \in board.agents /\ drag = Nothing /\ view # "placement"
    /\ drag' = [agent |-> a, lane |-> LaneOf(board, a)]
    /\ UNCHANGED <<fleet, board, view, folds, pending, lane, renaming, calls, limits>>

Drop ==
    /\ drag # Nothing /\ drag' = Nothing
    /\ \/ \E plan \in Plans : Submit(plan)
       \/ UNCHANGED calls
    /\ UNCHANGED <<fleet, board, view, folds, pending, lane, renaming, limits>>

\* The palette's reassign, and Adopt on a row whose manager is unknown.
Reassign(a) ==
    /\ habit = "assign"
    /\ board # Nothing /\ a \in board.agents
    /\ \E m \in Candidates(board, a) : Submit(Assigned(a, m))
    /\ UNCHANGED <<fleet, board, view, folds, drag, pending, lane, renaming, limits>>

Adopt(a) ==
    /\ habit = "assign"
    /\ board # Nothing /\ a \in board.agents /\ ManagerState(board, a) = "unknown"
    /\ view = "supervision"
    /\ Submit(Assigned(a, Human))
    /\ UNCHANGED <<fleet, board, view, folds, drag, pending, lane, renaming, limits>>

\* "+ lane": a name no lane of the board has.
NewLane(l) ==
    /\ habit = "assign"
    /\ board # Nothing /\ view = "lanes" /\ l \notin board.lanes
    /\ pending' = l
    /\ UNCHANGED <<fleet, board, view, folds, drag, lane, renaming, calls, limits>>

RemoveNewLane ==
    /\ pending # Nothing /\ view = "lanes"
    /\ pending' = Nothing
    /\ UNCHANGED <<fleet, board, view, folds, drag, lane, renaming, calls, limits>>

StartRename(a) ==
    /\ habit = "name"
    /\ board # Nothing /\ a \in board.agents
    /\ renaming' = [agent |-> a, typed |-> FALSE]
    /\ UNCHANGED <<fleet, board, view, folds, drag, pending, lane, calls, limits>>

TypeTitle ==
    /\ renaming # Nothing
    /\ renaming' = [renaming EXCEPT !.typed = TRUE]
    /\ UNCHANGED <<fleet, board, view, folds, drag, pending, lane, calls, limits>>

\* finishRename, on blur: nothing new closes the editor, else it is sent and
\* the editor stays until it lands.  Escape closes it.
FinishRename ==
    /\ renaming # Nothing
    /\ \/ renaming' = Nothing /\ UNCHANGED calls
       \/ /\ renaming.typed /\ Submit([kind |-> "rename", agent |-> renaming.agent])
          /\ renaming' = [renaming EXCEPT !.typed = FALSE]
    /\ UNCHANGED <<fleet, board, view, folds, drag, pending, lane, limits>>

\* The serve takes a call: the agent is live, a manager is live and not the
\* agent itself, a lane exists, a new lane's name is free.
Taken(call) ==
    /\ call.agent \in fleet.agents
    /\ CASE call.kind = "manager" -> call.to \in (fleet.agents \cup {Human}) \ {call.agent}
         [] call.kind = "lane" -> call.to \in fleet.lanes
         [] call.kind = "newLane" -> call.to \notin fleet.lanes
         [] OTHER -> TRUE

Served(call) ==
    CASE call.kind = "manager" -> [fleet EXCEPT !.boss[call.agent] = call.to]
      [] call.kind = "lane" -> [fleet EXCEPT !.lane[call.agent] = call.to]
      [] call.kind = "newLane" -> [fleet EXCEPT !.lane[call.agent] = call.to, !.lanes = @ \cup {call.to}]

Lands(call) ==
    /\ call \in calls /\ Taken(call)
    /\ calls' = calls \ {call}
    /\ IF call.kind = "rename" THEN fleet' = fleet /\ UNCHANGED limits ELSE Changed(Served(call))
    /\ pending' = IF call.kind = "newLane" THEN Nothing ELSE pending
    /\ renaming' = IF call.kind = "rename" /\ renaming # Nothing /\ renaming.agent = call.agent
                   THEN Nothing ELSE renaming
    /\ UNCHANGED <<board, view, folds, drag, lane>>

\* A refusal or a lost call is shown; nothing else changes.
Fails(call) ==
    /\ call \in calls
    /\ calls' = calls \ {call}
    /\ UNCHANGED <<fleet, board, view, folds, drag, pending, lane, renaming, limits>>

Next ==
    \/ Elsewhere \/ BoardArrives \/ Drop \/ RemoveNewLane \/ TypeTitle \/ FinishRename \/ Toggle
    \/ \E v \in {"placement", "supervision", "lanes"} : Look(v)
    \/ \E l \in Lanes \cup {Nobody} : Enter(l)
    \/ \E l \in Lanes : EnterOnBoard(l)
    \/ \E l \in Lanes : NewLane(l)
    \/ \E a \in Agents : Drag(a) \/ Adopt(a) \/ StartRename(a) \/ Reassign(a)
    \/ \E call \in calls : Lands(call) \/ Fails(call)

Spec == Init /\ [][Next]_vars

-----------------------------------------------------------------------------
(* Properties.                                                             *)

\* An agent's place in a tree: it has one parent, and from it the tree leads
\* up to the top.
RECURSIVE Above(_, _, _)
Above(tree, n, k) ==
    IF k = 0 THEN {} ELSE LET up == {e[1] : e \in {x \in tree : x[2] = n}}
                          IN up \cup UNION {Above(tree, u, k - 1) : u \in up}
PlacedOnce(tree, a, top) ==
    /\ Cardinality({e \in tree : e[2] = a}) = 1
    /\ top \in Above(tree, a, Cardinality(Agents) + 2)

\* The managers of a, nearest first, go round in a circle.
Circling(b, a) == a \in GraphBelow(b, a)
UnderCircle(b, a) == \E x \in b.agents : Circling(b, x) /\ (x = a \/ a \in GraphBelow(b, x))

\* "Every view draws an agent once" (FleetSidebar.tsx:151): of each board that
\* arrives, each tree has one place for every agent, reached from the top
\* whatever cycles the managers form, under its own lane's header in the lanes
\* view; and an agent no cycle is above hangs under its manager.
EachOnce(b) == \A a \in b.agents :
    /\ PlacedOnce(PlacementTree(b), a, Root)
    /\ PlacedOnce(SupervisionTree(b), a, Root)
    /\ \A l \in b.lanes \cup {Nobody} :
          IF l = LaneOf(b, a) THEN PlacedOnce(LaneTree(b, l), a, <<"lane", l>>)
          ELSE a \notin Drawn(LaneTree(b, l))
    /\ ManagerState(b, a) = "live" /\ ~Nested(b, a) /\ ~UnderCircle(b, a) =>
          <<b.boss[a], a>> \in SupervisionTree(b)
DrawnOnce == [][ board' # board => EachOnce(board') ]_vars

\* reparentModel.test.ts, "drop refusal table protects supervision topology":
\* on a board without a cycle no manager the page offers, by drop or in the
\* palette, makes one; and the two, written apart, offer the same managers.
Forest(b) == \A a \in b.agents : ~Circling(b, a)
SameOffers(b) == \A a \in {x \in b.agents : ~Nested(b, x)} :
    /\ \A m \in Candidates(b, a) \cup ManagerDrops(b, a) : Forest([b EXCEPT !.boss[a] = m])
    /\ Candidates(b, a) = {m \in ManagerDrops(b, a) : m \in b.agents => ~Nested(b, m)}
OffersKeepForest == [][ board' # board /\ Forest(board') => SameOffers(board') ]_vars

\* reconcileExpansion's promise, over boards that come and go in any order: a
\* workspace, and a manager, tombstone or lane row that was ever drawn with rows
\* under it, is open unless the owner closed it; and any row the owner closed,
\* of any kind, stays closed until the owner opens it.  Not promised, for the
\* code does otherwise: an agent's row in the placement tree that gains Task
\* subagents after the first board, and a Task subagent's own, stay closed; and
\* so do rows first drawn in the render in which a lane is entered, see
\* EnterOnBoard.  (sidebarView.ts:28-34)
FoldsKept ==
    Shown => /\ open \cap folded = {}
             /\ (spaces \cup managers) \ folded \subseteq open

\* What protects the forest from drops planned on a board that is old by the
\* time the serve takes them, which refuses no circle itself: a drop or a
\* reassignment closes a circle of managers only if someone above the new
\* manager was assigned, came or ended since that board.  A board that changes
\* while a row is dragged is no such excuse: the drop is planned on what is
\* drawn then.  (FleetSidebar.tsx:187-197, reparentModel.ts:28-47)
Line(chart, m) ==
    LET up[n \in 0 .. Cardinality(Agents)] ==
            IF n = 0 THEN m ELSE IF up[n - 1] \in Agents THEN chart[up[n - 1]] ELSE Nobody
    IN up
CirclesNeedOldBoards ==
    [][ \A c \in calls \ calls' :
           c.kind = "manager" /\ fleet' # fleet /\ Forest(fleet) /\ ~Forest(fleet')
             => Line(c.on, c.to) # Line(Chart(fleet), c.to) ]_vars

TypeOK ==
    /\ fleet \in Fleet /\ (Shown => board \in Fleet)
    /\ calls \subseteq Call /\ changes \in 0 .. MaxChanges[habit]
=============================================================================
