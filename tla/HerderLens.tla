----------------------------- MODULE HerderLens -----------------------------
(***************************************************************************)
(* Getting about the lens: the cards in their three rows, the keys that     *)
(* step from one to another, zoom in and out and go to what needs the owner *)
(* (lens/lensModel.ts, lens/useLens.ts), while agents finish turns, come    *)
(* and go and spaces open and close elsewhere.                              *)
(***************************************************************************)
EXTENDS Integers, FiniteSets, SequencesExt

CONSTANTS
    None,
    Spaces,   \* the spaces there may be, in space order
    Agents,   \* the agents there may be, in name order
    Members,  \* each space's agents, in dock order
    PerLine,  \* cards on a drawn line
    MaxMoves, \* bound on cards placed, agents picked and read marks
    MaxShifts \* bound on spaces and agents that come or go

VARIABLES
    live,     \* the spaces there are
    board,    \* the agents on the board
    needs,    \* the agents that are unread or blocked
    rows,     \* each space's row: 1 focus, 2 watch, 3 background
    pick,     \* the agent the owner made visible on each card
    last,     \* the agent each space's dock has in front
    view, active, selected,
    passed,   \* how many n went by each needing space since the owner did other things
    moves, shifts

vars == <<live, board, needs, rows, pick, last, view, active, selected, passed, moves, shifts>>

SpaceSet == Range(Spaces)
Lens == [kind |-> "lens", agent |-> None]
Zoom == [kind |-> "zoom", agent |-> None]
Alone(a) == [kind |-> "alone", agent |-> a]

----------------------------------------------------------------------------
\* lensRowsOf, and lensOrder: the rows one after the other.
RowOf(i) == SelectSeq(Spaces, LAMBDA s : s \in live /\ rows[s] = i)
Order == RowOf(1) \o RowOf(2) \o RowOf(3)

At(seq, x) == IF Contains(seq, x) THEN CHOOSE i \in 1..Len(seq) : seq[i] = x ELSE 0

\* selectedSpace
Chosen == IF selected \in live THEN selected ELSE IF Order = <<>> THEN None ELSE Order[1]

\* stepCard: stops at the ends.
StepCard(s, by) ==
    LET to == At(Order, s) + by
    IN  Order[IF to < 1 THEN 1 ELSE IF to > Len(Order) THEN Len(Order) ELSE to]

\* The drawn cards: each row begins a line, and wraps.  cardRects
Lines(i) == (Len(RowOf(i)) + PerLine - 1) \div PerLine
Rect(s) ==
    LET i == rows[s]
        k == At(RowOf(i), s) - 1
        before == (IF i > 1 THEN Lines(1) ELSE 0) + (IF i > 2 THEN Lines(2) ELSE 0)
    IN  [column |-> k % PerLine, line |-> before + k \div PerLine]

Distance(s, t) == LET d == Rect(s).column - Rect(t).column IN IF d < 0 THEN -d ELSE d

\* stepLine: the closest card of the next line, the left one on a tie; at the
\* edge the selection stays.
StepLine(s, by) ==
    LET beyond == {t \in live : IF by > 0 THEN Rect(t).line > Rect(s).line ELSE Rect(t).line < Rect(s).line}
        line == {t \in beyond : \A u \in beyond : IF by > 0 THEN Rect(t).line <= Rect(u).line ELSE Rect(t).line >= Rect(u).line}
    IN  IF beyond = {} THEN s
        ELSE CHOOSE t \in line : \A u \in line \ {t} :
                \/ Distance(t, s) < Distance(u, s)
                \/ Distance(t, s) = Distance(u, s) /\ Rect(t).column < Rect(u).column

\* spaceStep: wraps; from no space of the order, its first or last.
SpaceStep(from, by) ==
    LET at == At(Order, from)
    IN  IF at = 0 THEN Order[IF by > 0 THEN 1 ELSE Len(Order)]
        ELSE Order[((at - 1 + by + Len(Order)) % Len(Order)) + 1]

\* liveMembers, visibleAgent
Living(s) == SelectSeq(Members[s], LAMBDA a : a \in board)
Visible(s) ==
    IF Contains(Living(s), pick[s]) THEN pick[s]
    ELSE IF Living(s) = <<>> THEN None ELSE Living(s)[1]

\* cycleVisible
NextVisible(s) == Living(s)[(At(Living(s), Visible(s)) % Len(Living(s))) + 1]

\* entryAgent
EntryAgent(s) ==
    LET asking == SelectSeq(Living(s), LAMBDA a : a \in needs)
    IN  IF asking = <<>> THEN Visible(s) ELSE asking[1]

\* zoomLanding: where the owner was, while it is on the board.
Entry(s) == IF last[s] \in board THEN last[s] ELSE EntryAgent(s)

\* needsYou of a space's attention
SpaceNeeds(s) == \E i \in 1..Len(Living(s)) : Living(s)[i] \in needs

\* looseAgents: the needing agents in no space.
Held == UNION {Range(Members[s]) : s \in live}
Loose == SelectSeq(Agents, LAMBDA a : a \in needs \ Held)

\* Mutant: the search begins where the owner is.
NextNeeding_Here(from, alone) ==
    LET stops == Order \o (IF alone THEN Loose ELSE <<>>)
        at == At(stops, from)
        Asks(x) == IF x \in SpaceSet THEN SpaceNeeds(x) ELSE x \in needs
        Turn(k) == stops[((at + k - 1) % Len(stops)) + 1]
        hits == {k \in 0..Len(stops) - 1 : at + k > 0 /\ Asks(Turn(k))}
    IN  IF hits = {} THEN None ELSE Turn(CHOOSE k \in hits : \A j \in hits : k <= j)

\* nextNeeding: the first stop after `from` that needs the owner, `from` itself
\* last; from what is no stop any more, from the top.
NextNeeding(from, alone) ==
    LET stops == Order \o (IF alone THEN Loose ELSE <<>>)
        at == At(stops, from)
        Asks(x) == IF x \in SpaceSet THEN SpaceNeeds(x) ELSE x \in needs
        Turn(k) == stops[((at + k - 1) % Len(stops)) + 1]
        hits == {k \in 1..Len(stops) : Asks(Turn(k))}
    IN  IF hits = {} THEN None ELSE Turn(CHOOSE k \in hits : \A j \in hits : k <= j)

----------------------------------------------------------------------------
Init ==
    /\ live = SpaceSet
    /\ board = Range(Agents) /\ needs = {}
    /\ rows = [s \in SpaceSet |-> 2]
    /\ pick = [s \in SpaceSet |-> None] /\ last = [s \in SpaceSet |-> None]
    /\ view = Lens /\ active = Spaces[1] /\ selected = Spaces[1]
    /\ passed = [s \in SpaceSet |-> 0]
    /\ moves = 0 /\ shifts = 0

World == UNCHANGED <<live, board, shifts>>

\* zoomInto: a space with its agent in front; false for a space that is gone.
ZoomInto(s, a) ==
    /\ s \in live
    /\ view' = Zoom /\ active' = s /\ selected' = s
    /\ last' = IF a = None THEN last ELSE [last EXCEPT ![s] = a]

\* openAlone
OpenAlone(a) == view' = Alone(a) /\ UNCHANGED <<active, selected, last>>

\* Whatever the owner does but n begins the count anew.
Otherwise == passed' = [s \in SpaceSet |-> 0]

OnLens(s) == view = Lens /\ s = Chosen /\ s # None

Same == UNCHANGED <<needs, rows, pick>>
Move == moves < MaxMoves /\ moves' = moves + 1

\* step and stepRow
Step(to) ==
    /\ OnLens(Chosen)
    /\ selected' = to
    /\ UNCHANGED <<view, active, last, moves>> /\ Otherwise /\ Same /\ World

\* zoomIn, or a double-click on a card.
ZoomCard(s) ==
    /\ view = Lens
    /\ ZoomInto(s, Entry(s))
    /\ UNCHANGED moves /\ Otherwise /\ Same /\ World

ZoomOut ==
    /\ view # Lens
    /\ view' = Lens
    /\ selected' = IF view = Zoom /\ active # None THEN active ELSE selected
    /\ UNCHANGED <<active, last, moves>> /\ Otherwise /\ Same /\ World

\* stepSpace
StepSpace(by) ==
    /\ view = Zoom /\ Order # <<>>
    /\ LET s == SpaceStep(active, by) IN ZoomInto(s, Entry(s))
    /\ UNCHANGED moves /\ Otherwise /\ Same /\ World

\* n, and N with `zoom`.
GoToNext(zoom) ==
    LET from == IF view.kind = "alone" THEN view.agent ELSE IF view = Zoom THEN active ELSE Chosen
        stop == NextNeeding(from, zoom \/ view # Lens)
    IN  /\ stop # None
        /\ CASE stop \notin SpaceSet -> OpenAlone(stop)
             [] stop \in SpaceSet /\ (zoom \/ view # Lens) -> ZoomInto(stop, Entry(stop))
             [] OTHER -> selected' = stop /\ UNCHANGED <<view, active, last>>
        /\ passed' = [s \in SpaceSet |-> IF s \in live \ {stop} /\ SpaceNeeds(s) THEN passed[s] + 1 ELSE 0]
        /\ UNCHANGED moves /\ Same /\ World

\* place: 1, 2 and 3 (rowOf, and the prefs they are kept in).
PlaceCard(i) ==
    /\ OnLens(Chosen) /\ Move
    /\ rows' = [rows EXCEPT ![Chosen] = i] /\ selected' = Chosen
    /\ UNCHANGED <<needs, pick, view, active, last>> /\ Otherwise /\ World

CycleVisible ==
    /\ OnLens(Chosen) /\ Living(Chosen) # <<>> /\ Move
    /\ pick' = [pick EXCEPT ![Chosen] = NextVisible(Chosen)]
    /\ UNCHANGED <<needs, rows, view, active, last, selected>> /\ Otherwise /\ World

\* toggleRead and markUnread: what they mark is HerderAttention's; a block of
\* an agent stays until it is viewed.
ToggleRead ==
    /\ OnLens(Chosen) /\ Move
    /\ IF SpaceNeeds(Chosen) THEN \E marked \in SUBSET Range(Living(Chosen)) : needs' = needs \ marked
       ELSE \E a \in Range(Living(Chosen)) : needs' = needs \cup {a}
    /\ UNCHANGED <<rows, pick, view, active, last, selected>> /\ Otherwise /\ World

\* summon: a mention opens its agent in the first space that holds it.
Summon(a) ==
    /\ view.kind = "alone" /\ a \in board
    /\ LET homes == SelectSeq(Order, LAMBDA s : Contains(Members[s], a))
       IN  IF homes = <<>> THEN OpenAlone(a) ELSE ZoomInto(homes[1], a)
    /\ UNCHANGED moves /\ Otherwise /\ Same /\ World

----------------------------------------------------------------------------
Page == UNCHANGED <<rows, pick, view, selected, moves>>

\* An agent finishes a turn or is blocked; the one in front is read or viewed.
NeedsOwner(a) ==
    /\ a \in board \ needs
    /\ needs' = needs \cup {a}
    /\ UNCHANGED <<last, active, passed>> /\ World /\ Page

InFront == IF view = Zoom /\ active # None THEN last[active] ELSE view.agent

IsRead ==
    /\ InFront \in needs
    /\ needs' = needs \ {InFront}
    /\ UNCHANGED <<last, active, passed>> /\ World /\ Page

\* An agent leaves the board or is on it again; a space closes in another tab,
\* and if it was the active one, the first of the others becomes active.
AgentShifts(a) ==
    /\ shifts < MaxShifts /\ shifts' = shifts + 1
    /\ board' = SymDiff(board, {a}) /\ needs' = needs \ {a}
    /\ UNCHANGED <<live, last, active, passed>> /\ Page

SpaceCloses(s) ==
    /\ s \in live /\ live # {s}
    /\ shifts < MaxShifts /\ shifts' = shifts + 1
    /\ live' = live \ {s}
    /\ active' = IF active = s THEN SelectSeq(Spaces, LAMBDA t : t \in live')[1] ELSE active
    /\ UNCHANGED <<board, needs, last>> /\ Otherwise /\ Page

Next ==
    \/ \E by \in {-1, 1} : \/ OnLens(Chosen) /\ Step(StepCard(Chosen, by))
                           \/ OnLens(Chosen) /\ Step(StepLine(Chosen, by))
                           \/ StepSpace(by)
    \/ \E s \in SpaceSet : ZoomCard(s) \/ SpaceCloses(s)
    \/ ZoomOut
    \/ \E zoom \in BOOLEAN : GoToNext(zoom)
    \/ \E i \in 1..3 : PlaceCard(i)
    \/ CycleVisible \/ ToggleRead \/ IsRead
    \/ \E a \in Range(Agents) : Summon(a) \/ NeedsOwner(a) \/ AgentShifts(a)

Spec == Init /\ [][Next]_vars

----------------------------------------------------------------------------
\* n and N reach every space that needs the owner (useLens.ts:210-224): while
\* the owner presses nothing else, a space that goes on needing them is passed
\* by fewer times than there are stops, whatever arrives, is read or ends in
\* between, and although a stop that is gone sends the walk back to the top.  A
\* space that closes begins the count anew.
NoneStarved ==
    \A s \in SpaceSet : passed[s] < Len(Spaces) + Cardinality(Range(Agents) \ UNION {Range(Members[t]) : t \in SpaceSet})
=============================================================================
