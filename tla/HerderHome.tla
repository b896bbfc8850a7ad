----------------------------- MODULE HerderHome -----------------------------
(***************************************************************************)
(* Navigation in the herder web client: the view (the lens, a zoom into the *)
(* active space's dock, or one agent alone), the dock of every space, and   *)
(* the browser's history, which has to tell what is shown.                  *)
(*                                                                         *)
(* Every change of the dock's active panel reaches updateHistory, which     *)
(* pushes an entry, replaces the current one, or leaves the dock's changes  *)
(* out while the view covers it.  A switch, a replay and a restore change   *)
(* the active panel too, so they run with pushes suppressed until the next  *)
(* animation frame.  Back and forward replay the entry they land on.        *)
(*                                                                         *)
(* One page.  A panel is an agent's transcript.  Groups and previews are    *)
(* left out (opening a panel may replace any one other as its group's       *)
(* preview), and storage but for a layout that refuses to be written        *)
(* (HerderSpaces).                                                          *)
(***************************************************************************)
EXTENDS Integers, Sequences

CONSTANTS
    Agents,    \* agents, each with a transcript panel
    Order,     \* the spaces in the order they are listed
    None,
    MaxStack,  \* bound on history entries
    Budget     \* bound on spaces closed and links followed

Spaces == {Order[i] : i \in 1..Len(Order)}

ASSUME HomeAssumption ==
    /\ MaxStack \in Nat \ {0} /\ Budget \in Nat
    /\ Len(Order) \in Nat \ {0}
    /\ None \notin Spaces \cup Agents

VARIABLES
    view,     \* what covers the page
    active,   \* the space whose dock it is
    live,     \* the spaces that are listed
    docks,    \* every space's dock: the live one, or the stored layout
    nav,      \* the browser's history: its entries and the one it is at
    quiet,    \* pushes are suppressed until the next frame
    lookup,   \* the space of a link that no listed space answers to yet
    behind,   \* history: the entry last replayed names what could not be shown
    spent

vars == <<view, active, live, docks, nav, quiet, lookup, behind, spent>>

----------------------------------------------------------------------------
\* Views, docks and history entries.

Lens == [kind |-> "lens", agent |-> None]
Zoom == [kind |-> "zoom", agent |-> None]
Alone(a) == [kind |-> "alone", agent |-> a]
Views == {Lens, Zoom} \cup {Alone(a) : a \in Agents}

Dock == [tabs : SUBSET Agents, at : Agents \cup {None}]

\* The entry for a view, of space s with panel p active.
Told(v, s, p) ==
    [view |-> v, space |-> IF v = Zoom THEN s ELSE None, subject |-> IF v = Zoom THEN p ELSE None]

Links == {Told(Zoom, s, p) : s \in Spaces, p \in Agents \cup {None}} \cup {Told(v, None, None) : v \in Views \ {Zoom}}

Push(n, e) == [stack |-> Append(SubSeq(n.stack, 1, n.here), e), here |-> n.here + 1]
Replace(n, e) == [n EXCEPT !.stack[n.here] = e]

\* Mutant: pushes are never suppressed.
Update_Unsuppressed(n, v, s, p, cause, suppressed) ==
    LET distinct == n.stack[n.here].subject # p
        pushes == (cause = "activation" /\ distinct) \/ cause = "space-switch"
    IN  IF v = Zoom /\ pushes THEN Push(n, Told(v, s, p)) ELSE Replace(n, Told(v, s, p))

\* decideHistoryUpdate, under the view: what a change of the active panel
\* to p does to the history.  Covered, the dock keeps the view's entry.
Update(n, v, s, p, cause, suppressed) ==
    LET distinct == n.stack[n.here].subject # p
        pushes == ~suppressed /\ ((cause = "activation" /\ distinct) \/ cause = "space-switch")
    IN  IF v = Zoom /\ pushes THEN Push(n, Told(v, s, p)) ELSE Replace(n, Told(v, s, p))

\* What the page shows.
Shown == Told(view, active, docks[active].at)

----------------------------------------------------------------------------
\* The dock.

\* openPanel: an open panel is made active; a new one may replace the
\* preview r of the group it opens in.
Opened(d, p, r) == [tabs |-> (d.tabs \ {r}) \cup {p}, at |-> p]
Replaceable(d, p) == {None} \cup (IF p \in d.tabs THEN {} ELSE d.tabs)

\* Dockview picks the next active panel when the active one goes.
Without(d, p) ==
    LET rest == d.tabs \ {p}
    IN  {[tabs |-> rest, at |-> q] : q \in IF d.at # p THEN {d.at} ELSE IF rest = {} THEN {None} ELSE rest}

EmptyDock == [tabs |-> {}, at |-> None]

\* Mutant: the restored dock's panel is not stamped.
Switched_Unstamped(n, v, s, suppressed) == Update(n, v, s, None, "space-switch", suppressed)

\* performSpaceSwitch once the flush has been written: the entry, pushed or
\* not, ends up stamped with the panel the restored dock has active.
Switched(n, v, s, suppressed) ==
    Replace(Update(n, v, s, None, "space-switch", suppressed), Told(v, s, docks[s].at))

\* zoomInto's own entry from the lens or an agent alone, stamped.
Zoomed(n, s, p) == Replace(Push(n, Told(Zoom, s, None)), Told(Zoom, s, p))

----------------------------------------------------------------------------

\* A loaded page: onDockReady has stamped its entry.
Init ==
    /\ live = Spaces
    /\ \E a, b \in Agents :
          docks = [s \in Spaces |-> IF s = Order[1] THEN [tabs |-> {a, b}, at |-> a]
                                                    ELSE EmptyDock]
    /\ active \in Spaces
    /\ view \in {Lens, Zoom}
    /\ nav = [stack |-> <<Shown>>, here |-> 1]
    /\ quiet = FALSE
    /\ lookup = None
    /\ behind = FALSE
    /\ spent = 0

SetDock(d) == docks' = [docks EXCEPT ![active] = d]

\* A tab of the dock is clicked.
Activate(p) ==
    /\ view = Zoom /\ p \in docks[active].tabs \ {docks[active].at}
    /\ SetDock([docks[active] EXCEPT !.at = p])
    /\ nav' = Update(nav, view, active, p, "activation", quiet)
    /\ behind' = FALSE
    /\ UNCHANGED <<view, active, live, quiet, lookup, spent>>

\* openAgent in a zoom.
OpenInDock(p) ==
    /\ view = Zoom
    /\ LET d == docks[active]
       IN  /\ \E r \in Replaceable(d, p) :
                 /\ SetDock(Opened(d, p, r))
                 /\ quiet' = (quiet \/ r # None)
           /\ nav' = Update(nav, view, active, p, IF d.at = p THEN "merge" ELSE "activation", quiet)
    /\ behind' = FALSE
    /\ UNCHANGED <<view, active, live, lookup, spent>>

\* inZoom: from the lens or an agent alone an open zooms into the active
\* space first and joins the zoom's entry; with the space gone it opens
\* under the view.
OpenCovered(p) ==
    /\ view # Zoom
    /\ LET d == docks[active]
       IN  \E r \in Replaceable(d, p) :
              /\ SetDock(Opened(d, p, r))
              /\ quiet' = (quiet \/ r # None \/ active \in live)
    /\ IF active \in live
       THEN view' = Zoom /\ nav' = Zoomed(nav, active, p)
       ELSE UNCHANGED <<view, nav>>
    /\ behind' = FALSE
    /\ UNCHANGED <<active, live, lookup, spent>>

\* pinPanel and setFileViewMode rewrite the entry of the active panel.
Merge ==
    /\ view = Zoom /\ docks[active].at # None
    /\ nav' = Update(nav, view, active, docks[active].at, "merge", quiet)
    /\ behind' = FALSE
    /\ UNCHANGED <<view, active, live, docks, quiet, lookup, spent>>

\* closePanel.
Close(p) ==
    /\ view = Zoom /\ p \in docks[active].tabs
    /\ \E d \in Without(docks[active], p) :
          /\ SetDock(d)
          /\ IF docks[active].at = p
             THEN nav' = Update(nav, view, active, d.at, "activation", TRUE) /\ behind' = FALSE
             ELSE UNCHANGED <<nav, behind>>
    /\ quiet' = TRUE
    /\ UNCHANGED <<view, active, live, lookup, spent>>

\* useSpaceMembers' add: a panel another browser opened joins the active
\* dock, active only when it is the first.
MemberOpens(p) ==
    /\ active \in live /\ p \notin docks[active].tabs
    /\ LET d == docks[active]
           first == d.tabs = {}
       IN  /\ SetDock([tabs |-> d.tabs \cup {p}, at |-> IF first THEN p ELSE d.at])
           /\ IF first
              THEN nav' = Update(nav, view, active, p, "activation", TRUE) /\ behind' = FALSE
              ELSE UNCHANGED <<nav, behind>>
    /\ quiet' = TRUE
    /\ UNCHANGED <<view, active, live, lookup, spent>>

----------------------------------------------------------------------------
\* Spaces and views.

\* switchSpace to s, unless its flush is refused.
SwitchTo(s, suppressed) ==
    /\ active' = s
    /\ nav' = Switched(nav, view, s, suppressed)
    /\ quiet' = TRUE
    /\ behind' = FALSE
    /\ UNCHANGED <<view, docks>>

\* A space chosen in a zoom.
Switch(s) ==
    /\ view = Zoom /\ s \in live \ {active}
    /\ SwitchTo(s, quiet)
    /\ UNCHANGED <<live, lookup, spent>>

\* zoomInto: from a zoom a switch, from the lens or an agent alone an entry
\* of its own; the agent it lands on opens or activates without a push.
ZoomInto(s, a) ==
    /\ s \in live
    /\ LET d == docks[s]
           new == IF a = None THEN d ELSE IF a \in d.tabs THEN [d EXCEPT !.at = a] ELSE Opened(d, a, None)
           moved == IF s = active THEN nav ELSE Switched(nav, view, s, view # Zoom \/ quiet)
       IN  /\ docks' = [docks EXCEPT ![s] = new]
           /\ nav' = IF view = Zoom THEN Replace(moved, Told(Zoom, s, new.at)) ELSE Zoomed(moved, s, new.at)
    /\ view' = Zoom
    /\ active' = s
    /\ quiet' = TRUE
    /\ behind' = FALSE
    /\ UNCHANGED <<live, lookup, spent>>

ZoomOut ==
    /\ view # Lens
    /\ view' = Lens
    /\ nav' = Push(nav, Told(Lens, None, None))
    /\ behind' = FALSE
    /\ UNCHANGED <<active, live, docks, quiet, lookup, spent>>

OpenAlone(a) ==
    /\ view # Alone(a)
    /\ view' = Alone(a)
    /\ nav' = Push(nav, Told(Alone(a), None, None))
    /\ behind' = FALSE
    /\ UNCHANGED <<active, live, docks, quiet, lookup, spent>>

\* closeSpace: the active one is left for its neighbour first.
Neighbour(s) ==
    LET at(x) == CHOOSE i \in 1..Len(Order) : Order[i] = x
        later == {x \in live : at(x) > at(s)}
    IN  IF later # {} THEN CHOOSE x \in later : \A y \in later : at(x) <= at(y)
        ELSE CHOOSE x \in live \ {s} : \A y \in live \ {s} : at(x) >= at(y)

CloseSpace(s) ==
    /\ s \in live /\ live # {s} /\ spent < Budget
    /\ live' = live \ {s}
    /\ spent' = spent + 1
    /\ IF s = active THEN SwitchTo(Neighbour(s), quiet)
       ELSE UNCHANGED <<view, active, docks, nav, quiet, behind>>
    /\ UNCHANGED lookup

\* Another browser closed s; reopenSpace and another browser's reopen.
ClosedElsewhere(s) ==
    /\ s \in live /\ live # {s} /\ spent < Budget
    /\ live' = live \ {s}
    /\ spent' = spent + 1
    /\ UNCHANGED <<view, active, docks, nav, quiet, lookup, behind>>

ReopenedElsewhere(s) ==
    /\ s \notin live
    /\ live' = live \cup {s}
    /\ UNCHANGED <<view, active, docks, nav, quiet, lookup, behind, spent>>

ReopenSpace(s) ==
    /\ s \notin live
    /\ live' = live \cup {s}
    /\ IF s = active THEN UNCHANGED <<view, active, docks, nav, quiet, behind>> ELSE SwitchTo(s, quiet)
    /\ UNCHANGED <<lookup, spent>>

\* The effect that leaves a space no longer listed.
First == CHOOSE s \in live : \A i \in 1..Len(Order) : Order[i] \in live => \E j \in 1..i : Order[j] = s

FallBack ==
    /\ active \notin live
    /\ SwitchTo(First, TRUE)
    /\ UNCHANGED <<live, lookup, spent>>

\* createServerSpaceLookup: the link's space arrives, or is given up.
LookupLands ==
    /\ lookup \in live
    /\ IF lookup = active THEN UNCHANGED <<view, active, docks, nav, quiet, behind>> ELSE SwitchTo(lookup, TRUE)
    /\ lookup' = None
    /\ UNCHANGED <<live, spent>>

LookupEnds ==
    /\ lookup # None /\ lookup \notin live
    /\ lookup' = None
    /\ UNCHANGED <<view, active, live, docks, nav, quiet, behind, spent>>

----------------------------------------------------------------------------
\* Replaying entries.

\* Mutant: the entry is rewritten before its panel is in front.
Applied_Early(n, v, s, e, ds, r) ==
    LET d == IF e.subject = None THEN ds[s] ELSE Opened(ds[s], e.subject, r)
    IN  /\ docks' = [ds EXCEPT ![s] = d]
        /\ nav' = Replace(n, Told(v, s, ds[s].at))
        /\ behind' = (v = Zoom /\ d.at # e.subject)

\* applyRoute, the dock being s's: the panel opens as a preview, the shell
\* shows the dock as it is.  Either way the entry is rewritten.
Applied(n, v, s, e, ds, r) ==
    LET d == IF e.subject = None THEN ds[s] ELSE Opened(ds[s], e.subject, r)
    IN  /\ docks' = [ds EXCEPT ![s] = d]
        /\ nav' = Replace(n, Told(v, s, e.subject))
        /\ behind' = (v = Zoom /\ d.at # e.subject)

\* popstate by k entries: replayHistoryRoute when the entry is a zoom's.
\* saved: the dock being left could be written.
Travel(k, saved) ==
    LET n == [nav EXCEPT !.here = @ + k]
        e == n.stack[n.here]
        switches == e.space # active /\ e.space \in live
        lost == e.space # active /\ e.space \notin live /\ e.subject # None /\ e.subject \notin docks[active].tabs
        s == IF switches THEN e.space ELSE active
    IN  /\ n.here \in 1..Len(nav.stack)
        /\ view' = e.view
        /\ IF e.view # Zoom
           THEN /\ nav' = n /\ behind' = FALSE
                /\ UNCHANGED <<active, docks, quiet>>
           ELSE /\ quiet' = TRUE
                /\ IF lost \/ (switches /\ ~saved)
                   THEN nav' = n /\ behind' = TRUE /\ UNCHANGED <<active, docks>>
                   ELSE /\ active' = s
                        /\ \E r \in IF e.subject = None THEN {None} ELSE Replaceable(docks[s], e.subject) :
                              Applied(n, Zoom, s, e, docks, r)
        /\ UNCHANGED <<live, lookup, spent>>

\* shouldReplayInitialRoute: an entry of this page's own (fresh: a link
\* typed or followed) is replayed only over an empty dock.
Replays(e, fresh, d) ==
    /\ e.subject # None \/ e.view.kind = "alone"
    /\ fresh \/ d.tabs = {}

\* The page loads at entry e of history n: initializeBrowserSpaces picks the
\* space, onDockReady restores its dock, replays the link and stamps.
Load(n, fresh) ==
    LET e == n.stack[n.here]
        route == IF e.view.kind = "alone" THEN [e EXCEPT !.subject = e.view.agent] ELSE e
        s == IF e.space \in live THEN e.space ELSE IF active \in live THEN active ELSE First
    IN  /\ view' = e.view
        /\ active' = s
        /\ lookup' = IF e.space \in live THEN None ELSE e.space
        /\ IF Replays(e, fresh, docks[s])
           THEN \E r \in Replaceable(docks[s], route.subject) : Applied(n, e.view, s, route, docks, r)
           ELSE /\ nav' = Replace(n, Told(e.view, s, docks[s].at))
                /\ behind' = FALSE
                /\ UNCHANGED docks
        /\ quiet' = TRUE
        /\ UNCHANGED live

Reload == Load(nav, FALSE) /\ UNCHANGED spent
Visit(e) == spent < Budget /\ spent' = spent + 1 /\ Load(Push(nav, e), TRUE)

\* The animation frame after a suppressed change.
Frame ==
    /\ quiet
    /\ quiet' = FALSE
    /\ UNCHANGED <<view, active, live, docks, nav, lookup, behind, spent>>

----------------------------------------------------------------------------

UserNext ==
    \/ \E p \in Agents : Activate(p) \/ OpenInDock(p) \/ OpenCovered(p) \/ Close(p) \/ OpenAlone(p)
    \/ \E s \in Spaces : Switch(s) \/ CloseSpace(s) \/ ReopenSpace(s)
    \/ \E s \in Spaces, a \in Agents \cup {None} : ZoomInto(s, a)
    \/ ZoomOut \/ Merge
    \/ \E e \in Links : Visit(e)

Travels == \E k \in {-2, -1, 1}, saved \in BOOLEAN : Travel(k, saved)

Background ==
    \/ \E p \in Agents : MemberOpens(p)
    \/ \E s \in Spaces : ClosedElsewhere(s) \/ ReopenedElsewhere(s)
    \/ FallBack \/ LookupLands \/ LookupEnds
    \/ Reload
    \/ Frame

Next ==
    /\ UserNext \/ Travels \/ Background
    /\ Len(nav'.stack) <= MaxStack

Spec == Init /\ [][Next]_vars

----------------------------------------------------------------------------

TypeOK ==
    /\ view \in Views
    /\ active \in Spaces /\ live \in SUBSET Spaces /\ live # {}
    /\ docks \in [Spaces -> Dock]
    /\ \A s \in Spaces : IF docks[s].tabs = {} THEN docks[s].at = None ELSE docks[s].at \in docks[s].tabs
    /\ nav.here \in 1..Len(nav.stack) /\ Len(nav.stack) <= MaxStack
    /\ \A i \in 1..Len(nav.stack) : nav.stack[i] \in Links
    /\ quiet \in BOOLEAN /\ behind \in BOOLEAN
    /\ lookup \in Spaces \cup {None}
    /\ spent \in 0..Budget

\* The address is the one of what the page shows, whichever path led there:
\* a switch, a zoom, a replay, a close, a panel another browser opened.  Only
\* a replay that found its space or panel gone leaves it behind.
AddressTrue == ~behind => nav.stack[nav.here] = Shown

\* Back and forward show what the entry says, if its space is listed and
\* the dock left could be saved, and rewrite no entry, so going the other
\* way comes back.
ReplayKeepsHistory ==
    [][\A k \in {-2, -1, 1} :
         (nav'.here = nav.here + k /\ Travel(k, TRUE)) =>
           LET e == nav.stack[nav.here + k]
           IN  e.space \in live \cup {None} =>
                  /\ nav'.stack = nav.stack
                  /\ Shown' = e \/ (e.view = Zoom /\ e.subject = None /\ active' = e.space)]_vars

\* What the owner leaves by going to another view or space stays one step
\* back; what happens by itself never adds an entry or drops the ones ahead.
Place == <<view, IF view = Zoom THEN active ELSE None>>

MovesCanBeUndone ==
    [][/\ (Place' # Place /\ ~quiet /\ ~behind /\ UserNext) =>
             nav'.here = nav.here + 1 /\ nav'.stack[nav.here] = Shown
       /\ (nav'.here # nav.here \/ Len(nav'.stack) # Len(nav.stack)) => ~Background]_vars

\* The history's steps: a replay shows its entry and rewrites none, a move can
\* be undone, and nothing in the background moves.  (historyModel.ts)
HistorySteps == ReplayKeepsHistory /\ MovesCanBeUndone

=============================================================================
