--------------------------- MODULE HerderMembers ---------------------------
(***************************************************************************)
(* The members of a space in the herder web client: the pinned agent and    *)
(* file tabs of its dock, published as one last-write-wins row per space     *)
(* and reconciled in every browser by reconcileSpaceMembers.                *)
(*                                                                         *)
(* Reconciliation only adds: a row never closes a tab.  What a browser has  *)
(* published or applied it keeps as baseline and applied, in localStorage.  *)
(* The one-time lane move re-keys a space that became a lane, once in each   *)
(* browser, and holds reconciliation off until then.                        *)
(*                                                                         *)
(* Below it, the row sync is HerderSync: here a post or a pull takes one    *)
(* step, and a version is the time of its write.  A space is live or closed  *)
(* for every browser at once.                                               *)
(***************************************************************************)
EXTENDS Integers, Sequences, FiniteSets

CONSTANTS
    Browsers,  \* browsers of one owner, one page each
    Members,   \* agents and files
    Spaces,    \* space ids, the two below included
    From, To,  \* the lane move: an old space and the lane it became
    Moves,     \* whether the owner has a lane move to run
    Starts,    \* the docks of the old space, browser by browser, at first
    Shows,     \* spaces a page may show when it loads
    Edits,     \* bound on what users do
    Faults     \* bound on refused layout writes

ASSUME MembersAssumption ==
    /\ {From, To} \subseteq Spaces /\ From # To /\ Moves \in BOOLEAN /\ Edits \in Nat /\ Faults \in Nat
    /\ Shows \subseteq Spaces
    /\ \A d \in Starts : d \in [Browsers -> Seq(Members)]

VARIABLES
    space,   \* space[s]: "live" or "closed"
    srow,    \* srow[s]: the server's row
    page,    \* page[b]: what its page holds in memory
    store,   \* store[b]: its localStorage, space by space
    clock,   \* the time of the last write
    edits, faults,
    closed,  \* history: closed[b][s], tabs the user closed since a row was applied
    acked,   \* history: acked[b][s], the last version b applied or wrote
    entered  \* history: the browsers whose user changed the lane before the move

vars == <<space, srow, page, store, clock, edits, faults, closed, acked, entered>>

Row == [ver : Nat, members : Seq(Members), deleted : BOOLEAN]
NoRow == [ver |-> 0, members |-> <<>>, deleted |-> FALSE]

\* SpaceMembersLocal: has says whether there is a baseline.
NoLocal == [has |-> FALSE, base |-> <<>>, applied |-> 0]

InSeq(q) == {q[i] : i \in DOMAIN q}

\* What of q is in the set, in q's order: the k-th has k - 1 before it.
Only(q, set) ==
    LET kept == {i \in DOMAIN q : q[i] \in set}
        before(i) == Cardinality({j \in kept : j < i})
    IN  [k \in 1..Cardinality(kept) |-> q[CHOOSE i \in kept : before(i) = k - 1]]

Without(q, set) == Only(q, InSeq(q) \ set)
Newer(r, x) == IF x.ver > r.ver THEN x ELSE r

Up(b) == page[b].up
Live == {s \in Spaces : space[s] = "live"}

\* page[b].blank: the space the page shows, until it has mounted its dock.
Blanks == {{}} \cup {{s} : s \in Shows}
Blank(b, s) == s \in page[b].blank

----------------------------------------------------------------------------
\* reconcileSpaceMembers, for one space.  `loc` is what the browser keeps of
\* it: dock, key (whether a layout is stored), row, local and queued.

\* Mutant: a row is compared with the dock whatever was applied before.
Unseen_Always(loc) == loc.row.ver # 0

\* The browser has a row it has not applied.
Unseen(loc) == loc.row.ver # 0 /\ loc.row.ver # loc.local.applied

\* What applying the row opens.
Missing(loc) ==
    IF Unseen(loc) /\ ~loc.row.deleted THEN Without(loc.row.members, InSeq(loc.dock)) ELSE <<>>

Opened(loc) == loc.dock \o Missing(loc)

\* With no local change pending, the applied dock is the new baseline.
Baseline(loc) ==
    IF Unseen(loc) /\ ~loc.row.deleted /\ loc.local.base = loc.dock THEN Opened(loc) ELSE loc.local.base

\* Mutant: the dock is compared with the row, not with the baseline.
Changed_FromRow(loc) ==
    loc.row.ver = 0 \/ loc.row.deleted \/ loc.row.members # Opened(loc)

Changed(loc) ==
    IF loc.local.has THEN Baseline(loc) # Opened(loc)
    ELSE loc.row.ver = 0 \/ loc.row.deleted \/ loc.row.members # Opened(loc)

\* Mutant: a member that could not be opened does not hold the space back.
Held_Never(loc, fails) == FALSE

\* A member that could not be opened holds the whole space back.
Held(loc, fails) == fails /\ Missing(loc) # <<>>

\* One live space; of a refused batch, the members in `got` were written.
Reconciled(loc, fails, got, t) ==
    LET dock == IF fails THEN loc.dock \o Only(Missing(loc), got) ELSE Opened(loc)
        with == [loc EXCEPT !.dock = dock, !.key = @ \/ dock # loc.dock]
    IN  IF Held(loc, fails) THEN with
        ELSE IF Changed(loc)
        THEN [with EXCEPT !.row = [ver |-> t, members |-> dock, deleted |-> FALSE],
                          !.queued = TRUE,
                          !.local = [has |-> TRUE, base |-> dock, applied |-> t]]
        ELSE [with EXCEPT !.local = [has |-> TRUE,
                                     base |-> IF @.has THEN Baseline(loc) ELSE dock,
                                     applied |-> IF Unseen(loc) THEN loc.row.ver ELSE @.applied]]

\* store.remove.
Removed(loc, t) ==
    [loc EXCEPT !.row = [ver |-> t, members |-> <<>>, deleted |-> TRUE], !.queued = TRUE]

\* One closed space.
Swept(loc, t) ==
    IF loc.row.ver = 0 \/ loc.row.deleted THEN loc
    ELSE [Removed(loc, t) EXCEPT !.local = [NoLocal EXCEPT !.applied = t]]

----------------------------------------------------------------------------
\* The page.

Acts == edits < Edits /\ edits' = edits + 1

\* schedule, in one page or in all.
Scheduled(b) == [page EXCEPT ![b].timer = TRUE]
AllScheduled == [b \in Browsers |-> [page[b] EXCEPT !.timer = Up(b)]]

SetDock(b, s, q) ==
    /\ Up(b) /\ space[s] = "live" /\ ~Blank(b, s) /\ Acts
    /\ store' = [store EXCEPT ![b][s].dock = q, ![b][s].key = TRUE]
    /\ page' = Scheduled(b)
    /\ entered' = IF s = To /\ page[b].hold THEN entered \cup {b} ELSE entered
    /\ UNCHANGED <<space, srow, clock, faults, acked>>

\* The user pins a tab, closes one, or drags the first behind the second.
OpenTab(b, s, m) ==
    /\ m \notin InSeq(store[b][s].dock)
    /\ SetDock(b, s, Append(store[b][s].dock, m))
    /\ closed' = [closed EXCEPT ![b][s] = @ \ {m}]

CloseTab(b, s, m) ==
    /\ m \in InSeq(store[b][s].dock)
    /\ SetDock(b, s, Without(store[b][s].dock, {m}))
    /\ closed' = [closed EXCEPT ![b][s] = @ \cup {m}]

DragTab(b, s) ==
    LET q == store[b][s].dock IN
    /\ Len(q) >= 2
    /\ SetDock(b, s, <<q[2], q[1]>> \o SubSeq(q, 3, Len(q)))
    /\ UNCHANGED closed

\* The user closes a space, or reopens it: every page lists the spaces anew.
CloseSpace(s) ==
    /\ Acts /\ space[s] = "live" /\ s # To /\ \E b \in Browsers : Up(b)
    /\ space' = [space EXCEPT ![s] = "closed"] /\ page' = AllScheduled
    /\ UNCHANGED <<srow, store, clock, faults, closed, acked, entered>>

ReopenSpace(s) ==
    /\ Acts /\ space[s] = "closed" /\ \E b \in Browsers : Up(b)
    /\ space' = [space EXCEPT ![s] = "live"] /\ page' = AllScheduled
    /\ UNCHANGED <<srow, store, clock, faults, closed, acked, entered>>

\* Mutant: the hold of the lane move does not stop reconciliation.
Ready_Early(b) == page[b].started

\* started, and the lane move has run.
Ready(b) == page[b].started /\ ~page[b].hold

\* Mutant: a dock that is not there yet is read as an empty one.
Unread_Empty(loc) == Reconciled([loc EXCEPT !.dock = <<>>], FALSE, {}, clock + 1)

\* read answers null: the space is left to a later reconciliation.  (It answers
\* null too for a stored text that cannot be read, which is left out here.)
Unread(loc) == loc

\* The 250 ms timer: reconcile.
Reconcile(b, fails, got) ==
    /\ Up(b) /\ page[b].timer
    /\ page' = [page EXCEPT ![b].timer = FALSE]
    /\ IF ~Ready(b)
       THEN ~fails /\ got = {} /\ UNCHANGED <<store, clock, faults, closed, acked>>
       ELSE LET t   == clock + 1
                new == [s \in Spaces |->
                          IF space[s] # "live" THEN Swept(store[b][s], t)
                          ELSE IF Blank(b, s) THEN Unread(store[b][s])
                          ELSE Reconciled(store[b][s], fails, got, t)]
                ack(s) == ~(space[s] = "live" /\ (Blank(b, s) \/ Held(store[b][s], fails)))
                read == {s \in Live : ~Blank(b, s)}
            IN  /\ IF fails
                   THEN /\ faults < Faults /\ faults' = faults + 1
                        /\ \E s \in read : Missing(store[b][s]) # <<>>
                        /\ \A s \in read : ~(InSeq(Missing(store[b][s])) \subseteq got) \/ Missing(store[b][s]) = <<>>
                        /\ got \subseteq UNION {InSeq(Missing(store[b][s])) : s \in read}
                   ELSE got = {} /\ UNCHANGED faults
                /\ store' = [store EXCEPT ![b] = new]
                /\ clock' = IF \E s \in Spaces : new[s].row.ver = t THEN t ELSE clock
                /\ acked' = [acked EXCEPT ![b] = [s \in Spaces |->
                                IF ack(s) THEN new[s].row.ver ELSE acked[b][s]]]
                /\ closed' = [closed EXCEPT ![b] = [s \in Spaces |->
                                IF ack(s) THEN {} ELSE closed[b][s]]]
    /\ UNCHANGED <<space, srow, edits, entered>>

\* A post of a queued row: the server keeps the newer one.
Post(b, s) ==
    /\ Up(b) /\ store[b][s].queued
    /\ srow' = [srow EXCEPT ![s] = Newer(@, store[b][s].row)]
    /\ store' = [store EXCEPT ![b][s].queued = FALSE]
    /\ UNCHANGED <<space, page, clock, edits, faults, closed, acked, entered>>

\* Mutant: only the first pull schedules a reconciliation.
Heard_First(b) == [page EXCEPT ![b].started = TRUE, ![b].timer = @ \/ ~page[b].started]

\* A pull has brought rows.
Heard(b) == [page EXCEPT ![b].started = TRUE, ![b].timer = TRUE]

\* A pull: the page's first one, or one that brings rows.
Pull(b) ==
    /\ Up(b)
    /\ ~page[b].started \/ \E s \in Spaces : srow[s].ver > store[b][s].row.ver
    /\ store' = [store EXCEPT ![b] = [s \in Spaces |->
                    [store[b][s] EXCEPT !.row = Newer(@, srow[s])]]]
    /\ page' = Heard(b)
    /\ UNCHANGED <<space, srow, clock, edits, faults, closed, acked, entered>>

----------------------------------------------------------------------------
\* The lane move.

\* moveMembers: To gets the row of From unless it has one with members.
RowsMoved(st, t) ==
    IF st[From].row.ver = 0 \/ st[From].row.deleted THEN st
    ELSE [st EXCEPT ![To] = IF @.row.ver = 0 \/ @.row.deleted \/ @.row.members = <<>>
                            THEN [@ EXCEPT !.row = [ver |-> t, members |-> st[From].row.members, deleted |-> FALSE],
                                           !.queued = TRUE]
                            ELSE @,
                    ![From] = Removed(@, t)]

\* moveStoredLayout, into an empty key only.
LayoutMoved(st) ==
    IF st[To].key THEN st
    ELSE [st EXCEPT ![To].dock = st[From].dock, ![To].key = st[From].key,
                    ![From].dock = <<>>, ![From].key = FALSE]

\* runLaneMoves, after the first full pull; the applied list is stored.
LaneMove(b) ==
    LET mine == IF space[From] = "live" THEN RowsMoved(store[b], clock + 1) ELSE store[b]
    IN  /\ Up(b) /\ page[b].started /\ page[b].hold
        /\ store' = [store EXCEPT ![b] = LayoutMoved(mine)]
        /\ clock' = IF mine = store[b] THEN clock ELSE clock + 1
        /\ space' = [space EXCEPT ![From] = "closed"]
        /\ page' = LET p == IF space[From] = "live" THEN AllScheduled ELSE page
                   IN  [p EXCEPT ![b].hold = FALSE, ![b].timer = TRUE]
        /\ UNCHANGED <<srow, edits, faults, closed, acked, entered>>

\* What a load finds in localStorage.
Reloaded(st) == st

\* The page goes, and later loads again, on the space `shown`, if on one; the
\* lane move of this browser ran at most once.
Leave(b, shown) ==
    /\ Up(b) /\ Acts
    /\ page' = [page EXCEPT ![b].up = FALSE, ![b].started = FALSE, ![b].timer = FALSE,
                            ![b].blank = shown]
    /\ UNCHANGED <<space, srow, store, clock, faults, closed, acked, entered>>

Load(b) ==
    /\ ~Up(b)
    /\ page' = [page EXCEPT ![b].up = TRUE, ![b].timer = TRUE]
    /\ store' = [store EXCEPT ![b] = Reloaded(@)]
    /\ UNCHANGED <<space, srow, clock, edits, faults, closed, acked, entered>>

\* The page mounts its dock: what it reads is what the space holds.
DockReady(b) ==
    /\ Up(b) /\ page[b].blank # {}
    /\ page' = [page EXCEPT ![b].blank = {}, ![b].timer = TRUE]
    /\ UNCHANGED <<space, srow, store, clock, edits, faults, closed, acked, entered>>

Init ==
    /\ space = [s \in Spaces |-> "live"]
    /\ srow = [s \in Spaces |-> NoRow]
    /\ \E shown \in [Browsers -> Blanks] :
          page = [b \in Browsers |-> [up |-> FALSE, started |-> FALSE, timer |-> FALSE,
                                      hold |-> Moves, blank |-> shown[b]]]
    /\ \E first \in Starts :
          store = [b \in Browsers |-> [s \in Spaces |->
                     [dock |-> IF s = From THEN first[b] ELSE <<>>,
                      key |-> s = From, row |-> NoRow, local |-> NoLocal, queued |-> FALSE]]]
    /\ clock = 0 /\ edits = 0 /\ faults = 0
    /\ closed = [b \in Browsers |-> [s \in Spaces |-> {}]]
    /\ acked = [b \in Browsers |-> [s \in Spaces |-> 0]]
    /\ entered = {}

System(b) ==
    \/ Load(b) \/ DockReady(b) \/ Pull(b) \/ LaneMove(b)
    \/ \E s \in Spaces : Post(b, s)
    \/ Reconcile(b, FALSE, {})

Next ==
    \/ \E b \in Browsers :
          \/ System(b) \/ \E shown \in Blanks : Leave(b, shown)
          \/ \E got \in SUBSET Members : Reconcile(b, TRUE, got)
          \/ \E s \in Spaces :
                DragTab(b, s) \/ \E m \in Members : OpenTab(b, s, m) \/ CloseTab(b, s, m)
    \/ \E s \in Spaces : CloseSpace(s) \/ ReopenSpace(s)

Spec == Init /\ [][Next]_vars

\* Timers fire, requests are retried until they succeed (HerderSync), and an
\* owner comes back to each browser.
FairSpec == Spec /\ \A b \in Browsers : WF_vars(System(b))

----------------------------------------------------------------------------
\* Properties.

\* "publishing now would overwrite the row with a dock that lacks it": a row a
\* browser writes drops from the row it knew only tabs its own user closed
\* since it last applied one.
DropsOnlyClosed ==
    [][\A b \in Browsers, s \in Spaces :
         LET was == store[b][s].row
             now == store'[b][s].row
         IN  now.ver = clock + 1 /\ ~now.deleted /\ ~was.deleted
               => InSeq(was.members) \ InSeq(now.members) \subseteq closed[b][s]]_vars

\* "a reload neither re-adds a tab the user closed": reconciliation opens a tab
\* only for a row newer than any this browser applied or wrote.
OpenedOnce ==
    [][\A b \in Browsers, s \in Spaces :
         ~(InSeq(store'[b][s].dock) \subseteq InSeq(store[b][s].dock))
           => \/ edits' # edits \/ page'[b].hold # page[b].hold
              \/ store[b][s].row.ver > acked[b][s]]_vars

\* "keeps two browsers with the same set in different orders from rewriting
\* each other forever": what browsers write is bounded by what users do, by the
\* layouts storage refused, and by one backfill of each space in each browser.
NoWriteLoop ==
    clock <= Cardinality(Browsers) * (Cardinality(Spaces) + 2 * edits) + edits + faults

\* The lane move loses no tab: what the old space's dock held is in the lane's,
\* unless the user had begun a dock there.
MoveKeepsDock ==
    [][\A b \in Browsers : page[b].hold /\ ~page'[b].hold /\ b \notin entered
         => InSeq(store[b][From].dock) \subseteq InSeq(store'[b][To].dock)]_vars

\* A row has reached every browser: each dock of a live space holds the members
\* of its row, if storage refused none of them.  From some point on it is so.
RowsOpened ==
    \A b \in Browsers, s \in Live :
        faults = 0 => InSeq(srow[s].members) \subseteq InSeq(store[b][s].dock)

\* The steps of reconciliation: what a browser writes drops only what its user
\* closed, a row is applied once, and the lane move loses no tab.
\* (spaceMembersModel.ts, spaceMembers.ts)
MembersSteps == DropsOnlyClosed /\ OpenedOnce /\ MoveKeepsDock

=============================================================================
