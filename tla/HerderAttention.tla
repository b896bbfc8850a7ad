--------------------------- MODULE HerderAttention ---------------------------
(***************************************************************************)
(* What the owner has read of one agent, in every browser of the herder web *)
(* client.  A browser holds one read marker per agent and shares it through *)
(* the server's last-write-wins store; a merge keeps the further read, and  *)
(* a browser that ends up ahead of the winning row writes it again.  A      *)
(* marker nobody made is seeded at the latest turn, as the weakest write.   *)
(*                                                                         *)
(* An agent looked at for the dwell is read.  A deliberate mark unread is   *)
(* held until the owner has left the agent and come back.                   *)
(*                                                                         *)
(* One agent; one page per browser.  React's effects run to quiescence      *)
(* after each event.  The sync is HerderSync's, down to what decides which  *)
(* rows are merged and which are sent; server rows are never purged.        *)
(***************************************************************************)
EXTENDS Integers, Sequences

CONSTANTS
    Browsers,  \* a set of numbers: the order of their write ids
    Shown,     \* those whose dock shows the agent as they load
    Ends,      \* the transcript's last entry as each turn ends: session and offset
    Silent,    \* the turns that end without text
    None,
    Budget     \* bound on looks, marks, reloads and failures


Turns == 0..Len(Ends)
Weak == 1

VARIABLES
    turns,   \* turns the agent has ended
    server,  \* the server's row, None before the first
    page,    \* every browser: its row, its sync and what its page shows
    spent

\* Time passes only from turn to turn: what a page does between two turns it
\* does at once, within positionWriteMs.
now == turns + 2

vars == <<turns, server, page, spent>>

Positions == {[session |-> Ends[i].session, offset |-> o] : i \in 1..Len(Ends), o \in 0..Ends[Len(Ends)].offset}
             \cup {Ends[i] : i \in 1..Len(Ends)} \cup {None}

Row == [turn : Turns, pos : Positions, at : Nat, unread : BOOLEAN, updated : Nat \ {0}, wid : Browsers]

ASSUME AttentionAssumption ==
    /\ Browsers \subseteq Nat /\ Shown \subseteq Browsers /\ Budget \in Nat
    /\ Ends \in Seq([session : STRING, offset : Nat])
    /\ \A i, j \in DOMAIN Ends :      \* a session's file only grows
         i <= j /\ Ends[i].session = Ends[j].session => Ends[i].offset <= Ends[j].offset
    /\ None \notin Row

Page == [row : Row \cup {None},
         queue : BOOLEAN,                \* the row waits to be sent
         behind : BOOLEAN,               \* the server has changed since the last pull
         full : BOOLEAN,                 \* no full pull has landed
         pulled : BOOLEAN,               \* the first pull has settled
         board : Turns,                  \* the turn on the page's board
         text : BOOLEAN,                 \* it has the transcript, as far as its board
         view : {"away", "viewed", "dwelled", "restoring"},
         armed : BOOLEAN,
         held : BOOLEAN]                 \* history: not left since the mark came

----------------------------------------------------------------------------
\* Markers.

\* comparePositions: q is further than p.
Further(q, qat, p, pat) ==
    /\ q # None
    /\ p = None \/ IF p.session = q.session THEN q.offset > p.offset ELSE qat > pat

Larger(m, n) == IF m >= n THEN m ELSE n

Newer(r, s) == r.updated > s.updated \/ (r.updated = s.updated /\ r.wid > s.wid)

Marker(r) == <<r.turn, r.pos, r.at, r.unread>>

\* Mutant: the newer row is taken as it is.
MergeMarkerRow_Newest(cur, inc) ==
    [row |-> IF cur = None \/ Newer(inc, cur) THEN inc ELSE cur, repair |-> FALSE]

\* Mutant: the further read is kept but not written again.
MergeMarkerRow_NoRepair(cur, inc) ==
    LET winner == IF cur = None \/ Newer(inc, cur) THEN inc ELSE cur
        loser == IF winner = inc THEN cur ELSE inc
    IN  [row |-> IF loser = None \/ winner.unread THEN winner
                 ELSE [winner EXCEPT !.turn = Larger(@, loser.turn)],
         repair |-> FALSE]

\* mergeMarkerRow.
MergeMarkerRow(cur, inc) ==
    LET incWins == Newer(inc, cur)
        winner == IF incWins THEN inc ELSE cur
        loser == IF incWins THEN cur ELSE inc
        merged == [winner EXCEPT
                     !.turn = Larger(@, loser.turn),
                     !.pos = IF Further(loser.pos, loser.at, @, winner.at) THEN loser.pos ELSE @,
                     !.at = Larger(@, loser.at)]
    IN  IF cur = None THEN [row |-> inc, repair |-> FALSE]
        ELSE IF (cur.updated = Weak) # (inc.updated = Weak)
        THEN [row |-> IF cur.updated = Weak THEN inc ELSE cur, repair |-> FALSE]
        ELSE IF winner.unread THEN [row |-> winner, repair |-> FALSE]
        ELSE [row |-> merged, repair |-> merged # winner]

\* The turn the board shows as ended with text, and as ended at all.
TurnEnd(k) == LET replies == {i \in 1..k : i \notin Silent}
              IN  IF replies = {} THEN 0 ELSE CHOOSE i \in replies : \A j \in replies : j <= i

\* readThrough: the marker after reading to the given turn and entry, the
\* one given when nothing changes or the entry only creeps within a tick.
NoMarker == [turn |-> 0, pos |-> None, at |-> 0, unread |-> FALSE]

ReadThrough(row, turn, latest, t) ==
    LET m == IF row = None THEN NoMarker ELSE row
        next == [turn |-> Larger(m.turn, turn),
                 pos |-> IF Further(latest, t, m.pos, m.at) THEN latest ELSE m.pos,
                 at |-> t, unread |-> FALSE]
        creeps == /\ m.pos # None /\ next.pos # None /\ m.pos.session = next.pos.session
                  /\ t = m.at
    IN  IF row # None /\ ~m.unread /\ next.turn = m.turn /\ (next.pos = m.pos \/ creeps)
        THEN [turn |-> m.turn, pos |-> m.pos, at |-> m.at, unread |-> m.unread]
        ELSE next

\* positionBefore the entry that opened the latest turn.
Before(pos) ==
    LET same == {i \in 1..Len(Ends) : Ends[i].session = pos.session /\ Ends[i].offset < pos.offset}
    IN  IF same = {} THEN [pos EXCEPT !.offset = 0]
        ELSE Ends[CHOOSE i \in same : \A j \in same : Ends[j].offset <= Ends[i].offset]

----------------------------------------------------------------------------
\* The store of browser b.

\* store.apply of marker m: an unchanged one is not written.
Applied(b, p, m, weak, t) ==
    LET row == [turn |-> m.turn, pos |-> m.pos, at |-> m.at, unread |-> m.unread,
                updated |-> IF weak /\ p.row = None THEN Weak
                            ELSE Larger(t, IF p.row = None THEN 1 ELSE p.row.updated + 1),
                wid |-> b]
    IN  IF p.row # None /\ (weak \/ Marker(p.row) = Marker(row)) THEN p
        ELSE [p EXCEPT !.row = row, !.queue = TRUE]

\* store.merge of the server's row, as pullOnce hands it over: a repair is
\* written again once the pull has settled.
Merged(b, p, remote, t) ==
    LET m == MergeMarkerRow(p.row, remote)
        row == IF m.repair THEN [m.row EXCEPT !.updated = Larger(t, @ + 1), !.wid = b] ELSE m.row
    IN  [p EXCEPT !.row = row, !.queue = m.repair \/ (@ /\ Newer(row, remote))]

\* Mutant: a mark arms without waiting for the dock.
NextArmed_NotReady(p) == p.row # None /\ p.row.unread /\ (p.armed \/ p.view \in {"away", "restoring"})

\* nextArmed: a mark arms once its agent is seen not viewed.
NextArmed(p) == p.row # None /\ p.row.unread /\ (p.armed \/ p.view = "away")

\* The read effect: seed an agent with no marker, read one looked at.
Seen(p) == TurnEnd(p.board)
Latest(p) == IF p.text /\ p.board > 0 THEN Ends[p.board] ELSE None

Seeded(b, p, t) ==
    IF p.pulled /\ p.row = None /\ p.board > 0
    THEN Applied(b, p, [NoMarker EXCEPT !.turn = p.board], TRUE, t)
    ELSE p

Looked(b, p, t) ==
    IF p.view = "dwelled" /\ (p.row = None \/ ~p.row.unread \/ p.armed)
    THEN Applied(b, p, ReadThrough(p.row, Seen(p), Latest(p), t), FALSE, t)
    ELSE p

----------------------------------------------------------------------------

NewPage == [row |-> None, queue |-> FALSE, behind |-> FALSE, full |-> TRUE, pulled |-> FALSE,
            board |-> 0, text |-> FALSE, view |-> "restoring", armed |-> FALSE, held |-> FALSE]

Init ==
    /\ turns = 0
    /\ server = None
    /\ page = [b \in Browsers |-> [NewPage EXCEPT !.view = IF b \in Shown THEN @ ELSE "away"]]
    /\ spent = 0

Spends == spent < Budget /\ spent' = spent + 1

\* An event at browser b that leaves its page as p: marks arm, and the read
\* effect runs if one of its inputs changed, each step on the last one's page.
Event(b, p, changed) ==
    \E armed \in {[p EXCEPT !.armed = NextArmed(p)]} :
    \E seeded \in {IF changed \/ armed.armed # p.armed THEN Seeded(b, armed, now) ELSE armed} :
    \E done \in {IF changed \/ armed.armed # p.armed THEN Looked(b, seeded, now) ELSE seeded} :
        /\ page' = [page EXCEPT ![b] =
                      [done EXCEPT !.armed = NextArmed(done),
                                   !.held = /\ done.row # None /\ done.row.unread /\ done.view # "away"
                                            /\ @ \/ page[b].row = None \/ ~page[b].row.unread]]
        /\ UNCHANGED <<turns, server>>

\* The owner writes marker m.
Writes(b, p, m) ==
    \E done \in {Applied(b, p, m, FALSE, now)} :
        /\ page' = [page EXCEPT ![b] = [done EXCEPT !.armed = NextArmed(done),
                                                   !.held = @ /\ done.row.unread]]
        /\ UNCHANGED <<turns, server>>

TurnEnds ==
    /\ turns < Len(Ends)
    /\ turns' = turns + 1
    /\ UNCHANGED <<server, page, spent>>

----------------------------------------------------------------------------
\* What a page shows.

BoardArrives(b) ==
    /\ page[b].board # turns
    /\ Event(b, [page[b] EXCEPT !.board = turns], TRUE)
    /\ UNCHANGED spent

\* The agent's panel gets the focus, keeps it for the dwell and until its
\* transcript has loaded, and loses it.
View(b) ==
    /\ page[b].view = "away" /\ Spends
    /\ Event(b, [page[b] EXCEPT !.view = "viewed"], TRUE)

Dwell(b) ==
    /\ page[b].view = "viewed"
    /\ Event(b, [page[b] EXCEPT !.view = "dwelled", !.text = TRUE], TRUE)
    /\ UNCHANGED spent

Leave(b) ==
    /\ page[b].view \in {"viewed", "dwelled"}
    /\ Event(b, [page[b] EXCEPT !.view = "away"], TRUE)
    /\ UNCHANGED spent

\* The page is reloaded, as it is loaded first, over a dock that shows the
\* agent unless it was left: the row and the queue are in its storage.  A panel
\* that was viewed is viewed again once the dock is ready.
Reload(b) ==
    /\ Spends
    /\ page' = [page EXCEPT ![b] = [NewPage EXCEPT
                    !.row = page[b].row, !.queue = page[b].queue, !.held = page[b].held,
                    !.view = IF page[b].view = "away" THEN "away" ELSE "restoring",
                    !.armed = page[b].view = "away" /\ page[b].row # None /\ page[b].row.unread]]
    /\ UNCHANGED <<turns, server>>

DockReady(b) ==
    /\ page[b].view = "restoring"
    /\ Event(b, [page[b] EXCEPT !.view = "viewed"], TRUE)
    /\ UNCHANGED spent

----------------------------------------------------------------------------
\* What the owner does.

\* markUnread: from the latest turn's start when its transcript is loaded.
MarkUnread(b) ==
    LET p == page[b]
        m == IF p.row = None THEN NoMarker ELSE p.row
        pos == IF Latest(p) = None THEN m.pos ELSE Before(Latest(p))
    IN  /\ Spends
        /\ Writes(b, [p EXCEPT !.armed = FALSE, !.held = p.view # "away"],
                  [turn |-> m.turn, pos |-> pos, at |-> m.at, unread |-> TRUE])

\* agentUnread, markReadUpdates.
Unread(p) == p.row # None /\ (p.row.unread \/ Seen(p) > p.row.turn)

MarkRead(b) ==
    LET p == page[b]
    IN  /\ Unread(p) /\ Spends
        /\ Writes(b, p, ReadThrough(p.row, Seen(p), Latest(p), now))

----------------------------------------------------------------------------
\* Sync.

\* A pull lands.  A full one queues the row the server lacks or holds older.
Pull(b) ==
    /\ page[b].behind \/ page[b].full
    /\ \E merged \in {IF server = None THEN page[b] ELSE Merged(b, page[b], server, now)} :
          LET sends == merged.full /\ merged.row # None /\ (server = None \/ Newer(merged.row, server))
          IN  Event(b, [merged EXCEPT !.queue = @ \/ sends, !.behind = FALSE, !.full = FALSE, !.pulled = TRUE],
                    ~merged.pulled)
    /\ UNCHANGED spent

\* The first pull fails: it is retried, and the page goes on without it.
FirstPullFails(b) ==
    /\ ~page[b].pulled /\ Spends
    /\ Event(b, [page[b] EXCEPT !.pulled = TRUE], TRUE)

\* A post lands: the server keeps the newer row.
Post(b) ==
    LET row == page[b].row
        stored == server = None \/ Newer(row, server)
    IN  /\ page[b].queue /\ row # None
        /\ server' = IF stored THEN row ELSE server
        /\ page' = [x \in Browsers |-> [page[x] EXCEPT
                       !.queue = @ /\ x # b,
                       !.behind = @ \/ stored]]
        /\ UNCHANGED <<turns, spent>>

Owner(b) == View(b) \/ Leave(b) \/ MarkUnread(b) \/ MarkRead(b) \/ Reload(b)
Faults(b) == FirstPullFails(b)

\* What the stream, the timers and the sync do by themselves.
Works(b) == BoardArrives(b) \/ Dwell(b) \/ DockReady(b) \/ Pull(b) \/ Post(b)

Next == TurnEnds \/ \E b \in Browsers : Owner(b) \/ Faults(b) \/ Works(b)

Spec == Init /\ [][Next]_vars

----------------------------------------------------------------------------

TypeOK ==
    /\ turns \in Turns /\ spent \in 0..Budget
    /\ server \in Row \cup {None}
    /\ page \in [Browsers -> Page]

\* Marker s has not been put back from r: it is a mark, or r was a seed, or
\* it has read as far.
KeepsRead(r, s) ==
    (r # None /\ s # None /\ r.updated # Weak /\ ~s.unread) =>
        s.turn >= r.turn /\ ~Further(r.pos, r.at, s.pos, s.at)

\* Reading never moves backward, in a browser or on the server's row as the
\* browsers merge it: only a deliberate mark unread, or a real row in place
\* of a seed, may put a marker back.
ReadNeverRewound == [][\A b \in Browsers : KeepsRead(page[b].row, page'[b].row)]_vars

\* A mark unread stays while the owner keeps looking at the agent, a reload
\* included: the dwell clears it only after they have left and come back.
MarkHeld ==
    [][\A b \in Browsers :
         (page[b].held /\ ~(MarkRead(b) \/ Pull(b))) => page'[b].row.unread]_vars

\* Once nothing waits to be sent or pulled, every browser and the server
\* hold the same marker, whoever was ahead.
Converged ==
    (\A b \in Browsers : ~(page[b].queue \/ page[b].behind \/ page[b].full)) =>
        \A b \in Browsers : page[b].row = server

=============================================================================
