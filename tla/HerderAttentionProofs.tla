------------------------ MODULE HerderAttentionProofs ------------------------
(***************************************************************************)
(* Browsers that have heard all agree on what is read, a mark unread holds  *)
(* and what is read stays read: proofs about HerderAttention.               *)
(*                                                                         *)
(* The one fact behind the agreement is that a stamp names a row: every     *)
(* browser stamps its own writes past its own row, and what it takes over   *)
(* or merges never stamps lower.  So rows neither of which is newer are     *)
(* the same row, and a browser with nothing to send holds a row that is not *)
(* newer than the server's, one with nothing to pull a row not older.       *)
(*                                                                         *)
(* Reading puts nothing back because a page reads only up to an entry its   *)
(* own board tells of: one that waits for its first pull holds no read past *)
(* that, and once it has pulled, what it reads it compares with its row.    *)
(***************************************************************************)
EXTENDS HerderAttention, NaturalsInduction, WellFoundedInduction, TLAPS

USE DEF Weak

Mark == [turn : Turns, pos : Positions, at : Nat, unread : BOOLEAN]

Rows == ({server} \cup {page[b].row : b \in Browsers}) \ {None}

\* No two different rows carry one stamp, and no row carries a browser's stamp
\* past the one that browser holds.
Unique ==
    /\ \A r, s \in Rows : r.updated = s.updated /\ r.wid = s.wid => r = s
    /\ \A r \in Rows : page[r.wid].row # None /\ r.updated <= page[r.wid].row.updated

\* A browser with nothing to send holds nothing the server does not.
Sent ==
    \A b \in Browsers :
        ~page[b].full /\ ~page[b].queue /\ page[b].row # None
        => server # None /\ ~Newer(page[b].row, server)

\* A browser with nothing to pull holds all the server does.
Heard ==
    \A b \in Browsers :
        ~page[b].full /\ ~page[b].behind /\ server # None
        => page[b].row # None /\ ~Newer(server, page[b].row)

\* Only a mark is armed, and one is not while its agent is looked at still.
Calm(p) ==
    /\ p.armed => p.row # None /\ p.row.unread
    /\ p.held => p.row # None /\ p.row.unread /\ ~p.armed /\ p.view # "away"

Armed == \A b \in Browsers : Calm(page[b])

Inv == TypeOK /\ Unique /\ Sent /\ Heard /\ Armed

----------------------------------------------------------------------------
\* Types.

\* A nonempty set of numbers up to a bound has a highest one.
LEMMA HasHighest ==
  ASSUME NEW n \in Nat, NEW S, S \subseteq 0..n, S # {}
  PROVE  \E g \in S : \A h \in S : h <= g
<1> DEFINE T == {n - g : g \in S}
<1>1. T \subseteq Nat /\ T # {}
  <2>1. ASSUME NEW g \in S PROVE n - g \in Nat
    BY 0..n \subseteq Nat
  <2>2. PICK g \in S : TRUE
    OBVIOUS
  <2>3. n - g \in T
    OBVIOUS
  <2> QED BY <2>1, <2>3
<1>2. PICK x \in T : \A y \in T : ~ (<<y, x>> \in OpToRel(<, Nat))
  BY <1>1, WFMin, NatLessThanWellFounded
<1>3. \A y \in T : ~ (y < x)
  BY <1>1, <1>2 DEF OpToRel
<1>4. PICK g \in S : x = n - g
  OBVIOUS
<1>5. ASSUME NEW h \in S PROVE h <= g
  <2>1. n - h \in T
    OBVIOUS
  <2> QED BY <2>1, <1>3, <1>4
<1> QED BY <1>5

LEMMA EndFacts ==
  /\ Len(Ends) \in Nat /\ Turns = 0..Len(Ends) /\ Turns \subseteq Nat
  /\ \A i \in 1..Len(Ends) : Ends[i] \in [session : STRING, offset : Nat] /\ Ends[i] \in Positions
  /\ None \in Positions
  /\ Browsers \subseteq Nat
<1> DEFINE Entry == [session : STRING, offset : Nat]
<1>1. Ends \in Seq(Entry)
  BY AttentionAssumption
<1>2. Len(Ends) \in Nat /\ \A i \in 1..Len(Ends) : Ends[i] \in Entry
  <2> HIDE DEF Entry
  <2> QED BY <1>1
<1> QED BY <1>2, AttentionAssumption DEF Turns, Positions

\* The turn read by looking is one that ended.
LEMMA TurnEndType ==
  ASSUME NEW k \in Turns
  PROVE  TurnEnd(k) \in Turns
<1> DEFINE replies == {i \in 1..k : i \notin Silent}
<1>1. k \in Nat
  BY EndFacts
<1>2. CASE replies = {}
  BY <1>2, EndFacts DEF TurnEnd
<1>3. CASE replies # {}
  <2>1. replies \subseteq 0..k
    BY <1>1
  <2>2. \E i \in replies : \A j \in replies : j <= i
    BY <2>1, <1>1, <1>3, HasHighest
  <2>3. (CHOOSE i \in replies : \A j \in replies : j <= i) \in replies
    BY <2>2
  <2>4. replies \subseteq Turns
    BY <1>1, EndFacts
  <2> QED BY <1>3, <2>3, <2>4 DEF TurnEnd
<1> QED BY <1>2, <1>3

\* Marking unread puts the position back to one of the transcript's.
LEMMA BeforeType ==
  ASSUME NEW k \in 1..Len(Ends)
  PROVE  Before(Ends[k]) \in Positions
<1> DEFINE pos == Ends[k]
           same == {i \in 1..Len(Ends) : Ends[i].session = pos.session /\ Ends[i].offset < pos.offset}
<1>1. pos \in [session : STRING, offset : Nat] /\ Len(Ends) \in Nat
  BY EndFacts
<1>2. CASE same = {}
  <2>1. Before(pos) = [pos EXCEPT !.offset = 0]
    BY <1>2 DEF Before
  <2>2. [pos EXCEPT !.offset = 0] = [session |-> Ends[k].session, offset |-> 0]
    BY <1>1
  <2>3. Len(Ends) \in 1..Len(Ends)
    BY <1>1
  <2>4. 0 \in 0..Ends[Len(Ends)].offset
    BY <2>3, EndFacts
  <2> QED BY <2>1, <2>2, <2>4 DEF Positions
<1>3. CASE same # {}
  <2> DEFINE offsets == {Ends[i].offset : i \in same}
  <2>1. offsets \subseteq 0..pos.offset
    <3>1. ASSUME NEW i \in same PROVE Ends[i].offset \in 0..pos.offset
      <4>1. Ends[i].offset \in Nat /\ Ends[i].offset < pos.offset
        BY EndFacts
      <4> QED BY <4>1, <1>1
    <3> QED BY <3>1
  <2>2. offsets # {}
    BY <1>3
  <2>3. pos.offset \in Nat
    BY <1>1
  <2>4. PICK o \in offsets : \A p \in offsets : p <= o
    BY <2>1, <2>2, <2>3, HasHighest
  <2>5. PICK i \in same : o = Ends[i].offset
    BY <2>4
  <2>6. \A j \in same : Ends[j].offset <= Ends[i].offset
    BY <2>4, <2>5
  <2>7. (CHOOSE x \in same : \A j \in same : Ends[j].offset <= Ends[x].offset) \in same
    BY <2>6
  <2>8. Before(pos) = Ends[CHOOSE x \in same : \A j \in same : Ends[j].offset <= Ends[x].offset]
    BY <1>3 DEF Before
  <2> QED BY <2>7, <2>8, EndFacts
<1> QED BY <1>2, <1>3

----------------------------------------------------------------------------
\* What a browser does to its own row.

\* s is a row that b writes over r.
Fresh(b, r, s) == s \in Row /\ s.wid = b /\ (r # None => s.updated > r.updated)

\* From page p to page q, browser b has written or kept its row.
Steps(b, p, q) ==
    /\ q \in Page
    /\ q.behind = p.behind /\ q.full = p.full /\ q.view = p.view
    /\ \/ q.row = p.row /\ q.queue = p.queue
       \/ q.queue /\ Fresh(b, p.row, q.row)

LEMMA RowFacts ==
  ASSUME NEW r \in Row
  PROVE  /\ r # None
         /\ r.turn \in Turns /\ r.pos \in Positions /\ r.at \in Nat /\ r.unread \in BOOLEAN
         /\ r.updated \in Nat /\ r.updated > 0 /\ r.wid \in Browsers /\ r.wid \in Nat
<1>1. r # None
  BY AttentionAssumption
<1>2. r.turn \in Turns /\ r.pos \in Positions /\ r.at \in Nat /\ r.wid \in Browsers
  BY DEF Row
<1>3. r.unread \in BOOLEAN
  BY DEF Row
<1>4. r.updated \in Nat /\ r.updated # 0
  BY DEF Row
<1>5. r.updated > 0
  BY <1>4
<1>6. r.wid \in Nat
  <2>1. Browsers \subseteq Nat
    BY AttentionAssumption
  <2> QED BY <1>2, <2>1
<1> QED BY <1>1, <1>2, <1>3, <1>4, <1>5, <1>6

LEMMA StepsTransitive ==
  ASSUME NEW b, NEW p \in Page, NEW q, NEW r, Steps(b, p, q), Steps(b, q, r)
  PROVE  Steps(b, p, r)
<1>1. r \in Page /\ r.behind = p.behind /\ r.full = p.full /\ r.view = p.view
  BY DEF Steps
<1>2. CASE r.row = q.row /\ r.queue = q.queue
  BY <1>1, <1>2 DEF Steps
<1>3. CASE r.queue /\ Fresh(b, q.row, r.row)
  <2>1. CASE q.row = p.row
    BY <2>1, <1>1, <1>3 DEF Steps
  <2>2. CASE Fresh(b, p.row, q.row)
    <3>1. q.row \in Row /\ r.row \in Row /\ q.row # None
      BY <2>2, <1>3, RowFacts DEF Fresh
    <3>2. q.row.updated \in Nat /\ r.row.updated \in Nat /\ r.row.updated > q.row.updated
      BY <3>1, <1>3, RowFacts DEF Fresh
    <3>3. ASSUME p.row # None PROVE r.row.updated > p.row.updated
      <4>1. p.row \in Row
        BY <3>3 DEF Page
      <4>2. p.row.updated \in Nat /\ q.row.updated > p.row.updated
        BY <4>1, <2>2, <3>3, RowFacts DEF Fresh
      <4> QED BY <4>2, <3>2
    <3>4. Fresh(b, p.row, r.row)
      BY <3>1, <3>3, <1>3 DEF Fresh
    <3> QED BY <3>4, <1>1, <1>3 DEF Steps
  <2> QED BY <2>1, <2>2 DEF Steps
<1> QED BY <1>2, <1>3 DEF Steps

\* Reading writes a marker that is not a mark unread.
LEMMA ReadThroughType ==
  ASSUME NEW row \in Row \cup {None}, NEW turn \in Turns, NEW latest \in Positions, NEW t \in Nat
  PROVE  /\ ReadThrough(row, turn, latest, t) \in Mark
         /\ ~ReadThrough(row, turn, latest, t).unread
<1> DEFINE m == IF row = None THEN NoMarker ELSE row
           next == [turn |-> Larger(m.turn, turn),
                    pos |-> IF Further(latest, t, m.pos, m.at) THEN latest ELSE m.pos,
                    at |-> t, unread |-> FALSE]
           same == [turn |-> m.turn, pos |-> m.pos, at |-> m.at, unread |-> m.unread]
<1>1. m.turn \in Turns /\ m.pos \in Positions /\ m.at \in Nat /\ m.unread \in BOOLEAN
  <2>1. CASE row = None
    <3>1. 0 \in Turns
      BY EndFacts
    <3> QED BY <2>1, <3>1, EndFacts DEF NoMarker
  <2>2. CASE row # None
    BY <2>2, RowFacts
  <2> QED BY <2>1, <2>2
<1>2. Larger(m.turn, turn) \in Turns
  BY <1>1 DEF Larger
<1>3. next \in Mark
  BY <1>1, <1>2 DEF Mark
<1>4. same \in Mark
  BY <1>1 DEF Mark
<1>5. \/ ReadThrough(row, turn, latest, t) = next
      \/ ReadThrough(row, turn, latest, t) = same /\ ~m.unread
  BY DEF ReadThrough
<1>6. ~next.unread
  OBVIOUS
<1>7. same.unread = m.unread
  OBVIOUS
<1> HIDE DEF next, same
<1> QED BY <1>3, <1>4, <1>5, <1>6, <1>7

LEMMA SeenTypes ==
  ASSUME NEW p \in Page
  PROVE  Seen(p) \in Turns /\ Latest(p) \in Positions
<1>1. p.board \in Turns
  BY DEF Page
<1>2. p.board > 0 => p.board \in 1..Len(Ends)
  BY <1>1, EndFacts
<1> QED BY <1>1, <1>2, TurnEndType, EndFacts DEF Seen, Latest

\* A write goes past the row there is, and waits to be sent.
LEMMA AppliedSteps ==
  ASSUME NEW b \in Browsers, NEW p \in Page, NEW m \in Mark, NEW weak \in BOOLEAN,
         NEW t \in Nat, t > 1
  PROVE  /\ Steps(b, p, Applied(b, p, m, weak, t))
         /\ Applied(b, p, m, weak, t).armed = p.armed
         /\ Applied(b, p, m, weak, t).held = p.held
         /\ Applied(b, p, m, weak, t).row # None
         /\ \/ Applied(b, p, m, weak, t).row.unread = m.unread
            \/ weak /\ Applied(b, p, m, weak, t).row = p.row
<1> DEFINE stamp == IF weak /\ p.row = None THEN 1
                    ELSE Larger(t, IF p.row = None THEN 1 ELSE p.row.updated + 1)
           row == [turn |-> m.turn, pos |-> m.pos, at |-> m.at, unread |-> m.unread,
                   updated |-> stamp, wid |-> b]
           q == [p EXCEPT !.row = row, !.queue = TRUE]
<1>1. p.row \in Row \cup {None}
  BY DEF Page
<1>2. stamp \in Nat \ {0} /\ (p.row # None => stamp > p.row.updated)
  <2>1. CASE p.row = None
    BY <2>1 DEF Larger
  <2>2. CASE p.row # None
    <3>1. p.row.updated \in Nat
      BY <2>2, <1>1, RowFacts
    <3> QED BY <3>1, <2>2 DEF Larger
  <2> QED BY <2>1, <2>2
<1>3. row \in Row
  <2> HIDE DEF stamp
  <2> QED BY <1>2 DEF Row, Mark
<1>4. Fresh(b, p.row, row) /\ row.unread = m.unread /\ row # None
  <2>1. row.wid = b /\ row.updated = stamp /\ row.unread = m.unread
    OBVIOUS
  <2> HIDE DEF stamp, row
  <2> QED BY <2>1, <1>2, <1>3, RowFacts DEF Fresh
<1>5. \/ Applied(b, p, m, weak, t) = p /\ p.row # None /\ (weak \/ Marker(p.row) = Marker(row))
      \/ Applied(b, p, m, weak, t) = q
  BY DEF Applied
<1>6. CASE Applied(b, p, m, weak, t) = p /\ p.row # None /\ (weak \/ Marker(p.row) = Marker(row))
  <2>1. Marker(p.row) = Marker(row) => p.row.unread = m.unread
    BY DEF Marker
  <2>2. Steps(b, p, p)
    BY DEF Steps
  <2> HIDE DEF row
  <2> QED BY <1>6, <2>1, <2>2
<1>7. CASE Applied(b, p, m, weak, t) = q
  <2>1. /\ q.row = row /\ q.queue = TRUE /\ q.behind = p.behind /\ q.full = p.full
        /\ q.view = p.view /\ q.armed = p.armed /\ q.held = p.held
    <3> HIDE DEF row
    <3> QED BY DEF Page
  <2>2. q \in Page
    <3> HIDE DEF row
    <3> QED BY <1>3 DEF Page
  <2> HIDE DEF row, q
  <2> QED BY <1>4, <1>7, <2>1, <2>2 DEF Steps
<1> HIDE DEF row, q
<1> QED BY <1>5, <1>6, <1>7

----------------------------------------------------------------------------
\* Merging.

\* The order of the stamps.
LEMMA NewerFacts ==
  ASSUME NEW r \in Row, NEW s \in Row
  PROVE  /\ ~Newer(r, r)
         /\ Newer(r, s) => ~Newer(s, r) /\ r.updated >= s.updated
         /\ ~Newer(r, s) => s.updated >= r.updated
         /\ ~Newer(r, s) /\ ~Newer(s, r) => r.updated = s.updated /\ r.wid = s.wid
<1>1. r.updated \in Nat /\ s.updated \in Nat
  BY RowFacts
<1>2. r.wid \in Nat /\ s.wid \in Nat
  BY RowFacts
<1> QED BY <1>1, <1>2 DEF Newer

LEMMA NewerTransitive ==
  ASSUME NEW r \in Row, NEW s \in Row, NEW u \in Row, ~Newer(r, s), Newer(u, s)
  PROVE  ~Newer(r, u)
<1>1. r.updated \in Nat /\ s.updated \in Nat /\ u.updated \in Nat
  BY RowFacts
<1>2. r.wid \in Nat /\ s.wid \in Nat /\ u.wid \in Nat
  BY RowFacts
<1> QED BY <1>1, <1>2 DEF Newer

\* A merge takes the newer of the two rows, or a further read in its place,
\* which is to be written again.
LEMMA MergeOutcome ==
  ASSUME NEW cur \in Row \cup {None}, NEW inc \in Row
  PROVE  LET m == MergeMarkerRow(cur, inc)
         IN  \/ /\ m.repair = FALSE /\ m.row \in {cur, inc} /\ m.row # None
                /\ ~Newer(inc, m.row)
                /\ cur # None => ~Newer(cur, m.row)
             \/ /\ m.repair = TRUE /\ m.row \in Row
                /\ m.row.updated >= inc.updated
                /\ cur # None => m.row.updated >= cur.updated
<1> DEFINE incWins == Newer(inc, cur)
           winner == IF incWins THEN inc ELSE cur
           loser == IF incWins THEN cur ELSE inc
           turn == Larger(winner.turn, loser.turn)
           pos == IF Further(loser.pos, loser.at, winner.pos, winner.at) THEN loser.pos ELSE winner.pos
           at == Larger(winner.at, loser.at)
           merged == [winner EXCEPT !.turn = turn, !.pos = pos, !.at = at]
           m == MergeMarkerRow(cur, inc)
<1>1. inc # None /\ ~Newer(inc, inc) /\ inc.updated \in Nat /\ inc.updated > 0
  BY RowFacts, NewerFacts
<1>2. CASE cur = None
  <2>1. m = [row |-> inc, repair |-> FALSE]
    BY <1>2 DEF MergeMarkerRow
  <2> QED BY <2>1, <1>1, <1>2
<1> SUFFICES ASSUME cur # None
             PROVE  \/ /\ m.repair = FALSE /\ m.row \in {cur, inc} /\ m.row # None
                       /\ ~Newer(inc, m.row) /\ ~Newer(cur, m.row)
                    \/ /\ m.repair = TRUE /\ m.row \in Row
                       /\ m.row.updated >= inc.updated /\ m.row.updated >= cur.updated
  BY <1>2
<1>3. cur \in Row /\ ~Newer(cur, cur) /\ cur.updated \in Nat /\ cur.updated > 0
  BY RowFacts, NewerFacts
<1>4. /\ winner \in Row /\ loser \in Row /\ {winner, loser} = {cur, inc}
      /\ ~Newer(cur, winner) /\ ~Newer(inc, winner)
      /\ winner.updated >= cur.updated /\ winner.updated >= inc.updated
  BY <1>1, <1>3, NewerFacts
<1>5. CASE (cur.updated = Weak) # (inc.updated = Weak)
  <2>1. m = [row |-> IF cur.updated = Weak THEN inc ELSE cur, repair |-> FALSE]
    BY <1>5 DEF MergeMarkerRow
  <2>2. CASE cur.updated = Weak
    <3>1. ~Newer(cur, inc)
      BY <1>1, <1>3, <1>5, <2>2 DEF Newer
    <3> QED BY <2>1, <2>2, <3>1, <1>1
  <2>3. CASE cur.updated # Weak
    <3>1. ~Newer(inc, cur)
      BY <1>1, <1>3, <1>5, <2>3 DEF Newer
    <3> QED BY <2>1, <2>3, <3>1, <1>3
  <2> QED BY <2>2, <2>3
<1>6. CASE ~((cur.updated = Weak) # (inc.updated = Weak)) /\ winner.unread
  <2>1. m = [row |-> winner, repair |-> FALSE]
    BY <1>6 DEF MergeMarkerRow
  <2>2. winner \in {cur, inc} /\ winner # None
    BY <1>4, RowFacts
  <2> HIDE DEF winner, loser
  <2> QED BY <2>1, <2>2, <1>4
<1>7. CASE ~((cur.updated = Weak) # (inc.updated = Weak)) /\ ~winner.unread
  <2>1. m = [row |-> merged, repair |-> merged # winner]
    BY <1>7 DEF MergeMarkerRow
  <2>2. m.row = merged /\ (m.repair <=> merged # winner) /\ m.repair \in BOOLEAN
    <3> HIDE DEF merged, m
    <3> QED BY <2>1
  <2>3. winner \in {cur, inc} /\ winner # None
    BY <1>4, RowFacts
  <2>4. turn \in Turns /\ pos \in Positions /\ at \in Nat
    <3> HIDE DEF winner, loser
    <3>1. /\ winner.turn \in Turns /\ winner.pos \in Positions /\ winner.at \in Nat
          /\ loser.turn \in Turns /\ loser.pos \in Positions /\ loser.at \in Nat
      BY <1>4, RowFacts
    <3> QED BY <3>1 DEF Larger
  <2>5. merged \in Row /\ merged.updated = winner.updated
    <3> HIDE DEF winner, loser, turn, pos, at
    <3> QED BY <2>4, <1>4 DEF Row
  <2> HIDE DEF winner, loser, merged, m
  <2>6. CASE merged = winner
    BY <2>2, <2>3, <2>6, <1>4
  <2>7. CASE merged # winner
    BY <2>2, <2>5, <2>7, <1>4
  <2> QED BY <2>6, <2>7
<1> HIDE DEF winner, loser, m
<1> QED BY <1>5, <1>6, <1>7

\* What a pulled row does to a page.
LEMMA MergedSteps ==
  ASSUME NEW b \in Browsers, NEW p \in Page, NEW inc \in Row, NEW t \in Nat
  PROVE  LET q == Merged(b, p, inc, t)
         IN  /\ q \in Page
             /\ q.behind = p.behind /\ q.full = p.full /\ q.view = p.view
             /\ q.armed = p.armed /\ q.held = p.held /\ q.pulled = p.pulled
             /\ q.row # None /\ ~Newer(inc, q.row)
             /\ p.row # None => ~Newer(p.row, q.row)
             /\ \/ q.row \in {p.row, inc} /\ q.queue = (p.queue /\ Newer(q.row, inc))
                \/ q.queue /\ Fresh(b, p.row, q.row) /\ Fresh(b, inc, q.row)
<1> DEFINE m == MergeMarkerRow(p.row, inc)
           row == IF m.repair THEN [m.row EXCEPT !.updated = Larger(t, @ + 1), !.wid = b] ELSE m.row
           q == Merged(b, p, inc, t)
<1> SUFFICES /\ q \in Page
             /\ q.behind = p.behind /\ q.full = p.full /\ q.view = p.view
             /\ q.armed = p.armed /\ q.held = p.held /\ q.pulled = p.pulled
             /\ q.row # None /\ ~Newer(inc, q.row)
             /\ p.row # None => ~Newer(p.row, q.row)
             /\ \/ q.row \in {p.row, inc} /\ q.queue = (p.queue /\ Newer(q.row, inc))
                \/ q.queue /\ Fresh(b, p.row, q.row) /\ Fresh(b, inc, q.row)
  OBVIOUS
<1>1. q = [p EXCEPT !.row = row, !.queue = m.repair \/ (@ /\ Newer(row, inc))]
  BY DEF Merged
<1>2. p.row \in Row \cup {None} /\ p.queue \in BOOLEAN
  BY DEF Page
<1>3. Newer(row, inc) \in BOOLEAN
  BY DEF Newer
<1>4. m.repair \in BOOLEAN
  BY <1>2, MergeOutcome
<1>5. inc \in Row /\ inc # None /\ inc.updated \in Nat
  BY RowFacts
<1>6. CASE m.repair
  <2>1. /\ m.row \in Row /\ m.row.updated >= inc.updated
        /\ p.row # None => m.row.updated >= p.row.updated
    BY <1>2, <1>6, MergeOutcome
  <2> DEFINE stamp == Larger(t, m.row.updated + 1)
  <2>2. m.row.updated \in Nat
    BY <2>1, RowFacts
  <2>3. stamp \in Nat \ {0} /\ stamp > m.row.updated
    BY <2>2 DEF Larger
  <2>4. row = [m.row EXCEPT !.updated = stamp, !.wid = b]
    BY <1>6
  <2> HIDE DEF m, stamp, row
  <2>5. row \in Row /\ row.updated = stamp /\ row.wid = b
    BY <2>1, <2>3, <2>4 DEF Row
  <2>6. Fresh(b, inc, row)
    BY <2>1, <2>2, <2>3, <2>5, <1>5 DEF Fresh
  <2>7. Fresh(b, p.row, row)
    <3>1. ASSUME p.row # None PROVE row.updated > p.row.updated
      <4>1. p.row.updated \in Nat
        BY <3>1, <1>2, RowFacts
      <4> QED BY <4>1, <3>1, <2>1, <2>2, <2>3, <2>5
    <3> QED BY <3>1, <2>5 DEF Fresh
  <2>8. row # None
    BY <2>5, RowFacts
  <2>9. ~Newer(inc, row) /\ (p.row # None => ~Newer(p.row, row))
    <3>1. ~Newer(inc, row)
      BY <2>6, <2>5, <2>3, <1>5 DEF Newer, Fresh
    <3>2. ASSUME p.row # None PROVE ~Newer(p.row, row)
      <4>1. p.row.updated \in Nat
        BY <3>2, <1>2, RowFacts
      <4> QED BY <4>1, <3>2, <2>7, <2>5, <2>3 DEF Newer, Fresh
    <3> QED BY <3>1, <3>2
  <2>10. q = [p EXCEPT !.row = row, !.queue = TRUE]
    BY <1>1, <1>6
  <2> HIDE DEF q
  <2>11. q.row = row /\ q.queue = TRUE /\ q.behind = p.behind /\ q.full = p.full
        /\ q.view = p.view /\ q.armed = p.armed /\ q.held = p.held /\ q.pulled = p.pulled
    BY <2>10 DEF Page
  <2>12. q \in Page
    BY <2>10, <2>5 DEF Page
  <2> QED BY <2>6, <2>7, <2>8, <2>9, <2>11, <2>12
<1>7. CASE ~m.repair
  <2>1. /\ m.row \in {p.row, inc} /\ m.row # None /\ ~Newer(inc, m.row)
        /\ p.row # None => ~Newer(p.row, m.row)
    BY <1>2, <1>7, MergeOutcome
  <2>2. row = m.row
    BY <1>7
  <2> HIDE DEF m, row
  <2>3. q = [p EXCEPT !.row = row, !.queue = p.queue /\ Newer(row, inc)]
    BY <1>1, <1>7
  <2>4. row \in Row \cup {None}
    BY <2>1, <2>2, <1>2, <1>5
  <2> DEFINE queue == p.queue /\ Newer(row, inc)
  <2>5. queue \in BOOLEAN
    BY <1>2, <1>3
  <2> HIDE DEF q, queue
  <2>6. q = [p EXCEPT !.row = row, !.queue = queue]
    BY <2>3 DEF queue
  <2>7. q.row = row /\ q.queue = queue /\ q.behind = p.behind /\ q.full = p.full
        /\ q.view = p.view /\ q.armed = p.armed /\ q.held = p.held /\ q.pulled = p.pulled
    BY <2>6 DEF Page
  <2>8. q \in Page
    BY <2>6, <2>4, <2>5 DEF Page
  <2> QED BY <2>1, <2>2, <2>7, <2>8 DEF queue
<1> HIDE DEF m, q
<1> QED BY <1>4, <1>6, <1>7

----------------------------------------------------------------------------
\* Events.

LEMMA NowFacts ==
  ASSUME TypeOK
  PROVE  now \in Nat /\ now > 1
BY EndFacts DEF TypeOK, now

LEMMA NoMarkerType == NoMarker \in Mark
<1>1. None \in Positions
  BY DEF Positions
<1>2. 0 \in Turns
  BY EndFacts
<1> QED BY <1>1, <1>2 DEF NoMarker, Mark

LEMMA SeededSteps ==
  ASSUME NEW b \in Browsers, NEW p \in Page, NEW t \in Nat, t > 1
  PROVE  /\ Steps(b, p, Seeded(b, p, t))
         /\ Seeded(b, p, t).armed = p.armed /\ Seeded(b, p, t).held = p.held
         /\ p.row # None => Seeded(b, p, t) = p
<1> DEFINE m == [NoMarker EXCEPT !.turn = p.board]
<1>1. m \in Mark
  <2>1. p.board \in Turns
    BY DEF Page
  <2> QED BY <2>1, NoMarkerType DEF Mark
<1>2. Steps(b, p, p)
  BY DEF Steps
<1>3. \/ Seeded(b, p, t) = p
      \/ Seeded(b, p, t) = Applied(b, p, m, TRUE, t) /\ p.row = None
  BY DEF Seeded
<1> HIDE DEF m
<1>4. /\ Steps(b, p, Applied(b, p, m, TRUE, t))
      /\ Applied(b, p, m, TRUE, t).armed = p.armed
      /\ Applied(b, p, m, TRUE, t).held = p.held
  BY <1>1, AppliedSteps
<1> QED BY <1>2, <1>3, <1>4

LEMMA LookedSteps ==
  ASSUME NEW b \in Browsers, NEW p \in Page, NEW t \in Nat, t > 1
  PROVE  /\ Steps(b, p, Looked(b, p, t))
         /\ Looked(b, p, t).armed = p.armed /\ Looked(b, p, t).held = p.held
         /\ p.row # None /\ p.row.unread /\ ~(p.view = "dwelled" /\ p.armed) => Looked(b, p, t) = p
<1> DEFINE m == ReadThrough(p.row, Seen(p), Latest(p), t)
<1>1. m \in Mark
  <2>1. p.row \in Row \cup {None}
    BY DEF Page
  <2> QED BY <2>1, SeenTypes, ReadThroughType
<1>2. Steps(b, p, p)
  BY DEF Steps
<1>3. \/ Looked(b, p, t) = p
      \/ /\ Looked(b, p, t) = Applied(b, p, m, FALSE, t)
         /\ ~(p.row # None /\ p.row.unread /\ ~(p.view = "dwelled" /\ p.armed))
  BY DEF Looked
<1> HIDE DEF m
<1>4. /\ Steps(b, p, Applied(b, p, m, FALSE, t))
      /\ Applied(b, p, m, FALSE, t).armed = p.armed
      /\ Applied(b, p, m, FALSE, t).held = p.held
  BY <1>1, AppliedSteps
<1> QED BY <1>2, <1>3, <1>4

\* After an event a browser has written or kept the row it was left with, and
\* it keeps a mark that is not armed.
LEMMA EventSteps ==
  ASSUME TypeOK, NEW b \in Browsers, NEW p \in Page, NEW changed \in BOOLEAN, Event(b, p, changed)
  PROVE  \E q :
            /\ Steps(b, p, q) /\ page' = [page EXCEPT ![b] = q] /\ turns' = turns /\ server' = server
            /\ q.armed => q.row # None /\ q.row.unread /\ (p.armed \/ q.view = "away")
            /\ q.held => /\ q.row # None /\ q.row.unread /\ q.view # "away"
                         /\ p.held \/ page[b].row = None \/ ~page[b].row.unread
            /\ p.row # None /\ p.row.unread /\ ~p.armed => q.row = p.row
<1> DEFINE ready == [p EXCEPT !.armed = NextArmed(p)]
           runs == changed \/ ready.armed # p.armed
           seeded == IF runs THEN Seeded(b, ready, now) ELSE ready
           done == IF runs THEN Looked(b, seeded, now) ELSE seeded
           held == /\ done.row # None /\ done.row.unread /\ done.view # "away"
                   /\ done.held \/ page[b].row = None \/ ~page[b].row.unread
           q == [done EXCEPT !.armed = NextArmed(done), !.held = held]
<1>1. now \in Nat /\ now > 1
  BY NowFacts
<1>2. NextArmed(p) \in BOOLEAN
  BY DEF NextArmed
<1>3. /\ ready \in Page /\ ready.row = p.row /\ ready.queue = p.queue /\ ready.behind = p.behind
      /\ ready.full = p.full /\ ready.view = p.view /\ ready.held = p.held
      /\ ready.armed = NextArmed(p)
  BY <1>2 DEF Page
<1>4. Steps(b, p, ready)
  <2> HIDE DEF ready
  <2> QED BY <1>3 DEF Steps
<1>5. page' = [page EXCEPT ![b] = q] /\ turns' = turns /\ server' = server
  <2> DEFINE Final(d) == [d EXCEPT !.armed = NextArmed(d),
                                   !.held = /\ d.row # None /\ d.row.unread /\ d.view # "away"
                                            /\ @ \/ page[b].row = None \/ ~page[b].row.unread]
             Ends3(d) == page' = [page EXCEPT ![b] = Final(d)] /\ turns' = turns /\ server' = server
             Ends2(a, s) == \E d \in {IF changed \/ a.armed # p.armed THEN Looked(b, s, now) ELSE s} : Ends3(d)
             Ends1(a) == \E s \in {IF changed \/ a.armed # p.armed THEN Seeded(b, a, now) ELSE a} : Ends2(a, s)
  <2>1. \E a \in {ready} : Ends1(a)
    BY DEF Event
  <2> HIDE DEF ready, Ends1
  <2>2. Ends1(ready)
    BY <2>1
  <2> HIDE DEF Ends2
  <2>3. Ends2(ready, seeded)
    BY <2>2 DEF Ends1
  <2> HIDE DEF Ends3, seeded
  <2>4. Ends3(done)
    BY <2>3 DEF Ends2
  <2> HIDE DEF done
  <2>5. Final(done) = q
    OBVIOUS
  <2> QED BY <2>4, <2>5 DEF Ends3
<1> HIDE DEF ready, runs
<1>6. /\ Steps(b, ready, seeded) /\ seeded.armed = ready.armed /\ seeded.held = ready.held
      /\ ready.row # None => seeded = ready
  <2>1. Steps(b, ready, ready)
    BY <1>3 DEF Steps
  <2>2. /\ Steps(b, ready, Seeded(b, ready, now))
        /\ Seeded(b, ready, now).armed = ready.armed /\ Seeded(b, ready, now).held = ready.held
        /\ ready.row # None => Seeded(b, ready, now) = ready
    BY <1>1, <1>3, SeededSteps
  <2> QED BY <2>1, <2>2
<1>7. seeded \in Page
  BY <1>6 DEF Steps
<1> HIDE DEF seeded
<1>8. /\ Steps(b, seeded, done) /\ done.armed = seeded.armed /\ done.held = seeded.held
      /\ seeded.row # None /\ seeded.row.unread /\ ~(seeded.view = "dwelled" /\ seeded.armed)
         => done = seeded
  <2>1. Steps(b, seeded, seeded)
    BY <1>7 DEF Steps
  <2>2. /\ Steps(b, seeded, Looked(b, seeded, now))
        /\ Looked(b, seeded, now).armed = seeded.armed /\ Looked(b, seeded, now).held = seeded.held
        /\ seeded.row # None /\ seeded.row.unread /\ ~(seeded.view = "dwelled" /\ seeded.armed)
           => Looked(b, seeded, now) = seeded
    BY <1>1, <1>7, LookedSteps
  <2> QED BY <2>1, <2>2
<1> HIDE DEF done
<1>9. Steps(b, p, done)
  BY <1>3, <1>4, <1>6, <1>7, <1>8, StepsTransitive
<1>10. done \in Page
  BY <1>9 DEF Steps
<1>11. NextArmed(done) \in BOOLEAN
  BY DEF NextArmed
<1>12. held \in BOOLEAN
  OBVIOUS
<1>13. held => /\ done.row # None /\ done.row.unread /\ done.view # "away"
               /\ p.held \/ page[b].row = None \/ ~page[b].row.unread
  BY <1>3, <1>6, <1>8
<1> HIDE DEF held
<1>14. /\ q \in Page /\ q.row = done.row /\ q.queue = done.queue /\ q.behind = done.behind
       /\ q.full = done.full /\ q.view = done.view
       /\ q.armed = NextArmed(done) /\ q.held = held
  BY <1>10, <1>11, <1>12 DEF Page
<1> HIDE DEF q
<1>15. Steps(b, p, q)
  BY <1>9, <1>14 DEF Steps
<1>16. done.armed = NextArmed(p)
  BY <1>3, <1>6, <1>8
<1>17. q.armed => q.row # None /\ q.row.unread /\ (p.armed \/ q.view = "away")
  <2>1. q.view = p.view
    BY <1>15 DEF Steps
  <2> QED BY <1>14, <1>16, <2>1 DEF NextArmed
<1>18. ASSUME p.row # None, p.row.unread, ~p.armed PROVE q.row = p.row
  <2>1. seeded = ready
    BY <1>18, <1>3, <1>6
  <2>2. ready.armed => ready.view = "away"
    BY <1>3, <1>18 DEF NextArmed
  <2>3. ~(seeded.view = "dwelled" /\ seeded.armed)
    BY <2>1, <2>2
  <2>4. done = seeded
    BY <2>1, <2>3, <1>3, <1>8, <1>18
  <2> QED BY <2>1, <2>4, <1>3, <1>14
<1> QED BY <1>5, <1>13, <1>14, <1>15, <1>17, <1>18

----------------------------------------------------------------------------
\* A step of one browser.

\* Browser b is about to write over page p, which is its own or one it pulled
\* a row into.
Ready(b, p) ==
    /\ p \in Page
    /\ page[b].row # None => p.row # None /\ p.row.updated >= page[b].row.updated
    /\ p.row \in Rows \cup {None} \/ Fresh(b, page[b].row, p.row)
    /\ ~p.full /\ ~p.queue /\ p.row # None => server # None /\ ~Newer(p.row, server)
    /\ ~p.full /\ ~p.behind /\ server # None => p.row # None /\ ~Newer(server, p.row)

LEMMA RowsTyped ==
  ASSUME TypeOK
  PROVE  /\ Rows \subseteq Row
         /\ \A b \in Browsers : page[b] \in Page /\ page[b].row \in Row \cup {None}
         /\ \A b \in Browsers : page[b].row # None => page[b].row \in Rows
<1>1. \A b \in Browsers : page[b] \in Page
  BY DEF TypeOK
<1>2. \A b \in Browsers : page[b].row \in Row \cup {None}
  BY <1>1 DEF Page
<1>3. server \in Row \cup {None}
  BY DEF TypeOK
<1> QED BY <1>1, <1>2, <1>3 DEF Rows

LEMMA UniqueStep ==
  ASSUME TypeOK, Unique, NEW b \in Browsers, NEW q \in Page,
         page' = [page EXCEPT ![b] = q], server' = server,
         page[b].row # None => q.row # None /\ q.row.updated >= page[b].row.updated,
         q.row \in Rows \cup {None} \/ Fresh(b, page[b].row, q.row)
  PROVE  Unique'
<1>1. /\ page'[b] = q /\ \A x \in Browsers : x # b => page'[x] = page[x]
  BY DEF TypeOK
<1>2. /\ Rows \subseteq Row
      /\ \A x \in Browsers : page[x].row \in Row \cup {None}
      /\ \A x \in Browsers : page[x].row # None => page[x].row \in Rows
  BY RowsTyped
<1>3. Rows' \subseteq Rows \cup {q.row}
  BY <1>1 DEF Rows
<1>4. \A r \in Rows' : r # None
  BY DEF Rows
<1>5. q.row \in Row \cup {None}
  BY DEF Page
<1>6. Rows' \subseteq Row
  BY <1>2, <1>3, <1>4, <1>5
<1>7. \A r \in Rows' : r.updated \in Nat /\ r.wid \in Browsers
  BY <1>6, RowFacts
<1>8. \A r \in Rows : r.updated \in Nat /\ r.wid \in Browsers
  BY <1>2, RowFacts
\* What a browser is known to have stamped, it has stamped still.
<1>9. ASSUME NEW r \in Rows
      PROVE  page'[r.wid].row # None /\ r.updated <= page'[r.wid].row.updated
  <2>1. page[r.wid].row # None /\ r.updated <= page[r.wid].row.updated /\ r.wid \in Browsers
    BY <1>8 DEF Unique
  <2>2. CASE r.wid # b
    BY <2>1, <2>2, <1>1
  <2>3. CASE r.wid = b
    <3>1. q.row # None /\ q.row.updated >= page[b].row.updated
      BY <2>1, <2>3
    <3>2. q.row \in Row /\ page[b].row \in Row
      BY <3>1, <2>1, <2>3, <1>2, <1>5
    <3>3. q.row.updated \in Nat /\ page[b].row.updated \in Nat /\ r.updated \in Nat
      BY <3>2, <1>8, RowFacts
    <3> QED BY <2>1, <2>3, <3>1, <3>3, <1>1
  <2> QED BY <2>2, <2>3
<1>10. CASE q.row \in Rows \cup {None}
  <2>1. Rows' \subseteq Rows
    BY <1>10, <1>3, <1>4
  <2> QED BY <2>1, <1>9 DEF Unique
<1>11. CASE Fresh(b, page[b].row, q.row)
  <2>1. q.row \in Row /\ q.row.wid = b /\ (page[b].row # None => q.row.updated > page[b].row.updated)
    BY <1>11 DEF Fresh
  <2>2. q.row # None /\ q.row.updated \in Nat
    BY <2>1, RowFacts
  <2>3. ASSUME NEW r \in Rows, r.wid = b PROVE r.updated < q.row.updated
    <3>1. page[b].row # None /\ r.updated <= page[b].row.updated
      BY <2>3 DEF Unique
    <3>2. page[b].row.updated \in Nat
      BY <3>1, <1>2, RowFacts
    <3> QED BY <3>1, <3>2, <2>1, <2>2, <1>8
  <2>4. ASSUME NEW r \in Rows', NEW s \in Rows', r.updated = s.updated, r.wid = s.wid
        PROVE  r = s
    <3>1. CASE r \in Rows /\ s \in Rows
      BY <3>1, <2>4 DEF Unique
    <3>2. CASE r = q.row /\ s \in Rows
      BY <3>2, <2>4, <2>1, <2>2, <2>3, <1>8
    <3>3. CASE s = q.row /\ r \in Rows
      BY <3>3, <2>4, <2>1, <2>2, <2>3, <1>8
    <3> QED BY <3>1, <3>2, <3>3, <1>3
  <2>5. ASSUME NEW r \in Rows'
        PROVE  page'[r.wid].row # None /\ r.updated <= page'[r.wid].row.updated
    <3>1. CASE r = q.row
      BY <3>1, <2>1, <2>2, <1>1
    <3>2. CASE r \in Rows
      BY <3>2, <1>9
    <3> QED BY <3>1, <3>2, <1>3
  <2> QED BY <2>4, <2>5 DEF Unique
<1> QED BY <1>10, <1>11

\* The invariant through a step of one browser that leaves the server alone.
LEMMA LocalStep ==
  ASSUME Inv, NEW b \in Browsers, NEW p, NEW q, Ready(b, p), Steps(b, p, q), Calm(q),
         page' = [page EXCEPT ![b] = q], turns' = turns, server' = server, spent' \in 0..Budget
  PROVE  Inv'
<1>1. p \in Page /\ q \in Page /\ q.full = p.full /\ q.behind = p.behind
  BY DEF Ready, Steps
<1>2. p.row \in Row \cup {None} /\ q.row \in Row \cup {None} /\ page[b].row \in Row \cup {None}
  BY <1>1, RowsTyped DEF Page, Inv
<1>3. server \in Row \cup {None}
  BY DEF Inv, TypeOK
<1>4. page'[b] = q /\ \A x \in Browsers : x # b => page'[x] = page[x]
  BY DEF Inv, TypeOK
<1>5. \/ q.row = p.row /\ q.queue = p.queue
      \/ q.queue /\ Fresh(b, p.row, q.row)
  BY DEF Steps
<1>6. p.row # None => q.row # None /\ q.row.updated >= p.row.updated
  <2>1. ASSUME p.row # None PROVE q.row # None /\ q.row.updated >= p.row.updated
    <3>1. p.row \in Row
      BY <1>2, <2>1
    <3>2. p.row.updated \in Nat
      BY <3>1, RowFacts
    <3>3. CASE q.row = p.row
      BY <3>3, <3>2, <2>1
    <3>4. CASE Fresh(b, p.row, q.row)
      <4>1. q.row \in Row /\ q.row.updated > p.row.updated
        BY <3>4, <2>1 DEF Fresh
      <4>2. q.row # None /\ q.row.updated \in Nat
        BY <4>1, RowFacts
      <4> QED BY <4>1, <4>2, <3>2
    <3> QED BY <3>3, <3>4, <1>5
  <2> QED BY <2>1
<1>7. page[b].row # None => q.row # None /\ q.row.updated >= page[b].row.updated
  <2>1. ASSUME page[b].row # None PROVE q.row # None /\ q.row.updated >= page[b].row.updated
    <3>1. p.row # None /\ p.row.updated >= page[b].row.updated
      BY <2>1 DEF Ready
    <3>2. q.row # None /\ q.row.updated >= p.row.updated
      BY <3>1, <1>6
    <3>3. p.row.updated \in Nat /\ q.row.updated \in Nat /\ page[b].row.updated \in Nat
      BY <3>1, <3>2, <2>1, <1>2, RowFacts
    <3> QED BY <3>1, <3>2, <3>3
  <2> QED BY <2>1
<1>8. q.row \in Rows \cup {None} \/ Fresh(b, page[b].row, q.row)
  <2>1. CASE q.row = p.row
    BY <2>1 DEF Ready
  <2>2. CASE Fresh(b, p.row, q.row)
    <3>1. q.row \in Row /\ q.row.wid = b
      BY <2>2 DEF Fresh
    <3>2. ASSUME page[b].row # None PROVE q.row.updated > page[b].row.updated
      <4>1. p.row # None /\ p.row.updated >= page[b].row.updated
        BY <3>2 DEF Ready
      <4>2. q.row.updated > p.row.updated
        BY <4>1, <2>2 DEF Fresh
      <4>3. p.row.updated \in Nat /\ q.row.updated \in Nat /\ page[b].row.updated \in Nat
        BY <4>1, <3>1, <3>2, <1>2, RowFacts
      <4> QED BY <4>1, <4>2, <4>3
    <3> QED BY <3>1, <3>2 DEF Fresh
  <2> QED BY <2>1, <2>2, <1>5
<1>9. Unique'
  BY <1>1, <1>7, <1>8, UniqueStep DEF Inv
<1>10. TypeOK'
  BY <1>1 DEF Inv, TypeOK
<1>11. Sent'
  <2>1. ASSUME ~q.full, ~q.queue, q.row # None PROVE server # None /\ ~Newer(q.row, server)
    BY <2>1, <1>1, <1>5 DEF Ready
  <2> QED BY <2>1, <1>4 DEF Inv, Sent, Newer
<1>12. Heard'
  <2>1. ASSUME ~q.full, ~q.behind, server # None PROVE q.row # None /\ ~Newer(server, q.row)
    <3>1. p.row # None /\ ~Newer(server, p.row)
      BY <2>1, <1>1 DEF Ready
    <3>2. CASE q.row = p.row
      BY <3>1, <3>2
    <3>3. CASE Fresh(b, p.row, q.row)
      <4>1. p.row \in Row /\ q.row \in Row /\ server \in Row
        BY <3>1, <3>3, <2>1, <1>2, <1>3 DEF Fresh
      <4>2. Newer(q.row, p.row)
        BY <3>1, <3>3 DEF Fresh, Newer
      <4>3. ~Newer(server, q.row)
        BY <4>1, <4>2, <3>1, NewerTransitive
      <4> QED BY <4>1, <4>3, RowFacts
    <3> QED BY <3>2, <3>3, <1>5
  <2> QED BY <2>1, <1>4 DEF Inv, Heard, Newer
<1>13. Armed'
  BY <1>4 DEF Inv, Armed, Calm
<1> QED BY <1>9, <1>10, <1>11, <1>12, <1>13 DEF Inv

\* A page that shows something else, or is loaded again, is ready.
LEMMA OwnReady ==
  ASSUME Inv, NEW b \in Browsers, NEW p \in Page,
         p.row = page[b].row, p.queue = page[b].queue,
         p.full \/ (~page[b].full /\ p.behind = page[b].behind)
  PROVE  Ready(b, p)
<1>1. page[b].row # None => page[b].row.updated >= page[b].row.updated
  <2>1. ASSUME page[b].row # None PROVE page[b].row.updated \in Nat
    BY <2>1, RowsTyped, RowFacts DEF Inv
  <2> QED BY <2>1
<1>2. page[b].row \in Rows \cup {None}
  BY RowsTyped DEF Inv
<1>3. ~p.full /\ ~p.queue /\ p.row # None => server # None /\ ~Newer(p.row, server)
  BY DEF Inv, Sent
<1>4. ~p.full /\ ~p.behind /\ server # None => p.row # None /\ ~Newer(server, p.row)
  BY DEF Inv, Heard
<1> QED BY <1>1, <1>2, <1>3, <1>4 DEF Ready

LEMMA EventInv ==
  ASSUME Inv, NEW b \in Browsers, NEW p \in Page, NEW changed \in BOOLEAN, Ready(b, p),
         p.armed = page[b].armed, p.held = page[b].held,
         Event(b, p, changed), spent' \in 0..Budget
  PROVE  Inv'
<1>1. TypeOK
  BY DEF Inv
<1>2. PICK q :
            /\ Steps(b, p, q) /\ page' = [page EXCEPT ![b] = q] /\ turns' = turns /\ server' = server
            /\ q.armed => q.row # None /\ q.row.unread /\ (p.armed \/ q.view = "away")
            /\ q.held => /\ q.row # None /\ q.row.unread /\ q.view # "away"
                         /\ p.held \/ page[b].row = None \/ ~page[b].row.unread
  BY <1>1, EventSteps
<1>3. Calm(page[b])
  BY DEF Inv, Armed
<1>4. q.held => ~page[b].armed
  BY <1>2, <1>3 DEF Calm
<1>5. Calm(q)
  BY <1>2, <1>4 DEF Calm
<1> QED BY <1>2, <1>5, LocalStep

LEMMA SpendType == ASSUME TypeOK, Spends PROVE spent' \in 0..Budget
<1>1. Budget \in Nat
  BY AttentionAssumption
<1> QED BY <1>1 DEF TypeOK, Spends

LEMMA InitInv == ASSUME Init PROVE Inv
<1>1. 0 \in Turns /\ 0 \in 0..Budget
  <2>1. Budget \in Nat
    BY AttentionAssumption
  <2> QED BY <2>1, EndFacts
<1>2. NewPage \in Page
  BY <1>1 DEF NewPage, Page
<1>3. \A b \in Browsers :
         /\ page[b] \in Page /\ page[b].row = None /\ page[b].full /\ ~page[b].armed /\ ~page[b].held
  <2> SUFFICES ASSUME NEW b \in Browsers
               PROVE  /\ page[b] \in Page /\ page[b].row = None /\ page[b].full
                      /\ ~page[b].armed /\ ~page[b].held
    OBVIOUS
  <2> DEFINE view == IF b \in Shown THEN NewPage.view ELSE "away"
  <2>1. page[b] = [NewPage EXCEPT !.view = view]
    BY DEF Init
  <2>2. view \in {"away", "restoring"}
    BY DEF NewPage
  <2> HIDE DEF view
  <2>3. NewPage.row = None /\ NewPage.full = TRUE /\ NewPage.armed = FALSE /\ NewPage.held = FALSE
    BY DEF NewPage
  <2> QED BY <2>1, <2>2, <2>3, <1>2 DEF Page
<1>4. DOMAIN page = Browsers /\ page = [b \in Browsers |-> page[b]]
  BY DEF Init
<1>5. TypeOK
  <2>1. page \in [Browsers -> Page]
    BY <1>3, <1>4
  <2> QED BY <1>1, <2>1 DEF Init, TypeOK
<1>6. Rows = {}
  BY <1>3 DEF Rows, Init
<1>7. Unique
  BY <1>6 DEF Unique
<1>8. Sent /\ Heard
  BY <1>3 DEF Sent, Heard
<1>9. Armed
  BY <1>3 DEF Armed, Calm
<1> QED BY <1>5, <1>7, <1>8, <1>9 DEF Inv

LEMMA TurnEndsInv == ASSUME Inv, TurnEnds PROVE Inv'
<1>1. turns' \in Turns
  BY EndFacts DEF Inv, TypeOK, TurnEnds
<1>2. server' = server /\ page' = page /\ spent' = spent
  BY DEF TurnEnds
<1>3. TypeOK'
  BY <1>1, <1>2 DEF Inv, TypeOK
<1>4. Unique'
  BY <1>2 DEF Inv, Unique, Rows
<1>5. Sent' /\ Heard'
  BY <1>2 DEF Inv, Sent, Heard, Newer
<1>6. Armed'
  BY <1>2 DEF Inv, Armed, Calm
<1> QED BY <1>3, <1>4, <1>5, <1>6 DEF Inv

\* An event that changes what a page shows.
Shows(b) ==
    \E p \in Page :
        /\ p.row = page[b].row /\ p.queue = page[b].queue /\ p.full = page[b].full
        /\ p.behind = page[b].behind /\ p.armed = page[b].armed /\ p.held = page[b].held
        /\ p.board \in {page[b].board, turns} /\ (p.pulled \/ p.pulled = page[b].pulled)
        /\ Event(b, p, TRUE) /\ spent' \in 0..Budget

LEMMA ShowSteps ==
  ASSUME TypeOK, NEW b \in Browsers,
         BoardArrives(b) \/ View(b) \/ Dwell(b) \/ Leave(b) \/ DockReady(b) \/ FirstPullFails(b)
  PROVE  Shows(b)
<1>0. page[b] \in Page /\ turns \in Turns /\ spent \in 0..Budget
  BY DEF TypeOK
<1>1. CASE BoardArrives(b)
  <2> DEFINE p == [page[b] EXCEPT !.board = turns]
  <2>1. /\ p \in Page /\ p.row = page[b].row /\ p.queue = page[b].queue /\ p.full = page[b].full
        /\ p.behind = page[b].behind /\ p.armed = page[b].armed /\ p.held = page[b].held
        /\ p.board \in {page[b].board, turns} /\ (p.pulled \/ p.pulled = page[b].pulled)
    BY <1>0 DEF Page
  <2>2. Event(b, p, TRUE) /\ spent' \in 0..Budget
    BY <1>0, <1>1 DEF BoardArrives
  <2> HIDE DEF p
  <2> QED BY <2>1, <2>2 DEF Shows
<1>2. CASE View(b) \/ DockReady(b)
  <2> DEFINE p == [page[b] EXCEPT !.view = "viewed"]
  <2>1. /\ p \in Page /\ p.row = page[b].row /\ p.queue = page[b].queue /\ p.full = page[b].full
        /\ p.behind = page[b].behind /\ p.armed = page[b].armed /\ p.held = page[b].held
        /\ p.board \in {page[b].board, turns} /\ (p.pulled \/ p.pulled = page[b].pulled)
    BY <1>0 DEF Page
  <2>2. Event(b, p, TRUE) /\ spent' \in 0..Budget
    BY <1>0, <1>2, SpendType DEF View, DockReady
  <2> HIDE DEF p
  <2> QED BY <2>1, <2>2 DEF Shows
<1>3. CASE Dwell(b)
  <2> DEFINE p == [page[b] EXCEPT !.view = "dwelled", !.text = TRUE]
  <2>1. /\ p \in Page /\ p.row = page[b].row /\ p.queue = page[b].queue /\ p.full = page[b].full
        /\ p.behind = page[b].behind /\ p.armed = page[b].armed /\ p.held = page[b].held
        /\ p.board \in {page[b].board, turns} /\ (p.pulled \/ p.pulled = page[b].pulled)
    BY <1>0 DEF Page
  <2>2. Event(b, p, TRUE) /\ spent' \in 0..Budget
    BY <1>0, <1>3 DEF Dwell
  <2> HIDE DEF p
  <2> QED BY <2>1, <2>2 DEF Shows
<1>4. CASE Leave(b)
  <2> DEFINE p == [page[b] EXCEPT !.view = "away"]
  <2>1. /\ p \in Page /\ p.row = page[b].row /\ p.queue = page[b].queue /\ p.full = page[b].full
        /\ p.behind = page[b].behind /\ p.armed = page[b].armed /\ p.held = page[b].held
        /\ p.board \in {page[b].board, turns} /\ (p.pulled \/ p.pulled = page[b].pulled)
    BY <1>0 DEF Page
  <2>2. Event(b, p, TRUE) /\ spent' \in 0..Budget
    BY <1>0, <1>4 DEF Leave
  <2> HIDE DEF p
  <2> QED BY <2>1, <2>2 DEF Shows
<1>5. CASE FirstPullFails(b)
  <2> DEFINE p == [page[b] EXCEPT !.pulled = TRUE]
  <2>1. /\ p \in Page /\ p.row = page[b].row /\ p.queue = page[b].queue /\ p.full = page[b].full
        /\ p.behind = page[b].behind /\ p.armed = page[b].armed /\ p.held = page[b].held
        /\ p.board \in {page[b].board, turns} /\ (p.pulled \/ p.pulled = page[b].pulled)
    BY <1>0 DEF Page
  <2>2. Event(b, p, TRUE) /\ spent' \in 0..Budget
    BY <1>5, SpendType DEF FirstPullFails
  <2> HIDE DEF p
  <2> QED BY <2>1, <2>2 DEF Shows
<1> QED BY <1>1, <1>2, <1>3, <1>4, <1>5

LEMMA ShowInv ==
  ASSUME Inv, NEW b \in Browsers, Shows(b)
  PROVE  Inv'
<1>1. PICK p \in Page :
         /\ p.row = page[b].row /\ p.queue = page[b].queue /\ p.full = page[b].full
         /\ p.behind = page[b].behind /\ p.armed = page[b].armed /\ p.held = page[b].held
         /\ Event(b, p, TRUE) /\ spent' \in 0..Budget
  BY DEF Shows
<1>2. Ready(b, p)
  BY <1>1, OwnReady
<1> QED BY <1>1, <1>2, EventInv

LEMMA ReloadInv ==
  ASSUME Inv, NEW b \in Browsers, Reload(b)
  PROVE  Inv'
<1> DEFINE view == IF page[b].view = "away" THEN "away" ELSE "restoring"
           armed == page[b].view = "away" /\ page[b].row # None /\ page[b].row.unread
           q == [NewPage EXCEPT !.row = page[b].row, !.queue = page[b].queue, !.held = page[b].held,
                                !.view = view, !.armed = armed]
<1>1. page[b] \in Page
  BY DEF Inv, TypeOK
<1>2. page' = [page EXCEPT ![b] = q] /\ turns' = turns /\ server' = server
  BY DEF Reload
<1>3. view \in {"away", "restoring"} /\ armed \in BOOLEAN
  OBVIOUS
<1>4. (view = "away") <=> (page[b].view = "away")
  OBVIOUS
<1>5. armed => page[b].view = "away" /\ page[b].row # None /\ page[b].row.unread
  OBVIOUS
<1> HIDE DEF view, armed
<1>6. NewPage \in Page /\ NewPage.full = TRUE
  <2>1. 0 \in Turns
    BY EndFacts
  <2> QED BY <2>1 DEF NewPage, Page
<1>7. q \in Page
  BY <1>1, <1>3, <1>6 DEF Page
<1>8. /\ q.row = page[b].row /\ q.queue = page[b].queue /\ q.full = NewPage.full /\ q.view = view
      /\ q.armed = armed /\ q.held = page[b].held
  BY <1>6 DEF Page
<1> HIDE DEF q
<1>9. q.full
  BY <1>6, <1>8
<1>10. Ready(b, q)
  BY <1>7, <1>8, <1>9, OwnReady
<1>11. Steps(b, q, q)
  BY <1>7 DEF Steps
<1>12. Calm(q)
  <2>1. Calm(page[b])
    BY DEF Inv, Armed
  <2> QED BY <2>1, <1>4, <1>5, <1>8 DEF Calm
<1>13. spent' \in 0..Budget
  BY SpendType DEF Reload, Inv
<1> QED BY <1>2, <1>10, <1>11, <1>12, <1>13, LocalStep

LEMMA WritesSteps ==
  ASSUME TypeOK, NEW b \in Browsers, NEW p \in Page, NEW m \in Mark, Writes(b, p, m)
  PROVE  \E q :
            /\ Steps(b, p, q) /\ page' = [page EXCEPT ![b] = q] /\ turns' = turns /\ server' = server
            /\ q.row # None /\ q.row.unread = m.unread
            /\ q.armed => m.unread /\ (p.armed \/ q.view = "away")
            /\ q.held => m.unread /\ p.held
<1> DEFINE done == Applied(b, p, m, FALSE, now)
           held == done.held /\ done.row.unread
           q == [done EXCEPT !.armed = NextArmed(done), !.held = held]
<1>1. now \in Nat /\ now > 1
  BY NowFacts
<1>2. /\ Steps(b, p, done) /\ done.armed = p.armed /\ done.held = p.held
      /\ done.row # None /\ done.row.unread = m.unread
  BY <1>1, AppliedSteps
<1>3. page' = [page EXCEPT ![b] = q] /\ turns' = turns /\ server' = server
  <2> DEFINE Final(d) == [d EXCEPT !.armed = NextArmed(d), !.held = @ /\ d.row.unread]
             Lands(d) == page' = [page EXCEPT ![b] = Final(d)] /\ turns' = turns /\ server' = server
  <2>1. \E d \in {done} : Lands(d)
    BY DEF Writes
  <2> HIDE DEF done, Lands
  <2>2. Lands(done)
    BY <2>1
  <2>3. Final(done) = q
    OBVIOUS
  <2> QED BY <2>2, <2>3 DEF Lands
<1> HIDE DEF done
<1>4. done \in Page
  BY <1>2 DEF Steps
<1>5. NextArmed(done) \in BOOLEAN /\ held \in BOOLEAN
  BY DEF NextArmed
<1>6. held => m.unread /\ p.held
  BY <1>2
<1>7. NextArmed(done) => m.unread /\ (p.armed \/ done.view = "away")
  BY <1>2 DEF NextArmed
<1> HIDE DEF held
<1>8. /\ q \in Page /\ q.row = done.row /\ q.queue = done.queue /\ q.behind = done.behind
      /\ q.full = done.full /\ q.view = done.view
      /\ q.armed = NextArmed(done) /\ q.held = held
  BY <1>4, <1>5 DEF Page
<1> HIDE DEF q
<1>9. Steps(b, p, q)
  BY <1>2, <1>8 DEF Steps
<1> QED BY <1>2, <1>3, <1>6, <1>7, <1>8, <1>9

\* The marker a mark unread writes, and the page it writes it on.
UnreadMark(p) ==
    LET m == IF p.row = None THEN NoMarker ELSE p.row
    IN  [turn |-> m.turn, pos |-> IF Latest(p) = None THEN m.pos ELSE Before(Latest(p)),
         at |-> m.at, unread |-> TRUE]
Disarmed(p) == [p EXCEPT !.armed = FALSE, !.held = p.view # "away"]

LEMMA UnreadMarkType ==
  ASSUME NEW p \in Page
  PROVE  UnreadMark(p) \in Mark /\ UnreadMark(p).unread = TRUE
<1> DEFINE m == IF p.row = None THEN NoMarker ELSE p.row
           pos == IF Latest(p) = None THEN m.pos ELSE Before(Latest(p))
<1>1. p.row \in Row \cup {None} /\ p.board \in Turns
  BY DEF Page
<1>2. m.turn \in Turns /\ m.pos \in Positions /\ m.at \in Nat
  <2>1. CASE p.row = None
    BY <2>1, NoMarkerType DEF Mark
  <2>2. CASE p.row # None
    BY <2>2, <1>1, RowFacts
  <2> QED BY <2>1, <2>2
<1>3. pos \in Positions
  <2>1. CASE Latest(p) = None
    BY <2>1, <1>2
  <2>2. CASE Latest(p) # None
    <3>1. Latest(p) = Ends[p.board] /\ p.board > 0
      BY <2>2 DEF Latest
    <3>2. p.board \in 1..Len(Ends)
      BY <3>1, <1>1, EndFacts
    <3> QED BY <2>2, <3>1, <3>2, BeforeType
  <2> QED BY <2>1, <2>2
<1>4. UnreadMark(p) = [turn |-> m.turn, pos |-> pos, at |-> m.at, unread |-> TRUE]
  BY DEF UnreadMark
<1> HIDE DEF m, pos
<1> QED BY <1>2, <1>3, <1>4 DEF Mark

LEMMA MarkUnreadSteps ==
  ASSUME NEW b, MarkUnread(b)
  PROVE  Spends /\ Writes(b, Disarmed(page[b]), UnreadMark(page[b]))
BY DEF MarkUnread, UnreadMark, Disarmed

LEMMA MarkUnreadInv ==
  ASSUME Inv, NEW b \in Browsers, MarkUnread(b)
  PROVE  Inv' /\ page'[b].row.unread
<1> DEFINE p == Disarmed(page[b])
           m == UnreadMark(page[b])
<1>1. page[b] \in Page /\ TypeOK /\ page \in [Browsers -> Page]
  BY DEF Inv, TypeOK
<1>2. /\ p \in Page /\ p.row = page[b].row /\ p.queue = page[b].queue /\ p.full = page[b].full
      /\ p.behind = page[b].behind /\ p.view = page[b].view
      /\ ~p.armed /\ (p.held => p.view # "away")
  BY <1>1 DEF Page, Disarmed
<1>3. m \in Mark /\ m.unread = TRUE
  BY <1>1, UnreadMarkType
<1>4. Writes(b, p, m) /\ spent' \in 0..Budget
  BY <1>1, MarkUnreadSteps, SpendType
<1> HIDE DEF p, m
<1>5. PICK q :
            /\ Steps(b, p, q) /\ page' = [page EXCEPT ![b] = q] /\ turns' = turns /\ server' = server
            /\ q.row # None /\ q.row.unread = m.unread
            /\ q.armed => m.unread /\ (p.armed \/ q.view = "away")
            /\ q.held => m.unread /\ p.held
  BY <1>1, <1>2, <1>3, <1>4, WritesSteps
<1>6. Ready(b, p)
  BY <1>2, OwnReady
<1>7. q.view = p.view
  BY <1>5 DEF Steps
<1>8. Calm(q)
  BY <1>2, <1>3, <1>5, <1>7 DEF Calm
<1>9. page'[b] = q
  BY <1>1, <1>5
<1> QED BY <1>3, <1>4, <1>5, <1>6, <1>8, <1>9, LocalStep

LEMMA MarkReadInv ==
  ASSUME Inv, NEW b \in Browsers, MarkRead(b)
  PROVE  Inv'
<1> DEFINE p == page[b]
           m == ReadThrough(p.row, Seen(p), Latest(p), now)
<1>1. p \in Page /\ TypeOK /\ now \in Nat
  BY NowFacts DEF Inv, TypeOK
<1>2. m \in Mark /\ ~m.unread
  <2>1. p.row \in Row \cup {None}
    BY <1>1 DEF Page
  <2> QED BY <2>1, <1>1, SeenTypes, ReadThroughType
<1>3. Writes(b, p, m) /\ Spends
  BY DEF MarkRead
<1>4. spent' \in 0..Budget
  BY <1>1, <1>3, SpendType
<1>5. Ready(b, p)
  BY <1>1, OwnReady
<1> HIDE DEF p, m
<1>6. PICK q :
            /\ Steps(b, p, q) /\ page' = [page EXCEPT ![b] = q] /\ turns' = turns /\ server' = server
            /\ q.armed => m.unread
            /\ q.held => m.unread
  BY <1>1, <1>2, <1>3, WritesSteps
<1>7. Calm(q)
  BY <1>2, <1>6 DEF Calm
<1> QED BY <1>4, <1>5, <1>6, <1>7, LocalStep

\* A pulled row is taken over before the page goes on, and what the server
\* lacks or holds older is queued by a full pull.
LEMMA PullInv ==
  ASSUME Inv, NEW b \in Browsers, Pull(b)
  PROVE  Inv'
<1> DEFINE own == page[b]
           merged == IF server = None THEN own ELSE Merged(b, own, server, now)
           sends == merged.full /\ merged.row # None /\ (server = None \/ Newer(merged.row, server))
           p == [merged EXCEPT !.queue = @ \/ sends, !.behind = FALSE, !.full = FALSE, !.pulled = TRUE]
<1>1. own \in Page /\ TypeOK /\ now \in Nat /\ server \in Row \cup {None} /\ spent \in 0..Budget
  BY NowFacts DEF Inv, TypeOK
<1>2. own.row \in Row \cup {None} /\ (own.row # None => own.row \in Rows)
  BY <1>1, RowsTyped
<1>3. server # None => server \in Rows
  BY DEF Rows
<1>4. Event(b, p, ~merged.pulled) /\ spent' \in 0..Budget
  <2> DEFINE Goes(d) == LET send == d.full /\ d.row # None /\ (server = None \/ Newer(d.row, server))
                        IN  Event(b, [d EXCEPT !.queue = @ \/ send, !.behind = FALSE, !.full = FALSE,
                                               !.pulled = TRUE], ~d.pulled)
  <2>1. (\E d \in {merged} : Goes(d)) /\ spent' = spent
    BY DEF Pull
  <2> HIDE DEF merged, Goes
  <2>2. Goes(merged)
    BY <2>1
  <2> QED BY <2>1, <2>2, <1>1 DEF Goes
<1>5. /\ merged \in Page /\ merged.full = own.full
      /\ merged.armed = own.armed /\ merged.held = own.held /\ merged.pulled = own.pulled
  <2>1. CASE server = None
    BY <2>1, <1>1
  <2>2. CASE server # None
    BY <2>2, <1>1, MergedSteps
  <2> QED BY <2>1, <2>2
\* Neither the browser's row nor the server's is lost.
<1>6. own.row # None => merged.row # None /\ merged.row.updated >= own.row.updated
  <2>1. CASE server = None
    <3>1. own.row # None => own.row.updated \in Nat
      BY <1>2, RowFacts
    <3> QED BY <2>1, <3>1
  <2>2. CASE server # None
    <3> HIDE DEF own
    <3>1. merged = Merged(b, own, server, now) /\ server \in Row
      BY <2>2, <1>1
    <3> HIDE DEF merged
    <3>2. merged.row # None /\ (own.row # None => ~Newer(own.row, merged.row))
      BY <3>1, <1>1, MergedSteps
    <3>3. merged.row \in Row
      BY <3>2, <1>5 DEF Page
    <3> QED BY <3>2, <3>3, <1>2, NewerFacts
  <2> QED BY <2>1, <2>2
<1>7. server # None => merged.row # None /\ ~Newer(server, merged.row)
  BY <1>1, MergedSteps
<1>8. merged.row \in Rows \cup {None} \/ Fresh(b, own.row, merged.row)
  <2>1. CASE server = None
    BY <2>1, <1>2
  <2>2. CASE server # None
    <3>1. merged.row \in {own.row, server} \/ Fresh(b, own.row, merged.row)
      BY <2>2, <1>1, MergedSteps
    <3> QED BY <3>1, <1>2, <1>3, <2>2
  <2> QED BY <2>1, <2>2
<1>9. ASSUME ~merged.queue, ~sends, merged.row # None
      PROVE  server # None /\ ~Newer(merged.row, server)
  <2>1. CASE merged.full
    BY <2>1, <1>9
  <2>2. CASE ~merged.full /\ server = None
    BY <2>2, <1>5, <1>9 DEF Inv, Sent
  <2>3. CASE ~merged.full /\ server # None
    <3>1. merged.row \in {own.row, server} /\ ~(own.queue /\ Newer(merged.row, server))
      BY <2>3, <1>1, <1>9, MergedSteps
    <3>2. CASE merged.row = server
      <4>1. ~Newer(server, server)
        BY <2>3, <1>1, NewerFacts
      <4> QED BY <3>2, <4>1, <2>3
    <3>3. CASE merged.row = own.row /\ own.queue
      BY <3>1, <3>3, <2>3
    <3>4. CASE merged.row = own.row /\ ~own.queue
      <4>1. ~page[b].full /\ page[b].row # None /\ ~page[b].queue
        BY <3>4, <2>3, <1>5, <1>9
      <4>2. ~Newer(page[b].row, server)
        BY <4>1 DEF Inv, Sent
      <4> QED BY <4>2, <3>4, <2>3
    <3> QED BY <3>1, <3>2, <3>3, <3>4
  <2> QED BY <2>1, <2>2, <2>3
<1>10. sends \in BOOLEAN /\ merged.pulled \in BOOLEAN /\ merged.queue \in BOOLEAN
  <2>1. merged.full \in BOOLEAN /\ merged.pulled \in BOOLEAN /\ merged.queue \in BOOLEAN
    BY <1>5 DEF Page
  <2> QED BY <2>1 DEF Newer
<1> HIDE DEF own, merged, sends
<1> DEFINE queue == merged.queue \/ sends
<1>11. queue \in BOOLEAN /\ (~queue => ~merged.queue /\ ~sends)
  BY <1>10
<1> HIDE DEF queue
<1>12. p = [merged EXCEPT !.queue = queue, !.behind = FALSE, !.full = FALSE, !.pulled = TRUE]
  BY DEF queue
<1> HIDE DEF p
<1>13. /\ p \in Page /\ p.row = merged.row /\ p.queue = queue
       /\ p.armed = merged.armed /\ p.held = merged.held
  BY <1>5, <1>11, <1>12 DEF Page
<1>14. Ready(b, p)
  <2>1. own = page[b]
    BY DEF own
  <2>2. ~p.queue /\ p.row # None => server # None /\ ~Newer(p.row, server)
    BY <1>9, <1>11, <1>13
  <2> QED BY <2>1, <2>2, <1>6, <1>7, <1>8, <1>13 DEF Ready
<1>15. p.armed = page[b].armed /\ p.held = page[b].held
  BY <1>5, <1>13 DEF own
<1>16. (~merged.pulled) \in BOOLEAN
  BY <1>10
<1> QED BY <1>4, <1>13, <1>14, <1>15, <1>16, EventInv

\* A row that lands is the server's only when it is the newer one, and then
\* every browser is to pull.
LEMMA PostInv ==
  ASSUME Inv, NEW b \in Browsers, Post(b)
  PROVE  Inv'
<1> DEFINE row == page[b].row
           stored == server = None \/ Newer(row, server)
<1>1. /\ row # None /\ turns' = turns /\ spent' = spent
      /\ server' = IF stored THEN row ELSE server
      /\ page' = [x \in Browsers |-> [page[x] EXCEPT !.queue = @ /\ x # b, !.behind = @ \/ stored]]
  BY DEF Post
<1>2. row \in Row /\ row \in Rows /\ server \in Row \cup {None} /\ Rows \subseteq Row
  BY <1>1, RowsTyped DEF Inv, TypeOK
<1>3. \A x \in Browsers : page[x] \in Page
  BY DEF Inv, TypeOK
<1>4. stored \in BOOLEAN
  BY DEF Newer
<1>5. stored => (server # None => Newer(row, server))
  OBVIOUS
<1>6. ~stored => server # None /\ ~Newer(row, server)
  OBVIOUS
<1> HIDE DEF stored
<1>7. ASSUME NEW x \in Browsers
      PROVE  /\ page'[x] \in Page /\ page'[x].row = page[x].row /\ page'[x].full = page[x].full
             /\ page'[x].view = page[x].view
             /\ page'[x].armed = page[x].armed /\ page'[x].held = page[x].held
             /\ x # b => page'[x].queue = page[x].queue
             /\ page'[x].behind = (page[x].behind \/ stored)
  <2> DEFINE queue == page[x].queue /\ x # b
             behind == page[x].behind \/ stored
  <2>1. queue \in BOOLEAN /\ behind \in BOOLEAN
    BY <1>3, <1>4 DEF Page
  <2>2. x # b => queue = page[x].queue
    <3>1. page[x].queue \in BOOLEAN
      BY <1>3 DEF Page
    <3> QED BY <3>1
  <2>3. page'[x] = [page[x] EXCEPT !.queue = queue, !.behind = behind]
    BY <1>1
  <2> HIDE DEF queue, behind
  <2>4. /\ page'[x] \in Page /\ page'[x].row = page[x].row /\ page'[x].full = page[x].full
        /\ page'[x].view = page[x].view
        /\ page'[x].armed = page[x].armed /\ page'[x].held = page[x].held
        /\ page'[x].queue = queue /\ page'[x].behind = behind
    BY <1>3, <2>1, <2>3 DEF Page
  <2> QED BY <2>2, <2>4 DEF behind
<1>8. DOMAIN page' = Browsers /\ page' \in [Browsers -> Page]
  BY <1>1, <1>7
<1>9. TypeOK'
  <2>1. server' \in Row \cup {None}
    BY <1>1, <1>2
  <2> QED BY <1>1, <1>8, <2>1 DEF Inv, TypeOK
<1>10. Unique'
  <2>1. Rows' \subseteq Rows
    <3>1. server' \in Rows \cup {None}
      BY <1>1, <1>2 DEF Rows
    <3> QED BY <3>1, <1>7 DEF Rows
  <2>2. ASSUME NEW r \in Rows'
        PROVE  page'[r.wid].row # None /\ r.updated <= page'[r.wid].row.updated
    <3>1. r \in Rows /\ r.wid \in Browsers
      BY <2>1, <2>2, <1>2, RowFacts
    <3>2. page[r.wid].row # None /\ r.updated <= page[r.wid].row.updated
      BY <3>1 DEF Inv, Unique
    <3> QED BY <3>1, <3>2, <1>7
  <2> QED BY <2>1, <2>2 DEF Inv, Unique
<1>11. Sent'
  <2> SUFFICES ASSUME NEW x \in Browsers, ~page'[x].full, ~page'[x].queue, page'[x].row # None
               PROVE  server' # None /\ ~Newer(page'[x].row, server')
    BY DEF Sent, Newer
  <2>1. page[x].row = page'[x].row /\ page[x].row # None /\ ~page[x].full
    BY <1>7
  <2>2. page[x].row \in Row
    BY <2>1, RowsTyped DEF Inv
  <2>3. CASE x = b
    <3>1. CASE stored
      BY <3>1, <2>1, <2>3, <1>1, <1>2, NewerFacts
    <3>2. CASE ~stored
      BY <3>2, <2>1, <2>3, <1>1, <1>6
    <3> QED BY <3>1, <3>2
  <2>4. CASE x # b
    <3>1. ~page[x].queue
      BY <2>4, <1>7
    <3>2. server # None /\ ~Newer(page[x].row, server)
      BY <2>1, <3>1 DEF Inv, Sent
    <3>3. CASE stored
      <4>1. ~Newer(page[x].row, row)
        BY <3>2, <3>3, <2>2, <1>2, <1>5, NewerTransitive
      <4> QED BY <3>3, <4>1, <2>1, <1>1
    <3>4. CASE ~stored
      BY <3>2, <3>4, <2>1, <1>1
    <3> QED BY <3>3, <3>4
  <2> QED BY <2>3, <2>4
<1>12. Heard'
  <2> SUFFICES ASSUME NEW x \in Browsers, ~page'[x].full, ~page'[x].behind, server' # None
               PROVE  page'[x].row # None /\ ~Newer(server', page'[x].row)
    BY DEF Heard, Newer
  <2>1. ~stored /\ ~page[x].behind /\ ~page[x].full /\ page'[x].row = page[x].row
    BY <1>7
  <2>2. server' = server
    BY <2>1, <1>1
  <2> QED BY <2>1, <2>2 DEF Inv, Heard
<1>13. Armed'
  <2>1. ASSUME NEW x \in Browsers PROVE Calm(page'[x])
    <3>1. Calm(page[x])
      BY DEF Inv, Armed
    <3> QED BY <3>1, <1>7 DEF Calm
  <2> QED BY <2>1 DEF Armed, Calm
<1> QED BY <1>9, <1>10, <1>11, <1>12, <1>13 DEF Inv

----------------------------------------------------------------------------
\* The theorems.

LEMMA StepInv == ASSUME Inv, [Next]_vars PROVE Inv'
<1>1. ASSUME NEW b \in Browsers, Owner(b) PROVE Inv'
  BY <1>1, ShowSteps, ShowInv, MarkUnreadInv, MarkReadInv, ReloadInv DEF Owner, Inv
<1>2. ASSUME NEW b \in Browsers, Faults(b) PROVE Inv'
  BY <1>2, ShowSteps, ShowInv DEF Faults, Inv
<1>3. ASSUME NEW b \in Browsers, Works(b) PROVE Inv'
  BY <1>3, ShowSteps, ShowInv, PullInv, PostInv DEF Works, Inv
<1>4. CASE TurnEnds
  BY <1>4, TurnEndsInv
<1>5. CASE UNCHANGED vars
  <2>1. turns' = turns /\ server' = server /\ page' = page /\ spent' = spent
    BY <1>5 DEF vars
  <2>2. TypeOK'
    BY <2>1 DEF Inv, TypeOK
  <2>3. Unique'
    BY <2>1 DEF Inv, Unique, Rows
  <2>4. Sent' /\ Heard'
    BY <2>1 DEF Inv, Sent, Heard, Newer
  <2>5. Armed'
    BY <2>1 DEF Inv, Armed, Calm
  <2> QED BY <2>2, <2>3, <2>4, <2>5 DEF Inv
<1> QED BY <1>1, <1>2, <1>3, <1>4, <1>5 DEF Next

\* The inductive invariant of the read marks: no two rows of one stamp, and
\* what a browser that has nothing to send, or nothing to pull, may hold.
\* (readMarkerModel.ts, syncedStore.ts)
THEOREM MarksInvariant == Spec => []Inv
BY InitInv, StepInv, PTL DEF Spec

\* Browsers that have heard all, and sent all, agree with the server on what
\* is read, whatever they read, marked and merged before.
\* (readMarkerModel.ts mergeMarkerRow)
THEOREM AllAgree == Spec => []Converged
<1>1. ASSUME Inv PROVE Converged
  <2> SUFFICES ASSUME \A b \in Browsers : ~(page[b].queue \/ page[b].behind \/ page[b].full),
                      NEW b \in Browsers
               PROVE  page[b].row = server
    BY DEF Converged
  <2>1. page[b].row # None => server # None /\ ~Newer(page[b].row, server)
    BY <1>1 DEF Inv, Sent
  <2>2. server # None => page[b].row # None /\ ~Newer(server, page[b].row)
    BY <1>1 DEF Inv, Heard
  <2>3. CASE server = None
    BY <2>1, <2>3
  <2>4. CASE server # None
    <3>1. page[b].row \in Row /\ server \in Row /\ page[b].row \in Rows /\ server \in Rows
      BY <2>2, <2>4, <1>1, RowsTyped DEF Inv, TypeOK, Rows
    <3>2. page[b].row.updated = server.updated /\ page[b].row.wid = server.wid
      BY <3>1, <2>1, <2>2, <2>4, NewerFacts
    <3> QED BY <3>1, <3>2, <1>1 DEF Inv, Unique
  <2> QED BY <2>3, <2>4
<1> QED BY <1>1, MarksInvariant, PTL

----------------------------------------------------------------------------
\* A mark that is held.

\* But for a row that lands, what one browser does changes no other's page.
LEMMA OthersStay ==
  ASSUME TypeOK, NEW b \in Browsers, NEW x \in Browsers, x # b,
         Shows(b) \/ Reload(b) \/ MarkUnread(b) \/ MarkRead(b) \/ Pull(b)
  PROVE  page'[x] = page[x]
<1>1. page \in [Browsers -> Page]
  BY DEF TypeOK
<1>2. ASSUME NEW p, NEW changed, Event(b, p, changed) PROVE page'[x] = page[x]
  BY <1>1, <1>2 DEF Event
<1>3. ASSUME NEW p, NEW m, Writes(b, p, m) PROVE page'[x] = page[x]
  BY <1>1, <1>3 DEF Writes
<1>4. CASE Shows(b)
  BY <1>2, <1>4 DEF Shows
<1>5. CASE Reload(b)
  BY <1>1, <1>5 DEF Reload
<1>6. CASE MarkUnread(b)
  BY <1>3, <1>6 DEF MarkUnread
<1>7. CASE MarkRead(b)
  BY <1>3, <1>7 DEF MarkRead
<1>8. CASE Pull(b)
  BY <1>2, <1>8 DEF Pull
<1> QED BY <1>4, <1>5, <1>6, <1>7, <1>8

LEMMA HeldStep ==
  ASSUME Inv, Next, NEW b \in Browsers, page[b].held, ~MarkRead(b), ~Pull(b)
  PROVE  page'[b].row.unread
<1>1. /\ page[b] \in Page /\ TypeOK /\ page \in [Browsers -> Page]
      /\ page[b].row # None /\ page[b].row.unread /\ ~page[b].armed /\ page[b].view # "away"
  BY DEF Inv, TypeOK, Armed, Calm
<1>2. CASE TurnEnds
  BY <1>1, <1>2 DEF TurnEnds
<1>3. ASSUME Shows(b) PROVE page'[b].row.unread
  <2>1. PICK p \in Page :
           /\ p.row = page[b].row /\ p.queue = page[b].queue /\ p.full = page[b].full
           /\ p.behind = page[b].behind /\ p.armed = page[b].armed /\ p.held = page[b].held
           /\ Event(b, p, TRUE) /\ spent' \in 0..Budget
    BY <1>3 DEF Shows
  <2>2. PICK q : page' = [page EXCEPT ![b] = q]
                 /\ (p.row # None /\ p.row.unread /\ ~p.armed => q.row = p.row)
    BY <1>1, <2>1, EventSteps
  <2>3. page'[b] = q
    BY <2>2, <1>1
  <2> QED BY <2>1, <2>2, <2>3, <1>1
<1>4. ASSUME Reload(b) PROVE page'[b].row.unread
  <2>1. page'[b].row = page[b].row
    BY <1>1, <1>4 DEF Reload, NewPage
  <2> QED BY <2>1, <1>1
<1>5. ASSUME MarkUnread(b) PROVE page'[b].row.unread
  BY <1>5, MarkUnreadInv
<1>6. ASSUME NEW c \in Browsers, Post(c) PROVE page'[b].row.unread
  <2>1. page'[b].row = page[b].row
    <3>1. \E queue, behind : page'[b] = [page[b] EXCEPT !.queue = queue, !.behind = behind]
      BY <1>6 DEF Post
    <3> QED BY <3>1, <1>1 DEF Page
  <2> QED BY <2>1, <1>1
<1>7. ASSUME NEW c \in Browsers, Owner(c) \/ Faults(c) \/ Works(c) PROVE page'[b].row.unread
  <2>1. Shows(c) \/ Reload(c) \/ MarkUnread(c) \/ MarkRead(c) \/ Pull(c) \/ Post(c)
    BY <1>1, <1>7, ShowSteps DEF Owner, Faults, Works
  <2>2. CASE c = b
    BY <2>1, <2>2, <1>3, <1>4, <1>5, <1>6
  <2>3. CASE c # b /\ ~Post(c)
    <3>1. page'[b] = page[b]
      BY <2>1, <2>3, <1>1, OthersStay
    <3> QED BY <3>1, <1>1
  <2> QED BY <2>2, <2>3, <1>6
<1> QED BY <1>2, <1>7 DEF Next

\* While the owner keeps looking at an agent they marked unread, nothing but
\* their own reading it, or a row another browser wrote, takes the mark away:
\* not the dwell, not a reload, not a turn that ends.  (dwellModel.ts)
THEOREM MarksAreHeld == Spec => MarkHeld
<1>1. ASSUME Inv, [Next]_vars
      PROVE  [\A b \in Browsers :
                (page[b].held /\ ~(MarkRead(b) \/ Pull(b))) => page'[b].row.unread]_vars
  <2>1. CASE Next
    BY <1>1, <2>1, HeldStep
  <2>2. CASE UNCHANGED vars
    BY <2>2
  <2> QED BY <1>1, <2>1, <2>2
<1> QED BY <1>1, MarksInvariant, PTL DEF Spec, MarkHeld

----------------------------------------------------------------------------
\* What is read stays read.

\* Position pos is of an entry that the transcript had as turn k ended.
Within(pos, k) ==
    pos = None \/ \E i \in 1..k : Ends[i].session = pos.session /\ pos.offset <= Ends[i].offset

\* No marker is of the future.  A page that waits for its first pull still
\* holds what it was closed with, which its own board tells of; and an armed
\* mark is read as soon as the dwell ends.
InTime(p) ==
    /\ p.board <= turns
    /\ ~p.pulled /\ p.board > 0 /\ p.row # None => Within(p.row.pos, p.board)
    /\ p.armed => p.view # "dwelled"

Timely ==
    /\ \A r \in Rows : r.at <= now /\ Within(r.pos, turns)
    /\ \A b \in Browsers : InTime(page[b])

\* Marker s is what reading up to the entry latest makes of row r.
ReadsOn(r, latest, s) ==
    /\ ~s.unread /\ s.at <= now
    /\ s.pos \in {None, latest} \/ (r # None /\ s.pos = r.pos)
    /\ r # None => /\ r.turn <= s.turn /\ r.at <= s.at
                   /\ \/ s.pos = r.pos
                      \/ s.pos = latest /\ s.at = now /\ Further(latest, now, r.pos, r.at)

LEMMA ReadThroughReads ==
  ASSUME NEW row \in Row \cup {None}, NEW turn \in Turns, NEW latest \in Positions, turns \in Nat,
         row # None => row.at <= now
  PROVE  ReadsOn(row, latest, ReadThrough(row, turn, latest, now))
<1> DEFINE m == IF row = None THEN NoMarker ELSE row
           next == [turn |-> Larger(m.turn, turn),
                    pos |-> IF Further(latest, now, m.pos, m.at) THEN latest ELSE m.pos,
                    at |-> now, unread |-> FALSE]
           same == [turn |-> m.turn, pos |-> m.pos, at |-> m.at, unread |-> m.unread]
<1>1. now \in Nat /\ turn \in Nat
  BY EndFacts DEF now
<1>2. /\ m.turn \in Nat /\ m.at \in Nat /\ m.at <= now
      /\ row = None => m.pos = None
      /\ row # None => m = row
  <2>1. CASE row = None
    BY <2>1, <1>1 DEF NoMarker, now
  <2>2. CASE row # None
    <3>1. row.turn \in Nat /\ row.at \in Nat
      BY <2>2, RowFacts, EndFacts
    <3> QED BY <2>2, <3>1
  <2> QED BY <2>1, <2>2
<1>3. \/ ReadThrough(row, turn, latest, now) = next
      \/ ReadThrough(row, turn, latest, now) = same /\ ~m.unread
  BY DEF ReadThrough
<1> HIDE DEF m
<1>4. ReadsOn(row, latest, next)
  <2>1. m.turn <= Larger(m.turn, turn)
    BY <1>1, <1>2 DEF Larger
  <2> QED BY <1>1, <1>2, <2>1 DEF ReadsOn
<1>5. ~m.unread => ReadsOn(row, latest, same)
  BY <1>1, <1>2 DEF ReadsOn
<1> HIDE DEF next, same
<1> QED BY <1>3, <1>4, <1>5

\* A position that is further than none lies behind nothing.
LEMMA FurtherFacts ==
  ASSUME NEW q \in Positions, NEW qat \in Nat, NEW p \in Positions, NEW pat \in Nat
  PROVE  /\ ~Further(q, qat, q, qat)
         /\ Further(q, qat, p, pat) => ~Further(p, pat, q, qat)
         /\ \A at \in Nat : qat <= at => ~Further(q, qat, q, at)
<1>1. ASSUME NEW x \in Positions, x # None PROVE x.offset \in Nat
  <2>1. CASE \E i \in 1..Len(Ends), o \in 0..Ends[Len(Ends)].offset :
                x = [session |-> Ends[i].session, offset |-> o]
    <3>1. PICK i \in 1..Len(Ends), o \in 0..Ends[Len(Ends)].offset :
                x = [session |-> Ends[i].session, offset |-> o]
      BY <2>1
    <3>2. o \in Int
      OBVIOUS
    <3>3. Len(Ends) \in 1..Len(Ends)
      BY EndFacts
    <3>4. Ends[Len(Ends)].offset \in Nat
      BY <3>3, EndFacts
    <3>5. o \in Nat
      BY <3>4
    <3> QED BY <3>1, <3>5
  <2>2. CASE \E i \in 1..Len(Ends) : x = Ends[i]
    BY <2>2, EndFacts
  <2> QED BY <2>1, <2>2, <1>1 DEF Positions
<1> QED BY <1>1 DEF Further

\* Reading on puts nothing back.
LEMMA ReadsOnKeeps ==
  ASSUME NEW r \in Row, NEW latest \in Positions, NEW s \in Row, turns \in Nat,
         r.at <= now, ReadsOn(r, latest, s)
  PROVE  KeepsRead(r, s)
<1>1. /\ r # None /\ r.turn \in Nat /\ r.at \in Nat /\ r.pos \in Positions
      /\ s.turn \in Nat /\ s.at \in Nat /\ s.pos \in Positions /\ now \in Nat
  BY RowFacts, EndFacts DEF now
<1>2. r.turn <= s.turn /\ r.at <= s.at
  BY <1>1 DEF ReadsOn
<1>3. CASE s.pos = r.pos
  <2>1. ~Further(r.pos, r.at, s.pos, s.at)
    BY <1>1, <1>2, <1>3, FurtherFacts
  <2> QED BY <1>1, <1>2, <2>1 DEF KeepsRead
<1>4. CASE s.pos = latest /\ s.at = now /\ Further(latest, now, r.pos, r.at)
  <2>1. ~Further(r.pos, r.at, s.pos, s.at)
    BY <1>1, <1>4, FurtherFacts
  <2> QED BY <1>1, <1>2, <2>1 DEF KeepsRead
<1> QED BY <1>1, <1>3, <1>4 DEF ReadsOn

LEMMA KeptReadKept ==
  ASSUME NEW r \in Row
  PROVE  KeepsRead(r, r)
<1>1. r.turn \in Nat /\ r.at \in Nat /\ r.pos \in Positions
  BY RowFacts, EndFacts
<1> QED BY <1>1, FurtherFacts DEF KeepsRead

\* A write leaves the marker it was given, and nothing of the page but the row.
LEMMA AppliedMarker ==
  ASSUME NEW b \in Browsers, NEW p \in Page, NEW m \in Mark, NEW weak \in BOOLEAN,
         NEW t \in Nat, t > 1
  PROVE  /\ Applied(b, p, m, weak, t).board = p.board
         /\ Applied(b, p, m, weak, t).text = p.text
         /\ Applied(b, p, m, weak, t).pulled = p.pulled
         /\ Applied(b, p, m, weak, t).view = p.view
         /\ Applied(b, p, m, weak, t).row \in Row
         /\ p.row = None \/ ~weak
            => /\ Applied(b, p, m, weak, t).row.turn = m.turn
               /\ Applied(b, p, m, weak, t).row.pos = m.pos
               /\ Applied(b, p, m, weak, t).row.at = m.at
               /\ Applied(b, p, m, weak, t).row.unread = m.unread
<1> DEFINE stamp == IF weak /\ p.row = None THEN 1
                    ELSE Larger(t, IF p.row = None THEN 1 ELSE p.row.updated + 1)
           row == [turn |-> m.turn, pos |-> m.pos, at |-> m.at, unread |-> m.unread,
                   updated |-> stamp, wid |-> b]
           q == [p EXCEPT !.row = row, !.queue = TRUE]
           d == Applied(b, p, m, weak, t)
<1>1. d.row # None /\ d \in Page /\ d.view = p.view
  BY AppliedSteps DEF Steps
<1>2. d.row \in Row
  BY <1>1 DEF Page
<1>3. \/ d = p /\ p.row # None /\ (weak \/ Marker(p.row) = Marker(row))
      \/ d = q
  BY DEF Applied
<1>4. Marker(p.row) = Marker(row)
      => p.row.turn = m.turn /\ p.row.pos = m.pos /\ p.row.at = m.at /\ p.row.unread = m.unread
  BY DEF Marker
<1>5. row.turn = m.turn /\ row.pos = m.pos /\ row.at = m.at /\ row.unread = m.unread
  OBVIOUS
<1> HIDE DEF row
<1>6. q.row = row /\ q.board = p.board /\ q.text = p.text /\ q.pulled = p.pulled
  BY DEF Page
<1> HIDE DEF q, d
<1>7. CASE d = q
  BY <1>1, <1>2, <1>5, <1>6, <1>7 DEF d
<1>8. CASE d = p /\ p.row # None /\ (weak \/ Marker(p.row) = Marker(row))
  BY <1>1, <1>2, <1>4, <1>8 DEF d
<1> QED BY <1>3, <1>7, <1>8

\* One that is behind stays behind as time goes on.
LEMMA FurtherRises ==
  ASSUME NEW q \in Positions, NEW qat \in Nat, NEW p \in Positions, NEW pat \in Nat,
         NEW at \in Nat, pat <= at, ~Further(q, qat, p, pat)
  PROVE  ~Further(q, qat, p, at)
BY DEF Further

LEMMA FurtherLater ==
  ASSUME NEW q \in Positions, NEW qat \in Nat, NEW p \in Positions, NEW pat \in Nat,
         NEW at \in Nat, qat <= at, Further(q, qat, p, pat)
  PROVE  ~Further(p, pat, q, at)
<1>1. ~Further(p, pat, q, qat)
  BY FurtherFacts
<1> QED BY <1>1, FurtherRises

\* A merge puts nothing back: the newer row takes over a further read.
LEMMA MergeKeeps ==
  ASSUME NEW cur \in Row, NEW inc \in Row
  PROVE  LET m == MergeMarkerRow(cur, inc).row
         IN  KeepsRead(cur, m) /\ m.at \in {cur.at, inc.at} /\ m.pos \in {cur.pos, inc.pos}
<1> DEFINE incWins == Newer(inc, cur)
           winner == IF incWins THEN inc ELSE cur
           loser == IF incWins THEN cur ELSE inc
           turn == Larger(winner.turn, loser.turn)
           pos == IF Further(loser.pos, loser.at, winner.pos, winner.at) THEN loser.pos ELSE winner.pos
           at == Larger(winner.at, loser.at)
           merged == [winner EXCEPT !.turn = turn, !.pos = pos, !.at = at]
           m == MergeMarkerRow(cur, inc)
<1> SUFFICES KeepsRead(cur, m.row) /\ m.row.at \in {cur.at, inc.at} /\ m.row.pos \in {cur.pos, inc.pos}
  OBVIOUS
<1>1. /\ cur # None /\ inc # None
      /\ (winner = inc /\ loser = cur) \/ (winner = cur /\ loser = inc)
  BY RowFacts
<1>2. KeepsRead(cur, cur)
  BY KeptReadKept
<1>3. CASE (cur.updated = Weak) # (inc.updated = Weak)
  <2>1. m = [row |-> IF cur.updated = Weak THEN inc ELSE cur, repair |-> FALSE]
    BY <1>1, <1>3 DEF MergeMarkerRow
  <2>2. CASE cur.updated = Weak
    BY <2>1, <2>2 DEF KeepsRead
  <2>3. CASE cur.updated # Weak
    BY <2>1, <2>3, <1>2
  <2> QED BY <2>2, <2>3
<1>4. CASE ~((cur.updated = Weak) # (inc.updated = Weak)) /\ winner.unread
  <2>1. m = [row |-> winner, repair |-> FALSE]
    BY <1>1, <1>4 DEF MergeMarkerRow
  <2> HIDE DEF winner, loser, m
  <2>2. m.row = winner
    BY <2>1
  <2> QED BY <2>2, <1>1, <1>4 DEF KeepsRead
<1>5. CASE ~((cur.updated = Weak) # (inc.updated = Weak)) /\ ~winner.unread
  <2>1. m = [row |-> merged, repair |-> merged # winner]
    BY <1>1, <1>5 DEF MergeMarkerRow
  <2>2. m.row = merged
    <3> HIDE DEF merged, m
    <3> QED BY <2>1
  <2> HIDE DEF winner, loser, m, incWins
  <2>3. winner \in Row /\ loser \in Row
    BY <1>1
  <2>4. /\ winner.turn \in Nat /\ winner.at \in Nat /\ winner.pos \in Positions
        /\ loser.turn \in Nat /\ loser.at \in Nat /\ loser.pos \in Positions
    BY <2>3, RowFacts, EndFacts
  <2>5. /\ turn >= winner.turn /\ turn >= loser.turn /\ turn \in Nat
        /\ at >= winner.at /\ at >= loser.at /\ at \in {winner.at, loser.at} /\ at \in Nat
    BY <2>4 DEF Larger
  <2>6. pos \in {winner.pos, loser.pos}
    OBVIOUS
  <2>7. ~Further(winner.pos, winner.at, pos, at) /\ ~Further(loser.pos, loser.at, pos, at)
    <3> HIDE DEF at
    <3>1. CASE Further(loser.pos, loser.at, winner.pos, winner.at)
      <4>1. pos = loser.pos
        BY <3>1
      <4>2. ~Further(winner.pos, winner.at, loser.pos, at)
        BY <3>1, <2>4, <2>5, FurtherLater
      <4> QED BY <4>1, <4>2, <2>4, <2>5, FurtherFacts
    <3>2. CASE ~Further(loser.pos, loser.at, winner.pos, winner.at)
      <4>1. pos = winner.pos
        BY <3>2
      <4>2. ~Further(loser.pos, loser.at, winner.pos, at)
        BY <3>2, <2>4, <2>5, FurtherRises
      <4> QED BY <4>1, <4>2, <2>4, <2>5, FurtherFacts
    <3> QED BY <3>1, <3>2
  <2> HIDE DEF turn, pos, at
  <2>8. merged.turn = turn /\ merged.pos = pos /\ merged.at = at
    BY <2>3 DEF Row
  <2> HIDE DEF merged
  <2>9. KeepsRead(cur, merged)
    BY <2>5, <2>7, <2>8, <1>1 DEF KeepsRead
  <2>10. merged.at \in {cur.at, inc.at} /\ merged.pos \in {cur.pos, inc.pos}
    BY <2>5, <2>6, <2>8, <1>1
  <2> QED BY <2>2, <2>9, <2>10
<1> HIDE DEF winner, loser, m
<1> QED BY <1>3, <1>4, <1>5

\* What a pulled row does to a page's marker.
LEMMA MergedKeeps ==
  ASSUME NEW b \in Browsers, NEW p \in Page, NEW inc \in Row, NEW t \in Nat
  PROVE  LET q == Merged(b, p, inc, t)
         IN  /\ q.board = p.board /\ q.text = p.text
             /\ q.row.at = inc.at \/ (p.row # None /\ q.row.at = p.row.at)
             /\ q.row.pos = inc.pos \/ (p.row # None /\ q.row.pos = p.row.pos)
             /\ p.row # None => /\ KeepsRead(p.row, q.row)
                                /\ p.row.updated # Weak => q.row.updated # Weak
<1> DEFINE m == MergeMarkerRow(p.row, inc)
           row == IF m.repair THEN [m.row EXCEPT !.updated = Larger(t, @ + 1), !.wid = b] ELSE m.row
           q == Merged(b, p, inc, t)
<1> SUFFICES /\ q.board = p.board /\ q.text = p.text
             /\ q.row.at = inc.at \/ (p.row # None /\ q.row.at = p.row.at)
             /\ q.row.pos = inc.pos \/ (p.row # None /\ q.row.pos = p.row.pos)
             /\ p.row # None => /\ KeepsRead(p.row, q.row)
                                /\ p.row.updated # Weak => q.row.updated # Weak
  OBVIOUS
<1>1. q = [p EXCEPT !.row = row, !.queue = m.repair \/ (@ /\ Newer(row, inc))]
  BY DEF Merged
<1>2. p.row \in Row \cup {None} /\ inc # None
  BY RowFacts DEF Page
<1>3. m.row \in Row
  <2>1. (m.row \in {p.row, inc} /\ m.row # None) \/ m.row \in Row
    BY <1>2, MergeOutcome
  <2> QED BY <2>1, <1>2
<1>4. row.turn = m.row.turn /\ row.pos = m.row.pos /\ row.at = m.row.at /\ row.unread = m.row.unread
  <2> HIDE DEF m
  <2> QED BY <1>3 DEF Row
<1>5. CASE p.row = None
  <2>1. m = [row |-> inc, repair |-> FALSE]
    BY <1>5 DEF MergeMarkerRow
  <2> HIDE DEF m, row
  <2>2. row.at = inc.at /\ row.pos = inc.pos
    BY <2>1, <1>4
  <2>3. q.row = row /\ q.board = p.board /\ q.text = p.text
    BY <1>1 DEF Page
  <2> QED BY <2>2, <2>3, <1>5
<1>6. CASE p.row # None
  <2>1. KeepsRead(p.row, m.row) /\ m.row.at \in {p.row.at, inc.at} /\ m.row.pos \in {p.row.pos, inc.pos}
    BY <1>2, <1>6, MergeKeeps
  <2>2. q.row # None /\ ~Newer(p.row, q.row) /\ q \in Page
    BY <1>6, MergedSteps
  <2>3. p.row \in Row /\ q.row \in Row
    BY <2>2, <1>2, <1>6 DEF Page
  <2>4. q.row.updated >= p.row.updated
    BY <2>2, <2>3, NewerFacts
  <2>5. p.row.updated \in Nat /\ p.row.updated > 0 /\ q.row.updated \in Nat
    BY <2>3, RowFacts
  <2> HIDE DEF m, row
  <2>6. q.row = row /\ q.board = p.board /\ q.text = p.text
    BY <1>1 DEF Page
  <2>7. KeepsRead(p.row, row)
    BY <2>1, <1>3, <1>4, RowFacts DEF KeepsRead
  <2> QED BY <2>1, <2>4, <2>5, <2>6, <2>7, <1>4, <1>6
<1> QED BY <1>5, <1>6

LEMMA LatestOf ==
  ASSUME NEW p, NEW q, q.board = p.board, q.text = p.text
  PROVE  Latest(q) = Latest(p)
BY DEF Latest

\* A seed tells of nothing read, and the dwell's read reads on.
LEMMA SeededReads ==
  ASSUME TypeOK, NEW b \in Browsers, NEW p \in Page
  PROVE  LET q == Seeded(b, p, now)
         IN  /\ q \in Page /\ q.board = p.board /\ q.text = p.text /\ q.pulled = p.pulled
             /\ q.view = p.view /\ q.armed = p.armed
             /\ q.row = p.row \/ (p.row = None /\ q.row \in Row /\ ReadsOn(None, None, q.row))
<1> DEFINE m == [NoMarker EXCEPT !.turn = p.board]
           q == Seeded(b, p, now)
           d == Applied(b, p, m, TRUE, now)
<1>1. now \in Nat /\ now > 1 /\ p.board \in Turns
  BY NowFacts DEF Page
<1>2. m \in Mark
  BY <1>1, NoMarkerType DEF Mark
<1>3. m.pos = None /\ m.at = 0 /\ m.unread = FALSE
  BY DEF NoMarker
<1>4. q = p \/ (q = d /\ p.row = None)
  BY DEF Seeded
<1> HIDE DEF m
<1>5. d \in Page /\ d.armed = p.armed
  BY <1>1, <1>2, AppliedSteps DEF Steps
<1>6. /\ d.board = p.board /\ d.text = p.text /\ d.pulled = p.pulled /\ d.view = p.view
      /\ d.row \in Row
      /\ p.row = None => d.row.pos = None /\ d.row.at = 0 /\ d.row.unread = FALSE
  BY <1>1, <1>2, <1>3, AppliedMarker
<1> HIDE DEF q, d
<1>7. p.row = None => ReadsOn(None, None, d.row)
  BY <1>1, <1>6 DEF ReadsOn
<1> QED BY <1>4, <1>5, <1>6, <1>7 DEF q

LEMMA LookedReads ==
  ASSUME TypeOK, NEW b \in Browsers, NEW p \in Page, p.row # None => p.row.at <= now
  PROVE  LET q == Looked(b, p, now)
         IN  /\ q \in Page /\ q.board = p.board /\ q.text = p.text /\ q.pulled = p.pulled
             /\ q.view = p.view /\ q.armed = p.armed
             /\ p.view = "dwelled" /\ p.row # None /\ p.row.unread /\ p.armed => ~q.row.unread
             /\ \/ q.row = p.row
                \/ /\ q.row \in Row /\ ReadsOn(p.row, Latest(p), q.row) /\ p.view = "dwelled"
                   /\ p.row # None => ~p.row.unread \/ p.armed
<1> DEFINE m == ReadThrough(p.row, Seen(p), Latest(p), now)
           q == Looked(b, p, now)
           d == Applied(b, p, m, FALSE, now)
<1>1. now \in Nat /\ now > 1 /\ turns \in Nat /\ p.row \in Row \cup {None}
  BY NowFacts, EndFacts DEF Page, TypeOK
<1>2. m \in Mark /\ ~m.unread /\ ReadsOn(p.row, Latest(p), m)
  BY <1>1, SeenTypes, ReadThroughType, ReadThroughReads
<1>3. \/ q = p /\ ~(p.view = "dwelled" /\ (p.row = None \/ ~p.row.unread \/ p.armed))
      \/ q = d /\ p.view = "dwelled" /\ (p.row = None \/ ~p.row.unread \/ p.armed)
  BY DEF Looked
<1>4. m \in Mark /\ FALSE \in BOOLEAN /\ now \in Nat /\ now > 1
  BY <1>1, <1>2
<1> HIDE DEF m
<1>5. d \in Page /\ d.armed = p.armed
  <2>1. Steps(b, p, d) /\ d.armed = p.armed
    BY <1>4, AppliedSteps
  <2> QED BY <2>1 DEF Steps
<1>6. /\ d.board = p.board /\ d.text = p.text /\ d.pulled = p.pulled /\ d.view = p.view
      /\ d.row \in Row
      /\ d.row.turn = m.turn /\ d.row.pos = m.pos /\ d.row.at = m.at /\ d.row.unread = m.unread
  BY <1>4, AppliedMarker
<1> HIDE DEF q, d
<1>7. ReadsOn(p.row, Latest(p), d.row) /\ ~d.row.unread
  BY <1>2, <1>6 DEF ReadsOn
<1> QED BY <1>3, <1>5, <1>6, <1>7 DEF q

\* After an event a page shows the row it was left with or reads on from it;
\* only an event that changed what the page shows reads.
LEMMA EventReads ==
  ASSUME TypeOK, NEW b \in Browsers, NEW p \in Page, NEW changed \in BOOLEAN, Event(b, p, changed),
         p.row # None => p.row.at <= now,
         changed \/ (p.armed => p.view # "dwelled")
  PROVE  \E q \in Page :
            /\ page' = [page EXCEPT ![b] = q] /\ turns' = turns /\ server' = server
            /\ q.board = p.board /\ q.pulled = p.pulled
            /\ q.armed => q.view # "dwelled"
            /\ \/ q.row = p.row
               \/ /\ q.row \in Row /\ ReadsOn(p.row, Latest(p), q.row)
                  /\ p.row # None => /\ changed /\ p.view = "dwelled"
                                     /\ ~p.row.unread \/ p.armed
<1> DEFINE ready == [p EXCEPT !.armed = NextArmed(p)]
           runs == changed \/ ready.armed # p.armed
           seeded == IF runs THEN Seeded(b, ready, now) ELSE ready
           done == IF runs THEN Looked(b, seeded, now) ELSE seeded
           held == /\ done.row # None /\ done.row.unread /\ done.view # "away"
                   /\ done.held \/ page[b].row = None \/ ~page[b].row.unread
           q == [done EXCEPT !.armed = NextArmed(done), !.held = held]
<1>1. now \in Nat /\ now > 1
  BY NowFacts
<1>2. NextArmed(p) \in BOOLEAN
  BY DEF NextArmed
<1>3. /\ ready \in Page /\ ready.row = p.row /\ ready.view = p.view /\ ready.board = p.board
      /\ ready.text = p.text /\ ready.pulled = p.pulled /\ ready.armed = NextArmed(p)
  BY <1>2 DEF Page
<1>4. page' = [page EXCEPT ![b] = q] /\ turns' = turns /\ server' = server
  <2> DEFINE Final(d) == [d EXCEPT !.armed = NextArmed(d),
                                   !.held = /\ d.row # None /\ d.row.unread /\ d.view # "away"
                                            /\ @ \/ page[b].row = None \/ ~page[b].row.unread]
             Ends3(d) == page' = [page EXCEPT ![b] = Final(d)] /\ turns' = turns /\ server' = server
             Ends2(a, s) == \E d \in {IF changed \/ a.armed # p.armed THEN Looked(b, s, now) ELSE s} : Ends3(d)
             Ends1(a) == \E s \in {IF changed \/ a.armed # p.armed THEN Seeded(b, a, now) ELSE a} : Ends2(a, s)
  <2>1. \E a \in {ready} : Ends1(a)
    BY DEF Event
  <2> HIDE DEF ready, Ends1
  <2>2. Ends1(ready)
    BY <2>1
  <2> HIDE DEF Ends2
  <2>3. Ends2(ready, seeded)
    BY <2>2 DEF Ends1
  <2> HIDE DEF Ends3, seeded
  <2>4. Ends3(done)
    BY <2>3 DEF Ends2
  <2> HIDE DEF done
  <2>5. Final(done) = q
    OBVIOUS
  <2> QED BY <2>4, <2>5 DEF Ends3
<1> HIDE DEF ready
<1>5. Latest(ready) = Latest(p)
  BY <1>3, LatestOf
<1>6. /\ seeded \in Page /\ seeded.board = p.board /\ seeded.text = p.text /\ seeded.pulled = p.pulled
      /\ seeded.view = p.view /\ seeded.armed = ready.armed
      /\ seeded.row = p.row \/ (p.row = None /\ seeded.row \in Row /\ ReadsOn(None, None, seeded.row))
  BY <1>3, SeededReads
<1> HIDE DEF runs, seeded
<1>7. Latest(seeded) = Latest(p) /\ (seeded.row # None => seeded.row.at <= now)
  BY <1>6, LatestOf DEF ReadsOn
<1>8. /\ done \in Page /\ done.board = p.board /\ done.pulled = p.pulled
      /\ done.view = p.view /\ done.armed = ready.armed
      /\ runs /\ p.view = "dwelled" /\ seeded.row # None /\ seeded.row.unread /\ ready.armed
         => ~done.row.unread
      /\ \/ done.row = seeded.row
         \/ /\ done.row \in Row /\ ReadsOn(seeded.row, Latest(p), done.row) /\ p.view = "dwelled"
            /\ seeded.row # None => ~seeded.row.unread \/ ready.armed
            /\ runs
  BY <1>6, <1>7, LookedReads
<1> HIDE DEF done
<1>9. NextArmed(done) \in BOOLEAN /\ held \in BOOLEAN
  BY DEF NextArmed
<1> HIDE DEF held
<1>10. /\ q \in Page /\ q.row = done.row /\ q.board = done.board /\ q.pulled = done.pulled
       /\ q.view = done.view /\ q.armed = NextArmed(done)
  BY <1>8, <1>9 DEF Page
<1> HIDE DEF q
\* What arms in the dwell was armed before, and so has been read.
<1>11. p.view = "dwelled" /\ ~p.armed => ~ready.armed
  BY <1>3 DEF NextArmed
<1>12. p.view = "dwelled" /\ p.row # None /\ ready.armed => p.armed /\ p.row.unread /\ changed
  BY <1>3, <1>11 DEF NextArmed
<1>13. ready.armed => p.row # None /\ p.row.unread
  BY <1>3 DEF NextArmed
<1>14. q.armed => q.view # "dwelled"
  <2> SUFFICES ASSUME q.armed, q.view = "dwelled" PROVE FALSE
    OBVIOUS
  <2>1. done.row.unread /\ ready.armed /\ p.view = "dwelled"
    BY <1>8, <1>10 DEF NextArmed
  <2>2. p.row # None /\ p.row.unread /\ changed
    BY <2>1, <1>12, <1>13
  <2>3. seeded.row = p.row
    BY <2>2, <1>6
  <2>4. runs
    BY <2>2 DEF runs
  <2> QED BY <2>1, <2>2, <2>3, <2>4, <1>8
<1>15. CASE q.row = p.row
  BY <1>4, <1>8, <1>10, <1>14, <1>15
<1>16. CASE q.row # p.row /\ p.row = None
  <2>1. q.row \in Row /\ ReadsOn(None, Latest(p), q.row)
    <3>1. CASE seeded.row = None
      BY <3>1, <1>8, <1>10, <1>16
    <3>2. CASE seeded.row # None /\ done.row = seeded.row
      BY <3>2, <1>6, <1>10, <1>16 DEF ReadsOn
    <3>3. CASE seeded.row # None /\ done.row # seeded.row
      BY <3>3, <1>6, <1>8, <1>10, <1>16 DEF ReadsOn
    <3> QED BY <3>1, <3>2, <3>3
  <2> QED BY <2>1, <1>4, <1>8, <1>10, <1>14, <1>16
<1>17. CASE q.row # p.row /\ p.row # None
  <2>1. seeded.row = p.row
    BY <1>6, <1>17
  <2>2. /\ q.row \in Row /\ ReadsOn(p.row, Latest(p), q.row) /\ p.view = "dwelled"
        /\ ~p.row.unread \/ ready.armed
        /\ runs
    BY <2>1, <1>8, <1>10, <1>17
  <2>3. ~p.row.unread \/ p.armed
    BY <2>2, <1>12, <1>17
  <2>4. changed
    <3>1. CASE ready.armed # p.armed
      <4>1. p.armed
        BY <3>1, <2>2, <1>2, <1>3, <1>11 DEF Page
      <4> QED BY <4>1, <2>2
    <3>2. CASE ready.armed = p.armed
      BY <3>2, <2>2 DEF runs
    <3> QED BY <3>1, <3>2
  <2> QED BY <2>2, <2>3, <2>4, <1>4, <1>8, <1>10, <1>14
<1> QED BY <1>15, <1>16, <1>17

\* Where positions lie.
LEMMA WithinFacts ==
  /\ \A pos, k, l : k \in Nat /\ l \in Nat /\ k <= l /\ Within(pos, k) => Within(pos, l)
  /\ \A k \in Turns : k > 0 => Within(Ends[k], k) /\ Within(Before(Ends[k]), k)
  /\ \A k \in Nat : Within(None, k)
<1>1. ASSUME NEW pos, NEW k \in Nat, NEW l \in Nat, k <= l, Within(pos, k) PROVE Within(pos, l)
  <2>1. CASE pos = None
    BY <2>1 DEF Within
  <2>2. CASE pos # None
    <3>1. PICK i \in 1..k : Ends[i].session = pos.session /\ pos.offset <= Ends[i].offset
      BY <1>1, <2>2 DEF Within
    <3>2. i \in 1..l
      BY <1>1
    <3> QED BY <3>1, <3>2 DEF Within
  <2> QED BY <2>1, <2>2
<1>2. ASSUME NEW k \in Turns, k > 0 PROVE Within(Ends[k], k) /\ Within(Before(Ends[k]), k)
  <2> DEFINE pos == Ends[k]
             same == {i \in 1..Len(Ends) : Ends[i].session = pos.session /\ Ends[i].offset < pos.offset}
  <2>1. k \in 1..Len(Ends) /\ k \in 1..k
    BY <1>2, EndFacts
  <2>2. pos \in [session : STRING, offset : Nat]
    BY <2>1, EndFacts
  <2>3. Within(pos, k)
    BY <2>1, <2>2 DEF Within
  <2>4. CASE same = {}
    <3>1. Before(pos) = [pos EXCEPT !.offset = 0]
      BY <2>4 DEF Before
    <3>2. Before(pos).session = pos.session /\ Before(pos).offset = 0
      BY <2>2, <3>1
    <3> QED BY <2>1, <2>2, <2>3, <3>2 DEF Within
  <2>5. CASE same # {}
    <3>1. PICK i \in 1..Len(Ends) : i \in same /\ Before(pos) = Ends[i]
      <4> DEFINE last == CHOOSE i \in same : \A j \in same : Ends[j].offset <= Ends[i].offset
                 offsets == {Ends[i].offset : i \in same}
      <4>1. offsets \subseteq 0..pos.offset /\ offsets # {}
        <5>1. ASSUME NEW i \in same PROVE Ends[i].offset \in 0..pos.offset
          <6>1. Ends[i].offset \in Nat /\ Ends[i].offset < pos.offset
            BY EndFacts
          <6> QED BY <6>1, <2>2
        <5> QED BY <5>1, <2>5
      <4>2. pos.offset \in Nat
        BY <2>2
      <4>3. PICK o \in offsets : \A x \in offsets : x <= o
        BY <4>1, <4>2, HasHighest
      <4>4. PICK i \in same : o = Ends[i].offset
        BY <4>3
      <4>5. \A j \in same : Ends[j].offset <= Ends[i].offset
        BY <4>3, <4>4
      <4>6. last \in same
        BY <4>5
      <4>7. Before(pos) = Ends[last]
        BY <2>5 DEF Before
      <4> HIDE DEF last
      <4> QED BY <4>6, <4>7
    <3>2. Before(pos).session = pos.session /\ Before(pos).offset <= pos.offset
      <4>1. Ends[i].session = pos.session /\ Ends[i].offset < pos.offset /\ Ends[i].offset \in Nat
        BY <3>1, EndFacts
      <4> QED BY <4>1, <3>1, <2>2
    <3> QED BY <2>1, <2>3, <3>2 DEF Within
  <2> QED BY <2>3, <2>4, <2>5
<1>3. \A k \in Nat : Within(None, k)
  BY DEF Within
<1> QED BY <1>1, <1>2, <1>3

LEMMA LatestWithin ==
  ASSUME NEW p \in Page
  PROVE  Latest(p) # None => /\ p.board > 0 /\ Latest(p) = Ends[p.board]
                             /\ Within(Latest(p), p.board) /\ Within(Before(Latest(p)), p.board)
<1>1. p.board \in Turns
  BY DEF Page
<1> QED BY <1>1, WithinFacts DEF Latest

\* The step of browser b that leaves page q.
Lands(b, q) ==
    /\ q \in Page /\ page' = [page EXCEPT ![b] = q] /\ turns' = turns /\ server' = server
    /\ InTime(q)
    /\ q.row # None => q.row.at <= now /\ Within(q.row.pos, turns)
    /\ KeepsRead(page[b].row, q.row)

LEMMA LandsTimely ==
  ASSUME TypeOK, Timely, NEW b \in Browsers, NEW q, Lands(b, q)
  PROVE  Timely'
<1>1. page' = [page EXCEPT ![b] = q] /\ turns' = turns /\ server' = server /\ page \in [Browsers -> Page]
  BY DEF Lands, TypeOK
<1>2. now' = now
  BY <1>1 DEF now
<1>3. \A r \in Rows' : r \in Rows \/ (r = q.row /\ r # None)
  BY <1>1 DEF Rows
<1>4. ASSUME NEW r \in Rows' PROVE r.at <= now /\ Within(r.pos, turns)
  BY <1>3, <1>4 DEF Timely, Lands
<1>5. ASSUME NEW x \in Browsers PROVE InTime(page[x])
  BY DEF Timely
<1>6. ASSUME NEW x \in Browsers PROVE InTime(page'[x])
  <2>1. page'[x] = IF x = b THEN q ELSE page[x]
    BY <1>1
  <2> QED BY <2>1, <1>5 DEF Lands
<1> QED BY <1>1, <1>2, <1>4, <1>6 DEF Timely, InTime, Within

\* What an event leaves is in time when what it was left with is.
LEMMA EventInTime ==
  ASSUME TypeOK, NEW b \in Browsers, NEW p \in Page, NEW changed \in BOOLEAN, Event(b, p, changed),
         p.board <= turns,
         p.row # None => p.row.at <= now /\ Within(p.row.pos, turns),
         ~p.pulled /\ p.board > 0 /\ p.row # None => Within(p.row.pos, p.board),
         changed \/ (p.armed => p.view # "dwelled")
  PROVE  \E q \in Page :
            /\ page' = [page EXCEPT ![b] = q] /\ turns' = turns /\ server' = server
            /\ InTime(q)
            /\ q.row # None => q.row.at <= now /\ Within(q.row.pos, turns)
            /\ \/ q.row = p.row
               \/ /\ q.row \in Row /\ ReadsOn(p.row, Latest(p), q.row)
                  /\ p.row # None => /\ changed /\ p.view = "dwelled"
                                     /\ ~p.row.unread \/ p.armed
<1>1. PICK q \in Page :
            /\ page' = [page EXCEPT ![b] = q] /\ turns' = turns /\ server' = server
            /\ q.board = p.board /\ q.pulled = p.pulled
            /\ q.armed => q.view # "dwelled"
            /\ \/ q.row = p.row
               \/ /\ q.row \in Row /\ ReadsOn(p.row, Latest(p), q.row)
                  /\ p.row # None => /\ changed /\ p.view = "dwelled"
                                     /\ ~p.row.unread \/ p.armed
  BY EventReads
<1>2. turns \in Nat /\ p.board \in Nat
  BY EndFacts DEF TypeOK, Page
<1>3. CASE q.row = p.row
  BY <1>1, <1>3 DEF InTime
<1>4. CASE q.row # p.row
  <2>1. q.row \in Row /\ ReadsOn(p.row, Latest(p), q.row)
    BY <1>1, <1>4
  <2>2. q.row.at <= now /\ (q.row.pos \in {None, Latest(p)} \/ (p.row # None /\ q.row.pos = p.row.pos))
    BY <2>1 DEF ReadsOn
  <2>3. \A k \in Nat : Within(None, k)
    BY WithinFacts
  <2>4. Latest(p) # None => Within(Latest(p), p.board) /\ Within(Latest(p), turns)
    BY <1>2, LatestWithin, WithinFacts
  <2>5. Within(q.row.pos, turns)
    BY <1>2, <2>2, <2>3, <2>4
  <2>6. ~p.pulled /\ p.board > 0 => Within(q.row.pos, p.board)
    BY <1>2, <2>2, <2>3, <2>4
  <2>7. InTime(q)
    BY <1>1, <2>6 DEF InTime
  <2> QED BY <1>1, <2>2, <2>5, <2>7
<1> QED BY <1>3, <1>4

\* Reading on from a row, or leaving it, puts nothing back.
LEMMA ReadOrKept ==
  ASSUME TypeOK, NEW r \in Row \cup {None}, NEW latest \in Positions, NEW s,
         r # None => r.at <= now,
         s = r \/ (s \in Row /\ ReadsOn(r, latest, s))
  PROVE  KeepsRead(r, s)
<1>1. CASE r = None
  BY <1>1 DEF KeepsRead
<1>2. CASE r # None /\ s = r
  BY <1>2, KeptReadKept
<1>3. CASE r # None /\ s # r
  <2>1. turns \in Nat
    BY EndFacts DEF TypeOK
  <2> QED BY <2>1, <1>3, ReadsOnKeeps
<1> QED BY <1>1, <1>2, <1>3

LEMMA ShowLands ==
  ASSUME TypeOK, Timely, NEW b \in Browsers, Shows(b)
  PROVE  \E q : Lands(b, q)
<1>1. PICK p \in Page :
         /\ p.row = page[b].row
         /\ p.board \in {page[b].board, turns} /\ (p.pulled \/ p.pulled = page[b].pulled)
         /\ Event(b, p, TRUE)
  BY DEF Shows
<1>2. /\ p.row \in Row \cup {None} /\ Latest(p) \in Positions /\ turns \in Nat
      /\ p.row # None => p.row \in Rows
  BY <1>1, RowsTyped, SeenTypes, EndFacts DEF TypeOK
<1>3. p.row # None => p.row.at <= now /\ Within(p.row.pos, turns)
  BY <1>2 DEF Timely
<1>4. InTime(page[b])
  BY DEF Timely
<1>5. p.board <= turns
  BY <1>1, <1>2, <1>4 DEF InTime
<1>6. ~p.pulled /\ p.board > 0 /\ p.row # None => Within(p.row.pos, p.board)
  BY <1>1, <1>3, <1>4 DEF InTime
<1>7. PICK q \in Page :
            /\ page' = [page EXCEPT ![b] = q] /\ turns' = turns /\ server' = server
            /\ InTime(q)
            /\ q.row # None => q.row.at <= now /\ Within(q.row.pos, turns)
            /\ q.row = p.row \/ (q.row \in Row /\ ReadsOn(p.row, Latest(p), q.row))
  <2>1. PICK changed \in BOOLEAN : changed /\ Event(b, p, changed)
    BY <1>1
  <2>2. changed \/ (p.armed => p.view # "dwelled")
    BY <2>1
  <2>3. \E q \in Page :
            /\ page' = [page EXCEPT ![b] = q] /\ turns' = turns /\ server' = server
            /\ InTime(q)
            /\ q.row # None => q.row.at <= now /\ Within(q.row.pos, turns)
            /\ \/ q.row = p.row
               \/ /\ q.row \in Row /\ ReadsOn(p.row, Latest(p), q.row)
                  /\ p.row # None => /\ changed /\ p.view = "dwelled"
                                     /\ ~p.row.unread \/ p.armed
    <3>1. TypeOK /\ b \in Browsers /\ p \in Page /\ changed \in BOOLEAN /\ Event(b, p, changed)
      BY <2>1
    <3>2. p.board <= turns
      BY <1>5
    <3>3. p.row # None => p.row.at <= now /\ Within(p.row.pos, turns)
      BY <1>3
    <3>4. ~p.pulled /\ p.board > 0 /\ p.row # None => Within(p.row.pos, p.board)
      BY <1>6
    <3>5. changed \/ (p.armed => p.view # "dwelled")
      BY <2>2
    <3> QED BY <3>1, <3>2, <3>3, <3>4, <3>5, EventInTime
  <2> QED BY <2>3
<1>8. KeepsRead(page[b].row, q.row)
  BY <1>1, <1>2, <1>3, <1>7, ReadOrKept
<1> QED BY <1>7, <1>8 DEF Lands

\* A page that is loaded again shows the row it had.
LEMMA ReloadLands ==
  ASSUME TypeOK, Timely, NEW b \in Browsers, Reload(b)
  PROVE  \E q : Lands(b, q)
<1> DEFINE view == IF page[b].view = "away" THEN "away" ELSE "restoring"
           armed == page[b].view = "away" /\ page[b].row # None /\ page[b].row.unread
           q == [NewPage EXCEPT !.row = page[b].row, !.queue = page[b].queue, !.held = page[b].held,
                                !.view = view, !.armed = armed]
<1>1. page[b] \in Page /\ turns \in Nat
  BY EndFacts DEF TypeOK
<1>2. page' = [page EXCEPT ![b] = q] /\ turns' = turns /\ server' = server
  BY DEF Reload
<1>3. view \in {"away", "restoring"} /\ armed \in BOOLEAN
  OBVIOUS
<1> HIDE DEF view, armed
<1>4. NewPage \in Page /\ NewPage.board = 0
  <2>1. 0 \in Turns
    BY EndFacts
  <2> QED BY <2>1 DEF NewPage, Page
<1>5. q \in Page /\ q.row = page[b].row /\ q.view = view /\ q.board = 0
  BY <1>1, <1>3, <1>4 DEF Page
<1> HIDE DEF q
<1>6. InTime(q)
  BY <1>1, <1>3, <1>5 DEF InTime
<1>7. page[b].row # None => page[b].row \in Row /\ page[b].row \in Rows
  BY RowsTyped
<1>8. q.row # None => q.row.at <= now /\ Within(q.row.pos, turns)
  BY <1>5, <1>7 DEF Timely
<1>9. KeepsRead(page[b].row, q.row)
  <2>1. CASE page[b].row = None
    BY <2>1 DEF KeepsRead
  <2>2. CASE page[b].row # None
    BY <2>2, <1>5, <1>7, KeptReadKept
  <2> QED BY <2>1, <2>2
<1> QED BY <1>2, <1>5, <1>6, <1>8, <1>9 DEF Lands

\* An entry of the transcript up to turn k is no further than turn k's last.
LEMMA WithinBehind ==
  ASSUME NEW k \in Turns, k > 0, Ends[k] # None,
         NEW pos \in Positions, Within(pos, k), NEW at \in Nat, NEW t \in Nat, at <= t
  PROVE  ~Further(pos, at, Ends[k], t)
<1>1. k \in 1..Len(Ends) /\ Ends[k] \in [session : STRING, offset : Nat] /\ Ends[k] \in Positions
  BY EndFacts
<1>2. CASE pos = None
  BY <1>2 DEF Further
<1>3. CASE pos # None
  <2>1. PICK i \in 1..k : Ends[i].session = pos.session /\ pos.offset <= Ends[i].offset
    BY <1>3 DEF Within
  <2>2. i \in 1..Len(Ends) /\ i <= k /\ 1..Len(Ends) = DOMAIN Ends
    <3>1. DOMAIN Ends = 1..Len(Ends)
      BY AttentionAssumption
    <3> QED BY <3>1, <1>1, EndFacts
  <2>3. Ends[i].offset \in Nat /\ Ends[k].offset \in Nat
    BY <2>2, <1>1, EndFacts
  <2>4. Ends[i].session = Ends[k].session => Ends[i].offset <= Ends[k].offset
    BY <2>2, <1>1, AttentionAssumption
  <2>5. pos.offset \in Nat
    <3>1. CASE \E j \in 1..Len(Ends), o \in 0..Ends[Len(Ends)].offset :
                  pos = [session |-> Ends[j].session, offset |-> o]
      <4>1. PICK j \in 1..Len(Ends), o \in 0..Ends[Len(Ends)].offset :
                  pos = [session |-> Ends[j].session, offset |-> o]
        BY <3>1
      <4>2. Ends[Len(Ends)].offset \in Nat
        BY <1>1, EndFacts
      <4>3. o \in Nat
        BY <4>2
      <4> QED BY <4>1, <4>3
    <3>2. CASE \E j \in 1..Len(Ends) : pos = Ends[j]
      BY <3>2, EndFacts
    <3> QED BY <3>1, <3>2, <1>3 DEF Positions
  <2>6. CASE pos.session = Ends[k].session
    <3>1. ~(pos.offset > Ends[k].offset)
      BY <2>1, <2>3, <2>4, <2>5, <2>6
    <3> QED BY <3>1, <2>6 DEF Further
  <2>7. CASE pos.session # Ends[k].session
    <3>1. ~(at > t)
      OBVIOUS
    <3> QED BY <3>1, <2>7 DEF Further
  <2> QED BY <2>6, <2>7
<1> QED BY <1>2, <1>3

\* Reading on from the row a first pull merged puts nothing back of the row
\* the page held before, all of which its board told of.
LEMMA ReadsOnMerged ==
  ASSUME TypeOK, NEW r \in Row, NEW mid \in Row, NEW p \in Page, NEW s \in Row,
         r.at <= now, mid.at <= now, KeepsRead(r, mid), ~mid.unread,
         p.board > 0 => Within(r.pos, p.board),
         ReadsOn(mid, Latest(p), s)
  PROVE  KeepsRead(r, s)
<1> SUFFICES ASSUME r.updated # Weak
             PROVE  s.turn >= r.turn /\ ~Further(r.pos, r.at, s.pos, s.at)
  BY DEF KeepsRead
<1>1. /\ r.turn \in Nat /\ r.at \in Nat /\ r.pos \in Positions /\ r # None
      /\ mid.turn \in Nat /\ mid.at \in Nat /\ mid.pos \in Positions /\ mid # None
      /\ s.turn \in Nat /\ s.at \in Nat /\ s.pos \in Positions /\ now \in Nat
      /\ p.board \in Turns
  BY RowFacts, EndFacts, NowFacts DEF Page
<1>2. mid.turn >= r.turn /\ ~Further(r.pos, r.at, mid.pos, mid.at)
  BY <1>1 DEF KeepsRead
<1>3. mid.turn <= s.turn /\ mid.at <= s.at
  BY <1>1 DEF ReadsOn
<1>4. CASE s.pos = mid.pos
  <2>1. ~Further(r.pos, r.at, mid.pos, s.at)
    BY <1>1, <1>2, <1>3, FurtherRises
  <2> QED BY <2>1, <1>1, <1>2, <1>3, <1>4
<1>5. CASE s.pos = Latest(p) /\ s.at = now /\ Further(Latest(p), now, mid.pos, mid.at)
  <2>1. Latest(p) # None
    BY <1>5 DEF Further
  <2>2. p.board > 0 /\ Latest(p) = Ends[p.board]
    BY <2>1 DEF Latest
  <2>3. ~Further(r.pos, r.at, Ends[p.board], now)
    BY <2>1, <2>2, <1>1, WithinBehind
  <2> QED BY <2>2, <2>3, <1>1, <1>2, <1>3, <1>5
<1> QED BY <1>1, <1>4, <1>5 DEF ReadsOn

LEMMA PullLands ==
  ASSUME TypeOK, Timely, NEW b \in Browsers, Pull(b)
  PROVE  \E q : Lands(b, q)
<1> DEFINE own == page[b]
           merged == IF server = None THEN own ELSE Merged(b, own, server, now)
           sends == merged.full /\ merged.row # None /\ (server = None \/ Newer(merged.row, server))
           queue == merged.queue \/ sends
           p == [merged EXCEPT !.queue = queue, !.behind = FALSE, !.full = FALSE, !.pulled = TRUE]
<1>1. own \in Page /\ now \in Nat /\ turns \in Nat /\ server \in Row \cup {None}
  BY NowFacts, EndFacts DEF TypeOK
<1>2. own.row \in Row \cup {None} /\ (own.row # None => own.row \in Rows)
  BY RowsTyped
<1>3. server # None => server \in Rows
  BY DEF Rows
<1>4. Event(b, p, ~merged.pulled)
  <2> DEFINE Goes(d) == LET send == d.full /\ d.row # None /\ (server = None \/ Newer(d.row, server))
                        IN  Event(b, [d EXCEPT !.queue = @ \/ send, !.behind = FALSE, !.full = FALSE,
                                               !.pulled = TRUE], ~d.pulled)
  <2>1. \E d \in {merged} : Goes(d)
    BY DEF Pull
  <2> HIDE DEF merged, Goes
  <2>2. Goes(merged)
    BY <2>1
  <2> QED BY <2>2 DEF Goes
<1>5. /\ merged \in Page /\ merged.view = own.view /\ merged.armed = own.armed
      /\ merged.pulled = own.pulled
  <2>1. CASE server = None
    BY <2>1, <1>1
  <2>2. CASE server # None
    BY <2>2, <1>1, MergedSteps
  <2> QED BY <2>1, <2>2
<1>6. /\ merged.board = own.board /\ merged.text = own.text
      /\ own.row # None => merged.row # None /\ KeepsRead(own.row, merged.row)
      /\ merged.row # None => merged.row.at <= now /\ Within(merged.row.pos, turns)
  <2>1. \A r \in Rows : r.at <= now /\ Within(r.pos, turns)
    BY DEF Timely
  <2>2. CASE server = None
    BY <2>1, <2>2, <1>2, KeptReadKept
  <2>3. CASE server # None
    <3> HIDE DEF own
    <3>1. merged = Merged(b, own, server, now) /\ server \in Row
      BY <2>3, <1>1
    <3> HIDE DEF merged
    <3>2. /\ merged.board = own.board /\ merged.text = own.text
          /\ merged.row.at = server.at \/ (own.row # None /\ merged.row.at = own.row.at)
          /\ merged.row.pos = server.pos \/ (own.row # None /\ merged.row.pos = own.row.pos)
          /\ own.row # None => KeepsRead(own.row, merged.row)
      BY <3>1, <1>1, MergedKeeps
    <3>3. merged.row # None
      BY <3>1, <1>1, MergedSteps
    <3> QED BY <3>2, <3>3, <2>1, <2>3, <1>2, <1>3
  <2> QED BY <2>2, <2>3
<1>7. queue \in BOOLEAN /\ merged.pulled \in BOOLEAN
  <2>1. merged.queue \in BOOLEAN /\ merged.full \in BOOLEAN /\ merged.pulled \in BOOLEAN
    BY <1>5 DEF Page
  <2> QED BY <2>1 DEF Newer
<1>8. own.row # None => own.row.at <= now
  BY <1>2 DEF Timely
<1>9. InTime(own)
  BY DEF Timely
<1> HIDE DEF own, merged, queue
<1>10. /\ p \in Page /\ p.row = merged.row /\ p.board = own.board /\ p.text = own.text
       /\ p.pulled = TRUE /\ p.view = own.view /\ p.armed = own.armed
  BY <1>5, <1>6, <1>7 DEF Page
<1> HIDE DEF p
<1>11. PICK changed \in BOOLEAN : Event(b, p, changed) /\ (changed = ~own.pulled)
  BY <1>4, <1>5, <1>7
<1>12. PICK q \in Page :
            /\ page' = [page EXCEPT ![b] = q] /\ turns' = turns /\ server' = server
            /\ InTime(q)
            /\ q.row # None => q.row.at <= now /\ Within(q.row.pos, turns)
            /\ \/ q.row = p.row
               \/ /\ q.row \in Row /\ ReadsOn(p.row, Latest(p), q.row)
                  /\ p.row # None => /\ changed /\ p.view = "dwelled"
                                     /\ ~p.row.unread \/ p.armed
  <2>1. TypeOK /\ b \in Browsers /\ p \in Page /\ changed \in BOOLEAN /\ Event(b, p, changed)
    BY <1>10, <1>11
  <2>2. p.board <= turns
    BY <1>9, <1>10 DEF InTime
  <2>3. p.row # None => p.row.at <= now /\ Within(p.row.pos, turns)
    BY <1>6, <1>10
  <2>4. ~p.pulled /\ p.board > 0 /\ p.row # None => Within(p.row.pos, p.board)
    BY <1>10
  <2>5. changed \/ (p.armed => p.view # "dwelled")
    BY <1>9, <1>10 DEF InTime
  <2> QED BY <2>1, <2>2, <2>3, <2>4, <2>5, EventInTime
<1>13. KeepsRead(own.row, q.row)
  <2>1. CASE own.row = None
    BY <2>1 DEF KeepsRead
  <2>2. CASE own.row # None /\ q.row = p.row
    BY <2>2, <1>6, <1>10
  <2>3. CASE own.row # None /\ q.row # p.row
    <3>1. /\ own.row \in Row /\ p.row \in Row /\ q.row \in Row
          /\ KeepsRead(own.row, p.row) /\ own.row.at <= now /\ p.row.at <= now
      BY <2>3, <1>2, <1>6, <1>8, <1>10, <1>12 DEF Page
    <3>2. p.row # None
      BY <3>1, RowFacts
    <3>3. changed /\ ~p.row.unread
      BY <2>3, <3>2, <1>9, <1>10, <1>12 DEF InTime
    <3>4. p.board > 0 => Within(own.row.pos, p.board)
      BY <2>3, <3>3, <1>9, <1>10, <1>11 DEF InTime
    <3>5. ReadsOn(p.row, Latest(p), q.row)
      BY <2>3, <1>12
    <3> QED BY <3>1, <3>3, <3>4, <3>5, <1>10, ReadsOnMerged
  <2> QED BY <2>1, <2>2, <2>3
<1> QED BY <1>12, <1>13 DEF Lands, own

\* What the owner's write leaves.
LEMMA WritesLeaves ==
  ASSUME TypeOK, NEW b \in Browsers, NEW p \in Page, NEW m \in Mark, Writes(b, p, m)
  PROVE  \E q \in Page :
            /\ page' = [page EXCEPT ![b] = q] /\ turns' = turns /\ server' = server
            /\ q.board = p.board /\ q.pulled = p.pulled /\ q.view = p.view
            /\ q.row \in Row
            /\ q.row.turn = m.turn /\ q.row.pos = m.pos /\ q.row.at = m.at /\ q.row.unread = m.unread
            /\ q.armed => m.unread /\ (p.armed \/ q.view = "away")
<1> DEFINE done == Applied(b, p, m, FALSE, now)
           held == done.held /\ done.row.unread
           q == [done EXCEPT !.armed = NextArmed(done), !.held = held]
<1>1. now \in Nat /\ now > 1 /\ FALSE \in BOOLEAN
  BY NowFacts
<1>2. Steps(b, p, done) /\ done.armed = p.armed
  BY <1>1, AppliedSteps
<1>3. /\ done.board = p.board /\ done.pulled = p.pulled /\ done.view = p.view /\ done.row \in Row
      /\ done.row.turn = m.turn /\ done.row.pos = m.pos /\ done.row.at = m.at /\ done.row.unread = m.unread
  BY <1>1, AppliedMarker
<1>4. page' = [page EXCEPT ![b] = q] /\ turns' = turns /\ server' = server
  <2> DEFINE Final(d) == [d EXCEPT !.armed = NextArmed(d), !.held = @ /\ d.row.unread]
             Leaves(d) == page' = [page EXCEPT ![b] = Final(d)] /\ turns' = turns /\ server' = server
  <2>1. \E d \in {done} : Leaves(d)
    BY DEF Writes
  <2> HIDE DEF done, Leaves
  <2>2. Leaves(done)
    BY <2>1
  <2>3. Final(done) = q
    OBVIOUS
  <2> QED BY <2>2, <2>3 DEF Leaves
<1> HIDE DEF done
<1>5. done \in Page
  BY <1>2 DEF Steps
<1>6. NextArmed(done) \in BOOLEAN /\ held \in BOOLEAN
  BY DEF NextArmed
<1>7. NextArmed(done) => m.unread /\ (p.armed \/ done.view = "away")
  BY <1>2, <1>3 DEF NextArmed
<1> HIDE DEF held
<1>8. /\ q \in Page /\ q.row = done.row /\ q.board = done.board /\ q.pulled = done.pulled
      /\ q.view = done.view /\ q.armed = NextArmed(done)
  BY <1>5, <1>6 DEF Page
<1> HIDE DEF q
<1> QED BY <1>3, <1>4, <1>7, <1>8

\* A mark unread goes back to an entry the page's board tells of.
LEMMA MarkUnreadLands ==
  ASSUME TypeOK, Timely, NEW b \in Browsers, MarkUnread(b)
  PROVE  \E q : Lands(b, q)
<1> DEFINE own == page[b]
           p == Disarmed(own)
           m == UnreadMark(own)
<1>1. own \in Page /\ turns \in Nat /\ own.board \in Turns /\ own.board \in Nat
  BY EndFacts DEF TypeOK, Page
<1>2. own.row # None => own.row.at <= now /\ Within(own.row.pos, turns)
  BY RowsTyped DEF Timely
<1>3. InTime(own)
  BY DEF Timely
<1>4. m \in Mark /\ m.unread = TRUE
  BY <1>1, UnreadMarkType
<1>5. /\ m.at = IF own.row = None THEN 0 ELSE own.row.at
      /\ m.pos = IF Latest(own) # None THEN Before(Latest(own))
                 ELSE IF own.row = None THEN None ELSE own.row.pos
  BY DEF UnreadMark, NoMarker
<1>6. Writes(b, p, m)
  BY MarkUnreadSteps
<1> HIDE DEF own, m
<1>7. /\ p \in Page /\ p.board = own.board /\ p.pulled = own.pulled /\ ~p.armed
  BY <1>1 DEF Page, Disarmed
<1>8. \A k \in Nat : Within(None, k)
  BY WithinFacts
<1>9. Latest(own) # None => Within(m.pos, own.board) /\ Within(m.pos, turns)
  <2> SUFFICES ASSUME Latest(own) # None PROVE Within(m.pos, own.board) /\ Within(m.pos, turns)
    OBVIOUS
  <2>1. m.pos = Before(Latest(own)) /\ Within(m.pos, own.board)
    BY <1>1, <1>5, LatestWithin
  <2>2. own.board <= turns
    BY <1>3 DEF InTime
  <2> QED BY <2>1, <2>2, <1>1, WithinFacts
<1>10. m.at <= now /\ Within(m.pos, turns)
  <2>1. 0 <= now
    BY <1>1 DEF now
  <2> QED BY <2>1, <1>1, <1>2, <1>5, <1>8, <1>9
<1>11. ~own.pulled /\ own.board > 0 => Within(m.pos, own.board)
  BY <1>1, <1>3, <1>5, <1>8, <1>9 DEF InTime
<1> HIDE DEF p
<1>12. PICK q \in Page :
            /\ page' = [page EXCEPT ![b] = q] /\ turns' = turns /\ server' = server
            /\ q.board = p.board /\ q.pulled = p.pulled
            /\ q.row \in Row /\ q.row.pos = m.pos /\ q.row.at = m.at /\ q.row.unread = m.unread
            /\ q.armed => p.armed \/ q.view = "away"
  BY <1>4, <1>6, <1>7, WritesLeaves
<1>13. InTime(q)
  <2>1. q.armed => q.view # "dwelled"
    BY <1>7, <1>12
  <2>2. q.board <= turns
    BY <1>3, <1>7, <1>12 DEF InTime
  <2>3. ~q.pulled /\ q.board > 0 => Within(q.row.pos, q.board)
    BY <1>7, <1>11, <1>12
  <2> QED BY <2>1, <2>2, <2>3 DEF InTime
<1>14. KeepsRead(page[b].row, q.row)
  BY <1>4, <1>12 DEF KeepsRead
<1>15. q.row.at <= now /\ Within(q.row.pos, turns)
  BY <1>10, <1>12
<1> QED BY <1>12, <1>13, <1>14, <1>15 DEF Lands

LEMMA MarkReadLands ==
  ASSUME TypeOK, Timely, NEW b \in Browsers, MarkRead(b)
  PROVE  \E q : Lands(b, q)
<1> DEFINE p == page[b]
           m == ReadThrough(p.row, Seen(p), Latest(p), now)
<1>1. p \in Page /\ now \in Nat /\ turns \in Nat /\ p.board \in Nat /\ p.row \in Row \cup {None}
  BY NowFacts, EndFacts DEF TypeOK, Page
<1>2. p.row # None => p.row.at <= now /\ Within(p.row.pos, turns)
  BY RowsTyped DEF Timely
<1>3. InTime(p)
  BY DEF Timely
<1>4. m \in Mark /\ ~m.unread /\ ReadsOn(p.row, Latest(p), m)
  BY <1>1, <1>2, SeenTypes, ReadThroughType, ReadThroughReads
<1>5. Writes(b, p, m)
  BY DEF MarkRead
<1>6. p.row # None
  BY DEF MarkRead, Unread
<1> HIDE DEF p, m
<1>7. PICK q \in Page :
            /\ page' = [page EXCEPT ![b] = q] /\ turns' = turns /\ server' = server
            /\ q.board = p.board /\ q.pulled = p.pulled
            /\ q.row \in Row
            /\ q.row.turn = m.turn /\ q.row.pos = m.pos /\ q.row.at = m.at /\ q.row.unread = m.unread
            /\ q.armed => m.unread
  BY <1>1, <1>4, <1>5, WritesLeaves
<1>8. ReadsOn(p.row, Latest(p), q.row)
  BY <1>4, <1>7 DEF ReadsOn
<1>9. KeepsRead(p.row, q.row)
  BY <1>1, <1>2, <1>6, <1>7, <1>8, SeenTypes, ReadsOnKeeps
<1>10. q.row.at <= now /\ q.row.pos \in {None, Latest(p), p.row.pos}
  BY <1>8 DEF ReadsOn
<1>11. p.board <= turns
  BY <1>3 DEF InTime
<1>12. /\ Latest(p) # None => Within(Latest(p), p.board) /\ Within(Latest(p), turns)
       /\ \A k \in Nat : Within(None, k)
  BY <1>1, <1>11, LatestWithin, WithinFacts
<1>13. Within(q.row.pos, turns)
  BY <1>1, <1>2, <1>6, <1>10, <1>12
<1>14. ~q.pulled /\ q.board > 0 => Within(q.row.pos, q.board)
  BY <1>1, <1>3, <1>6, <1>7, <1>10, <1>12 DEF InTime
<1>15. InTime(q)
  BY <1>4, <1>7, <1>11, <1>14 DEF InTime
<1> QED BY <1>7, <1>9, <1>10, <1>13, <1>15 DEF Lands, p

\* A row that lands, or another turn that ends, changes no browser's row.
LEMMA PostTimely ==
  ASSUME TypeOK, Timely, NEW b \in Browsers, Post(b)
  PROVE  Timely' /\ \A x \in Browsers : page'[x].row = page[x].row
<1>1. turns' = turns /\ page[b].row # None /\ server' \in {page[b].row, server}
  BY DEF Post
<1>2. ASSUME NEW x \in Browsers
      PROVE  /\ page'[x].row = page[x].row /\ page'[x].board = page[x].board
             /\ page'[x].pulled = page[x].pulled /\ page'[x].armed = page[x].armed
             /\ page'[x].view = page[x].view
  <2>1. \E queue, behind : page'[x] = [page[x] EXCEPT !.queue = queue, !.behind = behind]
    BY DEF Post
  <2>2. page[x] \in Page
    BY DEF TypeOK
  <2> QED BY <2>1, <2>2 DEF Page
<1>3. Rows' \subseteq Rows
  BY <1>1, <1>2 DEF Rows
<1>4. now' = now
  BY <1>1 DEF now
<1>5. \A r \in Rows' : r.at <= now' /\ Within(r.pos, turns)'
  BY <1>1, <1>3, <1>4 DEF Timely, Within
<1>6. ASSUME NEW x \in Browsers PROVE InTime(page[x])'
  BY <1>1, <1>2 DEF Timely, InTime, Within
<1> QED BY <1>2, <1>5, <1>6 DEF Timely, Within

LEMMA TurnEndsTimely ==
  ASSUME TypeOK, Timely, TurnEnds
  PROVE  Timely' /\ page' = page
<1>1. /\ turns' = turns + 1 /\ page' = page /\ server' = server
      /\ turns \in Nat /\ \A b \in Browsers : page[b].board \in Nat
  BY EndFacts DEF TurnEnds, TypeOK, Page
<1>2. Rows' = Rows
  BY <1>1 DEF Rows
<1>3. now' = now + 1 /\ now \in Nat
  BY <1>1 DEF now
<1>4. ASSUME NEW r \in Rows PROVE r.at <= now' /\ Within(r.pos, turns')
  <2>1. r \in Row /\ r.at <= now /\ Within(r.pos, turns)
    BY RowsTyped DEF Timely
  <2>2. r.at \in Nat
    BY <2>1, RowFacts
  <2>3. turns' \in Nat /\ turns <= turns'
    BY <1>1
  <2> QED BY <2>1, <2>2, <2>3, <1>1, <1>3, WithinFacts
<1>5. ASSUME NEW b \in Browsers PROVE InTime(page[b])'
  <2>1. InTime(page[b])
    BY DEF Timely
  <2> QED BY <2>1, <1>1 DEF InTime, Within
<1> QED BY <1>1, <1>2, <1>4, <1>5 DEF Timely, InTime, Within

LEMMA InitTimely == ASSUME Init PROVE Timely
<1>1. turns = 0 /\ server = None
  BY DEF Init
<1>2. ASSUME NEW b \in Browsers
      PROVE  page[b].row = None /\ page[b].board = 0 /\ page[b].armed = FALSE
  BY DEF Init, NewPage
<1>3. Rows = {}
  BY <1>1, <1>2 DEF Rows
<1>4. ASSUME NEW b \in Browsers PROVE InTime(page[b])
  <2>1. page[b].board = 0 /\ turns = 0 /\ page[b].armed = FALSE
    BY <1>1, <1>2
  <2>2. page[b].board <= turns /\ ~(page[b].board > 0)
    BY <2>1
  <2> QED BY <2>1, <2>2 DEF InTime
<1> QED BY <1>3, <1>4 DEF Timely

LEMMA KeptRowKept ==
  ASSUME TypeOK, NEW b \in Browsers
  PROVE  KeepsRead(page[b].row, page[b].row)
<1>1. CASE page[b].row = None
  BY <1>1 DEF KeepsRead
<1>2. CASE page[b].row # None
  BY <1>2, RowsTyped, KeptReadKept
<1> QED BY <1>1, <1>2

LEMMA TimelyStep ==
  ASSUME TypeOK, Timely, [Next]_vars
  PROVE  Timely' /\ \A b \in Browsers : KeepsRead(page[b].row, page'[b].row)
<1>1. ASSUME NEW b \in Browsers, Post(b)
      PROVE  Timely' /\ \A x \in Browsers : KeepsRead(page[x].row, page'[x].row)
  BY <1>1, PostTimely, KeptRowKept
<1>2. ASSUME NEW b \in Browsers, Owner(b) \/ Faults(b) \/ Works(b), ~Post(b)
      PROVE  Timely' /\ \A x \in Browsers : KeepsRead(page[x].row, page'[x].row)
  <2>1. Shows(b) \/ Reload(b) \/ MarkUnread(b) \/ MarkRead(b) \/ Pull(b)
    BY <1>2, ShowSteps DEF Owner, Faults, Works
  <2>2. PICK q : Lands(b, q)
    BY <2>1, ShowLands, ReloadLands, MarkUnreadLands, MarkReadLands, PullLands
  <2>3. ASSUME NEW x \in Browsers PROVE KeepsRead(page[x].row, page'[x].row)
    <3>1. page'[x] = IF x = b THEN q ELSE page[x]
      BY <2>2 DEF Lands, TypeOK
    <3>2. CASE x = b
      BY <2>2, <3>1, <3>2 DEF Lands
    <3>3. CASE x # b
      BY <3>1, <3>3, KeptRowKept
    <3> QED BY <3>2, <3>3
  <2> QED BY <2>2, <2>3, LandsTimely
<1>3. CASE TurnEnds
  BY <1>3, TurnEndsTimely, KeptRowKept
<1>4. CASE UNCHANGED vars
  <2>1. turns' = turns /\ server' = server /\ page' = page
    BY <1>4 DEF vars
  <2>2. Timely'
    BY <2>1 DEF Timely, Rows, InTime, Within, now
  <2> QED BY <2>1, <2>2, KeptRowKept
<1> QED BY <1>1, <1>2, <1>3, <1>4 DEF Next

\* No marker is of the future, what a page waiting for its first pull has read
\* its own board tells of, and no mark is armed under the dwell.
\* (dwellModel.ts nextArmed, useReadMarkers.ts)
THEOREM MarkersAreTimely == Spec => []Timely
<1>1. Spec => [](Inv /\ Timely)
  <2>1. Init => Inv /\ Timely
    BY InitInv, InitTimely
  <2>2. Inv /\ Timely /\ [Next]_vars => Inv' /\ Timely'
    BY StepInv, TimelyStep DEF Inv
  <2> QED BY <2>1, <2>2, PTL DEF Spec
<1> QED BY <1>1, PTL

\* What has been read stays read: no turn that ends, no pull, merge, repair,
\* seed, reload or reading in any browser puts a marker back; only a mark
\* unread does.  (readMarkerModel.ts mergeMarkerRow, readThrough)
THEOREM ReadStaysRead == Spec => ReadNeverRewound
<1>1. TypeOK /\ Timely /\ [Next]_vars
      => [\A b \in Browsers : KeepsRead(page[b].row, page'[b].row)]_vars
  BY TimelyStep
<1>2. Inv => TypeOK
  BY DEF Inv
<1> QED BY <1>1, <1>2, MarksInvariant, MarkersAreTimely, PTL DEF Spec, ReadNeverRewound
=============================================================================
