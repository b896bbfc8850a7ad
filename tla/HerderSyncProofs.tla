-------------------------- MODULE HerderSyncProofs --------------------------
(***************************************************************************)
(* What a page wrote is not left out, what the server holds is not skipped, *)
(* nothing purged returns and no page steps back: proofs about HerderSync.  *)
(*                                                                         *)
(* Everything rests on what one page knows of the server (Good) while the   *)
(* server only moves on (Later): a key's row is replaced by a newer one     *)
(* past every purge and every revision given out, or is purged and leaves   *)
(* the horizon behind it.  An answer under way stays true of a server that  *)
(* moved on, so it may be heard late.                                       *)
(***************************************************************************)
EXTENDS HerderSync, FiniteSetTheorems, NaturalsInduction, WellFoundedInduction, TLAPS

----------------------------------------------------------------------------
\* The invariant.

PullRec == [phase : {"idle", "asked", "answered"}, full : BOOLEAN, from : Nat,
            again : BOOLEAN, rows : [Keys -> Rows], rev : Nat, horizon : Nat]

SendRec == [phase : {"idle", "posting", "stored", "tooLarge", "pulling"},
            todo : Seq(SUBSET Keys), rows : [Keys -> Rows], again : BOOLEAN,
            stale : SUBSET Keys]

TabRec == [up : BOOLEAN, mem : [Keys -> Rows], dirty : SUBSET Keys,
           adopted : SUBSET Keys, queue : SUBSET Keys, held : SUBSET Keys,
           cursor : Nat, catchUp : BOOLEAN, starting : BOOLEAN, pull : PullRec,
           send : SendRec, waiters : 0..2, blocked : BOOLEAN, refused : BOOLEAN,
           timer : BOOLEAN, degraded : BOOLEAN, heard : SUBSET (Keys \X Rows),
           note : Nat, undone : SUBSET Keys]

DiskRec == [rows : [Keys -> Rows], queue : SUBSET Keys, cursor : Nat]

ServerRec == [rows : [Keys -> Rows], at : [Keys -> Nat], rev : Nat,
              floor : Nat, horizon : 0..MaxTime]

\* The server s has row r of key k, a newer one, or has purged it.
Covered(s, k, r) ==
    \/ ~Newer(r, s.rows[k])
    \/ s.rows[k] = NoRow /\ r.upd <= s.horizon

\* What the answer p to a pull says of s: nothing s does not cover, and every
\* row of s up to the revision it names, but for those the page had before.
Answer(p, s) ==
    \A k \in Keys :
        /\ Covered(s, k, p.rows[k])
        /\ (s.rows[k] # NoRow /\ s.at[k] <= p.rev)
           => \/ p.rows[k] = s.rows[k]
              \/ p.rows[k] = NoRow /\ s.at[k] <= p.from

\* A page that has not caught up pulls everything.
PullOK(c, s) ==
    /\ c.pull.phase # "idle" => /\ c.pull.from <= c.cursor
                                /\ c.catchUp => c.pull.full
                                /\ c.pull.full => c.pull.from = 0
    /\ c.pull.phase = "answered" => c.pull.rev <= s.rev /\ Answer(c.pull, s)

\* What the answer to a post says: the server covers what was sent, and what
\* it called stale it has purged or since replaced by a newer row.
Stored(d, s) ==
    /\ \A k \in Head(d.todo) : Covered(s, k, d.rows[k])
    /\ \A k \in d.stale : /\ d.rows[k].upd <= s.horizon
                          /\ s.rows[k] = NoRow \/ s.rows[k].upd > d.rows[k].upd

SendOK(c, s) ==
    /\ c.send.todo = <<>> <=> c.send.phase \in {"idle", "pulling"}
    /\ c.send.phase = "stored" => Stored(c.send, s)

\* EditsQueued and CursorHonest of one page, while tombstones stamped at or
\* below a have outlived the retention.
Queued(c, s) ==
    \A k \in Keys \ c.adopted : k \in c.queue \/ Covered(s, k, c.mem[k])

Honest(c, s, a) ==
    \A k \in Keys :
        (s.rows[k] # NoRow /\ s.at[k] <= c.cursor)
        => ~Newer(s.rows[k], c.mem[k]) \/ (s.rows[k].del /\ s.rows[k].upd <= a)

Sound(c, s, a) == c.catchUp \/ (Queued(c, s) /\ Honest(c, s, a))

\* Whoever waits for a pull waits for one under way.
Waited(c) == c.waiters > 0 => c.pull.phase # "idle"

Pulling(c) == c.send.phase = "pulling" => c.pull.phase # "idle"

Good(c, s, a) ==
    /\ c \in TabRec /\ Waited(c) /\ Pulling(c)
    /\ c.cursor <= s.rev
    /\ PullOK(c, s) /\ SendOK(c, s) /\ Sound(c, s, a)

\* A revision past 0 for every row; none, nor the floor, past the server's own.
Counted(s) ==
    /\ s.floor <= s.rev
    /\ \A k \in Keys : s.at[k] <= s.rev /\ (s.rows[k] # NoRow => s.at[k] > 0)

\* A sweep leaves the horizon at or above what it purged.
Purged(s) ==
    /\ purged \in [Keys -> Nat]
    /\ \A k \in Keys : /\ purged[k] <= s.horizon
                       /\ s.rows[k] # NoRow => s.rows[k].upd > purged[k]

Inv ==
    /\ disk \in DiskRec /\ disk.cursor <= server.rev
    /\ server \in ServerRec /\ Counted(server) /\ Purged(server)
    /\ age \in 0..MaxTime
    /\ tab \in [Tabs -> TabRec]
    /\ \A t \in Tabs : Good(tab[t], server, age)

----------------------------------------------------------------------------
\* The order of rows.

LEMMA RowFacts ==
  /\ NoRow \in Rows
  /\ \A r \in Rows : r.upd \in Nat /\ r.wid \in Nat /\ r.del \in BOOLEAN /\ r.upd <= MaxTime
  /\ \A r \in Rows : r # NoRow => r.upd > 0
  /\ NoRow.upd = 0
<1>1. NoRow \in Rows
  BY DEF Rows
<1>2. NoRow.upd = 0 /\ NoRow.wid = 0 /\ NoRow.del \in BOOLEAN
  BY DEF NoRow
<1>3. ASSUME NEW r \in Row
      PROVE  r.upd \in Nat /\ r.wid \in Nat /\ r.del \in BOOLEAN /\ r.upd <= MaxTime /\ r.upd > 0
  BY <1>3, SyncAssumption DEF Row
<1>4. ASSUME NEW r \in Rows PROVE r \in Row \/ r = NoRow
  BY DEF Rows
<1>5. 0 <= MaxTime
  BY SyncAssumption
<1> HIDE DEF NoRow
<1> QED
  BY <1>1, <1>2, <1>3, <1>4, <1>5

LEMMA NewerFacts ==
  ASSUME NEW l \in Rows, NEW r \in Rows
  PROVE  /\ Newer(l, r) \in BOOLEAN
         /\ Newer(l, r) => ~Newer(r, l)
         /\ Newer(l, r) => r.upd <= l.upd
         /\ ~Newer(l, r) => l.upd <= r.upd
         /\ ~Newer(NoRow, r)
         /\ l # NoRow => Newer(l, NoRow)
         /\ ~Newer(l, l)
BY RowFacts DEF Newer, NoRow

\* A row no newer than one no newer than a third is no newer than the third.
LEMMA NotNewer ==
  ASSUME NEW l \in Rows, NEW m \in Rows, NEW r \in Rows,
         ~Newer(l, m), ~Newer(m, r)
  PROVE  ~Newer(l, r)
BY RowFacts DEF Newer

LEMMA NewerTrans ==
  ASSUME NEW l \in Rows, NEW m \in Rows, NEW r \in Rows,
         Newer(l, m), ~Newer(r, m)
  PROVE  Newer(l, r)
BY RowFacts DEF Newer

LEMMA WinnerFacts ==
  ASSUME NEW l \in Rows, NEW r \in Rows
  PROVE  /\ Winner(l, r) \in Rows
         /\ ~Newer(l, Winner(l, r)) /\ ~Newer(r, Winner(l, r))
         /\ Winner(l, r) # l => Newer(Winner(l, r), l)
         /\ Winner(l, r) = NoRow => l = NoRow
BY NewerFacts DEF Winner

----------------------------------------------------------------------------
\* Enumerations of finite sets of keys.

LEMMA Enumerates ==
  ASSUME NEW S, IsFiniteSet(S)
  PROVE  /\ Cardinality(S) \in Nat
         /\ SetToSeq(S) \in [1..Cardinality(S) -> S]
         /\ SetToSeq(S) \in Seq(S)
         /\ Len(SetToSeq(S)) = Cardinality(S)
         /\ \A k \in S : \E i \in 1..Cardinality(S) : SetToSeq(S)[i] = k
<1> DEFINE n == Cardinality(S)
<1>1. n \in Nat /\ ExistsBijection(1..n, S)
  BY FS_CardinalityType
<1>2. PICK f \in [1..n -> S] : IsInjective(f)
  BY <1>1 DEF ExistsBijection, Bijection, Injection, IsInjective
<1>3. SetToSeq(S) \in [1..n -> S] /\ IsInjective(SetToSeq(S))
  BY <1>2 DEF SetToSeq
<1>4. SetToSeq(S) \in Seq(S) /\ Len(SetToSeq(S)) = n
  BY <1>1, <1>3
<1>5. SetToSeq(S) \in Injection(1..n, S)
  BY <1>3 DEF Injection
<1>6. IsFiniteSet(1..n) /\ Cardinality(1..n) = n
  BY <1>1, FS_Interval
<1>7. SetToSeq(S) \in Surjection(1..n, S)
  BY <1>5, <1>6, FS_Injection
<1> QED
  BY <1>1, <1>3, <1>4, <1>7 DEF Surjection

----------------------------------------------------------------------------
\* What the server does to a page's knowledge of it.

\* Key k on the way from s to s2: untouched, replaced, or purged.
Moved(s, s2, k) ==
    \/ s2.rows[k] = s.rows[k] /\ s2.at[k] = s.at[k]
    \/ /\ s2.at[k] > s.rev
       /\ Newer(s2.rows[k], s.rows[k])
       /\ s.rows[k] = NoRow => s2.rows[k].upd > s.horizon
    \/ s2.rows[k] = NoRow /\ s.rows[k].upd <= s2.horizon

Later(s, s2) ==
    /\ s2 \in ServerRec
    /\ s.rev <= s2.rev /\ s.horizon <= s2.horizon
    /\ \A k \in Keys : Moved(s, s2, k)

LEMMA ServerFacts ==
  ASSUME NEW s \in ServerRec
  PROVE  /\ s.rev \in Nat /\ s.horizon \in Nat
         /\ \A k \in Keys : s.rows[k] \in Rows /\ s.at[k] \in Nat /\ s.rows[k].upd \in Nat
BY RowFacts DEF ServerRec

LEMMA CoveredLater ==
  ASSUME NEW s \in ServerRec, NEW s2, Later(s, s2), NEW k \in Keys, NEW r \in Rows,
         Covered(s, k, r)
  PROVE  Covered(s2, k, r)
<1> USE ServerFacts DEF Later
<1>0. s2 \in ServerRec /\ r.upd \in Nat /\ s2.horizon \in Nat /\ s.horizon \in Nat
      /\ s.rows[k] \in Rows /\ s2.rows[k] \in Rows
      /\ s.rows[k].upd \in Nat /\ s2.rows[k].upd \in Nat
      /\ s.horizon <= s2.horizon /\ Moved(s, s2, k)
  BY RowFacts
<1>1. CASE s2.rows[k] = s.rows[k] /\ s2.at[k] = s.at[k]
  BY <1>0, <1>1 DEF Covered
<1>2. CASE /\ Newer(s2.rows[k], s.rows[k])
           /\ s.rows[k] = NoRow => s2.rows[k].upd > s.horizon
  <2>1. CASE ~Newer(r, s.rows[k])
    <3>1. ~Newer(s.rows[k], s2.rows[k])
      BY <1>0, <1>2, NewerFacts
    <3> QED
      BY <1>0, <2>1, <3>1, NotNewer DEF Covered
  <2>2. CASE s.rows[k] = NoRow /\ r.upd <= s.horizon
    <3>1. ~(s2.rows[k].upd <= r.upd)
      BY <1>0, <1>2, <2>2
    <3> QED
      BY <1>0, <3>1, NewerFacts DEF Covered
  <2> QED
    BY <2>1, <2>2 DEF Covered
<1>3. CASE s2.rows[k] = NoRow /\ s.rows[k].upd <= s2.horizon
  <2>1. CASE ~Newer(r, s.rows[k])
    <3>1. r.upd <= s.rows[k].upd
      BY <1>0, <2>1, NewerFacts
    <3> QED
      BY <1>0, <1>3, <3>1 DEF Covered
  <2>2. CASE s.rows[k] = NoRow /\ r.upd <= s.horizon
    BY <1>0, <1>3, <2>2 DEF Covered
  <2> QED
    BY <2>1, <2>2 DEF Covered
<1> QED
  BY <1>0, <1>1, <1>2, <1>3 DEF Moved

LEMMA TabFacts ==
  ASSUME NEW c \in TabRec
  PROVE  /\ c.mem \in [Keys -> Rows] /\ c.cursor \in Nat
         /\ c.pull.rows \in [Keys -> Rows] /\ c.pull.rev \in Nat /\ c.pull.from \in Nat
         /\ c.send.rows \in [Keys -> Rows] /\ c.send.todo \in Seq(SUBSET Keys)
         /\ c.send.stale \subseteq Keys
<1>1. c.pull \in PullRec /\ c.send \in SendRec /\ c.mem \in [Keys -> Rows] /\ c.cursor \in Nat
  BY DEF TabRec
<1> QED
  BY <1>1 DEF PullRec, SendRec

\* What a page knows of the server stays true of a later one.
LEMMA GoodLater ==
  ASSUME NEW s \in ServerRec, NEW s2, Later(s, s2), NEW c, NEW a \in Nat,
         Good(c, s, a)
  PROVE  Good(c, s2, a)
<1> USE TabFacts
<1>0. /\ s2 \in ServerRec /\ s.rev \in Nat /\ s2.rev \in Nat /\ s.rev <= s2.rev
      /\ s.horizon \in Nat /\ s2.horizon \in Nat /\ s.horizon <= s2.horizon
  BY ServerFacts DEF Later
<1>1. /\ c \in TabRec /\ Waited(c) /\ Pulling(c) /\ c.cursor <= s.rev /\ PullOK(c, s) /\ SendOK(c, s) /\ Sound(c, s, a)
  BY DEF Good
<1>2. c.cursor <= s2.rev
  BY <1>0, <1>1
<1>3. ASSUME NEW k \in Keys
      PROVE  /\ Moved(s, s2, k) /\ s.rows[k] \in Rows /\ s2.rows[k] \in Rows
             /\ s.rows[k].upd \in Nat /\ s2.rows[k].upd \in Nat
             /\ s.at[k] \in Nat /\ s2.at[k] \in Nat
  BY <1>0, ServerFacts DEF Later
<1>4. PullOK(c, s2)
  <2>1. SUFFICES ASSUME c.pull.phase = "answered" PROVE c.pull.rev <= s2.rev /\ Answer(c.pull, s2)
    BY <1>1 DEF PullOK
  <2>2. c.pull.rev <= s.rev /\ Answer(c.pull, s)
    BY <1>1, <2>1 DEF PullOK
  <2>3. c.pull.rev \in Nat /\ c.pull.rows \in [Keys -> Rows]
    BY <1>1
  <2>4. ASSUME NEW k \in Keys
        PROVE  /\ Covered(s2, k, c.pull.rows[k])
               /\ (s2.rows[k] # NoRow /\ s2.at[k] <= c.pull.rev)
                  => \/ c.pull.rows[k] = s2.rows[k]
                     \/ c.pull.rows[k] = NoRow /\ s2.at[k] <= c.pull.from
    <3>1. Covered(s2, k, c.pull.rows[k])
      BY <2>2, <2>3, CoveredLater DEF Answer
    <3>2. ~(s2.at[k] > s.rev /\ s2.at[k] <= c.pull.rev)
      BY <1>0, <1>3, <2>2, <2>3
    <3> QED
      BY <1>3, <2>2, <3>1, <3>2 DEF Answer, Moved
  <2> QED
    BY <1>0, <2>2, <2>3, <2>4 DEF Answer
<1>5. SendOK(c, s2)
  <2>1. SUFFICES ASSUME c.send.phase = "stored" PROVE Stored(c.send, s2)
    BY <1>1 DEF SendOK
  <2>2. Stored(c.send, s) /\ c.send.todo # <<>>
    BY <1>1, <2>1 DEF SendOK
  <2>3. c.send.rows \in [Keys -> Rows] /\ Head(c.send.todo) \subseteq Keys /\ c.send.stale \subseteq Keys
    BY <1>1, <2>2
  <2>4. ASSUME NEW k \in Head(c.send.todo) PROVE Covered(s2, k, c.send.rows[k])
    BY <2>2, <2>3, CoveredLater DEF Stored
  <2>5. ASSUME NEW k \in c.send.stale
        PROVE  /\ c.send.rows[k].upd <= s2.horizon
               /\ s2.rows[k] = NoRow \/ s2.rows[k].upd > c.send.rows[k].upd
    <3> DEFINE u == c.send.rows[k].upd
    <3>1. u \in Nat /\ k \in Keys
      BY <2>3, RowFacts
    <3>2. u <= s.horizon /\ (s.rows[k] = NoRow \/ s.rows[k].upd > u)
      BY <2>2 DEF Stored
    <3>3. Newer(s2.rows[k], s.rows[k]) => s.rows[k].upd <= s2.rows[k].upd
      BY <1>3, <3>1, NewerFacts
    <3> HIDE DEF u
    <3>4. u <= s2.horizon /\ (s2.rows[k] = NoRow \/ s2.rows[k].upd > u)
      BY <1>0, <1>3, <3>1, <3>2, <3>3 DEF Moved
    <3> QED
      BY <3>4 DEF u
  <2> QED
    BY <2>4, <2>5 DEF Stored
<1>6. Sound(c, s2, a)
  <2>1. SUFFICES ASSUME Queued(c, s), Honest(c, s, a) PROVE Queued(c, s2) /\ Honest(c, s2, a)
    BY <1>1 DEF Sound
  <2>2. c.mem \in [Keys -> Rows] /\ c.cursor \in Nat
    BY <1>1
  <2>3. Queued(c, s2)
    BY <2>1, <2>2, CoveredLater DEF Queued
  <2>4. ASSUME NEW k \in Keys, s2.rows[k] # NoRow, s2.at[k] <= c.cursor
        PROVE  ~Newer(s2.rows[k], c.mem[k]) \/ (s2.rows[k].del /\ s2.rows[k].upd <= a)
    <3>1. ~(s2.at[k] > s.rev)
      BY <1>0, <1>1, <1>3, <2>2, <2>4
    <3> QED
      BY <1>3, <2>1, <2>4, <3>1 DEF Honest, Moved
  <2> QED
    BY <2>3, <2>4 DEF Honest
<1> QED
  BY <1>1, <1>2, <1>4, <1>5, <1>6 DEF Good

----------------------------------------------------------------------------
\* The server's steps.

\* Upsert of the rows rows of ks: the server moves on and counts and purges
\* right; what it took it covers, and what it calls stale it has purged.
LEMMA Upserts ==
  ASSUME NEW s \in ServerRec, Counted(s), Purged(s),
         NEW rows \in [Keys -> Rows], NEW ks \in SUBSET Keys
  PROVE  LET s2 == Upsert(s, rows, ks)
         IN  /\ Later(s, s2) /\ Counted(s2) /\ Purged(s2)
             /\ \A k \in ks : Covered(s2, k, rows[k])
             /\ StaleAt(s, rows, ks) \subseteq Keys
             /\ \A k \in StaleAt(s, rows, ks) : /\ rows[k].upd <= s2.horizon
                                                /\ s2.rows[k] = NoRow
<1> DEFINE wins == {k \in ks \ StaleAt(s, rows, ks) : Newer(rows[k], s.rows[k])}
           seq == SetToSeq(wins)
           place(k) == CHOOSE i \in 1..Len(seq) : seq[i] = k
           s2 == Upsert(s, rows, ks)
<1>1. /\ s.rev \in Nat /\ s.floor \in Nat /\ s.horizon \in 0..MaxTime /\ s.horizon \in Nat
      /\ s.rows \in [Keys -> Rows] /\ s.at \in [Keys -> Nat]
  BY ServerFacts DEF ServerRec
<1>2. IsFiniteSet(wins)
  <2>1. wins \in SUBSET Keys /\ IsFiniteSet(Keys)
    BY SyncAssumption
  <2> QED
    BY <2>1, FS_Subset
<1>3. Len(seq) \in Nat /\ \A k \in wins : \E i \in 1..Len(seq) : seq[i] = k
  <2> HIDE DEF wins
  <2>1. /\ Cardinality(wins) \in Nat /\ Len(seq) = Cardinality(wins)
        /\ \A k \in wins : \E i \in 1..Cardinality(wins) : seq[i] = k
    BY <1>2, Enumerates
  <2> QED
    BY <2>1
<1>4. ASSUME NEW k \in wins PROVE place(k) \in Nat /\ place(k) > 0 /\ place(k) <= Len(seq)
  <2> HIDE DEF seq, wins
  <2>1. place(k) \in 1..Len(seq)
    BY <1>3
  <2> QED
    BY <1>3, <2>1
<1>5. s2 = [s EXCEPT !.rows = [k \in Keys |-> IF k \in wins THEN rows[k] ELSE s.rows[k]],
                     !.at = [k \in Keys |-> IF k \in wins THEN s.rev + place(k) ELSE s.at[k]],
                     !.rev = s.rev + Len(seq)]
  BY DEF Upsert
<1> HIDE DEF seq, place, wins
<1>6. /\ s2.rows = [k \in Keys |-> IF k \in wins THEN rows[k] ELSE s.rows[k]]
      /\ s2.at = [k \in Keys |-> IF k \in wins THEN s.rev + place(k) ELSE s.at[k]]
      /\ s2.rev = s.rev + Len(seq)
      /\ s2.horizon = s.horizon /\ s2.floor = s.floor
  BY <1>5 DEF ServerRec
<1>7. s2.rows \in [Keys -> Rows] /\ s2.at \in [Keys -> Nat] /\ s2.rev \in Nat
  BY <1>1, <1>3, <1>4, <1>6
<1>8. s2 \in ServerRec
  BY <1>1, <1>5, <1>6, <1>7 DEF ServerRec
<1> HIDE DEF s2
<1>9. ASSUME NEW k \in Keys
      PROVE  /\ k \in wins => /\ s2.rows[k] = rows[k] /\ s2.at[k] > s.rev /\ s2.at[k] <= s2.rev
                              /\ Newer(s2.rows[k], s.rows[k])
                              /\ s2.rows[k] # NoRow
                              /\ s.rows[k] = NoRow => s2.rows[k].upd > s.horizon
             /\ k \notin wins => s2.rows[k] = s.rows[k] /\ s2.at[k] = s.at[k]
  <2>0. rows[k] \in Rows /\ s.rows[k] \in Rows /\ rows[k].upd \in Nat
    BY <1>1, RowFacts
  <2>1. CASE k \notin wins
    BY <1>6, <2>1
  <2>2. CASE k \in wins
    <3>1. s2.rows[k] = rows[k] /\ s2.at[k] = s.rev + place(k)
      BY <1>6, <2>2
    <3>2. Newer(rows[k], s.rows[k]) /\ k \notin StaleAt(s, rows, ks) /\ k \in ks
      BY <2>2 DEF wins
    <3>3. rows[k] # NoRow
      BY <2>0, <3>2, NewerFacts
    <3>4. s2.at[k] > s.rev /\ s2.at[k] <= s2.rev
      BY <1>1, <1>3, <1>4, <1>6, <2>2, <3>1
    <3>5. s.rows[k] = NoRow => rows[k].upd > s.horizon
      BY <1>1, <2>0, <3>2, <3>3, RowFacts DEF StaleAt
    <3> QED
      BY <2>2, <3>1, <3>2, <3>3, <3>4, <3>5
  <2> QED
    BY <2>1, <2>2
<1>10. Later(s, s2)
  BY <1>1, <1>3, <1>6, <1>8, <1>9 DEF Later, Moved
<1>11. Counted(s2)
  <2>0. s2.floor <= s2.rev
    BY <1>1, <1>3, <1>6 DEF Counted
  <2> SUFFICES ASSUME NEW k \in Keys
               PROVE  s2.at[k] <= s2.rev /\ (s2.rows[k] # NoRow => s2.at[k] > 0)
    BY <2>0 DEF Counted
  <2>1. s.at[k] <= s.rev /\ (s.rows[k] # NoRow => s.at[k] > 0) /\ s.at[k] \in Nat /\ s2.at[k] \in Nat
    BY <1>1, <1>7 DEF Counted
  <2> QED
    BY <1>1, <1>3, <1>6, <1>9, <2>1
<1>12. Purged(s2)
  <2>0. purged \in [Keys -> Nat]
    BY DEF Purged
  <2> SUFFICES ASSUME NEW k \in Keys
               PROVE  purged[k] <= s2.horizon /\ (s2.rows[k] # NoRow => s2.rows[k].upd > purged[k])
    BY <2>0 DEF Purged
  <2>1. /\ purged[k] <= s.horizon /\ (s.rows[k] # NoRow => s.rows[k].upd > purged[k])
        /\ purged[k] \in Nat
    BY <2>0 DEF Purged
  <2>2. s.rows[k] \in Rows /\ s2.rows[k] \in Rows /\ s.rows[k].upd \in Nat /\ s2.rows[k].upd \in Nat
    BY <1>1, <1>7, RowFacts
  <2>3. Newer(s2.rows[k], s.rows[k]) => s.rows[k].upd <= s2.rows[k].upd
    BY <2>2, NewerFacts
  <2> QED
    BY <1>1, <1>6, <1>9, <2>1, <2>2, <2>3
<1>13. ASSUME NEW k \in StaleAt(s, rows, ks)
       PROVE  k \in Keys /\ rows[k].upd <= s2.horizon /\ s2.rows[k] = NoRow
  <2>1. k \in Keys /\ s.rows[k] = NoRow /\ rows[k].upd <= s.horizon
    BY DEF StaleAt
  <2>2. k \notin wins
    BY DEF wins
  <2> QED
    BY <1>6, <1>9, <2>1, <2>2
<1>14. ASSUME NEW k \in ks PROVE Covered(s2, k, rows[k])
  <2>1. CASE k \in StaleAt(s, rows, ks)
    BY <1>13, <2>1 DEF Covered
  <2>2. CASE k \in wins
    BY <1>7, <1>9, <2>2, NewerFacts DEF Covered
  <2>3. CASE k \notin wins /\ k \notin StaleAt(s, rows, ks)
    <3>1. ~Newer(rows[k], s.rows[k])
      BY <2>3 DEF wins
    <3> QED
      BY <1>9, <2>3, <3>1 DEF Covered
  <2> QED
    BY <2>1, <2>2, <2>3
<1> QED
  BY <1>10, <1>11, <1>12, <1>13, <1>14 DEF s2

\* A nonempty set of numbers up to a bound has a highest one.
LEMMA HasHighest ==
  ASSUME NEW n \in Nat, NEW S, S \subseteq 0..n, S # {}
  PROVE  \E g \in S : \A h \in S : h <= g
<1> DEFINE T == {n - g : g \in S}
<1>1. T \subseteq Nat /\ T # {}
  <2>1. ASSUME NEW g \in S PROVE n - g \in Nat
    BY 0..n \subseteq Nat
  <2>2. PICK g \in S : TRUE
    OBVIOUS
  <2>3. n - g \in T
    OBVIOUS
  <2> QED BY <2>1, <2>3
<1>2. PICK x \in T : \A y \in T : ~ (<<y, x>> \in OpToRel(<, Nat))
  BY <1>1, WFMin, NatLessThanWellFounded
<1>3. \A y \in T : ~ (y < x)
  BY <1>1, <1>2 DEF OpToRel
<1>4. PICK g \in S : x = n - g
  OBVIOUS
<1>5. ASSUME NEW h \in S PROVE h <= g
  <2>1. n - h \in T
    OBVIOUS
  <2> QED BY <2>1, <1>3, <1>4
<1> QED BY <1>5

\* A sweep of expired tombstones: the server moves on and counts right.
LEMMA Sweeps ==
  ASSUME NEW s \in ServerRec, Counted(s), NEW ks \in SUBSET Keys, NEW s2, s2 = Swept(s, ks)
  PROVE  /\ Later(s, s2) /\ Counted(s2)
         /\ \A k \in Keys : /\ k \in ks => s2.rows[k] = NoRow /\ s.rows[k].upd <= s2.horizon
                            /\ k \notin ks => s2.rows[k] = s.rows[k]
<1> DEFINE S == {s.horizon} \cup {s.rows[k].upd : k \in ks}
           newest == CHOOSE n \in S : \A m \in S : m <= n
<1>1. /\ s.rev \in Nat /\ s.floor \in Nat /\ s.horizon \in 0..MaxTime /\ s.horizon \in Nat
      /\ s.rows \in [Keys -> Rows] /\ s.at \in [Keys -> Nat]
  BY ServerFacts DEF ServerRec
<1>2. newest \in S /\ \A m \in S : m <= newest
  <2>1. S \subseteq 0..MaxTime
    <3>1. ASSUME NEW k \in ks PROVE s.rows[k].upd \in 0..MaxTime
      BY <1>1, RowFacts
    <3> QED
      BY <1>1, <3>1
  <2>2. MaxTime \in Nat /\ S # {}
    BY SyncAssumption
  <2>3. \E g \in S : \A h \in S : h <= g
    <3> HIDE DEF S
    <3> QED
      BY <2>1, <2>2, HasHighest
  <2> HIDE DEF S
  <2> QED
    BY <2>3
<1>3. newest \in 0..MaxTime /\ s.horizon <= newest /\ \A k \in ks : s.rows[k].upd <= newest
  <2>1. ASSUME NEW k \in ks PROVE s.rows[k].upd \in 0..MaxTime
    BY <1>1, RowFacts
  <2> HIDE DEF newest
  <2> QED
    BY <1>1, <1>2, <2>1
<1>4. s2 = [s EXCEPT !.rows = [k \in Keys |-> IF k \in ks THEN NoRow ELSE s.rows[k]],
                     !.at = [k \in Keys |-> IF k \in ks THEN 0 ELSE s.at[k]],
                     !.rev = s.rev + 1, !.floor = s.rev + 1, !.horizon = newest]
  BY DEF Swept
<1> HIDE DEF newest
<1>5. /\ s2.rows = [k \in Keys |-> IF k \in ks THEN NoRow ELSE s.rows[k]]
      /\ s2.at = [k \in Keys |-> IF k \in ks THEN 0 ELSE s.at[k]]
      /\ s2.rev = s.rev + 1 /\ s2.floor = s.rev + 1 /\ s2.horizon = newest
  BY <1>4 DEF ServerRec
<1>6. s2.rows \in [Keys -> Rows] /\ s2.at \in [Keys -> Nat] /\ s2.rev \in Nat
  BY <1>1, <1>5, RowFacts
<1>7. s2 \in ServerRec
  BY <1>1, <1>3, <1>4, <1>5, <1>6 DEF ServerRec
<1>8. Later(s, s2)
  BY <1>1, <1>3, <1>5, <1>7 DEF Later, Moved
<1>9. Counted(s2)
  <2>0. s2.floor <= s2.rev
    BY <1>1, <1>5
  <2> SUFFICES ASSUME NEW k \in Keys
               PROVE  s2.at[k] <= s2.rev /\ (s2.rows[k] # NoRow => s2.at[k] > 0)
    BY <2>0 DEF Counted
  <2>1. s.at[k] <= s.rev /\ (s.rows[k] # NoRow => s.at[k] > 0) /\ s.at[k] \in Nat
    BY <1>1 DEF Counted
  <2> QED
    BY <1>1, <1>5, <2>1
<1> QED
  BY <1>3, <1>5, <1>8, <1>9

----------------------------------------------------------------------------
\* The sync client's functions.  Kept: what they need and leave of the types
\* and of the answers under way.  Tame: they touch no row, and dequeue only
\* keys without one.

Kept(c, s) == c \in TabRec /\ PullOK(c, s) /\ SendOK(c, s) /\ Waited(c)

Tame(c, d) ==
    /\ d.up = c.up /\ d.mem = c.mem /\ d.catchUp = c.catchUp /\ d.degraded = c.degraded
    /\ d.adopted = c.adopted /\ d.cursor = c.cursor
    /\ \A k \in c.queue : c.mem[k] # NoRow => k \in d.queue

LEMMA TameTrans ==
  ASSUME NEW c, NEW d, NEW e, Tame(c, d), Tame(d, e)
  PROVE  Tame(c, e)
BY DEF Tame

LEMMA TameSound ==
  ASSUME NEW s \in ServerRec, NEW a, NEW c \in TabRec, NEW d, Tame(c, d), Sound(c, s, a)
  PROVE  Sound(d, s, a)
<1>1. SUFFICES ASSUME Queued(c, s), Honest(c, s, a) PROVE Queued(d, s) /\ Honest(d, s, a)
  BY DEF Sound, Tame
<1>2. Honest(d, s, a)
  BY <1>1 DEF Honest, Tame
<1>3. ASSUME NEW k \in Keys PROVE Covered(s, k, NoRow)
  BY NewerFacts, ServerFacts DEF Covered
<1> QED
  BY <1>1, <1>2, <1>3 DEF Queued, Tame

LEMMA IdleFacts == IdlePull \in PullRec /\ IdleSend \in SendRec
<1>1. [k \in Keys |-> NoRow] \in [Keys -> Rows]
  BY RowFacts
<1>2. IdlePull \in PullRec
  BY <1>1 DEF IdlePull, PullRec
<1>3. <<>> \in Seq(SUBSET Keys)
  OBVIOUS
<1> QED
  BY <1>1, <1>2, <1>3 DEF IdleSend, SendRec

LEMMA Requests ==
  ASSUME NEW s, NEW c, Kept(c, s)
  PROVE  /\ Kept(RequestPull(c), s) /\ Tame(c, RequestPull(c))
         /\ RequestPull(c).pull.phase # "idle"
         /\ RequestPull(c).send = c.send /\ RequestPull(c).waiters = c.waiters
         /\ RequestPull(c).queue = c.queue
<1> DEFINE r == RequestPull(c)
<1>1. c \in TabRec /\ c.pull \in PullRec /\ c.cursor \in Nat /\ c.catchUp \in BOOLEAN
      /\ PullOK(c, s) /\ SendOK(c, s)
  BY DEF Kept, TabRec
<1>2. CASE c.pull.phase # "idle"
  <2> DEFINE q == [c.pull EXCEPT !.again = TRUE]
  <2>1. r = [c EXCEPT !.pull = q]
    BY <1>2 DEF RequestPull
  <2>2. /\ q \in PullRec /\ q.phase = c.pull.phase /\ q.full = c.pull.full /\ q.from = c.pull.from
        /\ q.rows = c.pull.rows /\ q.rev = c.pull.rev
    BY <1>1 DEF PullRec
  <2> HIDE DEF q
  <2>3. r \in TabRec
    BY <1>1, <2>1, <2>2 DEF TabRec
  <2>4. /\ r.pull = q /\ r.send = c.send /\ r.waiters = c.waiters /\ r.queue = c.queue
        /\ r.cursor = c.cursor /\ Tame(c, r) /\ r.catchUp = c.catchUp
    BY <1>1, <2>1 DEF TabRec, Tame
  <2>5. PullOK(r, s) /\ SendOK(r, s) /\ Waited(r)
    BY <1>1, <1>2, <2>2, <2>4 DEF PullOK, SendOK, Waited, Answer
  <2> QED
    BY <1>2, <2>2, <2>3, <2>4, <2>5 DEF Kept
<1>3. CASE c.pull.phase = "idle"
  <2> DEFINE q == [IdlePull EXCEPT !.phase = "asked", !.full = c.catchUp,
                                   !.from = IF c.catchUp THEN 0 ELSE c.cursor]
  <2>1. r = [c EXCEPT !.pull = q]
    BY <1>3 DEF RequestPull
  <2>2. /\ q \in PullRec /\ q.phase = "asked" /\ q.full = c.catchUp
        /\ q.from = IF c.catchUp THEN 0 ELSE c.cursor
    BY <1>1, IdleFacts DEF PullRec
  <2> HIDE DEF q
  <2>3. r \in TabRec
    BY <1>1, <2>1, <2>2 DEF TabRec
  <2>4. /\ r.pull = q /\ r.send = c.send /\ r.waiters = c.waiters /\ r.queue = c.queue
        /\ r.cursor = c.cursor /\ Tame(c, r) /\ r.catchUp = c.catchUp
    BY <1>1, <2>1 DEF TabRec, Tame
  <2>5. PullOK(r, s) /\ SendOK(r, s) /\ Waited(r)
    BY <1>1, <2>2, <2>4 DEF PullOK, SendOK, Waited
  <2> QED
    BY <2>2, <2>3, <2>4, <2>5 DEF Kept
<1> QED
  BY <1>2, <1>3

LEMMA Quotient ==
  ASSUME NEW x \in Nat, NEW y \in Nat, y > 0, x >= y
  PROVE  x \div y \in Int /\ x \div y > 0
<1>1. x \div y \in Int
  OBVIOUS
<1>2. x \div y > 0
  BY Z3
<1> QED
  BY <1>1, <1>2

\* A nonempty set of keys is cut into at least one chunk.
LEMMA ChunksType ==
  ASSUME NEW ks \in SUBSET Keys, ks # {}
  PROVE  Chunks(ks) \in Seq(SUBSET Keys) /\ Chunks(ks) # <<>>
<1> DEFINE q == SetToSeq(ks)
           n == (Len(q) + MaxChunk - 1) \div MaxChunk
<1>1. IsFiniteSet(ks)
  BY SyncAssumption, FS_Subset
<1>2. q \in Seq(ks) /\ Len(q) = Cardinality(ks) /\ Cardinality(ks) \in Nat
  BY <1>1, Enumerates
<1>3. Len(q) \in Nat /\ Len(q) # 0
  BY <1>1, <1>2, FS_EmptySet
<1>4. MaxChunk \in Nat /\ MaxChunk > 0
  BY SyncAssumption
<1>6. n \in Nat /\ n > 0
  <2>1. Len(q) + MaxChunk - 1 \in Nat /\ Len(q) + MaxChunk - 1 >= MaxChunk
    BY <1>3, <1>4
  <2>2. n \in Int /\ n > 0
    BY <1>4, <2>1, Quotient
  <2> HIDE DEF n
  <2> QED
    BY <2>2
<1> HIDE DEF n
<1> DEFINE part(i) == {q[j] : j \in {j \in 1..Len(q) : (j - 1) \div MaxChunk = i - 1}}
<1>7. Chunks(ks) = [i \in 1..n |-> part(i)]
  BY DEF Chunks, n
<1>8. ASSUME NEW i \in 1..n PROVE part(i) \in SUBSET Keys
  BY <1>2
<1> HIDE DEF part
<1>9. Chunks(ks) \in Seq(SUBSET Keys) /\ Len(Chunks(ks)) = n
  BY <1>6, <1>7, <1>8
<1> QED
  BY <1>6, <1>9

\* The answers under way concern few of a page's fields.
LEMMA KeptBy ==
  ASSUME NEW s, NEW c, Kept(c, s), NEW d \in TabRec,
         d.pull = c.pull, d.cursor = c.cursor, d.catchUp = c.catchUp,
         d.send = c.send, d.waiters = c.waiters
  PROVE  Kept(d, s)
BY DEF Kept, PullOK, SendOK, Waited

LEMMA SendsOnce ==
  ASSUME NEW s, NEW c, Kept(c, s)
  PROVE  /\ Kept(SendOnce(c), s) /\ Tame(c, SendOnce(c))
         /\ SendOnce(c).pull = c.pull /\ SendOnce(c).waiters = c.waiters
         /\ Pulling(c) => Pulling(SendOnce(c))
<1> DEFINE waiting == c.queue \ c.held
           ready   == {k \in waiting : c.mem[k] # NoRow}
           d       == [c EXCEPT !.queue = c.queue \ (waiting \ ready), !.refused = FALSE]
           q       == [IdleSend EXCEPT !.phase = "posting", !.todo = Chunks(ready),
                          !.rows = [k \in Keys |-> IF k \in ready THEN c.mem[k] ELSE NoRow]]
           e       == [d EXCEPT !.send = q]
<1>1. /\ c \in TabRec /\ c.queue \subseteq Keys /\ c.mem \in [Keys -> Rows]
      /\ PullOK(c, s) /\ SendOK(c, s) /\ Waited(c)
  BY DEF Kept, TabRec
<1>2. SendOnce(c) = IF c.blocked THEN c ELSE IF ready = {} THEN d ELSE e
  BY DEF SendOnce
<1>3. ready \in SUBSET Keys /\ \A k \in waiting \ ready : c.mem[k] = NoRow
  BY <1>1
<1>4. c.queue \ (waiting \ ready) \in SUBSET Keys
      /\ \A k \in c.queue : c.mem[k] # NoRow => k \in c.queue \ (waiting \ ready)
  BY <1>1
<1> HIDE DEF ready, waiting
<1>5. d \in TabRec
  BY <1>1, <1>4 DEF TabRec
<1>6. /\ d.pull = c.pull /\ d.send = c.send /\ d.waiters = c.waiters /\ d.cursor = c.cursor
      /\ d.catchUp = c.catchUp /\ Tame(c, d)
  BY <1>1, <1>4 DEF TabRec, Tame
<1> HIDE DEF d
<1>7. Kept(d, s)
  BY <1>5, <1>6, KeptBy
<1>8. CASE ~c.blocked /\ ready # {}
  <2>1. Chunks(ready) \in Seq(SUBSET Keys) /\ Chunks(ready) # <<>>
    BY <1>3, <1>8, ChunksType
  <2>2. [k \in Keys |-> IF k \in ready THEN c.mem[k] ELSE NoRow] \in [Keys -> Rows]
    BY <1>1, RowFacts
  <2>3. q \in SendRec
    BY <2>1, <2>2, IdleFacts DEF SendRec
  <2>4. q.phase = "posting" /\ q.todo = Chunks(ready)
    BY IdleFacts DEF SendRec
  <2> HIDE DEF q
  <2>5. e \in TabRec
    BY <1>5, <2>3 DEF TabRec
  <2>6. /\ e.send = q /\ e.pull = c.pull /\ e.waiters = c.waiters /\ e.cursor = c.cursor
        /\ e.catchUp = c.catchUp /\ Tame(d, e)
    BY <1>5, <1>6 DEF TabRec, Tame
  <2>7. PullOK(e, s) /\ SendOK(e, s) /\ Waited(e) /\ Pulling(e)
    BY <1>1, <2>1, <2>4, <2>6 DEF PullOK, SendOK, Waited, Pulling
  <2>8. Tame(c, e)
    BY <1>6, <2>6, TameTrans
  <2> QED
    BY <1>2, <1>8, <2>5, <2>6, <2>7, <2>8 DEF Kept
<1>9. CASE c.blocked
  BY <1>2, <1>9 DEF Tame
<1>10. CASE ~c.blocked /\ ready = {}
  BY <1>2, <1>6, <1>7, <1>10 DEF Pulling
<1> QED
  BY <1>8, <1>9, <1>10

LEMMA SendsQueue ==
  ASSUME NEW s, NEW c, Kept(c, s)
  PROVE  /\ Kept(SendQueue(c), s) /\ Tame(c, SendQueue(c))
         /\ SendQueue(c).pull = c.pull /\ SendQueue(c).waiters = c.waiters
         /\ Pulling(c) => Pulling(SendQueue(c))
<1>1. CASE c.send.phase = "idle"
  BY <1>1, SendsOnce DEF SendQueue
<1>2. CASE c.send.phase # "idle"
  <2> DEFINE q == [c.send EXCEPT !.again = TRUE]
             d == [c EXCEPT !.send = q]
  <2>1. SendQueue(c) = d
    BY <1>2 DEF SendQueue
  <2>2. /\ c \in TabRec /\ c.send \in SendRec
        /\ PullOK(c, s) /\ SendOK(c, s) /\ Waited(c)
    BY DEF Kept, TabRec
  <2>3. /\ q \in SendRec /\ q.phase = c.send.phase /\ q.todo = c.send.todo
        /\ q.rows = c.send.rows /\ q.stale = c.send.stale
    BY <2>2 DEF SendRec
  <2> HIDE DEF q
  <2>4. d \in TabRec
    BY <2>2, <2>3 DEF TabRec
  <2>5. /\ d.send = q /\ d.pull = c.pull /\ d.waiters = c.waiters /\ d.cursor = c.cursor
        /\ d.catchUp = c.catchUp /\ Tame(c, d)
    BY <2>2 DEF TabRec, Tame
  <2>6. PullOK(d, s) /\ SendOK(d, s) /\ Waited(d) /\ (Pulling(c) => Pulling(d))
    BY <2>2, <2>3, <2>5 DEF PullOK, SendOK, Stored, Waited, Pulling
  <2> QED
    BY <2>1, <2>4, <2>5, <2>6 DEF Kept
<1> QED
  BY <1>1, <1>2

LEMMA SendsEnd ==
  ASSUME NEW s, NEW c, Kept(c, s)
  PROVE  /\ Kept(SendEnds(c), s) /\ Tame(c, SendEnds(c))
         /\ SendEnds(c).pull = c.pull /\ SendEnds(c).waiters = c.waiters
         /\ Pulling(SendEnds(c))
<1> DEFINE d == [c EXCEPT !.send = IdleSend]
<1>1. c \in TabRec /\ PullOK(c, s) /\ Waited(c)
  BY DEF Kept
<1>2. d \in TabRec
  BY <1>1, IdleFacts DEF TabRec
<1>3. IdleSend.phase = "idle" /\ IdleSend.todo = <<>>
  BY DEF IdleSend
<1>4. /\ d.send = IdleSend /\ d.pull = c.pull /\ d.waiters = c.waiters /\ d.cursor = c.cursor
      /\ d.catchUp = c.catchUp /\ Tame(c, d)
  BY <1>1 DEF TabRec, Tame
<1>5. SendEnds(c) = IF c.send.again THEN SendOnce(d) ELSE d
  BY DEF SendEnds
<1> HIDE DEF d
<1>6. PullOK(d, s) /\ SendOK(d, s) /\ Waited(d) /\ Pulling(d)
  BY <1>1, <1>3, <1>4 DEF PullOK, SendOK, Waited, Pulling
<1>7. Kept(d, s)
  BY <1>2, <1>6 DEF Kept
<1>8. CASE c.send.again
  BY <1>4, <1>5, <1>6, <1>7, <1>8, SendsOnce, TameTrans
<1>9. CASE ~c.send.again
  BY <1>4, <1>5, <1>6, <1>7, <1>9
<1> QED
  BY <1>8, <1>9

\* A failure's two ends change no answer under way.
LEMMA Fails ==
  ASSUME NEW s, NEW c, Kept(c, s), NEW d, d \in {RetryLater(c), Block(c)}
  PROVE  /\ Kept(d, s) /\ Tame(c, d) /\ d.pull = c.pull /\ d.send = c.send
         /\ d.waiters = c.waiters
<1>1. c \in TabRec
  BY DEF Kept
<1>2. d = [c EXCEPT !.timer = TRUE]
      \/ d = [c EXCEPT !.blocked = TRUE, !.timer = FALSE, !.refused = TRUE]
  BY DEF RetryLater, Block
<1>3. [c EXCEPT !.timer = TRUE] \in TabRec
  BY <1>1 DEF TabRec
<1>4. [c EXCEPT !.blocked = TRUE, !.timer = FALSE, !.refused = TRUE] \in TabRec
  BY <1>1 DEF TabRec
<1>5. /\ d.pull = c.pull /\ d.send = c.send /\ d.waiters = c.waiters /\ d.cursor = c.cursor
      /\ d.catchUp = c.catchUp /\ Tame(c, d)
  BY <1>1, <1>2 DEF TabRec, Tame
<1>6. d \in TabRec
  BY <1>2, <1>3, <1>4
<1> QED
  BY <1>5, <1>6, KeptBy

LEMMA PullsThenSends ==
  ASSUME NEW s, NEW c, Kept(c, s)
  PROVE  /\ Kept(PullThenSend(c), s) /\ Tame(c, PullThenSend(c))
         /\ PullThenSend(c).pull.phase # "idle"
<1> DEFINE r == RequestPull(c)
           w == IF r.waiters = 2 THEN 2 ELSE r.waiters + 1
           d == [r EXCEPT !.waiters = w]
<1>1. Kept(r, s) /\ Tame(c, r) /\ r.pull.phase # "idle"
  BY Requests
<1>2. r \in TabRec /\ PullOK(r, s) /\ SendOK(r, s)
  BY <1>1 DEF Kept
<1>3. PullThenSend(c) = d
  BY DEF PullThenSend
<1> HIDE DEF r
<1>4. w \in 0..2
  BY <1>2 DEF TabRec
<1> HIDE DEF w
<1>5. d \in TabRec
  BY <1>2, <1>4 DEF TabRec
<1>6. d.pull = r.pull /\ d.send = r.send /\ d.cursor = r.cursor /\ d.catchUp = r.catchUp /\ Tame(r, d)
  BY <1>2 DEF TabRec, Tame
<1>7. PullOK(d, s) /\ SendOK(d, s) /\ Waited(d)
  BY <1>1, <1>2, <1>6 DEF PullOK, SendOK, Waited
<1> QED
  BY <1>1, <1>3, <1>5, <1>6, <1>7, TameTrans DEF Kept

\* The end of a pull, whatever became of it.
LEMMA PullsEnd ==
  ASSUME NEW s, NEW c \in TabRec, SendOK(c, s)
  PROVE  Kept(PullEnds(c), s) /\ Tame(c, PullEnds(c)) /\ Pulling(PullEnds(c))
<1> DEFINE qs    == IF c.starting /\ c.catchUp
                    THEN c.queue \cup {k \in Keys : c.mem[k] # NoRow} ELSE c.queue
           d     == [c EXCEPT !.pull = IdlePull, !.waiters = 0, !.starting = FALSE, !.queue = qs]
           asked == IF c.pull.again THEN RequestPull(d) ELSE d
           freed == IF d.send.phase = "pulling" THEN SendEnds(asked) ELSE asked
           sent  == IF c.waiters > 0 THEN SendQueue(freed) ELSE freed
<1>1. PullEnds(c) = IF c.waiters = 2 THEN SendQueue(sent) ELSE sent
  BY DEF PullEnds
<1>2. qs \in SUBSET Keys /\ c.queue \subseteq qs
  BY DEF TabRec
<1> HIDE DEF qs
<1>3. d \in TabRec
  <2>0. 0 \in 0..2 /\ IdlePull \in PullRec
    BY IdleFacts
  <2>1. [c EXCEPT !.pull = IdlePull, !.waiters = 0] \in TabRec
    BY <2>0 DEF TabRec
  <2>2. d = [[c EXCEPT !.pull = IdlePull, !.waiters = 0] EXCEPT !.starting = FALSE, !.queue = qs]
    OBVIOUS
  <2> QED
    BY <1>2, <2>1, <2>2 DEF TabRec
<1>4. /\ d.pull = IdlePull /\ d.send = c.send /\ d.waiters = 0 /\ d.cursor = c.cursor
      /\ d.catchUp = c.catchUp /\ Tame(c, d)
  BY <1>2 DEF TabRec, Tame
<1>5. IdlePull.phase = "idle"
  BY DEF IdlePull
<1> HIDE DEF d
<1>6. Kept(d, s)
  BY <1>3, <1>4, <1>5 DEF Kept, PullOK, SendOK, Waited
<1>7. Kept(asked, s) /\ Tame(c, asked) /\ asked.send = d.send
  BY <1>4, <1>6, Requests, TameTrans
<1> HIDE DEF asked
<1>8. Kept(freed, s) /\ Tame(c, freed) /\ Pulling(freed)
  BY <1>7, SendsEnd, TameTrans DEF Pulling
<1> HIDE DEF freed
<1>9. Kept(sent, s) /\ Tame(c, sent) /\ Pulling(sent)
  BY <1>8, SendsQueue, TameTrans
<1> HIDE DEF sent
<1> QED
  BY <1>1, <1>9, SendsQueue, TameTrans

\* After a chunk, whatever became of it.
LEMMA NextChunks ==
  ASSUME NEW s, NEW c \in TabRec, PullOK(c, s), Waited(c)
  PROVE  Kept(NextChunk(c), s) /\ Tame(c, NextChunk(c)) /\ Pulling(NextChunk(c))
<1> DEFINE p == IF c.send.todo # <<>> THEN "posting" ELSE "pulling"
           q == [c.send EXCEPT !.phase = p, !.stale = {}]
           d == [c EXCEPT !.send = q]
<1>1. c.send \in SendRec
  BY DEF TabRec
<1>2. q \in SendRec /\ q.phase = p /\ q.todo = c.send.todo
  BY <1>1 DEF SendRec
<1>3. NextChunk(c) = IF c.send.todo # <<>> THEN d ELSE RequestPull(d)
  <2>1. d = [c EXCEPT !.send.phase = p, !.send.stale = {}]
    BY DEF TabRec
  <2>2. CASE c.send.todo # <<>>
    BY <2>1, <2>2 DEF NextChunk
  <2>3. CASE c.send.todo = <<>>
    BY <2>1, <2>3 DEF NextChunk
  <2> QED
    BY <2>2, <2>3
<1> HIDE DEF q
<1>4. d \in TabRec
  BY <1>2 DEF TabRec
<1>5. /\ d.pull = c.pull /\ d.send = q /\ d.waiters = c.waiters /\ d.cursor = c.cursor
      /\ d.catchUp = c.catchUp /\ Tame(c, d)
  BY DEF TabRec, Tame
<1>6. Kept(d, s)
  BY <1>2, <1>4, <1>5 DEF Kept, PullOK, SendOK, Waited
<1> HIDE DEF d
<1>7. CASE c.send.todo # <<>>
  BY <1>2, <1>3, <1>5, <1>6, <1>7 DEF Pulling
<1>8. CASE c.send.todo = <<>>
  BY <1>3, <1>5, <1>6, <1>8, Requests, TameTrans DEF Pulling
<1> QED
  BY <1>7, <1>8

LEMMA TooLarges ==
  ASSUME NEW s, NEW c \in TabRec, c.send.todo # <<>>
  PROVE  LET d == TooLarge(c)
         IN  /\ d \in TabRec /\ Tame(c, d)
             /\ d.pull = c.pull /\ d.waiters = c.waiters
<1> DEFINE sent == Head(c.send.todo)
           d == TooLarge(c)
           one(i) == {SetToSeq(sent)[i]}
           split == [i \in 1..Cardinality(sent) |-> one(i)]
           td == IF Cardinality(sent) > 1 THEN split \o Tail(c.send.todo)
                 ELSE Tail(c.send.todo)
           h == IF Cardinality(sent) > 1 THEN c.held ELSE c.held \cup sent
           q == [c.send EXCEPT !.todo = td]
<1>1. /\ c.send \in SendRec /\ c.send.todo \in Seq(SUBSET Keys) /\ c.held \in SUBSET Keys
  BY TabFacts DEF TabRec
<1>2. sent \in SUBSET Keys /\ Tail(c.send.todo) \in Seq(SUBSET Keys)
  BY <1>1
<1>3. split \in Seq(SUBSET Keys)
  <2>1. IsFiniteSet(sent)
    BY <1>2, SyncAssumption, FS_Subset
  <2>2. Cardinality(sent) \in Nat /\ SetToSeq(sent) \in [1..Cardinality(sent) -> sent]
    BY <2>1, Enumerates
  <2>3. ASSUME NEW i \in 1..Cardinality(sent) PROVE one(i) \in SUBSET Keys
    BY <1>2, <2>2
  <2> HIDE DEF one
  <2> QED
    BY <2>2, <2>3
<1> HIDE DEF split
<1>4. td \in Seq(SUBSET Keys)
  BY <1>2, <1>3
<1>5. h \in SUBSET Keys
  BY <1>1, <1>2
<1>6. d = [c EXCEPT !.send = q, !.held = h]
  <2>1. CASE Cardinality(sent) > 1
    <3>1. d = [c EXCEPT !.send.todo = split \o Tail(c.send.todo)]
      BY <2>1 DEF TooLarge, split, one
    <3>2. [c EXCEPT !.send = q, !.held = c.held] = [c EXCEPT !.send = q]
      BY DEF TabRec
    <3> QED
      BY <2>1, <3>1, <3>2
  <2>2. CASE ~(Cardinality(sent) > 1)
    <3>1. d = [c EXCEPT !.held = c.held \cup sent, !.send.todo = Tail(c.send.todo)]
      BY <2>2 DEF TooLarge
    <3> QED
      BY <2>2, <3>1 DEF TabRec
  <2> QED
    BY <2>1, <2>2
<1> HIDE DEF td, h, d
<1>7. q \in SendRec
  BY <1>1, <1>4 DEF SendRec
<1> HIDE DEF q
<1>8. d \in TabRec
  BY <1>5, <1>6, <1>7 DEF TabRec
<1>9. d.pull = c.pull /\ d.waiters = c.waiters /\ Tame(c, d)
  BY <1>6 DEF TabRec, Tame
<1> QED
  BY <1>8, <1>9 DEF d

----------------------------------------------------------------------------
\* What a pull brings.

\* No row of the page goes back to an older one.
Forward(c, d) ==
    \A k \in Keys : d.mem[k] = NoRow \/ ~Newer(c.mem[k], d.mem[k])

LEMMA TameForward ==
  ASSUME NEW c \in TabRec, NEW d, Tame(c, d)
  PROVE  Forward(c, d)
BY TabFacts, NewerFacts DEF Forward, Tame

LEMMA ForwardTame ==
  ASSUME NEW b, NEW c, NEW d, Forward(b, c), Tame(c, d)
  PROVE  Forward(b, d)
BY DEF Forward, Tame

LEMMA TameGood ==
  ASSUME NEW s \in ServerRec, NEW a, NEW c, Good(c, s, a),
         NEW d, Kept(d, s), Tame(c, d), Pulling(d)
  PROVE  Good(d, s, a)
<1>1. Sound(d, s, a)
  BY TameSound DEF Good
<1> QED
  BY <1>1 DEF Good, Kept, Tame

LEMMA Merges ==
  ASSUME NEW c \in TabRec, NEW rows \in [Keys -> Rows]
  PROVE  LET m == Merge(c, rows)
         IN  /\ m \in TabRec
             /\ m.pull = c.pull /\ m.send = c.send /\ m.queue = c.queue /\ m.cursor = c.cursor
             /\ m.catchUp = c.catchUp /\ m.waiters = c.waiters /\ m.up = c.up
             /\ m.degraded = c.degraded
             /\ \A k \in Keys :
                   /\ Newer(rows[k], c.mem[k])
                      => m.mem[k] = rows[k] \/ (m.mem[k] = NoRow /\ Expired(rows[k]))
                   /\ ~Newer(rows[k], c.mem[k])
                      => m.mem[k] = c.mem[k] /\ (k \in c.adopted => k \in m.adopted)
<1> DEFINE wins == {k \in Keys : Newer(rows[k], c.mem[k])}
           gone == {k \in wins : Expired(rows[k])}
           mem  == [k \in Keys |-> IF k \in gone THEN NoRow
                                   ELSE IF k \in wins THEN rows[k] ELSE c.mem[k]]
           dirt == (c.dirty \ gone) \cup (wins \ gone)
           adpt == c.adopted \ wins
           m    == Merge(c, rows)
<1>1. m = [c EXCEPT !.mem = mem, !.dirty = dirt, !.adopted = adpt]
  BY DEF Merge
<1>2. c.mem \in [Keys -> Rows] /\ c.dirty \subseteq Keys /\ c.adopted \subseteq Keys
  BY DEF TabRec
<1>3. mem \in [Keys -> Rows]
  BY <1>2, RowFacts
<1>4. dirt \in SUBSET Keys /\ adpt \in SUBSET Keys
  BY <1>2
<1>5. ASSUME NEW k \in Keys
      PROVE  /\ Newer(rows[k], c.mem[k])
                => mem[k] = rows[k] \/ (mem[k] = NoRow /\ Expired(rows[k]))
             /\ ~Newer(rows[k], c.mem[k])
                => mem[k] = c.mem[k] /\ (k \in c.adopted => k \in adpt)
  OBVIOUS
<1> HIDE DEF mem, dirt, adpt, m
<1>6. m \in TabRec
  BY <1>1, <1>3, <1>4 DEF TabRec
<1>7. /\ m.pull = c.pull /\ m.send = c.send /\ m.queue = c.queue /\ m.cursor = c.cursor
      /\ m.catchUp = c.catchUp /\ m.waiters = c.waiters /\ m.up = c.up
      /\ m.degraded = c.degraded /\ m.mem = mem /\ m.adopted = adpt
  BY <1>1 DEF TabRec
<1> QED
  BY <1>5, <1>6, <1>7 DEF m

LEMMA Absorbs ==
  ASSUME NEW c \in TabRec
  PROVE  LET m == Absorb(c)
         IN  /\ m \in TabRec
             /\ m.pull = c.pull /\ m.send = c.send /\ m.cursor = c.pull.rev
             /\ m.catchUp = c.catchUp /\ m.waiters = c.waiters /\ m.up = c.up
             /\ m.degraded = c.degraded
             /\ \A k \in Keys :
                   /\ Newer(c.pull.rows[k], c.mem[k])
                      => m.mem[k] = c.pull.rows[k]
                         \/ (m.mem[k] = NoRow /\ Expired(c.pull.rows[k]))
                   /\ ~Newer(c.pull.rows[k], c.mem[k])
                      => m.mem[k] = c.mem[k] /\ (k \in c.adopted => k \in m.adopted)
                   /\ k \in c.queue \ m.queue
                      => m.mem[k] = NoRow \/ ~Newer(m.mem[k], c.pull.rows[k])
<1> DEFINE m0   == Merge(c, c.pull.rows)
           got  == {k \in Keys : c.pull.rows[k] # NoRow}
           done == {k \in m0.queue : m0.mem[k] = NoRow
                        \/ (k \in got /\ ~Newer(m0.mem[k], c.pull.rows[k]))}
           qs   == IF got = {} THEN m0.queue ELSE m0.queue \ done
           m    == Absorb(c)
<1>1. c.pull.rows \in [Keys -> Rows] /\ c.pull.rev \in Nat
  BY TabFacts
<1>2. m = [m0 EXCEPT !.blocked = FALSE, !.cursor = c.pull.rev, !.queue = qs]
  BY DEF Absorb
<1>3. /\ m0 \in TabRec
      /\ m0.pull = c.pull /\ m0.send = c.send /\ m0.queue = c.queue
      /\ m0.catchUp = c.catchUp /\ m0.waiters = c.waiters /\ m0.up = c.up
      /\ m0.degraded = c.degraded
      /\ \A k \in Keys :
            /\ Newer(c.pull.rows[k], c.mem[k])
               => m0.mem[k] = c.pull.rows[k]
                  \/ (m0.mem[k] = NoRow /\ Expired(c.pull.rows[k]))
            /\ ~Newer(c.pull.rows[k], c.mem[k])
               => m0.mem[k] = c.mem[k] /\ (k \in c.adopted => k \in m0.adopted)
  BY <1>1, Merges
<1> HIDE DEF m0
<1>4. qs \in SUBSET Keys
  BY <1>3 DEF TabRec
<1>5. ASSUME NEW k \in Keys, k \in c.queue \ qs
      PROVE  m0.mem[k] = NoRow \/ ~Newer(m0.mem[k], c.pull.rows[k])
  BY <1>3, <1>5
<1> HIDE DEF qs, m
<1>6. m \in TabRec
  BY <1>1, <1>2, <1>3, <1>4 DEF TabRec
<1>7. /\ m.pull = m0.pull /\ m.send = m0.send /\ m.queue = qs /\ m.cursor = c.pull.rev
      /\ m.catchUp = m0.catchUp /\ m.waiters = m0.waiters /\ m.up = m0.up
      /\ m.degraded = m0.degraded /\ m.mem = m0.mem /\ m.adopted = m0.adopted
  BY <1>2, <1>3 DEF TabRec
<1> QED
  BY <1>3, <1>5, <1>6, <1>7 DEF m

LEMMA Forgets ==
  ASSUME NEW c \in TabRec, NEW ks
  PROVE  LET f == Forget(c, ks)
         IN  /\ f \in TabRec
             /\ f.pull = c.pull /\ f.send = c.send /\ f.cursor = c.cursor
             /\ f.catchUp = c.catchUp /\ f.waiters = c.waiters /\ f.up = c.up
             /\ f.degraded = c.degraded
             /\ f.queue = c.queue \ ks /\ f.adopted = c.adopted \ ks
             /\ \A k \in Keys : f.mem[k] = IF k \in ks THEN NoRow ELSE c.mem[k]
<1> DEFINE mem == [k \in Keys |-> IF k \in ks THEN NoRow ELSE c.mem[k]]
           f   == Forget(c, ks)
<1>1. f = [c EXCEPT !.mem = mem, !.dirty = c.dirty \ ks, !.adopted = c.adopted \ ks,
                    !.queue = c.queue \ ks]
  BY DEF Forget
<1>2. mem \in [Keys -> Rows] /\ \A k \in Keys : mem[k] = IF k \in ks THEN NoRow ELSE c.mem[k]
  BY RowFacts, TabFacts
<1> HIDE DEF mem, f
<1>3. f \in TabRec
  BY <1>1, <1>2 DEF TabRec
<1>4. /\ f.pull = c.pull /\ f.send = c.send /\ f.cursor = c.cursor
      /\ f.catchUp = c.catchUp /\ f.waiters = c.waiters /\ f.up = c.up
      /\ f.degraded = c.degraded
      /\ f.queue = c.queue \ ks /\ f.adopted = c.adopted \ ks /\ f.mem = mem
  BY <1>1 DEF TabRec
<1> QED
  BY <1>2, <1>3, <1>4 DEF f

LEMMA CoveredBelow ==
  ASSUME NEW s \in ServerRec, NEW k \in Keys, NEW r \in Rows, NEW q \in Rows,
         Covered(s, k, q), ~Newer(r, q)
  PROVE  Covered(s, k, r)
<1>1. s.rows[k] \in Rows /\ s.horizon \in Nat /\ r.upd \in Nat /\ q.upd \in Nat
  BY ServerFacts, RowFacts
<1>2. r.upd <= q.upd
  BY NewerFacts
<1>3. CASE ~Newer(q, s.rows[k])
  BY <1>1, <1>3, NotNewer DEF Covered
<1>4. CASE s.rows[k] = NoRow /\ q.upd <= s.horizon
  BY <1>1, <1>2, <1>4 DEF Covered
<1> QED
  BY <1>3, <1>4 DEF Covered

LEMMA CoveredNone ==
  ASSUME NEW s \in ServerRec, NEW k \in Keys
  PROVE  Covered(s, k, NoRow)
BY NewerFacts, ServerFacts DEF Covered

LEMMA Reconciles ==
  ASSUME NEW m \in TabRec, NEW p \in PullRec
  PROVE  LET x == Reconcile(m, p)
         IN  /\ x \in TabRec
             /\ x.send = m.send /\ x.cursor = m.cursor /\ ~x.catchUp
             /\ x.waiters = m.waiters /\ x.up = m.up /\ x.degraded = m.degraded
             /\ \A k \in Keys :
                   \/ x.mem[k] = NoRow /\ p.rows[k] = NoRow
                   \/ x.mem[k] = m.mem[k]
                      /\ (m.mem[k] # NoRow /\ Newer(m.mem[k], p.rows[k]) => k \in x.queue)
<1> DEFINE held  == {k \in Keys : m.mem[k] # NoRow}
           stale == {k \in held : /\ p.rows[k] = NoRow
                                  /\ p.horizon > 0
                                  /\ m.mem[k].upd <= p.horizon}
           ahead == {k \in held \ stale : Newer(m.mem[k], p.rows[k])}
           n     == [m EXCEPT !.queue = m.queue \cup ahead]
           f     == Forget(n, stale)
           x     == Reconcile(m, p)
<1>1. x = [f EXCEPT !.catchUp = FALSE]
  BY DEF Reconcile
<1>2. ahead \subseteq Keys
  OBVIOUS
<1>3. \A k \in stale : p.rows[k] = NoRow
  OBVIOUS
<1>4. \A k \in Keys \ stale : m.mem[k] # NoRow /\ Newer(m.mem[k], p.rows[k]) => k \in ahead
  OBVIOUS
<1> HIDE DEF stale, ahead
<1>5. /\ n \in TabRec
      /\ n.send = m.send /\ n.cursor = m.cursor /\ n.queue = m.queue \cup ahead
      /\ n.waiters = m.waiters /\ n.up = m.up /\ n.degraded = m.degraded /\ n.mem = m.mem
  BY <1>2 DEF TabRec
<1> HIDE DEF n
<1>6. /\ f \in TabRec
      /\ f.send = n.send /\ f.cursor = n.cursor
      /\ f.waiters = n.waiters /\ f.up = n.up /\ f.degraded = n.degraded
      /\ f.queue = n.queue \ stale
      /\ \A k \in Keys : f.mem[k] = IF k \in stale THEN NoRow ELSE n.mem[k]
  BY <1>5, Forgets
<1> HIDE DEF f, x
<1>7. /\ x \in TabRec
      /\ x.send = f.send /\ x.cursor = f.cursor /\ x.catchUp = FALSE
      /\ x.waiters = f.waiters /\ x.up = f.up /\ x.degraded = f.degraded
      /\ x.queue = f.queue /\ x.mem = f.mem
  BY <1>1, <1>6 DEF TabRec
<1> QED
  BY <1>3, <1>4, <1>5, <1>6, <1>7 DEF x

\* The page when the answer c.pull is heard.
Heard(c) == IF c.pull.full THEN Reconcile(Absorb(c), c.pull) ELSE Absorb(c)

LEMMA PullsHeard ==
  ASSUME NEW s \in ServerRec, Counted(s), age \in Nat,
         NEW c, Good(c, s, age), c.pull.phase = "answered"
  PROVE  LET x == Heard(c)
         IN  /\ x \in TabRec /\ x.cursor <= s.rev /\ SendOK(x, s) /\ Sound(x, s, age)
             /\ Forward(c, x) /\ x.up = c.up /\ x.degraded = c.degraded
<1> DEFINE p == c.pull
           m == Absorb(c)
           x == Heard(c)
<1>1. /\ c \in TabRec /\ p \in PullRec /\ p.rows \in [Keys -> Rows] /\ p.rev \in Nat
      /\ p.from \in Nat /\ c.mem \in [Keys -> Rows] /\ c.cursor \in Nat
      /\ p.full \in BOOLEAN
  BY TabFacts DEF Good, TabRec, PullRec
<1>2. /\ p.from <= c.cursor /\ (c.catchUp => p.full) /\ (p.full => p.from = 0)
      /\ p.rev <= s.rev /\ Answer(p, s)
  BY DEF Good, PullOK
<1>3. SendOK(c, s) /\ Sound(c, s, age)
  BY DEF Good
<1>4. /\ m \in TabRec /\ m.mem \in [Keys -> Rows]
      /\ m.pull = p /\ m.send = c.send /\ m.cursor = p.rev
      /\ m.catchUp = c.catchUp /\ m.up = c.up /\ m.degraded = c.degraded
      /\ \A k \in Keys :
            /\ Newer(p.rows[k], c.mem[k])
               => m.mem[k] = p.rows[k] \/ (m.mem[k] = NoRow /\ Expired(p.rows[k]))
            /\ ~Newer(p.rows[k], c.mem[k])
               => m.mem[k] = c.mem[k] /\ (k \in c.adopted => k \in m.adopted)
            /\ k \in c.queue \ m.queue
               => m.mem[k] = NoRow \/ ~Newer(m.mem[k], p.rows[k])
  <2>1. m \in TabRec
    BY <1>1, Absorbs
  <2> QED
    BY <1>1, <2>1, Absorbs, TabFacts
<1>5. x = IF p.full THEN Reconcile(m, p) ELSE m
  BY DEF Heard
<1> HIDE DEF m, x, p
<1>6. ASSUME NEW k \in Keys
      PROVE  /\ p.rows[k] \in Rows /\ c.mem[k] \in Rows /\ m.mem[k] \in Rows /\ s.rows[k] \in Rows
             /\ s.at[k] \in Nat /\ (s.rows[k] # NoRow => s.at[k] > 0)
             /\ Covered(s, k, p.rows[k]) /\ Covered(s, k, NoRow)
  BY <1>1, <1>2, <1>4, ServerFacts, CoveredNone DEF Answer, Counted
<1>7. ASSUME NEW k \in Keys, s.rows[k] # NoRow, s.at[k] <= p.rev
      PROVE  ~Newer(s.rows[k], m.mem[k]) \/ (s.rows[k].del /\ s.rows[k].upd <= age)
  <2>1. CASE p.rows[k] = s.rows[k]
    <3>1. CASE Newer(p.rows[k], c.mem[k])
      BY <1>4, <1>6, <2>1, <3>1, NewerFacts DEF Expired
    <3>2. CASE ~Newer(p.rows[k], c.mem[k])
      BY <1>4, <1>6, <2>1, <3>2
    <3> QED
      BY <3>1, <3>2
  <2>2. CASE p.rows[k] = NoRow /\ s.at[k] <= p.from
    <3>1. p.from # 0 /\ s.at[k] <= c.cursor
      BY <1>1, <1>2, <1>6, <1>7, <2>2
    <3>2. Honest(c, s, age)
      BY <1>2, <1>3, <3>1 DEF Sound
    <3>3. m.mem[k] = c.mem[k]
      BY <1>4, <1>6, <2>2, NewerFacts
    <3> QED
      BY <1>7, <3>1, <3>2, <3>3 DEF Honest
  <2> QED
    BY <1>2, <1>7, <2>1, <2>2 DEF Answer
<1>8. ASSUME NEW k \in Keys PROVE m.mem[k] = NoRow \/ ~Newer(c.mem[k], m.mem[k])
  BY <1>4, <1>6, NewerFacts
<1>9. CASE ~p.full
  <2>1. x = m /\ Queued(c, s)
    BY <1>2, <1>3, <1>5, <1>9 DEF Sound
  <2>2. ASSUME NEW k \in Keys \ m.adopted PROVE k \in m.queue \/ Covered(s, k, m.mem[k])
    <3>1. CASE Newer(p.rows[k], c.mem[k])
      BY <1>4, <1>6, <3>1
    <3>2. CASE ~Newer(p.rows[k], c.mem[k]) /\ k \in c.queue \ m.queue
      BY <1>4, <1>6, <3>2, CoveredBelow
    <3>3. CASE ~Newer(p.rows[k], c.mem[k]) /\ k \notin c.queue \ m.queue
      BY <1>4, <1>6, <2>1, <2>2, <3>3 DEF Queued
    <3> QED
      BY <3>1, <3>2, <3>3
  <2>3. Sound(x, s, age)
    BY <1>4, <1>7, <2>1, <2>2 DEF Sound, Queued, Honest
  <2> QED
    BY <1>2, <1>3, <1>4, <1>8, <2>1, <2>3 DEF x, SendOK, Forward
<1>10. CASE p.full
  <2>1. /\ x \in TabRec
        /\ x.send = m.send /\ x.cursor = m.cursor /\ ~x.catchUp
        /\ x.up = m.up /\ x.degraded = m.degraded
        /\ \A k \in Keys :
              \/ x.mem[k] = NoRow /\ p.rows[k] = NoRow
              \/ x.mem[k] = m.mem[k]
                 /\ (m.mem[k] # NoRow /\ Newer(m.mem[k], p.rows[k]) => k \in x.queue)
    BY <1>1, <1>4, <1>5, <1>10, Reconciles
  <2>2. ASSUME NEW k \in Keys, s.rows[k] # NoRow, s.at[k] <= p.rev
        PROVE  ~Newer(s.rows[k], x.mem[k]) \/ (s.rows[k].del /\ s.rows[k].upd <= age)
    <3>1. CASE x.mem[k] = NoRow /\ p.rows[k] = NoRow
      <4>1. s.at[k] <= 0
        BY <1>2, <1>10, <2>2, <3>1 DEF Answer
      <4> QED
        BY <1>6, <2>2, <4>1
    <3>2. CASE x.mem[k] = m.mem[k]
      BY <1>7, <2>2, <3>2
    <3> QED
      BY <2>1, <3>1, <3>2
  <2>3. ASSUME NEW k \in Keys PROVE k \in x.queue \/ Covered(s, k, x.mem[k])
    <3>1. CASE x.mem[k] = NoRow
      BY <1>6, <3>1
    <3>2. CASE x.mem[k] = m.mem[k] /\ m.mem[k] # NoRow /\ ~Newer(m.mem[k], p.rows[k])
      BY <1>6, <3>2, CoveredBelow
    <3> QED
      BY <2>1, <3>1, <3>2
  <2>4. Sound(x, s, age)
    BY <1>4, <2>1, <2>2, <2>3 DEF Sound, Queued, Honest
  <2>5. Forward(c, x)
    BY <1>8, <2>1 DEF Forward
  <2> QED
    BY <1>2, <1>3, <1>4, <2>1, <2>4, <2>5 DEF x, SendOK
<1> QED
  BY <1>1, <1>9, <1>10

----------------------------------------------------------------------------
\* What the answer to a post brings.

LEMMA Accepts ==
  ASSUME NEW c \in TabRec, c.send.todo # <<>>
  PROVE  LET d == Accepted(c)
         IN  /\ d \in TabRec
             /\ d.pull = c.pull /\ d.cursor = c.cursor /\ d.catchUp = c.catchUp
             /\ d.waiters = c.waiters /\ d.up = c.up /\ d.degraded = c.degraded
             /\ \A k \in Keys :
                   \/ /\ d.mem[k] = c.mem[k]
                      /\ k \in c.adopted => k \in d.adopted
                      /\ k \in c.queue \ d.queue
                         => k \in Head(c.send.todo) /\ ~Newer(c.mem[k], c.send.rows[k])
                   \/ /\ d.mem[k] = NoRow
                      /\ k \in c.send.stale /\ ~Newer(c.mem[k], c.send.rows[k])
<1> DEFINE sent == Head(c.send.todo)
           same == {k \in sent : ~Newer(c.mem[k], c.send.rows[k])}
           ks   == {k \in c.send.stale \cap same : c.mem[k] # NoRow}
           f    == Forget(c, ks)
           q    == [f.send EXCEPT !.todo = Tail(c.send.todo)]
           d    == Accepted(c)
<1>1. sent \subseteq Keys /\ Tail(c.send.todo) \in Seq(SUBSET Keys)
  BY TabFacts
<1>2. \A k \in same : k \in sent /\ ~Newer(c.mem[k], c.send.rows[k])
  OBVIOUS
<1>3. \A k \in ks : k \in c.send.stale /\ k \in same
  OBVIOUS
<1>4. /\ f \in TabRec
      /\ f.pull = c.pull /\ f.send = c.send /\ f.cursor = c.cursor
      /\ f.catchUp = c.catchUp /\ f.waiters = c.waiters /\ f.up = c.up
      /\ f.degraded = c.degraded
      /\ f.queue = c.queue \ ks /\ f.adopted = c.adopted \ ks
      /\ \A k \in Keys : f.mem[k] = IF k \in ks THEN NoRow ELSE c.mem[k]
  BY Forgets
<1>5. d = [f EXCEPT !.queue = f.queue \ same, !.send = q]
  <2>1. d = [f EXCEPT !.queue = f.queue \ same, !.send.todo = Tail(f.send.todo)]
    BY DEF Accepted
  <2> HIDE DEF f, same
  <2> QED
    BY <1>4, <2>1 DEF TabRec
<1> HIDE DEF ks, same, f, d
<1>6. f.send \in SendRec /\ f.queue \in SUBSET Keys
  BY <1>4 DEF TabRec
<1>7. q \in SendRec
  BY <1>1, <1>6 DEF SendRec
<1> HIDE DEF q
<1>8. d \in TabRec
  <2>1. f.queue \ same \in SUBSET Keys
    BY <1>6
  <2> QED
    BY <1>4, <1>5, <1>7, <2>1 DEF TabRec
<1>9. /\ d.pull = f.pull /\ d.cursor = f.cursor /\ d.catchUp = f.catchUp
      /\ d.waiters = f.waiters /\ d.up = f.up /\ d.degraded = f.degraded
      /\ d.mem = f.mem /\ d.adopted = f.adopted /\ d.queue = f.queue \ same
  BY <1>4, <1>5 DEF TabRec
<1> QED
  BY <1>2, <1>3, <1>4, <1>8, <1>9 DEF d

LEMMA PostsHeard ==
  ASSUME NEW s \in ServerRec, age \in Nat,
         NEW c, Good(c, s, age), c.send.phase = "stored"
  PROVE  LET r == NextChunk(Accepted(c))
         IN  /\ Good(r, s, age) /\ Forward(c, r)
             /\ r.up = c.up /\ r.degraded = c.degraded
<1> DEFINE d == Accepted(c)
           r == NextChunk(d)
<1>1. /\ c \in TabRec /\ PullOK(c, s) /\ SendOK(c, s) /\ Sound(c, s, age) /\ Waited(c)
      /\ c.cursor <= s.rev
  BY DEF Good
<1>2. c.send.todo # <<>> /\ Stored(c.send, s)
  BY <1>1 DEF SendOK
<1>3. /\ d \in TabRec
      /\ d.pull = c.pull /\ d.cursor = c.cursor /\ d.catchUp = c.catchUp
      /\ d.waiters = c.waiters /\ d.up = c.up /\ d.degraded = c.degraded
      /\ \A k \in Keys :
            \/ /\ d.mem[k] = c.mem[k]
               /\ k \in c.adopted => k \in d.adopted
               /\ k \in c.queue \ d.queue
                  => k \in Head(c.send.todo) /\ ~Newer(c.mem[k], c.send.rows[k])
            \/ /\ d.mem[k] = NoRow
               /\ k \in c.send.stale /\ ~Newer(c.mem[k], c.send.rows[k])
  BY <1>1, <1>2, Accepts
<1> HIDE DEF d
<1>4. ASSUME NEW k \in Keys
      PROVE  /\ c.mem[k] \in Rows /\ c.send.rows[k] \in Rows /\ s.rows[k] \in Rows
             /\ c.mem[k].upd \in Nat /\ c.send.rows[k].upd \in Nat /\ s.rows[k].upd \in Nat
             /\ Covered(s, k, NoRow)
  BY <1>1, TabFacts, ServerFacts, RowFacts, CoveredNone
<1>5. ASSUME Queued(c, s), Honest(c, s, age) PROVE Queued(d, s) /\ Honest(d, s, age)
  <2>1. ASSUME NEW k \in Keys \ d.adopted PROVE k \in d.queue \/ Covered(s, k, d.mem[k])
    <3>1. CASE d.mem[k] = NoRow
      BY <1>4, <3>1
    <3>2. CASE d.mem[k] = c.mem[k] /\ k \in c.queue \ d.queue /\ d.mem[k] # NoRow
      <4>1. k \in Head(c.send.todo) /\ ~Newer(c.mem[k], c.send.rows[k])
        BY <1>3, <3>2
      <4> QED
        BY <1>2, <1>4, <3>2, <4>1, CoveredBelow DEF Stored
    <3>3. CASE d.mem[k] = c.mem[k] /\ k \notin c.queue \ d.queue /\ d.mem[k] # NoRow
      BY <1>3, <1>5, <2>1, <3>3 DEF Queued
    <3> QED
      BY <1>3, <3>1, <3>2, <3>3
  <2>2. ASSUME NEW k \in Keys, s.rows[k] # NoRow, s.at[k] <= d.cursor
        PROVE  ~Newer(s.rows[k], d.mem[k]) \/ (s.rows[k].del /\ s.rows[k].upd <= age)
    <3>0. ~Newer(s.rows[k], c.mem[k]) \/ (s.rows[k].del /\ s.rows[k].upd <= age)
      BY <1>3, <1>5, <2>2 DEF Honest
    <3>1. CASE d.mem[k] = c.mem[k]
      BY <3>0, <3>1
    <3>2. CASE k \in c.send.stale /\ ~Newer(c.mem[k], c.send.rows[k])
      <4>1. s.rows[k].upd > c.send.rows[k].upd
        BY <1>2, <2>2, <3>2 DEF Stored
      <4>2. c.mem[k].upd <= c.send.rows[k].upd
        BY <1>4, <3>2, NewerFacts
      <4>3. ~(s.rows[k].upd <= c.mem[k].upd)
        BY <1>4, <4>1, <4>2
      <4>4. Newer(s.rows[k], c.mem[k])
        BY <1>4, <4>3, NewerFacts
      <4> QED
        BY <3>0, <4>4
    <3> QED
      BY <1>3, <3>1, <3>2
  <2> QED
    BY <2>1, <2>2 DEF Queued, Honest
<1>6. Sound(d, s, age)
  BY <1>1, <1>3, <1>5 DEF Sound
<1>7. Forward(c, d)
  BY <1>3, <1>4, NewerFacts DEF Forward
<1>8. PullOK(d, s) /\ Waited(d)
  BY <1>1, <1>3 DEF PullOK, Waited
<1>9. Kept(r, s) /\ Tame(d, r) /\ Pulling(r)
  BY <1>3, <1>8, NextChunks
<1> HIDE DEF r
<1>10. Sound(r, s, age)
  BY <1>3, <1>6, <1>9, TameSound
<1>11. Good(r, s, age)
  BY <1>1, <1>3, <1>9, <1>10 DEF Good, Kept, Tame
<1>12. Forward(c, r) /\ r.up = c.up /\ r.degraded = c.degraded
  BY <1>3, <1>7, <1>9, ForwardTame DEF Tame
<1> QED
  BY <1>11, <1>12 DEF r, d

----------------------------------------------------------------------------
\* What the user, other tabs and the disk do to a page.

\* A page whose rows only moved forward still holds what the server does.
LEMMA ForwardHonest ==
  ASSUME NEW s \in ServerRec, NEW a, NEW c \in TabRec, Honest(c, s, a),
         NEW d \in TabRec, d.cursor = c.cursor,
         \A k \in Keys : ~Newer(c.mem[k], d.mem[k])
  PROVE  Honest(d, s, a)
BY TabFacts, ServerFacts, NotNewer DEF Honest

\* An edit gives the keys ks rows past their old ones and queues them; where
\* there was no row it may be taken back at once.
LEMMA Puts ==
  ASSUME NEW s \in ServerRec, NEW a, NEW c, Good(c, s, a),
         NEW ks \in SUBSET Keys, NEW undone \in SUBSET ks,
         NEW mem \in [Keys -> Rows],
         \A k \in Keys : /\ ~Newer(c.mem[k], mem[k])
                         /\ k \notin ks => mem[k] = c.mem[k],
         \A k \in undone : c.mem[k] = NoRow,
         NEW dirt \in SUBSET Keys
  PROVE  LET put == [c EXCEPT !.mem = mem, !.dirty = dirt,
                              !.adopted = c.adopted \ ks, !.undone = c.undone \ ks]
             u   == Undo(OnMutation(put, ks), undone)
         IN  Good(u, s, a) /\ Forward(c, u) /\ u.up = c.up
<1> DEFINE put == [c EXCEPT !.mem = mem, !.dirty = dirt,
                            !.adopted = c.adopted \ ks, !.undone = c.undone \ ks]
           n   == [put EXCEPT !.held = put.held \ ks, !.queue = put.queue \cup ks]
           x   == SendQueue(n)
           um  == [k \in Keys |-> IF k \in undone THEN NoRow ELSE x.mem[k]]
           u   == Undo(OnMutation(put, ks), undone)
<1>1. /\ c \in TabRec /\ PullOK(c, s) /\ SendOK(c, s) /\ Sound(c, s, a) /\ Waited(c)
      /\ Pulling(c) /\ c.cursor <= s.rev
  BY DEF Good
<1>2. put \in TabRec
  BY <1>1 DEF TabRec
<1>3. /\ put.pull = c.pull /\ put.send = c.send /\ put.cursor = c.cursor
      /\ put.catchUp = c.catchUp /\ put.waiters = c.waiters /\ put.up = c.up
      /\ put.mem = mem /\ put.adopted = c.adopted \ ks /\ put.queue = c.queue
  BY <1>1 DEF TabRec
<1>4. u = Undo(x, undone)
  BY DEF OnMutation
<1> HIDE DEF put
<1>5. n \in TabRec
  BY <1>2 DEF TabRec
<1>6. /\ n.pull = put.pull /\ n.send = put.send /\ n.cursor = put.cursor
      /\ n.catchUp = put.catchUp /\ n.waiters = put.waiters /\ n.up = put.up
      /\ n.mem = put.mem /\ n.adopted = put.adopted /\ n.queue = put.queue \cup ks
  BY <1>2 DEF TabRec
<1> HIDE DEF n
<1>7. Kept(n, s) /\ Pulling(n)
  BY <1>1, <1>3, <1>5, <1>6 DEF Kept, PullOK, SendOK, Waited, Pulling
<1>8. ASSUME Queued(c, s) PROVE Queued(n, s)
  BY <1>3, <1>6, <1>8 DEF Queued
<1>9. Kept(x, s) /\ Tame(n, x) /\ Pulling(x)
  BY <1>7, SendsQueue
<1> HIDE DEF x
<1>10. x \in TabRec /\ x.mem = mem
  BY <1>3, <1>6, <1>9 DEF Kept, Tame
<1>11. um \in [Keys -> Rows]
  BY <1>10, RowFacts
<1>12. \A k \in Keys : um[k] = IF k \in undone THEN NoRow ELSE mem[k]
  BY <1>10
<1>13. u = [x EXCEPT !.mem = um, !.dirty = x.dirty \ undone, !.undone = x.undone \cup undone]
  BY <1>4 DEF Undo
<1> HIDE DEF um, u
<1>14. u \in TabRec
  BY <1>10, <1>11, <1>13 DEF TabRec
<1>15. /\ u.pull = x.pull /\ u.send = x.send /\ u.cursor = x.cursor
       /\ u.catchUp = x.catchUp /\ u.waiters = x.waiters /\ u.up = x.up
       /\ u.mem = um /\ u.adopted = x.adopted /\ u.queue = x.queue
  BY <1>10, <1>13 DEF TabRec
<1>16. Kept(u, s) /\ Pulling(u)
  BY <1>9, <1>14, <1>15, KeptBy DEF Pulling
<1>17. ASSUME NEW k \in Keys PROVE ~Newer(c.mem[k], um[k])
  BY <1>1, <1>12, TabFacts, RowFacts, NewerFacts
<1>18. ASSUME Queued(c, s), Honest(c, s, a) PROVE Queued(u, s) /\ Honest(u, s, a)
  <2>1. ASSUME NEW k \in Keys \ u.adopted PROVE k \in u.queue \/ Covered(s, k, u.mem[k])
    <3>1. CASE um[k] = NoRow
      BY <1>15, <3>1, CoveredNone
    <3>2. CASE um[k] # NoRow
      <4>1. um[k] = mem[k] /\ k \notin n.adopted
        BY <1>9, <1>12, <1>15, <2>1, <3>2 DEF Tame
      <4>2. k \in n.queue \/ Covered(s, k, n.mem[k])
        BY <1>8, <1>18, <4>1 DEF Queued
      <4> QED
        BY <1>3, <1>6, <1>9, <1>15, <3>2, <4>1, <4>2 DEF Tame
    <3> QED
      BY <3>1, <3>2
  <2>2. u.cursor = c.cursor
    BY <1>3, <1>6, <1>9, <1>15 DEF Tame
  <2>3. Honest(u, s, a)
    BY <1>1, <1>14, <1>15, <1>17, <1>18, <2>2, ForwardHonest
  <2> QED
    BY <2>1, <2>3 DEF Queued
<1>19. Good(u, s, a)
  BY <1>1, <1>3, <1>6, <1>9, <1>15, <1>16, <1>18 DEF Good, Kept, Tame, Sound
<1>20. Forward(c, u)
  BY <1>15, <1>17 DEF Forward
<1>21. u.up = c.up
  BY <1>3, <1>6, <1>9, <1>15 DEF Tame
<1> QED
  BY <1>19, <1>20, <1>21 DEF u, put

\* A row adopted from localStorage or another tab is newer than the page's.
LEMMA Adopts ==
  ASSUME NEW s \in ServerRec, NEW a, NEW c, Good(c, s, a), NEW d \in TabRec,
         d.pull = c.pull, d.send = c.send, d.cursor = c.cursor, d.catchUp = c.catchUp,
         d.waiters = c.waiters, d.queue = c.queue,
         \A k \in Keys : /\ ~Newer(c.mem[k], d.mem[k])
                         /\ k \notin d.adopted => k \notin c.adopted /\ d.mem[k] = c.mem[k]
  PROVE  Good(d, s, a) /\ Forward(c, d)
<1>1. /\ c \in TabRec /\ PullOK(c, s) /\ SendOK(c, s) /\ Sound(c, s, a) /\ Waited(c)
      /\ Pulling(c) /\ c.cursor <= s.rev
  BY DEF Good
<1>2. Kept(d, s) /\ Pulling(d)
  BY <1>1, KeptBy DEF Kept, Pulling
<1>3. ASSUME Queued(c, s), Honest(c, s, a) PROVE Queued(d, s) /\ Honest(d, s, a)
  BY <1>1, <1>3, ForwardHonest DEF Queued
<1>4. Good(d, s, a)
  BY <1>1, <1>2, <1>3 DEF Good, Kept, Sound
<1> QED
  BY <1>4 DEF Forward

----------------------------------------------------------------------------
\* The steps.  Each keeps the invariant and takes no page back in time.

LEMMA InvFacts ==
  ASSUME Inv, NEW t \in Tabs
  PROVE  /\ disk \in DiskRec /\ disk.rows \in [Keys -> Rows] /\ disk.queue \in SUBSET Keys
         /\ disk.cursor \in Nat /\ disk.cursor <= server.rev
         /\ server \in ServerRec /\ server.rev \in Nat /\ Counted(server) /\ Purged(server)
         /\ age \in Nat
         /\ tab[t] \in TabRec /\ Good(tab[t], server, age) /\ Kept(tab[t], server)
         /\ Pulling(tab[t])
<1>1. disk \in DiskRec /\ server \in ServerRec /\ Good(tab[t], server, age)
  BY DEF Inv
<1>2. disk.rows \in [Keys -> Rows] /\ disk.queue \in SUBSET Keys /\ disk.cursor \in Nat
  BY <1>1 DEF DiskRec
<1>3. age \in Nat
  BY SyncAssumption DEF Inv
<1> QED
  BY <1>1, <1>2, <1>3, ServerFacts DEF Inv, Good, Kept

LEMMA KeepsQueue ==
  ASSUME Inv, NEW t \in Tabs, NEW c \in TabRec
  PROVE  KeepQueue(t, c) \in DiskRec /\ KeepQueue(t, c).cursor = disk.cursor
<1>1. c.queue \in SUBSET Keys /\ disk \in DiskRec
  BY InvFacts DEF TabRec
<1>2. [disk EXCEPT !.queue = c.queue] \in DiskRec
      /\ [disk EXCEPT !.queue = c.queue].cursor = disk.cursor
  BY <1>1 DEF DiskRec
<1> QED
  BY <1>1, <1>2 DEF KeepQueue

LEMMA PageStep ==
  ASSUME Inv, NEW t \in Tabs, NEW d, Good(d, server, age),
         tab[t].up /\ d.up => Forward(tab[t], d),
         Become(t, d), disk' \in DiskRec, disk'.cursor <= server.rev,
         UNCHANGED <<server, age, purged>>
  PROVE  Inv' /\ StepForward
<1>1. tab \in [Tabs -> TabRec] /\ d \in TabRec
  BY DEF Inv, Good
<1>2. tab' = [tab EXCEPT ![t] = d]
  BY DEF Become
<1>3. tab' \in [Tabs -> TabRec]
  BY <1>1, <1>2
<1>4. ASSUME NEW u \in Tabs
      PROVE  /\ Good(tab'[u], server, age)
             /\ tab[u].up /\ tab'[u].up => Forward(tab[u], tab'[u])
  <2>1. CASE u = t
    BY <1>1, <1>2, <2>1
  <2>2. CASE u # t
    <3>1. tab'[u] = tab[u] /\ Good(tab[u], server, age)
      BY <1>1, <1>2, <2>2 DEF Inv
    <3>2. Forward(tab[u], tab[u])
      BY <1>1, TabFacts, NewerFacts DEF Forward
    <3> QED
      BY <3>1, <3>2
  <2> QED
    BY <2>1, <2>2
<1>5. Purged(server)' /\ Counted(server)' /\ server' \in ServerRec /\ age' \in 0..MaxTime
      /\ disk'.cursor <= server'.rev
  BY DEF Inv, Purged, Counted
<1>6. \A u \in Tabs : Good(tab[u], server, age)'
  BY <1>4
<1> QED
  BY <1>3, <1>4, <1>5, <1>6 DEF Inv, StepForward, Forward

LEMMA ClientStep ==
  ASSUME Inv, NEW t \in Tabs, NEW d, Good(d, server, age),
         tab[t].up /\ d.up => Forward(tab[t], d), Client(t, d)
  PROVE  Inv' /\ StepForward
<1>1. d \in TabRec
  BY DEF Good
<1>2. disk' \in DiskRec /\ disk'.cursor <= server.rev
  BY <1>1, InvFacts, KeepsQueue DEF Client
<1> QED
  BY <1>2, PageStep DEF Client

\* A step of the sync client that touches no row.
LEMMA TameStep ==
  ASSUME Inv, NEW t \in Tabs, NEW d, Kept(d, server), Tame(tab[t], d), Pulling(d),
         Client(t, d)
  PROVE  Inv' /\ StepForward
<1>1. Good(d, server, age)
  BY InvFacts, TameGood
<1>2. Forward(tab[t], d)
  BY InvFacts, TameForward
<1> QED
  BY <1>1, <1>2, ClientStep

LEMMA BaseFacts ==
  ASSUME Inv, NEW t \in Tabs, NEW k \in Keys
  PROVE  /\ Base(t)[k] \in Rows /\ tab[t].mem[k] \in Rows
         /\ ~Newer(tab[t].mem[k], Base(t)[k])
         /\ Base(t)[k] = NoRow => tab[t].mem[k] = NoRow
<1>1. tab[t].mem[k] \in Rows /\ disk.rows[k] \in Rows
  BY InvFacts, TabFacts
<1> QED
  BY <1>1, WinnerFacts, NewerFacts DEF Base

LEMMA PutStep ==
  ASSUME Inv, NEW t \in Tabs, NEW ks \in SUBSET Keys, NEW del \in BOOLEAN,
         NEW clock \in 1..MaxTime, NEW undone \in SUBSET ks,
         \A k \in undone : Base(t)[k] = NoRow, Put(t, ks, del, clock, undone)
  PROVE  Inv' /\ StepForward
<1> DEFINE c == tab[t]
           base == Base(t)
           up(k) == Stamp(base[k], clock)
           row(w, big, k) == [upd |-> up(k), wid |-> w[k], del |-> del, big |-> big[k]]
           mem(w, big) == [k \in Keys |-> IF k \in ks THEN row(w, big, k) ELSE c.mem[k]]
           dirt == IF c.degraded THEN c.dirty ELSE c.dirty \cup ks
           put(w, big) == [c EXCEPT !.mem = mem(w, big), !.dirty = dirt,
                                    !.adopted = c.adopted \ ks, !.undone = c.undone \ ks]
<1>1. PICK w \in [ks -> 1..MaxWid], big \in [ks -> BOOLEAN] :
         /\ \A k \in ks : up(k) <= MaxTime
         /\ Client(t, Undo(OnMutation(put(w, big), ks), undone))
  BY DEF Put
<1>2. c \in TabRec /\ Good(c, server, age) /\ server \in ServerRec
  BY InvFacts
<1>3. dirt \in SUBSET Keys
  BY <1>2 DEF TabRec
<1>4. clock \in Nat /\ clock > 0
  BY SyncAssumption
<1>5. ASSUME NEW k \in ks
      PROVE  row(w, big, k) \in Rows /\ ~Newer(c.mem[k], row(w, big, k))
  <2> DEFINE b == base[k]
  <2>1. b \in Rows /\ b.upd \in Nat /\ c.mem[k] \in Rows /\ ~Newer(c.mem[k], b)
    BY BaseFacts, RowFacts
  <2>2. up(k) \in Nat /\ up(k) > b.upd
    BY <1>4, <2>1 DEF Stamp
  <2>3. up(k) \in 1..MaxTime
    BY <1>1, <2>1, <2>2, SyncAssumption
  <2>4. w[k] \in 1..MaxWid /\ big[k] \in BOOLEAN
    OBVIOUS
  <2>5. row(w, big, k) \in Rows
    BY <2>3, <2>4 DEF Rows, Row
  <2>6. row(w, big, k).upd = up(k)
    OBVIOUS
  <2> HIDE DEF b, row
  <2>7. ~Newer(b, row(w, big, k))
    BY <2>1, <2>2, <2>5, <2>6, NewerFacts
  <2> QED
    BY <2>1, <2>5, <2>7, NotNewer
<1> HIDE DEF row, dirt
<1>6. mem(w, big) \in [Keys -> Rows]
  BY <1>2, <1>5, TabFacts
<1>7. \A k \in Keys : /\ ~Newer(c.mem[k], mem(w, big)[k])
                      /\ k \notin ks => mem(w, big)[k] = c.mem[k]
  BY <1>2, <1>5, TabFacts, NewerFacts
<1>8. \A k \in undone : c.mem[k] = NoRow
  BY BaseFacts
<1> DEFINE u == Undo(OnMutation(put(w, big), ks), undone)
<1>9. Good(u, server, age) /\ Forward(c, u)
  <2> HIDE DEF mem, c
  <2> QED
    BY <1>2, <1>3, <1>6, <1>7, <1>8, Puts
<1> HIDE DEF u
<1>10. Client(t, u)
  BY <1>1 DEF u
<1> QED
  BY <1>9, <1>10, ClientStep

LEMMA EditsStep ==
  ASSUME Inv, NEW t \in Tabs, NEW clock \in 1..MaxTime,
         \/ \E k \in Keys : Add(t, k, clock) \/ Reopen(t, k, clock) \/ AddRolledBack(t, k, clock)
         \/ \E ks \in SUBSET Keys \ {{}} : Change(t, ks, clock) \/ Delete(t, ks, clock)
  PROVE  Inv' /\ StepForward
<1>1. \E ks \in SUBSET Keys, del \in BOOLEAN : \E undone \in SUBSET ks :
         (\A k \in undone : Base(t)[k] = NoRow) /\ Put(t, ks, del, clock, undone)
  <2>1. ASSUME NEW k \in Keys, Add(t, k, clock) \/ Reopen(t, k, clock)
        PROVE  Put(t, {k}, FALSE, clock, {})
    BY <2>1 DEF Add, Reopen
  <2>2. ASSUME NEW k \in Keys, AddRolledBack(t, k, clock)
        PROVE  Put(t, {k}, FALSE, clock, {k}) /\ Base(t)[k] = NoRow
    BY <2>2 DEF AddRolledBack
  <2>3. ASSUME NEW ks \in SUBSET Keys, Change(t, ks, clock) \/ Delete(t, ks, clock)
        PROVE  \E del \in BOOLEAN : Put(t, ks, del, clock, {})
    BY <2>3 DEF Change, Delete
  <2>4. CASE \E k \in Keys : Add(t, k, clock) \/ Reopen(t, k, clock)
    <3>1. PICK k \in Keys : Put(t, {k}, FALSE, clock, {})
      BY <2>1, <2>4
    <3> QED
      BY <3>1
  <2>5. CASE \E k \in Keys : AddRolledBack(t, k, clock)
    <3>1. PICK k \in Keys : Put(t, {k}, FALSE, clock, {k}) /\ Base(t)[k] = NoRow
      BY <2>2, <2>5
    <3>2. {k} \in SUBSET {k} /\ {k} \in SUBSET Keys /\ \A j \in {k} : Base(t)[j] = NoRow
      BY <3>1
    <3> QED
      BY <3>1, <3>2
  <2>6. CASE \E ks \in SUBSET Keys \ {{}} : Change(t, ks, clock) \/ Delete(t, ks, clock)
    <3>1. PICK ks \in SUBSET Keys, del \in BOOLEAN : Put(t, ks, del, clock, {})
      BY <2>3, <2>6
    <3> QED
      BY <3>1
  <2> QED
    BY <2>4, <2>5, <2>6
<1> QED
  BY <1>1, PutStep

LEMMA ServePullStep ==
  ASSUME Inv, NEW t \in Tabs, ServePull(t)
  PROVE  Inv' /\ StepForward
<1> DEFINE c == tab[t]
           p == [c.pull EXCEPT !.phase = "answered", !.rows = Since(server, c.pull.from),
                               !.rev = server.rev, !.horizon = server.horizon]
           d == [c EXCEPT !.pull = p]
<1>1. /\ c \in TabRec /\ c.pull \in PullRec /\ c.pull.phase = "asked" /\ c.pull.from \in Nat
      /\ Good(c, server, age)
  BY InvFacts DEF ServePull, TabRec, PullRec
<1>2. /\ server \in ServerRec /\ server.rev \in Nat /\ server.horizon \in Nat
      /\ server.rows \in [Keys -> Rows] /\ server.at \in [Keys -> Nat]
  BY InvFacts, ServerFacts DEF ServerRec
<1>3. Since(server, c.pull.from) \in [Keys -> Rows]
      /\ \A k \in Keys : \/ Since(server, c.pull.from)[k] = server.rows[k]
                         \/ Since(server, c.pull.from)[k] = NoRow /\ ~(server.at[k] > c.pull.from)
  BY <1>2, RowFacts DEF Since
<1>4. Client(t, d)
  <2>1. d = [c EXCEPT !.pull.phase = "answered", !.pull.rows = Since(server, c.pull.from),
                      !.pull.rev = server.rev, !.pull.horizon = server.horizon]
    BY <1>1 DEF TabRec
  <2> QED
    BY <2>1 DEF ServePull
<1>5. /\ p \in PullRec /\ p.phase = "answered" /\ p.full = c.pull.full /\ p.from = c.pull.from
      /\ p.rows = Since(server, c.pull.from) /\ p.rev = server.rev
  BY <1>1, <1>2, <1>3 DEF PullRec
<1> HIDE DEF p
<1>6. d \in TabRec
  BY <1>1, <1>5 DEF TabRec
<1>7. /\ d.pull = p /\ d.send = c.send /\ d.waiters = c.waiters /\ d.cursor = c.cursor
      /\ d.catchUp = c.catchUp /\ Tame(c, d)
  BY <1>1 DEF TabRec, Tame
<1>8. Answer(p, server)
  <2> SUFFICES ASSUME NEW k \in Keys
               PROVE  /\ Covered(server, k, p.rows[k])
                      /\ (server.rows[k] # NoRow /\ server.at[k] <= p.rev)
                         => \/ p.rows[k] = server.rows[k]
                            \/ p.rows[k] = NoRow /\ server.at[k] <= p.from
    BY DEF Answer
  <2>1. Covered(server, k, server.rows[k]) /\ Covered(server, k, NoRow)
    BY <1>2, NewerFacts, CoveredNone DEF Covered
  <2>2. server.at[k] \in Nat
    BY <1>2
  <2> QED
    BY <1>1, <1>3, <1>5, <2>1, <2>2
<1>9. PullOK(d, server)
  BY <1>1, <1>2, <1>5, <1>7, <1>8 DEF PullOK, Good
<1>10. Kept(d, server) /\ Pulling(d)
  BY <1>1, <1>5, <1>6, <1>7, <1>9 DEF Good, Kept, SendOK, Waited, Pulling
<1> QED
  BY <1>4, <1>7, <1>10, TameStep

LEMMA DropsFromDisk ==
  ASSUME Inv, NEW c, NEW d \in DiskRec, NEW after
  PROVE  DropFromDisk(c, d, after) \in DiskRec
         /\ DropFromDisk(c, d, after).cursor \in {disk.cursor, d.cursor}
<1> DEFINE rows == [k \in Keys |-> IF c.mem[k] # NoRow /\ after.mem[k] = NoRow
                                   THEN NoRow ELSE d.rows[k]]
<1>1. rows \in [Keys -> Rows]
  BY RowFacts DEF DiskRec
<1>2. DropFromDisk(c, d, after) = IF after.degraded THEN disk ELSE [d EXCEPT !.rows = rows]
  BY DEF DropFromDisk
<1> HIDE DEF rows
<1>3. disk \in DiskRec /\ [d EXCEPT !.rows = rows] \in DiskRec
      /\ [d EXCEPT !.rows = rows].cursor = d.cursor
  BY <1>1 DEF Inv, DiskRec
<1> QED
  BY <1>2, <1>3

LEMMA HearPullStep ==
  ASSUME Inv, NEW t \in Tabs, HearPull(t)
  PROVE  Inv' /\ StepForward
<1> DEFINE c == tab[t]
           x == Heard(c)
           r == PullEnds(x)
           q == KeepQueue(t, r)
           dirt == IF c.degraded THEN {} ELSE r.dirty
           e == [r EXCEPT !.dirty = dirt]
<1>1. /\ c.pull.phase = "answered" /\ Become(t, e)
      /\ disk' = IF c.degraded THEN q ELSE [DropFromDisk(c, q, r) EXCEPT !.cursor = r.cursor]
      /\ UNCHANGED <<server, age, purged>>
  BY DEF HearPull, Heard
<1>2. /\ c \in TabRec /\ Good(c, server, age) /\ server \in ServerRec /\ Counted(server)
      /\ age \in Nat /\ server.rev \in Nat
  BY InvFacts
<1>3. /\ x \in TabRec /\ x.cursor <= server.rev /\ SendOK(x, server) /\ Sound(x, server, age)
      /\ Forward(c, x)
  <2> HIDE DEF c
  <2> QED
    BY <1>1, <1>2, PullsHeard
<1> HIDE DEF x
<1>4. Kept(r, server) /\ Tame(x, r) /\ Pulling(r)
  BY <1>3, PullsEnd
<1> HIDE DEF r
<1>5. r \in TabRec /\ r.cursor = x.cursor /\ r.cursor \in Nat /\ r.cursor <= server.rev
      /\ Sound(r, server, age) /\ Forward(c, r)
  BY <1>2, <1>3, <1>4, TabFacts, TameSound, ForwardTame DEF Kept, Tame
<1>6. dirt \in SUBSET Keys
  BY <1>5 DEF TabRec
<1> HIDE DEF dirt
<1>7. e \in TabRec
  BY <1>5, <1>6 DEF TabRec
<1>8. /\ e.pull = r.pull /\ e.send = r.send /\ e.waiters = r.waiters /\ e.cursor = r.cursor
      /\ e.catchUp = r.catchUp /\ e.mem = r.mem /\ Tame(r, e)
  BY <1>5 DEF TabRec, Tame
<1> HIDE DEF e
<1>9. Kept(e, server) /\ Pulling(e)
  BY <1>4, <1>7, <1>8, KeptBy DEF Pulling
<1>10. Sound(e, server, age)
  BY <1>2, <1>5, <1>8, TameSound
<1>11. Good(e, server, age)
  BY <1>5, <1>8, <1>9, <1>10 DEF Good, Kept
<1>12. Forward(c, e)
  BY <1>5, <1>8, ForwardTame
<1>13. q \in DiskRec /\ q.cursor = disk.cursor
  BY <1>5, KeepsQueue
<1> HIDE DEF q
<1>14. DropFromDisk(c, q, r) \in DiskRec
  BY <1>13, DropsFromDisk
<1>15. disk' \in DiskRec /\ disk'.cursor <= server.rev
  <2>1. [DropFromDisk(c, q, r) EXCEPT !.cursor = r.cursor] \in DiskRec
        /\ [DropFromDisk(c, q, r) EXCEPT !.cursor = r.cursor].cursor = r.cursor
    BY <1>5, <1>14 DEF DiskRec
  <2> QED
    BY <1>1, <1>5, <1>13, <2>1, InvFacts
<1> QED
  BY <1>1, <1>11, <1>12, <1>15, PageStep

LEMMA LosePullStep ==
  ASSUME Inv, NEW t \in Tabs, LosePull(t)
  PROVE  Inv' /\ StepForward
<1>1. PICK d \in {RetryLater(tab[t]), Block(tab[t])} : Client(t, PullEnds(d))
  BY DEF LosePull
<1>2. Kept(d, server) /\ Tame(tab[t], d)
  BY InvFacts, Fails
<1>3. Kept(PullEnds(d), server) /\ Tame(d, PullEnds(d)) /\ Pulling(PullEnds(d))
  BY <1>2, PullsEnd DEF Kept
<1>4. Tame(tab[t], PullEnds(d))
  BY <1>2, <1>3, TameTrans
<1> QED
  BY <1>1, <1>3, <1>4, TameStep

LEMMA LosePostStep ==
  ASSUME Inv, NEW t \in Tabs, LosePost(t)
  PROVE  Inv' /\ StepForward
<1>1. PICK d \in {RetryLater(tab[t]), Block(tab[t])} : Client(t, SendEnds(d))
  BY DEF LosePost
<1>2. Kept(d, server) /\ Tame(tab[t], d)
  BY InvFacts, Fails
<1>3. Kept(SendEnds(d), server) /\ Tame(d, SendEnds(d)) /\ Pulling(SendEnds(d))
  BY <1>2, SendsEnd
<1>4. Tame(tab[t], SendEnds(d))
  BY <1>2, <1>3, TameTrans
<1> QED
  BY <1>1, <1>3, <1>4, TameStep

LEMMA HearPostStep ==
  ASSUME Inv, NEW t \in Tabs, HearPost(t)
  PROVE  Inv' /\ StepForward
<1> DEFINE c == tab[t]
<1>1. CASE c.send.phase = "stored" /\ Become(t, NextChunk(Accepted(c)))
           /\ disk' = DropFromDisk(c, KeepQueue(t, NextChunk(Accepted(c))), NextChunk(Accepted(c)))
           /\ UNCHANGED <<server, age, purged>>
  <2> DEFINE r == NextChunk(Accepted(c))
  <2>1. Good(r, server, age) /\ Forward(c, r)
    BY <1>1, InvFacts, PostsHeard
  <2> HIDE DEF r
  <2>2. KeepQueue(t, r) \in DiskRec /\ KeepQueue(t, r).cursor = disk.cursor
    BY <2>1, KeepsQueue DEF Good
  <2>3. disk' = DropFromDisk(c, KeepQueue(t, r), r)
    BY <1>1 DEF r
  <2>4. disk' \in DiskRec /\ disk'.cursor = disk.cursor
    BY <2>2, <2>3, DropsFromDisk
  <2>5. Become(t, r) /\ UNCHANGED <<server, age, purged>>
    BY <1>1 DEF r
  <2> QED
    BY <2>1, <2>4, <2>5, InvFacts, PageStep
<1>2. CASE c.send.phase = "tooLarge" /\ Client(t, NextChunk(TooLarge(c)))
  <2> DEFINE d == TooLarge(c)
             r == NextChunk(d)
  <2>1. c \in TabRec /\ PullOK(c, server) /\ Waited(c) /\ c.send.todo # <<>>
    BY <1>2, InvFacts DEF Kept, SendOK
  <2>2. d \in TabRec /\ Tame(c, d) /\ d.pull = c.pull /\ d.waiters = c.waiters
    <3> HIDE DEF c
    <3> QED
      BY <2>1, TooLarges
  <2> HIDE DEF d
  <2>3. PullOK(d, server) /\ Waited(d)
    BY <2>1, <2>2 DEF PullOK, Waited, Tame
  <2>4. Kept(r, server) /\ Tame(d, r) /\ Pulling(r)
    BY <2>2, <2>3, NextChunks
  <2>5. Tame(c, r)
    BY <2>2, <2>4, TameTrans
  <2>6. Client(t, r)
    BY <1>2 DEF d
  <2> HIDE DEF r
  <2> QED
    BY <2>4, <2>5, <2>6, TameStep
<1> QED
  BY <1>1, <1>2 DEF HearPost

LEMMA RetryStep ==
  ASSUME Inv, NEW t \in Tabs, RetryNow(t) \/ Online(t)
  PROVE  Inv' /\ StepForward
<1> DEFINE c == tab[t]
           d == [c EXCEPT !.timer = FALSE]
<1>1. Client(t, PullThenSend(d))
  BY DEF RetryNow, Online
<1>2. c \in TabRec /\ Kept(c, server)
  BY InvFacts
<1>3. d \in TabRec
  BY <1>2 DEF TabRec
<1>4. /\ d.pull = c.pull /\ d.send = c.send /\ d.waiters = c.waiters /\ d.cursor = c.cursor
      /\ d.catchUp = c.catchUp /\ Tame(c, d)
  BY <1>2 DEF TabRec, Tame
<1> HIDE DEF d
<1>5. Kept(d, server)
  BY <1>2, <1>3, <1>4, KeptBy
<1>6. Kept(PullThenSend(d), server) /\ Tame(c, PullThenSend(d)) /\ Pulling(PullThenSend(d))
  BY <1>4, <1>5, PullsThenSends, TameTrans DEF Pulling
<1> QED
  BY <1>1, <1>6, TameStep

LEMMA NoticeStep ==
  ASSUME Inv, NEW t \in Tabs, HearNotice(t) \/ LoseNotice(t)
  PROVE  Inv' /\ StepForward
<1> DEFINE c == tab[t]
           d == [c EXCEPT !.note = 0]
<1>1. Client(t, d) \/ Client(t, PullThenSend(d))
  BY DEF HearNotice, LoseNotice
<1>2. c \in TabRec /\ Kept(c, server) /\ Pulling(c)
  BY InvFacts
<1>3. d \in TabRec
  BY <1>2 DEF TabRec
<1>4. /\ d.pull = c.pull /\ d.send = c.send /\ d.waiters = c.waiters /\ d.cursor = c.cursor
      /\ d.catchUp = c.catchUp /\ Tame(c, d)
  BY <1>2 DEF TabRec, Tame
<1> HIDE DEF d
<1>5. Kept(d, server) /\ Pulling(d)
  BY <1>2, <1>3, <1>4, KeptBy DEF Pulling
<1>6. Kept(PullThenSend(d), server) /\ Tame(c, PullThenSend(d)) /\ Pulling(PullThenSend(d))
  BY <1>4, <1>5, PullsThenSends, TameTrans DEF Pulling
<1> QED
  BY <1>1, <1>4, <1>5, <1>6, TameStep

LEMMA DegradeStep ==
  ASSUME Inv, NEW t \in Tabs, Degrade(t)
  PROVE  Inv' /\ StepForward
<1> DEFINE c == tab[t]
           d == [c EXCEPT !.degraded = TRUE, !.dirty = {}]
<1>1. Client(t, d)
  BY DEF Degrade
<1>2. c \in TabRec /\ Good(c, server, age) /\ Kept(c, server) /\ Pulling(c)
  BY InvFacts
<1>3. d \in TabRec
  BY <1>2 DEF TabRec
<1>4. /\ d.pull = c.pull /\ d.send = c.send /\ d.waiters = c.waiters /\ d.cursor = c.cursor
      /\ d.catchUp = c.catchUp /\ d.queue = c.queue /\ d.mem = c.mem /\ d.adopted = c.adopted
  BY <1>2 DEF TabRec
<1> HIDE DEF d
<1>5. \A k \in Keys : /\ ~Newer(c.mem[k], d.mem[k])
                      /\ k \notin d.adopted => k \notin c.adopted /\ d.mem[k] = c.mem[k]
  BY <1>2, <1>4, TabFacts, NewerFacts
<1>6. Good(d, server, age) /\ Forward(c, d)
  <2> HIDE DEF c
  <2> QED
    BY <1>2, <1>3, <1>4, <1>5, Adopts, InvFacts
<1> QED
  BY <1>1, <1>6, ClientStep

LEMMA GoneFacts ==
  /\ Gone \in TabRec /\ ~Gone.up /\ Gone.catchUp /\ Gone.cursor = 0 /\ Gone.waiters = 0
  /\ Gone.pull = IdlePull /\ Gone.send = IdleSend
<1>1. [k \in Keys |-> NoRow] \in [Keys -> Rows] /\ 0 \in 0..2
  BY RowFacts
<1> DEFINE z == 0
           none == [k \in Keys |-> NoRow]
<1>2. Gone = [up |-> FALSE, mem |-> none, dirty |-> {}, adopted |-> {},
         queue |-> {}, held |-> {}, cursor |-> 0, catchUp |-> TRUE, starting |-> FALSE,
         pull |-> IdlePull, send |-> IdleSend, waiters |-> z, blocked |-> FALSE, refused |-> FALSE,
         timer |-> FALSE, degraded |-> FALSE, heard |-> {}, note |-> 0, undone |-> {}]
  BY DEF Gone
<1>3. z \in 0..2 /\ z = 0 /\ none \in [Keys -> Rows]
  BY <1>1
<1> HIDE DEF z, none
<1> QED
  BY <1>2, <1>3, IdleFacts DEF TabRec

LEMMA GoneGood ==
  ASSUME NEW s \in ServerRec, NEW a, NEW c \in TabRec,
         c.pull = IdlePull, c.send = IdleSend, c.catchUp, c.cursor <= s.rev
  PROVE  PullOK(c, s) /\ SendOK(c, s) /\ Pulling(c) /\ Sound(c, s, a)
<1>1. IdlePull.phase = "idle" /\ IdleSend.phase = "idle" /\ IdleSend.todo = <<>>
  BY DEF IdlePull, IdleSend
<1> QED
  BY <1>1 DEF PullOK, SendOK, Pulling, Sound

LEMMA CrashStep ==
  ASSUME Inv, NEW t \in Tabs, Crash(t)
  PROVE  Inv' /\ StepForward
<1>1. Gone.cursor <= server.rev
  BY GoneFacts, InvFacts
<1>2. Good(Gone, server, age)
  BY <1>1, GoneFacts, GoneGood, InvFacts DEF Good, Waited
<1>3. disk' \in DiskRec /\ disk'.cursor <= server.rev
  BY InvFacts DEF Crash
<1> QED
  BY <1>2, <1>3, GoneFacts, PageStep DEF Crash

LEMMA OpenStep ==
  ASSUME Inv, NEW t \in Tabs, Open(t)
  PROVE  Inv' /\ StepForward
<1> DEFINE g == [Gone EXCEPT !.up = TRUE, !.mem = Loaded(disk), !.queue = disk.queue,
                             !.cursor = disk.cursor, !.starting = TRUE, !.waiters = 1]
           rows == Loaded(disk)
           d == RequestPull(g)
           one == 1
<1>1. /\ ~tab[t].up /\ Become(t, d) /\ disk' = [disk EXCEPT !.rows = rows]
      /\ UNCHANGED <<server, age, purged>>
  BY DEF Open, Opened, Up
<1>2. /\ disk \in DiskRec /\ disk.queue \in SUBSET Keys /\ disk.cursor \in Nat
      /\ disk.cursor <= server.rev /\ server \in ServerRec
  BY InvFacts
<1>3. rows \in [Keys -> Rows]
  BY InvFacts, RowFacts DEF Loaded
<1>4. disk' \in DiskRec /\ disk'.cursor = disk.cursor
  BY <1>1, <1>2, <1>3 DEF DiskRec
<1>5. g = [Gone EXCEPT !.up = TRUE, !.mem = rows, !.queue = disk.queue,
                       !.cursor = disk.cursor, !.starting = TRUE, !.waiters = one]
      /\ one \in 0..2 /\ one > 0
  OBVIOUS
<1> HIDE DEF g, one, rows
<1>6. g \in TabRec
  BY <1>2, <1>3, <1>5, GoneFacts DEF TabRec
<1>7. g.pull = IdlePull /\ g.send = IdleSend /\ g.catchUp /\ g.cursor = disk.cursor
  BY <1>5, GoneFacts DEF TabRec
<1>8. PullOK(g, server) /\ SendOK(g, server)
  BY <1>2, <1>6, <1>7, GoneGood
\* Only the request itself makes someone wait.
<1> DEFINE p == [IdlePull EXCEPT !.phase = "asked", !.full = g.catchUp,
                                 !.from = IF g.catchUp THEN 0 ELSE g.cursor]
<1>9. d = [g EXCEPT !.pull = p]
  BY <1>7 DEF RequestPull, IdlePull
<1>10. p \in PullRec /\ p.phase = "asked" /\ p.full = g.catchUp /\ p.from = 0
  BY <1>6, <1>7, IdleFacts DEF PullRec, TabRec
<1> HIDE DEF p, d
<1>11. d \in TabRec
  BY <1>6, <1>9, <1>10 DEF TabRec
<1>12. d.pull = p /\ d.send = g.send /\ d.catchUp = g.catchUp /\ d.cursor = g.cursor
  BY <1>6, <1>9 DEF TabRec
<1>13. PullOK(d, server) /\ SendOK(d, server) /\ Waited(d) /\ Pulling(d) /\ Sound(d, server, age)
  <2>1. d.cursor \in Nat /\ d.pull.phase = "asked" /\ d.pull.from = 0 /\ d.pull.full /\ d.catchUp
    BY <1>2, <1>7, <1>10, <1>12
  <2>2. PullOK(d, server)
    BY <2>1 DEF PullOK
  <2>3. SendOK(d, server)
    BY <1>8, <1>12 DEF SendOK
  <2> QED
    BY <2>1, <2>2, <2>3 DEF Waited, Pulling, Sound
<1>14. Good(d, server, age)
  BY <1>2, <1>7, <1>11, <1>12, <1>13 DEF Good
<1> QED
  BY <1>1, <1>2, <1>4, <1>14, PageStep

LEMMA HearStep ==
  ASSUME Inv, NEW t \in Tabs, Hear(t)
  PROVE  Inv' /\ StepForward
<1> DEFINE b == tab[t]
<1>1. PICK e \in b.heard :
        LET c == [b EXCEPT !.heard = b.heard \ {e}]
        IN  Client(t, IF Newer(e[2], c.mem[e[1]])
                      THEN [c EXCEPT !.mem[e[1]] = e[2], !.dirty = c.dirty \ {e[1]},
                                     !.adopted = c.adopted \cup {e[1]}]
                      ELSE c)
  BY DEF Hear
<1> DEFINE c == [b EXCEPT !.heard = b.heard \ {e}]
           k == e[1]
           mem == [c.mem EXCEPT ![k] = e[2]]
           n == [c EXCEPT !.mem = mem, !.dirty = c.dirty \ {k}, !.adopted = c.adopted \cup {k}]
<1>2. /\ b \in TabRec /\ Good(b, server, age) /\ server \in ServerRec
  BY InvFacts
<1>3. k \in Keys /\ e[2] \in Rows
  BY <1>2 DEF TabRec
<1>4. c \in TabRec
  BY <1>2 DEF TabRec
<1>5. /\ c.pull = b.pull /\ c.send = b.send /\ c.waiters = b.waiters /\ c.cursor = b.cursor
      /\ c.catchUp = b.catchUp /\ c.queue = b.queue /\ c.mem = b.mem /\ c.adopted = b.adopted
  BY <1>2 DEF TabRec
<1>6. CASE ~Newer(e[2], c.mem[k])
  <2>1. \A j \in Keys : /\ ~Newer(b.mem[j], c.mem[j])
                        /\ j \notin c.adopted => j \notin b.adopted /\ c.mem[j] = b.mem[j]
    BY <1>2, <1>5, TabFacts, NewerFacts
  <2>2. Client(t, c)
    BY <1>1, <1>6
  <2> HIDE DEF c
  <2>3. Good(c, server, age) /\ Forward(b, c)
    <3> HIDE DEF b
    <3> QED
      BY <1>2, <1>4, <1>5, <2>1, Adopts
  <2> QED
    BY <2>2, <2>3, ClientStep
<1>7. CASE Newer(e[2], c.mem[k])
  <2>1. Client(t, [c EXCEPT !.mem[k] = e[2], !.dirty = c.dirty \ {k},
                            !.adopted = c.adopted \cup {k}])
    BY <1>1, <1>7
  <2>2. n = [c EXCEPT !.mem[k] = e[2], !.dirty = c.dirty \ {k},
                      !.adopted = c.adopted \cup {k}]
    BY <1>4 DEF TabRec
  <2> HIDE DEF c, k
  <2>3. mem \in [Keys -> Rows] /\ \A j \in Keys : mem[j] = IF j = k THEN e[2] ELSE c.mem[j]
    BY <1>3, <1>4, TabFacts
  <2> HIDE DEF mem
  <2>4. c.dirty \ {k} \in SUBSET Keys /\ c.adopted \cup {k} \in SUBSET Keys
    BY <1>3, <1>4 DEF TabRec
  <2>5. n \in TabRec
    BY <1>4, <2>3, <2>4 DEF TabRec
  <2>6. /\ n.pull = c.pull /\ n.send = c.send /\ n.waiters = c.waiters /\ n.cursor = c.cursor
        /\ n.catchUp = c.catchUp /\ n.queue = c.queue /\ n.mem = mem
        /\ n.adopted = c.adopted \cup {k}
    BY <1>4 DEF TabRec
  <2>7. ASSUME NEW j \in Keys
        PROVE  /\ ~Newer(b.mem[j], n.mem[j])
               /\ j \notin n.adopted => j \notin b.adopted /\ n.mem[j] = b.mem[j]
    <3>1. b.mem[j] \in Rows
      BY <1>2, TabFacts
    <3> QED
      BY <1>3, <1>5, <1>7, <2>3, <2>6, <3>1, NewerFacts
  <2>8. Client(t, n)
    BY <2>1, <2>2
  <2> HIDE DEF n
  <2>9. Good(n, server, age) /\ Forward(b, n)
    <3> HIDE DEF b
    <3> QED
      BY <1>2, <1>5, <2>5, <2>6, <2>7, Adopts
  <2> QED
    BY <2>8, <2>9, ClientStep
<1> QED
  BY <1>6, <1>7

LEMMA FlushStep ==
  ASSUME Inv, NEW t \in Tabs, Flush(t)
  PROVE  Inv' /\ StepForward
<1> DEFINE c     == tab[t]
           rows  == [k \in Keys |-> IF k \in c.dirty THEN Winner(c.mem[k], disk.rows[k])
                                    ELSE disk.rows[k]]
           mem   == [k \in Keys |-> IF k \in c.dirty /\ c.mem[k] # NoRow THEN rows[k] ELSE c.mem[k]]
           wrote == {k \in c.dirty : rows[k] # disk.rows[k]}
           adpt  == c.adopted \cup {k \in Keys : mem[k] # c.mem[k]}
           d     == [c EXCEPT !.mem = mem, !.dirty = {}, !.adopted = adpt]
           news  == {<<k, rows[k]>> : k \in wrote}
           told(u) == [tab[u] EXCEPT !.heard = tab[u].heard \cup news]
<1>1. /\ c.up /\ disk' = [disk EXCEPT !.rows = rows]
      /\ tab' = [u \in Tabs |-> IF u = t THEN d ELSE IF tab[u].up THEN told(u) ELSE tab[u]]
      /\ UNCHANGED <<server, age, purged>>
  BY DEF Flush, Up
<1>2. /\ c \in TabRec /\ Good(c, server, age) /\ server \in ServerRec /\ disk \in DiskRec
      /\ disk.rows \in [Keys -> Rows] /\ c.mem \in [Keys -> Rows] /\ c.dirty \subseteq Keys
      /\ c.adopted \subseteq Keys
  BY InvFacts, TabFacts DEF TabRec
<1>3. rows \in [Keys -> Rows]
  BY <1>2, WinnerFacts
<1>4. mem \in [Keys -> Rows]
  BY <1>2, <1>3
<1>5. ASSUME NEW k \in Keys PROVE ~Newer(c.mem[k], mem[k])
  BY <1>2, WinnerFacts, NewerFacts
<1>6. adpt \in SUBSET Keys /\ \A k \in Keys \ adpt : k \notin c.adopted /\ mem[k] = c.mem[k]
  BY <1>2
<1>7. news \in SUBSET (Keys \X Rows)
  <2>1. wrote \subseteq Keys
    BY <1>2
  <2> HIDE DEF wrote, rows
  <2>2. ASSUME NEW k \in wrote PROVE <<k, rows[k]>> \in Keys \X Rows
    BY <1>3, <2>1
  <2> QED
    BY <2>2
<1> HIDE DEF rows, mem, adpt, news
<1>8. d \in TabRec
  BY <1>2, <1>4, <1>6 DEF TabRec
<1>9. /\ d.pull = c.pull /\ d.send = c.send /\ d.waiters = c.waiters /\ d.cursor = c.cursor
      /\ d.catchUp = c.catchUp /\ d.queue = c.queue /\ d.mem = mem /\ d.adopted = adpt
  BY <1>2 DEF TabRec
<1> HIDE DEF d
<1>10. Good(d, server, age) /\ Forward(c, d)
  <2> HIDE DEF c
  <2> QED
    BY <1>2, <1>5, <1>6, <1>8, <1>9, Adopts
<1>11. ASSUME NEW u \in Tabs PROVE Good(told(u), server, age) /\ Forward(tab[u], told(u))
  <2> DEFINE b == tab[u]
             h == b.heard \cup news
             n == [b EXCEPT !.heard = h]
  <2>1. b \in TabRec /\ Good(b, server, age)
    BY InvFacts
  <2>2. h \in SUBSET (Keys \X Rows)
    BY <1>7, <2>1 DEF TabRec
  <2> HIDE DEF h
  <2>3. n \in TabRec
    BY <2>1, <2>2 DEF TabRec
  <2>4. /\ n.pull = b.pull /\ n.send = b.send /\ n.waiters = b.waiters /\ n.cursor = b.cursor
        /\ n.catchUp = b.catchUp /\ n.queue = b.queue /\ n.mem = b.mem /\ n.adopted = b.adopted
    BY <2>1 DEF TabRec
  <2>5. \A j \in Keys : /\ ~Newer(b.mem[j], n.mem[j])
                        /\ j \notin n.adopted => j \notin b.adopted /\ n.mem[j] = b.mem[j]
    BY <2>1, <2>4, TabFacts, NewerFacts
  <2> HIDE DEF n
  <2>6. Good(n, server, age) /\ Forward(b, n)
    <3> HIDE DEF b
    <3> QED
      BY <1>2, <2>1, <2>3, <2>4, <2>5, Adopts
  <2> QED
    BY <2>6 DEF n, h
<1>12. ASSUME NEW u \in Tabs PROVE Good(tab[u], server, age) /\ Forward(tab[u], tab[u])
  BY InvFacts, TabFacts, NewerFacts DEF Forward
<1>13. ASSUME NEW u \in Tabs PROVE Good(tab'[u], server, age) /\ Forward(tab[u], tab'[u])
  <2>1. tab'[u] \in {d, told(u), tab[u]} /\ (tab'[u] = d => u = t \/ d = told(u) \/ d = tab[u])
    BY <1>1
  <2> HIDE DEF told
  <2> QED
    BY <1>10, <1>11, <1>12, <2>1
<1>14. tab' \in [Tabs -> TabRec]
  <2>1. \A u \in Tabs : tab'[u] \in TabRec
    BY <1>13 DEF Good
  <2> HIDE DEF told
  <2>2. tab' = [u \in Tabs |-> tab'[u]]
    BY <1>1
  <2> QED
    BY <2>1, <2>2
<1>15. disk' \in DiskRec /\ disk'.cursor = disk.cursor
  BY <1>1, <1>2, <1>3 DEF DiskRec
<1>16. Purged(server)' /\ Counted(server)' /\ server' \in ServerRec /\ age' \in 0..MaxTime
       /\ disk'.cursor <= server'.rev
  BY <1>1, <1>15 DEF Inv, Purged, Counted
<1>17. \A u \in Tabs : Good(tab[u], server, age)'
  BY <1>1, <1>13
<1> QED
  BY <1>13, <1>14, <1>15, <1>16, <1>17 DEF Inv, StepForward, Forward

\* A step of the server: every open page is told, none knows less of it.
LEMMA NoteGood ==
  ASSUME NEW s \in ServerRec, NEW a, NEW c, Good(c, s, a), NEW n \in Nat
  PROVE  /\ Good([c EXCEPT !.note = n], s, a)
         /\ [c EXCEPT !.note = n].mem = c.mem
<1> DEFINE d == [c EXCEPT !.note = n]
<1>1. c \in TabRec /\ Kept(c, s) /\ Pulling(c)
  BY DEF Good, Kept
<1>2. d \in TabRec
  BY <1>1 DEF TabRec
<1>3. /\ d.pull = c.pull /\ d.send = c.send /\ d.waiters = c.waiters /\ d.cursor = c.cursor
      /\ d.catchUp = c.catchUp /\ Tame(c, d) /\ d.mem = c.mem
  BY <1>1 DEF TabRec, Tame
<1> HIDE DEF d
<1>4. Kept(d, s) /\ Pulling(d)
  BY <1>1, <1>2, <1>3, KeptBy DEF Pulling
<1>5. Good(d, s, a) /\ d.mem = c.mem
  BY <1>3, <1>4, TameGood
<1> QED
  BY <1>5 DEF d

LEMMA ServerStep ==
  ASSUME Inv, Later(server, server'), Counted(server'), Purged(server)',
         tab' = [u \in Tabs |-> tab'[u]],
         \A u \in Tabs : Good(tab'[u], server', age) /\ tab'[u].mem = tab[u].mem,
         UNCHANGED <<disk, age>>
  PROVE  Inv' /\ StepForward
<1>1. server' \in ServerRec /\ server.rev <= server'.rev /\ server'.rev \in Nat
      /\ server.rev \in Nat
  BY ServerFacts DEF Inv, Later
<1>2. disk' \in DiskRec /\ disk'.cursor <= server'.rev /\ age' \in 0..MaxTime
  BY <1>1 DEF Inv, DiskRec
<1>3. tab' \in [Tabs -> TabRec]
  BY DEF Good
<1>4. \A u \in Tabs : Good(tab[u], server, age)'
  OBVIOUS
<1>5. Counted(server)'
  BY DEF Counted
<1>6. Inv'
  BY <1>1, <1>2, <1>3, <1>4, <1>5 DEF Inv
<1>7. StepForward
  <2>1. ASSUME NEW u \in Tabs, NEW k \in Keys PROVE ~Newer(tab[u].mem[k], tab'[u].mem[k])
    BY InvFacts, TabFacts, NewerFacts
  <2> QED
    BY <2>1 DEF StepForward
<1> QED
  BY <1>6, <1>7

\* What the server leaves of a post it took: told and answered.
Taken(c, n, stale) == [c EXCEPT !.send.phase = "stored", !.note = n, !.send.stale = stale]

LEMMA PostsTaken ==
  ASSUME NEW s \in ServerRec, NEW a, NEW c, Good(c, s, a), c.send.phase = "posting",
         NEW n \in Nat, NEW stale \in SUBSET Keys,
         Stored([c.send EXCEPT !.phase = "stored", !.stale = stale], s)
  PROVE  Good(Taken(c, n, stale), s, a) /\ Taken(c, n, stale).mem = c.mem
<1> DEFINE q == [c.send EXCEPT !.phase = "stored", !.stale = stale]
           e == [c EXCEPT !.send = q, !.note = n]
           d == Taken(c, n, stale)
<1>1. /\ c \in TabRec /\ c.send \in SendRec /\ PullOK(c, s) /\ SendOK(c, s) /\ Sound(c, s, a)
      /\ Waited(c) /\ c.cursor <= s.rev
  BY DEF Good, TabRec
<1>2. d = e
  BY <1>1 DEF Taken, TabRec
<1>3. /\ q \in SendRec /\ q.phase = "stored" /\ q.todo = c.send.todo /\ Stored(q, s)
  BY <1>1 DEF SendRec
<1> HIDE DEF q
<1>4. e \in TabRec
  BY <1>1, <1>3 DEF TabRec
<1>5. /\ e.pull = c.pull /\ e.send = q /\ e.waiters = c.waiters /\ e.cursor = c.cursor
      /\ e.catchUp = c.catchUp /\ Tame(c, e) /\ e.mem = c.mem
  BY <1>1 DEF TabRec, Tame
<1> HIDE DEF e, d
<1>6. c.send.todo # <<>>
  BY <1>1 DEF SendOK
<1>7. Kept(e, s) /\ Pulling(e)
  BY <1>1, <1>3, <1>4, <1>5, <1>6 DEF Kept, PullOK, SendOK, Waited, Pulling
<1>8. Good(e, s, a)
  BY <1>5, <1>7, TameGood
<1> QED
  BY <1>2, <1>5, <1>8 DEF d

LEMMA ServePostStep ==
  ASSUME Inv, NEW t \in Tabs, ServePost(t)
  PROVE  Inv' /\ StepForward
<1> DEFINE c  == tab[t]
           ks == Head(c.send.todo)
           s2 == Upsert(server, c.send.rows, ks)
           stale == StaleAt(server, c.send.rows, ks)
<1>1. /\ c \in TabRec /\ c.send \in SendRec /\ Good(c, server, age) /\ server \in ServerRec
      /\ Counted(server) /\ Purged(server) /\ c.send.rows \in [Keys -> Rows]
      /\ Kept(c, server) /\ Pulling(c)
  BY InvFacts, TabFacts DEF TabRec
<1>2. c.send.phase = "posting" /\ c.send.todo # <<>>
  BY <1>1 DEF ServePost, Kept, SendOK
<1>3. ks \in SUBSET Keys
  BY <1>1, <1>2, TabFacts
<1>4. CASE \E k \in ks : c.send.rows[k].big
  <2> DEFINE q == [c.send EXCEPT !.phase = "tooLarge"]
             d == [c EXCEPT !.send = q]
  <2>1. Become(t, d) /\ UNCHANGED <<disk, server, age, purged>>
    <3>1. d = [c EXCEPT !.send.phase = "tooLarge"]
      BY <1>1 DEF TabRec
    <3> QED
      BY <1>4, <3>1 DEF ServePost
  <2>2. q \in SendRec /\ q.phase = "tooLarge" /\ q.todo = c.send.todo
    BY <1>1 DEF SendRec
  <2> HIDE DEF q
  <2>3. d \in TabRec
    BY <1>1, <2>2 DEF TabRec
  <2>4. /\ d.pull = c.pull /\ d.send = q /\ d.waiters = c.waiters /\ d.cursor = c.cursor
        /\ d.catchUp = c.catchUp /\ Tame(c, d)
    BY <1>1 DEF TabRec, Tame
  <2> HIDE DEF d
  <2>5. Kept(d, server) /\ Pulling(d)
    BY <1>1, <1>2, <2>2, <2>3, <2>4 DEF Kept, PullOK, SendOK, Waited, Pulling
  <2>6. Good(d, server, age) /\ Forward(c, d)
    BY <1>1, <2>4, <2>5, TameGood, TameForward
  <2>7. disk' \in DiskRec /\ disk'.cursor <= server.rev
    BY <2>1, InvFacts
  <2> QED
    BY <2>1, <2>6, <2>7, PageStep
<1>5. CASE ~\E k \in ks : c.send.rows[k].big
  <2> DEFINE note(u) == IF tab[u].up /\ s2.rev > server.rev THEN s2.rev ELSE tab[u].note
             d == Taken(c, note(t), stale)
             told(u) == [tab[u] EXCEPT !.note = note(u)]
  <2>1. /\ server' = s2 /\ UNCHANGED <<disk, age, purged>>
        /\ tab' = [u \in Tabs |-> IF u = t THEN d ELSE told(u)]
    BY <1>5 DEF ServePost, Taken
  <2>2. /\ Later(server, s2) /\ Counted(s2) /\ Purged(s2)
        /\ \A k \in ks : Covered(s2, k, c.send.rows[k])
        /\ stale \subseteq Keys
        /\ \A k \in stale : c.send.rows[k].upd <= s2.horizon /\ s2.rows[k] = NoRow
    <3> HIDE DEF c, ks
    <3> QED
      BY <1>1, <1>3, Upserts
  <2> HIDE DEF s2, stale
  <2>3. s2 \in ServerRec /\ s2.rev \in Nat
    BY <2>2, ServerFacts DEF Later
  <2>4. ASSUME NEW u \in Tabs
        PROVE  Good(tab[u], s2, age) /\ note(u) \in Nat
    BY <2>2, <2>3, InvFacts, GoodLater DEF TabRec
  <2> HIDE DEF note
  <2>5. Stored([c.send EXCEPT !.phase = "stored", !.stale = stale], s2)
    <3> DEFINE q == [c.send EXCEPT !.phase = "stored", !.stale = stale]
    <3>1. q.todo = c.send.todo /\ q.rows = c.send.rows /\ q.stale = stale
      BY <1>1 DEF SendRec
    <3> HIDE DEF q, c
    <3>2. Stored(q, s2)
      BY <2>2, <3>1 DEF Stored
    <3> QED
      BY <3>2 DEF q
  <2>6. Good(d, s2, age) /\ d.mem = c.mem
    <3>1. Good(c, s2, age) /\ note(t) \in Nat /\ stale \in SUBSET Keys
      BY <2>2, <2>4
    <3> HIDE DEF c
    <3> QED
      BY <1>2, <2>3, <2>5, <3>1, PostsTaken
  <2>7. ASSUME NEW u \in Tabs PROVE Good(told(u), s2, age) /\ told(u).mem = tab[u].mem
    BY <2>3, <2>4, NoteGood
  <2> HIDE DEF d, told
  <2>8. \A u \in Tabs : Good(tab'[u], server', age) /\ tab'[u].mem = tab[u].mem
    BY <2>1, <2>6, <2>7
  <2>9. tab' = [u \in Tabs |-> tab'[u]]
    BY <2>1
  <2>10. Purged(server)'
    BY <2>1, <2>2 DEF Purged
  <2> QED
    BY <2>1, <2>2, <2>8, <2>9, <2>10, ServerStep
<1> QED
  BY <1>4, <1>5

LEMMA PeerWriteStep ==
  ASSUME Inv, NEW k \in Keys, NEW del \in BOOLEAN, NEW clock \in 1..MaxTime,
         PeerWrite(k, del, clock)
  PROVE  Inv' /\ StepForward
<1> DEFINE row(w) == [upd |-> clock, wid |-> w, del |-> del, big |-> FALSE]
           rows(w) == [j \in Keys |-> row(w)]
           told(u) == [tab[u] EXCEPT !.note = server'.rev]
<1>1. PICK w \in 1..MaxWid : server' = Upsert(server, rows(w), {k})
  BY DEF PeerWrite, Fresh
<1>2. /\ tab' = [u \in Tabs |-> IF tab[u].up THEN told(u) ELSE tab[u]]
      /\ UNCHANGED <<disk, age, purged>>
  BY DEF PeerWrite
<1>3. row(w) \in Rows
  BY DEF Rows, Row
<1> HIDE DEF row
<1>4. rows(w) \in [Keys -> Rows]
  BY <1>3
<1>5. server \in ServerRec /\ Counted(server) /\ Purged(server)
  BY DEF Inv
<1> HIDE DEF rows
<1>6. Later(server, server') /\ Counted(server') /\ Purged(server')
  <2> DEFINE s2 == Upsert(server, rows(w), {k})
  <2>1. Later(server, s2) /\ Counted(s2) /\ Purged(s2)
    BY <1>4, <1>5, Upserts
  <2> HIDE DEF s2
  <2>2. server' = s2
    BY <1>1 DEF s2
  <2> QED
    BY <1>2, <2>1, <2>2 DEF Purged
<1>7. server' \in ServerRec /\ server'.rev \in Nat
  BY <1>6, ServerFacts DEF Later
<1>8. ASSUME NEW u \in Tabs PROVE Good(tab[u], server', age)
  BY <1>5, <1>6, InvFacts, GoodLater
<1>9. ASSUME NEW u \in Tabs PROVE Good(told(u), server', age) /\ told(u).mem = tab[u].mem
  BY <1>7, <1>8, NoteGood
<1> HIDE DEF told
<1>10. \A u \in Tabs : Good(tab'[u], server', age) /\ tab'[u].mem = tab[u].mem
  BY <1>2, <1>8, <1>9
<1>11. tab' = [u \in Tabs |-> tab'[u]]
  BY <1>2
<1>12. Purged(server)'
  BY <1>2, <1>6 DEF Purged
<1> QED
  BY <1>2, <1>6, <1>10, <1>11, <1>12, ServerStep

\* A page holds what the server does the longer the retention is past.
LEMMA GoodAge ==
  ASSUME NEW s \in ServerRec, NEW a \in Nat, NEW b \in Nat, a <= b, NEW c, Good(c, s, a)
  PROVE  Good(c, s, b)
<1>1. ASSUME Honest(c, s, a) PROVE Honest(c, s, b)
  BY <1>1, ServerFacts DEF Honest
<1> QED
  BY <1>1 DEF Good, Sound

LEMMA AgeStep ==
  ASSUME Inv, Age
  PROVE  Inv' /\ StepForward
<1>1. age \in Nat /\ age < MaxAge /\ age' = age + 1 /\ UNCHANGED <<tab, disk, server, purged>>
  BY SyncAssumption DEF Age, Inv
<1>2. age' \in 0..MaxTime /\ age' \in Nat /\ age <= age'
  BY <1>1, SyncAssumption
<1>3. \A u \in Tabs : Good(tab[u], server, age)'
  BY <1>1, <1>2, InvFacts, GoodAge
<1>4. Purged(server)' /\ Counted(server)'
  BY <1>1 DEF Inv, Purged, Counted
<1>5. Inv'
  BY <1>1, <1>2, <1>3, <1>4 DEF Inv
<1>6. StepForward
  <2>1. ASSUME NEW u \in Tabs, NEW k \in Keys PROVE ~Newer(tab[u].mem[k], tab[u].mem[k])
    BY InvFacts, TabFacts, NewerFacts
  <2> QED
    BY <1>1, <2>1 DEF StepForward
<1> QED
  BY <1>5, <1>6

LEMMA SweepStep ==
  ASSUME Inv, Sweep
  PROVE  Inv' /\ StepForward
<1> DEFINE told(u) == [tab[u] EXCEPT !.note = server'.rev]
           s2 == Swept(server, Purgeable)
<1>1. /\ server' = s2
      /\ purged' = [k \in Keys |-> IF k \in Purgeable THEN server.rows[k].upd ELSE purged[k]]
      /\ tab' = [u \in Tabs |-> IF tab[u].up THEN told(u) ELSE tab[u]]
      /\ UNCHANGED <<disk, age>>
  BY DEF Sweep
<1>2. Purgeable \in SUBSET Keys
  BY DEF Purgeable
<1>3. server \in ServerRec /\ Counted(server) /\ Purged(server)
  BY DEF Inv
<1>4. /\ Later(server, s2) /\ Counted(s2)
      /\ \A k \in Keys : /\ k \in Purgeable => s2.rows[k] = NoRow /\ server.rows[k].upd <= s2.horizon
                         /\ k \notin Purgeable => s2.rows[k] = server.rows[k]
  <2>1. s2 = Swept(server, Purgeable)
    OBVIOUS
  <2> HIDE DEF s2
  <2> QED
    BY <1>2, <1>3, <2>1, Sweeps
<1> HIDE DEF s2
<1>5. /\ server' \in ServerRec /\ server'.rev \in Nat /\ server'.horizon \in Nat
      /\ server.horizon \in Nat /\ server.horizon <= server'.horizon
  BY <1>1, <1>3, <1>4, ServerFacts DEF Later
<1>6. Purged(server)'
  <2>1. purged \in [Keys -> Nat]
    BY <1>3 DEF Purged
  <2>2. purged' \in [Keys -> Nat]
    BY <1>1, <1>3, <2>1, ServerFacts
  <2>3. ASSUME NEW k \in Keys
        PROVE  /\ purged'[k] <= server'.horizon
               /\ server'.rows[k] # NoRow => server'.rows[k].upd > purged'[k]
    <3>1. /\ purged[k] \in Nat /\ purged[k] <= server.horizon
          /\ server.rows[k] # NoRow => server.rows[k].upd > purged[k]
      BY <1>3, <2>1 DEF Purged
    <3>2. CASE k \in Purgeable
      BY <1>1, <1>4, <3>2
    <3>3. CASE k \notin Purgeable
      BY <1>1, <1>4, <1>5, <3>1, <3>3
    <3> QED
      BY <3>2, <3>3
  <2> QED
    BY <2>2, <2>3 DEF Purged
<1>7. ASSUME NEW u \in Tabs PROVE Good(tab[u], server', age)
  BY <1>1, <1>3, <1>4, InvFacts, GoodLater
<1>8. ASSUME NEW u \in Tabs PROVE Good(told(u), server', age) /\ told(u).mem = tab[u].mem
  BY <1>5, <1>7, NoteGood
<1> HIDE DEF told
<1>9. \A u \in Tabs : Good(tab'[u], server', age) /\ tab'[u].mem = tab[u].mem
  BY <1>1, <1>7, <1>8
<1>10. tab' = [u \in Tabs |-> tab'[u]]
  BY <1>1
<1> QED
  BY <1>1, <1>4, <1>6, <1>9, <1>10, ServerStep

----------------------------------------------------------------------------
\* The theorems.

LEMMA InitInv == Init => Inv
<1> SUFFICES ASSUME Init PROVE Inv
  OBVIOUS
<1> DEFINE none == [k \in Keys |-> NoRow]
           zero == [k \in Keys |-> 0]
<1>1. none \in [Keys -> Rows] /\ zero \in [Keys -> Nat] /\ 0 \in 0..MaxTime
      /\ \A k \in Keys : none[k] = NoRow /\ zero[k] = 0
  BY RowFacts, SyncAssumption
<1>2. /\ disk = [rows |-> none, queue |-> {}, cursor |-> 0]
      /\ server = [rows |-> none, at |-> zero, rev |-> 0, floor |-> 0, horizon |-> 0]
      /\ age = 0 /\ purged = zero /\ tab = [t \in Tabs |-> Gone]
  BY DEF Init, Empty
<1> HIDE DEF none, zero
<1>3. disk \in DiskRec /\ disk.cursor = 0
  BY <1>1, <1>2 DEF DiskRec
<1>4. /\ server \in ServerRec /\ server.rev = 0 /\ server.horizon = 0 /\ server.floor = 0
      /\ server.rows = none /\ server.at = zero
  BY <1>1, <1>2 DEF ServerRec
<1>5. Counted(server) /\ Purged(server)
  BY <1>1, <1>2, <1>4 DEF Counted, Purged
<1>6. Good(Gone, server, age)
  BY <1>4, GoneFacts, GoneGood DEF Good, Waited
<1>7. tab \in [Tabs -> TabRec] /\ \A t \in Tabs : Good(tab[t], server, age)
  BY <1>2, <1>6, GoneFacts
<1> QED
  BY <1>1, <1>2, <1>3, <1>4, <1>5, <1>7 DEF Inv

LEMMA NextStep ==
  ASSUME Inv, Next
  PROVE  Inv' /\ StepForward
<1>1. CASE \E t \in Tabs, clock \in 1..MaxTime :
             \/ \E k \in Keys : Add(t, k, clock) \/ Reopen(t, k, clock) \/ AddRolledBack(t, k, clock)
             \/ \E ks \in SUBSET Keys \ {{}} : Change(t, ks, clock) \/ Delete(t, ks, clock)
  BY <1>1, EditsStep
<1>2. CASE \E k \in Keys, del \in BOOLEAN, clock \in 1..MaxTime : PeerWrite(k, del, clock)
  BY <1>2, PeerWriteStep
<1>3. CASE Age
  BY <1>3, AgeStep
<1>4. CASE Sweep
  BY <1>4, SweepStep
<1>5. ASSUME NEW t \in Tabs, Open(t) PROVE Inv' /\ StepForward
  BY <1>5, OpenStep
<1>6. ASSUME NEW t \in Tabs, Exchange(t) PROVE Inv' /\ StepForward
  <2>1. CASE ServePull(t)
    BY <2>1, ServePullStep
  <2>2. CASE HearPull(t)
    BY <2>2, HearPullStep
  <2>3. CASE ServePost(t)
    BY <2>3, ServePostStep
  <2>4. CASE HearPost(t)
    BY <2>4, HearPostStep
  <2>5. CASE RetryNow(t)
    BY <2>5, RetryStep
  <2>6. CASE HearNotice(t)
    BY <2>6, NoticeStep
  <2>7. CASE Flush(t)
    BY <2>7, FlushStep
  <2>8. CASE Hear(t)
    BY <2>8, HearStep
  <2> QED
    BY <1>6, <2>1, <2>2, <2>3, <2>4, <2>5, <2>6, <2>7, <2>8 DEF Exchange
<1>7. ASSUME NEW t \in Tabs, Fault(t) PROVE Inv' /\ StepForward
  <2>1. CASE LosePull(t)
    BY <2>1, LosePullStep
  <2>2. CASE LosePost(t)
    BY <2>2, LosePostStep
  <2>3. CASE LoseNotice(t)
    BY <2>3, NoticeStep
  <2>4. CASE Degrade(t)
    BY <2>4, DegradeStep
  <2>5. CASE Crash(t)
    BY <2>5, CrashStep
  <2>6. CASE Online(t)
    BY <2>6, RetryStep
  <2> QED
    BY <1>7, <2>1, <2>2, <2>3, <2>4, <2>5, <2>6 DEF Fault
<1> QED
  BY <1>1, <1>2, <1>3, <1>4, <1>5, <1>6, <1>7 DEF Next, User

LEMMA Stutters ==
  ASSUME Inv, UNCHANGED vars
  PROVE  Inv'
BY DEF Inv, vars, Good, Counted, Purged, PullOK, SendOK, Sound, Queued, Honest, Answer,
       Stored, Covered, Waited, Pulling

\* In every state: the types, what each page knows of the server while its
\* calls are under way, and what the server knows of what it purged.
\* (stateSync.ts, webstate/store.go)
THEOREM SyncInvariant == Spec => []Inv
<1>1. Inv /\ [Next]_vars => Inv'
  BY NextStep, Stutters
<1> QED
  BY <1>1, InitInv, PTL DEF Spec

\* Every variable keeps its type, and whoever waits for a pull, or sends and
\* ends by one, waits for one under way.  (stateSync.ts: pullInFlight, sendOnce)
THEOREM TypeCorrect == Spec => []TypeOK
<1>1. Inv => TypeOK
  <2> SUFFICES ASSUME Inv PROVE TypeOK
    OBVIOUS
  <2>1. disk.rows \in [Keys -> Rows] /\ disk.queue \subseteq Keys /\ disk.cursor \in Nat
        /\ age \in 0..MaxTime
    BY DEF Inv, DiskRec
  <2>2. /\ server.rows \in [Keys -> Rows] /\ server.at \in [Keys -> 0..server.rev]
        /\ server.floor \in 0..server.rev /\ server.horizon \in 0..MaxTime
    BY DEF Inv, ServerRec, Counted
  <2>3. ASSUME NEW t \in Tabs
        PROVE  /\ tab[t].mem \in [Keys -> Rows]
               /\ tab[t].queue \subseteq Keys /\ tab[t].held \subseteq Keys
               /\ tab[t].waiters \in 0..2
               /\ tab[t].waiters > 0 => tab[t].pull.phase # "idle"
               /\ tab[t].send.phase = "pulling" => tab[t].pull.phase # "idle"
               /\ tab[t].send.phase \in {"idle", "pulling"} <=> tab[t].send.todo = <<>>
    <3>1. tab[t] \in TabRec /\ Waited(tab[t]) /\ Pulling(tab[t]) /\ SendOK(tab[t], server)
      BY InvFacts DEF Kept
    <3>2. /\ tab[t].mem \in [Keys -> Rows]
          /\ tab[t].queue \subseteq Keys /\ tab[t].held \subseteq Keys
          /\ tab[t].waiters \in 0..2
      BY <3>1 DEF TabRec
    <3> QED
      BY <3>1, <3>2 DEF Waited, Pulling, SendOK
  <2> QED
    BY <2>1, <2>2, <2>3 DEF TypeOK
<1> QED
  BY <1>1, SyncInvariant, PTL

\* Neither what a page wrote nor what the server holds is left out for good,
\* whatever is lost, late, refused or cut short, with any number of pages,
\* devices, keys and sweeps.  (stateSync.ts: dequeueKeys, pullOnce)
THEOREM NothingIsSkipped == Spec => []NothingSkipped
<1>1. Inv => NothingSkipped
  <2> SUFFICES ASSUME Inv PROVE EditsQueued /\ CursorHonest
    BY DEF NothingSkipped
  <2>1. ASSUME NEW t \in Tabs, ~tab[t].catchUp
        PROVE  Queued(tab[t], server) /\ Honest(tab[t], server, age)
    BY <2>1, InvFacts DEF Good, Sound
  <2>2. EditsQueued
    BY <2>1 DEF EditsQueued, Queued, Covered
  <2>3. CursorHonest
    BY <2>1 DEF CursorHonest, Honest, Expired
  <2> QED
    BY <2>2, <2>3
<1> QED
  BY <1>1, SyncInvariant, PTL

\* A version a sweep has purged never returns to the server, whatever a page
\* replays from its cache and however late.  (webstate/store.go: Upsert,
\* sweepNamespace)
THEOREM NoneResurrects == Spec => []NoResurrection
<1>1. Inv => NoResurrection
  BY DEF Inv, Purged, NoResurrection
<1> QED
  BY <1>1, SyncInvariant, PTL

\* No page shows an older row than it did, whatever pulls, other tabs, edits
\* and flushes bring.  (stateSync.ts, spacesStore.ts)
THEOREM NoneStepsBack == Spec => NoStepBack
<1>1. Inv /\ [Next]_vars => [StepForward]_vars
  BY NextStep
<1> QED
  BY <1>1, SyncInvariant, PTL DEF Spec, NoStepBack
=============================================================================
