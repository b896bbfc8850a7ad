----------------------------- MODULE HerderSync -----------------------------
(***************************************************************************)
(* Synchronisation of the herder web client's last-write-wins stores        *)
(* (notes, spaces, space members) with the herder server.                   *)
(*                                                                         *)
(* A tab is one page of the browser.  It holds the rows of one namespace in *)
(* memory, a state-sync client (shared/stateSync.ts) and shares the         *)
(* localStorage of its browser profile with the other tabs: the rows, which *)
(* a debounced flush writes, and the cursor and queue of the sync client,   *)
(* which every change writes at once.  The server's namespace is one file,  *)
(* changed by Upsert and by the hourly Sweep.                               *)
(*                                                                         *)
(* JavaScript runs one callback at a time, so everything between two awaits *)
(* is one step.  A step of the client is written as a function of the tab's *)
(* record, in the order of the calls in the code.                           *)
(***************************************************************************)
EXTENDS Integers, FiniteSets, SequencesExt

CONSTANTS
    Keys,       \* row keys: note or space ids
    Tabs,       \* pages of one browser profile; they share localStorage
    BigKeys,    \* keys whose row may grow past what the server accepts
    MaxChunk,   \* rows that fit one POST body
    MaxTime,    \* bound on updated stamps
    MaxAge,     \* bound on the stamps whose tombstones expire
    MaxWid,     \* bound on distinct write ids of one stamp
    Writes,     \* bound on edits made in the pages
    PeerWrites, \* bound on writes of other devices
    RollsBack,  \* whether opening a created space may fail
    Faults,     \* bound on lost or refused calls, storage failures, lost pages
    Refuses     \* whether the server may refuse a call for want of attribution

ASSUME SyncAssumption ==
    /\ MaxChunk \in Nat \ {0}
    /\ MaxTime \in Nat \ {0}
    /\ MaxWid \in Nat \ {0}
    /\ MaxAge \in 0..MaxTime
    /\ Writes \in Nat /\ PeerWrites \in Nat
    /\ Faults \in Nat /\ RollsBack \in BOOLEAN /\ Refuses \in BOOLEAN
    /\ BigKeys \subseteq Keys
    /\ IsFiniteSet(Keys)

VARIABLES
    tab,     \* tab[t]: one page's memory, or what is left of it when it is gone
    disk,    \* localStorage: rows, queue and cursor
    server,  \* the namespace file
    age,     \* tombstones stamped at or below it have outlived the retention
    purged,  \* history: per key, the newest stamp a sweep has purged
    spent    \* counters the bounds limit

vars == <<tab, disk, server, age, purged, spent>>

----------------------------------------------------------------------------
\* Rows and their order.

Row == [upd : 1..MaxTime, wid : 1..MaxWid, del : BOOLEAN, big : BOOLEAN]
NoRow == [upd |-> 0, wid |-> 0, del |-> TRUE, big |-> FALSE]

\* compareStateVersions(l, r) > 0
Newer(l, r) == l.upd > r.upd \/ (l.upd = r.upd /\ l.wid > r.wid)

Expired(row) == row # NoRow /\ row.del /\ row.upd <= age

Winner(l, r) == IF Newer(r, l) THEN r ELSE l

----------------------------------------------------------------------------
\* The state-sync client, as functions of a tab's record.

IdlePull == [phase |-> "idle", full |-> FALSE, from |-> 0, again |-> FALSE,
             rows |-> [k \in Keys |-> NoRow], rev |-> 0, horizon |-> 0]
IdleSend == [phase |-> "idle", todo |-> <<>>, rows |-> [k \in Keys |-> NoRow],
             again |-> FALSE, stale |-> {}]

\* requestPull: one pull at a time, and one more if it was asked for meanwhile.
RequestPull(c) ==
    IF c.pull.phase # "idle"
    THEN [c EXCEPT !.pull.again = TRUE]
    ELSE [c EXCEPT !.pull = [IdlePull EXCEPT !.phase = "asked", !.full = c.catchUp,
                                             !.from = IF c.catchUp THEN 0 ELSE c.cursor]]

\* chunkRows: at most MaxChunk rows a body.
Chunks(ks) ==
    LET s == SetToSeq(ks)
        n == (Len(s) + MaxChunk - 1) \div MaxChunk
    IN  [i \in 1..n |->
            {s[j] : j \in {j \in 1..Len(s) : (j - 1) \div MaxChunk = i - 1}}]

\* sendOnce up to its first await: the rows are read from the store now.
SendOnce(c) ==
    LET waiting == c.queue \ c.held
        ready   == {k \in waiting : c.mem[k] # NoRow}
        d       == [c EXCEPT !.queue = @ \ (waiting \ ready), !.refused = FALSE]
    IN  IF c.blocked THEN c
        ELSE IF ready = {} THEN d
        ELSE [d EXCEPT !.send = [IdleSend EXCEPT
                 !.phase = "posting", !.todo = Chunks(ready),
                 !.rows = [k \in Keys |-> IF k \in ready THEN c.mem[k] ELSE NoRow]]]

\* sendQueue: one send at a time, and one more if it was asked for meanwhile.
SendQueue(c) ==
    IF c.send.phase # "idle" THEN [c EXCEPT !.send.again = TRUE] ELSE SendOnce(c)

\* The finally of sendInFlight.
SendEnds(c) ==
    LET d == [c EXCEPT !.send = IdleSend] IN IF c.send.again THEN SendOnce(d) ELSE d

\* Mutant: no retry is scheduled.
RetryLater_Never(c) == c

\* handleFailure for anything but a missing attribution: retry later.
RetryLater(c) == [c EXCEPT !.timer = TRUE]

\* handleFailure for 409 attribution required: stop sending, cancel the retry.
\* `refused` is history: the refusal, until the next send begins.
Block(c) == [c EXCEPT !.blocked = TRUE, !.timer = FALSE, !.refused = TRUE]

\* retryNow and stateChanged: pull, then send.  `waiters` counts the callers
\* waiting for the pull in flight; more than two behave as two.
PullThenSend(c) ==
    [RequestPull(c) EXCEPT !.waiters = IF @ = 2 THEN 2 ELSE @ + 1]

\* forget: rows the server has purged go, memory and queue, with no event.
Forget(c, ks) ==
    [c EXCEPT !.mem = [k \in Keys |-> IF k \in ks THEN NoRow ELSE @[k]],
              !.dirty = @ \ ks, !.adopted = @ \ ks, !.queue = @ \ ks]

\* The store's merge: a newer row wins; an expired tombstone only deletes.
Merge(c, rows) ==
    LET wins == {k \in Keys : Newer(rows[k], c.mem[k])}
        gone == {k \in wins : Expired(rows[k])}
    IN  [c EXCEPT !.mem = [k \in Keys |-> IF k \in gone THEN NoRow
                                          ELSE IF k \in wins THEN rows[k] ELSE @[k]],
                  !.dirty = (@ \ gone) \cup (wins \ gone),
                  !.adopted = @ \ wins]

\* Mutant: a queued key is done once the pull mentions it, whatever is newer.
Absorb_AnyRemote(c) ==
    LET m    == Merge(c, c.pull.rows)
        got  == {k \in Keys : c.pull.rows[k] # NoRow}
    IN  [m EXCEPT !.blocked = FALSE, !.cursor = c.pull.rev, !.queue = @ \ got]

\* pullOnce after its answer, up to the full pull's part.
Absorb(c) ==
    LET m    == Merge(c, c.pull.rows)
        got  == {k \in Keys : c.pull.rows[k] # NoRow}
        done == {k \in m.queue : m.mem[k] = NoRow
                                 \/ (k \in got /\ ~Newer(m.mem[k], c.pull.rows[k]))}
    IN  [m EXCEPT !.blocked = FALSE, !.cursor = c.pull.rev,
                  !.queue = IF got = {} THEN @ ELSE @ \ done]

\* pullOnce, the part of a full pull: queue what the server lacks or holds
\* older, forget what it deleted and purged while this browser was away.
\* `m` is the tab after Absorb, `p` the answer.
Reconcile(m, p) ==
    LET held   == {k \in Keys : m.mem[k] # NoRow}
        stale  == {k \in held : /\ p.rows[k] = NoRow
                                /\ p.horizon > 0
                                /\ m.mem[k].upd <= p.horizon}
        ahead  == {k \in held \ stale : Newer(m.mem[k], p.rows[k])}
    IN  [Forget([m EXCEPT !.queue = @ \cup ahead], stale) EXCEPT !.catchUp = FALSE]

\* The end of a pull, answered or failed: a coalesced pull starts, start
\* queues everything if the server is still unknown, and whoever waited sends.
PullEnds(c) ==
    LET again   == c.pull.again
        d       == [c EXCEPT !.pull = IdlePull, !.waiters = 0, !.starting = FALSE,
                             !.queue = IF c.starting /\ c.catchUp
                                       THEN @ \cup {k \in Keys : c.mem[k] # NoRow} ELSE @]
        asked   == IF again THEN RequestPull(d) ELSE d
        freed   == IF d.send.phase = "pulling" THEN SendEnds(asked) ELSE asked
        sent    == IF c.waiters > 0 THEN SendQueue(freed) ELSE freed
    IN  IF c.waiters = 2 THEN SendQueue(sent) ELSE sent

\* post, after a chunk was accepted: drop what the server calls stale, and
\* dequeue every sent row that has not changed since.
Accepted(c) ==
    LET sent  == Head(c.send.todo)
        same  == {k \in sent : ~Newer(c.mem[k], c.send.rows[k])}
        f     == Forget(c, {k \in c.send.stale \cap same : c.mem[k] # NoRow})
    IN  [f EXCEPT !.queue = @ \ same, !.send.todo = Tail(@)]

\* sendOnce after a chunk: the next chunk, or the pull that ends the send.
NextChunk(c) ==
    IF c.send.todo # <<>>
    THEN [c EXCEPT !.send.phase = "posting", !.send.stale = {}]
    ELSE RequestPull([c EXCEPT !.send.phase = "pulling", !.send.stale = {}])

\* post, after 413: a chunk of several rows goes row by row, one row is held.
TooLarge(c) ==
    LET sent == Head(c.send.todo)
    IN  IF Cardinality(sent) > 1
        THEN [c EXCEPT !.send.todo = [i \in 1..Cardinality(sent) |-> {SetToSeq(sent)[i]}] \o Tail(@)]
        ELSE [c EXCEPT !.held = @ \cup sent, !.send.todo = Tail(@)]

----------------------------------------------------------------------------
\* The server's namespace.

\* Mutant: the horizon is not consulted.
StaleAt_None(s, rows, ks) == {}

\* FileStore.Upsert of the rows of `ks`: a row the server lacks at or below
\* the purge horizon is stale, a newer row wins and takes the next revision.
StaleAt(s, rows, ks) ==
    {k \in ks : s.rows[k] = NoRow /\ s.horizon > 0 /\ rows[k].upd <= s.horizon}

Upsert(s, rows, ks) ==
    LET wins == {k \in ks \ StaleAt(s, rows, ks) : Newer(rows[k], s.rows[k])}
        seq  == SetToSeq(wins)
        place(k) == CHOOSE i \in 1..Len(seq) : seq[i] = k
    IN  [s EXCEPT !.rows = [k \in Keys |-> IF k \in wins THEN rows[k] ELSE @[k]],
                  !.at   = [k \in Keys |-> IF k \in wins THEN s.rev + place(k) ELSE @[k]],
                  !.rev  = @ + Len(seq)]

\* FileStore.Since: everything to a cursor behind the floor.
Since(s, from) ==
    [k \in Keys |-> IF from < s.floor \/ s.at[k] > from THEN s.rows[k] ELSE NoRow]

\* FileStore.sweepNamespace: expired tombstones go for good, the horizon rises
\* to the newest of them, and one new revision becomes the floor.
Purgeable == {k \in Keys : Expired(server.rows[k])}

Swept(s, ks) ==
    LET newest == CHOOSE n \in {s.horizon} \cup {s.rows[k].upd : k \in ks} :
                     \A m \in {s.horizon} \cup {s.rows[k].upd : k \in ks} : m <= n
    IN  [s EXCEPT !.rows = [k \in Keys |-> IF k \in ks THEN NoRow ELSE @[k]],
                  !.at = [k \in Keys |-> IF k \in ks THEN 0 ELSE @[k]],
                  !.rev = @ + 1, !.floor = s.rev + 1, !.horizon = newest]

----------------------------------------------------------------------------
\* Steps.

Up(t) == tab[t].up

\* Every change of the queue is written to localStorage in the same step.
KeepQueue(t, c) ==
    IF c.queue # tab[t].queue /\ ~c.degraded THEN [disk EXCEPT !.queue = c.queue] ELSE disk

Become(t, c) == tab' = [tab EXCEPT ![t] = c]

\* A tab's step that touches nothing but itself and the queue it persists.
Client(t, c) ==
    /\ Become(t, c)
    /\ disk' = KeepQueue(t, c)
    /\ UNCHANGED <<server, age, purged>>

Spend(what) == spent' = [spent EXCEPT ![what] = @ + 1]

\* Stamps of key k that some copy already carries: a write id is never reused.
Known(k) ==
    {server.rows[k], disk.rows[k]}
      \cup UNION {{tab[t].mem[k], tab[t].pull.rows[k], tab[t].send.rows[k]} : t \in Tabs}

Fresh(k, upd) == {w \in 1..MaxWid : \A r \in Known(k) : ~(r.upd = upd /\ r.wid = w)}

\* Mutant: an edit takes the clock's time even if the row is newer.
Stamp_Clock(row, clock) == clock

\* A mutation of some keys by the user: reconcile with localStorage, stamp
\* past what is there, put, and tell the sync client, which sends.
Stamp(row, clock) == IF row.upd + 1 > clock THEN row.upd + 1 ELSE clock

OnMutation(c, ks) ==
    SendQueue([c EXCEPT !.held = @ \ ks, !.queue = @ \cup ks])

\* reconcile: what the page holds against what another tab persisted.
Base(t) == [k \in Keys |-> IF tab[t].degraded THEN tab[t].mem[k]
                                              ELSE Winner(tab[t].mem[k], disk.rows[k])]

Live(row) == row # NoRow /\ ~row.del

\* rollbackCreate: the row is forgotten, the queue is not.
Undo(c, ks) ==
    [c EXCEPT !.mem = [k \in Keys |-> IF k \in ks THEN NoRow ELSE @[k]],
              !.dirty = @ \ ks, !.undone = @ \cup ks]

\* putBatch: the keys ks take new rows, dirty until the flush.
Put(t, ks, del, clock, undone) ==
    LET c    == tab[t]
        base == Base(t)
    IN  /\ Up(t) /\ spent.writes < Writes
        /\ clock > age
        /\ \A k \in ks : Stamp(base[k], clock) <= MaxTime
        /\ \E w \in [ks -> 1..MaxWid], big \in [ks -> BOOLEAN] :
              /\ \A k \in ks : w[k] \in Fresh(k, Stamp(base[k], clock))
              /\ \A k \in ks : big[k] => (k \in BigKeys /\ ~del)
              /\ LET row(k) == [upd |-> Stamp(base[k], clock), wid |-> w[k],
                                del |-> del, big |-> big[k]]
                     put == [c EXCEPT !.mem = [k \in Keys |-> IF k \in ks THEN row(k) ELSE @[k]],
                                      !.dirty = IF c.degraded THEN @ ELSE @ \cup ks,
                                      !.adopted = @ \ ks, !.undone = @ \ ks]
                 IN  Client(t, Undo(OnMutation(put, ks), undone))
        /\ Spend("writes")

\* A new note or space, or a fallback edit of one that is gone here.
Add(t, k, clock) == Base(t)[k] = NoRow /\ Put(t, {k}, FALSE, clock, {})

\* edit, rename, reorder: reorder rewrites every row of the list at once.
Change(t, ks, clock) == (\A k \in ks : Live(Base(t)[k])) /\ Put(t, ks, FALSE, clock, {})

\* delete, close: a tombstone takes the row's place.
Delete(t, ks, clock) == (\A k \in ks : Live(Base(t)[k])) /\ Put(t, ks, TRUE, clock, {})

\* reopen: a recently closed space is live again.
Reopen(t, k, clock) ==
    /\ Base(t)[k] # NoRow /\ Base(t)[k].del
    /\ Put(t, {k}, FALSE, clock, {})

\* createAndSwitchSpace and its kin when the new space cannot be opened or its
\* layout written: rollbackCreate takes the row, still dirty, out of memory in
\* the step that created it.  By then the put has queued the key and, unless a
\* send was under way, begun the request that carries the row.
AddRolledBack(t, k, clock) ==
    /\ Base(t)[k] = NoRow /\ ~tab[t].degraded /\ RollsBack
    /\ Put(t, {k}, FALSE, clock, {k})

\* flush, by the debounce timer, pagehide or dispose: each dirty row is
\* compared with what localStorage holds; other tabs hear of what was written.
Flush(t) ==
    LET c     == tab[t]
        rows  == [k \in Keys |-> IF k \in c.dirty THEN Winner(c.mem[k], disk.rows[k]) ELSE disk.rows[k]]
        mem   == [k \in Keys |-> IF k \in c.dirty /\ c.mem[k] # NoRow THEN rows[k] ELSE c.mem[k]]
        wrote == {k \in c.dirty : rows[k] # disk.rows[k]}
    IN  /\ Up(t) /\ c.dirty # {}
        /\ disk' = [disk EXCEPT !.rows = rows]
        /\ tab' = [u \in Tabs |->
                     IF u = t THEN [c EXCEPT !.mem = mem, !.dirty = {},
                                             !.adopted = @ \cup {k \in Keys : mem[k] # c.mem[k]}]
                     ELSE IF tab[u].up
                          THEN [tab[u] EXCEPT !.heard = @ \cup {<<k, rows[k]>> : k \in wrote}]
                          ELSE tab[u]]
        /\ UNCHANGED <<server, age, purged, spent>>

\* onEvent: another tab's write.  The newer row is adopted and its own
\* pending write of that key dropped.
Hear(t) ==
    /\ Up(t)
    /\ \E e \in tab[t].heard :
          LET c == [tab[t] EXCEPT !.heard = @ \ {e}]
          IN  Client(t, IF Newer(e[2], c.mem[e[1]])
                        THEN [c EXCEPT !.mem[e[1]] = e[2], !.dirty = @ \ {e[1]},
                                       !.adopted = @ \cup {e[1]}]
                        ELSE c)
    /\ UNCHANGED spent

\* The server answers a pull.
ServePull(t) ==
    LET c == tab[t] IN
    /\ Up(t) /\ c.pull.phase = "asked"
    /\ Client(t, [c EXCEPT !.pull.phase = "answered",
                           !.pull.rows = Since(server, c.pull.from),
                           !.pull.rev = server.rev, !.pull.horizon = server.horizon])
    /\ UNCHANGED spent

\* Forgotten and expired rows leave localStorage in the step that drops them.
DropFromDisk(c, d, after) ==
    IF after.degraded THEN disk
    ELSE [d EXCEPT !.rows = [k \in Keys |-> IF c.mem[k] # NoRow /\ after.mem[k] = NoRow
                                            THEN NoRow ELSE @[k]]]

\* pullOnce resumes with the answer.
HearPull(t) ==
    LET c == tab[t]
        m == Absorb(c)
        r == PullEnds(IF c.pull.full THEN Reconcile(m, c.pull) ELSE m)
        d == KeepQueue(t, r)
    IN  /\ Up(t) /\ c.pull.phase = "answered"
        /\ Become(t, [r EXCEPT !.dirty = IF c.degraded THEN {} ELSE @])
        /\ disk' = IF c.degraded THEN d ELSE [DropFromDisk(c, d, r) EXCEPT !.cursor = r.cursor]
        /\ UNCHANGED <<server, age, purged, spent>>

\* The pull fails: lost on either way, or refused.
LosePull(t) ==
    LET c == tab[t] IN
    /\ Up(t) /\ c.pull.phase \in {"asked", "answered"}
    /\ spent.faults < Faults /\ Spend("faults")
    /\ \/ Client(t, PullEnds(RetryLater(c)))
       \/ /\ Refuses /\ c.pull.phase = "asked"
          /\ Client(t, PullEnds(Block(c)))

\* The server takes one chunk, or answers 413 and takes nothing of it.
ServePost(t) ==
    LET c  == tab[t]
        ks == Head(c.send.todo)
    IN  /\ Up(t) /\ c.send.phase = "posting"
        /\ IF \E k \in ks : c.send.rows[k].big
           THEN Become(t, [c EXCEPT !.send.phase = "tooLarge"]) /\ UNCHANGED server
           ELSE /\ server' = Upsert(server, c.send.rows, ks)
                /\ tab' = [u \in Tabs |->
                     LET n == IF tab[u].up /\ server'.rev > server.rev
                              THEN server'.rev ELSE tab[u].note
                     IN  IF u = t
                         THEN [c EXCEPT !.send.phase = "stored", !.note = n,
                                        !.send.stale = StaleAt(server, c.send.rows, ks)]
                         ELSE [tab[u] EXCEPT !.note = n]]
        /\ UNCHANGED <<disk, age, purged, spent>>

\* post resumes with the server's answer.
HearPost(t) ==
    LET c == tab[t]
        r == NextChunk(Accepted(c))
    IN  /\ Up(t)
        /\ \/ /\ c.send.phase = "stored"
              /\ Become(t, r)
              /\ disk' = DropFromDisk(c, KeepQueue(t, r), r)
              /\ UNCHANGED <<server, age, purged>>
           \/ /\ c.send.phase = "tooLarge"
              /\ Client(t, NextChunk(TooLarge(c)))
        /\ UNCHANGED spent

\* The post fails, whether or not the server stored the rows.
LosePost(t) ==
    LET c == tab[t] IN
    /\ Up(t) /\ c.send.phase \in {"posting", "stored", "tooLarge"}
    /\ spent.faults < Faults /\ Spend("faults")
    /\ \/ Client(t, SendEnds(RetryLater(c)))
       \/ /\ Refuses /\ c.send.phase = "posting"
          /\ Client(t, SendEnds(Block(c)))

\* The scheduled retry fires.
RetryNow(t) ==
    /\ Up(t) /\ tab[t].timer
    /\ Client(t, PullThenSend([tab[t] EXCEPT !.timer = FALSE]))
    /\ UNCHANGED spent

\* The browser says it is back online.
Online(t) ==
    /\ Up(t) /\ spent.faults < Faults
    /\ Client(t, PullThenSend([tab[t] EXCEPT !.timer = FALSE]))
    /\ Spend("faults")

\* stateChanged: the stream announced a revision.
HearNotice(t) ==
    LET c == [tab[t] EXCEPT !.note = 0] IN
    /\ Up(t) /\ tab[t].note > 0
    /\ Client(t, IF tab[t].note <= c.cursor THEN c ELSE PullThenSend(c))
    /\ UNCHANGED spent

\* The announcement is lost: the stream was down or its buffer full.
LoseNotice(t) ==
    /\ Up(t) /\ tab[t].note > 0 /\ spent.faults < Faults
    /\ Client(t, [tab[t] EXCEPT !.note = 0])
    /\ Spend("faults")

\* localStorage throws: from here on the tab keeps its rows in memory only.
Degrade(t) ==
    /\ Up(t) /\ ~tab[t].degraded /\ spent.faults < Faults
    /\ Client(t, [tab[t] EXCEPT !.degraded = TRUE, !.dirty = {}])
    /\ Spend("faults")

Gone == [up |-> FALSE, mem |-> [k \in Keys |-> NoRow], dirty |-> {}, adopted |-> {},
         queue |-> {}, held |-> {}, cursor |-> 0, catchUp |-> TRUE, starting |-> FALSE,
         pull |-> IdlePull, send |-> IdleSend, waiters |-> 0, blocked |-> FALSE, refused |-> FALSE,
         timer |-> FALSE, degraded |-> FALSE, heard |-> {}, note |-> 0, undone |-> {}]

\* The tab goes away without a flush; what it sent and the server did not
\* take by then is not taken later.
Crash(t) ==
    /\ Up(t) /\ spent.faults < Faults
    /\ Become(t, Gone)
    /\ UNCHANGED <<disk, server, age, purged>>
    /\ Spend("faults")

\* A page opens: load reads localStorage and prunes expired tombstones, the
\* sync client reads its queue and cursor, and start pulls.
Loaded(d) == [k \in Keys |-> IF Expired(d.rows[k]) THEN NoRow ELSE d.rows[k]]

\* Mutant: a page resumes from the persisted cursor instead of a full pull.
Opened_Resume(d) ==
    RequestPull([Gone EXCEPT !.up = TRUE, !.mem = Loaded(d), !.queue = d.queue,
                             !.cursor = d.cursor, !.catchUp = FALSE,
                             !.starting = TRUE, !.waiters = 1])

Opened(d) ==
    RequestPull([Gone EXCEPT !.up = TRUE, !.mem = Loaded(d), !.queue = d.queue,
                             !.cursor = d.cursor, !.starting = TRUE, !.waiters = 1])

Open(t) ==
    /\ ~Up(t)
    /\ Become(t, Opened(disk))
    /\ disk' = [disk EXCEPT !.rows = Loaded(disk)]
    /\ UNCHANGED <<server, age, purged, spent>>

\* Another device's write reaches the server; every open tab is told.
PeerWrite(k, del, clock) ==
    /\ spent.peers < PeerWrites /\ clock > age
    /\ \E w \in Fresh(k, clock) :
          LET rows == [j \in Keys |-> [upd |-> clock, wid |-> w, del |-> del, big |-> FALSE]]
          IN  server' = Upsert(server, rows, {k})
    /\ server'.rev > server.rev
    /\ tab' = [u \in Tabs |-> IF tab[u].up THEN [tab[u] EXCEPT !.note = server'.rev] ELSE tab[u]]
    /\ Spend("peers")
    /\ UNCHANGED <<disk, age, purged>>

\* Thirty days pass for the tombstones stamped so far.
Age ==
    /\ age < MaxAge
    /\ \E k \in Keys : \E r \in {server.rows[k], disk.rows[k]} : r.del /\ r.upd > age
    /\ age' = age + 1
    /\ UNCHANGED <<tab, disk, server, purged, spent>>

\* sweepStateOnce: purge and publish the new revision.
Sweep ==
    /\ Purgeable # {}
    /\ server' = Swept(server, Purgeable)
    /\ purged' = [k \in Keys |-> IF k \in Purgeable THEN server.rows[k].upd ELSE purged[k]]
    /\ tab' = [u \in Tabs |-> IF tab[u].up THEN [tab[u] EXCEPT !.note = server'.rev] ELSE tab[u]]
    /\ UNCHANGED <<disk, age, spent>>

----------------------------------------------------------------------------
\* Nothing is stored anywhere.
Empty ==
    /\ disk = [rows |-> [k \in Keys |-> NoRow], queue |-> {}, cursor |-> 0]
    /\ server = [rows |-> [k \in Keys |-> NoRow], at |-> [k \in Keys |-> 0],
                 rev |-> 0, floor |-> 0, horizon |-> 0]
    /\ age = 0
    /\ purged = [k \in Keys |-> 0]
    /\ spent = [writes |-> 0, peers |-> 0, faults |-> 0]

Init == Empty /\ tab = [t \in Tabs |-> Gone]

User ==
    \/ \E t \in Tabs, clock \in 1..MaxTime :
          \/ \E k \in Keys : Add(t, k, clock) \/ Reopen(t, k, clock) \/ AddRolledBack(t, k, clock)
          \/ \E ks \in SUBSET Keys \ {{}} : Change(t, ks, clock) \/ Delete(t, ks, clock)
    \/ \E k \in Keys, del \in BOOLEAN, clock \in 1..MaxTime : PeerWrite(k, del, clock)

Exchange(t) ==
    \/ ServePull(t) \/ HearPull(t) \/ ServePost(t) \/ HearPost(t)
    \/ RetryNow(t) \/ HearNotice(t) \/ Flush(t) \/ Hear(t)

Fault(t) ==
    LosePull(t) \/ LosePost(t) \/ LoseNotice(t) \/ Degrade(t) \/ Crash(t) \/ Online(t)

Next ==
    \/ User \/ Age \/ Sweep
    \/ \E t \in Tabs : Open(t) \/ Exchange(t) \/ Fault(t)

Spec == Init /\ [][Next]_vars

\* The server answers, the browser runs its callbacks and timers, and a page
\* that is closed is opened again.  An exchange under way ends: stated on its
\* phases, which only the steps that end it leave.
Fairness ==
    \A t \in Tabs :
       /\ WF_vars(Flush(t)) /\ WF_vars(Hear(t)) /\ WF_vars(Open(t))
       /\ \A p \in {"asked", "answered"} : []<>(tab[t].pull.phase # p)
       /\ \A p \in {"posting", "stored", "tooLarge"} : []<>(tab[t].send.phase # p)
       /\ []<>(~tab[t].timer)
       /\ []<>(tab[t].note = 0)

FairSpec == Spec /\ Fairness

----------------------------------------------------------------------------
\* Properties.

Rows == Row \cup {NoRow}

\* The types of the state, the coalescing of requests included: what is
\* waiting to be sent is part of a chunk list only while a send is under way.
TypeOK ==
    /\ disk.rows \in [Keys -> Rows] /\ disk.queue \subseteq Keys /\ disk.cursor \in Nat
    /\ server.rows \in [Keys -> Rows] /\ server.at \in [Keys -> 0..server.rev]
    /\ server.floor \in 0..server.rev /\ server.horizon \in 0..MaxTime
    /\ \A t \in Tabs :
          /\ tab[t].mem \in [Keys -> Rows]
          /\ tab[t].queue \subseteq Keys /\ tab[t].held \subseteq Keys
          /\ tab[t].waiters \in 0..2
          /\ tab[t].waiters > 0 => tab[t].pull.phase # "idle"
          /\ tab[t].send.phase = "pulling" => tab[t].pull.phase # "idle"
          /\ tab[t].send.phase \in {"idle", "pulling"} <=> tab[t].send.todo = <<>>
    /\ age \in 0..MaxTime

\* A cursor is honest: once a page has had its full pull, it holds every
\* server row up to its cursor, or a newer one; only tombstones past the
\* retention, which merge drops, are missing.  The page asks only for what is
\* past the cursor (pullOnce), so a row skipped here would never be fetched.
CursorHonest ==
    \A t \in Tabs : (Up(t) /\ ~tab[t].catchUp) =>
        \A k \in Keys :
            (server.rows[k] # NoRow /\ server.at[k] <= tab[t].cursor)
                => \/ ~Newer(server.rows[k], tab[t].mem[k])
                   \/ Expired(server.rows[k])

\* No edit is dropped: a row this page wrote and the server does not have is
\* queued, until the server has it, answers that it purged the key, or the
\* first full pull has still to compare the two.  dequeueKeys runs after every
\* pull and every post, against rows that may have changed meanwhile.
EditsQueued ==
    \A t \in Tabs : (Up(t) /\ ~tab[t].catchUp) =>
        \A k \in Keys \ tab[t].adopted :
            Newer(tab[t].mem[k], server.rows[k])
                => \/ k \in tab[t].queue
                   \/ server.rows[k] = NoRow /\ tab[t].mem[k].upd <= server.horizon

\* Neither what a page wrote nor what the server holds is left out for good.
NothingSkipped == EditsQueued /\ CursorHonest

\* A purged key comes back only by a newer write: whatever a page replays from
\* its cache, the server never again holds a version a sweep has purged.
NoResurrection ==
    \A k \in Keys : server.rows[k] # NoRow => server.rows[k].upd > purged[k]

\* A row a page shows never goes back in time while the page is open: local
\* edits, pulls, other tabs and flushes only replace it by a newer one or
\* drop it.
StepForward ==
    \A t \in Tabs : (tab[t].up /\ tab'[t].up) =>
       \A k \in Keys : tab'[t].mem[k] = NoRow \/ ~Newer(tab[t].mem[k], tab'[t].mem[k])

NoStepBack == [][StepForward]_vars

\* A space whose creation was rolled back stays gone: the user was told it
\* could not be opened (createAndSwitchSpace: "rollback remains authoritative").
RollbackHolds ==
    \A t \in Tabs : \A k \in tab[t].undone : tab[t].mem[k] = NoRow

\* Same(t, k): the page and the server show the same row, or nothing live
\* where the server has purged the key.
Same(t, k) ==
    \/ tab[t].mem[k] = server.rows[k]
    \/ tab[t].mem[k] = NoRow /\ Expired(server.rows[k])
    \/ server.rows[k] = NoRow /\ tab[t].mem[k].upd <= server.horizon

\* Once users and faults stop, every edit reaches the server or is held back:
\* its row is too large, or a call was refused for want of an attribution and
\* nothing has asked for a send since (handleFailure cancels the retry).
\* Whatever else fails is retried until then.
Sent(t, k) ==
    Up(t) => \/ tab[t].refused \/ k \in tab[t].held \cup tab[t].adopted
             \/ ~Newer(tab[t].mem[k], server.rows[k]) \/ Same(t, k)

=============================================================================
