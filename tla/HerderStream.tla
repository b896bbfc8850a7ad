---------------------------- MODULE HerderStream ----------------------------
(***************************************************************************)
(* The one event stream of a herder page (stream/useFleetStream.ts), the    *)
(* transcripts it keeps fresh in the query cache, the sends that take over  *)
(* a refresh (sendRefresh.ts) and the file watches a page registers         *)
(* (stream/fileWatchRegistry.ts), with the server loop that serves the      *)
(* stream.                                                                  *)
(*                                                                         *)
(* A target is an agent's transcript or a file; the page wants a set of     *)
(* them, changes it by a POST to the live connection, and reconnects when   *)
(* the POST is not taken.  A transcript is a session and a length.          *)
(***************************************************************************)
EXTENDS Integers, FiniteSets, Sequences

CONSTANTS
    Agents,      \* agents with a transcript
    Files,       \* files and folders the page may watch
    MaxLog,      \* bound on entries of one transcript
    MaxSession,  \* bound on sessions of one transcript
    Sends,       \* messages the page may send
    Acts         \* bound on renders, file panels mounted, sends, bus messages,
                 \* lost connections, refused updates and failed calls, together

StreamAssumption ==
    /\ MaxLog \in Nat /\ MaxSession \in Nat \ {0} /\ Acts \in Nat
    /\ Agents \cap Files = {}

VARIABLES
    page,   \* the page's end of the stream
    watch,  \* the file watch registry
    wire,   \* events on their way to the page, of the live connection
    srv,    \* the server's loop for the live connection
    log,    \* the transcripts
    cache,  \* the page's cached transcripts
    send,   \* the sends of the page
    past,   \* history: wakes and refreshes nobody answered yet, or ever
    spent   \* the acts so far, which Acts bounds

vars == <<page, watch, wire, srv, log, cache, send, past, spent>>

Targets == Agents \cup Files
Place   == [session : 1..MaxSession, len : 0..MaxLog]
NoData  == [session |-> 0, len |-> 0]

NoPost  == [phase |-> "none", old |-> FALSE, to |-> {}]
NoServer == [state |-> "none", ready |-> FALSE, follow |-> {}, off |-> [a \in Agents |-> NoData]]
NoQuery == [known |-> FALSE, data |-> NoData, stale |-> FALSE, fetch |-> "no", got |-> NoData]

----------------------------------------------------------------------------
\* The query cache: entries(a), staleTime Infinity, no retry.

Ask(q) == [q EXCEPT !.fetch = "asked"]

\* A panel mounts: it fetches what was never read or is invalidated.
Mounted(q) ==
    LET k == [q EXCEPT !.known = TRUE]
    IN  IF k.fetch = "no" /\ (k.data = NoData \/ k.stale) THEN Ask(k) ELSE k

\* Mutant: a refresh joins the fetch in flight, whose answer may be older.
Invalidate_Joins(q, shown) ==
    IF ~q.known \/ q.fetch # "no" THEN q
    ELSE LET s == [q EXCEPT !.stale = TRUE]
         IN  IF q.data = NoData /\ ~shown THEN s ELSE Ask(s)

\* invalidateQueries with refetchType all: a fetch in flight starts again
\* unless it is the first one, whose answer is awaited instead; a query that
\* never got an answer and that no panel shows is left alone.
Invalidate(q, shown) ==
    IF ~q.known THEN q
    ELSE LET s == [q EXCEPT !.stale = TRUE]
         IN  IF q.data = NoData /\ (q.fetch # "no" \/ ~shown) THEN s ELSE Ask(s)

\* resetQueries, and the fetch of a warm transcript no panel shows.
Reset(q) == IF q.known THEN Ask([NoQuery EXCEPT !.known = TRUE]) ELSE q

\* A refresh that an initial load in flight swallows: its answer may predate
\* what the refresh is for.
Swallows(a) == cache[a].known /\ cache[a].data = NoData /\ cache[a].fetch # "no"

----------------------------------------------------------------------------
\* The connection, as functions of the page's record.

\* retarget: one update at a time, only for a connection whose id is known.
Retarget(p) ==
    IF /\ p.link \in {"opening", "live"} /\ p.hello
       /\ p.post = NoPost
       /\ p.want # p.following
    THEN [p EXCEPT !.post = [phase |-> "sent", old |-> FALSE, to |-> p.want]]
    ELSE p

\* connect: the URL carries what is wanted now.
Connect(p) ==
    [p EXCEPT !.link = "opening", !.hello = FALSE, !.following = p.want, !.connecting = TRUE]

\* scheduleReconnect: the banner shows at once, an update in flight is of a
\* connection that is no more.
ScheduleReconnect(p) ==
    [p EXCEPT !.link = "waiting", !.connecting = FALSE, !.banner = TRUE, !.hello = FALSE,
              !.post.old = (@ \/ p.post # NoPost)]

\* Mutant: what is wanted by now is not compared with what the URL carried.
Hello_NoRetarget(p) ==
    [p EXCEPT !.link = "live", !.hello = TRUE, !.connecting = FALSE, !.banner = FALSE]

\* The hello event, with onopen right before it.
Hello(p) ==
    LET q == [p EXCEPT !.link = "live", !.hello = TRUE, !.connecting = FALSE, !.banner = FALSE]
    IN  IF p.settle THEN q ELSE Retarget(q)

\* refreshTranscript for each of the agents in `as`.
Refreshed(as) == [a \in Agents |-> IF a \in as THEN Invalidate(cache[a], a \in page.seen) ELSE cache[a]]

\* History: the wakes a refresh of `as` leaves to the fetch it asks for, and
\* what it loses.
Answered(as) ==
    [past EXCEPT !.woken = {a \in @ : a \in as => Refreshed(as)[a].fetch = "asked"},
                 !.missed = (@ \ as) \cup {a \in as : Swallows(a)}]

Act == spent < Acts /\ spent' = spent + 1

----------------------------------------------------------------------------
\* The page.

\* A render changes the targets: names and panes change at once, the
\* connection once the settle timer fires.  Panels mount or unmount with it.
Update(want, seen) ==
    /\ Act
    /\ <<want, seen>> # <<page.want \cap Agents, page.seen>>
    /\ page' = [page EXCEPT !.want = want \cup (@ \cap Files), !.seen = seen, !.settle = TRUE]
    /\ cache' = [a \in Agents |-> IF a \in seen \ page.seen THEN Mounted(cache[a]) ELSE cache[a]]
    /\ UNCHANGED <<watch, wire, srv, log, send, past>>

\* pruneUnsubscribedTranscripts
Pruned(q, a) == IF a \in page.want \/ a \in page.seen THEN q ELSE NoQuery

\* The settle timer: prune, then retarget.
Settle ==
    /\ page.settle
    /\ cache' = [a \in Agents |-> Pruned(cache[a], a)]
    /\ page' = Retarget([page EXCEPT !.settle = FALSE])
    /\ past' = [past EXCEPT !.missed = @ \cap (page.want \cup page.seen),
                            !.woken = @ \cap (page.want \cup page.seen)]
    /\ UNCHANGED <<watch, wire, srv, log, send, spent>>

\* The connecting banner appears after a grace.
ConnectingTimer ==
    /\ page.connecting
    /\ page' = [page EXCEPT !.connecting = FALSE, !.banner = TRUE]
    /\ UNCHANGED <<watch, wire, srv, log, cache, send, past, spent>>

\* onerror, or the watchdog after 45 s without a byte.
LinkLost ==
    /\ page.link \in {"opening", "live"} /\ srv.state = "broken"
    /\ page' = ScheduleReconnect(page)
    /\ UNCHANGED <<watch, wire, srv, log, cache, send, past, spent>>

ReconnectTimer ==
    /\ page.link = "waiting"
    /\ page' = Connect(page)
    /\ srv' = NoServer /\ wire' = <<>>
    /\ UNCHANGED <<watch, log, cache, send, past, spent>>

\* The answer of an update: nothing if the connection is another one by now,
\* a new connection if it was not taken, the next update otherwise.
PostAnswered ==
    /\ page.post.phase \in {"taken", "refused"}
    /\ LET p == [page EXCEPT !.post = NoPost]
       IN  CASE page.post.old ->
                  /\ page' = p
                  /\ past' = [past EXCEPT !.unposted = @ \/ (page.link = "live" /\ ~page.settle
                                                               /\ page.want # page.following)]
                  /\ UNCHANGED <<srv, wire>>
             [] ~page.post.old /\ page.post.phase = "refused" ->
                  /\ page' = Connect([p EXCEPT !.connecting = FALSE])
                  /\ srv' = NoServer /\ wire' = <<>>
                  /\ UNCHANGED past
             [] OTHER ->
                  /\ page' = Retarget([p EXCEPT !.following = page.post.to])
                  /\ UNCHANGED <<srv, wire, past>>
    /\ UNCHANGED <<watch, log, cache, send, spent>>

\* The burst timer of an agent: a name not wanted just now is skipped.
BurstTimer(a) ==
    /\ a \in page.burst
    /\ page' = [page EXCEPT !.burst = @ \ {a}]
    /\ IF a \in page.want
       THEN cache' = Refreshed({a}) /\ past' = Answered({a})
       ELSE past' = [past EXCEPT !.missed = @ \cup {a}] /\ UNCHANGED cache
    /\ UNCHANGED <<watch, wire, srv, log, send, spent>>

----------------------------------------------------------------------------
\* Sends.

NoSend == [phase |-> "no", to |-> CHOOSE a \in Agents : TRUE, deferred |-> FALSE]

\* sendWithRefresh up to the POST.
BeginSend(s, a) ==
    /\ send[s] = NoSend /\ Act
    /\ send' = [send EXCEPT ![s] = [phase |-> "posting", to |-> a, deferred |-> FALSE]]
    /\ UNCHANGED <<page, watch, wire, srv, log, cache, past>>

\* The message was sent: the refresh, and the token until it is through.
SendDone(s) ==
    LET a == send[s].to
    IN  /\ send[s].phase = "posting"
        /\ cache' = Refreshed({a}) /\ past' = Answered({a})
        /\ send' = [send EXCEPT ![s].phase = "settling"]
        /\ UNCHANGED <<page, watch, wire, srv, log, spent>>

\* Mutant: a failed send forgets the wake it took over.
Replays_Never(t) == FALSE

Replays(t) == t.deferred

\* The POST failed: a wake the token took over is replayed.
SendFailed(s) ==
    LET a == send[s].to
    IN  /\ send[s].phase = "posting" /\ Act
        /\ send' = [send EXCEPT ![s] = NoSend]
        /\ IF Replays(send[s]) THEN cache' = Refreshed({a}) /\ past' = Answered({a})
                               ELSE UNCHANGED <<cache, past>>
        /\ UNCHANGED <<page, watch, wire, srv, log>>

\* The refresh of a sent message is through: the token goes.
SendSettled(s) ==
    /\ send[s].phase = "settling" /\ cache[send[s].to].fetch = "no"
    /\ send' = [send EXCEPT ![s] = NoSend]
    /\ UNCHANGED <<page, watch, wire, srv, log, cache, past, spent>>

----------------------------------------------------------------------------
\* The events of the stream, in their order.

Took(e) == wire # <<>> /\ Head(wire)[1] = e /\ wire' = Tail(wire)

OnHello ==
    /\ Took("hello")
    /\ page' = Hello(page)
    /\ UNCHANGED <<watch, srv, log, cache, send, past, spent>>

\* subscribed and entry: a refresh after the burst timer.
OnSubscribed ==
    /\ Took("subscribed")
    /\ page' = [page EXCEPT !.burst = @ \cup Head(wire)[2]]
    /\ UNCHANGED <<watch, srv, log, cache, send, past, spent>>

OnEntry ==
    /\ Took("entry")
    /\ page' = [page EXCEPT !.burst = @ \cup Head(wire)[2]]
    /\ UNCHANGED <<watch, srv, log, cache, send, past, spent>>

\* message: a send in flight to the agent takes the refresh over, even when its
\* own has been served already.
OnMessage ==
    LET to     == Head(wire)[2] \cap page.want
        tokens == {s \in DOMAIN send : send[s].phase # "no" /\ send[s].to \in to}
    IN  /\ Took("message")
        /\ IF tokens = {}
           THEN cache' = Refreshed(to) /\ past' = Answered(to) /\ UNCHANGED send
           ELSE /\ send' = [s \in DOMAIN send |->
                              IF s \in tokens THEN [send[s] EXCEPT !.deferred = TRUE] ELSE send[s]]
                /\ past' = [past EXCEPT !.woken = @ \cup {a \in to : \/ cache[a].fetch = "asked"
                                                                \/ \E s \in tokens : send[s].phase = "posting" /\ send[s].to = a}]
                /\ UNCHANGED cache
        /\ UNCHANGED <<page, watch, srv, log, spent>>

\* rewindow: the transcript is another one.
OnRewindow ==
    LET as == Head(wire)[2]
    IN  /\ Took("rewindow")
        /\ cache' = [a \in Agents |-> IF a \in as \cap page.want THEN Reset(cache[a]) ELSE cache[a]]
        /\ past' = [past EXCEPT !.missed = (@ \ (as \cap page.want)) \cup (as \ page.want)]
        /\ UNCHANGED <<page, watch, srv, log, send, spent>>

----------------------------------------------------------------------------
\* Fetches of transcripts.

FetchServed(a) ==
    /\ cache[a].fetch = "asked"
    /\ cache' = [cache EXCEPT ![a].fetch = "served", ![a].got = log[a]]
    /\ past' = [past EXCEPT !.woken = @ \ {a}]
    /\ UNCHANGED <<page, watch, wire, srv, log, send, spent>>

FetchDone(a) ==
    /\ cache[a].fetch = "served"
    /\ cache' = [cache EXCEPT ![a] = [known |-> TRUE, data |-> cache[a].got, stale |-> FALSE,
                                      fetch |-> "no", got |-> NoData]]
    /\ UNCHANGED <<page, watch, wire, srv, log, send, past, spent>>

\* An error is shown and stays until the next refresh: there is no retry.
FetchFailed(a) ==
    /\ cache[a].fetch = "asked" /\ Act
    /\ cache' = [cache EXCEPT ![a].fetch = "no", ![a].stale = TRUE]
    /\ past' = [past EXCEPT !.missed = @ \cup {a}, !.woken = @ \ {a}]
    /\ UNCHANGED <<page, watch, wire, srv, log, send>>

----------------------------------------------------------------------------
\* The file watch registry.

\* A panel that shows f mounts, or unmounts: the count, then the debounce.
Register(f) ==
    /\ Act
    /\ watch' = [watch EXCEPT !.refs[f] = @ + 1, !.timer = TRUE]
    /\ UNCHANGED <<page, wire, srv, log, cache, send, past>>

Release(f) ==
    /\ watch.refs[f] > 0
    /\ watch' = [watch EXCEPT !.refs[f] = @ - 1, !.timer = TRUE]
    /\ UNCHANGED <<page, wire, srv, log, cache, send, past, spent>>

\* The debounce: the page's targets change if the registered set did.
WatchTimer ==
    LET now == {f \in Files : watch.refs[f] > 0}
    IN  /\ watch.timer
        /\ watch' = [watch EXCEPT !.timer = FALSE, !.last = now]
        /\ page' = IF now = watch.last THEN page
                   ELSE [page EXCEPT !.want = (@ \cap Agents) \cup now, !.settle = TRUE]
        /\ UNCHANGED <<wire, srv, log, cache, send, past, spent>>

----------------------------------------------------------------------------
\* The server.

\* The connection is accepted with the targets of its URL; hello names it.
SrvAccept ==
    /\ page.link = "opening" /\ srv.state = "none"
    /\ srv' = [NoServer EXCEPT !.state = "up", !.follow = page.following]
    /\ wire' = <<<<"hello", {}>>>>
    /\ UNCHANGED <<page, watch, log, cache, send, past, spent>>

\* The offsets of the transcripts in `as` are held from here on.
Capture(off, as) == [a \in Agents |-> IF a \in as THEN log[a] ELSE off[a]]

Announce(w, as) == IF as = {} THEN w ELSE Append(w, <<"subscribed", as>>)

\* The first board: offsets, then subscribed.
SrvReady ==
    /\ srv.state = "up" /\ ~srv.ready
    /\ srv' = [srv EXCEPT !.ready = TRUE, !.off = Capture(@, srv.follow \cap Agents)]
    /\ wire' = Announce(wire, srv.follow \cap Agents)
    /\ UNCHANGED <<page, watch, log, cache, send, past, spent>>

\* applySubscription, handed over by the POST's handler.
SrvApply ==
    LET added == (page.post.to \ srv.follow) \cap Agents
    IN  /\ page.post.phase = "sent" /\ ~page.post.old
        /\ srv.state = "up" /\ srv.ready
        /\ srv' = [srv EXCEPT !.follow = page.post.to, !.off = Capture(@, added)]
        /\ wire' = Announce(wire, added)
        /\ page' = [page EXCEPT !.post.phase = "taken"]
        /\ UNCHANGED <<watch, log, cache, send, past, spent>>

\* The update is refused or lost: the stream is gone, or it took too long.
PostRefused ==
    /\ page.post.phase = "sent"
    /\ \/ (page.post.old \/ srv.state = "broken") /\ UNCHANGED spent
       \/ srv.state = "up" /\ Act
    /\ page' = [page EXCEPT !.post.phase = "refused"]
    /\ UNCHANGED <<watch, wire, srv, log, cache, send, past>>

\* syncTranscripts for a followed agent: another session, or what was added.
SrvSync(a) ==
    /\ srv.state = "up" /\ srv.ready /\ a \in srv.follow /\ srv.off[a] # log[a]
    /\ srv' = [srv EXCEPT !.off[a] = log[a]]
    /\ wire' = Append(wire, <<IF srv.off[a].session # log[a].session THEN "rewindow" ELSE "entry", {a}>>)
    /\ UNCHANGED <<page, watch, log, cache, send, past, spent>>

\* A message on the bus wakes every stream, at most once per entry to come.
SrvMessage(a) ==
    /\ srv.state = "up" /\ srv.ready /\ log[a].len < MaxLog
    /\ \A i \in 1..Len(wire) : wire[i][1] # "message"
    /\ Act
    /\ wire' = Append(wire, <<"message", {a}>>)
    /\ UNCHANGED <<page, watch, srv, log, cache, send, past>>

\* The connection breaks; what was on its way is lost.
Drop ==
    /\ page.link \in {"opening", "live"} /\ srv.state # "broken" /\ Act
    /\ srv' = [NoServer EXCEPT !.state = "broken"] /\ wire' = <<>>
    /\ UNCHANGED <<page, watch, log, cache, send, past>>

\* The agent writes an entry, or starts another session.
Write(a) ==
    /\ \/ log[a].len < MaxLog /\ log' = [log EXCEPT ![a].len = @ + 1]
       \/ log[a].session < MaxSession
          /\ log' = [log EXCEPT ![a] = [session |-> @.session + 1, len |-> 0]]
    /\ UNCHANGED <<page, watch, wire, srv, cache, send, past, spent>>

----------------------------------------------------------------------------
Init ==
    /\ \E want \in SUBSET Agents : \E seen \in SUBSET want :
         /\ page = Connect([link |-> "none", hello |-> FALSE, want |-> want, following |-> {},
                            seen |-> seen, settle |-> FALSE, connecting |-> FALSE,
                            banner |-> TRUE, burst |-> {}, post |-> NoPost])
         /\ cache = [a \in Agents |-> IF a \in seen THEN Mounted(NoQuery) ELSE NoQuery]
    /\ watch = [refs |-> [f \in Files |-> 0], timer |-> FALSE, last |-> {}]
    /\ wire = <<>> /\ srv = NoServer
    /\ log = [a \in Agents |-> [session |-> 1, len |-> 0]]
    /\ send = [s \in Sends |-> NoSend]
    /\ past = [missed |-> {}, woken |-> {}, unposted |-> FALSE]
    /\ spent = 0

\* What the page and the server do of themselves.
Progress ==
    \/ Settle \/ ConnectingTimer \/ LinkLost \/ ReconnectTimer \/ PostAnswered \/ WatchTimer
    \/ OnHello \/ OnSubscribed \/ OnEntry \/ OnMessage \/ OnRewindow
    \/ SrvAccept \/ SrvReady \/ SrvApply
    \/ \E a \in Agents : BurstTimer(a) \/ FetchServed(a) \/ FetchDone(a) \/ SrvSync(a)
    \/ \E s \in Sends : SendDone(s) \/ SendSettled(s)
    \/ PostRefused

\* What users, agents and faults do.
Environment ==
    \/ \E want \in SUBSET Agents : \E seen \in SUBSET want : Update(want, seen)
    \/ \E f \in Files : Register(f) \/ Release(f)
    \/ \E s \in Sends, a \in Agents : BeginSend(s, a)
    \/ \E s \in Sends : SendFailed(s)
    \/ \E a \in Agents : FetchFailed(a) \/ SrvMessage(a) \/ Write(a)
    \/ Drop

Next == Progress \/ Environment

Spec == Init /\ [][Next]_vars

----------------------------------------------------------------------------
\* Properties.

TypeOK ==
    /\ page \in [link : {"opening", "live", "waiting"}, hello : BOOLEAN, want : SUBSET Targets,
                 following : SUBSET Targets, seen : SUBSET Agents, settle : BOOLEAN,
                 connecting : BOOLEAN, banner : BOOLEAN, burst : SUBSET Agents,
                 post : [phase : {"none", "sent", "taken", "refused"}, old : BOOLEAN, to : SUBSET Targets]]
    /\ srv.follow \subseteq Targets
    /\ \A a \in Agents : cache[a].data \in Place \cup {NoData} /\ log[a] \in Place
    /\ \A a \in Agents : cache[a].known \/ cache[a] = NoQuery

\* Nothing is left to do for the page, the server or a fetch.
Still == ~ENABLED Progress

\* A page that came to rest has a live stream without a banner, which follows
\* what the page wants and watches what its panels registered, unless an update
\* of a lost connection was answered after the new one said hello: that answer
\* and the hello each leave the update to the other.  (useFleetStream.ts,
\* retarget and the hello handler)
StillFollows ==
    (Still /\ ~past.unposted) =>
       /\ page.link = "live" /\ ~page.banner
       /\ srv.follow = page.want /\ page.following = page.want
       /\ page.want \cap Files = {f \in Files : watch.refs[f] > 0}

\* A page that came to rest shows and keeps every wanted transcript as the
\* agent wrote it, unless a refresh was lost: skipped for a name that was not
\* wanted for a moment, joined to the first load, or failed.
StillFresh ==
    (Still /\ ~past.unposted) =>
       \A a \in (page.want \cap Agents) \ past.missed :
          cache[a].data = log[a] \/ (cache[a].data = NoData /\ a \notin page.seen)

\* A message wake that a send took over while it posts, or while its refresh
\* waits to be served, is not forgotten, whether the send succeeds or fails:
\* until a fetch is served after the wake, one is asked for or the send
\* remembers it.  Left out are a fetch that failed, a transcript pruned or
\* never read, a refresh the first load swallows, and a wake the send takes
\* over once its refresh was served, which it drops: that transcript is behind
\* until the event of the entry itself, and StillFresh does not excuse it.
\* (sendRefresh.ts, deferMessageRefresh and settleSendRefresh)
WakeAnswered ==
    \A a \in past.woken :
        \/ cache[a].fetch = "asked"
        \/ \E s \in Sends : send[s].phase = "posting" /\ send[s].to = a /\ send[s].deferred
=============================================================================
