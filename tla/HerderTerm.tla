----------------------------- MODULE HerderTerm -----------------------------
(***************************************************************************)
(* The herdr view: one herdr client for a browser (herdr/herdrSocket.ts),   *)
(* shown by a terminal that renders on demand (herdr/ghosttySurface.ts) and *)
(* made to follow the agent the page is on (herdr/HerdrView.tsx), over a    *)
(* WebSocket whose other end runs the client in a PTY.                      *)
(*                                                                         *)
(* Every callback of the page is one step, written as a function of the     *)
(* page's record.  React's effects run in the step that changed what they   *)
(* depend on.                                                               *)
(***************************************************************************)
EXTENDS Integers, FiniteSets, Sequences

CONSTANTS
    Panes,      \* herdr panes agents show in
    NoPane,     \* no agent, or an agent without a visible pane
    Sizes,      \* grids the host may have
    NoSize,     \* before the first fit
    MaxSockets, \* bound on sockets opened
    Moves       \* bound on flips, resizes, target changes and writes, together

ASSUME TermAssumption ==
    /\ NoPane \notin Panes /\ NoSize \notin Sizes
    /\ MaxSockets \in Nat \ {0} /\ Moves \in Nat

VARIABLES
    page,  \* the view, its socket and its terminal
    up,    \* frames from the page's socket to the server
    down,  \* notices and output from the server to the page's socket
    pty,   \* the client behind the page's socket
    moves

vars == <<page, up, down, pty, moves>>

NoClient == [size |-> NoSize, shows |-> NoPane, failed |-> NoPane]

----------------------------------------------------------------------------
\* The terminal: at most one render a frame, and only when something changed.

\* request of renderOnDemand; `dirty` is what the screen lacks.
Request(p) == [p EXCEPT !.frame = p.shown]

Changed(p) == Request([p EXCEPT !.dirty = TRUE])

\* blink: the timer runs only while asked to blink and shown.
Blink(p) == [p EXCEPT !.blink = p.focused /\ p.shown]

\* setVisible: hidden, no frame and no timer; shown, one full render.
SetVisible(p, visible) ==
    IF visible = p.shown THEN p
    ELSE LET q == Blink([p EXCEPT !.shown = visible, !.frame = @ /\ visible])
         IN  IF visible THEN Request(q) ELSE q

\* focusin and focusout of paintCaret.
Focus(p, on) == Request(Blink([p EXCEPT !.focused = on]))

----------------------------------------------------------------------------
\* The socket.

IsOpen(p) == p.cur # 0 /\ p.life[p.cur] = "open"

\* onConnection: a new client repaints everything and is told the pane again.
Set(p, connection) ==
    LET q == [p EXCEPT !.connection = connection,
                       !.sent = IF connection \in {"connecting", "reconnecting"} THEN NoPane ELSE @]
    IN  IF connection = "connecting" THEN Changed(q) ELSE q

\* open: the URL carries the size, if it is known.
OpenSocket(p) ==
    LET n == Cardinality({i \in 1..MaxSockets : p.life[i] # "unused"}) + 1
        q == Set([p EXCEPT !.exited = FALSE], IF p.attempt = 0 THEN "connecting" ELSE "reconnecting")
    IN  [q EXCEPT !.life[n] = "opening", !.cur = n, !.asked = p.size]

\* close: timers are cancelled, the socket is let go.
CloseSocket(p, next) ==
    LET q == [p EXCEPT !.grace = FALSE, !.retry = FALSE, !.cur = 0]
    IN  Set(IF p.cur = 0 THEN q ELSE [q EXCEPT !.life[p.cur] = "closed"], next)

\* Mutant: a reconnect that is scheduled does not stop an attach.
Attach_AnyRetry(p) ==
    LET q == [p EXCEPT !.grace = FALSE]
    IN  IF q.cur # 0 THEN q ELSE OpenSocket([q EXCEPT !.attempt = 0])

\* attach: a live client, or one about to be retried, is kept.
Attach(p) ==
    LET q == [p EXCEPT !.grace = FALSE]
    IN  IF q.cur # 0 \/ q.retry THEN q ELSE OpenSocket([q EXCEPT !.attempt = 0])

Detach(p) == [p EXCEPT !.grace = TRUE]

\* fit and resize: what is known is not sent again, what cannot be sent now goes
\* with the opening of the socket; a terminal that is resized asks for a frame
\* (ghosttySurface.ts:96-103 and 226).
Resize(p) ==
    IF p.size = p.grid THEN p
    ELSE LET q == Changed([p EXCEPT !.size = p.grid])
         IN  IF IsOpen(q) THEN [q EXCEPT !.out = Append(@, <<"resize", p.grid>>)] ELSE q

\* Mutant: a pane once sent is not sent to the next client.
ShouldFollow_Ever(p) ==
    /\ p.open /\ p.follow /\ p.connection = "live"
    /\ p.target # NoPane /\ p.target # p.last

\* shouldFollow
ShouldFollow(p) ==
    /\ p.open /\ p.follow /\ p.connection = "live"
    /\ p.target # NoPane /\ p.target # p.sent

\* The effect that follows: one frame a new target.
Follow(p) ==
    IF ShouldFollow(p) /\ IsOpen(p)
    THEN [p EXCEPT !.out = Append(@, <<"focus", p.target>>), !.sent = p.target, !.last = p.target]
    ELSE p

\* The effect of `open`: size first, then the client, then the keys.
Shown(p) ==
    LET q == SetVisible(p, p.open)
    IN  IF ~p.open THEN q ELSE Focus(Attach(Resize(q)), TRUE)

----------------------------------------------------------------------------
\* Steps.  A callback's record carries the frames it sends in `out`.

Become(p) ==
    /\ page' = [p EXCEPT !.out = <<>>]
    /\ up' = IF p.cur = page.cur THEN up \o p.out ELSE <<>>
    /\ down' = IF p.cur = page.cur THEN down ELSE <<>>
    /\ pty' = IF p.cur = page.cur THEN pty ELSE NoClient

Move == moves < Moves /\ moves' = moves + 1

Room == \E i \in 1..MaxSockets : page.life[i] = "unused"

\* The terminal loaded: the client exists from here on.
Loaded ==
    /\ ~page.ready /\ Room
    /\ Become(Follow(Shown([page EXCEPT !.ready = TRUE])))
    /\ UNCHANGED moves

\* The owner flips to the view, or leaves it: focus goes with it.
Flip ==
    LET p == [page EXCEPT !.open = ~@]
    IN  /\ Room /\ Move
        /\ Become(IF ~p.ready THEN p
                  ELSE IF p.open THEN Follow(Shown(p))
                  ELSE Focus(Shown(Detach(p)), FALSE))

\* The page is on another agent; the follow box is ticked or cleared.
Target(pane) ==
    /\ pane # page.target /\ Move
    /\ Become(Follow([page EXCEPT !.target = pane]))

ToggleFollow ==
    /\ page.open /\ Move
    /\ Become(Follow([page EXCEPT !.follow = ~@, !.sent = NoPane]))

\* The host's size changes; it is observed while open, and the fit debounced.
HostSized(size) ==
    /\ size # page.grid /\ Move
    /\ page' = [page EXCEPT !.grid = size, !.fit = @ \/ page.open]
    /\ UNCHANGED <<up, down, pty>>

FitTimer ==
    /\ page.fit
    /\ Become(LET p == [page EXCEPT !.fit = FALSE] IN IF p.ready THEN Resize(p) ELSE p)
    /\ UNCHANGED moves

\* requestAnimationFrame: what changed since the last render is on the screen.
Paint ==
    /\ page.frame
    /\ page' = [page EXCEPT !.frame = FALSE, !.dirty = FALSE]
    /\ UNCHANGED <<up, down, pty, moves>>

GraceTimer ==
    /\ page.grace
    /\ Become(CloseSocket([page EXCEPT !.grace = FALSE], "idle"))
    /\ UNCHANGED moves

RetryTimer ==
    /\ page.retry /\ Room
    /\ Become(OpenSocket([page EXCEPT !.retry = FALSE]))
    /\ UNCHANGED moves

\* The Reconnect button, there once the client has ended.
Reconnect ==
    /\ page.open /\ page.connection = "ended" /\ Room /\ Move
    /\ Become(OpenSocket([CloseSocket(page, "idle") EXCEPT !.attempt = 0]))

\* The view is unmounted: dispose, and nothing of it acts again.
Unmount ==
    /\ page.ready /\ Move
    /\ Become([CloseSocket(SetVisible(page, FALSE), "idle") EXCEPT
                  !.open = FALSE, !.fit = FALSE, !.focused = FALSE, !.blink = FALSE, !.gone = TRUE])

\* The socket opened: the size is sent again, in case the view was resized.
SocketOpen ==
    LET p == [page EXCEPT !.life[page.cur] = "open", !.attempt = 0]
        q == IF p.size = NoSize THEN p ELSE [p EXCEPT !.out = Append(@, <<"resize", p.size>>)]
    IN  /\ page.cur # 0 /\ page.life[page.cur] = "opening"
        /\ page' = [Follow(Set(q, "live")) EXCEPT !.out = <<>>]
        /\ up' = Follow(Set(q, "live")).out
        /\ pty' = [NoClient EXCEPT !.size = page.asked]
        /\ UNCHANGED <<down, moves>>

\* Mutant: a client that exited is opened again after a while.
AfterClose_Retry(p) == Set([p EXCEPT !.retry = TRUE, !.attempt = 1], "reconnecting")

\* onclose: a client that exited waits for the owner, a drop is retried.
AfterClose(p) ==
    IF p.exited THEN Set(p, "ended")
    ELSE Set([p EXCEPT !.retry = TRUE, !.attempt = 1], "reconnecting")

SocketLost ==
    /\ page.cur # 0 /\ Move
    /\ Become(AfterClose([page EXCEPT !.life[page.cur] = "closed", !.cur = 0]))

\* What comes down: output asks for a render, notices are taken in order.
Receive ==
    LET e == Head(down)[1]
    IN  /\ down # <<>> /\ down' = Tail(down)
        /\ page' = CASE e = "output" -> Changed(page)
                     [] e = "exit"   -> [page EXCEPT !.exited = TRUE]
                     [] e = "focused" -> [page EXCEPT !.problem = FALSE]
                     [] e = "focus_failed" -> [page EXCEPT !.problem = TRUE]
        /\ UNCHANGED <<up, pty, moves>>

\* After the exit notice the server closes the socket.
SocketEnded ==
    /\ page.exited /\ page.cur # 0 /\ down = <<>>
    /\ Become(AfterClose([page EXCEPT !.life[page.cur] = "closed", !.cur = 0]))
    /\ UNCHANGED moves

\* The server: control frames in order; a pane herdr does not report fails.
Serve ==
    /\ up # <<>> /\ up' = Tail(up)
    /\ \/ /\ Head(up)[1] = "resize"
          /\ pty' = [pty EXCEPT !.size = Head(up)[2]] /\ UNCHANGED down
       \/ /\ Head(up)[1] = "focus"
          /\ \/ /\ pty' = [pty EXCEPT !.shows = Head(up)[2], !.failed = NoPane]
                /\ down' = Append(down, <<"focused">>)
             \/ /\ pty' = [pty EXCEPT !.failed = Head(up)[2]]
                /\ down' = Append(down, <<"focus_failed">>)
    /\ UNCHANGED <<page, moves>>

\* The client writes to its screen, or exits by itself.
Output ==
    /\ IsOpen(page) /\ Move
    /\ down' = Append(down, <<"output">>)
    /\ UNCHANGED <<page, up, pty>>

Exit ==
    /\ IsOpen(page) /\ Move /\ ~page.exited /\ (\A i \in 1..Len(down) : down[i] # <<"exit">>)
    /\ down' = Append(down, <<"exit">>)
    /\ UNCHANGED <<page, up, pty>>

----------------------------------------------------------------------------
Init ==
    /\ \E grid \in Sizes, target \in Panes \cup {NoPane} :
         page = [open |-> TRUE, ready |-> FALSE, gone |-> FALSE, follow |-> TRUE, target |-> target,
                 sent |-> NoPane, last |-> NoPane, problem |-> FALSE, grid |-> grid, fit |-> FALSE,
                 connection |-> "idle", cur |-> 0, life |-> [i \in 1..MaxSockets |-> "unused"],
                 asked |-> NoSize, attempt |-> 0, retry |-> FALSE, grace |-> FALSE, size |-> NoSize,
                 exited |-> FALSE, shown |-> TRUE, frame |-> FALSE, focused |-> FALSE,
                 blink |-> FALSE, dirty |-> FALSE, out |-> <<>>]
    /\ up = <<>> /\ down = <<>> /\ pty = NoClient /\ moves = 0

Progress ==
    /\ ~page.gone
    /\ \/ Loaded \/ FitTimer \/ Paint \/ GraceTimer \/ RetryTimer \/ SocketOpen
       \/ Receive \/ SocketEnded \/ Serve

Next ==
    \/ Progress
    \/ /\ ~page.gone
       /\ \/ Flip \/ ToggleFollow \/ Reconnect \/ Unmount \/ SocketLost \/ Output \/ Exit
          \/ \E pane \in Panes \cup {NoPane} : Target(pane)
          \/ \E size \in Sizes : HostSized(size)

Spec == Init /\ [][Next]_vars

----------------------------------------------------------------------------
\* Properties.

\* Nothing of the page or the server is left to do, and a socket could be opened.
Still ==
    /\ Room /\ page.ready /\ ~page.fit /\ ~page.frame /\ ~page.grace /\ ~page.retry
    /\ page.cur # 0 => page.life[page.cur] = "open" /\ ~page.exited
    /\ up = <<>> /\ down = <<>>

\* One herdr client a browser: whatever the owner, the timers and the network
\* do, at most one socket is not let go, and none that the view forgot.
\* (herdrSocket.ts, the comment on HerdrSocket)
OneClient ==
    \A i \in 1..MaxSockets : page.life[i] \in {"opening", "open"} => i = page.cur /\ ~page.retry

\* What a client's exit waits for: coming back to the view, or the Reconnect
\* button.
AskedAgain == (page'.open /\ ~page.open) \/ Reconnect

\* A client that exited is replaced only when the owner asks: no timer, lost
\* socket or resize opens another.  (herdrSocket.ts:28-31)
EndedWaits == [][page.exited /\ ~page'.exited => AskedAgain]_vars

\* A page at rest shows what it should: the PTY has the host's grid, herdr was
\* asked for the agent the page is on, every change is on the screen, and while
\* the view is away no client is kept and nothing is rendered or timed.
\* (HerdrView.tsx effects; renderOnDemand of ghosttySurface.ts)
AtRest ==
    (Still /\ ~page.gone) =>
       /\ page.open => /\ ~page.dirty
                       /\ page.connection \in {"live", "ended"}
                       /\ page.connection = "live" =>
                            /\ pty.size = page.grid
                            /\ (page.follow /\ page.target # NoPane) =>
                                 /\ page.target \in {pty.shows, pty.failed}
                                 /\ page.problem = (pty.failed = page.target)
       /\ ~page.open => page.cur = 0 /\ ~page.frame /\ ~page.blink
=============================================================================
