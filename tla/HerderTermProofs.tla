------------------------- MODULE HerderTermProofs -------------------------
(***************************************************************************)
(* Theorems about HerderTerm: one herdr client a browser, a client that     *)
(* exited stays away until the owner asks for another, and a page at rest   *)
(* shows what it should.                                                    *)
(*                                                                         *)
(* The invariant that carries the first two is about the sockets: they are  *)
(* used in order, the current one is live and no other is, a retry is       *)
(* scheduled only while there is none, and nothing travels while there is   *)
(* none.  The last has one of its own (RInv), on what is under way.  A      *)
(* helper of a callback has a lemma that says what it leaves alone of each. *)
(***************************************************************************)
EXTENDS HerderTerm, FiniteSetTheorems, TLAPS

Lives == {"unused", "opening", "open", "closed"}

Notices == {<<"output">>, <<"exit">>, <<"focused">>, <<"focus_failed">>}

\* What the sockets' state is made of, and who reads it.
Fields == {"life", "cur", "retry", "exited", "ready", "open", "out", "connection"}

Page(p) ==
    /\ Fields \subseteq DOMAIN p
    /\ p.cur \in 0..MaxSockets
    /\ p.life \in [1..MaxSockets -> Lives]

Live(p, i) == p.life[i] \in {"opening", "open"}

\* Sockets are used in order.
InOrder(p) ==
    \E k \in 0..MaxSockets : \A i \in 1..MaxSockets : p.life[i] # "unused" <=> i <= k

\* The current socket is live, no other is, and none is while a retry waits.
OneLive(p) ==
    /\ p.cur # 0 => Live(p, p.cur)
    /\ \A i \in 1..MaxSockets : Live(p, i) => i = p.cur /\ ~p.retry

\* Once a client exited no retry is scheduled, and nothing of the socket is so
\* before the terminal is loaded.
ExitWaits(p) ==
    /\ p.exited => ~p.retry
    /\ p.cur # 0 \/ p.retry \/ p.exited => p.ready

\* Frames are sent on an open socket only.
SentOpen(p) == p.out # <<>> => IsOpen(p)

Sound(p) == Page(p) /\ InOrder(p) /\ OneLive(p) /\ ExitWaits(p) /\ SentOpen(p)

\* The inductive invariant.
IInv ==
    /\ Sound(page) /\ page.out = <<>>
    /\ down \in Seq(Notices)
    /\ page.cur = 0 => up = <<>> /\ down = <<>>

\* No client has ended before the terminal is loaded.
Early == ~page.ready => page.connection # "ended"

\* q is p but for what its sockets do not depend on.
Alike(p, q) ==
    /\ Fields \subseteq DOMAIN q
    /\ q.life = p.life /\ q.cur = p.cur /\ q.retry = p.retry
    /\ q.exited = p.exited /\ q.ready = p.ready /\ q.open = p.open /\ q.out = p.out

\* So it is, and it may have sent a frame as well.
AlikeButSent(p, q) ==
    /\ Fields \subseteq DOMAIN q
    /\ q.life = p.life /\ q.cur = p.cur /\ q.retry = p.retry
    /\ q.exited = p.exited /\ q.ready = p.ready /\ q.open = p.open
    /\ q.out # p.out => IsOpen(p)

----------------------------------------------------------------------------
\* What the callbacks' helpers leave alone.

LEMMA AlikeSound ==
    ASSUME NEW p, NEW q, AlikeButSent(p, q), Sound(p)
    PROVE  Sound(q)
BY DEF AlikeButSent, Sound, Page, InOrder, OneLive, Live, ExitWaits, SentOpen, IsOpen

LEMMA AlikeChain ==
    ASSUME NEW p, NEW q, NEW r
    PROVE  /\ Alike(p, q) => AlikeButSent(p, q)
           /\ Alike(p, q) /\ Alike(q, r) => Alike(p, r)
           /\ AlikeButSent(p, q) /\ AlikeButSent(q, r) => AlikeButSent(p, r)
BY DEF Alike, AlikeButSent, IsOpen

LEMMA ScreenAlike ==
    ASSUME NEW p, Fields \subseteq DOMAIN p, NEW b
    PROVE  /\ Alike(p, Request(p)) /\ Alike(p, Changed(p)) /\ Alike(p, Blink(p))
           /\ Alike(p, SetVisible(p, b)) /\ Alike(p, Focus(p, b))
<1>1. \A r : Fields \subseteq DOMAIN r => Alike(r, Request(r)) /\ Alike(r, Blink(r))
  BY DEF Request, Blink, Fields, Alike
<1>2. Alike(p, Changed(p))
  <2>1. Alike(p, [p EXCEPT !.dirty = TRUE])
    BY DEF Fields, Alike
  <2> QED BY <1>1, <2>1, AlikeChain DEF Changed, Alike
<1>3. Alike(p, SetVisible(p, b))
  <2> DEFINE r == [p EXCEPT !.shown = b, !.frame = @ /\ b]
  <2>1. Alike(p, r)
    BY DEF Fields, Alike
  <2> HIDE DEF r
  <2>2. Alike(p, Blink(r)) /\ Alike(p, Request(Blink(r)))
    BY <1>1, <2>1, AlikeChain DEF Alike
  <2>3. Alike(p, p)
    BY DEF Alike
  <2> QED BY <2>2, <2>3 DEF SetVisible, r
<1>4. Alike(p, Focus(p, b))
  <2> DEFINE r == [p EXCEPT !.focused = b]
  <2>1. Alike(p, r)
    BY DEF Fields, Alike
  <2> HIDE DEF r
  <2>2. Alike(p, Request(Blink(r)))
    BY <1>1, <2>1, AlikeChain DEF Alike
  <2> QED BY <2>2 DEF Focus, r
<1> QED BY <1>1, <1>2, <1>3, <1>4

LEMMA SetAlike ==
    ASSUME NEW p, Fields \subseteq DOMAIN p, NEW c
    PROVE  Alike(p, Set(p, c))
<1> DEFINE r == [p EXCEPT !.connection = c,
                          !.sent = IF c \in {"connecting", "reconnecting"} THEN NoPane ELSE @]
<1>1. Alike(p, r)
  BY DEF Fields, Alike
<1> HIDE DEF r
<1>2. Alike(p, Changed(r))
  BY <1>1, ScreenAlike, AlikeChain DEF Alike
<1> QED BY <1>1, <1>2 DEF Set, r

\* Following and resizing send a frame, on an open socket.
LEMMA SendsAlike ==
    ASSUME NEW p, Fields \subseteq DOMAIN p
    PROVE  AlikeButSent(p, Follow(p)) /\ AlikeButSent(p, Resize(p))
<1>1. AlikeButSent(p, p)
  BY DEF AlikeButSent
<1>2. AlikeButSent(p, Follow(p))
  <2> DEFINE q == [p EXCEPT !.out = Append(@, <<"focus", p.target>>), !.sent = p.target, !.last = p.target]
  <2>1. IsOpen(p) => AlikeButSent(p, q)
    BY DEF Fields, AlikeButSent
  <2> HIDE DEF q
  <2> QED BY <1>1, <2>1 DEF Follow, q
<1>3. AlikeButSent(p, Resize(p))
  <2> DEFINE a == [p EXCEPT !.size = p.grid]
             q == Changed(a)
             r == [q EXCEPT !.out = Append(@, <<"resize", p.grid>>)]
  <2>1. Alike(p, q)
    <3>1. Alike(p, a)
      BY DEF Fields, Alike
    <3> HIDE DEF a
    <3>2. Alike(a, Changed(a))
      BY <3>1, ScreenAlike DEF Alike
    <3> QED BY <3>1, <3>2, AlikeChain
  <2> HIDE DEF q
  <2>2. IsOpen(q) => AlikeButSent(q, r)
    BY <2>1 DEF Fields, Alike, AlikeButSent
  <2> HIDE DEF r
  <2>3. Resize(p) = IF p.size = p.grid THEN p ELSE IF IsOpen(q) THEN r ELSE q
    BY DEF Resize, q, r
  <2> QED BY <1>1, <2>1, <2>2, <2>3, AlikeChain
<1> QED BY <1>2, <1>3

\* A socket is opened where none is: the first one not used yet.
LEMMA OpenSound ==
    ASSUME NEW p, Sound(p), p.cur = 0, ~p.retry, p.ready,
           NEW m \in 1..MaxSockets, p.life[m] = "unused"
    PROVE  LET q == OpenSocket(p) IN
           /\ Sound(q) /\ q.cur \in 1..MaxSockets /\ p.life[q.cur] = "unused"
           /\ ~q.exited /\ ~q.retry /\ q.ready = p.ready /\ q.open = p.open /\ q.out = p.out
<1> DEFINE used == {i \in 1..MaxSockets : p.life[i] # "unused"}
           n == Cardinality(used) + 1
           a == [p EXCEPT !.exited = FALSE]
           b == Set(a, IF p.attempt = 0 THEN "connecting" ELSE "reconnecting")
           q == [b EXCEPT !.life[n] = "opening", !.cur = n, !.asked = p.size]
<1>1. PICK k \in 0..MaxSockets : \A i \in 1..MaxSockets : p.life[i] # "unused" <=> i <= k
  BY DEF Sound, InOrder
<1>2. MaxSockets \in Nat /\ k \in Nat /\ k \in Int /\ k < m /\ k + 1 \in 1..MaxSockets
  BY <1>1, TermAssumption
<1>3. n = k + 1
  <2>1. used = 1..k
    BY <1>1, <1>2
  <2>2. Cardinality(1..k) = IF 1 > k THEN 0 ELSE k - 1 + 1
    BY FS_Interval, <1>2, 1 \in Int, Zenon
  <2>3. Cardinality(1..k) = k
    BY <1>2, <2>2
  <2> QED BY <2>1, <2>3
<1>4. p.life[n] = "unused" /\ n \in 1..MaxSockets
  BY <1>1, <1>2, <1>3
<1> HIDE DEF n
<1>5. /\ Fields \subseteq DOMAIN a /\ ~a.exited /\ a.life = p.life /\ a.cur = p.cur
      /\ a.ready = p.ready /\ a.open = p.open /\ a.out = p.out /\ a.retry = p.retry
  BY DEF Sound, Page, Fields
<1> HIDE DEF a
<1>6. Alike(a, b)
  BY <1>5, SetAlike
<1> HIDE DEF b
<1>7. /\ Fields \subseteq DOMAIN q /\ q.life = [p.life EXCEPT ![n] = "opening"] /\ q.cur = n
      /\ ~q.exited /\ ~q.retry /\ q.ready = p.ready /\ q.open = p.open /\ q.out = p.out
  BY <1>5, <1>6 DEF Alike, Fields
<1>8. OpenSocket(p) = q
  BY DEF OpenSocket, n, b, a
<1> HIDE DEF q
<1>9. Page(q) /\ \A i \in 1..MaxSockets : q.life[i] = IF i = n THEN "opening" ELSE p.life[i]
  <2>1. p.life \in [1..MaxSockets -> Lives] /\ "opening" \in Lives /\ n \in 0..MaxSockets
    BY <1>2, <1>4 DEF Sound, Page, Lives
  <2> HIDE DEF Lives
  <2> QED BY <1>4, <1>7, <2>1 DEF Page
<1>10. InOrder(q)
  <2>1. \A i \in 1..MaxSockets : q.life[i] # "unused" <=> i <= k + 1
    BY <1>1, <1>2, <1>3, <1>9
  <2>2. k + 1 \in 0..MaxSockets
    BY <1>2
  <2> QED BY <2>1, <2>2 DEF InOrder
<1>11. OneLive(q)
  BY <1>4, <1>7, <1>9 DEF OneLive, Live, Sound
<1>12. SentOpen(q) /\ ExitWaits(q)
  BY <1>7 DEF SentOpen, ExitWaits, Sound, IsOpen
<1> QED BY <1>4, <1>7, <1>8, <1>9, <1>10, <1>11, <1>12 DEF Sound

LEMMA ClosedLife ==
    ASSUME NEW f \in [1..MaxSockets -> Lives], NEW c \in 0..MaxSockets
    PROVE  LET g == IF c = 0 THEN f ELSE [f EXCEPT ![c] = "closed"] IN
           /\ g \in [1..MaxSockets -> Lives]
           /\ \A i \in 1..MaxSockets : g[i] = IF i = c THEN "closed" ELSE f[i]
<1>1. CASE c = 0
  BY <1>1
<1>2. CASE c # 0
  <2>1. c \in 1..MaxSockets /\ "closed" \in Lives
    BY <1>2, TermAssumption DEF Lives
  <2> HIDE DEF Lives
  <2> QED BY <1>2, <2>1
<1> QED BY <1>1, <1>2

\* A socket is let go: after it there is none, and nothing was sent.
LEMMA CloseSound ==
    ASSUME NEW p, Sound(p), p.out = <<>>, NEW next
    PROVE  LET q == CloseSocket(p, next) IN
           /\ Sound(q) /\ q.cur = 0 /\ ~q.retry /\ q.out = <<>>
           /\ q.exited = p.exited /\ q.ready = p.ready /\ q.open = p.open
           /\ \A i \in 1..MaxSockets : q.life[i] = "unused" <=> p.life[i] = "unused"
<1> DEFINE r == [p EXCEPT !.grace = FALSE, !.retry = FALSE, !.cur = 0]
           t == IF p.cur = 0 THEN r ELSE [r EXCEPT !.life[p.cur] = "closed"]
<1>1. /\ Fields \subseteq DOMAIN r /\ ~r.retry /\ r.cur = 0 /\ r.life = p.life
      /\ r.exited = p.exited /\ r.ready = p.ready /\ r.open = p.open /\ r.out = p.out
  BY DEF Sound, Page, Fields
<1> HIDE DEF r
<1>2. /\ Fields \subseteq DOMAIN t /\ ~t.retry /\ t.cur = 0
      /\ t.exited = p.exited /\ t.ready = p.ready /\ t.open = p.open /\ t.out = p.out
      /\ t.life = IF p.cur = 0 THEN p.life ELSE [p.life EXCEPT ![p.cur] = "closed"]
  BY <1>1 DEF Fields
<1>3. CloseSocket(p, next) = Set(t, next)
  BY DEF CloseSocket, t, r
<1> HIDE DEF t
<1>4. \A i \in 1..MaxSockets : t.life[i] = IF i = p.cur THEN "closed" ELSE p.life[i]
  BY <1>2, ClosedLife DEF Sound, Page
<1>5. t.life \in [1..MaxSockets -> Lives] /\ 0 \in 0..MaxSockets
  <2>1. t.life \in [1..MaxSockets -> Lives]
    BY <1>2, ClosedLife DEF Sound, Page
  <2> QED BY <2>1, TermAssumption
<1>6. Live(p, p.cur) \/ p.cur = 0
  BY DEF Sound, OneLive
<1>7. \A i \in 1..MaxSockets : /\ ~Live(t, i)
                               /\ t.life[i] = "unused" <=> p.life[i] = "unused"
  BY <1>4, <1>6 DEF Live, Sound, OneLive
<1>8. Sound(t)
  <2>1. InOrder(t)
    BY <1>7 DEF Sound, InOrder
  <2> QED BY <1>2, <1>5, <1>7, <2>1 DEF Sound, Page, OneLive, ExitWaits, SentOpen
<1>9. Alike(t, Set(t, next))
  BY <1>2, SetAlike
<1>10. Sound(Set(t, next))
  BY <1>8, <1>9, AlikeChain, AlikeSound
<1> QED BY <1>2, <1>3, <1>7, <1>9, <1>10 DEF Alike

\* A lost socket leaves none, and a retry unless its client has exited.
LEMMA AfterCloseSound ==
    ASSUME NEW p, Sound(p), p.out = <<>>, p.cur # 0
    PROVE  LET q == AfterClose([p EXCEPT !.life[p.cur] = "closed", !.cur = 0]) IN
           Sound(q) /\ q.cur = 0 /\ q.out = <<>> /\ q.exited = p.exited /\ q.ready = p.ready
<1> DEFINE r == [p EXCEPT !.life[p.cur] = "closed", !.cur = 0]
           t == IF r.exited THEN r ELSE [r EXCEPT !.retry = TRUE, !.attempt = 1]
           c == IF r.exited THEN "ended" ELSE "reconnecting"
<1>1. /\ Fields \subseteq DOMAIN r /\ r.cur = 0 /\ r.life = [p.life EXCEPT ![p.cur] = "closed"]
      /\ r.retry = p.retry /\ r.exited = p.exited /\ r.ready = p.ready /\ r.out = p.out
  BY DEF Sound, Page, Fields
<1>2. AfterClose(r) = Set(t, c)
  BY DEF AfterClose
<1> HIDE DEF r
<1>3. /\ Fields \subseteq DOMAIN t /\ t.cur = 0 /\ t.life = r.life /\ t.exited = p.exited
      /\ t.exited => t.retry = p.retry
      /\ t.ready = p.ready /\ t.out = p.out
  BY <1>1 DEF Fields
<1> HIDE DEF t, c
<1>4. p.cur \in 1..MaxSockets /\ Live(p, p.cur)
  BY DEF Sound, Page, OneLive
<1>5. \A i \in 1..MaxSockets : t.life[i] = IF i = p.cur THEN "closed" ELSE p.life[i]
  BY <1>1, <1>3, <1>4, ClosedLife DEF Sound, Page
<1>6. t.life \in [1..MaxSockets -> Lives] /\ 0 \in 0..MaxSockets
  <2>1. t.life \in [1..MaxSockets -> Lives]
    BY <1>1, <1>3, <1>4, ClosedLife DEF Sound, Page
  <2> QED BY <2>1, TermAssumption
<1>7. \A i \in 1..MaxSockets : /\ ~Live(t, i)
                               /\ t.life[i] = "unused" <=> p.life[i] = "unused"
  BY <1>4, <1>5 DEF Live, Sound, OneLive
<1>8. Sound(t)
  <2>1. InOrder(t)
    BY <1>7 DEF Sound, InOrder
  <2>2. ExitWaits(t)
    BY <1>3 DEF Sound, ExitWaits
  <2> QED BY <1>3, <1>6, <1>7, <2>1, <2>2 DEF Sound, Page, OneLive, SentOpen
<1>9. Alike(t, Set(t, c))
  BY <1>3, SetAlike
<1>10. Sound(Set(t, c))
  BY <1>8, <1>9, AlikeChain, AlikeSound
<1>11. /\ Set(t, c).cur = 0 /\ Set(t, c).out = <<>> /\ Set(t, c).exited = p.exited
       /\ Set(t, c).ready = p.ready
  BY <1>1, <1>3, <1>9 DEF Alike
<1> QED BY <1>2, <1>10, <1>11 DEF r

\* Attaching keeps a client, and a retry that waits; else it opens a socket.
LEMMA AttachSound ==
    ASSUME NEW p, Sound(p), p.ready,
           NEW m \in 1..MaxSockets, p.life[m] = "unused"
    PROVE  LET q == Attach(p) IN Sound(q) /\ q.open = p.open /\ q.ready
<1> DEFINE q == [p EXCEPT !.grace = FALSE]
           r == [q EXCEPT !.attempt = 0]
<1>1. Alike(p, q) /\ Alike(p, r)
  BY DEF Sound, Page, Fields, Alike
<1>2. Attach(p) = IF q.cur # 0 \/ q.retry THEN q ELSE OpenSocket(r)
  BY DEF Attach
<1> HIDE DEF q, r
<1>3. Sound(q) /\ Sound(r)
  BY <1>1, AlikeChain, AlikeSound
<1>4. CASE q.cur # 0 \/ q.retry
  BY <1>1, <1>2, <1>3, <1>4 DEF Alike
<1>5. CASE ~(q.cur # 0 \/ q.retry)
  <2>1. r.cur = 0 /\ ~r.retry /\ r.ready /\ r.life[m] = "unused"
    BY <1>1, <1>5 DEF Alike
  <2>2. /\ OpenSocket(r).cur \in 1..MaxSockets /\ Sound(OpenSocket(r)) /\ OpenSocket(r).open = r.open
        /\ OpenSocket(r).ready = r.ready
    BY <1>3, <2>1, OpenSound
  <2> QED BY <1>1, <1>2, <1>5, <2>1, <2>2 DEF Alike
<1> QED BY <1>4, <1>5

\* The effect of `open`: away from the view no socket is opened.
LEMMA ShownSound ==
    ASSUME NEW p, Sound(p), p.ready, NEW m \in 1..MaxSockets, p.life[m] = "unused"
    PROVE  LET q == Shown(p) IN
           /\ Sound(q) /\ q.open = p.open /\ q.ready
           /\ ~p.open => q.exited = p.exited
<1> DEFINE a == SetVisible(p, p.open)
           b == Resize(a)
           c == Attach(b)
<1>1. Alike(p, a)
  BY ScreenAlike DEF Sound, Page
<1>2. Shown(p) = IF ~p.open THEN a ELSE Focus(c, TRUE)
  BY DEF Shown
<1> HIDE DEF a
<1>3. Sound(a)
  BY <1>1, AlikeChain, AlikeSound
<1>4. AlikeButSent(a, b)
  BY <1>3, SendsAlike DEF Sound, Page
<1> HIDE DEF b
<1>5. Sound(b)
  BY <1>3, <1>4, AlikeSound
<1>6. b.life[m] = "unused" /\ b.open = p.open /\ b.ready
  BY <1>1, <1>4 DEF Alike, AlikeButSent
<1>7. Sound(c) /\ c.open = p.open /\ c.ready
  BY <1>5, <1>6, AttachSound
<1> HIDE DEF c
<1>8. Alike(c, Focus(c, TRUE))
  BY <1>7, ScreenAlike DEF Sound, Page
<1>9. Sound(Focus(c, TRUE))
  BY <1>7, <1>8, AlikeChain, AlikeSound
<1> QED BY <1>1, <1>2, <1>3, <1>7, <1>8, <1>9 DEF Alike

LEMMA AppendNotice ==
    ASSUME NEW S, NEW s \in Seq(S), NEW e \in S
    PROVE  Append(s, e) \in Seq(S)
OBVIOUS

----------------------------------------------------------------------------
\* The steps.

\* A callback that leaves a sound page leaves the invariant.
LEMMA BecomeSound ==
    ASSUME IInv, NEW p, Sound(p), Become(p)
    PROVE  /\ IInv'
           /\ page'.exited = p.exited /\ page'.open = p.open /\ page'.ready = p.ready
<1> DEFINE q == [p EXCEPT !.out = <<>>]
<1>1. /\ Fields \subseteq DOMAIN q /\ q.out = <<>> /\ q.life = p.life /\ q.cur = p.cur
      /\ q.retry = p.retry /\ q.exited = p.exited /\ q.ready = p.ready /\ q.open = p.open
  BY DEF Sound, Page, Fields
<1>2. page' = q
  BY DEF Become
<1> HIDE DEF q
<1>3. Sound(q)
  BY <1>1 DEF Sound, Page, InOrder, OneLive, Live, ExitWaits, SentOpen
<1>4. down' \in Seq(Notices)
  BY DEF Become, IInv
<1>5. q.cur = 0 => up' = <<>> /\ down' = <<>>
  <2> SUFFICES ASSUME q.cur = 0 PROVE up' = <<>> /\ down' = <<>>
    OBVIOUS
  <2>1. p.out = <<>>
    BY <1>1 DEF Sound, SentOpen, IsOpen
  <2>2. CASE p.cur = page.cur
    <3>1. up = <<>> /\ down = <<>>
      BY <1>1, <2>2 DEF IInv
    <3>2. <<>> \o <<>> = <<>>
      OBVIOUS
    <3> QED BY <2>1, <2>2, <3>1, <3>2 DEF Become
  <2>3. CASE p.cur # page.cur
    BY <2>3 DEF Become
  <2> QED BY <2>2, <2>3
<1>6. IInv'
  <2>1. Sound(page)' /\ (page.out = <<>>)' /\ (page.cur = 0 => up = <<>> /\ down = <<>>)'
    BY <1>1, <1>2, <1>3, <1>5 DEF Sound, Page, InOrder, OneLive, Live, ExitWaits, SentOpen, IsOpen
  <2> QED BY <1>4, <2>1 DEF IInv
<1> QED BY <1>1, <1>2, <1>6

\* What EndedWaits asks of a step.
Waits == page.exited /\ ~page'.exited => AskedAgain

Kept == Waits /\ (page.ready => page'.ready)

LEMMA LoadedStep == ASSUME IInv, Loaded PROVE IInv' /\ Waits /\ page'.ready
<1> DEFINE p == [page EXCEPT !.ready = TRUE]
           q == Shown(p)
<1>1. PICK m \in 1..MaxSockets : page.life[m] = "unused"
  BY DEF Loaded, Room
<1>2. /\ Fields \subseteq DOMAIN p /\ p.life = page.life /\ p.cur = page.cur /\ p.retry = page.retry
      /\ p.exited = page.exited /\ p.ready = TRUE /\ p.out = page.out
  BY DEF IInv, Sound, Page, Fields
<1>3. ~page.exited
  BY DEF Loaded, IInv, Sound, ExitWaits
<1>4. Sound(p)
  <2> HIDE DEF p
  <2> QED BY <1>2, <1>3 DEF IInv, Sound, Page, InOrder, OneLive, Live, ExitWaits, SentOpen, IsOpen
<1>5. Become(Follow(q))
  BY DEF Loaded
<1> HIDE DEF p
<1>6. Sound(q) /\ q.ready
  BY <1>1, <1>2, <1>4, ShownSound
<1> HIDE DEF q
<1>7. Sound(Follow(q)) /\ Follow(q).ready
  BY <1>6, SendsAlike, AlikeSound DEF Sound, Page, AlikeButSent
<1> QED BY <1>3, <1>5, <1>7, BecomeSound DEF Waits

LEMMA ViewSteps ==
    ASSUME IInv, Loaded \/ Flip \/ ToggleFollow \/ \E pane \in Panes \cup {NoPane} : Target(pane)
    PROVE  IInv' /\ Kept
<1>1. CASE Loaded
  BY <1>1, LoadedStep DEF Kept
<1>2. CASE Flip
  <2> DEFINE p == [page EXCEPT !.open = ~@]
             d == Detach(p)
  <2>1. PICK m \in 1..MaxSockets : page.life[m] = "unused"
    BY <1>2 DEF Flip, Room
  <2>2. /\ Fields \subseteq DOMAIN p /\ p.life = page.life /\ p.cur = page.cur /\ p.retry = page.retry
        /\ p.exited = page.exited /\ p.ready = page.ready /\ p.out = page.out
    BY DEF IInv, Sound, Page, Fields
  <2>3. p.open <=> ~page.open
    BY DEF IInv, Sound, Page, Fields
  <2>4. Become(IF ~p.ready THEN p ELSE IF p.open THEN Follow(Shown(p)) ELSE Focus(Shown(d), FALSE))
    BY <1>2 DEF Flip
  <2>5. Alike(p, d)
    BY <2>2 DEF Detach, Fields, Alike
  <2> HIDE DEF p, d
  <2>6. Sound(p) /\ Sound(d)
    <3>1. Sound(p)
      BY <2>2 DEF IInv, Sound, Page, InOrder, OneLive, Live, ExitWaits, SentOpen, IsOpen
    <3> QED BY <2>5, <3>1, AlikeChain, AlikeSound
  <2>7. CASE ~p.ready
    BY <2>2, <2>4, <2>6, <2>7, BecomeSound DEF Kept, Waits
  <2>8. CASE p.ready /\ p.open
    <3>1. Sound(Shown(p)) /\ Shown(p).open = p.open /\ Shown(p).ready
      BY <2>1, <2>2, <2>6, <2>8, ShownSound
    <3>2. /\ Sound(Follow(Shown(p))) /\ Follow(Shown(p)).open = p.open
          /\ Follow(Shown(p)).ready
      BY <3>1, SendsAlike, AlikeSound DEF Sound, Page, AlikeButSent
    <3>3. IInv' /\ page'.open = p.open /\ page'.ready
      BY <2>4, <2>8, <3>2, BecomeSound
    <3> QED BY <2>3, <2>8, <3>3 DEF Kept, Waits, AskedAgain
  <2>9. CASE p.ready /\ ~p.open
    <3>1. Sound(Shown(d)) /\ Shown(d).exited = page.exited /\ Shown(d).ready
      <4>1. d.life[m] = "unused" /\ ~d.open /\ d.ready /\ d.exited = page.exited
        BY <2>1, <2>2, <2>5, <2>9 DEF Alike
      <4> QED BY <2>6, <4>1, ShownSound
    <3>2. Alike(Shown(d), Focus(Shown(d), FALSE))
      BY <3>1, ScreenAlike DEF Sound, Page
    <3>3. /\ Sound(Focus(Shown(d), FALSE)) /\ Focus(Shown(d), FALSE).exited = page.exited
          /\ Focus(Shown(d), FALSE).ready
      BY <3>1, <3>2, AlikeChain, AlikeSound DEF Alike
    <3> QED BY <2>4, <2>9, <3>3, BecomeSound DEF Kept, Waits
  <2> QED BY <2>7, <2>8, <2>9
<1>3. CASE ToggleFollow
  <2> DEFINE p == [page EXCEPT !.follow = ~@, !.sent = NoPane]
  <2>1. Alike(page, p)
    BY DEF IInv, Sound, Page, Fields, Alike
  <2>2. Become(Follow(p))
    BY <1>3 DEF ToggleFollow
  <2> HIDE DEF p
  <2>3. AlikeButSent(page, Follow(p))
    BY <2>1, SendsAlike, AlikeChain DEF Alike
  <2>4. Sound(Follow(p)) /\ Follow(p).exited = page.exited /\ Follow(p).ready = page.ready
    BY <2>3, AlikeSound DEF IInv, AlikeButSent
  <2> QED BY <2>2, <2>4, BecomeSound DEF Kept, Waits
<1>4. ASSUME NEW pane \in Panes \cup {NoPane}, Target(pane)
      PROVE  IInv' /\ Kept
  <2> DEFINE p == [page EXCEPT !.target = pane]
  <2>1. Alike(page, p)
    BY DEF IInv, Sound, Page, Fields, Alike
  <2>2. Become(Follow(p))
    BY <1>4 DEF Target
  <2> HIDE DEF p
  <2>3. AlikeButSent(page, Follow(p))
    BY <2>1, SendsAlike, AlikeChain DEF Alike
  <2>4. Sound(Follow(p)) /\ Follow(p).exited = page.exited /\ Follow(p).ready = page.ready
    BY <2>3, AlikeSound DEF IInv, AlikeButSent
  <2> QED BY <2>2, <2>4, BecomeSound DEF Kept, Waits
<1> QED BY <1>1, <1>2, <1>3, <1>4

LEMMA SizeSteps ==
    ASSUME IInv, FitTimer \/ Paint \/ \E size \in Sizes : HostSized(size)
    PROVE  IInv' /\ Kept
<1>1. CASE FitTimer
  <2> DEFINE p == [page EXCEPT !.fit = FALSE]
  <2>1. Alike(page, p)
    BY DEF IInv, Sound, Page, Fields, Alike
  <2>2. Become(IF p.ready THEN Resize(p) ELSE p)
    BY <1>1 DEF FitTimer
  <2> HIDE DEF p
  <2>3. AlikeButSent(page, p) /\ AlikeButSent(page, Resize(p))
    BY <2>1, SendsAlike, AlikeChain DEF Alike
  <2>4. /\ Sound(p) /\ Sound(Resize(p))
        /\ p.exited = page.exited /\ Resize(p).exited = page.exited
        /\ p.ready = page.ready /\ Resize(p).ready = page.ready
    BY <2>3, AlikeSound DEF IInv, AlikeButSent
  <2> QED BY <2>2, <2>4, BecomeSound DEF Kept, Waits
<1>2. CASE Paint
  <2>1. Alike(page, page')
    BY <1>2 DEF Paint, IInv, Sound, Page, Fields, Alike
  <2>2. Sound(page')
    BY <2>1, AlikeChain, AlikeSound DEF IInv
  <2> QED BY <1>2, <2>1, <2>2 DEF Paint, IInv, Alike, Kept, Waits, Sound, Page, InOrder, OneLive, Live, ExitWaits, SentOpen, IsOpen
<1>3. ASSUME NEW size \in Sizes, HostSized(size)
      PROVE  IInv' /\ Kept
  <2>1. Alike(page, page')
    BY <1>3 DEF HostSized, IInv, Sound, Page, Fields, Alike
  <2>2. Sound(page')
    BY <2>1, AlikeChain, AlikeSound DEF IInv
  <2> QED BY <1>3, <2>1, <2>2 DEF HostSized, IInv, Alike, Kept, Waits, Sound, Page, InOrder, OneLive, Live, ExitWaits, SentOpen, IsOpen
<1> QED BY <1>1, <1>2, <1>3

LEMMA TimerSteps ==
    ASSUME IInv, Early, GraceTimer \/ RetryTimer \/ Reconnect \/ Unmount
    PROVE  IInv' /\ Kept
<1>1. CASE GraceTimer
  <2> DEFINE p == [page EXCEPT !.grace = FALSE]
             q == CloseSocket(p, "idle")
  <2>1. Alike(page, p)
    BY DEF IInv, Sound, Page, Fields, Alike
  <2>2. Become(q)
    BY <1>1 DEF GraceTimer
  <2> HIDE DEF p
  <2>3. Sound(p) /\ p.out = <<>> /\ p.exited = page.exited /\ p.ready = page.ready
    BY <2>1, AlikeChain, AlikeSound DEF IInv, Alike
  <2>4. Sound(q) /\ q.exited = page.exited /\ q.ready = page.ready
    BY <2>3, CloseSound
  <2> QED BY <2>2, <2>4, BecomeSound DEF Kept, Waits
<1>2. CASE RetryTimer
  <2> DEFINE p == [page EXCEPT !.retry = FALSE]
  <2>1. /\ Fields \subseteq DOMAIN p /\ p.life = page.life /\ p.cur = page.cur /\ ~p.retry
        /\ p.exited = page.exited /\ p.ready = page.ready /\ p.out = page.out
    BY DEF IInv, Sound, Page, Fields
  <2>2. Become(OpenSocket(p)) /\ page.retry
    BY <1>2 DEF RetryTimer
  <2>3. PICK m \in 1..MaxSockets : page.life[m] = "unused"
    BY <1>2 DEF RetryTimer, Room
  <2> HIDE DEF p
  <2>4. Sound(p)
    BY <2>1 DEF IInv, Sound, Page, InOrder, OneLive, Live, ExitWaits, SentOpen, IsOpen
  <2>5. p.cur = 0
    <3>1. page.cur = 0 \/ page.cur \in 1..MaxSockets
      BY TermAssumption DEF IInv, Sound, Page
    <3> QED BY <2>1, <2>2, <3>1 DEF IInv, Sound, OneLive
  <2>6. p.ready /\ ~page.exited
    BY <2>1, <2>2 DEF IInv, Sound, ExitWaits
  <2>7. Sound(OpenSocket(p)) /\ OpenSocket(p).ready
    BY <2>1, <2>3, <2>4, <2>5, <2>6, OpenSound
  <2> QED BY <2>2, <2>6, <2>7, BecomeSound DEF Kept, Waits
<1>3. CASE Reconnect
  <2> DEFINE q == CloseSocket(page, "idle")
             p == [q EXCEPT !.attempt = 0]
  <2>1. Become(OpenSocket(p))
    BY <1>3 DEF Reconnect
  <2>2. PICK m \in 1..MaxSockets : page.life[m] = "unused"
    BY <1>3 DEF Reconnect, Room
  <2>3. Sound(q) /\ q.cur = 0 /\ ~q.retry /\ q.ready /\ q.life[m] = "unused"
    BY <1>3, <2>2, CloseSound DEF IInv, Early, Reconnect
  <2> HIDE DEF q
  <2>4. Alike(q, p)
    BY <2>3 DEF Sound, Page, Fields, Alike
  <2> HIDE DEF p
  <2>5. Sound(p) /\ p.cur = 0 /\ ~p.retry /\ p.ready /\ p.life[m] = "unused"
    BY <2>3, <2>4, AlikeChain, AlikeSound DEF Alike
  <2>6. Sound(OpenSocket(p)) /\ OpenSocket(p).ready
    BY <2>5, OpenSound
  <2> QED BY <1>3, <2>1, <2>6, BecomeSound DEF Kept, Waits, AskedAgain
<1>4. CASE Unmount
  <2> DEFINE v == SetVisible(page, FALSE)
             q == CloseSocket(v, "idle")
             r == [q EXCEPT !.open = FALSE, !.fit = FALSE, !.focused = FALSE, !.blink = FALSE, !.gone = TRUE]
  <2>1. Alike(page, v)
    BY ScreenAlike DEF IInv, Sound, Page
  <2>2. Become(r)
    BY <1>4 DEF Unmount
  <2> HIDE DEF v
  <2>3. Sound(v) /\ v.out = <<>> /\ v.exited = page.exited /\ v.ready = page.ready
    BY <2>1, AlikeChain, AlikeSound DEF IInv, Alike
  <2>4. Sound(q) /\ q.exited = page.exited /\ q.ready = page.ready
    BY <2>3, CloseSound
  <2> HIDE DEF q
  <2>5. /\ Fields \subseteq DOMAIN r /\ r.life = q.life /\ r.cur = q.cur /\ r.retry = q.retry
        /\ r.exited = q.exited /\ r.ready = q.ready /\ r.out = q.out
    BY <2>4 DEF Sound, Page, Fields
  <2> HIDE DEF r
  <2>6. Sound(r)
    BY <2>4, <2>5 DEF Sound, Page, InOrder, OneLive, Live, ExitWaits, SentOpen, IsOpen
  <2> QED BY <2>2, <2>4, <2>5, <2>6, BecomeSound DEF Kept, Waits
<1> QED BY <1>1, <1>2, <1>3, <1>4

LEMMA SocketSteps ==
    ASSUME IInv, SocketOpen \/ SocketLost \/ SocketEnded
    PROVE  IInv' /\ Kept
<1>1. CASE SocketOpen
  <2> DEFINE p == [page EXCEPT !.life[page.cur] = "open", !.attempt = 0]
             q == IF p.size = NoSize THEN p ELSE [p EXCEPT !.out = Append(@, <<"resize", p.size>>)]
             s == Set(q, "live")
             f == Follow(s)
  <2>1. page.cur \in 1..MaxSockets /\ page.life[page.cur] = "opening"
    BY <1>1, TermAssumption DEF SocketOpen, IInv, Sound, Page
  <2>2. page' = [f EXCEPT !.out = <<>>] /\ down' = down
    BY <1>1 DEF SocketOpen
  <2>3. /\ Fields \subseteq DOMAIN p /\ p.life = [page.life EXCEPT ![page.cur] = "open"]
        /\ p.cur = page.cur /\ p.retry = page.retry /\ p.exited = page.exited
        /\ p.ready = page.ready /\ p.open = page.open /\ p.out = page.out
    BY DEF IInv, Sound, Page, Fields
  <2> HIDE DEF p
  <2>4. /\ p.life \in [1..MaxSockets -> Lives]
        /\ \A i \in 1..MaxSockets : p.life[i] = IF i = page.cur THEN "open" ELSE page.life[i]
    <3>1. "open" \in Lives /\ page.life \in [1..MaxSockets -> Lives]
      BY DEF Lives, IInv, Sound, Page
    <3> QED BY <2>1, <2>3, <3>1
  <2>5. Sound(p) /\ IsOpen(p)
    <3>1. InOrder(p)
      BY <2>1, <2>4 DEF InOrder, IInv, Sound
    <3>2. OneLive(p)
      BY <2>1, <2>3, <2>4 DEF OneLive, Live, IInv, Sound
    <3>3. IsOpen(p)
      BY <2>1, <2>3, <2>4, TermAssumption DEF IsOpen
    <3> QED BY <2>3, <2>4, <3>1, <3>2, <3>3 DEF IInv, Sound, Page, ExitWaits, SentOpen
  <2>6. AlikeButSent(p, q)
    BY <2>5 DEF Sound, Page, Fields, AlikeButSent
  <2> HIDE DEF q
  <2>7. Alike(q, s)
    BY <2>6, SetAlike DEF AlikeButSent
  <2> HIDE DEF s
  <2>8. AlikeButSent(s, f)
    BY <2>7, SendsAlike DEF Alike
  <2> HIDE DEF f
  <2>9. AlikeButSent(p, f)
    BY <2>6, <2>7, <2>8, AlikeChain
  <2>10. /\ Fields \subseteq DOMAIN page' /\ page'.life = f.life /\ page'.cur = f.cur
         /\ page'.retry = f.retry /\ page'.exited = f.exited /\ page'.ready = f.ready
         /\ page'.open = f.open /\ page'.out = <<>>
    BY <2>2, <2>9 DEF AlikeButSent, Fields
  <2>11. Sound(page')
    <3>1. Sound(f)
      BY <2>5, <2>9, AlikeSound
    <3> QED BY <2>10, <3>1 DEF Sound, Page, InOrder, OneLive, Live, ExitWaits, SentOpen, IsOpen
  <2>12. page'.cur # 0 /\ page'.exited = page.exited /\ page'.ready = page.ready
    BY <2>1, <2>3, <2>9, <2>10, TermAssumption DEF AlikeButSent
  <2>13. Sound(page)'
    BY <2>11 DEF Sound, Page, InOrder, OneLive, Live, ExitWaits, SentOpen, IsOpen
  <2> QED BY <2>2, <2>10, <2>12, <2>13 DEF IInv, Kept, Waits
<1>2. CASE SocketLost \/ SocketEnded
  <2> DEFINE p == [page EXCEPT !.life[page.cur] = "closed", !.cur = 0]
             q == AfterClose(p)
  <2>1. page.cur # 0 /\ Become(q)
    BY <1>2 DEF SocketLost, SocketEnded
  <2>2. Sound(q) /\ q.exited = page.exited /\ q.ready = page.ready
    BY <2>1, AfterCloseSound DEF IInv
  <2> HIDE DEF q
  <2> QED BY <2>1, <2>2, BecomeSound DEF Kept, Waits
<1> QED BY <1>1, <1>2

LEMMA WireSteps ==
    ASSUME IInv, Receive \/ Serve \/ Output \/ Exit
    PROVE  IInv' /\ Kept
<1>1. page.cur = 0 => up = <<>> /\ down = <<>>
  BY DEF IInv
<1>2. CASE Receive
  <2> DEFINE e == Head(down)[1]
  <2>1. down # <<>> /\ down' = Tail(down) /\ down \in Seq(Notices)
    BY <1>2 DEF Receive, IInv
  <2>2. Head(down) \in Notices /\ down' \in Seq(Notices)
    BY <2>1
  <2>3. e \in {"output", "exit", "focused", "focus_failed"}
    BY <2>2 DEF Notices
  <2>4. page.cur # 0 /\ page.cur \in 0..MaxSockets
    BY <1>1, <2>1 DEF IInv, Sound, Page
  <2>5. /\ e = "output" => page' = Changed(page)
        /\ e = "exit" => page' = [page EXCEPT !.exited = TRUE]
        /\ e = "focused" => page' = [page EXCEPT !.problem = FALSE]
        /\ e = "focus_failed" => page' = [page EXCEPT !.problem = TRUE]
    BY <1>2 DEF Receive
  <2> HIDE DEF e
  <2>6. /\ Fields \subseteq DOMAIN page' /\ page'.life = page.life /\ page'.cur = page.cur
        /\ page'.retry = page.retry /\ page'.ready = page.ready /\ page'.out = page.out
        /\ page.exited => page'.exited
    <3>1. Fields \subseteq DOMAIN page
      BY DEF IInv, Sound, Page
    <3>2. CASE e = "output"
      BY <2>5, <3>1, <3>2, ScreenAlike DEF Alike
    <3>3. CASE e # "output"
      BY <2>3, <2>5, <3>1, <3>3 DEF Fields
    <3> QED BY <3>2, <3>3
  <2>7. page'.retry = FALSE \/ ~page'.retry
    BY <2>4, <2>6 DEF IInv, Sound, OneLive
  <2>8. page.ready
    BY <2>4 DEF IInv, Sound, ExitWaits
  <2>9. Sound(page)' /\ (page.out = <<>>)'
    BY <2>6, <2>7, <2>8 DEF IInv, Sound, Page, InOrder, OneLive, Live, ExitWaits, SentOpen, IsOpen
  <2> QED BY <2>2, <2>4, <2>6, <2>9 DEF IInv, Kept, Waits
<1>3. CASE Serve
  <2>1. page.cur # 0 /\ page' = page
    BY <1>1, <1>3 DEF Serve
  <2>2. down' \in Seq(Notices)
    <3>1. <<"focused">> \in Notices /\ <<"focus_failed">> \in Notices /\ down \in Seq(Notices)
      BY DEF Notices, IInv
    <3>2. down' = down \/ down' = Append(down, <<"focused">>) \/ down' = Append(down, <<"focus_failed">>)
      BY <1>3 DEF Serve
    <3> QED BY <3>1, <3>2, AppendNotice
  <2> QED BY <2>1, <2>2 DEF IInv, Kept, Waits, Sound, Page, InOrder, OneLive, Live, ExitWaits, SentOpen, IsOpen
<1>4. CASE Output \/ Exit
  <2>1. page.cur # 0 /\ page' = page
    BY <1>4 DEF Output, Exit, IsOpen
  <2>2. down' \in Seq(Notices)
    <3>1. <<"output">> \in Notices /\ <<"exit">> \in Notices /\ down \in Seq(Notices)
      BY DEF Notices, IInv
    <3>2. down' = Append(down, <<"output">>) \/ down' = Append(down, <<"exit">>)
      BY <1>4 DEF Output, Exit
    <3> QED BY <3>1, <3>2, AppendNotice
  <2> QED BY <2>1, <2>2 DEF IInv, Kept, Waits, Sound, Page, InOrder, OneLive, Live, ExitWaits, SentOpen, IsOpen
<1> QED BY <1>2, <1>3, <1>4

\* Before the terminal is loaded there is no socket, and nothing of one.
LEMMA EarlySteps ==
    ASSUME IInv, Early, Next, Kept
    PROVE  Early'
<1>1. /\ Fields \subseteq DOMAIN page
      /\ ~page.ready => page.cur = 0 /\ ~page.retry /\ ~page.exited /\ down = <<>> /\ up = <<>>
  BY DEF IInv, Sound, Page, ExitWaits
<1> SUFFICES ASSUME ~page'.ready
             PROVE  page'.connection # "ended"
  BY DEF Early
<1>2. ~page.ready /\ page.connection # "ended"
  BY DEF Early, Kept
<1>3. \A p : Fields \subseteq DOMAIN p /\ p.cur = 0 => Follow(p) = p
  BY DEF Follow, IsOpen
<1>4. \A p : Become(p) /\ Fields \subseteq DOMAIN p => page'.connection = p.connection
  BY DEF Become, Fields
<1>5. CASE Flip \/ \E pane \in Panes \cup {NoPane} : Target(pane)
  <2>1. \E p : /\ Fields \subseteq DOMAIN p /\ p.cur = page.cur /\ p.connection = page.connection
               /\ Become(p)
    <3>1. CASE Flip
      <4>1. Become([page EXCEPT !.open = ~@])
        BY <1>1, <1>2, <3>1 DEF Flip, Fields
      <4> QED BY <1>1, <4>1 DEF Fields
    <3>2. ASSUME NEW pane \in Panes \cup {NoPane}, Target(pane)
          PROVE  Become([page EXCEPT !.target = pane])
      BY <1>1, <1>2, <1>3, <3>2 DEF Target, Fields
    <3> QED BY <1>1, <1>5, <3>1, <3>2 DEF Fields
  <2> QED BY <1>2, <1>4, <2>1
<1>6. CASE ToggleFollow
  <2> DEFINE p == [page EXCEPT !.follow = ~@, !.sent = NoPane]
  <2>1. Fields \subseteq DOMAIN p /\ p.cur = page.cur /\ p.connection = page.connection
    BY <1>1 DEF Fields
  <2>2. Become(Follow(p))
    BY <1>6 DEF ToggleFollow
  <2> HIDE DEF p
  <2> QED BY <1>1, <1>2, <1>3, <1>4, <2>1, <2>2
<1>7. CASE FitTimer
  <2> DEFINE p == [page EXCEPT !.fit = FALSE]
  <2>1. Fields \subseteq DOMAIN p /\ p.ready = page.ready /\ p.connection = page.connection
    BY <1>1 DEF Fields
  <2>2. Become(IF p.ready THEN Resize(p) ELSE p)
    BY <1>7 DEF FitTimer
  <2> HIDE DEF p
  <2> QED BY <1>2, <1>4, <2>1, <2>2
<1>8. CASE Paint \/ \E size \in Sizes : HostSized(size)
  BY <1>1, <1>2, <1>8 DEF Paint, HostSized, Fields
<1>9. CASE GraceTimer
  <2> DEFINE p == [page EXCEPT !.grace = FALSE]
             q == [p EXCEPT !.grace = FALSE, !.retry = FALSE, !.cur = 0]
  <2>1. Become(Set(q, "idle"))
    <3>1. p.cur = 0
      BY <1>1, <1>2 DEF Fields
    <3> QED BY <1>9, <3>1 DEF GraceTimer, CloseSocket
  <2>2. Fields \subseteq DOMAIN q
    BY <1>1 DEF Fields
  <2> HIDE DEF q
  <2>3. Fields \subseteq DOMAIN Set(q, "idle") /\ Set(q, "idle").connection = "idle"
    BY <2>2 DEF Set, Fields
  <2> QED BY <1>4, <2>1, <2>3
<1>10. CASE Loaded
  <2>1. page'.ready
    BY <1>10, LoadedStep
  <2> QED BY <2>1
<1>11. ~(RetryTimer \/ SocketOpen \/ Receive \/ SocketEnded \/ Serve)
  BY <1>1, <1>2 DEF RetryTimer, SocketOpen, Receive, SocketEnded, Serve
<1>12. ~(Reconnect \/ Unmount \/ SocketLost)
  BY <1>1, <1>2 DEF Reconnect, Unmount, SocketLost
<1>13. CASE Output \/ Exit
  BY <1>1, <1>2, <1>13 DEF Output, Exit, IsOpen
<1> QED BY <1>5, <1>6, <1>7, <1>8, <1>9, <1>10, <1>11, <1>12, <1>13 DEF Next, Progress

LEMMA InitSound == ASSUME Init PROVE IInv /\ Early
<1>1. /\ Fields \subseteq DOMAIN page /\ page.cur = 0 /\ page.life = [i \in 1..MaxSockets |-> "unused"]
      /\ ~page.retry /\ ~page.exited /\ ~page.ready /\ page.out = <<>> /\ page.connection = "idle"
  BY DEF Init, Fields
<1>2. \A i \in 1..MaxSockets : page.life[i] = "unused"
  BY <1>1
<1>3. 0 \in 0..MaxSockets /\ "unused" \in Lives
  BY TermAssumption DEF Lives
<1>4. page.life \in [1..MaxSockets -> Lives]
  BY <1>1, <1>3
<1>5. InOrder(page)
  <2>1. \A i \in 1..MaxSockets : page.life[i] # "unused" <=> i <= 0
    BY <1>2
  <2> QED BY <1>3, <2>1 DEF InOrder
<1>6. down \in Seq(Notices)
  BY DEF Init
<1>7. Sound(page)
  BY <1>1, <1>2, <1>3, <1>4, <1>5 DEF Sound, Page, OneLive, Live, ExitWaits, SentOpen
<1> QED BY <1>1, <1>6, <1>7 DEF Init, IInv, Early

LEMMA NextStep ==
    ASSUME IInv, Early, [Next]_vars
    PROVE  IInv' /\ Early' /\ Waits
<1>1. CASE Next
  <2>1. IInv' /\ Kept
    BY <1>1, ViewSteps, SizeSteps, TimerSteps, SocketSteps, WireSteps DEF Next, Progress
  <2> QED BY <1>1, <2>1, EarlySteps DEF Kept
<1>2. CASE UNCHANGED vars
  BY <1>2 DEF vars, IInv, Early, Waits, Sound, Page, InOrder, OneLive, Live, ExitWaits, SentOpen, IsOpen
<1> QED BY <1>1, <1>2

----------------------------------------------------------------------------
(* A page at rest.  What the page asked of its server and what the server   *)
(* told it are both on the way; the invariant says what will be so when     *)
(* they have arrived.                                                       *)

\* The messages of a queue with one of these tags, and the last of them.
Tagged(q, tags) == {i \in DOMAIN q : q[i][1] \in tags}
LastOf(q, tags) == {i \in Tagged(q, tags) : \A j \in Tagged(q, tags) : j <= i}

\* r is q and e; r is what is left of q when its head is read.
Longer(q, e, r) == r = Append(q, e)
Shorter(q, r) == q # <<>> /\ r = Tail(q)

LEMMA AppendLast ==
    ASSUME NEW S, NEW q \in Seq(S), NEW e \in S, NEW tags, NEW r, Longer(q, e, r)
    PROVE  /\ e[1] \in tags => Tagged(r, tags) # {} /\ \A i \in LastOf(r, tags) : r[i] = e
           /\ e[1] \notin tags => /\ Tagged(r, tags) = {} => Tagged(q, tags) = {}
                                  /\ \A i \in LastOf(r, tags) : i \in LastOf(q, tags) /\ r[i] = q[i]
<1> DEFINE n == Len(q) + 1
<1>1. /\ n \in Nat /\ n \in 1..n /\ DOMAIN q = 1..Len(q) /\ DOMAIN r = 1..n
      /\ r[n] = e /\ \A i \in 1..Len(q) : r[i] = q[i]
      /\ \A i \in 1..n : i \in 1..Len(q) \/ i = n
      /\ \A i \in 1..Len(q) : i \in 1..n /\ i < n
  BY DEF Longer
<1> HIDE DEF n
<1>2. CASE e[1] \in tags
  <2>1. n \in Tagged(r, tags)
    BY <1>1, <1>2 DEF Tagged
  <2>2. ASSUME NEW i \in LastOf(r, tags) PROVE r[i] = e
    <3>1. i \in 1..n /\ n <= i
      BY <1>1, <2>1 DEF LastOf, Tagged
    <3> QED BY <1>1, <3>1
  <2> QED BY <1>2, <2>1, <2>2
<1>3. CASE e[1] \notin tags
  <2>1. Tagged(r, tags) = Tagged(q, tags)
    BY <1>1, <1>3 DEF Tagged
  <2>2. ASSUME NEW i \in LastOf(r, tags) PROVE i \in LastOf(q, tags) /\ r[i] = q[i]
    BY <1>1, <2>1 DEF LastOf, Tagged
  <2> QED BY <1>3, <2>1, <2>2
<1> QED BY <1>2, <1>3

LEMMA TailLast ==
    ASSUME NEW S, NEW q \in Seq(S), NEW tags, NEW r, Shorter(q, r)
    PROVE  /\ \A i \in LastOf(r, tags) : i + 1 \in LastOf(q, tags) /\ r[i] = q[i + 1]
           /\ Tagged(r, tags) = {} => IF q[1][1] \in tags THEN 1 \in LastOf(q, tags)
                                      ELSE Tagged(q, tags) = {}
<1> DEFINE n == Len(q)
<1>1. /\ n \in Nat /\ n >= 1 /\ DOMAIN q = 1..n /\ DOMAIN r = 1..(n - 1)
      /\ \A i \in 1..(n - 1) : r[i] = q[i + 1]
  BY DEF Shorter
<1> HIDE DEF n
<1>2. \A i \in 1..n : i = 1 \/ (i - 1 \in 1..(n - 1) /\ q[i] = r[i - 1])
  <2>1. \A i \in 1..n : i = 1 \/ (i - 1 \in 1..(n - 1) /\ (i - 1) + 1 = i)
    BY <1>1
  <2> QED BY <1>1, <2>1
<1>3. \A i \in 1..n : i \in Tagged(q, tags) => i = 1 \/ i - 1 \in Tagged(r, tags)
  BY <1>1, <1>2 DEF Tagged
<1>4. ASSUME NEW i \in LastOf(r, tags) PROVE i + 1 \in LastOf(q, tags) /\ r[i] = q[i + 1]
  <2>1. i \in 1..(n - 1) /\ r[i] = q[i + 1] /\ i + 1 \in 1..n /\ q[i + 1][1] \in tags
    BY <1>1 DEF LastOf, Tagged
  <2>2. \A j \in Tagged(q, tags) : j <= i + 1
    <3>1. ASSUME NEW j \in Tagged(q, tags) PROVE j <= i + 1
      <4>1. j \in 1..n /\ (j = 1 \/ j - 1 \in Tagged(r, tags))
        BY <1>1, <1>3 DEF Tagged
      <4>2. j - 1 \in Tagged(r, tags) => j - 1 <= i
        BY DEF LastOf
      <4> QED BY <1>1, <2>1, <4>1, <4>2
    <3> QED BY <3>1
  <2> QED BY <1>1, <2>1, <2>2 DEF LastOf, Tagged
<1>5. ASSUME Tagged(r, tags) = {}
      PROVE  IF q[1][1] \in tags THEN 1 \in LastOf(q, tags) ELSE Tagged(q, tags) = {}
  <2>1. \A i \in Tagged(q, tags) : i = 1
    BY <1>1, <1>3, <1>5 DEF Tagged
  <2> QED BY <1>1, <2>1 DEF LastOf, Tagged
<1> QED BY <1>4, <1>5

LEMMA Joined ==
    ASSUME NEW S, NEW q \in Seq(S), NEW o \in Seq(S), NEW e \in S
    PROVE  /\ q \o o \in Seq(S) /\ Append(q, e) \in Seq(S) /\ Append(o, e) \in Seq(S)
           /\ q \o <<>> = q /\ q \o Append(o, e) = Append(q \o o, e)
OBVIOUS

\* The parts of a page.
View == {"open", "ready", "follow", "target", "grid", "fit", "problem"}
Client == {"cur", "life", "asked", "retry", "size", "out", "connection", "sent", "grace", "exited", "attempt", "last", "gone"}
Drawn == {"shown", "frame", "dirty", "focused", "blink"}

Full(p) == View \cup Client \cup Drawn \subseteq DOMAIN p

\* q has p's view, and p's client.
SameView(p, q) ==
    /\ q.open = p.open /\ q.ready = p.ready /\ q.follow = p.follow /\ q.target = p.target
    /\ q.grid = p.grid /\ q.fit = p.fit /\ q.problem = p.problem

SameSocket(p, q) ==
    /\ q.cur = p.cur /\ q.life = p.life /\ q.asked = p.asked /\ q.retry = p.retry
    /\ q.size = p.size /\ q.out = p.out /\ q.exited = p.exited

SameClient(p, q) ==
    /\ SameSocket(p, q)
    /\ q.connection = p.connection /\ q.sent = p.sent /\ q.grace = p.grace

\* What is not on the screen is about to be, or the view is hidden; hidden, it
\* neither renders nor blinks.
Screen(p) ==
    /\ p.shown \in BOOLEAN
    /\ p.shown /\ p.dirty => p.frame
    /\ ~p.shown => ~p.frame /\ ~p.blink

\* Only what is drawn differs.
Painted(p, q) ==
    /\ Full(q) /\ SameView(p, q) /\ SameClient(p, q)
    /\ q.shown = p.shown /\ (Screen(p) => Screen(q))

LEMMA RequestPaints == ASSUME NEW p, Full(p) PROVE Painted(p, Request(p))
BY DEF Request, Painted, Full, View, Client, Drawn, SameView, SameClient, SameSocket, Screen

LEMMA BlinkPaints == ASSUME NEW p, Full(p) PROVE Painted(p, Blink(p))
BY DEF Blink, Painted, Full, View, Client, Drawn, SameView, SameClient, SameSocket, Screen

LEMMA PaintsChain ==
    ASSUME NEW p, NEW q, NEW r, Painted(p, q), Painted(q, r)
    PROVE  Painted(p, r)
BY DEF Painted, SameView, SameClient, SameSocket

LEMMA ChangedPaints ==
    ASSUME NEW p, Full(p)
    PROVE  Painted(p, Changed(p))
<1> DEFINE q == [p EXCEPT !.dirty = TRUE]
           r == Request(q)
<1>1. /\ Full(q) /\ SameView(p, q) /\ SameClient(p, q) /\ q.shown = p.shown /\ q.blink = p.blink
  BY DEF Full, View, Client, Drawn, SameView, SameClient, SameSocket
<1>2. Changed(p) = r
  BY DEF Changed
<1> HIDE DEF q
<1>3. r.frame = q.shown /\ r.blink = q.blink /\ Painted(q, r)
  BY <1>1, RequestPaints DEF Request, Full, View, Client, Drawn
<1> HIDE DEF r
<1> QED BY <1>1, <1>2, <1>3 DEF Painted, SameView, SameClient, SameSocket, Screen

LEMMA FocusPaints ==
    ASSUME NEW p, Full(p), NEW on
    PROVE  Painted(p, Focus(p, on))
<1> DEFINE q == [p EXCEPT !.focused = on]
<1>1. Painted(p, q)
  BY DEF Full, View, Client, Drawn, Painted, SameView, SameClient, SameSocket, Screen
<1> HIDE DEF q
<1>2. Painted(q, Blink(q)) /\ Painted(Blink(q), Request(Blink(q)))
  BY <1>1, BlinkPaints, RequestPaints DEF Painted
<1>3. Focus(p, on) = Request(Blink(q))
  BY DEF Focus, q
<1> QED BY <1>1, <1>2, <1>3, PaintsChain

\* Showing and hiding the terminal.
LEMMA SetVisibleFacts ==
    ASSUME NEW p, Full(p), Screen(p), NEW v \in BOOLEAN
    PROVE  LET q == SetVisible(p, v) IN
           Full(q) /\ SameView(p, q) /\ SameClient(p, q) /\ Screen(q) /\ q.shown = v
<1> DEFINE a == [p EXCEPT !.shown = v, !.frame = @ /\ v]
           b == Blink(a)
           c == Request(b)
<1>1. /\ Full(a) /\ SameView(p, a) /\ SameClient(p, a) /\ a.shown = v /\ a.frame = (p.frame /\ v)
  BY DEF Full, View, Client, Drawn, SameView, SameClient, SameSocket
<1>2. SetVisible(p, v) = IF v = p.shown THEN p ELSE IF v THEN c ELSE b
  BY DEF SetVisible
<1> HIDE DEF a
<1>3. Painted(a, b) /\ b.frame = a.frame /\ b.blink = (a.focused /\ a.shown)
  BY <1>1, BlinkPaints DEF Blink, Full, View, Client, Drawn
<1> HIDE DEF b
<1>4. Painted(b, c) /\ c.frame = b.shown
  BY <1>3, RequestPaints DEF Painted, Request, Full, View, Client, Drawn
<1> HIDE DEF c
<1>5. CASE v = p.shown
  BY <1>2, <1>5 DEF SameView, SameClient, SameSocket
<1>6. CASE v # p.shown /\ v
  <2>1. Painted(a, c)
    BY <1>3, <1>4, PaintsChain
  <2>2. v = TRUE /\ c.shown = TRUE /\ c.frame = TRUE
    BY <1>1, <1>3, <1>4, <1>6 DEF Painted
  <2>3. Screen(c)
    BY <2>2 DEF Screen
  <2>4. Full(c) /\ SameView(p, c) /\ SameClient(p, c)
    BY <1>1, <2>1 DEF Painted, SameView, SameClient, SameSocket
  <2> QED BY <1>2, <1>6, <2>2, <2>3, <2>4
<1>7. CASE v # p.shown /\ ~v
  BY <1>1, <1>2, <1>3, <1>7 DEF Painted, SameView, SameClient, SameSocket, Screen
<1> QED BY <1>5, <1>6, <1>7

Clearing == {"connecting", "reconnecting"}

\* A new state of the connection; a new client forgets the pane it was told.
LEMMA SetFacts ==
    ASSUME NEW p, Full(p), NEW c
    PROVE  LET q == Set(p, c) IN
           /\ Full(q) /\ SameView(p, q) /\ SameSocket(p, q) /\ q.grace = p.grace
           /\ q.connection = c /\ q.sent = IF c \in Clearing THEN NoPane ELSE p.sent
           /\ q.shown = p.shown /\ (Screen(p) => Screen(q))
<1> DEFINE a == [p EXCEPT !.connection = c,
                          !.sent = IF c \in {"connecting", "reconnecting"} THEN NoPane ELSE @]
<1>1. /\ Full(a) /\ SameView(p, a) /\ SameSocket(p, a) /\ a.grace = p.grace
      /\ a.connection = c /\ a.sent = IF c \in Clearing THEN NoPane ELSE p.sent
      /\ a.shown = p.shown /\ (Screen(p) => Screen(a))
  BY DEF Full, View, Client, Drawn, SameView, SameSocket, Screen, Clearing
<1>2. Set(p, c) = IF c = "connecting" THEN Changed(a) ELSE a
  BY DEF Set
<1> HIDE DEF a
<1>3. Painted(a, Changed(a))
  BY <1>1, ChangedPaints
<1> QED BY <1>1, <1>2, <1>3 DEF Painted, SameView, SameClient, SameSocket

\* Frames, and the types of a page that matter to them.
Frames == {"resize", "focus"} \X (Sizes \cup Panes \cup {NoSize, NoPane})

PageOK(p) ==
    /\ Full(p) /\ p.open \in BOOLEAN /\ p.grid \in Sizes /\ p.size \in Sizes \cup {NoSize}
    /\ p.target \in Panes \cup {NoPane} /\ p.out \in Seq(Frames)

\* The state of the connection is the socket's, and a new client was told of no
\* pane.
Linked(p) ==
    /\ p.cur # 0 => IF p.life[p.cur] = "open" THEN p.connection = "live" ELSE p.connection \in Clearing
    /\ p.cur = 0 => IF p.retry THEN p.connection = "reconnecting" ELSE p.connection \in {"idle", "ended"}
    /\ p.connection \in Clearing => p.sent = NoPane
    /\ p.cur # 0 /\ p.size = NoSize => p.asked = NoSize

\* While the owner looks the client stays and has the host's grid, or a fit is
\* due; away from the view a client or a retry is there for the grace only.
Attended(p) ==
    p.ready =>
      /\ p.shown = p.open
      /\ p.open => ~p.grace /\ p.connection # "idle" /\ (p.size = p.grid \/ p.fit)
      /\ ~p.open /\ (p.cur # 0 \/ p.retry) => p.grace

Followed(p) == p.open /\ p.follow /\ p.connection = "live" /\ p.target # NoPane => p.sent = p.target

Resizes == {"resize"}
Focuses == {"focus"}

\* When the server has read u, the PTY has this size.
SizeTold(size, u, y) ==
    /\ \A i \in LastOf(u, Resizes) : u[i][2] = size
    /\ Tagged(u, Resizes) = {} => y.size = size

\* When it has, herdr was asked for this pane last; and when the page has read
\* d as well, it knows whether that failed.
Verdicts == {"focused", "focus_failed"}

PaneTold(pane, problem, u, d, y) ==
    /\ \A i \in LastOf(u, Focuses) : u[i][2] = pane
    /\ Tagged(u, Focuses) = {} =>
         /\ IF y.failed = NoPane THEN y.shows = pane ELSE y.failed = pane
         /\ \A i \in LastOf(d, Verdicts) : d[i][1] = IF y.failed = pane THEN "focus_failed" ELSE "focused"
         /\ Tagged(d, Verdicts) = {} => problem = (y.failed = pane)

Told(p, u, d, y) ==
    IsOpen(p) => /\ SizeTold(p.size, u, y)
                 /\ p.sent # NoPane => PaneTold(p.sent, p.problem, u, d, y)

LEMMA ResizeTells ==
    ASSUME NEW u \in Seq(Frames), NEW g \in Sizes, NEW d, NEW y, NEW pane, NEW problem
    PROVE  LET v == Append(u, <<"resize", g>>) IN
           SizeTold(g, v, y) /\ (PaneTold(pane, problem, u, d, y) => PaneTold(pane, problem, v, d, y))
<1> DEFINE e == <<"resize", g>>
           v == Append(u, e)
<1>1. e \in Frames /\ e[1] = "resize" /\ e[2] = g
  BY DEF Frames
<1> HIDE DEF e
<1>2. Longer(u, e, v) /\ e[1] \in Resizes /\ e[1] \notin Focuses
  BY <1>1 DEF Longer, Resizes, Focuses
<1> HIDE DEF v
<1>3. Tagged(v, Resizes) # {} /\ \A i \in LastOf(v, Resizes) : v[i] = e
  BY <1>1, <1>2, AppendLast
<1>4. /\ Tagged(v, Focuses) = {} => Tagged(u, Focuses) = {}
      /\ \A i \in LastOf(v, Focuses) : i \in LastOf(u, Focuses) /\ v[i] = u[i]
  BY <1>1, <1>2, AppendLast
<1> QED BY <1>1, <1>3, <1>4 DEF SizeTold, PaneTold, v, e

LEMMA FocusTells ==
    ASSUME NEW u \in Seq(Frames), NEW t \in Panes, NEW d, NEW y, NEW size, NEW problem
    PROVE  LET v == Append(u, <<"focus", t>>) IN
           PaneTold(t, problem, v, d, y) /\ (SizeTold(size, u, y) => SizeTold(size, v, y))
<1> DEFINE e == <<"focus", t>>
           v == Append(u, e)
<1>1. e \in Frames /\ e[1] = "focus" /\ e[2] = t
  BY DEF Frames
<1> HIDE DEF e
<1>2. Longer(u, e, v) /\ e[1] \in Focuses /\ e[1] \notin Resizes
  BY <1>1 DEF Longer, Resizes, Focuses
<1> HIDE DEF v
<1>3. Tagged(v, Focuses) # {} /\ \A i \in LastOf(v, Focuses) : v[i] = e
  BY <1>1, <1>2, AppendLast
<1>4. /\ Tagged(v, Resizes) = {} => Tagged(u, Resizes) = {}
      /\ \A i \in LastOf(v, Resizes) : i \in LastOf(u, Resizes) /\ v[i] = u[i]
  BY <1>1, <1>2, AppendLast
<1> QED BY <1>1, <1>3, <1>4 DEF SizeTold, PaneTold, v, e

\* What a page that sends these frames owes its server, and keeps.
Owed(p, u, d, y) == Told(p, u \o p.out, d, y)

LEMMA ResizeFacts ==
    ASSUME NEW p, PageOK(p), NEW u \in Seq(Frames), NEW d, NEW y, Owed(p, u, d, y)
    PROVE  LET q == Resize(p) IN
           /\ PageOK(q) /\ SameView(p, q) /\ q.size = p.grid
           /\ q.cur = p.cur /\ q.life = p.life /\ q.asked = p.asked /\ q.retry = p.retry
           /\ q.connection = p.connection /\ q.sent = p.sent /\ q.grace = p.grace
           /\ q.shown = p.shown /\ (Screen(p) => Screen(q)) /\ Owed(q, u, d, y)
<1> DEFINE s == [p EXCEPT !.size = p.grid]
           a == Changed(s)
           e == <<"resize", p.grid>>
           b == [a EXCEPT !.out = Append(@, e)]
<1>1. /\ Full(a) /\ SameView(p, a) /\ a.size = p.grid /\ a.out = p.out
      /\ a.cur = p.cur /\ a.life = p.life /\ a.asked = p.asked /\ a.retry = p.retry
      /\ a.connection = p.connection /\ a.sent = p.sent /\ a.grace = p.grace
      /\ a.shown = p.shown /\ (Screen(p) => Screen(a))
  <2>1. /\ Full(s) /\ SameView(p, s) /\ s.size = p.grid /\ s.out = p.out
        /\ s.cur = p.cur /\ s.life = p.life /\ s.asked = p.asked /\ s.retry = p.retry
        /\ s.connection = p.connection /\ s.sent = p.sent /\ s.grace = p.grace
        /\ s.shown = p.shown /\ (Screen(p) => Screen(s))
    BY DEF PageOK, Full, View, Client, Drawn, SameView, Screen
  <2> HIDE DEF s
  <2>2. Painted(s, a)
    BY <2>1, ChangedPaints
  <2> QED BY <2>1, <2>2 DEF Painted, SameView, SameClient, SameSocket
<1>2. Resize(p) = IF p.size = p.grid THEN p ELSE IF IsOpen(a) THEN b ELSE a
  BY DEF Resize
<1> HIDE DEF a
<1>3. /\ Full(b) /\ SameView(p, b) /\ b.size = p.grid /\ b.out = Append(p.out, e)
      /\ b.cur = p.cur /\ b.life = p.life /\ b.asked = p.asked /\ b.retry = p.retry
      /\ b.connection = p.connection /\ b.sent = p.sent /\ b.grace = p.grace
      /\ b.shown = p.shown /\ (Screen(p) => Screen(b))
  BY <1>1 DEF Full, View, Client, Drawn, SameView, Screen
<1> HIDE DEF b
<1>4. e \in Frames
  BY DEF PageOK, Frames
<1> HIDE DEF e
<1>5. Append(p.out, e) \in Seq(Frames) /\ u \o Append(p.out, e) = Append(u \o p.out, e) /\ u \o p.out \in Seq(Frames)
  BY <1>4, Joined DEF PageOK
<1>6. CASE p.size = p.grid
  BY <1>2, <1>6 DEF SameView
<1>7. CASE p.size # p.grid /\ IsOpen(a)
  <2>1. Owed(b, u, d, y)
    <3>1. SizeTold(p.grid, u \o b.out, y)
      BY <1>3, <1>5, ResizeTells DEF PageOK, e
    <3>2. p.sent # NoPane => PaneTold(p.sent, p.problem, u \o p.out, d, y)
      BY <1>1, <1>7 DEF Owed, Told, IsOpen
    <3>3. p.sent # NoPane => PaneTold(p.sent, p.problem, u \o b.out, d, y)
      BY <1>3, <1>5, <3>2, ResizeTells DEF PageOK, e
    <3> QED BY <1>3, <3>1, <3>3 DEF Owed, Told, SameView
  <2>2. PageOK(b)
    BY <1>3, <1>5 DEF PageOK, SameView
  <2> QED BY <1>2, <1>3, <1>7, <2>1, <2>2
<1>8. CASE p.size # p.grid /\ ~IsOpen(a)
  <2>1. PageOK(a) /\ Owed(a, u, d, y)
    BY <1>1, <1>8 DEF PageOK, SameView, Owed, Told
  <2> QED BY <1>1, <1>2, <1>8, <2>1
<1> QED BY <1>6, <1>7, <1>8

\* After the effect that follows, a live client was told of the page's target.
LEMMA FollowFacts ==
    ASSUME NEW p, PageOK(p), Linked(p), NEW u \in Seq(Frames), NEW d, NEW y, Owed(p, u, d, y)
    PROVE  LET q == Follow(p) IN
           /\ PageOK(q) /\ SameView(p, q) /\ Linked(q) /\ Followed(q)
           /\ q.cur = p.cur /\ q.life = p.life /\ q.retry = p.retry /\ q.size = p.size
           /\ q.connection = p.connection /\ q.grace = p.grace
           /\ q.shown = p.shown /\ (Screen(p) => Screen(q)) /\ Owed(q, u, d, y)
<1> DEFINE e == <<"focus", p.target>>
           b == [p EXCEPT !.out = Append(@, e), !.sent = p.target, !.last = p.target]
<1>1. /\ Full(b) /\ SameView(p, b) /\ b.size = p.size /\ b.out = Append(p.out, e)
      /\ b.cur = p.cur /\ b.life = p.life /\ b.asked = p.asked /\ b.retry = p.retry
      /\ b.connection = p.connection /\ b.sent = p.target /\ b.grace = p.grace
      /\ b.shown = p.shown /\ (Screen(p) => Screen(b))
  BY DEF PageOK, Full, View, Client, Drawn, SameView, Screen
<1>2. Follow(p) = IF ShouldFollow(p) /\ IsOpen(p) THEN b ELSE p
  BY DEF Follow
<1> HIDE DEF b
<1>3. p.connection = "live" => IsOpen(p)
  BY DEF Linked, IsOpen, Clearing
<1>4. CASE ShouldFollow(p) /\ IsOpen(p)
  <2>1. p.target \in Panes
    BY <1>4 DEF ShouldFollow, PageOK
  <2>2. e \in Frames
    BY <2>1 DEF Frames
  <2> HIDE DEF e
  <2>3. Append(p.out, e) \in Seq(Frames) /\ u \o Append(p.out, e) = Append(u \o p.out, e) /\ u \o p.out \in Seq(Frames)
    BY <2>2, Joined DEF PageOK
  <2>4. PaneTold(p.target, p.problem, u \o b.out, d, y)
    BY <1>1, <2>1, <2>3, FocusTells DEF e
  <2>5. SizeTold(p.size, u \o b.out, y)
    <3>1. SizeTold(p.size, u \o p.out, y)
      BY <1>4 DEF Owed, Told
    <3> QED BY <1>1, <2>1, <2>3, <3>1, FocusTells DEF e
  <2>6. Owed(b, u, d, y)
    BY <1>1, <2>4, <2>5 DEF Owed, Told, SameView
  <2>7. PageOK(b)
    BY <1>1, <2>3 DEF PageOK, SameView
  <2>8. Linked(b) /\ Followed(b)
    BY <1>1, <1>4 DEF Linked, Followed, ShouldFollow, SameView, Clearing
  <2> QED BY <1>1, <1>2, <1>4, <2>6, <2>7, <2>8
<1>5. CASE ~(ShouldFollow(p) /\ IsOpen(p))
  BY <1>2, <1>3, <1>5 DEF ShouldFollow, Followed, SameView
<1> QED BY <1>4, <1>5

\* What the end of a callback leaves.
Settled(p) == PageOK(p) /\ Screen(p) /\ Linked(p) /\ Attended(p) /\ Followed(p)

\* A socket that is not the page's was is not open yet.
Fresh(p, q) == q.cur # p.cur => ~IsOpen(q)

LEMMA OpenFacts ==
    ASSUME NEW p, PageOK(p), Screen(p), Sound(p), p.cur = 0, ~p.retry, p.ready,
           NEW m \in 1..MaxSockets, p.life[m] = "unused"
    PROVE  LET q == OpenSocket(p) IN
           /\ PageOK(q) /\ SameView(p, q) /\ Linked(q) /\ Screen(q) /\ ~IsOpen(q) /\ q.cur # 0
           /\ q.size = p.size /\ q.grace = p.grace /\ q.shown = p.shown /\ q.connection \in Clearing
<1> DEFINE n == Cardinality({i \in 1..MaxSockets : p.life[i] # "unused"}) + 1
           a == [p EXCEPT !.exited = FALSE]
           c == IF p.attempt = 0 THEN "connecting" ELSE "reconnecting"
           b == Set(a, c)
           q == [b EXCEPT !.life[n] = "opening", !.cur = n, !.asked = p.size]
<1>1. OpenSocket(p) = q
  BY DEF OpenSocket
<1>2. q.cur \in 1..MaxSockets /\ ~q.retry
  BY <1>1, OpenSound
<1>3. c \in Clearing
  BY DEF Clearing
<1> HIDE DEF c, n
<1>4. /\ Full(a) /\ SameView(p, a) /\ a.shown = p.shown /\ Screen(a) /\ a.life = p.life
      /\ a.size = p.size /\ a.out = p.out /\ a.grace = p.grace
  BY DEF PageOK, Full, View, Client, Drawn, SameView, Screen
<1> HIDE DEF a
<1>5. /\ Full(b) /\ SameView(a, b) /\ SameSocket(a, b) /\ b.grace = a.grace /\ b.connection = c
      /\ b.sent = NoPane /\ b.shown = a.shown /\ Screen(b)
  BY <1>3, <1>4, SetFacts
<1> HIDE DEF b
<1>6. /\ Full(q) /\ SameView(b, q) /\ q.shown = b.shown /\ Screen(q) /\ q.cur = n
      /\ q.life = [p.life EXCEPT ![n] = "opening"] /\ q.asked = p.size
      /\ q.size = b.size /\ q.out = b.out /\ q.grace = b.grace /\ q.connection = c /\ q.sent = NoPane
  BY <1>4, <1>5 DEF Full, View, Client, Drawn, SameView, SameSocket, Screen
<1> HIDE DEF q
<1>7. n \in 1..MaxSockets /\ n # 0 /\ q.life[n] = "opening"
  <2>1. p.life \in [1..MaxSockets -> Lives] /\ n \in 1..MaxSockets
    BY <1>2, <1>6 DEF Sound, Page
  <2>2. q.life[n] = "opening"
    BY <1>6, <2>1
  <2> QED BY <2>1, <2>2, TermAssumption
<1>8. Linked(q) /\ ~IsOpen(q)
  BY <1>3, <1>6, <1>7, <1>4, <1>5 DEF Linked, IsOpen, SameSocket
<1>9. PageOK(q) /\ SameView(p, q)
  BY <1>4, <1>5, <1>6 DEF PageOK, SameView, SameSocket
<1> QED BY <1>1, <1>3, <1>4, <1>5, <1>6, <1>7, <1>8, <1>9 DEF SameSocket

LEMMA CloseFacts ==
    ASSUME NEW p, PageOK(p), Screen(p)
    PROVE  LET q == CloseSocket(p, "idle") IN
           /\ PageOK(q) /\ SameView(p, q) /\ Screen(q) /\ Linked(q)
           /\ q.cur = 0 /\ ~q.retry /\ ~q.grace /\ q.connection = "idle"
           /\ q.size = p.size /\ q.shown = p.shown
<1> DEFINE r == [p EXCEPT !.grace = FALSE, !.retry = FALSE, !.cur = 0]
           t == IF p.cur = 0 THEN r ELSE [r EXCEPT !.life[p.cur] = "closed"]
           q == Set(t, "idle")
<1>1. CloseSocket(p, "idle") = q
  BY DEF CloseSocket
<1>2. /\ Full(r) /\ SameView(p, r) /\ Screen(r) /\ r.cur = 0 /\ ~r.retry /\ ~r.grace
      /\ r.size = p.size /\ r.shown = p.shown /\ r.out = p.out
  BY DEF PageOK, Full, View, Client, Drawn, SameView, Screen
<1> HIDE DEF r
<1>3. /\ Full(t) /\ SameView(p, t) /\ Screen(t) /\ t.cur = 0 /\ ~t.retry /\ ~t.grace
      /\ t.size = p.size /\ t.shown = p.shown /\ t.out = p.out
  BY <1>2 DEF Full, View, Client, Drawn, SameView, Screen
<1> HIDE DEF t
<1>4. /\ Full(q) /\ SameView(t, q) /\ SameSocket(t, q) /\ q.grace = t.grace
      /\ q.connection = "idle" /\ q.shown = t.shown /\ Screen(q)
  BY <1>3, SetFacts
<1> HIDE DEF q
<1>5. Linked(q)
  BY <1>3, <1>4 DEF Linked, SameSocket, Clearing
<1>6. PageOK(q) /\ SameView(p, q)
  BY <1>3, <1>4 DEF PageOK, SameView, SameSocket
<1> QED BY <1>1, <1>3, <1>4, <1>5, <1>6 DEF SameSocket

\* A socket lost, or ended by the server.
LEMMA AfterCloseFacts ==
    ASSUME NEW p, PageOK(p), Screen(p), Sound(p), p.cur # 0
    PROVE  LET q == AfterClose([p EXCEPT !.life[p.cur] = "closed", !.cur = 0]) IN
           /\ PageOK(q) /\ SameView(p, q) /\ Screen(q) /\ Linked(q)
           /\ q.cur = 0 /\ q.connection \in {"ended", "reconnecting"} /\ q.grace = p.grace
           /\ q.size = p.size /\ q.shown = p.shown
<1> DEFINE r == [p EXCEPT !.life[p.cur] = "closed", !.cur = 0]
           t == IF r.exited THEN r ELSE [r EXCEPT !.retry = TRUE, !.attempt = 1]
           c == IF r.exited THEN "ended" ELSE "reconnecting"
           q == Set(t, c)
<1>1. AfterClose(r) = q
  BY DEF AfterClose
<1>2. ~p.retry
  BY DEF Sound, Page, OneLive
<1>3. /\ Full(r) /\ SameView(p, r) /\ Screen(r) /\ r.cur = 0 /\ ~r.retry /\ r.grace = p.grace
      /\ r.size = p.size /\ r.shown = p.shown /\ r.out = p.out
  BY <1>2 DEF PageOK, Full, View, Client, Drawn, SameView, Screen
<1> HIDE DEF r
<1>4. /\ Full(t) /\ SameView(p, t) /\ Screen(t) /\ t.cur = 0 /\ t.grace = p.grace
      /\ t.size = p.size /\ t.shown = p.shown /\ t.out = p.out
      /\ IF c = "ended" THEN ~t.retry ELSE c = "reconnecting" /\ t.retry
  BY <1>3 DEF Full, View, Client, Drawn, SameView, Screen
<1>5. c \in {"ended", "reconnecting"}
  OBVIOUS
<1> HIDE DEF t, c
<1>6. /\ Full(q) /\ SameView(t, q) /\ SameSocket(t, q) /\ q.grace = t.grace
      /\ q.connection = c /\ q.shown = t.shown /\ Screen(q)
      /\ q.sent = IF c \in Clearing THEN NoPane ELSE t.sent
  BY <1>4, SetFacts
<1> HIDE DEF q
<1>7. Linked(q)
  BY <1>4, <1>5, <1>6 DEF Linked, SameSocket, Clearing
<1>8. PageOK(q) /\ SameView(p, q)
  BY <1>4, <1>6 DEF PageOK, SameView, SameSocket
<1> QED BY <1>1, <1>4, <1>5, <1>6, <1>7, <1>8 DEF r, SameSocket

\* Attaching cancels the grace, and leaves a client or a retry.
LEMMA AttachFacts ==
    ASSUME NEW p, PageOK(p), Screen(p), Sound(p), Linked(p), p.ready,
           NEW m \in 1..MaxSockets, p.life[m] = "unused",
           NEW u, NEW d, NEW y, Owed(p, u, d, y)
    PROVE  LET q == Attach(p) IN
           /\ PageOK(q) /\ SameView(p, q) /\ Screen(q) /\ Linked(q) /\ Fresh(p, q)
           /\ ~q.grace /\ q.connection # "idle" /\ q.size = p.size /\ q.shown = p.shown
           /\ Owed(q, u, d, y)
<1> DEFINE a == [p EXCEPT !.grace = FALSE]
           r == [a EXCEPT !.attempt = 0]
<1>1. Attach(p) = IF a.cur # 0 \/ a.retry THEN a ELSE OpenSocket(r)
  BY DEF Attach
<1>2. Alike(p, a) /\ Alike(p, r)
  BY DEF Sound, Page, Fields, Alike
<1>3. /\ PageOK(a) /\ SameView(p, a) /\ Screen(a) /\ ~a.grace /\ a.size = p.size /\ a.shown = p.shown
      /\ a.connection = p.connection /\ a.sent = p.sent /\ a.asked = p.asked
  BY DEF PageOK, Full, View, Client, Drawn, SameView, Screen
<1>4. /\ PageOK(r) /\ SameView(p, r) /\ Screen(r) /\ ~r.grace /\ r.size = p.size /\ r.shown = p.shown
  BY DEF PageOK, Full, View, Client, Drawn, SameView, Screen
<1> HIDE DEF a, r
<1>5. CASE a.cur # 0 \/ a.retry
  <2>1. Linked(a) /\ a.connection # "idle"
    BY <1>2, <1>3, <1>5 DEF Linked, Alike, Clearing
  <2>2. Owed(a, u, d, y)
    BY <1>2, <1>3 DEF Owed, Told, Alike, IsOpen, SameView
  <2>3. Fresh(p, a)
    BY <1>2 DEF Fresh, Alike
  <2> QED BY <1>1, <1>3, <1>5, <2>1, <2>2, <2>3
<1>6. CASE ~(a.cur # 0 \/ a.retry)
  <2> DEFINE q == OpenSocket(r)
  <2>1. Sound(r) /\ r.cur = 0 /\ ~r.retry /\ r.ready /\ r.life[m] = "unused"
    BY <1>2, <1>6, AlikeChain, AlikeSound DEF Alike
  <2>2. /\ PageOK(q) /\ SameView(r, q) /\ Linked(q) /\ Screen(q) /\ ~IsOpen(q) /\ q.cur # 0
        /\ q.size = r.size /\ q.grace = r.grace /\ q.shown = r.shown /\ q.connection \in Clearing
    BY <1>4, <2>1, OpenFacts
  <2> HIDE DEF q
  <2>3. Owed(q, u, d, y) /\ Fresh(p, q) /\ q.connection # "idle"
    BY <2>2 DEF Owed, Told, Fresh, Clearing
  <2> QED BY <1>1, <1>4, <1>6, <2>2, <2>3 DEF SameView, q
<1> QED BY <1>5, <1>6

LEMMA ShownFacts ==
    ASSUME NEW p, PageOK(p), Screen(p), Sound(p), Linked(p), p.ready,
           NEW m \in 1..MaxSockets, p.life[m] = "unused",
           NEW u \in Seq(Frames), NEW d, NEW y, Owed(p, u, d, y)
    PROVE  LET q == Shown(p) IN
           /\ PageOK(q) /\ SameView(p, q) /\ Screen(q) /\ Linked(q) /\ Fresh(p, q) /\ Owed(q, u, d, y)
           /\ q.shown = p.open
           /\ p.open => ~q.grace /\ q.connection # "idle" /\ q.size = q.grid
           /\ ~p.open => q.cur = p.cur /\ q.retry = p.retry /\ q.grace = p.grace /\ q.size = p.size
<1> DEFINE a == SetVisible(p, p.open)
           b == Resize(a)
           c == Attach(b)
           q == Focus(c, TRUE)
<1>1. Shown(p) = IF ~p.open THEN a ELSE q
  BY DEF Shown
<1>2. /\ Full(a) /\ SameView(p, a) /\ SameClient(p, a) /\ Screen(a) /\ a.shown = p.open /\ Alike(p, a)
  BY SetVisibleFacts, ScreenAlike DEF PageOK, Sound, Page
<1> HIDE DEF a
<1>3. PageOK(a) /\ Linked(a) /\ Owed(a, u, d, y) /\ Sound(a) /\ Fresh(p, a)
  <2>1. Sound(a)
    BY <1>2, AlikeChain, AlikeSound
  <2>2. PageOK(a) /\ Linked(a)
    BY <1>2 DEF PageOK, Linked, SameView, SameClient, SameSocket
  <2>3. Owed(a, u, d, y) /\ Fresh(p, a)
    BY <1>2 DEF Owed, Told, IsOpen, SameView, SameClient, SameSocket, Fresh
  <2> QED BY <2>1, <2>2, <2>3
<1>4. CASE ~p.open
  BY <1>1, <1>2, <1>3, <1>4 DEF SameClient, SameSocket
<1>5. CASE p.open
  <2>1. /\ PageOK(b) /\ SameView(a, b) /\ b.size = a.grid
        /\ b.cur = a.cur /\ b.life = a.life /\ b.asked = a.asked /\ b.retry = a.retry
        /\ b.connection = a.connection /\ b.sent = a.sent /\ b.grace = a.grace
        /\ b.shown = a.shown /\ Screen(b) /\ Owed(b, u, d, y)
    BY <1>2, <1>3, ResizeFacts
  <2>2. Sound(b)
    BY <1>3, SendsAlike, AlikeSound DEF Sound, Page
  <2> HIDE DEF b
  <2>3. Linked(b) /\ b.ready /\ b.life[m] = "unused" /\ b.size # NoSize
    <3>1. b.size # NoSize
      BY <1>3, <2>1, TermAssumption DEF PageOK
    <3> QED BY <1>2, <1>3, <2>1, <3>1 DEF Linked, SameView, SameClient, SameSocket
  <2>4. /\ PageOK(c) /\ SameView(b, c) /\ Screen(c) /\ Linked(c) /\ Fresh(b, c)
        /\ ~c.grace /\ c.connection # "idle" /\ c.size = b.size /\ c.shown = b.shown
        /\ Owed(c, u, d, y)
    BY <2>1, <2>2, <2>3, AttachFacts
  <2> HIDE DEF c
  <2>5. Painted(c, q)
    BY <2>4, FocusPaints DEF PageOK
  <2> HIDE DEF q
  <2>6. PageOK(q) /\ Linked(q) /\ Screen(q) /\ Owed(q, u, d, y)
    <3>1. PageOK(q) /\ Linked(q) /\ Screen(q)
      BY <2>4, <2>5 DEF Painted, PageOK, Linked, SameView, SameClient, SameSocket
    <3> QED BY <2>4, <2>5, <3>1 DEF Painted, Owed, Told, IsOpen, SameView, SameClient, SameSocket
  <2>7. Fresh(p, q)
    BY <1>2, <2>1, <2>4, <2>5 DEF Fresh, IsOpen, Painted, SameClient, SameSocket
  <2>8. /\ SameView(p, q) /\ q.shown = p.open /\ ~q.grace /\ q.connection # "idle"
        /\ q.size = q.grid
    BY <1>2, <2>1, <2>4, <2>5 DEF Painted, SameView, SameClient, SameSocket
  <2>9. Shown(p) = q
    BY <1>1, <1>5
  <2> QED BY <1>5, <2>6, <2>7, <2>8, <2>9
<1> QED BY <1>4, <1>5

\* The inductive invariant of a page at rest.
PtyOK(y) == {"size", "shows", "failed"} \subseteq DOMAIN y

RInv == Settled(page) /\ up \in Seq(Frames) /\ PtyOK(pty) /\ Told(page, up, down, pty)

LEMMA Primed ==
    ASSUME Settled(page'), up' \in Seq(Frames), PtyOK(pty'), Told(page', up', down', pty')
    PROVE  RInv'
BY DEF RInv, Settled, PageOK, Full, View, Client, Drawn, Screen, Linked, Clearing, Attended, Followed,
       Frames, Told, IsOpen, SizeTold, PaneTold, LastOf, Tagged, Verdicts, Resizes, Focuses, PtyOK

LEMMA OwedNow == ASSUME IInv, RInv PROVE Owed(page, up, down, pty)
<1>1. page.out = <<>> /\ up \o <<>> = up
  BY Joined DEF IInv, RInv
<1> QED BY <1>1 DEF Owed, RInv

\* A callback that leaves a settled page leaves the invariant.
LEMMA BecomeRests ==
    ASSUME IInv, RInv, NEW p, Settled(p), Owed(p, up, down, pty), Fresh(page, p), Become(p)
    PROVE  RInv'
<1> DEFINE q == [p EXCEPT !.out = <<>>]
<1>1. /\ Full(q) /\ SameView(p, q) /\ q.cur = p.cur /\ q.life = p.life /\ q.asked = p.asked
      /\ q.retry = p.retry /\ q.size = p.size /\ q.connection = p.connection /\ q.sent = p.sent
      /\ q.grace = p.grace /\ q.shown = p.shown /\ Screen(q) /\ q.out = <<>>
  BY DEF Settled, PageOK, Full, View, Client, Drawn, SameView, Screen
<1>2. page' = q
  BY DEF Become
<1> HIDE DEF q
<1>3. Settled(q)
  <2>1. PageOK(q)
    BY <1>1 DEF Settled, PageOK, SameView
  <2> QED BY <1>1, <2>1 DEF Settled, Linked, Attended, Followed, SameView
<1>4. up' \in Seq(Frames)
  <2>1. up \in Seq(Frames) /\ p.out \in Seq(Frames)
    BY DEF RInv, Settled, PageOK
  <2>2. up \o p.out \in Seq(Frames) /\ <<>> \in Seq(Frames)
    BY <2>1
  <2> QED BY <2>2 DEF Become
<1>5. Told(q, up', down', pty')
  <2>1. CASE p.cur = page.cur
    BY <1>1, <2>1 DEF Become, Owed, Told, IsOpen, SameView
  <2>2. CASE p.cur # page.cur
    BY <1>1, <2>2 DEF Fresh, Told, IsOpen
  <2> QED BY <2>1, <2>2
<1>6. PtyOK(pty')
  BY DEF RInv, PtyOK, Become, NoClient
<1> QED BY <1>2, <1>3, <1>4, <1>5, <1>6, Primed

LEMMA FollowRests ==
    ASSUME IInv, RInv, NEW q, PageOK(q), Screen(q), Linked(q), Attended(q),
           Owed(q, up, down, pty), Fresh(page, q), Become(Follow(q))
    PROVE  RInv'
<1> DEFINE f == Follow(q)
<1>1. up \in Seq(Frames)
  BY DEF RInv
<1>2. /\ PageOK(f) /\ SameView(q, f) /\ Linked(f) /\ Followed(f)
      /\ f.cur = q.cur /\ f.life = q.life /\ f.retry = q.retry /\ f.size = q.size
      /\ f.connection = q.connection /\ f.grace = q.grace
      /\ f.shown = q.shown /\ Screen(f) /\ Owed(f, up, down, pty)
  BY <1>1, FollowFacts
<1> HIDE DEF f
<1>3. Attended(f) /\ Fresh(page, f)
  BY <1>2 DEF Attended, SameView, Fresh, IsOpen
<1> QED BY <1>2, <1>3, BecomeRests DEF Settled, f

LEMMA LoadedRests == ASSUME IInv, RInv, Loaded PROVE RInv'
<1> DEFINE p == [page EXCEPT !.ready = TRUE]
           q == Shown(p)
<1>1. PICK m \in 1..MaxSockets : page.life[m] = "unused"
  BY DEF Loaded, Room
<1>2. /\ PageOK(p) /\ Screen(p) /\ Linked(p) /\ p.ready = TRUE
      /\ p.life = page.life /\ p.cur = page.cur /\ p.retry = page.retry
      /\ p.exited = page.exited /\ p.out = page.out /\ p.size = page.size
      /\ p.sent = page.sent /\ p.problem = page.problem
  BY DEF RInv, Settled, PageOK, Full, View, Client, Drawn, Screen, Linked
<1>3. page.cur = 0 /\ ~page.retry
  BY DEF Loaded, IInv, Sound, ExitWaits
<1>4. Become(Follow(q)) /\ Fields \subseteq DOMAIN p
  BY DEF Loaded, IInv, Sound, Page, Fields
<1> HIDE DEF p
<1>5. Sound(p)
  BY <1>2, <1>3, <1>4 DEF IInv, Sound, Page, InOrder, OneLive, Live, ExitWaits, SentOpen, IsOpen
<1>6. Owed(p, up, down, pty)
  BY <1>2, OwedNow DEF Owed, Told, IsOpen
<1>7. /\ PageOK(q) /\ SameView(p, q) /\ Screen(q) /\ Linked(q) /\ Fresh(p, q) /\ Owed(q, up, down, pty)
      /\ q.shown = p.open
      /\ p.open => ~q.grace /\ q.connection # "idle" /\ q.size = q.grid
      /\ ~p.open => q.cur = p.cur /\ q.retry = p.retry
  BY <1>1, <1>2, <1>5, <1>6, ShownFacts DEF RInv
<1> HIDE DEF q
<1>8. Attended(q) /\ Fresh(page, q)
  BY <1>2, <1>3, <1>7 DEF Attended, SameView, Fresh
<1> QED BY <1>4, <1>7, <1>8, FollowRests

LEMMA FlipRests == ASSUME IInv, RInv, Flip PROVE RInv'
<1> DEFINE p == [page EXCEPT !.open = ~@]
           d == Detach(p)
<1>1. PICK m \in 1..MaxSockets : page.life[m] = "unused"
  BY DEF Flip, Room
<1>2. /\ PageOK(p) /\ Screen(p) /\ Linked(p) /\ p.ready = page.ready /\ p.open = ~page.open
      /\ p.life = page.life /\ p.cur = page.cur /\ p.retry = page.retry
      /\ p.exited = page.exited /\ p.out = page.out /\ p.size = page.size
      /\ p.sent = page.sent /\ p.problem = page.problem /\ p.connection = page.connection
      /\ Fields \subseteq DOMAIN p
  BY DEF RInv, Settled, PageOK, Full, View, Client, Drawn, Screen, Linked, Fields
<1>3. Become(IF ~p.ready THEN p ELSE IF p.open THEN Follow(Shown(p)) ELSE Focus(Shown(d), FALSE))
  BY DEF Flip
<1> HIDE DEF p
<1>4. Sound(p)
  BY <1>2 DEF IInv, Sound, Page, InOrder, OneLive, Live, ExitWaits, SentOpen, IsOpen
<1>5. Owed(p, up, down, pty) /\ Fresh(page, p)
  BY <1>2, OwedNow DEF Owed, Told, IsOpen, Fresh
<1>6. CASE ~p.ready
  <2>1. Followed(p) /\ Attended(p)
    <3>1. p.cur = 0
      BY <1>2, <1>6 DEF IInv, Sound, ExitWaits
    <3> QED BY <1>2, <1>6, <3>1 DEF Followed, Attended, Linked
  <2> QED BY <1>2, <1>3, <1>5, <1>6, <2>1, BecomeRests DEF Settled
<1>7. CASE p.ready /\ p.open
  <2> DEFINE q == Shown(p)
  <2>1. /\ PageOK(q) /\ SameView(p, q) /\ Screen(q) /\ Linked(q) /\ Fresh(p, q) /\ Owed(q, up, down, pty)
        /\ q.shown = p.open
        /\ p.open => ~q.grace /\ q.connection # "idle" /\ q.size = q.grid
    BY <1>1, <1>2, <1>4, <1>5, <1>7, ShownFacts DEF RInv
  <2>2. Become(Follow(q))
    BY <1>3, <1>7
  <2> HIDE DEF q
  <2>3. Attended(q) /\ Fresh(page, q)
    BY <1>2, <1>7, <2>1 DEF Attended, SameView, Fresh
  <2> QED BY <2>1, <2>2, <2>3, FollowRests
<1>8. CASE p.ready /\ ~p.open
  <2> DEFINE q == Shown(d)
             f == Focus(q, FALSE)
  <2>1. /\ PageOK(d) /\ Screen(d) /\ Linked(d) /\ d.grace = TRUE /\ SameView(p, d)
        /\ d.cur = p.cur /\ d.life = p.life /\ d.retry = p.retry /\ d.size = p.size /\ d.out = p.out
        /\ d.sent = p.sent /\ d.problem = p.problem /\ Alike(p, d)
    BY <1>2 DEF Detach, PageOK, Full, View, Client, Drawn, Screen, Linked, SameView, Fields, Alike
  <2> HIDE DEF d
  <2>2. Sound(d) /\ Owed(d, up, down, pty) /\ d.ready /\ ~d.open /\ d.life[m] = "unused"
    <3>1. Sound(d)
      BY <1>4, <2>1, AlikeChain, AlikeSound
    <3> QED BY <1>1, <1>2, <1>5, <1>8, <2>1, <3>1 DEF Owed, Told, IsOpen, SameView
  <2>3. /\ PageOK(q) /\ SameView(d, q) /\ Screen(q) /\ Linked(q) /\ Fresh(d, q) /\ Owed(q, up, down, pty)
        /\ q.shown = d.open /\ q.cur = d.cur /\ q.retry = d.retry /\ q.grace = d.grace
    BY <1>1, <2>1, <2>2, ShownFacts DEF RInv
  <2>4. Become(f)
    BY <1>3, <1>8
  <2> HIDE DEF q
  <2>5. Painted(q, f)
    BY <2>3, FocusPaints DEF PageOK
  <2> HIDE DEF f
  <2>6. PageOK(f) /\ Screen(f) /\ Linked(f) /\ Owed(f, up, down, pty) /\ Fresh(page, f)
    <3>1. PageOK(f) /\ Screen(f) /\ Linked(f)
      BY <2>3, <2>5 DEF Painted, PageOK, Linked, SameView, SameClient, SameSocket
    <3> QED BY <1>2, <2>1, <2>3, <2>5, <3>1
        DEF Painted, Owed, Told, Fresh, IsOpen, SameView, SameClient, SameSocket
  <2>7. ~f.open /\ f.shown = f.open /\ f.grace
    BY <2>1, <2>2, <2>3, <2>5 DEF Painted, SameView, SameClient
  <2>8. Settled(f)
    BY <2>6, <2>7 DEF Settled, Attended, Followed
  <2> QED BY <2>4, <2>6, <2>8, BecomeRests
<1> QED BY <1>6, <1>7, <1>8

\* What follows the target anew, from a page that may have forgotten the pane.
Retargeted(p) ==
    /\ PageOK(p) /\ Screen(p) /\ Linked(p) /\ Attended(p)
    /\ p.cur = page.cur /\ p.life = page.life /\ p.size = page.size /\ p.out = page.out
    /\ p.problem = page.problem /\ (p.sent = page.sent \/ p.sent = NoPane)

LEMMA RetargetRests ==
    ASSUME IInv, RInv, NEW p, Retargeted(p), Become(Follow(p))
    PROVE  RInv'
<1>1. Owed(p, up, down, pty) /\ Fresh(page, p)
  BY OwedNow DEF Owed, Told, IsOpen, Fresh, Retargeted
<1> QED BY <1>1, FollowRests DEF Retargeted

LEMMA TargetRests ==
    ASSUME IInv, RInv, ToggleFollow \/ \E pane \in Panes \cup {NoPane} : Target(pane)
    PROVE  RInv'
<1>1. CASE ToggleFollow
  <2> DEFINE p == [page EXCEPT !.follow = ~@, !.sent = NoPane]
  <2>1. Retargeted(p)
    BY DEF RInv, Settled, PageOK, Full, View, Client, Drawn, Screen, Linked, Attended, Retargeted
  <2>2. Become(Follow(p))
    BY <1>1 DEF ToggleFollow
  <2> HIDE DEF p
  <2> QED BY <2>1, <2>2, RetargetRests
<1>2. ASSUME NEW pane \in Panes \cup {NoPane}, Target(pane)
      PROVE  RInv'
  <2> DEFINE p == [page EXCEPT !.target = pane]
  <2>1. Retargeted(p)
    BY DEF RInv, Settled, PageOK, Full, View, Client, Drawn, Screen, Linked, Attended, Retargeted
  <2>2. Become(Follow(p))
    BY <1>2 DEF Target
  <2> HIDE DEF p
  <2> QED BY <2>1, <2>2, RetargetRests
<1> QED BY <1>1, <1>2

LEMMA SizeRests ==
    ASSUME IInv, RInv, FitTimer \/ Paint \/ \E size \in Sizes : HostSized(size)
    PROVE  RInv'
<1>1. CASE FitTimer
  <2> DEFINE p == [page EXCEPT !.fit = FALSE]
             q == Resize(p)
  <2>1. /\ PageOK(p) /\ Screen(p) /\ Linked(p) /\ Followed(p)
        /\ p.cur = page.cur /\ p.life = page.life /\ p.size = page.size /\ p.out = page.out
        /\ p.retry = page.retry /\ p.grace = page.grace /\ p.connection = page.connection
        /\ p.problem = page.problem /\ p.sent = page.sent /\ p.ready = page.ready
        /\ p.open = page.open /\ p.shown = page.shown
    BY DEF RInv, Settled, PageOK, Full, View, Client, Drawn, Screen, Linked, Followed
  <2>2. Become(IF p.ready THEN q ELSE p)
    BY <1>1 DEF FitTimer
  <2> HIDE DEF p
  <2>3. Owed(p, up, down, pty) /\ Fresh(page, p)
    BY <2>1, OwedNow DEF Owed, Told, IsOpen, Fresh
  <2>4. CASE ~p.ready
    BY <2>1, <2>2, <2>3, <2>4, BecomeRests DEF Settled, Attended
  <2>5. CASE p.ready
    <3>1. /\ PageOK(q) /\ SameView(p, q) /\ q.size = p.grid
          /\ q.cur = p.cur /\ q.life = p.life /\ q.asked = p.asked /\ q.retry = p.retry
          /\ q.connection = p.connection /\ q.sent = p.sent /\ q.grace = p.grace
          /\ q.shown = p.shown /\ Screen(q) /\ Owed(q, up, down, pty)
      BY <2>1, <2>3, ResizeFacts DEF RInv
    <3> HIDE DEF q
    <3>2. Linked(q)
      <4>1. q.size # NoSize
        BY <2>1, <3>1, TermAssumption DEF PageOK
      <4> QED BY <2>1, <3>1, <4>1 DEF Linked
    <3>3. Attended(q) /\ Followed(q) /\ Fresh(page, q)
      BY <2>1, <2>5, <3>1 DEF RInv, Settled, Attended, Followed, SameView, Fresh, IsOpen
    <3> QED BY <2>2, <2>5, <3>1, <3>2, <3>3, BecomeRests DEF Settled
  <2> QED BY <2>4, <2>5
<1>2. CASE Paint
  <2>1. page' = [page EXCEPT !.frame = FALSE, !.dirty = FALSE] /\ up' = up /\ down' = down /\ pty' = pty
    BY <1>2 DEF Paint
  <2> DEFINE p == [page EXCEPT !.frame = FALSE, !.dirty = FALSE]
  <2>2. /\ Settled(p) /\ p.cur = page.cur /\ p.life = page.life /\ p.size = page.size
        /\ p.problem = page.problem /\ p.sent = page.sent
    BY DEF RInv, Settled, PageOK, Full, View, Client, Drawn, Screen, Linked, Attended, Followed
  <2> HIDE DEF p
  <2>3. Told(p, up, down, pty)
    BY <2>2 DEF RInv, Told, IsOpen
  <2> QED BY <2>1, <2>2, <2>3, Primed DEF RInv, p
<1>3. ASSUME NEW size \in Sizes, HostSized(size)
      PROVE  RInv'
  <2> DEFINE p == [page EXCEPT !.grid = size, !.fit = @ \/ page.open]
  <2>1. page' = p /\ up' = up /\ down' = down /\ pty' = pty
    BY <1>3 DEF HostSized
  <2>2. /\ Settled(p) /\ p.cur = page.cur /\ p.life = page.life /\ p.size = page.size
        /\ p.problem = page.problem /\ p.sent = page.sent
    BY DEF RInv, Settled, PageOK, Full, View, Client, Drawn, Screen, Linked, Attended, Followed
  <2> HIDE DEF p
  <2>3. Told(p, up, down, pty)
    BY <2>2 DEF RInv, Told, IsOpen
  <2> QED BY <2>1, <2>2, <2>3, Primed DEF RInv
<1> QED BY <1>1, <1>2, <1>3

LEMMA TimerRests ==
    ASSUME IInv, Early, RInv, GraceTimer \/ RetryTimer \/ Reconnect \/ Unmount
    PROVE  RInv'
<1>1. CASE GraceTimer
  <2> DEFINE p == [page EXCEPT !.grace = FALSE]
             q == CloseSocket(p, "idle")
  <2>1. PageOK(p) /\ Screen(p) /\ p.shown = page.shown /\ p.ready = page.ready /\ p.open = page.open
    BY DEF RInv, Settled, PageOK, Full, View, Client, Drawn, Screen
  <2>2. Become(q) /\ page.grace
    BY <1>1 DEF GraceTimer
  <2> HIDE DEF p
  <2>3. /\ PageOK(q) /\ SameView(p, q) /\ Screen(q) /\ Linked(q)
        /\ q.cur = 0 /\ ~q.retry /\ ~q.grace /\ q.connection = "idle"
        /\ q.shown = p.shown
    BY <2>1, CloseFacts
  <2> HIDE DEF q
  <2>4. Attended(q) /\ Followed(q)
    BY <2>1, <2>2, <2>3 DEF RInv, Settled, Attended, Followed, SameView
  <2>5. Owed(q, up, down, pty) /\ Fresh(page, q)
    BY <2>3 DEF Owed, Told, IsOpen, Fresh
  <2> QED BY <2>2, <2>3, <2>4, <2>5, BecomeRests DEF Settled
<1>2. CASE RetryTimer
  <2> DEFINE p == [page EXCEPT !.retry = FALSE]
             q == OpenSocket(p)
  <2>1. /\ PageOK(p) /\ Screen(p) /\ SameView(page, p) /\ p.shown = page.shown /\ p.size = page.size
        /\ p.grace = page.grace /\ p.life = page.life /\ p.cur = page.cur /\ ~p.retry
        /\ p.exited = page.exited /\ p.out = page.out /\ Fields \subseteq DOMAIN p
    BY DEF RInv, Settled, PageOK, Full, View, Client, Drawn, Screen, SameView, Fields
  <2>2. Become(q) /\ page.retry
    BY <1>2 DEF RetryTimer
  <2>3. PICK m \in 1..MaxSockets : page.life[m] = "unused"
    BY <1>2 DEF RetryTimer, Room
  <2> HIDE DEF p
  <2>4. p.cur = 0 /\ p.ready
    <3>1. page.cur = 0 \/ page.cur \in 1..MaxSockets
      BY TermAssumption DEF IInv, Sound, Page
    <3> QED BY <2>1, <2>2, <3>1 DEF IInv, Sound, OneLive, ExitWaits, SameView
  <2>5. Sound(p)
    BY <2>1 DEF IInv, Sound, Page, InOrder, OneLive, Live, ExitWaits, SentOpen, IsOpen, SameView
  <2>6. /\ PageOK(q) /\ SameView(p, q) /\ Linked(q) /\ Screen(q) /\ ~IsOpen(q) /\ q.cur # 0
        /\ q.size = p.size /\ q.grace = p.grace /\ q.shown = p.shown /\ q.connection \in Clearing
    BY <2>1, <2>3, <2>4, <2>5, OpenFacts
  <2> HIDE DEF q
  <2>7. Attended(q) /\ Followed(q)
    BY <2>1, <2>2, <2>6 DEF RInv, Settled, Attended, Followed, SameView, Clearing
  <2>8. Owed(q, up, down, pty) /\ Fresh(page, q)
    BY <2>6 DEF Owed, Told, Fresh
  <2> QED BY <2>2, <2>6, <2>7, <2>8, BecomeRests DEF Settled
<1>3. CASE Reconnect
  <2> DEFINE a == CloseSocket(page, "idle")
             p == [a EXCEPT !.attempt = 0]
             q == OpenSocket(p)
  <2>1. Become(q) /\ page.open
    BY <1>3 DEF Reconnect
  <2>2. PICK m \in 1..MaxSockets : page.life[m] = "unused"
    BY <1>3 DEF Reconnect, Room
  <2>3. page.ready
    BY <1>3 DEF Early, Reconnect
  <2>4. Sound(a) /\ a.cur = 0 /\ ~a.retry /\ a.ready /\ a.life[m] = "unused"
    BY <2>2, <2>3, CloseSound DEF IInv
  <2>5. PageOK(a) /\ SameView(page, a) /\ Screen(a) /\ ~a.grace /\ a.size = page.size /\ a.shown = page.shown
    BY CloseFacts DEF RInv, Settled
  <2> HIDE DEF a
  <2>6. PageOK(p) /\ SameView(page, p) /\ Screen(p) /\ ~p.grace /\ p.size = page.size /\ p.shown = page.shown
        /\ Alike(a, p)
    BY <2>4, <2>5 DEF PageOK, Full, View, Client, Drawn, Screen, SameView, Fields, Alike
  <2> HIDE DEF p
  <2>7. Sound(p) /\ p.cur = 0 /\ ~p.retry /\ p.ready /\ p.life[m] = "unused"
    BY <2>4, <2>6, AlikeChain, AlikeSound DEF Alike
  <2>8. /\ PageOK(q) /\ SameView(p, q) /\ Linked(q) /\ Screen(q) /\ ~IsOpen(q) /\ q.cur # 0
        /\ q.size = p.size /\ q.grace = p.grace /\ q.shown = p.shown /\ q.connection \in Clearing
    BY <2>6, <2>7, OpenFacts
  <2> HIDE DEF q
  <2>9. Attended(q) /\ Followed(q)
    BY <2>1, <2>3, <2>6, <2>8 DEF RInv, Settled, Attended, Followed, SameView, Clearing
  <2>10. Owed(q, up, down, pty) /\ Fresh(page, q)
    BY <2>8 DEF Owed, Told, Fresh
  <2> QED BY <2>1, <2>8, <2>9, <2>10, BecomeRests DEF Settled
<1>4. CASE Unmount
  <2> DEFINE v == SetVisible(page, FALSE)
             q == CloseSocket(v, "idle")
             r == [q EXCEPT !.open = FALSE, !.fit = FALSE, !.focused = FALSE, !.blink = FALSE, !.gone = TRUE]
  <2>1. Become(r)
    BY <1>4 DEF Unmount
  <2>2. Full(v) /\ SameView(page, v) /\ SameClient(page, v) /\ Screen(v) /\ v.shown = FALSE
    BY SetVisibleFacts DEF RInv, Settled, PageOK
  <2> HIDE DEF v
  <2>3. PageOK(v)
    BY <2>2 DEF RInv, Settled, PageOK, SameView, SameClient, SameSocket
  <2>4. /\ PageOK(q) /\ Screen(q) /\ Linked(q) /\ q.shown = v.shown
        /\ q.cur = 0 /\ ~q.retry /\ ~q.grace /\ q.connection = "idle"
    BY <2>2, <2>3, CloseFacts
  <2> HIDE DEF q
  <2>5. PageOK(r) /\ Screen(r) /\ Linked(r) /\ r.shown = q.shown /\ r.open = FALSE /\ r.cur = 0 /\ ~r.retry
    BY <2>4 DEF PageOK, Full, View, Client, Drawn, Screen, Linked
  <2> HIDE DEF r
  <2>6. Attended(r) /\ Followed(r)
    BY <2>2, <2>4, <2>5 DEF Attended, Followed
  <2>7. Owed(r, up, down, pty) /\ Fresh(page, r)
    BY <2>5 DEF Owed, Told, IsOpen, Fresh
  <2> QED BY <2>1, <2>5, <2>6, <2>7, BecomeRests DEF Settled
<1> QED BY <1>1, <1>2, <1>3, <1>4

LEMMA ClosedRests ==
    ASSUME IInv, RInv, SocketLost \/ SocketEnded
    PROVE  RInv'
<1> DEFINE p == [page EXCEPT !.life[page.cur] = "closed", !.cur = 0]
           q == AfterClose(p)
<1>1. page.cur # 0 /\ Become(q)
  BY DEF SocketLost, SocketEnded
<1>2. /\ PageOK(q) /\ SameView(page, q) /\ Screen(q) /\ Linked(q)
      /\ q.cur = 0 /\ q.connection \in {"ended", "reconnecting"} /\ q.grace = page.grace
      /\ q.size = page.size /\ q.shown = page.shown
  BY <1>1, AfterCloseFacts DEF RInv, Settled, IInv
<1> HIDE DEF q
<1>3. Attended(q) /\ Followed(q)
  BY <1>1, <1>2 DEF RInv, Settled, Attended, Followed, SameView
<1>4. Owed(q, up, down, pty) /\ Fresh(page, q)
  BY <1>2 DEF Owed, Told, IsOpen, Fresh
<1> QED BY <1>1, <1>2, <1>3, <1>4, BecomeRests DEF Settled

LEMMA OpenedRests == ASSUME IInv, RInv, SocketOpen PROVE RInv'
<1> DEFINE p == [page EXCEPT !.life[page.cur] = "open", !.attempt = 0]
           e == <<"resize", p.size>>
           q == IF p.size = NoSize THEN p ELSE [p EXCEPT !.out = Append(@, e)]
           s == Set(q, "live")
           f == Follow(s)
           y == [NoClient EXCEPT !.size = page.asked]
<1>1. page' = [f EXCEPT !.out = <<>>] /\ up' = f.out /\ pty' = y /\ down' = down
  BY DEF SocketOpen
<1>2. page.cur \in 1..MaxSockets /\ page.life[page.cur] = "opening" /\ page.cur # 0
  BY TermAssumption DEF SocketOpen, IInv, Sound, Page
<1>3. page.sent = NoPane /\ (page.size = NoSize => page.asked = NoSize)
  BY <1>2 DEF RInv, Settled, Linked
<1>4. /\ PageOK(p) /\ SameView(page, p) /\ Screen(p) /\ p.shown = page.shown /\ p.size = page.size
      /\ p.cur = page.cur /\ p.life = [page.life EXCEPT ![page.cur] = "open"] /\ p.asked = page.asked
      /\ p.retry = page.retry /\ p.sent = NoPane /\ p.grace = page.grace /\ p.out = <<>>
  BY <1>3 DEF RInv, IInv, Settled, PageOK, Full, View, Client, Drawn, Screen, SameView
<1> HIDE DEF p
<1>5. p.life[p.cur] = "open"
  BY <1>2, <1>4 DEF IInv, Sound, Page
<1>6. y.size = page.asked /\ PtyOK(y)
  BY DEF NoClient, PtyOK
<1>7. /\ PageOK(q) /\ SameView(page, q) /\ Screen(q) /\ q.shown = page.shown /\ q.size = page.size
      /\ q.cur = page.cur /\ q.life = p.life /\ q.asked = page.asked
      /\ q.retry = page.retry /\ q.sent = NoPane /\ q.grace = page.grace
      /\ SizeTold(q.size, q.out, y)
  <2>1. CASE p.size = NoSize
    <3>1. \A tags : Tagged(<<>>, tags) = {} /\ LastOf(<<>>, tags) = {}
      BY DEF Tagged, LastOf
    <3>2. SizeTold(p.size, <<>>, y)
      BY <1>3, <1>4, <1>6, <2>1, <3>1 DEF SizeTold
    <3> QED BY <1>4, <2>1, <3>2
  <2>2. CASE p.size # NoSize
    <3>1. p.size \in Sizes /\ e \in Frames /\ <<>> \in Seq(Frames)
      BY <1>4, <2>2 DEF PageOK, Frames
    <3>2. SizeTold(p.size, Append(<<>>, e), y)
      BY <3>1, ResizeTells
    <3> DEFINE r == [p EXCEPT !.out = Append(@, e)]
    <3>3. /\ Full(r) /\ SameView(p, r) /\ Screen(r) /\ r.shown = p.shown /\ r.size = p.size
          /\ r.cur = p.cur /\ r.life = p.life /\ r.asked = p.asked /\ r.retry = p.retry
          /\ r.sent = p.sent /\ r.grace = p.grace /\ r.out = Append(<<>>, e)
      BY <1>4 DEF PageOK, Full, View, Client, Drawn, Screen, SameView
    <3> HIDE DEF r, e
    <3>4. PageOK(r)
      <4>1. r.out \in Seq(Frames)
        BY <3>1, <3>3, Joined
      <4> QED BY <1>4, <3>3, <4>1 DEF PageOK, SameView
    <3>5. q = r
      BY <2>2 DEF r
    <3> HIDE DEF q
    <3> QED BY <1>4, <3>2, <3>3, <3>4, <3>5 DEF SameView
  <2> QED BY <2>1, <2>2
<1> HIDE DEF q, y
<1>8. /\ Full(s) /\ SameView(q, s) /\ SameSocket(q, s) /\ s.grace = q.grace
      /\ s.connection = "live" /\ s.sent = NoPane /\ s.shown = q.shown /\ Screen(s)
  BY <1>7, SetFacts DEF PageOK, Clearing
<1> HIDE DEF s
<1>9. PageOK(s) /\ Linked(s)
  BY <1>2, <1>3, <1>4, <1>5, <1>7, <1>8 DEF PageOK, Linked, SameView, SameSocket, Clearing
<1>10. <<>> \in Seq(Frames) /\ \A o \in Seq(Frames) : <<>> \o o = o
  OBVIOUS
<1>11. Owed(s, <<>>, down, y)
  BY <1>7, <1>8, <1>9, <1>10 DEF Owed, Told, PageOK, SameSocket
<1>12. /\ PageOK(f) /\ SameView(s, f) /\ Linked(f) /\ Followed(f)
       /\ f.cur = s.cur /\ f.life = s.life /\ f.retry = s.retry /\ f.size = s.size
       /\ f.connection = s.connection /\ f.grace = s.grace
       /\ f.shown = s.shown /\ Screen(f) /\ Owed(f, <<>>, down, y)
  BY <1>8, <1>9, <1>10, <1>11, FollowFacts
<1> HIDE DEF f
<1>13. Attended(f)
  BY <1>7, <1>8, <1>12 DEF RInv, Settled, Attended, SameView, SameSocket
<1> DEFINE g == [f EXCEPT !.out = <<>>]
<1>14. /\ Full(g) /\ SameView(f, g) /\ g.cur = f.cur /\ g.life = f.life /\ g.asked = f.asked
       /\ g.retry = f.retry /\ g.size = f.size /\ g.connection = f.connection /\ g.sent = f.sent
       /\ g.grace = f.grace /\ g.shown = f.shown /\ Screen(g) /\ g.out = <<>>
  BY <1>12 DEF PageOK, Full, View, Client, Drawn, SameView, Screen
<1>15. page' = g
  BY <1>1
<1> HIDE DEF g
<1>16. Settled(g)
  <2>1. PageOK(g)
    BY <1>10, <1>12, <1>14 DEF PageOK, SameView
  <2> QED BY <1>12, <1>13, <1>14, <2>1 DEF Settled, Linked, Attended, Followed, SameView
<1>17. up' \in Seq(Frames) /\ Told(g, up', down', pty')
  <2>1. f.out \in Seq(Frames) /\ <<>> \o f.out = f.out
    BY <1>10, <1>12 DEF PageOK
  <2> QED BY <1>1, <1>12, <1>14, <2>1 DEF Owed, Told, IsOpen, SameView
<1> QED BY <1>1, <1>6, <1>15, <1>16, <1>17, Primed

\* The verdict just sent is the last one.
LEMMA VerdictLast ==
    ASSUME NEW d \in Seq(Notices), NEW e \in Notices, e[1] \in Verdicts, NEW r, Longer(d, e, r)
    PROVE  Tagged(r, Verdicts) # {} /\ \A i \in LastOf(r, Verdicts) : r[i] = e
BY AppendLast

\* Reading a frame the server does what it says; the rest stays to be read.
LEMMA ServeRests == ASSUME IInv, RInv, Serve PROVE RInv'
<1> DEFINE h == up[1]
<1>1. page' = page /\ up \in Seq(Frames) /\ Shorter(up, up') /\ Head(up) = h
  BY DEF Serve, RInv, Shorter
<1>2. up' \in Seq(Frames) /\ down \in Seq(Notices) /\ PtyOK(pty')
  <2>1. up' \in Seq(Frames)
    BY <1>1 DEF Shorter
  <2> QED BY <2>1 DEF IInv, RInv, PtyOK, Serve
<1>3. SUFFICES ASSUME IsOpen(page)
               PROVE  /\ SizeTold(page.size, up', pty')
                      /\ page.sent # NoPane => PaneTold(page.sent, page.problem, up', down', pty')
  <2>1. Told(page, up', down', pty') => RInv'
    BY <1>1, <1>2, Primed DEF RInv
  <2> QED BY <2>1 DEF Told
<1>4. /\ SizeTold(page.size, up, pty)
      /\ page.sent # NoPane => PaneTold(page.sent, page.problem, up, down, pty)
  BY <1>3 DEF RInv, Told
<1>5. /\ \A i \in LastOf(up', Resizes) : i + 1 \in LastOf(up, Resizes) /\ up'[i] = up[i + 1]
      /\ Tagged(up', Resizes) = {} => IF up[1][1] \in Resizes THEN 1 \in LastOf(up, Resizes) ELSE Tagged(up, Resizes) = {}
  BY <1>1, TailLast
<1>6. /\ \A i \in LastOf(up', Focuses) : i + 1 \in LastOf(up, Focuses) /\ up'[i] = up[i + 1]
      /\ Tagged(up', Focuses) = {} => IF up[1][1] \in Focuses THEN 1 \in LastOf(up, Focuses) ELSE Tagged(up, Focuses) = {}
  BY <1>1, TailLast
<1>7. /\ \A i \in LastOf(up, Resizes) : up[i][2] = page.size
      /\ Tagged(up, Resizes) = {} => pty.size = page.size
  BY <1>4 DEF SizeTold
<1>8. page.sent # NoPane => \A i \in LastOf(up, Focuses) : up[i][2] = page.sent
  BY <1>4 DEF PaneTold
<1>9. CASE h[1] = "resize" /\ pty' = [pty EXCEPT !.size = h[2]] /\ down' = down
  <2>1. pty'.failed = pty.failed /\ pty'.shows = pty.shows /\ pty'.size = h[2]
    BY <1>9 DEF RInv, PtyOK
  <2>2. h[1] \in Resizes /\ h[1] \notin Focuses
    BY <1>9 DEF Resizes, Focuses
  <2>3. SizeTold(page.size, up', pty')
    BY <1>5, <1>7, <2>1, <2>2 DEF SizeTold
  <2>4. page.sent # NoPane => PaneTold(page.sent, page.problem, up', down', pty')
    BY <1>4, <1>6, <1>8, <1>9, <2>1, <2>2 DEF PaneTold
  <2> QED BY <2>3, <2>4
<1>10. CASE h[1] = "focus"
  <2>1. h[1] \in Focuses /\ h[1] \notin Resizes
    BY <1>10 DEF Resizes, Focuses
  <2>2. CASE pty' = [pty EXCEPT !.shows = h[2], !.failed = NoPane] /\ down' = Append(down, <<"focused">>)
    <3>1. pty'.failed = NoPane /\ pty'.shows = h[2] /\ pty'.size = pty.size
      BY <2>2 DEF RInv, PtyOK
    <3>2. SizeTold(page.size, up', pty')
      BY <1>5, <1>7, <2>1, <3>1 DEF SizeTold
    <3>3. ASSUME page.sent # NoPane
          PROVE  PaneTold(page.sent, page.problem, up', down', pty')
      <4>1. PICK e \in Notices : e[1] \in Verdicts /\ e[1] = "focused" /\ Longer(down, e, down')
        BY <2>2 DEF Notices, Verdicts, Longer
      <4>2. Tagged(down', Verdicts) # {} /\ \A i \in LastOf(down', Verdicts) : down'[i] = e
        BY <1>2, <4>1, VerdictLast
      <4> QED BY <1>6, <1>8, <2>1, <3>1, <3>3, <4>1, <4>2 DEF PaneTold
    <3> QED BY <3>2, <3>3
  <2>3. CASE pty' = [pty EXCEPT !.failed = h[2]] /\ down' = Append(down, <<"focus_failed">>)
    <3>1. pty'.failed = h[2] /\ pty'.size = pty.size
      BY <2>3 DEF RInv, PtyOK
    <3>2. SizeTold(page.size, up', pty')
      BY <1>5, <1>7, <2>1, <3>1 DEF SizeTold
    <3>3. ASSUME page.sent # NoPane
          PROVE  PaneTold(page.sent, page.problem, up', down', pty')
      <4>1. PICK e \in Notices : e[1] \in Verdicts /\ e[1] = "focus_failed" /\ Longer(down, e, down')
        BY <2>3 DEF Notices, Verdicts, Longer
      <4>2. Tagged(down', Verdicts) # {} /\ \A i \in LastOf(down', Verdicts) : down'[i] = e
        BY <1>2, <4>1, VerdictLast
      <4> QED BY <1>6, <1>8, <2>1, <3>1, <3>3, <4>1, <4>2 DEF PaneTold
    <3> QED BY <3>2, <3>3
  <2> QED BY <1>1, <1>10, <2>2, <2>3 DEF Serve
<1> QED BY <1>1, <1>9, <1>10 DEF Serve

\* Hearing a notice the page knows what the server knew then.
LEMMA ReceiveRests == ASSUME IInv, RInv, Receive PROVE RInv'
<1> DEFINE e == down[1][1]
<1>1. up' = up /\ pty' = pty /\ down \in Seq(Notices) /\ Shorter(down, down')
  BY DEF Receive, IInv, Shorter
<1>2. e \in {"output", "exit", "focused", "focus_failed"}
  <2>1. down[1] \in Notices
    BY <1>1 DEF Shorter
  <2> QED BY <2>1 DEF Notices
<1>3. /\ e = "output" => page' = Changed(page)
      /\ e = "exit" => page' = [page EXCEPT !.exited = TRUE]
      /\ e = "focused" => page' = [page EXCEPT !.problem = FALSE]
      /\ e = "focus_failed" => page' = [page EXCEPT !.problem = TRUE]
  <2>1. e = Head(down)[1]
    BY <1>1 DEF Shorter
  <2> QED BY <2>1 DEF Receive
<1>4. /\ \A i \in LastOf(down', Verdicts) : i + 1 \in LastOf(down, Verdicts) /\ down'[i] = down[i + 1]
      /\ Tagged(down', Verdicts) = {} =>
           IF down[1][1] \in Verdicts THEN 1 \in LastOf(down, Verdicts) ELSE Tagged(down, Verdicts) = {}
  BY <1>1, TailLast
<1> HIDE DEF e
<1>5. /\ Settled(page') /\ page'.cur = page.cur /\ page'.life = page.life /\ page'.size = page.size
      /\ page'.sent = page.sent
      /\ page'.problem = IF e = "focused" THEN FALSE ELSE IF e = "focus_failed" THEN TRUE ELSE page.problem
  <2>1. CASE e = "output"
    <3>1. Painted(page, page')
      BY <1>3, <2>1, ChangedPaints DEF RInv, Settled, PageOK
    <3> QED BY <2>1, <3>1 DEF Painted, RInv, Settled, PageOK, Linked, Attended, Followed, SameView, SameClient, SameSocket
  <2>2. CASE e = "exit"
    BY <1>3, <2>2 DEF RInv, Settled, PageOK, Full, View, Client, Drawn, Screen, Linked, Attended, Followed
  <2>3. CASE e = "focused"
    <3> DEFINE p == [page EXCEPT !.problem = FALSE]
    <3>1. /\ Settled(p) /\ p.cur = page.cur /\ p.life = page.life /\ p.size = page.size
          /\ p.sent = page.sent /\ p.problem = FALSE
      BY DEF RInv, Settled, PageOK, Full, View, Client, Drawn, Screen, Linked, Attended, Followed
    <3>2. page' = p
      BY <1>3, <2>3
    <3> HIDE DEF p
    <3> QED BY <2>3, <3>1, <3>2
  <2>4. CASE e = "focus_failed"
    <3> DEFINE p == [page EXCEPT !.problem = TRUE]
    <3>1. /\ Settled(p) /\ p.cur = page.cur /\ p.life = page.life /\ p.size = page.size
          /\ p.sent = page.sent /\ p.problem = TRUE
      BY DEF RInv, Settled, PageOK, Full, View, Client, Drawn, Screen, Linked, Attended, Followed
    <3>2. page' = p
      BY <1>3, <2>4
    <3> HIDE DEF p
    <3> QED BY <2>4, <3>1, <3>2
  <2> QED BY <1>2, <2>1, <2>2, <2>3, <2>4
<1>6. Told(page', up', down', pty')
  <2>1. SUFFICES ASSUME IsOpen(page)
                 PROVE  /\ SizeTold(page.size, up, pty)
                        /\ page.sent # NoPane => PaneTold(page.sent, page'.problem, up, down', pty)
    BY <1>1, <1>5 DEF Told, IsOpen
  <2>2. /\ SizeTold(page.size, up, pty)
        /\ page.sent # NoPane => PaneTold(page.sent, page.problem, up, down, pty)
    BY <2>1 DEF RInv, Told
  <2>3. ASSUME page.sent # NoPane, Tagged(up, Focuses) = {}, Tagged(down', Verdicts) = {}
        PROVE  page'.problem = (pty.failed = page.sent)
    <3>1. CASE e \in Verdicts
      <4>1. e = IF pty.failed = page.sent THEN "focus_failed" ELSE "focused"
        BY <1>4, <2>2, <2>3, <3>1 DEF PaneTold, e
      <4>2. CASE pty.failed = page.sent
        BY <1>5, <4>1, <4>2
      <4>3. CASE pty.failed # page.sent
        BY <1>5, <4>1, <4>3
      <4> QED BY <4>2, <4>3
    <3>2. CASE e \notin Verdicts
      <4>1. page'.problem = page.problem
        BY <1>5, <3>2 DEF Verdicts
      <4>2. Tagged(down, Verdicts) = {}
        BY <1>4, <2>3, <3>2 DEF e
      <4> QED BY <2>2, <2>3, <4>1, <4>2 DEF PaneTold
    <3> QED BY <3>1, <3>2
  <2> QED BY <1>4, <2>2, <2>3 DEF PaneTold
<1> QED BY <1>1, <1>5, <1>6, Primed DEF RInv

LEMMA ClientRests == ASSUME IInv, RInv, Output \/ Exit PROVE RInv'
<1>1. PICK e \in Notices : e[1] \notin Verdicts /\ Longer(down, e, down')
  <2>1. \E e \in {<<"output">>, <<"exit">>} : down' = Append(down, e)
    BY DEF Output, Exit
  <2> QED BY <2>1 DEF Notices, Verdicts, Longer
<1>2. page' = page /\ up' = up /\ pty' = pty /\ down \in Seq(Notices)
  BY DEF Output, Exit, IInv
<1>3. /\ Tagged(down', Verdicts) = {} => Tagged(down, Verdicts) = {}
      /\ \A i \in LastOf(down', Verdicts) : i \in LastOf(down, Verdicts) /\ down'[i] = down[i]
  BY <1>1, <1>2, AppendLast
<1>4. Told(page, up, down', pty)
  BY <1>3 DEF RInv, Told, PaneTold
<1> QED BY <1>2, <1>4, Primed DEF RInv

LEMMA InitRests == ASSUME Init PROVE RInv
<1>1. PICK grid \in Sizes, target \in Panes \cup {NoPane} :
         page = [open |-> TRUE, ready |-> FALSE, gone |-> FALSE, follow |-> TRUE, target |-> target,
                 sent |-> NoPane, last |-> NoPane, problem |-> FALSE, grid |-> grid, fit |-> FALSE,
                 connection |-> "idle", cur |-> 0, life |-> [i \in 1..MaxSockets |-> "unused"],
                 asked |-> NoSize, attempt |-> 0, retry |-> FALSE, grace |-> FALSE, size |-> NoSize,
                 exited |-> FALSE, shown |-> TRUE, frame |-> FALSE, focused |-> FALSE,
                 blink |-> FALSE, dirty |-> FALSE, out |-> <<>>]
  BY DEF Init
<1>2. up = <<>> /\ <<>> \in Seq(Frames) /\ PtyOK(pty)
  BY DEF Init, PtyOK, NoClient
<1>3. PageOK(page)
  <2>1. page.out = <<>> /\ page.out \in Seq(Frames)
    BY <1>1, <1>2
  <2> QED BY <1>1, <2>1 DEF PageOK, Full, View, Client, Drawn
<1>4. Screen(page) /\ Linked(page) /\ Attended(page) /\ Followed(page) /\ ~IsOpen(page)
  BY <1>1 DEF Screen, Linked, Attended, Followed, IsOpen, Clearing
<1> QED BY <1>2, <1>3, <1>4 DEF RInv, Settled, Told

----------------------------------------------------------------------------
\* The theorems.

\* Whatever the owner, the timers, the network and the server do, and in
\* whatever order: the page's sockets are used one after the other, the current
\* one is the only live one, no retry waits beside it, and nothing is on the
\* way of a socket that was let go.  (createHerdrSocket of herdrSocket.ts)
THEOREM SocketsInvariant == Spec => [](IInv /\ Early)
<1>1. Init => IInv /\ Early
  BY InitSound
<1>2. IInv /\ Early /\ [Next]_vars => (IInv /\ Early)'
  BY NextStep
<1> QED BY <1>1, <1>2, PTL DEF Spec

\* One herdr client a browser: a second socket is never live, and none is
\* forgotten while a reconnect is scheduled, for any number of sockets, moves,
\* panes and sizes.  (open, close and attach of herdrSocket.ts)
THEOREM OneClientHolds == Spec => []OneClient
<1>1. IInv => OneClient
  BY DEF IInv, Sound, OneLive, Live, OneClient
<1> QED BY <1>1, SocketsInvariant, PTL

\* A client that exited stays away until the owner asks for one, by coming back
\* to the view or by the Reconnect button: neither a timer, nor a lost socket,
\* nor the terminal's loading opens another.  (onclose and attach of
\* herdrSocket.ts)
THEOREM EndedWaitsHolds == Spec => EndedWaits
<1>1. IInv /\ Early /\ [Next]_vars => [page.exited /\ ~page'.exited => AskedAgain]_vars
  BY NextStep DEF Waits
<1> QED BY <1>1, SocketsInvariant, PTL DEF Spec, EndedWaits

\* Whatever the owner, the timers, the network and the server did before: when
\* nothing is left to do, a shown page has a live client with the host's grid,
\* that was asked for the agent the page is on and whose answer the page knows,
\* or one that exited; every change is on the screen; and a view that is away
\* has no client and renders nothing.  (HerdrView.tsx effects, renderOnDemand
\* of ghosttySurface.ts, attach and detach of herdrSocket.ts)
THEOREM PageIsAtRest == Spec => []AtRest
<1>1. Init => RInv
  BY InitRests
<1>2. IInv /\ Early /\ RInv /\ [Next]_vars => RInv'
  <2> SUFFICES ASSUME IInv, Early, RInv, [Next]_vars PROVE RInv'
    OBVIOUS
  <2>1. CASE Next
    BY <2>1, LoadedRests, FlipRests, TargetRests, SizeRests, TimerRests, ClosedRests, OpenedRests,
       ServeRests, ReceiveRests, ClientRests DEF Next, Progress
  <2>2. CASE UNCHANGED vars
    BY <2>2, Primed DEF vars, RInv
  <2> QED BY <2>1, <2>2
<1>3. RInv => AtRest
  <2> SUFFICES ASSUME RInv, Still PROVE
         /\ page.open => /\ ~page.dirty
                         /\ page.connection \in {"live", "ended"}
                         /\ page.connection = "live" =>
                              /\ pty.size = page.grid
                              /\ (page.follow /\ page.target # NoPane) =>
                                   /\ page.target \in {pty.shows, pty.failed}
                                   /\ page.problem = (pty.failed = page.target)
         /\ ~page.open => page.cur = 0 /\ ~page.frame /\ ~page.blink
    BY DEF AtRest
  <2>1. /\ page.ready /\ ~page.fit /\ ~page.frame /\ ~page.grace /\ ~page.retry
        /\ page.cur # 0 => page.life[page.cur] = "open"
        /\ up = <<>> /\ down = <<>>
    BY DEF Still
  <2>2. \A tags : Tagged(up, tags) = {} /\ Tagged(down, tags) = {}
    BY <2>1 DEF Tagged
  <2>3. Screen(page) /\ Linked(page) /\ Attended(page) /\ Followed(page)
    BY DEF RInv, Settled
  <2>4. CASE page.open
    <3>1. ~page.dirty /\ page.connection \in {"live", "ended"}
      BY <2>1, <2>3, <2>4 DEF Screen, Linked, Attended
    <3>2. ASSUME page.connection = "live"
          PROVE  IsOpen(page)
      BY <2>1, <2>3, <3>2 DEF Linked, IsOpen
    <3>3. ASSUME page.connection = "live"
          PROVE  pty.size = page.grid
      BY <2>1, <2>2, <2>3, <2>4, <3>2, <3>3 DEF RInv, Told, SizeTold, Attended
    <3>4. ASSUME page.connection = "live", page.follow, page.target # NoPane
          PROVE  page.target \in {pty.shows, pty.failed} /\ page.problem = (pty.failed = page.target)
      <4>1. page.sent = page.target
        BY <2>3, <2>4, <3>4 DEF Followed
      <4>2. PaneTold(page.sent, page.problem, up, down, pty)
        BY <3>2, <3>4, <4>1 DEF RInv, Told
      <4> QED BY <2>2, <4>1, <4>2 DEF PaneTold
    <3> QED BY <2>4, <3>1, <3>3, <3>4
  <2>5. CASE ~page.open
    BY <2>1, <2>3, <2>5 DEF Screen, Attended
  <2> QED BY <2>4, <2>5
<1> QED BY <1>1, <1>2, <1>3, SocketsInvariant, PTL DEF Spec
=============================================================================
