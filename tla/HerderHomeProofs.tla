-------------------------- MODULE HerderHomeProofs --------------------------
(***************************************************************************)
(* The address is the one of what is shown, a move can be undone and back   *)
(* and forward rewrite nothing: proofs about HerderHome.                    *)
(*                                                                         *)
(* The address of a view other than a zoom is the same whatever the dock    *)
(* has active, so what happens under it cannot make the address wrong; only *)
(* a replay leaves it behind, and only in a zoom (Told_Covered, Inv).       *)
(***************************************************************************)
EXTENDS HerderHome, NaturalsInduction, WellFoundedInduction, TLAPS

----------------------------------------------------------------------------
\* The invariant.

Panels == Agents \cup {None}

\* A history: entries a page writes, and the one it is at.
History(n) ==
    /\ n \in [stack : Seq(Links), here : Nat]
    /\ n.here \in 1..Len(n.stack)

\* A dock has a panel active unless it is empty.
Docked(d) == d \in Dock /\ IF d.tabs = {} THEN d.at = None ELSE d.at \in d.tabs

Typed ==
    /\ view \in Views /\ active \in Spaces
    /\ live \in SUBSET Spaces /\ live # {}
    /\ docks \in [Spaces -> Dock] /\ \A s \in Spaces : Docked(docks[s])
    /\ History(nav)
    /\ quiet \in BOOLEAN /\ behind \in BOOLEAN
    /\ lookup \in Spaces \cup {None} /\ spent \in 0..Budget

Inv == Typed /\ AddressTrue /\ (behind => view = Zoom)

\* What a move of the owner does to the history, and what happens by itself.
Undoable ==
    (Place' # Place /\ ~quiet /\ ~behind) =>
        nav'.here = nav.here + 1 /\ nav'.stack[nav.here] = Shown

Unmoved == nav'.here = nav.here /\ Len(nav'.stack) = Len(nav.stack)

----------------------------------------------------------------------------
\* Entries and histories.

\* What a page writes is an entry, and over a view that covers the page the
\* same one whatever the dock has active.
LEMMA Told_Links ==
  ASSUME NEW v \in Views, NEW s \in Spaces, NEW p \in Panels
  PROVE  /\ Told(v, s, p) \in Links
         /\ Told(v, s, p).view = v
         /\ v = Zoom => Told(v, s, p).subject = p /\ Told(v, s, p).space = s
         /\ v # Zoom => Told(v, s, p) = Told(v, None, None)
<1>1. CASE v = Zoom
  <2>1. Told(Zoom, s, p) \in Links
    BY DEF Links, Panels
  <2> QED BY <1>1, <2>1 DEF Told
<1>2. CASE v # Zoom
  <2>1. Told(v, s, p) = Told(v, None, None) /\ Told(v, s, p).view = v
    BY <1>2 DEF Told
  <2>2. Told(v, None, None) \in Links
    BY <1>2 DEF Links
  <2> QED BY <1>2, <2>1, <2>2
<1> QED BY <1>1, <1>2

\* An entry of the history is a zoom's, and names a space, or a covering
\* view's, and names nothing.
LEMMA LinkParts ==
  ASSUME NEW e \in Links
  PROVE  /\ e.view \in Views /\ e.space \in Spaces \cup {None} /\ e.subject \in Panels
         /\ e = [view |-> e.view, space |-> e.space, subject |-> e.subject]
         /\ e.view = Zoom => e.space \in Spaces /\ e = Told(Zoom, e.space, e.subject)
         /\ e.view # Zoom => e.space = None /\ e.subject = None /\ e = Told(e.view, None, None)
<1>1. CASE \E s \in Spaces, p \in Panels : e = Told(Zoom, s, p)
  <2>1. PICK s \in Spaces, p \in Panels : e = Told(Zoom, s, p)
    BY <1>1
  <2>2. e = [view |-> Zoom, space |-> s, subject |-> p]
    BY <2>1 DEF Told
  <2>3. Zoom \in Views
    BY DEF Views
  <2>4. e.view = Zoom /\ e.space = s /\ e.subject = p
    BY <2>2
  <2>5. e = [view |-> e.view, space |-> e.space, subject |-> e.subject]
    BY <2>2, <2>4
  <2>6. e = Told(Zoom, e.space, e.subject)
    BY <2>1, <2>4
  <2> QED BY <2>3, <2>4, <2>5, <2>6
<1>2. CASE \E v \in Views \ {Zoom} : e = Told(v, None, None)
  <2>1. PICK v \in Views \ {Zoom} : e = Told(v, None, None)
    BY <1>2
  <2>2. e = [view |-> v, space |-> None, subject |-> None]
    BY <2>1 DEF Told
  <2>3. e.view = v /\ e.space = None /\ e.subject = None
    BY <2>2
  <2>4. e = [view |-> e.view, space |-> e.space, subject |-> e.subject]
    BY <2>2, <2>3
  <2>5. e = Told(e.view, None, None)
    BY <2>1, <2>3
  <2> QED BY <2>1, <2>3, <2>4, <2>5 DEF Panels
<1> QED BY <1>1, <1>2 DEF Links, Panels

\* An entry pushed is the current one, one step on; those behind it stay.
LEMMA Pushes ==
  ASSUME NEW n, History(n), NEW e \in Links, NEW m, m = Push(n, e)
  PROVE  /\ History(m) /\ m.here = n.here + 1 /\ m.stack[m.here] = e
         /\ \A i \in 1..n.here : m.stack[i] = n.stack[i]
<1> DEFINE q == SubSeq(n.stack, 1, n.here)
<1>1. n.stack \in Seq(Links) /\ n.here \in 1..Len(n.stack) /\ n.here \in Nat /\ Len(n.stack) \in Nat
  BY DEF History
<1>2. q \in Seq(Links) /\ Len(q) = n.here /\ \A i \in 1..n.here : q[i] = n.stack[i]
  BY <1>1
<1> HIDE DEF q
<1>3. /\ Append(q, e) \in Seq(Links) /\ Len(Append(q, e)) = n.here + 1
      /\ Append(q, e)[n.here + 1] = e
      /\ \A i \in 1..n.here : Append(q, e)[i] = q[i]
  BY <1>1, <1>2
<1>4. m = [stack |-> Append(q, e), here |-> n.here + 1]
  BY DEF Push, q
<1>5. m.stack = Append(q, e) /\ m.here = n.here + 1
  BY <1>4
<1>6. m \in [stack : Seq(Links), here : Nat]
  BY <1>1, <1>3, <1>4
<1>7. m.here \in 1..Len(m.stack)
  BY <1>1, <1>3, <1>5
<1> QED BY <1>1, <1>2, <1>3, <1>5, <1>6, <1>7 DEF History

\* An entry replaced leaves all others.
LEMMA Replaces ==
  ASSUME NEW n, History(n), NEW e \in Links, NEW m, m = Replace(n, e)
  PROVE  /\ History(m) /\ m.here = n.here /\ Len(m.stack) = Len(n.stack)
         /\ m.stack[m.here] = e
         /\ \A i \in (1..Len(n.stack)) \ {n.here} : m.stack[i] = n.stack[i]
         /\ n.stack[n.here] = e => m.stack = n.stack
<1>1. n.stack \in Seq(Links) /\ n.here \in 1..Len(n.stack) /\ n \in [stack : Seq(Links), here : Nat]
  BY DEF History
<1> DEFINE q == [n.stack EXCEPT ![n.here] = e]
<1>2. q \in Seq(Links) /\ Len(q) = Len(n.stack) /\ q[n.here] = e
      /\ \A i \in (1..Len(n.stack)) \ {n.here} : q[i] = n.stack[i]
  BY <1>1
<1>3. n.stack[n.here] = e => q = n.stack
  BY <1>1
<1>4. m = [n EXCEPT !.stack = q]
  BY DEF Replace
<1> HIDE DEF q
<1>5. m.stack = q /\ m.here = n.here /\ m \in [stack : Seq(Links), here : Nat]
  BY <1>1, <1>2, <1>4
<1> QED BY <1>1, <1>2, <1>3, <1>5 DEF History

\* A change of the active panel, or of the space, ends up as the current
\* entry, in place of the last one or, when it is pushed, after it.
LEMMA Updates ==
  ASSUME NEW n, History(n), NEW v \in Views, NEW s \in Spaces, NEW p \in Panels, NEW cause,
         NEW suppressed \in BOOLEAN, NEW m, m = Update(n, v, s, p, cause, suppressed)
  PROVE  /\ History(m) /\ m.stack[m.here] = Told(v, s, p)
         /\ suppressed \/ v # Zoom => m.here = n.here /\ Len(m.stack) = Len(n.stack)
         /\ v = Zoom /\ ~suppressed /\ cause = "space-switch" =>
              m.here = n.here + 1 /\ m.stack[n.here] = n.stack[n.here]
<1>1. Told(v, s, p) \in Links
  BY Told_Links
<1>2. n.here \in 1..Len(n.stack) /\ n.here \in Nat
  BY DEF History
<1>3. CASE m = Push(n, Told(v, s, p)) /\ v = Zoom /\ ~suppressed
  BY <1>1, <1>2, <1>3, Pushes
<1>4. CASE m = Replace(n, Told(v, s, p)) /\ ~(v = Zoom /\ ~suppressed /\ cause = "space-switch")
  BY <1>1, <1>2, <1>4, Replaces
<1> QED BY <1>3, <1>4 DEF Update

\* A switch, stamped.
LEMMA Switches ==
  ASSUME Typed, NEW n, History(n), NEW v \in Views, NEW s \in Spaces,
         NEW suppressed \in BOOLEAN, NEW m, m = Switched(n, v, s, suppressed)
  PROVE  /\ History(m) /\ m.stack[m.here] = Told(v, s, docks[s].at)
         /\ suppressed \/ v # Zoom => m.here = n.here /\ Len(m.stack) = Len(n.stack)
         /\ v = Zoom /\ ~suppressed => m.here = n.here + 1 /\ m.stack[n.here] = n.stack[n.here]
<1> DEFINE u == Update(n, v, s, None, "space-switch", suppressed)
<1>1. /\ History(u)
      /\ suppressed \/ v # Zoom => u.here = n.here /\ Len(u.stack) = Len(n.stack)
      /\ v = Zoom /\ ~suppressed => u.here = n.here + 1 /\ u.stack[n.here] = n.stack[n.here]
  BY Updates DEF Panels
<1>2. docks[s].at \in Panels
  BY DEF Typed, Dock, Panels
<1>3. Told(v, s, docks[s].at) \in Links
  BY <1>2, Told_Links
<1>4. m = Replace(u, Told(v, s, docks[s].at))
  BY DEF Switched
<1> HIDE DEF u
<1>5. /\ History(m) /\ m.here = u.here /\ Len(m.stack) = Len(u.stack)
      /\ m.stack[m.here] = Told(v, s, docks[s].at)
      /\ \A i \in (1..Len(u.stack)) \ {u.here} : m.stack[i] = u.stack[i]
  BY <1>1, <1>3, <1>4, Replaces
<1>6. v = Zoom /\ ~suppressed => n.here \in (1..Len(u.stack)) \ {u.here}
  BY <1>1 DEF History
<1> QED BY <1>1, <1>5, <1>6

\* Suppressed, it takes the current entry's place.
LEMMA SwitchesQuietly ==
  ASSUME Typed, NEW n, History(n), NEW v \in Views, NEW s \in Spaces,
         NEW m, m = Replace(Replace(n, Told(v, s, None)), Told(v, s, docks[s].at))
  PROVE  /\ History(m) /\ m.stack[m.here] = Told(v, s, docks[s].at)
         /\ m.here = n.here /\ Len(m.stack) = Len(n.stack)
<1> DEFINE u == Replace(n, Told(v, s, None))
<1>1. None \in Panels /\ docks[s].at \in Panels
  BY DEF Typed, Dock, Panels
<1>2. History(u) /\ u.here = n.here /\ Len(u.stack) = Len(n.stack)
  BY <1>1, Told_Links, Replaces
<1> HIDE DEF u
<1>3. m = Replace(u, Told(v, s, docks[s].at)) /\ Told(v, s, docks[s].at) \in Links
  BY <1>1, Told_Links DEF u
<1> QED BY <1>2, <1>3, Replaces

\* A zoom from another view: an entry of its own, stamped.
LEMMA Zooms ==
  ASSUME NEW n, History(n), NEW s \in Spaces, NEW p \in Panels, NEW m, m = Zoomed(n, s, p)
  PROVE  /\ History(m) /\ m.stack[m.here] = Told(Zoom, s, p)
         /\ m.here = n.here + 1 /\ m.stack[n.here] = n.stack[n.here]
<1> DEFINE u == Push(n, Told(Zoom, s, None))
<1>1. Zoom \in Views /\ None \in Panels
  BY DEF Views, Panels
<1>2. Told(Zoom, s, None) \in Links /\ Told(Zoom, s, p) \in Links
  BY <1>1, Told_Links
<1>3. n.here \in 1..n.here /\ n.here \in Nat
  BY DEF History
<1>4. History(u) /\ u.here = n.here + 1 /\ u.stack[n.here] = n.stack[n.here]
  BY <1>2, <1>3, Pushes
<1>5. m = Replace(u, Told(Zoom, s, p))
  BY DEF Zoomed
<1> HIDE DEF u
<1>6. /\ History(m) /\ m.here = u.here /\ m.stack[m.here] = Told(Zoom, s, p)
      /\ \A i \in (1..Len(u.stack)) \ {u.here} : m.stack[i] = u.stack[i]
  BY <1>2, <1>4, <1>5, Replaces
<1>7. n.here \in (1..Len(u.stack)) \ {u.here}
  BY <1>3, <1>4 DEF History
<1> QED BY <1>4, <1>6, <1>7

----------------------------------------------------------------------------
\* Docks, and the space a page falls back to.

\* Opening a panel, whichever preview gives way, and closing one.
LEMMA Openings ==
  ASSUME NEW d, Docked(d), NEW p \in Agents, NEW r \in Replaceable(d, p)
  PROVE  /\ Docked(Opened(d, p, r)) /\ Opened(d, p, r).at = p
         /\ Docked([d EXCEPT !.at = p]) \/ p \notin d.tabs
BY DEF Docked, Dock, Opened, Replaceable

LEMMA Closings ==
  ASSUME NEW d, Docked(d), NEW p \in d.tabs, NEW c \in Without(d, p)
  PROVE  Docked(c) /\ (d.at # p => c.at = d.at)
<1> DEFINE rest == d.tabs \ {p}
<1>1. PICK q \in IF d.at # p THEN {d.at} ELSE IF rest = {} THEN {None} ELSE rest :
        c = [tabs |-> rest, at |-> q]
  BY DEF Without
<1>2. d.tabs \in SUBSET Agents /\ d.at \in d.tabs
  BY DEF Docked, Dock
<1>3. rest \in SUBSET Agents /\ q \in Agents \cup {None} /\ IF rest = {} THEN q = None ELSE q \in rest
  BY <1>1, <1>2
<1> QED BY <1>1, <1>3 DEF Docked, Dock

\* Some listed space comes first.
LEMMA FirstListed ==
  ASSUME NEW T, T \subseteq Spaces, T # {}
  PROVE  \E s \in T : \A i \in 1..Len(Order) : Order[i] \in T => \E j \in 1..i : Order[j] = s
<1> DEFINE P == {i \in 1..Len(Order) : Order[i] \in T}
<1>1. Len(Order) \in Nat
  BY HomeAssumption
<1>2. P \subseteq Nat /\ P # {}
  BY <1>1 DEF Spaces
<1>3. PICK m \in P : \A y \in P : ~ (<<y, m>> \in OpToRel(<, Nat))
  BY <1>2, WFMin, NatLessThanWellFounded
<1>4. \A y \in P : m <= y
  <2>1. \A y \in P : ~ (y < m)
    BY <1>2, <1>3 DEF OpToRel
  <2> QED BY <1>2, <2>1
<1>5. ASSUME NEW i \in 1..Len(Order), Order[i] \in T PROVE \E j \in 1..i : Order[j] = Order[m]
  BY <1>1, <1>4, <1>5
<1> QED BY <1>5

LEMMA FirstIsListed == ASSUME Typed PROVE First \in live /\ First \in Spaces
<1>1. \E s \in live : \A i \in 1..Len(Order) : Order[i] \in live => \E j \in 1..i : Order[j] = s
  BY FirstListed DEF Typed
<1>2. First \in live
  BY <1>1 DEF First
<1> QED BY <1>2 DEF Typed

\* Positions in the list have a least and a greatest space.
LEMMA HasFirst ==
  ASSUME NEW T, T # {}, NEW f, \A x \in T : f[x] \in Nat
  PROVE  \E x \in T : \A y \in T : f[x] <= f[y]
<1> DEFINE P == {f[x] : x \in T}
<1>1. P \subseteq Nat /\ P # {}
  OBVIOUS
<1>2. PICK m \in P : \A y \in P : ~ (<<y, m>> \in OpToRel(<, Nat))
  BY <1>1, WFMin, NatLessThanWellFounded
<1>3. \A y \in P : m <= y
  <2>1. \A y \in P : ~ (y < m)
    BY <1>1, <1>2 DEF OpToRel
  <2> HIDE DEF P
  <2> QED BY <1>1, <2>1
<1>4. PICK x \in T : m = f[x]
  OBVIOUS
<1> QED BY <1>3, <1>4

\* The space a page goes to when it closes its own is another listed one.
LEMMA NeighbourIsListed ==
  ASSUME Typed, NEW s \in live, live # {s}
  PROVE  Neighbour(s) \in live \ {s} /\ Neighbour(s) \in Spaces
<1> DEFINE at(x) == CHOOSE i \in 1..Len(Order) : Order[i] = x
           later == {x \in live : at(x) > at(s)}
           rest == live \ {s}
           up == [x \in Spaces |-> at(x)]
           down == [x \in Spaces |-> Len(Order) - at(x)]
<1>1. live \subseteq Spaces /\ rest # {} /\ Len(Order) \in Nat
  BY HomeAssumption DEF Typed
<1>2. ASSUME NEW x \in Spaces PROVE at(x) \in 1..Len(Order)
  BY DEF Spaces
<1>3. \A x \in Spaces : up[x] = at(x) /\ down[x] = Len(Order) - at(x)
  OBVIOUS
<1>4. \A x \in Spaces : up[x] \in Nat /\ down[x] \in Nat
  <2>1. ASSUME NEW x \in Spaces PROVE at(x) \in Nat /\ Len(Order) - at(x) \in Nat
    BY <1>1, <1>2 
  <2> QED BY <2>1
<1>5. Neighbour(s) = IF later # {} THEN CHOOSE x \in later : \A y \in later : at(x) <= at(y)
                     ELSE CHOOSE x \in rest : \A y \in rest : at(x) >= at(y)
  BY DEF Neighbour
<1>6. CASE later # {}
  <2>1. PICK x \in later : \A y \in later : up[x] <= up[y]
    <3>1. \A x \in later : up[x] \in Nat
      BY <1>1, <1>4
    <3> HIDE DEF up, later
    <3> QED BY <1>6, <3>1, HasFirst
  <2>2. \E z \in later : \A y \in later : at(z) <= at(y)
    <3>1. \A y \in later : y \in Spaces
      BY <1>1
    <3>2. \A y \in later : at(x) <= at(y)
      BY <2>1, <3>1, <1>3
    <3> QED BY <2>1, <3>2
  <2>3. Neighbour(s) \in later
    BY <1>5, <1>6, <2>2
  <2>4. s \notin later
    <3>1. at(s) \in Nat
      <4>1. up[s] = at(s) /\ up[s] \in Nat
        BY <1>1, <1>3, <1>4
      <4> HIDE DEF up, at
      <4> QED BY <4>1
    <3>2. ~(at(s) > at(s))
      <4> HIDE DEF at
      <4> QED BY <3>1
    <3> QED BY <3>2
  <2> QED BY <2>3, <2>4, <1>1
<1>7. CASE later = {}
  <2>1. PICK x \in rest : \A y \in rest : down[x] <= down[y]
    <3>1. \A x \in rest : down[x] \in Nat
      BY <1>1, <1>4
    <3> HIDE DEF down, rest
    <3> QED BY <1>1, <3>1, HasFirst
  <2>2. ASSUME NEW y \in rest PROVE at(x) >= at(y)
    <3>1. at(x) \in Nat /\ at(y) \in Nat
      BY <1>1, <1>2
    <3>2. Len(Order) - at(x) <= Len(Order) - at(y)
      BY <2>1, <1>1, <1>3
    <3> HIDE DEF at
    <3> QED BY <1>1, <3>1, <3>2
  <2>3. \E z \in rest : \A y \in rest : at(z) >= at(y)
    BY <2>2
  <2>4. Neighbour(s) \in rest
    BY <1>5, <1>7, <2>3
  <2> QED BY <2>4, <1>1
<1> QED BY <1>6, <1>7

----------------------------------------------------------------------------
\* The owner's actions.  Each keeps the invariant and can be undone.

\* One dock changes.
LEMMA SetDocks ==
  ASSUME Typed, NEW s \in Spaces, NEW d, Docked(d), docks' = [docks EXCEPT ![s] = d]
  PROVE  /\ docks' \in [Spaces -> Dock] /\ \A t \in Spaces : Docked(docks'[t])
         /\ docks'[s] = d /\ d.at \in Panels
<1>1. d \in Dock /\ d.at \in Panels
  BY DEF Docked, Dock, Panels
<1> QED BY <1>1 DEF Typed

\* The address is right where the current entry is what is shown.
LEMMA Shows ==
  ASSUME view' \in Views, active' \in Spaces, live' \in SUBSET Spaces, live' # {},
         docks' \in [Spaces -> Dock], \A s \in Spaces : Docked(docks'[s]), History(nav'),
         quiet' \in BOOLEAN, behind' = FALSE, lookup' \in Spaces \cup {None}, spent' \in 0..Budget,
         nav'.stack[nav'.here] = Told(view', active', docks'[active'].at)
  PROVE  Inv'
<1>1. Typed'
  BY DEF Typed, History
<1>2. AddressTrue'
  BY DEF AddressTrue, Shown
<1> QED BY <1>1, <1>2 DEF Inv

LEMMA ActivateKeeps ==
  ASSUME Inv, NEW p \in Agents, Activate(p)
  PROVE  Inv' /\ Undoable
<1> DEFINE d == [docks[active] EXCEPT !.at = p]
<1>1. Typed /\ active \in Spaces /\ Docked(docks[active]) /\ view \in Views
  BY DEF Inv, Typed
<1>2. p \in docks[active].tabs /\ None \in Replaceable(docks[active], p)
  BY DEF Activate, Replaceable
<1>3. Docked(d)
  BY <1>1, <1>2, Openings
<1>4. docks' = [docks EXCEPT ![active] = d]
  BY DEF Activate, SetDock
<1>5. d.at = p
  BY <1>1 DEF Docked, Dock
<1> HIDE DEF d
<1>6. /\ docks' \in [Spaces -> Dock] /\ \A t \in Spaces : Docked(docks'[t])
      /\ docks'[active] = d /\ p \in Panels
  BY <1>1, <1>3, <1>4, <1>5, SetDocks
<1>7. History(nav') /\ nav'.stack[nav'.here] = Told(view, active, p)
  BY <1>1, <1>6, Updates DEF Activate, Typed
<1>8. Inv'
  BY <1>1, <1>5, <1>6, <1>7, Shows DEF Activate, Typed
<1>9. Undoable
  BY DEF Undoable, Place, Activate
<1> QED BY <1>8, <1>9

LEMMA OpenInDockKeeps ==
  ASSUME Inv, NEW p \in Agents, OpenInDock(p)
  PROVE  Inv' /\ Undoable
<1>1. Typed /\ active \in Spaces /\ Docked(docks[active]) /\ view \in Views /\ p \in Panels
  BY DEF Inv, Typed, Panels
<1>2. PICK r \in Replaceable(docks[active], p) :
        docks' = [docks EXCEPT ![active] = Opened(docks[active], p, r)] /\ quiet' = (quiet \/ r # None)
  BY DEF OpenInDock, SetDock
<1> DEFINE d == Opened(docks[active], p, r)
<1>3. Docked(d) /\ d.at = p
  BY <1>1, Openings
<1> HIDE DEF d
<1>4. /\ docks' \in [Spaces -> Dock] /\ \A t \in Spaces : Docked(docks'[t])
      /\ docks'[active] = d
  BY <1>1, <1>2, <1>3, SetDocks DEF d
<1>5. History(nav') /\ nav'.stack[nav'.here] = Told(view, active, p)
  BY <1>1, Updates DEF OpenInDock, Typed
<1>6. UNCHANGED <<view, active, live, lookup, spent>> /\ behind' = FALSE
  BY DEF OpenInDock
<1>7. Inv'
  BY <1>1, <1>2, <1>3, <1>4, <1>5, <1>6, Shows DEF Typed
<1>8. Undoable
  BY <1>6 DEF Undoable, Place
<1> QED BY <1>7, <1>8

LEMMA OpenCoveredKeeps ==
  ASSUME Inv, NEW p \in Agents, OpenCovered(p)
  PROVE  Inv' /\ Undoable
<1>1. Typed /\ active \in Spaces /\ Docked(docks[active]) /\ view \in Views /\ p \in Panels /\ History(nav)
  BY DEF Inv, Typed, Panels
<1>2. PICK r \in Replaceable(docks[active], p) :
        /\ docks' = [docks EXCEPT ![active] = Opened(docks[active], p, r)]
        /\ quiet' = (quiet \/ r # None \/ active \in live)
  BY DEF OpenCovered, SetDock
<1> DEFINE d == Opened(docks[active], p, r)
<1>3. Docked(d) /\ d.at = p
  BY <1>1, Openings
<1> HIDE DEF d
<1>4. /\ docks' \in [Spaces -> Dock] /\ \A t \in Spaces : Docked(docks'[t])
      /\ docks'[active] = d
  BY <1>1, <1>2, <1>3, SetDocks DEF d
<1>5. UNCHANGED <<active, live, lookup, spent>> /\ behind' = FALSE /\ view # Zoom /\ ~behind
  BY DEF OpenCovered, Inv
<1>6. nav.stack[nav.here] = Told(view, active, docks[active].at)
  BY <1>5 DEF Inv, AddressTrue, Shown
<1>7. CASE active \in live
  <2>1. view' = Zoom /\ nav' = Zoomed(nav, active, p)
    BY <1>7 DEF OpenCovered
  <2>2. /\ History(nav') /\ nav'.stack[nav'.here] = Told(Zoom, active, p)
        /\ nav'.here = nav.here + 1 /\ nav'.stack[nav.here] = nav.stack[nav.here]
    BY <1>1, <2>1, Zooms
  <2>3. view' \in Views
    BY <2>1 DEF Views
  <2>4. Inv'
    BY <1>1, <1>2, <1>3, <1>4, <1>5, <2>1, <2>2, <2>3, Shows DEF Typed
  <2>5. Undoable
    BY <1>6, <2>2 DEF Undoable, Shown
  <2> QED BY <2>4, <2>5
<1>8. CASE active \notin live
  <2>1. UNCHANGED <<view, nav>>
    BY <1>8 DEF OpenCovered
  <2>2. docks[active].at \in Panels
    BY <1>1 DEF Docked, Dock, Panels
  <2>3. Told(view, active, docks[active].at) = Told(view, active, p)
    BY <1>1, <1>5, <2>2, Told_Links
  <2>4. nav'.stack[nav'.here] = Told(view', active', docks'[active'].at)
    BY <1>3, <1>4, <1>5, <1>6, <2>1, <2>3
  <2>5. Inv'
    BY <1>1, <1>2, <1>4, <1>5, <2>1, <2>4, Shows DEF Typed
  <2>6. Undoable
    BY <1>5, <2>1 DEF Undoable, Place
  <2> QED BY <2>5, <2>6
<1> QED BY <1>7, <1>8

LEMMA CloseKeeps ==
  ASSUME Inv, NEW p \in Agents, Close(p)
  PROVE  Inv' /\ Undoable
<1>1. Typed /\ active \in Spaces /\ Docked(docks[active]) /\ view \in Views /\ History(nav)
  BY DEF Inv, Typed
<1>2. PICK d \in Without(docks[active], p) :
        /\ docks' = [docks EXCEPT ![active] = d]
        /\ IF docks[active].at = p
           THEN nav' = Replace(nav, Told(view, active, d.at)) /\ behind' = FALSE
           ELSE UNCHANGED <<nav, behind>>
  BY DEF Close, SetDock, Update
<1>3. UNCHANGED <<view, active, live, lookup, spent>> /\ quiet' = TRUE /\ p \in docks[active].tabs
  BY DEF Close
<1>4. Docked(d) /\ (docks[active].at # p => d.at = docks[active].at)
  BY <1>1, <1>3, Closings
<1>5. /\ docks' \in [Spaces -> Dock] /\ \A t \in Spaces : Docked(docks'[t])
      /\ docks'[active] = d /\ d.at \in Panels
  BY <1>1, <1>2, <1>4, SetDocks
<1>6. Undoable
  BY <1>3 DEF Undoable, Place
<1>7. CASE docks[active].at = p
  <2>1. History(nav') /\ nav'.stack[nav'.here] = Told(view, active, d.at)
    BY <1>1, <1>2, <1>5, <1>7, Told_Links, Replaces
  <2>2. Inv'
    BY <1>1, <1>2, <1>3, <1>5, <1>7, <2>1, Shows DEF Typed
  <2> QED BY <1>6, <2>2
<1>8. CASE docks[active].at # p
  <2>1. Typed'
    BY <1>1, <1>2, <1>3, <1>5, <1>8 DEF Typed, History
  <2>2. Shown' = Shown
    BY <1>3, <1>4, <1>5, <1>8 DEF Shown
  <2> QED BY <1>2, <1>3, <1>6, <1>8, <2>1, <2>2 DEF Inv, AddressTrue
<1> QED BY <1>7, <1>8

LEMMA MergeKeeps ==
  ASSUME Inv, Merge
  PROVE  Inv' /\ Undoable
<1>1. Typed /\ active \in Spaces /\ Docked(docks[active]) /\ view \in Views /\ History(nav)
  BY DEF Inv, Typed
<1>2. docks[active].at \in Panels
  BY <1>1 DEF Docked, Dock, Panels
<1>3. History(nav') /\ nav'.stack[nav'.here] = Told(view, active, docks[active].at)
  BY <1>1, <1>2, Updates DEF Merge, Typed
<1>4. UNCHANGED <<view, active, live, docks, quiet, lookup, spent>> /\ behind' = FALSE
  BY DEF Merge
<1>5. Inv'
  BY <1>1, <1>3, <1>4, Shows DEF Typed
<1>6. Undoable
  BY <1>4 DEF Undoable, Place
<1> QED BY <1>5, <1>6

LEMMA MemberOpensKeeps ==
  ASSUME Inv, NEW p \in Agents, MemberOpens(p)
  PROVE  Inv' /\ Unmoved
<1> DEFINE first == docks[active].tabs = {}
           d == [tabs |-> docks[active].tabs \cup {p}, at |-> IF first THEN p ELSE docks[active].at]
<1>1. Typed /\ active \in Spaces /\ Docked(docks[active]) /\ view \in Views /\ History(nav)
  BY DEF Inv, Typed
<1>2. docks' = [docks EXCEPT ![active] = d]
  BY DEF MemberOpens, SetDock
<1>3. d.tabs = docks[active].tabs \cup {p} /\ d.at = IF first THEN p ELSE docks[active].at
  OBVIOUS
<1>4. Docked(d) /\ d.at = IF first THEN p ELSE docks[active].at
  BY <1>1, <1>3 DEF Docked, Dock
<1> HIDE DEF d, first
<1>5. /\ docks' \in [Spaces -> Dock] /\ \A t \in Spaces : Docked(docks'[t])
      /\ docks'[active] = d /\ d.at \in Panels
  BY <1>1, <1>2, <1>4, SetDocks
<1>6. UNCHANGED <<view, active, live, lookup, spent>> /\ quiet' = TRUE
  BY DEF MemberOpens
<1>7. CASE first
  <2>1. nav' = Replace(nav, Told(view, active, p)) /\ behind' = FALSE
    BY <1>7 DEF MemberOpens, Update, first
  <2>2. History(nav') /\ nav'.stack[nav'.here] = Told(view, active, p) /\ Unmoved
    BY <1>1, <2>1, Told_Links, Replaces DEF Panels, Unmoved
  <2>3. Inv'
    BY <1>1, <1>4, <1>5, <1>6, <1>7, <2>1, <2>2, Shows DEF Typed
  <2> QED BY <2>2, <2>3
<1>8. CASE ~first
  <2>1. UNCHANGED <<nav, behind>>
    BY <1>8 DEF MemberOpens, first
  <2>2. Typed'
    BY <1>1, <1>5, <1>6, <2>1 DEF Typed, History
  <2>3. Shown' = Shown
    BY <1>4, <1>5, <1>6, <1>8 DEF Shown
  <2> QED BY <1>6, <2>1, <2>2, <2>3 DEF Inv, AddressTrue, Unmoved
<1> QED BY <1>7, <1>8

----------------------------------------------------------------------------
\* Spaces and views.

\* Nothing that is shown changes.
LEMMA Stays ==
  ASSUME Inv, UNCHANGED <<view, active, docks, nav, behind>>,
         live' \in SUBSET Spaces, live' # {}, quiet' \in BOOLEAN,
         lookup' \in Spaces \cup {None}, spent' \in 0..Budget
  PROVE  Inv' /\ Undoable /\ Unmoved
<1>1. Typed'
  BY DEF Inv, Typed, History
<1>2. Shown' = Shown
  BY DEF Shown
<1>3. AddressTrue'
  BY <1>2 DEF Inv, AddressTrue
<1> QED BY <1>1, <1>3 DEF Inv, Undoable, Unmoved, Place

\* A switch of the owner's is pushed in a zoom.
LEMMA SwitchToKeeps ==
  ASSUME Inv, NEW s \in Spaces, SwitchTo(s, quiet), live' \in SUBSET Spaces, live' # {},
         lookup' \in Spaces \cup {None}, spent' \in 0..Budget
  PROVE  Inv' /\ Undoable
<1>1. Typed /\ History(nav) /\ view \in Views /\ quiet \in BOOLEAN
  BY DEF Inv, Typed
<1>2. nav' = Switched(nav, view, s, quiet) /\ active' = s /\ quiet' = TRUE /\ behind' = FALSE
      /\ UNCHANGED <<view, docks>>
  BY DEF SwitchTo
<1>3. /\ History(nav') /\ nav'.stack[nav'.here] = Told(view, s, docks[s].at)
      /\ view = Zoom /\ ~quiet => nav'.here = nav.here + 1 /\ nav'.stack[nav.here] = nav.stack[nav.here]
  BY <1>1, <1>2, Switches
<1>4. Inv'
  BY <1>1, <1>2, <1>3, Shows DEF Typed
<1>5. view # Zoom => Place' = Place
  BY <1>2 DEF Place
<1>6. ~behind => nav.stack[nav.here] = Shown
  BY DEF Inv, AddressTrue
<1> QED BY <1>3, <1>4, <1>5, <1>6 DEF Undoable

\* One that happens by itself never is.
LEMMA SwitchQuietlyKeeps ==
  ASSUME Inv, NEW s \in Spaces, active' = s,
         nav' = Replace(Replace(nav, Told(view, s, None)), Told(view, s, docks[s].at)),
         quiet' = TRUE, behind' = FALSE, UNCHANGED <<view, docks, live, spent>>,
         lookup' \in Spaces \cup {None}
  PROVE  Inv' /\ Unmoved
<1>1. Typed /\ History(nav) /\ view \in Views
  BY DEF Inv, Typed
<1>2. /\ History(nav') /\ nav'.stack[nav'.here] = Told(view, s, docks[s].at)
      /\ nav'.here = nav.here /\ Len(nav'.stack) = Len(nav.stack)
  BY <1>1, SwitchesQuietly
<1>3. Inv'
  BY <1>1, <1>2, Shows DEF Typed
<1> QED BY <1>2, <1>3 DEF Unmoved

LEMMA SwitchKeeps ==
  ASSUME Inv, NEW s \in Spaces, Switch(s)
  PROVE  Inv' /\ Undoable
<1>1. SwitchTo(s, quiet) /\ UNCHANGED <<live, lookup, spent>>
  BY DEF Switch
<1> QED BY <1>1, SwitchToKeeps DEF Inv, Typed

LEMMA CloseSpaceKeeps ==
  ASSUME Inv, NEW s \in Spaces, CloseSpace(s)
  PROVE  Inv' /\ Undoable
<1>1. /\ s \in live /\ live # {s} /\ live' = live \ {s} /\ live \in SUBSET Spaces
      /\ spent < Budget /\ spent' = spent + 1 /\ spent \in 0..Budget /\ lookup' = lookup
  BY DEF CloseSpace, Inv, Typed
<1>2. live' \in SUBSET Spaces /\ live' # {} /\ spent' \in 0..Budget /\ lookup' \in Spaces \cup {None}
  <2>1. spent' \in 0..Budget
    BY <1>1, HomeAssumption
  <2>2. lookup' \in Spaces \cup {None}
    BY <1>1 DEF Inv, Typed
  <2> QED BY <1>1, <2>1, <2>2
<1>3. CASE s = active
  <2>1. SwitchTo(Neighbour(s), quiet)
    BY <1>3 DEF CloseSpace
  <2>2. Neighbour(s) \in Spaces
    BY <1>1, NeighbourIsListed DEF Inv
  <2> QED BY <1>2, <2>1, <2>2, SwitchToKeeps
<1>4. CASE s # active
  BY <1>2, <1>4, Stays DEF CloseSpace, Inv, Typed
<1> QED BY <1>3, <1>4

LEMMA ReopenSpaceKeeps ==
  ASSUME Inv, NEW s \in Spaces, ReopenSpace(s)
  PROVE  Inv' /\ Undoable
<1>1. live' \in SUBSET Spaces /\ live' # {} /\ UNCHANGED <<lookup, spent>>
  BY DEF ReopenSpace, Inv, Typed
<1>2. lookup' \in Spaces \cup {None} /\ spent' \in 0..Budget /\ quiet \in BOOLEAN
  BY <1>1 DEF Inv, Typed
<1>3. CASE s = active
  BY <1>1, <1>2, <1>3, Stays DEF ReopenSpace
<1>4. CASE s # active
  <2>1. SwitchTo(s, quiet)
    BY <1>4 DEF ReopenSpace
  <2> QED BY <1>1, <1>2, <2>1, SwitchToKeeps
<1> QED BY <1>3, <1>4

LEMMA ZoomOutKeeps ==
  ASSUME Inv, NEW v \in Views \ {Zoom}, view' = v, nav' = Push(nav, Told(v, None, None)),
         behind' = FALSE, UNCHANGED <<active, live, docks, quiet, lookup, spent>>
  PROVE  Inv' /\ Undoable
<1>1. Typed /\ History(nav) /\ active \in Spaces /\ docks[active].at \in Panels
  BY DEF Inv, Typed, Dock, Panels
<1>2. Told(v, None, None) \in Links /\ Told(v, active, docks[active].at) = Told(v, None, None)
  BY <1>1, Told_Links
<1>3. nav.here \in 1..nav.here
  BY <1>1 DEF History
<1>4. /\ History(nav') /\ nav'.here = nav.here + 1
      /\ nav'.stack[nav'.here] = Told(v, None, None) /\ nav'.stack[nav.here] = nav.stack[nav.here]
  BY <1>1, <1>2, <1>3, Pushes
<1>5. Inv'
  BY <1>1, <1>2, <1>4, Shows DEF Typed
<1> QED BY <1>4, <1>5 DEF Inv, AddressTrue, Undoable

LEMMA ZoomIntoKeeps ==
  ASSUME Inv, NEW s \in Spaces, NEW a \in Panels, ZoomInto(s, a)
  PROVE  Inv' /\ Undoable
<1> DEFINE d == docks[s]
           new == IF a = None THEN d ELSE IF a \in d.tabs THEN [d EXCEPT !.at = a] ELSE Opened(d, a, None)
           away == Replace(Replace(nav, Told(view, s, None)), Told(view, s, d.at))
           moved == IF s = active THEN nav
                    ELSE IF view = Zoom /\ ~quiet THEN Zoomed(nav, s, d.at) ELSE away
<1>1. Typed /\ History(nav) /\ view \in Views /\ active \in Spaces /\ Docked(d) /\ d.at \in Panels
  BY DEF Inv, Typed, Dock, Panels
<1>2. Docked(new)
  <2>1. None \in Replaceable(d, a)
    BY DEF Replaceable
  <2> QED BY <1>1, <2>1, Openings DEF Panels
<1>3. docks' = [docks EXCEPT ![s] = new] /\ view' = Zoom /\ active' = s /\ quiet' = TRUE
      /\ behind' = FALSE /\ UNCHANGED <<live, lookup, spent>>
  BY DEF ZoomInto
<1>4. nav' = IF view = Zoom THEN Replace(moved, Told(Zoom, s, new.at)) ELSE Zoomed(moved, s, new.at)
  BY DEF ZoomInto, Switched, Update, Zoomed
<1> HIDE DEF new, d
<1>5. /\ docks' \in [Spaces -> Dock] /\ \A t \in Spaces : Docked(docks'[t])
      /\ docks'[s] = new /\ new.at \in Panels
  BY <1>1, <1>2, <1>3, SetDocks
<1>6. Told(Zoom, s, new.at) \in Links /\ Zoom \in Views
  BY <1>5, Told_Links DEF Views
<1>7. History(away) /\ away.here = nav.here /\ away.stack[away.here] = Told(view, s, d.at)
  BY <1>1, SwitchesQuietly DEF d
<1>8. ~behind => nav.stack[nav.here] = Told(view, active, docks[active].at)
  BY DEF Inv, AddressTrue, Shown
<1>9. SUFFICES /\ History(nav') /\ nav'.stack[nav'.here] = Told(Zoom, s, new.at)
               /\ (~(view = Zoom /\ s = active) /\ ~quiet /\ ~behind) =>
                    nav'.here = nav.here + 1
                    /\ nav'.stack[nav.here] = Told(view, active, docks[active].at)
  <2>1. Inv'
    BY <1>1, <1>3, <1>5, <1>6, <1>9, Shows DEF Typed
  <2>2. view = Zoom /\ s = active => Place' = Place
    BY <1>3 DEF Place
  <2> QED BY <1>9, <2>1, <2>2 DEF Undoable, Shown
<1>10. CASE view # Zoom
  <2>1. Told(view, s, d.at) = Told(view, active, docks[active].at)
    <3>1. docks[active].at \in Panels
      BY <1>1 DEF Typed, Dock, Panels
    <3> QED BY <1>1, <1>10, <3>1, Told_Links
  <2>2. /\ History(moved) /\ moved.here = nav.here
        /\ moved.stack[moved.here] = Told(view, active, docks[active].at)
    <3>1. ~behind
      BY <1>10 DEF Inv
    <3> HIDE DEF away
    <3> QED BY <1>1, <1>7, <1>8, <1>10, <2>1, <3>1
  <2>3. nav' = Zoomed(moved, s, new.at)
    BY <1>4, <1>10
  <2> HIDE DEF moved
  <2> QED BY <1>5, <2>2, <2>3, Zooms
<1>11. CASE view = Zoom /\ s = active
  BY <1>1, <1>4, <1>6, <1>11, Replaces
<1>12. CASE view = Zoom /\ s # active /\ quiet
  <2>1. nav' = Replace(away, Told(Zoom, s, new.at))
    BY <1>4, <1>12
  <2> HIDE DEF away, moved
  <2> QED BY <1>6, <1>7, <1>12, <2>1, Replaces
<1>13. CASE view = Zoom /\ s # active /\ ~quiet
  <2> DEFINE u == Zoomed(nav, s, d.at)
  <2>1. History(u) /\ u.here = nav.here + 1 /\ u.stack[nav.here] = nav.stack[nav.here]
    BY <1>1, Zooms
  <2>2. nav' = Replace(u, Told(Zoom, s, new.at))
    BY <1>4, <1>13
  <2> HIDE DEF u, moved, away
  <2>3. /\ History(nav') /\ nav'.here = u.here /\ nav'.stack[nav'.here] = Told(Zoom, s, new.at)
        /\ \A i \in (1..Len(u.stack)) \ {u.here} : nav'.stack[i] = u.stack[i]
    BY <1>6, <2>1, <2>2, Replaces
  <2>4. nav.here \in (1..Len(u.stack)) \ {u.here}
    BY <1>1, <2>1 DEF History
  <2> QED BY <1>8, <2>1, <2>3, <2>4
<1> QED BY <1>1, <1>10, <1>11, <1>12, <1>13 DEF Typed

----------------------------------------------------------------------------
\* What happens by itself, and replays.

LEMMA FallBackKeeps ==
  ASSUME Inv, FallBack
  PROVE  Inv' /\ Unmoved
<1>1. First \in Spaces
  BY FirstIsListed DEF Inv
<1>2. active' = First /\ quiet' = TRUE /\ behind' = FALSE /\ UNCHANGED <<view, docks, live, lookup, spent>>
  BY DEF FallBack, SwitchTo
<1>3. nav' = Replace(Replace(nav, Told(view, First, None)), Told(view, First, docks[First].at))
  BY DEF FallBack, SwitchTo, Switched, Update
<1> QED BY <1>1, <1>2, <1>3, SwitchQuietlyKeeps DEF Inv, Typed

LEMMA LookupLandsKeeps ==
  ASSUME Inv, LookupLands
  PROVE  Inv' /\ Unmoved
<1>1. lookup \in Spaces /\ lookup' = None /\ UNCHANGED <<live, spent>>
  BY DEF LookupLands, Inv, Typed
<1>2. CASE lookup = active
  BY <1>1, <1>2, Stays DEF LookupLands, Inv, Typed
<1>3. CASE lookup # active
  <2>1. active' = lookup /\ quiet' = TRUE /\ behind' = FALSE /\ UNCHANGED <<view, docks>>
    BY <1>3 DEF LookupLands, SwitchTo
  <2>2. nav' = Replace(Replace(nav, Told(view, lookup, None)), Told(view, lookup, docks[lookup].at))
    BY <1>3 DEF LookupLands, SwitchTo, Switched, Update
  <2> QED BY <1>1, <2>1, <2>2, SwitchQuietlyKeeps
<1> QED BY <1>2, <1>3

\* An entry applied is rewritten as the page shows it, or is behind.
LEMMA Applies ==
  ASSUME Typed, NEW n, History(n), NEW v \in Views, NEW s \in Spaces, NEW e, e.subject \in Panels,
         NEW r, e.subject # None => r \in Replaceable(docks[s], e.subject),
         Applied(n, v, s, e, docks, r)
  PROVE  /\ docks' \in [Spaces -> Dock] /\ \A t \in Spaces : Docked(docks'[t])
         /\ docks'[s].at = IF e.subject = None THEN docks[s].at ELSE e.subject
         /\ nav' = Replace(n, Told(v, s, e.subject)) /\ Told(v, s, e.subject) \in Links
         /\ behind' \in BOOLEAN /\ (behind' => v = Zoom)
         /\ ~behind' => nav'.stack[nav'.here] = Told(v, s, docks'[s].at)
<1> DEFINE d == IF e.subject = None THEN docks[s] ELSE Opened(docks[s], e.subject, r)
<1>1. Docked(d) /\ d.at = IF e.subject = None THEN docks[s].at ELSE e.subject
  <2>1. CASE e.subject = None
    BY <2>1 DEF Typed
  <2>2. CASE e.subject # None
    BY <2>2, Openings DEF Typed, Panels
  <2> QED BY <2>1, <2>2
<1>2. /\ docks' = [docks EXCEPT ![s] = d] /\ nav' = Replace(n, Told(v, s, e.subject))
      /\ behind' = (v = Zoom /\ d.at # e.subject)
  BY DEF Applied
<1> HIDE DEF d
<1>3. /\ docks' \in [Spaces -> Dock] /\ \A t \in Spaces : Docked(docks'[t])
      /\ docks'[s] = d /\ d.at \in Panels
  BY <1>1, <1>2, SetDocks
<1>4. Told(v, s, e.subject) \in Links
  BY Told_Links
<1>5. nav'.stack[nav'.here] = Told(v, s, e.subject)
  BY <1>2, <1>4, Replaces
<1>6. v # Zoom => Told(v, s, e.subject) = Told(v, s, d.at)
  BY <1>3, Told_Links
<1> QED BY <1>1, <1>2, <1>3, <1>4, <1>5, <1>6

LEMMA LoadKeeps ==
  ASSUME Inv, NEW n, History(n), NEW fresh, Load(n, fresh), spent' \in 0..Budget
  PROVE  /\ Inv' /\ nav'.here = n.here /\ Len(nav'.stack) = Len(n.stack)
         /\ \A i \in (1..Len(n.stack)) \ {n.here} : nav'.stack[i] = n.stack[i]
<1> DEFINE e == n.stack[n.here]
           route == IF e.view.kind = "alone" THEN [e EXCEPT !.subject = e.view.agent] ELSE e
           s == IF e.space \in live THEN e.space ELSE IF active \in live THEN active ELSE First
<1>1. e \in Links
  BY DEF History
<1>2. /\ e.view \in Views /\ e.space \in Spaces \cup {None} /\ e.subject \in Panels
      /\ e = [view |-> e.view, space |-> e.space, subject |-> e.subject]
  <2> HIDE DEF e
  <2> QED BY <1>1, LinkParts
<1>3. Typed /\ s \in Spaces
  BY FirstIsListed DEF Inv, Typed
<1>4. /\ view' = e.view /\ active' = s /\ lookup' = (IF e.space \in live THEN None ELSE e.space)
      /\ quiet' = TRUE /\ live' = live
  BY DEF Load
<1>5. lookup' \in Spaces \cup {None} /\ live' \in SUBSET Spaces /\ live' # {} /\ quiet' \in BOOLEAN
  BY <1>2, <1>3, <1>4 DEF Typed
<1>6. \/ /\ Replays(e, fresh, docks[s])
         /\ \E r \in Replaceable(docks[s], route.subject) : Applied(n, e.view, s, route, docks, r)
      \/ /\ nav' = Replace(n, Told(e.view, s, docks[s].at))
         /\ behind' = FALSE /\ docks' = docks
  BY DEF Load
<1>7. route.subject \in Panels
  <2>1. CASE e.view.kind = "alone"
    <3>1. PICK a \in Agents : e.view = Alone(a)
      BY <1>2, <2>1 DEF Views, Lens, Zoom
    <3>2. e.view.agent = a
      BY <3>1 DEF Alone
    <3>3. route = [view |-> e.view, space |-> e.space, subject |-> a]
      <4> HIDE DEF e
      <4> QED BY <1>2, <2>1, <3>2
    <3> QED BY <3>3 DEF Panels
  <2>2. CASE e.view.kind # "alone"
    BY <1>2, <2>2
  <2> QED BY <2>1, <2>2
<1> HIDE DEF e, route, s
<1>8. CASE \E r \in Replaceable(docks[s], route.subject) : Applied(n, e.view, s, route, docks, r)
  <2>1. PICK r \in Replaceable(docks[s], route.subject) : Applied(n, e.view, s, route, docks, r)
    BY <1>8
  <2>2. /\ docks' \in [Spaces -> Dock] /\ \A t \in Spaces : Docked(docks'[t])
        /\ nav' = Replace(n, Told(e.view, s, route.subject)) /\ Told(e.view, s, route.subject) \in Links
        /\ behind' \in BOOLEAN /\ (behind' => e.view = Zoom)
        /\ ~behind' => nav'.stack[nav'.here] = Told(e.view, s, docks'[s].at)
    BY <1>2, <1>3, <1>7, <2>1, Applies
  <2>3. /\ History(nav') /\ nav'.here = n.here /\ Len(nav'.stack) = Len(n.stack)
        /\ \A i \in (1..Len(n.stack)) \ {n.here} : nav'.stack[i] = n.stack[i]
    BY <2>2, Replaces
  <2>4. Typed'
    BY <1>2, <1>3, <1>4, <1>5, <2>2, <2>3 DEF Typed, History
  <2>5. AddressTrue' /\ (behind' => view' = Zoom)
    BY <1>4, <2>2 DEF AddressTrue, Shown
  <2> QED BY <2>3, <2>4, <2>5 DEF Inv
<1>9. CASE nav' = Replace(n, Told(e.view, s, docks[s].at)) /\ behind' = FALSE /\ docks' = docks
  <2>1. docks[s].at \in Panels
    BY <1>3 DEF Typed, Dock, Panels
  <2>2. Told(e.view, s, docks[s].at) \in Links
    BY <1>2, <1>3, <2>1, Told_Links
  <2>3. /\ History(nav') /\ nav'.here = n.here /\ Len(nav'.stack) = Len(n.stack)
        /\ nav'.stack[nav'.here] = Told(e.view, s, docks[s].at)
        /\ \A i \in (1..Len(n.stack)) \ {n.here} : nav'.stack[i] = n.stack[i]
    BY <1>9, <2>2, Replaces
  <2>4. Inv'
    BY <1>2, <1>3, <1>4, <1>5, <1>9, <2>3, Shows DEF Typed
  <2> QED BY <2>3, <2>4
<1> QED BY <1>6, <1>8, <1>9

LEMMA ReloadKeeps ==
  ASSUME Inv, Reload
  PROVE  Inv' /\ Unmoved
<1>1. \E fresh \in BOOLEAN : Load(nav, fresh)
  BY Zenon DEF Reload
<1>2. History(nav) /\ spent' \in 0..Budget
  BY DEF Reload, Inv, Typed
<1> QED BY <1>1, <1>2, LoadKeeps DEF Unmoved

LEMMA VisitKeeps ==
  ASSUME Inv, NEW e \in Links, Visit(e)
  PROVE  Inv' /\ Undoable
<1> DEFINE n == Push(nav, e)
<1>1. \E fresh \in BOOLEAN : Load(n, fresh)
  BY Zenon DEF Visit
<1>2. History(nav) /\ nav.here \in 1..nav.here
  BY DEF Inv, Typed, History
<1>3. History(n) /\ n.here = nav.here + 1 /\ n.stack[nav.here] = nav.stack[nav.here]
  BY <1>2, Pushes
<1>4. spent' \in 0..Budget
  BY HomeAssumption DEF Visit, Inv, Typed
<1> HIDE DEF n
<1>5. /\ Inv' /\ nav'.here = n.here
      /\ \A i \in (1..Len(n.stack)) \ {n.here} : nav'.stack[i] = n.stack[i]
  BY <1>1, <1>3, <1>4, LoadKeeps
<1>6. nav.here \in (1..Len(n.stack)) \ {n.here}
  BY <1>2, <1>3 DEF History
<1> QED BY <1>3, <1>5, <1>6 DEF Inv, AddressTrue, Undoable

\* A replay shows the entry it lands on and rewrites none, if the entry's
\* space is listed and the dock left could be saved.
LEMMA TravelKeeps ==
  ASSUME Inv, NEW k \in Int, NEW saved \in BOOLEAN, Travel(k, saved)
  PROVE  /\ Inv'
         /\ (saved /\ nav.stack[nav.here + k].space \in live \cup {None}) =>
              /\ nav'.stack = nav.stack
              /\ \/ Shown' = nav.stack[nav.here + k]
                 \/ /\ nav.stack[nav.here + k].view = Zoom /\ nav.stack[nav.here + k].subject = None
                    /\ active' = nav.stack[nav.here + k].space
<1> DEFINE n == [nav EXCEPT !.here = @ + k]
           e == n.stack[n.here]
           switches == e.space # active /\ e.space \in live
           lost == e.space # active /\ e.space \notin live /\ e.subject # None /\ e.subject \notin docks[active].tabs
           s == IF switches THEN e.space ELSE active
<1>1. Typed /\ History(nav)
  BY DEF Inv, Typed
<1>2. n.stack = nav.stack /\ n.here = nav.here + k /\ n.here \in 1..Len(nav.stack) /\ History(n)
  <2>1. n.stack = nav.stack /\ n.here = nav.here + k
    BY <1>1 DEF History
  <2>2. n.here \in 1..Len(nav.stack)
    BY DEF Travel
  <2>3. n = [stack |-> n.stack, here |-> n.here]
    BY <1>1 DEF History
  <2> HIDE DEF n
  <2> QED BY <1>1, <2>1, <2>2, <2>3 DEF History
<1>3. view' = e.view /\ UNCHANGED <<live, lookup, spent>>
  BY DEF Travel
<1>4. e.view # Zoom => nav' = n /\ behind' = FALSE /\ UNCHANGED <<active, docks, quiet>>
  BY DEF Travel
<1>5. e.view = Zoom => quiet' = TRUE
  BY DEF Travel
<1>6. e.view = Zoom =>
        IF lost \/ (switches /\ ~saved)
        THEN nav' = n /\ behind' = TRUE /\ UNCHANGED <<active, docks>>
        ELSE /\ active' = s
             /\ \E r \in IF e.subject = None THEN {None} ELSE Replaceable(docks[s], e.subject) :
                   Applied(n, Zoom, s, e, docks, r)
  BY DEF Travel
<1>7. e \in Links
  BY <1>2 DEF History
<1>8. s \in Spaces
  BY <1>1 DEF Typed
<1>9. e = nav.stack[nav.here + k]
  BY <1>2
<1> HIDE DEF n, e
<1>10. /\ e.view \in Views /\ e.space \in Spaces \cup {None} /\ e.subject \in Panels
       /\ e.view = Zoom => e.space \in Spaces /\ e = Told(Zoom, e.space, e.subject)
       /\ e.view # Zoom => e = Told(e.view, None, None)
  BY <1>7, LinkParts
<1>11. n.stack[n.here] = e
  BY DEF e
<1>12. CASE e.view # Zoom
  <2>1. docks[active].at \in Panels /\ active \in Spaces
    BY <1>1 DEF Typed, Dock, Panels
  <2>2. e = Told(e.view, active, docks[active].at)
    BY <1>10, <1>12, <2>1, Told_Links
  <2>3. Inv'
    BY <1>1, <1>2, <1>3, <1>4, <1>10, <1>11, <1>12, <2>2, Shows DEF Typed
  <2>4. nav'.stack = nav.stack /\ Shown' = e
    BY <1>2, <1>3, <1>4, <1>12, <2>2 DEF Shown
  <2> QED BY <1>9, <2>3, <2>4
<1>13. CASE e.view = Zoom /\ (lost \/ (switches /\ ~saved))
  <2>1. nav' = n /\ behind' = TRUE /\ quiet' = TRUE /\ UNCHANGED <<active, docks>>
    BY <1>5, <1>6, <1>13
  <2>2. Inv'
    BY <1>1, <1>2, <1>3, <1>10, <1>13, <2>1 DEF Inv, Typed, History, AddressTrue
  <2>3. ~(saved /\ e.space \in live \cup {None})
    BY <1>10, <1>13, HomeAssumption
  <2> QED BY <1>9, <2>2, <2>3
<1>14. CASE e.view = Zoom /\ ~(lost \/ (switches /\ ~saved))
  <2>1. active' = s /\ quiet' = TRUE
    BY <1>5, <1>6, <1>14
  <2>2. PICK r \in IF e.subject = None THEN {None} ELSE Replaceable(docks[s], e.subject) :
           Applied(n, Zoom, s, e, docks, r)
    BY <1>6, <1>14
  <2>3. s = e.space \/ e.space \notin live \cup {None}
    BY <1>10, <1>14, HomeAssumption
  <2> HIDE DEF s, lost, switches
  <2>4. Zoom \in Views /\ (e.subject # None => r \in Replaceable(docks[s], e.subject))
    BY <2>2 DEF Views
  <2>5. /\ docks' \in [Spaces -> Dock] /\ \A t \in Spaces : Docked(docks'[t])
        /\ docks'[s].at = IF e.subject = None THEN docks[s].at ELSE e.subject
        /\ nav' = Replace(n, Told(Zoom, s, e.subject)) /\ Told(Zoom, s, e.subject) \in Links
        /\ behind' \in BOOLEAN
        /\ ~behind' => nav'.stack[nav'.here] = Told(Zoom, s, docks'[s].at)
    BY <1>1, <1>2, <1>8, <1>10, <2>2, <2>4, Applies
  <2>6. /\ History(nav') /\ nav'.here = n.here /\ Len(nav'.stack) = Len(n.stack)
        /\ n.stack[n.here] = Told(Zoom, s, e.subject) => nav'.stack = n.stack
    BY <1>2, <2>5, Replaces
  <2>7. Typed'
    BY <1>1, <1>3, <1>8, <1>10, <2>1, <2>5, <2>6 DEF Typed, History
  <2>8. AddressTrue' /\ view' = Zoom
    BY <1>3, <1>14, <2>1, <2>5 DEF AddressTrue, Shown
  <2>9. ASSUME e.space \in live \cup {None}
        PROVE  /\ nav'.stack = nav.stack
               /\ Shown' = e \/ (e.view = Zoom /\ e.subject = None /\ active' = e.space)
    <3>1. s = e.space /\ e = Told(Zoom, s, e.subject)
      BY <1>10, <1>14, <2>3, <2>9
    <3>2. nav'.stack = nav.stack
      BY <1>2, <1>11, <2>6, <3>1
    <3>3. e.subject # None => Shown' = e
      BY <2>1, <2>5, <2>8, <3>1 DEF Shown
    <3> QED BY <1>14, <2>1, <3>1, <3>2, <3>3
  <2> QED BY <1>9, <2>7, <2>8, <2>9 DEF Inv
<1> QED BY <1>12, <1>13, <1>14

----------------------------------------------------------------------------
\* The theorems.

LEMMA UserKeeps == ASSUME Inv, UserNext PROVE Inv' /\ Undoable
<1>1. ASSUME NEW p \in Agents, Activate(p) \/ OpenInDock(p) \/ OpenCovered(p) \/ Close(p)
      PROVE  Inv' /\ Undoable
  BY <1>1, ActivateKeeps, OpenInDockKeeps, OpenCoveredKeeps, CloseKeeps
<1>2. ASSUME NEW p \in Agents, OpenAlone(p) PROVE Inv' /\ Undoable
  <2>1. Alone(p) \in Views \ {Zoom}
    BY DEF Alone, Zoom, Views
  <2> QED BY <1>2, <2>1, ZoomOutKeeps DEF OpenAlone
<1>3. ASSUME NEW s \in Spaces, Switch(s) \/ CloseSpace(s) \/ ReopenSpace(s) PROVE Inv' /\ Undoable
  BY <1>3, SwitchKeeps, CloseSpaceKeeps, ReopenSpaceKeeps
<1>4. ASSUME NEW s \in Spaces, NEW a \in Agents \cup {None}, ZoomInto(s, a) PROVE Inv' /\ Undoable
  BY <1>4, ZoomIntoKeeps DEF Panels
<1>5. ASSUME ZoomOut PROVE Inv' /\ Undoable
  <2>1. Lens \in Views \ {Zoom}
    BY DEF Lens, Zoom, Views
  <2> QED BY <1>5, <2>1, ZoomOutKeeps DEF ZoomOut
<1>6. ASSUME Merge PROVE Inv' /\ Undoable
  BY <1>6, MergeKeeps
<1>7. ASSUME NEW e \in Links, Visit(e) PROVE Inv' /\ Undoable
  BY <1>7, VisitKeeps
<1> QED BY <1>1, <1>2, <1>3, <1>4, <1>5, <1>6, <1>7 DEF UserNext

LEMMA BackgroundKeeps == ASSUME Inv, Background PROVE Inv' /\ Unmoved
<1>1. ASSUME NEW p \in Agents, MemberOpens(p) PROVE Inv' /\ Unmoved
  BY <1>1, MemberOpensKeeps
<1>2. ASSUME NEW s \in Spaces, ClosedElsewhere(s) PROVE Inv' /\ Unmoved
  <2>1. live' \in SUBSET Spaces /\ live' # {} /\ spent' \in 0..Budget
    BY <1>2, HomeAssumption DEF ClosedElsewhere, Inv, Typed
  <2> QED BY <1>2, <2>1, Stays DEF ClosedElsewhere, Inv, Typed
<1>3. ASSUME NEW s \in Spaces, ReopenedElsewhere(s) PROVE Inv' /\ Unmoved
  <2>1. live' \in SUBSET Spaces /\ live' # {}
    BY <1>3 DEF ReopenedElsewhere, Inv, Typed
  <2> QED BY <1>3, <2>1, Stays DEF ReopenedElsewhere, Inv, Typed
<1>4. ASSUME FallBack \/ LookupLands \/ Reload PROVE Inv' /\ Unmoved
  BY <1>4, FallBackKeeps, LookupLandsKeeps, ReloadKeeps
<1>5. ASSUME LookupEnds PROVE Inv' /\ Unmoved
  BY <1>5, Stays DEF LookupEnds, Inv, Typed
<1>6. ASSUME Frame PROVE Inv' /\ Unmoved
  BY <1>6, Stays DEF Frame, Inv, Typed
<1> QED BY <1>1, <1>2, <1>3, <1>4, <1>5, <1>6 DEF Background

LEMMA TravelsKeep == ASSUME Inv, Travels PROVE Inv'
BY TravelKeeps DEF Travels

\* A loaded page's entry is that of what it shows.
LEMMA InitHolds == ASSUME Init PROVE Inv /\ Len(nav.stack) <= MaxStack
<1>1. Order[1] \in Spaces
  BY HomeAssumption DEF Spaces
<1>2. PICK a, b \in Agents :
        docks = [s \in Spaces |-> IF s = Order[1] THEN [tabs |-> {a, b}, at |-> a] ELSE EmptyDock]
  BY DEF Init
<1>3. docks \in [Spaces -> Dock] /\ \A s \in Spaces : Docked(docks[s])
  BY <1>2 DEF Docked, Dock, EmptyDock
<1>4. active \in Spaces /\ view \in Views
  BY DEF Init, Views
<1>5. docks[active].at \in Panels
  BY <1>3, <1>4 DEF Dock, Panels
<1>6. Shown \in Links
  BY <1>4, <1>5, Told_Links DEF Shown
<1>7. nav = [stack |-> <<Shown>>, here |-> 1]
  BY DEF Init
<1>8. History(nav) /\ nav.stack[nav.here] = Shown /\ Len(nav.stack) = 1
  BY <1>6, <1>7 DEF History
<1>9. live \in SUBSET Spaces /\ live # {} /\ quiet = FALSE /\ behind = FALSE /\ lookup = None /\ spent \in 0..Budget
  BY <1>1, HomeAssumption DEF Init
<1>10. Typed
  BY <1>3, <1>4, <1>8, <1>9 DEF Typed
<1>11. AddressTrue
  BY <1>8 DEF AddressTrue
<1>12. Len(nav.stack) <= MaxStack
  BY <1>8, HomeAssumption
<1> QED BY <1>9, <1>10, <1>11, <1>12 DEF Inv

LEMMA NextKeeps == ASSUME Inv, [Next]_vars PROVE Inv'
<1>1. CASE Next
  BY <1>1, UserKeeps, BackgroundKeeps, TravelsKeep DEF Next
<1>2. CASE UNCHANGED vars
  BY <1>2, Stays DEF vars, Inv, Typed
<1> QED BY <1>1, <1>2

\* Everything shown is typed, the address tells what is shown unless a zoom's
\* replay left it behind.
THEOREM AddressInvariant == Spec => []Inv
<1>1. Init => Inv
  BY InitHolds
<1>2. Inv /\ [Next]_vars => Inv'
  BY NextKeeps
<1> QED BY <1>1, <1>2, PTL DEF Spec

\* Every variable keeps its type, every dock that is not empty has a panel
\* active, and the history stays within its bound.
THEOREM TypeCorrect == Spec => []TypeOK
<1> DEFINE Bounded == Len(nav.stack) <= MaxStack
<1>1. Init => Bounded
  BY InitHolds
<1>2. Bounded /\ [Next]_vars => Bounded'
  BY DEF Next, vars
<1>3. Inv /\ Bounded => TypeOK
  BY DEF Inv, Typed, Docked, History, TypeOK
<1> QED BY <1>1, <1>2, <1>3, AddressInvariant, PTL DEF Spec

\* The address is the one of what the page shows, whichever path led there.
\* (useWorkspaceController.ts, historyModel.ts)
THEOREM AddressIsTrue == Spec => []AddressTrue
<1>1. Inv => AddressTrue
  BY DEF Inv
<1> QED BY <1>1, AddressInvariant, PTL

\* A replay shows its entry and rewrites none, a move of the owner's stays one
\* step back, and nothing in the background moves.  (historyModel.ts)
THEOREM HistoryStepsHold == Spec => HistorySteps
<1> DEFINE Replayed ==
             \A k \in {-2, -1, 1} :
               (nav'.here = nav.here + k /\ Travel(k, TRUE)) =>
                 LET e == nav.stack[nav.here + k]
                 IN  e.space \in live \cup {None} =>
                        /\ nav'.stack = nav.stack
                        /\ Shown' = e \/ (e.view = Zoom /\ e.subject = None /\ active' = e.space)
           Moved ==
             /\ (Place' # Place /\ ~quiet /\ ~behind /\ UserNext) =>
                   nav'.here = nav.here + 1 /\ nav'.stack[nav.here] = Shown
             /\ (nav'.here # nav.here \/ Len(nav'.stack) # Len(nav.stack)) => ~Background
<1>1. Inv => Replayed
  <2>1. SUFFICES ASSUME Inv, NEW k \in {-2, -1, 1}, Travel(k, TRUE),
                        nav.stack[nav.here + k].space \in live \cup {None}
                 PROVE  /\ nav'.stack = nav.stack
                        /\ \/ Shown' = nav.stack[nav.here + k]
                           \/ /\ nav.stack[nav.here + k].view = Zoom
                              /\ nav.stack[nav.here + k].subject = None
                              /\ active' = nav.stack[nav.here + k].space
    OBVIOUS
  <2>2. \E saved \in BOOLEAN : saved /\ Travel(k, saved)
    BY <2>1, Zenon
  <2>3. k \in Int
    OBVIOUS
  <2> QED BY <2>1, <2>2, <2>3, TravelKeeps
<1>2. Inv => Moved
  BY UserKeeps, BackgroundKeeps DEF Undoable, Unmoved
<1>3. Inv => [Replayed]_vars /\ [Moved]_vars
  BY <1>1, <1>2
<1> QED BY <1>3, AddressInvariant, PTL DEF HistorySteps, ReplayKeepsHistory, MovesCanBeUndone
=============================================================================
