------------------------- MODULE HerderMembersProofs -------------------------
(***************************************************************************)
(* What reconciliation writes drops only what the user closed, a row is     *)
(* opened once, the lane move loses no tab, and what browsers write is      *)
(* bounded: proofs about HerderMembers.                                     *)
(*                                                                         *)
(* What a browser remembers of a space is enough to tell an old row from a  *)
(* new one: once it has applied or written a row, that row's members are in *)
(* the baseline, and in the dock but for what its user closed since (Even). *)
(***************************************************************************)
EXTENDS HerderMembers, FiniteSetTheorems, TLAPS

----------------------------------------------------------------------------
\* Sequences.

LEMMA IsSequence ==
  ASSUME NEW S, NEW n \in Nat, NEW r \in [1..n -> S]
  PROVE  r \in Seq(S) /\ DOMAIN r = 1..n
OBVIOUS

\* The members of a sequence that are in a set: all of them, and no others.
LEMMA OnlyMembers ==
  ASSUME NEW S, NEW q \in Seq(S), NEW set
  PROVE  Only(q, set) \in Seq(S) /\ InSeq(Only(q, set)) = InSeq(q) \cap set
<1> DEFINE kept == {i \in DOMAIN q : q[i] \in set}
           before(i) == Cardinality({j \in kept : j < i})
           n == Cardinality(kept)
           rank == [i \in kept |-> before(i) + 1]
           r == [k \in 1..n |-> q[CHOOSE i \in kept : before(i) = k - 1]]
<1>1. DOMAIN q = 1..Len(q) /\ Len(q) \in Nat /\ kept \subseteq 1..Len(q)
  OBVIOUS
<1>2. IsFiniteSet(kept) /\ n \in Nat
  <2>1. IsFiniteSet(1..Len(q))
    BY <1>1, FS_Interval
  <2> HIDE DEF kept
  <2> QED BY <1>1, <2>1, FS_Subset, FS_CardinalityType
<1>3. ASSUME NEW i \in kept
      PROVE  before(i) \in Nat /\ before(i) < n
  <2> DEFINE b == {j \in kept : j < i}
  <2>1. b \in SUBSET kept /\ i \notin b /\ b # kept
    BY <1>1
  <2> HIDE DEF b, kept
  <2>2. IsFiniteSet(b) /\ Cardinality(b) \in Nat /\ Cardinality(b) <= n /\ Cardinality(b) # n
    BY <1>2, <2>1, FS_Subset, FS_CardinalityType
  <2> QED BY <1>2, <2>2 DEF b
<1>4. ASSUME NEW i \in kept, NEW j \in kept, i < j
      PROVE  before(i) < before(j)
  <2> DEFINE b == {l \in kept : l < i}
             c == {l \in kept : l < j}
  <2>1. b \in SUBSET c /\ i \in c /\ i \notin b /\ c \in SUBSET kept /\ b # c
    BY <1>1, <1>4
  <2> HIDE DEF b, c, kept
  <2>2. IsFiniteSet(c) /\ Cardinality(c) \in Nat
    BY <1>2, <2>1, FS_Subset, FS_CardinalityType
  <2>3. Cardinality(b) \in Nat /\ Cardinality(b) <= Cardinality(c) /\ Cardinality(b) # Cardinality(c)
    BY <2>1, <2>2, FS_Subset, FS_CardinalityType
  <2> QED BY <2>2, <2>3 DEF b, c
<1>5. ASSUME NEW i \in kept, NEW j \in kept, before(i) = before(j)
      PROVE  i = j
  <2>1. i \in Nat /\ j \in Nat
    BY <1>1
  <2>2. before(i) \in Nat
    BY <1>3
  <2>3. ~(i < j) /\ ~(j < i)
    <3>1. i < j => before(i) < before(j)
      BY <1>4
    <3>2. j < i => before(j) < before(i)
      BY <1>4
    <3> HIDE DEF before
    <3> QED BY <3>1, <3>2, <2>2, <1>5
  <2> QED BY <2>1, <2>3
<1>6. ASSUME NEW k \in 1..n
      PROVE  \E i \in kept : before(i) = k - 1
  <2>1. rank \in Injection(kept, 1..n)
    <3>1. rank \in [kept -> 1..n]
      <4>1. ASSUME NEW i \in kept PROVE before(i) + 1 \in 1..n
        <5>1. before(i) \in Nat /\ before(i) < n
          BY <1>3
        <5> HIDE DEF before, n
        <5> QED BY <5>1, <1>2
      <4> HIDE DEF before, n, kept
      <4> QED BY <4>1
    <3>2. ASSUME NEW i \in kept, NEW j \in kept, rank[i] = rank[j] PROVE i = j
      <4>1. before(i) \in Nat /\ before(j) \in Nat /\ before(i) + 1 = before(j) + 1
        BY <1>3, <3>2
      <4>2. before(i) = before(j)
        <5> HIDE DEF before
        <5> QED BY <4>1
      <4> QED BY <4>2, <1>5
    <3> HIDE DEF rank
    <3> QED BY <3>1, <3>2 DEF Injection, IsInjective
  <2>2. IsFiniteSet(1..n) /\ Cardinality(1..n) = n
    BY <1>2, FS_Interval
  <2>3. rank \in Surjection(kept, 1..n)
    <3> HIDE DEF rank, kept
    <3> QED BY <2>1, <2>2, FS_Injection
  <2>4. PICK i \in kept : rank[i] = k
    <3> HIDE DEF rank, kept
    <3> QED BY <2>3 DEF Surjection
  <2>5. before(i) \in Nat /\ before(i) + 1 = k
    BY <1>3, <2>4
  <2>6. before(i) = k - 1
    <3> HIDE DEF before
    <3> QED BY <2>5
  <2> QED BY <2>6
<1>7. Only(q, set) = r
  BY DEF Only
<1>8. ASSUME NEW k \in 1..n
      PROVE  r[k] \in S /\ r[k] \in InSeq(q) \cap set
  <2> DEFINE i == CHOOSE i \in kept : before(i) = k - 1
  <2>1. i \in kept
    <3> HIDE DEF before, kept
    <3> QED BY <1>6
  <2>2. r[k] = q[i]
    OBVIOUS
  <2> HIDE DEF i, r
  <2> QED BY <2>1, <2>2 DEF InSeq
<1>9. ASSUME NEW m \in InSeq(q) \cap set
      PROVE  m \in InSeq(r)
  <2>1. PICK i \in kept : q[i] = m
    BY DEF InSeq
  <2>2. before(i) \in Nat /\ before(i) < n
    BY <1>3
  <2>3. before(i) + 1 \in 1..n /\ (before(i) + 1) - 1 = before(i)
    <3> HIDE DEF before, n
    <3> QED BY <1>2, <2>2
  <2>4. (CHOOSE j \in kept : before(j) = before(i)) = i
    <3> HIDE DEF before, kept
    <3> QED BY <1>5
  <2>5. r[before(i) + 1] = q[i]
    BY <2>3, <2>4
  <2> HIDE DEF r
  <2>6. DOMAIN r = 1..n
    BY DEF r
  <2> QED BY <2>1, <2>3, <2>5, <2>6 DEF InSeq
<1>10. r \in [1..n -> S]
  <2>1. DOMAIN r = 1..n /\ r = [k \in 1..n |-> r[k]]
    OBVIOUS
  <2> HIDE DEF r, n
  <2> QED BY <1>8, <2>1
<1>11. r \in Seq(S) /\ DOMAIN r = 1..n
  <2> HIDE DEF r, n
  <2> QED BY <1>2, <1>10, IsSequence
<1> HIDE DEF r
<1>12. InSeq(r) \subseteq InSeq(q) \cap set
  BY <1>8, <1>11 DEF InSeq
<1> QED BY <1>7, <1>9, <1>11, <1>12

LEMMA WithoutMembers ==
  ASSUME NEW S, NEW q \in Seq(S), NEW set
  PROVE  Without(q, set) \in Seq(S) /\ InSeq(Without(q, set)) = InSeq(q) \ set
BY OnlyMembers DEF Without

LEMMA Joined ==
  ASSUME NEW S, NEW q \in Seq(S), NEW r \in Seq(S)
  PROVE  q \o r \in Seq(S) /\ InSeq(q \o r) = InSeq(q) \cup InSeq(r)
<1>1. /\ q \o r \in Seq(S) /\ Len(q \o r) = Len(q) + Len(r) /\ Len(q) \in Nat /\ Len(r) \in Nat
      /\ \A i \in 1..Len(q) : (q \o r)[i] = q[i]
      /\ \A i \in 1..Len(r) : (q \o r)[Len(q) + i] = r[i]
      /\ \A i \in (Len(q) + 1)..(Len(q) + Len(r)) : (q \o r)[i] = r[i - Len(q)]
  OBVIOUS
<1>2. InSeq(q) \subseteq InSeq(q \o r)
  BY <1>1 DEF InSeq
<1>3. InSeq(r) \subseteq InSeq(q \o r)
  <2>1. ASSUME NEW i \in DOMAIN r PROVE r[i] \in InSeq(q \o r)
    <3>1. Len(q) + i \in DOMAIN (q \o r) /\ (q \o r)[Len(q) + i] = r[i]
      BY <1>1
    <3> QED BY <3>1 DEF InSeq
  <2> QED BY <2>1 DEF InSeq
<1>4. ASSUME NEW i \in DOMAIN (q \o r) PROVE (q \o r)[i] \in InSeq(q) \cup InSeq(r)
  <2>1. CASE i \in 1..Len(q)
    BY <1>1, <2>1 DEF InSeq
  <2>2. CASE i \in (Len(q) + 1)..(Len(q) + Len(r))
    <3>1. i - Len(q) \in DOMAIN r
      BY <1>1, <2>2
    <3> QED BY <1>1, <2>2, <3>1 DEF InSeq
  <2> QED BY <1>1, <2>1, <2>2
<1> QED BY <1>1, <1>2, <1>3, <1>4 DEF InSeq

\* A dragged tab is still there.
LEMMA Dragged ==
  ASSUME NEW S, NEW q \in Seq(S), Len(q) >= 2
  PROVE  /\ <<q[2], q[1]>> \o SubSeq(q, 3, Len(q)) \in Seq(S)
         /\ InSeq(<<q[2], q[1]>> \o SubSeq(q, 3, Len(q))) = InSeq(q)
<1> DEFINE a == <<q[2], q[1]>>
           z == SubSeq(q, 3, Len(q))
<1>1. Len(q) \in Nat /\ DOMAIN q = 1..Len(q) /\ q[1] \in S /\ q[2] \in S
  OBVIOUS
<1>2. a \in Seq(S) /\ InSeq(a) = {q[1], q[2]}
  BY <1>1 DEF InSeq
<1>3. z \in Seq(S) /\ DOMAIN z = 1..(Len(q) - 2) /\ \A i \in 1..(Len(q) - 2) : z[i] = q[i + 2]
  BY <1>1
<1>4. InSeq(z) = {q[i] : i \in 3..Len(q)}
  <2>1. ASSUME NEW i \in 3..Len(q) PROVE q[i] \in InSeq(z)
    <3>1. i - 2 \in DOMAIN z /\ z[i - 2] = q[i]
      BY <1>1, <1>3
    <3> QED BY <3>1 DEF InSeq
  <2>2. ASSUME NEW i \in DOMAIN z PROVE z[i] \in {q[j] : j \in 3..Len(q)}
    <3>1. i + 2 \in 3..Len(q) /\ z[i] = q[i + 2]
      BY <1>1, <1>3
    <3> QED BY <3>1
  <2> QED BY <2>1, <2>2 DEF InSeq
<1>5. InSeq(q) = {q[1], q[2]} \cup {q[i] : i \in 3..Len(q)}
  BY <1>1 DEF InSeq
<1> HIDE DEF a, z
<1>6. a \o z \in Seq(S) /\ InSeq(a \o z) = InSeq(a) \cup InSeq(z)
  BY <1>2, <1>3, Joined
<1> QED BY <1>2, <1>4, <1>5, <1>6 DEF a, z

LEMMA OpenedTab ==
  ASSUME NEW S, NEW q \in Seq(S), NEW m \in S
  PROVE  Append(q, m) \in Seq(S) /\ InSeq(Append(q, m)) = InSeq(q) \cup {m}
<1>1. /\ Append(q, m) \in Seq(S) /\ Len(Append(q, m)) = Len(q) + 1 /\ Len(q) \in Nat
      /\ \A i \in 1..Len(q) : Append(q, m)[i] = q[i]
      /\ Append(q, m)[Len(q) + 1] = m
  OBVIOUS
<1> DEFINE r == Append(q, m)
<1> HIDE DEF r
<1>2. DOMAIN q = 1..Len(q) /\ DOMAIN r = 1..(Len(q) + 1)
  BY <1>1 DEF r
<1>3. InSeq(q) \subseteq InSeq(r) /\ m \in InSeq(r)
  BY <1>1, <1>2 DEF InSeq, r
<1>4. ASSUME NEW i \in DOMAIN r PROVE r[i] \in InSeq(q) \cup {m}
  BY <1>1, <1>2 DEF InSeq, r
<1>5. InSeq(r) \subseteq InSeq(q) \cup {m}
  BY <1>4 DEF InSeq
<1> QED BY <1>1, <1>3, <1>5 DEF r

----------------------------------------------------------------------------
\* What a browser knows of one space.

Local == [has : BOOLEAN, base : Seq(Members), applied : Nat]
Loc == [dock : Seq(Members), key : BOOLEAN, row : Row, local : Local, queued : BOOLEAN]
Page == [up : BOOLEAN, started : BOOLEAN, timer : BOOLEAN, hold : BOOLEAN,
         blank : SUBSET Spaces]

\* Nothing was ever in a row that was never written.
Written(row) == row \in Row /\ (row.ver = 0 => row.members = <<>>)

\* The members of an applied row are in the baseline and, but for the tabs
\* closed since, in the dock.
Even(loc, cl) ==
    loc.row.ver = loc.local.applied /\ ~loc.row.deleted
        => /\ InSeq(loc.row.members) \subseteq InSeq(loc.local.base)
           /\ InSeq(loc.row.members) \subseteq InSeq(loc.dock) \cup cl

\* cl: the tabs closed since a row was applied; ack: the last version applied
\* or written.
Known(loc, cl, ack) ==
    /\ loc \in Loc
    /\ Written(loc.row)
    /\ loc.local.applied <= loc.row.ver
    /\ ack \in Nat /\ ack <= loc.row.ver
    /\ ack = loc.row.ver => loc.row.ver \in {0, loc.local.applied} \/ loc.row.deleted
    /\ Even(loc, cl)

LEMMA EmptySeq == InSeq(<<>>) = {} /\ \A S : <<>> \in Seq(S)
BY DEF InSeq

\* The dock a reconciliation leaves.
Arrived(loc, fails, got) ==
    IF fails THEN loc.dock \o Only(Missing(loc), got) ELSE Opened(loc)

LEMMA MissingMembers ==
  ASSUME NEW loc \in Loc
  PROVE  /\ Missing(loc) \in Seq(Members)
         /\ Unseen(loc) /\ ~loc.row.deleted
              => InSeq(loc.row.members) \subseteq InSeq(loc.dock) \cup InSeq(Missing(loc))
         /\ Missing(loc) # <<>> => Unseen(loc) /\ ~loc.row.deleted
<1>1. loc.row.members \in Seq(Members)
  BY DEF Loc, Row
<1>2. /\ Without(loc.row.members, InSeq(loc.dock)) \in Seq(Members)
      /\ InSeq(Without(loc.row.members, InSeq(loc.dock))) = InSeq(loc.row.members) \ InSeq(loc.dock)
  BY <1>1, WithoutMembers
<1>3. CASE Unseen(loc) /\ ~loc.row.deleted
  <2>1. Missing(loc) = Without(loc.row.members, InSeq(loc.dock))
    BY <1>3 DEF Missing
  <2> QED BY <1>2, <1>3, <2>1
<1>4. CASE ~(Unseen(loc) /\ ~loc.row.deleted)
  <2>1. Missing(loc) = <<>>
    BY <1>4 DEF Missing
  <2> QED BY <1>4, <2>1, EmptySeq
<1> QED BY <1>3, <1>4

\* It keeps what was there, opens what is missing, and nothing else.
LEMMA ArrivedMembers ==
  ASSUME NEW loc \in Loc, NEW fails \in BOOLEAN, NEW got
  PROVE  /\ Arrived(loc, fails, got) \in Seq(Members)
         /\ InSeq(loc.dock) \subseteq InSeq(Arrived(loc, fails, got))
         /\ Missing(loc) = <<>> => InSeq(Arrived(loc, fails, got)) = InSeq(loc.dock)
         /\ Opened(loc) \in Seq(Members)
         /\ ~(fails /\ Missing(loc) # <<>>) => InSeq(Opened(loc)) = InSeq(Arrived(loc, fails, got))
         /\ InSeq(Opened(loc)) = InSeq(loc.dock) \cup InSeq(Missing(loc))
<1> DEFINE some == Only(Missing(loc), got)
<1>1. loc.dock \in Seq(Members) /\ Missing(loc) \in Seq(Members)
  BY MissingMembers DEF Loc
<1>2. some \in Seq(Members) /\ InSeq(some) = InSeq(Missing(loc)) \cap got
  BY <1>1, OnlyMembers
<1>3. Missing(loc) = <<>> => InSeq(Missing(loc)) = {}
  BY EmptySeq
<1>4. Opened(loc) \in Seq(Members) /\ InSeq(Opened(loc)) = InSeq(loc.dock) \cup InSeq(Missing(loc))
  BY <1>1, Joined DEF Opened
<1> HIDE DEF some
<1>5. loc.dock \o some \in Seq(Members) /\ InSeq(loc.dock \o some) = InSeq(loc.dock) \cup InSeq(some)
  BY <1>1, <1>2, Joined
<1>6. CASE fails
  <2>1. Arrived(loc, fails, got) = loc.dock \o some
    BY <1>6 DEF Arrived, some
  <2> QED BY <1>2, <1>3, <1>4, <1>5, <1>6, <2>1
<1>7. CASE ~fails
  <2>1. Arrived(loc, fails, got) = Opened(loc)
    BY <1>7 DEF Arrived
  <2> QED BY <1>3, <1>4, <1>7, <2>1
<1> QED BY <1>6, <1>7

\* The three outcomes of reconciling one live space.
LEMMA ReconciledCases ==
  ASSUME NEW loc \in Loc, NEW fails \in BOOLEAN, NEW got, NEW t \in Nat,
         NEW new, new = Reconciled(loc, fails, got, t)
  PROVE  /\ new \in Loc /\ new.dock = Arrived(loc, fails, got)
         /\ Held(loc, fails) => new.row = loc.row /\ new.local = loc.local
         /\ ~Held(loc, fails) /\ Changed(loc)
              => /\ new.row = [ver |-> t, members |-> new.dock, deleted |-> FALSE]
                 /\ new.local = [has |-> TRUE, base |-> new.dock, applied |-> t]
         /\ ~Held(loc, fails) /\ ~Changed(loc)
              => /\ new.row = loc.row
                 /\ new.local.base = IF loc.local.has THEN Baseline(loc) ELSE new.dock
                 /\ new.local.applied = IF Unseen(loc) THEN loc.row.ver ELSE loc.local.applied
                 /\ new.local.has
<1> DEFINE dock == Arrived(loc, fails, got)
           key == loc.key \/ dock # loc.dock
           with == [loc EXCEPT !.dock = dock, !.key = key]
           wrote == [with EXCEPT !.row = [ver |-> t, members |-> dock, deleted |-> FALSE],
                                 !.queued = TRUE,
                                 !.local = [has |-> TRUE, base |-> dock, applied |-> t]]
           base == IF loc.local.has THEN Baseline(loc) ELSE dock
           applied == IF Unseen(loc) THEN loc.row.ver ELSE loc.local.applied
           kept == [with EXCEPT !.local = [has |-> TRUE, base |-> base, applied |-> applied]]
<1>1. dock \in Seq(Members) /\ Opened(loc) \in Seq(Members)
  BY ArrivedMembers
<1>2. /\ loc.row \in Row /\ loc.local \in Local /\ loc.key \in BOOLEAN /\ loc.queued \in BOOLEAN
      /\ loc.row.ver \in Nat /\ loc.local.applied \in Nat /\ loc.local.base \in Seq(Members)
  BY DEF Loc, Row, Local
<1>3. base \in Seq(Members)
  <2> HIDE DEF dock
  <2> QED BY <1>1, <1>2 DEF Baseline
<1>4. applied \in Nat
  BY <1>2
<1>5. key \in BOOLEAN
  BY <1>2
<1>6. new = IF Held(loc, fails) THEN with ELSE IF Changed(loc) THEN wrote ELSE kept
  <2>1. with.local = loc.local
    BY DEF Loc
  <2> QED BY <2>1 DEF Reconciled, Arrived
<1> HIDE DEF dock, key, base, applied
<1>7. /\ with \in Loc /\ with.dock = dock /\ with.row = loc.row /\ with.local = loc.local
  BY <1>1, <1>2, <1>5 DEF Loc
<1>8. [ver |-> t, members |-> dock, deleted |-> FALSE] \in Row
  BY <1>1 DEF Row
<1>9. /\ [has |-> TRUE, base |-> dock, applied |-> t] \in Local
      /\ [has |-> TRUE, base |-> base, applied |-> applied] \in Local
  BY <1>1, <1>3, <1>4 DEF Local
<1> HIDE DEF with
<1>10. /\ wrote \in Loc /\ wrote.dock = dock
       /\ wrote.row = [ver |-> t, members |-> dock, deleted |-> FALSE]
       /\ wrote.local = [has |-> TRUE, base |-> dock, applied |-> t]
  BY <1>7, <1>8, <1>9 DEF Loc
<1>11. /\ kept \in Loc /\ kept.dock = dock /\ kept.row = loc.row
       /\ kept.local = [has |-> TRUE, base |-> base, applied |-> applied]
  BY <1>7, <1>9 DEF Loc
<1> HIDE DEF wrote, kept
<1>12. CASE Held(loc, fails)
  BY <1>6, <1>7, <1>12 DEF dock
<1>13. CASE ~Held(loc, fails) /\ Changed(loc)
  <2>1. new = wrote
    BY <1>6, <1>13
  <2> QED BY <1>10, <1>13, <2>1 DEF dock
<1>14. CASE ~Held(loc, fails) /\ ~Changed(loc)
  <2>1. new = kept
    BY <1>6, <1>14
  <2> QED BY <1>11, <1>14, <2>1 DEF dock, base, applied
<1> QED BY <1>12, <1>13, <1>14

\* A live space after reconciliation: either it is held back and as it was but
\* for what was opened, or the browser is level with the row it has.
LEMMA ReconciledKnown ==
  ASSUME NEW loc, NEW cl, NEW ack, Known(loc, cl, ack),
         NEW fails \in BOOLEAN, NEW got, NEW c \in Nat, loc.row.ver <= c,
         NEW new, new = Reconciled(loc, fails, got, c + 1)
  PROVE  /\ Held(loc, fails) => Known(new, cl, ack)
         /\ ~Held(loc, fails) => Known(new, {}, new.row.ver)
         /\ \/ new.row = loc.row
            \/ /\ new.row.ver = c + 1
               /\ ~loc.row.deleted => InSeq(loc.row.members) \ InSeq(new.row.members) \subseteq cl
         /\ InSeq(new.dock) \subseteq InSeq(loc.dock) \/ loc.row.ver > ack
<1> DEFINE t == c + 1
           dock == Arrived(loc, fails, got)
<1>1. /\ loc \in Loc /\ Written(loc.row) /\ loc.local.applied <= loc.row.ver
      /\ ack \in Nat /\ ack <= loc.row.ver
      /\ ack = loc.row.ver => loc.row.ver \in {0, loc.local.applied} \/ loc.row.deleted
      /\ Even(loc, cl)
  BY DEF Known
<1>2. /\ loc.row \in Row /\ loc.row.ver \in Nat /\ loc.row.members \in Seq(Members) /\ loc.row.deleted \in BOOLEAN
      /\ loc.local.applied \in Nat /\ loc.local.has \in BOOLEAN
  BY <1>1 DEF Loc, Row, Local
<1>3. t \in Nat /\ t # 0 /\ t > loc.row.ver
  BY <1>2
<1>4. /\ new \in Loc /\ new.dock = dock
      /\ Held(loc, fails) => new.row = loc.row /\ new.local = loc.local
      /\ ~Held(loc, fails) /\ Changed(loc)
           => /\ new.row = [ver |-> t, members |-> new.dock, deleted |-> FALSE]
              /\ new.local = [has |-> TRUE, base |-> new.dock, applied |-> t]
      /\ ~Held(loc, fails) /\ ~Changed(loc)
           => /\ new.row = loc.row
              /\ new.local.base = IF loc.local.has THEN Baseline(loc) ELSE new.dock
              /\ new.local.applied = IF Unseen(loc) THEN loc.row.ver ELSE loc.local.applied
  BY <1>1, <1>3, ReconciledCases
<1>5. /\ dock \in Seq(Members) /\ InSeq(loc.dock) \subseteq InSeq(dock)
      /\ Missing(loc) = <<>> => InSeq(dock) = InSeq(loc.dock)
      /\ ~Held(loc, fails) => InSeq(Opened(loc)) = InSeq(dock)
      /\ InSeq(Opened(loc)) = InSeq(loc.dock) \cup InSeq(Missing(loc))
  BY <1>1, ArrivedMembers DEF Held
<1>6. /\ Unseen(loc) /\ ~loc.row.deleted
           => InSeq(loc.row.members) \subseteq InSeq(loc.dock) \cup InSeq(Missing(loc))
      /\ Missing(loc) # <<>> => Unseen(loc) /\ ~loc.row.deleted
  BY <1>1, MissingMembers
<1>7. Unseen(loc) <=> loc.row.ver # 0 /\ loc.row.ver # loc.local.applied
  BY DEF Unseen
<1> HIDE DEF dock, t
<1>8. InSeq(new.dock) \subseteq InSeq(loc.dock) \/ loc.row.ver > ack
  <2>1. CASE Missing(loc) = <<>>
    BY <1>4, <1>5, <2>1
  <2>2. CASE Missing(loc) # <<>>
    BY <1>1, <1>2, <1>6, <1>7, <2>2
  <2> QED BY <2>1, <2>2
<1>9. ~Held(loc, fails) /\ Unseen(loc) /\ ~loc.row.deleted => InSeq(loc.row.members) \subseteq InSeq(dock)
  BY <1>5, <1>6
<1>10. ~Unseen(loc) /\ ~loc.row.deleted
         => InSeq(loc.row.members) \subseteq InSeq(loc.dock) \cup cl
  <2>1. loc.row.ver = 0 => InSeq(loc.row.members) = {}
    BY <1>1, EmptySeq DEF Written
  <2>2. loc.row.ver = loc.local.applied /\ ~loc.row.deleted
          => InSeq(loc.row.members) \subseteq InSeq(loc.dock) \cup cl
    BY <1>1 DEF Even
  <2> QED BY <1>7, <2>1, <2>2
<1>11. CASE Held(loc, fails)
  <2>1. new.row = loc.row /\ new.local = loc.local /\ new \in Loc /\ InSeq(loc.dock) \subseteq InSeq(new.dock)
    BY <1>4, <1>5, <1>11
  <2>2. Even(new, cl)
    BY <1>1, <2>1 DEF Even
  <2>3. Known(new, cl, ack)
    BY <1>1, <2>1, <2>2 DEF Known
  <2> QED BY <1>8, <1>11, <2>1, <2>3
<1>12. CASE ~Held(loc, fails) /\ Changed(loc)
  <2>1. /\ new.row = [ver |-> t, members |-> new.dock, deleted |-> FALSE]
        /\ new.local = [has |-> TRUE, base |-> new.dock, applied |-> t]
    BY <1>4, <1>12
  <2>2. /\ new.row.ver = t /\ new.row.members = new.dock /\ new.row.deleted = FALSE
        /\ new.local.base = new.dock /\ new.local.applied = t
    BY <2>1
  <2>3. new.row \in Row
    BY <1>4 DEF Loc
  <2>4. Even(new, {})
    BY <2>2 DEF Even
  <2>5. Known(new, {}, new.row.ver)
    BY <1>3, <1>4, <2>2, <2>3, <2>4 DEF Known, Written
  <2>6. ~loc.row.deleted => InSeq(loc.row.members) \ InSeq(new.row.members) \subseteq cl
    BY <1>4, <1>5, <1>9, <1>10, <1>12, <2>2
  <2> QED BY <1>8, <1>12, <2>2, <2>5, <2>6 DEF t
<1>13. CASE ~Held(loc, fails) /\ ~Changed(loc)
  <2>1. /\ new.row = loc.row
        /\ new.local.base = IF loc.local.has THEN Baseline(loc) ELSE new.dock
        /\ new.local.applied = IF Unseen(loc) THEN loc.row.ver ELSE loc.local.applied
    BY <1>4, <1>13
  <2>2. InSeq(new.local.base) = InSeq(new.dock)
    <3>1. CASE loc.local.has
      <4>1. Baseline(loc) = Opened(loc)
        BY <1>13, <3>1 DEF Changed
      <4> QED BY <1>4, <1>5, <1>13, <2>1, <3>1, <4>1
    <3>2. CASE ~loc.local.has
      BY <2>1, <3>2
    <3> QED BY <3>1, <3>2
  <2>3. ~loc.row.deleted /\ loc.row.ver # 0 => InSeq(loc.row.members) \subseteq InSeq(new.dock)
    <3>1. CASE Unseen(loc)
      BY <1>4, <1>9, <1>13, <3>1
    <3>2. CASE ~Unseen(loc) /\ loc.local.has
      <4>1. Baseline(loc) = Opened(loc) /\ Baseline(loc) = loc.local.base
        BY <1>13, <3>2 DEF Changed, Baseline
      <4>2. loc.row.ver = loc.local.applied /\ ~loc.row.deleted
              => InSeq(loc.row.members) \subseteq InSeq(loc.local.base)
        BY <1>1 DEF Even
      <4> QED BY <1>4, <1>5, <1>7, <1>13, <3>2, <4>1, <4>2
    <3>3. CASE ~Unseen(loc) /\ ~loc.local.has
      <4>1. loc.row.deleted \/ loc.row.ver = 0 \/ loc.row.members = Opened(loc)
        BY <1>13, <3>3 DEF Changed
      <4> QED BY <1>4, <1>5, <1>13, <4>1
    <3> QED BY <3>1, <3>2, <3>3
  <2>4. loc.row.ver = 0 => InSeq(loc.row.members) = {}
    BY <1>1, EmptySeq DEF Written
  <2>5. Even(new, {})
    BY <2>1, <2>2, <2>3, <2>4 DEF Even
  <2>6. new.local.applied <= new.row.ver /\ new.row.ver \in {0, new.local.applied}
    BY <1>1, <1>2, <1>7, <2>1
  <2>7. Known(new, {}, new.row.ver)
    BY <1>1, <1>2, <1>4, <2>1, <2>5, <2>6 DEF Known
  <2> QED BY <1>8, <1>13, <2>1, <2>7
<1> QED BY <1>11, <1>12, <1>13

\* A closed space: its row is deleted, and nothing is left to apply.
LEMMA SweptKnown ==
  ASSUME NEW loc, NEW cl, NEW ack, Known(loc, cl, ack), NEW c \in Nat, loc.row.ver <= c,
         NEW new, new = Swept(loc, c + 1)
  PROVE  /\ Known(new, {}, new.row.ver)
         /\ new.dock = loc.dock /\ new.key = loc.key
         /\ new.row = loc.row \/ (new.row.ver = c + 1 /\ new.row.deleted)
<1>1. /\ loc \in Loc /\ Written(loc.row) /\ loc.local.applied <= loc.row.ver
      /\ loc.row \in Row /\ loc.row.ver \in Nat /\ loc.row.deleted \in BOOLEAN
  BY DEF Known, Loc, Row
<1>2. CASE loc.row.ver = 0 \/ loc.row.deleted
  <2>1. new = loc
    BY <1>2 DEF Swept
  <2>2. Even(new, {})
    <3>1. loc.row.ver = 0 => InSeq(loc.row.members) = {}
      BY <1>1, EmptySeq DEF Written
    <3> QED BY <1>2, <2>1, <3>1 DEF Even
  <2> QED BY <1>1, <1>2, <2>1, <2>2 DEF Known
<1>3. CASE ~(loc.row.ver = 0 \/ loc.row.deleted)
  <2> DEFINE row == [ver |-> c + 1, members |-> <<>>, deleted |-> TRUE]
             local == [NoLocal EXCEPT !.applied = c + 1]
  <2>1. row \in Row
    BY EmptySeq DEF Row
  <2>2. local \in Local /\ local.applied = c + 1
    <3>1. NoLocal \in Local
      BY EmptySeq DEF NoLocal, Local
    <3> QED BY <3>1 DEF Local
  <2>3. new = [[loc EXCEPT !.row = row, !.queued = TRUE] EXCEPT !.local = local]
    <3>1. Removed(loc, c + 1) = [loc EXCEPT !.row = row, !.queued = TRUE]
      BY DEF Removed
    <3>2. new = [Removed(loc, c + 1) EXCEPT !.local = [NoLocal EXCEPT !.applied = c + 1]]
      BY <1>3 DEF Swept
    <3> HIDE DEF local, row
    <3> QED BY <3>1, <3>2 DEF local
  <2> HIDE DEF row, local
  <2>4. new \in Loc /\ new.row = row /\ new.local = local /\ new.dock = loc.dock /\ new.key = loc.key
    BY <1>1, <2>1, <2>2, <2>3 DEF Loc
  <2>5. new.row.ver = c + 1 /\ new.row.deleted = TRUE /\ new.local.applied = c + 1 /\ new.row.members = <<>>
    BY <2>2, <2>4 DEF row
  <2>6. Even(new, {})
    BY <2>5 DEF Even
  <2>7. new.row.ver \in Nat /\ new.row \in Row
    BY <2>1, <2>4, <2>5
  <2>8. Written(new.row)
    BY <2>5, <2>7 DEF Written
  <2>9. Known(new, {}, new.row.ver)
    BY <2>4, <2>5, <2>6, <2>7, <2>8 DEF Known
  <2> QED BY <2>4, <2>5, <2>9
<1> QED BY <1>2, <1>3

----------------------------------------------------------------------------
\* The inductive invariant.

TypesOK ==
    /\ clock \in Nat /\ edits \in Nat
    /\ srow \in [Spaces -> Row]
    /\ page \in [Browsers -> Page]
    /\ store \in [Browsers -> [Spaces -> Loc]]
    /\ closed \in [Browsers -> [Spaces -> SUBSET Members]]
    /\ acked \in [Browsers -> [Spaces -> Nat]]

\* A version is the time of a write that was made.
RowsPast ==
    /\ \A s \in Spaces : Written(srow[s]) /\ srow[s].ver <= clock
    /\ \A b \in Browsers, s \in Spaces : store[b][s].row.ver <= clock

Knowing == \A b \in Browsers, s \in Spaces : Known(store[b][s], closed[b][s], acked[b][s])

\* Before its lane move a browser has applied no row, and has a dock for the
\* lane only if its user has begun one.
Holding ==
    \A b \in Browsers : page[b].hold =>
        /\ \A s \in Spaces : store[b][s].local.applied = 0
        /\ store[b][To].key => b \in entered

IInv == TypesOK /\ RowsPast /\ Knowing /\ Holding

\* What MembersSteps says of one step.
Drops(b, s) ==
    LET was == store[b][s].row
        now == store'[b][s].row
    IN  now.ver = clock + 1 /\ ~now.deleted /\ ~was.deleted
          => InSeq(was.members) \ InSeq(now.members) \subseteq closed[b][s]

Opens(b, s) ==
    ~(InSeq(store'[b][s].dock) \subseteq InSeq(store[b][s].dock))
      => \/ edits' # edits \/ page'[b].hold # page[b].hold
         \/ store[b][s].row.ver > acked[b][s]

Lands(b) ==
    page[b].hold /\ ~page'[b].hold /\ b \notin entered
      => InSeq(store[b][From].dock) \subseteq InSeq(store'[b][To].dock)

Step == \A b \in Browsers : Lands(b) /\ \A s \in Spaces : Drops(b, s) /\ Opens(b, s)

LEMMA Stuttered == ASSUME IInv, UNCHANGED vars PROVE IInv' /\ Step
<1>1. IInv'
  <2>1. TypesOK'
    BY DEF IInv, TypesOK, vars
  <2>2. RowsPast'
    BY DEF IInv, RowsPast, vars
  <2>3. Knowing'
    BY DEF IInv, Knowing, vars
  <2>4. Holding'
    BY DEF IInv, Holding, vars
  <2> QED BY <2>1, <2>2, <2>3, <2>4 DEF IInv
<1>2. Step
  <2>1. ASSUME NEW b \in Browsers, NEW s \in Spaces PROVE store[b][s].row.ver # clock + 1
    <3>1. store[b][s].row.ver <= clock /\ clock \in Nat /\ store[b][s] \in Loc
      BY DEF IInv, RowsPast, TypesOK
    <3> QED BY <3>1 DEF Loc, Row
  <2> QED BY <2>1 DEF Step, Drops, Opens, Lands, vars
<1> QED BY <1>1, <1>2

LEMMA BlanksAreSpaces == Blanks \subseteq SUBSET Spaces
BY MembersAssumption DEF Blanks

LEMMA Started == Init => IInv
<1> SUFFICES ASSUME Init PROVE IInv
  OBVIOUS
<1>1. NoRow \in Row /\ NoRow.ver = 0 /\ NoRow.members = <<>> /\ NoRow.deleted = FALSE
  BY EmptySeq DEF NoRow, Row
<1>2. NoLocal \in Local /\ NoLocal.applied = 0
  BY EmptySeq DEF NoLocal, Local
<1>3. From \in Spaces /\ To \in Spaces /\ From # To /\ Moves \in BOOLEAN
  BY MembersAssumption
<1>4. PICK first \in Starts :
          store = [b \in Browsers |-> [s \in Spaces |->
                     [dock |-> IF s = From THEN first[b] ELSE <<>>,
                      key |-> s = From, row |-> NoRow, local |-> NoLocal, queued |-> FALSE]]]
  BY DEF Init
<1>5. first \in [Browsers -> Seq(Members)]
  BY MembersAssumption
<1>6. ASSUME NEW b \in Browsers, NEW s \in Spaces
      PROVE  /\ store[b][s] \in Loc /\ store[b][s].row = NoRow /\ store[b][s].local = NoLocal
             /\ store[b][s].key = (s = From)
  <2> DEFINE dock == IF s = From THEN first[b] ELSE <<>>
  <2>1. dock \in Seq(Members)
    BY <1>5, EmptySeq
  <2> HIDE DEF dock
  <2>2. store[b][s] = [dock |-> dock, key |-> s = From, row |-> NoRow, local |-> NoLocal, queued |-> FALSE]
    BY <1>4 DEF dock
  <2> QED BY <1>1, <1>2, <2>1, <2>2 DEF Loc
<1>7. TypesOK
  <2>1. store \in [Browsers -> [Spaces -> Loc]]
    <3>1. /\ store = [b \in Browsers |-> store[b]]
          /\ \A b \in Browsers : store[b] = [s \in Spaces |-> store[b][s]]
      BY <1>4
    <3> QED BY <1>6, <3>1
  <2>2. page \in [Browsers -> Page]
    <3>1. PICK shown \in [Browsers -> Blanks] :
              page = [b \in Browsers |-> [up |-> FALSE, started |-> FALSE, timer |-> FALSE,
                                          hold |-> Moves, blank |-> shown[b]]]
      BY DEF Init
    <3>2. \A b \in Browsers : shown[b] \in SUBSET Spaces
      BY BlanksAreSpaces
    <3> QED BY <1>3, <3>1, <3>2 DEF Page
  <2> QED BY <1>1, <2>1, <2>2 DEF Init, TypesOK
<1>8. RowsPast
  <2>1. clock = 0 /\ \A s \in Spaces : srow[s] = NoRow
    BY DEF Init
  <2> QED BY <1>1, <1>6, <2>1 DEF RowsPast, Written
<1>9. Knowing
  <2>1. ASSUME NEW b \in Browsers, NEW s \in Spaces PROVE Known(store[b][s], closed[b][s], acked[b][s])
    <3>1. acked[b][s] = 0
      BY DEF Init
    <3> QED BY <1>1, <1>2, <1>6, <3>1, EmptySeq DEF Known, Even, Written
  <2> QED BY <2>1 DEF Knowing
<1>10. Holding
  BY <1>2, <1>3, <1>6 DEF Holding
<1> QED BY <1>7, <1>8, <1>9, <1>10 DEF IInv

----------------------------------------------------------------------------
\* The actions.

\* What IInv says of one browser and one space.
LEMMA IInvAt ==
  ASSUME IInv, NEW b \in Browsers, NEW s \in Spaces
  PROVE  /\ clock \in Nat /\ edits \in Nat
         /\ store[b][s] \in Loc /\ Known(store[b][s], closed[b][s], acked[b][s])
         /\ Written(store[b][s].row) /\ store[b][s].row \in Row /\ store[b][s].row.ver \in Nat
         /\ store[b][s].row.ver <= clock
         /\ Written(srow[s]) /\ srow[s] \in Row /\ srow[s].ver \in Nat /\ srow[s].ver <= clock
         /\ closed[b][s] \in SUBSET Members /\ acked[b][s] \in Nat
         /\ store[b][s].dock \in Seq(Members)
         /\ page[b] \in Page
<1>1. TypesOK /\ RowsPast /\ Knowing
  BY DEF IInv
<1>2. store[b][s] \in Loc /\ Known(store[b][s], closed[b][s], acked[b][s])
  BY <1>1 DEF TypesOK, Knowing
<1>3. Written(store[b][s].row) /\ store[b][s].row \in Row
  BY <1>2 DEF Known, Loc
<1>4. srow[s] \in Row /\ Written(srow[s]) /\ srow[s].ver <= clock /\ store[b][s].row.ver <= clock
  BY <1>1 DEF TypesOK, RowsPast
<1> QED BY <1>1, <1>2, <1>3, <1>4 DEF TypesOK, Loc, Row

\* A step in which no browser writes a row, no dock grows unless a user
\* changed it, and no browser moves its lane.
LEMMA QuietStep ==
  ASSUME IInv,
         \A b \in Browsers : page'[b].hold = page[b].hold,
         \A b \in Browsers, s \in Spaces :
            /\ store'[b][s].row.ver <= clock
            /\ \/ edits' # edits
               \/ InSeq(store'[b][s].dock) \subseteq InSeq(store[b][s].dock),
         \A b \in Browsers, s \in Spaces : store'[b][s].row.ver \in Nat
  PROVE  Step
<1>1. ASSUME NEW b \in Browsers, NEW s \in Spaces PROVE Drops(b, s) /\ Opens(b, s)
  <2>1. store'[b][s].row.ver # clock + 1
    BY IInvAt
  <2> QED BY <2>1 DEF Drops, Opens
<1>2. ASSUME NEW b \in Browsers PROVE Lands(b)
  BY DEF Lands
<1> QED BY <1>1, <1>2 DEF Step

\* The dock of one space, after its user changed it.
LEMMA Redocked ==
  ASSUME NEW loc, NEW cl, NEW ack, Known(loc, cl, ack), NEW q \in Seq(Members),
         NEW new \in Loc, new.row = loc.row, new.local = loc.local, new.dock = q,
         NEW ncl, InSeq(loc.dock) \cup cl \subseteq InSeq(q) \cup ncl
  PROVE  Known(new, ncl, ack)
<1>1. Even(new, ncl)
  BY DEF Known, Even
<1> QED BY <1>1 DEF Known

LEMMA SetDockStep ==
  ASSUME IInv, NEW b \in Browsers, NEW s \in Spaces, NEW q \in Seq(Members), SetDock(b, s, q),
         NEW cl \in SUBSET Members, closed' = [closed EXCEPT ![b][s] = cl],
         InSeq(store[b][s].dock) \cup closed[b][s] \subseteq InSeq(q) \cup cl
  PROVE  IInv' /\ Step
<1>1. TypesOK /\ RowsPast /\ Knowing /\ Holding
  BY DEF IInv
<1> DEFINE new == [store[b][s] EXCEPT !.dock = q, !.key = TRUE]
<1>2. new \in Loc /\ new.row = store[b][s].row /\ new.local = store[b][s].local /\ new.dock = q
  BY IInvAt DEF Loc
<1>3. Known(new, cl, acked[b][s])
  <2>1. Known(store[b][s], closed[b][s], acked[b][s])
    BY IInvAt
  <2> HIDE DEF new
  <2> QED BY <1>2, <2>1, Redocked
<1>4. /\ edits' = edits + 1 /\ UNCHANGED <<srow, clock, acked>>
      /\ store' = [store EXCEPT ![b][s] = new]
      /\ page' = [page EXCEPT ![b].timer = TRUE]
      /\ entered' = IF s = To /\ page[b].hold THEN entered \cup {b} ELSE entered
  BY <1>1 DEF SetDock, Acts, Scheduled, TypesOK
<1> HIDE DEF new
<1>5. /\ store' \in [Browsers -> [Spaces -> Loc]] /\ store'[b][s] = new
      /\ \A c \in Browsers, z \in Spaces : c # b \/ z # s => store'[c][z] = store[c][z]
  BY <1>1, <1>2, <1>4 DEF TypesOK
<1>6. page' \in [Browsers -> Page] /\ \A c \in Browsers : page'[c].hold = page[c].hold
  <2>1. page[b] \in Page
    BY IInvAt
  <2>2. [page[b] EXCEPT !.timer = TRUE] \in Page /\ [page[b] EXCEPT !.timer = TRUE].hold = page[b].hold
    BY <2>1 DEF Page
  <2>3. page' = [page EXCEPT ![b] = [page[b] EXCEPT !.timer = TRUE]] /\ page \in [Browsers -> Page]
    BY <1>1, <1>4 DEF TypesOK
  <2> QED BY <2>2, <2>3
<1>7. /\ closed' \in [Browsers -> [Spaces -> SUBSET Members]] /\ closed'[b][s] = cl
      /\ \A c \in Browsers, z \in Spaces : c # b \/ z # s => closed'[c][z] = closed[c][z]
  BY <1>1 DEF TypesOK
<1>8. TypesOK'
  BY <1>1, <1>4, <1>5, <1>6, <1>7 DEF TypesOK
<1>9. \A c \in Browsers, z \in Spaces : store'[c][z].row = store[c][z].row /\ store'[c][z].local = store[c][z].local
  BY <1>2, <1>5
<1>10. RowsPast'
  BY <1>1, <1>4, <1>9 DEF RowsPast
<1>11. Knowing'
  BY <1>1, <1>3, <1>4, <1>5, <1>7 DEF Knowing
<1>12. Holding'
  <2>1. ASSUME NEW c \in Browsers, page'[c].hold, store'[c][To].key PROVE c \in entered'
    <3>1. CASE c = b /\ s = To
      BY <1>4, <1>6, <2>1, <3>1
    <3>2. CASE ~(c = b /\ s = To)
      BY <1>1, <1>4, <1>5, <1>6, <2>1, <3>2, MembersAssumption DEF Holding
    <3> QED BY <3>1, <3>2
  <2> QED BY <1>1, <1>6, <1>9, <2>1 DEF Holding
<1>13. Step
  <2>1. edits' # edits
    BY <1>1, <1>4 DEF TypesOK
  <2>2. \A c \in Browsers, z \in Spaces : store'[c][z].row.ver <= clock /\ store'[c][z].row.ver \in Nat
    BY <1>9, IInvAt
  <2> QED BY <1>6, <2>1, <2>2, QuietStep
<1> QED BY <1>8, <1>10, <1>11, <1>12, <1>13 DEF IInv

LEMMA OpenTabStep ==
  ASSUME IInv, NEW b \in Browsers, NEW s \in Spaces, NEW m \in Members, OpenTab(b, s, m)
  PROVE  IInv' /\ Step
<1> DEFINE q == Append(store[b][s].dock, m)
           cl == closed[b][s] \ {m}
<1>1. q \in Seq(Members) /\ InSeq(q) = InSeq(store[b][s].dock) \cup {m}
  BY IInvAt, OpenedTab
<1>2. cl \in SUBSET Members
  BY IInvAt
<1>3. SetDock(b, s, q) /\ closed' = [closed EXCEPT ![b][s] = cl]
  BY DEF OpenTab
<1> HIDE DEF q
<1>4. InSeq(store[b][s].dock) \cup closed[b][s] \subseteq InSeq(q) \cup cl
  BY <1>1
<1> HIDE DEF cl
<1> QED BY <1>1, <1>2, <1>3, <1>4, SetDockStep

LEMMA CloseTabStep ==
  ASSUME IInv, NEW b \in Browsers, NEW s \in Spaces, NEW m \in Members, CloseTab(b, s, m)
  PROVE  IInv' /\ Step
<1> DEFINE q == Without(store[b][s].dock, {m})
           cl == closed[b][s] \cup {m}
<1>1. q \in Seq(Members) /\ InSeq(q) = InSeq(store[b][s].dock) \ {m}
  BY IInvAt, WithoutMembers
<1>2. cl \in SUBSET Members
  BY IInvAt
<1>3. SetDock(b, s, q) /\ closed' = [closed EXCEPT ![b][s] = cl]
  BY DEF CloseTab
<1> HIDE DEF q
<1>4. InSeq(store[b][s].dock) \cup closed[b][s] \subseteq InSeq(q) \cup cl
  BY <1>1
<1> HIDE DEF cl
<1> QED BY <1>1, <1>2, <1>3, <1>4, SetDockStep

LEMMA DragTabStep ==
  ASSUME IInv, NEW b \in Browsers, NEW s \in Spaces, DragTab(b, s)
  PROVE  IInv' /\ Step
<1> DEFINE d == store[b][s].dock
           q == <<d[2], d[1]>> \o SubSeq(d, 3, Len(d))
<1>1. Len(d) >= 2 /\ SetDock(b, s, q) /\ closed' = closed
  BY DEF DragTab
<1>2. d \in Seq(Members)
  BY IInvAt
<1> HIDE DEF d
<1>3. q \in Seq(Members) /\ InSeq(q) = InSeq(d)
  BY <1>1, <1>2, Dragged
<1> HIDE DEF q
<1>4. closed[b][s] \in SUBSET Members
  BY IInvAt
<1>5. closed' = [closed EXCEPT ![b][s] = closed[b][s]]
  BY <1>1 DEF IInv, TypesOK
<1>6. InSeq(store[b][s].dock) \cup closed[b][s] \subseteq InSeq(q) \cup closed[b][s]
  BY <1>3 DEF d
<1> QED BY <1>1, <1>3, <1>4, <1>5, <1>6, SetDockStep

\* A step that touches nothing but the pages, and no hold.
LEMMA PagesStep ==
  ASSUME IInv, UNCHANGED <<srow, store, clock, closed, acked, entered>>,
         edits' \in Nat, page' \in [Browsers -> Page],
         \A b \in Browsers : page'[b].hold = page[b].hold
  PROVE  IInv' /\ Step
<1>1. TypesOK /\ RowsPast /\ Knowing /\ Holding
  BY DEF IInv
<1>2. TypesOK'
  BY <1>1 DEF TypesOK
<1>3. RowsPast' /\ Knowing'
  BY <1>1 DEF RowsPast, Knowing
<1>4. Holding'
  BY <1>1 DEF Holding
<1>5. Step
  BY IInvAt, QuietStep
<1> QED BY <1>2, <1>3, <1>4, <1>5 DEF IInv

LEMMA AllScheduledPages ==
  ASSUME page \in [Browsers -> Page]
  PROVE  /\ AllScheduled \in [Browsers -> Page]
         /\ \A b \in Browsers : AllScheduled[b].hold = page[b].hold /\ AllScheduled[b].blank = page[b].blank
<1>1. ASSUME NEW b \in Browsers
      PROVE  /\ [page[b] EXCEPT !.timer = Up(b)] \in Page
             /\ [page[b] EXCEPT !.timer = Up(b)].hold = page[b].hold
             /\ [page[b] EXCEPT !.timer = Up(b)].blank = page[b].blank
  BY DEF Page, Up
<1> QED BY <1>1 DEF AllScheduled

LEMMA CloseSpaceStep ==
  ASSUME IInv, NEW s \in Spaces, CloseSpace(s) \/ ReopenSpace(s)
  PROVE  IInv' /\ Step
<1>1. page \in [Browsers -> Page] /\ edits \in Nat
  BY DEF IInv, TypesOK
<1>2. /\ edits' = edits + 1 /\ page' = AllScheduled
      /\ UNCHANGED <<srow, store, clock, closed, acked, entered>>
  BY DEF CloseSpace, ReopenSpace, Acts
<1>3. edits' \in Nat
  BY <1>1, <1>2
<1>4. page' \in [Browsers -> Page] /\ \A b \in Browsers : page'[b].hold = page[b].hold
  BY <1>1, <1>2, AllScheduledPages
<1> QED BY <1>2, <1>3, <1>4, PagesStep

LEMMA LeaveStep ==
  ASSUME IInv, NEW b \in Browsers, NEW shown \in Blanks, Leave(b, shown)
  PROVE  IInv' /\ Step
<1>1. page \in [Browsers -> Page] /\ edits \in Nat
  BY DEF IInv, TypesOK
<1>2. /\ edits' = edits + 1
      /\ page' = [page EXCEPT ![b].up = FALSE, ![b].started = FALSE, ![b].timer = FALSE, ![b].blank = shown]
      /\ UNCHANGED <<srow, store, clock, closed, acked, entered>>
  BY DEF Leave, Acts
<1>3. edits' \in Nat
  BY <1>1, <1>2
<1>4. page' \in [Browsers -> Page] /\ \A c \in Browsers : page'[c].hold = page[c].hold
  <2>1. shown \in SUBSET Spaces
    BY BlanksAreSpaces
  <2>2. [page[b] EXCEPT !.up = FALSE, !.started = FALSE, !.timer = FALSE, !.blank = shown] \in Page
    BY <1>1, <2>1 DEF Page
  <2> QED BY <1>1, <1>2, <2>2 DEF Page
<1> QED BY <1>2, <1>3, <1>4, PagesStep

LEMMA DockReadyStep ==
  ASSUME IInv, NEW b \in Browsers, DockReady(b)
  PROVE  IInv' /\ Step
<1>1. page \in [Browsers -> Page] /\ edits \in Nat
  BY DEF IInv, TypesOK
<1>2. /\ page' = [page EXCEPT ![b].blank = {}, ![b].timer = TRUE]
      /\ UNCHANGED <<srow, edits, store, clock, closed, acked, entered>>
  BY DEF DockReady
<1>3. page' \in [Browsers -> Page] /\ \A c \in Browsers : page'[c].hold = page[c].hold
  BY <1>1, <1>2 DEF Page
<1> QED BY <1>1, <1>2, <1>3, PagesStep

LEMMA LoadStep ==
  ASSUME IInv, NEW b \in Browsers, Load(b)
  PROVE  IInv' /\ Step
<1>1. page \in [Browsers -> Page] /\ edits \in Nat /\ store \in [Browsers -> [Spaces -> Loc]]
  BY DEF IInv, TypesOK
<1>2. /\ page' = [page EXCEPT ![b].up = TRUE, ![b].timer = TRUE]
      /\ store' = [store EXCEPT ![b] = store[b]]
      /\ UNCHANGED <<srow, edits, clock, closed, acked, entered>>
  BY DEF Load, Reloaded
<1>3. store' = store
  BY <1>1, <1>2
<1>4. page' \in [Browsers -> Page] /\ \A c \in Browsers : page'[c].hold = page[c].hold
  BY <1>1, <1>2 DEF Page
<1> QED BY <1>1, <1>2, <1>3, <1>4, PagesStep

\* A post: the row reaches the server, and the browser's stays.
LEMMA PostStep ==
  ASSUME IInv, NEW b \in Browsers, NEW s \in Spaces, Post(b, s)
  PROVE  IInv' /\ Step
<1>1. TypesOK /\ RowsPast /\ Knowing /\ Holding
  BY DEF IInv
<1> DEFINE new == [store[b][s] EXCEPT !.queued = FALSE]
           row == Newer(srow[s], store[b][s].row)
<1>2. row \in Row /\ Written(row) /\ row.ver <= clock
  BY IInvAt DEF Newer
<1>3. /\ new \in Loc /\ new.row = store[b][s].row /\ new.local = store[b][s].local
      /\ new.dock = store[b][s].dock /\ new.key = store[b][s].key
  BY IInvAt DEF Loc
<1>4. Known(new, closed[b][s], acked[b][s])
  <2> HIDE DEF new
  <2> QED BY <1>3, IInvAt DEF Known, Even
<1>5. /\ UNCHANGED <<page, clock, edits, closed, acked, entered>>
      /\ store' = [store EXCEPT ![b][s] = new]
      /\ srow' = [srow EXCEPT ![s] = row]
  BY <1>1 DEF Post, TypesOK
<1> HIDE DEF new, row
<1>6. /\ store' \in [Browsers -> [Spaces -> Loc]] /\ store'[b][s] = new
      /\ \A c \in Browsers, z \in Spaces : c # b \/ z # s => store'[c][z] = store[c][z]
  BY <1>1, <1>3, <1>5 DEF TypesOK
<1>7. /\ srow' \in [Spaces -> Row]
      /\ \A z \in Spaces : Written(srow'[z]) /\ srow'[z].ver <= clock
  BY <1>1, <1>2, <1>5 DEF TypesOK, RowsPast
<1>8. TypesOK'
  BY <1>1, <1>5, <1>6, <1>7 DEF TypesOK
<1>9. \A c \in Browsers, z \in Spaces :
        /\ store'[c][z].row = store[c][z].row /\ store'[c][z].local = store[c][z].local
        /\ store'[c][z].dock = store[c][z].dock /\ store'[c][z].key = store[c][z].key
  BY <1>3, <1>6
<1>10. RowsPast'
  BY <1>1, <1>5, <1>7, <1>9 DEF RowsPast, Written
<1>11. Knowing'
  BY <1>1, <1>4, <1>5, <1>6 DEF Knowing
<1>12. Holding'
  BY <1>1, <1>5, <1>9, MembersAssumption DEF Holding
<1>13. Step
  <2>1. \A c \in Browsers, z \in Spaces :
          store'[c][z].row.ver <= clock /\ store'[c][z].row.ver \in Nat
            /\ InSeq(store'[c][z].dock) \subseteq InSeq(store[c][z].dock)
    BY <1>9, IInvAt
  <2> QED BY <1>5, <2>1, QuietStep
<1> QED BY <1>8, <1>10, <1>11, <1>12, <1>13 DEF IInv

\* A pull brings a row that is newer than the one the browser has.
LEMMA PulledKnown ==
  ASSUME NEW loc, NEW cl, NEW ack, Known(loc, cl, ack), NEW row \in Row, Written(row),
         NEW new \in Loc, new.row = Newer(loc.row, row), new.local = loc.local, new.dock = loc.dock
  PROVE  Known(new, cl, ack) /\ new.row \in {loc.row, row}
<1>1. /\ loc.row \in Row /\ loc.row.ver \in Nat /\ row.ver \in Nat /\ loc.local.applied \in Nat
      /\ Written(loc.row) /\ Even(loc, cl) /\ ack \in Nat /\ ack <= loc.row.ver
      /\ ack = loc.row.ver => loc.row.ver \in {0, loc.local.applied} \/ loc.row.deleted
      /\ loc.local.applied <= loc.row.ver
  BY DEF Known, Loc, Row, Local
<1>2. CASE row.ver > loc.row.ver
  <2>1. new.row = row
    BY <1>2 DEF Newer
  <2>2. row.ver # loc.local.applied /\ ack < row.ver /\ loc.local.applied <= row.ver
    BY <1>1, <1>2
  <2>3. Even(new, cl)
    BY <2>1, <2>2 DEF Even
  <2> QED BY <1>1, <2>1, <2>2, <2>3 DEF Known
<1>3. CASE ~(row.ver > loc.row.ver)
  <2>1. new.row = loc.row
    BY <1>3 DEF Newer
  <2>2. Even(new, cl)
    BY <1>1, <2>1 DEF Even
  <2> QED BY <1>1, <2>1, <2>2 DEF Known
<1> QED BY <1>2, <1>3

LEMMA PullStep ==
  ASSUME IInv, NEW b \in Browsers, Pull(b)
  PROVE  IInv' /\ Step
<1>1. TypesOK /\ RowsPast /\ Knowing /\ Holding
  BY DEF IInv
<1> DEFINE new == [s \in Spaces |-> [store[b][s] EXCEPT !.row = Newer(@, srow[s])]]
<1>2. ASSUME NEW s \in Spaces
      PROVE  /\ Known(new[s], closed[b][s], acked[b][s]) /\ new[s] \in Loc
             /\ new[s].row \in {store[b][s].row, srow[s]} /\ new[s].local = store[b][s].local
             /\ new[s].dock = store[b][s].dock /\ new[s].key = store[b][s].key
  <2>1. store[b][s] \in Loc /\ Known(store[b][s], closed[b][s], acked[b][s]) /\ srow[s] \in Row /\ Written(srow[s])
    BY IInvAt
  <2>2. Newer(store[b][s].row, srow[s]) \in Row
    BY <2>1 DEF Newer, Loc
  <2>3. /\ new[s] \in Loc /\ new[s].row = Newer(store[b][s].row, srow[s]) /\ new[s].local = store[b][s].local
        /\ new[s].dock = store[b][s].dock /\ new[s].key = store[b][s].key
    BY <2>1, <2>2 DEF Loc
  <2> HIDE DEF new
  <2>4. Known(new[s], closed[b][s], acked[b][s]) /\ new[s].row \in {store[b][s].row, srow[s]}
    BY <2>1, <2>3, PulledKnown
  <2> QED BY <2>3, <2>4
<1>3. /\ UNCHANGED <<srow, clock, edits, closed, acked, entered>>
      /\ store' = [store EXCEPT ![b] = new]
      /\ page' = [page EXCEPT ![b].started = TRUE, ![b].timer = TRUE]
  BY DEF Pull, Heard
<1>4. new = [s \in Spaces |-> new[s]]
  OBVIOUS
<1> HIDE DEF new
<1>5. /\ store' \in [Browsers -> [Spaces -> Loc]] /\ store'[b] = new
      /\ \A c \in Browsers : c # b => store'[c] = store[c]
  BY <1>1, <1>2, <1>3, <1>4 DEF TypesOK
<1>6. page' \in [Browsers -> Page] /\ \A c \in Browsers : page'[c].hold = page[c].hold
  <2> DEFINE p == [page[b] EXCEPT !.started = TRUE, !.timer = TRUE]
  <2>1. page[b] \in Page
    BY <1>1 DEF TypesOK
  <2>2. p \in Page /\ p.hold = page[b].hold
    BY <2>1 DEF Page
  <2>3. page' = [page EXCEPT ![b] = p] /\ page \in [Browsers -> Page]
    BY <1>1, <1>3 DEF TypesOK
  <2> HIDE DEF p
  <2> QED BY <2>2, <2>3
<1>7. TypesOK'
  BY <1>1, <1>3, <1>5, <1>6 DEF TypesOK
<1>8. \A c \in Browsers, s \in Spaces :
        /\ store'[c][s].row \in {store[c][s].row, srow[s]} /\ store'[c][s].local = store[c][s].local
        /\ store'[c][s].dock = store[c][s].dock /\ store'[c][s].key = store[c][s].key
  BY <1>2, <1>5
<1>9. RowsPast'
  <2>1. \A c \in Browsers, s \in Spaces : store'[c][s].row.ver <= clock
    BY <1>8, IInvAt
  <2> QED BY <1>1, <1>3, <2>1 DEF RowsPast
<1>10. Knowing'
  BY <1>1, <1>2, <1>3, <1>5 DEF Knowing
<1>11. Holding'
  BY <1>1, <1>3, <1>6, <1>8, MembersAssumption DEF Holding
<1>12. Step
  <2>1. \A c \in Browsers, s \in Spaces :
          store'[c][s].row.ver <= clock /\ store'[c][s].row.ver \in Nat
            /\ InSeq(store'[c][s].dock) \subseteq InSeq(store[c][s].dock)
    BY <1>8, IInvAt
  <2> QED BY <1>6, <2>1, QuietStep
<1> QED BY <1>7, <1>9, <1>10, <1>11, <1>12 DEF IInv

----------------------------------------------------------------------------
\* The lane move.

\* What one browser knows of every space.
AllKnown(st, cl, ack) == \A s \in Spaces : Known(st[s], cl[s], ack[s])

\* What the move does to the rows: a row it writes drops nothing.
Carried(new, st, t) ==
    \A s \in Spaces :
        /\ new[s].dock = st[s].dock /\ new[s].key = st[s].key /\ new[s].local = st[s].local
        /\ \/ new[s].row = st[s].row
           \/ /\ new[s].row.ver = t
              /\ \/ new[s].row.deleted \/ st[s].row.deleted
                 \/ InSeq(st[s].row.members) = {}

LEMMA RowsMovedKnown ==
  ASSUME NEW st \in [Spaces -> Loc], NEW cl, NEW ack, AllKnown(st, cl, ack), NEW t \in Nat, t # 0,
         \A s \in Spaces : st[s].row.ver < t /\ st[s].local.applied = 0,
         NEW new, new = RowsMoved(st, t)
  PROVE  /\ new \in [Spaces -> Loc]
         /\ AllKnown(new, cl, ack)
         /\ Carried(new, st, t)
<1> DEFINE moved == [ver |-> t, members |-> st[From].row.members, deleted |-> FALSE]
           none == [ver |-> t, members |-> <<>>, deleted |-> TRUE]
           free == st[To].row.ver = 0 \/ st[To].row.deleted \/ st[To].row.members = <<>>
           to == IF free THEN [st[To] EXCEPT !.row = moved, !.queued = TRUE] ELSE st[To]
           from == [st[From] EXCEPT !.row = none, !.queued = TRUE]
<1>1. From \in Spaces /\ To \in Spaces /\ From # To
  BY MembersAssumption
<1>2. t \in Nat /\ t # 0
  OBVIOUS
<1>3. st[From] \in Loc /\ st[To] \in Loc /\ st[From].row \in Row /\ st[From].row.members \in Seq(Members)
  BY <1>1 DEF Loc, Row
<1>4. /\ moved \in Row /\ moved.ver = t /\ none \in Row /\ none.ver = t /\ none.deleted = TRUE
  BY <1>2, <1>3, EmptySeq DEF Row
<1>5. CASE st[From].row.ver = 0 \/ st[From].row.deleted
  <2>1. new = st
    BY <1>5 DEF RowsMoved
  <2> QED BY <2>1 DEF Carried
<1>6. CASE ~(st[From].row.ver = 0 \/ st[From].row.deleted)
  <2>1. new = [[st EXCEPT ![To] = to] EXCEPT ![From] = from]
    <3>1. Removed(st[From], t) = from
      BY DEF Removed
    <3> HIDE DEF from
    <3> QED BY <1>1, <1>6, <3>1 DEF RowsMoved
  <2> HIDE DEF moved, none
  <2>2. /\ from \in Loc /\ from.row = none /\ from.dock = st[From].dock
        /\ from.key = st[From].key /\ from.local = st[From].local
    BY <1>3, <1>4 DEF Loc
  <2>3. /\ to \in Loc /\ to.dock = st[To].dock /\ to.key = st[To].key /\ to.local = st[To].local
        /\ to.row = IF free THEN moved ELSE st[To].row
    BY <1>3, <1>4 DEF Loc
  <2> HIDE DEF from, to
  <2>4. /\ new \in [Spaces -> Loc] /\ new[From] = from /\ new[To] = to
        /\ \A s \in Spaces : s # From /\ s # To => new[s] = st[s]
    BY <1>1, <2>1, <2>2, <2>3
  <2>5. ASSUME NEW s \in Spaces, NEW loc \in Loc, loc.local = st[s].local, loc.row.ver = t
        PROVE  Known(loc, cl[s], ack[s])
    <3>1. loc.row \in Row /\ Written(loc.row)
      BY <1>2, <2>5 DEF Loc, Written
    <3>2. loc.local.applied = 0 /\ ack[s] \in Nat /\ ack[s] < t
      <4>1. Known(st[s], cl[s], ack[s]) /\ st[s].row.ver < t /\ st[s].local.applied = 0 /\ st[s].row.ver \in Nat
        BY DEF AllKnown, Loc, Row
      <4> QED BY <2>5, <4>1 DEF Known
    <3>3. Even(loc, cl[s])
      BY <1>2, <2>5, <3>2 DEF Even
    <3> QED BY <1>2, <2>5, <3>1, <3>2, <3>3 DEF Known
  <2>6. Known(from, cl[From], ack[From])
    BY <1>1, <1>4, <2>2, <2>5
  <2>7. free => Known(to, cl[To], ack[To])
    BY <1>1, <1>4, <2>3, <2>5
  <2>8. ~free => to = st[To]
    BY DEF to
  <2>9. free => st[To].row.deleted \/ InSeq(st[To].row.members) = {}
    <3>1. Written(st[To].row)
      BY <1>1 DEF AllKnown, Known
    <3> QED BY <3>1, EmptySeq DEF Written
  <2> HIDE DEF free
  <2>10. ASSUME NEW s \in Spaces
         PROVE  /\ Known(new[s], cl[s], ack[s])
                /\ new[s].dock = st[s].dock /\ new[s].key = st[s].key /\ new[s].local = st[s].local
                /\ \/ new[s].row = st[s].row
                   \/ /\ new[s].row.ver = t
                      /\ \/ new[s].row.deleted \/ st[s].row.deleted
                         \/ InSeq(st[s].row.members) = {}
    <3>1. CASE s = From
      BY <1>4, <2>2, <2>4, <2>6, <3>1
    <3>2. CASE s = To /\ free
      BY <1>4, <2>3, <2>4, <2>7, <2>9, <3>2
    <3>3. CASE s = To /\ ~free
      BY <2>4, <2>8, <3>3 DEF AllKnown
    <3>4. CASE s # From /\ s # To
      BY <2>4, <3>4 DEF AllKnown
    <3> QED BY <3>1, <3>2, <3>3, <3>4
  <2>11. AllKnown(new, cl, ack)
    BY <2>10 DEF AllKnown
  <2>12. Carried(new, st, t)
    BY <2>10 DEF Carried
  <2> QED BY <2>4, <2>11, <2>12
<1> QED BY <1>5, <1>6

LEMMA LayoutMovedKnown ==
  ASSUME NEW st \in [Spaces -> Loc], NEW cl, NEW ack, AllKnown(st, cl, ack),
         \A s \in Spaces : st[s].local.applied = 0,
         NEW new, new = LayoutMoved(st)
  PROVE  /\ new \in [Spaces -> Loc]
         /\ AllKnown(new, cl, ack)
         /\ \A s \in Spaces : new[s].row = st[s].row /\ new[s].local = st[s].local
         /\ ~st[To].key => new[To].dock = st[From].dock
<1>1. From \in Spaces /\ To \in Spaces /\ From # To
  BY MembersAssumption
<1>2. CASE st[To].key
  BY <1>2 DEF LayoutMoved
<1>3. CASE ~st[To].key
  <2> DEFINE to == [st[To] EXCEPT !.dock = st[From].dock, !.key = st[From].key]
             from == [st[From] EXCEPT !.dock = <<>>, !.key = FALSE]
  <2>1. new = [[st EXCEPT ![To] = to] EXCEPT ![From] = from]
    BY <1>1, <1>3 DEF LayoutMoved
  <2>2. st[From] \in Loc /\ st[To] \in Loc /\ st[From].dock \in Seq(Members) /\ st[From].key \in BOOLEAN
    BY <1>1 DEF Loc
  <2>3. to \in Loc /\ to.dock = st[From].dock /\ to.row = st[To].row /\ to.local = st[To].local
    BY <2>2 DEF Loc
  <2>4. from \in Loc /\ from.row = st[From].row /\ from.local = st[From].local
    BY <2>2, EmptySeq DEF Loc
  <2> HIDE DEF to, from
  <2>5. /\ new \in [Spaces -> Loc] /\ new[From] = from /\ new[To] = to
        /\ \A s \in Spaces : s # From /\ s # To => new[s] = st[s]
    BY <1>1, <2>1, <2>3, <2>4
  <2>6. ASSUME NEW s \in Spaces
        PROVE  /\ Known(new[s], cl[s], ack[s])
               /\ new[s].row = st[s].row /\ new[s].local = st[s].local
    <3>1. new[s] \in Loc /\ new[s].row = st[s].row /\ new[s].local = st[s].local
      BY <2>3, <2>4, <2>5
    <3>2. Known(st[s], cl[s], ack[s]) /\ st[s].local.applied = 0
      BY DEF AllKnown
    <3>3. Even(new[s], cl[s])
      BY <3>1, <3>2, EmptySeq DEF Even, Known, Written
    <3> QED BY <3>1, <3>2, <3>3 DEF Known
  <2>7. AllKnown(new, cl, ack)
    BY <2>6 DEF AllKnown
  <2> QED BY <2>3, <2>5, <2>6, <2>7
<1> QED BY <1>2, <1>3

LEMMA LaneMoveStep ==
  ASSUME IInv, NEW b \in Browsers, LaneMove(b)
  PROVE  IInv' /\ Step
<1>1. TypesOK /\ RowsPast /\ Knowing /\ Holding
  BY DEF IInv
<1> DEFINE st == store[b]
           mine == IF space[From] = "live" THEN RowsMoved(st, clock + 1) ELSE st
           new == LayoutMoved(mine)
<1>2. /\ page[b].hold /\ store' = [store EXCEPT ![b] = new]
      /\ clock' = IF mine = st THEN clock ELSE clock + 1
      /\ UNCHANGED <<srow, edits, closed, acked, entered>>
  BY DEF LaneMove
<1>3. page' \in [Browsers -> Page] /\ ~page'[b].hold /\ \A c \in Browsers : c # b => page'[c].hold = page[c].hold
  <2> DEFINE p == IF space[From] = "live" THEN AllScheduled ELSE page
  <2>1. p \in [Browsers -> Page] /\ \A c \in Browsers : p[c].hold = page[c].hold
    BY <1>1, AllScheduledPages DEF TypesOK
  <2>2. page' = [p EXCEPT ![b].hold = FALSE, ![b].timer = TRUE]
    BY DEF LaneMove
  <2> HIDE DEF p
  <2> QED BY <2>1, <2>2 DEF Page
<1>4. /\ st \in [Spaces -> Loc] /\ clock \in Nat
      /\ AllKnown(st, closed[b], acked[b])
      /\ \A s \in Spaces : st[s].row.ver <= clock /\ st[s].local.applied = 0
  BY <1>1, <1>2, IInvAt DEF TypesOK, Holding, AllKnown
<1> HIDE DEF st
<1>5. /\ mine \in [Spaces -> Loc] /\ AllKnown(mine, closed[b], acked[b])
      /\ Carried(mine, st, clock + 1)
  <2>1. CASE space[From] = "live"
    <3> DEFINE t == clock + 1
    <3>1. mine = RowsMoved(st, t)
      BY <2>1
    <3>2. t \in Nat /\ t # 0 /\ \A s \in Spaces : st[s].row.ver < t /\ st[s].local.applied = 0
      BY <1>4 DEF Loc, Row
    <3> HIDE DEF mine, t
    <3>3. /\ mine \in [Spaces -> Loc] /\ AllKnown(mine, closed[b], acked[b])
          /\ Carried(mine, st, t)
      BY <1>4, <3>1, <3>2, RowsMovedKnown
    <3> QED BY <3>3 DEF t
  <2>2. CASE space[From] # "live"
    BY <1>4, <2>2 DEF Carried
  <2> QED BY <2>1, <2>2
<1> HIDE DEF mine
<1>6. /\ new \in [Spaces -> Loc] /\ AllKnown(new, closed[b], acked[b])
      /\ \A s \in Spaces : new[s].row = mine[s].row /\ new[s].local = mine[s].local
      /\ ~mine[To].key => new[To].dock = mine[From].dock
  <2>1. \A s \in Spaces : mine[s].local.applied = 0
    BY <1>4, <1>5 DEF Carried
  <2>2. new = LayoutMoved(mine)
    OBVIOUS
  <2> HIDE DEF new
  <2> QED BY <1>5, <2>1, <2>2, LayoutMovedKnown
<1> HIDE DEF new
<1>7. /\ store' \in [Browsers -> [Spaces -> Loc]] /\ store'[b] = new
      /\ \A c \in Browsers : c # b => store'[c] = store[c]
  BY <1>1, <1>2, <1>6 DEF TypesOK
<1>8. clock' \in Nat /\ clock <= clock'
  BY <1>2, <1>4
<1>9. TypesOK'
  BY <1>1, <1>2, <1>3, <1>7, <1>8 DEF TypesOK
<1>10. \A c \in Browsers, s \in Spaces : c # b => store'[c][s] = store[c][s]
  BY <1>7
<1>11. RowsPast'
  <2>1. \A s \in Spaces : Written(srow'[s]) /\ srow'[s].ver <= clock'
    BY <1>2, <1>8, IInvAt
  <2>2. ASSUME NEW s \in Spaces PROVE new[s].row.ver <= clock'
    <3>1. st[s].row.ver <= clock /\ st[s].row.ver \in Nat
      BY IInvAt DEF st
    <3>2. CASE mine = st
      BY <1>4, <1>6, <1>8, <3>1, <3>2
    <3>3. CASE mine # st
      <4>1. clock' = clock + 1
        BY <1>2, <3>3
      <4> QED BY <1>4, <1>5, <1>6, <3>1, <4>1 DEF Carried
    <3> QED BY <3>2, <3>3
  <2>3. ASSUME NEW c \in Browsers, NEW s \in Spaces, c # b PROVE store'[c][s].row.ver <= clock'
    BY <1>8, <1>10, <2>3, IInvAt
  <2> QED BY <1>7, <2>1, <2>2, <2>3 DEF RowsPast
<1>12. Knowing'
  BY <1>1, <1>2, <1>6, <1>7 DEF Knowing, AllKnown
<1>13. Holding'
  BY <1>1, <1>2, <1>3, <1>7 DEF Holding
<1>14. Step
  <2>1. ASSUME NEW c \in Browsers PROVE Lands(c)
    <3>1. CASE c = b
      <4>1. b \notin entered => ~st[To].key
        BY <1>1, <1>2 DEF Holding, st
      <4> QED BY <1>5, <1>6, <1>7, <3>1, <4>1, MembersAssumption DEF Carried, Lands, st
    <3>2. CASE c # b
      BY <1>3, <3>2 DEF Lands
    <3> QED BY <3>1, <3>2
  <2>2. ASSUME NEW c \in Browsers, NEW s \in Spaces PROVE Opens(c, s)
    <3>1. CASE c = b
      BY <1>2, <1>3, <3>1 DEF Opens
    <3>2. CASE c # b
      BY <1>10, <3>2 DEF Opens
    <3> QED BY <3>1, <3>2
  <2>3. ASSUME NEW c \in Browsers, NEW s \in Spaces PROVE Drops(c, s)
    <3>1. CASE c = b
      <4>1. new[s].row.ver = clock + 1 => new[s].row # st[s].row
        <5>1. st[s].row.ver <= clock /\ st[s].row.ver \in Nat /\ clock \in Nat
          BY IInvAt DEF st
        <5> QED BY <5>1
      <4>2. new[s].row = st[s].row \/ new[s].row.deleted \/ st[s].row.deleted \/ InSeq(st[s].row.members) = {}
        BY <1>5, <1>6 DEF Carried
      <4> QED BY <1>7, <3>1, <4>1, <4>2 DEF Drops, st
    <3>2. CASE c # b
      <4>1. store'[c][s].row.ver # clock + 1
        BY <1>10, <3>2, IInvAt
      <4> QED BY <4>1 DEF Drops
    <3> QED BY <3>1, <3>2
  <2> QED BY <2>1, <2>2, <2>3 DEF Step
<1> QED BY <1>9, <1>11, <1>12, <1>13, <1>14 DEF IInv

----------------------------------------------------------------------------
\* Reconciliation.

\* What it does to the row and the dock of one space.
Reconciles(new, loc, cl, ack, t) ==
    /\ \/ new.row = loc.row
       \/ /\ new.row.ver = t
          /\ \/ new.row.deleted \/ loc.row.deleted
             \/ InSeq(loc.row.members) \ InSeq(new.row.members) \subseteq cl
    /\ InSeq(new.dock) \subseteq InSeq(loc.dock) \/ loc.row.ver > ack

\* One space, live or closed, and its history.
Acks(b, s, fails) == ~(space[s] = "live" /\ (Blank(b, s) \/ Held(store[b][s], fails)))
After(b, s, fails, got) ==
    IF space[s] # "live" THEN Swept(store[b][s], clock + 1)
    ELSE IF Blank(b, s) THEN Unread(store[b][s])
    ELSE Reconciled(store[b][s], fails, got, clock + 1)
ClosedAfter(b, s, fails) == IF Acks(b, s, fails) THEN {} ELSE closed[b][s]
AckedAfter(b, s, fails, got) ==
    IF Acks(b, s, fails) THEN After(b, s, fails, got).row.ver ELSE acked[b][s]

LEMMA ReconciledAt ==
  ASSUME IInv, NEW b \in Browsers, NEW fails \in BOOLEAN, NEW got, NEW s \in Spaces
  PROVE  /\ Known(After(b, s, fails, got), ClosedAfter(b, s, fails), AckedAfter(b, s, fails, got))
         /\ After(b, s, fails, got) \in Loc
         /\ ClosedAfter(b, s, fails) \in SUBSET Members /\ AckedAfter(b, s, fails, got) \in Nat
         /\ Reconciles(After(b, s, fails, got), store[b][s], closed[b][s], acked[b][s], clock + 1)
<1> DEFINE loc == store[b][s]
           new == After(b, s, fails, got)
           cl == ClosedAfter(b, s, fails)
           ack == AckedAfter(b, s, fails, got)
<1>1. /\ clock \in Nat /\ Known(loc, closed[b][s], acked[b][s]) /\ loc.row.ver <= clock
      /\ closed[b][s] \in SUBSET Members
  BY IInvAt
<1>2. /\ new = IF space[s] # "live" THEN Swept(loc, clock + 1)
               ELSE IF Blank(b, s) THEN loc ELSE Reconciled(loc, fails, got, clock + 1)
      /\ Acks(b, s, fails) => cl = {} /\ ack = new.row.ver
      /\ ~Acks(b, s, fails) => cl = closed[b][s] /\ ack = acked[b][s]
      /\ Acks(b, s, fails) <=> ~(space[s] = "live" /\ (Blank(b, s) \/ Held(loc, fails)))
  BY DEF Acks, After, ClosedAfter, AckedAfter, Unread
<1> HIDE DEF loc, new, cl, ack
<1>3. CASE space[s] = "live" /\ ~Blank(b, s)
  <2>1. new = Reconciled(loc, fails, got, clock + 1)
    BY <1>2, <1>3
  <2>2. /\ Held(loc, fails) => Known(new, closed[b][s], acked[b][s])
        /\ ~Held(loc, fails) => Known(new, {}, new.row.ver)
        /\ \/ new.row = loc.row
           \/ /\ new.row.ver = clock + 1
              /\ ~loc.row.deleted => InSeq(loc.row.members) \ InSeq(new.row.members) \subseteq closed[b][s]
        /\ InSeq(new.dock) \subseteq InSeq(loc.dock) \/ loc.row.ver > acked[b][s]
    BY <1>1, <2>1, ReconciledKnown
  <2>3. Reconciles(new, loc, closed[b][s], acked[b][s], clock + 1)
    BY <2>2 DEF Reconciles
  <2>4. Known(new, cl, ack) /\ cl \in SUBSET Members
    <3>1. CASE Held(loc, fails)
      <4>1. cl = closed[b][s] /\ ack = acked[b][s]
        BY <1>2, <1>3, <3>1
      <4> QED BY <1>1, <2>2, <3>1, <4>1
    <3>2. CASE ~Held(loc, fails)
      <4>1. cl = {} /\ ack = new.row.ver
        BY <1>2, <1>3, <3>2
      <4> QED BY <1>1, <2>2, <3>2, <4>1
    <3> QED BY <3>1, <3>2
  <2> QED BY <2>3, <2>4 DEF loc, new, cl, ack, Known
<1>4. CASE space[s] # "live"
  <2>1. new = Swept(loc, clock + 1) /\ cl = {} /\ ack = new.row.ver
    BY <1>2, <1>4
  <2>2. /\ Known(new, {}, new.row.ver) /\ new.dock = loc.dock
        /\ new.row = loc.row \/ (new.row.ver = clock + 1 /\ new.row.deleted)
    BY <1>1, <2>1, SweptKnown
  <2>3. Reconciles(new, loc, closed[b][s], acked[b][s], clock + 1)
    BY <2>2 DEF Reconciles
  <2>4. Known(new, cl, ack)
    BY <2>1, <2>2
  <2> QED BY <2>1, <2>3, <2>4 DEF loc, new, cl, ack, Known
<1>5. CASE space[s] = "live" /\ Blank(b, s)
  <2>1. new = loc /\ cl = closed[b][s] /\ ack = acked[b][s]
    BY <1>2, <1>5
  <2>2. Reconciles(new, loc, closed[b][s], acked[b][s], clock + 1)
    BY <2>1 DEF Reconciles
  <2> QED BY <1>1, <2>1, <2>2 DEF loc, new, cl, ack, Known
<1> QED BY <1>3, <1>4, <1>5

LEMMA ReconcileStep ==
  ASSUME IInv, NEW b \in Browsers, NEW fails \in BOOLEAN, NEW got, Reconcile(b, fails, got)
  PROVE  IInv' /\ Step
<1>1. TypesOK /\ RowsPast /\ Knowing /\ Holding
  BY DEF IInv
<1>2. /\ page' = [page EXCEPT ![b].timer = FALSE] /\ UNCHANGED <<srow, edits, entered>>
  BY DEF Reconcile
<1>3. page' \in [Browsers -> Page] /\ \A c \in Browsers : page'[c].hold = page[c].hold
  BY <1>1, <1>2 DEF TypesOK, Page
<1>4. CASE ~Ready(b)
  <2>1. UNCHANGED <<store, clock, closed, acked>> /\ edits' \in Nat
    BY <1>1, <1>2, <1>4 DEF Reconcile, TypesOK
  <2> QED BY <1>2, <1>3, <2>1, PagesStep
<1>5. CASE Ready(b)
  <2> DEFINE t == clock + 1
             new == [s \in Spaces |-> IF space[s] # "live" THEN Swept(store[b][s], t)
                                      ELSE IF Blank(b, s) THEN Unread(store[b][s])
                                      ELSE Reconciled(store[b][s], fails, got, t)]
             acks(s) == ~(space[s] = "live" /\ (Blank(b, s) \/ Held(store[b][s], fails)))
             cl == [s \in Spaces |-> IF acks(s) THEN {} ELSE closed[b][s]]
             ack == [s \in Spaces |-> IF acks(s) THEN new[s].row.ver ELSE acked[b][s]]
  <2>1. /\ store' = [store EXCEPT ![b] = new]
        /\ clock' = IF \E s \in Spaces : new[s].row.ver = t THEN t ELSE clock
        /\ acked' = [acked EXCEPT ![b] = ack]
        /\ closed' = [closed EXCEPT ![b] = cl]
    BY <1>5 DEF Reconcile
  <2>2. new = [s \in Spaces |-> After(b, s, fails, got)]
    BY DEF After
  <2>3. cl = [s \in Spaces |-> ClosedAfter(b, s, fails)]
    BY DEF ClosedAfter, Acks
  <2>4. ack = [s \in Spaces |-> AckedAfter(b, s, fails, got)]
    <3>1. \A s \in Spaces : new[s] = After(b, s, fails, got)
      BY DEF After
    <3> HIDE DEF new
    <3> QED BY <3>1 DEF AckedAfter, Acks
  <2>5. clock \in Nat /\ t \in Nat /\ clock < t
    BY <1>1 DEF TypesOK
  <2> HIDE DEF new, cl, ack, acks
  <2>6. ASSUME NEW s \in Spaces
        PROVE  /\ Known(new[s], cl[s], ack[s]) /\ new[s] \in Loc /\ cl[s] \in SUBSET Members /\ ack[s] \in Nat
               /\ Reconciles(new[s], store[b][s], closed[b][s], acked[b][s], t)
    <3>1. /\ new[s] = After(b, s, fails, got) /\ cl[s] = ClosedAfter(b, s, fails)
          /\ ack[s] = AckedAfter(b, s, fails, got)
      BY <2>2, <2>3, <2>4
    <3> QED BY <3>1, ReconciledAt
  <2> HIDE DEF t
  <2>7. /\ new \in [Spaces -> Loc] /\ cl \in [Spaces -> SUBSET Members] /\ ack \in [Spaces -> Nat]
    BY <2>2, <2>3, <2>4, <2>6
  <2>8. /\ store' \in [Browsers -> [Spaces -> Loc]] /\ store'[b] = new
        /\ closed' \in [Browsers -> [Spaces -> SUBSET Members]] /\ closed'[b] = cl
        /\ acked' \in [Browsers -> [Spaces -> Nat]] /\ acked'[b] = ack
        /\ \A c \in Browsers : c # b => /\ store'[c] = store[c] /\ closed'[c] = closed[c] /\ acked'[c] = acked[c]
    BY <1>1, <2>1, <2>7 DEF TypesOK
  <2>9. clock' \in Nat /\ clock <= clock'
    BY <2>1, <2>5
  <2>10. TypesOK'
    BY <1>1, <1>2, <1>3, <2>8, <2>9 DEF TypesOK
  <2>11. RowsPast'
    <3>1. \A s \in Spaces : Written(srow'[s]) /\ srow'[s].ver <= clock'
      BY <1>2, <2>9, IInvAt
    <3>2. ASSUME NEW s \in Spaces PROVE new[s].row.ver <= clock'
      <4>1. new[s].row = store[b][s].row \/ new[s].row.ver = t
        BY <2>6 DEF Reconciles
      <4>2. CASE new[s].row = store[b][s].row
        BY <2>9, <4>2, IInvAt
      <4>3. CASE new[s].row.ver = t
        BY <2>1, <2>5, <4>3
      <4> QED BY <4>1, <4>2, <4>3
    <3>3. ASSUME NEW c \in Browsers, NEW s \in Spaces, c # b PROVE store'[c][s].row.ver <= clock'
      <4>1. store'[c][s] = store[c][s]
        BY <2>8, <3>3
      <4> QED BY <2>9, <4>1, IInvAt
    <3> QED BY <2>8, <3>1, <3>2, <3>3 DEF RowsPast
  <2>12. Knowing'
    BY <1>1, <2>6, <2>8 DEF Knowing
  <2>13. Holding'
    <3>1. ~page[b].hold
      BY <1>5 DEF Ready
    <3> QED BY <1>1, <1>2, <1>3, <2>8, <3>1 DEF Holding
  <2>14. Step
    <3>1. ASSUME NEW c \in Browsers PROVE Lands(c)
      BY <1>3 DEF Lands
    <3>2. ASSUME NEW c \in Browsers, NEW s \in Spaces PROVE Drops(c, s) /\ Opens(c, s)
      <4>1. CASE c = b
        <5>1. new[s].row.ver = clock + 1 => new[s].row # store[b][s].row
          <6>1. store[b][s].row.ver <= clock /\ store[b][s].row.ver \in Nat /\ clock \in Nat
            BY IInvAt
          <6> QED BY <6>1
        <5>2. Reconciles(new[s], store[b][s], closed[b][s], acked[b][s], t) /\ store'[c][s] = new[s]
          BY <2>6, <2>8, <4>1
        <5>3. Drops(c, s)
          BY <4>1, <5>1, <5>2 DEF Drops, Reconciles
        <5>4. Opens(c, s)
          BY <4>1, <5>2 DEF Opens, Reconciles
        <5> QED BY <5>3, <5>4
      <4>2. CASE c # b
        <5>1. store'[c][s] = store[c][s]
          BY <2>8, <4>2
        <5>2. store'[c][s].row.ver # clock + 1
          BY <5>1, IInvAt
        <5> QED BY <5>1, <5>2 DEF Drops, Opens
      <4> QED BY <4>1, <4>2
    <3> QED BY <3>1, <3>2 DEF Step
  <2> QED BY <2>10, <2>11, <2>12, <2>13, <2>14 DEF IInv
<1> QED BY <1>4, <1>5

----------------------------------------------------------------------------
\* The theorems.

LEMMA NextStep == ASSUME IInv, [Next]_vars PROVE IInv' /\ Step
<1>1. CASE UNCHANGED vars
  BY <1>1, Stuttered
<1>2. ASSUME NEW b \in Browsers, System(b) PROVE IInv' /\ Step
  <2>1. CASE Load(b)
    BY <2>1, LoadStep
  <2>2. CASE Pull(b)
    BY <2>2, PullStep
  <2>6. CASE DockReady(b)
    BY <2>6, DockReadyStep
  <2>3. CASE LaneMove(b)
    BY <2>3, LaneMoveStep
  <2>4. ASSUME NEW s \in Spaces, Post(b, s) PROVE IInv' /\ Step
    BY <2>4, PostStep
  <2>5. CASE Reconcile(b, FALSE, {})
    <3>1. \E fails \in BOOLEAN, got \in {{}} : Reconcile(b, fails, got)
      BY <2>5, Zenon
    <3> QED BY <3>1, ReconcileStep
  <2> QED BY <1>2, <2>1, <2>2, <2>3, <2>4, <2>5, <2>6 DEF System
<1>3. ASSUME NEW b \in Browsers, NEW got \in SUBSET Members, Reconcile(b, TRUE, got) PROVE IInv' /\ Step
  <2>1. \E fails \in BOOLEAN : Reconcile(b, fails, got)
    BY <1>3, Zenon
  <2> QED BY <2>1, ReconcileStep
<1>4. ASSUME NEW b \in Browsers, NEW s \in Spaces,
             DragTab(b, s) \/ \E m \in Members : OpenTab(b, s, m) \/ CloseTab(b, s, m)
      PROVE  IInv' /\ Step
  BY <1>4, DragTabStep, OpenTabStep, CloseTabStep
<1>5. ASSUME NEW b \in Browsers, NEW shown \in Blanks, Leave(b, shown) PROVE IInv' /\ Step
  BY <1>5, LeaveStep
<1>6. ASSUME NEW s \in Spaces, CloseSpace(s) \/ ReopenSpace(s) PROVE IInv' /\ Step
  BY <1>6, CloseSpaceStep
<1> QED BY <1>1, <1>2, <1>3, <1>4, <1>5, <1>6 DEF Next

\* The invariant on which the theorem below rests: a browser that is level with
\* its row still has the row's members in its baseline and, but for the tabs
\* its user closed since, in its dock.
\* (reconcileSpaceMembers, spaceMembersModel.ts)
THEOREM MembersInvariant == Spec => []IInv
<1>1. Init => IInv
  BY Started
<1>2. IInv /\ [Next]_vars => IInv'
  BY NextStep
<1> QED BY <1>1, <1>2, PTL DEF Spec

\* Whatever the browsers, the spaces and the docks they start from: a row a
\* browser writes drops only tabs its own user closed since it last applied
\* one, a row is opened once, and the lane move loses no tab of a lane whose
\* user had not begun a dock.  (reconcileSpaceMembers, runLaneMoves)
THEOREM MembersStepsHold == Spec => MembersSteps
<1>1. Step => /\ \A b \in Browsers, s \in Spaces :
                   LET was == store[b][s].row
                       now == store'[b][s].row
                   IN  now.ver = clock + 1 /\ ~now.deleted /\ ~was.deleted
                         => InSeq(was.members) \ InSeq(now.members) \subseteq closed[b][s]
              /\ \A b \in Browsers, s \in Spaces :
                   ~(InSeq(store'[b][s].dock) \subseteq InSeq(store[b][s].dock))
                     => \/ edits' # edits \/ page'[b].hold # page[b].hold
                        \/ store[b][s].row.ver > acked[b][s]
              /\ \A b \in Browsers : page[b].hold /\ ~page'[b].hold /\ b \notin entered
                   => InSeq(store[b][From].dock) \subseteq InSeq(store'[b][To].dock)
  BY DEF Step, Drops, Opens, Lands
<1>2. IInv /\ [Next]_vars => Step
  BY NextStep
<1> QED BY <1>1, <1>2, MembersInvariant, PTL DEF Spec, MembersSteps, DropsOnlyClosed, OpenedOnce, MoveKeepsDock
----------------------------------------------------------------------------
\* What browsers write is bounded.  What may still be written is counted: by
\* the spaces a browser may write (P), by the browsers that storage refused a
\* layout, which may write once for all of these (F), and, while some browser has
\* its lane move before it and another has not, by the browsers that will write
\* the old space when the move closes it (R).

Finite == IsFiniteSet(Browsers) /\ IsFiniteSet(Spaces)

\* A dock that is its own baseline.
Level(loc) == loc.local.has /\ loc.local.base = loc.dock

\* Gone from this row, and from every row that could replace it.
Gone(row) == row.ver = 0 \/ row.deleted
GoneFor(b, s) ==
    /\ Gone(store[b][s].row)
    /\ srow[s].ver > store[b][s].row.ver => srow[s].deleted
    /\ \A c \in Browsers : store[c][s].row.ver > store[b][s].row.ver => store[c][s].row.deleted

\* The browser writes nothing for the space, until a user does something.
Quiet(b, s) == IF space[s] = "live" THEN Level(store[b][s]) ELSE GoneFor(b, s)

Owing(P, F, R) ==
    /\ P \in SUBSET (Browsers \X Spaces) /\ F \in SUBSET Browsers /\ R \in SUBSET Browsers
    /\ \A b \in Browsers, s \in Spaces :
          <<b, s>> \in P \/ Quiet(b, s) \/ (space[s] = "live" /\ b \in F /\ ~Blank(b, s))
    /\ \A b \in Browsers : page[b].hold => \A s \in Spaces : <<b, s>> \in P
    /\ \/ space[From] # "live" \/ R = Browsers
       \/ \A b \in Browsers : page[b].hold
       \/ \A b \in Browsers : ~page[b].hold

Allowed(e, f) == Cardinality(Browsers) * (Cardinality(Spaces) + 2 * e) + e + f
Affords(c, P, F, R, e, f) == c + Cardinality(P) + Cardinality(F) + Cardinality(R) <= Allowed(e, f)

WInv ==
    /\ space \in [Spaces -> {"live", "closed"}] /\ space[To] = "live"
    /\ faults \in Nat
    /\ \E P, F, R : Owing(P, F, R) /\ Affords(clock, P, F, R, edits, faults)

LEMMA Sized ==
  ASSUME Finite, NEW P \in SUBSET (Browsers \X Spaces), NEW F \in SUBSET Browsers
  PROVE  /\ IsFiniteSet(P) /\ Cardinality(P) \in Nat
         /\ IsFiniteSet(F) /\ Cardinality(F) \in Nat /\ Cardinality(F) <= Cardinality(Browsers)
         /\ Cardinality(Browsers) \in Nat /\ Cardinality(Spaces) \in Nat
<1>1. IsFiniteSet(Browsers \X Spaces)
  BY FS_Product DEF Finite
<1> QED BY <1>1, FS_Subset, FS_CardinalityType DEF Finite

\* One space in every browser.
LEMMA OneSpace ==
  ASSUME Finite, NEW s \in Spaces
  PROVE  /\ IsFiniteSet(Browsers \X {s})
         /\ Cardinality(Browsers \X {s}) = Cardinality(Browsers)
         /\ Browsers \X {s} \in SUBSET (Browsers \X Spaces)
<1>1. IsFiniteSet({s}) /\ Cardinality({s}) = 1
  BY FS_Singleton
<1>2. /\ IsFiniteSet(Browsers \X {s})
      /\ Cardinality(Browsers \X {s}) = Cardinality(Browsers) * 1
  BY <1>1, FS_Product DEF Finite
<1>3. Cardinality(Browsers) \in Nat
  BY FS_CardinalityType DEF Finite
<1> QED BY <1>2, <1>3

LEMMA AllowedMore ==
  ASSUME Finite, NEW e \in Nat, NEW f \in Nat
  PROVE  /\ Allowed(e, f) \in Nat
         /\ Allowed(e + 1, f) = Allowed(e, f) + 2 * Cardinality(Browsers) + 1
         /\ Allowed(e, f + 1) = Allowed(e, f) + 1
<1>1. Cardinality(Browsers) \in Nat /\ Cardinality(Spaces) \in Nat
  BY FS_CardinalityType DEF Finite
<1> DEFINE n == Cardinality(Browsers)
           m == Cardinality(Spaces)
<1>2. n * (m + 2 * (e + 1)) = n * (m + 2 * e) + 2 * n /\ n * (m + 2 * e) \in Nat
  <2> HIDE DEF n, m
  <2>1. n \in Nat /\ m \in Nat
    BY <1>1 DEF n, m
  <2>2. n * (m + 2 * e) \in Nat
    BY <2>1
  <2>3. n * (m + 2 * (e + 1)) = n * (m + 2 * e) + 2 * n
    BY <2>1
  <2> QED BY <2>2, <2>3
<1> QED BY <1>1, <1>2 DEF Allowed

\* What a user does pays for one space in every browser, and for the reserve.
LEMMA EditAffords ==
  ASSUME Finite, NEW P, NEW F, NEW R, NEW c \in Nat, NEW e \in Nat, NEW f \in Nat,
         P \in SUBSET (Browsers \X Spaces), F \in SUBSET Browsers, R \in SUBSET Browsers,
         Affords(c, P, F, R, e, f), NEW s \in Spaces, NEW R2 \in SUBSET Browsers
  PROVE  Affords(c, P \cup (Browsers \X {s}), F, R2, e + 1, f)
<1>1. /\ IsFiniteSet(P) /\ Cardinality(P) \in Nat /\ Cardinality(F) \in Nat
      /\ Cardinality(R) \in Nat /\ Cardinality(R2) \in Nat /\ Cardinality(R2) <= Cardinality(Browsers)
      /\ Cardinality(Browsers) \in Nat
  BY Sized
<1>2. /\ IsFiniteSet(Browsers \X {s}) /\ Cardinality(Browsers \X {s}) = Cardinality(Browsers)
  BY OneSpace
<1>3. /\ Cardinality(P \cup (Browsers \X {s}))
           = Cardinality(P) + Cardinality(Browsers \X {s}) - Cardinality(P \cap (Browsers \X {s}))
  BY <1>1, <1>2, FS_Union
<1>4. Cardinality(P \cap (Browsers \X {s})) \in Nat
  BY <1>1, FS_Intersection, FS_CardinalityType
<1>5. Allowed(e + 1, f) = Allowed(e, f) + 2 * Cardinality(Browsers) + 1 /\ Allowed(e, f) \in Nat
  BY AllowedMore
<1> QED BY <1>1, <1>2, <1>3, <1>4, <1>5 DEF Affords

\* A write is paid by what can no longer be written.
LEMMA WriteAffords ==
  ASSUME Finite, NEW P, NEW F, NEW R, NEW c \in Nat, NEW e \in Nat, NEW f \in Nat,
         P \in SUBSET (Browsers \X Spaces), F \in SUBSET Browsers, R \in SUBSET Browsers,
         Affords(c, P, F, R, e, f), NEW x \in P, NEW P2, P2 \subseteq P \ {x}
  PROVE  Cardinality(P2) \in Nat /\ Cardinality(P2) + 1 <= Cardinality(P) /\ Affords(c + 1, P2, F, R, e, f)
<1>1. IsFiniteSet(P) /\ Cardinality(P) \in Nat /\ Cardinality(F) \in Nat /\ Cardinality(R) \in Nat
  BY Sized
<1>2. IsFiniteSet(P \ {x}) /\ Cardinality(P \ {x}) = Cardinality(P) - 1
  BY <1>1, FS_RemoveElement
<1>3. P2 \in SUBSET (P \ {x})
  OBVIOUS
<1>4. Cardinality(P2) \in Nat /\ Cardinality(P2) <= Cardinality(P \ {x})
  BY <1>2, <1>3, FS_Subset, FS_CardinalityType
<1>5. Allowed(e, f) \in Nat
  BY AllowedMore
<1> QED BY <1>1, <1>2, <1>4, <1>5 DEF Affords

LEMMA NoneMissing ==
  ASSUME NEW got
  PROVE  Only(<<>>, got) = <<>>
<1>1. Only(<<>>, got) \in Seq({}) /\ InSeq(Only(<<>>, got)) = {}
  BY OnlyMembers, EmptySeq
<1> QED BY <1>1 DEF InSeq

\* One live space: reconciled, its dock is its baseline, and where it was before
\* nothing is written.
LEMMA LiveWrites ==
  ASSUME NEW loc \in Loc, NEW fails \in BOOLEAN, NEW got, NEW t \in Nat,
         NEW new, new = Reconciled(loc, fails, got, t)
  PROVE  /\ Held(loc, fails) => new.row = loc.row /\ fails
         /\ ~Held(loc, fails) => Level(new)
         /\ ~Held(loc, fails) /\ Level(loc) => new.row = loc.row
<1>1. /\ new \in Loc /\ new.dock = Arrived(loc, fails, got)
      /\ Held(loc, fails) => new.row = loc.row /\ new.local = loc.local
      /\ ~Held(loc, fails) /\ Changed(loc)
           => /\ new.row = [ver |-> t, members |-> new.dock, deleted |-> FALSE]
              /\ new.local = [has |-> TRUE, base |-> new.dock, applied |-> t]
      /\ ~Held(loc, fails) /\ ~Changed(loc)
           => /\ new.row = loc.row
              /\ new.local.base = IF loc.local.has THEN Baseline(loc) ELSE new.dock
              /\ new.local.applied = IF Unseen(loc) THEN loc.row.ver ELSE loc.local.applied
              /\ new.local.has
  BY ReconciledCases
<1>2. loc.dock \in Seq(Members)
  BY DEF Loc
<1>3. loc.dock \o <<>> = loc.dock
  BY <1>2
<1>4. ~Held(loc, fails) => Arrived(loc, fails, got) = Opened(loc)
  BY <1>3, NoneMissing DEF Held, Arrived, Opened
<1>5. ~Held(loc, fails) => Level(new)
  <2>1. CASE ~Held(loc, fails) /\ Changed(loc)
    BY <1>1, <2>1 DEF Level
  <2>2. CASE ~Held(loc, fails) /\ ~Changed(loc)
    BY <1>1, <1>4, <2>2 DEF Level, Changed
  <2> QED BY <2>1, <2>2
<1>6. Level(loc) => ~Changed(loc)
  <2> SUFFICES ASSUME Level(loc) PROVE Baseline(loc) = Opened(loc)
    BY DEF Level, Changed
  <2>1. CASE Unseen(loc) /\ ~loc.row.deleted
    BY <2>1 DEF Baseline, Level
  <2>2. CASE ~(Unseen(loc) /\ ~loc.row.deleted)
    BY <1>3, <2>2 DEF Baseline, Level, Opened, Missing
  <2> QED BY <2>1, <2>2
<1> QED BY <1>1, <1>5, <1>6 DEF Held

\* One closed space: its row is gone, and only a row that was not is written.
LEMMA ClosedWrites ==
  ASSUME NEW loc \in Loc, NEW t \in Nat, NEW new, new = Swept(loc, t)
  PROVE  /\ Gone(loc.row) => new.row = loc.row
         /\ ~Gone(loc.row) => new.row.ver = t /\ new.row.deleted
<1>1. CASE Gone(loc.row)
  BY <1>1 DEF Swept, Gone
<1>2. CASE ~Gone(loc.row)
  <2>1. new = [Removed(loc, t) EXCEPT !.local = [NoLocal EXCEPT !.applied = t]]
    BY <1>2 DEF Swept, Gone
  <2>2. Removed(loc, t) = [loc EXCEPT !.row = [ver |-> t, members |-> <<>>, deleted |-> TRUE], !.queued = TRUE]
    BY DEF Removed
  <2>3. new.row = [ver |-> t, members |-> <<>>, deleted |-> TRUE]
    BY <2>1, <2>2 DEF Loc
  <2> QED BY <1>2, <2>3
<1> QED BY <1>1, <1>2

\* A step of the system that writes nothing and moves no lane.
LEMMA NothingWritten ==
  ASSUME WInv, UNCHANGED <<space, clock, edits, faults>>,
         \A b \in Browsers : page'[b].hold = page[b].hold,
         \A b \in Browsers, s \in Spaces : Blank(b, s)' => Blank(b, s),
         \A b \in Browsers, s \in Spaces : Quiet(b, s) => Quiet(b, s)'
  PROVE  WInv'
<1>1. PICK P, F, R : Owing(P, F, R) /\ Affords(clock, P, F, R, edits, faults)
  BY DEF WInv
<1>2. Owing(P, F, R)'
  BY <1>1 DEF Owing
<1>3. Affords(clock, P, F, R, edits, faults)'
  BY <1>1 DEF Affords, Allowed
<1> QED BY <1>2, <1>3 DEF WInv

\* A user's step may leave one space to be written by every browser.
LEMMA UserActed ==
  ASSUME Finite, IInv, WInv, edits' = edits + 1, UNCHANGED <<clock, faults>>,
         \A b \in Browsers : page'[b].hold = page[b].hold,
         NEW z \in Spaces, space' \in [Spaces -> {"live", "closed"}], space'[To] = "live",
         \A s \in Spaces \ {z} : space'[s] = space[s],
         \A b \in Browsers, s \in Spaces \ {z} : Quiet(b, s) => Quiet(b, s)',
         \A b \in Browsers, s \in Spaces \ {z} : Blank(b, s)' => Blank(b, s)
  PROVE  WInv'
<1>1. PICK P, F, R : Owing(P, F, R) /\ Affords(clock, P, F, R, edits, faults)
  BY DEF WInv
<1> DEFINE Q == P \cup (Browsers \X {z})
<1>2. P \in SUBSET (Browsers \X Spaces) /\ F \in SUBSET Browsers /\ R \in SUBSET Browsers
  BY <1>1 DEF Owing
<1>3. clock \in Nat /\ edits \in Nat /\ faults \in Nat
  BY DEF IInv, TypesOK, WInv
<1>4. Affords(clock, Q, F, Browsers, edits + 1, faults)
  BY <1>1, <1>2, <1>3, EditAffords
<1>5. Affords(clock, Q, F, Browsers, edits, faults)'
  BY <1>4 DEF Affords, Allowed
<1>6. \A b \in Browsers : <<b, z>> \in Q
  OBVIOUS
<1>7. P \subseteq Q /\ Q \in SUBSET (Browsers \X Spaces)
  BY <1>2
<1> HIDE DEF Q
<1>8. ASSUME NEW b \in Browsers, NEW s \in Spaces
      PROVE  <<b, s>> \in Q \/ Quiet(b, s)' \/ (space'[s] = "live" /\ b \in F /\ ~Blank(b, s)')
  BY <1>1, <1>6, <1>7 DEF Owing
<1>9. \A b \in Browsers : page'[b].hold => \A s \in Spaces : <<b, s>> \in Q
  BY <1>1, <1>7 DEF Owing
<1>10. Owing(Q, F, Browsers)'
  BY <1>2, <1>7, <1>8, <1>9 DEF Owing
<1> QED BY <1>3, <1>5, <1>10 DEF WInv

LEMMA SetDockPays ==
  ASSUME Finite, IInv, WInv, NEW b \in Browsers, NEW s \in Spaces, NEW q, SetDock(b, s, q)
  PROVE  WInv'
<1> DEFINE new == [store[b][s] EXCEPT !.dock = q, !.key = TRUE]
<1>1. TypesOK /\ space \in [Spaces -> {"live", "closed"}] /\ space[To] = "live" /\ To \in Spaces
  BY MembersAssumption DEF IInv, WInv
<1>2. /\ edits' = edits + 1 /\ UNCHANGED <<clock, faults, space, srow>>
      /\ store' = [store EXCEPT ![b][s] = new]
      /\ page' = [page EXCEPT ![b].timer = TRUE]
  BY <1>1 DEF SetDock, Acts, Scheduled, TypesOK
<1>3. /\ \A c \in Browsers : page'[c].hold = page[c].hold
      /\ \A c \in Browsers, z \in Spaces : Blank(c, z)' => Blank(c, z)
  BY <1>1, <1>2 DEF TypesOK, Page, Blank
<1>4. new.row = store[b][s].row
  BY IInvAt DEF Loc
<1> HIDE DEF new
<1>5. \A c \in Browsers, z \in Spaces : /\ store'[c][z].row = store[c][z].row
                                        /\ z # s => store'[c][z] = store[c][z]
  BY <1>1, <1>2, <1>4 DEF TypesOK
<1>6. \A c \in Browsers, z \in Spaces \ {s} : Quiet(c, z) => Quiet(c, z)'
  BY <1>2, <1>5 DEF Quiet, GoneFor, Gone, Level
<1> QED BY <1>1, <1>2, <1>3, <1>6, UserActed

LEMMA SpaceActsPay ==
  ASSUME Finite, IInv, WInv, NEW z \in Spaces, CloseSpace(z) \/ ReopenSpace(z)
  PROVE  WInv'
<1>1. TypesOK /\ space \in [Spaces -> {"live", "closed"}] /\ space[To] = "live" /\ To \in Spaces
  BY MembersAssumption DEF IInv, WInv
<1>2. /\ edits' = edits + 1 /\ UNCHANGED <<clock, faults, srow, store>> /\ page' = AllScheduled
      /\ \/ space' = [space EXCEPT ![z] = "closed"] /\ z # To
         \/ space' = [space EXCEPT ![z] = "live"]
  BY DEF CloseSpace, ReopenSpace, Acts
<1>3. /\ \A c \in Browsers : page'[c].hold = page[c].hold
      /\ \A c \in Browsers, s \in Spaces : Blank(c, s)' => Blank(c, s)
  BY <1>1, <1>2, AllScheduledPages DEF TypesOK, Blank
<1>4. /\ space' \in [Spaces -> {"live", "closed"}] /\ space'[To] = "live"
      /\ \A s \in Spaces \ {z} : space'[s] = space[s]
  BY <1>1, <1>2
<1>5. \A c \in Browsers, s \in Spaces \ {z} : Quiet(c, s) => Quiet(c, s)'
  BY <1>2, <1>4 DEF Quiet, GoneFor, Gone, Level
<1> QED BY <1>2, <1>3, <1>4, <1>5, UserActed

\* A page that goes pays for the space it will show next: no reconciliation
\* reads this one until its dock is mounted.
LEMMA LeavePays ==
  ASSUME Finite, IInv, WInv, NEW b \in Browsers, NEW shown \in Blanks, Leave(b, shown)
  PROVE  WInv'
<1>1. TypesOK /\ space \in [Spaces -> {"live", "closed"}] /\ space[To] = "live"
  BY DEF IInv, WInv
<1>2. /\ edits' = edits + 1 /\ UNCHANGED <<clock, faults, srow, store, space>>
      /\ page' = [page EXCEPT ![b].up = FALSE, ![b].started = FALSE, ![b].timer = FALSE, ![b].blank = shown]
  BY DEF Leave, Acts
<1>3. \A c \in Browsers : page'[c].hold = page[c].hold
  BY <1>1, <1>2 DEF TypesOK, Page
<1>4. PICK z \in Spaces : shown \subseteq {z}
  BY MembersAssumption DEF Blanks
<1>5. \A c \in Browsers, s \in Spaces \ {z} : Blank(c, s)' => Blank(c, s)
  <2>1. \A c \in Browsers : page'[c].blank = IF c = b THEN shown ELSE page[c].blank
    BY <1>1, <1>2 DEF TypesOK, Page
  <2> QED BY <1>4, <2>1 DEF Blank
<1>6. \A c \in Browsers, s \in Spaces : Quiet(c, s) => Quiet(c, s)'
  BY <1>2 DEF Quiet, GoneFor, Gone, Level
<1> QED BY <1>1, <1>2, <1>3, <1>5, <1>6, UserActed

LEMMA DockReadyPays ==
  ASSUME IInv, WInv, NEW b \in Browsers, DockReady(b)
  PROVE  WInv'
<1>1. TypesOK
  BY DEF IInv
<1>2. /\ UNCHANGED <<space, clock, edits, faults, srow, store>>
      /\ page' = [page EXCEPT ![b].blank = {}, ![b].timer = TRUE]
  BY DEF DockReady
<1>3. /\ \A c \in Browsers : page'[c].hold = page[c].hold
      /\ \A c \in Browsers, s \in Spaces : Blank(c, s)' => Blank(c, s)
  BY <1>1, <1>2 DEF TypesOK, Page, Blank
<1>4. \A c \in Browsers, s \in Spaces : Quiet(c, s) => Quiet(c, s)'
  BY <1>2 DEF Quiet, GoneFor, Gone, Level
<1> QED BY <1>2, <1>3, <1>4, NothingWritten

LEMMA LoadPays ==
  ASSUME IInv, WInv, NEW b \in Browsers, Load(b)
  PROVE  WInv'
<1>1. TypesOK
  BY DEF IInv
<1>2. /\ UNCHANGED <<space, clock, edits, faults, srow>>
      /\ page' = [page EXCEPT ![b].up = TRUE, ![b].timer = TRUE]
      /\ store' = [store EXCEPT ![b] = store[b]]
  BY DEF Load, Reloaded
<1>3. store' = store
  BY <1>1, <1>2 DEF TypesOK
<1>4. /\ \A c \in Browsers : page'[c].hold = page[c].hold
      /\ \A c \in Browsers, s \in Spaces : Blank(c, s)' => Blank(c, s)
  BY <1>1, <1>2 DEF TypesOK, Page, Blank
<1>5. \A c \in Browsers, s \in Spaces : Quiet(c, s) => Quiet(c, s)'
  BY <1>2, <1>3 DEF Quiet, GoneFor, Gone, Level
<1> QED BY <1>2, <1>4, <1>5, NothingWritten

LEMMA PostPays ==
  ASSUME IInv, WInv, NEW b \in Browsers, NEW s \in Spaces, Post(b, s)
  PROVE  WInv'
<1>1. TypesOK
  BY DEF IInv
<1>2. /\ UNCHANGED <<space, page, clock, edits, faults>>
      /\ srow' = [srow EXCEPT ![s] = Newer(srow[s], store[b][s].row)]
      /\ store' = [store EXCEPT ![b][s].queued = FALSE]
  BY DEF Post
<1>3. \A c \in Browsers, z \in Spaces :
         /\ store'[c][z].row = store[c][z].row /\ store'[c][z].local = store[c][z].local
         /\ store'[c][z].dock = store[c][z].dock
  BY <1>1, <1>2 DEF TypesOK, Loc
<1>4. \A z \in Spaces : srow'[z] \in {srow[z], store[b][z].row}
  BY <1>1, <1>2 DEF TypesOK, Newer
<1>5. ASSUME NEW c \in Browsers, NEW z \in Spaces, Quiet(c, z) PROVE Quiet(c, z)'
  <2>1. CASE space[z] = "live"
    BY <1>2, <1>3, <1>5, <2>1 DEF Quiet, Level
  <2>2. CASE space[z] # "live"
    <3>1. GoneFor(c, z)
      BY <1>5, <2>2 DEF Quiet
    <3>2. GoneFor(c, z)'
      BY <1>3, <1>4, <3>1 DEF GoneFor, Gone
    <3> QED BY <1>2, <2>2, <3>2 DEF Quiet
  <2> QED BY <2>1, <2>2
<1>6. \A c \in Browsers, z \in Spaces : Blank(c, z)' => Blank(c, z)
  BY <1>2 DEF Blank
<1> QED BY <1>2, <1>5, <1>6, NothingWritten

LEMMA PullPays ==
  ASSUME IInv, WInv, NEW b \in Browsers, Pull(b)
  PROVE  WInv'
<1>1. TypesOK
  BY DEF IInv
<1>2. /\ UNCHANGED <<space, srow, clock, edits, faults>>
      /\ page' = [page EXCEPT ![b].started = TRUE, ![b].timer = TRUE]
      /\ store' = [store EXCEPT ![b] = [s \in Spaces |->
                    [store[b][s] EXCEPT !.row = Newer(store[b][s].row, srow[s])]]]
  BY DEF Pull, Heard
<1>3. /\ \A c \in Browsers : page'[c].hold = page[c].hold
      /\ \A c \in Browsers, z \in Spaces : Blank(c, z)' => Blank(c, z)
  BY <1>1, <1>2 DEF TypesOK, Page, Blank
<1>4. \A c \in Browsers, z \in Spaces :
         /\ store'[c][z].local = store[c][z].local /\ store'[c][z].dock = store[c][z].dock
         /\ store'[c][z].row = IF c = b THEN Newer(store[c][z].row, srow[z]) ELSE store[c][z].row
  BY <1>1, <1>2 DEF TypesOK, Loc
<1>5. ASSUME NEW c \in Browsers, NEW z \in Spaces, Quiet(c, z) PROVE Quiet(c, z)'
  <2>1. CASE space[z] = "live"
    BY <1>2, <1>4, <1>5, <2>1 DEF Quiet, Level
  <2>2. CASE space[z] # "live"
    <3>1. GoneFor(c, z)
      BY <1>5, <2>2 DEF Quiet
    <3>2. srow[z].ver \in Nat /\ \A d \in Browsers : store[d][z].row.ver \in Nat
      BY IInvAt
    <3>3. \A d \in Browsers : store'[d][z].row \in {store[d][z].row, srow[z]}
      BY <1>4 DEF Newer
    <3>4. Gone(store'[c][z].row) /\ store'[c][z].row.ver >= store[c][z].row.ver
      BY <1>4, <3>1, <3>2 DEF GoneFor, Gone, Newer
    <3>5. GoneFor(c, z)'
      <4>1. store'[c][z].row.ver \in Nat
        BY <3>2, <3>3
      <4>2. ASSUME NEW row, row.ver \in Nat, row.ver > store'[c][z].row.ver
            PROVE  row.ver > store[c][z].row.ver
        BY <3>2, <3>4, <4>1, <4>2
      <4>3. srow[z].ver > store'[c][z].row.ver => srow[z].deleted
        BY <3>1, <3>2, <4>2 DEF GoneFor
      <4>4. ASSUME NEW d \in Browsers, store'[d][z].row.ver > store'[c][z].row.ver
            PROVE  store'[d][z].row.deleted
        BY <3>1, <3>2, <3>3, <4>2, <4>3, <4>4 DEF GoneFor
      <4> QED BY <1>2, <3>4, <4>3, <4>4 DEF GoneFor, Gone
    <3> QED BY <1>2, <2>2, <3>5 DEF Quiet
  <2> QED BY <2>1, <2>2
<1> QED BY <1>2, <1>3, <1>5, NothingWritten

\* The rows of the lane move: the old space's is deleted if one is written.
LEMMA RowsMovedRows ==
  ASSUME NEW st \in [Spaces -> Loc], NEW t \in Nat, NEW new, new = RowsMoved(st, t)
  PROVE  /\ \A s \in Spaces \ {From, To} : new[s].row = st[s].row
         /\ new = st \/ (new[From].row.deleted /\ new[From].row.ver = t)
<1> DEFINE free == st[To].row.ver = 0 \/ st[To].row.deleted \/ st[To].row.members = <<>>
           moved == [ver |-> t, members |-> st[From].row.members, deleted |-> FALSE]
           to == IF free THEN [st[To] EXCEPT !.row = moved, !.queued = TRUE] ELSE st[To]
           from == [st[From] EXCEPT !.row = [ver |-> t, members |-> <<>>, deleted |-> TRUE], !.queued = TRUE]
<1>1. From \in Spaces /\ To \in Spaces /\ From # To
  BY MembersAssumption
<1>2. CASE st[From].row.ver = 0 \/ st[From].row.deleted
  BY <1>2 DEF RowsMoved
<1>3. CASE ~(st[From].row.ver = 0 \/ st[From].row.deleted)
  <2>1. new = [[st EXCEPT ![To] = to] EXCEPT ![From] = from]
    <3>1. Removed(st[From], t) = from
      BY DEF Removed
    <3> HIDE DEF from
    <3> QED BY <1>1, <1>3, <3>1 DEF RowsMoved
  <2>2. from.row.deleted /\ from.row.ver = t
    BY <1>1 DEF Loc
  <2> HIDE DEF from, to
  <2> QED BY <1>1, <2>1, <2>2
<1> QED BY <1>2, <1>3

LEMMA LayoutMovedRows ==
  ASSUME NEW st \in [Spaces -> Loc], NEW new, new = LayoutMoved(st)
  PROVE  \A s \in Spaces : new[s].row = st[s].row
<1> DEFINE to == [st[To] EXCEPT !.dock = st[From].dock, !.key = st[From].key]
           from == [st[From] EXCEPT !.dock = <<>>, !.key = FALSE]
<1>1. From \in Spaces /\ To \in Spaces /\ From # To
  BY MembersAssumption
<1>2. CASE st[To].key
  BY <1>2 DEF LayoutMoved
<1>3. CASE ~st[To].key
  <2>1. new = [[st EXCEPT ![To] = to] EXCEPT ![From] = from]
    BY <1>1, <1>3 DEF LayoutMoved
  <2>2. to.row = st[To].row /\ from.row = st[From].row
    BY <1>1 DEF Loc
  <2> HIDE DEF from, to
  <2> QED BY <1>1, <2>1, <2>2
<1> QED BY <1>2, <1>3

\* The move pays with the reserve for the browsers that will write the old space,
\* and what it writes itself it will not write again.
LEMMA LaneMovePays ==
  ASSUME Finite, IInv, WInv, NEW b \in Browsers, LaneMove(b)
  PROVE  WInv'
<1> DEFINE st == store[b]
           mine == IF space[From] = "live" THEN RowsMoved(st, clock + 1) ELSE st
           new == LayoutMoved(mine)
<1>1. /\ TypesOK /\ clock \in Nat /\ edits \in Nat /\ faults \in Nat
      /\ space \in [Spaces -> {"live", "closed"}] /\ space[To] = "live"
      /\ From \in Spaces /\ To \in Spaces /\ From # To
  BY MembersAssumption DEF IInv, TypesOK, WInv
<1>2. /\ page[b].hold /\ store' = [store EXCEPT ![b] = new]
      /\ clock' = IF mine = st THEN clock ELSE clock + 1
      /\ space' = [space EXCEPT ![From] = "closed"]
      /\ UNCHANGED <<srow, edits, faults>>
  BY DEF LaneMove
<1>3. /\ ~page'[b].hold /\ \A c \in Browsers : c # b => page'[c].hold = page[c].hold
      /\ \A c \in Browsers, s \in Spaces : Blank(c, s)' => Blank(c, s)
  <2> DEFINE p == IF space[From] = "live" THEN AllScheduled ELSE page
  <2>1. /\ p \in [Browsers -> Page]
        /\ \A c \in Browsers : p[c].hold = page[c].hold /\ p[c].blank = page[c].blank
    BY <1>1, AllScheduledPages DEF TypesOK
  <2>2. page' = [p EXCEPT ![b].hold = FALSE, ![b].timer = TRUE]
    BY DEF LaneMove
  <2> HIDE DEF p
  <2> QED BY <2>1, <2>2 DEF Page, Blank
<1>4. st \in [Spaces -> Loc]
  BY <1>1 DEF TypesOK
<1>5. space[From] = "live" \/ mine = st
  OBVIOUS
<1>6. /\ mine \in [Spaces -> Loc]
      /\ \A s \in Spaces \ {From, To} : mine[s].row = st[s].row
      /\ mine = st \/ (mine[From].row.deleted /\ mine[From].row.ver = clock + 1)
  <2>1. CASE space[From] = "live"
    <3> DEFINE t == clock + 1
    <3>1. mine = RowsMoved(st, t) /\ t \in Nat /\ t # 0
      BY <1>1, <2>1
    <3>2. /\ AllKnown(st, closed[b], acked[b])
          /\ \A s \in Spaces : st[s].row.ver < t /\ st[s].local.applied = 0
      BY <1>2, IInvAt DEF IInv, Holding, AllKnown
    <3> HIDE DEF mine, t, st
    <3>3. mine \in [Spaces -> Loc]
      BY <1>4, <3>1, <3>2, RowsMovedKnown
    <3>4. /\ \A s \in Spaces \ {From, To} : mine[s].row = st[s].row
          /\ mine = st \/ (mine[From].row.deleted /\ mine[From].row.ver = t)
      BY <1>4, <3>1, RowsMovedRows
    <3> QED BY <3>3, <3>4 DEF t
  <2>2. CASE space[From] # "live"
    BY <1>4, <2>2
  <2> QED BY <2>1, <2>2
<1> HIDE DEF mine
<1>7. \A s \in Spaces : new[s].row = mine[s].row
  BY <1>6, LayoutMovedRows
<1> HIDE DEF new
<1>8. /\ \A s \in Spaces : store'[b][s].row = mine[s].row
      /\ \A c \in Browsers : c # b => store'[c] = store[c]
  BY <1>1, <1>2, <1>7 DEF TypesOK
<1>9. \A c \in Browsers, s \in Spaces : store'[c][s].row.ver <= clock' /\ store'[c][s].row.ver \in Nat
                                        /\ srow[s].ver <= clock /\ srow[s].ver \in Nat
  <2>1. IInv'
    BY LaneMoveStep
  <2> QED BY <2>1, IInvAt DEF IInv, RowsPast, TypesOK, Loc, Row
<1>10. PICK P, F, R : Owing(P, F, R) /\ Affords(clock, P, F, R, edits, faults)
  BY DEF WInv
<1>11. P \in SUBSET (Browsers \X Spaces) /\ F \in SUBSET Browsers /\ R \in SUBSET Browsers
  BY <1>10 DEF Owing
<1>13. ASSUME NEW c \in Browsers, NEW s \in Spaces, c # b, Quiet(c, s), s # From \/ space[From] # "live"
       PROVE  Quiet(c, s)'
  <2>1. space'[s] = space[s]
    BY <1>1, <1>2, <1>13
  <2>2. CASE space[s] = "live"
    BY <1>8, <1>13, <2>1, <2>2 DEF Quiet, Level
  <2>3. CASE space[s] # "live"
    <3>1. s # To
      BY <1>1, <2>3
    <3>2. \A d \in Browsers : store'[d][s].row = store[d][s].row
      BY <1>5, <1>6, <1>8, <1>13, <3>1 DEF st
    <3>3. GoneFor(c, s)'
      BY <1>2, <1>13, <2>3, <3>2 DEF Quiet, GoneFor, Gone
    <3> QED BY <2>1, <2>3, <3>3 DEF Quiet
  <2> QED BY <2>2, <2>3
<1>14. CASE space[From] # "live"
  <2>1. space' = space /\ clock' = clock
    BY <1>1, <1>2, <1>5, <1>14
  <2>2. ASSUME NEW c \in Browsers, NEW s \in Spaces
        PROVE  <<c, s>> \in P \/ Quiet(c, s)' \/ (space'[s] = "live" /\ c \in F /\ ~Blank(c, s)')
    BY <1>2, <1>3, <1>10, <1>13, <1>14, <2>1 DEF Owing
  <2>3. \A c \in Browsers : page'[c].hold => \A s \in Spaces : <<c, s>> \in P
    BY <1>3, <1>10 DEF Owing
  <2>4. Owing(P, F, R)'
    BY <1>11, <1>14, <2>1, <2>2, <2>3 DEF Owing
  <2>5. Affords(clock, P, F, R, edits, faults)'
    BY <1>2, <1>10, <2>1 DEF Affords, Allowed
  <2> QED BY <1>1, <1>2, <2>1, <2>4, <2>5 DEF WInv
<1>15. CASE space[From] = "live"
  <2>1. \E Q \in SUBSET (Browsers \X Spaces) :
           /\ P \subseteq Q /\ Affords(clock, Q, F, {}, edits, faults)
           /\ \A c \in Browsers : <<c, From>> \in Q
    <3>1. /\ IsFiniteSet(P) /\ Cardinality(P) \in Nat /\ Cardinality(F) \in Nat /\ Cardinality(R) \in Nat
          /\ Cardinality(Browsers) \in Nat /\ Cardinality({}) = 0 /\ Allowed(edits, faults) \in Nat
      BY <1>1, <1>11, Sized, AllowedMore, FS_EmptySet
    <3>2. CASE \A c \in Browsers : page[c].hold
      <4>1. \A c \in Browsers : <<c, From>> \in P
        BY <1>1, <1>10, <3>2 DEF Owing
      <4>2. Affords(clock, P, F, {}, edits, faults)
        BY <1>1, <1>10, <3>1 DEF Affords
      <4> QED BY <1>11, <4>1, <4>2
    <3>3. CASE R = Browsers
      <4> DEFINE all == Browsers \X {From}
                 Q == P \cup all
      <4>1. IsFiniteSet(all) /\ Cardinality(all) = Cardinality(Browsers) /\ all \in SUBSET (Browsers \X Spaces)
        BY <1>1, OneSpace
      <4>2. \A c \in Browsers : <<c, From>> \in Q
        OBVIOUS
      <4> HIDE DEF all
      <4>3. /\ Cardinality(Q) = Cardinality(P) + Cardinality(all) - Cardinality(P \cap all)
            /\ Cardinality(P \cap all) \in Nat
        BY <3>1, <4>1, FS_Union, FS_Intersection, FS_CardinalityType
      <4>4. Q \in SUBSET (Browsers \X Spaces) /\ P \subseteq Q
        BY <1>11, <4>1
      <4> HIDE DEF Q
      <4>5. Affords(clock, Q, F, {}, edits, faults)
        BY <1>1, <1>10, <3>1, <3>3, <4>1, <4>3 DEF Affords
      <4> QED BY <4>2, <4>4, <4>5
    <3> QED BY <1>2, <1>10, <1>15, <3>2, <3>3 DEF Owing
  <2>2. PICK Q \in SUBSET (Browsers \X Spaces) :
           /\ P \subseteq Q /\ Affords(clock, Q, F, {}, edits, faults)
           /\ \A c \in Browsers : <<c, From>> \in Q
    BY <2>1
  <2>3. PICK Q2 \in SUBSET (Browsers \X Spaces) :
             Q2 = IF mine = st THEN Q ELSE Q \ {<<b, From>>}
    OBVIOUS
  <2>4. Affords(clock', Q2, F, {}, edits, faults)
    <3>1. CASE mine = st
      BY <1>2, <2>2, <2>3, <3>1
    <3>2. CASE mine # st
      <4>1. clock' = clock + 1 /\ <<b, From>> \in Q /\ Q2 \subseteq Q \ {<<b, From>>}
        BY <1>2, <2>2, <2>3, <3>2
      <4>2. Affords(clock + 1, Q2, F, {}, edits, faults)
        BY <1>1, <1>11, <2>2, <4>1, WriteAffords
      <4> QED BY <4>1, <4>2
    <3> QED BY <3>1, <3>2
  <2>5. \A c \in Browsers, s \in Spaces : <<c, s>> \in Q2 <=> <<c, s>> \in Q /\ (mine = st \/ c # b \/ s # From)
    BY <2>3
  <2>6. mine # st => Quiet(b, From)'
    <3> SUFFICES ASSUME mine # st PROVE Quiet(b, From)'
      OBVIOUS
    <3>1. store'[b][From].row.deleted /\ store'[b][From].row.ver = clock + 1 /\ clock' = clock + 1
      BY <1>1, <1>2, <1>6, <1>8
    <3>2. ~(srow[From].ver > clock + 1) /\ \A c \in Browsers : ~(store'[c][From].row.ver > clock + 1)
      BY <1>1, <1>9, <3>1
    <3>3. GoneFor(b, From)'
      BY <1>2, <3>1, <3>2 DEF GoneFor, Gone
    <3> QED BY <1>1, <1>2, <3>3 DEF Quiet
  <2>7. ASSUME NEW c \in Browsers, NEW s \in Spaces
        PROVE  <<c, s>> \in Q2 \/ Quiet(c, s)' \/ (space'[s] = "live" /\ c \in F /\ ~Blank(c, s)')
    <3>1. CASE s = From
      BY <2>2, <2>5, <2>6, <3>1
    <3>2. CASE s # From /\ c = b
      BY <1>2, <1>10, <2>2, <2>5, <3>2 DEF Owing
    <3>3. CASE s # From /\ c # b
      BY <1>1, <1>2, <1>3, <1>10, <1>13, <2>2, <2>5, <3>3 DEF Owing
    <3> QED BY <3>1, <3>2, <3>3
  <2>8. \A c \in Browsers : page'[c].hold => \A s \in Spaces : <<c, s>> \in Q2
    BY <1>3, <1>10, <2>2, <2>5 DEF Owing
  <2>9. space'[From] # "live"
    BY <1>1, <1>2
  <2>10. Owing(Q2, F, {})'
    BY <1>11, <2>3, <2>7, <2>8, <2>9 DEF Owing
  <2>11. Affords(clock, Q2, F, {}, edits, faults)'
    BY <1>2, <2>4 DEF Affords, Allowed
  <2> QED BY <1>1, <1>2, <2>10, <2>11 DEF WInv
<1> QED BY <1>14, <1>15

\* What one reconciliation of a space leaves to be written: nothing where a live
\* space was read and not held back, nothing where a closed one was written.
Done(b, s, fails) ==
    IF space[s] = "live" THEN ~Blank(b, s) /\ ~Held(store[b][s], fails) ELSE ~Gone(store[b][s].row)

LEMMA ReconcileWrites ==
  ASSUME IInv, WInv, NEW b \in Browsers, NEW s \in Spaces, NEW fails \in BOOLEAN, NEW got,
         NEW new, new = After(b, s, fails, got)
  PROVE  /\ new.row = store[b][s].row \/ (new.row.ver = clock + 1 /\ Done(b, s, fails) /\ ~Quiet(b, s))
         /\ space[s] = "live" /\ ~Done(b, s, fails) => fails \/ Blank(b, s)
         /\ space[s] = "live" /\ Blank(b, s) => new = store[b][s] /\ ~Done(b, s, fails)
         /\ space[s] = "live" /\ Done(b, s, fails) => Level(new)
         /\ space[s] # "live" /\ Done(b, s, fails) => new.row.ver = clock + 1 /\ new.row.deleted
         /\ space[s] # "live" => new.row = store[b][s].row \/ (new.row.ver = clock + 1 /\ new.row.deleted)
<1>1. store[b][s] \in Loc /\ clock + 1 \in Nat
  BY IInvAt
<1>2. CASE space[s] = "live" /\ ~Blank(b, s)
  <2>1. new = Reconciled(store[b][s], fails, got, clock + 1)
    BY <1>2 DEF After
  <2>2. /\ Held(store[b][s], fails) => new.row = store[b][s].row /\ fails
        /\ ~Held(store[b][s], fails) => Level(new)
        /\ ~Held(store[b][s], fails) /\ Level(store[b][s]) => new.row = store[b][s].row
    BY <1>1, <2>1, LiveWrites
  <2>3. new.row = store[b][s].row \/ new.row.ver = clock + 1
    BY ReconciledAt DEF Reconciles
  <2> QED BY <1>2, <2>2, <2>3 DEF Done, Quiet
<1>3. CASE space[s] # "live"
  <2>1. new = Swept(store[b][s], clock + 1)
    BY <1>3 DEF After
  <2>2. /\ Gone(store[b][s].row) => new.row = store[b][s].row
        /\ ~Gone(store[b][s].row) => new.row.ver = clock + 1 /\ new.row.deleted
    BY <1>1, <2>1, ClosedWrites
  <2> QED BY <1>3, <2>2 DEF Done, Quiet, GoneFor
<1>4. CASE space[s] = "live" /\ Blank(b, s)
  <2>1. new = store[b][s]
    BY <1>4 DEF After, Unread
  <2> QED BY <1>4, <2>1 DEF Done
<1> QED BY <1>2, <1>3, <1>4

\* A tick of the clock is paid by a space that will not be written again, or by the
\* fault; a fault may leave all spaces of its browser to be written once.
LEMMA TickAffords ==
  ASSUME Finite, NEW P, NEW F, NEW R, NEW c \in Nat, NEW e \in Nat, NEW f \in Nat,
         P \in SUBSET (Browsers \X Spaces), F \in SUBSET Browsers, R \in SUBSET Browsers,
         Affords(c, P, F, R, e, f), NEW b \in Browsers, NEW fails \in BOOLEAN,
         NEW P2, P2 \subseteq P, NEW ticks \in BOOLEAN, ticks => b \in F \/ P2 # P
  PROVE  Affords(IF ticks THEN c + 1 ELSE c, P2, IF fails THEN F \cup {b} ELSE F \ {b}, R,
                 e, IF fails THEN f + 1 ELSE f)
<1> DEFINE F2 == IF fails THEN F \cup {b} ELSE F \ {b}
<1>1. /\ IsFiniteSet(P) /\ Cardinality(P) \in Nat /\ IsFiniteSet(F) /\ Cardinality(F) \in Nat
      /\ Cardinality(R) \in Nat
  BY Sized
<1>2. P2 \in SUBSET P
  OBVIOUS
<1>3. /\ Cardinality(P2) \in Nat /\ Cardinality(P2) <= Cardinality(P)
      /\ Cardinality(P2) = Cardinality(P) => P2 = P
  BY <1>1, <1>2, FS_Subset, FS_CardinalityType
<1>4. Cardinality(F \cup {b}) = IF b \in F THEN Cardinality(F) ELSE Cardinality(F) + 1
  BY <1>1, FS_AddElement
<1>5. Cardinality(F \ {b}) = IF b \in F THEN Cardinality(F) - 1 ELSE Cardinality(F)
  BY <1>1, FS_RemoveElement
<1>6. Allowed(e, f) \in Nat /\ Allowed(e, f + 1) = Allowed(e, f) + 1
  BY AllowedMore
<1>7. CASE fails
  BY <1>1, <1>3, <1>4, <1>6, <1>7 DEF Affords
<1>8. CASE ~fails
  BY <1>1, <1>3, <1>5, <1>6, <1>8 DEF Affords
<1> QED BY <1>7, <1>8

LEMMA ReconcilePays ==
  ASSUME Finite, IInv, WInv, NEW b \in Browsers, NEW fails \in BOOLEAN, NEW got, Reconcile(b, fails, got)
  PROVE  WInv'
<1>1. /\ TypesOK /\ clock \in Nat /\ edits \in Nat /\ faults \in Nat
      /\ space \in [Spaces -> {"live", "closed"}] /\ space[To] = "live"
  BY DEF IInv, TypesOK, WInv
<1>2. /\ page' = [page EXCEPT ![b].timer = FALSE] /\ UNCHANGED <<space, srow, edits>>
  BY DEF Reconcile
<1>3. /\ \A c \in Browsers : page'[c].hold = page[c].hold
      /\ \A c \in Browsers, s \in Spaces : Blank(c, s)' => Blank(c, s)
  BY <1>1, <1>2 DEF TypesOK, Page, Blank
<1>4. CASE ~Ready(b)
  <2>1. UNCHANGED <<store, clock, faults>>
    BY <1>4 DEF Reconcile
  <2>2. \A c \in Browsers, s \in Spaces : Quiet(c, s) => Quiet(c, s)'
    BY <1>2, <2>1 DEF Quiet, GoneFor, Gone, Level
  <2> QED BY <1>2, <1>3, <2>1, <2>2, NothingWritten
<1>5. CASE Ready(b)
  <2> DEFINE t == clock + 1
             new == [s \in Spaces |-> IF space[s] # "live" THEN Swept(store[b][s], t)
                                      ELSE IF Blank(b, s) THEN Unread(store[b][s])
                                      ELSE Reconciled(store[b][s], fails, got, t)]
  <2>1. /\ store' = [store EXCEPT ![b] = new]
        /\ clock' = IF \E s \in Spaces : new[s].row.ver = t THEN t ELSE clock
        /\ faults' = IF fails THEN faults + 1 ELSE faults
    BY <1>5 DEF Reconcile
  <2>2. \A s \in Spaces : new[s] = After(b, s, fails, got)
    BY DEF After
  <2> HIDE DEF new
  <2>3. PICK ticks \in BOOLEAN : ticks <=> \E s \in Spaces : new[s].row.ver = t
    OBVIOUS
  <2>4. clock' = IF ticks THEN clock + 1 ELSE clock
    BY <2>1, <2>3
  <2>5. /\ store'[b] = new /\ \A c \in Browsers : c # b => store'[c] = store[c]
    BY <1>1, <2>1 DEF TypesOK
  <2>6. \A s \in Spaces :
           /\ new[s].row = store[b][s].row
                \/ (new[s].row.ver = clock + 1 /\ Done(b, s, fails) /\ ~Quiet(b, s))
           /\ space[s] = "live" /\ ~Done(b, s, fails) => fails \/ Blank(b, s)
           /\ space[s] = "live" /\ Blank(b, s) => new[s] = store[b][s] /\ ~Done(b, s, fails)
           /\ space[s] = "live" /\ Done(b, s, fails) => Level(new[s])
           /\ space[s] # "live" /\ Done(b, s, fails) => new[s].row.ver = clock + 1 /\ new[s].row.deleted
           /\ space[s] # "live" => new[s].row = store[b][s].row
                                     \/ (new[s].row.ver = clock + 1 /\ new[s].row.deleted)
    BY <2>2, ReconcileWrites
  <2> HIDE DEF t
  <2>7. \A c \in Browsers, s \in Spaces : /\ store[c][s].row.ver <= clock /\ store[c][s].row.ver \in Nat
                                          /\ srow[s].ver <= clock /\ srow[s].ver \in Nat
    BY IInvAt
  <2>8. PICK P, F, R : Owing(P, F, R) /\ Affords(clock, P, F, R, edits, faults)
    BY DEF WInv
  <2>9. P \in SUBSET (Browsers \X Spaces) /\ F \in SUBSET Browsers /\ R \in SUBSET Browsers
    BY <2>8 DEF Owing
  <2>10. PICK D \in SUBSET Spaces : \A s \in Spaces : s \in D <=> Done(b, s, fails)
    <3>1. {s \in Spaces : Done(b, s, fails)} \in SUBSET Spaces
      OBVIOUS
    <3> QED BY <3>1
  <2>11. PICK P2 \in SUBSET P : \A c \in Browsers, s \in Spaces :
              <<c, s>> \in P2 <=> <<c, s>> \in P /\ (c # b \/ s \notin D)
    <3>1. P \ ({b} \X D) \in SUBSET P
      OBVIOUS
    <3> QED BY <3>1
  <2>12. PICK F2 \in SUBSET Browsers : F2 = IF fails THEN F \cup {b} ELSE F \ {b}
    BY <2>9
  <2>13. ticks => b \in F \/ P2 # P
    <3> SUFFICES ASSUME ticks, b \notin F PROVE P2 # P
      OBVIOUS
    <3>1. PICK s \in Spaces : new[s].row.ver = clock + 1
      BY <2>3 DEF t
    <3>2. new[s].row # store[b][s].row
      BY <1>1, <2>7, <3>1
    <3>3. Done(b, s, fails) /\ ~Quiet(b, s)
      BY <2>6, <3>2
    <3>4. <<b, s>> \in P
      BY <2>8, <3>3 DEF Owing
    <3>5. <<b, s>> \notin P2
      BY <2>10, <2>11, <3>3
    <3> QED BY <3>4, <3>5
  <2>14. Affords(clock, P2, F2, R, edits, faults)'
    <3>1. Affords(IF ticks THEN clock + 1 ELSE clock, P2, IF fails THEN F \cup {b} ELSE F \ {b}, R,
                  edits, IF fails THEN faults + 1 ELSE faults)
      BY <1>1, <2>8, <2>9, <2>11, <2>13, TickAffords
    <3>2. Affords(clock', P2, F2, R, edits', faults')
      BY <1>2, <2>1, <2>4, <2>12, <3>1
    <3> QED BY <3>2 DEF Affords, Allowed
  <2>15. ASSUME NEW c \in Browsers, NEW s \in Spaces
         PROVE  <<c, s>> \in P2 \/ Quiet(c, s)' \/ (space'[s] = "live" /\ c \in F2 /\ ~Blank(c, s)')
    <3>1. CASE space[s] = "live" /\ c = b /\ ~Blank(b, s)
      <4>1. Done(b, s, fails) => Quiet(c, s)'
        BY <1>2, <2>5, <2>6, <3>1 DEF Quiet, Level
      <4>2. ~Done(b, s, fails) => b \in F2 /\ ~Blank(b, s)'
        BY <1>3, <2>6, <2>12, <3>1
      <4> QED BY <1>2, <3>1, <4>1, <4>2
    <3>2. CASE space[s] = "live" /\ c # b
      <4>1. Quiet(c, s) => Quiet(c, s)'
        BY <1>2, <2>5, <3>2 DEF Quiet, Level
      <4> QED BY <1>2, <1>3, <2>8, <2>11, <2>12, <3>2, <4>1 DEF Owing
    <3>3. CASE space[s] # "live" /\ c = b /\ Done(b, s, fails)
      <4>1. store'[c][s].row.ver = clock + 1 /\ store'[c][s].row.deleted
        BY <2>5, <2>6, <3>3
      <4>2. ~(srow[s].ver > clock + 1)
        BY <1>1, <2>7
      <4>3. ASSUME NEW d \in Browsers PROVE ~(store'[d][s].row.ver > clock + 1)
        <5>1. CASE d = b
          BY <1>1, <3>3, <4>1, <5>1
        <5>2. CASE d # b
          BY <1>1, <2>5, <2>7, <5>2
        <5> QED BY <5>1, <5>2
      <4>4. GoneFor(c, s)'
        BY <1>2, <4>1, <4>2, <4>3 DEF GoneFor, Gone
      <4> QED BY <1>2, <3>3, <4>4 DEF Quiet
    <3>4. CASE space[s] # "live" /\ (c # b \/ ~Done(b, s, fails))
      <4>1. <<c, s>> \in P \/ Quiet(c, s)
        BY <2>8, <3>4 DEF Owing
      <4>2. <<c, s>> \in P => <<c, s>> \in P2
        BY <2>10, <2>11, <3>4
      <4>3. ASSUME Quiet(c, s) PROVE Quiet(c, s)'
        <5>1. GoneFor(c, s)
          BY <3>4, <4>3 DEF Quiet
        <5>2. store'[c][s].row = store[c][s].row
          BY <2>5, <2>6, <3>4
        <5>3. ASSUME NEW d \in Browsers
              PROVE  store'[d][s].row = store[d][s].row \/ store'[d][s].row.deleted
          BY <2>5, <2>6, <3>4
        <5>4. GoneFor(c, s)'
          BY <1>2, <5>1, <5>2, <5>3 DEF GoneFor, Gone
        <5> QED BY <1>2, <3>4, <5>4 DEF Quiet
      <4> QED BY <4>1, <4>2, <4>3
    <3>5. CASE space[s] = "live" /\ c = b /\ Blank(b, s)
      <4>1. <<c, s>> \in P \/ Quiet(c, s)
        BY <2>8, <3>5 DEF Owing
      <4>2. <<c, s>> \in P => <<c, s>> \in P2
        BY <2>6, <2>10, <2>11, <3>5
      <4>3. Quiet(c, s) => Quiet(c, s)'
        BY <1>2, <2>5, <2>6, <3>5 DEF Quiet, Level
      <4> QED BY <4>1, <4>2, <4>3
    <3> QED BY <3>1, <3>2, <3>3, <3>4, <3>5
  <2>16. ~page[b].hold
    BY <1>5 DEF Ready
  <2>17. \A c \in Browsers : page'[c].hold => \A s \in Spaces : <<c, s>> \in P2
    BY <1>3, <2>8, <2>11, <2>16 DEF Owing
  <2>18. Owing(P2, F2, R)'
    <3>1. P2 \in SUBSET (Browsers \X Spaces)
      BY <2>9, <2>11
    <3>2. \/ space'[From] # "live" \/ R = Browsers
          \/ \A c \in Browsers : page'[c].hold
          \/ \A c \in Browsers : ~page'[c].hold
      BY <1>2, <1>3, <2>8 DEF Owing
    <3> QED BY <2>9, <2>12, <2>15, <2>17, <3>1, <3>2 DEF Owing
  <2>19. faults' \in Nat
    BY <1>1, <2>1
  <2> QED BY <1>1, <1>2, <2>14, <2>18, <2>19 DEF WInv
<1> QED BY <1>4, <1>5

LEMMA StartsPaid == ASSUME Finite, Init PROVE WInv
<1> DEFINE all == Browsers \X Spaces
<1>1. /\ space = [s \in Spaces |-> "live"] /\ clock = 0 /\ edits = 0 /\ faults = 0
      /\ \A b \in Browsers : page[b].hold = Moves
  BY DEF Init
<1>2. /\ Cardinality(all) = Cardinality(Browsers) * Cardinality(Spaces)
      /\ Cardinality({}) = 0 /\ Cardinality(Browsers) \in Nat /\ Cardinality(Spaces) \in Nat
  BY FS_Product, FS_EmptySet, FS_CardinalityType DEF Finite
<1>3. \A b \in Browsers, s \in Spaces : <<b, s>> \in all
  OBVIOUS
<1>4. Owing(all, {}, {})
  BY <1>1, <1>3, MembersAssumption DEF Owing
<1> HIDE DEF all
<1>5. Allowed(0, 0) = Cardinality(Browsers) * Cardinality(Spaces)
  BY <1>2 DEF Allowed
<1>6. Cardinality(all) \in Nat
  BY <1>2
<1>7. Affords(clock, all, {}, {}, edits, faults)
  BY <1>1, <1>2, <1>5, <1>6 DEF Affords
<1> QED BY <1>1, <1>4, <1>7, MembersAssumption DEF WInv

LEMMA NextPays == ASSUME Finite, IInv, WInv, [Next]_vars PROVE WInv'
<1>1. CASE UNCHANGED vars
  <2>1. \A b \in Browsers, s \in Spaces : (Quiet(b, s) => Quiet(b, s)') /\ (Blank(b, s)' => Blank(b, s))
    BY <1>1 DEF vars, Quiet, GoneFor, Gone, Level, Blank
  <2> QED BY <1>1, <2>1, NothingWritten DEF vars
<1>2. ASSUME NEW b \in Browsers, System(b) PROVE WInv'
  <2>1. ASSUME NEW s \in Spaces, Post(b, s) PROVE WInv'
    BY <2>1, PostPays
  <2>2. CASE Reconcile(b, FALSE, {})
    <3>1. \E fails \in BOOLEAN, got \in {{}} : Reconcile(b, fails, got)
      BY <2>2, Zenon
    <3> QED BY <3>1, ReconcilePays
  <2> QED BY <1>2, <2>1, <2>2, LoadPays, DockReadyPays, PullPays, LaneMovePays DEF System
<1>3. ASSUME NEW b \in Browsers, NEW got \in SUBSET Members, Reconcile(b, TRUE, got) PROVE WInv'
  <2>1. \E fails \in BOOLEAN : Reconcile(b, fails, got)
    BY <1>3, Zenon
  <2> QED BY <2>1, ReconcilePays
<1>4. ASSUME NEW b \in Browsers, NEW s \in Spaces,
             DragTab(b, s) \/ \E m \in Members : OpenTab(b, s, m) \/ CloseTab(b, s, m)
      PROVE  WInv'
  <2>1. \E q : SetDock(b, s, q)
    BY <1>4 DEF DragTab, OpenTab, CloseTab
  <2> QED BY <2>1, SetDockPays
<1>5. ASSUME NEW b \in Browsers, NEW shown \in Blanks, Leave(b, shown) PROVE WInv'
  BY <1>5, LeavePays
<1>6. ASSUME NEW s \in Spaces, CloseSpace(s) \/ ReopenSpace(s) PROVE WInv'
  BY <1>6, SpaceActsPay
<1> QED BY <1>1, <1>2, <1>3, <1>4, <1>5, <1>6 DEF Next

\* However many browsers keep the same tabs in different orders, and however their
\* rows cross, reconciliation does not go on for ever: what the browsers write is
\* bounded by what users do, by the layouts storage refused, and by one backfill of
\* each space in each browser.  (reconcileSpaceMembers, runLaneMoves)
THEOREM WritesAreBounded ==
  IsFiniteSet(Browsers) /\ IsFiniteSet(Spaces) /\ Spec => []NoWriteLoop
<1> SUFFICES ASSUME Finite PROVE Spec => []NoWriteLoop
  BY DEF Finite
<1>1. Init => WInv
  BY StartsPaid
<1>2. IInv /\ WInv /\ [Next]_vars => WInv'
  BY NextPays
<1>3. IInv /\ WInv => NoWriteLoop
  <2> SUFFICES ASSUME IInv, WInv PROVE NoWriteLoop
    OBVIOUS
  <2>1. PICK P, F, R : Owing(P, F, R) /\ Affords(clock, P, F, R, edits, faults)
    BY DEF WInv
  <2>2. Cardinality(P) \in Nat /\ Cardinality(F) \in Nat /\ Cardinality(R) \in Nat
    BY <2>1, Sized DEF Owing
  <2>3. Allowed(edits, faults) \in Nat /\ clock \in Nat
    BY AllowedMore DEF IInv, TypesOK, WInv
  <2>4. clock <= Allowed(edits, faults)
    BY <2>1, <2>2, <2>3 DEF Affords
  <2> QED BY <2>4 DEF NoWriteLoop, Allowed
<1> QED BY <1>1, <1>2, <1>3, MembersInvariant, PTL DEF Spec
=============================================================================
