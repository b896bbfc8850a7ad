--------------------------- MODULE SeshIndexProofs ---------------------------
(***************************************************************************)
(* The rows of the message index are consistent: proofs about SeshIndex for *)
(* any number of files, any contents and any order of appends and faults.   *)
(*                                                                         *)
(* The table is rewritten as a whole by every event.  What RowsSound says of *)
(* the variable is therefore said here of any table R (Sound), and each     *)
(* statement of the transaction -- insert, relabel, number, dedupe -- has    *)
(* its lemma on tables.                                                      *)
(***************************************************************************)
EXTENDS SeshIndex, FiniteSetTheorems, WellFoundedInduction, TLAPS

-----------------------------------------------------------------------------
(* Numbers and sets *)

LEMMA IsSequence ==
  ASSUME NEW n \in Nat, NEW S, NEW f \in [1..n -> S]
  PROVE  f \in Seq(S) /\ Len(f) = n /\ DOMAIN f = 1..n
OBVIOUS

\* A nonempty set has an element of least rank.
LEMMA HasLeast ==
  ASSUME NEW T, T # {}, NEW f, \A x \in T : f[x] \in Nat
  PROVE  \E x \in T : \A y \in T : f[x] <= f[y]
<1> DEFINE P == {f[x] : x \in T}
<1>1. P \subseteq Nat /\ P # {}
  OBVIOUS
<1>2. PICK m \in P : \A y \in P : ~ (<<y, m>> \in OpToRel(<, Nat))
  BY <1>1, WFMin, NatLessThanWellFounded
<1>3. \A y \in P : m <= y
  <2>1. \A y \in P : ~ (y < m)
    BY <1>1, <1>2 DEF OpToRel
  <2> HIDE DEF P
  <2> QED BY <1>1, <2>1
<1>4. PICK x \in T : m = f[x]
  OBVIOUS
<1> QED BY <1>3, <1>4

LEMMA MinOf ==
  ASSUME NEW S, S # {}, S \subseteq Nat
  PROVE  Min(S) \in S /\ \A y \in S : Min(S) <= y
<1> DEFINE f == [x \in S |-> x]
<1>1. \A x \in S : f[x] = x
  OBVIOUS
<1>2. \A x \in S : f[x] \in Nat
  BY <1>1
<1> HIDE DEF f
<1>3. \E x \in S : \A y \in S : f[x] <= f[y]
  BY <1>2, HasLeast
<1>4. \E x \in S : \A y \in S : x <= y
  BY <1>1, <1>3
<1> QED BY <1>4 DEF Min

LEMMA MinOne == ASSUME NEW x \in Nat PROVE Min({x}) = x
BY MinOf

LEMMA MaxOf ==
  ASSUME NEW a \in Nat, NEW b \in Nat
  PROVE  LET m == Max({a, b}) IN m \in {a, b} /\ a <= m /\ b <= m
<1>1. \E x \in {a, b} : \A y \in {a, b} : x >= y
  OBVIOUS
<1>2. Max({a, b}) \in {a, b} /\ \A y \in {a, b} : Max({a, b}) >= y
  BY <1>1 DEF Max
<1> QED BY <1>2

\* Complete lines.
LEMMA LinesInMonotone ==
  ASSUME NEW a \in Nat, NEW b \in Nat, a <= b
  PROVE  LinesIn(a) \in Nat /\ LinesIn(a) <= LinesIn(b)
<1>1. LineLen \in Nat /\ LineLen > 0
  BY LineLenAssumption
<1> QED BY <1>1 DEF LinesIn

LEMMA LinesInWhole ==
  ASSUME NEW a \in Nat, NEW k \in Nat, a <= LineLen * k
  PROVE  LinesIn(a) <= k
<1>1. LineLen \in Nat /\ LineLen > 0
  BY LineLenAssumption
<1> QED BY <1>1 DEF LinesIn

-----------------------------------------------------------------------------
(* Tables.  c: the complete offsets the table goes with. *)

LineType == [key : Nat, ts : Nat, bad : BOOLEAN]

\* The files are typed and numbered.
TextOK == text \in Seq([id : Nat, lines : Seq(LineType)])

LineAt(f, n) == text[f].lines[n]

Typed(R) ==
  /\ IsFiniteSet(R) /\ R \subseteq RowType
  /\ \A r \in R : r.file \in Files /\ r.line \in 1..Len(text[r.file].lines)

\* One placement for a file.
OnePlace(R) ==
  \A r, s \in R : r.file = s.file /\ ~LineOf(r).bad /\ ~LineOf(s).bad => r.log = s.log /\ r.ord = s.ord

\* One row for a span that parses, and none past the complete offset.
OneSpan(R, c) == \A r \in R : ~LineOf(r).bad => r.copy = 1 /\ r.line <= c[r.file]

\* One row for a message of a session; but for a session being unified, whose
\* rows with these keys are still to be deduplicated.
OneButFor(R, log, keys) ==
  \A r, s \in R : Keyed(r) /\ Keyed(s) /\ r.log = s.log /\ KeyOf(r) = KeyOf(s)
                    => r = s \/ (r.log = log /\ KeyOf(r) \in keys)

OneRow(R) == \A r, s \in R : Keyed(r) /\ Keyed(s) /\ r.log = s.log /\ KeyOf(r) = KeyOf(s) => r = s

\* Represented, for any table.
Shown(R, f, n) ==
  IF LineAt(f, n).bad \/ LineAt(f, n).key = NoKey
  THEN \E r \in R : r.file = f /\ r.line = n
  ELSE \E r \in R : /\ Keyed(r) /\ KeyOf(r) = LineAt(f, n).key
                    /\ \A p \in R : p.file = f /\ ~LineOf(p).bad => r.log = p.log

AllShown(R, c) == \A f \in Files : \A n \in 1..c[f] : Shown(R, f, n)

\* What every statement of the transaction keeps, and what the last one restores.
Placing(R, c) == Typed(R) /\ OnePlace(R) /\ OneSpan(R, c) /\ AllShown(R, c)
Sound(R, c) == Placing(R, c) /\ OneRow(R)

LEMMA FilesAre ==
  ASSUME TextOK
  PROVE  /\ IsFiniteSet(Files) /\ Files \subseteq Nat
         /\ \A f \in Files : /\ text[f].id \in Nat /\ Len(text[f].lines) \in Nat
                             /\ text[f].lines \in Seq(LineType)
                             /\ \A n \in 1..Len(text[f].lines) : LineAt(f, n) \in LineType
<1> DEFINE F == [id : Nat, lines : Seq(LineType)]
<1>1. text \in Seq(F)
  BY DEF TextOK
<1> HIDE DEF F
<1>2. Len(text) \in Nat /\ DOMAIN text = 1..Len(text) /\ \A f \in DOMAIN text : text[f] \in F
  BY <1>1
<1>3. IsFiniteSet(1..Len(text))
  BY <1>2, FS_Interval
<1>4. ASSUME NEW f \in Files
      PROVE  /\ text[f].id \in Nat /\ Len(text[f].lines) \in Nat /\ text[f].lines \in Seq(LineType)
             /\ \A n \in 1..Len(text[f].lines) : LineAt(f, n) \in LineType
  <2>1. text[f].id \in Nat /\ text[f].lines \in Seq(LineType)
    BY <1>2 DEF F, Files
  <2> QED BY <2>1 DEF LineAt
<1> QED BY <1>2, <1>3, <1>4 DEF Files

\* The line of a row.
LEMMA RowsLine ==
  ASSUME TextOK, NEW R, Typed(R), NEW r \in R
  PROVE  /\ r \in RowType /\ r.file \in Files /\ r.line \in 1..Len(text[r.file].lines)
         /\ r.line \in Nat /\ r.file \in Nat /\ r.copy \in Nat /\ r.log \in Nat /\ r.ord \in Nat
         /\ LineOf(r) = LineAt(r.file, r.line) /\ LineOf(r) \in LineType
         /\ KeyOf(r) = LineOf(r).key /\ KeyOf(r) \in Nat /\ LineOf(r).ts \in Nat /\ LineOf(r).bad \in BOOLEAN
         /\ Keyed(r) <=> ~LineOf(r).bad /\ KeyOf(r) # NoKey
<1>1. r \in RowType /\ r.file \in Files /\ r.line \in 1..Len(text[r.file].lines)
  BY DEF Typed
<1>2. LineOf(r) = LineAt(r.file, r.line)
  BY DEF LineOf, LineAt
<1>3. LineOf(r) \in LineType
  BY <1>1, <1>2, FilesAre
<1>4. KeyOf(r) = LineOf(r).key
  BY DEF KeyOf
<1> QED BY <1>1, <1>2, <1>3, <1>4 DEF RowType, LineType, Keyed

\* The session of a file is that of any row that places it.
LEMMA LogicalIs ==
  ASSUME TextOK, NEW R, Typed(R), OnePlace(R), NEW p \in R, ~LineOf(p).bad
  PROVE  /\ p.file \in Placed(R) /\ p \in Plain(R, p.file)
         /\ LogicalOf(R, p.file) = p.log /\ OrdinalOf(R, p.file) = p.ord
<1>1. p \in Plain(R, p.file) /\ p.file \in Placed(R)
  BY RowsLine DEF Plain, Placed
<1>2. {r.log : r \in Plain(R, p.file)} = {p.log} /\ {r.ord : r \in Plain(R, p.file)} = {p.ord}
  <2>1. ASSUME NEW r \in Plain(R, p.file) PROVE r.log = p.log /\ r.ord = p.ord
    BY DEF Plain, OnePlace
  <2> QED BY <1>1, <2>1
<1>3. p.log \in Nat /\ p.ord \in Nat
  BY RowsLine
<1> QED BY <1>1, <1>2, <1>3, MinOne DEF LogicalOf, OrdinalOf

LEMMA PlacedHas ==
  ASSUME NEW R, NEW f \in Placed(R)
  PROVE  f \in Files /\ \E p \in R : p.file = f /\ ~LineOf(p).bad
BY DEF Placed, Plain

-----------------------------------------------------------------------------
(* Relabelling and numbering *)

\* img rewrites the rows of a table: a row keeps its span, the rows that place a
\* file go together, and so do the rows of a session.
Rewrites(img, R) ==
  /\ img \in [R -> RowType]
  /\ \A r \in R : img[r].file = r.file /\ img[r].line = r.line /\ img[r].copy = r.copy
  /\ \A r, s \in R : ~LineOf(r).bad /\ ~LineOf(s).bad =>
        /\ r.file = s.file => img[r].log = img[s].log /\ img[r].ord = img[s].ord
        /\ r.log = s.log => img[r].log = img[s].log

LEMMA SameLine ==
  ASSUME NEW R, NEW img, Rewrites(img, R), NEW r \in R
  PROVE  /\ LineOf(img[r]) = LineOf(r) /\ KeyOf(img[r]) = KeyOf(r)
         /\ Keyed(img[r]) <=> Keyed(r)
<1>1. img[r].file = r.file /\ img[r].line = r.line
  BY DEF Rewrites
<1>2. LineOf(img[r]) = LineOf(r)
  BY <1>1 DEF LineOf
<1> QED BY <1>2 DEF KeyOf, Keyed

LEMMA RewrittenPlacing ==
  ASSUME TextOK, NEW R, NEW c, Placing(R, c), NEW img, Rewrites(img, R),
         NEW Q, Q = {img[r] : r \in R}
  PROVE  Placing(Q, c)
<1>1. Typed(R) /\ OnePlace(R) /\ OneSpan(R, c) /\ AllShown(R, c)
  BY DEF Placing
<1>2. /\ img \in [R -> RowType]
      /\ \A r \in R : img[r].file = r.file /\ img[r].line = r.line /\ img[r].copy = r.copy
      /\ \A r, s \in R : ~LineOf(r).bad /\ ~LineOf(s).bad =>
            /\ r.file = s.file => img[r].log = img[s].log /\ img[r].ord = img[s].ord
            /\ r.log = s.log => img[r].log = img[s].log
  BY DEF Rewrites
<1>3. \A r \in R : LineOf(img[r]) = LineOf(r) /\ KeyOf(img[r]) = KeyOf(r) /\ (Keyed(img[r]) <=> Keyed(r))
  BY SameLine
<1>4. Typed(Q)
  <2>1. IsFiniteSet(Q)
    <3>1. img \in Surjection(R, Q)
      BY <1>2 DEF Surjection
    <3>2. IsFiniteSet(R)
      BY <1>1 DEF Typed
    <3> QED BY <3>1, <3>2, FS_Surjection
  <2>2. ASSUME NEW q \in Q PROVE q \in RowType /\ q.file \in Files /\ q.line \in 1..Len(text[q.file].lines)
    <3>1. PICK r \in R : q = img[r]
      OBVIOUS
    <3>2. r.file \in Files /\ r.line \in 1..Len(text[r.file].lines)
      BY <1>1 DEF Typed
    <3> QED BY <1>2, <3>1, <3>2
  <2> QED BY <2>1, <2>2 DEF Typed
<1>5. OnePlace(Q)
  <2>1. ASSUME NEW r \in R, NEW s \in R, img[r].file = img[s].file, ~LineOf(img[r]).bad, ~LineOf(img[s]).bad
        PROVE  img[r].log = img[s].log /\ img[r].ord = img[s].ord
    BY <1>2, <1>3, <2>1
  <2> QED BY <2>1 DEF OnePlace
<1>6. OneSpan(Q, c)
  <2>1. ASSUME NEW r \in R, ~LineOf(img[r]).bad
        PROVE  img[r].copy = 1 /\ img[r].line <= c[img[r].file]
    BY <1>1, <1>2, <1>3, <2>1 DEF OneSpan
  <2> QED BY <2>1 DEF OneSpan
<1>7. AllShown(Q, c)
  <2>1. ASSUME NEW f \in Files, NEW n \in 1..c[f] PROVE Shown(Q, f, n)
    <3>1. Shown(R, f, n)
      BY <1>1 DEF AllShown
    <3>2. CASE LineAt(f, n).bad \/ LineAt(f, n).key = NoKey
      <4>1. PICK r \in R : r.file = f /\ r.line = n
        BY <3>1, <3>2 DEF Shown
      <4>2. img[r] \in Q /\ img[r].file = f /\ img[r].line = n
        BY <1>2, <4>1
      <4> QED BY <3>2, <4>2 DEF Shown
    <3>3. CASE ~(LineAt(f, n).bad \/ LineAt(f, n).key = NoKey)
      <4>1. PICK r \in R : /\ Keyed(r) /\ KeyOf(r) = LineAt(f, n).key
                           /\ \A p \in R : p.file = f /\ ~LineOf(p).bad => r.log = p.log
        BY <3>1, <3>3 DEF Shown
      <4>2. img[r] \in Q /\ Keyed(img[r]) /\ KeyOf(img[r]) = LineAt(f, n).key
        BY <1>3, <4>1
      <4>3. ASSUME NEW q \in Q, q.file = f, ~LineOf(q).bad PROVE img[r].log = q.log
        <5>1. PICK p \in R : q = img[p]
          OBVIOUS
        <5>2. p.file = f /\ ~LineOf(p).bad
          BY <1>2, <1>3, <4>3, <5>1
        <5>3. ~LineOf(r).bad
          BY <4>1 DEF Keyed
        <5> QED BY <1>2, <4>1, <5>1, <5>2, <5>3
      <4> QED BY <3>3, <4>2, <4>3 DEF Shown
    <3> QED BY <3>2, <3>3
  <2> QED BY <2>1 DEF AllShown
<1> QED BY <1>4, <1>5, <1>6, <1>7 DEF Placing

\* Number is such a rewriting, and changes no session.
LEMMA NumberPlacing ==
  ASSUME TextOK, NEW R, NEW c, Placing(R, c), NEW group, group \subseteq Files,
         NEW Q, Q = Number(R, group)
  PROVE  /\ Placing(Q, c)
         /\ \A log, keys : OneButFor(R, log, keys) => OneButFor(Q, log, keys)
         /\ OneRow(R) => OneRow(Q)
         /\ \A q \in Q : \E r \in R : q.file = r.file /\ q.log = r.log /\ KeyOf(q) = KeyOf(r)
                                      /\ (LineOf(q).bad <=> LineOf(r).bad)
<1> DEFINE ord(r) == Cardinality({g \in group : g < r.file})
           img == [r \in R |-> IF r.file \in group THEN [r EXCEPT !.ord = ord(r)] ELSE r]
<1>1. Typed(R) /\ OnePlace(R)
  BY DEF Placing
<1>2. Q = {img[r] : r \in R}
  BY DEF Number
<1>3. ASSUME NEW r \in R PROVE ord(r) \in Nat
  <2>1. IsFiniteSet(Files)
    BY FilesAre
  <2>2. {g \in group : g < r.file} \in SUBSET Files
    OBVIOUS
  <2> QED BY <2>1, <2>2, FS_Subset, FS_CardinalityType
<1>4. ASSUME NEW r \in R
      PROVE  /\ img[r] \in RowType /\ img[r].file = r.file /\ img[r].line = r.line
             /\ img[r].copy = r.copy /\ img[r].log = r.log
             /\ img[r].ord = IF r.file \in group THEN ord(r) ELSE r.ord
  <2>1. r \in RowType /\ ord(r) \in Nat
    BY <1>1, <1>3 DEF Typed
  <2>2. img[r] = IF r.file \in group THEN [r EXCEPT !.ord = ord(r)] ELSE r
    OBVIOUS
  <2> HIDE DEF ord, img
  <2> QED BY <2>1, <2>2 DEF RowType
<1>5. \A r, s \in R : r.file = s.file => ord(r) = ord(s)
  OBVIOUS
<1>6. DOMAIN img = R /\ img = [r \in R |-> img[r]]
  OBVIOUS
<1> HIDE DEF ord, img
<1>7. Rewrites(img, R)
  <2>1. img \in [R -> RowType]
    BY <1>4, <1>6
  <2>2. ASSUME NEW r \in R, NEW s \in R, ~LineOf(r).bad, ~LineOf(s).bad
        PROVE  /\ r.file = s.file => img[r].log = img[s].log /\ img[r].ord = img[s].ord
               /\ r.log = s.log => img[r].log = img[s].log
    BY <1>1, <1>4, <1>5, <2>2 DEF OnePlace
  <2> QED BY <1>4, <2>1, <2>2 DEF Rewrites
<1>8. Placing(Q, c)
  BY <1>2, <1>7, RewrittenPlacing
<1>9. \A r \in R : LineOf(img[r]) = LineOf(r) /\ KeyOf(img[r]) = KeyOf(r) /\ (Keyed(img[r]) <=> Keyed(r))
  BY <1>7, SameLine
<1>10. ASSUME NEW log, NEW keys, OneButFor(R, log, keys) PROVE OneButFor(Q, log, keys)
  <2>1. ASSUME NEW r \in R, NEW s \in R, Keyed(img[r]), Keyed(img[s]), img[r].log = img[s].log, KeyOf(img[r]) = KeyOf(img[s])
        PROVE  img[r] = img[s] \/ (img[r].log = log /\ KeyOf(img[r]) \in keys)
    BY <1>4, <1>9, <1>10, <2>1 DEF OneButFor
  <2> QED BY <1>2, <2>1 DEF OneButFor
<1>11. ASSUME OneRow(R) PROVE OneRow(Q)
  <2>1. ASSUME NEW r \in R, NEW s \in R, Keyed(img[r]), Keyed(img[s]), img[r].log = img[s].log, KeyOf(img[r]) = KeyOf(img[s])
        PROVE  img[r] = img[s]
    BY <1>4, <1>9, <1>11, <2>1 DEF OneRow
  <2> QED BY <1>2, <2>1 DEF OneRow
<1>12. ASSUME NEW q \in Q
       PROVE  \E r \in R : q.file = r.file /\ q.log = r.log /\ KeyOf(q) = KeyOf(r) /\ (LineOf(q).bad <=> LineOf(r).bad)
  BY <1>2, <1>4, <1>9
<1> QED BY <1>8, <1>10, <1>11, <1>12

-----------------------------------------------------------------------------
(* Unification: one label for a group of files *)

\* group takes whole sessions.
Closed(R, group) ==
  \A r, s \in R : ~LineOf(r).bad /\ ~LineOf(s).bad /\ r.log = s.log /\ r.file \in group => s.file \in group

\* One row for a message of a session outside the group.
OneBeside(R, group) ==
  \A r, s \in R : Keyed(r) /\ Keyed(s) /\ r.log = s.log /\ KeyOf(r) = KeyOf(s)
                    /\ r.file \notin group /\ s.file \notin group => r = s

LEMMA RelabelPlacing ==
  ASSUME TextOK, NEW R, NEW c, Placing(R, c), NEW group, Closed(R, group), OneBeside(R, group),
         NEW p \in R, ~LineOf(p).bad, p.file \in group, NEW Q, Q = Relabel(R, group, p.log)
  PROVE  Placing(Q, c) /\ OneButFor(Q, p.log, AllKeys(R))
<1> DEFINE img == [r \in R |-> IF r.file \in group THEN [r EXCEPT !.log = p.log] ELSE r]
<1>1. Typed(R) /\ OnePlace(R) /\ p.log \in Nat
  BY RowsLine DEF Placing
<1>2. Q = {img[r] : r \in R}
  BY DEF Relabel
<1>3. ASSUME NEW r \in R
      PROVE  /\ img[r] \in RowType /\ img[r].file = r.file /\ img[r].line = r.line
             /\ img[r].copy = r.copy /\ img[r].ord = r.ord
             /\ img[r].log = IF r.file \in group THEN p.log ELSE r.log
  <2>1. r \in RowType
    BY <1>1 DEF Typed
  <2>2. img[r] = IF r.file \in group THEN [r EXCEPT !.log = p.log] ELSE r
    OBVIOUS
  <2> HIDE DEF img
  <2> QED BY <1>1, <2>1, <2>2 DEF RowType
<1>4. DOMAIN img = R /\ img = [r \in R |-> img[r]]
  OBVIOUS
<1> HIDE DEF img
<1>5. Rewrites(img, R)
  <2>1. img \in [R -> RowType]
    BY <1>3, <1>4
  <2>2. ASSUME NEW r \in R, NEW s \in R, ~LineOf(r).bad, ~LineOf(s).bad
        PROVE  /\ r.file = s.file => img[r].log = img[s].log /\ img[r].ord = img[s].ord
               /\ r.log = s.log => img[r].log = img[s].log
    <3>1. r.file = s.file => img[r].log = img[s].log /\ img[r].ord = img[s].ord
      BY <1>1, <1>3, <2>2 DEF OnePlace
    <3>2. r.log = s.log => (r.file \in group <=> s.file \in group)
      BY <2>2 DEF Closed
    <3> QED BY <1>3, <3>1, <3>2
  <2> QED BY <1>3, <2>1, <2>2 DEF Rewrites
<1>6. Placing(Q, c)
  BY <1>2, <1>5, RewrittenPlacing
<1>7. \A r \in R : LineOf(img[r]) = LineOf(r) /\ KeyOf(img[r]) = KeyOf(r) /\ (Keyed(img[r]) <=> Keyed(r))
  BY <1>5, SameLine
<1>8. ASSUME NEW r \in R, NEW s \in R, Keyed(img[r]), Keyed(img[s]), img[r].log = img[s].log,
             KeyOf(img[r]) = KeyOf(img[s])
      PROVE  img[r] = img[s] \/ (img[r].log = p.log /\ KeyOf(img[r]) \in AllKeys(R))
  <2>1. Keyed(r) /\ Keyed(s) /\ KeyOf(r) = KeyOf(s) /\ KeyOf(img[r]) = KeyOf(r) /\ KeyOf(r) \in AllKeys(R)
    BY <1>7, <1>8 DEF AllKeys
  <2>2. ~LineOf(r).bad /\ ~LineOf(s).bad
    BY <2>1 DEF Keyed
  <2>3. CASE r.file \in group \/ s.file \in group
    BY <1>3, <1>8, <2>1, <2>3
  <2>4. CASE r.file \notin group /\ s.file \notin group
    BY <1>3, <1>8, <2>1, <2>4 DEF OneBeside
  <2> QED BY <2>3, <2>4
<1>9. OneButFor(Q, p.log, AllKeys(R))
  BY <1>2, <1>8 DEF OneButFor
<1> QED BY <1>6, <1>9

\* The label of the first file of the group, on every row of the group.
LEMMA LinkedPlacing ==
  ASSUME TextOK, NEW R, NEW c, Placing(R, c), NEW f, NEW group, f \in group, group \subseteq Placed(R),
         Closed(R, group), OneBeside(R, group),
         NEW log, log = LogicalOf(R, Min(group)),
         NEW Q, Q = IF Cardinality(group) > 1 THEN Relabel(R, group, log) ELSE R
  PROVE  Placing(Q, c) /\ OneButFor(Q, log, AllKeys(R))
<1>1. Typed(R) /\ OnePlace(R)
  BY DEF Placing
<1>2. IsFiniteSet(group) /\ group \subseteq Nat
  <2>1. group \in SUBSET Files
    BY PlacedHas
  <2> QED BY <2>1, FilesAre, FS_Subset
<1>3. Min(group) \in group
  BY <1>2, MinOf
<1>4. PICK p \in R : p.file = Min(group) /\ ~LineOf(p).bad
  BY <1>3, PlacedHas
<1>5. log = p.log
  BY <1>1, <1>4, LogicalIs
<1>6. CASE Cardinality(group) > 1
  <2>1. Q = Relabel(R, group, p.log)
    BY <1>5, <1>6
  <2> QED BY <1>3, <1>4, <1>5, <2>1, RelabelPlacing
<1>7. CASE ~(Cardinality(group) > 1)
  <2>1. group = {p.file} /\ Q = R
    <3>1. Cardinality(group) \in Nat /\ Cardinality(group) # 0
      BY <1>2, FS_CardinalityType, FS_EmptySet
    <3>2. Cardinality(group) = 1
      BY <1>7, <3>1
    <3>3. \E x : group = {x}
      BY <1>2, <3>2, FS_Singleton
    <3> QED BY <1>3, <1>4, <1>7, <3>3
  <2>2. ASSUME NEW r \in R, NEW s \in R, Keyed(r), Keyed(s), r.log = s.log, KeyOf(r) = KeyOf(s)
        PROVE  r = s \/ (r.log = log /\ KeyOf(r) \in AllKeys(R))
    <3>1. ~LineOf(r).bad /\ ~LineOf(s).bad /\ KeyOf(r) \in AllKeys(R)
      BY <2>2 DEF Keyed, AllKeys
    <3>2. CASE r.file \in group \/ s.file \in group
      BY <1>1, <1>4, <1>5, <2>1, <2>2, <3>1, <3>2 DEF OnePlace
    <3>3. CASE r.file \notin group /\ s.file \notin group
      BY <2>2, <3>3 DEF OneBeside
    <3> QED BY <3>2, <3>3
  <2> QED BY <2>1, <2>2 DEF OneButFor
<1> QED BY <1>6, <1>7

\* The component of a file is closed: it is the least set of placed files with
\* the file in it that is.
LEMMA ConnectedIs ==
  ASSUME TextOK, NEW R, Typed(R), OnePlace(R), NEW f \in Placed(R)
  PROVE  f \in Connected(R, f) /\ Connected(R, f) \subseteq Placed(R) /\ Closed(R, Connected(R, f))
<1> DEFINE closed == {S \in SUBSET Placed(R) : f \in S /\ \A g \in S : Linked(R, g) \subseteq S}
<1>1. Connected(R, f) = {g \in Placed(R) : \A S \in closed : g \in S}
  BY DEF Connected
<1>2. ASSUME NEW r \in R, NEW s \in R, ~LineOf(r).bad, ~LineOf(s).bad, r.log = s.log, r.file \in Connected(R, f)
      PROVE  s.file \in Connected(R, f)
  <2>1. LogicalOf(R, r.file) = r.log /\ LogicalOf(R, s.file) = r.log /\ s.file \in Placed(R)
    BY <1>2, LogicalIs
  <2>2. s.file \in Linked(R, r.file)
    BY <2>1 DEF Linked, SameLogical
  <2>3. ASSUME NEW S \in closed PROVE s.file \in S
    <3>1. r.file \in S
      BY <1>1, <1>2
    <3> QED BY <2>2, <3>1
  <2> QED BY <1>1, <2>1, <2>3
<1>3. f \in Connected(R, f)
  BY <1>1
<1>4. Connected(R, f) \subseteq Placed(R)
  BY <1>1
<1>5. Closed(R, Connected(R, f))
  BY <1>2 DEF Closed
<1> QED BY <1>3, <1>4, <1>5

-----------------------------------------------------------------------------
(* Dedupe *)

Ts(r) == LineOf(r).ts

\* r goes before s: the order of a row's timestamp, ordinal, line, file and copy.
Before(r, s) ==
  \/ Ts(r) < Ts(s)
  \/ /\ Ts(r) = Ts(s)
     /\ \/ r.ord < s.ord
        \/ /\ r.ord = s.ord
           /\ \/ r.line < s.line
              \/ /\ r.line = s.line
                 /\ \/ r.file < s.file
                    \/ r.file = s.file /\ r.copy < s.copy

LEMMA PreferredIs ==
  ASSUME NEW r, NEW s
  PROVE  Preferred(r, s) <=> Before(r, s)
<1> DEFINE a == Rank(r)
           b == Rank(s)
<1>1. /\ a[1] = Ts(r) /\ a[2] = r.ord /\ a[3] = r.line /\ a[4] = r.file /\ a[5] = r.copy
      /\ b[1] = Ts(s) /\ b[2] = s.ord /\ b[3] = s.line /\ b[4] = s.file /\ b[5] = s.copy
  BY DEF Rank, Ts
<1>2. Preferred(r, s) <=> \E i \in 1..5 : a[i] < b[i] /\ \A j \in 1..(i - 1) : a[j] = b[j]
  BY DEF Preferred
<1> HIDE DEF a, b
<1>3. /\ 1..(1 - 1) = {} /\ 1..(2 - 1) = {1} /\ 1..(3 - 1) = {1, 2}
      /\ 1..(4 - 1) = {1, 2, 3} /\ 1..(5 - 1) = {1, 2, 3, 4} /\ 1..5 = {1, 2, 3, 4, 5}
  OBVIOUS
<1>4. Preferred(r, s) <=>
        \/ a[1] < b[1] /\ \A j \in {} : a[j] = b[j]
        \/ a[2] < b[2] /\ \A j \in {1} : a[j] = b[j]
        \/ a[3] < b[3] /\ \A j \in {1, 2} : a[j] = b[j]
        \/ a[4] < b[4] /\ \A j \in {1, 2, 3} : a[j] = b[j]
        \/ a[5] < b[5] /\ \A j \in {1, 2, 3, 4} : a[j] = b[j]
  BY <1>2, <1>3
<1>5. Preferred(r, s) <=>
        \/ a[1] < b[1]
        \/ a[2] < b[2] /\ a[1] = b[1]
        \/ a[3] < b[3] /\ a[1] = b[1] /\ a[2] = b[2]
        \/ a[4] < b[4] /\ a[1] = b[1] /\ a[2] = b[2] /\ a[3] = b[3]
        \/ a[5] < b[5] /\ a[1] = b[1] /\ a[2] = b[2] /\ a[3] = b[3] /\ a[4] = b[4]
  BY <1>4
<1> QED BY <1>1, <1>5 DEF Before

\* Two rows that parse and of which neither goes first are the same row.
LEMMA Settles ==
  ASSUME TextOK, NEW R, Typed(R), OnePlace(R), NEW r \in R, NEW s \in R,
         ~LineOf(r).bad, ~LineOf(s).bad, ~Before(r, s), ~Before(s, r)
  PROVE  r = s
<1>1. r \in RowType /\ s \in RowType /\ Ts(r) \in Nat /\ Ts(s) \in Nat
  BY RowsLine DEF Ts
<1>2. /\ r.file \in Nat /\ r.line \in Nat /\ r.copy \in Nat /\ r.ord \in Nat
      /\ s.file \in Nat /\ s.line \in Nat /\ s.copy \in Nat /\ s.ord \in Nat
  BY RowsLine
<1>3. r.file = s.file /\ r.line = s.line /\ r.copy = s.copy
  BY <1>1, <1>2 DEF Before
<1>4. r.log = s.log /\ r.ord = s.ord
  BY <1>3 DEF OnePlace
<1> QED BY <1>1, <1>3, <1>4 DEF RowType

\* Some row goes first.
LEMMA First ==
  ASSUME TextOK, NEW R, Typed(R), NEW T, T \subseteq R, T # {}
  PROVE  \E s \in T : \A x \in T : ~Before(x, s)
<1>1. \A r \in T : /\ Ts(r) \in Nat /\ r.ord \in Nat /\ r.line \in Nat /\ r.file \in Nat /\ r.copy \in Nat
  BY RowsLine DEF Ts
<1>2. PICK a \in T : \A x \in T : Ts(a) <= Ts(x)
  <2> DEFINE fn == [r \in T |-> Ts(r)]
  <2>1. \A r \in T : fn[r] = Ts(r)
    OBVIOUS
  <2> HIDE DEF fn
  <2>2. \A r \in T : fn[r] \in Nat
    BY <1>1, <2>1
  <2> QED BY <2>1, <2>2, HasLeast
<1> DEFINE A == {r \in T : Ts(r) = Ts(a)}
<1>3. PICK b \in A : \A x \in A : b.ord <= x.ord
  <2> DEFINE fn == [r \in A |-> r.ord]
  <2>1. \A r \in A : fn[r] = r.ord
    OBVIOUS
  <2> HIDE DEF fn
  <2>2. A # {} /\ \A r \in A : fn[r] \in Nat
    BY <1>1, <1>2, <2>1
  <2> HIDE DEF A
  <2>3. \E x \in A : \A y \in A : fn[x] <= fn[y]
    BY <2>2, HasLeast
  <2> QED BY <2>1, <2>3
<1> DEFINE B == {r \in A : r.ord = b.ord}
<1>4. PICK d \in B : \A x \in B : d.line <= x.line
  <2> DEFINE fn == [r \in B |-> r.line]
  <2>1. \A r \in B : fn[r] = r.line
    OBVIOUS
  <2> HIDE DEF fn
  <2>2. B # {} /\ \A r \in B : fn[r] \in Nat
    BY <1>1, <1>3, <2>1
  <2> HIDE DEF B
  <2>3. \E x \in B : \A y \in B : fn[x] <= fn[y]
    BY <2>2, HasLeast
  <2> QED BY <2>1, <2>3
<1> DEFINE D == {r \in B : r.line = d.line}
<1>5. PICK e \in D : \A x \in D : e.file <= x.file
  <2> DEFINE fn == [r \in D |-> r.file]
  <2>1. \A r \in D : fn[r] = r.file
    OBVIOUS
  <2> HIDE DEF fn
  <2>2. D # {} /\ \A r \in D : fn[r] \in Nat
    BY <1>1, <1>4, <2>1
  <2> HIDE DEF D
  <2>3. \E x \in D : \A y \in D : fn[x] <= fn[y]
    BY <2>2, HasLeast
  <2> QED BY <2>1, <2>3
<1> DEFINE E == {r \in D : r.file = e.file}
<1>6. PICK g \in E : \A x \in E : g.copy <= x.copy
  <2> DEFINE fn == [r \in E |-> r.copy]
  <2>1. \A r \in E : fn[r] = r.copy
    OBVIOUS
  <2> HIDE DEF fn
  <2>2. E # {} /\ \A r \in E : fn[r] \in Nat
    BY <1>1, <1>5, <2>1
  <2> HIDE DEF E
  <2>3. \E x \in E : \A y \in E : fn[x] <= fn[y]
    BY <2>2, HasLeast
  <2> QED BY <2>1, <2>3
<1>7. g \in T /\ Ts(g) = Ts(a) /\ g.ord = b.ord /\ g.line = d.line /\ g.file = e.file
  BY <1>6
<1>8. ASSUME NEW x \in T PROVE ~Before(x, g)
  <2>1. Ts(g) <= Ts(x)
    BY <1>2, <1>7
  <2>2. Ts(x) = Ts(g) => g.ord <= x.ord
    BY <1>3, <1>7
  <2>3. Ts(x) = Ts(g) /\ x.ord = g.ord => g.line <= x.line
    BY <1>4, <1>7
  <2>4. Ts(x) = Ts(g) /\ x.ord = g.ord /\ x.line = g.line => g.file <= x.file
    BY <1>5, <1>7
  <2>5. Ts(x) = Ts(g) /\ x.ord = g.ord /\ x.line = g.line /\ x.file = g.file => g.copy <= x.copy
    BY <1>6, <1>7
  <2> HIDE DEF A, B, D, E
  <2>6. /\ Ts(x) \in Nat /\ x.ord \in Nat /\ x.line \in Nat /\ x.file \in Nat /\ x.copy \in Nat
        /\ Ts(g) \in Nat /\ g.ord \in Nat /\ g.line \in Nat /\ g.file \in Nat /\ g.copy \in Nat
    BY <1>1, <1>7
  <2> QED BY <2>1, <2>2, <2>3, <2>4, <2>5, <2>6 DEF Before
<1> QED BY <1>7, <1>8

LEMMA DedupePlacing ==
  ASSUME TextOK, NEW R, NEW c, Placing(R, c), NEW log, NEW keys, OneButFor(R, log, keys),
         NEW Q, Q = Dedupe(R, log, keys)
  PROVE  Sound(Q, c)
<1> DEFINE Of(k) == {r \in R : Keyed(r) /\ r.log = log /\ KeyOf(r) = k}
<1>1. Typed(R) /\ OnePlace(R) /\ OneSpan(R, c) /\ AllShown(R, c)
  BY DEF Placing
<1>2. Q \subseteq R
  BY DEF Dedupe
<1>3. \A r \in R : r \in Q <=> ~(/\ Keyed(r) /\ r.log = log /\ KeyOf(r) \in keys
                                 /\ \E s \in Of(KeyOf(r)) : Before(s, r))
  <2>1. ASSUME NEW r \in R
        PROVE  r \in Q <=> ~(/\ Keyed(r) /\ r.log = log /\ KeyOf(r) \in keys
                             /\ \E s \in Of(KeyOf(r)) : Before(s, r))
    <3>1. \A s \in R : Preferred(s, r) <=> Before(s, r)
      BY PreferredIs
    <3>2. r \in Q <=> ~(Keyed(r) /\ r.log = log /\ KeyOf(r) \in keys
                        /\ \E s \in R : Keyed(s) /\ s.log = log /\ KeyOf(s) = KeyOf(r)
                                        /\ Preferred(s, r))
      BY DEF Dedupe
    <3> QED BY <3>1, <3>2
  <2> QED BY <2>1
<1>4. ASSUME NEW r \in R, Keyed(r), r.log = log
      PROVE  \E s \in Q : Keyed(s) /\ s.log = log /\ KeyOf(s) = KeyOf(r)
  <2>1. Of(KeyOf(r)) \subseteq R /\ Of(KeyOf(r)) # {}
    BY <1>4
  <2>2. PICK s \in Of(KeyOf(r)) : \A x \in Of(KeyOf(r)) : ~Before(x, s)
    <3> HIDE DEF Of
    <3> QED BY <1>1, <2>1, First
  <2>3. s \in R /\ Keyed(s) /\ s.log = log /\ KeyOf(s) = KeyOf(r)
    BY <2>2
  <2> HIDE DEF Of
  <2>4. s \in Q
    BY <1>3, <2>2, <2>3
  <2> QED BY <2>3, <2>4
<1>5. Typed(Q)
  <2>1. IsFiniteSet(Q)
    BY <1>1, <1>2, FS_Subset DEF Typed
  <2> QED BY <1>1, <1>2, <2>1 DEF Typed
<1>6. OnePlace(Q)
  BY <1>1, <1>2 DEF OnePlace
<1>7. OneSpan(Q, c)
  BY <1>1, <1>2 DEF OneSpan
<1>8. ASSUME NEW f \in Files, NEW n \in 1..c[f] PROVE Shown(Q, f, n)
  <2>1. Shown(R, f, n)
    BY <1>1 DEF AllShown
  <2>2. CASE LineAt(f, n).bad \/ LineAt(f, n).key = NoKey
    <3>1. PICK r \in R : r.file = f /\ r.line = n
      BY <2>1, <2>2 DEF Shown
    <3>2. LineOf(r) = LineAt(f, n)
      BY <3>1 DEF LineOf, LineAt
    <3>3. ~Keyed(r)
      BY <2>2, <3>2 DEF Keyed, KeyOf
    <3>4. r \in Q
      BY <1>3, <3>3
    <3> QED BY <2>2, <3>1, <3>4 DEF Shown
  <2>3. CASE ~(LineAt(f, n).bad \/ LineAt(f, n).key = NoKey)
    <3>1. PICK r \in R : /\ Keyed(r) /\ KeyOf(r) = LineAt(f, n).key
                         /\ \A p \in R : p.file = f /\ ~LineOf(p).bad => r.log = p.log
      BY <2>1, <2>3 DEF Shown
    <3>2. PICK s \in Q : Keyed(s) /\ s.log = r.log /\ KeyOf(s) = KeyOf(r)
      <4>1. CASE r \in Q
        BY <3>1, <4>1
      <4>2. CASE r \notin Q
        <5>1. r.log = log
          BY <1>3, <4>2
        <5> QED BY <1>4, <3>1, <5>1
      <4> QED BY <4>1, <4>2
    <3>3. Keyed(s) /\ KeyOf(s) = LineAt(f, n).key /\ \A p \in Q : p.file = f /\ ~LineOf(p).bad => s.log = p.log
      BY <1>2, <3>1, <3>2
    <3> QED BY <2>3, <3>3 DEF Shown
  <2> QED BY <2>2, <2>3
<1>9. AllShown(Q, c)
  BY <1>8 DEF AllShown
<1>10. ASSUME NEW r \in Q, NEW s \in Q, Keyed(r), Keyed(s), r.log = s.log, KeyOf(r) = KeyOf(s) PROVE r = s
  <2>1. r \in R /\ s \in R /\ ~LineOf(r).bad /\ ~LineOf(s).bad
    BY <1>2, <1>10 DEF Keyed
  <2>2. SUFFICES ASSUME r.log = log, KeyOf(r) \in keys PROVE r = s
    BY <1>10, <2>1 DEF OneButFor
  <2>3. r \in Of(KeyOf(r)) /\ s \in Of(KeyOf(r)) /\ s.log = log /\ KeyOf(s) \in keys
    BY <1>10, <2>1, <2>2
  <2> HIDE DEF Of
  <2>4. ~Before(s, r) /\ ~Before(r, s)
    BY <1>3, <1>10, <2>1, <2>2, <2>3
  <2> QED BY <1>1, <2>1, <2>4, Settles
<1>11. OneRow(Q)
  BY <1>10 DEF OneRow
<1> QED BY <1>5, <1>6, <1>7, <1>9, <1>11 DEF Placing, Sound

LEMMA CompactSound ==
  ASSUME TextOK, NEW R, NEW c, Sound(R, c), NEW log, NEW Q, Q = Compact(R, log)
  PROVE  Sound(Q, c)
<1>1. SameLogical(R, log) \subseteq Files /\ Q = Number(R, SameLogical(R, log))
  BY PlacedHas DEF SameLogical, Compact
<1>2. Placing(R, c) /\ OneRow(R)
  BY DEF Sound
<1> QED BY <1>1, <1>2, NumberPlacing DEF Sound

LEMMA FastSound ==
  ASSUME TextOK, NEW R, NEW c, Placing(R, c), NEW f, NEW keys, OneButFor(R, LogicalOf(R, f), keys),
         UnifyFast(R, f, keys)
  PROVE  Sound(rows', c)
<1> DEFINE kept == Dedupe(R, LogicalOf(R, f), keys)
<1>1. rows' = IF kept = R THEN R ELSE Compact(kept, LogicalOf(R, f))
  BY DEF UnifyFast
<1>2. Sound(kept, c)
  BY DedupePlacing
<1> HIDE DEF kept
<1> QED BY <1>1, <1>2, CompactSound

LEMMA ComponentSound ==
  ASSUME TextOK, NEW R, NEW c, Placing(R, c), NEW f \in Placed(R), OneBeside(R, {f}), UnifyComponent(R, f)
  PROVE  Sound(rows', c)
<1>1. Typed(R) /\ OnePlace(R)
  BY DEF Placing
<1> DEFINE group == Connected(R, f)
           log == LogicalOf(R, Min(group))
           linked == IF Cardinality(group) > 1 THEN Relabel(R, group, log) ELSE R
           numbered == Number(linked, group)
           kept == Dedupe(numbered, log, AllKeys(R))
<1>2. rows' = Compact(kept, log)
  BY DEF UnifyComponent
<1>3. f \in group /\ group \subseteq Placed(R) /\ Closed(R, group)
  BY <1>1, ConnectedIs
<1> HIDE DEF group
<1>4. OneBeside(R, group) /\ group \subseteq Files
  BY <1>3, PlacedHas DEF OneBeside
<1>5. Placing(linked, c) /\ OneButFor(linked, log, AllKeys(R))
  <2> HIDE DEF log
  <2>1. log = LogicalOf(R, Min(group))
    BY DEF log
  <2> QED BY <1>3, <1>4, <2>1, LinkedPlacing
<1> HIDE DEF linked, log
<1>6. Placing(numbered, c) /\ OneButFor(numbered, log, AllKeys(R))
  BY <1>4, <1>5, NumberPlacing
<1> HIDE DEF numbered
<1>7. Sound(kept, c)
  BY <1>6, DedupePlacing
<1> HIDE DEF kept
<1> QED BY <1>2, <1>7, CompactSound

-----------------------------------------------------------------------------
(* applyAppend *)

\* The mirror is a prefix of what the owner will have written.
MirrorOK == /\ hw \in [Files -> Nat] /\ complete \in [Files -> Nat]
            /\ \A f \in Files : hw[f] <= LineLen * Len(text[f].lines) /\ complete[f] <= LinesIn(hw[f])

\* An event tells of a prefix of the mirror.
EventOK(ev) == ev.file \in Files /\ ev.end \in Nat /\ ev.end <= hw[ev.file]

\* Where the lines of an event are.
LEMMA Extent ==
  ASSUME TextOK, MirrorOK, NEW ev, EventOK(ev)
  PROVE  /\ From(ev.file) \in Nat /\ UpTo(ev) \in Nat
         /\ UpTo(ev) <= LinesIn(hw[ev.file]) /\ UpTo(ev) <= Len(text[ev.file].lines)
         /\ complete[ev.file] \in Nat
         /\ ~Vanished(ev.file) => From(ev.file) = complete[ev.file] /\ complete[ev.file] <= UpTo(ev)
         /\ Vanished(ev.file) => From(ev.file) = 0
<1>1. /\ ev.file \in Files /\ ev.end \in Nat /\ hw[ev.file] \in Nat /\ complete[ev.file] \in Nat
      /\ ev.end <= hw[ev.file] /\ complete[ev.file] <= LinesIn(hw[ev.file])
      /\ hw[ev.file] <= LineLen * Len(text[ev.file].lines)
  BY DEF EventOK, MirrorOK
<1>2. Len(text[ev.file].lines) \in Nat
  BY <1>1, FilesAre
<1>3. /\ LinesIn(ev.end) \in Nat /\ LinesIn(hw[ev.file]) \in Nat /\ LinesIn(ev.end) <= LinesIn(hw[ev.file])
      /\ LinesIn(hw[ev.file]) <= Len(text[ev.file].lines)
  <2> DEFINE a == ev.end
             b == hw[ev.file]
             k == Len(text[ev.file].lines)
  <2>1. a \in Nat /\ b \in Nat /\ k \in Nat /\ a <= b /\ b <= LineLen * k
    BY <1>1, <1>2
  <2> HIDE DEF a, b, k
  <2>2. LinesIn(a) \in Nat /\ LinesIn(b) \in Nat /\ LinesIn(a) <= LinesIn(b)
    BY <2>1, LinesInMonotone
  <2>3. LinesIn(b) <= k
    BY <2>1, LinesInWhole
  <2> QED BY <2>2, <2>3 DEF a, b, k
<1>4. /\ From(ev.file) \in Nat /\ From(ev.file) <= complete[ev.file]
      /\ ~Vanished(ev.file) => From(ev.file) = complete[ev.file]
      /\ Vanished(ev.file) => From(ev.file) = 0
  BY <1>1 DEF From
<1>5. /\ UpTo(ev) \in {From(ev.file), LinesIn(ev.end)}
      /\ From(ev.file) <= UpTo(ev)
  BY <1>3, <1>4, MaxOf DEF UpTo
<1> QED BY <1>1, <1>2, <1>3, <1>4, <1>5

\* The rows of a span.
AtSpan(f, n) == {r \in rows : r.file = f /\ r.line = n}

\* The rows of an event.
LEMMA NewRowIs ==
  ASSUME TextOK, MirrorOK, Typed(rows), OnePlace(rows), NEW ev, EventOK(ev), NEW n \in NewLines(ev),
         NEW r, r = NewRow(ev.file, n)
  PROVE  /\ r \in RowType /\ r.file = ev.file /\ r.line = n /\ n \in 1..Len(text[ev.file].lines)
         /\ n \in Nat /\ From(ev.file) < n /\ n <= UpTo(ev)
         /\ LineOf(r) = LineAt(ev.file, n)
         /\ r.copy = 1 + Cardinality(AtSpan(ev.file, n))
         /\ \A s \in rows : s.file = ev.file /\ ~LineOf(s).bad /\ ~LineOf(r).bad => r.log = s.log /\ r.ord = s.ord
         /\ ~Settled(ev.file) => r.log = text[ev.file].id /\ r.ord = 0
<1> DEFINE f == ev.file
           inherits == Settled(f) /\ ~text[f].lines[n].bad
           copies == Cardinality(AtSpan(f, n))
           log == IF inherits THEN LogicalOf(rows, f) ELSE text[f].id
           ord == IF inherits THEN OrdinalOf(rows, f) ELSE 0
<1>1. r = [file |-> f, line |-> n, copy |-> 1 + copies, log |-> log, ord |-> ord]
  BY DEF NewRow, AtSpan
<1>2. f \in Files /\ f \in Nat /\ text[f].id \in Nat /\ Len(text[f].lines) \in Nat
  BY FilesAre DEF EventOK
<1>3. n \in 1..Len(text[f].lines) /\ n \in Nat /\ From(f) < n /\ n <= UpTo(ev)
  <2>1. From(f) \in Nat /\ UpTo(ev) \in Nat /\ UpTo(ev) <= Len(text[f].lines)
    BY Extent
  <2>2. n \in (From(f) + 1)..UpTo(ev)
    BY DEF NewLines
  <2> HIDE DEF f
  <2> QED BY <1>2, <2>1, <2>2
<1>4. copies \in Nat
  <2>1. IsFiniteSet(AtSpan(f, n))
    BY FS_Subset DEF Typed, AtSpan
  <2> QED BY <2>1, FS_CardinalityType
<1>5. ASSUME NEW s \in rows, s.file = f, ~LineOf(s).bad
      PROVE  Settled(f) /\ LogicalOf(rows, f) = s.log /\ OrdinalOf(rows, f) = s.ord
  <2>1. s \in Plain(rows, f) /\ LogicalOf(rows, f) = s.log /\ OrdinalOf(rows, f) = s.ord
    BY <1>5, LogicalIs
  <2> QED BY <2>1 DEF Settled
<1>6. log \in Nat /\ ord \in Nat
  <2>1. CASE Settled(f)
    <3>1. PICK s \in rows : s.file = f /\ ~LineOf(s).bad
      BY <2>1 DEF Settled, Plain
    <3>2. s.log \in Nat /\ s.ord \in Nat
      BY RowsLine
    <3>3. LogicalOf(rows, f) \in Nat /\ OrdinalOf(rows, f) \in Nat
      BY <1>5, <3>1, <3>2
    <3> QED BY <1>2, <3>3
  <2>2. CASE ~Settled(f)
    BY <1>2, <2>2
  <2> QED BY <2>1, <2>2
<1>7. LineOf(r) = LineAt(f, n)
  BY <1>1 DEF LineOf, LineAt
<1>8. r.log = log /\ r.ord = ord /\ r.file = f /\ r.line = n /\ r.copy = 1 + copies
  BY <1>1
<1>9. \A s \in rows : s.file = f /\ ~LineOf(s).bad /\ ~LineOf(r).bad => r.log = s.log /\ r.ord = s.ord
  <2>1. ~LineOf(r).bad <=> ~text[f].lines[n].bad
    BY <1>7 DEF LineAt
  <2> QED BY <1>5, <1>8, <2>1
<1>10. ~Settled(f) => r.log = text[f].id /\ r.ord = 0
  BY <1>8
<1>11. r \in RowType
  <2> HIDE DEF log, ord, copies, f
  <2> QED BY <1>1, <1>2, <1>3, <1>4, <1>6 DEF RowType
<1> QED BY <1>3, <1>7, <1>8, <1>9, <1>10, <1>11

\* What the event does to the complete offset.
After(c, ev) == /\ c \in [Files -> Nat] /\ c[ev.file] = UpTo(ev)
                /\ \A f \in Files : f # ev.file => c[f] = complete[f]

LEMMA InsertedTyped ==
  ASSUME TextOK, MirrorOK, Typed(rows), OnePlace(rows), NEW ev, EventOK(ev)
  PROVE  Typed(Inserted(ev)) /\ OnePlace(Inserted(ev))
<1> DEFINE N == NewLines(ev)
           New == {NewRow(ev.file, n) : n \in N}
           R == Inserted(ev)
<1>1. R = rows \cup New
  BY DEF Inserted
<1>2. IsFiniteSet(New)
  <2> DEFINE row == [n \in N |-> NewRow(ev.file, n)]
  <2>1. IsFiniteSet(N)
    <3>1. From(ev.file) \in Nat /\ UpTo(ev) \in Nat
      BY Extent
    <3>2. N \subseteq (From(ev.file) + 1)..UpTo(ev)
      BY DEF NewLines
    <3>3. IsFiniteSet((From(ev.file) + 1)..UpTo(ev))
      BY <3>1, FS_Interval
    <3> HIDE DEF N
    <3> QED BY <3>2, <3>3, FS_Subset
  <2> HIDE DEF N
  <2>2. row \in Surjection(N, New)
    BY DEF Surjection
  <2> QED BY <2>1, <2>2, FS_Surjection
<1>3. IsFiniteSet(R)
  <2> HIDE DEF New
  <2> QED BY <1>1, <1>2, FS_Union DEF Typed
<1>4. ASSUME NEW r \in New
      PROVE  /\ r \in RowType /\ r.file = ev.file /\ r.file \in Files /\ r.line \in 1..Len(text[r.file].lines)
             /\ \A s \in rows : s.file = ev.file /\ ~LineOf(s).bad /\ ~LineOf(r).bad => r.log = s.log /\ r.ord = s.ord
             /\ ~Settled(ev.file) => r.log = text[ev.file].id /\ r.ord = 0
  <2>1. PICK n \in N : r = NewRow(ev.file, n)
    OBVIOUS
  <2>2. n \in NewLines(ev) /\ r = NewRow(ev.file, n)
    BY <2>1
  <2>4. ev.file \in Files
    BY DEF EventOK
  <2> HIDE DEF New, N, R
  <2>3. /\ r \in RowType /\ r.file = ev.file /\ r.line = n /\ n \in 1..Len(text[ev.file].lines)
        /\ \A s \in rows : s.file = ev.file /\ ~LineOf(s).bad /\ ~LineOf(r).bad => r.log = s.log /\ r.ord = s.ord
        /\ ~Settled(ev.file) => r.log = text[ev.file].id /\ r.ord = 0
    BY <2>2, NewRowIs
  <2> QED BY <2>3, <2>4
<1> HIDE DEF New
<1>5. ASSUME NEW r \in R PROVE r \in RowType /\ r.file \in Files /\ r.line \in 1..Len(text[r.file].lines)
  BY <1>1, <1>4 DEF Typed
<1>6. ASSUME NEW r \in R, NEW s \in R, r.file = s.file, ~LineOf(r).bad, ~LineOf(s).bad
      PROVE  r.log = s.log /\ r.ord = s.ord
  <2>1. CASE r \in rows /\ s \in rows
    BY <1>6, <2>1 DEF OnePlace
  <2>2. CASE r \in New /\ s \in rows
    BY <1>4, <1>6, <2>2
  <2>3. CASE r \in rows /\ s \in New
    BY <1>4, <1>6, <2>3
  <2>4. CASE r \in New /\ s \in New
    <3>1. CASE Settled(ev.file)
      <4>1. PICK p \in rows : p.file = ev.file /\ ~LineOf(p).bad
        BY <3>1 DEF Settled, Plain
      <4> QED BY <1>4, <1>6, <2>4, <4>1
    <3>2. CASE ~Settled(ev.file)
      BY <1>4, <2>4, <3>2
    <3> QED BY <3>1, <3>2
  <2> QED BY <1>1, <2>1, <2>2, <2>3, <2>4
<1>7. Typed(R)
  BY <1>3, <1>5 DEF Typed
<1>8. OnePlace(R)
  BY <1>6 DEF OnePlace
<1> QED BY <1>7, <1>8

\* A new row is the only one of its span, if the span parses.
LEMMA NewSpan ==
  ASSUME TextOK, MirrorOK, Sound(rows, complete), NEW ev, EventOK(ev), NEW n \in NewLines(ev),
         NEW r, r = NewRow(ev.file, n), ~LineOf(r).bad
  PROVE  r.copy = 1
<1>1. Typed(rows) /\ OnePlace(rows) /\ OneSpan(rows, complete)
  BY DEF Sound, Placing
<1>2. /\ n \in Nat /\ From(ev.file) < n /\ LineOf(r) = LineAt(ev.file, n)
      /\ r.copy = 1 + Cardinality(AtSpan(ev.file, n))
  BY <1>1, NewRowIs
<1>3. complete[ev.file] \in Nat
  BY Extent
<1>4. ASSUME NEW s \in AtSpan(ev.file, n) PROVE FALSE
  <2>1. s \in rows /\ s.file = ev.file /\ s.line = n
    BY <1>4 DEF AtSpan
  <2>2. ~LineOf(s).bad
    BY <1>2, <2>1 DEF LineOf, LineAt
  <2>3. CASE Vanished(ev.file)
    BY <2>1, <2>3 DEF NewLines
  <2>4. CASE ~Vanished(ev.file)
    <3>1. From(ev.file) = complete[ev.file]
      BY <2>4, Extent
    <3>2. s.line <= complete[ev.file]
      BY <1>1, <2>1, <2>2 DEF OneSpan
    <3> QED BY <1>2, <1>3, <2>1, <3>1, <3>2
  <2> QED BY <2>3, <2>4
<1>5. Cardinality(AtSpan(ev.file, n)) = 0
  <2>1. AtSpan(ev.file, n) = {}
    BY <1>4
  <2> QED BY <2>1, FS_EmptySet
<1> QED BY <1>2, <1>5

LEMMA InsertedPlacing ==
  ASSUME TextOK, MirrorOK, Sound(rows, complete), NEW ev, EventOK(ev), NEW c, After(c, ev)
  PROVE  Placing(Inserted(ev), c)
<1> DEFINE R == Inserted(ev)
           f == ev.file
<1>1. Typed(rows) /\ OnePlace(rows) /\ OneSpan(rows, complete) /\ AllShown(rows, complete) /\ OneRow(rows)
  BY DEF Sound, Placing
<1>2. Typed(R) /\ OnePlace(R)
  BY <1>1, InsertedTyped
<1>3. R = rows \cup {NewRow(ev.file, n) : n \in NewLines(ev)}
  BY DEF Inserted
<1>4. /\ From(f) \in Nat /\ UpTo(ev) \in Nat /\ complete[f] \in Nat
      /\ ~Vanished(f) => From(f) = complete[f] /\ complete[f] <= UpTo(ev)
      /\ Vanished(f) => From(f) = 0
  BY Extent
<1>5. c[f] = UpTo(ev) /\ \A g \in Files : g # f => c[g] = complete[g]
  BY DEF After
<1>6. ASSUME NEW n \in NewLines(ev)
      PROVE  /\ NewRow(f, n) \in R /\ NewRow(f, n).file = f /\ NewRow(f, n).line = n
             /\ n <= UpTo(ev) /\ LineOf(NewRow(f, n)) = LineAt(f, n)
             /\ ~LineOf(NewRow(f, n)).bad => NewRow(f, n).copy = 1
  <2>1. NewRow(f, n) \in R
    BY <1>3
  <2>2. \E r : r = NewRow(ev.file, n)
    OBVIOUS
  <2>3. PICK r : r = NewRow(ev.file, n)
    BY <2>2
  <2>4. r.file = ev.file /\ r.line = n /\ n <= UpTo(ev) /\ LineOf(r) = LineAt(ev.file, n)
    BY <1>1, <2>3, NewRowIs
  <2>5. ~LineOf(r).bad => r.copy = 1
    BY <2>3, NewSpan
  <2> QED BY <2>1, <2>3, <2>4, <2>5
<1>7. ASSUME NEW r \in rows, r.file = f, ~LineOf(r).bad PROVE ~Vanished(f) /\ Settled(f)
  BY <1>7 DEF Vanished, Settled, Plain
<1> HIDE DEF R
<1>8. ASSUME NEW r \in R, ~LineOf(r).bad PROVE r.copy = 1 /\ r.line <= c[r.file]
  <2>1. CASE r \in rows
    <3>1. r.copy = 1 /\ r.line <= complete[r.file] /\ r.file \in Files /\ r.line \in Nat
      BY <1>1, <1>8, <2>1, RowsLine DEF OneSpan
    <3>2. CASE r.file = f
      BY <1>4, <1>5, <1>7, <1>8, <2>1, <3>1, <3>2
    <3>3. CASE r.file # f
      BY <1>5, <3>1, <3>3
    <3> QED BY <3>2, <3>3
  <2>2. CASE r \notin rows
    <3>1. PICK n \in NewLines(ev) : r = NewRow(f, n)
      BY <1>3, <2>2
    <3> QED BY <1>5, <1>6, <1>8, <3>1
  <2> QED BY <2>1, <2>2
<1>9. OneSpan(R, c)
  BY <1>8 DEF OneSpan
<1>10. ASSUME NEW g \in Files, NEW n \in 1..c[g] PROVE Shown(R, g, n)
  <2>1. CASE g # f
    <3>1. Shown(rows, g, n)
      BY <1>1, <1>5, <1>10, <2>1 DEF AllShown
    <3>2. ASSUME NEW p \in R, p.file = g PROVE p \in rows
      <4>1. ASSUME NEW m \in NewLines(ev), p = NewRow(f, m) PROVE FALSE
        BY <1>6, <2>1, <3>2, <4>1
      <4> QED BY <1>3, <4>1
    <3> QED BY <1>3, <3>1, <3>2 DEF Shown
  <2>2. CASE g = f /\ n \in NewLines(ev)
    <3>1. /\ NewRow(f, n) \in R /\ NewRow(f, n).file = f /\ NewRow(f, n).line = n
          /\ LineOf(NewRow(f, n)) = LineAt(f, n)
      BY <1>6, <2>2
    <3>2. CASE LineAt(f, n).bad \/ LineAt(f, n).key = NoKey
      BY <2>2, <3>1, <3>2 DEF Shown
    <3>3. CASE ~(LineAt(f, n).bad \/ LineAt(f, n).key = NoKey)
      <4>1. PICK r \in R : r = NewRow(f, n)
        BY <3>1
      <4>2. Keyed(r) /\ KeyOf(r) = LineAt(f, n).key /\ ~LineOf(r).bad /\ r.file = f
        BY <3>1, <3>3, <4>1 DEF Keyed, KeyOf
      <4>3. \A p \in R : p.file = f /\ ~LineOf(p).bad => r.log = p.log
        BY <1>2, <4>2 DEF OnePlace
      <4> QED BY <2>2, <3>3, <4>2, <4>3 DEF Shown
    <3> QED BY <3>2, <3>3
  <2>3. CASE g = f /\ n \notin NewLines(ev)
    <3>1. n \in Nat /\ 0 < n /\ n <= UpTo(ev)
      BY <1>4, <1>5, <2>3
    <3>2. CASE Vanished(f)
      <4>1. n \in (From(f) + 1)..UpTo(ev)
        BY <1>4, <3>1, <3>2
      <4>2. PICK r \in rows : r.file = f /\ r.line = n
        BY <2>3, <3>2, <4>1 DEF NewLines
      <4>3. LineOf(r).bad /\ LineOf(r) = LineAt(f, n)
        <5>1. LineOf(r) = LineAt(f, n)
          BY <4>2 DEF LineOf, LineAt
        <5> QED BY <1>7, <3>2, <4>2, <5>1
      <4> QED BY <1>3, <2>3, <4>2, <4>3 DEF Shown
    <3>3. CASE ~Vanished(f)
      <4>1. n <= complete[f]
        <5>1. ~(n \in (From(f) + 1)..UpTo(ev))
          BY <2>3, <3>3 DEF NewLines
        <5> QED BY <1>4, <3>1, <3>3, <5>1
      <4>2. Shown(rows, f, n) /\ complete[f] > 0
        BY <1>1, <1>4, <1>10, <2>3, <3>1, <4>1 DEF AllShown
      <4>3. PICK p \in rows : p.file = f /\ ~LineOf(p).bad
        BY <3>3, <4>2 DEF Vanished, Plain
      <4>4. CASE LineAt(f, n).bad \/ LineAt(f, n).key = NoKey
        BY <1>3, <2>3, <4>2, <4>4 DEF Shown
      <4>5. CASE ~(LineAt(f, n).bad \/ LineAt(f, n).key = NoKey)
        <5>1. PICK r \in rows : /\ Keyed(r) /\ KeyOf(r) = LineAt(f, n).key
                                /\ \A q \in rows : q.file = f /\ ~LineOf(q).bad => r.log = q.log
          BY <4>2, <4>5 DEF Shown
        <5>2. \A q \in R : q.file = f /\ ~LineOf(q).bad => r.log = q.log
          BY <1>2, <1>3, <4>3, <5>1 DEF OnePlace
        <5> QED BY <1>3, <2>3, <4>5, <5>1, <5>2 DEF Shown
      <4> QED BY <4>4, <4>5
    <3> QED BY <3>2, <3>3
  <2> QED BY <2>1, <2>2, <2>3
<1>11. AllShown(R, c)
  BY <1>10 DEF AllShown
<1> QED BY <1>2, <1>9, <1>11 DEF Placing, R

-----------------------------------------------------------------------------
(* The transaction of an event *)

LEMMA UnifySound ==
  ASSUME TextOK, MirrorOK, Sound(rows, complete), NEW ev, EventOK(ev), NEW c, After(c, ev),
         NEW R, R = Inserted(ev), Unify(R, ev)
  PROVE  Sound(rows', c)
<1> DEFINE f == ev.file
<1>1. Typed(rows) /\ OnePlace(rows) /\ OneRow(rows)
  BY DEF Sound, Placing
<1>2. Placing(R, c)
  BY InsertedPlacing
<1>3. Typed(R) /\ OnePlace(R)
  BY <1>2 DEF Placing
<1>4. R = rows \cup {NewRow(f, n) : n \in NewLines(ev)}
  BY DEF Inserted
<1>5. ASSUME NEW n \in NewLines(ev), NEW r, r = NewRow(f, n)
      PROVE  r.file = f /\ KeyOf(r) = text[f].lines[n].key
  <2>1. r.file = f /\ LineOf(r) = LineAt(f, n)
    BY <1>1, <1>5, NewRowIs
  <2> QED BY <2>1 DEF KeyOf, LineAt
<1>6. \A r \in R : r \in rows \/ (r.file = f /\ (Keyed(r) => KeyOf(r) \in NewKeys(ev)))
  <2>1. ASSUME NEW r \in R, r \notin rows
        PROVE  r.file = f /\ (Keyed(r) => KeyOf(r) \in NewKeys(ev))
    <3>1. PICK n \in NewLines(ev) : r = NewRow(f, n)
      BY <1>4, <2>1
    <3> QED BY <1>5, <3>1 DEF NewKeys, Keyed
  <2> QED BY <2>1
<1>7. \A r \in R : Keyed(r) => ~LineOf(r).bad
  BY DEF Keyed
<1>8. OneBeside(R, {f})
  <2>1. ASSUME NEW r \in R, NEW s \in R, Keyed(r), Keyed(s), r.log = s.log, KeyOf(r) = KeyOf(s),
               r.file \notin {f}, s.file \notin {f}
        PROVE  r = s
    <3>1. r \in rows /\ s \in rows
      BY <1>6, <2>1
    <3> QED BY <1>1, <2>1, <3>1 DEF OneRow
  <2> QED BY <2>1 DEF OneBeside
<1>9. CASE Plain(R, f) = {} /\ rows' = R
  <2>1. ASSUME NEW r \in R, Keyed(r) PROVE r.file # f
    BY <1>7, <1>9, <2>1 DEF Plain
  <2>2. OneRow(R)
    BY <1>8, <2>1 DEF OneBeside, OneRow
  <2> QED BY <1>2, <1>9, <2>2 DEF Sound
<1>10. CASE Settled(f) /\ UnifyFast(R, f, NewKeys(ev))
  <2>1. PICK p \in R : p.file = f /\ ~LineOf(p).bad
    BY <1>4, <1>10 DEF Settled, Plain
  <2>2. ASSUME NEW r \in R, Keyed(r), r \notin rows PROVE r.log = LogicalOf(R, f) /\ KeyOf(r) \in NewKeys(ev)
    <3>1. ~LineOf(r).bad /\ r.file = f /\ KeyOf(r) \in NewKeys(ev)
      BY <1>6, <1>7, <2>2
    <3> QED BY <1>3, <3>1, LogicalIs
  <2>3. OneButFor(R, LogicalOf(R, f), NewKeys(ev))
    <3>1. ASSUME NEW r \in R, NEW s \in R, Keyed(r), Keyed(s), r.log = s.log, KeyOf(r) = KeyOf(s)
          PROVE  r = s \/ (r.log = LogicalOf(R, f) /\ KeyOf(r) \in NewKeys(ev))
      BY <1>1, <2>2, <3>1 DEF OneRow
    <3> QED BY <3>1 DEF OneButFor
  <2> QED BY <1>2, <1>10, <2>3, FastSound
<1>11. CASE Plain(R, f) # {} /\ UnifyComponent(R, f)
  <2>1. f \in Placed(R)
    BY <1>11 DEF Placed, EventOK
  <2> QED BY <1>2, <1>8, <1>11, <2>1, ComponentSound
<1> QED BY <1>9, <1>10, <1>11 DEF Unify

LEMMA AppliedSound ==
  ASSUME TextOK, MirrorOK, Sound(rows, complete), NEW ev, EventOK(ev), Applied(ev)
  PROVE  /\ Sound(rows', complete') /\ complete' \in [Files -> Nat] /\ hw' = hw
         /\ \A f \in Files : complete'[f] <= LinesIn(hw[f])
<1>1. complete' = [complete EXCEPT ![ev.file] = UpTo(ev)] /\ hw' = hw
  BY DEF Applied
<1>2. complete \in [Files -> Nat] /\ ev.file \in Files /\ \A f \in Files : complete[f] <= LinesIn(hw[f])
  BY DEF MirrorOK, EventOK
<1>3. UpTo(ev) \in Nat /\ UpTo(ev) <= LinesIn(hw[ev.file])
  BY Extent
<1>4. PICK c : c = complete'
  OBVIOUS
<1>5. c \in [Files -> Nat] /\ c[ev.file] = UpTo(ev) /\ \A f \in Files : f # ev.file => c[f] = complete[f]
  BY <1>1, <1>2, <1>3, <1>4
<1>6. After(c, ev)
  BY <1>5 DEF After
<1>7. Sound(rows', c)
  <2>1. CASE Inserted(ev) = rows /\ rows' = rows
    <3>1. Placing(rows, c)
      BY <1>6, <2>1, InsertedPlacing
    <3> QED BY <2>1, <3>1 DEF Sound
  <2>2. CASE Unify(Inserted(ev), ev)
    BY <1>6, <2>2, UnifySound
  <2> QED BY <2>1, <2>2 DEF Applied
<1>8. \A f \in Files : c[f] <= LinesIn(hw[f])
  BY <1>2, <1>3, <1>5
<1> QED BY <1>1, <1>4, <1>5, <1>7, <1>8

-----------------------------------------------------------------------------
(* Events *)

EventsIn(q) == {q[i] : i \in 1..Len(q)}
AllOK(E) == \A ev \in E : EventOK(ev)

LEMMA HeadIn ==
  ASSUME NEW S, NEW q \in Seq(S), q # <<>>
  PROVE  Head(q) \in EventsIn(q) /\ Tail(q) \in Seq(S) /\ EventsIn(Tail(q)) \subseteq EventsIn(q)
         /\ Len(Tail(q)) <= Len(q)
<1>1. Len(q) \in Nat /\ Len(q) > 0 /\ Head(q) = q[1] /\ Tail(q) \in Seq(S) /\ Len(Tail(q)) = Len(q) - 1
  OBVIOUS
<1>2. \A i \in 1..Len(Tail(q)) : Tail(q)[i] = q[i + 1] /\ i + 1 \in 1..Len(q)
  BY <1>1
<1>3. EventsIn(Tail(q)) \subseteq EventsIn(q)
  BY <1>2 DEF EventsIn
<1> QED BY <1>1, <1>3 DEF EventsIn

LEMMA AppendIn ==
  ASSUME NEW S, NEW q \in Seq(S), NEW e \in S
  PROVE  /\ Append(q, e) \in Seq(S) /\ Len(Append(q, e)) = Len(q) + 1
         /\ EventsIn(Append(q, e)) \subseteq EventsIn(q) \cup {e}
<1>1. /\ Append(q, e) \in Seq(S) /\ Len(Append(q, e)) = Len(q) + 1 /\ Len(q) \in Nat
      /\ \A i \in 1..(Len(q) + 1) : Append(q, e)[i] = IF i = Len(q) + 1 THEN e ELSE q[i]
  OBVIOUS
<1>2. \A i \in 1..(Len(q) + 1) : i = Len(q) + 1 \/ i \in 1..Len(q)
  BY <1>1
<1> QED BY <1>1, <1>2 DEF EventsIn

\* A sweep finds a file for every place of its list.
LEMMA LaggingIs ==
  ASSUME TextOK, MirrorOK
  PROVE  LaggingEvents \in Seq(EventType) /\ AllOK(EventsIn(LaggingEvents))
<1> DEFINE kept == Lagging
           before(f) == Cardinality({g \in kept : g < f})
           n == Cardinality(kept)
           rank == [f \in kept |-> before(f) + 1]
           nth(i) == CHOOSE f \in kept : before(f) = i - 1
           r == [i \in 1..n |-> Event(nth(i), hw[nth(i)])]
<1>1. kept \in SUBSET Files /\ Files \subseteq Nat
  BY FilesAre DEF Lagging
<1>2. IsFiniteSet(kept) /\ n \in Nat
  BY <1>1, FilesAre, FS_Subset, FS_CardinalityType
<1>3. LaggingEvents = r
  BY DEF LaggingEvents
<1> HIDE DEF kept
<1>4. ASSUME NEW i \in kept PROVE before(i) \in Nat /\ before(i) < n
  <2> DEFINE b == {j \in kept : j < i}
  <2>1. b \in SUBSET kept /\ i \notin b /\ b # kept
    BY <1>1
  <2> HIDE DEF b
  <2>2. IsFiniteSet(b) /\ Cardinality(b) \in Nat /\ Cardinality(b) <= n /\ Cardinality(b) # n
    BY <1>2, <2>1, FS_Subset, FS_CardinalityType
  <2> QED BY <1>2, <2>2 DEF b
<1>5. ASSUME NEW i \in kept, NEW j \in kept, i < j PROVE before(i) < before(j)
  <2> DEFINE b == {l \in kept : l < i}
             c == {l \in kept : l < j}
  <2>0. \A l \in kept : l \in Nat
    BY <1>1
  <2>1. b \in SUBSET c /\ i \in c /\ i \notin b /\ c \in SUBSET kept /\ b # c
    <3>1. b \in SUBSET c
      BY <1>5, <2>0
    <3>2. i \in c /\ i \notin b /\ c \in SUBSET kept
      BY <1>5, <2>0
    <3> HIDE DEF b, c
    <3> QED BY <3>1, <3>2
  <2> HIDE DEF b, c
  <2>2. IsFiniteSet(c) /\ Cardinality(c) \in Nat
    BY <1>2, <2>1, FS_Subset, FS_CardinalityType
  <2>3. Cardinality(b) \in Nat /\ Cardinality(b) <= Cardinality(c) /\ Cardinality(b) # Cardinality(c)
    BY <2>1, <2>2, FS_Subset, FS_CardinalityType
  <2> QED BY <2>2, <2>3 DEF b, c
<1>6. ASSUME NEW i \in kept, NEW j \in kept, before(i) = before(j) PROVE i = j
  <2>1. i \in Nat /\ j \in Nat /\ before(i) \in Nat
    BY <1>1, <1>4
  <2>2. (i < j => before(i) < before(j)) /\ (j < i => before(j) < before(i))
    BY <1>5
  <2> HIDE DEF before
  <2> QED BY <2>1, <2>2, <1>6
<1>7. ASSUME NEW k \in 1..n PROVE \E i \in kept : before(i) = k - 1
  <2>1. rank \in Injection(kept, 1..n)
    <3>1. \A i \in kept : before(i) + 1 \in 1..n
      <4>1. \A i \in kept : before(i) \in Nat /\ before(i) < n
        BY <1>4
      <4> HIDE DEF before, n
      <4> QED BY <1>2, <4>1
    <3>2. \A i, j \in kept : before(i) + 1 = before(j) + 1 => i = j
      <4>1. \A i \in kept : before(i) \in Nat
        BY <1>4
      <4>2. \A i, j \in kept : before(i) = before(j) => i = j
        BY <1>6
      <4> HIDE DEF before
      <4> QED BY <4>1, <4>2
    <3> HIDE DEF before, n
    <3>3. rank \in [kept -> 1..n]
      BY <3>1
    <3>4. \A i, j \in kept : rank[i] = rank[j] => i = j
      BY <3>2
    <3> HIDE DEF rank
    <3> QED BY <3>3, <3>4 DEF Injection, IsInjective
  <2>2. IsFiniteSet(1..n) /\ Cardinality(1..n) = n
    BY <1>2, FS_Interval
  <2>3. rank \in Surjection(kept, 1..n)
    <3> HIDE DEF rank
    <3> QED BY <1>2, <2>1, <2>2, FS_Injection
  <2>4. PICK i \in kept : rank[i] = k
    <3> HIDE DEF rank
    <3> QED BY <2>3 DEF Surjection
  <2>5. before(i) \in Nat /\ before(i) + 1 = k
    BY <1>4, <2>4
  <2>6. before(i) = k - 1
    <3> HIDE DEF before
    <3> QED BY <2>5
  <2> QED BY <2>6
<1>8. ASSUME NEW i \in 1..n PROVE r[i] \in EventType /\ EventOK(r[i])
  <2>1. nth(i) \in kept
    <3> HIDE DEF before
    <3> QED BY <1>7
  <2> DEFINE f == nth(i)
  <2>2. r[i] = Event(f, hw[f])
    OBVIOUS
  <2>3. f \in kept
    BY <2>1
  <2> HIDE DEF f, r
  <2>4. f \in Files /\ hw[f] \in Nat
    BY <1>1, <2>3 DEF MirrorOK
  <2> QED BY <2>2, <2>4 DEF Event, EventType, EventOK
<1>9. r \in [1..n -> EventType]
  <2>1. DOMAIN r = 1..n /\ r = [k \in 1..n |-> r[k]]
    OBVIOUS
  <2> HIDE DEF r, n
  <2> QED BY <1>8, <2>1
<1>10. r \in Seq(EventType) /\ Len(r) = n
  <2> HIDE DEF r, n
  <2> QED BY <1>2, <1>9, IsSequence
<1> HIDE DEF r, n
<1> QED BY <1>3, <1>8, <1>10 DEF AllOK, EventsIn

-----------------------------------------------------------------------------
(* The invariant *)

\* An event in flight tells of a prefix of the mirror; so does every file's
\* complete offset; and the table is sound with those offsets.
Calls == handlers \subseteq EventType /\ AllOK(handlers)
Queued == queue \in Seq(EventType) /\ Len(queue) <= Buffer /\ AllOK(EventsIn(queue))
Swept == backlog \in Seq(EventType) /\ AllOK(EventsIn(backlog))
Disk == MirrorOK /\ dirty \in [Files -> BOOLEAN] /\ Sound(rows, complete)

IInv == /\ text \in Corpora
        /\ Disk /\ Calls /\ Queued /\ Swept
        /\ phase \in {"start", "run", "stop", "down"}

LEMMA TextTyped == ASSUME text \in Corpora PROVE TextOK
BY CorporaAssumption DEF TextOK, LineType

LEMMA SameText ==
  ASSUME text' = text
  PROVE  /\ Files' = Files /\ EventType' = EventType
         /\ Sound(rows, complete)' <=> Sound(rows', complete')
<1>1. Files' = Files
  BY DEF Files
<1>2. EventType' = EventType
  BY <1>1 DEF EventType
<1>3. ASSUME NEW r PROVE LineOf(r)' = LineOf(r) /\ KeyOf(r)' = KeyOf(r) /\ Keyed(r)' = Keyed(r)
  BY DEF LineOf, KeyOf, Keyed
<1>4. Typed(rows)' <=> Typed(rows')
  BY <1>1 DEF Typed
<1>5. OnePlace(rows)' <=> OnePlace(rows')
  BY DEF OnePlace, LineOf
<1>6. OneSpan(rows, complete)' <=> OneSpan(rows', complete')
  BY DEF OneSpan, LineOf
<1>7. OneRow(rows)' <=> OneRow(rows')
  BY DEF OneRow, LineOf, KeyOf, Keyed
<1>8. AllShown(rows, complete)' <=> AllShown(rows', complete')
  BY <1>1 DEF AllShown, Shown, LineAt, LineOf, KeyOf, Keyed
<1> QED BY <1>1, <1>2, <1>4, <1>5, <1>6, <1>7, <1>8 DEF Sound, Placing

\* Events stay good while the mirror only grows.
LEMMA EventsStay ==
  ASSUME text' = text, hw \in [Files -> Nat], hw' \in [Files -> Nat], \A f \in Files : hw[f] <= hw'[f],
         NEW E, AllOK(E), NEW F, F \subseteq E
  PROVE  AllOK(F)'
<1>1. Files' = Files
  BY SameText
<1>2. ASSUME NEW ev \in F PROVE EventOK(ev)'
  <2>1. ev.file \in Files /\ ev.end \in Nat /\ ev.end <= hw[ev.file] /\ hw[ev.file] \in Nat
    BY DEF AllOK, EventOK
  <2>2. hw'[ev.file] \in Nat /\ hw[ev.file] <= hw'[ev.file]
    BY <2>1
  <2>3. ev.end <= hw'[ev.file]
    BY <2>1, <2>2
  <2> QED BY <1>1, <2>1, <2>3 DEF EventOK
<1> QED BY <1>2 DEF AllOK

LEMMA InitInv == Init => IInv
<1> SUFFICES ASSUME Init PROVE IInv
  OBVIOUS
<1>1. TextOK
  BY TextTyped DEF Init
<1>2. /\ hw = [f \in Files |-> 0] /\ complete = [f \in Files |-> 0] /\ dirty = [f \in Files |-> FALSE]
      /\ rows = {} /\ handlers = {} /\ queue = <<>> /\ backlog = <<>> /\ phase = "start"
  BY DEF Init
<1>3. MirrorOK
  <2>1. ASSUME NEW f \in Files PROVE hw[f] <= LineLen * Len(text[f].lines) /\ complete[f] <= LinesIn(hw[f])
    <3>1. Len(text[f].lines) \in Nat /\ LineLen \in Nat /\ hw[f] = 0 /\ complete[f] = 0
      BY <1>1, <1>2, FilesAre, LineLenAssumption
    <3>2. LineLen * Len(text[f].lines) \in Nat
      BY <3>1
    <3>3. LinesIn(0) \in Nat
      BY LinesInMonotone
    <3> QED BY <3>1, <3>2, <3>3
  <2> QED BY <1>2, <2>1 DEF MirrorOK
<1>4. Sound(rows, complete)
  <2>1. Typed(rows)
    BY <1>2, FS_EmptySet DEF Typed
  <2>2. OnePlace(rows) /\ OneSpan(rows, complete) /\ OneRow(rows)
    BY <1>2 DEF OnePlace, OneSpan, OneRow
  <2>3. AllShown(rows, complete)
    <3>1. \A f \in Files : 1..complete[f] = {}
      BY <1>2
    <3> QED BY <3>1 DEF AllShown
  <2> QED BY <2>1, <2>2, <2>3 DEF Sound, Placing
<1>5. Disk
  BY <1>2, <1>3, <1>4 DEF Disk
<1>6. Calls /\ Queued /\ Swept
  <2>1. EventsIn(<<>>) = {} /\ <<>> \in Seq(EventType) /\ Len(<<>>) = 0
    BY DEF EventsIn
  <2> QED BY <1>2, <2>1, BufferAssumption DEF Calls, Queued, Swept, AllOK
<1> QED BY <1>2, <1>5, <1>6 DEF IInv, Init

\* What an action keeps that leaves the mirror alone: the rest of what is in
\* flight after it was in flight before.
LEMMA FlightKept ==
  ASSUME IInv, text' = text, hw' = hw, handlers' \subseteq handlers,
         queue' \in Seq(EventType), Len(queue') <= Buffer, EventsIn(queue') \subseteq EventsIn(queue) \cup handlers,
         backlog' \in Seq(EventType), EventsIn(backlog') \subseteq EventsIn(backlog)
  PROVE  Calls' /\ Queued' /\ Swept'
<1>1. /\ hw \in [Files -> Nat] /\ handlers \subseteq EventType
      /\ AllOK(handlers) /\ AllOK(EventsIn(queue)) /\ AllOK(EventsIn(backlog))
  BY DEF IInv, Disk, MirrorOK, Calls, Queued, Swept
<1>2. hw' \in [Files -> Nat] /\ \A f \in Files : hw[f] <= hw'[f]
  BY <1>1
<1>3. EventType' = EventType
  BY SameText
<1>4. AllOK(EventsIn(queue) \cup handlers)
  BY <1>1 DEF AllOK
<1>5. \A ev \in handlers \cup EventsIn(queue) \cup EventsIn(backlog) : EventOK(ev)'
  <2>1. AllOK(handlers \cup EventsIn(queue) \cup EventsIn(backlog))
    BY <1>1 DEF AllOK
  <2> QED BY <1>2, <2>1 DEF AllOK, EventOK, Files
<1>6. EventsIn(queue)' = EventsIn(queue') /\ EventsIn(backlog)' = EventsIn(backlog')
  BY DEF EventsIn
<1>7. AllOK(handlers)'
  BY <1>5 DEF AllOK
<1>8. AllOK(EventsIn(queue))'
  BY <1>5, <1>6 DEF AllOK
<1>9. AllOK(EventsIn(backlog))'
  BY <1>5, <1>6 DEF AllOK
<1> QED BY <1>1, <1>3, <1>7, <1>8, <1>9 DEF Calls, Queued, Swept

\* What an action keeps that leaves the mirror and the table alone.
LEMMA DiskKept ==
  ASSUME Disk, text' = text, hw' = hw, complete' = complete, rows' = rows, dirty' \in [Files -> BOOLEAN]
  PROVE  Disk'
<1>1. Files' = Files /\ (Sound(rows, complete)' <=> Sound(rows, complete))
  BY SameText
<1>2. MirrorOK'
  BY <1>1 DEF Disk, MirrorOK, LinesIn
<1> QED BY <1>1, <1>2 DEF Disk

-----------------------------------------------------------------------------
(* Actions *)

LEMMA InvFacts ==
  ASSUME IInv
  PROVE  /\ text \in Corpora /\ TextOK /\ Disk /\ MirrorOK /\ Sound(rows, complete)
         /\ hw \in [Files -> Nat] /\ complete \in [Files -> Nat] /\ dirty \in [Files -> BOOLEAN]
         /\ handlers \subseteq EventType /\ AllOK(handlers)
         /\ queue \in Seq(EventType) /\ Len(queue) \in Nat /\ Len(queue) <= Buffer /\ AllOK(EventsIn(queue))
         /\ backlog \in Seq(EventType) /\ AllOK(EventsIn(backlog))
         /\ phase \in {"start", "run", "stop", "down"}
<1>1. TextOK
  BY TextTyped DEF IInv
<1>2. queue \in Seq(EventType) /\ Len(queue) \in Nat
  BY DEF IInv, Queued
<1> QED BY <1>1, <1>2 DEF IInv, Disk, MirrorOK, Calls, Queued, Swept

LEMMA NoEvents == <<>> \in Seq(EventType) /\ EventsIn(<<>>) = {} /\ Len(<<>>) = 0 /\ 0 <= Buffer
<1>1. <<>> \in Seq(EventType) /\ Len(<<>>) = 0
  OBVIOUS
<1> QED BY <1>1, BufferAssumption DEF EventsIn

LEMMA AppendFileInv == ASSUME IInv, AppendFile PROVE IInv'
<1>0. PICK f \in Files : \E end \in (hw[f] + 1)..(LineLen * Len(text[f].lines)) :
        hw' = [hw EXCEPT ![f] = end] /\ handlers' = handlers \cup {Event(f, end)}
  BY DEF AppendFile
<1>1. PICK end \in (hw[f] + 1)..(LineLen * Len(text[f].lines)) :
        hw' = [hw EXCEPT ![f] = end] /\ handlers' = handlers \cup {Event(f, end)}
  BY <1>0
<1>2. UNCHANGED <<text, dirty, rows, complete, queue, backlog, phase, faults>>
  BY DEF AppendFile
<1>3. /\ hw \in [Files -> Nat] /\ complete \in [Files -> Nat] /\ dirty \in [Files -> BOOLEAN]
      /\ handlers \subseteq EventType /\ AllOK(handlers)
      /\ queue \in Seq(EventType) /\ Len(queue) <= Buffer /\ AllOK(EventsIn(queue))
      /\ backlog \in Seq(EventType) /\ AllOK(EventsIn(backlog))
      /\ TextOK /\ MirrorOK /\ Sound(rows, complete)
  BY InvFacts
<1>4. hw[f] \in Nat /\ LineLen * Len(text[f].lines) \in Nat
  <2>1. hw[f] \in Nat /\ Len(text[f].lines) \in Nat
    BY <1>3, FilesAre
  <2> QED BY <2>1, LineLenAssumption
<1>5. end \in Nat /\ hw[f] <= end /\ end <= LineLen * Len(text[f].lines)
  <2> DEFINE m == LineLen * Len(text[f].lines)
  <2>1. m \in Nat /\ end \in (hw[f] + 1)..m
    BY <1>4
  <2> HIDE DEF m
  <2>2. end \in Nat /\ hw[f] <= end /\ end <= m
    BY <1>4, <2>1
  <2> QED BY <2>2 DEF m
<1>6. hw' \in [Files -> Nat] /\ \A g \in Files : hw'[g] = IF g = f THEN end ELSE hw[g]
  BY <1>1, <1>3, <1>5
<1>7. \A g \in Files : hw[g] <= hw'[g]
  <2>1. hw[f] <= end
    BY <1>5
  <2>2. ASSUME NEW g \in Files PROVE hw[g] <= hw'[g]
    <3>1. hw[g] \in Nat /\ hw'[g] = IF g = f THEN end ELSE hw[g]
      BY <1>3, <1>6
    <3>2. hw[g] <= hw[g]
      BY <3>1
    <3> QED BY <2>1, <3>1, <3>2
  <2> QED BY <2>2
<1>8. Files' = Files /\ EventType' = EventType /\ (Sound(rows, complete)' <=> Sound(rows, complete))
  BY <1>2, SameText
<1>9. MirrorOK'
  <2>1. ASSUME NEW g \in Files PROVE hw'[g] <= LineLen * Len(text[g].lines) /\ complete[g] <= LinesIn(hw'[g])
    <3>1. hw'[g] <= LineLen * Len(text[g].lines)
      <4> DEFINE m(h) == LineLen * Len(text[h].lines)
      <4>1. hw[g] <= m(g) /\ end <= m(f) /\ hw'[g] = IF g = f THEN end ELSE hw[g]
        BY <1>3, <1>5, <1>6 DEF MirrorOK
      <4> HIDE DEF m
      <4>2. hw'[g] <= m(g)
        BY <4>1
      <4> QED BY <4>2 DEF m
    <3>2. complete[g] <= LinesIn(hw[g]) /\ complete[g] \in Nat /\ hw[g] \in Nat /\ hw'[g] \in Nat
      BY <1>3, <1>6 DEF MirrorOK
    <3>3. LinesIn(hw[g]) \in Nat /\ LinesIn(hw'[g]) \in Nat /\ LinesIn(hw[g]) <= LinesIn(hw'[g])
      BY <1>7, <3>2, LinesInMonotone
    <3> QED BY <3>1, <3>2, <3>3
  <2>2. \A g \in Files : LinesIn(hw[g])' = LinesIn(hw'[g])
    BY DEF LinesIn
  <2> QED BY <1>2, <1>3, <1>6, <1>8, <2>1, <2>2 DEF MirrorOK, LinesIn
<1>10. Disk'
  BY <1>2, <1>3, <1>8, <1>9 DEF Disk
<1>11. AllOK(handlers)' /\ AllOK(EventsIn(queue))' /\ AllOK(EventsIn(backlog))'
  <2>1. \A ev \in handlers \cup EventsIn(queue) \cup EventsIn(backlog) : EventOK(ev)'
    <3>1. AllOK(handlers \cup EventsIn(queue) \cup EventsIn(backlog))
      BY <1>3 DEF AllOK
    <3>2. ASSUME NEW ev, EventOK(ev) PROVE EventOK(ev)'
      <4>1. ev.file \in Files /\ ev.end \in Nat /\ ev.end <= hw[ev.file] /\ hw[ev.file] <= hw'[ev.file]
            /\ hw[ev.file] \in Nat /\ hw'[ev.file] \in Nat
        BY <1>3, <1>6, <1>7, <3>2 DEF EventOK
      <4> QED BY <1>8, <4>1 DEF EventOK
    <3> QED BY <3>1, <3>2 DEF AllOK
  <2>2. EventOK(Event(f, end))'
    <3>1. Event(f, end).file = f /\ Event(f, end).end = end
      BY DEF Event
    <3>2. hw'[f] = end
      BY <1>6
    <3> QED BY <1>5, <1>8, <3>1, <3>2 DEF EventOK
  <2>3. EventsIn(queue)' = EventsIn(queue) /\ EventsIn(backlog)' = EventsIn(backlog)
    BY <1>2 DEF EventsIn
  <2> QED BY <1>1, <2>1, <2>2, <2>3 DEF AllOK
<1>12. handlers' \subseteq EventType'
  BY <1>1, <1>3, <1>5, <1>8 DEF Event, EventType
<1>13. Calls' /\ Queued' /\ Swept'
  BY <1>2, <1>3, <1>8, <1>11, <1>12 DEF Calls, Queued, Swept
<1> QED BY <1>2, <1>10, <1>13, InvFacts DEF IInv

LEMMA OfferEventInv == ASSUME IInv, OfferEvent PROVE IInv'
<1>1. PICK ev \in handlers :
        /\ handlers' = handlers \ {ev}
        /\ IF Len(queue) < Buffer
           THEN queue' = Append(queue, ev) /\ UNCHANGED dirty
           ELSE /\ \E d \in {TRUE, dirty[ev.file]} : dirty' = [dirty EXCEPT ![ev.file] = d]
                /\ UNCHANGED queue
        /\ UNCHANGED <<text, hw, rows, complete, backlog, phase, faults>>
  BY DEF OfferEvent
<1>2. /\ handlers \subseteq EventType /\ queue \in Seq(EventType) /\ Len(queue) \in Nat /\ Len(queue) <= Buffer
      /\ backlog \in Seq(EventType) /\ dirty \in [Files -> BOOLEAN] /\ Disk
  BY InvFacts
<1>3. ev \in EventType /\ ev.file \in Files
  BY <1>2 DEF EventType
<1>4. queue' \in Seq(EventType) /\ Len(queue') <= Buffer /\ EventsIn(queue') \subseteq EventsIn(queue) \cup handlers
  <2>1. CASE queue' = queue
    BY <1>2, <2>1
  <2>2. CASE queue' = Append(queue, ev) /\ Len(queue) < Buffer
    <3>1. /\ Append(queue, ev) \in Seq(EventType) /\ Len(Append(queue, ev)) = Len(queue) + 1
          /\ EventsIn(Append(queue, ev)) \subseteq EventsIn(queue) \cup {ev}
      BY <1>2, <1>3, AppendIn
    <3>2. Len(queue) + 1 <= Buffer
      BY <1>2, <2>2, BufferAssumption
    <3> QED BY <2>2, <3>1, <3>2
  <2> QED BY <1>1, <2>1, <2>2
<1>5. dirty' \in [Files -> BOOLEAN]
  BY <1>1, <1>2, <1>3
<1>6. Disk'
  BY <1>1, <1>2, <1>5, DiskKept
<1>7. Calls' /\ Queued' /\ Swept'
  BY <1>1, <1>2, <1>4, FlightKept
<1> QED BY <1>1, <1>6, <1>7, InvFacts DEF IInv

LEMMA SweepInv == ASSUME IInv, Sweep PROVE IInv'
<1>1. /\ backlog' = LaggingEvents /\ phase' = "run"
      /\ text' = text /\ hw' = hw /\ dirty' = dirty /\ rows' = rows /\ complete' = complete
      /\ handlers' = handlers /\ queue' = queue
  BY DEF Sweep, disk
<1>2. Disk'
  BY <1>1, InvFacts, DiskKept
<1>3. LaggingEvents \in Seq(EventType) /\ AllOK(EventsIn(LaggingEvents))
  BY InvFacts, LaggingIs
<1>4. EventType' = EventType
  BY <1>1, SameText
<1>5. Calls' /\ Queued' /\ backlog' \in Seq(EventType)'
  BY <1>1, <1>3, <1>4, InvFacts DEF Calls, Queued, AllOK, EventsIn, EventOK, Files
<1>6. AllOK(EventsIn(backlog))'
  <2>1. EventsIn(backlog)' = EventsIn(LaggingEvents)
    BY <1>1 DEF EventsIn
  <2> QED BY <1>1, <1>3, <2>1 DEF AllOK, EventOK, Files
<1> QED BY <1>1, <1>2, <1>5, <1>6, InvFacts DEF IInv, Swept

\* The transaction of an event in flight.
LEMMA AppliedDisk ==
  ASSUME IInv, NEW ev, EventOK(ev), Applied(ev), text' = text
  PROVE  Disk' /\ hw' = hw
<1>1. TextOK /\ MirrorOK /\ Sound(rows, complete) /\ dirty \in [Files -> BOOLEAN]
  BY InvFacts
<1>2. /\ Sound(rows', complete') /\ complete' \in [Files -> Nat] /\ hw' = hw
      /\ \A f \in Files : complete'[f] <= LinesIn(hw[f])
  BY <1>1, AppliedSound
<1>3. Files' = Files /\ (Sound(rows, complete)' <=> Sound(rows', complete'))
  BY SameText
<1>4. MirrorOK'
  BY <1>1, <1>2, <1>3 DEF MirrorOK, LinesIn
<1>5. dirty' \in [Files -> BOOLEAN]
  BY <1>1 DEF Applied
<1> QED BY <1>2, <1>3, <1>4, <1>5 DEF Disk

LEMMA FailedDisk ==
  ASSUME IInv, NEW ev, EventOK(ev), Failed(ev), text' = text
  PROVE  Disk' /\ hw' = hw
<1>1. dirty \in [Files -> BOOLEAN] /\ Disk /\ ev.file \in Files
  BY InvFacts DEF EventOK
<1>2. dirty' \in [Files -> BOOLEAN] /\ hw' = hw /\ rows' = rows /\ complete' = complete
  BY <1>1 DEF Failed
<1> QED BY <1>1, <1>2, DiskKept

\* The next live event, and the next one of the backlog.
LEMMA NextLive ==
  ASSUME IInv, queue # <<>>
  PROVE  /\ EventOK(Head(queue)) /\ Tail(queue) \in Seq(EventType) /\ Len(Tail(queue)) <= Buffer
         /\ EventsIn(Tail(queue)) \subseteq EventsIn(queue)
<1>1. queue \in Seq(EventType) /\ Len(queue) \in Nat /\ Len(queue) <= Buffer /\ AllOK(EventsIn(queue))
  BY InvFacts
<1>2. /\ Head(queue) \in EventsIn(queue) /\ Tail(queue) \in Seq(EventType)
      /\ EventsIn(Tail(queue)) \subseteq EventsIn(queue) /\ Len(Tail(queue)) <= Len(queue)
  BY <1>1, HeadIn
<1>3. Len(Tail(queue)) \in Nat
  BY <1>2
<1> QED BY <1>1, <1>2, <1>3, BufferAssumption DEF AllOK

LEMMA NextSwept ==
  ASSUME IInv, backlog # <<>>
  PROVE  /\ EventOK(Head(backlog)) /\ Tail(backlog) \in Seq(EventType)
         /\ EventsIn(Tail(backlog)) \subseteq EventsIn(backlog)
<1>1. backlog \in Seq(EventType) /\ AllOK(EventsIn(backlog))
  BY InvFacts
<1>2. /\ Head(backlog) \in EventsIn(backlog) /\ Tail(backlog) \in Seq(EventType)
      /\ EventsIn(Tail(backlog)) \subseteq EventsIn(backlog)
  BY <1>1, HeadIn
<1> QED BY <1>1, <1>2 DEF AllOK

LEMMA ProcessLiveInv == ASSUME IInv, ProcessLive PROVE IInv'
<1>1. /\ queue # <<>> /\ Applied(Head(queue)) /\ queue' = Tail(queue)
      /\ text' = text /\ handlers' = handlers /\ backlog' = backlog /\ phase' = phase
  BY DEF ProcessLive
<1>2. Disk' /\ hw' = hw
  BY <1>1, NextLive, AppliedDisk
<1>3. Calls' /\ Queued' /\ Swept'
  <2>1. /\ Tail(queue) \in Seq(EventType) /\ Len(Tail(queue)) <= Buffer
        /\ EventsIn(Tail(queue)) \subseteq EventsIn(queue) \cup handlers
        /\ backlog \in Seq(EventType)
    BY <1>1, NextLive, InvFacts
  <2> QED BY <1>1, <1>2, <2>1, FlightKept
<1> QED BY <1>1, <1>2, <1>3, InvFacts DEF IInv

LEMMA ProcessBacklogInv == ASSUME IInv, ProcessBacklog PROVE IInv'
<1>1. /\ backlog # <<>> /\ Applied(Head(backlog)) /\ backlog' = Tail(backlog)
      /\ text' = text /\ handlers' = handlers /\ queue' = queue /\ phase' = phase
  BY DEF ProcessBacklog
<1>2. Disk' /\ hw' = hw
  BY <1>1, NextSwept, AppliedDisk
<1>3. Calls' /\ Queued' /\ Swept'
  <2>1. /\ Tail(backlog) \in Seq(EventType) /\ EventsIn(Tail(backlog)) \subseteq EventsIn(backlog)
        /\ queue \in Seq(EventType) /\ Len(queue) <= Buffer
    BY <1>1, NextSwept, InvFacts
  <2> QED BY <1>1, <1>2, <2>1, FlightKept
<1> QED BY <1>1, <1>2, <1>3, InvFacts DEF IInv

LEMMA ProcessFailsInv == ASSUME IInv, ProcessFails PROVE IInv'
<1>1. text' = text /\ handlers' = handlers /\ phase' = phase
  BY DEF ProcessFails
<1>2. CASE queue # <<>> /\ Failed(Head(queue)) /\ queue' = Tail(queue) /\ UNCHANGED backlog
  <2>1. Disk' /\ hw' = hw
    BY <1>1, <1>2, NextLive, FailedDisk
  <2>2. /\ Tail(queue) \in Seq(EventType) /\ Len(Tail(queue)) <= Buffer
        /\ EventsIn(Tail(queue)) \subseteq EventsIn(queue) \cup handlers
        /\ backlog \in Seq(EventType)
    BY <1>2, NextLive, InvFacts
  <2>3. Calls' /\ Queued' /\ Swept'
    BY <1>1, <1>2, <2>1, <2>2, FlightKept
  <2> QED BY <1>1, <2>1, <2>3, InvFacts DEF IInv
<1>3. CASE backlog # <<>> /\ Failed(Head(backlog)) /\ backlog' = Tail(backlog) /\ UNCHANGED queue
  <2>1. Disk' /\ hw' = hw
    BY <1>1, <1>3, NextSwept, FailedDisk
  <2>2. /\ Tail(backlog) \in Seq(EventType) /\ EventsIn(Tail(backlog)) \subseteq EventsIn(backlog)
        /\ queue \in Seq(EventType) /\ Len(queue) <= Buffer
    BY <1>3, NextSwept, InvFacts
  <2>3. Calls' /\ Queued' /\ Swept'
    BY <1>1, <1>3, <2>1, <2>2, FlightKept
  <2> QED BY <1>1, <2>1, <2>3, InvFacts DEF IInv
<1> QED BY <1>2, <1>3 DEF ProcessFails

\* What drops events, or changes the phase alone.
LEMMA OthersInv ==
  ASSUME IInv, Stop \/ Drained \/ DrainTimeout \/ Crash \/ Start \/ UNCHANGED vars
  PROVE  IInv'
<1>1. /\ text' = text /\ hw' = hw /\ rows' = rows /\ complete' = complete
      /\ handlers' \subseteq handlers /\ queue' \in {queue, <<>>} /\ backlog' \in {backlog, <<>>}
      /\ phase' \in {phase, "start", "stop", "down"}
  BY DEF Stop, Drained, DrainTimeout, Crash, Start, vars, disk, memory, AFault
<1>2. dirty' \in [Files -> BOOLEAN]
  <2>1. dirty \in [Files -> BOOLEAN]
    BY InvFacts
  <2>2. CASE dirty' = dirty
    BY <2>1, <2>2
  <2>3. CASE dirty' = [f \in Files |-> dirty[f] \/ \E i \in DOMAIN queue : queue[i].file = f]
    <3>1. \A f \in Files : dirty[f] \/ (\E i \in DOMAIN queue : queue[i].file = f) \in BOOLEAN
      OBVIOUS
    <3> QED BY <2>3, <3>1
  <2> QED BY <2>2, <2>3 DEF Stop, Drained, DrainTimeout, Crash, Start, vars, disk, memory
<1>3. Disk'
  BY <1>1, <1>2, InvFacts, DiskKept
<1>4. /\ queue' \in Seq(EventType) /\ Len(queue') <= Buffer /\ EventsIn(queue') \subseteq EventsIn(queue) \cup handlers
      /\ backlog' \in Seq(EventType) /\ EventsIn(backlog') \subseteq EventsIn(backlog)
  BY <1>1, InvFacts, NoEvents
<1>5. Calls' /\ Queued' /\ Swept'
  BY <1>1, <1>4, FlightKept
<1> QED BY <1>1, <1>3, <1>5, InvFacts DEF IInv

LEMMA StepInv == IInv /\ [Next]_vars => IInv'
<1> SUFFICES ASSUME IInv, [Next]_vars PROVE IInv'
  OBVIOUS
<1>1. CASE AppendFile
  BY <1>1, AppendFileInv
<1>2. CASE OfferEvent
  BY <1>2, OfferEventInv
<1>3. CASE Sweep
  BY <1>3, SweepInv
<1>4. CASE ProcessLive
  BY <1>4, ProcessLiveInv
<1>5. CASE ProcessBacklog
  BY <1>5, ProcessBacklogInv
<1>6. CASE ProcessFails
  BY <1>6, ProcessFailsInv
<1>7. CASE Stop \/ Drained \/ DrainTimeout \/ Crash \/ Start \/ UNCHANGED vars
  BY <1>7, OthersInv
<1> QED BY <1>1, <1>2, <1>3, <1>4, <1>5, <1>6, <1>7 DEF Next, Handler, Consumer, Fault

LEMMA SoundIs == IInv => RowsSound
<1> SUFFICES ASSUME IInv PROVE RowsSound
  OBVIOUS
<1>1. /\ TextOK /\ Typed(rows) /\ OnePlace(rows) /\ OneRow(rows) /\ AllShown(rows, complete)
      /\ rows \subseteq RowType
  BY InvFacts DEF Sound, Placing, Typed
<1>2. TypeOK
  BY <1>1, InvFacts DEF TypeOK, MirrorOK
<1>3. PlacedOnce
  BY <1>1 DEF PlacedOnce, OnePlace
<1>4. OneRowPerMessage
  BY <1>1 DEF OneRowPerMessage, OneRow
<1>5. ASSUME NEW f \in Files, NEW n \in 1..complete[f] PROVE Represented(f, n)
  <2>1. Shown(rows, f, n)
    BY <1>1 DEF AllShown
  <2>2. CASE LineAt(f, n).bad \/ LineAt(f, n).key = NoKey
    BY <2>1, <2>2 DEF Shown, Represented, LineAt
  <2>3. CASE ~(LineAt(f, n).bad \/ LineAt(f, n).key = NoKey)
    <3>1. PICK r \in rows : /\ Keyed(r) /\ KeyOf(r) = LineAt(f, n).key
                            /\ \A p \in rows : p.file = f /\ ~LineOf(p).bad => r.log = p.log
      BY <2>1, <2>3 DEF Shown
    <3>2. ASSUME f \in Placed(rows) PROVE r.log = LogicalOf(rows, f)
      <4>1. PICK p \in rows : p.file = f /\ ~LineOf(p).bad
        BY <3>2, PlacedHas
      <4> QED BY <1>1, <3>1, <4>1, LogicalIs
    <3> QED BY <2>3, <3>1, <3>2 DEF Represented, LineAt
  <2> QED BY <2>2, <2>3
<1> QED BY <1>2, <1>3, <1>4, <1>5 DEF RowsSound, NoMessageLost

\* In whatever order files are appended to and indexed, and whatever fails, the
\* types hold, the rows of a file agree on where it belongs, a session shows a
\* message once, and no line below a complete offset is without a row.
\* (index.go, unify.go, consumer.go)
THEOREM RowsAreSound == Spec => []RowsSound
<1>1. Init => IInv
  BY InitInv
<1>2. IInv /\ [Next]_vars => IInv'
  BY StepInv
<1>3. IInv => RowsSound
  BY SoundIs
<1> QED BY <1>1, <1>2, <1>3, PTL DEF Spec

=============================================================================
