--------------------------- MODULE SeshStoreProofs ---------------------------
(***************************************************************************)
(* Proofs about SeshStore for every alphabet, window, body limit, file     *)
(* length and number of generations.                                       *)
(***************************************************************************)
EXTENDS SeshStore, WellFoundedInduction, TLAPS

-----------------------------------------------------------------------------
(* Lemmas about the operators of the model *)

\* A nonempty set of generation numbers has a highest one.
LEMMA HasHighest ==
  ASSUME NEW n \in Nat, NEW S, S \subseteq 1..n, S # {}
  PROVE  \E g \in S : \A h \in S : h <= g
<1> DEFINE T == {n - g : g \in S}
<1>1. T \subseteq Nat /\ T # {}
  <2>1. ASSUME NEW g \in S PROVE n - g \in Nat
    BY 1..n \subseteq Nat
  <2>2. T # {}
    <3>1. PICK g \in S : TRUE
      OBVIOUS
    <3>2. n - g \in T
      OBVIOUS
    <3> QED BY <3>2
  <2> QED BY <2>1, <2>2
<1>2. PICK x \in T : \A y \in T : ~ (<<y, x>> \in OpToRel(<, Nat))
  BY <1>1, WFMin, NatLessThanWellFounded
<1>3. \A y \in T : ~ (y < x)
  BY <1>1, <1>2 DEF OpToRel
<1>4. PICK g \in S : x = n - g
  OBVIOUS
<1>5. ASSUME NEW h \in S PROVE h <= g
  <2>1. n - h \in T
    OBVIOUS
  <2> QED BY <2>1, <1>3, <1>4
<1> QED BY <1>5

\* selectGeneration routes a matched claim to a generation that records it.
LEMMA HighestMatchExists ==
  ASSUME TypeOK, NEW fp, Matching(fp) # {}
  PROVE  /\ HighestMatch(fp) \in DOMAIN files
         /\ files[HighestMatch(fp)].fp = fp
<1>1. DOMAIN files = 1..Len(files) /\ Len(files) \in Nat
  BY DEF TypeOK
<1>2. Matching(fp) \subseteq 1..Len(files)
  BY <1>1 DEF Matching
<1>3. \E g \in Matching(fp) : \A h \in Matching(fp) : h <= g
  BY <1>1, <1>2, HasHighest
<1>4. HighestMatch(fp) \in Matching(fp)
  BY <1>3 DEF HighestMatch
<1> QED BY <1>4 DEF Matching

\* A function on an initial segment of the naturals is a sequence of that length.
LEMMA FunctionIsSeq ==
  ASSUME NEW n \in Nat, NEW S, NEW f \in [1..n -> S]
  PROVE  f \in Seq(S) /\ Len(f) = n
OBVIOUS

\* Sequences of one element, longer by one, and with one element replaced.
LEMMA OneSeq ==
  ASSUME NEW S, NEW x \in S
  PROVE  /\ <<x>> \in Seq(S) /\ Len(<<x>>) = 1
         /\ DOMAIN <<x>> = {1} /\ <<x>>[1] = x
OBVIOUS

LEMMA AppendSeq ==
  ASSUME NEW S, NEW s \in Seq(S), NEW x \in S
  PROVE  /\ Append(s, x) \in Seq(S) /\ Len(Append(s, x)) = Len(s) + 1
         /\ DOMAIN Append(s, x) = 1..(Len(s) + 1)
         /\ \A i \in DOMAIN s : Append(s, x)[i] = s[i]
         /\ Append(s, x)[Len(s) + 1] = x
OBVIOUS

LEMMA ReplaceSeq ==
  ASSUME NEW S, NEW s \in Seq(S), NEW k \in DOMAIN s, NEW x \in S
  PROVE  /\ [s EXCEPT ![k] = x] \in Seq(S)
         /\ Len([s EXCEPT ![k] = x]) = Len(s)
         /\ DOMAIN [s EXCEPT ![k] = x] = DOMAIN s
         /\ [s EXCEPT ![k] = x][k] = x
         /\ \A i \in DOMAIN s : i # k => [s EXCEPT ![k] = x][i] = s[i]
OBVIOUS

\* A recorded fingerprint is never the absent one.
LEMMA FPIsRecorded ==
  ASSUME NEW bytes PROVE FP(bytes) # NoFP
<1>1. DOMAIN FP(bytes) = 1..Window
  BY DEF FP
<1>2. 1 \in 1..Window
  BY WindowAssumption
<1>3. DOMAIN NoFP = {}
  BY DEF NoFP
<1> QED BY <1>1, <1>2, <1>3

\* The fingerprint of a file with a full window is one.
LEMMA FPType ==
  ASSUME NEW bytes \in Seq(Byte), Window <= Len(bytes)
  PROVE  FP(bytes) \in FPs
<1>1. \A i \in 1..Window : bytes[i] \in Byte
  BY WindowAssumption
<1> QED BY <1>1 DEF FP, FPs

-----------------------------------------------------------------------------
(* The inductive invariant *)

\* A PUT in progress has an existing generation as its target.
Routed == op.pc \in PutStages => op.tgt \in DOMAIN files

\* Between the write and the record, the mirror holds the request's bytes.
Written ==
  op.pc \in {"fprint", "record"} =>
    /\ ~Target.poisoned
    /\ Target.hw <= op.hw /\ op.hw <= Len(mirror[op.tgt])
    /\ Stored(op.hw)

\* The fingerprint is settled before the high-water crosses the window.
Settled ==
  op.pc = "record" /\ op.hw >= Window => Target.fp = FP(mirror[op.tgt])

\* What the acknowledgement will say is already true when it is decided.
Recorded ==
  op.pc = "facts" \/ (op.pc = "done" /\ op.code = "ack") =>
    op.tgt \in DOMAIN files /\ op.hw = Target.hw /\ Stored(op.hw)

\* The second statement of handleDivergence still sees the divergence.
Opening == op.pc = "open" => Diverges

\* DropFile has written its audit row, then has deleted every row.
Dropping ==
  /\ op.pc = "drop_rows" =>
       dropLog # <<>> /\ dropLog[Len(dropLog)] = Len(files)
  /\ op.pc = "drop_mirrors" => files = <<>>

IInv == /\ TypeOK /\ HighWaterBacked /\ FingerprintAuthoritative
        /\ Routed /\ Written /\ Settled /\ Recorded
        /\ Opening /\ OpenedForDivergence /\ Dropping

\* The parts of IInv that speak of the operation in progress.
OpInv == /\ Routed /\ Written /\ Settled /\ Recorded
         /\ Opening /\ OpenedForDivergence /\ Dropping

\* An operation that is over, with neither a 200 nor a new generation to show
\* for it, has nothing left to account for.
LEMMA QuietOp ==
  ASSUME op'.pc \in {"idle", "done"},
         op'.code \notin {"ack", "generation_opened"}
  PROVE  OpInv'
BY DEF OpInv, Routed, Written, Settled, Recorded, Opening, OpenedForDivergence,
       Dropping, PutStages

\* What holds of the target of a PUT in progress.
LEMMA TargetFacts ==
  ASSUME IInv, op.pc \in PutStages
  PROVE  /\ op.tgt \in DOMAIN files /\ op.tgt \in 1..MaxGen
         /\ Target \in Row /\ Target.hw \in Nat
         /\ mirror[op.tgt] \in Seq(Byte)
         /\ Target.hw <= Len(mirror[op.tgt])
<1> USE DEF IInv, TypeOK
<1>1. op.tgt \in DOMAIN files
  BY DEF Routed
<1>2. DOMAIN files = 1..Len(files) /\ Len(files) \in Nat /\ MaxGen \in Nat
  BY BoundAssumption
<1>3. op.tgt \in 1..MaxGen
  BY <1>1, <1>2
<1>4. Target \in Row
  BY <1>1 DEF Target
<1>5. Target.hw \in Nat
  BY <1>4 DEF Row
<1>6. mirror[op.tgt] \in Seq(Byte)
  BY <1>3
<1>7. Target.hw <= Len(mirror[op.tgt])
  BY <1>1 DEF Target, HighWaterBacked
<1> QED BY <1>1, <1>3, <1>4, <1>5, <1>6, <1>7

\* Replies that change nothing durable.
LEMMA ReplyStep ==
  ASSUME IInv, UNCHANGED <<files, mirror, dropLog>>, op' \in Op,
         op'.pc \in {"idle", "done"}, op'.code \notin {"ack", "generation_opened"}
  PROVE  IInv'
<1>1. OpInv'
  BY QuietOp
<1>2. TypeOK'
  BY DEF IInv, TypeOK
<1>3. HighWaterBacked' /\ FingerprintAuthoritative'
  BY DEF IInv, HighWaterBacked, FingerprintAuthoritative
<1> QED BY <1>1, <1>2, <1>3 DEF IInv, OpInv

\* A new generation starts empty and leaves the others alone (createGeneration).
LEMMA AppendRow ==
  ASSUME TypeOK, HighWaterBacked, FingerprintAuthoritative, Len(files) < MaxGen,
         NEW r \in Row, r.hw = 0, files' = Append(files, r), UNCHANGED mirror
  PROVE  /\ files' \in Seq(Row) /\ Len(files') = Len(files) + 1
         /\ Len(files') <= MaxGen
         /\ DOMAIN files' = 1..(Len(files) + 1)
         /\ \A g \in DOMAIN files : files'[g] = files[g]
         /\ files'[Len(files) + 1] = r
         /\ HighWaterBacked' /\ FingerprintAuthoritative'
<1>1. /\ files \in Seq(Row) /\ DOMAIN files = 1..Len(files) /\ Len(files) \in Nat
      /\ MaxGen \in Nat /\ mirror \in [1..MaxGen -> Seq(Byte)]
  BY BoundAssumption DEF TypeOK
<1>2. /\ files' \in Seq(Row) /\ Len(files') = Len(files) + 1
      /\ DOMAIN files' = 1..(Len(files) + 1)
      /\ \A g \in DOMAIN files : files'[g] = files[g]
      /\ files'[Len(files) + 1] = r
  BY <1>1, AppendSeq
<1>3. Len(files') <= MaxGen
  BY <1>1, <1>2
<1>4. mirror[Len(files) + 1] \in Seq(Byte)
  BY <1>1
<1>5. ASSUME NEW g \in DOMAIN files'
      PROVE  /\ files'[g].hw <= Len(mirror'[g])
             /\ files'[g].hw >= Window => files'[g].fp = FP(mirror'[g])
  <2>1. CASE g = Len(files) + 1
    BY <2>1, <1>2, <1>4, WindowAssumption
  <2>2. CASE g # Len(files) + 1
    <3>1. g \in DOMAIN files
      BY <2>2, <1>1, <1>2
    <3> QED BY <3>1, <1>2 DEF HighWaterBacked, FingerprintAuthoritative
  <2> QED BY <2>1, <2>2
<1>6. HighWaterBacked' /\ FingerprintAuthoritative'
  BY <1>5 DEF HighWaterBacked, FingerprintAuthoritative
<1> QED BY <1>2, <1>3, <1>6

\* A statement that rewrites one row within what its mirror backs.
LEMMA UpdateRow ==
  ASSUME TypeOK, HighWaterBacked, FingerprintAuthoritative, UNCHANGED mirror,
         NEW k \in DOMAIN files, NEW r \in Row, files' = [files EXCEPT ![k] = r],
         r.hw <= Len(mirror[k]),
         r.hw >= Window => r.fp = FP(mirror[k])
  PROVE  /\ files' \in Seq(Row) /\ Len(files') = Len(files)
         /\ DOMAIN files' = DOMAIN files /\ files'[k] = r
         /\ \A g \in DOMAIN files : g # k => files'[g] = files[g]
         /\ HighWaterBacked' /\ FingerprintAuthoritative'
<1>1. files \in Seq(Row)
  BY DEF TypeOK
<1>2. /\ files' \in Seq(Row) /\ Len(files') = Len(files)
      /\ DOMAIN files' = DOMAIN files /\ files'[k] = r
      /\ \A g \in DOMAIN files : g # k => files'[g] = files[g]
  BY <1>1, ReplaceSeq
<1>3. HighWaterBacked' /\ FingerprintAuthoritative'
  BY <1>2 DEF HighWaterBacked, FingerprintAuthoritative
<1> QED BY <1>2, <1>3

\* What an operation looks like after a reply, and after moving on.
LEMMA ReplyFacts ==
  ASSUME op \in Op, NEW c \in Codes, NEW t \in Nat, NEW h \in Nat, Reply(c, t, h)
  PROVE  /\ op' \in Op /\ op'.pc = "done" /\ op'.code = c
         /\ op'.tgt = t /\ op'.hw = h /\ op'.off = op.off /\ op'.body = op.body
BY DEF Reply, Op

LEMMA IdleFacts ==
  Idle \in Op /\ Idle.pc = "idle" /\ Idle.code = "none"
<1>1. <<>> \in Seq(Byte)
  OBVIOUS
<1> DEFINE e == <<>>
<1>2. e \in Seq(Byte) /\ Idle = [pc |-> "idle", off |-> 0, body |-> e, tgt |-> 0,
                                 hw |-> 0, code |-> "none"]
  BY <1>1 DEF Idle
<1> HIDE DEF e
<1> QED BY <1>2 DEF Op, Codes

LEMMA StageFacts ==
  ASSUME op \in Op, NEW pc \in PutStages \cup DropStages, NEW h \in Nat,
         op' = [op EXCEPT !.pc = pc, !.hw = h]
  PROVE  /\ op' \in Op /\ op'.pc = pc /\ op'.hw = h /\ op'.tgt = op.tgt
         /\ op'.off = op.off /\ op'.body = op.body /\ op'.code = op.code
BY DEF Op

\* Rows with one field changed.
LEMMA RowFields ==
  ASSUME NEW r \in Row
  PROVE  /\ \A v \in FPs \cup {NoFP} :
              /\ [r EXCEPT !.fp = v] \in Row /\ [r EXCEPT !.fp = v].fp = v
              /\ [r EXCEPT !.fp = v].hw = r.hw
              /\ [r EXCEPT !.fp = v].poisoned = r.poisoned
              /\ [r EXCEPT !.fp = v].driven = r.driven
         /\ \A v \in BOOLEAN :
              /\ [r EXCEPT !.pending = v] \in Row
              /\ [r EXCEPT !.pending = v].fp = r.fp
              /\ [r EXCEPT !.pending = v].hw = r.hw
              /\ [r EXCEPT !.pending = v].poisoned = r.poisoned
              /\ [r EXCEPT !.pending = v].driven = r.driven
         /\ \A v \in Nat :
              /\ [r EXCEPT !.hw = v, !.pending = FALSE] \in Row
              /\ [r EXCEPT !.hw = v, !.pending = FALSE].fp = r.fp
              /\ [r EXCEPT !.hw = v, !.pending = FALSE].hw = v
              /\ [r EXCEPT !.hw = v, !.pending = FALSE].poisoned = r.poisoned
              /\ [r EXCEPT !.hw = v, !.pending = FALSE].driven = r.driven
         /\ /\ [r EXCEPT !.poisoned = TRUE] \in Row
            /\ [r EXCEPT !.poisoned = TRUE].fp = r.fp
            /\ [r EXCEPT !.poisoned = TRUE].hw = r.hw
            /\ [r EXCEPT !.poisoned = TRUE].poisoned
         /\ r.hw \in Nat
BY DEF Row

-----------------------------------------------------------------------------
(* One lemma per action *)

\* Every way selectGeneration ends keeps the invariant.
LEMMA BeginPutStep ==
  ASSUME IInv, NEW fp \in Claims \cup {NoFP}, NEW off \in Nat,
         NEW body \in Seq(Byte), BeginPut(fp, off, body)
  PROVE  IInv'
<1>0. /\ fp \in FPs \cup {NoFP} /\ UNCHANGED <<mirror, dropLog>>
      /\ DOMAIN files = 1..Len(files) /\ Len(files) \in Nat /\ MaxGen \in Nat
  BY ClaimsAssumption, BoundAssumption DEF BeginPut, IInv, TypeOK
<1>t. /\ files \in Seq(Row) /\ Len(files) <= MaxGen
      /\ mirror \in [1..MaxGen -> Seq(Byte)] /\ dropLog \in Seq(Nat)
  BY DEF IInv, TypeOK
<1>i. HighWaterBacked /\ FingerprintAuthoritative /\ TypeOK
  BY DEF IInv
<1>a. NewRow(fp, FALSE) \in Row
  BY <1>0 DEF NewRow, Row
<1>1. CASE SelectFirst(fp, off, body)
  <2>0. 1 <= MaxGen
    BY <1>1, <1>0 DEF SelectFirst
  <2>1. files' = <<NewRow(fp, FALSE)>>
    BY <1>1 DEF SelectFirst
  <2>2. files' \in Seq(Row) /\ Len(files') = 1 /\ DOMAIN files' = {1}
    BY <2>1, <1>a, OneSeq
  <2>3. op' \in Op /\ op'.pc = "route" /\ op'.tgt = 1
    BY <1>1 DEF SelectFirst, Locked, Op, PutStages, Codes
  <2>4. TypeOK'
    BY <2>0, <2>2, <2>3, <1>0, <1>t DEF TypeOK
  <2>5. files'[1].hw = 0
    BY <2>1 DEF NewRow
  <2>6. HighWaterBacked'
    BY <2>0, <2>2, <2>5, <1>0, <1>t DEF HighWaterBacked
  <2>7. FingerprintAuthoritative'
    BY <2>2, <2>5, WindowAssumption DEF FingerprintAuthoritative
  <2>8. OpInv'
    BY <2>2, <2>3 DEF OpInv, Routed, Written, Settled, Recorded, Opening,
                      OpenedForDivergence, Dropping
  <2> QED BY <2>4, <2>6, <2>7, <2>8 DEF IInv, OpInv
<1>2. CASE SelectExisting(fp, off, body)
  <2>1. Active \in DOMAIN files
    BY <1>2, <1>0 DEF SelectExisting, Active
  <2>2. fp # NoFP => HighestMatch(fp) \in DOMAIN files
    BY <1>2, <1>i, HighestMatchExists DEF SelectExisting
  <2>3. op' \in Op /\ op'.pc = "route" /\ op'.tgt \in DOMAIN files
    BY <1>2, <2>1, <2>2, <1>0 DEF SelectExisting, Locked, Op, PutStages, Codes
  <2>4. UNCHANGED files
    BY <1>2 DEF SelectExisting
  <2>5. TypeOK' /\ HighWaterBacked' /\ FingerprintAuthoritative'
    BY <2>3, <2>4, <1>0, <1>t, <1>i DEF TypeOK, HighWaterBacked, FingerprintAuthoritative
  <2>6. OpInv'
    BY <2>3, <2>4 DEF OpInv, Routed, Written, Settled, Recorded, Opening,
                      OpenedForDivergence, Dropping
  <2> QED BY <2>5, <2>6 DEF IInv, OpInv
<1>3. CASE SelectAdopt(fp, off, body)
  <2>1. /\ Active \in DOMAIN files /\ files[Active].fp = NoFP
        /\ files' = [files EXCEPT ![Active].fp = fp]
    BY <1>3, <1>0 DEF SelectAdopt, Active
  <2>a. files[Active] \in Row
    BY <2>1, <1>t
  <2>2. files[Active] \in Row /\ files[Active].hw \in Nat
    BY <2>a DEF Row
  <2>3. [files[Active] EXCEPT !.fp = fp] \in Row
    BY <2>2, <1>0 DEF Row
  <2>4. /\ files' \in Seq(Row) /\ Len(files') = Len(files)
        /\ DOMAIN files' = DOMAIN files
    BY <2>1, <2>3, <1>t, ReplaceSeq
  <2>5. /\ \A g \in DOMAIN files : files'[g].hw = files[g].hw
        /\ \A g \in DOMAIN files : g # Active => files'[g] = files[g]
    BY <2>1, <2>2, <2>3, <1>t, ReplaceSeq DEF Row
  <2>6. op' \in Op /\ op'.pc = "route" /\ op'.tgt \in DOMAIN files'
    BY <1>3, <2>1, <2>4, <1>0 DEF SelectAdopt, Locked, Op, PutStages, Codes
  <2>7. TypeOK'
    BY <2>4, <2>6, <1>0, <1>t DEF TypeOK
  <2>8. HighWaterBacked'
    BY <2>4, <2>5, <1>0, <1>i DEF HighWaterBacked
  <2>9. ~(files[Active].hw >= Window)
    BY <2>1, <1>i, FPIsRecorded DEF FingerprintAuthoritative
  <2>10. FingerprintAuthoritative'
    BY <2>4, <2>5, <2>9, <1>0, <1>i DEF FingerprintAuthoritative
  <2>11. OpInv'
    BY <2>6 DEF OpInv, Routed, Written, Settled, Recorded, Opening,
                OpenedForDivergence, Dropping
  <2> QED BY <2>7, <2>8, <2>10, <2>11 DEF IInv, OpInv
<1>4. CASE SelectOpen(fp, off, body)
  <2>1. Len(files) < MaxGen /\ files' = Append(files, NewRow(fp, FALSE))
    BY <1>4 DEF SelectOpen
  <2>2. NewRow(fp, FALSE).hw = 0
    BY DEF NewRow
  <2>3. op' \in Op /\ op'.pc = "done" /\ op'.code = "fingerprint_conflict"
    BY <1>4, <1>0 DEF SelectOpen, Locked, Op, Codes, Active
  <2>4. /\ files' \in Seq(Row) /\ Len(files') <= MaxGen
        /\ HighWaterBacked' /\ FingerprintAuthoritative'
    BY <2>1, <2>2, <1>0, <1>a, <1>i, AppendRow
  <2>5. TypeOK'
    BY <2>3, <2>4, <1>0, <1>t DEF TypeOK
  <2>6. OpInv'
    BY <2>3, QuietOp
  <2> QED BY <2>4, <2>5, <2>6 DEF IInv, OpInv
<1>5. CASE SelectFails(fp, off, body)
  <2>1. op' \in Op /\ op'.pc = "done" /\ op'.code = "store_unavailable"
    BY <1>5 DEF SelectFails, Locked, Op, Codes
  <2>2. UNCHANGED <<files, mirror, dropLog>>
    BY <1>5, <1>0 DEF SelectFails
  <2> QED BY <2>1, <2>2, ReplyStep
<1> QED BY <1>1, <1>2, <1>3, <1>4, <1>5 DEF BeginPut

\* Refusals, failed statements and the end of an operation change nothing durable.
LEMMA RefusalStep ==
  ASSUME IInv, RejectPoisoned \/ RejectGap \/ FailStatement \/ Release \/ Crash
  PROVE  IInv'
<1>1. op \in Op /\ op.hw \in Nat
  BY DEF IInv, TypeOK, Op
<1>2. UNCHANGED <<files, mirror, dropLog>>
  BY DEF RejectPoisoned, RejectGap, FailStatement, Release, Crash
<1>3. CASE RejectPoisoned \/ RejectGap \/ FailStatement
  <2>1. op.pc \in PutStages
    BY <1>3 DEF RejectPoisoned, RejectGap, FailStatement, PutStages
  <2>2. op.tgt \in Nat /\ Target.hw \in Nat
    BY <2>1, <1>1, TargetFacts DEF Op
  <2>3. PICK c \in {"poisoned_file", "offset_gap", "store_unavailable"} :
          \E h \in Nat : Reply(c, op.tgt, h)
    <3>1. CASE RejectPoisoned
      BY <2>2, <3>1 DEF RejectPoisoned
    <3>2. CASE RejectGap
      BY <2>2, <3>2 DEF RejectGap
    <3>3. CASE FailStatement
      <4> DEFINE h == IF op.pc \in {"fprint", "record", "facts"} THEN op.hw ELSE Target.hw
      <4>1. h \in Nat /\ Reply("store_unavailable", op.tgt, h)
        BY <1>1, <2>2, <3>3 DEF FailStatement
      <4> QED BY <4>1
    <3> QED BY <1>3, <3>1, <3>2, <3>3
  <2>4. c \in Codes
    BY DEF Codes
  <2>5. op' \in Op /\ op'.pc = "done" /\ op'.code = c
    BY <1>1, <2>2, <2>3, <2>4, ReplyFacts
  <2> QED BY <1>2, <2>5, ReplyStep
<1>4. CASE Release \/ Crash
  <2>1. op' = Idle
    BY <1>4 DEF Release, Crash
  <2>2. op' \in Op /\ op'.pc = "idle" /\ op'.code = "none"
    BY <2>1, IdleFacts
  <2> QED BY <1>2, <2>2, ReplyStep
<1> QED BY <1>3, <1>4

\* The first divergence only sets conflict_pending.
LEMMA FirstDivergenceStep ==
  ASSUME IInv, FirstDivergence PROVE IInv'
<1>1. /\ op.pc \in PutStages /\ UNCHANGED <<mirror, dropLog>>
      /\ files' = [files EXCEPT ![op.tgt].pending = TRUE]
      /\ Reply("byte_conflict", op.tgt, Target.hw)
  BY DEF FirstDivergence, Routable, PutStages
<1>2. /\ op.tgt \in DOMAIN files /\ Target \in Row /\ Target.hw \in Nat
      /\ Target.hw <= Len(mirror[op.tgt]) /\ op.tgt \in Nat /\ op \in Op
      /\ TypeOK /\ HighWaterBacked /\ FingerprintAuthoritative
  BY <1>1, TargetFacts DEF IInv, TypeOK, Op
<1> DEFINE r == [Target EXCEPT !.pending = TRUE]
<1>3. r \in Row /\ r.fp = Target.fp /\ r.hw = Target.hw
  BY <1>2, RowFields
<1>4. files' = [files EXCEPT ![op.tgt] = r]
  BY <1>1 DEF Target
<1>5. r.hw >= Window => r.fp = FP(mirror[op.tgt])
  BY <1>2, <1>3 DEF FingerprintAuthoritative, Target
<1> HIDE DEF r
<1>6. /\ files' \in Seq(Row) /\ Len(files') = Len(files)
      /\ HighWaterBacked' /\ FingerprintAuthoritative'
  BY <1>1, <1>2, <1>3, <1>4, <1>5, UpdateRow
<1>7. op' \in Op /\ op'.pc = "done" /\ op'.code = "byte_conflict"
  BY <1>1, <1>2, ReplyFacts DEF Codes
<1>8. TypeOK'
  BY <1>1, <1>2, <1>6, <1>7 DEF TypeOK
<1>9. OpInv'
  BY <1>7, QuietOp
<1> QED BY <1>6, <1>8, <1>9 DEF IInv, OpInv

\* Poisoning sets a flag on every generation of the fingerprint and no more.
LEMMA PoisonStep ==
  ASSUME IInv, PoisonFingerprint PROVE IInv'
<1>1. /\ op.pc \in PutStages /\ UNCHANGED <<mirror, dropLog>>
      /\ files' = [g \in DOMAIN files |->
                     IF files[g].fp = Target.fp
                     THEN [files[g] EXCEPT !.poisoned = TRUE] ELSE files[g]]
      /\ Reply("poisoned_file", op.tgt, Target.hw)
  BY DEF PoisonFingerprint, Routable, PutStages
<1>2. /\ Target.hw \in Nat /\ op.tgt \in Nat /\ op \in Op
      /\ files \in Seq(Row) /\ Len(files) <= MaxGen
      /\ DOMAIN files = 1..Len(files) /\ Len(files) \in Nat
      /\ TypeOK /\ HighWaterBacked /\ FingerprintAuthoritative
  BY <1>1, TargetFacts DEF IInv, TypeOK, Op
<1>3. DOMAIN files' = 1..Len(files)
  BY <1>1, <1>2
<1>4. ASSUME NEW g \in DOMAIN files
      PROVE  /\ files'[g] \in Row /\ files'[g].fp = files[g].fp
             /\ files'[g].hw = files[g].hw
  <2>1. files[g] \in Row
    BY <1>2
  <2>2. files'[g] = IF files[g].fp = Target.fp
                    THEN [files[g] EXCEPT !.poisoned = TRUE] ELSE files[g]
    BY <1>1
  <2> QED BY <2>1, <2>2, RowFields
<1>5. files' \in [1..Len(files) -> Row]
  BY <1>1, <1>2, <1>3, <1>4
<1>6. files' \in Seq(Row) /\ Len(files') = Len(files)
  BY <1>2, <1>5, FunctionIsSeq
<1>7. HighWaterBacked' /\ FingerprintAuthoritative'
  BY <1>1, <1>2, <1>3, <1>4 DEF HighWaterBacked, FingerprintAuthoritative
<1>8. op' \in Op /\ op'.pc = "done" /\ op'.code = "poisoned_file"
  BY <1>1, <1>2, ReplyFacts DEF Codes
<1>9. TypeOK'
  BY <1>1, <1>2, <1>6, <1>8 DEF TypeOK
<1>10. OpInv'
  BY <1>8, QuietOp
<1> QED BY <1>7, <1>9, <1>10 DEF IInv, OpInv

\* The confirmed divergence clears the flag and is still a divergence after it.
LEMMA ClearPendingStep ==
  ASSUME IInv, ClearPending PROVE IInv'
<1>1. /\ op.pc \in PutStages /\ UNCHANGED <<mirror, dropLog>>
      /\ files' = [files EXCEPT ![op.tgt].pending = FALSE]
      /\ Stage("open") /\ Diverges
  BY DEF ClearPending, Routable, PutStages
<1>2. /\ op.tgt \in DOMAIN files /\ Target \in Row /\ Target.hw \in Nat
      /\ Target.hw <= Len(mirror[op.tgt]) /\ op.hw \in Nat /\ op \in Op
      /\ TypeOK /\ HighWaterBacked /\ FingerprintAuthoritative
  BY <1>1, TargetFacts DEF IInv, TypeOK, Op
<1> DEFINE r == [Target EXCEPT !.pending = FALSE]
<1>3. r \in Row /\ r.fp = Target.fp /\ r.hw = Target.hw
  BY <1>2, RowFields
<1>4. files' = [files EXCEPT ![op.tgt] = r]
  BY <1>1 DEF Target
<1>5. r.hw >= Window => r.fp = FP(mirror[op.tgt])
  BY <1>2, <1>3 DEF FingerprintAuthoritative, Target
<1> HIDE DEF r
<1>6. /\ files' \in Seq(Row) /\ Len(files') = Len(files)
      /\ DOMAIN files' = DOMAIN files /\ files'[op.tgt] = r
      /\ HighWaterBacked' /\ FingerprintAuthoritative'
  BY <1>1, <1>2, <1>3, <1>4, <1>5, UpdateRow
<1>7. /\ op' \in Op /\ op'.pc = "open" /\ op'.tgt = op.tgt
      /\ op'.off = op.off /\ op'.body = op.body
  BY <1>1, <1>2 DEF Stage, Op, PutStages
<1>8. TypeOK'
  BY <1>1, <1>2, <1>6, <1>7 DEF TypeOK
<1>9. Routed'
  BY <1>2, <1>6, <1>7 DEF Routed
<1>10. Opening'
  BY <1>1, <1>3, <1>6, <1>7 DEF Opening, Diverges, Target
<1>11. Written' /\ Settled' /\ Recorded' /\ OpenedForDivergence' /\ Dropping'
  BY <1>7 DEF Written, Settled, Recorded, OpenedForDivergence, Dropping
<1> QED BY <1>6, <1>8, <1>9, <1>10, <1>11 DEF IInv

\* The conflict-driven generation inherits the fingerprint of the one it follows.
LEMMA OpenGenerationStep ==
  ASSUME IInv, OpenGeneration PROVE IInv'
<1>1. /\ op.pc = "open" /\ op.pc \in PutStages /\ UNCHANGED <<mirror, dropLog>>
      /\ files' = Append(files, NewRow(Target.fp, TRUE)) /\ Len(files) < MaxGen
      /\ Reply("generation_opened", Active + 1, 0)
  BY DEF OpenGeneration, PutStages
<1>2. /\ op.tgt \in DOMAIN files /\ Target \in Row
      /\ DOMAIN files = 1..Len(files) /\ Len(files) \in Nat /\ op \in Op
      /\ TypeOK /\ HighWaterBacked /\ FingerprintAuthoritative
  BY <1>1, TargetFacts DEF IInv, TypeOK
<1>3. /\ NewRow(Target.fp, TRUE) \in Row /\ NewRow(Target.fp, TRUE).hw = 0
      /\ NewRow(Target.fp, TRUE).driven /\ NewRow(Target.fp, TRUE).fp = Target.fp
  BY <1>2 DEF Row, NewRow
<1>4. /\ files' \in Seq(Row) /\ Len(files') <= MaxGen
      /\ Len(files') = Len(files) + 1
      /\ \A g \in DOMAIN files : files'[g] = files[g]
      /\ files'[Len(files) + 1] = NewRow(Target.fp, TRUE)
      /\ HighWaterBacked' /\ FingerprintAuthoritative'
  BY <1>1, <1>2, <1>3, AppendRow
<1>5. /\ op' \in Op /\ op'.pc = "done" /\ op'.code = "generation_opened"
      /\ op'.tgt = Len(files) + 1 /\ op'.off = op.off /\ op'.body = op.body
  BY <1>1, <1>2, ReplyFacts DEF Codes, Active
<1>6. TypeOK'
  BY <1>1, <1>4, <1>5 DEF IInv, TypeOK
<1>7. Diverges
  BY <1>1 DEF IInv, Opening
<1>8. OpenedForDivergence'
  <2>1. Active' = op'.tgt /\ Target'.hw = 0 /\ Target'.driven /\ Target'.fp = Target.fp
    BY <1>3, <1>4, <1>5 DEF Active, Target
  <2>2. op.tgt \in 1..(op'.tgt - 1) /\ files'[op.tgt] = files[op.tgt]
    BY <1>2, <1>4, <1>5
  <2>3. \E i \in DOMAIN op'.body : /\ op'.off + i <= files'[op.tgt].hw
                                   /\ mirror'[op.tgt][op'.off + i] # op'.body[i]
    BY <1>1, <1>5, <1>7, <2>2 DEF Diverges, Target
  <2>4. files'[op.tgt].fp = Target'.fp
    BY <2>1, <2>2 DEF Target
  <2> QED BY <2>1, <2>2, <2>3, <2>4 DEF OpenedForDivergence
<1>9. Routed' /\ Written' /\ Settled' /\ Recorded' /\ Opening' /\ Dropping'
  BY <1>5 DEF Routed, Written, Settled, Recorded, Opening, Dropping, PutStages
<1> QED BY <1>4, <1>6, <1>8, <1>9 DEF IInv

-----------------------------------------------------------------------------
(* The append path *)

\* What WriteAt leaves in the file: still bytes, at least as long as both the old
\* file and the end of the write, the old ones up to `from`, the request's after.
LEMMA OverwriteFacts ==
  ASSUME NEW bytes \in Seq(Byte), NEW from \in Nat, NEW to \in Nat,
         op \in Op, op.off <= from, from <= to, to <= ReqEnd, from <= Len(bytes)
  PROVE  /\ Overwrite(bytes, from, to) \in Seq(Byte)
         /\ Len(bytes) <= Len(Overwrite(bytes, from, to))
         /\ to <= Len(Overwrite(bytes, from, to))
         /\ \A i \in 1..from : Overwrite(bytes, from, to)[i] = bytes[i]
         /\ \A i \in 1..to : from < i => Overwrite(bytes, from, to)[i] = op.body[i - op.off]
<1> DEFINE n == IF to > Len(bytes) THEN to ELSE Len(bytes)
           ow == Overwrite(bytes, from, to)
<1>1. /\ n \in Nat /\ Len(bytes) <= n /\ to <= n /\ Len(bytes) \in Nat
      /\ op.off \in Nat /\ op.body \in Seq(Byte) /\ Len(op.body) \in Nat
      /\ to <= op.off + Len(op.body)
  BY DEF Op, ReqEnd
<1>2. ow = [i \in 1..n |-> IF from < i /\ i <= to THEN op.body[i - op.off] ELSE bytes[i]]
  BY DEF Overwrite
<1> HIDE DEF ow
<1>3. ASSUME NEW i \in 1..n PROVE ow[i] \in Byte
  <2>1. CASE from < i /\ i <= to
    <3>1. i - op.off \in 1..Len(op.body)
      BY <2>1, <1>1
    <3>2. op.body[i - op.off] \in Byte
      BY <3>1, <1>1
    <3> QED BY <2>1, <3>2, <1>2
  <2>2. CASE ~(from < i /\ i <= to)
    <3>1. i \in 1..Len(bytes)
      BY <2>2, <1>1
    <3>2. bytes[i] \in Byte
      BY <3>1
    <3> QED BY <2>2, <3>2, <1>2
  <2> QED BY <2>1, <2>2
<1>4. ow \in [1..n -> Byte]
  BY <1>2, <1>3
<1> HIDE DEF n
<1>5. ow \in Seq(Byte) /\ Len(ow) = n
  BY <1>1, <1>4, FunctionIsSeq
<1>6. \A i \in 1..from : ow[i] = bytes[i]
  BY <1>1, <1>2
<1>7. \A i \in 1..to : from < i => ow[i] = op.body[i - op.off]
  BY <1>1, <1>2
<1> QED BY <1>1, <1>5, <1>6, <1>7 DEF ow

\* Writing above the high-water leaves every acknowledged byte where it was, so
\* what the rows promise still holds.
LEMMA WriteAbove ==
  ASSUME IInv, Routable, UNCHANGED files, NEW to \in Nat,
         Target.hw <= to, to <= ReqEnd,
         mirror' = [mirror EXCEPT ![op.tgt] = Overwrite(mirror[op.tgt], Target.hw, to)]
  PROVE  /\ mirror' \in [1..MaxGen -> Seq(Byte)]
         /\ mirror'[op.tgt] = Overwrite(mirror[op.tgt], Target.hw, to)
         /\ to <= Len(mirror'[op.tgt])
         /\ \A i \in 1..Target.hw : mirror'[op.tgt][i] = mirror[op.tgt][i]
         /\ \A i \in 1..to : Target.hw < i => mirror'[op.tgt][i] = op.body[i - op.off]
         /\ \A g \in 1..MaxGen : g # op.tgt => mirror'[g] = mirror[g]
         /\ HighWaterBacked' /\ FingerprintAuthoritative'
<1>1. op.pc \in PutStages /\ op.off <= Target.hw
  BY DEF Routable, PutStages
<1>2. /\ op.tgt \in DOMAIN files /\ op.tgt \in 1..MaxGen /\ Target.hw \in Nat
      /\ mirror[op.tgt] \in Seq(Byte) /\ Target.hw <= Len(mirror[op.tgt])
  BY <1>1, TargetFacts
<1>3. /\ op \in Op /\ mirror \in [1..MaxGen -> Seq(Byte)] /\ MaxGen \in Nat
      /\ DOMAIN files \subseteq 1..MaxGen
      /\ \A g \in DOMAIN files : files[g].hw \in Nat
  <2>1. /\ op \in Op /\ mirror \in [1..MaxGen -> Seq(Byte)] /\ MaxGen \in Nat
        /\ files \in Seq(Row) /\ Len(files) <= MaxGen
    BY BoundAssumption DEF IInv, TypeOK
  <2>2. \A g \in DOMAIN files : files[g] \in Row
    BY <2>1
  <2>3. \A g \in DOMAIN files : files[g].hw \in Nat
    BY <2>2 DEF Row
  <2> QED BY <2>1, <2>3
<1> DEFINE ow == Overwrite(mirror[op.tgt], Target.hw, to)
<1>4. /\ ow \in Seq(Byte) /\ Len(mirror[op.tgt]) <= Len(ow) /\ to <= Len(ow)
      /\ \A i \in 1..Target.hw : ow[i] = mirror[op.tgt][i]
      /\ \A i \in 1..to : Target.hw < i => ow[i] = op.body[i - op.off]
  BY <1>1, <1>2, <1>3, OverwriteFacts
<1>5. mirror' = [mirror EXCEPT ![op.tgt] = ow]
  OBVIOUS
<1> HIDE DEF ow
<1>6. /\ mirror' \in [1..MaxGen -> Seq(Byte)] /\ mirror'[op.tgt] = ow
      /\ \A g \in 1..MaxGen : g # op.tgt => mirror'[g] = mirror[g]
  BY <1>2, <1>3, <1>4, <1>5
<1>7. ASSUME NEW g \in DOMAIN files
      PROVE  /\ files[g].hw <= Len(mirror'[g])
             /\ files[g].hw >= Window => files[g].fp = FP(mirror'[g])
  <2>1. CASE g # op.tgt
    BY <2>1, <1>3, <1>6 DEF IInv, HighWaterBacked, FingerprintAuthoritative
  <2>2. CASE g = op.tgt
    <3>1. files[g].hw <= Len(mirror'[g])
      BY <2>2, <1>2, <1>4, <1>6 DEF Target
    <3>2. ASSUME files[g].hw >= Window PROVE files[g].fp = FP(mirror'[g])
      <4>1. \A i \in 1..Window : mirror'[g][i] = mirror[g][i]
        BY <2>2, <3>2, <1>2, <1>4, <1>6, WindowAssumption DEF Target
      <4>2. FP(mirror'[g]) = FP(mirror[g])
        BY <4>1 DEF FP
      <4> QED BY <3>2, <4>2 DEF IInv, FingerprintAuthoritative
    <3> QED BY <3>1, <3>2
  <2> QED BY <2>1, <2>2
<1>8. HighWaterBacked' /\ FingerprintAuthoritative'
  BY <1>7 DEF HighWaterBacked, FingerprintAuthoritative
<1> QED BY <1>4, <1>6, <1>8 DEF ow

\* After the fsynced write the mirror holds the whole request: the part below the
\* high-water was compared, the rest was written.
LEMMA WriteMirrorStep ==
  ASSUME IInv, WriteMirror PROVE IInv'
<1>1. /\ Routable /\ op.pc \in PutStages /\ ~Diverges /\ Target.hw < ReqEnd
      /\ mirror' = [mirror EXCEPT ![op.tgt] = Overwrite(@, Target.hw, ReqEnd)]
      /\ op' = [op EXCEPT !.pc = "fprint", !.hw = ReqEnd]
      /\ UNCHANGED <<files, dropLog>> /\ ~Target.poisoned /\ op.off <= Target.hw
  <2>1. Target.hw \in Nat /\ ReqEnd \in Nat
    BY TargetFacts DEF WriteMirror, Routable, PutStages, IInv, TypeOK, Op, ReqEnd
  <2> QED BY <2>1 DEF WriteMirror, Routable, PutStages
<1>2. /\ op.tgt \in DOMAIN files /\ Target.hw \in Nat /\ op \in Op
      /\ op.off \in Nat /\ op.body \in Seq(Byte) /\ ReqEnd \in Nat
      /\ ReqEnd = op.off + Len(op.body)
  BY <1>1, TargetFacts DEF IInv, TypeOK, Op, ReqEnd
<1>3. /\ mirror' \in [1..MaxGen -> Seq(Byte)]
      /\ ReqEnd <= Len(mirror'[op.tgt])
      /\ \A i \in 1..Target.hw : mirror'[op.tgt][i] = mirror[op.tgt][i]
      /\ \A i \in 1..ReqEnd : Target.hw < i => mirror'[op.tgt][i] = op.body[i - op.off]
      /\ HighWaterBacked' /\ FingerprintAuthoritative'
  <2>1. Target.hw <= ReqEnd /\ ReqEnd <= ReqEnd
    BY <1>1, <1>2
  <2>2. mirror' = [mirror EXCEPT ![op.tgt] = Overwrite(mirror[op.tgt], Target.hw, ReqEnd)]
    BY <1>1
  <2> QED BY <2>1, <2>2, <1>1, <1>2, WriteAbove, Zenon
<1>4. /\ op' \in Op /\ op'.pc = "fprint" /\ op'.hw = ReqEnd /\ op'.tgt = op.tgt
      /\ op'.off = op.off /\ op'.body = op.body
  BY <1>1, <1>2, StageFacts DEF PutStages
<1>5. TypeOK'
  BY <1>1, <1>3, <1>4 DEF IInv, TypeOK
<1>6. ASSUME NEW i \in DOMAIN op.body
      PROVE  mirror'[op.tgt][op.off + i] = op.body[i]
  <2>1. /\ i \in 1..Len(op.body) /\ op.off + i \in 1..ReqEnd
        /\ (op.off + i) - op.off = i
    BY <1>2
  <2>2. CASE op.off + i <= Target.hw
    <3>1. mirror[op.tgt][op.off + i] = op.body[i]
      BY <1>1, <2>2 DEF Diverges
    <3>2. op.off + i \in 1..Target.hw
      BY <2>1, <2>2, <1>2
    <3>3. mirror'[op.tgt][op.off + i] = mirror[op.tgt][op.off + i]
      BY <3>2, <1>3
    <3> QED BY <3>1, <3>3
  <2>3. CASE ~(op.off + i <= Target.hw)
    <3>1. Target.hw < op.off + i
      BY <2>1, <2>3, <1>2
    <3>2. mirror'[op.tgt][op.off + i] = op.body[(op.off + i) - op.off]
      BY <3>1, <2>1, <1>3
    <3> QED BY <3>2, <2>1
  <2> QED BY <2>2, <2>3
<1>7. Written'
  <2>1. Stored(ReqEnd)'
    BY <1>2, <1>4, <1>6 DEF Stored, ReqEnd
  <2>2. Target' = Target
    BY <1>1, <1>4 DEF Target
  <2>3. op'.hw = ReqEnd /\ Stored(op.hw)'
    BY <2>1, <1>2, <1>4, <1>6 DEF Stored, ReqEnd
  <2> QED BY <2>2, <2>3, <1>1, <1>2, <1>3, <1>4 DEF Written
<1>8. Routed'
  BY <1>1, <1>2, <1>4 DEF Routed
<1>9. Settled' /\ Recorded' /\ Opening' /\ OpenedForDivergence' /\ Dropping'
  BY <1>4 DEF Settled, Recorded, Opening, OpenedForDivergence, Dropping
<1> QED BY <1>3, <1>5, <1>7, <1>8, <1>9 DEF IInv

\* A write that fails part-way leaves its bytes above the high-water.
LEMMA FailWriteMirrorStep ==
  ASSUME IInv, FailWriteMirror PROVE IInv'
<1>1. /\ Routable /\ op.pc \in PutStages /\ UNCHANGED <<files, dropLog>>
      /\ Reply("mirror_write_failed", op.tgt, Target.hw)
  BY DEF FailWriteMirror, Routable, PutStages
<1>2. /\ Target.hw \in Nat /\ op \in Op /\ op.tgt \in Nat /\ ReqEnd \in Nat
  BY <1>1, TargetFacts DEF IInv, TypeOK, Op, ReqEnd
<1>3. PICK to \in Target.hw..ReqEnd :
        mirror' = [mirror EXCEPT ![op.tgt] = Overwrite(@, Target.hw, to)]
  BY DEF FailWriteMirror
<1>4. /\ mirror' \in [1..MaxGen -> Seq(Byte)]
      /\ HighWaterBacked' /\ FingerprintAuthoritative'
  <2>1. to \in Nat /\ Target.hw <= to /\ to <= ReqEnd
    BY <1>2
  <2>2. mirror' = [mirror EXCEPT ![op.tgt] = Overwrite(mirror[op.tgt], Target.hw, to)]
    BY <1>3
  <2> QED BY <2>1, <2>2, <1>1, WriteAbove, Zenon
<1>5. op' \in Op /\ op'.pc = "done" /\ op'.code = "mirror_write_failed"
  BY <1>1, <1>2, ReplyFacts DEF Codes
<1>6. TypeOK'
  BY <1>1, <1>4, <1>5 DEF IInv, TypeOK
<1>7. OpInv'
  BY <1>5, QuietOp
<1> QED BY <1>4, <1>6, <1>7 DEF IInv, OpInv

\* The recorded fingerprint becomes the one of the bytes in the mirror.
LEMMA UpdateFingerprintStep ==
  ASSUME IInv, UpdateFingerprint PROVE IInv'
<1>1. /\ op.pc = "fprint" /\ op.pc \in PutStages /\ UNCHANGED <<mirror, dropLog>>
      /\ op' = [op EXCEPT !.pc = "record"]
      /\ files' = IF op.hw < Window THEN files
                  ELSE [files EXCEPT ![op.tgt].fp = FP(mirror[op.tgt])]
  BY DEF UpdateFingerprint, Stage, PutStages
<1>2. /\ op.tgt \in DOMAIN files /\ Target \in Row /\ Target.hw \in Nat
      /\ mirror[op.tgt] \in Seq(Byte) /\ Target.hw <= Len(mirror[op.tgt])
      /\ op.hw \in Nat /\ op \in Op
      /\ TypeOK /\ HighWaterBacked /\ FingerprintAuthoritative
  BY <1>1, TargetFacts DEF IInv, TypeOK, Op
<1>3. /\ ~Target.poisoned /\ Target.hw <= op.hw /\ op.hw <= Len(mirror[op.tgt])
      /\ Stored(op.hw)
  BY <1>1 DEF IInv, Written
<1>4. /\ op' \in Op /\ op'.pc = "record" /\ op'.hw = op.hw /\ op'.tgt = op.tgt
      /\ op'.off = op.off /\ op'.body = op.body
  BY <1>1, <1>2 DEF Op, PutStages
<1>5. /\ files' \in Seq(Row) /\ Len(files') = Len(files) /\ DOMAIN files' = DOMAIN files
      /\ files'[op.tgt].hw = Target.hw /\ ~files'[op.tgt].poisoned
      /\ op.hw >= Window => files'[op.tgt].fp = FP(mirror[op.tgt])
      /\ HighWaterBacked' /\ FingerprintAuthoritative'
  <2>1. CASE op.hw < Window
    <3>1. UNCHANGED files /\ ~(op.hw >= Window)
      BY <2>1, <1>1, <1>2, WindowAssumption
    <3> QED BY <3>1, <1>1, <1>2, <1>3
            DEF TypeOK, Target, HighWaterBacked, FingerprintAuthoritative
  <2>2. CASE ~(op.hw < Window)
    <3> DEFINE f == FP(mirror[op.tgt])
               r == [Target EXCEPT !.fp = f]
    <3>1. f \in FPs \cup {NoFP}
      BY <2>2, <1>2, <1>3, FPType, WindowAssumption
    <3> HIDE DEF f
    <3>2. r \in Row /\ r.fp = f /\ r.hw = Target.hw /\ r.poisoned = Target.poisoned
      BY <3>1, <1>2, RowFields
    <3>3. files' = [files EXCEPT ![op.tgt] = r]
      BY <2>2, <1>1 DEF Target, f
    <3> HIDE DEF r
    <3>4. /\ files' \in Seq(Row) /\ Len(files') = Len(files)
          /\ DOMAIN files' = DOMAIN files /\ files'[op.tgt] = r
          /\ HighWaterBacked' /\ FingerprintAuthoritative'
      BY <3>2, <3>3, <1>1, <1>2, UpdateRow DEF f
    <3> QED BY <3>2, <3>4, <1>3 DEF f
  <2> QED BY <2>1, <2>2
<1>6. TypeOK'
  BY <1>1, <1>2, <1>4, <1>5 DEF TypeOK
<1>7. Written'
  BY <1>1, <1>3, <1>4, <1>5 DEF Written, Target, Stored, ReqEnd
<1>8. Settled'
  BY <1>1, <1>4, <1>5 DEF Settled, Target
<1>9. Routed'
  BY <1>2, <1>4, <1>5 DEF Routed
<1>10. Recorded' /\ Opening' /\ OpenedForDivergence' /\ Dropping'
  BY <1>4 DEF Recorded, Opening, OpenedForDivergence, Dropping
<1> QED BY <1>5, <1>6, <1>7, <1>8, <1>9, <1>10 DEF IInv

\* What recordSuccess records, by whichever way it is reached: a high-water that
\* is not below the old one, that the mirror backs, with the request below it.
LEMMA RecordedHighWater ==
  ASSUME IInv, RecordSuccess
  PROVE  \E h \in Nat :
           /\ files' = [files EXCEPT ![op.tgt].hw = h, ![op.tgt].pending = FALSE]
           /\ op' = [op EXCEPT !.pc = "facts", !.hw = h]
           /\ op.pc \in PutStages /\ ~Target.poisoned
           /\ Target.hw <= h /\ h <= Len(mirror[op.tgt]) /\ Stored(h)
           /\ h >= Window => Target.fp = FP(mirror[op.tgt])
<1>1. CASE op.pc = "record"
  <2>1. /\ op.hw \in Nat
        /\ files' = [files EXCEPT ![op.tgt].hw = op.hw, ![op.tgt].pending = FALSE]
        /\ op' = [op EXCEPT !.pc = "facts", !.hw = op.hw] /\ op.pc \in PutStages
    BY <1>1 DEF RecordSuccess, PutStages, IInv, TypeOK, Op
  <2>2. /\ ~Target.poisoned /\ Target.hw <= op.hw /\ op.hw <= Len(mirror[op.tgt])
        /\ Stored(op.hw)
        /\ op.hw >= Window => Target.fp = FP(mirror[op.tgt])
    BY <1>1 DEF IInv, Written, Settled
  <2> QED BY <2>1, <2>2, Zenon
<1>2. CASE Routable /\ ~Diverges /\ ReqEnd <= Target.hw
  <2>1. op.pc = "route" /\ op.pc \in PutStages /\ ~Target.poisoned
    BY <1>2 DEF Routable, PutStages
  <2>2. /\ files' = [files EXCEPT ![op.tgt].hw = Target.hw, ![op.tgt].pending = FALSE]
        /\ op' = [op EXCEPT !.pc = "facts", !.hw = Target.hw]
    BY <2>1 DEF RecordSuccess
  <2>3. /\ op.tgt \in DOMAIN files /\ Target.hw \in Nat
        /\ Target.hw <= Len(mirror[op.tgt])
        /\ op.off \in Nat /\ op.body \in Seq(Byte)
    BY <2>1, TargetFacts DEF IInv, TypeOK, Op
  <2>4. Target.hw >= Window => Target.fp = FP(mirror[op.tgt])
    BY <2>3 DEF IInv, FingerprintAuthoritative, Target
  <2>5. ASSUME NEW i \in DOMAIN op.body PROVE mirror[op.tgt][op.off + i] = op.body[i]
    <3>1. op.off + i <= Target.hw
      BY <1>2, <2>3 DEF ReqEnd
    <3> QED BY <3>1, <1>2 DEF Diverges
  <2>6. Stored(Target.hw)
    BY <1>2, <2>5 DEF Stored
  <2>7. Target.hw <= Target.hw
    BY <2>3
  <2> QED BY <2>1, <2>2, <2>3, <2>4, <2>6, <2>7, Zenon
<1> QED BY <1>1, <1>2 DEF RecordSuccess

\* Recording the high-water promises no more than the mirror holds.
LEMMA RecordSuccessStep ==
  ASSUME IInv, RecordSuccess PROVE IInv'
<1>1. PICK h \in Nat :
        /\ files' = [files EXCEPT ![op.tgt].hw = h, ![op.tgt].pending = FALSE]
        /\ op' = [op EXCEPT !.pc = "facts", !.hw = h]
        /\ op.pc \in PutStages
        /\ h <= Len(mirror[op.tgt]) /\ Stored(h)
        /\ h >= Window => Target.fp = FP(mirror[op.tgt])
  BY RecordedHighWater
<1>2. /\ op.tgt \in DOMAIN files /\ Target \in Row /\ op \in Op
      /\ TypeOK /\ HighWaterBacked /\ FingerprintAuthoritative
      /\ UNCHANGED <<mirror, dropLog>>
  BY <1>1, TargetFacts DEF IInv, TypeOK, RecordSuccess
<1> DEFINE r == [Target EXCEPT !.hw = h, !.pending = FALSE]
<1>3. r \in Row /\ r.fp = Target.fp /\ r.hw = h
  BY <1>2, RowFields
<1>4. files' = [files EXCEPT ![op.tgt] = r]
  BY <1>1, <1>2 DEF Target
<1> HIDE DEF r
<1>a. /\ r.hw <= Len(mirror[op.tgt])
      /\ r.hw >= Window => r.fp = FP(mirror[op.tgt])
  BY <1>1, <1>3
<1>5. /\ files' \in Seq(Row) /\ Len(files') = Len(files)
      /\ DOMAIN files' = DOMAIN files /\ files'[op.tgt] = r
      /\ HighWaterBacked' /\ FingerprintAuthoritative'
  BY <1>2, <1>3, <1>4, <1>a, UpdateRow
<1>6. /\ op' \in Op /\ op'.pc = "facts" /\ op'.hw = h /\ op'.tgt = op.tgt
      /\ op'.off = op.off /\ op'.body = op.body
  BY <1>1, <1>2, StageFacts DEF PutStages
<1>7. TypeOK'
  BY <1>2, <1>5, <1>6 DEF TypeOK
<1>8. Recorded'
  BY <1>1, <1>2, <1>3, <1>5, <1>6 DEF Recorded, Target, Stored, ReqEnd
<1>9. Routed'
  BY <1>2, <1>5, <1>6 DEF Routed
<1>10. Written' /\ Settled' /\ Opening' /\ OpenedForDivergence' /\ Dropping'
  BY <1>6 DEF Written, Settled, Opening, OpenedForDivergence, Dropping
<1> QED BY <1>5, <1>7, <1>8, <1>9, <1>10 DEF IInv

\* The 200 repeats what has been recorded.
LEMMA RecordFactsStep ==
  ASSUME IInv, RecordFacts PROVE IInv'
<1>1. /\ op.pc = "facts" /\ UNCHANGED <<files, mirror, dropLog>>
      /\ Reply("ack", op.tgt, op.hw)
  BY DEF RecordFacts
<1>2. op \in Op /\ op.tgt \in Nat /\ op.hw \in Nat
  BY DEF IInv, TypeOK, Op
<1>3. /\ op' \in Op /\ op'.pc = "done" /\ op'.code = "ack" /\ op'.tgt = op.tgt
      /\ op'.hw = op.hw /\ op'.off = op.off /\ op'.body = op.body
  BY <1>1, <1>2, ReplyFacts DEF Codes
<1>4. TypeOK' /\ HighWaterBacked' /\ FingerprintAuthoritative'
  BY <1>1, <1>3 DEF IInv, TypeOK, HighWaterBacked, FingerprintAuthoritative
<1>5. Recorded'
  BY <1>1, <1>3 DEF IInv, Recorded, Target, Stored, ReqEnd
<1>6. Routed' /\ Written' /\ Settled' /\ Opening' /\ OpenedForDivergence' /\ Dropping'
  BY <1>3 DEF Routed, Written, Settled, Opening, OpenedForDivergence, Dropping, PutStages
<1> QED BY <1>4, <1>5, <1>6 DEF IInv

\* DropFile: the audit row comes first, mirrors go when no row promises them.
LEMMA DropStep ==
  ASSUME IInv, Drop PROVE IInv'
<1>1. CASE DropAudit
  <2>1. /\ dropLog' = Append(dropLog, Len(files)) /\ UNCHANGED <<files, mirror>>
        /\ op' = [Idle EXCEPT !.pc = "drop_rows", !.tgt = Len(files)]
    BY <1>1 DEF DropAudit
  <2>2. dropLog \in Seq(Nat) /\ Len(files) \in Nat
    BY DEF IInv, TypeOK
  <2>3. /\ dropLog' \in Seq(Nat) /\ dropLog' # <<>>
        /\ dropLog'[Len(dropLog')] = Len(files)
    BY <2>1, <2>2, AppendSeq
  <2>4. op' \in Op /\ op'.pc = "drop_rows"
    BY <2>1, <2>2, IdleFacts DEF Op, DropStages
  <2>5. TypeOK' /\ HighWaterBacked' /\ FingerprintAuthoritative'
    BY <2>1, <2>3, <2>4 DEF IInv, TypeOK, HighWaterBacked, FingerprintAuthoritative
  <2>6. OpInv'
    BY <2>1, <2>3, <2>4 DEF OpInv, Routed, Written, Settled, Recorded, Opening,
                            OpenedForDivergence, Dropping, PutStages
  <2> QED BY <2>5, <2>6 DEF IInv, OpInv
<1>2. CASE DropRows
  <2>1. files' = <<>> /\ UNCHANGED <<mirror, dropLog>>
        /\ op' = [op EXCEPT !.pc = "drop_mirrors"]
    BY <1>2 DEF DropRows, Stage
  <2>2. op' \in Op /\ op'.pc = "drop_mirrors"
    BY <2>1 DEF IInv, TypeOK, Op, DropStages
  <2>3. files' \in Seq(Row) /\ Len(files') = 0 /\ DOMAIN files' = {}
    BY <2>1
  <2>4. TypeOK'
    BY <2>1, <2>2, <2>3, BoundAssumption DEF IInv, TypeOK
  <2>5. HighWaterBacked' /\ FingerprintAuthoritative'
    BY <2>3 DEF HighWaterBacked, FingerprintAuthoritative
  <2>6. OpInv'
    BY <2>1, <2>2 DEF OpInv, Routed, Written, Settled, Recorded, Opening,
                      OpenedForDivergence, Dropping, PutStages
  <2> QED BY <2>4, <2>5, <2>6 DEF IInv, OpInv
<1>3. CASE DropMirrors
  <2>1. files = <<>> /\ UNCHANGED <<files, dropLog>> /\ op' = Idle
    BY <1>3 DEF DropMirrors, IInv, Dropping
  <2>2. PICK k \in 0..op.tgt :
          mirror' = [g \in DOMAIN mirror |-> IF g <= k THEN <<>> ELSE mirror[g]]
    BY <1>3 DEF DropMirrors
  <2>3. mirror \in [1..MaxGen -> Seq(Byte)] /\ <<>> \in Seq(Byte)
    BY DEF IInv, TypeOK
  <2>4. mirror' \in [1..MaxGen -> Seq(Byte)]
    BY <2>2, <2>3
  <2>5. op' \in Op /\ op'.pc = "idle" /\ op'.code = "none"
    BY <2>1, IdleFacts
  <2>6. TypeOK'
    BY <2>1, <2>4, <2>5 DEF IInv, TypeOK
  <2>7. DOMAIN files' = {}
    BY <2>1
  <2>8. HighWaterBacked' /\ FingerprintAuthoritative'
    BY <2>7 DEF HighWaterBacked, FingerprintAuthoritative
  <2>9. OpInv'
    BY <2>5, QuietOp
  <2> QED BY <2>6, <2>8, <2>9 DEF IInv, OpInv
<1> QED BY <1>1, <1>2, <1>3 DEF Drop

-----------------------------------------------------------------------------
(* The theorems *)

\* Every step of the store, whatever a client sends and wherever a fault strikes.
LEMMA NextStep ==
  ASSUME IInv, Next PROVE IInv'
<1>1. CASE Put
  <2>1. PICK fp \in Claims \cup {NoFP}, off \in 0..MaxLen, n \in 0..MaxBody :
          \E body \in [1..n -> Byte] : BeginPut(fp, off, body)
    BY <1>1 DEF Put
  <2>2. PICK body \in [1..n -> Byte] : BeginPut(fp, off, body)
    BY <2>1
  <2>3. off \in Nat /\ n \in Nat
    BY BoundAssumption
  <2>4. body \in Seq(Byte)
    BY <2>3, FunctionIsSeq
  <2> QED BY <2>2, <2>3, <2>4, BeginPutStep
<1>2. CASE Step
  BY <1>2, RefusalStep, FirstDivergenceStep, PoisonStep, ClearPendingStep,
     OpenGenerationStep, WriteMirrorStep, UpdateFingerprintStep,
     RecordSuccessStep, RecordFactsStep DEF Step
<1>3. CASE Fault
  BY <1>3, FailWriteMirrorStep, RefusalStep DEF Fault
<1>4. CASE Drop
  BY <1>4, DropStep
<1> QED BY <1>1, <1>2, <1>3, <1>4 DEF Next

\* Nor does a moment in which the store does nothing break it.
LEMMA StutterStep ==
  ASSUME IInv, UNCHANGED vars PROVE IInv'
BY DEF vars, IInv, TypeOK, HighWaterBacked, FingerprintAuthoritative, Routed,
       Written, Settled, Recorded, Opening, OpenedForDivergence, Dropping,
       Target, Stored, Diverges, ReqEnd, Active

\* The store starts sound.
LEMMA InitStep == ASSUME Init PROVE IInv
<1>1. files = <<>> /\ op = Idle /\ dropLog = <<>>
  BY DEF Init
<1>2. op \in Op /\ op.pc = "idle" /\ op.code = "none"
  BY <1>1, IdleFacts
<1>3. files \in Seq(Row) /\ Len(files) = 0 /\ DOMAIN files = {} /\ dropLog \in Seq(Nat)
  BY <1>1
<1>4. mirror \in [1..MaxGen -> Seq(Byte)]
  <2>1. <<>> \in Seq(Byte)
    OBVIOUS
  <2> QED BY <2>1 DEF Init
<1>5. TypeOK
  BY <1>2, <1>3, <1>4, BoundAssumption DEF TypeOK
<1>6. HighWaterBacked /\ FingerprintAuthoritative
  BY <1>3 DEF HighWaterBacked, FingerprintAuthoritative
<1>7. OpInv
  BY <1>2 DEF OpInv, Routed, Written, Settled, Recorded, Opening,
              OpenedForDivergence, Dropping, PutStages
<1> QED BY <1>5, <1>6, <1>7 DEF IInv, OpInv

\* The inductive invariant holds at every moment of every behaviour of the store.
THEOREM StoreInvariant == Spec => []IInv
<1>1. Init => IInv
  BY InitStep
<1>2. IInv /\ [Next]_vars => IInv'
  <2> SUFFICES ASSUME IInv, [Next]_vars PROVE IInv'
    OBVIOUS
  <2>1. CASE Next
    BY <2>1, NextStep
  <2>2. CASE UNCHANGED vars
    BY <2>2, StutterStep
  <2> QED BY <2>1, <2>2
<1> QED BY <1>1, <1>2, PTL DEF Spec

\* The store's variables keep their types, for every value of the constants.
THEOREM TypeCorrect == Spec => []TypeOK
<1>1. IInv => TypeOK
  BY DEF IInv
<1> QED BY <1>1, StoreInvariant, PTL

\* putBytes never promises bytes it does not hold, and never routes by a claim
\* once it has the bytes to compute the fingerprint itself.
THEOREM RowsAreBacked == Spec => []RowsBacked
<1>1. IInv => RowsBacked
  BY DEF IInv, RowsBacked
<1> QED BY <1>1, StoreInvariant, PTL

\* A 200 means that the request's bytes are durable below the high-water it names.
THEOREM AcksAreDurable == Spec => []DurableAck
<1>1. IInv => DurableAck
  BY DEF IInv, Recorded, DurableAck
<1> QED BY <1>1, StoreInvariant, PTL

\* A conflict-driven generation is only ever opened for a contradiction of
\* acknowledged bytes of the same fingerprint.
THEOREM OpenedOnlyForDivergence == Spec => []OpenedForDivergence
<1>1. IInv => OpenedForDivergence
  BY DEF IInv
<1> QED BY <1>1, StoreInvariant, PTL

-----------------------------------------------------------------------------
(* What no step may do to a generation *)

\* A step keeps generation g: what is acknowledged stays, what is poisoned is frozen.
Frozen(g) == files'[g].poisoned /\ files'[g].hw = files[g].hw /\ mirror'[g] = mirror[g]
Kept(g) == Append1(g) /\ (files[g].poisoned => Frozen(g))

\* A statement that touches no high-water and un-poisons nothing keeps them all.
LEMMA SameRows ==
  ASSUME IInv, UNCHANGED mirror, DOMAIN files \subseteq DOMAIN files',
         \A g \in DOMAIN files : /\ files'[g].hw = files[g].hw
                                 /\ files[g].poisoned => files'[g].poisoned
  PROVE  \A g \in DOMAIN files : Kept(g)
<1> SUFFICES ASSUME NEW g \in DOMAIN files PROVE Kept(g)
  OBVIOUS
<1>1. files[g] \in Row
  BY DEF IInv, TypeOK
<1>2. files[g].hw \in Nat
  BY <1>1, RowFields
<1>3. files'[g].hw >= files[g].hw
  BY <1>2
<1> QED BY <1>3 DEF Kept, Append1, Frozen

\* Writes above the high-water of a generation that is not poisoned.
LEMMA WriteKeeps ==
  ASSUME IInv, Routable, UNCHANGED files, NEW to \in Nat,
         Target.hw <= to, to <= ReqEnd,
         mirror' = [mirror EXCEPT ![op.tgt] = Overwrite(mirror[op.tgt], Target.hw, to)]
  PROVE  \A g \in DOMAIN files : Kept(g)
<1> SUFFICES ASSUME NEW g \in DOMAIN files PROVE Kept(g)
  OBVIOUS
<1>1. /\ \A i \in 1..Target.hw : mirror'[op.tgt][i] = mirror[op.tgt][i]
      /\ \A h \in 1..MaxGen : h # op.tgt => mirror'[h] = mirror[h]
  BY WriteAbove
<1>2. files[g] \in Row /\ g \in 1..MaxGen
  BY BoundAssumption DEF IInv, TypeOK
<1>3. files[g].hw \in Nat
  BY <1>2, RowFields
<1>4. files'[g].hw >= files[g].hw
  BY <1>3
<1>5. CASE g = op.tgt
  <2>1. ~files[g].poisoned
    BY <1>5 DEF Routable, Target
  <2> QED BY <2>1, <1>1, <1>4, <1>5 DEF Kept, Append1, Target
<1>6. CASE g # op.tgt
  BY <1>1, <1>2, <1>4, <1>6 DEF Kept, Append1, Frozen
<1> QED BY <1>5, <1>6

\* selectGeneration adds a row or adopts a claim.
LEMMA BeginPutKeeps ==
  ASSUME IInv, NEW fp \in Claims \cup {NoFP}, NEW off, NEW body, BeginPut(fp, off, body)
  PROVE  \A g \in DOMAIN files : Kept(g)
<1>0. /\ fp \in FPs \cup {NoFP} /\ UNCHANGED mirror /\ files \in Seq(Row)
      /\ TypeOK /\ HighWaterBacked /\ FingerprintAuthoritative
      /\ DOMAIN files = 1..Len(files) /\ Len(files) \in Nat
  BY ClaimsAssumption DEF BeginPut, IInv, TypeOK
<1>1. CASE SelectFirst(fp, off, body)
  <2>1. DOMAIN files = {}
    BY <1>1 DEF SelectFirst
  <2> QED BY <2>1
<1>2. CASE SelectExisting(fp, off, body) \/ SelectFails(fp, off, body)
  <2>1. UNCHANGED files
    BY <1>2 DEF SelectExisting, SelectFails
  <2> QED BY <2>1, <1>0, SameRows
<1>3. CASE SelectAdopt(fp, off, body)
  <2>1. /\ Active \in DOMAIN files
        /\ files' = [files EXCEPT ![Active].fp = fp]
    BY <1>3, <1>0 DEF SelectAdopt, Active
  <2>2. files[Active] \in Row
    BY <2>1, <1>0
  <2> DEFINE r == [files[Active] EXCEPT !.fp = fp]
  <2>3. r \in Row /\ r.hw = files[Active].hw /\ r.poisoned = files[Active].poisoned
    BY <2>2, <1>0, RowFields
  <2>4. files' = [files EXCEPT ![Active] = r]
    BY <2>1
  <2> HIDE DEF r
  <2>5. /\ DOMAIN files' = DOMAIN files /\ files'[Active] = r
        /\ \A g \in DOMAIN files : g # Active => files'[g] = files[g]
    BY <2>1, <2>3, <2>4, <1>0, ReplaceSeq
  <2> QED BY <2>3, <2>5, <1>0, SameRows
<1>4. CASE SelectOpen(fp, off, body)
  <2>1. Len(files) < MaxGen /\ files' = Append(files, NewRow(fp, FALSE))
    BY <1>4 DEF SelectOpen
  <2>2. NewRow(fp, FALSE) \in Row /\ NewRow(fp, FALSE).hw = 0
    BY <1>0 DEF NewRow, Row
  <2>3. /\ DOMAIN files' = 1..(Len(files) + 1)
        /\ \A g \in DOMAIN files : files'[g] = files[g]
    BY <2>1, <2>2, <1>0, AppendRow
  <2>4. DOMAIN files \subseteq DOMAIN files'
    BY <2>3, <1>0
  <2> QED BY <2>3, <2>4, <1>0, SameRows
<1> QED BY <1>1, <1>2, <1>3, <1>4 DEF BeginPut

\* The divergence protocol adds flags and an empty generation.
LEMMA DivergenceKeeps ==
  ASSUME IInv,
         FirstDivergence \/ PoisonFingerprint \/ ClearPending \/ OpenGeneration
  PROVE  \A g \in DOMAIN files : Kept(g)
<1>1. op.pc \in PutStages /\ UNCHANGED mirror
  BY DEF FirstDivergence, PoisonFingerprint, ClearPending, OpenGeneration, Routable,
         PutStages
<1>2. /\ op.tgt \in DOMAIN files /\ Target \in Row /\ files \in Seq(Row)
      /\ DOMAIN files = 1..Len(files) /\ Len(files) \in Nat
      /\ TypeOK /\ HighWaterBacked /\ FingerprintAuthoritative
  BY <1>1, TargetFacts DEF IInv, TypeOK
<1>3. CASE FirstDivergence \/ ClearPending
  <2>1. PICK v \in BOOLEAN : files' = [files EXCEPT ![op.tgt].pending = v]
    BY <1>3 DEF FirstDivergence, ClearPending
  <2> DEFINE r == [Target EXCEPT !.pending = v]
  <2>2. r \in Row /\ r.hw = Target.hw /\ r.poisoned = Target.poisoned
    BY <1>2, RowFields
  <2>3. files' = [files EXCEPT ![op.tgt] = r]
    BY <2>1 DEF Target
  <2> HIDE DEF r
  <2>4. /\ DOMAIN files' = DOMAIN files /\ files'[op.tgt] = r
        /\ \A g \in DOMAIN files : g # op.tgt => files'[g] = files[g]
    BY <2>2, <2>3, <1>2, ReplaceSeq
  <2> QED BY <2>2, <2>4, <1>1, SameRows DEF Target
<1>4. CASE PoisonFingerprint
  <2>1. files' = [g \in DOMAIN files |->
                    IF files[g].fp = Target.fp
                    THEN [files[g] EXCEPT !.poisoned = TRUE] ELSE files[g]]
    BY <1>4 DEF PoisonFingerprint
  <2>2. DOMAIN files' = DOMAIN files
    BY <2>1
  <2>3. ASSUME NEW g \in DOMAIN files
        PROVE  /\ files'[g].hw = files[g].hw
               /\ files[g].poisoned => files'[g].poisoned
    <3>1. files[g] \in Row
      BY <1>2
    <3>2. files'[g] = IF files[g].fp = Target.fp
                      THEN [files[g] EXCEPT !.poisoned = TRUE] ELSE files[g]
      BY <2>1
    <3> QED BY <3>1, <3>2, RowFields
  <2> QED BY <2>2, <2>3, <1>1, SameRows
<1>5. CASE OpenGeneration
  <2>1. Len(files) < MaxGen /\ files' = Append(files, NewRow(Target.fp, TRUE))
    BY <1>5 DEF OpenGeneration
  <2>2. NewRow(Target.fp, TRUE) \in Row /\ NewRow(Target.fp, TRUE).hw = 0
    BY <1>2 DEF NewRow, Row
  <2>3. /\ DOMAIN files' = 1..(Len(files) + 1)
        /\ \A g \in DOMAIN files : files'[g] = files[g]
    BY <2>1, <2>2, <1>1, <1>2, AppendRow
  <2>4. DOMAIN files \subseteq DOMAIN files'
    BY <2>3, <1>2
  <2> QED BY <2>3, <2>4, <1>1, SameRows
<1> QED BY <1>3, <1>4, <1>5

\* The append path writes above the high-water and then raises it.
LEMMA AppendKeeps ==
  ASSUME IInv,
         WriteMirror \/ FailWriteMirror \/ UpdateFingerprint \/ RecordSuccess
  PROVE  \A g \in DOMAIN files : Kept(g)
<1>1. op.pc \in PutStages
  BY DEF WriteMirror, FailWriteMirror, UpdateFingerprint, RecordSuccess, Routable,
         PutStages
<1>2. /\ op.tgt \in DOMAIN files /\ Target \in Row /\ files \in Seq(Row)
      /\ Target.hw \in Nat /\ ReqEnd \in Nat /\ op.hw \in Nat
      /\ mirror[op.tgt] \in Seq(Byte)
  BY <1>1, TargetFacts DEF IInv, TypeOK, Op, ReqEnd
<1>3. CASE WriteMirror
  <2>1. /\ Routable /\ UNCHANGED files /\ Target.hw <= ReqEnd /\ ReqEnd <= ReqEnd
        /\ mirror' = [mirror EXCEPT ![op.tgt] =
                        Overwrite(mirror[op.tgt], Target.hw, ReqEnd)]
    BY <1>2, <1>3 DEF WriteMirror
  <2> QED BY <2>1, <1>2, WriteKeeps, Zenon
<1>4. CASE FailWriteMirror
  <2>1. PICK to \in Target.hw..ReqEnd :
          mirror' = [mirror EXCEPT ![op.tgt] = Overwrite(mirror[op.tgt], Target.hw, to)]
    BY <1>4 DEF FailWriteMirror
  <2>2. /\ Routable /\ UNCHANGED files /\ to \in Nat
        /\ Target.hw <= to /\ to <= ReqEnd
    BY <1>2, <1>4 DEF FailWriteMirror
  <2> QED BY <2>1, <2>2, WriteKeeps, Zenon
<1>5. CASE UpdateFingerprint
  <2>1. UNCHANGED mirror
    BY <1>5 DEF UpdateFingerprint
  <2>2. CASE op.hw < Window
    <3>1. UNCHANGED files
      BY <1>5, <2>2 DEF UpdateFingerprint
    <3> QED BY <3>1, <2>1, SameRows
  <2>3. CASE ~(op.hw < Window)
    <3> DEFINE f == FP(mirror[op.tgt])
               r == [Target EXCEPT !.fp = f]
    <3>1. op.hw <= Len(mirror[op.tgt])
      BY <1>5 DEF UpdateFingerprint, IInv, Written
    <3>2. f \in FPs \cup {NoFP}
      BY <3>1, <2>3, <1>2, FPType, WindowAssumption
    <3>3. files' = [files EXCEPT ![op.tgt] = r]
      BY <1>5, <2>3 DEF UpdateFingerprint, Target
    <3> HIDE DEF f
    <3>4. r \in Row /\ r.hw = Target.hw /\ r.poisoned = Target.poisoned
      BY <3>2, <1>2, RowFields
    <3> HIDE DEF r
    <3>5. /\ DOMAIN files' = DOMAIN files /\ files'[op.tgt] = r
          /\ \A g \in DOMAIN files : g # op.tgt => files'[g] = files[g]
      BY <3>3, <3>4, <1>2, ReplaceSeq
    <3> QED BY <3>4, <3>5, <2>1, SameRows DEF Target
  <2> QED BY <2>2, <2>3
<1>6. CASE RecordSuccess
  <2>1. PICK h \in Nat :
          /\ files' = [files EXCEPT ![op.tgt].hw = h, ![op.tgt].pending = FALSE]
          /\ ~Target.poisoned /\ Target.hw <= h
    BY <1>6, RecordedHighWater
  <2> DEFINE r == [Target EXCEPT !.hw = h, !.pending = FALSE]
  <2>2. r \in Row /\ r.hw = h
    BY <1>2, RowFields
  <2>3. files' = [files EXCEPT ![op.tgt] = r]
    BY <2>1, <1>2 DEF Target
  <2> HIDE DEF r
  <2>4. /\ DOMAIN files' = DOMAIN files /\ files'[op.tgt] = r
        /\ \A g \in DOMAIN files : g # op.tgt => files'[g] = files[g]
    BY <2>2, <2>3, <1>2, ReplaceSeq
  <2>5. UNCHANGED mirror
    BY <1>6 DEF RecordSuccess
  <2>6. ASSUME NEW g \in DOMAIN files PROVE Kept(g)
    <3>1. CASE g = op.tgt
      BY <3>1, <2>1, <2>2, <2>4, <2>5, <1>2 DEF Kept, Append1, Target
    <3>2. CASE g # op.tgt
      <4>1. files[g] \in Row
        BY <1>2
      <4>2. files[g].hw \in Nat
        BY <4>1, RowFields
      <4>3. files'[g].hw >= files[g].hw
        BY <4>2, <3>2, <2>4
      <4> QED BY <4>3, <3>2, <2>4, <2>5 DEF Kept, Append1, Frozen
    <3> QED BY <3>1, <3>2
  <2> QED BY <2>6
<1> QED BY <1>3, <1>4, <1>5, <1>6

\* Every step but the transaction of DropFile keeps every generation.
LEMMA NextKeeps ==
  ASSUME IInv, [Next]_vars, op.pc # "drop_rows"
  PROVE  \A g \in DOMAIN files : Kept(g)
<1>1. CASE Put
  BY <1>1, BeginPutKeeps DEF Put
<1>2. CASE UNCHANGED <<files, mirror>>
  BY <1>2, SameRows
<1>3. CASE Step
  <2>1. CASE RejectPoisoned \/ RejectGap \/ RecordFacts \/ Release
    BY <2>1, <1>2 DEF RejectPoisoned, RejectGap, RecordFacts, Release
  <2> QED BY <1>3, <2>1, DivergenceKeeps, AppendKeeps DEF Step
<1>4. CASE Fault
  <2>1. CASE FailStatement \/ Crash
    BY <2>1, <1>2 DEF FailStatement, Crash
  <2> QED BY <1>4, <2>1, AppendKeeps DEF Fault
<1>5. CASE Drop
  <2>1. CASE DropAudit
    BY <2>1, <1>2 DEF DropAudit
  <2>2. CASE DropRows
    BY <2>2 DEF DropRows
  <2>3. CASE DropMirrors
    <3>1. DOMAIN files = {}
      BY <2>3 DEF DropMirrors, IInv, Dropping
    <3> QED BY <3>1
  <2> QED BY <1>5, <2>1, <2>2, <2>3 DEF Drop
<1> QED BY <1>1, <1>2, <1>3, <1>4, <1>5 DEF Next, vars

\* The mirror is append-only: no request, crash, failed write or failed statement
\* ever lowers a high-water or changes an acknowledged byte.
THEOREM MirrorIsAppendOnly == Spec => MirrorAppendOnly
<1>1. IInv /\ [Next]_vars
        => [op.pc # "drop_rows" => \A g \in DOMAIN files : Append1(g)]_vars
  <2> SUFFICES ASSUME IInv, [Next]_vars, op.pc # "drop_rows"
               PROVE  \A g \in DOMAIN files : Append1(g)
    OBVIOUS
  <2> QED BY NextKeeps DEF Kept
<1> QED BY <1>1, StoreInvariant, PTL DEF Spec, MirrorAppendOnly

\* A poisoned generation is frozen in every behaviour, for good.
THEOREM PoisonIsFrozen == Spec => PoisonFrozen
<1> DEFINE A == \A g \in DOMAIN files :
       files[g].poisoned /\ op.pc # "drop_rows" =>
         /\ g \in DOMAIN files' /\ files'[g].poisoned
         /\ files'[g].hw = files[g].hw /\ mirror'[g] = mirror[g]
<1>1. IInv /\ [Next]_vars => [A]_vars
  <2> SUFFICES ASSUME IInv, [Next]_vars, NEW g \in DOMAIN files,
                      files[g].poisoned, op.pc # "drop_rows"
               PROVE  /\ g \in DOMAIN files' /\ files'[g].poisoned
                      /\ files'[g].hw = files[g].hw /\ mirror'[g] = mirror[g]
    OBVIOUS
  <2> QED BY NextKeeps DEF Kept, Append1, Frozen
<1> QED BY <1>1, StoreInvariant, PTL DEF Spec, PoisonFrozen

\* The rows of an identity never disappear without an audit row that names them.
THEOREM DropsAreAudited == Spec => DropAudited
<1>1. IInv /\ [Next]_vars =>
        [files # <<>> /\ files' = <<>> =>
           dropLog # <<>> /\ dropLog[Len(dropLog)] = Len(files)]_vars
  <2> SUFFICES ASSUME IInv, [Next]_vars, files # <<>>, files' = <<>>
               PROVE  dropLog # <<>> /\ dropLog[Len(dropLog)] = Len(files)
    OBVIOUS
  <2>1. 1 \in DOMAIN files
    BY DEF IInv, TypeOK
  <2>2. DOMAIN files' = {}
    OBVIOUS
  <2>3. op.pc = "drop_rows"
    BY <2>1, <2>2, NextKeeps DEF Kept, Append1
  <2> QED BY <2>3 DEF IInv, Dropping
<1> QED BY <1>1, StoreInvariant, PTL DEF Spec, DropAudited
-----------------------------------------------------------------------------
(* What the replies tell the client *)

\* Codes whose reply carries the position the client is to adopt.
Positions == {"ack", "offset_gap", "fingerprint_conflict", "generation_opened"}

\* A position is 0 or one some generation has acknowledged, and a file is called
\* poisoned only when it is.
Told ==
  op.pc = "done" =>
    /\ op.code \in Positions => op.hw = 0 \/ \E g \in DOMAIN files : op.hw <= files[g].hw
    /\ op.code = "poisoned_file" => \E g \in DOMAIN files : files[g].poisoned

\* Clients send no byte beyond MaxLen, so no high-water is beyond it.
Bounded ==
  /\ \A g \in DOMAIN files : files[g].hw <= MaxLen
  /\ op.hw <= MaxLen /\ ReqEnd <= MaxLen

\* selectGeneration takes the request in, and has answered only without a target.
LEMMA LockedFacts ==
  ASSUME NEW fp, NEW off, NEW body, BeginPut(fp, off, body)
  PROVE  /\ op'.off = off /\ op'.body = body /\ op'.hw = 0
         /\ op'.code \in {"none", "fingerprint_conflict", "store_unavailable"}
         /\ op'.pc \in {"route", "done"}
<1>1. \E tgt : \E pc \in {"route", "done"},
                    code \in {"none", "fingerprint_conflict", "store_unavailable"} :
                   Locked(pc, off, body, tgt, code)
  BY DEF BeginPut, SelectFirst, SelectExisting, SelectAdopt, SelectOpen, SelectFails
<1> QED BY <1>1 DEF Locked

\* A high-water is new, or kept, or the one the operation has just recorded.
LEMMA HighWaters ==
  ASSUME IInv, Next
  PROVE  \A g \in DOMAIN files' :
           \/ files'[g].hw = 0
           \/ g \in DOMAIN files /\ files'[g].hw = files[g].hw
           \/ RecordSuccess /\ files'[g].hw = op'.hw
<1> DEFINE Good == \A g \in DOMAIN files' :
                     \/ files'[g].hw = 0
                     \/ g \in DOMAIN files /\ files'[g].hw = files[g].hw
                     \/ RecordSuccess /\ files'[g].hw = op'.hw
<1>1. /\ files \in Seq(Row) /\ DOMAIN files = 1..Len(files) /\ Len(files) \in Nat
      /\ op \in Op /\ \A g \in DOMAIN files : files[g] \in Row
  BY DEF IInv, TypeOK
<1>2. CASE UNCHANGED files
  BY <1>2
<1>3. ASSUME NEW r, r.hw = 0, r \in Row, files' = Append(files, r) PROVE Good
  BY <1>1, <1>3, AppendSeq
<1>4. ASSUME NEW k \in DOMAIN files, NEW r \in Row, files' = [files EXCEPT ![k] = r],
             r.hw = files[k].hw \/ (RecordSuccess /\ r.hw = op'.hw)
      PROVE  Good
  BY <1>1, <1>4, ReplaceSeq
<1>5. CASE Put
  <2>0. PICK fp \in Claims \cup {NoFP} : \E off, body : BeginPut(fp, off, body)
    BY <1>5 DEF Put
  <2>1. PICK off, body : BeginPut(fp, off, body)
    BY <2>0
  <2>2. fp \in FPs \cup {NoFP} /\ NewRow(fp, FALSE) \in Row /\ NewRow(fp, FALSE).hw = 0
    BY ClaimsAssumption DEF NewRow, Row
  <2>3. CASE SelectFirst(fp, off, body)
    <3>1. /\ DOMAIN files' = {1} /\ files'[1] = NewRow(fp, FALSE)
      BY <2>2, <2>3, OneSeq DEF SelectFirst
    <3> QED BY <2>2, <3>1
  <2>4. CASE SelectOpen(fp, off, body)
    BY <1>3, <2>2, <2>4 DEF SelectOpen
  <2>5. CASE SelectAdopt(fp, off, body)
    <3> DEFINE r == [files[Active] EXCEPT !.fp = fp]
    <3>1. Active \in DOMAIN files /\ files' = [files EXCEPT ![Active] = r]
      BY <1>1, <2>5 DEF SelectAdopt, Active
    <3>2. r \in Row /\ r.hw = files[Active].hw
      BY <1>1, <2>2, <3>1, RowFields
    <3> HIDE DEF r
    <3> QED BY <1>4, <3>1, <3>2
  <2> QED BY <1>2, <2>1, <2>3, <2>4, <2>5 DEF BeginPut, SelectExisting, SelectFails
<1>6. CASE FirstDivergence \/ ClearPending
  <2>1. PICK v \in BOOLEAN : files' = [files EXCEPT ![op.tgt].pending = v]
    BY <1>6 DEF FirstDivergence, ClearPending
  <2>2. op.tgt \in DOMAIN files /\ Target \in Row
    BY <1>6, TargetFacts DEF FirstDivergence, ClearPending, Routable, PutStages
  <2> DEFINE r == [Target EXCEPT !.pending = v]
  <2>3. files' = [files EXCEPT ![op.tgt] = r]
    BY <2>1 DEF Target
  <2>4. r \in Row /\ r.hw = files[op.tgt].hw
    BY <2>2, RowFields DEF Target
  <2> HIDE DEF r
  <2> QED BY <1>4, <2>2, <2>3, <2>4
<1>7. CASE PoisonFingerprint
  <2>1. files' = [g \in DOMAIN files |->
                    IF files[g].fp = Target.fp
                    THEN [files[g] EXCEPT !.poisoned = TRUE] ELSE files[g]]
    BY <1>7 DEF PoisonFingerprint
  <2>2. ASSUME NEW g \in DOMAIN files' PROVE g \in DOMAIN files /\ files'[g].hw = files[g].hw
    <3>1. g \in DOMAIN files /\ files[g] \in Row
      BY <1>1, <2>1
    <3>2. files'[g] = IF files[g].fp = Target.fp
                      THEN [files[g] EXCEPT !.poisoned = TRUE] ELSE files[g]
      BY <2>1, <3>1
    <3> QED BY <3>1, <3>2, RowFields
  <2> QED BY <2>2
<1>8. CASE OpenGeneration
  <2>1. Target \in Row
    BY <1>8, TargetFacts DEF OpenGeneration, PutStages
  <2>2. NewRow(Target.fp, TRUE) \in Row /\ NewRow(Target.fp, TRUE).hw = 0
    BY <2>1 DEF NewRow, Row
  <2> QED BY <1>3, <1>8, <2>2 DEF OpenGeneration
<1>9. CASE UpdateFingerprint
  <2>1. op.tgt \in DOMAIN files /\ Target \in Row /\ mirror[op.tgt] \in Seq(Byte)
    BY <1>9, TargetFacts DEF UpdateFingerprint, PutStages
  <2>2. CASE op.hw < Window
    BY <1>2, <1>9, <2>2 DEF UpdateFingerprint
  <2>3. CASE ~(op.hw < Window)
    <3> DEFINE f == FP(mirror[op.tgt])
               r == [Target EXCEPT !.fp = f]
    <3>1. op.hw <= Len(mirror[op.tgt])
      BY <1>9 DEF UpdateFingerprint, IInv, Written
    <3>2. f \in FPs \cup {NoFP}
      BY <1>1, <2>1, <2>3, <3>1, FPType, WindowAssumption DEF Op
    <3>3. files' = [files EXCEPT ![op.tgt] = r]
      BY <1>9, <2>3 DEF UpdateFingerprint, Target
    <3> HIDE DEF f
    <3>4. r \in Row /\ r.hw = files[op.tgt].hw
      BY <2>1, <3>2, RowFields DEF Target
    <3> HIDE DEF r
    <3> QED BY <1>4, <2>1, <3>3, <3>4
  <2> QED BY <2>2, <2>3
<1>10. CASE RecordSuccess
  <2>1. PICK h \in Nat :
          /\ files' = [files EXCEPT ![op.tgt].hw = h, ![op.tgt].pending = FALSE]
          /\ op' = [op EXCEPT !.pc = "facts", !.hw = h] /\ op.pc \in PutStages
    BY <1>10, RecordedHighWater
  <2>2. op.tgt \in DOMAIN files /\ Target \in Row
    BY <2>1, TargetFacts
  <2> DEFINE r == [Target EXCEPT !.hw = h, !.pending = FALSE]
  <2>3. files' = [files EXCEPT ![op.tgt] = r]
    BY <2>1, <2>2 DEF Target
  <2>4. r \in Row /\ r.hw = h
    BY <2>2, RowFields
  <2>5. op'.hw = h
    BY <1>1, <2>1 DEF Op
  <2> HIDE DEF r
  <2> QED BY <1>4, <1>10, <2>2, <2>3, <2>4, <2>5
<1>11. CASE DropRows
  BY <1>11 DEF DropRows
<1> QED
  BY <1>2, <1>5, <1>6, <1>7, <1>8, <1>9, <1>10, <1>11
     DEF Next, Step, Fault, Drop, RejectPoisoned, RejectGap, WriteMirror, RecordFacts,
         Release, FailWriteMirror, FailStatement, Crash, DropAudit, DropMirrors
\* No step takes a high-water, or the end of a request, beyond the bound.
LEMMA BoundedStep ==
  ASSUME IInv, Bounded, Next PROVE Bounded'
<1>1. /\ op \in Op /\ op.hw \in Nat /\ op.off \in Nat /\ op.body \in Seq(Byte) /\ ReqEnd \in Nat
      /\ \A g \in DOMAIN files : files[g].hw <= MaxLen
      /\ op.hw <= MaxLen /\ ReqEnd <= MaxLen /\ MaxLen \in Nat
  BY BoundAssumption DEF IInv, TypeOK, Op, Bounded, ReqEnd
<1>2. op.pc \in PutStages => Target.hw \in Nat /\ Target.hw <= MaxLen
  BY <1>1, TargetFacts DEF Target
<1>3. Idle.hw = 0 /\ Idle.off + Len(Idle.body) = 0
  BY DEF Idle
<1>4. ASSUME NEW c, NEW t, NEW h, Reply(c, t, h)
      PROVE  op'.hw = h /\ ReqEnd' = ReqEnd
  BY <1>1, <1>4 DEF Reply, Op, ReqEnd
<1>5. op'.hw <= MaxLen /\ ReqEnd' <= MaxLen
  <2>1. CASE Put
    <3>0. PICK fp \in Claims \cup {NoFP}, off \in 0..MaxLen, n \in 0..MaxBody :
            off + n <= MaxLen /\ \E body \in [1..n -> Byte] : BeginPut(fp, off, body)
      BY <2>1 DEF Put
    <3>1. PICK body \in [1..n -> Byte] : BeginPut(fp, off, body)
      BY <3>0
    <3>2. n \in Nat /\ Len(body) = n
      BY BoundAssumption, FunctionIsSeq
    <3>3. op'.hw = 0 /\ op'.off = off /\ op'.body = body
      BY <3>1, LockedFacts
    <3> QED BY <1>1, <3>0, <3>2, <3>3 DEF ReqEnd
  <2>2. CASE RejectPoisoned \/ RejectGap \/ FirstDivergence \/ PoisonFingerprint
    <3>1. op.pc \in PutStages /\ op'.hw = Target.hw /\ ReqEnd' = ReqEnd
      BY <1>4, <2>2 DEF RejectPoisoned, RejectGap, FirstDivergence, PoisonFingerprint,
                        Routable, PutStages
    <3> QED BY <1>1, <1>2, <3>1
  <2>3. CASE ClearPending
    <3>1. op'.hw = op.hw /\ ReqEnd' = ReqEnd
      BY <1>1, <2>3 DEF ClearPending, Stage, Op, ReqEnd
    <3> QED BY <1>1, <3>1
  <2>4. CASE OpenGeneration
    <3>1. op'.hw = 0 /\ ReqEnd' = ReqEnd
      BY <1>4, <2>4 DEF OpenGeneration
    <3> QED BY <1>1, <3>1
  <2>5. CASE WriteMirror
    <3>1. op'.hw = ReqEnd /\ op'.off = op.off /\ op'.body = op.body
      BY <1>1, <2>5 DEF WriteMirror, Op
    <3> QED BY <1>1, <3>1 DEF ReqEnd
  <2>6. CASE UpdateFingerprint
    <3>1. op'.hw = op.hw /\ ReqEnd' = ReqEnd
      BY <1>1, <2>6 DEF UpdateFingerprint, Stage, Op, ReqEnd
    <3> QED BY <1>1, <3>1
  <2>7. CASE RecordSuccess
    <3>1. op.pc = "record" \/ op.pc \in PutStages
      BY <2>7 DEF RecordSuccess, Routable, PutStages
    <3>2. /\ op'.hw = IF op.pc = "record" THEN op.hw ELSE Target.hw
          /\ op'.off = op.off /\ op'.body = op.body
      BY <1>1, <2>7 DEF RecordSuccess, Op
    <3> QED BY <1>1, <1>2, <3>1, <3>2 DEF ReqEnd
  <2>8. CASE RecordFacts
    <3>1. op'.hw = op.hw /\ ReqEnd' = ReqEnd
      BY <1>4, <2>8 DEF RecordFacts
    <3> QED BY <1>1, <3>1
  <2>9. CASE FailWriteMirror \/ FailStatement
    <3>1. op.pc \in PutStages /\ op'.hw \in {Target.hw, op.hw} /\ ReqEnd' = ReqEnd
      BY <1>4, <2>9 DEF FailWriteMirror, FailStatement, Routable, PutStages
    <3> QED BY <1>1, <1>2, <3>1
  <2>10. CASE Release \/ Crash \/ DropMirrors
    BY <1>1, <1>3, <2>10 DEF Release, Crash, DropMirrors, ReqEnd
  <2>11. CASE DropAudit
    <3>1. op'.hw = 0 /\ op'.off = 0 /\ op'.body = <<>>
      BY <2>11 DEF DropAudit, Idle
    <3> QED BY <1>1, <3>1 DEF ReqEnd
  <2>12. CASE DropRows
    <3>1. op'.hw = op.hw /\ ReqEnd' = ReqEnd
      BY <1>1, <2>12 DEF DropRows, Stage, Op, ReqEnd
    <3> QED BY <1>1, <3>1
  <2> QED BY <2>1, <2>2, <2>3, <2>4, <2>5, <2>6, <2>7, <2>8, <2>9, <2>10, <2>11, <2>12
          DEF Next, Step, Fault, Drop
<1>6. \A g \in DOMAIN files' : files'[g].hw <= MaxLen
  BY <1>1, <1>5, HighWaters
<1> QED BY <1>5, <1>6 DEF Bounded

\* Every reply tells the truth at the moment it is decided.
LEMMA ToldStep ==
  ASSUME IInv, Next PROVE Told'
<1>1. /\ op \in Op /\ files \in Seq(Row) /\ \A g \in DOMAIN files : files[g] \in Row
  BY DEF IInv, TypeOK
<1>2. op.pc \in PutStages => /\ op.tgt \in DOMAIN files /\ Target \in Row
                             /\ Target.hw \in Nat
  BY TargetFacts
<1>3. ASSUME NEW c, NEW t, NEW h, Reply(c, t, h)
      PROVE  op'.pc = "done" /\ op'.code = c /\ op'.hw = h
  BY <1>1, <1>3 DEF Reply, Op
<1>4. CASE Put
  <2>1. PICK fp, off, body : BeginPut(fp, off, body)
    BY <1>4 DEF Put
  <2>2. op'.hw = 0 /\ op'.code \in {"none", "fingerprint_conflict", "store_unavailable"}
    BY <2>1, LockedFacts
  <2> QED BY <2>2 DEF Told
<1>5. CASE RejectPoisoned \/ RejectGap
  <2>1. /\ op.pc \in PutStages /\ UNCHANGED files /\ op'.hw = Target.hw
        /\ op'.code \in {"poisoned_file", "offset_gap"}
        /\ op'.code = "poisoned_file" => Target.poisoned
    BY <1>3, <1>5 DEF RejectPoisoned, RejectGap, PutStages
  <2>2. op'.hw <= files'[op.tgt].hw /\ op.tgt \in DOMAIN files'
    BY <1>2, <2>1 DEF Target
  <2> QED BY <2>1, <2>2 DEF Told, Target
<1>6. CASE FirstDivergence
  <2>1. op'.code = "byte_conflict"
    BY <1>3, <1>6 DEF FirstDivergence
  <2> QED BY <2>1 DEF Told, Positions
<1>7. CASE PoisonFingerprint
  <2>1. /\ op.pc \in PutStages /\ op'.code = "poisoned_file"
        /\ files' = [g \in DOMAIN files |->
                       IF files[g].fp = Target.fp
                       THEN [files[g] EXCEPT !.poisoned = TRUE] ELSE files[g]]
    BY <1>3, <1>7 DEF PoisonFingerprint, Routable, PutStages
  <2>2. op.tgt \in DOMAIN files' /\ files'[op.tgt] = [files[op.tgt] EXCEPT !.poisoned = TRUE]
    BY <1>2, <2>1 DEF Target
  <2>3. files'[op.tgt].poisoned
    BY <1>1, <1>2, <2>1, <2>2, RowFields DEF Target
  <2> QED BY <2>1, <2>2, <2>3 DEF Told, Positions
<1>8. CASE OpenGeneration
  <2>1. op'.hw = 0 /\ op'.code = "generation_opened"
    BY <1>3, <1>8 DEF OpenGeneration
  <2> QED BY <2>1 DEF Told
<1>9. CASE ClearPending \/ UpdateFingerprint
  <2>1. op'.pc # "done"
    BY <1>1, <1>9 DEF ClearPending, UpdateFingerprint, Stage, Op
  <2> QED BY <2>1 DEF Told
<1>10. CASE WriteMirror \/ RecordSuccess
  <2>1. op'.pc # "done"
    BY <1>1, <1>10 DEF WriteMirror, RecordSuccess, Op
  <2> QED BY <2>1 DEF Told
<1>11. CASE RecordFacts
  <2>1. op'.code = "ack" /\ op'.hw = op.hw /\ UNCHANGED files /\ op.pc = "facts"
    BY <1>3, <1>11 DEF RecordFacts
  <2>2. op.tgt \in DOMAIN files /\ op.hw = files[op.tgt].hw /\ files[op.tgt].hw \in Nat
    BY <1>2, <2>1 DEF IInv, Recorded, Target, PutStages
  <2>3. op.tgt \in DOMAIN files' /\ op'.hw <= files'[op.tgt].hw
    BY <2>1, <2>2
  <2> QED BY <2>1, <2>3 DEF Told
<1>12. CASE FailWriteMirror \/ FailStatement
  <2>1. op'.code \in {"mirror_write_failed", "store_unavailable"}
    BY <1>3, <1>12 DEF FailWriteMirror, FailStatement
  <2> QED BY <2>1 DEF Told, Positions
<1>13. CASE Release \/ Crash \/ DropMirrors \/ DropAudit
  <2>1. op' = Idle \/ \E t : op' = [Idle EXCEPT !.pc = "drop_rows", !.tgt = t]
    BY <1>13 DEF Release, Crash, DropMirrors, DropAudit
  <2>2. ASSUME NEW t, op' = [Idle EXCEPT !.pc = "drop_rows", !.tgt = t]
        PROVE  op'.pc = "drop_rows"
    BY <2>2 DEF Idle
  <2>3. op'.pc # "done"
    BY <2>1, <2>2, IdleFacts
  <2> QED BY <2>3 DEF Told
<1>14. CASE DropRows
  <2>1. op'.pc # "done"
    BY <1>1, <1>14 DEF DropRows, Stage, Op
  <2> QED BY <2>1 DEF Told
<1> QED BY <1>4, <1>5, <1>6, <1>7, <1>8, <1>9, <1>10, <1>11, <1>12, <1>13, <1>14
        DEF Next, Step, Fault, Drop

LEMMA ToldAtFirst == ASSUME Init PROVE Told /\ Bounded
<1>1. op.pc = "idle" /\ op.hw = 0 /\ op.off + Len(op.body) = 0 /\ DOMAIN files = {}
  BY DEF Init, Idle
<1> QED BY <1>1, BoundAssumption DEF Told, Bounded, ReqEnd

\* Every position a client is told to resume from is 0 or acknowledged, a file is
\* called poisoned only when it is, and no high-water passes what clients sent.
\* (replies of putBytes)
THEOREM RepliesAreTrue == Spec => [](Told /\ Bounded)
<1>1. Init => Told /\ Bounded
  BY ToldAtFirst
<1>2. IInv /\ Told /\ Bounded /\ [Next]_vars => (Told /\ Bounded)'
  <2> SUFFICES ASSUME IInv, Told, Bounded, [Next]_vars PROVE (Told /\ Bounded)'
    OBVIOUS
  <2>1. CASE Next
    BY <2>1, ToldStep, BoundedStep
  <2>2. CASE UNCHANGED vars
    BY <2>2 DEF vars, Told, Bounded, ReqEnd
  <2> QED BY <2>1, <2>2
<1> QED BY <1>1, <1>2, StoreInvariant, PTL DEF Spec
=============================================================================
