------------------------------ MODULE SeshStore ------------------------------
(***************************************************************************)
(* The sesh ingest store (tools/sesh/internal/store) as seen by ONE file   *)
(* identity (tool, session_id, file_uuid).  Store.putBytes, Store.recovery *)
(* and Store.DropFile all hold Store.mu, so one operation runs at a time;  *)
(* but an operation is a series of durable effects (SQLite statements,     *)
(* each its own transaction, and fsynced writes of the mirror file), and   *)
(* a crash of the process, a cancelled request context or a storage error  *)
(* may stop it between any two of them.  Every durable effect is a step.   *)
(*                                                                         *)
(* A fingerprint is SHA-256 over the first Window bytes; the hash is taken *)
(* to be injective, so the model uses the Window bytes themselves.         *)
(***************************************************************************)
EXTENDS Integers, Sequences

CONSTANTS
  Byte,      \* the byte values a file may hold
  Claims,    \* the fingerprints requests claim
  MaxBody,   \* wire.MaxPUTBody
  Window,    \* wire.FingerprintWindowBytes
  MaxLen,    \* bound: length of a file
  MaxGen,    \* bound: generations of the identity
  MaxDrops   \* bound: runs of `sesh admin drop-file`

ASSUME WindowAssumption == Window \in Nat /\ Window > 0
ASSUME BoundAssumption ==
  MaxBody \in Nat /\ MaxLen \in Nat /\ MaxGen \in Nat /\ MaxDrops \in Nat

VARIABLES
  files,     \* rows of table files, generation n at index n + 1
  mirror,    \* mirror[n + 1]: bytes of generation-n.jsonl, <<>> when absent
  op,        \* the operation that holds Store.mu and how far it has got
  dropLog    \* table drop_log: how many generations each audit row names

vars == <<files, mirror, op, dropLog>>

-----------------------------------------------------------------------------
(* Fingerprints, rows and operations *)

NoFP == <<>>                                  \* NULL column, absent header
FPs == [1..Window -> Byte]
FP(bytes) == [i \in 1..Window |-> bytes[i]]
ASSUME ClaimsAssumption == Claims \subseteq FPs

Row == [fp : FPs \cup {NoFP}, hw : Nat,
        poisoned : BOOLEAN, pending : BOOLEAN, driven : BOOLEAN]

NewRow(fp, driven) ==
  [fp |-> fp, hw |-> 0, poisoned |-> FALSE, pending |-> FALSE, driven |-> driven]

\* "route": a generation is selected; "open", "fprint", "record", "facts": the
\* statement to run next; "done": the reply is known and the lock released next.
PutStages == {"route", "open", "fprint", "record", "facts"}
DropStages == {"drop_rows", "drop_mirrors"}
Codes == {"none", "ack", "fingerprint_conflict", "poisoned_file", "offset_gap",
          "byte_conflict", "generation_opened", "mirror_write_failed",
          "store_unavailable"}

Op == [pc : PutStages \cup DropStages \cup {"idle", "done"},
       off : Nat, body : Seq(Byte), tgt : Nat, hw : Nat, code : Codes]

Idle == [pc |-> "idle", off |-> 0, body |-> <<>>, tgt |-> 0,
         hw |-> 0, code |-> "none"]

Init == /\ files = <<>>
        /\ mirror = [g \in 1..MaxGen |-> <<>>]
        /\ op = Idle
        /\ dropLog = <<>>

Active == Len(files)                          \* the highest generation
Target == files[op.tgt]
Matching(fp) == {g \in DOMAIN files : files[g].fp = fp}
HighestMatch(fp) == CHOOSE g \in Matching(fp) : \A h \in Matching(fp) : h <= g
ReqEnd == op.off + Len(op.body)

Reply(code, tgt, hw) ==
  op' = [op EXCEPT !.pc = "done", !.code = code, !.tgt = tgt, !.hw = hw]
Stage(pc) == op' = [op EXCEPT !.pc = pc]

-----------------------------------------------------------------------------
(* putBytes: lock, then selectGeneration and its ways to pick a target *)

Locked(pc, off, body, tgt, code) ==
  op' = [pc |-> pc, off |-> off, body |-> body, tgt |-> tgt,
         hw |-> 0, code |-> code]

\* The first PUT of the identity creates generation 0 with the claimed fingerprint.
SelectFirst(fp, off, body) ==
  /\ files = <<>> /\ MaxGen > 0
  /\ files' = <<NewRow(fp, FALSE)>>
  /\ Locked("route", off, body, 1, "none")

\* A claim routes to the highest generation that records it; no claim routes to
\* the active generation.
SelectExisting(fp, off, body) ==
  /\ files # <<>> /\ (fp = NoFP \/ Matching(fp) # {})
  /\ Locked("route", off, body,
            IF fp = NoFP THEN Active ELSE HighestMatch(fp), "none")
  /\ UNCHANGED files

\* An unmatched claim is adopted by an active generation that has none.
SelectAdopt(fp, off, body) ==
  /\ files # <<>> /\ fp # NoFP /\ Matching(fp) = {}
  /\ files[Active].fp = NoFP
  /\ files' = [files EXCEPT ![Active].fp = fp]
  /\ Locked("route", off, body, Active, "none")

\* Otherwise a new empty generation opens and the request is answered 409.
SelectOpen(fp, off, body) ==
  /\ files # <<>> /\ fp # NoFP /\ Matching(fp) = {}
  /\ files[Active].fp # NoFP
  /\ Len(files) < MaxGen
  /\ files' = Append(files, NewRow(fp, FALSE))
  /\ Locked("done", off, body, Active + 1, "fingerprint_conflict")

\* Its query or statement fails: 503 and nothing has changed.
SelectFails(fp, off, body) ==
  /\ Locked("done", off, body, 0, "store_unavailable")
  /\ UNCHANGED files

BeginPut(fp, off, body) ==
  /\ op.pc = "idle"
  /\ \/ SelectFirst(fp, off, body)
     \/ SelectExisting(fp, off, body)
     \/ SelectAdopt(fp, off, body)
     \/ SelectOpen(fp, off, body)
     \/ SelectFails(fp, off, body)
  /\ UNCHANGED <<mirror, dropLog>>

-----------------------------------------------------------------------------
(* putBytes: routing against the selected generation *)

RejectPoisoned ==
  /\ op.pc = "route" /\ Target.poisoned
  /\ Reply("poisoned_file", op.tgt, Target.hw)
  /\ UNCHANGED <<files, mirror, dropLog>>

RejectGap ==
  /\ op.pc = "route" /\ ~Target.poisoned
  /\ op.off > Target.hw
  /\ Reply("offset_gap", op.tgt, Target.hw)
  /\ UNCHANGED <<files, mirror, dropLog>>

\* Mutant: the poison flag is not looked at.
Routable_Poisoned == op.pc = "route" /\ op.off <= Target.hw

\* The request may touch the target: compareMirror decides between the rest.
Routable == op.pc = "route" /\ ~Target.poisoned /\ op.off <= Target.hw

\* Mutant: the last byte below the high-water is not compared.
Diverges_OffByOne ==
  \E i \in DOMAIN op.body : /\ op.off + i < Target.hw
                            /\ mirror[op.tgt][op.off + i] # op.body[i]

\* compareMirror over the part of the body below the high-water.
Diverges ==
  \E i \in DOMAIN op.body : /\ op.off + i <= Target.hw
                            /\ mirror[op.tgt][op.off + i] # op.body[i]

DrivenExists(fp) == \E g \in DOMAIN files : files[g].driven /\ files[g].fp = fp

\* handleDivergence, first time: remember it and refuse.
FirstDivergence ==
  /\ Routable /\ Diverges /\ ~Target.pending
  /\ files' = [files EXCEPT ![op.tgt].pending = TRUE]
  /\ Reply("byte_conflict", op.tgt, Target.hw)
  /\ UNCHANGED <<mirror, dropLog>>

\* handleDivergence, again, with the one conflict-driven generation spent.
PoisonFingerprint ==
  /\ Routable /\ Diverges /\ Target.pending /\ DrivenExists(Target.fp)
  /\ files' = [g \in DOMAIN files |->
                 IF files[g].fp = Target.fp
                 THEN [files[g] EXCEPT !.poisoned = TRUE] ELSE files[g]]
  /\ Reply("poisoned_file", op.tgt, Target.hw)
  /\ UNCHANGED <<mirror, dropLog>>

\* handleDivergence, again: two statements, first the flag and then the row.
ClearPending ==
  /\ Routable /\ Diverges /\ Target.pending /\ ~DrivenExists(Target.fp)
  /\ files' = [files EXCEPT ![op.tgt].pending = FALSE]
  /\ Stage("open")
  /\ UNCHANGED <<mirror, dropLog>>

\* Mutant: the new generation does not inherit the fingerprint.
OpenGeneration_NoFingerprint ==
  /\ op.pc = "open" /\ Len(files) < MaxGen
  /\ files' = Append(files, NewRow(NoFP, TRUE))
  /\ Reply("generation_opened", Active + 1, 0)
  /\ UNCHANGED <<mirror, dropLog>>

OpenGeneration ==
  /\ op.pc = "open" /\ Len(files) < MaxGen
  /\ files' = Append(files, NewRow(Target.fp, TRUE))
  /\ Reply("generation_opened", Active + 1, 0)
  /\ UNCHANGED <<mirror, dropLog>>

\* File bytes after WriteAt of the request's bytes from `from` on: nothing is
\* truncated, bytes left by an interrupted append stay behind the high-water.
Overwrite(bytes, from, to) ==
  [i \in 1..(IF to > Len(bytes) THEN to ELSE Len(bytes)) |->
     IF from < i /\ i <= to THEN op.body[i - op.off] ELSE bytes[i]]

\* appendAtHighWater: the excess over the high-water is written and fsynced.
WriteMirror ==
  /\ Routable /\ ~Diverges /\ ReqEnd > Target.hw
  /\ mirror' = [mirror EXCEPT ![op.tgt] = Overwrite(@, Target.hw, ReqEnd)]
  /\ op' = [op EXCEPT !.pc = "fprint", !.hw = ReqEnd]
  /\ UNCHANGED <<files, dropLog>>

\* A write error: some of the excess may have reached the file.
FailWriteMirror ==
  /\ Routable /\ ~Diverges /\ ReqEnd > Target.hw
  /\ \E to \in Target.hw..ReqEnd :
       mirror' = [mirror EXCEPT ![op.tgt] = Overwrite(@, Target.hw, to)]
  /\ Reply("mirror_write_failed", op.tgt, Target.hw)
  /\ UNCHANGED <<files, dropLog>>

\* Mutant: a claimed fingerprint is kept although the mirror has a full window.
UpdateFingerprint_TrustClaim ==
  /\ op.pc = "fprint"
  /\ files' = IF op.hw < Window \/ Target.fp # NoFP THEN files
              ELSE [files EXCEPT ![op.tgt].fp = FP(mirror[op.tgt])]
  /\ Stage("record")
  /\ UNCHANGED <<mirror, dropLog>>

\* updateFingerprintFromMirror, before the high-water is recorded.
UpdateFingerprint ==
  /\ op.pc = "fprint"
  /\ files' = IF op.hw < Window THEN files
              ELSE [files EXCEPT ![op.tgt].fp = FP(mirror[op.tgt])]
  /\ Stage("record")
  /\ UNCHANGED <<mirror, dropLog>>

\* Mutant: a replay below the high-water records its own end.
RecordSuccess_Replay ==
  /\ \/ op.pc = "record"
     \/ Routable /\ ~Diverges /\ ReqEnd <= Target.hw
  /\ files' = [files EXCEPT ![op.tgt].hw = ReqEnd, ![op.tgt].pending = FALSE]
  /\ op' = [op EXCEPT !.pc = "facts", !.hw = ReqEnd]
  /\ UNCHANGED <<mirror, dropLog>>

\* Mutant: the bytes of a replay are counted again.
RecordSuccess_CountReplay ==
  /\ \/ op.pc = "record"
     \/ Routable /\ ~Diverges /\ ReqEnd <= Target.hw
  /\ LET hw == IF op.pc = "record" THEN op.hw ELSE Target.hw + Len(op.body) IN
     /\ files' = [files EXCEPT ![op.tgt].hw = hw, ![op.tgt].pending = FALSE]
     /\ op' = [op EXCEPT !.pc = "facts", !.hw = hw]
  /\ UNCHANGED <<mirror, dropLog>>

\* recordSuccess, first statement.  A body wholly below the high-water (or an
\* empty one) comes here straight from routing.
RecordSuccess ==
  /\ \/ op.pc = "record"
     \/ Routable /\ ~Diverges /\ ReqEnd <= Target.hw
  /\ LET hw == IF op.pc = "record" THEN op.hw ELSE Target.hw IN
     /\ files' = [files EXCEPT ![op.tgt].hw = hw, ![op.tgt].pending = FALSE]
     /\ op' = [op EXCEPT !.pc = "facts", !.hw = hw]
  /\ UNCHANGED <<mirror, dropLog>>

\* recordSuccess, last_seen and fact_observations; then the 200.
RecordFacts ==
  /\ op.pc = "facts"
  /\ Reply("ack", op.tgt, op.hw)
  /\ UNCHANGED <<files, mirror, dropLog>>

\* A statement fails (storage error, or the client hung up and its request
\* context is cancelled): what ran before it stays.
FailStatement ==
  /\ op.pc \in PutStages
  /\ op.pc = "route" => Routable /\ (op.off < Target.hw \/ op.body = <<>>)
  /\ Reply("store_unavailable", op.tgt,
           IF op.pc \in {"fprint", "record", "facts"} THEN op.hw ELSE Target.hw)
  /\ UNCHANGED <<files, mirror, dropLog>>

Release ==
  /\ op.pc = "done"
  /\ op' = Idle
  /\ UNCHANGED <<files, mirror, dropLog>>

-----------------------------------------------------------------------------
(* DropFile: audit row, one transaction for the rows, then the mirror files *)

\* Mutant: the audit row is not written before the rows go.
DropAudit_Missing ==
  /\ op.pc = "idle" /\ files # <<>> /\ Len(dropLog) < MaxDrops
  /\ op' = [Idle EXCEPT !.pc = "drop_rows", !.tgt = Len(files)]
  /\ UNCHANGED <<files, mirror, dropLog>>

DropAudit ==
  /\ op.pc = "idle" /\ files # <<>> /\ Len(dropLog) < MaxDrops
  /\ dropLog' = Append(dropLog, Len(files))
  /\ op' = [Idle EXCEPT !.pc = "drop_rows", !.tgt = Len(files)]
  /\ UNCHANGED <<files, mirror>>

DropRows ==
  /\ op.pc = "drop_rows"
  /\ files' = <<>>
  /\ Stage("drop_mirrors")
  /\ UNCHANGED <<mirror, dropLog>>

\* os.Remove per generation in order; an error stops the loop early.
DropMirrors ==
  /\ op.pc = "drop_mirrors"
  /\ \E k \in 0..op.tgt :
       mirror' = [g \in DOMAIN mirror |-> IF g <= k THEN <<>> ELSE mirror[g]]
  /\ op' = Idle
  /\ UNCHANGED <<files, dropLog>>

\* The process dies, or DropFile returns an error; everything but the operation in progress is durable.
Crash ==
  /\ op.pc # "idle"
  /\ op' = Idle
  /\ UNCHANGED <<files, mirror, dropLog>>

-----------------------------------------------------------------------------

\* What the store does on its own once it holds the lock.
Step == \/ RejectPoisoned \/ RejectGap
        \/ FirstDivergence \/ PoisonFingerprint \/ ClearPending \/ OpenGeneration
        \/ WriteMirror \/ UpdateFingerprint \/ RecordSuccess \/ RecordFacts
        \/ Release

Fault == FailWriteMirror \/ FailStatement \/ Crash

Drop == DropAudit \/ DropRows \/ DropMirrors

\* Any client may send anything: the store is open to every shipper of the
\* identity, including a previous incarnation whose request is still in flight.
Put == /\ op.pc = "idle"
       /\ \E fp \in Claims \cup {NoFP}, off \in 0..MaxLen, n \in 0..MaxBody :
            /\ off + n <= MaxLen
            /\ \E body \in [1..n -> Byte] : BeginPut(fp, off, body)

Next == Put \/ Step \/ Fault \/ Drop

Spec == Init /\ [][Next]_vars

-----------------------------------------------------------------------------
(* Properties *)

\* Every variable has its type and generation numbers stay within the bound.
TypeOK == /\ files \in Seq(Row) /\ Len(files) <= MaxGen
          /\ mirror \in [1..MaxGen -> Seq(Byte)]
          /\ op \in Op
          /\ dropLog \in Seq(Nat)

\* A recorded high-water never promises bytes the mirror file does not hold,
\* whatever crash or failed statement came between the write and the record
\* (appendAtHighWater writes and fsyncs before recordSuccess).
HighWaterBacked == \A g \in DOMAIN files : files[g].hw <= Len(mirror[g])

\* Once a generation holds a full window its recorded fingerprint is the one of
\* its own mirrored bytes, never a client's claim: selectGeneration routes by it.
FingerprintAuthoritative ==
  \A g \in DOMAIN files :
    files[g].hw >= Window => files[g].fp = FP(mirror[g])

\* What a generation's row records is what its mirror file holds.
RowsBacked == HighWaterBacked /\ FingerprintAuthoritative

\* The bytes of the request are in the target's mirror below hw.
Stored(hw) == /\ ReqEnd <= hw
              /\ \A i \in DOMAIN op.body : mirror[op.tgt][op.off + i] = op.body[i]

\* A 200 means that every byte of the request is durably mirrored at its own
\* offset, below the recorded high-water the reply carries (putBytes).
DurableAck ==
  op.pc = "done" /\ op.code = "ack" =>
    op.tgt \in DOMAIN files /\ op.hw = Target.hw /\ Stored(Target.hw)

\* 409 generation_opened is only answered for bytes that contradict the acked
\* bytes of an earlier generation with the fingerprint the new one inherits, and
\* the new generation is empty (handleDivergence).
OpenedForDivergence ==
  op.pc = "done" /\ op.code = "generation_opened" =>
    /\ op.tgt = Active /\ Target.hw = 0 /\ Target.driven
    /\ \E g \in 1..(op.tgt - 1) :
         /\ files[g].fp = Target.fp
         /\ \E i \in DOMAIN op.body : /\ op.off + i <= files[g].hw
                                       /\ mirror[g][op.off + i] # op.body[i]

\* No step but the transaction of DropFile lowers a high-water, removes a
\* generation or changes a byte below a high-water: the mirror is append-only.
Append1(g) == /\ g \in DOMAIN files' /\ files'[g].hw >= files[g].hw
              /\ \A i \in 1..files[g].hw : mirror'[g][i] = mirror[g][i]
MirrorAppendOnly ==
  [][op.pc # "drop_rows" => \A g \in DOMAIN files : Append1(g)]_vars

\* A poisoned generation is frozen until the identity is dropped: it stays
\* poisoned and neither its row's high-water nor its file changes.
PoisonFrozen ==
  [][\A g \in DOMAIN files :
       files[g].poisoned /\ op.pc # "drop_rows" =>
         /\ g \in DOMAIN files' /\ files'[g].poisoned
         /\ files'[g].hw = files[g].hw /\ mirror'[g] = mirror[g]]_vars

\* Rows disappear only after an audit row that names exactly them is durable
\* ("an interrupted drop cannot lose the deletion trail", DropFile).
DropAudited ==
  [][files # <<>> /\ files' = <<>> =>
       dropLog # <<>> /\ dropLog[Len(dropLog)] = Len(files)]_vars
=============================================================================
