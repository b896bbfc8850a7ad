------------------------------- MODULE SeshShip -------------------------------
(***************************************************************************)
(* The sesh shipper (tools/sesh/internal/ship) and the store, for ONE file *)
(* identity: Shipper.RunOnce passes over a source file that its owner      *)
(* edits, truncates, recreates and deletes at any time; the cursor         *)
(* registry is volatile inside a pass and durable at its end; PUTs cross a *)
(* network that loses requests and replies and may deliver a request after *)
(* the shipper gave it up; either process may crash.  The store is         *)
(* SeshStore, driven by the requests of this shipper.                      *)
(***************************************************************************)
EXTENDS Integers, Sequences, SequencesExt

CONSTANTS
  Byte, Window, MaxBody, MaxLen, MaxGen,     \* as in SeshStore
  ShipBody,    \* Shipper.MaxBody, the largest body the shipper sends
  Lines,       \* sequence of the histories a source file may hold a prefix of
  Edits,       \* which edits the owner makes
  Delays,      \* whether a request given up may still reach the store
  RegistryLoss,\* whether the registry file may be lost
  MaxEdits,    \* bound: edits of the source
  MaxFaults    \* bound: crashes, losses and failed calls

ASSUME ShipAssumption ==
  /\ Window \in Nat /\ Window > 0
  /\ MaxBody \in Nat /\ MaxLen \in Nat /\ MaxGen \in Nat
  /\ ShipBody \in Nat /\ ShipBody > 0
  /\ \A i \in DOMAIN Lines : Lines[i] \in Seq(Byte) /\ Len(Lines[i]) = MaxLen
  /\ Delays \in BOOLEAN /\ RegistryLoss \in BOOLEAN
  /\ Edits \subseteq {"append", "truncate", "recreate", "replace", "delete"}

VARIABLES
  files, mirror, op, dropLog,   \* the store, see SeshStore
  present, source,              \* the source file: it exists, its bytes
  cur,                          \* Registry.cursors in memory
  disk,                         \* the registry file
  needsRecovery,                \* Registry.NeedsRecovery
  held,                         \* Shipper.held
  ship,                         \* the pass: its stage and the locals of shipFile
  live, orphan,                 \* the request awaited, a request given up
  edits, faults                 \* how much of the budgets is used

Store == INSTANCE SeshStore WITH Claims <- [1..Window -> Byte], MaxDrops <- 0

NoFP == Store!NoFP
FP(bytes) == Store!FP(bytes)

storeVars == <<files, mirror, op, dropLog>>
sourceVars == <<present, source>>
registryVars == <<cur, disk, needsRecovery, held>>
netVars == <<live, orphan>>
budgets == <<edits, faults>>
vars == <<storeVars, sourceVars, registryVars, ship, netVars, budgets>>

Untracked == [known |-> FALSE, off |-> 0, fp |-> NoFP, poisoned |-> FALSE]
NoRegistry == [ok |-> FALSE, cur |-> Untracked]
NoPass == [pc |-> "idle", here |-> FALSE, size |-> 0, retried |-> FALSE,
           body |-> ShipBody]
NoCall == [st |-> "none", fp |-> NoFP, off |-> 0, body |-> <<>>,
           code |-> "none", hw |-> 0]

Init == /\ Store!Init
        /\ present = FALSE /\ source = <<>>
        /\ cur = Untracked /\ disk = NoRegistry
        /\ needsRecovery = TRUE /\ held = FALSE
        /\ ship = NoPass
        /\ live = NoCall /\ orphan = NoCall
        /\ edits = 0 /\ faults = 0

AFault == faults < MaxFaults /\ faults' = faults + 1
NoFault == UNCHANGED faults
Go(pc) == ship' = [ship EXCEPT !.pc = pc]
PutCursor(c) == cur' = [c EXCEPT !.known = TRUE]       \* Registry.Put, in a batch

-----------------------------------------------------------------------------
(* The owner of the source file *)

EditSource(kind, here, bytes) ==
  /\ kind \in Edits /\ edits < MaxEdits /\ edits' = edits + 1
  /\ present' = here /\ source' = bytes
  /\ UNCHANGED <<storeVars, registryVars, ship, netVars, faults>>

\* The bytes the file may hold: the prefixes of the histories with index in I.
PrefixesOf(I) == {SubSeq(Lines[i], 1, k) : i \in I, k \in 0..MaxLen}
Holding == {i \in DOMAIN Lines : IsPrefix(source, Lines[i])}

\* The agent appends to the file, or creates it.
AppendSource ==
  \/ /\ present
     /\ \E bytes \in PrefixesOf(Holding) :
          IsStrictPrefix(source, bytes) /\ EditSource("append", TRUE, bytes)
  \/ /\ ~present
     /\ \E bytes \in PrefixesOf(DOMAIN Lines) : EditSource("append", TRUE, bytes)

TruncateSource ==
  /\ present
  /\ \E k \in 0..(Len(source) - 1) : EditSource("truncate", TRUE, SubSeq(source, 1, k))

\* Another file takes its place, whatever the shipper has seen so far.
RecreateSource ==
  /\ present
  /\ \E bytes \in PrefixesOf(DOMAIN Lines) : EditSource("recreate", TRUE, bytes)

\* The same, after the shipper has durably recorded the file's fingerprint, by a
\* file with a fingerprint that the identity never had before.
ReplaceSource ==
  /\ present /\ cur.fp # NoFP /\ disk.cur.fp # NoFP
  /\ \E bytes \in PrefixesOf({j \in DOMAIN Lines : \A i \in Holding : i < j}) :
       Len(bytes) >= Window /\ EditSource("replace", TRUE, bytes)

DeleteSource == present /\ EditSource("delete", FALSE, <<>>)

Owner == \/ AppendSource \/ TruncateSource \/ RecreateSource
         \/ ReplaceSource \/ DeleteSource

-----------------------------------------------------------------------------
(* RunOnce: discovery, cursor recovery, cursor GC *)

StartPass ==
  /\ ship.pc = "idle"
  /\ ship' = [NoPass EXCEPT !.pc = IF needsRecovery THEN "recover" ELSE "gc",
                            !.here = present]
  /\ UNCHANGED <<storeVars, sourceVars, registryVars, netVars, budgets>>

\* recoverCursor without a store call: nothing discovered, or a cursor is there.
RecoverSkip ==
  /\ ship.pc = "recover" /\ (~ship.here \/ cur.known)
  /\ needsRecovery' = FALSE /\ Go("gc")
  /\ UNCHANGED <<storeVars, sourceVars, cur, disk, held, netVars, budgets>>

AskStore == ship.pc = "recover" /\ ship.here /\ ~cur.known

\* The GET fails or the store answers a hold code: the pass ends, NeedsRecovery stays.
RecoverHold ==
  /\ AskStore /\ AFault /\ Go("end")
  /\ UNCHANGED <<storeVars, sourceVars, registryVars, netVars, edits>>

\* A non-retryable refusal parks the identity.
RecoverRefused ==
  /\ AskStore /\ AFault /\ Go("gc")
  /\ held' = TRUE /\ needsRecovery' = FALSE
  /\ UNCHANGED <<storeVars, sourceVars, cur, disk, netVars, edits>>

Ready == Len(source) >= Window

\* The generation to resume: the highest with the local fingerprint, at its
\* high-water; otherwise the active one, from 0.
ResumeCursor ==
  LET fp == IF Ready THEN FP(source) ELSE NoFP
      hit == Ready /\ Store!Matching(fp) # {}
      g == IF hit THEN Store!HighestMatch(fp) ELSE Store!Active
  IN [known |-> TRUE, off |-> IF hit THEN files[g].hw ELSE 0, fp |-> fp,
      poisoned |-> files[g].poisoned]

\* Store.recovery takes the store's lock; 404 starts from 0; a file that vanished
\* meanwhile gets no cursor.
RecoverCursor ==
  /\ AskStore /\ op.pc = "idle"
  /\ cur' = CASE files = <<>> -> [Untracked EXCEPT !.known = TRUE]
              [] files # <<>> /\ ~present -> cur
              [] OTHER -> ResumeCursor
  /\ needsRecovery' = FALSE /\ Go("gc")
  /\ UNCHANGED <<storeVars, sourceVars, disk, held, netVars, budgets>>

GCCursor ==
  /\ ship.pc = "gc"
  /\ cur' = IF ship.here THEN cur ELSE Untracked
  /\ Go("ship")
  /\ UNCHANGED <<storeVars, sourceVars, disk, needsRecovery, held, netVars, budgets>>

\* recordOwnerObservations: a new owner is put in the cursor and the whole
\* registry is saved at once.
SaveOwner ==
  /\ ship.pc = "ship" /\ ship.here
  /\ PutCursor(cur) /\ disk' = [ok |-> TRUE, cur |-> cur'] /\ cur' # disk.cur
  /\ UNCHANGED <<storeVars, sourceVars, needsRecovery, held, ship, netVars, budgets>>

\* That save fails: the pass is over.
SaveOwnerFails ==
  /\ ship.pc = "ship" /\ ship.here /\ AFault
  /\ PutCursor(cur) /\ Go("end")
  /\ UNCHANGED <<storeVars, sourceVars, disk, needsRecovery, held, netVars, edits>>

-----------------------------------------------------------------------------
(* shipFile *)

BeginFile ==
  /\ ship.pc = "ship"
  /\ Go(IF ~ship.here \/ held \/ cur.poisoned THEN "end" ELSE "stat")
  /\ UNCHANGED <<storeVars, sourceVars, registryVars, netVars, budgets>>

\* The file is gone at stat, fingerprint or read: GC is for the next pass.
Vanished ==
  /\ ship.pc \in {"stat", "fp", "read"} /\ ~present
  /\ Go("end")
  /\ UNCHANGED <<storeVars, sourceVars, registryVars, netVars, budgets>>

\* Mutant: a file of exactly the cursor's size counts as a regression.
StatFile_EqualSize ==
  /\ ship.pc = "stat" /\ present
  /\ ship' = [ship EXCEPT !.pc = "fp", !.size = Len(source)]
  /\ IF Len(source) <= cur.off
     THEN PutCursor([cur EXCEPT !.off = 0, !.fp = NoFP])
     ELSE UNCHANGED cur
  /\ UNCHANGED <<storeVars, sourceVars, disk, needsRecovery, held, netVars, budgets>>

\* Size regression comes first: reset to 0 and forget the fingerprint.
StatFile ==
  /\ ship.pc = "stat" /\ present
  /\ ship' = [ship EXCEPT !.pc = "fp", !.size = Len(source)]
  /\ IF Len(source) < cur.off
     THEN PutCursor([cur EXCEPT !.off = 0, !.fp = NoFP])
     ELSE UNCHANGED cur
  /\ UNCHANGED <<storeVars, sourceVars, disk, needsRecovery, held, netVars, budgets>>

\* Mutant: a changed fingerprint is recorded but the cursor stays.
Fingerprinted_KeepOffset ==
  IF ~Ready \/ cur.fp = FP(source) THEN cur
  ELSE [cur EXCEPT !.known = TRUE, !.fp = FP(source)]

\* The cursor after comparing the file's fingerprint with the recorded one.
Fingerprinted ==
  IF ~Ready \/ cur.fp = FP(source) THEN cur
  ELSE [cur EXCEPT !.known = TRUE, !.fp = FP(source),
                   !.off = IF cur.fp = NoFP THEN cur.off ELSE 0]

FingerprintFile ==
  /\ ship.pc = "fp" /\ present
  /\ cur' = Fingerprinted
  /\ Go(IF cur'.off >= ship.size THEN "end" ELSE "read")
  /\ UNCHANGED <<storeVars, sourceVars, disk, needsRecovery, held, netVars, budgets>>

\* readRange from the cursor: as much of min(size - offset, maxBody) as is there.
Chunk == LET upTo == cur.off + ship.body
             sized == IF upTo < ship.size THEN upTo ELSE ship.size
         IN SubSeq(source, cur.off + 1, IF sized < Len(source) THEN sized ELSE Len(source))

ReadAndPut ==
  /\ ship.pc = "read" /\ present
  /\ IF Chunk = <<>>
     THEN Go("stat") /\ UNCHANGED live
     ELSE /\ live' = [NoCall EXCEPT !.st = "sent", !.fp = cur.fp, !.off = cur.off,
                                    !.body = Chunk]
          /\ Go("wait")
  /\ UNCHANGED <<storeVars, sourceVars, registryVars, orphan, budgets>>

\* A reply of one of the given codes: the cursor it leaves, where the loop goes on.
Answered(codes) == ship.pc = "wait" /\ live.st = "replied" /\ live.code \in codes
Hear(c, pass) ==
  /\ cur' = c /\ ship' = pass /\ live' = NoCall
  /\ UNCHANGED <<storeVars, sourceVars, disk, needsRecovery, held, orphan, budgets>>

\* 200: the cursor is the high-water, clamped to the size last observed.
HearAck ==
  /\ Answered({"ack"})
  /\ Hear([cur EXCEPT !.known = TRUE,
                      !.off = IF live.hw > ship.size THEN ship.size ELSE live.hw],
          [ship EXCEPT !.pc = "stat", !.retried = FALSE])

\* 409 with a position: the high-water is adopted verbatim.
HearRewind ==
  /\ Answered({"offset_gap", "fingerprint_conflict", "generation_opened"})
  /\ Hear([cur EXCEPT !.known = TRUE, !.off = live.hw],
          [ship EXCEPT !.pc = "stat", !.retried = FALSE])

\* Mutant: the file is frozen at the first divergence.
HearConflict_Freeze ==
  /\ Answered({"byte_conflict"})
  /\ Hear([cur EXCEPT !.known = TRUE, !.poisoned = TRUE], [ship EXCEPT !.pc = "end"])

\* byte_conflict: re-check the file and retry once; a second one is an error.
HearConflict ==
  /\ Answered({"byte_conflict"})
  /\ Hear(cur, IF ship.retried THEN [ship EXCEPT !.pc = "end"]
               ELSE [ship EXCEPT !.pc = "stat", !.retried = TRUE])

HearPoisoned ==
  /\ Answered({"poisoned_file"})
  /\ Hear([cur EXCEPT !.known = TRUE, !.poisoned = TRUE], [ship EXCEPT !.pc = "end"])

\* Mutant: the cursor steps back by the body that was not taken.
HearHold_StepBack ==
  /\ Answered({"store_unavailable", "mirror_write_failed"})
  /\ Hear([cur EXCEPT !.known = TRUE, !.off = cur.off - Len(live.body)],
          [ship EXCEPT !.pc = "end"])

HearHold ==
  /\ Answered({"store_unavailable", "mirror_write_failed"})
  /\ Hear(cur, [ship EXCEPT !.pc = "end"])

\* Mutant: the same body is sent again.
HearTooLarge_SameBody ==
  /\ Answered({"body_too_large"})
  /\ Hear(cur, [ship EXCEPT !.pc = "stat"])

\* body_too_large: halve the body for the rest of this file's turn.
HearTooLarge ==
  /\ Answered({"body_too_large"})
  /\ Hear(cur, IF ship.body <= 1 THEN [ship EXCEPT !.pc = "end"]
               ELSE [ship EXCEPT !.pc = "stat", !.body = ship.body \div 2])

\* malformed_request and the like: parked until restart.
HearRefused ==
  /\ Answered({"malformed_request"})
  /\ held' = TRUE /\ live' = NoCall /\ Go("end")
  /\ UNCHANGED <<storeVars, sourceVars, cur, disk, needsRecovery, orphan, budgets>>

\* endBatch: the registry is replaced atomically if anything was put or deleted.
EndPass ==
  /\ ship.pc = "end"
  /\ disk' = IF cur = disk.cur THEN disk ELSE [ok |-> TRUE, cur |-> cur]
  /\ ship' = NoPass
  /\ UNCHANGED <<storeVars, sourceVars, cur, needsRecovery, held, netVars, budgets>>

\* save fails: memory keeps the cursors, the file keeps the old ones.
EndPassUnsaved ==
  /\ ship.pc = "end" /\ cur # disk.cur /\ AFault
  /\ ship' = NoPass
  /\ UNCHANGED <<storeVars, sourceVars, registryVars, netVars, edits>>

-----------------------------------------------------------------------------
(* The network and the store's side of a PUT *)

StoreIs(x) == UNCHANGED <<sourceVars, registryVars, ship, edits>> /\ x

\* Mutant: a request is routed without taking Store.mu.
Arrive_Unlocked(call) ==
  /\ call.st = "sent"
  /\ Len(call.body) <= MaxBody
  /\ \/ Store!SelectFirst(call.fp, call.off, call.body)
     \/ Store!SelectExisting(call.fp, call.off, call.body)
  /\ UNCHANGED <<mirror, dropLog>>

\* handlePUTBytes reads the body before it takes the lock.
Arrive(call) ==
  /\ call.st = "sent"
  /\ Len(call.body) <= MaxBody
  /\ Store!BeginPut(call.fp, call.off, call.body)

TakeLive ==
  /\ Arrive(live) /\ op'.code # "store_unavailable"
  /\ live' = [live EXCEPT !.st = "serving"]
  /\ StoreIs(NoFault) /\ UNCHANGED orphan

TakeOrphan ==
  /\ Arrive(orphan) /\ op'.code # "store_unavailable"
  /\ orphan' = [orphan EXCEPT !.st = "serving"]
  /\ StoreIs(NoFault) /\ UNCHANGED live

\* An answer that never reaches putBytes: the body is over the limit, or the store
\* refuses the request (an older store, a failed query).
TooLarge ==
  /\ live.st = "sent" /\ Len(live.body) > MaxBody
  /\ live' = [live EXCEPT !.st = "replied", !.code = "body_too_large"]
  /\ StoreIs(NoFault) /\ UNCHANGED <<storeVars, orphan>>

RefuseLive ==
  /\ live.st = "sent"
  /\ \E code \in {"malformed_request", "store_unavailable"} :
       live' = [live EXCEPT !.st = "replied", !.code = code]
  /\ StoreIs(AFault) /\ UNCHANGED <<storeVars, orphan>>

StoreStep ==
  /\ \/ Store!RejectPoisoned \/ Store!RejectGap \/ Store!FirstDivergence
     \/ Store!PoisonFingerprint \/ Store!ClearPending \/ Store!OpenGeneration
     \/ Store!WriteMirror \/ Store!UpdateFingerprint \/ Store!RecordSuccess
     \/ Store!RecordFacts
  /\ StoreIs(NoFault) /\ UNCHANGED netVars

StoreFails ==
  /\ Store!FailWriteMirror \/ Store!FailStatement
  /\ StoreIs(AFault) /\ UNCHANGED netVars

\* The lock is released and the reply is on its way; an orphan's goes nowhere.
StoreReplies ==
  /\ Store!Release
  /\ IF live.st = "serving"
     THEN /\ live' = [live EXCEPT !.st = "replied", !.code = op.code, !.hw = op.hw]
          /\ UNCHANGED orphan
     ELSE orphan' = NoCall /\ UNCHANGED live
  /\ StoreIs(NoFault)

StoreCrash ==
  /\ Store!Crash
  /\ IF live.st = "serving"
     THEN live' = [live EXCEPT !.st = "broken"] /\ UNCHANGED orphan
     ELSE orphan' = NoCall /\ UNCHANGED live
  /\ StoreIs(AFault)

\* What is left of a call the shipper no longer waits for: a request not yet at
\* the store is lost or delayed, one in the handler goes on there.
GivenUp ==
  CASE live.st = "sent" /\ orphan.st = "none" ->
         orphan' \in {NoCall} \cup (IF Delays THEN {live} ELSE {})
    [] live.st = "serving" -> orphan' = live
    [] OTHER -> UNCHANGED orphan

\* Mutant: a call that failed in transport counts as delivered.
LoseCall_Advance ==
  /\ ship.pc = "wait"
  /\ IF live.st = "broken" THEN NoFault ELSE AFault
  /\ live.st = "serving" => orphan.st = "none"
  /\ GivenUp /\ live' = NoCall
  /\ PutCursor([cur EXCEPT !.off = live.off + Len(live.body)])
  /\ Go("end")
  /\ UNCHANGED <<storeVars, sourceVars, disk, needsRecovery, held, edits>>

\* A transport error: hold position.  The connection broke, or the request or
\* the reply is lost, or nothing moved for idleProgressTimeout.
LoseCall ==
  /\ ship.pc = "wait"
  /\ IF live.st = "broken" THEN NoFault ELSE AFault
  /\ live.st = "serving" => orphan.st = "none"
  /\ GivenUp /\ live' = NoCall
  /\ Go("end")
  /\ UNCHANGED <<storeVars, sourceVars, registryVars, edits>>

\* The shipper dies and restarts from its registry file, unless that is lost
\* (missing, or unreadable and set aside).
ShipCrash ==
  /\ AFault
  /\ live.st = "serving" => orphan.st = "none"
  /\ disk' \in {disk} \cup (IF RegistryLoss THEN {NoRegistry} ELSE {})
  /\ cur' = disk'.cur /\ needsRecovery' = ~disk'.ok /\ held' = FALSE
  /\ ship' = NoPass
  /\ GivenUp /\ live' = NoCall
  /\ UNCHANGED <<storeVars, sourceVars, edits>>

-----------------------------------------------------------------------------

Shipper == \/ StartPass \/ RecoverSkip \/ RecoverCursor \/ GCCursor
           \/ BeginFile \/ Vanished \/ StatFile \/ FingerprintFile \/ ReadAndPut
           \/ HearAck \/ HearRewind \/ HearConflict \/ HearPoisoned \/ HearHold
           \/ HearTooLarge \/ HearRefused \/ EndPass

Serving == TakeLive \/ TooLarge \/ StoreStep \/ StoreReplies

Faults == \/ RecoverHold \/ RecoverRefused \/ SaveOwnerFails \/ EndPassUnsaved \/ RefuseLive
          \/ StoreFails \/ StoreCrash \/ LoseCall \/ ShipCrash

Next == Owner \/ Shipper \/ SaveOwner \/ Serving \/ TakeOrphan \/ Faults

Spec == Init /\ [][Next]_vars

\* The rescan ticker starts a pass again and again and a pass runs on while its
\* calls return; the store serves what reaches it; a broken connection is noticed.
FairSpec == /\ Spec
            /\ WF_vars(Shipper) /\ WF_vars(Serving)
            /\ WF_vars(live.st = "broken" /\ LoseCall)

-----------------------------------------------------------------------------
(* Properties *)

Cursor == [known : BOOLEAN, off : 0..MaxLen, fp : Store!FPs \cup {NoFP},
           poisoned : BOOLEAN]
Call == [st : {"none", "sent", "serving", "replied", "broken"},
         fp : Store!FPs \cup {NoFP}, off : 0..MaxLen, body : Seq(Byte),
         code : Store!Codes \cup {"body_too_large", "malformed_request"}, hw : 0..MaxLen]

\* Every variable of the composition has its type.
TypeOK == /\ Store!TypeOK
          /\ present \in BOOLEAN /\ source \in Seq(Byte) /\ Len(source) <= MaxLen
          /\ cur \in Cursor /\ disk \in [ok : BOOLEAN, cur : Cursor]
          /\ needsRecovery \in BOOLEAN /\ held \in BOOLEAN
          /\ live \in Call /\ orphan \in Call

Mirrors(bytes) == \E g \in DOMAIN files : /\ Len(bytes) <= files[g].hw
                                          /\ IsPrefix(bytes, mirror[g])

\* A pass that started now would find nothing to ship.
Quiescent == /\ present /\ source # <<>> /\ ~held /\ ~cur.poisoned /\ ~needsRecovery
             /\ ship.pc = "idle"
             /\ cur.off = Len(source)
             /\ Ready => cur.fp = FP(source)

\* When the shipper considers a file shipped, some generation of the mirror holds
\* exactly the file's bytes as its acknowledged prefix (I2, I4): whatever was
\* lost, repeated, delayed or crashed on the way.
QuiescentIsMirrored == Quiescent => Mirrors(source)

\* The cursor, in memory and in the registry file, never claims more bytes than
\* the store has acknowledged for some generation (I4: the cursor advances only
\* after the store's durable ACK).
CursorIsAcked ==
  \A c \in {cur, disk.cur} : c.off > 0 => \E g \in DOMAIN files : c.off <= files[g].hw

\* A frozen cursor has its cause in the store: some generation is poisoned.
PoisonHasCause ==
  cur.poisoned \/ disk.cur.poisoned => \E g \in DOMAIN files : files[g].poisoned

\* What the shipper and its network do to the store is among what SeshStore
\* allows any client to do.
StoreSpec == Store!Spec

\* Nothing is left to ship, or the identity is parked.
Settled == \/ ~present \/ held \/ cur.poisoned
           \/ cur.off = Len(source) /\ (source = <<>> \/ Mirrors(source))

\* Once edits and faults stop, the file ends up mirrored, or parked.
EventuallyMirrored == <>[]Settled

\* Once edits and faults stop, the shipper stops sending: no rewind, reset or
\* retry rule makes it replay the file for ever.
EventuallyQuiet == <>[](live.st = "none")
=============================================================================
