---------------------------- MODULE SeshShipProofs ----------------------------
(***************************************************************************)
(* Theorems about SeshShip: the shipper, its network and their faults drive *)
(* the store within what SeshStore lets any client do, so that every        *)
(* theorem of SeshStoreProofs holds here; a cursor, in memory or in the     *)
(* registry file, never claims more than the store has acknowledged; and a  *)
(* frozen cursor has its cause in the store.                                *)
(***************************************************************************)
EXTENDS SeshShip, TLAPS

\* What is proved about the store on its own.
P == INSTANCE SeshStoreProofs WITH Claims <- [1..Window -> Byte], MaxDrops <- 0

-----------------------------------------------------------------------------
(* The two instances of the store are one *)

LEMMA SameRouting ==
  /\ Store!RejectPoisoned => P!RejectPoisoned
  /\ Store!RejectGap => P!RejectGap
  /\ Store!FirstDivergence => P!FirstDivergence
  /\ Store!PoisonFingerprint => P!PoisonFingerprint
  /\ Store!ClearPending => P!ClearPending
  /\ Store!OpenGeneration => P!OpenGeneration
<1> USE DEF Store!Target, P!Target, Store!Reply, P!Reply, Store!Routable, P!Routable,
            Store!Diverges, P!Diverges, Store!DrivenExists, P!DrivenExists, Store!Stage, P!Stage
<1>1. Store!RejectPoisoned => P!RejectPoisoned
  BY DEF Store!RejectPoisoned, P!RejectPoisoned
<1>2. Store!RejectGap => P!RejectGap
  BY DEF Store!RejectGap, P!RejectGap
<1>3. Store!FirstDivergence => P!FirstDivergence
  BY DEF Store!FirstDivergence, P!FirstDivergence
<1>4. Store!PoisonFingerprint => P!PoisonFingerprint
  BY DEF Store!PoisonFingerprint, P!PoisonFingerprint
<1>5. Store!ClearPending => P!ClearPending
  BY DEF Store!ClearPending, P!ClearPending
<1>6. Store!OpenGeneration => P!OpenGeneration
  BY DEF Store!OpenGeneration, P!OpenGeneration, Store!NewRow, P!NewRow, Store!Active, P!Active
<1> QED BY <1>1, <1>2, <1>3, <1>4, <1>5, <1>6

LEMMA SameAppend ==
  /\ Store!WriteMirror => P!WriteMirror
  /\ Store!UpdateFingerprint => P!UpdateFingerprint
  /\ Store!RecordSuccess => P!RecordSuccess
  /\ Store!RecordFacts => P!RecordFacts
  /\ Store!Release => P!Release
  /\ Store!FailWriteMirror => P!FailWriteMirror
  /\ Store!FailStatement => P!FailStatement
  /\ Store!Crash => P!Crash
<1> USE DEF Store!Target, P!Target, Store!Reply, P!Reply, Store!Routable, P!Routable,
            Store!Diverges, P!Diverges, Store!ReqEnd, P!ReqEnd, Store!Overwrite, P!Overwrite,
            Store!Stage, P!Stage, Store!FP, P!FP, Store!Idle, P!Idle
<1>1. Store!WriteMirror => P!WriteMirror
  BY DEF Store!WriteMirror, P!WriteMirror
<1>2. Store!UpdateFingerprint => P!UpdateFingerprint
  BY DEF Store!UpdateFingerprint, P!UpdateFingerprint
<1>3. Store!RecordSuccess => P!RecordSuccess
  BY DEF Store!RecordSuccess, P!RecordSuccess
<1>4. Store!RecordFacts => P!RecordFacts
  BY DEF Store!RecordFacts, P!RecordFacts
<1>5. Store!Release => P!Release
  BY DEF Store!Release, P!Release
<1>6. Store!FailWriteMirror => P!FailWriteMirror
  BY DEF Store!FailWriteMirror, P!FailWriteMirror
<1>7. Store!FailStatement => P!FailStatement
  BY DEF Store!FailStatement, P!FailStatement, Store!PutStages, P!PutStages
<1>8. Store!Crash => P!Crash
  BY DEF Store!Crash, P!Crash
<1> QED BY <1>1, <1>2, <1>3, <1>4, <1>5, <1>6, <1>7, <1>8

LEMMA SameBegin ==
  ASSUME NEW fp, NEW off, NEW body, Store!BeginPut(fp, off, body)
  PROVE  P!BeginPut(fp, off, body)
BY DEF Store!BeginPut, P!BeginPut, Store!SelectFirst, P!SelectFirst,
       Store!SelectExisting, P!SelectExisting, Store!SelectAdopt, P!SelectAdopt,
       Store!SelectOpen, P!SelectOpen, Store!SelectFails, P!SelectFails,
       Store!Locked, P!Locked, Store!NewRow, P!NewRow, Store!Active, P!Active,
       Store!Matching, P!Matching, Store!HighestMatch, P!HighestMatch, Store!NoFP, P!NoFP

LEMMA SamePut == Store!Put => P!Put
BY SameBegin DEF Store!Put, P!Put, Store!NoFP, P!NoFP

LEMMA SameDrop == Store!Drop => P!Drop
BY DEF Store!Drop, P!Drop, Store!DropAudit, P!DropAudit, Store!DropRows, P!DropRows,
       Store!DropMirrors, P!DropMirrors, Store!Stage, P!Stage, Store!Idle, P!Idle

LEMMA SameNext == Store!Next => P!Next
BY SameRouting, SameAppend, SamePut, SameDrop
   DEF Store!Next, P!Next, Store!Step, P!Step, Store!Fault, P!Fault

LEMMA SameInit == Store!Init => P!Init
BY DEF Store!Init, P!Init, Store!Idle, P!Idle
-----------------------------------------------------------------------------
(* The inductive invariant *)

\* What is known of the store alone.
StoreInv == P!IInv /\ P!Told /\ P!Bounded

Poisoned == \E g \in DOMAIN files : files[g].poisoned

\* Some generation has acknowledged n bytes.
Acked(n) == n > 0 => \E g \in DOMAIN files : n <= files[g].hw

\* A cursor claims what the store has acknowledged, and freezes for a cause.
CursorTrue(c) == c \in Cursor /\ Acked(c.off) /\ (c.poisoned => Poisoned)

\* The locals of a pass.
Pass == [pc : {"idle", "recover", "gc", "ship", "stat", "fp", "read", "wait", "end"},
         here : BOOLEAN, size : 0..MaxLen, retried : BOOLEAN, body : Nat]

\* A request asks for bytes within the bound, as any client's does.
RequestTrue(call) == call \in Call /\ call.off + Len(call.body) <= MaxLen

\* What a reply on its way to the shipper says is true when it is heard.
Heard ==
  live.st = "replied" =>
    /\ live.code \in P!Positions => Acked(live.hw)
    /\ live.code = "poisoned_file" => Poisoned

FileOK == present \in BOOLEAN /\ source \in Seq(Byte) /\ Len(source) <= MaxLen

RegistryOK ==
  /\ CursorTrue(cur) /\ CursorTrue(disk.cur) /\ disk \in [ok : BOOLEAN, cur : Cursor]
  /\ needsRecovery \in BOOLEAN /\ held \in BOOLEAN

NetOK == RequestTrue(live) /\ RequestTrue(orphan) /\ Heard

\* The shipper never drops an identity.
NoDrops == dropLog = <<>>

ShipInv == FileOK /\ RegistryOK /\ ship \in Pass /\ NetOK /\ NoDrops

-----------------------------------------------------------------------------
(* The store's steps *)

\* The store's invariant is kept by whatever the shipper makes it do.
LEMMA StoreInvKept ==
  ASSUME StoreInv, [Store!Next]_storeVars PROVE StoreInv'
<1>1. CASE Store!Next
  <2>1. P!Next
    BY <1>1, SameNext
  <2>2. P!IInv'
    BY <2>1, P!NextStep, ShipAssumption DEF P!FPs, StoreInv
  <2>3. P!Told'
    BY <2>1, P!ToldStep, ShipAssumption DEF P!FPs, StoreInv
  <2>4. P!Bounded'
    BY <2>1, P!BoundedStep, ShipAssumption DEF P!FPs, StoreInv
  <2> QED BY <2>2, <2>3, <2>4 DEF StoreInv
<1>2. CASE UNCHANGED storeVars
  <2>1. P!IInv'
    BY <1>2, P!StutterStep, ShipAssumption DEF P!FPs, P!vars, storeVars, StoreInv
  <2>2. P!Told' /\ P!Bounded'
    BY <1>2 DEF storeVars, StoreInv, P!Told, P!Bounded, P!ReqEnd
  <2> QED BY <2>1, <2>2 DEF StoreInv
<1> QED BY <1>1, <1>2

LEMMA HighWaterNat ==
  ASSUME NEW rows \in Seq(P!Row) PROVE \A g \in DOMAIN rows : rows[g].hw \in Nat
<1>1. \A g \in DOMAIN rows : rows[g] \in P!Row
  OBVIOUS
<1>2. \A r \in P!Row : r.hw \in Nat
  BY DEF P!Row
<1> QED BY <1>1, <1>2

\* What is acknowledged stays so, what is poisoned too: nothing is dropped.
LEMMA AckedKept ==
  ASSUME StoreInv, NoDrops, [Store!Next]_storeVars
  PROVE  /\ \A n \in Nat : Acked(n) => Acked(n)'
         /\ Poisoned => Poisoned'
         /\ \A c : CursorTrue(c) => CursorTrue(c)'
<1>1. \A g \in DOMAIN files : /\ g \in DOMAIN files' /\ files'[g].hw >= files[g].hw
                              /\ files[g].poisoned => files'[g].poisoned
  <2>1. CASE UNCHANGED storeVars
    <3>1. \A g \in DOMAIN files : files[g].hw \in Nat
      BY HighWaterNat DEF StoreInv, P!IInv, P!TypeOK
    <3> QED BY <2>1, <3>1 DEF storeVars
  <2>2. CASE Store!Next
    <3>1. op.pc # "drop_rows"
      BY DEF StoreInv, P!IInv, P!Dropping, NoDrops
    <3>2. \A g \in DOMAIN files : P!Kept(g)
      BY <2>2, <3>1, SameNext, P!NextKeeps, ShipAssumption DEF P!FPs, StoreInv
    <3> QED BY <3>2 DEF P!Kept, P!Append1, P!Frozen
  <2> QED BY <2>1, <2>2
<1>2. \A g \in DOMAIN files : files[g].hw \in Nat
  BY HighWaterNat DEF StoreInv, P!IInv, P!TypeOK
<1>3. \A g \in DOMAIN files' : files'[g].hw \in Nat
  <2>1. files' \in Seq(P!Row)
    BY StoreInvKept DEF StoreInv, P!IInv, P!TypeOK
  <2> QED BY <2>1, HighWaterNat
<1>4. \A n \in Nat : Acked(n) => Acked(n)'
  BY <1>1, <1>2, <1>3 DEF Acked
<1>5. Poisoned => Poisoned'
  BY <1>1 DEF Poisoned
<1>6. ASSUME NEW c, CursorTrue(c) PROVE CursorTrue(c)'
  <2>1. c \in Cursor /\ c.off \in Nat
    BY <1>6, ShipAssumption DEF CursorTrue, Cursor
  <2> QED BY <1>4, <1>5, <1>6, <2>1 DEF CursorTrue
<1> QED BY <1>4, <1>5, <1>6

\* What the network brings to the store is a request of a client.
LEMMA ArriveIsPut ==
  ASSUME NEW call, RequestTrue(call), Arrive(call) PROVE Store!Put
<1>1. /\ call.fp \in Store!FPs \cup {NoFP} /\ call.off \in 0..MaxLen /\ call.body \in Seq(Byte)
      /\ call.off + Len(call.body) <= MaxLen
  BY DEF RequestTrue, Call
<1>2. Len(call.body) \in 0..MaxBody /\ call.body \in [1..Len(call.body) -> Byte]
  BY <1>1, ShipAssumption DEF Arrive
<1>3. Store!BeginPut(call.fp, call.off, call.body)
  BY DEF Arrive
<1>4. op.pc = "idle" /\ call.fp \in [1..Window -> Byte] \cup {Store!NoFP}
  BY <1>1, <1>3 DEF Store!BeginPut, Store!FPs, NoFP
<1> DEFINE fp == call.fp
           off == call.off
           n == Len(call.body)
           body == call.body
<1>5. /\ fp \in [1..Window -> Byte] \cup {Store!NoFP} /\ off \in 0..MaxLen /\ n \in 0..MaxBody
      /\ off + n <= MaxLen /\ body \in [1..n -> Byte] /\ Store!BeginPut(fp, off, body)
  BY <1>1, <1>2, <1>3, <1>4
<1> HIDE DEF fp, off, n, body
<1> QED BY <1>4, <1>5 DEF Store!Put

\* The steps the store takes part in.
StoreMoves == TakeLive \/ TakeOrphan \/ StoreStep \/ StoreFails \/ StoreReplies \/ StoreCrash

LEMMA StoreMovesRefine ==
  ASSUME NetOK, StoreMoves PROVE Store!Next
<1>1. CASE TakeLive \/ TakeOrphan
  BY <1>1, ArriveIsPut DEF TakeLive, TakeOrphan, NetOK, Store!Next
<1>2. CASE StoreStep \/ StoreFails \/ StoreReplies \/ StoreCrash
  BY <1>2 DEF StoreStep, StoreFails, StoreReplies, StoreCrash, Store!Next, Store!Step, Store!Fault
<1> QED BY <1>1, <1>2 DEF StoreMoves

\* All the others leave it alone.
LEMMA OthersRefine ==
  ASSUME Next, ~StoreMoves PROVE UNCHANGED storeVars
<1>1. CASE Owner
  BY <1>1 DEF Owner, AppendSource, TruncateSource, RecreateSource, ReplaceSource, DeleteSource,
              EditSource
<1>2. CASE Shipper
  BY <1>2 DEF Shipper, StartPass, RecoverSkip, RecoverCursor, GCCursor, BeginFile, Vanished,
       StatFile, FingerprintFile, ReadAndPut, HearAck, HearRewind, HearConflict, HearPoisoned,
       HearHold, HearTooLarge, HearRefused, EndPass, Hear
<1>3. CASE SaveOwner
  BY <1>3 DEF SaveOwner
<1>4. CASE Serving
  BY <1>4 DEF Serving, StoreMoves, TooLarge
<1>5. CASE Faults
  BY <1>5 DEF Faults, StoreMoves, RecoverHold, RecoverRefused, SaveOwnerFails, EndPassUnsaved,
       RefuseLive, LoseCall, ShipCrash
<1> QED BY <1>1, <1>2, <1>3, <1>4, <1>5 DEF Next, StoreMoves

LEMMA StepRefines ==
  ASSUME NetOK, [Next]_vars PROVE [Store!Next]_storeVars
BY StoreMovesRefine, OthersRefine DEF vars
-----------------------------------------------------------------------------
(* What the records become *)

LEMMA CursorFields ==
  ASSUME NEW c \in Cursor
  PROVE  /\ [c EXCEPT !.known = TRUE] \in Cursor
         /\ [c EXCEPT !.known = TRUE].off = c.off
         /\ [c EXCEPT !.known = TRUE].poisoned = c.poisoned
         /\ \A n \in 0..MaxLen :
              /\ [c EXCEPT !.known = TRUE, !.off = n] \in Cursor
              /\ [c EXCEPT !.known = TRUE, !.off = n].off = n
              /\ [c EXCEPT !.known = TRUE, !.off = n].poisoned = c.poisoned
         /\ \A n \in 0..MaxLen, fp \in Store!FPs \cup {NoFP} :
              /\ [c EXCEPT !.off = n, !.fp = fp] \in Cursor
              /\ [c EXCEPT !.off = n, !.fp = fp].off = n
              /\ [c EXCEPT !.off = n, !.fp = fp].poisoned = c.poisoned
              /\ [c EXCEPT !.known = TRUE, !.fp = fp, !.off = n] \in Cursor
              /\ [c EXCEPT !.known = TRUE, !.fp = fp, !.off = n].off = n
              /\ [c EXCEPT !.known = TRUE, !.fp = fp, !.off = n].poisoned = c.poisoned
         /\ [c EXCEPT !.known = TRUE, !.poisoned = TRUE] \in Cursor
         /\ [c EXCEPT !.known = TRUE, !.poisoned = TRUE].off = c.off
BY DEF Cursor

LEMMA UntrackedTrue ==
  CursorTrue(Untracked) /\ CursorTrue([Untracked EXCEPT !.known = TRUE])
<1>1. Untracked \in Cursor /\ Untracked.off = 0 /\ ~Untracked.poisoned
  BY ShipAssumption DEF Untracked, Cursor
<1>2. /\ [Untracked EXCEPT !.known = TRUE] \in Cursor
      /\ [Untracked EXCEPT !.known = TRUE].off = 0
      /\ ~[Untracked EXCEPT !.known = TRUE].poisoned
  BY <1>1, CursorFields
<1> QED BY <1>1, <1>2 DEF CursorTrue, Acked

LEMMA PassFields ==
  ASSUME NEW p \in Pass,
         NEW pc \in {"idle", "recover", "gc", "ship", "stat", "fp", "read", "wait", "end"}
  PROVE  /\ [p EXCEPT !.pc = pc] \in Pass
         /\ \A b \in BOOLEAN : [p EXCEPT !.pc = pc, !.here = b] \in Pass
         /\ \A b \in BOOLEAN : [p EXCEPT !.pc = pc, !.retried = b] \in Pass
         /\ \A n \in 0..MaxLen : [p EXCEPT !.pc = pc, !.size = n] \in Pass
         /\ \A n \in Nat : [p EXCEPT !.pc = pc, !.body = n] \in Pass
BY DEF Pass

LEMMA NoPassOK == NoPass \in Pass
BY ShipAssumption DEF NoPass, Pass

Replies == Store!Codes \cup {"body_too_large", "malformed_request"}

CallFields(bodies) ==
  [st : {"none", "sent", "serving", "replied", "broken"}, fp : Store!FPs \cup {NoFP},
   off : 0..MaxLen, body : bodies, code : Replies, hw : 0..MaxLen]

LEMMA CallIs == \A c : RequestTrue(c) <=> /\ c \in CallFields(Seq(Byte))
                                          /\ c.off + Len(c.body) <= MaxLen
BY DEF RequestTrue, Call, CallFields, Replies

LEMMA StatusTrue ==
  ASSUME NEW c, RequestTrue(c), NEW st \in {"none", "sent", "serving", "replied", "broken"},
         NEW d, d = [c EXCEPT !.st = st]
  PROVE  RequestTrue(d) /\ d.st = st
<1> DEFINE Bodies == Seq(Byte)
<1>1. c \in CallFields(Bodies) /\ c.off + Len(c.body) <= MaxLen
  BY CallIs
<1> HIDE DEF Bodies
<1>2. d \in CallFields(Bodies) /\ d.st = st /\ d.off = c.off /\ d.body = c.body
  BY <1>1 DEF CallFields
<1> QED BY <1>1, <1>2, CallIs DEF Bodies

LEMMA RefusalTrue ==
  ASSUME NEW c, RequestTrue(c), NEW code \in Replies,
         NEW d, d = [c EXCEPT !.st = "replied", !.code = code]
  PROVE  RequestTrue(d) /\ d.code = code
<1> DEFINE Bodies == Seq(Byte)
<1>1. c \in CallFields(Bodies) /\ c.off + Len(c.body) <= MaxLen
  BY CallIs
<1> HIDE DEF Bodies
<1>2. d \in CallFields(Bodies) /\ d.code = code /\ d.off = c.off /\ d.body = c.body
  BY <1>1 DEF CallFields
<1> QED BY <1>1, <1>2, CallIs DEF Bodies

\* A call answered with a code and a high-water.
Answer(c, code, hw) == [c EXCEPT !.st = "replied", !.code = code, !.hw = hw]

LEMMA AnswerTrue ==
  ASSUME NEW c, RequestTrue(c), NEW code, code \in Replies, NEW hw, hw \in 0..MaxLen
  PROVE  /\ RequestTrue(Answer(c, code, hw))
         /\ Answer(c, code, hw).code = code /\ Answer(c, code, hw).hw = hw
<1> DEFINE Bodies == Seq(Byte)
           d == [c EXCEPT !.st = "replied", !.code = code, !.hw = hw]
<1>1. c \in CallFields(Bodies) /\ c.off + Len(c.body) <= MaxLen
  BY CallIs
<1> HIDE DEF Bodies
<1>2. d \in CallFields(Bodies) /\ d.code = code /\ d.hw = hw /\ d.off = c.off /\ d.body = c.body
  BY <1>1 DEF CallFields
<1> HIDE DEF d
<1>3. RequestTrue(d)
  BY <1>1, <1>2, CallIs DEF Bodies
<1> QED BY <1>2, <1>3 DEF Answer, d

LEMMA NoCallTrue == RequestTrue(NoCall) /\ NoCall.st = "none"
<1> DEFINE empty == <<>>
<1>1. empty \in Seq(Byte) /\ Len(empty) = 0
  OBVIOUS
<1>2. NoCall = [st |-> "none", fp |-> NoFP, off |-> 0, body |-> empty,
                code |-> "none", hw |-> 0]
  BY DEF NoCall
<1> HIDE DEF empty
<1>3. "none" \in Store!Codes
  BY DEF Store!Codes
<1> QED BY <1>1, <1>2, <1>3, ShipAssumption DEF RequestTrue, Call

\* A chunk is a part of the file.
LEMMA ChunkOK ==
  ASSUME FileOK, cur \in Cursor, ship \in Pass
  PROVE  Chunk \in Seq(Byte) /\ (Chunk # <<>> => cur.off + Len(Chunk) <= MaxLen)
<1>1. /\ source \in Seq(Byte) /\ Len(source) \in Nat /\ Len(source) <= MaxLen
      /\ cur.off \in Nat /\ ship.size \in Nat /\ ship.body \in Nat
  BY ShipAssumption DEF FileOK, Cursor, Pass
<1> DEFINE upTo == cur.off + ship.body
           sized == IF upTo < ship.size THEN upTo ELSE ship.size
           last == IF sized < Len(source) THEN sized ELSE Len(source)
<1>2. last \in Nat /\ last <= Len(source) /\ Chunk = SubSeq(source, cur.off + 1, last)
  BY <1>1 DEF Chunk
<1> HIDE DEF last
<1>3. CASE cur.off + 1 <= last
  <2>1. /\ SubSeq(source, cur.off + 1, last) \in Seq(Byte)
        /\ Len(SubSeq(source, cur.off + 1, last)) = last - cur.off
    BY <1>1, <1>2, <1>3
  <2>2. cur.off + (last - cur.off) <= MaxLen
    <3>1. MaxLen \in Nat
      BY ShipAssumption
    <3> QED BY <1>1, <1>2, <3>1
  <2> QED BY <1>2, <2>1, <2>2
<1>4. CASE ~(cur.off + 1 <= last)
  <2>1. SubSeq(source, cur.off + 1, last) = <<>>
    BY <1>1, <1>2, <1>4
  <2>2. <<>> \in Seq(Byte)
    OBVIOUS
  <2> QED BY <1>2, <2>1, <2>2
<1> QED BY <1>3, <1>4

\* The owner writes prefixes of the histories.
LEMMA PrefixOK ==
  ASSUME NEW I \in SUBSET DOMAIN Lines, NEW bytes \in PrefixesOf(I)
  PROVE  bytes \in Seq(Byte) /\ Len(bytes) <= MaxLen
<1>1. PICK i \in I, k \in 0..MaxLen : bytes = SubSeq(Lines[i], 1, k)
  BY DEF PrefixesOf
<1>2. Lines[i] \in Seq(Byte) /\ Len(Lines[i]) = MaxLen /\ k \in Nat /\ k <= MaxLen
  BY ShipAssumption
<1> QED BY <1>1, <1>2

LEMMA ReadyFP == ASSUME FileOK, Ready PROVE FP(source) \in Store!FPs
<1>1. \A i \in 1..Window : source[i] \in Byte
  BY ShipAssumption DEF FileOK, Ready
<1> QED BY <1>1 DEF FP, Store!FP, Store!FPs
-----------------------------------------------------------------------------
(* The steps that leave the store alone *)

LEMMA OwnerSteps ==
  ASSUME ShipInv, Owner
  PROVE  FileOK' /\ UNCHANGED <<storeVars, registryVars, ship, netVars>>
<1>1. ASSUME NEW kind, NEW here \in BOOLEAN, NEW bytes \in Seq(Byte), Len(bytes) <= MaxLen,
             EditSource(kind, here, bytes)
      PROVE  FileOK' /\ UNCHANGED <<storeVars, registryVars, ship, netVars>>
  BY <1>1 DEF EditSource, FileOK
<1>2. ASSUME NEW kind, NEW I \in SUBSET DOMAIN Lines, NEW bytes \in PrefixesOf(I),
             EditSource(kind, TRUE, bytes)
      PROVE  FileOK' /\ UNCHANGED <<storeVars, registryVars, ship, netVars>>
  <2>1. bytes \in Seq(Byte) /\ Len(bytes) <= MaxLen
    BY PrefixOK
  <2> QED BY <1>1, <1>2, <2>1
<1>3. DOMAIN Lines \in SUBSET DOMAIN Lines
  OBVIOUS
<1>4. CASE AppendSource
  <2>1. Holding \in SUBSET DOMAIN Lines
    BY DEF Holding
  <2> QED BY <1>2, <1>3, <1>4, <2>1 DEF AppendSource
<1>5. CASE TruncateSource
  <2>1. PICK k \in 0..(Len(source) - 1) : EditSource("truncate", TRUE, SubSeq(source, 1, k))
    BY <1>5 DEF TruncateSource
  <2>2. source \in Seq(Byte) /\ Len(source) \in Nat /\ Len(source) <= MaxLen /\ MaxLen \in Nat
    BY ShipAssumption DEF ShipInv, FileOK
  <2> DEFINE bytes == SubSeq(source, 1, k)
  <2>3. bytes \in Seq(Byte) /\ Len(bytes) = k /\ k <= MaxLen
    BY <2>2
  <2> HIDE DEF bytes
  <2>4. EditSource("truncate", TRUE, bytes)
    BY <2>1 DEF bytes
  <2> QED BY <1>1, <2>3, <2>4
<1>6. CASE RecreateSource
  BY <1>2, <1>3, <1>6 DEF RecreateSource
<1>7. CASE ReplaceSource
  <2> DEFINE I == {j \in DOMAIN Lines : \A i \in Holding : i < j}
  <2>1. I \in SUBSET DOMAIN Lines
    OBVIOUS
  <2>2. PICK bytes \in PrefixesOf(I) : EditSource("replace", TRUE, bytes)
    BY <1>7 DEF ReplaceSource
  <2> HIDE DEF I
  <2> QED BY <1>2, <2>1, <2>2
<1>8. CASE DeleteSource
  <2> DEFINE empty == <<>>
  <2>1. empty \in Seq(Byte) /\ Len(empty) <= MaxLen
    BY ShipAssumption
  <2>2. EditSource("delete", FALSE, empty)
    BY <1>8 DEF DeleteSource
  <2> HIDE DEF empty
  <2> QED BY <1>1, <2>1, <2>2
<1> QED BY <1>4, <1>5, <1>6, <1>7, <1>8 DEF Owner

\* A cursor found by asking the store.
LEMMA ResumeTrue ==
  ASSUME StoreInv, FileOK, files # <<>> PROVE CursorTrue(ResumeCursor)
<1> DEFINE fp == IF Ready THEN FP(source) ELSE NoFP
           hit == Ready /\ Store!Matching(fp) # {}
           g == IF hit THEN Store!HighestMatch(fp) ELSE Store!Active
           off == IF hit THEN files[g].hw ELSE 0
           bad == files[g].poisoned
<1>1. g \in DOMAIN files
  <2>1. CASE hit
    <3>1. P!Matching(fp) # {}
      BY <2>1 DEF P!Matching, Store!Matching
    <3>2. P!HighestMatch(fp) \in DOMAIN files
      BY <3>1, P!HighestMatchExists, ShipAssumption DEF P!FPs, StoreInv, P!IInv
    <3> QED BY <2>1, <3>2 DEF P!HighestMatch, Store!HighestMatch, P!Matching, Store!Matching
  <2>2. CASE ~hit
    <3>1. files \in Seq(P!Row)
      BY DEF StoreInv, P!IInv, P!TypeOK
    <3> QED BY <2>2, <3>1 DEF Store!Active
  <2> QED BY <2>1, <2>2
<1>2. fp \in Store!FPs \cup {NoFP}
  BY ReadyFP
<1>3. ResumeCursor = [known |-> TRUE, off |-> off, fp |-> fp, poisoned |-> bad]
  BY DEF ResumeCursor
<1> HIDE DEF g, hit, fp
<1>4. files[g].hw \in 0..MaxLen /\ files[g].poisoned \in BOOLEAN
  <2>1. files \in Seq(P!Row) /\ files[g].hw <= MaxLen
    BY <1>1 DEF StoreInv, P!IInv, P!TypeOK, P!Bounded
  <2>2. files[g] \in P!Row
    BY <1>1, <2>1
  <2> QED BY <2>1, <2>2, ShipAssumption DEF P!Row
<1>5. off \in 0..MaxLen /\ bad \in BOOLEAN /\ (off > 0 => off = files[g].hw)
  BY <1>4, ShipAssumption
<1>6. Acked(off) /\ (bad => Poisoned)
  BY <1>1, <1>4, <1>5 DEF Acked, Poisoned
<1> HIDE DEF off, bad
<1>7. ResumeCursor \in Cursor /\ ResumeCursor.off = off /\ (ResumeCursor.poisoned <=> bad)
  BY <1>2, <1>3, <1>5 DEF Cursor
<1> QED BY <1>6, <1>7 DEF CursorTrue

\* What a pass does between two calls of the store.
PassMoves ==
  \/ StartPass \/ RecoverSkip \/ RecoverHold \/ RecoverRefused \/ RecoverCursor \/ GCCursor
  \/ SaveOwner \/ SaveOwnerFails \/ BeginFile \/ Vanished \/ StatFile \/ FingerprintFile
  \/ EndPass \/ EndPassUnsaved

LEMMA PassCursor ==
  ASSUME StoreInv, ShipInv, PassMoves PROVE CursorTrue(cur)'
<1>1. UNCHANGED storeVars
  BY DEF PassMoves, StartPass, RecoverSkip, RecoverHold, RecoverRefused, RecoverCursor, GCCursor,
     SaveOwner, SaveOwnerFails, BeginFile, Vanished, StatFile, FingerprintFile, EndPass, EndPassUnsaved
<1>2. cur \in Cursor /\ CursorTrue(cur) /\ FileOK /\ 0 \in 0..MaxLen /\ cur.off \in 0..MaxLen
  BY ShipAssumption DEF ShipInv, RegistryOK, CursorTrue, Cursor
<1>3. ASSUME NEW c, CursorTrue(c), cur' = c PROVE CursorTrue(cur)'
  BY <1>1, <1>3 DEF CursorTrue, Acked, Poisoned, storeVars
<1>4. CASE UNCHANGED cur
  BY <1>2, <1>3, <1>4
<1>5. CASE RecoverCursor
  <2>1. CursorTrue([Untracked EXCEPT !.known = TRUE])
    BY UntrackedTrue
  <2>2. files # <<>> => CursorTrue(ResumeCursor)
    BY <1>2, ResumeTrue
  <2>3. \/ cur' = [Untracked EXCEPT !.known = TRUE] \/ cur' = cur
        \/ files # <<>> /\ cur' = ResumeCursor
    BY <1>5 DEF RecoverCursor
  <2> QED BY <1>2, <1>3, <2>1, <2>2, <2>3
<1>6. CASE GCCursor
  BY <1>2, <1>3, <1>6, UntrackedTrue DEF GCCursor
<1>7. CASE SaveOwner \/ SaveOwnerFails
  <2>1. CursorTrue([cur EXCEPT !.known = TRUE])
    BY <1>2, CursorFields DEF CursorTrue
  <2> QED BY <1>3, <1>7, <2>1 DEF SaveOwner, SaveOwnerFails, PutCursor
<1>8. CASE StatFile
  <2> DEFINE c == [cur EXCEPT !.off = 0, !.fp = NoFP]
  <2>1. c \in Cursor /\ c.off = 0 /\ c.poisoned = cur.poisoned
    BY <1>2 DEF Cursor
  <2> HIDE DEF c
  <2>2. CursorTrue([c EXCEPT !.known = TRUE])
    <3> DEFINE d == [c EXCEPT !.known = TRUE]
    <3>1. d \in Cursor /\ d.off = 0 /\ d.poisoned = cur.poisoned
      BY <2>1 DEF Cursor
    <3> HIDE DEF d
    <3>2. CursorTrue(d)
      BY <1>2, <3>1 DEF CursorTrue, Acked
    <3> QED BY <3>2 DEF d
  <2>3. cur' = [c EXCEPT !.known = TRUE] \/ cur' = cur
    BY <1>8 DEF StatFile, PutCursor, c
  <2> QED BY <1>2, <1>3, <2>2, <2>3
<1>9. CASE FingerprintFile
  <2>1. Ready => FP(source) \in Store!FPs \cup {NoFP}
    BY <1>2, ReadyFP
  <2> DEFINE n == IF cur.fp = NoFP THEN cur.off ELSE 0
             f == FP(source)
  <2>2. n \in 0..MaxLen /\ Acked(n)
    BY <1>2 DEF CursorTrue, Acked
  <2>3. cur' = cur \/ (Ready /\ cur' = [cur EXCEPT !.known = TRUE, !.fp = f, !.off = n])
    BY <1>9 DEF FingerprintFile, Fingerprinted
  <2>4. Ready => f \in Store!FPs \cup {NoFP}
    BY <2>1
  <2> HIDE DEF n, f
  <2>5. Ready => CursorTrue([cur EXCEPT !.known = TRUE, !.fp = f, !.off = n])
    <3> DEFINE d == [cur EXCEPT !.known = TRUE, !.fp = f, !.off = n]
    <3>1. Ready => d \in Cursor /\ d.off = n /\ d.poisoned = cur.poisoned
      BY <1>2, <2>2, <2>4 DEF Cursor
    <3> HIDE DEF d
    <3>2. Ready => CursorTrue(d)
      BY <1>2, <2>2, <3>1 DEF CursorTrue
    <3> QED BY <3>2 DEF d
  <2> QED BY <1>2, <1>3, <2>3, <2>5
<1> QED BY <1>4, <1>5, <1>6, <1>7, <1>8, <1>9 DEF PassMoves, StartPass, RecoverSkip, RecoverHold,
       RecoverRefused, BeginFile, Vanished, EndPass, EndPassUnsaved, registryVars

\* Such a step keeps the shipper's invariant.
LEMMA PassSteps ==
  ASSUME StoreInv, ShipInv, PassMoves PROVE ShipInv'
<1>1. UNCHANGED <<storeVars, sourceVars, netVars>>
  BY DEF PassMoves, StartPass, RecoverSkip, RecoverHold, RecoverRefused, RecoverCursor, GCCursor,
     SaveOwner, SaveOwnerFails, BeginFile, Vanished, StatFile, FingerprintFile, EndPass, EndPassUnsaved
<1>2. ship' \in Pass
  <2>1. /\ ship \in Pass /\ NoPass \in Pass /\ present \in BOOLEAN /\ Len(source) \in 0..MaxLen
    BY NoPassOK, ShipAssumption DEF ShipInv, FileOK
  <2>2. CASE StartPass
    <3> DEFINE pc == IF needsRecovery THEN "recover" ELSE "gc"
    <3>1. pc \in {"recover", "gc"} /\ ship' = [NoPass EXCEPT !.pc = pc, !.here = present]
      BY <2>2 DEF StartPass
    <3> HIDE DEF pc
    <3> QED BY <2>1, <3>1, PassFields
  <2>3. CASE StatFile
    <3>1. ship' = [ship EXCEPT !.pc = "fp", !.size = Len(source)]
      BY <2>3 DEF StatFile
    <3> QED BY <2>1, <3>1 DEF Pass
  <2>4. CASE EndPass \/ EndPassUnsaved
    BY <2>1, <2>4 DEF EndPass, EndPassUnsaved
  <2>5. CASE SaveOwner
    BY <2>1, <2>5 DEF SaveOwner
  <2>6. CASE ~(StartPass \/ StatFile \/ EndPass \/ EndPassUnsaved \/ SaveOwner)
    <3> DEFINE Goes == \E pc \in {"gc", "ship", "stat", "read", "end"} : Go(pc)
    <3>1. Goes
      <4>1. CASE RecoverSkip \/ RecoverRefused \/ RecoverCursor
        BY <4>1 DEF RecoverSkip, RecoverRefused, RecoverCursor
      <4>2. CASE GCCursor
        BY <4>2 DEF GCCursor
      <4>3. CASE RecoverHold \/ SaveOwnerFails \/ Vanished
        BY <4>3 DEF RecoverHold, SaveOwnerFails, Vanished
      <4>4. CASE BeginFile
        <5> DEFINE pc == IF ~ship.here \/ held \/ cur.poisoned THEN "end" ELSE "stat"
        <5>1. pc \in {"end", "stat"} /\ Go(pc)
          BY <4>4 DEF BeginFile
        <5> HIDE DEF pc
        <5> QED BY <5>1
      <4>5. CASE FingerprintFile
        <5> DEFINE pc == IF cur'.off >= ship.size THEN "end" ELSE "read"
        <5>1. pc \in {"end", "read"} /\ Go(pc)
          BY <4>5 DEF FingerprintFile
        <5> HIDE DEF pc
        <5> QED BY <5>1
      <4> QED BY <2>6, <4>1, <4>2, <4>3, <4>4, <4>5 DEF PassMoves
    <3>2. PICK pc \in {"gc", "ship", "stat", "read", "end"} : ship' = [ship EXCEPT !.pc = pc]
      BY <3>1 DEF Go
    <3> HIDE DEF Goes
    <3> QED BY <2>1, <3>2, PassFields
  <2> QED BY <2>2, <2>3, <2>4, <2>5, <2>6
<1>3. CursorTrue(cur)'
  BY PassCursor
<1>4. CursorTrue(disk.cur)' /\ disk' \in [ok : BOOLEAN, cur : Cursor]
  <2>1. CursorTrue(disk.cur) /\ disk \in [ok : BOOLEAN, cur : Cursor] /\ cur' \in Cursor
    BY <1>3 DEF ShipInv, RegistryOK, CursorTrue
  <2>2. disk' = disk \/ disk' = [ok |-> TRUE, cur |-> cur']
    BY DEF PassMoves, StartPass, RecoverSkip, RecoverHold, RecoverRefused, RecoverCursor, GCCursor,
       SaveOwner, SaveOwnerFails, BeginFile, Vanished, StatFile, FingerprintFile, EndPass,
       EndPassUnsaved, registryVars
  <2>3. CASE disk' = disk
    BY <1>1, <2>1, <2>3 DEF CursorTrue, Acked, Poisoned, storeVars
  <2>4. CASE disk' = [ok |-> TRUE, cur |-> cur']
    BY <1>3, <2>1, <2>4 DEF CursorTrue, Acked, Poisoned
  <2> QED BY <2>2, <2>3, <2>4
<1>5. needsRecovery' \in BOOLEAN /\ held' \in BOOLEAN
  BY DEF ShipInv, RegistryOK, PassMoves, StartPass, RecoverSkip, RecoverHold, RecoverRefused,
     RecoverCursor, GCCursor, SaveOwner, SaveOwnerFails, BeginFile, Vanished, StatFile,
     FingerprintFile, EndPass, EndPassUnsaved, registryVars
<1>6. FileOK' /\ NoDrops'
  BY <1>1 DEF ShipInv, FileOK, NoDrops, sourceVars, storeVars
<1>7. NetOK'
  BY <1>1 DEF ShipInv, NetOK, Heard, RequestTrue, Acked, Poisoned, netVars, storeVars
<1> QED BY <1>2, <1>3, <1>4, <1>5, <1>6, <1>7 DEF ShipInv, RegistryOK

\* A chunk of the file becomes a request.
LEMMA ReadStep ==
  ASSUME ShipInv, ReadAndPut PROVE ShipInv'
<1>1. UNCHANGED <<storeVars, sourceVars, registryVars, orphan>>
  BY DEF ReadAndPut
<1>2. cur \in Cursor /\ ship \in Pass /\ FileOK
  BY DEF ShipInv, RegistryOK, CursorTrue
<1>3. ship' \in Pass
  BY <1>2, PassFields DEF ReadAndPut, Go
<1>4. RequestTrue(live') /\ (live' = live \/ live'.st = "sent")
  <2>1. CASE Chunk = <<>>
    BY <2>1 DEF ReadAndPut, ShipInv, NetOK
  <2>2. CASE Chunk # <<>>
    <3> DEFINE body == Chunk
               Bodies == Seq(Byte)
               c == [NoCall EXCEPT !.st = "sent", !.fp = cur.fp, !.off = cur.off, !.body = body]
    <3>1. body \in Bodies /\ cur.off + Len(body) <= MaxLen
      BY <1>2, <2>2, ChunkOK
    <3>2. live' = c
      BY <2>2 DEF ReadAndPut
    <3> HIDE DEF body, Bodies
    <3>3. NoCall \in [st : {"none", "sent", "serving", "replied", "broken"},
             fp : Store!FPs \cup {NoFP}, off : 0..MaxLen, body : Bodies,
             code : Replies, hw : 0..MaxLen]
      BY NoCallTrue DEF RequestTrue, Call, Replies, Bodies
    <3>4. /\ c \in [st : {"none", "sent", "serving", "replied", "broken"},
             fp : Store!FPs \cup {NoFP}, off : 0..MaxLen, body : Bodies,
             code : Replies, hw : 0..MaxLen]
          /\ c.st = "sent" /\ c.off = cur.off /\ c.body = body
      BY <1>2, <3>1, <3>3 DEF Cursor
    <3> HIDE DEF c
    <3>5. RequestTrue(c)
      BY <3>1, <3>4 DEF RequestTrue, Call, Replies, Bodies
    <3> QED BY <3>2, <3>4, <3>5
  <2> QED BY <2>1, <2>2
<1>5. Heard'
  BY <1>1, <1>4 DEF ShipInv, NetOK, Heard, Acked, Poisoned, storeVars
<1>6. NetOK'
  BY <1>1, <1>4, <1>5 DEF ShipInv, NetOK, RequestTrue
<1>7. FileOK' /\ NoDrops' /\ RegistryOK'
  BY <1>1 DEF ShipInv, FileOK, NoDrops, RegistryOK, CursorTrue, Acked, Poisoned, sourceVars,
              storeVars, registryVars
<1> QED BY <1>3, <1>6, <1>7 DEF ShipInv

\* The steps in which the shipper hears an answer.
Hears == HearAck \/ HearRewind \/ HearConflict \/ HearPoisoned \/ HearHold \/ HearTooLarge \/ HearRefused

LEMMA HearSteps ==
  ASSUME StoreInv, ShipInv, Hears PROVE ShipInv'
<1>1. /\ UNCHANGED <<storeVars, sourceVars, disk, needsRecovery, orphan>> /\ live' = NoCall
      /\ live.st = "replied"
  BY DEF Hears, HearAck, HearRewind, HearConflict, HearPoisoned, HearHold, HearTooLarge,
         HearRefused, Hear, Answered
<1>2. /\ cur \in Cursor /\ CursorTrue(cur) /\ ship \in Pass /\ FileOK
      /\ live.hw \in 0..MaxLen /\ ship.size \in 0..MaxLen /\ MaxLen \in Nat
  BY ShipAssumption DEF ShipInv, RegistryOK, CursorTrue, NetOK, RequestTrue, Call, Pass
<1>3. held' \in BOOLEAN
  BY DEF ShipInv, RegistryOK, Hears, HearAck, HearRewind, HearConflict, HearPoisoned, HearHold,
         HearTooLarge, HearRefused, Hear
<1>4. ship' \in Pass
  <2>1. CASE HearTooLarge /\ ship.body > 1
    <3>1. ship.body \div 2 \in Nat
      BY <1>2 DEF Pass
    <3> DEFINE half == ship.body \div 2
    <3>2. half \in Nat /\ ship' = [ship EXCEPT !.pc = "stat", !.body = half]
      BY <1>2, <2>1, <3>1 DEF HearTooLarge, Hear, Pass
    <3> HIDE DEF half
    <3> QED BY <1>2, <3>2, PassFields
  <2>2. CASE HearAck \/ HearRewind \/ HearConflict \/ HearPoisoned \/ HearHold \/ HearRefused
             \/ (HearTooLarge /\ ~(ship.body > 1))
    <3>1. \/ \E pc \in {"stat", "end"} : ship' = [ship EXCEPT !.pc = pc]
          \/ \E b \in BOOLEAN : ship' = [ship EXCEPT !.pc = "stat", !.retried = b]
      <4>1. ~(ship.body > 1) => ship.body <= 1
        BY <1>2 DEF Pass
      <4> QED BY <2>2, <4>1 DEF HearAck, HearRewind, HearConflict, HearPoisoned, HearHold,
                 HearRefused, HearTooLarge, Hear, Go
    <3> QED BY <1>2, <3>1, PassFields
  <2> QED BY <2>1, <2>2 DEF Hears
<1>5. ASSUME NEW c, CursorTrue(c), cur' = c PROVE CursorTrue(cur)'
  BY <1>1, <1>5 DEF CursorTrue, Acked, Poisoned, storeVars
<1>6. CursorTrue(cur)'
  <2>1. CASE HearAck \/ HearRewind
    <3>1. live.code \in P!Positions
      BY <2>1 DEF HearAck, HearRewind, Answered, P!Positions
    <3>2. Acked(live.hw)
      BY <1>1, <3>1 DEF ShipInv, NetOK, Heard
    <3>3. \E n \in 0..MaxLen : /\ n <= live.hw
                               /\ cur' = [cur EXCEPT !.known = TRUE, !.off = n]
      <4>1. CASE HearAck
        <5> DEFINE n == IF live.hw > ship.size THEN ship.size ELSE live.hw
        <5>1. n \in 0..MaxLen /\ n <= live.hw
          BY <1>2
        <5>2. cur' = [cur EXCEPT !.known = TRUE, !.off = n]
          BY <4>1 DEF HearAck, Hear
        <5> HIDE DEF n
        <5> QED BY <5>1, <5>2
      <4>2. CASE HearRewind
        <5>1. live.hw <= live.hw /\ cur' = [cur EXCEPT !.known = TRUE, !.off = live.hw]
          BY <1>2, <4>2 DEF HearRewind, Hear
        <5> QED BY <1>2, <5>1
      <4> QED BY <2>1, <4>1, <4>2
    <3>4. PICK n \in 0..MaxLen : /\ n <= live.hw
                                 /\ cur' = [cur EXCEPT !.known = TRUE, !.off = n]
      BY <3>3
    <3> DEFINE c == [cur EXCEPT !.known = TRUE, !.off = n]
    <3>5. c \in Cursor /\ c.off = n /\ c.poisoned = cur.poisoned
      BY <1>2 DEF Cursor
    <3>6. Acked(n)
      <4>1. \A g \in DOMAIN files : files[g].hw \in Nat
        BY HighWaterNat DEF StoreInv, P!IInv, P!TypeOK
      <4> QED BY <1>2, <3>2, <3>4, <4>1 DEF Acked
    <3> HIDE DEF c
    <3>7. CursorTrue(c)
      BY <1>2, <3>5, <3>6 DEF CursorTrue
    <3> QED BY <1>5, <3>4, <3>7 DEF c
  <2>2. CASE HearPoisoned
    <3> DEFINE c == [cur EXCEPT !.known = TRUE, !.poisoned = TRUE]
    <3>1. cur' = c /\ Poisoned
      BY <1>1, <2>2 DEF HearPoisoned, Hear, Answered, ShipInv, NetOK, Heard
    <3>2. c \in Cursor /\ c.off = cur.off
      BY <1>2, CursorFields
    <3> HIDE DEF c
    <3>3. CursorTrue(c)
      BY <1>2, <3>1, <3>2 DEF CursorTrue
    <3> QED BY <1>5, <3>1, <3>3
  <2>3. CASE HearConflict \/ HearHold \/ HearTooLarge \/ HearRefused
    <3>1. cur' = cur
      BY <2>3 DEF HearConflict, HearHold, HearTooLarge, HearRefused, Hear
    <3> QED BY <1>2, <1>5, <3>1
  <2> QED BY <2>1, <2>2, <2>3 DEF Hears
<1>7. CursorTrue(disk.cur)' /\ disk' \in [ok : BOOLEAN, cur : Cursor] /\ needsRecovery' \in BOOLEAN
  BY <1>1 DEF ShipInv, RegistryOK, CursorTrue, Acked, Poisoned, storeVars
<1>8. NetOK'
  BY <1>1, NoCallTrue DEF ShipInv, NetOK, Heard, RequestTrue
<1>9. FileOK' /\ NoDrops'
  BY <1>1 DEF ShipInv, FileOK, NoDrops, sourceVars, storeVars
<1> QED BY <1>3, <1>4, <1>6, <1>7, <1>8, <1>9 DEF ShipInv, RegistryOK

\* A call given up leaves the request, the one before it, or nothing.
LEMMA GivenUpTrue ==
  ASSUME NetOK, GivenUp PROVE RequestTrue(orphan')
<1>1. RequestTrue(NoCall)
  BY NoCallTrue
<1>2. orphan' = NoCall \/ orphan' = live \/ orphan' = orphan
  BY DEF GivenUp
<1> QED BY <1>1, <1>2 DEF NetOK

\* A call is lost, or the shipper dies and restarts from its registry file.
LEMMA LossSteps ==
  ASSUME ShipInv, LoseCall \/ ShipCrash PROVE ShipInv'
<1>1. UNCHANGED <<storeVars, sourceVars>> /\ GivenUp /\ live' = NoCall
  BY DEF LoseCall, ShipCrash
<1>2. NetOK'
  <2>1. RequestTrue(orphan') /\ RequestTrue(live') /\ live'.st # "replied"
    BY <1>1, GivenUpTrue, NoCallTrue DEF ShipInv
  <2> QED BY <2>1 DEF NetOK, RequestTrue, Heard
<1>3. FileOK' /\ NoDrops'
  BY <1>1 DEF ShipInv, FileOK, NoDrops, sourceVars, storeVars
<1>4. ASSUME NEW c, CursorTrue(c) PROVE CursorTrue(c)'
  BY <1>1, <1>4 DEF CursorTrue, Acked, Poisoned, storeVars
<1>5. RegistryOK' /\ ship' \in Pass
  <2>1. CASE LoseCall
    <3>1. ship' = [ship EXCEPT !.pc = "end"] /\ UNCHANGED registryVars
      BY <2>1 DEF LoseCall, Go
    <3>2. ship' \in Pass
      BY <3>1, PassFields DEF ShipInv
    <3>3. RegistryOK'
      BY <1>1, <3>1 DEF ShipInv, RegistryOK, CursorTrue, Acked, Poisoned, registryVars, storeVars
    <3> QED BY <3>2, <3>3
  <2>2. CASE ShipCrash
    <3>1. NoRegistry.cur = Untracked /\ NoRegistry \in [ok : BOOLEAN, cur : Cursor]
      BY UntrackedTrue DEF NoRegistry, CursorTrue
    <3>2. /\ disk' = disk \/ disk' = NoRegistry
          /\ cur' = disk'.cur /\ needsRecovery' = ~disk'.ok /\ held' = FALSE /\ ship' = NoPass
      BY <2>2 DEF ShipCrash
    <3>3. disk' \in [ok : BOOLEAN, cur : Cursor] /\ (CursorTrue(disk'.cur))
      BY <3>1, <3>2, UntrackedTrue DEF ShipInv, RegistryOK
    <3>4. CursorTrue(cur)' /\ CursorTrue(disk.cur)'
      BY <1>1, <3>2, <3>3 DEF CursorTrue, Acked, Poisoned, storeVars
    <3>5. needsRecovery' \in BOOLEAN /\ held' \in BOOLEAN
      BY <3>2, <3>3
    <3> QED BY <3>2, <3>3, <3>4, <3>5, NoPassOK DEF RegistryOK
  <2> QED BY <2>1, <2>2
<1> QED BY <1>2, <1>3, <1>5 DEF ShipInv

\* The store answers without touching its files.
LEMMA RefuseSteps ==
  ASSUME ShipInv, TooLarge \/ RefuseLive PROVE ShipInv'
<1>1. UNCHANGED <<storeVars, sourceVars, registryVars, ship, orphan>>
  BY DEF TooLarge, RefuseLive, StoreIs
<1>2. PICK code \in {"body_too_large", "malformed_request", "store_unavailable"} :
        live' = [live EXCEPT !.st = "replied", !.code = code]
  BY DEF TooLarge, RefuseLive
<1>3. code \in Replies
  BY DEF Replies, Store!Codes
<1>4. RequestTrue(live') /\ live'.code = code
  <2>1. RequestTrue(live)
    BY DEF ShipInv, NetOK
  <2> QED BY <1>2, <1>3, <2>1, RefusalTrue
<1>5. code \notin P!Positions /\ code # "poisoned_file"
  BY DEF P!Positions
<1>6. NetOK'
  BY <1>1, <1>4, <1>5 DEF ShipInv, NetOK, RequestTrue, Heard
<1>7. FileOK' /\ NoDrops' /\ RegistryOK'
  BY <1>1 DEF ShipInv, FileOK, NoDrops, RegistryOK, CursorTrue, Acked, Poisoned, sourceVars,
              storeVars, registryVars
<1> QED BY <1>1, <1>6, <1>7 DEF ShipInv

\* The store takes a request or goes on with one, and may answer or die.
LEMMA StoreSteps ==
  ASSUME StoreInv, ShipInv, StoreMoves PROVE ShipInv'
<1>1. /\ UNCHANGED <<sourceVars, registryVars, ship>> /\ UNCHANGED dropLog
  BY DEF StoreMoves, TakeLive, TakeOrphan, StoreStep, StoreFails, StoreReplies, StoreCrash, StoreIs,
     Arrive, Store!BeginPut, Store!RejectPoisoned, Store!RejectGap, Store!FirstDivergence,
     Store!PoisonFingerprint, Store!ClearPending, Store!OpenGeneration, Store!WriteMirror,
     Store!UpdateFingerprint, Store!RecordSuccess, Store!RecordFacts, Store!FailWriteMirror,
     Store!FailStatement, Store!Release, Store!Crash
<1>2. Store!Next
  BY StoreMovesRefine DEF ShipInv
<1>3. /\ \A n \in Nat : Acked(n) => Acked(n)'
      /\ Poisoned => Poisoned'
      /\ \A c : CursorTrue(c) => CursorTrue(c)'
  BY <1>2, AckedKept DEF ShipInv
<1>4. RegistryOK'
  <2>1. CursorTrue(cur) /\ CursorTrue(disk.cur) /\ cur' = cur /\ disk' = disk
    BY <1>1 DEF ShipInv, RegistryOK, registryVars
  <2>2. CursorTrue(cur)' /\ CursorTrue(disk.cur)'
    BY <1>3, <2>1 DEF CursorTrue, Acked
  <2> QED BY <1>1, <2>2 DEF ShipInv, RegistryOK, registryVars
<1>5. RequestTrue(live') /\ RequestTrue(orphan')
  <2>1. RequestTrue(live) /\ RequestTrue(orphan) /\ RequestTrue(NoCall)
    BY NoCallTrue DEF ShipInv, NetOK
  <2>2. CASE StoreReplies
    <3>1. /\ op.code \in Replies /\ op.hw \in 0..MaxLen
      BY ShipAssumption DEF StoreInv, P!IInv, P!TypeOK, P!Bounded, P!Op, P!Codes, Store!Codes, Replies
    <3>2. \/ live' = live
          \/ live' = [live EXCEPT !.st = "replied", !.code = op.code, !.hw = op.hw]
      BY <2>2 DEF StoreReplies
    <3>3. orphan' = orphan \/ orphan' = NoCall
      BY <2>2 DEF StoreReplies
    <3>4. RequestTrue(live')
      <4>1. live' = live \/ live' = Answer(live, op.code, op.hw)
        BY <3>2 DEF Answer
      <4> QED BY <2>1, <3>1, <4>1, AnswerTrue
    <3> QED BY <2>1, <3>3, <3>4
  <2>3. CASE ~StoreReplies
    <3>1. /\ live' = live \/ \E st \in {"serving", "broken"} : live' = [live EXCEPT !.st = st]
          /\ \/ orphan' = orphan \/ orphan' = NoCall
             \/ orphan' = [orphan EXCEPT !.st = "serving"]
      BY <2>3 DEF StoreMoves, TakeLive, TakeOrphan, StoreStep, StoreFails, StoreCrash, netVars
    <3>2. RequestTrue(live')
      BY <2>1, <3>1, StatusTrue
    <3>3. RequestTrue(orphan')
      BY <2>1, <3>1, StatusTrue
    <3> QED BY <3>2, <3>3
  <2> QED BY <2>2, <2>3
<1>6. Heard'
  <2>1. CASE live' = live
    <3>1. live.hw \in Nat
      BY ShipAssumption DEF ShipInv, NetOK, RequestTrue, Call
    <3> QED BY <1>3, <2>1, <3>1 DEF ShipInv, NetOK, Heard
  <2>2. CASE StoreReplies /\ live' # live
    <3>1. live' = [live EXCEPT !.st = "replied", !.code = op.code, !.hw = op.hw]
      BY <2>2 DEF StoreReplies
    <3>2. op.code \in Replies /\ op.hw \in 0..MaxLen /\ op.pc = "done"
      BY <2>2, ShipAssumption DEF StoreReplies, Store!Release, StoreInv, P!IInv, P!TypeOK,
         P!Bounded, P!Op, P!Codes, Store!Codes, Replies
    <3>3. live'.code = op.code /\ live'.hw = op.hw
      <4>1. RequestTrue(live) /\ live' = Answer(live, op.code, op.hw)
        BY <3>1 DEF Answer, ShipInv, NetOK
      <4> QED BY <3>2, <4>1, AnswerTrue
    <3>4. /\ op.code \in P!Positions => Acked(op.hw)
          /\ op.code = "poisoned_file" => Poisoned
      <4>1. op.hw = 0 => Acked(op.hw)
        BY DEF Acked
      <4> QED BY <3>2, <4>1 DEF StoreInv, P!Told, Acked, Poisoned
    <3>5. UNCHANGED files
      BY <2>2 DEF StoreReplies, Store!Release
    <3>6. /\ live'.code \in P!Positions => Acked(live.hw)'
          /\ live'.code = "poisoned_file" => Poisoned'
      BY <3>3, <3>4, <3>5 DEF Poisoned, Acked
    <3> QED BY <3>6 DEF Heard
  <2>3. CASE ~StoreReplies /\ live' # live
    <3>1. \E st \in {"serving", "broken"} : live' = [live EXCEPT !.st = st]
      BY <2>3 DEF StoreMoves, TakeLive, TakeOrphan, StoreStep, StoreFails, StoreCrash, netVars
    <3>2. PICK st \in {"serving", "broken"} : live' = [live EXCEPT !.st = st]
      BY <3>1
    <3>3. RequestTrue(live)
      BY DEF ShipInv, NetOK
    <3>4. live'.st = st
      BY <3>2, <3>3, StatusTrue
    <3> QED BY <3>4 DEF Heard
  <2> QED BY <2>1, <2>2, <2>3
<1>7. FileOK' /\ NoDrops' /\ ship' \in Pass
  BY <1>1 DEF ShipInv, FileOK, NoDrops, sourceVars
<1>8. NetOK'
  BY <1>5, <1>6 DEF NetOK, RequestTrue
<1> QED BY <1>4, <1>7, <1>8 DEF ShipInv

-----------------------------------------------------------------------------
(* A file that only grows *)

\* The owner only appends: the life of a session log.  Calls and registry may be
\* lost, delayed and repeated, and everything may crash.
OnlyGrows == Edits \subseteq {"append"}

\* The bytes are those of s at this offset.
Within(s, off, bytes) ==
  /\ off + Len(bytes) <= Len(s)
  /\ \A i \in DOMAIN bytes : bytes[i] = s[off + i]

\* The first n bytes of mirror m are those of s.
Copies(m, s, n) == n <= Len(s) /\ \A i \in 1..n : m[i] = s[i]

\* A fingerprint of s, or none.
Names(s, fp) == fp = NoFP \/ (Window <= Len(s) /\ fp = FP(s))

Extends(s, t) == Len(s) <= Len(t) /\ \A i \in 1..Len(s) : t[i] = s[i]

RowsCopy(rows, m, s) ==
  \A g \in DOMAIN rows : /\ Copies(m[g], s, rows[g].hw)
                         /\ Names(s, rows[g].fp) /\ ~rows[g].poisoned

\* What an operation has from its request, and what it is about to record.
OpCopies(o, m, s) ==
  /\ o.pc \in P!PutStages => Within(s, o.off, o.body)
  /\ o.pc \in {"fprint", "record"} => Copies(m[o.tgt], s, o.hw)

CallCopies(call, s) ==
  call.st = "sent" => Within(s, call.off, call.body) /\ Names(s, call.fp)

\* Everything the store holds or was sent is part of the file, and every
\* fingerprint the file's; so nothing diverges and no second generation opens.
StoreCopies == RowsCopy(files, mirror, source) /\ Len(files) <= 1 /\ OpCopies(op, mirror, source)

SentCopies == CallCopies(live, source) /\ CallCopies(orphan, source)

CursorsName == Names(source, cur.fp) /\ Names(source, disk.cur.fp)

GrowInv == (~present => source = <<>>) /\ StoreCopies /\ SentCopies /\ CursorsName

\* A file that grew still has what it had.
LEMMA StillThere ==
  ASSUME NEW s \in Seq(Byte), NEW t \in Seq(Byte), Extends(s, t)
  PROVE  /\ \A off \in Nat, bytes \in Seq(Byte) : Within(s, off, bytes) => Within(t, off, bytes)
         /\ \A m : \A n \in Nat : Copies(m, s, n) => Copies(m, t, n)
         /\ \A fp : Names(s, fp) => Names(t, fp)
<1>1. Len(s) \in Nat /\ Len(t) \in Nat /\ Len(s) <= Len(t) /\ \A i \in 1..Len(s) : t[i] = s[i]
  BY DEF Extends
<1>2. ASSUME NEW off \in Nat, NEW bytes \in Seq(Byte), Within(s, off, bytes)
      PROVE  Within(t, off, bytes)
  <2>1. Len(bytes) \in Nat /\ DOMAIN bytes = 1..Len(bytes) /\ off + Len(bytes) <= Len(s)
    BY <1>2 DEF Within
  <2>2. \A i \in DOMAIN bytes : off + i \in 1..Len(s)
    BY <1>1, <2>1
  <2>3. \A i \in DOMAIN bytes : bytes[i] = t[off + i]
    BY <1>1, <1>2, <2>2 DEF Within
  <2> QED BY <1>1, <2>1, <2>3 DEF Within
<1>3. ASSUME NEW m, NEW n \in Nat, Copies(m, s, n) PROVE Copies(m, t, n)
  BY <1>1, <1>3 DEF Copies
<1>4. ASSUME NEW fp, Names(s, fp) PROVE Names(t, fp)
  <2>1. CASE fp = NoFP
    BY <2>1 DEF Names
  <2>2. CASE Window <= Len(s) /\ fp = FP(s)
    <3>1. \A i \in 1..Window : t[i] = s[i]
      BY <1>1, <2>2, ShipAssumption
    <3>2. FP(s) = FP(t)
      BY <3>1 DEF FP, Store!FP
    <3> QED BY <1>1, <2>2, <3>2, ShipAssumption DEF Names
  <2> QED BY <1>4, <2>1, <2>2 DEF Names
<1> QED BY <1>2, <1>3, <1>4

\* The owner's only step extends the file.
LEMMA OwnerExtends ==
  ASSUME OnlyGrows, ShipInv, GrowInv, Owner PROVE Extends(source, source') /\ present'
<1>1. source \in Seq(Byte) /\ source' \in Seq(Byte)
  BY OwnerSteps DEF ShipInv, FileOK
<1>2. AppendSource
  BY DEF OnlyGrows, Owner, TruncateSource, RecreateSource, ReplaceSource, DeleteSource, EditSource
<1>3. CASE present
  <2>1. IsPrefix(source, source') /\ present'
    BY <1>2, <1>3 DEF AppendSource, EditSource, IsStrictPrefix
  <2> DEFINE n == Len(source)
  <2>2. n \in Nat /\ n <= Len(source') /\ SubSeq(source, 1, n) = SubSeq(source', 1, n)
    BY <1>1, <2>1 DEF IsPrefix
  <2>3. \A i \in 1..n : SubSeq(source, 1, n)[i] = source[i] /\ SubSeq(source', 1, n)[i] = source'[i]
    BY <1>1, <2>2
  <2> QED BY <2>1, <2>2, <2>3 DEF Extends
<1>4. CASE ~present
  <2>1. source = <<>>
    BY <1>4 DEF GrowInv
  <2>2. present'
    BY <1>2, <1>4 DEF AppendSource, EditSource
  <2>3. Len(source) = 0 /\ Len(source') \in Nat
    BY <1>1, <2>1
  <2> QED BY <2>2, <2>3 DEF Extends
<1> QED BY <1>3, <1>4

\* What types these lemmas need of the store and the network.
LEMMA CopyTypes ==
  ASSUME StoreInv, ShipInv
  PROVE  /\ source \in Seq(Byte) /\ op.off \in Nat /\ op.body \in Seq(Byte) /\ op.hw \in Nat
         /\ \A g \in DOMAIN files : files[g].hw \in Nat
         /\ \A call \in {live, orphan} : call.off \in Nat /\ call.body \in Seq(Byte)
<1>1. source \in Seq(Byte)
  BY DEF ShipInv, FileOK
<1>2. op.off \in Nat /\ op.body \in Seq(Byte) /\ op.hw \in Nat
  BY DEF StoreInv, P!IInv, P!TypeOK, P!Op
<1>3. \A g \in DOMAIN files : files[g].hw \in Nat
  BY HighWaterNat DEF StoreInv, P!IInv, P!TypeOK
<1>4. \A call \in {live, orphan} : call.off \in Nat /\ call.body \in Seq(Byte)
  BY ShipAssumption DEF ShipInv, NetOK, RequestTrue, Call
<1> QED BY <1>1, <1>2, <1>3, <1>4

LEMMA OwnerGrows ==
  ASSUME OnlyGrows, StoreInv, ShipInv, GrowInv, Owner PROVE GrowInv'
<1> DEFINE s == source
           t == source'
<1>1. s \in Seq(Byte) /\ t \in Seq(Byte) /\ Extends(s, t) /\ present'
  BY OwnerExtends, OwnerSteps DEF ShipInv, FileOK
<1>2. UNCHANGED <<files, mirror, op, live, orphan, cur, disk>>
  BY OwnerSteps DEF storeVars, registryVars, netVars
<1> HIDE DEF s, t
<1>3. /\ \A off \in Nat, bytes \in Seq(Byte) : Within(s, off, bytes) => Within(t, off, bytes)
      /\ \A m : \A n \in Nat : Copies(m, s, n) => Copies(m, t, n)
      /\ \A fp : Names(s, fp) => Names(t, fp)
  BY <1>1, StillThere
<1>4. /\ RowsCopy(files, mirror, s) /\ OpCopies(op, mirror, s)
      /\ CallCopies(live, s) /\ CallCopies(orphan, s)
      /\ Names(s, cur.fp) /\ Names(s, disk.cur.fp) /\ Len(files) <= 1
  BY DEF GrowInv, StoreCopies, SentCopies, CursorsName, s
<1>5. RowsCopy(files, mirror, t)
  BY <1>3, <1>4, CopyTypes DEF RowsCopy
<1>6. OpCopies(op, mirror, t)
  <2>1. Within(s, op.off, op.body) => Within(t, op.off, op.body)
    BY <1>3, CopyTypes
  <2>2. Copies(mirror[op.tgt], s, op.hw) => Copies(mirror[op.tgt], t, op.hw)
    BY <1>3, CopyTypes
  <2> QED BY <1>4, <2>1, <2>2 DEF OpCopies
<1>7. CallCopies(live, t) /\ CallCopies(orphan, t)
  <2>1. ASSUME NEW call \in {live, orphan}, CallCopies(call, s) PROVE CallCopies(call, t)
    <3>1. Within(s, call.off, call.body) => Within(t, call.off, call.body)
      BY <1>3, CopyTypes
    <3>2. Names(s, call.fp) => Names(t, call.fp)
      BY <1>3
    <3> QED BY <2>1, <3>1, <3>2 DEF CallCopies
  <2> QED BY <1>4, <2>1
<1>8. Names(t, cur.fp) /\ Names(t, disk.cur.fp)
  BY <1>3, <1>4
<1> QED BY <1>1, <1>2, <1>4, <1>5, <1>6, <1>7, <1>8 DEF GrowInv, StoreCopies, SentCopies, CursorsName, t

\* The store takes in a request of the shipper.
LEMMA ArriveGrows ==
  ASSUME StoreInv, ShipInv, GrowInv, NEW call \in {live, orphan}, Arrive(call), UNCHANGED source
  PROVE  StoreCopies'
<1> DEFINE s == source
           fp == call.fp
           off == call.off
           body == call.body
<1>1. /\ P!BeginPut(fp, off, body) /\ UNCHANGED mirror
      /\ Within(s, off, body) /\ Names(s, fp)
  BY SameBegin DEF Arrive, GrowInv, SentCopies, CallCopies, Store!BeginPut
<1>2. RowsCopy(files, mirror, s) /\ Len(files) <= 1 /\ s \in Seq(Byte) /\ files \in Seq(P!Row)
  BY CopyTypes DEF GrowInv, StoreCopies, StoreInv, P!IInv, P!TypeOK
<1>3. op'.off = off /\ op'.body = body
  BY <1>1, P!LockedFacts, ShipAssumption DEF P!FPs
<1> HIDE DEF s, fp, off, body
<1>4. op'.pc \in {"route", "done"}
  <2>1. PICK pc \in {"route", "done"} : \E tgt, code : P!Locked(pc, off, body, tgt, code)
    BY <1>1 DEF P!BeginPut, P!SelectFirst, P!SelectExisting, P!SelectAdopt, P!SelectOpen,
                P!SelectFails
  <2> QED BY <2>1 DEF P!Locked
<1>5. OpCopies(op', mirror, s)
  BY <1>1, <1>3, <1>4 DEF OpCopies
<1>6. \A m : Copies(m, s, 0)
  BY <1>2 DEF Copies
<1>7. RowsCopy(files', mirror, s) /\ Len(files') <= 1
  <2>1. CASE UNCHANGED files
    BY <1>2, <2>1
  <2>2. CASE P!SelectFirst(fp, off, body)
    <3> DEFINE row == P!NewRow(fp, FALSE)
    <3>1. files' = <<row>> /\ row.hw = 0 /\ row.fp = fp /\ ~row.poisoned
      BY <2>2 DEF P!SelectFirst, P!NewRow
    <3> HIDE DEF row
    <3>2. DOMAIN files' = {1} /\ files'[1] = row /\ Len(files') = 1
      BY <3>1
    <3> QED BY <1>1, <1>6, <3>1, <3>2 DEF RowsCopy
  <2>3. CASE P!SelectAdopt(fp, off, body)
    <3> DEFINE k == P!Active
               row == [files[k] EXCEPT !.fp = fp]
    <3>1. files' = [files EXCEPT ![k] = row] /\ k \in DOMAIN files
      BY <1>2, <2>3 DEF P!SelectAdopt, P!Active
    <3>2. files[k] \in P!Row
      BY <1>2, <3>1
    <3>3. row.hw = files[k].hw /\ row.fp = fp /\ row.poisoned = files[k].poisoned
      BY <3>2 DEF P!Row
    <3> HIDE DEF row, k
    <3>4. /\ DOMAIN files' = DOMAIN files /\ Len(files') = Len(files) /\ files'[k] = row
          /\ \A g \in DOMAIN files : g # k => files'[g] = files[g]
      BY <1>2, <3>1
    <3> QED BY <1>1, <1>2, <3>1, <3>3, <3>4 DEF RowsCopy
  <2>4. ~P!SelectOpen(fp, off, body)
    <3> SUFFICES ASSUME P!SelectOpen(fp, off, body) PROVE FALSE
      OBVIOUS
    <3>1. /\ files # <<>> /\ fp # NoFP /\ P!Matching(fp) = {} /\ files[P!Active].fp # NoFP
      BY DEF P!SelectOpen, P!NoFP, NoFP, Store!NoFP
    <3>2. P!Active \in DOMAIN files
      BY <1>2, <3>1 DEF P!Active
    <3>3. fp = FP(s) /\ files[P!Active].fp = FP(s)
      BY <1>1, <1>2, <3>1, <3>2 DEF Names, RowsCopy
    <3> QED BY <3>1, <3>2, <3>3 DEF P!Matching
  <2> QED BY <1>1, <2>1, <2>2, <2>3, <2>4 DEF P!BeginPut, P!SelectExisting, P!SelectFails
<1> QED BY <1>1, <1>5, <1>7 DEF StoreCopies, s

\* What the store holds of the file never contradicts a request.
LEMMA NothingDiverges ==
  ASSUME StoreInv, ShipInv, GrowInv, op.pc \in P!PutStages PROVE ~P!Diverges
<1>1. /\ op.tgt \in DOMAIN files /\ op.off \in Nat /\ op.body \in Seq(Byte)
      /\ files[op.tgt].hw \in Nat
  BY CopyTypes DEF StoreInv, P!IInv, P!Routed
<1>2. Copies(mirror[op.tgt], source, files[op.tgt].hw) /\ Within(source, op.off, op.body)
  BY <1>1 DEF GrowInv, StoreCopies, RowsCopy, OpCopies
<1>3. ASSUME NEW i \in DOMAIN op.body, op.off + i <= files[op.tgt].hw
      PROVE  mirror[op.tgt][op.off + i] = op.body[i]
  <2>1. op.off + i \in 1..files[op.tgt].hw
    BY <1>1, <1>3
  <2> QED BY <1>2, <2>1 DEF Copies, Within
<1> QED BY <1>3 DEF P!Diverges, P!Target

\* The bytes an append puts behind the high-water are the file's.
LEMMA WriteCopies ==
  ASSUME StoreInv, ShipInv, GrowInv, P!Routable, UNCHANGED files,
         NEW to \in Nat, P!Target.hw <= to, to <= P!ReqEnd,
         mirror' = [mirror EXCEPT ![op.tgt] = P!Overwrite(mirror[op.tgt], P!Target.hw, to)]
  PROVE  Copies(mirror'[op.tgt], source, to) /\ RowsCopy(files, mirror', source)
<1> DEFINE k == op.tgt
           hw == P!Target.hw
           off == op.off
           body == op.body
           m == mirror'
           s == source
<1>1. /\ k \in DOMAIN files /\ k \in 1..MaxGen /\ off \in Nat /\ body \in Seq(Byte)
      /\ hw \in Nat /\ off <= hw /\ to <= off + Len(body) /\ op.pc \in P!PutStages
      /\ hw = files[k].hw /\ s \in Seq(Byte) /\ DOMAIN files \subseteq 1..MaxGen
  <2>1. op.pc \in P!PutStages /\ off <= hw /\ to <= off + Len(body) /\ hw = files[k].hw
    BY DEF P!Routable, P!PutStages, P!ReqEnd, P!Target
  <2>2. k \in DOMAIN files /\ k \in 1..MaxGen
    BY <2>1, P!TargetFacts, ShipAssumption DEF P!FPs, StoreInv
  <2>3. files \in Seq(P!Row) /\ Len(files) <= MaxGen
    BY DEF StoreInv, P!IInv, P!TypeOK
  <2>4. DOMAIN files \subseteq 1..MaxGen
    BY <2>3, ShipAssumption
  <2> QED BY <2>1, <2>2, <2>4, CopyTypes
<1>2. /\ \A i \in 1..hw : m[k][i] = mirror[k][i]
      /\ \A i \in 1..to : hw < i => m[k][i] = body[i - off]
      /\ \A g \in 1..MaxGen : g # k => m[g] = mirror[g]
  BY P!WriteAbove, ShipAssumption DEF P!FPs, StoreInv
<1>3. Within(s, off, body) /\ RowsCopy(files, mirror, s)
  BY <1>1 DEF GrowInv, StoreCopies, OpCopies
<1> HIDE DEF k, hw, off, body, m, s
<1>4. Copies(mirror[k], s, hw)
  BY <1>1, <1>3 DEF RowsCopy
<1>5. ASSUME NEW i \in 1..to PROVE m[k][i] = s[i]
  <2>1. CASE i <= hw
    BY <1>1, <1>2, <1>4, <2>1 DEF Copies
  <2>2. CASE hw < i
    <3>1. i - off \in 1..Len(body) /\ off + (i - off) = i /\ DOMAIN body = 1..Len(body)
      BY <1>1, <2>2
    <3>2. body[i - off] = s[off + (i - off)]
      BY <1>3, <3>1 DEF Within
    <3> QED BY <1>2, <2>2, <3>1, <3>2
  <2> QED BY <1>1, <2>1, <2>2
<1>6. to <= Len(s)
  BY <1>1, <1>3 DEF Within
<1>7. Copies(m[k], s, to)
  BY <1>5, <1>6 DEF Copies
<1>8. Copies(m[k], s, hw)
  BY <1>1, <1>2, <1>4 DEF Copies
<1>9. RowsCopy(files, m, s)
  BY <1>1, <1>2, <1>3, <1>8 DEF RowsCopy
<1> QED BY <1>7, <1>9 DEF m, k, s

RowSet(new, rows, k, row) == new = [rows EXCEPT ![k] = row]

\* One row changed, within what its mirror has of the file.
LEMMA RowCopies ==
  ASSUME NEW rows \in Seq(P!Row), NEW m, NEW s, RowsCopy(rows, m, s), NEW k \in DOMAIN rows,
         NEW row, Copies(m[k], s, row.hw), Names(s, row.fp), ~row.poisoned,
         NEW new, RowSet(new, rows, k, row)
  PROVE  RowsCopy(new, m, s) /\ Len(new) = Len(rows)
<1>1. /\ DOMAIN new = DOMAIN rows /\ new[k] = row /\ Len(new) = Len(rows)
      /\ \A g \in DOMAIN rows : g # k => new[g] = rows[g]
  BY DEF RowSet
<1>2. RowsCopy(new, m, s)
  BY <1>1 DEF RowsCopy
<1> QED BY <1>1, <1>2

\* What the store does with the lock held.
Holds ==
  \/ P!RejectPoisoned \/ P!RejectGap \/ P!FirstDivergence \/ P!PoisonFingerprint \/ P!ClearPending
  \/ P!OpenGeneration \/ P!WriteMirror \/ P!UpdateFingerprint \/ P!RecordSuccess \/ P!RecordFacts
  \/ P!FailWriteMirror \/ P!FailStatement \/ P!Release \/ P!Crash

LEMMA HoldsGrows ==
  ASSUME StoreInv, ShipInv, GrowInv, Holds, UNCHANGED source PROVE StoreCopies'
<1> DEFINE s == source
           k == op.tgt
<1>1. /\ RowsCopy(files, mirror, s) /\ Len(files) <= 1 /\ OpCopies(op, mirror, s)
      /\ files \in Seq(P!Row) /\ op \in P!Op /\ s \in Seq(Byte)
  BY CopyTypes DEF GrowInv, StoreCopies, StoreInv, P!IInv, P!TypeOK
<1>2. op.pc \in P!PutStages => /\ ~P!Diverges /\ k \in DOMAIN files /\ P!Target = files[k]
                               /\ P!Target \in P!Row /\ P!Target.hw \in Nat
  BY NothingDiverges, P!TargetFacts, ShipAssumption DEF P!FPs, StoreInv, P!Target
<1>3. op.pc # "open"
  BY <1>2 DEF StoreInv, P!IInv, P!Opening, P!PutStages
<1>4. op.off \in Nat /\ op.body \in Seq(Byte) /\ op.hw \in Nat /\ P!ReqEnd \in Nat
  BY CopyTypes DEF P!ReqEnd
<1>5. CASE op'.pc \in {"idle", "done"} /\ UNCHANGED <<files, mirror>>
  <2>1. OpCopies(op', mirror, s)
    BY <1>5 DEF OpCopies, P!PutStages
  <2> QED BY <1>1, <1>5, <2>1 DEF StoreCopies
<1>6. CASE \/ P!RejectPoisoned \/ P!RejectGap \/ P!RecordFacts \/ P!FailStatement \/ P!Release
           \/ P!Crash
  <2>1. op'.pc \in {"idle", "done"} /\ UNCHANGED <<files, mirror>>
    <3>1. UNCHANGED <<files, mirror>> /\ (op' = P!Idle \/ \E code, hw : P!Reply(code, op.tgt, hw))
      BY <1>6 DEF P!RejectPoisoned, P!RejectGap, P!RecordFacts, P!FailStatement, P!Release, P!Crash
    <3>2. P!Idle.pc = "idle"
      BY DEF P!Idle
    <3>3. ASSUME NEW code, NEW hw, P!Reply(code, op.tgt, hw) PROVE op'.pc = "done"
      BY <1>1, <3>3 DEF P!Reply, P!Op
    <3> QED BY <3>1, <3>2, <3>3
  <2> QED BY <1>5, <2>1
<1>7. ~(P!FirstDivergence \/ P!PoisonFingerprint \/ P!ClearPending \/ P!OpenGeneration)
  BY <1>2, <1>3 DEF P!FirstDivergence, P!PoisonFingerprint, P!ClearPending, P!OpenGeneration,
     P!Routable, P!PutStages
<1>8. CASE P!WriteMirror
  <2> DEFINE to == P!ReqEnd
  <2>1. /\ P!Routable /\ UNCHANGED files /\ op.pc \in P!PutStages
        /\ mirror' = [mirror EXCEPT ![k] = P!Overwrite(mirror[k], P!Target.hw, to)]
        /\ op' = [op EXCEPT !.pc = "fprint", !.hw = to] /\ P!Target.hw < to
    BY <1>8 DEF P!WriteMirror, P!Routable, P!PutStages
  <2>a. to \in Nat /\ P!Target.hw <= to /\ to <= P!ReqEnd
    BY <1>2, <1>4, <2>1
  <2> HIDE DEF to
  <2>2. Copies(mirror'[k], s, to) /\ RowsCopy(files, mirror', s)
    BY <2>1, <2>a, WriteCopies
  <2> HIDE DEF to
  <2>3. op'.pc = "fprint" /\ op'.hw = to /\ op'.tgt = k /\ op'.off = op.off /\ op'.body = op.body
    BY <1>1, <2>1 DEF P!Op
  <2>4. OpCopies(op', mirror', s)
    BY <1>1, <2>1, <2>2, <2>3 DEF OpCopies
  <2> QED BY <1>1, <2>1, <2>2, <2>4 DEF StoreCopies
<1>9. CASE P!FailWriteMirror
  <2>1. PICK to \in P!Target.hw..P!ReqEnd :
          mirror' = [mirror EXCEPT ![k] = P!Overwrite(mirror[k], P!Target.hw, to)]
    BY <1>9 DEF P!FailWriteMirror
  <2>2. P!Routable /\ UNCHANGED files /\ op.pc \in P!PutStages
    BY <1>9 DEF P!FailWriteMirror, P!Routable, P!PutStages
  <2>3. to \in Nat /\ P!Target.hw <= to /\ to <= P!ReqEnd
    BY <1>2, <1>4, <2>1, <2>2
  <2>4. RowsCopy(files, mirror', s)
    BY <2>1, <2>2, <2>3, WriteCopies
  <2>5. op'.pc = "done"
    BY <1>1, <1>9 DEF P!FailWriteMirror, P!Reply, P!Op
  <2>6. OpCopies(op', mirror', s)
    BY <2>5 DEF OpCopies, P!PutStages
  <2> QED BY <1>1, <2>2, <2>4, <2>6 DEF StoreCopies
<1>10. CASE P!UpdateFingerprint
  <2> DEFINE fp == P!FP(mirror[k])
             row == [files[k] EXCEPT !.fp = fp]
  <2>1. /\ op.pc = "fprint" /\ UNCHANGED mirror /\ op' = [op EXCEPT !.pc = "record"]
        /\ files' = files \/ (~(op.hw < Window) /\ files' = [files EXCEPT ![k] = row])
    BY <1>10 DEF P!UpdateFingerprint, P!Stage
  <2>2. op.pc \in P!PutStages /\ Copies(mirror[k], s, op.hw)
    BY <1>1, <2>1 DEF OpCopies, P!PutStages
  <2>3. op'.pc = "record" /\ op'.hw = op.hw /\ op'.tgt = k /\ op'.off = op.off /\ op'.body = op.body
    BY <1>1, <2>1 DEF P!Op
  <2>4. OpCopies(op', mirror, s)
    BY <1>1, <2>2, <2>3 DEF OpCopies
  <2>5. RowsCopy(files', mirror, s) /\ Len(files') <= 1
    <3>1. CASE files' = files
      BY <1>1, <3>1
    <3>2. CASE ~(op.hw < Window) /\ files' = [files EXCEPT ![k] = row]
      <4>1. Window <= Len(s) /\ \A i \in 1..Window : mirror[k][i] = s[i]
        BY <1>1, <1>4, <2>2, <3>2, ShipAssumption DEF Copies
      <4>2. fp = FP(s)
        BY <4>1 DEF P!FP, FP, Store!FP
      <4>3. row.hw = files[k].hw /\ row.fp = fp /\ row.poisoned = files[k].poisoned
        BY <1>2, <2>2 DEF P!Row
      <4> HIDE DEF row, fp
      <4>4. Copies(mirror[k], s, row.hw) /\ Names(s, row.fp) /\ ~row.poisoned
        BY <1>1, <1>2, <2>2, <4>1, <4>2, <4>3 DEF RowsCopy, Names
      <4>5. RowSet(files', files, k, row) /\ k \in DOMAIN files
        BY <1>2, <2>2, <3>2 DEF RowSet
      <4> QED BY <1>1, <4>4, <4>5, RowCopies
    <3> QED BY <2>1, <3>1, <3>2
  <2> QED BY <2>1, <2>4, <2>5 DEF StoreCopies
<1>11. CASE P!RecordSuccess
  <2> DEFINE hw == IF op.pc = "record" THEN op.hw ELSE P!Target.hw
             row == [files[k] EXCEPT !.hw = hw, !.pending = FALSE]
  <2>1. /\ op.pc \in P!PutStages /\ UNCHANGED mirror
        /\ op' = [op EXCEPT !.pc = "facts", !.hw = hw]
        /\ files' = [files EXCEPT ![k].hw = hw, ![k].pending = FALSE]
    BY <1>11 DEF P!RecordSuccess, P!Routable, P!PutStages
  <2>2. files' = [files EXCEPT ![k] = row]
    BY <1>1, <1>2, <2>1
  <2>3. Copies(mirror[k], s, hw)
    BY <1>1, <1>2, <2>1 DEF OpCopies, RowsCopy
  <2> HIDE DEF hw
  <2>4. op'.pc = "facts" /\ op'.tgt = k /\ op'.off = op.off /\ op'.body = op.body
    BY <1>1, <2>1 DEF P!Op
  <2>5. OpCopies(op', mirror, s)
    BY <1>1, <2>1, <2>4 DEF OpCopies
  <2>6. row.hw = hw /\ row.fp = files[k].fp /\ row.poisoned = files[k].poisoned
    BY <1>2, <2>1 DEF P!Row
  <2> HIDE DEF row
  <2>7. Names(s, row.fp) /\ ~row.poisoned
    BY <1>1, <1>2, <2>1, <2>6 DEF RowsCopy
  <2>8. RowsCopy(files', mirror, s) /\ Len(files') <= 1
    <3>1. RowSet(files', files, k, row) /\ k \in DOMAIN files /\ Copies(mirror[k], s, row.hw)
      BY <1>2, <2>1, <2>2, <2>3, <2>6 DEF RowSet
    <3> QED BY <1>1, <2>7, <3>1, RowCopies
  <2> QED BY <2>1, <2>5, <2>8 DEF StoreCopies
<1> QED BY <1>6, <1>7, <1>8, <1>9, <1>10, <1>11 DEF Holds

LEMMA StoreGrows ==
  ASSUME StoreInv, ShipInv, GrowInv, StoreMoves PROVE GrowInv'
<1>1. UNCHANGED <<source, present, cur, disk>>
  BY DEF StoreMoves, TakeLive, TakeOrphan, StoreStep, StoreFails, StoreReplies, StoreCrash, StoreIs,
     sourceVars, registryVars
<1>2. StoreCopies'
  <2>1. CASE TakeLive \/ TakeOrphan
    BY <1>1, <2>1, ArriveGrows DEF TakeLive, TakeOrphan
  <2>2. CASE StoreStep \/ StoreFails \/ StoreReplies \/ StoreCrash
    <3>1. Holds
      BY <2>2, SameRouting, SameAppend DEF StoreStep, StoreFails, StoreReplies, StoreCrash, Holds
    <3> QED BY <1>1, <3>1, HoldsGrows
  <2> QED BY <2>1, <2>2 DEF StoreMoves
<1>3. SentCopies'
  <2>1. RequestTrue(live) /\ RequestTrue(orphan)
    BY DEF ShipInv, NetOK
  <2>2. live' = live \/ live'.st # "sent"
    <3>1. CASE live' = live \/ \E st \in {"serving", "broken"} : live' = [live EXCEPT !.st = st]
      BY <2>1, <3>1, StatusTrue
    <3>2. CASE live' = [live EXCEPT !.st = "replied", !.code = op.code, !.hw = op.hw]
      BY <2>1, <3>2 DEF RequestTrue, Call
    <3> QED BY <3>1, <3>2 DEF StoreMoves, TakeLive, TakeOrphan, StoreStep, StoreFails, StoreReplies,
               StoreCrash, netVars
  <2>3. orphan' = orphan \/ orphan'.st # "sent"
    <3>1. CASE orphan' = NoCall
      BY <3>1, NoCallTrue
    <3>2. CASE orphan' = orphan \/ orphan' = [orphan EXCEPT !.st = "serving"]
      BY <2>1, <3>2, StatusTrue
    <3> QED BY <3>1, <3>2 DEF StoreMoves, TakeLive, TakeOrphan, StoreStep, StoreFails, StoreReplies,
               StoreCrash, netVars
  <2> QED BY <1>1, <2>2, <2>3 DEF GrowInv, SentCopies, CallCopies
<1> QED BY <1>1, <1>2, <1>3 DEF GrowInv, CursorsName

\* Every fingerprint a cursor records is the file's.
LEMMA PassGrows ==
  ASSUME ShipInv, GrowInv, PassMoves PROVE GrowInv'
<1>1. UNCHANGED <<files, mirror, op, source, present, live, orphan>>
  BY DEF PassMoves, StartPass, RecoverSkip, RecoverHold, RecoverRefused, RecoverCursor, GCCursor,
     SaveOwner, SaveOwnerFails, BeginFile, Vanished, StatFile, FingerprintFile, EndPass,
     EndPassUnsaved, storeVars, sourceVars, netVars
<1>2. /\ cur \in Cursor /\ Names(source, cur.fp) /\ Names(source, disk.cur.fp)
      /\ Names(source, NoFP) /\ (Ready => Names(source, FP(source)))
  <2>1. source \in Seq(Byte) /\ Window \in Nat
    BY ShipAssumption DEF ShipInv, FileOK
  <2> QED BY <2>1 DEF ShipInv, RegistryOK, CursorTrue, GrowInv, CursorsName, Names, Ready
<1>3. Names(source, cur'.fp)
  <2>1. CASE UNCHANGED cur
    BY <1>2, <2>1
  <2>2. CASE RecoverCursor
    <3>1. \/ cur' = cur \/ cur' = [Untracked EXCEPT !.known = TRUE] \/ cur' = ResumeCursor
      BY <2>2 DEF RecoverCursor
    <3>2. [Untracked EXCEPT !.known = TRUE].fp = NoFP
      BY DEF Untracked
    <3>3. ResumeCursor.fp = IF Ready THEN FP(source) ELSE NoFP
      BY DEF ResumeCursor
    <3> QED BY <1>2, <3>1, <3>2, <3>3
  <2>3. CASE GCCursor
    <3>1. Untracked.fp = NoFP
      BY DEF Untracked
    <3> QED BY <1>2, <2>3, <3>1 DEF GCCursor
  <2>4. CASE SaveOwner \/ SaveOwnerFails
    <3>1. cur'.fp = cur.fp
      BY <1>2, <2>4 DEF SaveOwner, SaveOwnerFails, PutCursor, Cursor
    <3> QED BY <1>2, <3>1
  <2>5. CASE StatFile
    <3> DEFINE c == [cur EXCEPT !.off = 0, !.fp = NoFP]
    <3>1. cur' = cur \/ cur' = [c EXCEPT !.known = TRUE]
      BY <2>5 DEF StatFile, PutCursor
    <3>2. [c EXCEPT !.known = TRUE].fp = NoFP
      <4> DEFINE none == NoFP
      <4> HIDE DEF none
      <4>1. [[cur EXCEPT !.off = 0, !.fp = none] EXCEPT !.known = TRUE].fp = none
        BY <1>2 DEF Cursor
      <4> QED BY <4>1 DEF none
    <3> HIDE DEF c
    <3> QED BY <1>2, <3>1, <3>2
  <2>6. CASE FingerprintFile
    <3> DEFINE n == IF cur.fp = NoFP THEN cur.off ELSE 0
               f == FP(source)
    <3>1. cur' = cur \/ (Ready /\ cur' = [cur EXCEPT !.known = TRUE, !.fp = f, !.off = n])
      BY <2>6 DEF FingerprintFile, Fingerprinted
    <3> HIDE DEF n, f
    <3>2. [cur EXCEPT !.known = TRUE, !.fp = f, !.off = n].fp = f
      BY <1>2 DEF Cursor
    <3>3. Ready => Names(source, f)
      BY <1>2 DEF f
    <3> QED BY <1>2, <3>1, <3>2, <3>3
  <2> QED BY <2>1, <2>2, <2>3, <2>4, <2>5, <2>6 DEF PassMoves, StartPass, RecoverSkip, RecoverHold,
             RecoverRefused, BeginFile, Vanished, EndPass, EndPassUnsaved, registryVars
<1>4. Names(source, disk'.cur.fp)
  <2>1. disk' = disk \/ disk' = [ok |-> TRUE, cur |-> cur']
    BY DEF PassMoves, StartPass, RecoverSkip, RecoverHold, RecoverRefused, RecoverCursor, GCCursor,
       SaveOwner, SaveOwnerFails, BeginFile, Vanished, StatFile, FingerprintFile, EndPass,
       EndPassUnsaved, registryVars
  <2> QED BY <1>2, <1>3, <2>1
<1> QED BY <1>1, <1>3, <1>4 DEF GrowInv, StoreCopies, SentCopies, CursorsName

\* A chunk is the file's bytes from the cursor on.
LEMMA ChunkWithin ==
  ASSUME FileOK, cur \in Cursor, ship \in Pass, Chunk # <<>>
  PROVE  Within(source, cur.off, Chunk)
<1>1. /\ source \in Seq(Byte) /\ Len(source) \in Nat
      /\ cur.off \in Nat /\ ship.size \in Nat /\ ship.body \in Nat
  BY ShipAssumption DEF FileOK, Cursor, Pass
<1> DEFINE upTo == cur.off + ship.body
           sized == IF upTo < ship.size THEN upTo ELSE ship.size
           last == IF sized < Len(source) THEN sized ELSE Len(source)
           off == cur.off
           s == source
<1>2. last \in Nat /\ last <= Len(s) /\ Chunk = SubSeq(s, off + 1, last)
  BY <1>1 DEF Chunk
<1> HIDE DEF last, off, s
<1>3. off + 1 <= last
  BY <1>1, <1>2 DEF off, s
<1>4. /\ Len(SubSeq(s, off + 1, last)) = last - off
      /\ DOMAIN SubSeq(s, off + 1, last) = 1..(last - off)
      /\ \A i \in 1..(last - off) : SubSeq(s, off + 1, last)[i] = s[off + i]
  BY <1>1, <1>2, <1>3 DEF off, s
<1>5. off + (last - off) <= Len(s)
  BY <1>1, <1>2 DEF off, s
<1>6. Within(s, off, Chunk)
  BY <1>2, <1>4, <1>5 DEF Within
<1> QED BY <1>6 DEF off, s

LEMMA ReadGrows ==
  ASSUME ShipInv, GrowInv, ReadAndPut PROVE GrowInv'
<1>1. UNCHANGED <<files, mirror, op, source, present, orphan, cur, disk>>
  BY DEF ReadAndPut, storeVars, sourceVars, registryVars
<1>2. cur \in Cursor /\ ship \in Pass /\ FileOK /\ Names(source, cur.fp)
  BY DEF ShipInv, RegistryOK, CursorTrue, GrowInv, CursorsName
<1>3. CallCopies(live', source)
  <2>1. CASE Chunk = <<>>
    BY <2>1 DEF ReadAndPut, GrowInv, SentCopies
  <2>2. CASE Chunk # <<>>
    <3> DEFINE body == Chunk
               off == cur.off
               fp == cur.fp
    <3>1. live' = [NoCall EXCEPT !.st = "sent", !.fp = fp, !.off = off, !.body = body]
      BY <2>2 DEF ReadAndPut
    <3>2. Within(source, off, body) /\ Names(source, fp)
      BY <1>2, <2>2, ChunkWithin
    <3> HIDE DEF body, off, fp
    <3>3. live'.fp = fp /\ live'.off = off /\ live'.body = body
      BY <3>1 DEF NoCall
    <3> QED BY <3>2, <3>3 DEF CallCopies
  <2> QED BY <2>1, <2>2
<1> QED BY <1>1, <1>3 DEF GrowInv, StoreCopies, SentCopies, CursorsName

LEMMA HearGrows ==
  ASSUME ShipInv, GrowInv, Hears PROVE GrowInv'
<1>1. UNCHANGED <<files, mirror, op, source, present, orphan, disk>> /\ live' = NoCall
  BY DEF Hears, HearAck, HearRewind, HearConflict, HearPoisoned, HearHold, HearTooLarge,
         HearRefused, Hear, storeVars, sourceVars
<1>2. cur'.fp = cur.fp
  <2>1. cur \in Cursor
    BY DEF ShipInv, RegistryOK, CursorTrue
  <2>2. \/ cur' = cur \/ cur' = [cur EXCEPT !.known = TRUE, !.poisoned = TRUE]
        \/ \E n : cur' = [cur EXCEPT !.known = TRUE, !.off = n]
    BY DEF Hears, HearAck, HearRewind, HearConflict, HearPoisoned, HearHold, HearTooLarge,
           HearRefused, Hear
  <2> QED BY <2>1, <2>2 DEF Cursor
<1>3. CallCopies(live', source)
  BY <1>1, NoCallTrue DEF CallCopies
<1> QED BY <1>1, <1>2, <1>3 DEF GrowInv, StoreCopies, SentCopies, CursorsName

LEMMA LossGrows ==
  ASSUME ShipInv, GrowInv, LoseCall \/ ShipCrash PROVE GrowInv'
<1>1. UNCHANGED <<files, mirror, op, source, present>> /\ GivenUp /\ live' = NoCall
  BY DEF LoseCall, ShipCrash, storeVars, sourceVars
<1>2. CallCopies(NoCall, source) /\ CallCopies(live, source) /\ CallCopies(orphan, source)
  BY NoCallTrue DEF CallCopies, GrowInv, SentCopies
<1>3. orphan' = NoCall \/ orphan' = live \/ orphan' = orphan
  BY <1>1 DEF GivenUp
<1>4. Names(source, cur'.fp) /\ Names(source, disk'.cur.fp)
  <2>1. NoRegistry.cur.fp = NoFP
    BY DEF NoRegistry, Untracked
  <2>2. UNCHANGED <<cur, disk>> \/ (cur' = disk'.cur /\ disk' \in {disk, NoRegistry})
    BY DEF LoseCall, ShipCrash, registryVars
  <2> QED BY <2>1, <2>2 DEF GrowInv, CursorsName, Names
<1> QED BY <1>1, <1>2, <1>3, <1>4 DEF GrowInv, StoreCopies, SentCopies, CursorsName

LEMMA RefuseGrows ==
  ASSUME ShipInv, GrowInv, TooLarge \/ RefuseLive PROVE GrowInv'
<1>1. UNCHANGED <<files, mirror, op, source, present, orphan, cur, disk>>
  BY DEF TooLarge, RefuseLive, StoreIs, storeVars, sourceVars, registryVars
<1>2. PICK code : live' = [live EXCEPT !.st = "replied", !.code = code]
  BY DEF TooLarge, RefuseLive
<1>3. live'.st # "sent"
  BY <1>2 DEF ShipInv, NetOK, RequestTrue, Call
<1> QED BY <1>1, <1>3 DEF GrowInv, StoreCopies, SentCopies, CursorsName, CallCopies

LEMMA GrowNext ==
  ASSUME OnlyGrows, StoreInv, ShipInv, GrowInv, [Next]_vars PROVE GrowInv'
<1>1. CASE UNCHANGED vars
  BY <1>1 DEF vars, storeVars, sourceVars, registryVars, netVars, GrowInv, StoreCopies, SentCopies,
              CursorsName
<1>2. CASE Next
  BY <1>2, OwnerGrows, StoreGrows, PassGrows, ReadGrows, HearGrows, LossGrows, RefuseGrows
     DEF Next, Shipper, Serving, Faults, PassMoves, Hears, StoreMoves
<1> QED BY <1>1, <1>2

-----------------------------------------------------------------------------
(* The theorems *)

LEMMA ShipInit == ASSUME Init PROVE StoreInv /\ ShipInv
<1>1. P!Init
  BY SameInit DEF Init
<1>2. StoreInv
  BY <1>1, P!InitStep, P!ToldAtFirst, ShipAssumption DEF P!FPs, StoreInv
<1>3. FileOK /\ NoDrops
  <2> DEFINE empty == <<>>
  <2>1. empty \in Seq(Byte) /\ Len(empty) = 0
    OBVIOUS
  <2>2. source = empty /\ present = FALSE
    BY DEF Init
  <2>3. dropLog = <<>>
    BY <1>1 DEF P!Init
  <2> HIDE DEF empty
  <2>4. MaxLen \in Nat
    BY ShipAssumption
  <2>5. present \in BOOLEAN /\ Len(source) <= MaxLen /\ source \in Seq(Byte)
    <3>1. present \in BOOLEAN
      BY <2>2
    <3>2. source \in Seq(Byte)
      BY <2>1, <2>2
    <3>3. Len(source) <= MaxLen
      BY <2>1, <2>2, <2>4
    <3> QED BY <3>1, <3>2, <3>3
  <2> QED BY <2>3, <2>5 DEF NoDrops, FileOK
<1>4. RegistryOK
  BY UntrackedTrue DEF Init, RegistryOK, NoRegistry, CursorTrue
<1>5. ship \in Pass /\ NetOK
  BY NoPassOK, NoCallTrue DEF Init, NetOK, Heard
<1> QED BY <1>2, <1>3, <1>4, <1>5 DEF ShipInv

LEMMA ShipNext == ASSUME StoreInv, ShipInv, [Next]_vars PROVE (StoreInv /\ ShipInv)'
<1>1. StoreInv'
  BY StepRefines, StoreInvKept DEF ShipInv
<1>2. ShipInv'
  <2>1. CASE UNCHANGED vars
    BY <2>1 DEF vars, storeVars, sourceVars, registryVars, netVars, ShipInv, FileOK, RegistryOK,
       NetOK, Heard, RequestTrue, CursorTrue, Acked, Poisoned, NoDrops
  <2>2. CASE Owner
    <3>1. FileOK' /\ UNCHANGED <<storeVars, registryVars, ship, netVars>>
      BY <2>2, OwnerSteps
    <3> QED BY <3>1 DEF storeVars, registryVars, netVars, ShipInv, RegistryOK, NetOK, Heard,
               RequestTrue, CursorTrue, Acked, Poisoned, NoDrops
  <2>3. CASE PassMoves
    BY <2>3, PassSteps
  <2>4. CASE ReadAndPut
    BY <2>4, ReadStep
  <2>5. CASE Hears
    BY <2>5, HearSteps
  <2>6. CASE LoseCall \/ ShipCrash
    BY <2>6, LossSteps
  <2>7. CASE TooLarge \/ RefuseLive
    BY <2>7, RefuseSteps
  <2>8. CASE StoreMoves
    BY <2>8, StoreSteps
  <2> QED BY <2>1, <2>2, <2>3, <2>4, <2>5, <2>6, <2>7, <2>8
          DEF Next, Shipper, Serving, Faults, PassMoves, Hears, StoreMoves
<1> QED BY <1>1, <1>2

\* The invariant the others follow from.
THEOREM ShipInvariant == Spec => [](StoreInv /\ ShipInv)
<1>1. Init => StoreInv /\ ShipInv
  BY ShipInit
<1>2. StoreInv /\ ShipInv /\ [Next]_vars => (StoreInv /\ ShipInv)'
  BY ShipNext
<1> QED BY <1>1, <1>2, PTL DEF Spec

\* Every variable of the composition keeps its type, and no body or position goes
\* beyond the bound on a file. (Shipper, Registry, the calls between)
THEOREM TypeCorrect == Spec => []TypeOK
<1>1. StoreInv /\ ShipInv => TypeOK
  <2> SUFFICES ASSUME StoreInv, ShipInv PROVE TypeOK
    OBVIOUS
  <2>1. Store!TypeOK
    BY DEF StoreInv, P!IInv, Store!TypeOK, P!TypeOK, Store!Op, P!Op, Store!Row, P!Row, Store!FPs,
       P!FPs, Store!NoFP, P!NoFP, Store!Codes, P!Codes, Store!PutStages, Store!DropStages,
       P!PutStages, P!DropStages
  <2> QED BY <2>1 DEF TypeOK, ShipInv, FileOK, RegistryOK, NetOK, RequestTrue, CursorTrue
<1> QED BY <1>1, ShipInvariant, PTL

\* Invariant I4 of the shipper: through every edit, crash, lost, delayed or repeated
\* call, a cursor never runs ahead of the store's durable acknowledgements.
\* (shipFile, recoverCursor, Registry)
THEOREM CursorsAreAcked == Spec => []CursorIsAcked
<1>1. ShipInv => CursorIsAcked
  BY DEF ShipInv, RegistryOK, CursorTrue, Acked, CursorIsAcked
<1> QED BY <1>1, ShipInvariant, PTL

\* A file is frozen only for a generation that the store has poisoned: no lost or
\* late answer freezes it. (shipFile at poisoned_file, recoverCursor)
THEOREM PoisonsHaveCauses == Spec => []PoisonHasCause
<1>1. ShipInv => PoisonHasCause
  BY DEF ShipInv, RegistryOK, CursorTrue, Poisoned, PoisonHasCause
<1> QED BY <1>1, ShipInvariant, PTL

\* The shipper and the network are among the clients the store is specified for:
\* each of their steps is one of the store's or leaves it alone.
THEOREM ShipperImplementsStore == Spec => StoreSpec
<1>1. Init => Store!Init
  BY DEF Init
<1>2. ShipInv /\ [Next]_vars => [Store!Next]_storeVars
  BY StepRefines DEF ShipInv
<1>3. [Store!Next]_storeVars <=> [Store!Next]_(Store!vars)
  BY DEF storeVars, Store!vars
<1> QED BY <1>1, <1>2, <1>3, ShipInvariant, PTL DEF Spec, StoreSpec, Store!Spec

\* What the file's copies come to.
LEMMA GrowInvariant == OnlyGrows /\ Spec => []GrowInv
<1> SUFFICES ASSUME OnlyGrows PROVE Spec => []GrowInv
  OBVIOUS
<1>1. ASSUME Init PROVE GrowInv
  <2>1. /\ files = <<>> /\ op = Store!Idle /\ source = <<>> /\ live = NoCall /\ orphan = NoCall
        /\ cur = Untracked /\ disk = NoRegistry
    BY <1>1 DEF Init, Store!Init
  <2>2. op.pc = "idle" /\ Len(files) = 0 /\ DOMAIN files = {}
    BY <2>1 DEF Store!Idle
  <2>3. cur.fp = NoFP /\ disk.cur.fp = NoFP
    BY <2>1 DEF Untracked, NoRegistry
  <2>4. live.st = "none" /\ orphan.st = "none"
    BY <2>1, NoCallTrue
  <2> QED BY <2>1, <2>2, <2>3, <2>4 DEF GrowInv, StoreCopies, RowsCopy, OpCopies, P!PutStages,
             SentCopies, CallCopies, CursorsName, Names
<1>2. StoreInv /\ ShipInv /\ GrowInv /\ [Next]_vars => GrowInv'
  BY GrowNext
<1> QED BY <1>1, <1>2, ShipInvariant, PTL DEF Spec

\* I2 and I4 of the ingest protocol for a session log: whenever the shipper considers
\* a file shipped that its owner only appends to, the mirror holds exactly its bytes,
\* whatever was lost, repeated, delayed, refused or crashed on the way, the registry
\* file included.  (Shipper.shipFile, Store.putBytes)
THEOREM GrowingFileIsMirrored == OnlyGrows /\ Spec => []QuiescentIsMirrored
<1> SUFFICES ASSUME OnlyGrows PROVE Spec => []QuiescentIsMirrored
  OBVIOUS
<1>1. StoreInv /\ ShipInv /\ GrowInv => QuiescentIsMirrored
  <2> SUFFICES ASSUME StoreInv, ShipInv, GrowInv, Quiescent PROVE Mirrors(source)
    BY DEF QuiescentIsMirrored
  <2> DEFINE n == Len(source)
  <2>1. source \in Seq(Byte) /\ source # <<>> /\ cur.off = n /\ n > 0 /\ Acked(cur.off)
    BY DEF Quiescent, ShipInv, FileOK, RegistryOK, CursorTrue
  <2>2. PICK g \in DOMAIN files : n <= files[g].hw
    BY <2>1 DEF Acked
  <2>3. files[g].hw \in Nat /\ n \in Nat /\ Copies(mirror[g], source, files[g].hw)
    BY <2>1, <2>2, CopyTypes DEF GrowInv, StoreCopies, RowsCopy
  <2>4. mirror[g] \in Seq(Byte) /\ n <= Len(mirror[g])
    <3>1. /\ files \in Seq(P!Row) /\ Len(files) <= MaxGen /\ mirror \in [1..MaxGen -> Seq(Byte)]
          /\ files[g].hw <= Len(mirror[g])
      BY <2>2 DEF StoreInv, P!IInv, P!TypeOK, P!HighWaterBacked
    <3>2. g \in 1..MaxGen
      BY <3>1, <2>2, ShipAssumption
    <3>3. mirror[g] \in Seq(Byte)
      BY <3>1, <3>2
    <3> QED BY <2>2, <2>3, <3>1, <3>3
  <2>5. \A i \in 1..n : mirror[g][i] = source[i]
    BY <2>2, <2>3 DEF Copies
  <2>6. SubSeq(source, 1, n) = SubSeq(mirror[g], 1, n)
    BY <2>1, <2>3, <2>4, <2>5
  <2> QED BY <2>2, <2>4, <2>6 DEF Mirrors, IsPrefix
<1> QED BY <1>1, ShipInvariant, GrowInvariant, PTL

\* A file that only grows is never frozen and never forks: it has one generation, and
\* no request for it meets bytes that contradict it.  (Store.selectGeneration,
\* handleDivergence)
THEOREM GrowingFileNeverForks ==
  OnlyGrows /\ Spec =>
    [](/\ Len(files) <= 1 /\ \A g \in DOMAIN files : ~files[g].poisoned
       /\ ~cur.poisoned /\ ~disk.cur.poisoned)
<1> SUFFICES ASSUME OnlyGrows
             PROVE  Spec => [](/\ Len(files) <= 1 /\ \A g \in DOMAIN files : ~files[g].poisoned
                               /\ ~cur.poisoned /\ ~disk.cur.poisoned)
  OBVIOUS
<1>1. ShipInv /\ GrowInv => /\ Len(files) <= 1 /\ \A g \in DOMAIN files : ~files[g].poisoned
                            /\ ~cur.poisoned /\ ~disk.cur.poisoned
  BY DEF ShipInv, RegistryOK, CursorTrue, Poisoned, GrowInv, StoreCopies, RowsCopy
<1> QED BY <1>1, ShipInvariant, GrowInvariant, PTL
=============================================================================
