------------------------------ MODULE SeshIndex ------------------------------
(***************************************************************************)
(* The sesh message index (tools/sesh/internal/index) and the consumer     *)
(* that feeds it (tools/sesh/internal/storecli), for a few mirrored files  *)
(* of one tool.  Handlers append to files and hand an event to a bounded   *)
(* channel; one consumer turns events and the backlog of a catch-up sweep  *)
(* into index rows, one transaction under Store.mu per event.  The process *)
(* may crash or be stopped at any time; table rows survive, the channel    *)
(* and the backlog do not.                                                 *)
(*                                                                         *)
(* A file is a generation 0 and its number is its place in created_at      *)
(* order; its parsed content id is its wire session id and is the same on  *)
(* every line.  Offsets count in units of which a line has LineLen, so     *)
(* that a mirror may end inside a line.                                    *)
(***************************************************************************)
EXTENDS Integers, Sequences, FiniteSets, FiniteSetsExt

CONSTANTS
  Corpora,     \* the contents the files may have: sequences of [id, lines]
  LineLen,     \* units in a line
  Buffer,      \* Config.AppendBuffer
  MaxHandlers, \* bound: handlers between putBytes and their event
  MaxFaults    \* bound: crashes, stops and failed transactions

ASSUME LineLenAssumption == LineLen \in Nat /\ LineLen > 0
ASSUME BufferAssumption ==
  Buffer \in Nat /\ MaxHandlers \in Nat /\ MaxFaults \in Nat
ASSUME CorporaAssumption ==
  \A t \in Corpora : t \in Seq([id : Nat, lines : Seq([key : Nat, ts : Nat, bad : BOOLEAN])])

VARIABLES
  text,      \* what the owners of the files will have written in the end
  hw,        \* files.high_water
  dirty,     \* files.dirty_for_reindex
  rows,      \* table sesh_index_messages
  complete,  \* index_file_state.complete_offset, in lines
  handlers,  \* events of putBytes calls not yet offered to the channel
  queue,     \* Store.events
  backlog,   \* the rest of the last sweep
  phase,     \* of the consumer: "start", "run", "stop" or "down"
  faults     \* how much of the fault budget is used

disk == <<hw, dirty, rows, complete>>
memory == <<handlers, queue, backlog, phase>>
vars == <<text, disk, memory, faults>>

Files == DOMAIN text
LinesIn(end) == end \div LineLen
Event(f, end) == [file |-> f, end |-> end]

Init == /\ text \in Corpora
        /\ hw = [f \in Files |-> 0]
        /\ dirty = [f \in Files |-> FALSE]
        /\ rows = {}
        /\ complete = [f \in Files |-> 0]
        /\ handlers = {} /\ queue = <<>> /\ backlog = <<>>
        /\ phase = "start"
        /\ faults = 0

-----------------------------------------------------------------------------
(* Rows.  [file, line]: the span; copy tells rows of one span apart (id);     *)
(* log, ord: logical_session_id and file_ordinal.  The line a row was parsed  *)
(* from has a key (entry_type and message_uuid, 0 when the uuid is empty), a  *)
(* timestamp and bad, when it does not parse.                                 *)

NoKey == 0
LineOf(r) == text[r.file].lines[r.line]
KeyOf(r) == LineOf(r).key
Keyed(r) == ~LineOf(r).bad /\ KeyOf(r) # NoKey

Plain(R, f) == {r \in R : r.file = f /\ ~LineOf(r).bad}
KeysOf(R, f) == {KeyOf(r) : r \in {p \in Plain(R, f) : Keyed(p)}}
Placed(R) == {f \in Files : Plain(R, f) # {}}
LogicalOf(R, f) == Min({r.log : r \in Plain(R, f)})
OrdinalOf(R, f) == Min({r.ord : r \in Plain(R, f)})

SameLogical(R, log) == {f \in Placed(R) : LogicalOf(R, f) = log}
Overlapping(R, f) ==
  {g \in Placed(R) : Cardinality(KeysOf(R, f) \cap KeysOf(R, g)) >= 2}

\* The files reached from f over shared labels and overlaps.
Linked(R, f) == SameLogical(R, LogicalOf(R, f)) \cup Overlapping(R, f)
Connected(R, f) ==
  LET closed == {S \in SUBSET Placed(R) : f \in S /\ \A g \in S : Linked(R, g) \subseteq S}
  IN {g \in Placed(R) : \A S \in closed : g \in S}

Relabel(R, group, log) ==
  {IF r.file \in group THEN [r EXCEPT !.log = log] ELSE r : r \in R}

\* file_ordinal numbers the files of a session in created_at order.
Number(R, group) ==
  {IF r.file \in group THEN [r EXCEPT !.ord = Cardinality({g \in group : g < r.file})]
   ELSE r : r \in R}

Rank(r) == <<LineOf(r).ts, r.ord, r.line, r.file, r.copy>>
Preferred(r, s) == \E i \in 1..5 : /\ Rank(r)[i] < Rank(s)[i]
                                   /\ \A j \in 1..(i - 1) : Rank(r)[j] = Rank(s)[j]

\* Mutant: a row of another session is as good.
Dedupe_AcrossSessions(R, log, keys) ==
  {r \in R : ~(Keyed(r) /\ r.log = log /\ KeyOf(r) \in keys
               /\ \E s \in R : Keyed(s) /\ KeyOf(s) = KeyOf(r) /\ Preferred(s, r))}

\* One row per (logical session, key) stays among the given keys.
Dedupe(R, log, keys) ==
  {r \in R : ~(Keyed(r) /\ r.log = log /\ KeyOf(r) \in keys
               /\ \E s \in R : Keyed(s) /\ s.log = log /\ KeyOf(s) = KeyOf(r)
                               /\ Preferred(s, r))}
AllKeys(R) == {KeyOf(r) : r \in R}

\* compactLogicalFileOrdinals, for the files that still have rows.
Compact(R, log) == Number(R, SameLogical(R, log))

-----------------------------------------------------------------------------
(* applyAppend *)

\* Mutant: the tail of a file without rows that place it is parsed alone.
Vanished_Never(f) == FALSE

\* Dedupe may have taken every row that places the file: then its mirror is
\* replayed from the start, except for the spans that still have a row.
Vanished(f) == complete[f] > 0 /\ Plain(rows, f) = {}
From(f) == IF Vanished(f) THEN 0 ELSE complete[f]

UpTo(ev) == Max({From(ev.file), LinesIn(ev.end)})
NewLines(ev) ==
  {n \in (From(ev.file) + 1)..UpTo(ev) :
     Vanished(ev.file) => ~\E r \in rows : r.file = ev.file /\ r.line = n}

\* The file had a placement before the new rows.
Settled(f) == Plain(rows, f) # {}

\* Mutant: a new row inherits the session but not the ordinal.
NewRow_NoOrdinal(f, n) ==
  LET inherits == Settled(f) /\ ~text[f].lines[n].bad
  IN [file |-> f, line |-> n,
      copy |-> 1 + Cardinality({r \in rows : r.file = f /\ r.line = n}),
      log |-> IF inherits THEN LogicalOf(rows, f) ELSE text[f].id, ord |-> 0]

\* parseComplete, inheritFilePlacement and insertRows: a line joins the session
\* its file is placed in; a line that does not parse goes under the wire id.
NewRow(f, n) ==
  LET inherits == Settled(f) /\ ~text[f].lines[n].bad
  IN [file |-> f, line |-> n,
      copy |-> 1 + Cardinality({r \in rows : r.file = f /\ r.line = n}),
      log |-> IF inherits THEN LogicalOf(rows, f) ELSE text[f].id,
      ord |-> IF inherits THEN OrdinalOf(rows, f) ELSE 0]
Inserted(ev) == rows \cup {NewRow(ev.file, n) : n \in NewLines(ev)}

\* Mutant: lines appended to a settled file are not deduplicated.
UnifyFast_NoDedupe(R, f, keys) == rows' = R

\* unifyConnectedLogicalSessions.  R is the table with the new rows; \E over one
\* value names the table between two statements of the transaction.
UnifyFast(R, f, keys) ==
  \E kept \in {Dedupe(R, LogicalOf(R, f), keys)} :
    rows' = IF kept = R THEN R ELSE Compact(kept, LogicalOf(R, f))

UnifyComponent(R, f) ==
  \E group \in {Connected(R, f)} : \E log \in {LogicalOf(R, Min(group))} :
  \E linked \in {IF Cardinality(group) > 1 THEN Relabel(R, group, log) ELSE R} :
  \E numbered \in {Number(linked, group)} :
  \E kept \in {Dedupe(numbered, log, AllKeys(R))} :
    rows' = Compact(kept, log)

\* The file overlaps a file that is placed in another session.
CrossesBoundary(R, f) ==
  \E g \in Overlapping(R, f) : LogicalOf(R, g) # LogicalOf(R, f)

NewKeys(ev) == {text[ev.file].lines[n].key : n \in NewLines(ev)} \ {NoKey}

Unify(R, ev) ==
  \/ Plain(R, ev.file) = {} /\ rows' = R
  \/ /\ Settled(ev.file) /\ ~CrossesBoundary(R, ev.file)
     /\ UnifyFast(R, ev.file, NewKeys(ev))
  \/ /\ Plain(R, ev.file) # {} /\ (Settled(ev.file) => CrossesBoundary(R, ev.file))
     /\ UnifyComponent(R, ev.file)

Applied(ev) ==
  /\ complete' = [complete EXCEPT ![ev.file] = UpTo(ev)]
  /\ dirty' = [dirty EXCEPT ![ev.file] = FALSE]
  /\ \E R \in {Inserted(ev)} : IF R = rows THEN UNCHANGED rows ELSE Unify(R, ev)
  /\ UNCHANGED hw

\* The transaction rolls back; marking the file dirty may fail as well.
Failed(ev) ==
  /\ \E d \in {TRUE, dirty[ev.file]} : dirty' = [dirty EXCEPT ![ev.file] = d]
  /\ UNCHANGED <<hw, rows, complete>>

-----------------------------------------------------------------------------
(* Reindex: the reference the incremental index is measured against *)

Raw == UNION {{[file |-> f, line |-> n, copy |-> 1, log |-> text[f].id, ord |-> 0] :
                 n \in 1..LinesIn(hw[f])} : f \in Files}
RelabelAll(R) ==
  {LET group == {g \in Placed(R) : g \in Connected(R, r.file)}
   IN IF r.file \in Placed(R) /\ Cardinality(group) > 1
      THEN [r EXCEPT !.log = LogicalOf(R, Min(group))] ELSE r : r \in R}
NumberAll(R) ==
  {IF r.file \in Placed(R)
   THEN LET session == SameLogical(R, LogicalOf(R, r.file))
        IN [r EXCEPT !.ord = Cardinality({g \in session : g < r.file})]
   ELSE r : r \in R}
DedupeAll(R) ==
  {r \in R : ~(Keyed(r) /\ \E s \in R : Keyed(s) /\ s.log = r.log
                                        /\ KeyOf(s) = KeyOf(r) /\ Preferred(s, r))}
Rebuilt == NumberAll(DedupeAll(NumberAll(RelabelAll(Raw))))

-----------------------------------------------------------------------------
(* Handlers: an append is durable before its event is offered *)

Serving == phase \in {"start", "run"}

\* putBytes; the next file is registered after the one before it.
AppendFile ==
  /\ Serving /\ Cardinality(handlers) < MaxHandlers
  /\ \E f \in Files :
       /\ \A g \in Files : g < f => hw[g] > 0
       /\ \E end \in (hw[f] + 1)..(LineLen * Len(text[f].lines)) :
            /\ hw' = [hw EXCEPT ![f] = end]
            /\ handlers' = handlers \cup {Event(f, end)}
  /\ UNCHANGED <<text, dirty, rows, complete, queue, backlog, phase, faults>>

\* The channel is full: the file is marked dirty instead, if that does not fail.
OfferEvent ==
  \E ev \in handlers :
    /\ handlers' = handlers \ {ev}
    /\ IF Len(queue) < Buffer
       THEN queue' = Append(queue, ev) /\ UNCHANGED dirty
       ELSE /\ \E d \in {TRUE, dirty[ev.file]} : dirty' = [dirty EXCEPT ![ev.file] = d]
            /\ UNCHANGED queue
    /\ UNCHANGED <<text, hw, rows, complete, backlog, phase, faults>>

-----------------------------------------------------------------------------
(* The consumer *)

\* Mutant: only files marked dirty are caught up.
Lagging_DirtyOnly == {f \in Files : dirty[f]}

\* Lagging: files whose complete lines stop short of their mirror, and dirty ones.
Lagging == {f \in Files : hw[f] > LineLen * complete[f] \/ dirty[f]}
LaggingEvents ==
  LET Nth(i) == CHOOSE f \in Lagging : Cardinality({g \in Lagging : g < f}) = i - 1
  IN [i \in 1..Cardinality(Lagging) |-> Event(Nth(i), hw[Nth(i)])]

\* At startup, and on the ticker while no backlog is left.
Sweep ==
  /\ phase \in {"start", "run"} /\ backlog = <<>>
  /\ backlog' = LaggingEvents /\ phase' = "run"
  /\ UNCHANGED <<text, disk, handlers, queue, faults>>

ProcessLive ==
  /\ phase \in {"run", "stop"} /\ queue # <<>>
  /\ Applied(Head(queue)) /\ queue' = Tail(queue)
  /\ UNCHANGED <<text, handlers, backlog, phase, faults>>

\* A backlog event is taken only while no live event is waiting.
ProcessBacklog ==
  /\ phase = "run" /\ queue = <<>> /\ backlog # <<>>
  /\ Applied(Head(backlog)) /\ backlog' = Tail(backlog)
  /\ UNCHANGED <<text, handlers, queue, phase, faults>>

AFault == faults < MaxFaults /\ faults' = faults + 1

ProcessFails ==
  /\ AFault /\ phase \in {"run", "stop"}
  /\ \/ /\ queue # <<>> /\ Failed(Head(queue)) /\ queue' = Tail(queue)
        /\ UNCHANGED backlog
     \/ /\ phase = "run" /\ queue = <<>> /\ backlog # <<>>
        /\ Failed(Head(backlog)) /\ backlog' = Tail(backlog)
        /\ UNCHANGED queue
  /\ UNCHANGED <<text, handlers, phase>>

\* StopAndWait: the consumer drains the channel, not the backlog, and ends.
Stop ==
  /\ AFault /\ Serving
  /\ phase' = "stop" /\ backlog' = <<>>
  /\ UNCHANGED <<text, disk, handlers, queue>>

Drained ==
  /\ phase = "stop" /\ queue = <<>>
  /\ phase' = "down" /\ handlers' = {}
  /\ UNCHANGED <<text, disk, queue, backlog, faults>>

\* The drain takes too long: what is still buffered is marked dirty.
DrainTimeout ==
  /\ phase = "stop" /\ queue # <<>>
  /\ dirty' = [f \in Files |-> dirty[f] \/ \E i \in DOMAIN queue : queue[i].file = f]
  /\ queue' = <<>> /\ handlers' = {} /\ phase' = "down"
  /\ UNCHANGED <<text, hw, rows, complete, backlog, faults>>

Crash ==
  /\ AFault /\ phase # "down"
  /\ handlers' = {} /\ queue' = <<>> /\ backlog' = <<>> /\ phase' = "down"
  /\ UNCHANGED <<text, disk>>

Start ==
  /\ phase = "down" /\ phase' = "start"
  /\ UNCHANGED <<text, disk, handlers, queue, backlog, faults>>

-----------------------------------------------------------------------------

Handler == AppendFile \/ OfferEvent
Consumer == Sweep \/ ProcessLive \/ ProcessBacklog \/ Drained \/ DrainTimeout \/ Start
Fault == ProcessFails \/ Stop \/ Crash

Next == Handler \/ Consumer \/ Fault

Spec == Init /\ [][Next]_vars

\* The consumer goroutine runs, its ticker fires, and a stopped server comes back.
FairSpec == Spec /\ WF_vars(Consumer) /\ WF_vars(OfferEvent)

-----------------------------------------------------------------------------
(* Properties *)

RowType == [file : Nat, line : Nat, copy : Nat, log : Nat, ord : Nat]
EventType == [file : Files, end : Nat]

\* Every variable has its type; the index never runs ahead of the mirror.
TypeOK ==
  /\ hw \in [Files -> Nat] /\ dirty \in [Files -> BOOLEAN]
  /\ complete \in [Files -> Nat] /\ \A f \in Files : complete[f] <= LinesIn(hw[f])
  /\ rows \subseteq RowType
  /\ handlers \subseteq EventType
  /\ queue \in Seq(EventType) /\ Len(queue) <= Buffer /\ backlog \in Seq(EventType)
  /\ phase \in {"start", "run", "stop", "down"}

\* The rows that place a file agree on session and ordinal: an append joins the
\* placement that unification gave the file (inheritFilePlacement).
PlacedOnce ==
  \A r, s \in rows : r.file = s.file /\ ~LineOf(r).bad /\ ~LineOf(s).bad =>
                       r.log = s.log /\ r.ord = s.ord

\* The dedup key holds: a logical session shows a message once, however the files
\* that carry it were appended to, unified and relabelled (dedupeLogical,
\* dedupeAppendedKeys).
OneRowPerMessage ==
  \A r, s \in rows : Keyed(r) /\ Keyed(s) /\ r.log = s.log /\ KeyOf(r) = KeyOf(s) => r = s

\* A line below the complete offset has its own row or, when dedupe took it, a row
\* with the same key in the session its file is placed in.
Represented(f, n) ==
  LET line == text[f].lines[n] IN
  IF line.bad \/ line.key = NoKey
  THEN \E r \in rows : r.file = f /\ r.line = n
  ELSE \E r \in rows : /\ Keyed(r) /\ KeyOf(r) = line.key
                       /\ f \in Placed(rows) => r.log = LogicalOf(rows, f)

\* Dedupe and relabelling never take the last row of a message that was indexed.
NoMessageLost == \A f \in Files : \A n \in 1..complete[f] : Represented(f, n)

\* The rows are consistent: one placement for a file, one row for a message of
\* a session, and no message without a row, in whatever order files are appended
\* to and indexed and whatever fails.  (index.go, unify.go)
RowsSound == TypeOK /\ PlacedOnce /\ OneRowPerMessage /\ NoMessageLost

CaughtUp == /\ handlers = {} /\ queue = <<>> /\ backlog = <<>>
            /\ \A f \in Files : complete[f] = LinesIn(hw[f]) /\ ~dirty[f]

\* Once nothing is pending, the rows of the lines that parse are those `sesh reindex`
\* would build from the mirror, in whatever order the appends were indexed.  Rows of
\* other lines are left out: applyAppend files them under the wire id for good,
\* Reindex under the session of their file.
AgreesWithReindex ==
  CaughtUp => {r \in rows : ~LineOf(r).bad} = {r \in Rebuilt : ~LineOf(r).bad}

=============================================================================
