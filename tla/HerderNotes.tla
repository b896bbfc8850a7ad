----------------------------- MODULE HerderNotes -----------------------------
(***************************************************************************)
(* What the owner writes in one page of the herder web client, from the    *)
(* keystroke until it is sent or thrown away: the composers of an agent    *)
(* (its panel's in the dock, which stays laid out under the lens, and the  *)
(* reply at the foot of the lens's peek), the draft they keep in           *)
(* localStorage, the notes filed for an agent (notesStore.ts), the chip    *)
(* that captures a quote, and the ways text moves between them: queue a    *)
(* composer's text as a note, hand notes to a composer, send.              *)
(*                                                                         *)
(* A text is the set of the words in it; each word is written once.  Every *)
(* localStorage write may be refused (a full or blocked storage), at most  *)
(* MaxFaults times; the page may be closed or crash, MaxReloads times.     *)
(***************************************************************************)
EXTENDS Naturals, FiniteSets

CONSTANTS
    Agents,        \* agents on the board
    Words,         \* what the owner may write
    NoteIDs,       \* ids of notes
    Dock, Peek,    \* the two composers an agent may have
    Nothing,       \* no value
    Free, Tomb,    \* a note id never used, and one deleted
    MaxNotes,      \* maxActiveNotes of the store
    MaxSends, MaxFaults, MaxReloads

Composers == {Dock, Peek}
Text == SUBSET Words
Note == Text \ {{}}

WritingAssumption ==
    /\ Dock # Peek /\ Free # Tomb
    /\ \A text \in Text : text \notin {Free, Tomb, Nothing}
    /\ {MaxNotes, MaxSends, MaxFaults, MaxReloads} \subseteq Nat

VARIABLES
    notes,      \* the page's records of the notes store
    disk,       \* the records in localStorage
    dirty,      \* ids changed since the last flush
    saving,     \* FALSE once a refused write took the store's storage away
    draft,      \* each agent's composer draft in localStorage
    box,        \* the text in each mounted composer, else Nothing
    sends,      \* sends under way
    quick,      \* sends of the capture chip under way
    appended,   \* note ids the hand-off guard saw appended, this page load
    editing,    \* the note open for editing and its text, or Nothing
    sent,       \* words that reached their agent
    gone,       \* words the owner threw away
    written,    \* words ever written
    faults, reloads

stores == <<notes, disk, dirty, saving>>
history == <<sent, gone, written>>
vars == <<stores, draft, box, sends, quick, appended, editing, history, faults, reloads>>

IsNote(record) == record \notin {Free, Tomb}
Live(records) == {id \in NoteIDs : IsNote(records[id])}
WordsOf(records, ids) == UNION {records[id] : id \in ids \cap Live(records)}
Open(a, c) == box[a][c] # Nothing
Idle == Cardinality(sends) + Cardinality(quick) < MaxSends
Sending(a, c) == \E s \in sends : s.agent = a /\ s.from = c /\ s.mounted

TypeOK ==
    /\ notes \in [NoteIDs -> {Free, Tomb} \cup Note]
    /\ disk \in [NoteIDs -> {Free, Tomb} \cup Note]
    /\ dirty \subseteq NoteIDs /\ saving \in BOOLEAN
    /\ draft \in [Agents -> Text]
    /\ box \in [Agents -> [Composers -> {Nothing} \cup Text]]
    /\ sends \subseteq [agent: Agents, from: Composers, words: Text, mounted: BOOLEAN]
    /\ quick \subseteq [agent: Agents, word: Words]
    /\ appended \subseteq NoteIDs
    /\ editing \in {Nothing} \cup [id: NoteIDs, words: Note]
    /\ sent \subseteq Words /\ gone \subseteq Words /\ written \subseteq Words
    /\ faults \in 0 .. MaxFaults /\ reloads \in 0 .. MaxReloads

Init ==
    /\ notes = [id \in NoteIDs |-> Free] /\ disk = notes
    /\ dirty = {} /\ saving = TRUE
    /\ draft = [a \in Agents |-> {}]
    /\ box = [a \in Agents |-> [c \in Composers |-> Nothing]]
    /\ sends = {} /\ quick = {} /\ appended = {} /\ editing = Nothing
    /\ sent = {} /\ gone = {} /\ written = {}
    /\ faults = 0 /\ reloads = 0

-----------------------------------------------------------------------------
(* Storage.                                                                *)

\* A storage write that goes through, and one the browser refuses.
Stored == faults' = faults
Refused == faults < MaxFaults /\ faults' = faults + 1

\* flush over records n with d of them dirty, step of the page's own: all of
\* d is written, or the write of one is refused after those in w, and the
\* store keeps to memory from there on (degrade).
Flush(n, d) ==
    \/ /\ saving /\ Stored
       /\ disk' = [id \in NoteIDs |-> IF id \in d THEN n[id] ELSE disk[id]]
       /\ dirty' = {} /\ UNCHANGED saving
    \/ /\ saving /\ Refused
       /\ \E w \in SUBSET d \ {d} :
             disk' = [id \in NoteIDs |-> IF id \in w THEN n[id] ELSE disk[id]]
       /\ dirty' = {} /\ saving' = FALSE
    \/ ~saving /\ Stored /\ dirty' = d /\ UNCHANGED <<disk, saving>>

\* A composer shows text as a's draft, and its layout effect stores it; a
\* refused write is swallowed.
Keep(a, text) ==
    \/ draft' = [draft EXCEPT ![a] = text] /\ Stored
    \/ text # {} /\ Refused /\ UNCHANGED draft

\* Mutant: the words reach the composers only, and are stored when one renders.
Append_Unstored(a, words) ==
    /\ UNCHANGED draft
    /\ box' = [box EXCEPT ![a] = [c \in Composers |-> IF Open(a, c) THEN draft[a] \cup words ELSE Nothing]]

\* appendComposerDraft: the words join a's stored draft and every mounted
\* composer of a shows the stored text.
Append(a, words) ==
    LET text == draft[a] \cup words
    IN /\ draft' = [draft EXCEPT ![a] = text]
       /\ box' = [box EXCEPT ![a] = [c \in Composers |-> IF Open(a, c) THEN text ELSE Nothing]]

\* refuseCandidate for a note that is added: the store's note limit.
Room == Cardinality(Live(notes)) < MaxNotes

\* Ids are random: a new note's was never used.
Unused == {id \in NoteIDs : notes[id] = Free /\ disk[id] = Free}

\* A text becomes the note id; the notes ids are deleted.
Created(id, text) == [notes EXCEPT ![id] = text]
Deleted(ids) == [id \in NoteIDs |-> IF id \in ids THEN Tomb ELSE notes[id]]

Write(w) == w \notin written /\ written' = written \cup {w}

-----------------------------------------------------------------------------
(* The composers.                                                          *)

\* The peek has one reply at a time: opening another, and the landing of any
\* reply's send, closes the one that is open.  Sends go on unmounted.
NoReply == [a \in Agents |-> [box[a] EXCEPT ![Peek] = Nothing]]
Unmounted(S) == {[s EXCEPT !.mounted = @ /\ s \notin S] : s \in sends}

\* A composer mounts with the stored draft.
Mount(a, c) ==
    /\ ~Open(a, c)
    /\ box' = [(IF c = Peek THEN NoReply ELSE box) EXCEPT ![a][c] = draft[a]]
    /\ sends' = Unmounted({s \in sends : c = Peek /\ s.from = Peek})
    /\ UNCHANGED <<stores, draft, quick, appended, editing, history, faults, reloads>>

\* Its panel closes, or esc or another selection closes the reply.
Unmount(a, c) ==
    /\ Open(a, c)
    /\ box' = [box EXCEPT ![a][c] = Nothing]
    /\ sends' = Unmounted({s \in sends : s.agent = a /\ s.from = c})
    /\ UNCHANGED <<stores, draft, quick, appended, editing, history, faults, reloads>>

Type(a, c, w) ==
    /\ Open(a, c) /\ ~Sending(a, c) /\ Write(w)
    /\ box' = [box EXCEPT ![a][c] = @ \cup {w}]
    /\ Keep(a, box[a][c] \cup {w})
    /\ UNCHANGED <<stores, sends, quick, appended, editing, sent, gone, reloads>>

Erase(a, c) ==
    /\ Open(a, c) /\ ~Sending(a, c) /\ box[a][c] # {}
    /\ box' = [box EXCEPT ![a][c] = {}]
    /\ Keep(a, {})
    /\ gone' = gone \cup box[a][c]
    /\ UNCHANGED <<stores, sends, quick, appended, editing, sent, written, reloads>>

Send(a, c) ==
    /\ Open(a, c) /\ ~Sending(a, c) /\ box[a][c] # {} /\ Idle
    /\ sends' = sends \cup {[agent |-> a, from |-> c, words |-> box[a][c], mounted |-> TRUE]}
    /\ UNCHANGED <<stores, draft, box, quick, appended, editing, history, faults, reloads>>

\* A send lands: its draft is cleared, its composer too while it is mounted,
\* and a reply's landing closes the peek's reply, whosever it is by now.
Lands(s) ==
    /\ s \in sends
    /\ sends' = Unmounted({t \in sends : s.from = Peek /\ t.from = Peek})
                  \ {s, [s EXCEPT !.mounted = FALSE]}
    /\ sent' = sent \cup s.words
    /\ draft' = [draft EXCEPT ![s.agent] = {}]
    /\ box' = IF s.from = Peek THEN NoReply
              ELSE IF s.mounted THEN [box EXCEPT ![s.agent][Dock] = {}] ELSE box
    /\ UNCHANGED <<stores, quick, appended, editing, gone, written, faults, reloads>>

\* A send fails: the text stays where it is.
Fails(s) ==
    /\ s \in sends
    /\ sends' = sends \ {s}
    /\ UNCHANGED <<stores, draft, box, quick, appended, editing, history, faults, reloads>>

\* queueComposerNote: the text is added as a note and flushed, and a note that
\* did not reach storage is taken back.
Queued(id, text) ==
    /\ Flush(Created(id, text), dirty \cup {id})
    /\ notes' = IF saving' THEN Created(id, text) ELSE [notes EXCEPT ![id] = Tomb]

\* Mutant: the composer is cleared without looking at what the flush did.
Queue_Unproven(a, c) ==
    /\ Open(a, c) /\ ~Sending(a, c) /\ box[a][c] # {}
    /\ saving /\ Room
    /\ \E id \in Unused : Queued(id, box[a][c])
    /\ draft' = [draft EXCEPT ![a] = {}] /\ box' = [box EXCEPT ![a][c] = {}]
    /\ UNCHANGED <<sends, quick, appended, editing, history, reloads>>

\* Option-enter: only a note that reached storage clears the composer.
Queue(a, c) ==
    /\ Open(a, c) /\ ~Sending(a, c) /\ box[a][c] # {}
    /\ saving /\ Room
    /\ \E id \in Unused : Queued(id, box[a][c])
    /\ IF saving'
       THEN draft' = [draft EXCEPT ![a] = {}] /\ box' = [box EXCEPT ![a][c] = {}]
       ELSE UNCHANGED <<draft, box>>
    /\ UNCHANGED <<sends, quick, appended, editing, history, reloads>>

-----------------------------------------------------------------------------
(* Notes.                                                                  *)

\* A note from a group's quick add or from the capture chip.
Add(w) ==
    /\ Write(w) /\ Room
    /\ \E id \in Unused :
         /\ notes' = Created(id, {w})
         /\ dirty' = dirty \cup {id}
    /\ UNCHANGED <<disk, saving, draft, box, sends, quick, appended, editing, sent, gone, faults, reloads>>

\* The store's debounced flush.
FlushTimer ==
    /\ saving /\ dirty # {} /\ Flush(notes, dirty)
    /\ UNCHANGED <<notes, draft, box, sends, quick, appended, editing, history, reloads>>

\* The chip's quick send closes the chip at once.
QuickSend(w, a) ==
    /\ Write(w) /\ Idle
    /\ quick' = quick \cup {[agent |-> a, word |-> w]}
    /\ UNCHANGED <<stores, draft, box, sends, appended, editing, sent, gone, faults, reloads>>

QuickLands(q) ==
    /\ q \in quick
    /\ quick' = quick \ {q}
    /\ sent' = sent \cup {q.word}
    /\ UNCHANGED <<stores, draft, box, sends, appended, editing, gone, written, faults, reloads>>

\* It fails: the text is added to the agent's prompt instead, if storage
\* takes it.
QuickFails(q) ==
    /\ q \in quick
    /\ quick' = quick \ {q}
    /\ \/ Append(q.agent, {q.word}) /\ Stored
       \/ Refused /\ UNCHANGED <<draft, box>>
    /\ UNCHANGED <<stores, sends, appended, editing, history, reloads>>

\* A capture for an agent that cannot be sent to goes to its prompt; a
\* refusal leaves the chip open.
AddToPrompt(w, a) ==
    /\ Write(w) /\ Append(a, {w}) /\ Stored
    /\ UNCHANGED <<stores, sends, quick, appended, editing, sent, gone, reloads>>

\* The guard of the hand-off: the notes it has not seen appended.
Pending(ids) == ids \ appended

\* handOffSelectedNotes over the notes ids: those the guard has not seen are
\* appended, all are deleted, and the deletion is flushed.  A refused append
\* changes nothing.
HandOff(ids, a) ==
    /\ ids # {} /\ ids \subseteq Live(notes)
    /\ IF Pending(ids) = {} THEN UNCHANGED <<draft, box>> ELSE Append(a, WordsOf(notes, Pending(ids)))
    /\ appended' = appended \cup ids
    /\ notes' = Deleted(ids)
    /\ Flush(Deleted(ids), dirty \cup ids)
    /\ UNCHANGED <<sends, quick, editing, history, reloads>>

\* The list's delete.
Delete(id) ==
    /\ id \in Live(notes)
    /\ notes' = Deleted({id})
    /\ dirty' = dirty \cup {id}
    /\ gone' = gone \cup notes[id]
    /\ UNCHANGED <<disk, saving, draft, box, sends, quick, appended, editing, sent, written, faults, reloads>>

\* Assigned to another group, from the selector or by a drop; which group a
\* note is in is left out.
Move(id) ==
    /\ id \in Live(notes)
    /\ dirty' = dirty \cup {id}
    /\ UNCHANGED <<notes, disk, saving, draft, box, sends, quick, appended, editing, history, faults, reloads>>

BeginEdit(id) ==
    /\ editing = Nothing /\ id \in Live(notes)
    /\ editing' = [id |-> id, words |-> notes[id]]
    /\ UNCHANGED <<stores, draft, box, sends, quick, appended, history, faults, reloads>>

TypeEdit(w) ==
    /\ editing # Nothing /\ Write(w)
    /\ editing' = [editing EXCEPT !.words = @ \cup {w}]
    /\ UNCHANGED <<stores, draft, box, sends, quick, appended, sent, gone, faults, reloads>>

CancelEdit ==
    /\ editing # Nothing
    /\ gone' = gone \cup (editing.words \ WordsOf(notes, {editing.id}))
    /\ editing' = Nothing
    /\ UNCHANGED <<stores, draft, box, sends, quick, appended, sent, written, faults, reloads>>

\* Mutant: an edit whose note was deleted meanwhile is refused as if the
\* editor had kept no copy.
SaveEdit_NoFallback ==
    /\ editing # Nothing
    /\ IF editing.id \in Live(notes)
       THEN notes' = [notes EXCEPT ![editing.id] = editing.words] /\ dirty' = dirty \cup {editing.id}
       ELSE UNCHANGED <<notes, dirty>>
    /\ gone' = gone \cup (WordsOf(notes, {editing.id}) \ editing.words)
    /\ editing' = Nothing
    /\ UNCHANGED <<disk, saving, draft, box, sends, quick, appended, sent, written, faults, reloads>>

\* store.edit on blur: the note as it is now takes the text, and one deleted
\* meanwhile comes back from the copy the edit began with.
SaveEdit ==
    /\ editing # Nothing
    /\ notes' = [notes EXCEPT ![editing.id] = editing.words]
    /\ dirty' = dirty \cup {editing.id}
    /\ gone' = gone \cup (WordsOf(notes, {editing.id}) \ editing.words)
    /\ editing' = Nothing
    /\ UNCHANGED <<disk, saving, draft, box, sends, quick, appended, sent, written, faults, reloads>>

\* Another tab of this browser saves its edit of a note this page may have
\* deleted meanwhile; it is newer, and the storage event brings it here.
EditedElsewhere(id, w) ==
    /\ IsNote(disk[id]) \/ (disk[id] = Tomb /\ reloads = 0)
    /\ Write(w)
    /\ notes' = [notes EXCEPT ![id] = {w}]
    /\ disk' = [disk EXCEPT ![id] = {w}]
    /\ dirty' = dirty \ {id}
    /\ gone' = gone \cup WordsOf(notes, {id}) \cup WordsOf(disk, {id})
    /\ UNCHANGED <<saving, draft, box, sends, quick, appended, editing, sent, faults, reloads>>

\* The page goes: closed, with the store's pagehide flush, or crashed.  What
\* localStorage holds is what the next load finds.
Reload ==
    /\ reloads < MaxReloads /\ reloads' = reloads + 1
    /\ \E closed \in BOOLEAN :
         disk' = [id \in NoteIDs |-> IF closed /\ saving /\ id \in dirty THEN notes[id] ELSE disk[id]]
    /\ notes' = disk'
    /\ dirty' = {} /\ saving' = TRUE
    /\ box' = [a \in Agents |-> [c \in Composers |-> Nothing]]
    /\ sends' = {} /\ quick' = {} /\ appended' = {} /\ editing' = Nothing
    /\ UNCHANGED <<draft, history, faults>>

Next ==
    \/ \E a \in Agents, c \in Composers :
          \/ Mount(a, c) \/ Unmount(a, c) \/ Erase(a, c) \/ Send(a, c) \/ Queue(a, c)
          \/ \E w \in Words : Type(a, c, w)
    \/ \E s \in sends : Lands(s) \/ Fails(s)
    \/ \E q \in quick : QuickLands(q) \/ QuickFails(q)
    \/ \E w \in Words, a \in Agents : QuickSend(w, a) \/ AddToPrompt(w, a)
    \/ \E w \in Words : Add(w) \/ TypeEdit(w) \/ \E id \in NoteIDs : EditedElsewhere(id, w)
    \/ \E ids \in SUBSET NoteIDs, a \in Agents : HandOff(ids, a)
    \/ \E id \in NoteIDs : Delete(id) \/ Move(id) \/ BeginEdit(id)
    \/ CancelEdit \/ SaveEdit \/ FlushTimer \/ Reload

Spec == Init /\ [][Next]_vars

-----------------------------------------------------------------------------
(* Properties.                                                             *)

\* The words still somewhere: in a live note, a draft, a composer, the note
\* being edited, on their way, or sent.
Held ==
    WordsOf(notes, NoteIDs) \cup UNION {draft[a] : a \in Agents}
      \cup UNION {box[a][c] : <<a, c>> \in {p \in Agents \X Composers : Open(p[1], p[2])}}
      \cup (IF editing = Nothing THEN {} ELSE editing.words)
      \cup UNION {s.words : s \in sends} \cup {q.word : q \in quick} \cup sent

\* The words a crash right now would leave: in localStorage, or sent.
Durable == WordsOf(disk, NoteIDs) \cup UNION {draft[a] : a \in Agents} \cup sent

\* The ways the code does lose words in this step.  A send that lands clears
\* what joined the draft after it began, and one that fails with its composer
\* gone leaves only what the draft has:
Overrun == UNION {draft[s.agent] \ s.words : s \in sends \ sends'}
Unsaved == UNION {s.words \ draft[s.agent] : s \in sends \ sends'}
\* a composer and the stored draft that have come apart (an agent's two
\* composers, or a draft write that was refused) replace one another;
Apart(a) == \E c \in Composers : Open(a, c) /\ box[a][c] # draft[a]
Crossed == UNION {draft[a] \cup UNION {box[a][c] : c \in {d \in Composers : Open(a, d)}} :
                    a \in {b \in Agents : Apart(b)}}
\* and a hand-off deletes, unappended, a note that came back under an id the
\* guard has seen.
Guarded == WordsOf(notes, {id \in appended : notes'[id] = Tomb})

\* Text leaves the page only when the owner throws it away: a step that is
\* not a reload, nor one of those above, nor the chip's refused fallback,
\* leaves every word held, through queueing, handing off, editing, refused
\* writes and failed sends (noteQueue.ts, noteHandOff.ts, Composer.tsx).
WritingKept ==
    [][ reloads' = reloads =>
          Held \ Held' \subseteq gone' \cup Overrun \cup Unsaved \cup Crossed \cup Guarded
            \cup (IF faults' # faults THEN {q.word : q \in quick \ quick'} ELSE {}) ]_vars

\* Once a word is in localStorage no crash can take it: it leaves storage
\* only for storage, by being sent, or thrown away (queueComposerNote proves
\* the note before the draft clears; handOffSelectedNotes appends first).
DurableKept ==
    [][ Durable \ Durable' \subseteq gone' \cup Overrun \cup Crossed \cup Guarded ]_vars

=============================================================================
