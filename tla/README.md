# TLA+ models of ai-config: the session pipeline and the herder web client

`ai-config` is a collection of tools for running coding agents. Two of them keep
promises that tests hardly reach.

**sesh** (`tools/sesh`): every machine runs a *shipper* that tails agent session files
and sends their bytes to a central *store*; the store mirrors them durably and feeds a
*message index* that read-only pages are served from. The files are rewritten, truncated
and replaced by agents while they are being shipped, the network loses and delays
requests, both processes crash, and the index unifies and deduplicates overlapping files
incrementally.

**herder** (`tools/herder/web` and the server under it): a browser client that shows a
fleet of agents in docks, spaces, a lens and a sidebar. Its state lives in the memory of
several pages, in the localStorage they share, and on a server that other browsers write
to; answers come late, storage refuses, pages go away, and nothing is locked.

This directory models both, model-checks them with TLC and proves their main guarantees
with TLAPS.

## Files

| Module | Models | Run |
|---|---|---|
| `SeshStore`, `SeshStoreProofs` | the ingest store, one file identity | `store_requests` |
| `SeshShip`, `SeshShipProofs` | the shipper, the network and the source file, composed with `SeshStore` | `ship`, `ship_claim` |
| `SeshIndex`, `SeshIndexProofs` | the message index and its consumer, several files of one tool | `index`, `index_bridge` |
| `HerderSync`, `HerderSyncProofs` | synchronisation of the last-write-wins stores with the server | `sync`, `sync_rollback` |
| `HerderStream` | the event stream, transcript refreshes, sends, file watches | `live` |
| `HerderTerm`, `HerderTermProofs` | the terminal and its one herdr client | `live` |
| `HerderSpaces` | dock layouts of spaces in pages and in storage | `docks` |
| `HerderHome`, `HerderHomeProofs` | views, docks and the browser's history | `docks` |
| `HerderMembers`, `HerderMembersProofs` | the members of a space, published and reconciled | `arrival` |
| `HerderCards` | the lens's cards and the reads that fill them | `arrival` |
| `HerderAttention`, `HerderAttentionProofs` | read markers, dwell, mark unread | `reading` |
| `HerderLens` | the lens: selection, zoom, the walk to what needs the owner | `reading` |
| `HerderPalette` | the quick-open palette and the double-clicked path | `reading` |
| `HerderNotes` | composers, drafts, notes, hand-offs and sends | `writing` |
| `HerderSidebar` | the fleet's trees, folding, assigning, naming | `writing` |

`MC….tla` and the `.cfg` of the same name are the instances TLC checks;
`…Proofs.tla` hold the theorems TLAPS checks; `PROJECT.json` lists components, runs,
mutants, the source map, findings, hazards and theorems.
`tlc -workers 2 -config MCSeshStore.cfg MCSeshStore` runs one configuration,
`tlapm SeshStoreProofs.tla` checks the proofs of one module.

## Inventory: sesh

### Ingest store — `internal/store` (`SeshStore`)

*State.* Table `files` (one row per generation of an identity `(tool, session_id,
file_uuid)`: fingerprint, high-water, `poisoned`, `conflict_pending`,
`conflict_driven`, `dirty_for_reindex`), the mirror file of each generation,
`drop_log`, the channel of append events.
*Operations.* `putBytes` (select a generation, route, compare the overlap, append,
record), `recovery`, `DropFile`, `MarkDirtyForReindex`.
*Hard.* An operation holds `Store.mu`, so operations do not interleave, but it is a
series of separately durable effects: a crash, a storage error or a request context
cancelled by the client may stop it between any two. Requests may be repeated or late.
*Correct when* a 200 means durable bytes at their own offset; acknowledged bytes never
change; the fingerprint requests are routed by is the mirror's own; a poisoned
generation is frozen; a drop leaves its audit row.

### Shipper — `internal/ship` (`SeshShip`)

*State.* Registry of cursors (offset, fingerprint, poisoned) in memory and on disk,
`NeedsRecovery`, the set of held files, the pass in progress.
*Operations.* `RunOnce` (recover, garbage-collect, ship every file, save), `shipFile`
(stat, fingerprint, read, PUT, react to each answer), `recoverCursor`.
*Interaction.* HTTP PUTs and recovery GETs to the store; the source file is shared with
the agent that writes it.
*Hard.* The file changes between stat, fingerprint and read; a request may be applied
although its reply was lost; cursors are saved only at the end of a pass; several
rules send the shipper back to an earlier offset.
*Correct when* the cursor never runs ahead of the ACKs; a file considered shipped is in
the mirror; nothing loops for ever.

The watch loop and the hint admission timer (`watch.go`, `admission.go`) appear only as
the fairness of passes. Owner correlation (`correlate_linux.go`, `facts.go`) reads
`/proc`; only the registry save it causes is modelled.

### Index and consumer — `internal/index`, `internal/storecli` (`SeshIndex`)

*State.* Tables `sesh_index_messages`, `index_file_state`, `quarantine_ledger`; the
consumer's backlog and the store's event channel.
*Operations.* `ProcessAppend` (parse complete lines, inherit a placement, insert, unify
sessions, dedupe, renumber), `Lagging`, the consumer's sweep, live events, stop and
drain, `Reindex`.
*Hard.* Events are dropped when the channel is full, lost in a crash, and processed in an
order different from the appends; dedupe deletes rows that later decisions look at.
*Correct when* the incremental table is what `Reindex` would build; a session shows
each message once; no message is lost; every complete line is indexed in the end.

## Inventory: the herder web client

JavaScript runs one callback at a time, so a callback is atomic; between two of them
anything else may happen: timers, storage events of another page, answers to requests,
events of the stream, the owner.

| Component (under `web/src`) | State | Operations | Hard | Correct when |
|---|---|---|---|---|
| state sync: `shared/stateSync.ts`, the stores; server `internal/webstate` | rows, dirty sets, queue and cursor; the namespace file | edit, flush, pull, post, merge, sweep | lost answers, refusals, oversized rows, rollbacks, tombstones that expire, pages that die | no edit is left out, nothing purged returns, a page shows no older row, edits arrive |
| event stream: `stream/`, `sendRefresh.ts`, `api/queries.ts`; server `servecmd/serve.go` | connection, subscriptions, query cache, pending refreshes | hello, follow, refresh bursts, sends that take a refresh over, file watches | reconnects, updates refused, events before a subscription | a page at rest follows and shows what it wants; a wake-up is answered |
| terminal: `features/herdr`; server `servecmd/herdrterm.go` | socket, surface, fit, focus | attach, detach, grace, retry, resize, follow | timers against closing sockets, exits, flips of the view | one client a browser, an ended one waits for the owner, the screen is right at rest |
| docks and spaces: `features/spaces`, `features/layout` | layout per space in memory, stored, backed up, in recovery | write, switch, close, reopen, send a panel, migrate | refused writes, other pages' writes, damaged texts, crashes | no panel and no unreadable text is lost |
| navigation: `features/workspace`, `features/layout/historyModel.ts` | view, docks, history entries | open, zoom, switch, close, back, forward, link | replays that themselves change panels, spaces closed elsewhere | the address tells what is shown; a move can be undone |
| members: `features/spaces/spaceMembers*.ts`, `features/workspace/useSpaceMembers.ts` | published rows, baseline, applied version | publish, apply, reconcile, lane move | concurrent edits, held-back rows, refused layouts | a row closes nothing its user did not close; no write loop; rows arrive |
| cards: `features/lens/cardTextModel.ts`, `useCardText.ts` | reads in flight, kept texts | turn ends, card shown, read lands | reads that are overtaken, a cap | one ask a turn; the card catches up |
| attention: `features/spaces/readMarker*.ts`, `viewingModel.ts`, `features/workspace/useSpaceAttention.ts` | markers, dwell, armed unread marks | look, leave, mark, merge | older reads from other browsers, reloads | markers converge; a read is not taken back |
| notes and composers: `features/notes`, `features/composer`, `composerState.ts` | composers, drafts, notes, sends | type, queue, hand off, send, edit | refused storage, reloads, two composers of one agent, late failures | no word is lost but in four named ways |
| sidebar: `features/sidebar` | trees, folds, drags, editors | fold, assign, lane, rename | boards that are old when a drop lands, circles of managers | every agent drawn once; folds kept |
| palette: `features/files` | query, highlight, look-ups | type, move, choose, double-click | late answers | an answer is used by its own question |
| lens: `features/lens` | rows, selection, visible agent | step, zoom, go to next | spaces and agents that come and go | nobody who needs the owner is passed for ever |

### Not modelled

| Part | Why |
|---|---|
| sesh surface (`internal/surface`) | read-only queries and rendering |
| sesh self-update (`internal/update`, `store/distribution.go`) | a small model of download, replace, verify, roll back is possible; left out so far |
| sesh owner correlation, setup, CLI, listeners | `/proc`, wiring, unit files, sockets |
| herder agent event store (`agentstore`) | locked append-only log and its projection; left out so far |
| herder server's other handlers, observer, fleet view, session readers, file/git/GitHub adapters | adapters over the state of external programs (hcom, herdr, tmux, git) |
| rendering of transcripts, diffs, settings | draws what the query cache holds, no protocol of its own |
| mish, fleet and shell tooling | single-process file formatting and shell scripts |

## SeshStore

One identity; the generation number `n` of the code is index `n + 1` here.

| Model | Code |
|---|---|
| `files`, `mirror`, `dropLog` | table `files`, the `generation-n.jsonl` files, table `drop_log` |
| `op` | the operation that holds `Store.mu`: its stage, request, target, reply |
| `BeginPut` and `Select…` | `selectGeneration` with its five outcomes |
| `RejectPoisoned`, `RejectGap`, `Routable`, `Diverges` | the early returns of `putBytes`, `compareMirror` |
| `FirstDivergence`, `PoisonFingerprint`, `ClearPending`, `OpenGeneration` | `handleDivergence`; its last case is two statements and so two actions |
| `WriteMirror`, `UpdateFingerprint`, `RecordSuccess`, `RecordFacts` | `appendAtHighWater` and `recordSuccess`, one action per durable effect |
| `FailWriteMirror`, `FailStatement`, `Crash` | short writes, failed statements, a dying process |
| `DropAudit`, `DropRows`, `DropMirrors` | `DropFile` |

Abstractions: a SHA-256 fingerprint is the window's bytes themselves (the hash is taken
to be injective); the empty sequence is the NULL fingerprint; metadata columns are left
out. The next-state relation lets any client send any request, so every network is
included. `DropFile` runs while `sesh serve` is stopped, as its documentation requires;
the model interleaves it with requests at operation granularity, which allows more.

## SeshShip

The store's variables are those of `SeshStore`, driven through `INSTANCE`; the request
in flight is `live`, one request that the shipper gave up on and that may still arrive is
`orphan`. A pass is `StartPass`, recovery (`RecoverSkip`, `RecoverCursor`,
`RecoverHold`, `RecoverRefused`), `GCCursor`, then for the file `BeginFile`, `StatFile`,
`FingerprintFile`, `ReadAndPut` and one `Hear…` action per answer, and `EndPass`. The
owner may edit the file between any two of these. `SaveOwner` is the save caused by an
owner observation; it may fail. `RecoverCursor` is `recoverCursor` as one action: its CASE
holds both of its answers, the 404 (`tail.go:303`, a cursor at 0) and the generations
(`tail.go:324-353`, the high-water of the last one that has the file's fingerprint, or the
active one from 0). `ShipCrash` reloads the registry from disk, and with
`RegistryLoss` the file may be gone.

Abstractions: one file per shipper (files do not interact except through the batch
save); a source holds a prefix of one of `Lines`; at most one orphan at a time.

## SeshIndex

| Model | Code |
|---|---|
| `text`, `hw`, `dirty` | the bytes of each file, `files.high_water`, `files.dirty_for_reindex` |
| `rows`, `complete` | `sesh_index_messages`, `index_file_state.complete_offset` |
| `handlers`, `queue`, `backlog`, `phase` | handlers between the ACK and the event, the channel, the rest of a sweep, the consumer |
| `Applied` | `applyAppend`: `Vanished`, `From`, `UpTo`, `NewLines` decide what is parsed, `NewRow` is `inheritFilePlacement`, `Unify` is `unifyConnectedLogicalSessions` with its fast path and its component path |
| `Relabel`, `Number`, `Dedupe`, `Compact` | the maintenance statements |
| `Rebuilt` | what `Reindex` leaves: the reference |
| `AppendFile`, `OfferEvent` | `handlePUTBytes`: durable append, then event or dirty mark |
| `Sweep`, `ProcessLive`, `ProcessBacklog`, `ProcessFails`, `Stop`, `Drained`, `DrainTimeout`, `Crash`, `Start` | the consumer goroutine |

Abstractions: files are generation 0 and numbered in `created_at` order; the parsed
content id of a file is its wire session id and is the same on all its lines; a key
stands for `(entry_type, message_uuid)`, 0 for an empty uuid; a missing timestamp is a
large one, as SQL orders it last; a line that does not parse is a quarantine row, and
since the ledger repeats quarantine rows it is no variable of its own; offsets count in
units of which a line has `LineLen`. An event never ends above its mirror, which
`SeshStore!HighWaterBacked` guarantees. A transaction under `Store.mu` is one step.

## The herder modules

A page is a record; a callback is a function from that record (and the storage it
shares) to the next, in the order of the calls in the code, so that the callbacks that
call others are compositions of the functions of the others. React's effects run in the
step that changed what they depend on, as React flushes them before the next event.
History variables (named in each module) record what the properties have to remember and
no guard reads them.

### HerderSync

| Model | Code |
|---|---|
| `tab[t]` | a page: rows in memory (`mem`), `dirty`, `adopted`, its sync client with `pull`, `send`, `timer`, `blocked` |
| `disk` | localStorage of the profile: rows, queue, cursor |
| `server`, `age`, `purged` | the namespace file, how far tombstones have expired, what a sweep took |
| `Add`, `Change`, `Delete`, `Reopen`, `AddRolledBack` | edits through the stores, the last one undone in the same turn |
| `Flush`, `Hear`, `Degrade` | the debounced write, a storage event, a refused write |
| `ServePull`, `HearPull`, `LosePull`, `ServePost`, `HearPost`, `LosePost` | the two requests, each served and answered in steps of their own |
| `RetryNow`, `Online`, `HearNotice`, `LoseNotice` | `RetryLater`, the `online` event, the stream's announcement |
| `PeerWrite`, `Age`, `Sweep`, `Crash`, `Open` | other devices, time, the hourly sweep, pages that go and come |

A flush is one step across pages. Damaged records and their backups are not here
(`HerderSpaces` has them for layouts). The requests of a vanished page are served before
it goes or never. Write ids are never reused, and clock skew is less than the thirty
days of retention. Of waiters for a pull, two stand for more.

### HerderStream

`page` is the page's end (connection, wanted targets, pending updates), `srv` and `wire`
the server's loop and what it has sent on the live connection, `cache` the query cache,
`send` the sends that hold a refresh back, `watch` the file-watch registry. A transcript
is a session and a length; a refresh reads both. `spent < Acts` bounds everything the
environment does. `Still` is "no step of `Progress` is enabled": what the properties say
of a page at rest, they say there.

### HerderTerm

`page` holds the view, its terminal and its socket, `up` and `down` the frames and notices
of the current socket, `pty` what the herdr client shows. A socket that is replaced takes its frames
with it. `OpenSocket`, `CloseSocket`, `Attach`, `Detach`, `Resize`, `Follow`, `AfterClose`
are the functions of the same names; `Become` takes a callback's result and puts the frames it sent on
the wire. `Resize` is the terminal's `fit` and the socket's `resize` together: a new grid is
sent, and asks for a frame. `MaxSockets` and `Moves` bound the sockets opened and what the owner and the
network do.

### HerderSpaces

`disk` has for each space the layout, its backup and its recovery record; `tab[t]` a page
with its dock, its dirty flag and the state of its recovery; `space` whether a space is
live. A stored text is what parsing gives: nothing, good, partly readable, or garbage.
Storage refuses a write, a page crashes, and a text is damaged at most `Faults` times
together. With `Prompt`, timers, storage events and the fallback effect run before the
next click in another page; without it the code does lose panels (two pages close and
change one space within a timer's reach). A crash loses what was opened since the last
write; damage leaves a panel in a text.

What the model shows of the code and no property forbids: a page with unsaved panels of a
space that is closed elsewhere writes them under the primary key, and a reopen overwrites
them; `restoreSpaceDock` entering the active space again restores the backup; a layout
that parses but `fromJSON` rejects is not put into recovery; `sendPanelToNewSpace` ignores
the result of `flush()`; closing a space replaces its corrupt recovery record; a space
reopened in another page has an empty dock.

### HerderHome

`nav` is the browser's history, `view`, `active`, `docks` what the page shows, `quiet` the
suppression of pushes until the next frame. `Update` is `updateHistory`; `Switched`,
`Zoomed`, `Applied` are the ways an entry is pushed, replaced or replayed. A click within
the frame of a suppressed change replaces the entry; zooming into the zoomed space
replaces it too; a link to an unknown space opens in the fallback space until the space is
listed; entries of closed spaces replay nothing; a reload in a zoom overwrites the entry.

### HerderMembers

`srow` is the server's row of each space, `store[b]` what browser `b` keeps: dock, row,
baseline, applied version, queued flag. `Reconciled` is `reconcileSpaceMembers` for one
space, `Reconcile` the 250 ms timer over all of them, `RowsMoved` and `LayoutMoved` the lane move.
A page's dock is mounted some time after its timers run: until `DockReady` the layout of the
space it shows reads as null (`Blank`), and `Reconcile` passes that space over (`Unread`).
`Shows` are the spaces a page may show; a stored text that cannot be read, which reads as null
too, is left out. The sync under it is `HerderSync`'s: a post or pull takes one step. No timer retries a row held back,
and the loser of two concurrent additions does not reach the winner until another change.

### HerderCards, HerderLens, HerderPalette

`HerderCards`: `turn` and `answer` of each agent, `reads` in flight, waiting, kept and
failed; `Pump` starts the reads that are due below the cap, `Land` takes an answer. A
failed turn stays failed though the agent leaves and returns; an evicted cache may show
the older text until the agent is read again.

`HerderLens`: `Order`, `StepCard`, `StepLine`, `SpaceStep`, `NextVisible`, `EntryAgent`,
`NextNeeding` are the pure functions of `lensModel.ts`, the actions the keys. Agents in no
space can be passed for ever, and the property speaks of spaces only.

`HerderPalette`: `ActionRows`, `ReassignRows`, `Selection`, `TopMatch` are the model of
the rows; how a name matches a text is the constant `Rank`. A repeated look-up may move
the highlight, and a moved row that leaves the list falls to the top match; typing does not
disown an assignment in flight. Pull requests' rows and focus are left out.

### HerderAttention

One agent; each browser's page with its marker row, its sync, and what it shows.
`MergeMarkerRow` is `mergeMarkerRow`, `ReadThrough` the dwell's result, `Seeded` the marker
nobody made, `NextArmed` the held mark. Effects run to quiescence after each event. Not
modelled: pruning, "viewed" blocks, positions in the middle of a turn, a transcript that
fails to load. A mark that an older read of another browser clears leaves its turn unread
until the next trigger.

### HerderNotes

`box` is the text of each mounted composer, `draft` the stored draft of each agent, `notes`,
`disk`, `dirty`, `saving` the notes store, `sends` and `quick` what is under way. A text is
the set of its words, each written once. `WritingKept` and `DurableKept` name the four ways
the code does lose words: `Overrun` (a send that succeeds clears a draft typed since in
the other composer), `Unsaved` (a draft storage refused, sent and failed), `Crossed` (two
composers of one agent with different texts), `Guarded` (a hand-off that was appended before). A
reply that lands closes whichever reply is open. Requests in flight at a reload count as
not sent.

### HerderSidebar

`fleet` is the server's board, `board` the one the page shows. `SupervisionTree`,
`PlacementTree` and `LaneTree` are the trees, `Reconciled` the folding, `ReparentRefused`
and `Candidates` what is offered. `EnterOnBoard` is one commit that both draws a new board and
enters a lane: its two effects start from the same `expandedItems`, and the second writes over what
the first opened. `Chart` and a call's `on` are history: the managers on the board a change
was planned on. What the owner does is taken one habit at a time:
folding, assigning, naming; they touch different state. Leads, pull requests, titles and
terminals are left out. The module grows its trees with `RECURSIVE` operators and stays
with TLC.

## Runs

A run is one question and often several *parts*: instances of one module under different
constants, or modules that share no state. Each behavior runs one part, chosen initially,
while the variables of the others rest; a run so checks its parts side by side. In
`sync` the safety properties are the module's own, read over one key and one page (`k1`,
`t1`) that every part has, so that the theorems about them speak of the same definitions.

| Run | Parts and bounds | Checks | States |
|---|---|---|---|
| `store_requests` | 2 byte values, window 2, body 1, file ≤ 3, 2 generations, one drop | `RowsBacked`, `DurableAck`, `OpenedForDivergence`, `MirrorAppendOnly`, `PoisonFrozen`, `DropAudited` | 1.9 M |
| `ship` | *append*: one history grown, cut and deleted, 2 edits, 2 faults, store limit below the shipper's; *recreate*: any new file, 1 fault; *replace*: new fingerprints, 4 edits | `TypeOK`, `CursorIsAcked`, `PoisonHasCause`, `ShippedIsMirrored`, refinement `StoreSteps`, liveness `FileArrives` | 0.4 M |
| `index` | *orders*: 36 pairs of files; *faults*: 6 pairs and one fault; *chains*: 4 triples; *heals*: a line of 2 units and a fault | `PairsAgree`, `RowsSound`, liveness `LinesArrive` | 0.5 M |
| `sync` | *keys*: two keys, one may outgrow the server's limit, another device, 1 fault; *tabs*: two pages and one key; *days*: two stamps, sweeps and rollbacks | `NothingSkipped`, `NoResurrection`, `NoStepBack`, liveness `EditsArrive` | 0.5 M |
| `live` | *stream* and *files*: one agent, one file, 3 acts; *terminal*: 3 sockets, 4 moves | `StillCurrent`, `WakeAnswered`, `OneClient`, `AtRest`, `EndedWaits` | 1.9 M |
| `docks` | *home*: 2 spaces, 2 agents, 3 entries; *spaces*: 2 spaces, 2 panels, 2 pages, 3 edits and faults | `NothingLost`, `AddressTrue`, `HistorySteps` | 0.2 M |
| `arrival` | *members*: 2 browsers, 2 members, the lane move, a dock that is mounted late, 2 acts; *cards*: 2 agents, 2 turns, a cap of one | `NoWriteLoop`, `MembersSteps`, `OncePerTurn`, liveness `AllArrives` | 0.4 M |
| `reading` | *attention*: 2 browsers, 2 turns over 2 sessions, one act of the owner or fault; *lens*: 3 spaces, 3 agents; *palette*: 2 texts, 2–4 deeds | `Converged`, `NoneStarved`, `ReadNeverRewound`, `MarkHeld`, `PaletteStands` | 0.3 M |
| `writing` | *notes*: one agent, one note, 2 words, one send, a fault or a reload; *sidebar*: 3 agents, 2 workspaces, one lane, two changes while the page folds or assigns | `FoldsKept`, `WordsKept`, `ForestKept`, `CirclesNeedOldBoards` | 0.3 M |
| `ship_claim`, `index_bridge`, `sync_rollback` | see Findings | one violated property each | — |

Why the bounds are enough to be interesting. A window of two bytes and files up to three
have files below, at and above the window; two generations are what one conflict needs
(original and conflict-driven), and the shipper's parts use four so that replacements and
conflicts combine; two faults let one failure hit the recovery from another. Pairs of files cover same id, overlap in either
ingest order, a later copy that dedupe prefers, a file whose placing rows all vanish, and
lines that take no part in dedupe; triples add transitive unification; a channel of one is
full after one event. On the client, the hazards need two writers of one thing (two pages,
two browsers, a page and a device), one thing in flight that is overtaken, and one fault at
the worst moment; every part has these and a bound of two or three acts beyond them. Three sockets
are one live, one closing behind it and a retry.

*Fairness.* `SeshShip!FairSpec`: the rescan ticker starts passes for ever and a pass goes
on while its calls return; the store serves what it received; a broken connection is
noticed (the client's idle-progress timeout). Edits, faults and late deliveries have no
fairness and are bounded. `SeshIndex!FairSpec`: the consumer goroutine's `select` runs and
its ticker fires, a handler that has appended goes on to its event, a stopped server is
started again; `WF_vars(Consumer)` covers the consumer's steps together, none of its
branches alone. `HerderSync!FairSpec`: the flush timer fires, a request that was sent is
answered or fails, a retry timer fires, an announcement arrives or is lost, and the owner opens the client again;
nothing makes a request succeed, but faults are bounded. `HerderMembers` and
`HerderCards`: timers fire, requests are answered, pages are loaded again. The parts of a
run whose liveness is not checked have no fairness. Everything else the herder runs say of
"in the end" is an invariant of states at rest, which needs no fairness.

*Symmetry* is used where the values are interchangeable and no liveness property is
checked: bytes in `store_requests`, agents, panels and pages in `docks`, words in
`writing`. In `arrival` the two browsers are interchangeable and the first act is given to
the first one.

*Deadlock* is checked in the sesh runs: an idle store accepts a request, an idle shipper
starts a pass, a sweep is always possible. The client's runs end when their bounds are used
up, so they do not check it.

Each property of a passing run has a mutant: an operator kept beside the definition it
replaces, which changes that definition the way a plausible bug would, and under which
the same run finds the property violated.

## Proofs

Eight modules hold theorems. Each EXTENDS the component it is about, and its hypotheses
are that component's named assumptions only: bounds are naturals, the window and the
largest chunk are positive, histories and claims have their types, absent values
(`None`, `NoRow`) are no rows, agents or spaces, sets of keys are finite, a page has a
space, a lane move is between two spaces, a dock is a sequence of members, the contents
of files are sequences of lines with a key, a time and whether they parse. Everything is
proved for every value of the constants that satisfies these. No property is inductive as it stands; each
proof goes through an invariant that says what the actor may rely on between two of its
steps, has one lemma per action (`NextStep` collects them) and lemmas on the model's functions
below. Every such invariant was first checked by TLC on small instances.

**`SeshStoreProofs`** — `RowsBacked` (`RowsAreBacked`), `DurableAck` (`AcksAreDurable`),
`OpenedForDivergence` (`OpenedOnlyForDivergence`), and the action properties
`MirrorAppendOnly`, `PoisonFrozen` and `DropAudited`. Whether recording a high-water is
safe depends on what the operation wrote two steps earlier, so `IInv` adds, per stage of
the operation in progress, what that stage may rely on:

- `Routed`: the target exists while a PUT is in progress;
- `Written`: between write and record, the mirror holds the request up to the high-water
  to be recorded, and the target is not poisoned;
- `Settled`: before a high-water at or above the window is recorded, the fingerprint is
  already the mirror's own;
- `Recorded`: what the 200 will say is true from the moment it is decided;
- `Opening`: when the second statement of `handleDivergence` runs, the divergence is
  still there;
- `Dropping`: the audit row names the rows about to go, and they are gone afterwards.

The action properties follow from `IInv` and a second family of lemmas (`…Keeps`) on what a
step leaves alone. The crucial lemma is `OverwriteFacts`/`WriteAbove`: a write from the
high-water up changes no acknowledged byte. `RepliesAreTrue` is what the shipper needs of
the store: a position in a reply is 0 or was acknowledged, a file is called poisoned only
when it is, and no high-water passes what clients sent.

**`SeshShipProofs`** — `TypeOK`, `CursorIsAcked` and `PoisonHasCause` of the composition,
and that it implements the store (`ShipperImplementsStore`): every step of the shipper, the
network and their faults is a step `SeshStore` allows some client, or leaves the store
alone. By this the store's own theorems hold here, and the proof of the cursor rests on
them: the invariant adds what a request and a reply say while they travel, and that
acknowledgements and poison, once there, stay (the composition drops nothing). A reply
that is heard late or twice therefore still speaks the truth.

`GrowingFileIsMirrored` is `ShippedIsMirrored` in full for the file an agent writes, one
that only grows (`OnlyGrows`): whenever the shipper has nothing left to do, the mirror
holds the file. It holds with delayed and repeated calls, lost replies, crashes, a lost
registry, any window and any body sizes. The invariant (`GrowInv`) says that every byte of
a mirror, of a body on its way and under a cursor is the file's byte at the same
place, and that a fingerprint, in the store, in a claim or in a cursor, is the file's first
window. So a comparison can never differ and a claim never names another generation:
`handleDivergence` and the fork are unreachable (`GrowingFileNeverForks`), and a cursor at the
end of the file says the mirror has all of it. `GrowInv` was checked by TLC first, with
delays, a lost registry, two faults and three appends.

**`HerderTermProofs`** — `OneClient`, `EndedWaits` and `AtRest`. The invariant of the first
two is about the sockets:
they are used in order, the current one is live and no other is, a retry waits only while
there is none, and nothing travels while there is none. Each helper of a callback has a
lemma on what it leaves alone of this, since most callbacks are compositions of five of
them.

`AtRest` (`PageIsAtRest`) says what a page shows when nothing is left to do: every change
is drawn, the PTY has the host's grid, herdr was asked for the page's agent and the page knows
the answer; away from the view there is no client and nothing renders. What is true at rest is
what *would* be true once all that is under way has arrived, and that is the invariant
(`RInv`): the last resize on its way carries the size the page believes, and the PTY has
it if none is (`SizeTold`); the last focus carries the agent the page sent for, and when
none is left the last verdict on its way, or else the page's own mark, says whether it
failed (`PaneTold`). The parts of the page (`Screen`, `Linked`, `Attended`, `Followed`) say
what each timer or frame still due stands for: a dirty screen has a render requested, a
size that is not the host's has a fit. `Owed` is `PaneTold` and `SizeTold` with the frames a callback
has sent so far put behind those under way, by which the helpers of one callback chain.

**`HerderAttentionProofs`** — `Converged` (`AllAgree`) as an invariant of any number of
browsers: when all have sent and heard, all agree with the server; and `MarkHeld`. The fact
behind it is that a stamp names a row (`Unique`): every browser stamps its own writes past
its own row, and what it takes over or merges never stamps lower. A browser with nothing
to send holds nothing newer than the server (`Sent`), one with nothing to pull nothing
older (`Heard`), and two rows neither of which is newer are the same row. `Armed` says only a
mark is armed, never one that is looked at still.

`ReadNeverRewound` (`ReadStaysRead`) is the action property that what has been read stays
read but for a deliberate mark unread. Its invariant is `Timely`: no marker is of the
future, an armed mark is never under the dwell, and a page that waits for its first pull
holds no read past what its own board tells of. The last one is needed because a first
pull merges and reads in one step: the row it merged may be another browser's, in another
session, and what the dwell then reads must still not be behind the page's own row. It
rests on one assumption more, that the entries of one session come in the order of their
offsets, which are byte offsets in a file that only grows (`readMarkerModel.ts:6`). That
the two rules of a merge, further read and later time, agree is in `FurtherLater`,
`FurtherRises` and `MergeKeeps`.

**`HerderSyncProofs`** — `NothingSkipped`, `NoResurrection` and `NoStepBack`, for any pages,
devices, keys, sweeps, failures and reloads. The invariant is `Good`, what one page knows of the
server, beside `Purged` and `Counted`, what the server knows of its rows. `Later` says how
the server may move: a key's row is replaced by a newer one that is past every purge and
gets a revision past every one given out, or it is purged and leaves the horizon at or above it.
`Good` survives every such move (`GoodLater`), so it holds although requests are answered
late: the answer to a pull covers what the page may dequeue and lacks only what the page
asked to leave out (`Answer`), the answer to a post names only rows the server has, has
replaced or has purged (`Stored`). The functions of the client are then of three sorts, by what they
may change (`Kept`, `Tame`, and those that merge rows).

**`HerderHomeProofs`** — `AddressTrue` and `HistorySteps`, for any spaces, agents and
history. The invariant adds to the address that it is left behind only in a zoom, and that
every entry is one a page writes: an entry of another view names no space and no panel, so
nothing that happens to a dock under that view can make it wrong (`Told_Links`,
`LinkParts`). What each change does to the history is said once (`Pushes`, `Replaces`,
`Switches`, `Zooms`); each action of the owner then keeps the invariant and is `Undoable`,
each of the background keeps it and leaves the history `Unmoved`, and a replay whose space
is listed rewrites its entry to itself (`TravelKeeps`). That there is a space to go to when
one closes (`NeighbourIsListed`, `FirstIsListed`) is part of it.

**`HerderMembersProofs`** — `MembersSteps`, for any browsers, spaces, docks and refused
layouts. Neither step property is inductive by itself: what a browser may drop depends on
what it remembers of the row it has. The invariant (`Known`) says so: the applied version
is never ahead of the row's, a version the browser applied or wrote and still has leaves
nothing unseen, and a browser level with its row has the row's members in its *baseline*
and, but for the tabs closed since, in its dock (`Even`) — the baseline is needed because
a reconciliation that changes nothing forgets what was closed, and only the comparison with
the baseline shows the dock lacks none of it. `Holding` adds that before the lane move no row has
been applied, and the lane has a dock only if its user began one. One live space
(`ReconciledKnown`), one closed space (`SweptKnown`), a pulled row (`PulledKnown`) and the two
halves of the move (`RowsMovedKnown`, `LayoutMovedKnown`) are lemmas about the operators
alone; `OnlyMembers` says what filtering a sequence keeps.

`NoWriteLoop` (`WritesAreBounded`) holds for any finite number of browsers and spaces. The
invariant (`WInv`) counts what may still be written: pairs of a browser and a space that is
not `Quiet` (`P`), browsers that storage refused a layout (`F`), and a reserve for the move that
closes a space every other browser has settled (`R`). Quiet is, in a live space, a dock
that is its own baseline, which no pull and no other browser's row can change; in a
closed one, a row that is gone with nothing but deleted rows newer. A reconciliation that
writes takes at least one pair away for good; what a user does adds one space in every
browser and refills the reserve, which is the factor of the bound. `F` counts browsers and
not spaces because the next reconciliation that storage takes writes all of them at once. A
space whose dock is not mounted yet keeps what it has, and the mounting writes nothing
(`DockReadyPays`). TLC
checked the existence of `P`, `F` and `R` in every state of two browsers, with and without a
lane move, before the proof.

**`SeshIndexProofs`** — `RowsSound` (`RowsAreSound`), for any number of files, any contents
and any order of appends, events, sweeps and faults. Every event rewrites the table as a
whole, so what the property says of the variable is said of any table (`Sound`), and each
statement of the transaction has its lemma on tables: an insert (`InsertedPlacing`), a
rewriting of labels or ordinals (`RewrittenPlacing`), a dedupe (`DedupePlacing`). Between the
insert and the dedupe the table does show messages twice; `OneButFor` says for which
session and which keys, and that the dedupe which follows asks for exactly these: the keys
of the new lines when the file is settled in its session, all keys when it is unified,
since then the group takes whole sessions (`Closed`, `OneBeside`, `ConnectedIs`). That dedupe
leaves one row and not none is `First` and `Settles`: the order of rows has a least element
in every set, and two rows neither of which goes first are one row. The invariant then
adds what is in flight: an event tells of a prefix of its mirror, and a span that parses
has one row at most and none past the complete offset (`OneSpan`) — the fact on which
replaying a file whose rows dedupe took all away (`Vanished`) rests.

*What the proofs do not reach.* Liveness and fairness (`FileArrives`, `LinesArrive`,
`EditsArrive`, `AllArrives`) and what is said through `ENABLED` (`StillCurrent`,
`WakeAnswered`). What recursive functions compute over all inputs: the trees of
`HerderSidebar`, the orders of `HerderLens`, the `SelectSeq` of `HerderCards`. `PairsAgree`,
that the table is the one `Reindex` builds, holds for pairs of files and not for three
(`index_bridge`); it is checked, not proved. `ShippedIsMirrored` of
files that are cut, deleted or replaced: the theorem is about files that grow. Only
model-checked as well: `NothingLost` of `HerderSpaces`, which is a statement about one fault
at a time. It holds with four edits (1.0 M states) as with three, and not with two faults:
a text damaged while a page has a newer layout to write, and the crash of that page before
its timer, together take a panel neither takes alone. Not tried: the properties of
`HerderNotes` and `HerderPalette`.

## Findings

With a run that shows them:

1. `ship_claim` — a generation without fingerprint adopts any claim before a byte is
   compared. If the registry is lost before the next compared PUT, recovery resumes at
   that generation's high-water and the mirror joins two files. `sesh-wire.md` says an
   unmatched claim opens a new generation.
2. `index_bridge` — incremental overlap looks at the rows dedupe left, `Reindex` at all
   pairs; a third file may be unified by one and not by the other. The design note names
   checksum equality with `Reindex` as the state oracle.
3. `sync_rollback` — `rollbackCreate` takes a new space out of memory and out of the dirty
   set, but the sync client has read the row and begun its POST in the same turn. The
   server keeps the space the user was told could not be opened.

Met while modelling, without a run of their own:

- *Retry after a conflict* (`tail.go:491`, `store.go:801`): any PUT that matches the mirror clears
  `conflict_pending`; a delayed one may do so between the shipper's two attempts, and the
  retry is a `byte_conflict` again, where a comment expects a decision.
- *Bodies smaller than the window* (`Shipper.MaxBody` below 1024, which only tests set): a
  file replaced before its generation has a fingerprint may be shipped in an append that
  is not compared, and its fingerprint is then adopted over the other file's first bytes.
  The part *replace* of `ship` keeps a first body at least as long as the window.
- *A sweep's event behind a live one* (`index.go:1133`): `complete_offset` moves back to the older
  event's end, and the next catch-up inserts a surviving quarantine row again.
- *A refused post followed by a pull that succeeds* leaves the queue unsent until the next event
  (`stateSync.ts`, `handleFailure`); `Sent` names the case.
- *Notes* (`WritingKept`): a send clears a draft typed since in the other composer of the same agent; two
  composers of one agent overwrite each other's draft; a reply that lands closes
  whichever reply is open (`useLens.ts:163`).
- *Sends* (`sendRefresh.ts:39-47`): a refresh taken over while a send settles, once the send's own
  was served, is dropped; the event of the entry itself brings it. `WakeAnswered` names it.
- *Circles of managers* (`FleetSidebar.tsx:187`): the server's assignment refuses none, so two drops
  planned on boards that are old by then may close one; `CirclesNeedOldBoards` says that
  nothing else does.
- *Folding* (`sidebarView.ts:28-34`, `FleetSidebar.tsx:119-134`): an agent's row in the placement tree
  that gains Task subagents after the first board stays closed. And when a lane whose header
  is folded is entered in the commit that draws a new board, the rows that board opened are
  recorded as known and closed again: both effects write `expandedItems`, from the same stale
  value. `FoldsKept` names both.
- *Late answers* (`FleetSidebar.tsx:72` and `:112`): a created lane clears whichever "+ lane" header is
  pending, and a rename's answer closes or marks a later edit of the same agent. The model
  does the same; no property is about them.
- *Navigation*: a reload in a zoom, and zooming into the zoomed space, overwrite an entry.
- *Spaces* and *members*: the cases listed under `HerderSpaces` and `HerderMembers`.

Two limits shape the sesh properties. Below the fingerprint window a recreated file is told
from the old one only by its size, so the part *replace* of `ship` replaces a file after its
fingerprint was recorded. And a quarantined line appended to a unified file keeps the
wire id while `Reindex` gives it the session of its file, so `PairsAgree` speaks of
the lines that parse.

## Plan

Done: the modules of the table above, and the proofs of the store, the shipper, the
terminal, the index, the read marks, the state sync, navigation and reconciliation.

1. Proofs: `ShippedIsMirrored` of `SeshShip` for replaced files, `OncePerTurn` of `HerderCards` (with
   the reads kept as a set), the panels of `HerderSpaces` under a single fault.
2. `SeshIndex`: generations above 0 and content ids per line; `DropFile` deleting the
   surviving copy of a shared message; `Reindex` as interruptible steps.
3. `SeshAdmission`: the hint admission machine of the watch loop: a hint is shipped at most
   a bounded time later, none is lost.
4. `HerderLog`: the `agentstore` log under its file lock, projection as a fold, snapshot
   and tail; a reader's view is the fold of a prefix of the log.
5. `SeshUpdate`: crash safety of binary replacement.
