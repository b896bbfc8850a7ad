---------------------------- MODULE HerderPalette ----------------------------
(***************************************************************************)
(* Finding a file, a space or an agent by name: the quick-open palette      *)
(* (files/QuickOpen.tsx over files/quickOpenModel.ts), which also reassigns *)
(* an agent, and the double-clicked path of a transcript                    *)
(* (files/TranscriptFileResolver.tsx).  Both ask the server while the owner *)
(* goes on, so both act on answers that may be late.                        *)
(*                                                                         *)
(* How a name matches a text is data (Rank); what the page makes of the     *)
(* matches is the model.  A typed pull request's rows are left out.          *)
(***************************************************************************)
EXTENDS Integers, FiniteSets, SequencesExt

CONSTANTS
    None,
    Texts,       \* what the owner may type
    Spaces,      \* the spaces there may be, in space order
    Agents,      \* the agents there may be, in name order
    Rank,        \* how a name matches a text: 0 exact, 1 prefix, 2 within, -1 not
    Subject,     \* the agent of the focused panel
    Below,       \* the agents below it
    Resolutions, \* answers of the file lookup
    MaxDeeds,    \* bound on openings, closings, choices and double-clicks, by habit
    Known,       \* the spaces and agents there are at first
    MaxNews      \* bound on spaces and agents that come or go

VARIABLES
    palette,  \* open, mode, query, the debounced query, the moved row, ...
    found,    \* the cache of file lookups, by text
    asking,   \* the text of the lookup that is running
    calls,    \* assignments and double-clicks not answered yet
    popover,  \* the double-click the popover answers
    opened,   \* the double-click that last opened a file by itself
    request,  \* the double-click not cancelled since (its AbortController)
    spaces, agents, deeds, news,
    habit     \* finds by typing, assigns without, or reads a transcript

vars == <<palette, found, asking, calls, popover, opened, request, spaces, agents, deeds, news, habit>>

Unknown == [data |-> None, error |-> FALSE]
Reassign == "reassign"
Row(kind, id) == [kind |-> kind, id |-> id]
Note == Row("note", None)
Human == Row("reassign", None)

----------------------------------------------------------------------------
\* The rows.

\* ranked: exact, then prefix, then within, each in the order given.
Ranked(names, q) ==
    IF q = None THEN names
    ELSE SelectSeq(names, LAMBDA x : Rank[x][q] = 0)
         \o SelectSeq(names, LAMBDA x : Rank[x][q] = 1)
         \o SelectSeq(names, LAMBDA x : Rank[x][q] = 2)

Rows(kind, names) == [i \in 1..Len(names) |-> Row(kind, names[i])]
Only(row, shown) == IF shown THEN <<row>> ELSE <<>>

\* quickOpenActionRows.  A pane's rows carry the names in longer labels: they
\* match within, never exactly.
ActionRows(q) ==
    LET here == SelectSeq(Spaces, LAMBDA s : s \in spaces)
        exact == \E s \in spaces : q # None /\ Rank[s][q] = 0
        within(x) == q = None \/ Rank[x][q] >= 0
    IN  Rows("space", Ranked(here, q))
        \o Only(Row("create", q), q # None /\ ~exact)
        \o Rows("send-space", SelectSeq(here, within))
        \o Only(Row("send-new", None), q = None)
        \o Only(Row("reassign-action", Subject), within(Subject))
        \o Rows("agent", Ranked(SelectSeq(Agents, LAMBDA a : a \in agents), q))
        \o Only(Note, q # None)

\* reassignCandidates: never itself nor one below it; human is always last.
ReassignRows(q) ==
    LET targets == {a \in agents : Subject \in agents /\ a # Subject /\ a \notin Below}
    IN  Rows("reassign", Ranked(SelectSeq(Agents, LAMBDA a : a \in targets), q)) \o <<Human>>

Normal(p) == p.mode = "normal"

\* quickOpenRows
Actions(p) == IF Normal(p) THEN ActionRows(p.query) ELSE ReassignRows(p.query)

----------------------------------------------------------------------------
\* The files.

\* autoOpenCandidate: the one exact or suffix hit, when none can be missing.
Confident(r) ==
    LET certain == {i \in 1..Len(r.files) : r.files[i].tier # "fuzzy"}
    IN  IF /\ r.complete
           /\ r.cut => r.files # <<>> /\ Last(r.files).tier = "fuzzy"
           /\ Cardinality(certain) = 1
        THEN r.files[CHOOSE i \in certain : TRUE].file
        ELSE None

Settled(p) == p.query = p.debounced

\* settledResolution
Answer(p) == IF Settled(p) /\ p.query # None THEN found[p.query].data ELSE None

Files(p) ==
    IF Normal(p) /\ Answer(p) # None
    THEN [i \in 1..Len(Answer(p).files) |-> Row("file", Answer(p).files[i].file)] ELSE <<>>

\* Mutant: a lookup that runs is not waited for.
LookupPending_Settled(p) == p.query # None /\ ~Settled(p)

LookupPending(p) ==
    /\ p.query # None
    /\ ~(Settled(p) /\ (Answer(p) # None \/ found[p.query].error))

----------------------------------------------------------------------------
\* The highlight.

\* quickOpenSelectionKeys: the actions, the files, the note last.
Listed(p) ==
    LET rows == Actions(p)
    IN  SelectSeq(rows, LAMBDA r : r # Note) \o Files(p) \o Only(Note, Contains(rows, Note))

\* topMatchTier
Tier(row, q) ==
    CASE row.kind = "space" -> IF Rank[row.id][q] = 0 THEN 0 ELSE 1 + 2 * Rank[row.id][q]
      [] row.kind = "agent" -> IF Rank[row.id][q] = 0 THEN 1 ELSE 2 + 2 * Rank[row.id][q]
      [] OTHER -> 7

First(rows, Wanted(_)) ==
    LET hits == SelectSeq(rows, Wanted) IN IF hits = <<>> THEN None ELSE Head(hits)

\* quickOpenTopMatch, and quickOpenInitialSelection for a fresh palette.
TopMatch(p) ==
    LET rows == Actions(p)
        tiers == {Tier(rows[i], p.query) : i \in 1..Len(rows)}
        best == CHOOSE t \in tiers : \A u \in tiers : t <= u
        confident == IF Answer(p) = None THEN None ELSE Confident(Answer(p))
    IN  CASE p.query = None -> First(rows, LAMBDA r : r.kind \in {"space", "agent"})
          [] p.query # None /\ best < 7 -> First(rows, LAMBDA r : Tier(r, p.query) = best)
          [] p.query # None /\ best = 7 /\ confident # None -> Row("file", confident)
          [] OTHER -> IF LookupPending(p) THEN None ELSE Note

\* reassignSelection; no text of the model begins "human".
ReassignSelection(p) ==
    IF Actions(p)[1] = Human /\ p.query # None THEN None ELSE Actions(p)[1]

Fallback(p) == IF Normal(p) THEN TopMatch(p) ELSE ReassignSelection(p)

\* quickOpenSelection: the row the owner moved to while it is listed.
Selection(p) == IF p.moved # None /\ Contains(Listed(p), p.moved) THEN p.moved ELSE Fallback(p)

\* quickOpenMoveSelection, wrapping.
Moved(p, by) ==
    LET keys == Listed(p)
        now == Selection(p)
        at == IF now # None /\ Contains(keys, now) THEN CHOOSE i \in 1..Len(keys) : keys[i] = now ELSE 0
        to == IF at = 0 THEN (IF by = 1 THEN 1 ELSE Len(keys))
              ELSE ((at - 1 + by + Len(keys)) % Len(keys)) + 1
    IN  IF keys = <<>> THEN [p EXCEPT !.moved = None]
        ELSE [p EXCEPT !.moved = keys[to]]

----------------------------------------------------------------------------
Closed == [open |-> FALSE, mode |-> "normal", query |-> None, debounced |-> None,
           moved |-> None, source |-> 0, problem |-> FALSE]

Init ==
    /\ palette = Closed
    /\ found = [q \in Texts |-> Unknown]
    /\ asking = None /\ calls = {} /\ popover = 0 /\ opened = 0 /\ request = 0
    /\ spaces = Range(Spaces) \cap Known /\ agents = Range(Agents) \cap Known
    /\ deeds = 0 /\ news = 0
    /\ habit \in {"find", "assign", "transcript"}

\* The query's lookup runs while the palette shows the text it is about.
Enabled(p) == p.open /\ Normal(p) /\ p.query # None /\ Settled(p)

\* A change of the palette, and what it does to the lookup: another key lets
\* the running one go, a key that is asked for again is looked up again.
Show(p) ==
    LET again == Enabled(p) /\ (~Enabled(palette) \/ p.query # palette.query)
    IN  /\ palette' = p
        /\ asking' = IF again THEN p.query ELSE IF asking = p.debounced THEN asking ELSE None
        /\ found' = IF again /\ found[p.query].data = None
                    THEN [found EXCEPT ![p.query] = Unknown] ELSE found

Deed == deeds < MaxDeeds[habit] /\ deeds' = deeds + 1

\* Mutant: an opening does not disown the assignments of the one before.
Reset_KeepsSource(p) == [p EXCEPT !.query = None, !.problem = FALSE, !.moved = None]

\* The effect on [open, mode].
Reset(p) ==
    [p EXCEPT !.query = None, !.problem = FALSE, !.moved = None, !.source = @ + 1]

Desk == UNCHANGED <<popover, opened, request, spaces, agents, news, habit>>

\* showQuickOpen, also while it is open: the mode is a new value each time.
ShowQuickOpen(mode) ==
    /\ Deed
    /\ Show(Reset([palette EXCEPT !.open = TRUE, !.mode = mode]))
    /\ UNCHANGED calls /\ Desk

Close(p) == Reset([p EXCEPT !.open = FALSE, !.mode = "normal"])

\* Escape, or a click beside it.
CloseQuickOpen ==
    /\ palette.open
    /\ Deed
    /\ Show(Close(palette))
    /\ UNCHANGED calls /\ Desk

Type(q) ==
    /\ palette.open /\ q # palette.query
    /\ Show([palette EXCEPT !.query = q, !.problem = FALSE, !.moved = None])
    /\ UNCHANGED <<calls, deeds>> /\ Desk

Arrow(by) ==
    /\ palette.open
    /\ Show(Moved(palette, by))
    /\ UNCHANGED <<calls, deeds>> /\ Desk

Assignment(target) ==
    [kind |-> "assign", source |-> palette.source + 1, target |-> target, deed |-> deeds + 1]

\* chooseAction and choose, from Enter on the highlight or a click on a row;
\* `chosen` is whether the workspace took it.
Choose(row, chosen) ==
    /\ palette.open
    /\ Deed
    /\ CASE row.kind = "reassign-action" ->
              /\ Show(Reset([palette EXCEPT !.mode = Reassign]))
              /\ UNCHANGED calls
         [] row.kind = "reassign" ->
              /\ Show([palette EXCEPT !.problem = FALSE, !.source = @ + 1])
              /\ calls' = calls \cup {Assignment(row)}
         [] row.kind \in {"file", "agent"} ->
              /\ Show(Close(palette))
              /\ UNCHANGED calls
         [] OTHER ->
              /\ Show(IF chosen THEN Close(palette) ELSE palette)
              /\ UNCHANGED calls
    /\ Desk

Enter(chosen) == \E row \in {Selection(palette)} \ {None} : Choose(row, chosen)

Click(chosen) == \E row \in Range(Listed(palette)) : Choose(row, chosen)

\* assignAgent's answer; one that was overtaken is dropped.
AssignAnswers(c, ok) ==
    /\ c \in calls /\ c.kind = "assign"
    /\ calls' = calls \ {c}
    /\ IF c.source # palette.source THEN UNCHANGED <<palette, asking, found>>
       ELSE Show(IF ok THEN Close(palette) ELSE [palette EXCEPT !.problem = TRUE])
    /\ UNCHANGED deeds /\ Desk

----------------------------------------------------------------------------
\* useDebounced: the timer starts over with every change of its value.
Wanted == IF palette.open /\ Normal(palette) THEN palette.query ELSE None

DebounceFires ==
    /\ palette.debounced # Wanted
    /\ Show([palette EXCEPT !.debounced = Wanted])
    /\ UNCHANGED <<calls, deeds>> /\ Desk

\* resolveFiles answers or fails; what was known stays.
LookupAnswers(r) ==
    /\ asking # None
    /\ found' = [found EXCEPT ![asking] = [data |-> r, error |-> FALSE]]
    /\ asking' = None
    /\ UNCHANGED <<palette, calls, deeds>> /\ Desk

LookupFails ==
    /\ asking # None
    /\ found' = [found EXCEPT ![asking].error = TRUE]
    /\ asking' = None
    /\ UNCHANGED <<palette, calls, deeds>> /\ Desk

\* A window that gets the focus looks up again; gcTime forgets what is not shown.
Refetch ==
    /\ Enabled(palette) /\ asking = None
    /\ asking' = palette.query
    /\ found' = IF found[palette.query].data = None
                THEN [found EXCEPT ![palette.query] = Unknown] ELSE found
    /\ UNCHANGED <<palette, calls, deeds>> /\ Desk

Forget(q) ==
    /\ q # palette.debounced /\ found[q] # Unknown
    /\ found' = [found EXCEPT ![q] = Unknown]
    /\ UNCHANGED <<palette, asking, calls, deeds>> /\ Desk

\* A space or an agent comes or goes.
News ==
    /\ news < MaxNews /\ news' = news + 1
    /\ \/ \E s \in Range(Spaces) : spaces' = SymDiff(spaces, {s}) /\ UNCHANGED agents
       \/ \E a \in Range(Agents) : agents' = SymDiff(agents, {a}) /\ UNCHANGED spaces
    /\ UNCHANGED <<palette, found, asking, calls, popover, opened, request, deeds, habit>>

----------------------------------------------------------------------------
\* A transcript's double-click.

Palette == UNCHANGED <<palette, found, asking, spaces, agents, news, habit>>

\* Mutant: only the popover is closed.
Cancel_Shown(next) == popover' = 0 /\ request' = IF next = 0 THEN request ELSE next

\* cancel: the request is aborted, the popover closed; `next` starts after it.
Cancel(next) == popover' = 0 /\ request' = next

\* onDoubleClick: what has no path in it only cancels.
DoubleClick(path) ==
    /\ Deed
    /\ Cancel(IF path THEN deeds + 1 ELSE 0)
    /\ calls' = IF path THEN calls \cup {[kind |-> "click", source |-> deeds + 1, target |-> None, deed |-> deeds + 1]}
                ELSE calls
    /\ UNCHANGED opened /\ Palette

\* A note's gesture, and leaving the panel.
Interrupt ==
    /\ Deed
    /\ Cancel(0)
    /\ UNCHANGED <<calls, opened>> /\ Palette

\* resolveFiles answers the double-click, if it was not aborted: one certain
\* file opens by itself, else the popover lists what there is.
ClickAnswers(c, outcome) ==
    /\ c \in calls /\ c.kind = "click"
    /\ calls' = calls \ {c}
    /\ request' = IF c.source = request THEN 0 ELSE request
    /\ popover' = IF c.source # request THEN popover
                  ELSE CASE outcome = "listed" -> c.deed
                         [] outcome = "certain" -> popover
                         [] outcome = "failed" -> 0
    /\ opened' = IF c.source = request /\ outcome = "certain" THEN c.deed ELSE opened
    /\ UNCHANGED deeds /\ Palette

\* Escape, a pointer elsewhere, its button or a choice close the popover only.
ClosePopover ==
    /\ popover # 0
    /\ popover' = 0
    /\ UNCHANGED <<request, opened, calls, deeds>> /\ Palette

----------------------------------------------------------------------------
InPalette ==
    \/ \E mode \in {"normal", Reassign} : ShowQuickOpen(mode)
    \/ CloseQuickOpen
    \/ habit = "find" /\ \E q \in Texts \cup {None} : Type(q)
    \/ \E by \in {-1, 1} : Arrow(by)
    \/ \E chosen \in BOOLEAN : Enter(chosen) \/ Click(chosen)
    \/ \E c \in calls, ok \in BOOLEAN : AssignAnswers(c, ok)
    \/ DebounceFires
    \/ \E r \in Resolutions : LookupAnswers(r)
    \/ LookupFails \/ Refetch \/ News
    \/ \E q \in Texts : Forget(q)

InTranscript ==
    \/ \E path \in BOOLEAN : DoubleClick(path)
    \/ Interrupt
    \/ \E c \in calls, outcome \in {"certain", "listed", "failed"} : ClickAnswers(c, outcome)
    \/ ClosePopover

Next ==
    \/ habit # "transcript" /\ InPalette
    \/ habit = "transcript" /\ InTranscript

Spec == Init /\ [][Next]_vars

----------------------------------------------------------------------------
\* Enter takes the highlighted row, so the page never moves the highlight
\* under the owner's finger (quickOpenModel.ts:88-89, 144-147): arriving
\* answers, spaces and agents leave it on a row that is still listed, but for
\* one the owner never moved to, which gives way to a better name that was
\* not listed before, or to what a lookup made again found.  A note is
\* highlighted only once no file can come any more.
HighlightHolds ==
    [][LET was == Selection(palette)
           is == Selection(palette)'
           again == palette.query # None /\ found[palette.query].data # None
       IN  /\ palette.open /\ palette'.open
           /\ palette'.query = palette.query /\ palette'.moved = palette.moved /\ deeds' = deeds
           /\ was # None /\ is \notin {None, was}
           => \/ ~Contains(Listed(palette)', was)
              \/ /\ was # palette.moved
                 /\ IF is.kind \in {"file", "note"} THEN again ELSE ~Contains(Listed(palette), is)]_vars

\* An answer acts for the gesture that asked and for no later one: an
\* assignment never closes, or puts its failure in, a palette that was closed,
\* opened again or used for another assignment since (QuickOpen.tsx:139-148);
\* a double-click never opens a file, or its popover, after the next one, a
\* note's gesture or leaving the panel (TranscriptFileResolver.tsx:99-103).
OwnAnswers ==
    [][\A c \in calls : c \notin calls' /\ <<palette, popover, opened>> # <<palette, popover, opened>>'
            => c.deed = deeds]_vars
=============================================================================
