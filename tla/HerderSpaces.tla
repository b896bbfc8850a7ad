---------------------------- MODULE HerderSpaces ----------------------------
(***************************************************************************)
(* The dock layouts of the herder web client: which panels each space       *)
(* holds, in the page and in localStorage.                                  *)
(*                                                                         *)
(* A page shows one space's dock.  Every change marks the layout dirty; a   *)
(* 120 ms timer, pagehide and every space switch write it under the space   *)
(* it was restored for, over a last-good backup.  Closing a space moves its *)
(* layout into a recovery record, sending a panel writes it into another    *)
(* space's stored layout before closing it here, and the pages of one       *)
(* browser hear of each other's writes by storage events, some time later.  *)
(*                                                                         *)
(* A stored text is abstracted to what parsing it gives: its panels and     *)
(* whether it is canonical.  Groups, sizes and the active tab are left out, *)
(* and so is the store of space definitions (HerderSync): here a space is   *)
(* live, closed or gone for every page at once.                             *)
(***************************************************************************)
EXTENDS Integers, FiniteSets

CONSTANTS
    Spaces,  \* space ids, the migrated one included
    Main,    \* the space the layout of the old version becomes
    Panels,  \* panel ids
    Tabs,    \* pages of one browser
    Edits,   \* bound on what users do
    Faults,  \* bound on refused writes, crashes and damaged texts
    Prompt   \* whether timers and storage events run before the next click elsewhere

SpacesAssumption ==
    Main \in Spaces /\ Edits \in Nat /\ Faults \in Nat /\ Prompt \in BOOLEAN

VARIABLES
    disk,   \* localStorage: prim, back, rec per space, the old layout, the marker
    space,  \* space[s]: "none" (not yet created), "live", "closed" or "gone"
    tab,    \* tab[t]: a page
    kept,   \* history: the panels the user put in each space and did not close
    met,    \* history: per space, the unreadable texts a page has met
    edits, faults

vars == <<disk, space, tab, kept, met, edits, faults>>

----------------------------------------------------------------------------
\* Stored texts.

\* "partly": some panel is not canonical and is dropped by the parser.
Kinds == {"none", "good", "partly", "garbage"}
Text == [kind : Kinds, panels : SUBSET Panels]
NoText == [kind |-> "none", panels |-> {}]
Good(ps) == [kind |-> "good", panels |-> ps]

\* parseStoredSpaceLayout answers a layout.
Parses(x) == x.kind \in {"good", "partly"}

\* A salvaged layout with nothing left is no better than none.
Usable(x) == Parses(x) /\ (x.panels # {} \/ x.kind # "partly")

\* readStoredSpaceLayout, and readStoredLayout for the old version.
Read(prim, back) ==
    [stored     |-> IF Usable(prim) THEN prim
                    ELSE IF Parses(back) THEN back
                    ELSE IF Parses(prim) THEN prim ELSE NoText,
     backup     |-> IF Parses(back) THEN back ELSE NoText,
     recovering |-> prim.kind = "partly" \/ (~Usable(prim) /\ Parses(back)),
     last       |-> IF Parses(prim) /\ prim.kind # "partly" THEN prim ELSE NoText,
     problem    |-> prim.kind = "garbage" \/ (back.kind = "garbage" /\ ~Usable(prim))]

\* Mutant: an unreadable layout is not set aside.
KeepUnreadable_Never(d, s) == d

\* The recovery write of readStoredSpaceLayout, unless the record holds the
\* layout of a closed space.
KeepUnreadable(d, s) ==
    IF "garbage" \in {d.prim[s].kind, d.back[s].kind} /\ d.rec[s].kind # "closed"
    THEN [d EXCEPT !.rec[s] = [kind |-> "corrupt", prim |-> d.prim[s], back |-> d.back[s]]]
    ELSE d

\* restoreSpaceDock: the stored dock, else the backup's.
SecondTry(r) == r.stored.panels = {} /\ r.backup.panels # {}
Shown(r) == IF SecondTry(r) THEN r.backup.panels ELSE r.stored.panels

\* writeStoredSpaceLayout's backup: the last text known to be good, kept as it
\* is while the layout is being recovered from it.
Backup(st, back, raw) ==
    IF st.recovering THEN back ELSE IF st.last # NoText THEN st.last ELSE raw

\* writeStoredSpaceLayout, or persistLayoutSnapshot in the old version, after
\* n of its two writes.
Written(d, s, raw, st, n) ==
    [d EXCEPT !.back[s] = IF n >= 1 THEN Backup(st, @, raw) ELSE @,
              !.prim[s] = IF n = 2 THEN raw ELSE @]

NoState == [recovering |-> FALSE, last |-> NoText]

----------------------------------------------------------------------------
\* Pages.

Shut == [up |-> FALSE, active |-> Main, dock |-> {}, dirty |-> FALSE,
         restored |-> Main, st |-> NoState, old |-> FALSE, fresh |-> {}, news |-> {}]

Up(t) == tab[t].up

\* The user does something: bounded, and slower than the pages' timers and
\* storage events when Prompt.
Acts(t) ==
    /\ Up(t) /\ edits < Edits /\ edits' = edits + 1
    /\ Prompt => /\ \A u \in Tabs : tab[u].news = {} /\ (tab[u].dirty => u = t)
                 /\ tab[t].old \/ space[tab[t].active] = "live"

Fails(n) == IF n = 2 THEN UNCHANGED faults ELSE faults < Faults /\ faults' = faults + 1

\* The pages other than t hear that prim[s] now holds raw.
Told(tabs, t, s, raw) ==
    [u \in Tabs |-> IF u # t /\ tabs[u].up /\ ~tabs[u].old
                    THEN [tabs[u] EXCEPT !.news = @ \cup {<<s, raw>>}] ELSE tabs[u]]

\* flushLayout writes under the space the dock was restored for.
Target(c) == c.restored

\* flushLayout: page and storage after n of its writes.
Flushed(c, n) ==
    IF c.dirty /\ n = 2
    THEN [c EXCEPT !.dirty = FALSE, !.fresh = {}, !.st = [recovering |-> FALSE, last |-> Good(c.dock)]]
    ELSE c
AfterFlush(d, c, n) == IF c.dirty THEN Written(d, Target(c), Good(c.dock), c.st, n) ELSE d

\* performSpaceSwitch after its flush: beginRestore, readSpace,
\* restoreSpaceDock, completeRestore.
Entered(d, c, s) ==
    LET r == Read(d.prim[s], d.back[s])
    IN  [c EXCEPT !.active = s, !.restored = s, !.dock = Shown(r),
                  !.dirty = FALSE, !.fresh = {},
                  !.st = [recovering |-> r.recovering \/ SecondTry(r),
                          last |-> r.last]]

\* The unreadable texts a read of space s meets.
Meets(d, s) == {x \in {d.prim[s], d.back[s]} : x.kind = "garbage"}

\* A switch of page t to space s, whose flush makes n of its two writes:
\* short of both, nothing but the writes happens.  `d`, `c` are storage and
\* page before it.
SwitchedDisk(d, c, s, n) ==
    LET f == AfterFlush(d, c, n) IN IF c.dirty /\ n < 2 THEN f ELSE KeepUnreadable(f, s)
SwitchedPage(d, c, s, n) ==
    IF c.dirty /\ n < 2 THEN c ELSE Entered(AfterFlush(d, c, n), Flushed(c, n), s)
Switches(c, n) == ~(c.dirty /\ n < 2)

----------------------------------------------------------------------------
\* What a user can still reach of a space.

RecoveredFrom(d, s) == Shown(Read(d.rec[s].prim, d.rec[s].back))

Reach(d, tabs, s) ==
    UNION {tabs[t].dock : t \in {t \in Tabs : tabs[t].up /\ tabs[t].active = s}}
      \cup UNION {UNION {e[2].panels : e \in {e \in tabs[t].news : e[1] = s}} :
                     t \in {t \in Tabs : tabs[t].up /\ tabs[t].restored = s}}
      \cup Shown(Read(d.prim[s], d.back[s]))
      \cup (IF d.rec[s].kind = "closed" THEN RecoveredFrom(d, s) ELSE {})
      \cup (IF s = Main /\ ~d.marker THEN Shown(Read(d.oldPrim, d.oldBack)) ELSE {})

----------------------------------------------------------------------------
\* The user's steps in one page.

Change(t, c) == tab' = [tab EXCEPT ![t] = c]

\* openPanel, or a click that only moves or resizes: the layout is dirty.
OpenPanel(t, p) ==
    /\ Acts(t)
    /\ Change(t, [tab[t] EXCEPT !.dock = @ \cup {p}, !.dirty = TRUE, !.fresh = @ \cup {p}])
    /\ kept' = [kept EXCEPT ![tab[t].active] = @ \cup {p}]
    /\ UNCHANGED <<disk, space, met, faults>>

\* closePanel.
ClosePanel(t, p) ==
    /\ Acts(t) /\ p \in tab[t].dock
    /\ Change(t, [tab[t] EXCEPT !.dock = @ \ {p}, !.dirty = TRUE, !.fresh = @ \ {p}])
    /\ kept' = [kept EXCEPT ![tab[t].active] = @ \ {p}]
    /\ UNCHANGED <<disk, space, met, faults>>

\* The 120 ms timer writes the layout, or storage refuses one of the writes.
Flush(t, n) ==
    LET c == tab[t]
        d == AfterFlush(disk, c, n)
    IN  /\ Up(t) /\ c.dirty /\ ~c.old /\ Fails(n)
        /\ disk' = d
        /\ tab' = IF n = 2 THEN Told([tab EXCEPT ![t] = Flushed(c, n)], t, Target(c), Good(c.dock))
                           ELSE tab
        /\ UNCHANGED <<space, kept, met, edits>>

\* flushLayout before the migration: the old version's pair of keys.
FlushOld(t) ==
    LET c == tab[t] IN
    /\ Up(t) /\ c.dirty /\ c.old
    /\ disk' = [disk EXCEPT !.oldBack = Backup(c.st, @, Good(c.dock)), !.oldPrim = Good(c.dock)]
    /\ Change(t, Flushed(c, 2))
    /\ UNCHANGED <<space, kept, met, edits, faults>>

\* A storage event: the panels another page wrote here are added.
CatchUp(t) ==
    /\ Up(t)
    /\ \E e \in tab[t].news :
          LET c   == [tab[t] EXCEPT !.news = @ \ {e}]
              new == IF e[1] = c.restored /\ Parses(e[2]) THEN e[2].panels \ c.dock ELSE {}
          IN  Change(t, IF new = {} THEN c 
                             ELSE [c EXCEPT !.dock = @ \cup new, !.fresh = @ \cup new, !.dirty = TRUE])
    /\ UNCHANGED <<disk, space, kept, met, edits, faults>>

\* Page t enters s, telling the other pages of the layout it leaves behind.
Go(t, d, c, s, n) ==
    /\ disk' = SwitchedDisk(d, c, s, n)
    /\ tab' = LET tabs == [tab EXCEPT ![t] = SwitchedPage(d, c, s, n)]
              IN  IF c.dirty /\ n = 2 THEN Told(tabs, t, Target(c), Good(c.dock)) ELSE tabs
    /\ met' = IF Switches(c, n) THEN [met EXCEPT ![s] = @ \cup Meets(AfterFlush(d, c, n), s)] ELSE met

\* switchSpace.
Switch(t, s, n) ==
    /\ Acts(t) /\ ~tab[t].old /\ Fails(n)
    /\ space[s] = "live" /\ s # tab[t].active
    /\ Go(t, disk, tab[t], s, n)
    /\ UNCHANGED <<space, kept>>

\* The active space is closed, in another page or another browser: the page
\* falls back to a live one.
FallBack(t, s) ==
    /\ Up(t) /\ ~tab[t].old /\ space[tab[t].active] # "live" /\ space[s] = "live"
    /\ Prompt => tab[t].news = {}
    /\ Go(t, disk, tab[t], s, 2)
    /\ UNCHANGED <<space, kept, edits, faults>>

\* createSpace and createAndSwitchSpace: the named one is rolled back when the
\* page cannot enter it.
CreateSpace(t, s, named, n) ==
    /\ Acts(t) /\ ~tab[t].old /\ Fails(n) /\ space[s] = "none"
    /\ space' = [space EXCEPT ![s] = IF named /\ ~Switches(tab[t], n) THEN "gone" ELSE "live"]
    /\ Go(t, disk, tab[t], s, n)
    /\ UNCHANGED kept

\* writePanelToStoredSpace of p into space s: refused, or written after n
\* writes.
SendRefused(s) == LET r == Read(disk.prim[s], disk.back[s]) IN r.problem \/ r.recovering
SendText(s, p) ==
    LET r == Read(disk.prim[s], disk.back[s])
    IN  [kind |-> IF r.stored.panels = {} THEN "good" ELSE r.stored.kind,
         panels |-> r.stored.panels \cup {p}]
SendDisk(d, s, p, n) ==
    Written(d, s, SendText(s, p), [recovering |-> FALSE, last |-> Read(d.prim[s], d.back[s]).last], n)

\* Mutant: the panel is closed here whether or not it was written there.
Closes_Always(s, n) == TRUE

\* sendPanelToExistingSpace closes the source only after the write.
Closes(s, n) == ~SendRefused(s) /\ n = 2

SendPanel(t, p, s, n) ==
    LET c    == tab[t]
        gone == [c EXCEPT !.dock = @ \ {p}, !.dirty = TRUE, !.fresh = @ \ {p}]
    IN  /\ Acts(t) /\ ~c.old /\ p \in c.dock /\ s # c.active /\ Fails(n)
        /\ space[s] \in {"live", "none"}
        /\ disk' = LET d == KeepUnreadable(disk, s)
                   IN  IF SendRefused(s) THEN d ELSE SendDisk(d, s, p, n)
        /\ met' = [met EXCEPT ![s] = @ \cup Meets(disk, s)]
        /\ space' = [space EXCEPT ![s] = IF space[s] = "none" /\ n < 2 THEN "gone" ELSE "live"]
        /\ tab' = LET tabs == IF Closes(s, n) THEN [tab EXCEPT ![t] = gone] ELSE tab
                  IN  IF ~SendRefused(s) /\ n = 2 THEN Told(tabs, t, s, SendText(s, p)) ELSE tabs
        /\ kept' = IF Closes(s, n)
                   THEN [kept EXCEPT ![s] = @ \cup {p}, ![c.active] = @ \ {p}]
                   ELSE kept

\* Mutant: the layout is removed without its recovery record.
Closed_NoCopy(d, s, wrote) ==
    [d EXCEPT !.prim[s] = NoText, !.back[s] = NoText]

\* closeSpaceLayout: an empty layout goes with its record; any other moves into
\* the record, if that write is retained.
Empty(d, s) ==
    IF Parses(d.prim[s]) THEN d.prim[s].panels = {}
    ELSE d.prim[s] = NoText /\ (~Parses(d.back[s]) \/ d.back[s].panels = {})
Or(x, y) == IF x # NoText THEN x ELSE y
Closed(d, s, wrote) ==
    IF Empty(d, s)
    THEN [d EXCEPT !.prim[s] = NoText, !.back[s] = NoText, !.rec[s] = [kind |-> "none", prim |-> NoText, back |-> NoText]]
    ELSE IF ~wrote THEN d
    ELSE [d EXCEPT !.prim[s] = NoText, !.back[s] = NoText,
                   !.rec[s] = [kind |-> "closed", prim |-> Or(d.prim[s], d.rec[s].prim),
                                                  back |-> Or(d.back[s], d.rec[s].back)]]

\* closeSpace: the active space is left first, for a neighbour or, when it is
\* the last, for a new one, which is rolled back if it cannot be entered.
CloseSpace(t, s, other, n, wrote) ==
    LET c     == tab[t]
        aside == s = c.active
        left  == aside => Switches(c, n)
        d     == IF aside THEN SwitchedDisk(disk, c, other, n) ELSE disk
        done  == left /\ (wrote \/ Empty(d, s))
    IN  /\ Acts(t) /\ ~c.old /\ space[s] = "live"
        /\ IF aside /\ n < 2 THEN wrote /\ c.dirty /\ Fails(n)
                             ELSE n = 2 /\ Fails(IF wrote THEN 2 ELSE 0)
        /\ other # s
        /\ aside => IF \E x \in Spaces \ {s} : space[x] = "live"
                    THEN space[other] = "live" ELSE space[other] = "none"
        /\ disk' = IF left THEN Closed(d, s, wrote) ELSE d
        /\ tab' = IF ~aside THEN tab
                  ELSE LET tabs == [tab EXCEPT ![t] = SwitchedPage(disk, c, other, n)]
                       IN  IF c.dirty /\ n = 2 THEN Told(tabs, t, Target(c), Good(c.dock)) ELSE tabs
        /\ space' = [x \in Spaces |->
                       IF x = s /\ done THEN "closed"
                       ELSE IF x = other /\ aside /\ space[x] = "none"
                            THEN IF left THEN "live" ELSE "gone"
                       ELSE space[x]]
        /\ met' = [met EXCEPT ![other] = IF aside /\ left THEN @ \cup Meets(AfterFlush(disk, c, n), other) ELSE @,
                             ![s] = IF done THEN {} ELSE @]
        /\ kept' = [kept EXCEPT ![s] = IF done THEN @ \cap Reach(disk', tab', s) ELSE @]

\* reopenSpace: reopenSpaceLayout writes the record's texts back, the record
\* goes and the page enters the space.  Short of its writes the record stays.
ReopenSpace(t, s, n) ==
    LET c == tab[t]
        r == disk.rec[s]
        put(k) == [disk EXCEPT !.back[s] = IF k >= 1 /\ r.back # NoText THEN r.back ELSE @,
                               !.prim[s] = IF k = 2 THEN (IF r.prim # NoText THEN r.prim ELSE Good({})) ELSE @,
                               !.rec[s] = IF k = 2 THEN [kind |-> "none", prim |-> NoText, back |-> NoText] ELSE @]
    IN  /\ Acts(t) /\ ~c.old /\ space[s] = "closed" /\ r.kind = "closed" /\ Fails(n)
        /\ IF n = 2
           THEN space' = [space EXCEPT ![s] = "live"] /\ Go(t, put(2), c, s, 2)
           ELSE disk' = put(n) /\ UNCHANGED <<space, tab, met>>
        /\ UNCHANGED kept

----------------------------------------------------------------------------
\* Loading, leaving, damage.

\* Mutant: a migration that already ran runs again.
Migrates_Again(d) == TRUE

\* initializeSpaces: unless the marker is there, the old layout is written as
\* the main space's, the marker last.
Migrates(d) == ~d.marker
Migrated(d, n) ==
    LET r == Read(d.oldPrim, d.oldBack)
    IN  [d EXCEPT !.back[Main] = IF n >= 1 THEN Good(r.stored.panels) ELSE @,
                  !.prim[Main] = IF n >= 2 THEN Good(r.stored.panels) ELSE @,
                  !.marker = IF n = 3 THEN TRUE ELSE @]

\* A page opens in one of the live spaces, or in the old version when the
\* migration did not get through; spaceStates starts empty.
Open(t, s, n) ==
    LET d == IF Migrates(disk) THEN Migrated(disk, n) ELSE disk
        r == Read(d.prim[s], d.back[s])
        o == Read(d.oldPrim, d.oldBack)
    IN  /\ ~Up(t) /\ Fails(IF Migrates(disk) THEN n - 1 ELSE 2)
        /\ IF d.marker
           THEN /\ space[s] = "live" /\ (~Migrates(disk) => n = 3)
                /\ disk' = KeepUnreadable(d, s)
                /\ met' = [met EXCEPT ![s] = @ \cup Meets(d, s)]
                /\ Change(t, [Shut EXCEPT !.up = TRUE, !.active = s, !.restored = s, !.dock = Shown(r),
                                          !.st.recovering = SecondTry(r)])
           ELSE /\ s = Main
                /\ disk' = d /\ UNCHANGED met
                /\ Change(t, [Shut EXCEPT !.up = TRUE, !.old = TRUE, !.dock = Shown(o),
                                          !.st = [recovering |-> o.recovering, last |-> o.last]])
        /\ UNCHANGED <<space, kept, edits>>

\* The page is closed: pagehide flushes, or the page dies without.
Leave(t) ==
    LET c == tab[t] IN
    /\ Up(t) /\ ~c.old /\ (Prompt => c.news = {})
    /\ disk' = AfterFlush(disk, c, 2)
    /\ tab' = LET tabs == [tab EXCEPT ![t] = Shut]
              IN  IF c.dirty THEN Told(tabs, t, Target(c), Good(c.dock)) ELSE tabs
    /\ UNCHANGED <<space, kept, met, edits, faults>>

\* What it opened since its last write dies with it.
Crash(t) ==
    LET c == tab[t] IN
    /\ Up(t) /\ c.dirty /\ faults < Faults /\ faults' = faults + 1
    /\ Change(t, Shut)
    /\ kept' = [kept EXCEPT ![c.active] = @ \ c.fresh]
    /\ UNCHANGED <<disk, space, met, edits>>

\* A closed space's tombstone outlives its retention: onPurge.
Purge(s) ==
    /\ space[s] = "closed" /\ \A t \in Tabs : Up(t) => tab[t].active # s
    /\ space' = [space EXCEPT ![s] = "gone"]
    /\ disk' = [disk EXCEPT !.rec[s] = [kind |-> "none", prim |-> NoText, back |-> NoText]]
    /\ kept' = [kept EXCEPT ![s] = {}] /\ met' = [met EXCEPT ![s] = {}]
    /\ UNCHANGED <<tab, edits, faults>>

\* A stored text is damaged, or was written by another version of the page.
\* What neither a restore shows nor a page is about to write is lost by the
\* damage, not by the code.
Damage(s, which, x) ==
    LET d == IF which = "prim" THEN [disk EXCEPT !.prim[s] = x] ELSE [disk EXCEPT !.back[s] = x]
        y == IF which = "prim" THEN disk.prim[s] ELSE disk.back[s]
    IN  /\ faults < Faults /\ faults' = faults + 1
        /\ y.kind = "good" /\ y.panels # {}
        /\ \/ x.kind = "garbage" /\ x.panels = y.panels
           \/ x.kind = "partly" /\ x.panels # {} /\ x.panels \subseteq y.panels /\ x.panels # y.panels
        /\ disk' = d
        /\ kept' = [kept EXCEPT ![s] = @ \cap
                       Reach(d, [t \in Tabs |-> IF tab[t].dirty THEN tab[t] ELSE Shut], s)]
        /\ UNCHANGED <<space, tab, met, edits>>

Init ==
    /\ \E ps \in SUBSET Panels :
          /\ disk = [prim |-> [s \in Spaces |-> NoText], back |-> [s \in Spaces |-> NoText],
                     rec |-> [s \in Spaces |-> [kind |-> "none", prim |-> NoText, back |-> NoText]],
                     oldPrim |-> Good(ps), oldBack |-> Good(ps), marker |-> FALSE]
          /\ kept = [s \in Spaces |-> IF s = Main THEN ps ELSE {}]
    /\ space = [s \in Spaces |-> IF s = Main THEN "live" ELSE "none"]
    /\ tab = [t \in Tabs |-> Shut]
    /\ met = [s \in Spaces |-> {}]
    /\ edits = 0 /\ faults = 0

User(t) ==
    \/ \E p \in Panels : OpenPanel(t, p) \/ ClosePanel(t, p)
    \/ \E s \in Spaces, n \in 0..2 :
          \/ Switch(t, s, n) \/ ReopenSpace(t, s, n)
          \/ \E named \in BOOLEAN : CreateSpace(t, s, named, n)
          \/ \E p \in Panels : SendPanel(t, p, s, n)
          \/ \E other \in Spaces, wrote \in BOOLEAN : CloseSpace(t, s, other, n, wrote)

Next ==
    \/ \E t \in Tabs :
          \/ User(t) \/ CatchUp(t) \/ FlushOld(t) \/ Leave(t) \/ Crash(t)
          \/ \E n \in 0..2 : Flush(t, n)
          \/ \E s \in Spaces : FallBack(t, s) \/ \E n \in 0..3 : Open(t, s, n)
    \/ \E s \in Spaces :
          Purge(s) \/ \E which \in {"prim", "back"}, x \in Text : Damage(s, which, x)

Spec == Init /\ [][Next]_vars

----------------------------------------------------------------------------
\* Properties.

\* The types of the state; a page's next write goes to the space it shows.
TypeOK ==
    /\ disk.prim \in [Spaces -> Text] /\ disk.back \in [Spaces -> Text]
    /\ \A s \in Spaces : disk.rec[s].kind \in {"none", "closed", "corrupt"}
    /\ space \in [Spaces -> {"none", "live", "closed", "gone"}]
    /\ \A t \in Tabs : /\ tab[t].dock \subseteq Panels /\ tab[t].fresh \subseteq tab[t].dock
                       /\ tab[t].restored = tab[t].active

\* "Nothing was discarded": a panel the user put in a space and did not close
\* is in a page's dock, in what the next restore of the space shows, or in the
\* record a reopen brings back, whatever write was refused on the way.
NothingDiscarded ==
    \A s \in Spaces : space[s] # "gone" => kept[s] \subseteq Reach(disk, tab, s)

\* "Its unreadable layout was kept for recovery": a text a page could not parse
\* stays in storage until the space is closed, whatever is written over it.
UnreadableKept ==
    \A s \in Spaces : \A x \in met[s] :
        x \in {disk.prim[s], disk.back[s], disk.rec[s].prim, disk.rec[s].back}

=============================================================================
