----------------------------- MODULE HerderCards -----------------------------
(***************************************************************************)
(* The text of the lens's cards (lens/cardTextModel.ts and useCardText.ts): *)
(* each card shows its visible agent's last answer, read from the tail of   *)
(* the agent's transcript once for every turn that ends, at most Cap reads  *)
(* at a time, unless the page has that transcript open and live.            *)
(*                                                                         *)
(* A turn is its end's number, 0 before the first; an answer is known by    *)
(* the turn it ended.  A render and its effects are one step.               *)
(***************************************************************************)
EXTENDS Integers, FiniteSets, SequencesExt

CONSTANTS
    None,
    Agents,   \* the agents there may be, in the order of their cards
    Cap,      \* cardReadCap
    MaxTurn,  \* bound on an agent's turns
    MaxShifts \* bound on changes of the cards, the board and the open transcripts

VARIABLES
    turn,    \* each agent's last turn, as the board has it
    answer,  \* the last of them that had an answer
    board,   \* the agents on the board
    carded,  \* the agents on a text card
    cached,  \* the agents whose transcript the page has, kept live
    reads,   \* read, flight and failed, by agent
    settled, \* the turns each agent was read for while on the board
    shifts

vars == <<turn, answer, board, carded, cached, reads, settled, shifts>>

Names == Range(Agents)

Never == [turn |-> None, text |-> 0]
noCardReads == [read |-> [a \in Names |-> Never],
                flight |-> [a \in Names |-> None], failed |-> [a \in Names |-> None]]

Flying(r) == {a \in Names : r.flight[a] # None}

----------------------------------------------------------------------------
\* Mutant: a failed read is asked again.
Due_Failed(r, c, h, t) ==
    SelectSeq(Agents, LAMBDA a : /\ a \in c \ h
                                 /\ r.read[a].turn # t[a] /\ r.flight[a] = None)

\* dueCardReads, but for the cap: cards `c`, open transcripts `h`, turns `t`.
Due(r, c, h, t) ==
    SelectSeq(Agents, LAMBDA a : /\ a \in c \ h
                                 /\ r.read[a].turn # t[a] /\ r.flight[a] = None
                                 /\ r.failed[a] # t[a])

\* pump, with startCardReads: as many as there are slots, in card order.
Pump(r, c, h, t) ==
    LET due == Due(r, c, h, t)
        room == Cap - Cardinality(Flying(r))
        asked == {due[i] : i \in 1..(IF Len(due) < room THEN Len(due) ELSE IF room > 0 THEN room ELSE 0)}
    IN  [r EXCEPT !.flight = [a \in Names |-> IF a \in asked THEN [turn |-> t[a], got |-> None] ELSE @[a]]]

\* keepCardReads
Kept(r, b) == [r EXCEPT !.read = [a \in Names |-> IF a \in b THEN @[a] ELSE Never]]

\* landCardRead: against what the cards show now.  A tail without an answer
\* leaves the text there was.
Land(r, a, ok) ==
    LET f == r.flight[a]
        s == [r EXCEPT !.flight[a] = None]
    IN  IF a \notin carded \/ f.turn # turn[a] THEN s
        ELSE IF ~ok THEN [s EXCEPT !.failed[a] = f.turn]
        ELSE [s EXCEPT !.read[a] = [turn |-> f.turn, text |-> IF f.got = 0 THEN @.text ELSE f.got]]

----------------------------------------------------------------------------
Init ==
    /\ turn = [a \in Names |-> 0] /\ answer = turn
    /\ board = Names /\ carded = {} /\ cached = {}
    /\ reads = noCardReads
    /\ settled = [a \in Names |-> {}]
    /\ shifts = 0

\* The effect after a render: the cards are `c`, the board `b`.
Render(c, b, h, t) ==
    /\ carded' = c /\ board' = b /\ cached' = h
    /\ reads' = Pump(Kept(reads, b), c, h, t)

\* A turn ends, with an answer or without.
TurnEnds(a, answered) ==
    /\ a \in board /\ turn[a] < MaxTurn
    /\ turn' = [turn EXCEPT ![a] = @ + 1]
    /\ answer' = IF answered THEN [answer EXCEPT ![a] = turn[a] + 1] ELSE answer
    /\ Render(carded, board, cached, turn')
    /\ UNCHANGED <<settled, shifts>>

Shift == shifts < MaxShifts /\ shifts' = shifts + 1 /\ UNCHANGED <<turn, answer>>

\* A card comes or goes: its space is placed, its agent picked, the text cycled.
CardShifts(a) ==
    /\ a \in board
    /\ Shift
    /\ Render(SymDiff(carded, {a}), board, cached, turn)
    /\ UNCHANGED settled

\* An agent leaves the board, and its card with it, or is on it again.
BoardShifts(a) ==
    /\ Shift
    /\ Render(carded \ {a}, SymDiff(board, {a}), cached, turn)
    /\ settled' = [settled EXCEPT ![a] = {}]

\* Its transcript is opened, or let go.
CacheShifts(a) ==
    /\ Shift
    /\ Render(carded, board, SymDiff(cached, {a}), turn)
    /\ UNCHANGED settled

\* The server reads the tail.
Serve(a) ==
    /\ reads.flight[a] # None /\ reads.flight[a].got = None
    /\ reads' = [reads EXCEPT !.flight[a].got = answer[a]]
    /\ UNCHANGED <<turn, answer, board, carded, cached, settled, shifts>>

\* Mutant: a read that was overtaken does not start the next.
Lands_Quiet(a, ok) ==
    /\ reads.flight[a] # None /\ (ok => reads.flight[a].got # None)
    /\ LET landed == Land(reads, a, ok)
           taken == reads.flight[a].turn = turn[a]
       IN  /\ reads' = IF taken THEN Pump(landed, carded, cached, turn) ELSE landed
           /\ settled' = IF taken /\ a \in carded THEN [settled EXCEPT ![a] = @ \cup {turn[a]}] ELSE settled
    /\ UNCHANGED <<turn, answer, board, carded, cached, shifts>>

\* The read answers or fails, and the next ones start.
Lands(a, ok) ==
    /\ reads.flight[a] # None /\ (ok => reads.flight[a].got # None)
    /\ LET landed == Land(reads, a, ok)
           taken == a \in carded /\ reads.flight[a].turn = turn[a]
       IN  /\ reads' = Pump(landed, carded, cached, turn)
           /\ settled' = IF taken THEN [settled EXCEPT ![a] = @ \cup {turn[a]}] ELSE settled
    /\ UNCHANGED <<turn, answer, board, carded, cached, shifts>>

Next ==
    \E a \in Names :
        \/ \E flag \in BOOLEAN : TurnEnds(a, flag) \/ Lands(a, flag)
        \/ CardShifts(a) \/ BoardShifts(a) \/ CacheShifts(a)
        \/ Serve(a)

Spec == Init /\ [][Next]_vars

\* A read is served, and answers or fails.
Fairness == \A a \in Names : WF_vars(Serve(a)) /\ WF_vars(\E ok \in BOOLEAN : Lands(a, ok))

FairSpec == Spec /\ Fairness

----------------------------------------------------------------------------
TypeOK ==
    /\ turn \in [Names -> 0..MaxTurn] /\ answer \in [Names -> 0..MaxTurn]
    /\ board \subseteq Names /\ carded \subseteq board /\ cached \subseteq Names
    /\ \A a \in Names : /\ reads.read[a].turn \in 0..MaxTurn \cup {None}
                        /\ reads.read[a].text \in 0..MaxTurn
                        /\ reads.failed[a] \in 0..MaxTurn \cup {None}
    /\ Cardinality(Flying(reads)) <= Cap

\* "A result for a turn other than the agent's current one, or for an agent
\* no longer on a text card, is dropped; the current turn is then read"
\* (cardTextModel.ts:12-14): however turns end, cards change and reads overtake
\* one another at the cap, every card comes to show its agent's last answer,
\* but for one whose read failed for that turn or whose last turn had none.
\* So it is from some point on.
CaughtUp ==
    \A a \in carded \ cached :
        answer[a] = turn[a] => reads.read[a] = [turn |-> turn[a], text |-> turn[a]] \/ reads.failed[a] = turn[a]

\* "An agent is read again only once a turn ends", failures included: no agent
\* is being read for a turn it was read for already.  The landing of a read
\* starts the next ones in the same step, its own agent's too, so a read due
\* again for its turn would be asked for without end.  (cardTextModel.ts:11-15)
OncePerTurn ==
    \A a \in Names : reads.flight[a] # None => reads.flight[a].turn \notin settled[a]
=============================================================================
