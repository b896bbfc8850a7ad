--------------------------- MODULE MCHerderReading ---------------------------
(***************************************************************************)
(* What the owner reads and how they get to it: read marks over browsers    *)
(* (HerderAttention), the walk over the spaces that need them (HerderLens), *)
(* and the palette with a transcript's double-click (HerderPalette).  They  *)
(* share no state, so a behavior runs one of them and the others rest; a    *)
(* run checks the three side by side.                                       *)
(***************************************************************************)
EXTENDS HerderAttention, TLC

CONSTANTS s1, s2, s3, a1, a2, a3, q1, q2, f1, f2

VARIABLES
    part,    \* which of them this behavior runs
    live, board, needs, rows, pick, last, view, active, selected, passed, moves, shifts,
    palette, found, asking, calls, popover, opened, request, spaces, agents, deeds, news, habit

lvars == <<live, board, needs, rows, pick, last, view, active, selected, passed, moves, shifts>>
pvars == <<palette, found, asking, calls, popover, opened, request, spaces, agents, deeds, news, habit>>

\* Two browsers, two turns over two sessions.
MCEnds == <<[session |-> "s1", offset |-> 1], [session |-> "s2", offset |-> 1]>>

\* Three spaces, one of them empty, an agent in two of them and one in none.
L == INSTANCE HerderLens
     WITH Spaces <- <<s1, s2, s3>>, Agents <- <<a1, a2, a3>>, PerLine <- 2,
          Members <- [s \in {s1, s2, s3} |->
                        CASE s = s1 -> <<a1, a2>> [] s = s2 -> <<a2>> [] s = s3 -> <<>>],
          MaxMoves <- 1, MaxShifts <- 1

\* The palette over a space, the subject and another agent, and two texts:
\* q1 is within the space's name and begins an agent's; q2 matches nothing.
MCRank == [x \in {s1, a1, a2} |-> [q \in {q1, q2} |->
             IF q # q1 THEN -1 ELSE CASE x = s1 -> 2 [] x = a1 -> -1 [] x = a2 -> 1]]

Fuzzy(f) == [file |-> f, tier |-> "fuzzy"]
Exact(f) == [file |-> f, tier |-> "exact"]
MCResolutions ==
    {[complete |-> TRUE, cut |-> TRUE, files |-> <<Exact(f1), Fuzzy(f2)>>],
     [complete |-> FALSE, cut |-> FALSE, files |-> <<Exact(f1)>>]}

P == INSTANCE HerderPalette
     WITH Texts <- {q1, q2}, Spaces <- <<s1>>, Agents <- <<a1, a2>>, Rank <- MCRank,
          Subject <- a1, Below <- {}, Known <- {s1, a1}, Resolutions <- MCResolutions,
          MaxDeeds <- [find |-> 2, assign |-> 4, transcript |-> 4], MaxNews <- 1

\* The parts that rest do so from one of their initial states.
MCInit ==
    /\ Init /\ L!Init /\ P!Init /\ part \in {"attention", "lens", "palette"}
    /\ part # "palette" => habit = "find"

MCNext ==
    /\ part' = part
    /\ \/ part = "attention" /\ Next /\ UNCHANGED <<lvars, pvars>>
       \/ part = "lens" /\ L!Next /\ UNCHANGED <<vars, pvars>>
       \/ part = "palette" /\ P!Next /\ UNCHANGED <<vars, lvars>>

MCSpec == MCInit /\ [][MCNext]_<<part, vars, lvars, pvars>>

\* n and N pass no space that needs the owner for ever.  (useLens.ts:210-224)
NoneStarved == L!NoneStarved

\* Enter acts on the row the owner saw, and a late answer for the gesture that
\* asked.  (quickOpenModel.ts, TranscriptFileResolver.tsx)
PaletteStands == P!HighlightHolds /\ P!OwnAnswers
=============================================================================
