--------------------------- MODULE MCHerderArrival ---------------------------
(***************************************************************************)
(* What has to arrive in the end: the members of a space in every browser   *)
(* (HerderMembers), the last answer of an agent on its card (HerderCards).  *)
(* They share no state, so a behavior runs one of them and the other rests; *)
(* a run checks the two side by side.                                       *)
(***************************************************************************)
EXTENDS HerderMembers, TLC

CONSTANTS a1, a2, None, MaxActs

VARIABLES
    part,    \* which of them this behavior runs
    turn, answer, board, carded, cached, reads, settled, shifts

cvars == <<turn, answer, board, carded, cached, reads, settled, shifts>>

C == INSTANCE HerderCards
     WITH Agents <- <<a1, a2>>, Cap <- 1, MaxTurn <- 2, MaxShifts <- 2

\* Two browsers, whose docks of the old space differ.
MCStarts == {"b1" :> <<"x">> @@ "b2" :> <<"y">>}

MCInit == Init /\ (\A b \in Browsers : page[b].blank = {}) /\ C!Init /\ part \in {"members", "cards"}

\* The two browsers differ by their names alone, so the first act is b1's.
FirstOfOne ==
    edits + faults = 0 /\ edits' + faults' = 1
        => store'["b2"] = store["b2"] /\ page'["b2"].up = page["b2"].up

\* Only b2's page may be slow to mount the dock it shows, the lane's, and only
\* when it has been left and loads again.
Mounts ==
    /\ page'["b1"].blank = {}
    /\ ~page'["b2"].up /\ edits' > 0 /\ page["b2"].up => page'["b2"].blank = {"lane"}

\* MaxActs bounds what users do and the layouts storage refuses, together.
Within(A) == A /\ edits' + faults' <= MaxActs /\ FirstOfOne /\ Mounts

InMembers(A) == part = "members" /\ Within(A) /\ UNCHANGED <<part, cvars>>
InCards(A) == part = "cards" /\ A /\ UNCHANGED <<part, vars>>

MCNext == InMembers(Next) \/ InCards(C!Next)

MCSpec ==
    /\ MCInit /\ [][MCNext]_<<part, vars, cvars>>
    /\ \A b \in Browsers : WF_<<part, vars, cvars>>(InMembers(System(b)))
    /\ \A a \in {a1, a2} : /\ WF_<<part, vars, cvars>>(InCards(C!Serve(a)))
                           /\ WF_<<part, vars, cvars>>(InCards(\E ok \in BOOLEAN : C!Lands(a, ok)))

\* No agent is being read again for a turn it was read for.  (cardTextModel.ts)
OncePerTurn == C!OncePerTurn

\* A row reaches every browser, and every card comes to show its agent's last
\* answer.  (spaceMembers.ts, cardTextModel.ts:12-14)
AllArrives == <>[]((part = "members" => RowsOpened) /\ C!CaughtUp)
=============================================================================
