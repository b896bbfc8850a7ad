---------------------------- MODULE MCHerderLive ----------------------------
(***************************************************************************)
(* What a page keeps live: its terminal (HerderTerm) and its event stream   *)
(* (HerderStream), without file panels or, with an act less, with them.     *)
(* Stream and terminal share no state, so a behavior runs one of them and   *)
(* the other rests; a run checks the two side by side.                      *)
(***************************************************************************)
EXTENDS HerderTerm

CONSTANTS Agents, Files, MaxLog, MaxSession, Sends, Acts

VARIABLES
    part,    \* which of them this behavior runs
    spage, watch, wire, srv, log, cache, send, past, spent

svars == <<spage, watch, wire, srv, log, cache, send, past, spent>>

S == INSTANCE HerderStream WITH page <- spage

ASSUME S!StreamAssumption

\* The part that rests does so from one of its initial states.
MCInit ==
    /\ Init /\ S!Init /\ part \in {"stream", "files", "terminal"}
    /\ part # "terminal" => page.target = NoPane /\ page.grid = CHOOSE g \in Sizes : TRUE
    /\ part = "terminal" => spage.want = {}

MCNext ==
    /\ part' = part
    /\ \/ part = "stream" /\ S!Next /\ UNCHANGED <<watch, vars>>
       \/ part = "files" /\ S!Next /\ spent' < Acts /\ UNCHANGED vars
       \/ part = "terminal" /\ Next /\ UNCHANGED svars

MCSpec == MCInit /\ [][MCNext]_<<part, vars, svars>>

\* A page at rest follows what it wants, and shows it as it is.
\* (useFleetStream.ts)
StillCurrent == S!StillFollows /\ S!StillFresh

\* A message wake that a send took over is answered by a fetch served later.
\* (sendRefresh.ts)
WakeAnswered == S!WakeAnswered
=============================================================================
