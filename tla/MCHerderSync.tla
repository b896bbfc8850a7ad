---------------------------- MODULE MCHerderSync ----------------------------
(***************************************************************************)
(* Three instances of HerderSync over the same variables; a behavior runs   *)
(* one of them.  "days": a page and another device over one key and two     *)
(* stamps, each of which may be purged; what the page creates may fail to   *)
(* open.  "keys": a page with two keys, k1 of which may outgrow the         *)
(* server's limit, with another device, a sweep and faults.  "tabs": two    *)
(* pages that hold an empty namespace and write one key.                    *)
(*                                                                         *)
(* The module's own constants are those of "days".  Its properties, read    *)
(* over k1 and t1, hold of every part: k0 behaves as a k1 that never grows, *)
(* and t2 as t1.                                                            *)
(***************************************************************************)
EXTENDS HerderSync, TLC

CONSTANTS k0, k1, t1, t2

VARIABLE part   \* which of them this behavior runs

K == INSTANCE HerderSync
     WITH Keys <- {k0, k1}, Tabs <- {t1}, BigKeys <- {k1}, MaxChunk <- 2, MaxTime <- 1,
          MaxAge <- 1, MaxWid <- 1, Writes <- 1, PeerWrites <- 1, RollsBack <- FALSE,
          Faults <- 1, Refuses <- TRUE

T == INSTANCE HerderSync
     WITH Keys <- {k1}, Tabs <- {t1, t2}, BigKeys <- {}, MaxChunk <- 1, MaxTime <- 1,
          MaxAge <- 0, MaxWid <- 2, Writes <- 2, PeerWrites <- 0, RollsBack <- FALSE,
          Faults <- 0, Refuses <- FALSE

\* Both pages have opened an empty namespace and had their first full pull.
Opened2 == [t \in {t1, t2} |-> [T!Gone EXCEPT !.up = TRUE, !.catchUp = FALSE]]

MCInit ==
    \/ part = "days" /\ Init
    \/ part = "keys" /\ K!Init
    \/ part = "tabs" /\ tab = Opened2 /\ T!Empty

Of(p, A) == part = p /\ A /\ part' = part

MCNext == Of("days", Next) \/ Of("keys", K!Next) \/ Of("tabs", T!Next)

\* HerderSync's fairness, asked of the part whose liveness is checked.
Exchanges ==
    /\ WF_<<part, vars>>(Of("keys", K!Flush(t1)))
    /\ WF_<<part, vars>>(Of("keys", K!Open(t1)))
    /\ \A p \in {"asked", "answered"} : []<>(part = "keys" => tab[t1].pull.phase # p)
    /\ \A p \in {"posting", "stored", "tooLarge"} : []<>(part = "keys" => tab[t1].send.phase # p)
    /\ []<>(part = "keys" => ~tab[t1].timer)
    /\ []<>(part = "keys" => tab[t1].note = 0)

MCSpec == MCInit /\ [][MCNext]_<<part, vars>> /\ Exchanges

\* Every edit reaches the server or is held back.  (stateSync.ts)
EditsArrive == \A k \in {k0, k1} : <>[](part = "keys" => K!Sent(t1, k))
=============================================================================
