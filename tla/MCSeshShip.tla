------------------------------ MODULE MCSeshShip ------------------------------
(***************************************************************************)
(* Three instances of SeshShip over the same variables; a behavior runs one *)
(* of them.  "append": one history of a file that grows, shrinks and goes,  *)
(* with every fault, behind a store that takes smaller bodies than the      *)
(* shipper sends.  "recreate": a file that another may replace at any time. *)
(* "replace": files with fingerprints of their own that replace each other  *)
(* once the shipper has recorded the last, on a network that delays nothing *)
(* and with a registry that is not lost.                                    *)
(***************************************************************************)
EXTENDS SeshShip

CONSTANTS a, b

VARIABLE part   \* which of them this behavior runs

OneLine == <<<<a, b, a>>>>
TwoLines == <<<<a, a, b>>, <<b, b, a>>>>

Recreate == INSTANCE SeshShip
            WITH MaxBody <- 2, Lines <- TwoLines, MaxFaults <- 1,
                 Edits <- {"append", "truncate", "recreate", "delete"}

Replace == INSTANCE SeshShip
           WITH MaxBody <- 2, Lines <- TwoLines, Edits <- {"append", "replace"},
                Delays <- FALSE, RegistryLoss <- FALSE, MaxEdits <- 4

MCInit == Init /\ part \in {"append", "recreate", "replace"}

Of(p, A) == part = p /\ A /\ part' = part

MCNext == \/ Of("append", Next)
          \/ Of("recreate", Recreate!Next)
          \/ Of("replace", Replace!Next)

\* SeshShip's fairness, for the parts whose liveness is checked.
MCSpec ==
    /\ MCInit /\ [][MCNext]_<<part, vars>>
    /\ WF_<<part, vars>>(Of("append", Shipper) \/ Of("recreate", Recreate!Shipper))
    /\ WF_<<part, vars>>(Of("append", Serving) \/ Of("recreate", Recreate!Serving))
    /\ WF_<<part, vars>>(live.st = "broken" /\ (\/ Of("append", LoseCall)
                                                \/ Of("recreate", Recreate!LoseCall)))

\* What the shipper and its network do to the store is among what SeshStore
\* allows any client to do.  (store.go putBytes, ship.go)
StoreSteps == /\ Store!Init
              /\ [][part = "append" => [Store!Next]_storeVars]_<<part, vars>>
              /\ [][part = "recreate" => [Recreate!Store!Next]_storeVars]_<<part, vars>>

\* A file the shipper considers shipped is mirrored, if it is only replaced by
\* files of other fingerprints.  (ship.go shipFile)
ShippedIsMirrored == part = "replace" => QuiescentIsMirrored

\* Once edits and faults stop, the file ends up mirrored, or parked, and the
\* shipper stops sending.  (ship.go RunOnce)
FileArrives == /\ part = "append" => EventuallyMirrored
               /\ part = "recreate" => EventuallyQuiet
=============================================================================
