-------------------------- MODULE MCResponsesGateways --------------------------
(***************************************************************************)
(* Two small gateways in one instance: one speaks of the texts of one      *)
(* message, the other of calls, reasoning and text at two output indexes.  *)
(* Each keeps to its kind throughout; identities come with the terminal    *)
(* output.                                                                 *)
(***************************************************************************)
EXTENDS MCResponsesStream

AllDeltas == TextDeltas \cup MixedDeltas
AllBodies == TextBodies \cup MixedBodies
AllItems == TextItems \cup MixedItems
AllTerminals == TextTerminals \cup MixedTerminals
MCEvents == {"created", "item.added", "text.delta", "text.done", "arguments.delta",
             "arguments.done", "item.done", "terminal"}

VARIABLE gateway  \* "texts" or "mixed"

Texts == INSTANCE ResponsesStream WITH
    Slot <- {0}, Deltas <- TextDeltas, Bodies <- TextBodies, Items <- TextItems,
    Terminals <- TextTerminals, MaxEvents <- MaxEvents + 1,
    Alphabet <- {"created", "text.delta", "text.done", "item.done", "terminal"}

Mixed == INSTANCE ResponsesStream WITH
    Part <- {0}, Name <- {}, Deltas <- MixedDeltas, Bodies <- MixedBodies, Items <- MixedItems,
    Terminals <- MixedTerminals,
    Alphabet <- Alphabet \ {"created", "text.done"}

MCInit == Init /\ gateway \in {"texts", "mixed"}

MCNext ==
    /\ \/ gateway = "texts" /\ Texts!Next
       \/ gateway = "mixed" /\ Mixed!Next
    /\ UNCHANGED gateway

\* The behaviours of FairSpec in front of one of the two.
MCSpec ==
    /\ MCInit
    /\ [][MCNext]_<<vars, gateway>>
    /\ WF_vars(Proceed)
================================================================================
