------------------------------- MODULE MCWorkers -------------------------------
(***************************************************************************)
(* Instances of Webhooks and Extraction for TLC.  They share nothing, so a *)
(* behaviour moves only one of them, chosen at the start.                  *)
(***************************************************************************)
EXTENDS WebhooksProperties, TLC

CONSTANTS
    c1, c2, k1, k2,
    Docs, FirstDoc, Jobs, Calls, Keys, Extractors

VARIABLES
    moving,     \* the component that moves
    quote, job, queue, payload, call, extractor, left

extractionVars == <<quote, job, queue, payload, call, extractor, left>>

\* Two calls with keys of their own, or a client that sends its call again with its key.
OwnOrSame == {c1 :> k1 @@ c2 :> k2, c1 :> k1 @@ c2 :> k1}

X == INSTANCE ExtractionProperties
     WITH KeysSent <- OwnOrSame, Workers <- Extractors, worker <- extractor

ASSUME ExtractionAssumption == X!Assumptions

\* Calls differ in nothing but their keys, so the second begins after the first.
InOrder == call[c2].pc # "start" => call[c1].pc # "start"

\* The one that does not move has one initial state.
WorkersInit ==
    /\ Init /\ X!Init /\ InOrder
    /\ \/ moving = "extraction"
       \/ moving = "webhooks" /\ quote.status = "pending" /\ \A c \in Calls : call[c].key = k1

WorkersNext ==
    \/ moving = "webhooks" /\ Next /\ UNCHANGED <<moving, extractionVars>>
    \/ moving = "extraction" /\ X!Next /\ InOrder' /\ UNCHANGED <<moving, vars>>

WorkersSpec ==
    /\ WorkersInit /\ [][WorkersNext]_<<moving, vars, extractionVars>>
    /\ Fairness /\ X!Fairness

\* What Extraction promises, in this instance.
EveryExtractionEnds == X!EveryExtractionEnds
NoJobBlocks == X!NoJobBlocks
=============================================================================
