------------------------------ MODULE Targets ------------------------------
(***************************************************************************)
(* The second target of a route (src/feed/route.go): a behaviour is of     *)
(* one, another local target (Also) or the shadow of the primary (Shadow). *)
(* The two share no state: each is offered the objects its caller has.     *)
(***************************************************************************)
EXTENDS Integers

CONSTANTS
  TargetWorker,   \* the goroutines of the target's Start
  TargetDepth,    \* its QueueDepth
  NoTargetOffer,  \* a worker has no job
  AlsoOffers,     \* the calls of Also.Offer, each standing for its object
  AlsoSize,       \* bytes of each object
  AlsoBytes,      \* Also.QueueBytes
  AlsoRetries,    \* Also.Retries
  ShadowOffers,   \* the calls of Shadow.Offer
  Answers,        \* the answers an engine may give for a topic
  NoAnswer        \* it gave none

VARIABLES
  target,  \* the one target the route has beside its primary
  aOffer, aStarted, aDone, aQ, aBytes, aWork, aResults,
  sOffer, sPrimary, sStarted, sDone, sQ, sWork, sKinds, sSubmitted, sVerdict

Al == INSTANCE Also WITH
  Worker <- TargetWorker, QueueDepth <- TargetDepth, NoOffer <- NoTargetOffer,
  Offers <- AlsoOffers, Size <- AlsoSize, QueueBytes <- AlsoBytes,
  Retries <- AlsoRetries, offer <- aOffer, started <- aStarted, done <- aDone,
  q <- aQ, bytes <- aBytes, work <- aWork, results <- aResults

Sh == INSTANCE Shadow WITH
  Worker <- TargetWorker, QueueDepth <- TargetDepth, NoOffer <- NoTargetOffer,
  Offers <- ShadowOffers, offer <- sOffer, primary <- sPrimary,
  started <- sStarted, done <- sDone, q <- sQ, work <- sWork, kinds <- sKinds,
  submitted <- sSubmitted, verdict <- sVerdict

ASSUME AlsoAssumption == Al!AlsoConstants
ASSUME ShadowAssumption == Sh!ShadowConstants

aVars == <<aOffer, aStarted, aDone, aQ, aBytes, aWork, aResults>>
sVars == <<sOffer, sPrimary, sStarted, sDone, sQ, sWork, sKinds, sSubmitted, sVerdict>>
targetVars == <<target, aVars, sVars>>

TargetInit == target \in {"also", "shadow"} /\ Al!Init /\ Sh!Init

TargetNext ==
  /\ UNCHANGED target
  /\ \/ target = "also" /\ Al!Next /\ UNCHANGED sVars
     \/ target = "shadow" /\ Sh!Next /\ UNCHANGED aVars

\* A target that is not configured takes no step and owes none: its fairness
\* asks for nothing before its first offer.
TargetSpec ==
  TargetInit /\ [][TargetNext]_targetVars /\ Al!Fairness /\ Sh!Fairness

\* The also target's counter is the bytes of all it holds, those in a worker's
\* hands included until the target has answered, and what it has admitted keeps
\* to its bound, however offers, takes and releases interleave.
TargetBytesAccounted == Al!BytesAccounted

\* Each offer is counted once and under one outcome, by either target: an also
\* target's results sum to its offers that are over, and a shadow's kinds to
\* its offers dropped, compared or failed.
EveryOfferCounted == Al!OffersCounted /\ Sh!KindsAddUp

\* What a shadow counts as a match is the same sets of outputs and coins, and
\* the same sets in any order are one unless an answer names something twice.
VerdictsRight == Sh!VerdictsRight

\* A target that is down for ever lets go of every object, and of a stop.
TargetsLetGo == Al!HandsEmptied /\ Sh!OffersEnd

=============================================================================
