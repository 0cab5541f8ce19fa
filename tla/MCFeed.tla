------------------------------- MODULE MCFeed -------------------------------
(***************************************************************************)
(* The three queues of src/feed for model checking: the feed's own, and    *)
(* those of a route's second target.  They share no state (an Offer is all *)
(* that passes between them), so in a behaviour one of them moves.         *)
(***************************************************************************)
EXTENDS Feed, Targets, TLC

CONSTANTS d1, d2, d3, o1, o2, o3

VARIABLE part  \* which queue is at work: the feed's, or the second target's

\* One object of two topics, and one larger than the queue.
MixedSize == [d \in Delivery |-> IF d = d3 THEN 3 ELSE 1]
MixedNames == [d \in Delivery |-> IF d = d1 THEN 2 ELSE 1]

\* For the also target, two objects of one byte and one of two.
AlsoSizes == [o \in AlsoOffers |-> IF o = o3 THEN 2 ELSE 1]

\* Nothing admitted, and the same outputs in two orders.
FewAnswers == {[outputs |-> v, coins |-> <<>>] : v \in {<<>>, <<1, 2>>, <<2, 1>>}}

MCInit ==
  /\ Init /\ TargetInit
  /\ part \in {"feed", "target"} /\ (part = "feed" => target = "also")

MCNext ==
  /\ UNCHANGED part
  /\ \/ part = "feed" /\ Next /\ UNCHANGED targetVars
     \/ part = "target" /\ TargetNext /\ UNCHANGED vars

\* A queue that is not at work owes nothing: its fairness asks for nothing
\* before its first delivery or offer.
MCSpec ==
  MCInit /\ [][MCNext]_<<part, vars, targetVars>> /\ Fairness /\ Al!Fairness /\ Sh!Fairness

=============================================================================
