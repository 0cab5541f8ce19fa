------------------------------- MODULE Shadow -------------------------------
(***************************************************************************)
(* The shadow engine of src/feed/shadow.go: offers that never block, the   *)
(* queue bounded by count, the workers that ask the shadow once and compare *)
(* its answer with the primary's, and the counters.                        *)
(*                                                                         *)
(* An answer lists the outputs admitted and the coins retained.  The       *)
(* canonical strings of the code are the sorted sequences they spell.      *)
(***************************************************************************)
EXTENDS Integers, Sequences, FiniteSets, FiniteSetsExt, Functions

CONSTANTS
  Offers,      \* the calls of Offer
  Answers,     \* the answers an engine may give for a topic
  NoAnswer,    \* it gave none
  Worker,      \* the goroutines of Start
  QueueDepth,  \* Shadow.QueueDepth
  NoOffer      \* a worker has no job

\* An answer lists the numbers of outputs, which are naturals.
ShadowConstants ==
  /\ \A a \in Answers : a.outputs \in Seq(Nat) /\ a.coins \in Seq(Nat)
  /\ QueueDepth \in Nat \ {0}
  /\ NoAnswer \notin Answers /\ NoOffer \notin Offers

VARIABLES
  offer,      \* where each call of Offer is, or how it ended
  primary,    \* the primary's answer each offer carries
  started,    \* Shadow.started
  done,       \* the context of Start is cancelled
  q,          \* Shadow.q
  work,       \* where each worker is, its job, and the shadow's answer to it
  kinds,      \* shadowCounters.kinds
  submitted,  \* shadowCounters.submitted
  verdict     \* history: the comparisons made, by offer

startVars == <<started, done>>
countVars == <<kinds, submitted, verdict>>
vars == <<offer, primary, started, done, q, work, kinds, submitted, verdict>>

Compared == {"match", "primary_only", "shadow_only", "differ"}
Kinds == Compared \cup {"shadow_error", "shadow_dropped"}

-----------------------------------------------------------------------------
(* The comparison *)

Times(x, s) == Cardinality({i \in DOMAIN s : s[i] = x})

\* Mutant: the lists are compared as they come.
CanonUnsorted(v) == v

\* A copy of the list, sorted: the same members as often, in their order.
Canon(v) ==
  CHOOSE s \in [DOMAIN v -> Range(v)] :
    /\ \A i, j \in DOMAIN s : i < j => s[i] <= s[j]
    /\ \A x \in Range(v) : Times(x, s) = Times(x, v)

\* The outputs and the coins of an answer, in canonical form.
Sets(a) == IF a = NoAnswer THEN <<<<>>, <<>>>> ELSE <<Canon(a.outputs), Canon(a.coins)>>

Classify(p, s) ==
  LET mine == Sets(p)
      theirs == Sets(s)
      empty == <<<<>>, <<>>>>
  IN  CASE mine = theirs                      -> "match"
        [] mine # theirs /\ mine = empty      -> "shadow_only"
        [] mine # theirs /\ theirs = empty    -> "primary_only"
        [] OTHER                              -> "differ"

-----------------------------------------------------------------------------
(* Offer *)

OfferTo(o, from, to) == offer[o] = from /\ offer' = [offer EXCEPT ![o] = to]

Add(kind) == kinds' = [kinds EXCEPT ![kind] = @ + 1]

\* A primary that refused or could not be reached has no answer.
CheckStarted(o) ==
  /\ \/ started /\ OfferTo(o, "none", "put") /\ UNCHANGED kinds
     \/ ~started /\ OfferTo(o, "none", "dropped") /\ Add("shadow_dropped")
  /\ \E a \in Answers \cup {NoAnswer} : primary' = [primary EXCEPT ![o] = a]
  /\ UNCHANGED <<q, work, submitted, verdict>> /\ UNCHANGED startVars

Put(o) ==
  /\ Len(q) < QueueDepth
  /\ OfferTo(o, "put", "queued")
  /\ q' = Append(q, o)
  /\ UNCHANGED <<primary, work>> /\ UNCHANGED startVars /\ UNCHANGED countVars

PutFull(o) ==
  /\ Len(q) = QueueDepth
  /\ OfferTo(o, "put", "dropped") /\ Add("shadow_dropped")
  /\ UNCHANGED <<primary, q, work, submitted, verdict>> /\ UNCHANGED startVars

-----------------------------------------------------------------------------
(* Start and its workers *)

IdleWorker == [pc |-> "select", o |-> NoOffer, answer |-> NoAnswer]

\* Even after the context is done: the select may take either case.
Receive(w) ==
  /\ work[w].pc = "select" /\ q # <<>>
  /\ work' = [work EXCEPT ![w] = [IdleWorker EXCEPT !.pc = "submit", !.o = Head(q)]]
  /\ q' = Tail(q)
  /\ UNCHANGED <<offer, primary>> /\ UNCHANGED startVars /\ UNCHANGED countVars

\* The worker is through with its job, which ends under this kind.
Finish(w, kind) ==
  /\ Add(kind)
  /\ work' = [work EXCEPT ![w] = IdleWorker]
  /\ UNCHANGED <<offer, primary, q>> /\ UNCHANGED startVars

\* Unreachable, refused or failed: the shadow is not asked again.
SubmitFail(w) ==
  /\ work[w].pc = "submit"
  /\ Finish(w, "shadow_error")
  /\ UNCHANGED <<submitted, verdict>>

\* It answered, with or without an entry for the topic.
SubmitOK(w) ==
  /\ work[w].pc = "submit"
  /\ \E a \in Answers \cup {NoAnswer} :
       work' = [work EXCEPT ![w].pc = "compare", ![w].answer = a]
  /\ submitted' = submitted + 1
  /\ UNCHANGED <<offer, primary, q, kinds, verdict>> /\ UNCHANGED startVars

NoEntry(w) ==
  /\ work[w].pc = "compare" /\ work[w].answer = NoAnswer
  /\ Finish(w, "shadow_error")
  /\ UNCHANGED <<submitted, verdict>>

\* Mutant: a comparison that matches is not counted.
CompareMismatches(w) ==
  /\ work[w].pc = "compare" /\ work[w].answer # NoAnswer
  /\ LET kind == Classify(primary[work[w].o], work[w].answer)
     IN  /\ IF kind = "match" THEN UNCHANGED kinds ELSE Add(kind)
         /\ verdict' = verdict \cup {[p |-> primary[work[w].o], s |-> work[w].answer, kind |-> kind]}
  /\ work' = [work EXCEPT ![w] = IdleWorker]
  /\ UNCHANGED <<offer, primary, q, submitted>> /\ UNCHANGED startVars

Compare(w) ==
  /\ work[w].pc = "compare" /\ work[w].answer # NoAnswer
  /\ LET kind == Classify(primary[work[w].o], work[w].answer)
     IN  /\ Finish(w, kind)
         /\ verdict' = verdict \cup {[p |-> primary[work[w].o], s |-> work[w].answer, kind |-> kind]}
  /\ UNCHANGED submitted

\* What is left in the queue is abandoned.
WorkerExit(w) ==
  /\ work[w].pc = "select" /\ done
  /\ work' = [work EXCEPT ![w].pc = "exit"]
  /\ UNCHANGED <<offer, primary, q>> /\ UNCHANGED startVars /\ UNCHANGED countVars

StartBegin ==
  /\ ~started /\ \A w \in Worker : work[w].pc # "exit"
  /\ started' = TRUE
  /\ UNCHANGED <<offer, primary, done, q, work>> /\ UNCHANGED countVars

Stop ==
  /\ started /\ ~done
  /\ done' = TRUE
  /\ UNCHANGED <<offer, primary, started, q, work>> /\ UNCHANGED countVars

StartReturn ==
  /\ started /\ done /\ \A w \in Worker : work[w].pc = "exit"
  /\ started' = FALSE
  /\ UNCHANGED <<offer, primary, done, q, work>> /\ UNCHANGED countVars

-----------------------------------------------------------------------------

Init ==
  /\ offer = [o \in Offers |-> "none"] /\ primary = [o \in Offers |-> NoAnswer]
  /\ started = FALSE /\ done = FALSE
  /\ q = <<>>
  /\ work = [w \in Worker |-> IdleWorker]
  /\ kinds = [k \in Kinds |-> 0] /\ submitted = 0 /\ verdict = {}

\* The goroutines exist while Start runs.
WorkStep(w) ==
  /\ started
  /\ \/ Receive(w) \/ SubmitFail(w) \/ SubmitOK(w) \/ NoEntry(w) \/ Compare(w) \/ WorkerExit(w)

Next ==
  \/ \E o \in Offers : CheckStarted(o) \/ Put(o) \/ PutFull(o)
  \/ \E w \in Worker : WorkStep(w)
  \/ StartBegin \/ Stop \/ StartReturn

Spec == Init /\ [][Next]_vars

-----------------------------------------------------------------------------
(* Properties *)

\* The state of the shadow is well typed.
TypeOK ==
  /\ offer \in [Offers -> {"none", "put", "queued", "dropped"}]
  /\ primary \in [Offers -> Answers \cup {NoAnswer}]
  /\ started \in BOOLEAN /\ done \in BOOLEAN
  /\ q \in Seq(Offers) /\ Len(q) <= QueueDepth
  /\ work \in [Worker -> [pc : {"select", "submit", "compare", "exit"},
                          o : Offers \cup {NoOffer}, answer : Answers \cup {NoAnswer}]]
  /\ kinds \in [Kinds -> Nat] /\ submitted \in Nat

InQueue == {q[i] : i \in DOMAIN q}
Hands == {work[w].o : w \in Worker} \ {NoOffer}
Count(S) == MapThenSumSet(LAMBDA k : kinds[k], S)

\* Every offer is counted once under one kind: dropped, or processed.  The
\* submits that reached the shadow are the comparisons made, the answers
\* without an entry, which are counted as errors, and those being compared.
KindsAddUp ==
  LET comparing == Cardinality({w \in Worker : work[w].pc = "compare"})
  IN  /\ TypeOK
      /\ kinds["shadow_dropped"] = Cardinality({o \in Offers : offer[o] = "dropped"})
      /\ Count(Kinds \ {"shadow_dropped"})
           = Cardinality({o \in Offers : offer[o] = "queued"} \ (InQueue \cup Hands))
      /\ Count(Compared) + comparing <= submitted
      /\ submitted <= Count(Compared \cup {"shadow_error"}) + comparing

\* The two lists are of the same set, and a list names nothing twice.
SameSet(s, t) == Range(s) = Range(t)
Distinct(s) == \A i, j \in DOMAIN s : s[i] = s[j] => i = j

Outputs(a) == IF a = NoAnswer THEN <<>> ELSE a.outputs
Coins(a) == IF a = NoAnswer THEN <<>> ELSE a.coins
Nothing(a) == Outputs(a) = <<>> /\ Coins(a) = <<>>

\* What Classify counts, against a definition that sorts nothing: a match is
\* the same sets of outputs and of coins; between answers that name nothing
\* twice, the same sets in whatever order are a match; silence on one side is
\* told from a disagreement, and a primary without an answer admitted nothing.
VerdictsRight ==
  \A v \in verdict :
    LET same == SameSet(Outputs(v.p), Outputs(v.s)) /\ SameSet(Coins(v.p), Coins(v.s))
        plain == \A a \in {v.p, v.s} : Distinct(Outputs(a)) /\ Distinct(Coins(a))
    IN  /\ v.kind = "match" => same
        /\ plain /\ same => v.kind = "match"
        /\ v.kind = "primary_only" <=> Nothing(v.s) /\ ~Nothing(v.p)
        /\ v.kind = "shadow_only" <=> Nothing(v.p) /\ ~Nothing(v.s)

-----------------------------------------------------------------------------
(* Fairness: an offer is straight code; a worker goes on, its submit bounded *)
(* by the client's timeout.  Nothing says that the shadow ever answers.      *)

Fairness ==
  /\ \A o \in Offers : WF_vars(Put(o) \/ PutFull(o))
  /\ \A w \in Worker : WF_vars(WorkStep(w))
  /\ WF_vars(StartReturn)

FairSpec == Spec /\ Fairness

\* Every offer ends under a kind unless the process stops first, and a stop
\* ends although it drains nothing: a shadow that is down holds nobody.
OffersEnd ==
  /\ \A o \in Offers :
       offer[o] \in {"put", "queued"}
         ~> (\/ offer[o] = "dropped" \/ done
             \/ offer[o] = "queued" /\ o \notin InQueue \cup Hands)
  /\ done ~> ~started

=============================================================================
