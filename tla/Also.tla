-------------------------------- MODULE Also --------------------------------
(***************************************************************************)
(* One other local target of a route (src/feed/also.go): concurrent offers *)
(* from the feed's workers and the facade's requests, the queue bounded by *)
(* count and by bytes, the target's own workers with their retries, and    *)
(* the stop, which drains nothing.                                         *)
(*                                                                         *)
(* The started flag, the byte counter and the channel are three objects,   *)
(* so an offer is cut between them; a worker books the result and gives    *)
(* the bytes back in two steps.  Unlike the feed's, these bytes are held   *)
(* until the target has answered.                                          *)
(***************************************************************************)
EXTENDS Integers, Sequences, FiniteSets, FiniteSetsExt

CONSTANTS
  Offers,      \* the calls of Offer, each standing for its object
  Size,        \* bytes of each object
  Worker,      \* the goroutines of Start
  QueueDepth,  \* Also.QueueDepth
  QueueBytes,  \* Also.QueueBytes
  Retries,     \* Also.Retries
  NoOffer      \* a worker has no job

AlsoConstants ==
  /\ Size \in [Offers -> Nat \ {0}]
  /\ QueueDepth \in Nat \ {0} /\ QueueBytes \in Nat \ {0} /\ Retries \in Nat
  /\ NoOffer \notin Offers

VARIABLES
  offer,    \* where each call of Offer is, or how it ended
  started,  \* Also.started
  done,     \* the context of Start is cancelled
  q,        \* Also.q
  bytes,    \* Also.bytes
  work,     \* where each worker is, its job, and the attempts that failed
  results   \* Also.results

startVars == <<started, done>>
vars == <<offer, started, done, q, bytes, work, results>>

Results == {"ok", "refused", "error", "shed"}

-----------------------------------------------------------------------------
(* Offer *)

OfferTo(o, from, to) == offer[o] = from /\ offer' = [offer EXCEPT ![o] = to]

Add(result) == results' = [results EXCEPT ![result] = @ + 1]

\* Offers made while the workers do not run are shed and counted.
CheckStarted(o) ==
  /\ \/ started /\ OfferTo(o, "none", "reserve") /\ UNCHANGED results
     \/ ~started /\ OfferTo(o, "none", "shed") /\ Add("shed")
  /\ UNCHANGED <<q, bytes, work>> /\ UNCHANGED startVars

\* Mutant: the test is on the bytes before this object.
ReserveStale(o) ==
  /\ OfferTo(o, "reserve", IF bytes > QueueBytes THEN "undo" ELSE "put")
  /\ bytes' = bytes + Size[o]
  /\ UNCHANGED <<q, work, results>> /\ UNCHANGED startVars

\* The bytes are added first and tested after.
Reserve(o) ==
  /\ OfferTo(o, "reserve", IF bytes + Size[o] > QueueBytes THEN "undo" ELSE "put")
  /\ bytes' = bytes + Size[o]
  /\ UNCHANGED <<q, work, results>> /\ UNCHANGED startVars

Put(o) ==
  /\ Len(q) < QueueDepth
  /\ OfferTo(o, "put", "queued")
  /\ q' = Append(q, o)
  /\ UNCHANGED <<bytes, work, results>> /\ UNCHANGED startVars

PutFull(o) ==
  /\ Len(q) = QueueDepth
  /\ OfferTo(o, "put", "undo")
  /\ UNCHANGED <<q, bytes, work, results>> /\ UNCHANGED startVars

\* The bytes go back, and the object is counted as shed.
Undo(o) ==
  /\ OfferTo(o, "undo", "shed") /\ Add("shed")
  /\ bytes' = bytes - Size[o]
  /\ UNCHANGED <<q, work>> /\ UNCHANGED startVars

-----------------------------------------------------------------------------
(* Start and its workers *)

IdleWorker == [pc |-> "select", o |-> NoOffer, attempt |-> 0]

WorkTo(w, pc, o, attempt) ==
  work' = [work EXCEPT ![w] = [pc |-> pc, o |-> o, attempt |-> attempt]]

\* Even after the context is done: the select may take either case.
Receive(w) ==
  /\ work[w].pc = "select" /\ q # <<>>
  /\ WorkTo(w, "submit", Head(q), 0)
  /\ q' = Tail(q)
  /\ UNCHANGED <<offer, bytes, results>> /\ UNCHANGED startVars

\* The result of process is counted; the bytes are still held.
Book(w, result) ==
  /\ WorkTo(w, "release", work[w].o, 0)
  /\ Add(result)
  /\ UNCHANGED <<offer, q, bytes>> /\ UNCHANGED startVars

SubmitOK(w) == work[w].pc = "submit" /\ Book(w, "ok")

\* A 4xx: not asked again.
SubmitRefused(w) == work[w].pc = "submit" /\ Book(w, "refused")

\* A failure is tried again until the attempts or the context end.
SubmitFail(w) ==
  /\ work[w].pc = "submit"
  /\ IF work[w].attempt >= Retries \/ done
     THEN Book(w, "error")
     ELSE /\ WorkTo(w, "backoff", work[w].o, work[w].attempt)
          /\ UNCHANGED <<offer, q, bytes, results>> /\ UNCHANGED startVars

\* Mutant: the attempts are not counted.
BackoffEndUncounted(w) ==
  /\ work[w].pc = "backoff"
  /\ WorkTo(w, "submit", work[w].o, work[w].attempt)
  /\ UNCHANGED <<offer, q, bytes, results>> /\ UNCHANGED startVars

BackoffEnd(w) ==
  /\ work[w].pc = "backoff"
  /\ WorkTo(w, "submit", work[w].o, work[w].attempt + 1)
  /\ UNCHANGED <<offer, q, bytes, results>> /\ UNCHANGED startVars

BackoffCut(w) == work[w].pc = "backoff" /\ done /\ Book(w, "error")

Release(w) ==
  /\ work[w].pc = "release"
  /\ bytes' = bytes - Size[work[w].o]
  /\ work' = [work EXCEPT ![w] = IdleWorker]
  /\ UNCHANGED <<offer, q, results>> /\ UNCHANGED startVars

\* What is left in the queue is abandoned.
WorkerExit(w) ==
  /\ work[w].pc = "select" /\ done
  /\ work' = [work EXCEPT ![w].pc = "exit"]
  /\ UNCHANGED <<offer, q, bytes, results>> /\ UNCHANGED startVars

StartBegin ==
  /\ ~started /\ \A w \in Worker : work[w].pc # "exit"
  /\ started' = TRUE
  /\ UNCHANGED <<offer, done, q, bytes, work, results>>

Stop ==
  /\ started /\ ~done
  /\ done' = TRUE
  /\ UNCHANGED <<offer, started, q, bytes, work, results>>

StartReturn ==
  /\ started /\ done /\ \A w \in Worker : work[w].pc = "exit"
  /\ started' = FALSE
  /\ UNCHANGED <<offer, done, q, bytes, work, results>>

-----------------------------------------------------------------------------

Init ==
  /\ offer = [o \in Offers |-> "none"]
  /\ started = FALSE /\ done = FALSE
  /\ q = <<>> /\ bytes = 0
  /\ work = [w \in Worker |-> IdleWorker]
  /\ results = [r \in Results |-> 0]

OfferStep(o) == Reserve(o) \/ Put(o) \/ PutFull(o) \/ Undo(o)

\* The goroutines exist while Start runs.
WorkStep(w) ==
  /\ started
  /\ \/ Receive(w) \/ SubmitOK(w) \/ SubmitRefused(w) \/ SubmitFail(w)
     \/ BackoffEnd(w) \/ BackoffCut(w) \/ Release(w) \/ WorkerExit(w)

Next ==
  \/ \E o \in Offers : CheckStarted(o) \/ OfferStep(o)
  \/ \E w \in Worker : WorkStep(w)
  \/ StartBegin \/ Stop \/ StartReturn

Spec == Init /\ [][Next]_vars

-----------------------------------------------------------------------------
(* Properties *)

\* The state of the target is well typed; the byte counter is never negative.
TypeOK ==
  /\ offer \in [Offers -> {"none", "reserve", "put", "undo", "queued", "shed"}]
  /\ started \in BOOLEAN /\ done \in BOOLEAN
  /\ q \in Seq(Offers) /\ Len(q) <= QueueDepth
  /\ bytes \in Nat
  /\ work \in [Worker -> [pc : {"select", "submit", "backoff", "release", "exit"},
                          o : Offers \cup {NoOffer}, attempt : 0..Retries]]
  /\ results \in [Results -> Nat]

InQueue == {q[i] : i \in DOMAIN q}
Hands == {work[w].o : w \in Worker} \ {NoOffer}
Reserving == {o \in Offers : offer[o] \in {"put", "undo"}}
SizeOf(S) == MapThenSumSet(LAMBDA o : Size[o], S)

\* Also.bytes counts the objects waiting, those in a worker's hands until the
\* target has answered and been counted, and those of offers under way; and the
\* bound is on all the target holds, however offers, takes and releases
\* interleave: "QueueBytes bounds the bytes waiting or in a worker's hands".
BytesAccounted ==
  /\ TypeOK
  /\ bytes = SizeOf(InQueue \cup Hands \cup Reserving)
  /\ SizeOf(InQueue \cup Hands) <= QueueBytes

AtWorker(o) == {w \in Worker : work[w].o = o}

\* Offers that are over: shed, or taken and answered for.
Over == {o \in Offers : \/ offer[o] = "shed"
                        \/ /\ offer[o] = "queued" /\ o \notin InQueue
                           /\ \A w \in AtWorker(o) : work[w].pc = "release"}

\* Each offer is counted once, when it is over and not before, under one
\* result, also when the stop cuts a retry short; it is shed or it is in one
\* place, never both.
OffersCounted ==
  /\ MapThenSumSet(LAMBDA r : results[r], Results) = Cardinality(Over)
  /\ results["shed"] = Cardinality({o \in Offers : offer[o] = "shed"})
  /\ \A o \in Offers :
       /\ Cardinality({i \in DOMAIN q : q[i] = o}) + Cardinality(AtWorker(o)) <= 1
       /\ o \in InQueue \cup Hands => offer[o] = "queued"

-----------------------------------------------------------------------------
(* Fairness: an offer is straight code; a worker goes on, its submit bounded *)
(* by the client's timeout.  Nothing says that the target ever answers.      *)

Fairness ==
  /\ \A o \in Offers : WF_vars(OfferStep(o))
  /\ \A w \in Worker : WF_vars(WorkStep(w))
  /\ WF_vars(StartReturn)

FairSpec == Spec /\ Fairness

\* A target that is down for ever still lets go of every object it held, unless
\* the process stops first: none is retried without end.  Told to stop, Start
\* returns although it drains nothing.
HandsEmptied ==
  /\ \A o \in Offers : (offer[o] = "queued") ~> (o \in Over \/ done)
  /\ done ~> ~started

=============================================================================
