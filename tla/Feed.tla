-------------------------------- MODULE Feed --------------------------------
(***************************************************************************)
(* The feed of src/feed: the lane's concurrent calls of Handle, the        *)
(* bounded engine queue, the workers that verify and submit, their retries,*)
(* and the drain at stop.                                                  *)
(*                                                                         *)
(* Feed runs with workers here (Workers > 0), as deployed.  The started    *)
(* flag, the byte counter and the channel are three objects, so Handle is  *)
(* cut between them.  A delivery stands for its object; decoding and its   *)
(* three refusals are one outcome.  The engine, the verifier, the shadow   *)
(* and the other targets are seen as the calls made to them.               *)
(***************************************************************************)
EXTENDS Integers, Sequences, FiniteSets, FiniteSetsExt

CONSTANTS
  Delivery,    \* the calls of Handle
  Size,        \* bytes of each delivery's object
  Names,       \* the number of elected topics each delivery names
  Worker,      \* the goroutines of Start
  QueueDepth,  \* Feed.QueueDepth
  QueueBytes,  \* Feed.QueueBytes (0: by count alone)
  Retries,     \* Feed.submitRetries
  Enforce,     \* VerifyMode is enforce
  NoDelivery   \* a worker has no job

ASSUME FeedAssumption ==
  /\ Size \in [Delivery -> Nat \ {0}] /\ Names \in [Delivery -> Nat \ {0}]
  /\ QueueDepth \in Nat \ {0} /\ QueueBytes \in Nat /\ Retries \in Nat
  /\ Enforce \in BOOLEAN
  /\ NoDelivery \notin Delivery

VARIABLES
  handle,    \* where each call of Handle is, or what it returned
  marked,    \* deliveries the guard has marked Delivered
  started,   \* Feed.started
  stopping,  \* the context of Start is cancelled
  cut,       \* the context of the submits is cancelled
  q,         \* Feed.q
  bytes,     \* Feed.queuedBytes
  work,      \* where each worker is
  booked,    \* what was counted for each topic of a delivery
  shadowed,  \* calls of Shadow.Offer for each topic
  also       \* calls of OfferAlso for each topic

handleVars == <<handle, marked>>
bookVars == <<booked, shadowed, also>>
vars == <<handle, marked, started, stopping, cut, q, bytes, work, booked, shadowed, also>>

\* The topics of a delivery, in the order they are submitted.
TopicsOf(d) == 1..Names[d]

-----------------------------------------------------------------------------
(* Handle *)

HandleTo(d, from, to) == handle[d] = from /\ handle' = [handle EXCEPT ![d] = to]

\* Decoding, the size, the marker and the topic; then the mark, before anything else.
Deliver(d) ==
  /\ \/ HandleTo(d, "none", "rejected") /\ UNCHANGED marked
     \/ HandleTo(d, "none", "check") /\ marked' = marked \cup {d}
  /\ UNCHANGED <<started, stopping, cut, q, bytes, work>> /\ UNCHANGED bookVars

CheckStarted(d) ==
  /\ HandleTo(d, "check", IF started THEN "reserve" ELSE "shed")
  /\ UNCHANGED <<marked, started, stopping, cut, q, bytes, work>> /\ UNCHANGED bookVars

\* Mutant: the bound is tested on the bytes before this object.
OverStale(n) == QueueBytes > 0 /\ bytes > QueueBytes

\* The bytes with this object are past the bound.
Over(n) == QueueBytes > 0 /\ bytes + n > QueueBytes

\* The bytes are added first and tested after.
Reserve(d) ==
  /\ HandleTo(d, "reserve", IF Over(Size[d]) THEN "undo" ELSE "put")
  /\ bytes' = bytes + Size[d]
  /\ UNCHANGED <<marked, started, stopping, cut, q, work>> /\ UNCHANGED bookVars

Put(d) ==
  /\ Len(q) < QueueDepth
  /\ HandleTo(d, "put", "queued")
  /\ q' = Append(q, d)
  /\ UNCHANGED <<marked, started, stopping, cut, bytes, work>> /\ UNCHANGED bookVars

PutFull(d) ==
  /\ Len(q) = QueueDepth
  /\ HandleTo(d, "put", "undo")
  /\ UNCHANGED <<marked, started, stopping, cut, q, bytes, work>> /\ UNCHANGED bookVars

Undo(d) ==
  /\ HandleTo(d, "undo", "shed")
  /\ bytes' = bytes - Size[d]
  /\ UNCHANGED <<marked, started, stopping, cut, q, work>> /\ UNCHANGED bookVars

-----------------------------------------------------------------------------
(* Start and its workers *)

\* A worker: its job, the topic it is at, and the attempts that failed.
IdleWorker == [pc |-> "select", d |-> NoDelivery, i |-> 0, attempt |-> 0, draining |-> FALSE]

\* The loop a worker is in: the select, or the drain after the context is done.
Looping(w) == IF work[w].draining THEN "drain" ELSE "select"

WorkTo(w, pc, d, i, attempt) ==
  work' = [work EXCEPT ![w] = [@ EXCEPT !.pc = pc, !.d = d, !.i = i, !.attempt = attempt]]

Receive(w) ==
  /\ work[w].pc \in {"select", "drain"} /\ q # <<>>
  /\ WorkTo(w, "take", Head(q), 0, 0)
  /\ q' = Tail(q)
  /\ UNCHANGED handleVars /\ UNCHANGED <<started, stopping, cut, bytes>> /\ UNCHANGED bookVars

Take(w) ==
  /\ work[w].pc = "take"
  /\ WorkTo(w, "verify", work[w].d, 0, 0)
  /\ bytes' = bytes - Size[work[w].d]
  /\ UNCHANGED handleVars /\ UNCHANGED <<started, stopping, cut, q>> /\ UNCHANGED bookVars

\* On to the i-th topic, whose other targets are offered the object first, or
\* back to the loop after the last.
NextTopic(w, i) ==
  LET d == work[w].d
  IN  IF i \in TopicsOf(d)
      THEN WorkTo(w, "submit", d, i, 0) /\ also' = [also EXCEPT ![d][i] = @ + 1]
      ELSE WorkTo(w, Looping(w), NoDelivery, 0, 0) /\ UNCHANGED also

\* Adds a booking for the topics of S.
Booking(d, S, what) ==
  booked' = [booked EXCEPT ![d] = [i \in TopicsOf(d) |->
               IF i \in S THEN booked[d][i] \cup {what} ELSE booked[d][i]]]

\* Not enforced, or the object passes, or there is no verdict.
VerifyPass(w) ==
  /\ work[w].pc = "verify"
  /\ NextTopic(w, 1)
  /\ UNCHANGED handleVars /\ UNCHANGED <<started, stopping, cut, q, bytes, booked, shadowed>>

\* Mutant: a refused object is submitted all the same.
VerifyRefuseGoesOn(w) ==
  /\ work[w].pc = "verify" /\ Enforce
  /\ Booking(work[w].d, TopicsOf(work[w].d), "spv")
  /\ NextTopic(w, 1)
  /\ UNCHANGED handleVars /\ UNCHANGED <<started, stopping, cut, q, bytes, shadowed>>

\* Enforced and refused: no topic of the object is submitted.  The code counts
\* it once for the object, which is here a booking of each of its topics.
VerifyRefuse(w) ==
  /\ work[w].pc = "verify" /\ Enforce
  /\ Booking(work[w].d, TopicsOf(work[w].d), "spv")
  /\ WorkTo(w, Looping(w), NoDelivery, 0, 0)
  /\ UNCHANGED handleVars /\ UNCHANGED <<started, stopping, cut, q, bytes, shadowed, also>>

\* A topic is answered for: it is booked, and the shadow is offered the same.
Answer(w, what) ==
  LET d == work[w].d
      i == work[w].i
  IN  /\ Booking(d, {i}, what)
      /\ shadowed' = [shadowed EXCEPT ![d][i] = @ + 1]
      /\ NextTopic(w, i + 1)
      /\ UNCHANGED handleVars /\ UNCHANGED <<started, stopping, cut, q, bytes>>

\* What a submit may meet: nothing that can be read (code 0), or a status and,
\* with 200, a body in the form of one engine or the other, or in neither.
Reply == [code : {0, 302, 404, 503}, body : {"any"}] \cup [code : {200}, body : {"wrapped", "bare", "other"}]

\* decodeAnswer takes both forms.
Decodes(reply) == reply.body \in {"wrapped", "bare"}

Accepted(reply) == reply.code = 200 /\ Decodes(reply)

\* A 4xx is the engine refusing the object on its merits.
Refused(reply) == reply.code >= 400 /\ reply.code < 500

SubmitOK(w) ==
  /\ work[w].pc = "submit"
  /\ \E reply \in Reply : Accepted(reply) /\ Answer(w, "submitted")

\* Refused: not retried.
SubmitRefused(w) ==
  /\ work[w].pc = "submit"
  /\ \E reply \in Reply : Refused(reply) /\ Answer(w, "refused")

GivesUp(w) == work[w].attempt >= Retries \/ cut

SubmitFail(w) ==
  /\ work[w].pc = "submit"
  /\ \E reply \in Reply : ~Accepted(reply) /\ ~Refused(reply)
  /\ \/ GivesUp(w) /\ Answer(w, "error")
     \/ /\ ~GivesUp(w)
        /\ WorkTo(w, "backoff", work[w].d, work[w].i, work[w].attempt)
        /\ UNCHANGED handleVars /\ UNCHANGED <<started, stopping, cut, q, bytes>>
        /\ UNCHANGED bookVars

\* Mutant: the attempts are not counted.
BackoffEndUncounted(w) ==
  /\ work[w].pc = "backoff"
  /\ WorkTo(w, "submit", work[w].d, work[w].i, work[w].attempt)
  /\ UNCHANGED handleVars /\ UNCHANGED <<started, stopping, cut, q, bytes>> /\ UNCHANGED bookVars

\* The wait before the next attempt.
BackoffEnd(w) ==
  /\ work[w].pc = "backoff"
  /\ WorkTo(w, "submit", work[w].d, work[w].i, work[w].attempt + 1)
  /\ UNCHANGED handleVars /\ UNCHANGED <<started, stopping, cut, q, bytes>> /\ UNCHANGED bookVars

\* The end of the submits' context in that wait leaves the topic with neither
\* a count nor an offer to the shadow.
BackoffCut(w) ==
  /\ work[w].pc = "backoff" /\ cut
  /\ NextTopic(w, work[w].i + 1)
  /\ UNCHANGED handleVars /\ UNCHANGED <<started, stopping, cut, q, bytes, booked, shadowed>>

EnterDrain(w) ==
  /\ work[w].pc = "select" /\ stopping
  /\ work' = [work EXCEPT ![w].pc = "drain", ![w].draining = TRUE]
  /\ UNCHANGED handleVars /\ UNCHANGED <<started, stopping, cut, q, bytes>> /\ UNCHANGED bookVars

DrainEnd(w) ==
  /\ work[w].pc = "drain" /\ q = <<>>
  /\ work' = [work EXCEPT ![w].pc = "exit"]
  /\ UNCHANGED handleVars /\ UNCHANGED <<started, stopping, cut, q, bytes>> /\ UNCHANGED bookVars

\* The process is told to stop; StopDrain later the submits' context ends.
Stop ==
  /\ ~stopping /\ started
  /\ stopping' = TRUE
  /\ UNCHANGED handleVars /\ UNCHANGED <<started, cut, q, bytes, work>> /\ UNCHANGED bookVars

DrainTimer ==
  /\ stopping /\ started /\ ~cut
  /\ cut' = TRUE
  /\ UNCHANGED handleVars /\ UNCHANGED <<started, stopping, q, bytes, work>> /\ UNCHANGED bookVars

\* Start returns once its workers have: started and the context end with it.
StartReturn ==
  /\ started /\ stopping
  /\ \A w \in Worker : work[w].pc = "exit"
  /\ started' = FALSE /\ cut' = TRUE
  /\ UNCHANGED handleVars /\ UNCHANGED <<stopping, q, bytes, work>> /\ UNCHANGED bookVars

\* Start runs from here on; deliveries before it are shed.
Begin ==
  /\ ~started /\ ~stopping
  /\ started' = TRUE
  /\ UNCHANGED handleVars /\ UNCHANGED <<stopping, cut, q, bytes, work>> /\ UNCHANGED bookVars

-----------------------------------------------------------------------------

Init ==
  /\ handle = [d \in Delivery |-> "none"] /\ marked = {}
  /\ started = FALSE /\ stopping = FALSE /\ cut = FALSE
  /\ q = <<>> /\ bytes = 0
  /\ work = [w \in Worker |-> IdleWorker]
  /\ booked = [d \in Delivery |-> [i \in TopicsOf(d) |-> {}]]
  /\ shadowed = [d \in Delivery |-> [i \in TopicsOf(d) |-> 0]]
  /\ also = [d \in Delivery |-> [i \in TopicsOf(d) |-> 0]]

HandleStep(d) ==
  CheckStarted(d) \/ Reserve(d) \/ Put(d) \/ PutFull(d) \/ Undo(d)

\* The goroutines exist while Start runs.
WorkStep(w) ==
  /\ started
  /\ \/ Receive(w) \/ Take(w) \/ VerifyPass(w) \/ VerifyRefuse(w)
     \/ SubmitOK(w) \/ SubmitRefused(w) \/ SubmitFail(w)
     \/ BackoffEnd(w) \/ BackoffCut(w) \/ EnterDrain(w) \/ DrainEnd(w)

Next ==
  \/ \E d \in Delivery : Deliver(d) \/ HandleStep(d)
  \/ \E w \in Worker : WorkStep(w)
  \/ Begin \/ Stop \/ DrainTimer \/ StartReturn

Spec == Init /\ [][Next]_vars

-----------------------------------------------------------------------------
(* Properties *)

\* The state of the feed is well typed; the byte counter is never negative.
TypeOK ==
  /\ handle \in [Delivery -> {"none", "rejected", "check", "reserve", "put", "undo",
                              "queued", "shed"}]
  /\ marked \subseteq Delivery
  /\ started \in BOOLEAN /\ stopping \in BOOLEAN /\ cut \in BOOLEAN
  /\ q \in Seq(Delivery) /\ Len(q) <= QueueDepth
  /\ bytes \in Nat
  /\ work \in [Worker -> [pc : {"select", "take", "verify", "submit", "backoff", "drain", "exit"},
                          d : Delivery \cup {NoDelivery}, i : Nat, attempt : 0..Retries,
                          draining : BOOLEAN]]
  /\ \A d \in Delivery :
       /\ booked[d] \in [TopicsOf(d) -> SUBSET {"submitted", "refused", "error", "spv"}]
       /\ shadowed[d] \in [TopicsOf(d) -> Nat] /\ also[d] \in [TopicsOf(d) -> Nat]

InQueue == {q[i] : i \in DOMAIN q}
Reserving == {d \in Delivery : handle[d] \in {"put", "undo"}}
Taking == {work[w].d : w \in {v \in Worker : work[v].pc = "take"}}
SizeOf(S) == MapThenSumSet(LAMBDA d : Size[d], S)

\* Feed.queuedBytes counts the queued objects, the objects of calls between
\* their reservation and its use or return, and those a worker is taking; and
\* however the reservations interleave, the objects in the queue keep to the
\* byte bound ("a delivery that would take the queue past it is shed").
BytesAccounted ==
  /\ TypeOK
  /\ bytes = SizeOf(InQueue \cup Reserving \cup Taking)
  /\ QueueBytes > 0 => SizeOf(InQueue) <= QueueBytes

AtWorker(d) == {w \in Worker : work[w].d = d}

\* Topics of a delivery the worker that has it is done with.
Passed(d) ==
  IF AtWorker(d) = {} THEN TopicsOf(d)
  ELSE {i \in TopicsOf(d) : \E w \in AtWorker(d) : i < work[w].i}

\* A delivery Handle returned nil for is in the queue, with one worker, or
\* done with, and any other is in none of these places.  Each topic a worker
\* is done with is counted once, and offered once to the shadow and to the
\* other targets; only the end of the drain may leave a topic uncounted, and
\* only SPV may withhold the object from the other targets.
DeliveryAccounted ==
  \A d \in Delivery :
    /\ Cardinality({i \in DOMAIN q : q[i] = d}) + Cardinality(AtWorker(d)) <= 1
    /\ d \in InQueue \/ AtWorker(d) # {} => handle[d] = "queued"
    /\ \A i \in TopicsOf(d) :
         LET done == handle[d] = "queued" /\ d \notin InQueue /\ i \in Passed(d)
             spv  == booked[d][i] = {"spv"}
         IN  /\ Cardinality(booked[d][i]) <= 1
             /\ done => booked[d][i] # {} \/ cut
             /\ done => also[d][i] = IF spv THEN 0 ELSE 1
             /\ shadowed[d][i] = IF spv \/ booked[d][i] = {} THEN 0 ELSE 1
             /\ booked[d][i] # {} => done

-----------------------------------------------------------------------------
(* Fairness: a call of Handle and a worker go on; the engine client has a   *)
(* timeout, so a submit comes back; the drain timer fires.  Nothing says    *)
(* that a submit ever succeeds or that the process is ever told to stop.    *)

Fairness ==
  /\ \A d \in Delivery : WF_vars(HandleStep(d))
  /\ \A w \in Worker : WF_vars(WorkStep(w))
  /\ WF_vars(StartReturn) /\ WF_vars(DrainTimer)

FairSpec == Spec /\ Fairness

\* Every delivery Handle accepted while a worker is there is done with, stop or
\* no stop: each of its topics is counted, unless the drain's time is up first.
\* So no engine outage holds a worker for ever, and the drain leaves behind only
\* what is queued after the last worker has gone.  Told to stop, Start returns,
\* however the engine behaves.
AcceptedSettles ==
  /\ \A d \in Delivery :
       (handle[d] = "queued" /\ \E w \in Worker : work[w].pc # "exit")
         ~> (/\ d \notin InQueue /\ AtWorker(d) = {}
             /\ cut \/ \A i \in TopicsOf(d) : booked[d][i] # {})
  /\ stopping ~> ~started

=============================================================================
