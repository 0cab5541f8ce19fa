------------------------------- MODULE Facade -------------------------------
(***************************************************************************)
(* The facade of src/facade, the loop guard it shares with the feed, and   *)
(* what it sees of its neighbours: the engine, the publish queue with its  *)
(* late callback, the feed's deliveries, the routes' other targets.        *)
(*                                                                         *)
(* A request is one call of submit; a retry is another request.  The       *)
(* facade publishes (Config.Publish is set) and is guarded, as deployed.   *)
(* A record is named by its request and the position of its topic.         *)
(***************************************************************************)
EXTENDS Integers, Sequences

CONSTANTS
  Request,       \* calls of submit
  Delivery,      \* calls of Feed.Handle that get as far as the guard
  Object, Topic,
  ObjectOf,      \* the object of each request and of each delivery
  TopicsOf,      \* the topics it names, in order, without repetition
  Trusted,       \* pairs of a request and a topic that a trust rule covers
  ShadowFacade,  \* Config.ShadowFacade: the shadow gets what the engine answered
  MaxRotations   \* bound: generations the registry starts in a behaviour

Caller == Request \cup Delivery

\* A record: a request and the position of the topic the record is for.
Record == UNION {{<<r, i>> : i \in DOMAIN TopicsOf[r]} : r \in Request}

ASSUME FacadeAssumption ==
  /\ Request \cap Delivery = {}
  /\ ObjectOf \in [Caller -> Object]
  /\ \A c \in Caller :
       /\ TopicsOf[c] \in Seq(Topic) /\ TopicsOf[c] # <<>>
       /\ \A i, j \in DOMAIN TopicsOf[c] : TopicsOf[c][i] = TopicsOf[c][j] => i = j
  /\ Trusted \subseteq Request \X Topic
  /\ ShadowFacade \in BOOLEAN
  /\ MaxRotations \in Nat

VARIABLES
  req,         \* each request: where it is, at which topic, and the guard's word
  answer,      \* what the client of each request was told
  fate,        \* what became of each record
  cur, prev,   \* the registry's two generations of keys
  rotations,
  deliv,       \* each delivery: where it is and how many topics it has marked
  offered,     \* records whose topics' other targets were offered the object
  shadowed,    \* records whose topics' shadow was offered the engine's answer
  seenBefore   \* history: keys on the plane, and known here, when it began

guardVars == <<cur, prev, rotations>>
vars == <<req, answer, fate, cur, prev, rotations, deliv, offered, shadowed, seenBefore>>
logVars == <<shadowed, seenBefore>>

-----------------------------------------------------------------------------
(* The guard *)

\* The key of the i-th topic of a request or of a delivery.
Key(c, i) == <<ObjectOf[c], TopicsOf[c][i]>>

KeyOf(p) == Key(p[1], p[2])

Known(k) == k \in cur \cup prev

Mark(k) == cur' = cur \cup {k} /\ UNCHANGED <<prev, rotations>>

\* The registry starts a generation and forgets the last but one.
Rotate ==
  /\ rotations < MaxRotations
  /\ rotations' = rotations + 1
  /\ prev' = cur /\ cur' = {}
  /\ UNCHANGED <<req, answer, fate, deliv, offered>> /\ UNCHANGED logVars

-----------------------------------------------------------------------------
(* submit *)

At(r, pc) == req[r].pc = pc

Move(r, pc, known) ==
  req' = [req EXCEPT ![r] = [pc |-> pc, i |-> req[r].i, known |-> known]]

\* The key of the topic a request is at.
Now(r) == Key(r, req[r].i)

\* The keys a reader of this host may have from the plane, and those whose
\* records the queue has confirmed.
Seen ==
  {KeyOf(p) : p \in {q \in Record : fate[q] = "sent"}} \cup
  (UNION {{Key(d, i) : i \in DOMAIN TopicsOf[d]} : d \in {e \in Delivery : deliv[e].pc = "submitted"}})

\* The request is refused before any topic: header, body, marker, topic.
Malformed(r) ==
  /\ At(r, "idle")
  /\ Move(r, "done", req[r].known)
  /\ answer' = [answer EXCEPT ![r] = "malformed"]
  /\ UNCHANGED <<fate, deliv, offered>> /\ UNCHANGED guardVars /\ UNCHANGED logVars

Begin(r) ==
  /\ At(r, "idle")
  /\ req' = [req EXCEPT ![r] = [pc |-> "lookup", i |-> 1, known |-> FALSE]]
  /\ seenBefore' = [seenBefore EXCEPT ![r] = Seen]
  /\ UNCHANGED <<answer, fate, deliv, offered, shadowed>> /\ UNCHANGED guardVars

\* Mutant: the last topic is not recognised as such.
AdvancePastLast(r, what) ==
  /\ fate' = [fate EXCEPT ![<<r, req[r].i>>] = what]
  /\ IF req[r].i > Len(TopicsOf[r])
     THEN /\ Move(r, "done", req[r].known)
          /\ answer' = [answer EXCEPT ![r] = "ok"]
     ELSE /\ req' = [req EXCEPT ![r] = [pc |-> "lookup", i |-> @.i + 1, known |-> FALSE]]
          /\ UNCHANGED answer

\* The next topic, or the answer 200 after the last.
Advance(r, what) ==
  /\ fate' = [fate EXCEPT ![<<r, req[r].i>>] = what]
  /\ IF req[r].i = Len(TopicsOf[r])
     THEN /\ Move(r, "done", req[r].known)
          /\ answer' = [answer EXCEPT ![r] = "ok"]
     ELSE /\ req' = [req EXCEPT ![r] = [pc |-> "lookup", i |-> @.i + 1, known |-> FALSE]]
          /\ UNCHANGED answer

\* The request ends here, the topics after this one untried.
Abort(r, what) ==
  /\ Move(r, "done", req[r].known)
  /\ answer' = [answer EXCEPT ![r] = what]

IsTrusted(r) == <<r, TopicsOf[r][req[r].i]>> \in Trusted

\* Mutant: only the first topic is offered.
OfferAlsoFirst(r) ==
  offered' = IF IsTrusted(r) \/ req[r].i # 1 THEN offered ELSE offered \cup {<<r, req[r].i>>}

OfferAlso(r) ==
  offered' = IF IsTrusted(r) THEN offered ELSE offered \cup {<<r, req[r].i>>}

\* After the engine, or without it: a topic the guard knows goes no further;
\* any other is offered to the other targets and encoded for the plane.
Settle(r, known) ==
  \/ known /\ Advance(r, "dropped") /\ UNCHANGED offered
  \/ ~known /\ OfferAlso(r) /\ Advance(r, "unencoded")
  \/ /\ ~known /\ OfferAlso(r)
     /\ Move(r, "publish", known)
     /\ UNCHANGED <<answer, fate>>

\* The guard is asked, and not marked; a trusted topic skips the engine.
Lookup(r) ==
  /\ At(r, "lookup")
  /\ IF IsTrusted(r)
     THEN Settle(r, Known(Now(r)))
     ELSE /\ Move(r, "engine", Known(Now(r)))
          /\ UNCHANGED <<answer, fate, offered>>
  /\ UNCHANGED deliv /\ UNCHANGED guardVars /\ UNCHANGED logVars

\* The shadow is offered the engine's answer, whatever the guard said.
OfferShadow(r) ==
  shadowed' = IF ShadowFacade THEN shadowed \cup {<<r, req[r].i>>} ELSE shadowed

EngineOK(r) ==
  /\ At(r, "engine")
  /\ OfferShadow(r)
  /\ Settle(r, req[r].known)
  /\ UNCHANGED <<deliv, seenBefore>> /\ UNCHANGED guardVars

EngineFail(r) ==
  /\ At(r, "engine")
  /\ Abort(r, "engine failed")
  /\ UNCHANGED <<fate, deliv, offered>> /\ UNCHANGED guardVars /\ UNCHANGED logVars

\* Mutant: the guard is marked when the queue accepts the record.
PublishOKMarks(r) ==
  /\ At(r, "publish")
  /\ Advance(r, "queued")
  /\ Mark(Now(r))
  /\ UNCHANGED <<deliv, offered>> /\ UNCHANGED logVars

\* The queue accepts the record.
PublishOK(r) ==
  /\ At(r, "publish")
  /\ Advance(r, "queued")
  /\ UNCHANGED <<deliv, offered>> /\ UNCHANGED guardVars /\ UNCHANGED logVars

\* No room in time, or the client is gone: 503.
PublishFail(r) ==
  /\ At(r, "publish")
  /\ Abort(r, "retry")
  /\ fate' = [fate EXCEPT ![<<r, req[r].i>>] = "refused"]
  /\ UNCHANGED <<deliv, offered>> /\ UNCHANGED guardVars /\ UNCHANGED logVars

-----------------------------------------------------------------------------
(* The publish queue, and the feed *)

\* The record is confirmed and the callback marks the guard.
Sent(p) ==
  /\ fate[p] = "queued"
  /\ fate' = [fate EXCEPT ![p] = "sent"]
  /\ Mark(KeyOf(p))
  /\ UNCHANGED <<req, answer, deliv, offered>> /\ UNCHANGED logVars

\* The record is given up: the callback never runs.
Lost(p) ==
  /\ fate[p] = "queued"
  /\ fate' = [fate EXCEPT ![p] = "lost"]
  /\ UNCHANGED <<req, answer, deliv, offered>> /\ UNCHANGED guardVars /\ UNCHANGED logVars

\* Mutant: only the delivery's own topic is marked.
MarkDeliveredFirst(d) ==
  /\ deliv[d].pc = "marking"
  /\ Mark(Key(d, 1))
  /\ deliv' = [deliv EXCEPT ![d] = [pc |-> "held", marked |-> Len(TopicsOf[d])]]
  /\ UNCHANGED <<req, answer, fate, offered>> /\ UNCHANGED logVars

\* Handle marks the delivery's topics one by one, before anything else.
MarkDelivered(d) ==
  /\ deliv[d].pc = "marking"
  /\ Mark(Key(d, deliv[d].marked + 1))
  /\ deliv' = [deliv EXCEPT ![d] =
                 [pc |-> IF @.marked + 1 = Len(TopicsOf[d]) THEN "held" ELSE "marking",
                  marked |-> @.marked + 1]]
  /\ UNCHANGED <<req, answer, fate, offered>> /\ UNCHANGED logVars

\* Then it is shed or refused by SPV, or offered and submitted to the engine.
EndDelivery(d) ==
  /\ deliv[d].pc = "held"
  /\ \E pc \in {"withheld", "submitted"} : deliv' = [deliv EXCEPT ![d].pc = pc]
  /\ UNCHANGED <<req, answer, fate, offered>> /\ UNCHANGED guardVars /\ UNCHANGED logVars

-----------------------------------------------------------------------------

Init ==
  /\ req = [r \in Request |-> [pc |-> "idle", i |-> 0, known |-> FALSE]]
  /\ answer = [r \in Request |-> "none"]
  /\ fate = [p \in Record |-> "none"]
  /\ cur = {} /\ prev = {} /\ rotations = 0
  /\ deliv = [d \in Delivery |-> [pc |-> "marking", marked |-> 0]]
  /\ offered = {} /\ shadowed = {}
  /\ seenBefore = [r \in Request |-> {}]

Next ==
  \/ \E r \in Request : \/ Malformed(r) \/ Begin(r) \/ Lookup(r) \/ EngineOK(r) \/ EngineFail(r)
                        \/ PublishOK(r) \/ PublishFail(r)
  \/ \E p \in Record : Sent(p) \/ Lost(p)
  \/ \E d \in Delivery : MarkDelivered(d) \/ EndDelivery(d)
  \/ Rotate

Spec == Init /\ [][Next]_vars

-----------------------------------------------------------------------------
(* Properties *)

\* A request that is at a topic is at one it names.
ReqType ==
  /\ req \in [Request -> [pc : {"idle", "lookup", "engine", "publish", "done"},
                          i : Nat, known : BOOLEAN]]
  /\ \A r \in Request : req[r].pc \in {"lookup", "engine", "publish"} => req[r].i \in DOMAIN TopicsOf[r]
AnswerType == answer \in [Request -> {"none", "malformed", "engine failed", "retry", "ok"}]
FateType ==
  fate \in [Record -> {"none", "dropped", "unencoded", "refused", "queued", "sent", "lost"}]
GuardType ==
  /\ cur \subseteq Object \X Topic /\ prev \subseteq Object \X Topic
  /\ rotations \in 0..MaxRotations
\* Handle goes on only with all topics marked.
DelivType ==
  /\ deliv \in [Delivery -> [pc : {"marking", "held", "withheld", "submitted"}, marked : Nat]]
  /\ \A d \in Delivery : IF deliv[d].pc = "marking" THEN deliv[d].marked < Len(TopicsOf[d])
                                                    ELSE deliv[d].marked = Len(TopicsOf[d])
LogType ==
  /\ offered \subseteq Record /\ shadowed \subseteq Record
  /\ seenBefore \in [Request -> SUBSET (Object \X Topic)]

\* The state of the facade is well typed.
TypeOK == ReqType /\ AnswerType /\ FateType /\ GuardType /\ DelivType /\ LogType

\* The record was accepted by the queue.
Published(p) == fate[p] \in {"queued", "sent", "lost"}

\* The plane has delivered this key here: Handle has marked it.
Delivered(k) == \E d \in Delivery : \E i \in 1..deliv[d].marked : Key(d, i) = k

\* The object of this key is on the plane under the topic of this key.
OnPlane(k) == Delivered(k) \/ \E q \in Record : fate[q] = "sent" /\ KeyOf(q) = k

\* The loop the guard exists for, and its mirror: a client that submits to a
\* topic what it read from the plane under that topic, or what this bridge has
\* already put there, has it forwarded and not published, for as long as the
\* registry keeps an entry at least (one rotation).  Handle marks every topic
\* of a delivery before any of them is submitted; the callback marks.
NoRepublish ==
  rotations <= 1 => \A p \in Record : Published(p) => KeyOf(p) \notin seenBefore[p[1]]

\* A topic is left unpublished as already seen only if the object is on the
\* plane under it: a publish that fails, before or after the client was told
\* 200, never strands the object ("the guard is deliberately left unmarked so a
\* retry can publish it").
DropJustified ==
  \A p \in Record : fate[p] = "dropped" => OnPlane(KeyOf(p))

\* The topic of this record skips the local targets: its source is trusted.
Unrouted(p) == <<p[1], TopicsOf[p[1]][p[2]]>> \in Trusted

\* What is handed to the local targets for a topic that a client was told 200
\* for.  A record the guard let through was offered to the topic's other
\* targets.  One it withheld was not, but then somebody else has or had charge
\* of the object: an earlier record of it was offered, or one was published
\* unrouted by a trusted source, or the feed was given it (what the feed does
\* with it, a delivery shed or refused by SPV included, is its own decision:
\* nobody hands on what it withholds).  The shadow is offered all of them,
\* known or not, and neither ever gets a topic that a trust rule covers.
OtherTargetsServed ==
  \A p \in Record :
    IF Unrouted(p)
    THEN p \notin offered \cup shadowed
    ELSE answer[p[1]] = "ok" =>
           /\ ShadowFacade => p \in shadowed
           /\ p \in offered <=> fate[p] # "dropped"
           /\ \/ \E q \in offered : KeyOf(q) = KeyOf(p)
              \/ Delivered(KeyOf(p))
              \/ \E q \in Record : KeyOf(q) = KeyOf(p) /\ fate[q] = "sent" /\ Unrouted(q)

=============================================================================
