---------------------------- MODULE FacadeProofs ----------------------------
(***************************************************************************)
(* What is proved of Facade: its types, that nothing already on the plane  *)
(* is published again, that nothing is withheld that is not there, and     *)
(* that the other targets get what clients were told 200 for.              *)
(***************************************************************************)
EXTENDS Facade, TLAPS

-----------------------------------------------------------------------------
(* The inductive invariant *)

\* The topics a request has not come to have no fate yet.
Untried ==
  \A p \in Record :
    \/ req[p[1]].pc = "idle"
    \/ req[p[1]].pc # "done" /\ p[2] >= req[p[1]].i
    => fate[p] = "none"

\* The guard knows only what is on the plane, and until the registry has
\* rotated twice it knows all of it.
GuardSound == \A k \in cur \cup prev : OnPlane(k)
GuardComplete ==
  \A k \in Object \X Topic : OnPlane(k) =>
    /\ rotations = 0 => k \in cur
    /\ rotations <= 1 => k \in cur \cup prev

\* What a request had seen when it began is on the plane.
SeenOnPlane == \A r \in Request : \A k \in seenBefore[r] : OnPlane(k)

\* The guard's word stays true while the engine is asked.
WordKept ==
  \A r \in Request :
    /\ req[r].pc = "engine" /\ req[r].known => OnPlane(Now(r))
    /\ req[r].pc = "engine" /\ ~req[r].known /\ rotations <= 1 => Now(r) \notin seenBefore[r]
    /\ req[r].pc = "publish" /\ rotations <= 1 => Now(r) \notin seenBefore[r]

IInv ==
  /\ TypeOK /\ Untried
  /\ GuardSound /\ GuardComplete /\ SeenOnPlane /\ WordKept
  /\ NoRepublish /\ DropJustified

-----------------------------------------------------------------------------
(* Records and keys *)

\* A record is a request and the number of one of its topics.
LEMMA RecordFacts ==
  /\ \A r \in Request : \A i \in DOMAIN TopicsOf[r] :
       <<r, i>> \in Record /\ KeyOf(<<r, i>>) = Key(r, i)
  /\ \A p \in Record : p[1] \in Request /\ p[2] \in DOMAIN TopicsOf[p[1]] /\ p = <<p[1], p[2]>>
BY DEF Record, KeyOf

\* A key is an object with a topic.
LEMMA KeyFacts ==
  /\ \A c \in Caller : \A i \in DOMAIN TopicsOf[c] : Key(c, i) \in Object \X Topic
  /\ \A p \in Record : KeyOf(p) \in Object \X Topic
<1>1. \A c \in Caller : \A i \in DOMAIN TopicsOf[c] : Key(c, i) \in Object \X Topic
  BY FacadeAssumption DEF Key
<1>2. QED
  BY <1>1, RecordFacts DEF KeyOf, Caller

\* A caller names one topic or more.
LEMMA TopicFacts ==
  \A c \in Caller : Len(TopicsOf[c]) \in Nat \ {0} /\ DOMAIN TopicsOf[c] = 1..Len(TopicsOf[c])
BY FacadeAssumption

-----------------------------------------------------------------------------
(* Types *)

\* A mark keeps the type of the generations.
LEMMA MarkType ==
  ASSUME GuardType, NEW k \in Object \X Topic, Mark(k)
  PROVE  GuardType'
BY DEF GuardType, Mark

\* What is seen is a key of a delivery submitted here or of a confirmed record.
LEMMA SeenFacts ==
  ASSUME NEW k \in Seen
  PROVE  \/ \E d \in Delivery : deliv[d].pc = "submitted" /\ \E i \in DOMAIN TopicsOf[d] : k = Key(d, i)
         \/ \E q \in Record : fate[q] = "sent" /\ k = KeyOf(q)
BY DEF Seen

\* What is seen are keys.
LEMMA SeenType == Seen \subseteq Object \X Topic
<1>1. ASSUME NEW d \in Delivery, NEW i \in DOMAIN TopicsOf[d] PROVE Key(d, i) \in Object \X Topic
  BY KeyFacts DEF Caller
<1>2. ASSUME NEW k \in Seen PROVE k \in Object \X Topic
  BY <1>1, KeyFacts, SeenFacts
<1>3. QED
  BY <1>2

\* The guard's word is a Boolean.
LEMMA KnownType ==
  ASSUME ReqType, NEW r \in Request
  PROVE  req[r].known \in BOOLEAN
BY DEF ReqType

\* A request moves to another place at the same topic.
LEMMA MoveType ==
  ASSUME ReqType, NEW r \in Request, NEW known \in BOOLEAN,
         NEW pc \in {"engine", "publish", "done"},
         req[r].pc \in {"lookup", "engine", "publish"} \/ pc = "done",
         Move(r, pc, known)
  PROVE  ReqType'
BY DEF ReqType, Move

\* Advance keeps the types.
LEMMA AdvanceType ==
  ASSUME ReqType, AnswerType, FateType,
         NEW r \in Request, req[r].pc \in {"lookup", "engine", "publish"},
         NEW what \in {"dropped", "unencoded", "queued"}, Advance(r, what)
  PROVE  ReqType' /\ AnswerType' /\ FateType'
<1>1. /\ req[r].i \in 1..Len(TopicsOf[r]) /\ Len(TopicsOf[r]) \in Nat
      /\ DOMAIN TopicsOf[r] = 1..Len(TopicsOf[r])
  BY TopicFacts DEF ReqType, Caller
<1>2. FateType'
  BY DEF FateType, Advance
<1>3. CASE req[r].i = Len(TopicsOf[r])
  <2>1. ReqType'
    BY <1>3, KnownType, MoveType DEF Advance
  <2>2. AnswerType'
    BY <1>3 DEF Advance, AnswerType
  <2>3. QED
    BY <1>2, <2>1, <2>2
<1>4. CASE req[r].i # Len(TopicsOf[r])
  <2>1. req' = [req EXCEPT ![r] = [pc |-> "lookup", i |-> req[r].i + 1, known |-> FALSE]] /\ answer' = answer
    BY <1>4 DEF Advance, ReqType
  <2>2. req[r].i + 1 \in DOMAIN TopicsOf[r] /\ req[r].i + 1 \in Nat
    BY <1>1, <1>4
  <2>3. ReqType'
    BY <2>1, <2>2 DEF ReqType
  <2>4. QED
    BY <1>2, <2>1, <2>3 DEF AnswerType
<1>5. QED
  BY <1>3, <1>4

\* So does Settle.
LEMMA SettleType ==
  ASSUME ReqType, AnswerType, FateType, offered \subseteq Record,
         NEW r \in Request, req[r].pc \in {"lookup", "engine"},
         NEW known \in BOOLEAN, Settle(r, known)
  PROVE  ReqType' /\ AnswerType' /\ FateType' /\ offered' \subseteq Record
<1>1. <<r, req[r].i>> \in Record
  BY RecordFacts DEF ReqType
<1>2. offered' \subseteq Record
  BY <1>1 DEF Settle, OfferAlso
<1>3. CASE Advance(r, "dropped") \/ Advance(r, "unencoded")
  BY <1>2, <1>3, AdvanceType
<1>4. CASE /\ Move(r, "publish", known)
           /\ UNCHANGED <<answer, fate>>
  BY <1>2, <1>4, MoveType DEF AnswerType, FateType
<1>5. QED
  BY <1>3, <1>4 DEF Settle

\* Every step keeps the types.
LEMMA TypeStep ==
  ASSUME TypeOK, [Next]_vars
  PROVE  TypeOK'
<1>t. ReqType /\ AnswerType /\ FateType /\ GuardType /\ DelivType /\ LogType
  BY DEF TypeOK
<1>1. ASSUME NEW r \in Request, Malformed(r) PROVE TypeOK'
  <2>1. ReqType' /\ AnswerType'
    BY <1>t, <1>1, KnownType, MoveType DEF Malformed, AnswerType
  <2>2. QED
    BY <1>t, <1>1, <2>1 DEF TypeOK, Malformed, FateType, GuardType, DelivType, LogType, guardVars, logVars
<1>2. ASSUME NEW r \in Request, Begin(r) PROVE TypeOK'
  <2>1. 1 \in DOMAIN TopicsOf[r]
    BY TopicFacts DEF Caller
  <2>2. ReqType'
    BY <1>t, <1>2, <2>1 DEF Begin, ReqType
  <2>3. LogType'
    BY <1>t, <1>2, SeenType DEF Begin, LogType, logVars
  <2>4. QED
    BY <1>t, <1>2, <2>2, <2>3 DEF TypeOK, Begin, AnswerType, FateType, GuardType, DelivType, guardVars
<1>3. ASSUME NEW r \in Request, Lookup(r) PROVE TypeOK'
  <2>1. req[r].pc = "lookup" /\ Known(Now(r)) \in BOOLEAN
    BY <1>3 DEF Lookup, At, Known
  <2>2. CASE IsTrusted(r)
    <3>1. ReqType' /\ AnswerType' /\ FateType' /\ offered' \subseteq Record
      BY <1>t, <1>3, <2>1, <2>2, SettleType DEF Lookup, LogType, logVars
    <3>2. QED
      BY <1>t, <1>3, <3>1 DEF TypeOK, Lookup, GuardType, DelivType, LogType, guardVars, logVars
  <2>3. CASE ~IsTrusted(r)
    <3>1. ReqType'
      BY <1>t, <1>3, <2>1, <2>3, MoveType DEF Lookup
    <3>2. QED
      BY <1>t, <1>3, <2>3, <3>1 DEF TypeOK, Lookup, AnswerType, FateType, GuardType, DelivType, LogType, guardVars, logVars
  <2>4. QED
    BY <2>2, <2>3
<1>4. ASSUME NEW r \in Request, EngineOK(r) PROVE TypeOK'
  <2>1. req[r].pc = "engine" /\ req[r].known \in BOOLEAN /\ <<r, req[r].i>> \in Record
    BY <1>t, <1>4, RecordFacts DEF EngineOK, At, ReqType
  <2>2. ReqType' /\ AnswerType' /\ FateType' /\ offered' \subseteq Record
    BY <1>t, <1>4, <2>1, SettleType DEF EngineOK, LogType, logVars
  <2>3. QED
    BY <1>t, <1>4, <2>1, <2>2 DEF TypeOK, EngineOK, OfferShadow, GuardType, DelivType, LogType, guardVars
<1>5. ASSUME NEW r \in Request, EngineFail(r) PROVE TypeOK'
  <2>1. <<r, req[r].i>> \in Record
    BY <1>t, <1>5, RecordFacts DEF EngineFail, At, ReqType
  <2>2. ReqType' /\ AnswerType'
    BY <1>t, <1>5, KnownType, MoveType DEF EngineFail, Abort, AnswerType
  <2>3. QED
    BY <1>t, <1>5, <2>1, <2>2 DEF TypeOK, EngineFail, FateType, GuardType, DelivType, LogType, guardVars, logVars
<1>6. ASSUME NEW r \in Request, PublishOK(r) PROVE TypeOK'
  <2>1. ReqType' /\ AnswerType' /\ FateType'
    BY <1>t, <1>6, AdvanceType DEF PublishOK, At
  <2>2. QED
    BY <1>t, <1>6, <2>1 DEF TypeOK, PublishOK, GuardType, DelivType, LogType, guardVars, logVars
<1>7. ASSUME NEW r \in Request, PublishFail(r) PROVE TypeOK'
  <2>1. ReqType' /\ AnswerType'
    BY <1>t, <1>7, KnownType, MoveType DEF PublishFail, Abort, AnswerType
  <2>2. FateType'
    BY <1>t, <1>7 DEF PublishFail, FateType
  <2>3. QED
    BY <1>t, <1>7, <2>1, <2>2 DEF TypeOK, PublishFail, GuardType, DelivType, LogType, guardVars, logVars
<1>8. ASSUME NEW p \in Record, Sent(p) PROVE TypeOK'
  <2>1. GuardType'
    BY <1>t, <1>8, MarkType, KeyFacts DEF Sent
  <2>2. FateType'
    BY <1>t, <1>8 DEF Sent, FateType
  <2>3. QED
    BY <1>t, <1>8, <2>1, <2>2 DEF TypeOK, Sent, ReqType, AnswerType, DelivType, LogType, logVars
<1>9. ASSUME NEW p \in Record, Lost(p) PROVE TypeOK'
  <2>1. FateType'
    BY <1>t, <1>9 DEF Lost, FateType
  <2>2. QED
    BY <1>t, <1>9, <2>1 DEF TypeOK, Lost, ReqType, AnswerType, GuardType, DelivType, LogType, guardVars, logVars
<1>10. ASSUME NEW d \in Delivery, MarkDelivered(d) PROVE TypeOK'
  <2>1. /\ deliv[d].marked \in Nat /\ deliv[d].marked < Len(TopicsOf[d]) /\ Len(TopicsOf[d]) \in Nat
        /\ deliv[d].marked + 1 \in DOMAIN TopicsOf[d]
    BY <1>t, <1>10, TopicFacts DEF DelivType, MarkDelivered, Caller
  <2>2. GuardType'
    BY <1>t, <1>10, <2>1, MarkType, KeyFacts DEF MarkDelivered, Caller
  <2>3. DelivType'
    BY <1>t, <1>10, <2>1 DEF MarkDelivered, DelivType
  <2>4. QED
    BY <1>t, <1>10, <2>2, <2>3 DEF TypeOK, MarkDelivered, ReqType, AnswerType, FateType, LogType, logVars
<1>11. ASSUME NEW d \in Delivery, EndDelivery(d) PROVE TypeOK'
  <2>1. DelivType'
    BY <1>t, <1>11 DEF EndDelivery, DelivType
  <2>2. QED
    BY <1>t, <1>11, <2>1 DEF TypeOK, EndDelivery, ReqType, AnswerType, FateType, GuardType, LogType, guardVars, logVars
<1>12. ASSUME Rotate PROVE TypeOK'
  <2>1. GuardType'
    BY <1>t, <1>12, FacadeAssumption DEF Rotate, GuardType
  <2>2. QED
    BY <1>t, <1>12, <2>1 DEF TypeOK, Rotate, ReqType, AnswerType, FateType, DelivType, LogType, logVars
<1>13. ASSUME UNCHANGED vars PROVE TypeOK'
  BY <1>t, <1>13 DEF TypeOK, vars, ReqType, AnswerType, FateType, GuardType, DelivType, LogType, logVars
<1>14. QED
  BY <1>1, <1>2, <1>3, <1>4, <1>5, <1>6, <1>7, <1>8, <1>9, <1>10, <1>11, <1>12, <1>13 DEF Next

-----------------------------------------------------------------------------
(* The plane and the guard *)

\* What a step does to the plane and to the guard.
Grows ==
  /\ \A k \in Object \X Topic : OnPlane(k) => OnPlane(k)'
  /\ \A k \in Object \X Topic : OnPlane(k)' => OnPlane(k) \/ k \in cur'
  /\ \A k \in cur' \cup prev' : k \in cur \cup prev \/ OnPlane(k)'
  /\ \/ rotations' = rotations /\ cur \subseteq cur' /\ prev \subseteq prev'
     \/ rotations' = rotations + 1 /\ prev' = cur

\* A step that confirms and delivers nothing, and leaves the guard alone.
LEMMA QuietGrows ==
  ASSUME UNCHANGED guardVars,
         \A q \in Record : fate[q] = "sent" <=> fate'[q] = "sent",
         \A d \in Delivery : deliv'[d].marked = deliv[d].marked
  PROVE  Grows
<1>1. ASSUME NEW k PROVE OnPlane(k)' <=> OnPlane(k)
  BY DEF OnPlane, Delivered
<1>2. QED
  BY <1>1 DEF Grows, guardVars

\* A step of a request leaves records that are not its own alone, and its own
\* topic's record had no fate.
LEMMA AdvanceQuiet ==
  ASSUME TypeOK, Untried, NEW r \in Request, req[r].pc \in {"lookup", "engine", "publish"},
         NEW what \in {"dropped", "unencoded", "queued", "refused"},
         fate' = [fate EXCEPT ![<<r, req[r].i>>] = what]
  PROVE  \A q \in Record : fate[q] = "sent" <=> fate'[q] = "sent"
<1>1. <<r, req[r].i>> \in Record /\ req[r].i \in Nat
  BY RecordFacts DEF TypeOK, ReqType
<1>2. fate[<<r, req[r].i>>] = "none"
  BY <1>1 DEF Untried
<1>3. QED
  BY <1>1, <1>2 DEF TypeOK, FateType

\* Every step is such a step.
LEMMA GrowsStep ==
  ASSUME TypeOK, Untried, [Next]_vars
  PROVE  Grows
<1>1. ASSUME NEW r \in Request, \/ Malformed(r) \/ Begin(r) \/ EngineFail(r)
      PROVE  Grows
  BY <1>1, QuietGrows DEF Malformed, Begin, EngineFail
<1>2. ASSUME NEW r \in Request, Lookup(r) \/ EngineOK(r) PROVE Grows
  <2>1. req[r].pc \in {"lookup", "engine", "publish"} /\ UNCHANGED <<guardVars, deliv>>
    BY <1>2 DEF Lookup, EngineOK, At
  <2>2. \/ UNCHANGED fate
        \/ \E what \in {"dropped", "unencoded"} : fate' = [fate EXCEPT ![<<r, req[r].i>>] = what]
    BY <1>2 DEF Lookup, EngineOK, Settle, Advance
  <2>3. QED
    BY <2>1, <2>2, AdvanceQuiet, QuietGrows
<1>3. ASSUME NEW r \in Request, PublishOK(r) \/ PublishFail(r) PROVE Grows
  <2>1. req[r].pc \in {"lookup", "engine", "publish"} /\ UNCHANGED <<guardVars, deliv>>
    BY <1>3 DEF PublishOK, PublishFail, At
  <2>2. \E what \in {"queued", "refused"} : fate' = [fate EXCEPT ![<<r, req[r].i>>] = what]
    BY <1>3 DEF PublishOK, PublishFail, Advance
  <2>3. QED
    BY <2>1, <2>2, AdvanceQuiet, QuietGrows
<1>4. ASSUME NEW p \in Record, Sent(p) PROVE Grows
  <2>1. /\ \A q \in Record : fate[q] = "sent" => fate'[q] = "sent"
        /\ \A q \in Record : fate'[q] = "sent" => fate[q] = "sent" \/ q = p
        /\ fate'[p] = "sent" /\ deliv' = deliv
    BY <1>4 DEF Sent, TypeOK, FateType
  <2>2. cur' = cur \cup {KeyOf(p)} /\ prev' = prev /\ rotations' = rotations
    BY <1>4 DEF Sent, Mark
  <2>3. \A k : OnPlane(k) => OnPlane(k)'
    BY <2>1 DEF OnPlane, Delivered
  <2>4. \A k : OnPlane(k)' => OnPlane(k) \/ k = KeyOf(p)
    BY <2>1 DEF OnPlane, Delivered
  <2>5. OnPlane(KeyOf(p))'
    BY <2>1 DEF OnPlane
  <2>6. QED
    BY <2>2, <2>3, <2>4, <2>5 DEF Grows
<1>5. ASSUME NEW p \in Record, Lost(p) PROVE Grows
  <2>1. \A q \in Record : fate[q] = "sent" <=> fate'[q] = "sent"
    BY <1>5 DEF Lost, TypeOK, FateType
  <2>2. QED
    BY <1>5, <2>1, QuietGrows DEF Lost
<1>6. ASSUME NEW d \in Delivery, MarkDelivered(d) PROVE Grows
  <2>1. /\ \A e \in Delivery : deliv[e].marked \in Nat
        /\ deliv'[d].marked = deliv[d].marked + 1
        /\ \A e \in Delivery : e # d => deliv'[e].marked = deliv[e].marked
        /\ fate' = fate
    BY <1>6 DEF MarkDelivered, TypeOK, DelivType
  <2>2. /\ cur' = cur \cup {Key(d, deliv[d].marked + 1)}
        /\ prev' = prev /\ rotations' = rotations
    BY <1>6 DEF MarkDelivered, Mark
  <2>3. \A k : OnPlane(k) => OnPlane(k)'
    <3>1. \A e \in Delivery : 1..deliv[e].marked \subseteq 1..deliv'[e].marked
      BY <2>1
    <3>2. QED
      BY <2>1, <3>1 DEF OnPlane, Delivered
  <2>4. \A k : OnPlane(k)' => OnPlane(k) \/ k = Key(d, deliv[d].marked + 1)
    <3>1. \A e \in Delivery : \A i \in 1..deliv'[e].marked :
            i \in 1..deliv[e].marked \/ (e = d /\ i = deliv[d].marked + 1)
      BY <2>1
    <3>2. QED
      BY <2>1, <3>1 DEF OnPlane, Delivered
  <2>5. \A k : k = Key(d, deliv[d].marked + 1) => OnPlane(k)'
    <3>1. deliv[d].marked + 1 \in 1..deliv'[d].marked
      BY <2>1
    <3>2. QED
      BY <3>1 DEF OnPlane, Delivered
  <2>6. QED
    BY <2>2, <2>3, <2>4, <2>5 DEF Grows
<1>7. ASSUME NEW d \in Delivery, EndDelivery(d) PROVE Grows
  <2>1. \A e \in Delivery : deliv'[e].marked = deliv[e].marked
    BY <1>7 DEF EndDelivery, TypeOK, DelivType
  <2>2. QED
    BY <1>7, <2>1, QuietGrows DEF EndDelivery
<1>8. ASSUME Rotate PROVE Grows
  <2>1. ASSUME NEW k PROVE OnPlane(k)' <=> OnPlane(k)
    BY <1>8 DEF Rotate, OnPlane, Delivered
  <2>2. QED
    BY <1>8, <2>1 DEF Rotate, Grows
<1>9. ASSUME UNCHANGED vars PROVE Grows
  BY <1>9, QuietGrows DEF vars, guardVars
<1>10. QED
  BY <1>1, <1>2, <1>3, <1>4, <1>5, <1>6, <1>7, <1>8, <1>9 DEF Next

-----------------------------------------------------------------------------
(* The rest of the invariant follows from how the plane and the guard grow *)

\* The guard stays sound, and complete within one rotation.
LEMMA GuardStep ==
  ASSUME IInv, TypeOK', Grows
  PROVE  GuardSound' /\ GuardComplete'
<1>1. GuardSound'
  BY DEF IInv, GuardSound, Grows, TypeOK, GuardType
<1>2. GuardComplete'
  <2>1. rotations \in Nat
    BY DEF IInv, TypeOK, GuardType
  <2>2. SUFFICES ASSUME NEW k \in Object \X Topic, OnPlane(k)'
                 PROVE  /\ rotations' = 0 => k \in cur'
                        /\ rotations' <= 1 => k \in cur' \cup prev'
    BY DEF GuardComplete
  <2>3. CASE k \in cur'
    BY <2>3
  <2>4. CASE OnPlane(k)
    <3>1. (rotations = 0 => k \in cur) /\ (rotations <= 1 => k \in cur \cup prev)
      BY <2>4 DEF IInv, GuardComplete
    <3>2. CASE rotations' = rotations /\ cur \subseteq cur' /\ prev \subseteq prev'
      BY <3>1, <3>2
    <3>3. CASE rotations' = rotations + 1 /\ prev' = cur
      BY <2>1, <3>1, <3>3
    <3>4. QED
      BY <3>2, <3>3 DEF Grows
  <2>5. QED
    BY <2>2, <2>3, <2>4 DEF Grows
<1>3. QED
  BY <1>1, <1>2

\* What is seen is on the plane.
LEMMA SeenPlane ==
  ASSUME TypeOK, NEW k \in Seen
  PROVE  OnPlane(k)
<1>1. CASE \E q \in Record : fate[q] = "sent" /\ k = KeyOf(q)
  BY <1>1 DEF OnPlane
<1>2. ASSUME NEW d \in Delivery, deliv[d].pc = "submitted",
             NEW i \in DOMAIN TopicsOf[d], k = Key(d, i)
      PROVE  OnPlane(k)
  <2>1. i \in 1..deliv[d].marked
    BY <1>2, TopicFacts DEF TypeOK, DelivType, Caller
  <2>2. QED
    BY <1>2, <2>1 DEF OnPlane, Delivered
<1>3. QED
  BY <1>1, <1>2, SeenFacts

\* What was seen before a request began stays on the plane.
LEMMA SeenStep ==
  ASSUME IInv, [Next]_vars, Grows
  PROVE  SeenOnPlane'
<1>1. ASSUME NEW r \in Request, NEW k \in seenBefore'[r] PROVE k \in Seen \/ k \in seenBefore[r]
  <2>1. ASSUME NEW q \in Request, Begin(q) PROVE k \in Seen \/ k \in seenBefore[r]
    BY <1>1, <2>1 DEF Begin, IInv, TypeOK, LogType, logVars
  <2>2. CASE UNCHANGED seenBefore
    BY <1>1, <2>2
  <2>3. QED
    BY <2>1, <2>2 DEF Next, vars, Malformed, Lookup, EngineOK, EngineFail, PublishOK, PublishFail,
         Sent, Lost, MarkDelivered, EndDelivery, Rotate, logVars
<1>2. \A r \in Request : seenBefore[r] \subseteq Object \X Topic
  BY DEF IInv, TypeOK, LogType, logVars
<1>3. ASSUME NEW r \in Request, NEW k \in seenBefore'[r] PROVE OnPlane(k)'
  <2>1. k \in Object \X Topic /\ OnPlane(k)
    BY <1>1, <1>2, <1>3, SeenType, SeenPlane DEF IInv, SeenOnPlane
  <2>2. QED
    BY <2>1 DEF Grows
<1>4. QED
  BY <1>3 DEF SeenOnPlane

\* A request's own part of the invariant: what it has not tried, the guard's
\* word, what it published and what it dropped.
Requests == Untried /\ WordKept /\ NoRepublish /\ DropJustified

\* A step that moves no request and gives no record a fate but the queue's.
LEMMA StillStep ==
  ASSUME IInv, Grows, UNCHANGED <<req, seenBefore>>,
         \A p \in Record : fate'[p] = fate[p] \/ (fate[p] = "queued" /\ fate'[p] \in {"sent", "lost"})
  PROVE  Requests'
<1>1. rotations \in Nat /\ (rotations' <= 1 => rotations <= 1)
  BY DEF IInv, TypeOK, GuardType, Grows
<1>2. \A r \in Request : req[r].pc \in {"engine", "publish"} => Now(r) \in Object \X Topic /\ Now(r)' = Now(r)
  BY KeyFacts DEF IInv, TypeOK, ReqType, Now, Key, Caller
<1>3. Untried'
  BY DEF IInv, Untried
<1>4. WordKept'
  BY <1>1, <1>2 DEF IInv, WordKept, Grows
<1>5. NoRepublish'
  BY <1>1 DEF IInv, NoRepublish, Published, KeyOf, Key
<1>6. DropJustified'
  <2>1. SUFFICES ASSUME NEW p \in Record, fate'[p] = "dropped" PROVE OnPlane(KeyOf(p))'
    BY DEF DropJustified, KeyOf, Key
  <2>2. fate[p] = "dropped" /\ KeyOf(p) \in Object \X Topic
    BY <2>1, KeyFacts
  <2>3. QED
    BY <2>2 DEF IInv, DropJustified, Grows, KeyOf, Key
<1>7. QED
  BY <1>3, <1>4, <1>5, <1>6 DEF Requests

\* A step of a request r that is at a topic: it moves to m and its topic's
\* record gets the fate w ("none": still open).
LEMMA RequestStep ==
  ASSUME IInv, Grows, UNCHANGED <<cur, prev, rotations, seenBefore>>,
         NEW r \in Request, req[r].pc \in {"lookup", "engine", "publish"},
         NEW m \in [pc : {"lookup", "engine", "publish", "done"}, i : Nat, known : BOOLEAN],
         NEW w \in {"none", "dropped", "unencoded", "queued", "refused"},
         req' = [req EXCEPT ![r] = m],
         fate' = [fate EXCEPT ![<<r, req[r].i>>] = w],
         w = "dropped" => OnPlane(Now(r)),
         w = "queued" /\ rotations <= 1 => Now(r) \notin seenBefore[r],
         m.pc = "lookup" => m.i = req[r].i + 1,
         m.pc \in {"engine", "publish"} => m.i = req[r].i /\ w = "none",
         m.pc = "engine" /\ m.known => OnPlane(Now(r)),
         m.pc = "engine" /\ ~m.known /\ rotations <= 1 => Now(r) \notin seenBefore[r],
         m.pc = "publish" /\ rotations <= 1 => Now(r) \notin seenBefore[r]
  PROVE  Requests'
<1> DEFINE p0 == <<r, req[r].i>>
<1>1. /\ p0 \in Record /\ KeyOf(p0) = Now(r) /\ Now(r) \in Object \X Topic
      /\ p0[1] = r /\ p0[2] = req[r].i /\ req[r].i \in Nat
  BY RecordFacts, KeyFacts DEF IInv, TypeOK, ReqType, Now
<1>2. \A p \in Record : p # p0 => fate'[p] = fate[p]
  BY <1>1 DEF IInv, TypeOK, FateType
<1>3. fate'[p0] = w
  BY <1>1 DEF IInv, TypeOK, FateType
<1>4. req'[r] = m /\ \A q \in Request : q # r => req'[q] = req[q]
  BY DEF IInv, TypeOK, ReqType
<1>5. Untried'
  <2>1. SUFFICES ASSUME NEW p \in Record,
                        req'[p[1]].pc = "idle" \/ (req'[p[1]].pc # "done" /\ p[2] >= req'[p[1]].i)
                 PROVE  fate'[p] = "none"
    BY DEF Untried
  <2>2. p[1] \in Request /\ p[2] \in Nat /\ p = <<p[1], p[2]>>
    BY RecordFacts, TopicFacts DEF Caller
  <2>3. CASE p[1] # r
    BY <1>1, <1>2, <1>4, <2>1, <2>2, <2>3 DEF IInv, Untried
  <2>4. CASE p[1] = r
    <3>1. m.pc # "idle" /\ m.pc # "done" /\ p[2] >= m.i
      BY <1>4, <2>1, <2>4
    <3>2. CASE m.pc = "lookup"
      BY <1>1, <1>2, <2>2, <2>4, <3>1, <3>2 DEF IInv, Untried
    <3>3. CASE m.pc \in {"engine", "publish"}
      BY <1>1, <1>2, <1>3, <2>2, <2>4, <3>1, <3>3 DEF IInv, Untried
    <3>4. QED
      BY <3>1, <3>2, <3>3
  <2>5. QED
    BY <2>3, <2>4
<1>6. WordKept'
  <2>1. SUFFICES ASSUME NEW q \in Request
                 PROVE  /\ req'[q].pc = "engine" /\ req'[q].known => OnPlane(Now(q))'
                        /\ req'[q].pc = "engine" /\ ~req'[q].known /\ rotations <= 1 => Now(q)' \notin seenBefore[q]
                        /\ req'[q].pc = "publish" /\ rotations <= 1 => Now(q)' \notin seenBefore[q]
    BY DEF WordKept
  <2>2. req'[q].pc \in {"engine", "publish"} => Now(q)' = Now(q) /\ Now(q) \in Object \X Topic
    BY <1>1, <1>4, KeyFacts DEF IInv, TypeOK, ReqType, Now, Key, Caller
  <2>3. req'[q].pc \in {"engine", "publish"} /\ OnPlane(Now(q)) => OnPlane(Now(q))'
    BY <2>2 DEF Grows
  <2>4. CASE q = r
    BY <1>4, <2>2, <2>3, <2>4
  <2>5. CASE q # r
    BY <1>4, <2>2, <2>3, <2>5 DEF IInv, WordKept
  <2>6. QED
    BY <2>4, <2>5
<1>7. NoRepublish'
  <2>1. SUFFICES ASSUME rotations <= 1, NEW p \in Record, fate'[p] \in {"queued", "sent", "lost"}
                 PROVE  KeyOf(p) \notin seenBefore[p[1]]
    BY DEF NoRepublish, Published, KeyOf, Key
  <2>2. CASE p = p0
    BY <1>1, <1>3, <2>1, <2>2
  <2>3. CASE p # p0
    BY <1>2, <2>1, <2>3 DEF IInv, NoRepublish, Published
  <2>4. QED
    BY <2>2, <2>3
<1>8. DropJustified'
  <2>1. SUFFICES ASSUME NEW p \in Record, fate'[p] = "dropped" PROVE OnPlane(KeyOf(p))'
    BY DEF DropJustified
  <2>2. OnPlane(KeyOf(p))
    <3>1. CASE p = p0
      BY <1>1, <1>3, <2>1, <3>1
    <3>2. CASE p # p0
      BY <1>2, <2>1, <3>2 DEF IInv, DropJustified
    <3>3. QED
      BY <3>1, <3>2
  <2>3. KeyOf(p) \in Object \X Topic
    BY KeyFacts
  <2>4. QED
    BY <2>2, <2>3 DEF Grows, KeyOf, Key
<1>9. QED
  BY <1>5, <1>6, <1>7, <1>8 DEF Requests

\* Advance keeps what is said of requests.
LEMMA AdvanceStep ==
  ASSUME IInv, Grows, UNCHANGED <<cur, prev, rotations, seenBefore>>,
         NEW r \in Request, req[r].pc \in {"lookup", "engine", "publish"},
         NEW w \in {"dropped", "unencoded", "queued"}, Advance(r, w),
         w = "dropped" => OnPlane(Now(r)),
         w = "queued" /\ rotations <= 1 => Now(r) \notin seenBefore[r]
  PROVE  Requests'
<1> DEFINE m == IF req[r].i = Len(TopicsOf[r])
                THEN [pc |-> "done", i |-> req[r].i, known |-> req[r].known]
                ELSE [pc |-> "lookup", i |-> req[r].i + 1, known |-> FALSE]
<1>1. req[r].i \in Nat /\ req[r].known \in BOOLEAN /\ req[r] = [pc |-> req[r].pc, i |-> req[r].i, known |-> req[r].known]
  BY DEF IInv, TypeOK, ReqType
<1>2. m \in [pc : {"lookup", "engine", "publish", "done"}, i : Nat, known : BOOLEAN]
  BY <1>1
<1>3. req' = [req EXCEPT ![r] = m]
  BY <1>1 DEF Advance, Move
<1>4. fate' = [fate EXCEPT ![<<r, req[r].i>>] = w]
  BY DEF Advance
<1>5. m.pc = "lookup" => m.i = req[r].i + 1
  OBVIOUS
<1>6. m.pc \notin {"engine", "publish"}
  OBVIOUS
<1> HIDE DEF m
<1>7. QED
  BY <1>2, <1>3, <1>4, <1>5, <1>6, RequestStep

\* A request that stays at its topic, or ends there.
LEMMA MoveStep ==
  ASSUME IInv, Grows, UNCHANGED <<cur, prev, rotations, seenBefore>>,
         NEW r \in Request, req[r].pc \in {"lookup", "engine", "publish"},
         NEW pc \in {"engine", "publish", "done"}, NEW known \in BOOLEAN,
         Move(r, pc, known),
         \/ UNCHANGED fate
         \/ pc = "done" /\ fate' = [fate EXCEPT ![<<r, req[r].i>>] = "refused"],
         pc = "engine" /\ known => OnPlane(Now(r)),
         pc \in {"engine", "publish"} /\ ~known /\ rotations <= 1 => Now(r) \notin seenBefore[r],
         pc = "publish" => ~known
  PROVE  Requests'
<1> DEFINE m == [pc |-> pc, i |-> req[r].i, known |-> known]
<1>1. req[r].i \in Nat /\ <<r, req[r].i>> \in Record
  BY RecordFacts DEF IInv, TypeOK, ReqType
<1>2. m \in [pc : {"lookup", "engine", "publish", "done"}, i : Nat, known : BOOLEAN]
  BY <1>1
<1>3. m.pc = pc /\ m.i = req[r].i /\ m.known = known /\ req' = [req EXCEPT ![r] = m]
  BY DEF Move
<1>4. fate[<<r, req[r].i>>] = "none"
  BY <1>1 DEF IInv, Untried
<1> HIDE DEF m
<1>5. CASE UNCHANGED fate
  <2>1. fate' = [fate EXCEPT ![<<r, req[r].i>>] = "none"]
    BY <1>1, <1>4, <1>5 DEF IInv, TypeOK, FateType
  <2>2. QED
    BY <1>2, <1>3, <2>1, RequestStep
<1>6. CASE pc = "done" /\ fate' = [fate EXCEPT ![<<r, req[r].i>>] = "refused"]
  BY <1>2, <1>3, <1>6, RequestStep
<1>7. QED
  BY <1>5, <1>6

\* Settle does, by the guard's word.
LEMMA SettleStep ==
  ASSUME IInv, Grows, UNCHANGED <<cur, prev, rotations, seenBefore>>,
         NEW r \in Request, req[r].pc \in {"lookup", "engine"},
         NEW known \in BOOLEAN, Settle(r, known),
         known => OnPlane(Now(r)),
         ~known /\ rotations <= 1 => Now(r) \notin seenBefore[r]
  PROVE  Requests'
<1>1. CASE known /\ Advance(r, "dropped")
  BY <1>1, AdvanceStep
<1>2. CASE Advance(r, "unencoded")
  BY <1>2, AdvanceStep
<1>3. CASE ~known /\ Move(r, "publish", known) /\ UNCHANGED fate
  BY <1>3, MoveStep
<1>4. QED
  BY <1>1, <1>2, <1>3 DEF Settle

\* Every step does.
LEMMA RequestsStep ==
  ASSUME IInv, [Next]_vars, Grows
  PROVE  Requests'
<1>t. req \in [Request -> [pc : {"idle", "lookup", "engine", "publish", "done"}, i : Nat, known : BOOLEAN]]
  BY DEF IInv, TypeOK, ReqType
<1>1. ASSUME NEW r \in Request, Malformed(r) PROVE Requests'
  <2>1. /\ \A q \in Request : q # r => req'[q] = req[q]
        /\ req'[r].pc = "done" /\ UNCHANGED <<fate, seenBefore, rotations, cur, prev, deliv>>
    BY <1>t, <1>1 DEF Malformed, Move, guardVars, logVars
  <2>2. Untried'
    BY <2>1, RecordFacts DEF IInv, Untried
  <2>3. WordKept'
    BY <2>1 DEF IInv, WordKept, Now, OnPlane, Delivered
  <2>4. NoRepublish' /\ DropJustified'
    BY <2>1 DEF IInv, NoRepublish, DropJustified, Published, OnPlane, Delivered
  <2>5. QED
    BY <2>2, <2>3, <2>4 DEF Requests
<1>2. ASSUME NEW r \in Request, Begin(r) PROVE Requests'
  <2>1. /\ \A q \in Request : q # r => req'[q] = req[q] /\ seenBefore'[q] = seenBefore[q]
        /\ req[r].pc = "idle" /\ req'[r].pc = "lookup"
        /\ UNCHANGED <<fate, rotations, cur, prev, deliv>>
    BY <1>t, <1>2 DEF Begin, At, guardVars, IInv, TypeOK, LogType, logVars
  <2>2. \A p \in Record : p[1] = r => fate[p] = "none"
    BY <2>1 DEF IInv, Untried
  <2>3. Untried'
    BY <2>1, <2>2, RecordFacts DEF IInv, Untried
  <2>4. WordKept'
    BY <2>1 DEF IInv, WordKept, Now, OnPlane, Delivered
  <2>5. NoRepublish'
    BY <2>1, <2>2, RecordFacts DEF IInv, NoRepublish, Published
  <2>6. DropJustified'
    BY <2>1 DEF IInv, DropJustified, OnPlane, Delivered
  <2>7. QED
    BY <2>3, <2>4, <2>5, <2>6 DEF Requests
<1>3. ASSUME NEW r \in Request, Lookup(r) PROVE Requests'
  <2>1. req[r].pc = "lookup" /\ UNCHANGED <<cur, prev, rotations, seenBefore>>
    BY <1>3 DEF Lookup, At, guardVars, logVars
  <2>2. Now(r) \in Object \X Topic
    BY <2>1, KeyFacts DEF IInv, TypeOK, ReqType, Now, Caller
  <2>3. Known(Now(r)) \in BOOLEAN /\ (Known(Now(r)) => OnPlane(Now(r)))
    BY DEF Known, IInv, GuardSound
  <2>4. ~Known(Now(r)) /\ rotations <= 1 => Now(r) \notin seenBefore[r]
    BY <2>2 DEF Known, IInv, GuardComplete, SeenOnPlane
  <2>5. CASE IsTrusted(r)
    BY <1>3, <2>1, <2>3, <2>4, <2>5, SettleStep DEF Lookup
  <2>6. CASE ~IsTrusted(r)
    <3>1. Move(r, "engine", Known(Now(r))) /\ UNCHANGED fate
      BY <1>3, <2>6 DEF Lookup
    <3>2. QED
      BY <2>1, <2>3, <2>4, <3>1, MoveStep
  <2>7. QED
    BY <2>5, <2>6
<1>4. ASSUME NEW r \in Request, EngineOK(r) PROVE Requests'
  <2>1. req[r].pc = "engine" /\ UNCHANGED <<cur, prev, rotations, seenBefore>> /\ req[r].known \in BOOLEAN
    BY <1>t, <1>4 DEF EngineOK, At, guardVars
  <2>2. /\ req[r].known => OnPlane(Now(r))
        /\ ~req[r].known /\ rotations <= 1 => Now(r) \notin seenBefore[r]
    BY <2>1 DEF IInv, WordKept
  <2>3. QED
    BY <1>4, <2>1, <2>2, SettleStep DEF EngineOK
<1>5. ASSUME NEW r \in Request, EngineFail(r) \/ PublishFail(r) PROVE Requests'
  <2>1. /\ req[r].pc \in {"engine", "publish"} /\ UNCHANGED <<cur, prev, rotations, seenBefore>>
        /\ Move(r, "done", req[r].known) /\ req[r].known \in BOOLEAN
        /\ \/ UNCHANGED fate
           \/ fate' = [fate EXCEPT ![<<r, req[r].i>>] = "refused"]
    BY <1>t, <1>5 DEF EngineFail, PublishFail, Abort, At, guardVars, logVars
  <2>2. QED
    BY <2>1, MoveStep
<1>6. ASSUME NEW r \in Request, PublishOK(r) PROVE Requests'
  <2>1. req[r].pc = "publish" /\ UNCHANGED <<cur, prev, rotations, seenBefore>> /\ Advance(r, "queued")
    BY <1>6 DEF PublishOK, At, guardVars, logVars
  <2>2. rotations <= 1 => Now(r) \notin seenBefore[r]
    BY <2>1 DEF IInv, WordKept
  <2>3. QED
    BY <2>1, <2>2, AdvanceStep
<1>7. ASSUME NEW p \in Record, Sent(p) \/ Lost(p) PROVE Requests'
  <2>1. \A q \in Record : fate'[q] = fate[q] \/ (fate[q] = "queued" /\ fate'[q] \in {"sent", "lost"})
    BY <1>7 DEF Sent, Lost, IInv, TypeOK, FateType
  <2>2. QED
    BY <1>7, <2>1, StillStep DEF Sent, Lost, logVars
<1>8. CASE UNCHANGED <<req, fate, seenBefore>>
  BY <1>8, StillStep
<1>9. QED
  BY <1>1, <1>2, <1>3, <1>4, <1>5, <1>6, <1>7, <1>8
     DEF Next, vars, logVars, MarkDelivered, EndDelivery, Rotate

-----------------------------------------------------------------------------
(* The theorems *)

\* The invariant holds at the start.
LEMMA InitIInv == Init => IInv
<1> SUFFICES ASSUME Init PROVE IInv
  OBVIOUS
<1>1. TypeOK
  BY TopicFacts, FacadeAssumption DEF Init, TypeOK, ReqType, AnswerType, FateType, GuardType, DelivType,
       LogType, Caller
<1>2. \A k : ~OnPlane(k)
  BY DEF Init, OnPlane, Delivered
<1>3. Untried
  BY RecordFacts DEF Init, Untried
<1>4. GuardSound /\ GuardComplete /\ SeenOnPlane
  BY <1>2 DEF Init, GuardSound, GuardComplete, SeenOnPlane
<1>5. WordKept
  BY DEF Init, WordKept
<1>6. NoRepublish /\ DropJustified
  BY DEF Init, NoRepublish, DropJustified, Published
<1>7. QED
  BY <1>1, <1>3, <1>4, <1>5, <1>6 DEF IInv

\* Every step keeps it.
LEMMA NextIInv == IInv /\ [Next]_vars => IInv'
<1> SUFFICES ASSUME IInv, [Next]_vars PROVE IInv'
  OBVIOUS
<1>1. TypeOK'
  BY TypeStep DEF IInv
<1>2. Grows
  BY GrowsStep DEF IInv
<1>3. GuardSound' /\ GuardComplete'
  BY <1>1, <1>2, GuardStep
<1>4. SeenOnPlane'
  BY <1>2, SeenStep
<1>5. Requests'
  BY <1>2, RequestsStep
<1>6. QED
  BY <1>1, <1>3, <1>4, <1>5 DEF IInv, Requests

\* The state of the facade is always well typed, whatever its requests,
\* deliveries and topics.
THEOREM TypeCorrect == Spec => []TypeOK
<1>1. IInv => TypeOK
  BY DEF IInv
<1>2. QED
  BY <1>1, InitIInv, NextIInv, PTL DEF Spec

\* No request publishes what was on the plane, and known here, when it began:
\* the guard of Feed.Handle and of the publish callback suffices, for any number
\* of concurrent requests and deliveries, until the registry rotates twice.
THEOREM NoRepublishHolds == Spec => []NoRepublish
<1>1. IInv => NoRepublish
  BY DEF IInv
<1>2. QED
  BY <1>1, InitIInv, NextIInv, PTL DEF Spec

\* What submit withholds as already seen is on the plane, however publishes
\* fail and whatever the registry forgets.
THEOREM DropJustifiedHolds == Spec => []DropJustified
<1>1. IInv => DropJustified
  BY DEF IInv
<1>2. QED
  BY <1>1, InitIInv, NextIInv, PTL DEF Spec

-----------------------------------------------------------------------------
(* The other targets *)

\* The request of this record is about to publish it.
AtPublish(p) == req[p[1]].pc = "publish" /\ req[p[1]].i = p[2]

\* A record gets a fate other than the guard's exactly when its topic's other
\* targets were offered the object, and any fate only after the shadow was;
\* unless a trust rule skips them, and then neither ever is.
OfferedFirst ==
  \A p \in Record :
    IF Unrouted(p)
    THEN p \notin offered \cup shadowed
    ELSE /\ p \in offered <=> fate[p] \notin {"none", "dropped"} \/ AtPublish(p)
         /\ ShadowFacade /\ (fate[p] # "none" \/ AtPublish(p)) => p \in shadowed

\* The topics a request is past have a fate, and all of them do once the client
\* is told 200, which ends the request.  The engine is asked about no topic that
\* a trust rule covers.
Tried ==
  /\ \A p \in Record :
       \/ answer[p[1]] = "ok"
       \/ req[p[1]].pc \in {"lookup", "engine", "publish"} /\ p[2] < req[p[1]].i
       => fate[p] # "none"
  /\ \A r \in Request : answer[r] = "ok" => req[r].pc = "done"
  /\ \A r \in Request : req[r].pc = "engine" => ~IsTrusted(r)

\* What a step of a request r that is at a topic hands on: at most its topic's
\* record p; to the other targets when that is published or fails (out), to the
\* shadow when it is past the engine (past); and neither under a trust rule.
Hands(r, p, out, past) ==
  /\ \A q \in Record : q # p => (q \in offered' <=> q \in offered) /\ (q \in shadowed' <=> q \in shadowed)
  /\ IF IsTrusted(r) THEN offered' = offered /\ shadowed' = shadowed
                     ELSE (p \in offered' <=> out) /\ (ShadowFacade /\ past => p \in shadowed')

\* A step of a request r that is at a topic: it moves to m, its topic's record
\* gets the fate w ("none": still open), and its client is told a.
Steps(r, m, w, a) ==
  /\ req' = [req EXCEPT ![r] = m] /\ fate' = [fate EXCEPT ![<<r, req[r].i>>] = w]
  /\ answer' = [answer EXCEPT ![r] = a]
  /\ Hands(r, <<r, req[r].i>>, w \notin {"none", "dropped"} \/ m.pc = "publish",
                               w # "none" \/ m.pc = "publish")
  /\ m.pc = "lookup" => m.i = req[r].i + 1 /\ w # "none"
  /\ m.pc \in {"engine", "publish"} => m.i = req[r].i
  /\ m.pc = "engine" => ~IsTrusted(r)
  /\ a = "ok" => m.pc = "done" /\ req[r].i = Len(TopicsOf[r]) /\ w # "none"

\* What is known of the record of the topic a request is at.
LEMMA RecordNow ==
  ASSUME IInv, OfferedFirst, NEW r \in Request, req[r].pc \in {"lookup", "engine", "publish"}
  PROVE  /\ <<r, req[r].i>> \in Record /\ req[r].i \in Nat
         /\ Unrouted(<<r, req[r].i>>) <=> IsTrusted(r)
         /\ fate[<<r, req[r].i>>] = "none"
         /\ AtPublish(<<r, req[r].i>>) <=> req[r].pc = "publish"
         /\ ~IsTrusted(r) => (<<r, req[r].i>> \in offered <=> req[r].pc = "publish")
         /\ ~IsTrusted(r) /\ ShadowFacade /\ req[r].pc = "publish" => <<r, req[r].i>> \in shadowed
<1> DEFINE p0 == <<r, req[r].i>>
<1>1. p0 \in Record /\ p0[1] = r /\ p0[2] = req[r].i /\ req[r].i \in Nat /\ (Unrouted(p0) <=> IsTrusted(r))
  BY RecordFacts DEF IInv, TypeOK, ReqType, Unrouted, IsTrusted
<1>2. fate[p0] = "none"
  BY <1>1 DEF IInv, Untried
<1>3. AtPublish(p0) <=> req[r].pc = "publish"
  BY <1>1 DEF AtPublish
<1> HIDE DEF p0
<1>4. /\ ~IsTrusted(r) => (p0 \in offered <=> req[r].pc = "publish")
      /\ ~IsTrusted(r) /\ ShadowFacade /\ req[r].pc = "publish" => p0 \in shadowed
  BY <1>1, <1>2, <1>3 DEF OfferedFirst
<1> QED BY <1>1, <1>2, <1>3, <1>4 DEF p0

\* Such a step keeps both.
LEMMA StepsServe ==
  ASSUME IInv, OfferedFirst, Tried, NEW r \in Request, req[r].pc \in {"lookup", "engine", "publish"},
         NEW m, NEW w, NEW a, Steps(r, m, w, a)
  PROVE  OfferedFirst' /\ Tried'
<1>0. PICK p0 \in Record : p0 = <<r, req[r].i>>
  BY RecordNow
<1>1. p0[1] = r /\ p0[2] = req[r].i /\ req[r].i \in Nat /\ (Unrouted(p0) <=> IsTrusted(r))
  BY <1>0, RecordNow
<1>2. fate'[p0] = w /\ \A p \in Record : p # p0 => fate'[p] = fate[p]
  BY <1>0, <1>1 DEF Steps, IInv, TypeOK, FateType
<1>3. req'[r] = m /\ \A s \in Request : s # r => req'[s] = req[s]
  BY DEF Steps, IInv, TypeOK, ReqType
<1>4. answer'[r] = a /\ \A s \in Request : s # r => answer'[s] = answer[s]
  BY DEF Steps, IInv, TypeOK, AnswerType
<1>5. ASSUME NEW p \in Record PROVE p[1] \in Request /\ p[2] \in 1..Len(TopicsOf[p[1]]) /\ p = <<p[1], p[2]>>
  BY RecordFacts, TopicFacts DEF Caller
<1>6. ASSUME NEW p \in Record, p # p0 PROVE AtPublish(p)' <=> AtPublish(p)
  <2>1. CASE p[1] # r
    BY <1>3, <1>5, <2>1 DEF AtPublish
  <2>2. CASE p[1] = r
    <3>1. p[2] # req[r].i
      BY <1>0, <1>5, <1>6, <2>2
    <3>2. m.pc = "publish" => m.i = req[r].i
      BY DEF Steps
    <3> QED BY <1>3, <2>2, <3>1, <3>2 DEF AtPublish
  <2> QED BY <2>1, <2>2
<1>7. AtPublish(p0)' <=> m.pc = "publish"
  BY <1>1, <1>3 DEF AtPublish, Steps
<1>8. ASSUME NEW p \in Record, fate'[p] = "none" PROVE answer'[p[1]] # "ok"
  <2>1. CASE p[1] # r
    BY <1>1, <1>2, <1>4, <1>5, <1>8, <2>1 DEF Tried
  <2>2. CASE p = p0
    BY <1>1, <1>2, <1>4, <1>8, <2>2 DEF Steps
  <2>3. CASE p # p0 /\ p[1] = r
    <3>1. p[2] \in Nat /\ p[2] # req[r].i /\ p[2] <= Len(TopicsOf[r])
      BY <1>0, <1>5, <2>3, TopicFacts DEF Caller
    <3>2. ~(p[2] < req[r].i)
      BY <1>2, <1>8, <2>3 DEF Tried
    <3>3. req[r].i # Len(TopicsOf[r])
      BY <1>1, <3>1, <3>2, TopicFacts DEF Caller
    <3> QED BY <1>4, <2>3, <3>3 DEF Steps
  <2> QED BY <2>1, <2>2, <2>3
<1>9. ASSUME NEW p \in Record, fate'[p] = "none", req'[p[1]].pc \in {"lookup", "engine", "publish"}
      PROVE  ~(p[2] < req'[p[1]].i)
  <2>1. CASE p[1] # r
    BY <1>1, <1>2, <1>3, <1>5, <1>9, <2>1 DEF Tried
  <2>2. CASE p[1] = r
    <3>1. p[2] \in Nat /\ (p = p0 <=> p[2] = req[r].i)
      BY <1>0, <1>5, <2>2, TopicFacts DEF Caller
    <3>2. p # p0 => ~(p[2] < req[r].i)
      BY <1>2, <1>9, <2>2 DEF Tried
    <3>3. m.pc = "lookup" => p # p0 /\ m.i = req[r].i + 1
      BY <1>2, <1>9 DEF Steps
    <3>4. m.pc \in {"engine", "publish"} => m.i = req[r].i
      BY DEF Steps
    <3> QED BY <1>1, <1>3, <1>9, <2>2, <3>1, <3>2, <3>3, <3>4
  <2> QED BY <2>1, <2>2
<1>10. ASSUME NEW s \in Request, answer'[s] = "ok" PROVE req'[s].pc = "done"
  BY <1>3, <1>4, <1>10 DEF Steps, Tried
<1>11. OfferedFirst'
  <2>1. /\ \A q \in Record : q # p0 => (q \in offered' <=> q \in offered) /\ (q \in shadowed' <=> q \in shadowed)
        /\ IF IsTrusted(r) THEN offered' = offered /\ shadowed' = shadowed
                           ELSE /\ p0 \in offered' <=> w \notin {"none", "dropped"} \/ m.pc = "publish"
                                /\ ShadowFacade /\ (w # "none" \/ m.pc = "publish") => p0 \in shadowed'
    BY <1>0 DEF Steps, Hands
  <2> SUFFICES ASSUME NEW p \in Record
               PROVE  IF Unrouted(p)
                      THEN p \notin offered' \cup shadowed'
                      ELSE /\ p \in offered' <=> fate'[p] \notin {"none", "dropped"} \/ AtPublish(p)'
                           /\ ShadowFacade /\ (fate'[p] # "none" \/ AtPublish(p)') => p \in shadowed'
    BY DEF OfferedFirst, Unrouted
  <2>2. CASE p = p0
    <3>1. CASE IsTrusted(r)
      <4>1. Unrouted(p) /\ p \notin offered \cup shadowed
        BY <1>1, <2>2, <3>1 DEF OfferedFirst
      <4> QED BY <2>1, <3>1, <4>1
    <3>2. CASE ~IsTrusted(r)
      <4>1. ~Unrouted(p) /\ fate'[p] = w /\ (AtPublish(p)' <=> m.pc = "publish")
        BY <1>1, <1>2, <1>7, <2>2, <3>2
      <4> QED BY <2>1, <2>2, <3>2, <4>1
    <3> QED BY <3>1, <3>2
  <2>3. CASE p # p0
    <3>1. fate'[p] = fate[p] /\ (AtPublish(p)' <=> AtPublish(p))
      BY <1>2, <1>6, <2>3
    <3> QED BY <2>1, <2>3, <3>1 DEF OfferedFirst
  <2> QED BY <2>2, <2>3
<1>12. ASSUME NEW s \in Request, req'[s].pc = "engine" PROVE ~IsTrusted(s)'
  <2>1. CASE s = r
    BY <1>3, <1>12, <2>1 DEF Steps, IsTrusted
  <2>2. CASE s # r
    BY <1>3, <1>12, <2>2 DEF Tried, IsTrusted
  <2> QED BY <2>1, <2>2
<1>13. Tried'
  BY <1>8, <1>9, <1>10, <1>12 DEF Tried
<1> QED BY <1>11, <1>13

\* A step that moves no request, tells no client anything and gives no record
\* a fate but the queue's keeps both.
LEMMA StillServes ==
  ASSUME OfferedFirst, Tried, UNCHANGED <<req, answer, offered, shadowed>>,
         \A p \in Record : fate'[p] = fate[p] \/ (fate[p] = "queued" /\ fate'[p] \in {"sent", "lost"})
  PROVE  OfferedFirst' /\ Tried'
<1>1. \A p : AtPublish(p)' <=> AtPublish(p)
  BY DEF AtPublish
<1>2. OfferedFirst'
  BY <1>1 DEF OfferedFirst, Unrouted
<1>3. Tried'
  BY DEF Tried, IsTrusted
<1> QED BY <1>2, <1>3

\* Advance, to the next topic or to the answer 200.
LEMMA AdvanceServes ==
  ASSUME IInv, OfferedFirst, Tried, NEW r \in Request, req[r].pc \in {"lookup", "engine", "publish"},
         NEW w \in {"dropped", "unencoded", "queued"}, Advance(r, w),
         Hands(r, <<r, req[r].i>>, w # "dropped", TRUE)
  PROVE  OfferedFirst' /\ Tried'
<1> DEFINE last == req[r].i = Len(TopicsOf[r])
           m == IF last THEN [pc |-> "done", i |-> req[r].i, known |-> req[r].known]
                        ELSE [pc |-> "lookup", i |-> req[r].i + 1, known |-> FALSE]
           a == IF last THEN "ok" ELSE answer[r]
<1>1. req' = [req EXCEPT ![r] = m] /\ fate' = [fate EXCEPT ![<<r, req[r].i>>] = w]
  BY DEF Advance, Move, IInv, TypeOK, ReqType
<1>2. answer' = [answer EXCEPT ![r] = a]
  BY DEF Advance, IInv, TypeOK, AnswerType
<1>3. ~last => answer[r] # "ok"
  BY DEF Tried
<1>4. /\ m.pc = "lookup" => m.i = req[r].i + 1
      /\ m.pc \notin {"engine", "publish"}
      /\ a = "ok" => m.pc = "done" /\ req[r].i = Len(TopicsOf[r])
  BY <1>3
<1> HIDE DEF m, a
<1>5. Hands(r, <<r, req[r].i>>, w \notin {"none", "dropped"} \/ m.pc = "publish", w # "none" \/ m.pc = "publish")
  BY <1>4 DEF Hands
<1>6. Steps(r, m, w, a)
  BY <1>1, <1>2, <1>4, <1>5 DEF Steps
<1> QED BY <1>6, StepsServe

\* A move at the same topic, with the record's fate open.
LEMMA MoveServes ==
  ASSUME IInv, OfferedFirst, Tried, NEW r \in Request, req[r].pc \in {"lookup", "engine", "publish"},
         NEW pc \in {"engine", "publish", "done"}, NEW known, Move(r, pc, known),
         NEW a, a # "ok", answer' = [answer EXCEPT ![r] = a], fate' = fate,
         Hands(r, <<r, req[r].i>>, pc = "publish", pc = "publish"), pc = "engine" => ~IsTrusted(r)
  PROVE  OfferedFirst' /\ Tried'
<1> DEFINE m == [pc |-> pc, i |-> req[r].i, known |-> known]
<1>1. <<r, req[r].i>> \in Record /\ fate[<<r, req[r].i>>] = "none"
  BY RecordNow
<1>2. fate' = [fate EXCEPT ![<<r, req[r].i>>] = "none"]
  BY <1>1 DEF IInv, TypeOK, FateType
<1>3. req' = [req EXCEPT ![r] = m] /\ m.pc = pc /\ m.i = req[r].i
  BY DEF Move
<1> HIDE DEF m
<1>4. Hands(r, <<r, req[r].i>>, "none" \notin {"none", "dropped"} \/ m.pc = "publish",
                                "none" # "none" \/ m.pc = "publish")
  BY <1>3 DEF Hands
<1>5. Steps(r, m, "none", a)
  BY <1>2, <1>3, <1>4 DEF Steps
<1> QED BY <1>5, StepsServe

\* Settle, whatever the guard's word.
LEMMA SettleServes ==
  ASSUME IInv, OfferedFirst, Tried, NEW r \in Request, req[r].pc \in {"lookup", "engine"},
         NEW known \in BOOLEAN, Settle(r, known),
         IF IsTrusted(r) THEN shadowed' = shadowed ELSE OfferShadow(r)
  PROVE  OfferedFirst' /\ Tried'
<1> DEFINE p0 == <<r, req[r].i>>
<1>0. answer' = answer => answer' = [answer EXCEPT ![r] = answer[r]] /\ answer[r] # "ok"
  BY DEF IInv, TypeOK, AnswerType, Tried
<1>1. OfferAlso(r) => Hands(r, p0, TRUE, TRUE)
  BY DEF OfferAlso, OfferShadow, Hands
<1>2. offered' = offered => Hands(r, p0, FALSE, TRUE)
  <2>1. ~IsTrusted(r) => p0 \notin offered
    BY RecordNow
  <2> QED BY <2>1 DEF OfferShadow, Hands
<1> HIDE DEF p0
<1>3. CASE known /\ Advance(r, "dropped") /\ UNCHANGED offered
  <2>1. Hands(r, p0, "dropped" # "dropped", TRUE)
    BY <1>2, <1>3
  <2> QED BY <1>3, <2>1, AdvanceServes DEF p0
<1>4. CASE OfferAlso(r) /\ Advance(r, "unencoded")
  <2>1. Hands(r, p0, "unencoded" # "dropped", TRUE)
    BY <1>1, <1>4
  <2> QED BY <1>4, <2>1, AdvanceServes DEF p0
<1>5. CASE OfferAlso(r) /\ Move(r, "publish", known) /\ UNCHANGED <<answer, fate>>
  <2>1. Hands(r, p0, "publish" = "publish", "publish" = "publish")
    BY <1>1, <1>5
  <2> QED BY <1>0, <1>5, <2>1, MoveServes DEF p0
<1> QED BY <1>3, <1>4, <1>5 DEF Settle

\* A step from before publishing that hands nothing on.
LEMMA HandsNothing ==
  ASSUME IInv, OfferedFirst, NEW r \in Request, req[r].pc \in {"lookup", "engine"},
         UNCHANGED <<offered, shadowed>>
  PROVE  Hands(r, <<r, req[r].i>>, FALSE, FALSE)
BY RecordNow DEF Hands

\* Nor does the end of publishing: all was handed on before.
LEMMA HandedBefore ==
  ASSUME IInv, OfferedFirst, NEW r \in Request, req[r].pc = "publish", UNCHANGED <<offered, shadowed>>
  PROVE  Hands(r, <<r, req[r].i>>, TRUE, TRUE)
BY RecordNow DEF Hands

\* Every step keeps both.
LEMMA ServeStep ==
  ASSUME IInv, OfferedFirst, Tried, [Next]_vars
  PROVE  OfferedFirst' /\ Tried'
<1>1. ASSUME NEW r \in Request, Malformed(r) \/ Begin(r) PROVE OfferedFirst' /\ Tried'
  <2>1. /\ req[r].pc = "idle" /\ req'[r].pc \in {"done", "lookup"} /\ fate' = fate
        /\ offered' = offered /\ shadowed' = shadowed
        /\ req'[r].pc = "lookup" => req'[r].i = 1
        /\ \A s \in Request : s # r => req'[s] = req[s]
    BY <1>1 DEF Malformed, Begin, Move, At, IInv, TypeOK, ReqType, logVars
  <2>2. answer'[r] # "ok" /\ \A s \in Request : s # r => answer'[s] = answer[s]
    BY <1>1, <2>1 DEF Malformed, Begin, IInv, TypeOK, AnswerType, Tried
  <2>3. \A p \in Record : AtPublish(p)' <=> AtPublish(p)
    BY <2>1, RecordFacts DEF AtPublish
  <2>4. OfferedFirst'
    BY <2>1, <2>3 DEF OfferedFirst, Unrouted
  <2>5. \A p \in Record : p[1] \in Request /\ p[2] \in Nat /\ ~(p[2] < 1)
    BY RecordFacts, TopicFacts DEF Caller
  <2>6. Tried'
    BY <2>1, <2>2, <2>5 DEF Tried, IsTrusted
  <2> QED BY <2>4, <2>6
<1>2. ASSUME NEW r \in Request, Lookup(r) PROVE OfferedFirst' /\ Tried'
  <2>1. req[r].pc = "lookup" /\ Known(Now(r)) \in BOOLEAN /\ shadowed' = shadowed
    BY <1>2 DEF Lookup, At, Known, logVars
  <2>2. CASE IsTrusted(r)
    BY <1>2, <2>1, <2>2, SettleServes DEF Lookup
  <2>3. CASE ~IsTrusted(r)
    <3>1. Move(r, "engine", Known(Now(r))) /\ answer' = answer /\ fate' = fate /\ offered' = offered
      BY <1>2, <2>3 DEF Lookup
    <3>2. answer' = [answer EXCEPT ![r] = answer[r]] /\ answer[r] # "ok"
      BY <2>1, <3>1 DEF IInv, TypeOK, AnswerType, Tried
    <3>3. Hands(r, <<r, req[r].i>>, "engine" = "publish", "engine" = "publish")
      BY <2>1, <3>1, HandsNothing
    <3> QED BY <2>1, <2>3, <3>1, <3>2, <3>3, MoveServes
  <2> QED BY <2>2, <2>3
<1>3. ASSUME NEW r \in Request, EngineOK(r) PROVE OfferedFirst' /\ Tried'
  <2>1. req[r].pc = "engine" /\ req[r].known \in BOOLEAN /\ OfferShadow(r) /\ Settle(r, req[r].known)
    BY <1>3, KnownType DEF EngineOK, At, IInv, TypeOK
  <2>2. ~IsTrusted(r)
    BY <2>1 DEF Tried
  <2> QED BY <2>1, <2>2, SettleServes
<1>4. ASSUME NEW r \in Request, EngineFail(r) PROVE OfferedFirst' /\ Tried'
  <2>1. /\ req[r].pc = "engine" /\ Move(r, "done", req[r].known) /\ fate' = fate
        /\ answer' = [answer EXCEPT ![r] = "engine failed"] /\ UNCHANGED <<offered, shadowed>>
    BY <1>4 DEF EngineFail, Abort, At, logVars
  <2>2. Hands(r, <<r, req[r].i>>, "done" = "publish", "done" = "publish")
    BY <2>1, HandsNothing
  <2> QED BY <2>1, <2>2, MoveServes
<1>5. ASSUME NEW r \in Request, PublishOK(r) PROVE OfferedFirst' /\ Tried'
  <2>1. req[r].pc = "publish" /\ Advance(r, "queued") /\ UNCHANGED <<offered, shadowed>>
    BY <1>5 DEF PublishOK, At, logVars
  <2>2. Hands(r, <<r, req[r].i>>, "queued" # "dropped", TRUE)
    BY <2>1, HandedBefore
  <2> QED BY <2>1, <2>2, AdvanceServes
<1>6. ASSUME NEW r \in Request, PublishFail(r) PROVE OfferedFirst' /\ Tried'
  <2> DEFINE m == [pc |-> "done", i |-> req[r].i, known |-> req[r].known]
  <2>1. /\ req[r].pc = "publish" /\ req' = [req EXCEPT ![r] = m] /\ UNCHANGED <<offered, shadowed>>
        /\ answer' = [answer EXCEPT ![r] = "retry"]
        /\ fate' = [fate EXCEPT ![<<r, req[r].i>>] = "refused"] /\ m.pc = "done"
    BY <1>6 DEF PublishFail, Abort, Move, At, logVars
  <2> HIDE DEF m
  <2>2. Hands(r, <<r, req[r].i>>, "refused" \notin {"none", "dropped"} \/ m.pc = "publish",
                                  "refused" # "none" \/ m.pc = "publish")
    BY <2>1, HandedBefore
  <2>3. Steps(r, m, "refused", "retry")
    BY <2>1, <2>2 DEF Steps
  <2> QED BY <2>1, <2>3, StepsServe
<1>7. ASSUME NEW p \in Record, Sent(p) \/ Lost(p) PROVE OfferedFirst' /\ Tried'
  <2>1. \A q \in Record : fate'[q] = fate[q] \/ (fate[q] = "queued" /\ fate'[q] \in {"sent", "lost"})
    BY <1>7 DEF Sent, Lost, IInv, TypeOK, FateType
  <2> QED BY <1>7, <2>1, StillServes DEF Sent, Lost, logVars
<1>8. CASE UNCHANGED <<req, answer, offered, shadowed, fate>>
  BY <1>8, StillServes
<1> QED
  BY <1>1, <1>2, <1>3, <1>4, <1>5, <1>6, <1>7, <1>8
     DEF Next, vars, logVars, MarkDelivered, EndDelivery, Rotate

\* For every topic a client was told 200 for, whatever the guard withholds and
\* whatever fails: the shadow was offered the object; the other targets were,
\* exactly if the guard did not withhold it; and if it did, an earlier offer,
\* the feed or a trusted source had charge of it.
THEOREM OtherTargetsServedHolds == Spec => []OtherTargetsServed
<1>1. Init => OfferedFirst /\ Tried
  BY RecordFacts DEF Init, OfferedFirst, Tried, AtPublish
<1>2. IInv /\ (OfferedFirst /\ Tried) /\ [Next]_vars => (OfferedFirst /\ Tried)'
  BY ServeStep
<1>3. ASSUME IInv, OfferedFirst, Tried PROVE OtherTargetsServed
  <2> SUFFICES ASSUME NEW p \in Record, ~Unrouted(p), answer[p[1]] = "ok"
               PROVE  /\ ShadowFacade => p \in shadowed
                      /\ p \in offered <=> fate[p] # "dropped"
                      /\ \/ \E q \in offered : KeyOf(q) = KeyOf(p)
                         \/ Delivered(KeyOf(p))
                         \/ \E q \in Record : KeyOf(q) = KeyOf(p) /\ fate[q] = "sent" /\ Unrouted(q)
    BY <1>3 DEF OtherTargetsServed, OfferedFirst
  <2>1. fate[p] # "none" /\ ~AtPublish(p)
    BY <1>3, RecordFacts DEF Tried, AtPublish
  <2>2. (ShadowFacade => p \in shadowed) /\ (p \in offered <=> fate[p] # "dropped")
    BY <1>3, <2>1 DEF OfferedFirst
  <2>3. CASE fate[p] = "dropped"
    <3>1. OnPlane(KeyOf(p))
      BY <1>3, <2>3 DEF IInv, DropJustified
    <3> QED BY <1>3, <2>2, <3>1 DEF OnPlane, OfferedFirst
  <2> QED BY <2>2, <2>3
<1>4. IInv /\ OfferedFirst /\ Tried => OtherTargetsServed
  BY <1>3
<1> QED
  BY <1>1, <1>2, <1>4, InitIInv, NextIInv, PTL DEF Spec

=============================================================================
