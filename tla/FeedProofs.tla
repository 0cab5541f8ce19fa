----------------------------- MODULE FeedProofs -----------------------------
(***************************************************************************)
(* What is proved of Feed, for any deliveries, workers and bounds: the     *)
(* byte counter is exact and the queue keeps to its bound, and a delivery  *)
(* is in one place, each of its topics answered for once.                  *)
(*                                                                         *)
(* And of Targets, the second target of a route: the also target's byte    *)
(* counter is exact, each offer to either target is counted once, and what *)
(* the shadow counts as a match is one, whatever the lists compared.       *)
(***************************************************************************)
EXTENDS Feed, Targets, SetSums, SequenceTheorems

-----------------------------------------------------------------------------
(* The inductive invariant *)

\* The three tables have a row for each delivery.
Tables == DOMAIN booked = Delivery /\ DOMAIN shadowed = Delivery /\ DOMAIN also = Delivery

Loops == {"select", "drain", "exit"}
Submitting == {"submit", "backoff"}

\* A delivery Handle accepted is in the queue once, or with one worker, and no
\* other delivery is; a worker that submits is at a topic of its delivery, and
\* one that waits has an attempt left.
Placed ==
  /\ \A i, j \in DOMAIN q : q[i] = q[j] => i = j
  /\ \A i \in DOMAIN q : handle[q[i]] = "queued"
  /\ \A w \in Worker :
       /\ work[w].pc \in Loops <=> work[w].d = NoDelivery
       /\ work[w].d # NoDelivery => handle[work[w].d] = "queued" /\ work[w].d \notin InQueue
       /\ work[w].pc \in {"take", "verify"} => work[w].i = 0
       /\ work[w].pc \in Submitting => work[w].i \in TopicsOf(work[w].d)
       /\ work[w].pc = "backoff" => work[w].attempt < Retries
  /\ \A v, w \in Worker : work[v].d = work[w].d /\ work[v].d # NoDelivery => v = w

\* A topic nobody has got to, the one a worker is at, and one that is done with.
Untouched(d, i) == booked[d][i] = {} /\ shadowed[d][i] = 0 /\ also[d][i] = 0
Pending(d, i) == booked[d][i] = {} /\ shadowed[d][i] = 0 /\ also[d][i] = 1
Settled(d, i) ==
  \/ booked[d][i] = {"spv"} /\ shadowed[d][i] = 0 /\ also[d][i] = 0
  \/ booked[d][i] = {} /\ cut /\ shadowed[d][i] = 0 /\ also[d][i] = 1
  \/ /\ \E what \in {"submitted", "refused", "error"} : booked[d][i] = {what}
     /\ shadowed[d][i] = 1 /\ also[d][i] = 1

\* Nobody has the delivery any more.
Gone(d) == handle[d] = "queued" /\ d \notin InQueue /\ \A w \in Worker : work[w].d # d

\* How far each topic of a delivery is, by where the delivery is.
Topics ==
  \A d \in Delivery : \A i \in TopicsOf(d) :
    /\ handle[d] # "queued" \/ d \in InQueue => Untouched(d, i)
    /\ Gone(d) => Settled(d, i)
    /\ \A w \in Worker : work[w].d = d =>
         /\ work[w].pc \in {"take", "verify"} \/ i > work[w].i => Untouched(d, i)
         /\ work[w].pc \in Submitting /\ i = work[w].i => Pending(d, i)
         /\ i < work[w].i => Settled(d, i)

\* The deliveries whose bytes are booked, and those of them whose room is theirs.
Held == InQueue \cup Reserving \cup Taking
Admitted == InQueue \cup {d \in Delivery : handle[d] = "put"}

Counted ==
  /\ IsFiniteSet(Held)
  /\ bytes = SumOf(Size, Held)
  /\ QueueBytes > 0 => SumOf(Size, Admitted) <= QueueBytes

IInv == TypeOK /\ Tables /\ Placed /\ Topics /\ Counted

-----------------------------------------------------------------------------
(* The queue *)

\* An object put into the queue is its last.
LEMMA QueuePut ==
  ASSUME TypeOK, NEW d \in Delivery, q' = Append(q, d)
  PROVE  /\ q' \in Seq(Delivery) /\ Len(q') = Len(q) + 1
         /\ DOMAIN q' = 1..(Len(q) + 1) /\ DOMAIN q = 1..Len(q) /\ Len(q) \in Nat
         /\ \A i \in DOMAIN q : q'[i] = q[i]
         /\ q'[Len(q) + 1] = d
         /\ InQueue' = InQueue \cup {d}
<1>1. /\ q' \in Seq(Delivery) /\ Len(q') = Len(q) + 1
      /\ DOMAIN q' = 1..(Len(q) + 1) /\ DOMAIN q = 1..Len(q) /\ Len(q) \in Nat
      /\ \A i \in DOMAIN q : q'[i] = q[i]
      /\ q'[Len(q) + 1] = d
  BY DEF TypeOK
<1>2. InQueue' = InQueue \cup {d}
  BY <1>1 DEF InQueue
<1> QED
  BY <1>1, <1>2

\* An object received is its first.
LEMMA QueueTake ==
  ASSUME TypeOK, q # <<>>, q' = Tail(q), \A i, j \in DOMAIN q : q[i] = q[j] => i = j
  PROVE  /\ Head(q) \in InQueue /\ Head(q) \in Delivery /\ Head(q) = q[1] /\ 1 \in DOMAIN q
         /\ q' \in Seq(Delivery) /\ Len(q') = Len(q) - 1 /\ Len(q) \in Nat
         /\ DOMAIN q = 1..Len(q) /\ DOMAIN q' = 1..(Len(q) - 1)
         /\ \A i \in DOMAIN q' : i + 1 \in DOMAIN q /\ q'[i] = q[i + 1]
         /\ InQueue' = InQueue \ {Head(q)}
<1>1. /\ Head(q) \in Delivery /\ Head(q) = q[1] /\ 1 \in DOMAIN q
      /\ q' \in Seq(Delivery) /\ Len(q') = Len(q) - 1
      /\ DOMAIN q = 1..Len(q) /\ DOMAIN q' = 1..(Len(q) - 1) /\ Len(q) \in Nat \ {0}
      /\ \A i \in DOMAIN q' : i + 1 \in DOMAIN q /\ q'[i] = q[i + 1]
  BY DEF TypeOK
<1>2. \A d \in InQueue' : d \in InQueue \ {Head(q)}
  BY <1>1 DEF InQueue
<1>3. \A d \in InQueue \ {Head(q)} : d \in InQueue'
  <2> SUFFICES ASSUME NEW i \in DOMAIN q, q[i] # q[1] PROVE q[i] \in InQueue'
    BY <1>1 DEF InQueue
  <2>1. i - 1 \in DOMAIN q' /\ q'[i - 1] = q[i]
    BY <1>1
  <2> QED
    BY <2>1 DEF InQueue
<1>4. Head(q) \in InQueue
  BY <1>1 DEF InQueue
<1> QED
  BY <1>1, <1>2, <1>3, <1>4

-----------------------------------------------------------------------------
(* The bytes *)

\* What the constants are.
LEMMA Sizes ==
  /\ \A d \in Delivery : Size[d] \in Nat /\ Size[d] > 0 /\ Names[d] \in Nat /\ Names[d] > 0
  /\ QueueDepth \in Nat /\ QueueDepth > 0 /\ QueueBytes \in Nat /\ Retries \in Nat
  /\ NoDelivery \notin Delivery
BY FeedAssumption

\* Only deliveries are held, and those admitted are.
LEMMA HeldType == ASSUME TypeOK, Placed PROVE Held \subseteq Delivery /\ Admitted \subseteq Held
<1>1. InQueue \subseteq Delivery
  BY DEF TypeOK, InQueue
<1>2. Taking \subseteq Delivery
  BY DEF TypeOK, Placed, Taking, Loops
<1> QED
  BY <1>1, <1>2 DEF Held, Admitted, Reserving

\* Only what the counter counts can disturb it.
LEMMA KeepsCounted ==
  ASSUME Counted, Held' = Held, Admitted' = Admitted, bytes' = bytes
  PROVE  Counted'
BY DEF Counted

\* What is admitted may also go.
LEMMA FewerCounted ==
  ASSUME TypeOK, Placed, Counted, Held' = Held, Admitted' \subseteq Admitted, bytes' = bytes
  PROVE  Counted'
<1>1. Held \subseteq Delivery /\ Admitted \subseteq Held
  BY HeldType
<1>2. IsFiniteSet(Admitted)
  BY <1>1, FS_Subset DEF Counted
<1>3. SumOf(Size, Admitted') <= SumOf(Size, Admitted)
  BY <1>1, <1>2, Sizes, SumSubset
<1>4. SumOf(Size, Admitted') \in Nat /\ SumOf(Size, Admitted) \in Nat
  BY <1>1, <1>2, Sizes, SumNat, FS_Subset
<1> QED
  BY <1>3, <1>4, Sizes DEF Counted

\* A reservation adds one delivery's bytes, and admits it when all that is
\* booked with it keeps to the bound.
LEMMA AddsCounted ==
  ASSUME TypeOK, Placed, Counted, NEW d \in Delivery, d \notin Held,
         Held' = Held \cup {d}, bytes' = bytes + Size[d],
         Admitted' = Admitted \/ (~Over(Size[d]) /\ Admitted' \subseteq Held')
  PROVE  Counted' /\ bytes' \in Nat
<1>1. Held \subseteq Delivery /\ Admitted \subseteq Held
  BY HeldType
<1>2. IsFiniteSet(Held')
  BY FS_AddElement DEF Counted
<1>3. bytes' = SumOf(Size, Held')
  BY <1>1, Sizes, SumAdd DEF Counted
<1>4. bytes \in Nat /\ bytes' \in Nat
  BY Sizes DEF TypeOK
<1>5. ASSUME QueueBytes > 0, ~Over(Size[d]), Admitted' \subseteq Held'
      PROVE  SumOf(Size, Admitted') <= QueueBytes
  <2>1. \A e \in Held' : Size[e] \in Nat
    BY <1>1, Sizes
  <2>2. SumOf(Size, Admitted') <= SumOf(Size, Held')
    BY <1>2, <1>5, <2>1, SumSubset
  <2>3. SumOf(Size, Admitted') \in Nat
    BY <1>2, <1>5, <2>1, SumNat, FS_Subset
  <2>4. bytes' <= QueueBytes
    BY <1>4, <1>5, Sizes DEF Over
  <2> QED
    BY <1>3, <1>4, <2>2, <2>3, <2>4, Sizes
<1> QED
  BY <1>2, <1>3, <1>4, <1>5 DEF Counted

\* What is given back is one delivery's bytes.
LEMMA DropsCounted ==
  ASSUME TypeOK, Placed, Counted, NEW d \in Held,
         Held' = Held \ {d}, Admitted' = Admitted, bytes' = bytes - Size[d]
  PROVE  Counted' /\ bytes' \in Nat
<1>1. Held \subseteq Delivery
  BY HeldType
<1>2. IsFiniteSet(Held')
  BY FS_RemoveElement DEF Counted
<1>3. SumOf(Size, Held) = SumOf(Size, Held \ {d}) + Size[d]
  BY <1>1, Sizes, SumRemove DEF Counted
<1>4. SumOf(Size, Held') \in Nat
  BY <1>1, <1>2, Sizes, SumNat
<1>5. bytes' = SumOf(Size, Held')
  BY <1>1, <1>3, <1>4, Sizes DEF Counted
<1> QED
  BY <1>2, <1>4, <1>5 DEF Counted

-----------------------------------------------------------------------------
(* The workers *)

\* A move of one worker leaves the others where they are.
LEMMA WorkMoves ==
  ASSUME TypeOK, NEW w \in Worker, NEW at, NEW d, NEW i, NEW n, WorkTo(w, at, d, i, n),
         at \in {"select", "take", "verify", "submit", "backoff", "drain", "exit"},
         d \in Delivery \cup {NoDelivery}, i \in Nat, n \in 0..Retries
  PROVE  /\ work' \in [Worker -> [pc : {"select", "take", "verify", "submit", "backoff", "drain", "exit"},
                                  d : Delivery \cup {NoDelivery}, i : Nat, attempt : 0..Retries,
                                  draining : BOOLEAN]]
         /\ work'[w].pc = at /\ work'[w].d = d /\ work'[w].i = i /\ work'[w].attempt = n
         /\ \A v \in Worker \ {w} : work'[v] = work[v]
BY DEF TypeOK, WorkTo

\* On to the n-th topic, or back to the loop after the last.
LEMMA NextTopicMoves ==
  ASSUME TypeOK, Tables, Placed, NEW w \in Worker, work[w].pc \notin Loops,
         NEW n \in Nat \ {0}, NextTopic(w, n)
  PROVE  /\ work' \in [Worker -> [pc : {"select", "take", "verify", "submit", "backoff", "drain", "exit"},
                                  d : Delivery \cup {NoDelivery}, i : Nat, attempt : 0..Retries,
                                  draining : BOOLEAN]]
         /\ \A v \in Worker \ {w} : work'[v] = work[v]
         /\ \/ /\ n \in TopicsOf(work[w].d)
               /\ work'[w].pc = "submit" /\ work'[w].d = work[w].d /\ work'[w].i = n
            \/ /\ n \notin TopicsOf(work[w].d)
               /\ work'[w].pc \in {"select", "drain"} /\ work'[w].d = NoDelivery /\ work'[w].i = 0
         /\ DOMAIN also' = Delivery
         /\ \A e \in Delivery :
              /\ also'[e] \in [TopicsOf(e) -> Nat]
              /\ \A j \in TopicsOf(e) :
                   also'[e][j] = IF e = work[w].d /\ j = n THEN also[e][j] + 1 ELSE also[e][j]
<1>1. work[w].d \in Delivery
  BY DEF TypeOK, Placed
<1>2. 0 \in 0..Retries
  BY Sizes
<1>3. CASE n \in TopicsOf(work[w].d)
  <2>1. WorkTo(w, "submit", work[w].d, n, 0) /\ also' = [also EXCEPT ![work[w].d][n] = @ + 1]
    BY <1>3 DEF NextTopic
  <2>2. /\ DOMAIN also' = Delivery
        /\ \A e \in Delivery :
             /\ also'[e] \in [TopicsOf(e) -> Nat]
             /\ \A j \in TopicsOf(e) :
                  also'[e][j] = IF e = work[w].d /\ j = n THEN also[e][j] + 1 ELSE also[e][j]
    BY <1>1, <1>3, <2>1 DEF TypeOK, Tables
  <2> QED
    BY <1>1, <1>2, <1>3, <2>1, <2>2, WorkMoves
<1>4. CASE n \notin TopicsOf(work[w].d)
  <2>1. WorkTo(w, Looping(w), NoDelivery, 0, 0) /\ also' = also
    BY <1>4 DEF NextTopic
  <2>2. Looping(w) \in {"select", "drain"}
    BY DEF Looping
  <2>3. \A e \in Delivery : \A j \in TopicsOf(e) : ~(e = work[w].d /\ j = n)
    BY <1>4
  <2> HIDE DEF TopicsOf
  <2>4. \A e \in Delivery :
              /\ also'[e] \in [TopicsOf(e) -> Nat]
              /\ \A j \in TopicsOf(e) :
                   also'[e][j] = IF e = work[w].d /\ j = n THEN also[e][j] + 1 ELSE also[e][j]
    BY <2>1, <2>3 DEF TypeOK
  <2> QED
    BY <1>2, <1>4, <2>1, <2>2, <2>4, WorkMoves DEF Tables
<1> QED
  BY <1>3, <1>4

\* A worker goes on to its next topic when the one before it is settled.
LEMMA TopicDone ==
  ASSUME IInv, NEW w \in Worker, NEW d \in Delivery, work[w].d = d,
         NEW n \in Nat \ {0}, NextTopic(w, n),
         \/ work[w].pc = "verify" /\ n = 1
         \/ work[w].pc \in Submitting /\ n = work[w].i + 1,
         handle' = handle, q' = q, cut' = cut,
         \A e \in Delivery : \A j \in TopicsOf(e) : e # d \/ j # n - 1 =>
           booked'[e][j] = booked[e][j] /\ shadowed'[e][j] = shadowed[e][j],
         work[w].pc \in Submitting =>
           \/ booked'[d][work[w].i] = {} /\ cut /\ shadowed'[d][work[w].i] = 0
           \/ /\ \E what \in {"submitted", "refused", "error"} : booked'[d][work[w].i] = {what}
              /\ shadowed'[d][work[w].i] = 1
  PROVE  Placed' /\ Topics'
<1>0. work[w].pc \notin Loops /\ InQueue' = InQueue
  BY DEF Loops, Submitting, InQueue
<1>1. /\ \A v \in Worker \ {w} : work'[v] = work[v]
      /\ \/ /\ n \in TopicsOf(d)
            /\ work'[w].pc = "submit" /\ work'[w].d = d /\ work'[w].i = n
         \/ /\ n \notin TopicsOf(d)
            /\ work'[w].pc \in {"select", "drain"} /\ work'[w].d = NoDelivery /\ work'[w].i = 0
      /\ \A e \in Delivery : \A j \in TopicsOf(e) :
           also'[e][j] = IF e = d /\ j = n THEN also[e][j] + 1 ELSE also[e][j]
  BY <1>0, NextTopicMoves DEF IInv
<1>2. Placed'
  <2>1. \A v \in Worker :
          /\ work'[v].pc \in Loops <=> work'[v].d = NoDelivery
          /\ work'[v].d # NoDelivery => handle[work'[v].d] = "queued" /\ work'[v].d \notin InQueue
    BY <1>0, <1>1, Sizes DEF IInv, Placed, Loops
  <2>2. \A v \in Worker :
          /\ work'[v].pc \in {"take", "verify"} => work'[v].i = 0
          /\ work'[v].pc \in Submitting => work'[v].i \in TopicsOf(work'[v].d)
          /\ work'[v].pc = "backoff" => work'[v].attempt < Retries
    BY <1>0, <1>1 DEF IInv, Placed, Submitting
  <2>3. \A u, v \in Worker : work'[u].d = work'[v].d /\ work'[u].d # NoDelivery => u = v
    BY <1>0, <1>1, Sizes DEF IInv, Placed
  <2> QED
    BY <1>0, <2>1, <2>2, <2>3 DEF IInv, Placed, TopicsOf
<1>3. ASSUME NEW e \in Delivery, NEW j \in TopicsOf(e), e # d
      PROVE  /\ Untouched(e, j)' <=> Untouched(e, j)
             /\ Pending(e, j)' <=> Pending(e, j)
             /\ Settled(e, j)' <=> Settled(e, j)
  BY <1>1, <1>3 DEF Untouched, Pending, Settled
<1>4. ASSUME NEW j \in TopicsOf(d)
      PROVE  /\ j < n => Settled(d, j)'
             /\ j = n => Pending(d, j)'
             /\ j > n => Untouched(d, j)'
  <2>1. j \in Nat /\ j > 0 /\ work[w].i \in Nat
    BY <1>0, Sizes DEF IInv, TypeOK, TopicsOf
  <2>2. CASE j < n
    <3>1. CASE j = n - 1
      <4>1. work[w].pc \in Submitting /\ j = work[w].i
        BY <2>1, <3>1
      <4>2. Pending(d, j)
        BY <1>0, <4>1 DEF IInv, Topics
      <4>3. also'[d][j] = 1
        BY <1>0, <1>1, <2>2, <4>2 DEF Pending
      <4>4. cut' <=> cut
        OBVIOUS
      <4>5. \/ booked'[d][j] = {} /\ cut /\ shadowed'[d][j] = 0
            \/ /\ \E what \in {"submitted", "refused", "error"} : booked'[d][j] = {what}
               /\ shadowed'[d][j] = 1
        BY <4>1
      <4> QED
        BY <2>1, <2>2, <4>3, <4>4, <4>5 DEF Settled
    <3>2. CASE j < n - 1
      <4>1. Settled(d, j)
        BY <1>0, <2>1, <3>2 DEF IInv, Topics
      <4>2. booked'[d][j] = booked[d][j] /\ shadowed'[d][j] = shadowed[d][j] /\ also'[d][j] = also[d][j]
        BY <1>0, <1>1, <2>1, <2>2, <3>2
      <4>3. cut' <=> cut
        OBVIOUS
      <4> QED
        BY <2>1, <2>2, <4>1, <4>2, <4>3 DEF Settled
    <3> QED
      BY <2>1, <2>2, <3>1, <3>2
  <2>3. CASE j >= n
    <3>1. Untouched(d, j)
      BY <1>0, <2>1, <2>3 DEF IInv, Topics
    <3>2. booked'[d][j] = {} /\ shadowed'[d][j] = 0
      BY <1>0, <2>1, <2>3, <3>1 DEF Untouched
    <3> QED
      BY <1>0, <1>1, <2>1, <2>3, <3>1, <3>2 DEF Untouched, Pending
  <2> QED
    BY <2>1, <2>2, <2>3
<1>5. Topics'
  <2> SUFFICES ASSUME NEW e \in Delivery, NEW j \in TopicsOf(e)
               PROVE  /\ handle[e] # "queued" \/ e \in InQueue => Untouched(e, j)'
                      /\ Gone(e)' => Settled(e, j)'
                      /\ \A v \in Worker : work'[v].d = e =>
                           /\ work'[v].pc \in {"take", "verify"} \/ j > work'[v].i => Untouched(e, j)'
                           /\ work'[v].pc \in Submitting /\ j = work'[v].i => Pending(e, j)'
                           /\ j < work'[v].i => Settled(e, j)'
    BY <1>0 DEF Topics, TopicsOf
  <2>1. CASE e # d
    <3>1. \A v \in Worker : work'[v].d = e => v # w /\ work'[v] = work[v]
      BY <1>0, <1>1, <2>1, Sizes
    <3>2. Gone(e)' => Gone(e)
      BY <1>0, <1>1, <2>1 DEF Gone
    <3> QED
      BY <1>0, <1>3, <2>1, <3>1, <3>2 DEF IInv, Topics
  <2>2. CASE e = d
    <3>1. handle[e] = "queued" /\ e \notin InQueue
      BY <1>0, <2>2, Sizes DEF IInv, Placed
    <3>2. \A v \in Worker : work'[v].d = e => v = w
      BY <1>0, <1>1, <2>2, Sizes DEF IInv, Placed
    <3>3. CASE n \in TopicsOf(d)
      <4>1. work'[w].pc = "submit" /\ work'[w].d = d /\ work'[w].i = n
        BY <1>1, <3>3
      <4>2. ~Gone(e)'
        BY <2>2, <4>1 DEF Gone
      <4> QED
        BY <1>4, <2>2, <3>1, <3>2, <4>1, <4>2 DEF Submitting
    <3>4. CASE n \notin TopicsOf(d)
      <4>1. j < n
        BY <1>0, <2>2, <3>4, Sizes DEF TopicsOf
      <4>2. work'[w].d # e
        BY <1>0, <1>1, <2>2, <3>4, Sizes
      <4> QED
        BY <1>4, <2>2, <3>1, <3>2, <4>1, <4>2
    <3> QED
      BY <3>3, <3>4
  <2> QED
    BY <2>1, <2>2
<1> QED
  BY <1>2, <1>5

\* What is held and admitted when neither the queue nor a call moves, and no
\* worker takes.
LEMMA WorkerHolds ==
  ASSUME TypeOK, handle' = handle, q' = q, bytes' = bytes, Counted,
         \A v \in Worker :
           /\ work'[v].pc = "take" <=> work[v].pc = "take"
           /\ work[v].pc = "take" => work'[v].d = work[v].d
  PROVE  Counted'
<1>1. InQueue' = InQueue /\ Reserving' = Reserving
  BY DEF InQueue, Reserving
<1>2. Taking' = Taking
  BY DEF Taking
<1>3. Admitted' = Admitted
  BY <1>1 DEF Admitted
<1> QED
  BY <1>1, <1>2, <1>3, KeepsCounted DEF Held

\* Nothing of a topic changes with the tables as they are.
LEMMA SameTopics ==
  ASSUME TypeOK, booked' = booked, shadowed' = shadowed, also' = also, cut' \in BOOLEAN, cut => cut',
         NEW d \in Delivery, NEW i \in TopicsOf(d)
  PROVE  /\ Untouched(d, i)' <=> Untouched(d, i)
         /\ Pending(d, i)' <=> Pending(d, i)
         /\ Settled(d, i) => Settled(d, i)'
BY DEF Untouched, Pending, Settled

-----------------------------------------------------------------------------
(* The steps *)

\* The feed starts with nothing delivered.
LEMMA InitIInv == Init => IInv
<1> SUFFICES ASSUME Init PROVE IInv
  OBVIOUS
<1>1. q = <<>> /\ DOMAIN q = {} /\ InQueue = {}
  BY DEF Init, InQueue
<1>2. TypeOK
  <2>1. work \in [Worker -> [pc : {"select", "take", "verify", "submit", "backoff", "drain", "exit"},
                             d : Delivery \cup {NoDelivery}, i : Nat, attempt : 0..Retries,
                             draining : BOOLEAN]]
    BY Sizes DEF Init, IdleWorker
  <2>2. \A d \in Delivery :
          /\ booked[d] \in [TopicsOf(d) -> SUBSET {"submitted", "refused", "error", "spv"}]
          /\ shadowed[d] \in [TopicsOf(d) -> Nat] /\ also[d] \in [TopicsOf(d) -> Nat]
    BY DEF Init
  <2>3. q \in Seq(Delivery) /\ Len(q) <= QueueDepth
    BY <1>1, Sizes
  <2> QED
    BY <2>1, <2>2, <2>3 DEF Init, TypeOK
<1>3. Tables /\ Placed
  BY <1>1 DEF Init, Tables, Placed, IdleWorker, Loops, Submitting
<1>4. Topics
  BY <1>1, Sizes DEF Init, Topics, Untouched, Gone, IdleWorker
<1>5. Held = {} /\ Admitted = {}
  BY <1>1 DEF Init, Held, Admitted, Reserving, Taking, IdleWorker
<1>6. Counted
  BY <1>5, SumEmpty, FS_EmptySet, Sizes DEF Init, Counted
<1> QED
  BY <1>2, <1>3, <1>4, <1>6 DEF IInv

\* A delivery is refused, or marked.
LEMMA DeliverStep ==
  ASSUME IInv, NEW d \in Delivery, Deliver(d)
  PROVE  IInv'
<1> USE DEF Deliver, HandleTo, bookVars
<1>1. TypeOK'
  BY DEF IInv, TypeOK
<1>2. Tables'
  BY DEF IInv, Tables
<1>3. Placed'
  BY DEF IInv, TypeOK, Placed, InQueue
<1>4. Topics'
  <2>1. \A e \in Delivery : \A i \in TopicsOf(e) :
          /\ Untouched(e, i)' <=> Untouched(e, i)
          /\ Pending(e, i)' <=> Pending(e, i)
          /\ Settled(e, i) => Settled(e, i)'
    BY SameTopics DEF IInv, TypeOK
  <2>2. InQueue' = InQueue /\ work' = work
    BY DEF InQueue
  <2>3. \A e \in Delivery : handle'[e] = "queued" <=> handle[e] = "queued"
    BY DEF IInv, TypeOK
  <2>4. \A e \in Delivery : Gone(e)' <=> Gone(e)
    BY <2>2, <2>3 DEF Gone
  <2> QED
    BY <2>1, <2>2, <2>3, <2>4 DEF IInv, Topics, TopicsOf
<1>5. Counted'
  <2>1. InQueue' = InQueue /\ Taking' = Taking
    BY DEF InQueue, Taking
  <2>2. Reserving' = Reserving
    BY DEF IInv, TypeOK, Reserving
  <2>3. Admitted' = Admitted
    BY <2>1 DEF IInv, TypeOK, Admitted
  <2> QED
    BY <2>1, <2>2, <2>3, KeepsCounted DEF IInv, Held
<1> QED
  BY <1>1, <1>2, <1>3, <1>4, <1>5 DEF IInv

\* A delivery finds the feed started, or is shed.
LEMMA CheckStartedStep ==
  ASSUME IInv, NEW d \in Delivery, CheckStarted(d)
  PROVE  IInv'
<1> USE DEF CheckStarted, HandleTo, bookVars
<1>1. TypeOK'
  BY DEF IInv, TypeOK
<1>2. Tables'
  BY DEF IInv, Tables
<1>3. Placed'
  BY DEF IInv, TypeOK, Placed, InQueue
<1>4. Topics'
  <2>1. \A e \in Delivery : \A i \in TopicsOf(e) :
          /\ Untouched(e, i)' <=> Untouched(e, i)
          /\ Pending(e, i)' <=> Pending(e, i)
          /\ Settled(e, i) => Settled(e, i)'
    BY SameTopics DEF IInv, TypeOK
  <2>2. InQueue' = InQueue /\ work' = work
    BY DEF InQueue
  <2>3. \A e \in Delivery : handle'[e] = "queued" <=> handle[e] = "queued"
    BY DEF IInv, TypeOK
  <2>4. \A e \in Delivery : Gone(e)' <=> Gone(e)
    BY <2>2, <2>3 DEF Gone
  <2> QED
    BY <2>1, <2>2, <2>3, <2>4 DEF IInv, Topics, TopicsOf
<1>5. Counted'
  <2>1. InQueue' = InQueue /\ Taking' = Taking
    BY DEF InQueue, Taking
  <2>2. Reserving' = Reserving
    BY DEF IInv, TypeOK, Reserving
  <2>3. Admitted' = Admitted
    BY <2>1 DEF IInv, TypeOK, Admitted
  <2> QED
    BY <2>1, <2>2, <2>3, KeepsCounted DEF IInv, Held
<1> QED
  BY <1>1, <1>2, <1>3, <1>4, <1>5 DEF IInv

\* A delivery's bytes are booked.
LEMMA ReserveStep ==
  ASSUME IInv, NEW d \in Delivery, Reserve(d)
  PROVE  IInv'
<1> USE DEF Reserve, HandleTo, bookVars
<1>0. d \notin Held
  BY Sizes DEF IInv, TypeOK, Placed, Held, InQueue, Reserving, Taking, Loops
<1>1. TypeOK'
  BY Sizes DEF IInv, TypeOK
<1>2. Tables'
  BY DEF IInv, Tables
<1>3. Placed'
  BY DEF IInv, TypeOK, Placed, InQueue
<1>4. Topics'
  <2>1. \A e \in Delivery : \A i \in TopicsOf(e) :
          /\ Untouched(e, i)' <=> Untouched(e, i)
          /\ Pending(e, i)' <=> Pending(e, i)
          /\ Settled(e, i) => Settled(e, i)'
    BY SameTopics DEF IInv, TypeOK
  <2>2. InQueue' = InQueue /\ work' = work
    BY DEF InQueue
  <2>3. \A e \in Delivery : handle'[e] = "queued" <=> handle[e] = "queued"
    BY DEF IInv, TypeOK
  <2>4. \A e \in Delivery : Gone(e)' <=> Gone(e)
    BY <2>2, <2>3 DEF Gone
  <2> QED
    BY <2>1, <2>2, <2>3, <2>4 DEF IInv, Topics, TopicsOf
<1>5. Counted'
  <2>1. InQueue' = InQueue /\ Taking' = Taking
    BY DEF InQueue, Taking
  <2>2. Reserving' = Reserving \cup {d}
    BY DEF IInv, TypeOK, Reserving
  <2>3. Held' = Held \cup {d}
    BY <2>1, <2>2 DEF Held
  <2>4. Admitted' = Admitted \/ (~Over(Size[d]) /\ Admitted' \subseteq Held')
    <3>1. CASE Over(Size[d])
      BY <2>1, <3>1 DEF IInv, TypeOK, Admitted
    <3>2. CASE ~Over(Size[d])
      BY <2>1, <2>2, <2>3, <3>2 DEF IInv, TypeOK, Admitted, Held, Reserving
    <3> QED
      BY <3>1, <3>2
  <2> QED
    BY <1>0, <2>3, <2>4, AddsCounted DEF IInv
<1> QED
  BY <1>1, <1>2, <1>3, <1>4, <1>5 DEF IInv

\* The queue is full: the bytes are to be given back.
LEMMA PutFullStep ==
  ASSUME IInv, NEW d \in Delivery, PutFull(d)
  PROVE  IInv'
<1> USE DEF PutFull, HandleTo, bookVars
<1>1. TypeOK'
  BY DEF IInv, TypeOK
<1>2. Tables'
  BY DEF IInv, Tables
<1>3. Placed'
  BY DEF IInv, TypeOK, Placed, InQueue
<1>4. Topics'
  <2>1. \A e \in Delivery : \A i \in TopicsOf(e) :
          /\ Untouched(e, i)' <=> Untouched(e, i)
          /\ Pending(e, i)' <=> Pending(e, i)
          /\ Settled(e, i) => Settled(e, i)'
    BY SameTopics DEF IInv, TypeOK
  <2>2. InQueue' = InQueue /\ work' = work
    BY DEF InQueue
  <2>3. \A e \in Delivery : handle'[e] = "queued" <=> handle[e] = "queued"
    BY DEF IInv, TypeOK
  <2>4. \A e \in Delivery : Gone(e)' <=> Gone(e)
    BY <2>2, <2>3 DEF Gone
  <2> QED
    BY <2>1, <2>2, <2>3, <2>4 DEF IInv, Topics, TopicsOf
<1>5. Counted'
  <2>1. InQueue' = InQueue /\ Taking' = Taking
    BY DEF InQueue, Taking
  <2>2. Reserving' = Reserving
    BY DEF IInv, TypeOK, Reserving
  <2>3. Admitted' \subseteq Admitted
    BY <2>1 DEF IInv, TypeOK, Admitted
  <2> QED
    BY <2>1, <2>2, <2>3, FewerCounted DEF IInv, Held
<1> QED
  BY <1>1, <1>2, <1>3, <1>4, <1>5 DEF IInv

\* The bytes of a delivery are given back.
LEMMA UndoStep ==
  ASSUME IInv, NEW d \in Delivery, Undo(d)
  PROVE  IInv'
<1> USE DEF Undo, HandleTo, bookVars
<1>0. d \in Held /\ d \notin InQueue \cup Taking
  BY Sizes DEF IInv, TypeOK, Placed, Held, InQueue, Reserving, Taking, Loops
<1>9. Counted' /\ bytes' \in Nat
  <2>1. InQueue' = InQueue /\ Taking' = Taking
    BY DEF InQueue, Taking
  <2>2. Reserving' = Reserving \ {d}
    BY DEF IInv, TypeOK, Reserving
  <2>3. Admitted' = Admitted
    BY <2>1 DEF IInv, TypeOK, Admitted
  <2>4. Held' = Held \ {d}
    BY <1>0, <2>1, <2>2 DEF Held
  <2> QED
    BY <1>0, <2>3, <2>4, DropsCounted DEF IInv
<1>1. TypeOK'
  BY <1>9 DEF IInv, TypeOK
<1>2. Tables'
  BY DEF IInv, Tables
<1>3. Placed'
  BY DEF IInv, TypeOK, Placed, InQueue
<1>4. Topics'
  <2>1. \A e \in Delivery : \A i \in TopicsOf(e) :
          /\ Untouched(e, i)' <=> Untouched(e, i)
          /\ Pending(e, i)' <=> Pending(e, i)
          /\ Settled(e, i) => Settled(e, i)'
    BY SameTopics DEF IInv, TypeOK
  <2>2. InQueue' = InQueue /\ work' = work
    BY DEF InQueue
  <2>3. \A e \in Delivery : handle'[e] = "queued" <=> handle[e] = "queued"
    BY DEF IInv, TypeOK
  <2>4. \A e \in Delivery : Gone(e)' <=> Gone(e)
    BY <2>2, <2>3 DEF Gone
  <2> QED
    BY <2>1, <2>2, <2>3, <2>4 DEF IInv, Topics, TopicsOf
<1>5. Counted'
  BY <1>9
<1> QED
  BY <1>1, <1>2, <1>3, <1>4, <1>5 DEF IInv

\* A delivery is put into the queue.
LEMMA PutStep ==
  ASSUME IInv, NEW d \in Delivery, Put(d)
  PROVE  IInv'
<1> USE DEF Put, HandleTo, bookVars
<1>0. /\ q' \in Seq(Delivery) /\ Len(q') = Len(q) + 1
      /\ DOMAIN q' = 1..(Len(q) + 1) /\ DOMAIN q = 1..Len(q) /\ Len(q) \in Nat
      /\ \A i \in DOMAIN q : q'[i] = q[i]
      /\ q'[Len(q) + 1] = d
      /\ InQueue' = InQueue \cup {d}
  BY QueuePut DEF IInv
<1>9. \A w \in Worker : work[w].d # d
  BY Sizes DEF IInv, TypeOK, Placed
<1>1. TypeOK'
  BY <1>0, Sizes DEF IInv, TypeOK
<1>2. Tables'
  BY DEF IInv, Tables
<1>3. Placed'
  <2>1. \A i, j \in DOMAIN q' : q'[i] = q'[j] => i = j
    BY <1>0 DEF IInv, TypeOK, Placed
  <2>2. \A i \in DOMAIN q' : handle'[q'[i]] = "queued"
    BY <1>0 DEF IInv, TypeOK, Placed
  <2>3. \A w \in Worker : work[w].d # NoDelivery => handle'[work[w].d] = "queued" /\ work[w].d \notin InQueue'
    BY <1>0, <1>9 DEF IInv, TypeOK, Placed
  <2> QED
    BY <2>1, <2>2, <2>3 DEF IInv, Placed, TopicsOf
<1>4. Topics'
  <2>1. \A e \in Delivery : \A i \in TopicsOf(e) :
          /\ Untouched(e, i)' <=> Untouched(e, i)
          /\ Pending(e, i)' <=> Pending(e, i)
          /\ Settled(e, i) => Settled(e, i)'
    BY SameTopics DEF IInv, TypeOK
  <2>2. \A e \in Delivery : Gone(e)' => Gone(e)
    BY <1>0 DEF IInv, TypeOK, Gone
  <2>3. \A e \in Delivery : handle'[e] # "queued" \/ e \in InQueue' => handle[e] # "queued" \/ e \in InQueue
    BY <1>0 DEF IInv, TypeOK
  <2> QED
    BY <2>1, <2>2, <2>3 DEF IInv, Topics, TopicsOf
<1>5. Counted'
  <2>1. Reserving' = Reserving \ {d} /\ d \in Reserving /\ Taking' = Taking
    BY DEF IInv, TypeOK, Reserving, Taking
  <2>2. Held' = Held
    BY <1>0, <2>1 DEF Held
  <2>3. Admitted' = Admitted
    BY <1>0 DEF IInv, TypeOK, Admitted
  <2> QED
    BY <2>2, <2>3, KeepsCounted DEF IInv
<1> QED
  BY <1>1, <1>2, <1>3, <1>4, <1>5 DEF IInv

\* A worker receives a delivery.
LEMMA ReceiveStep ==
  ASSUME IInv, NEW w \in Worker, Receive(w)
  PROVE  IInv'
<1> USE DEF Receive, handleVars, bookVars
<1>0. /\ Head(q) \in InQueue /\ Head(q) \in Delivery /\ Head(q) = q[1] /\ 1 \in DOMAIN q
      /\ q' \in Seq(Delivery) /\ Len(q') = Len(q) - 1 /\ Len(q) \in Nat
      /\ DOMAIN q = 1..Len(q) /\ DOMAIN q' = 1..(Len(q) - 1)
      /\ \A i \in DOMAIN q' : i + 1 \in DOMAIN q /\ q'[i] = q[i + 1]
      /\ InQueue' = InQueue \ {Head(q)}
  BY QueueTake DEF IInv, Placed
<1>8. PICK d \in Delivery : d = Head(q)
  BY <1>0
<1>9. /\ work' \in [Worker -> [pc : {"select", "take", "verify", "submit", "backoff", "drain", "exit"},
                              d : Delivery \cup {NoDelivery}, i : Nat, attempt : 0..Retries,
                              draining : BOOLEAN]]
      /\ work'[w].pc = "take" /\ work'[w].d = d /\ work'[w].i = 0 /\ work'[w].attempt = 0
      /\ \A v \in Worker \ {w} : work'[v] = work[v]
  <2>1. 0 \in 0..Retries /\ 0 \in Nat
    BY Sizes
  <2> QED
    BY <1>0, <1>8, <2>1, WorkMoves DEF IInv
<1>10. work[w].d = NoDelivery /\ \A v \in Worker : work[v].d # d
  BY <1>0, <1>8, Sizes DEF IInv, Placed, Loops
<1>11. handle[d] = "queued"
  BY <1>0, <1>8 DEF IInv, Placed, InQueue
<1>1. TypeOK'
  BY <1>0, <1>9, Sizes DEF IInv, TypeOK
<1>2. Tables'
  BY DEF IInv, Tables
<1>3. Placed'
  <2>1. \A i, j \in DOMAIN q' : q'[i] = q'[j] => i = j
    BY <1>0 DEF IInv, Placed
  <2>2. \A i \in DOMAIN q' : handle[q'[i]] = "queued"
    BY <1>0 DEF IInv, Placed
  <2>3. \A v \in Worker :
          /\ work'[v].pc \in Loops <=> work'[v].d = NoDelivery
          /\ work'[v].d # NoDelivery => handle[work'[v].d] = "queued" /\ work'[v].d \notin InQueue'
    BY <1>0, <1>8, <1>9, <1>11, Sizes DEF IInv, Placed, Loops
  <2>4. \A v \in Worker :
          /\ work'[v].pc \in {"take", "verify"} => work'[v].i = 0
          /\ work'[v].pc \in Submitting => work'[v].i \in TopicsOf(work'[v].d)
          /\ work'[v].pc = "backoff" => work'[v].attempt < Retries
    BY <1>9 DEF IInv, Placed, Submitting
  <2>5. \A u, v \in Worker : work'[u].d = work'[v].d /\ work'[u].d # NoDelivery => u = v
    BY <1>9, <1>10, Sizes DEF IInv, Placed
  <2> QED
    BY <2>1, <2>2, <2>3, <2>4, <2>5 DEF Placed, TopicsOf
<1>4. Topics'
  <2>1. \A e \in Delivery : \A i \in TopicsOf(e) :
          /\ Untouched(e, i)' <=> Untouched(e, i)
          /\ Pending(e, i)' <=> Pending(e, i)
          /\ Settled(e, i) => Settled(e, i)'
    BY SameTopics DEF IInv, TypeOK
  <2>2. ASSUME NEW e \in Delivery, Gone(e)' PROVE e # d /\ Gone(e)
    <3>1. handle' = handle
      OBVIOUS
    <3> HIDE DEF Receive
    <3>2. handle[e] = "queued" /\ e \notin InQueue' /\ \A v \in Worker : work'[v].d # e
      BY <2>2, <3>1 DEF Gone
    <3>3. e # d
      BY <1>9, <3>2
    <3>4. e \notin InQueue
      BY <1>0, <1>8, <3>2, <3>3
    <3>5. \A v \in Worker : work[v].d # e
      BY <1>9, <1>10, <3>2, Sizes
    <3> QED
      BY <3>2, <3>3, <3>4, <3>5 DEF Gone
  <2>3. \A i \in TopicsOf(d) : Untouched(d, i)
    BY <1>0, <1>8 DEF IInv, Topics
  <2>4. ASSUME NEW e \in Delivery, NEW i \in TopicsOf(e), NEW v \in Worker, work'[v].d = e
        PROVE  /\ work'[v].pc \in {"take", "verify"} \/ i > work'[v].i => Untouched(e, i)'
               /\ work'[v].pc \in Submitting /\ i = work'[v].i => Pending(e, i)'
               /\ i < work'[v].i => Settled(e, i)'
    <3>1. CASE v = w
      <4>1. e = d /\ work'[v].pc = "take" /\ work'[v].i = 0
        BY <1>9, <2>4, <3>1
      <4>2. i \in Nat /\ i > 0
        BY Sizes DEF TopicsOf
      <4> QED
        BY <2>1, <2>3, <4>1, <4>2 DEF Submitting
    <3>2. CASE v # w
      <4>1. work'[v] = work[v] /\ work[v].d = e
        BY <1>9, <2>4, <3>2
      <4> QED
        BY <2>1, <4>1 DEF IInv, Topics
    <3> QED
      BY <3>1, <3>2
  <2> QED
    BY <1>0, <2>1, <2>2, <2>4 DEF IInv, Topics, TopicsOf
<1>5. Counted'
  <2>1. Taking' = Taking \cup {d}
    BY <1>9 DEF Taking
  <2>2. Held' = Held
    BY <1>0, <1>8, <2>1 DEF Held, Reserving
  <2>3. Admitted' \subseteq Admitted
    BY <1>0 DEF Admitted
  <2> QED
    BY <2>2, <2>3, FewerCounted DEF IInv
<1> QED
  BY <1>1, <1>2, <1>3, <1>4, <1>5 DEF IInv

\* A worker gives back the bytes of what it received.
LEMMA TakeStep ==
  ASSUME IInv, NEW w \in Worker, Take(w)
  PROVE  IInv'
<1> USE DEF Take, handleVars, bookVars
<1>0. work[w].d \in Delivery
  BY Sizes DEF IInv, TypeOK, Placed, Loops
<1>8. PICK d \in Delivery : d = work[w].d
  BY <1>0
<1>9. /\ work' \in [Worker -> [pc : {"select", "take", "verify", "submit", "backoff", "drain", "exit"},
                              d : Delivery \cup {NoDelivery}, i : Nat, attempt : 0..Retries,
                              draining : BOOLEAN]]
      /\ work'[w].pc = "verify" /\ work'[w].d = d /\ work'[w].i = 0 /\ work'[w].attempt = 0
      /\ \A v \in Worker \ {w} : work'[v] = work[v]
  <2>1. 0 \in 0..Retries /\ 0 \in Nat
    BY Sizes DEF IInv, TypeOK, Placed
  <2> QED
    BY <1>0, <1>8, <2>1, WorkMoves DEF IInv
<1>10. Counted' /\ bytes' \in Nat
  <2>1. d \in Held /\ d \notin InQueue \cup Reserving
    BY <1>0, <1>8, Sizes DEF IInv, Placed, Held, Reserving, Taking
  <2>2. Taking' = Taking \ {d}
    BY <1>0, <1>8, <1>9, Sizes DEF IInv, Placed, Taking
  <2>3. InQueue' = InQueue /\ Reserving' = Reserving /\ Admitted' = Admitted
    BY DEF InQueue, Reserving, Admitted
  <2>4. Held' = Held \ {d}
    BY <2>1, <2>2, <2>3 DEF Held
  <2> QED
    BY <1>8, <2>1, <2>3, <2>4, DropsCounted DEF IInv
<1>1. TypeOK'
  BY <1>9, <1>10 DEF IInv, TypeOK
<1>2. Tables'
  BY DEF IInv, Tables
<1>3. Placed'
  <2>1. \A v \in Worker :
          /\ work'[v].pc \in Loops <=> work'[v].d = NoDelivery
          /\ work'[v].d # NoDelivery => handle[work'[v].d] = "queued" /\ work'[v].d \notin InQueue
    BY <1>0, <1>8, <1>9, Sizes DEF IInv, Placed, Loops
  <2>2. \A v \in Worker :
          /\ work'[v].pc \in {"take", "verify"} => work'[v].i = 0
          /\ work'[v].pc \in Submitting => work'[v].i \in TopicsOf(work'[v].d)
          /\ work'[v].pc = "backoff" => work'[v].attempt < Retries
    <3>1. \A v \in Worker \ {w} : work'[v] = work[v]
      BY <1>9
    <3>2. /\ work'[w].pc \in {"take", "verify"} => work'[w].i = 0
          /\ work'[w].pc \in Submitting => work'[w].i \in TopicsOf(work'[w].d)
          /\ work'[w].pc = "backoff" => work'[w].attempt < Retries
      BY <1>8, <1>9 DEF IInv, TypeOK, Placed, Submitting
    <3> QED
      BY <3>1, <3>2 DEF IInv, Placed
  <2>3. \A u, v \in Worker : work'[u].d = work'[v].d /\ work'[u].d # NoDelivery => u = v
    BY <1>8, <1>9 DEF IInv, Placed
  <2> QED
    BY <2>1, <2>2, <2>3 DEF IInv, Placed, TopicsOf, InQueue
<1>4. Topics'
  <2>1. \A e \in Delivery : \A i \in TopicsOf(e) :
          /\ Untouched(e, i)' <=> Untouched(e, i)
          /\ Pending(e, i)' <=> Pending(e, i)
          /\ Settled(e, i) => Settled(e, i)'
    BY SameTopics DEF IInv, TypeOK
  <2>2. InQueue' = InQueue /\ \A v \in Worker : work'[v].d = work[v].d /\ work'[v].i = work[v].i
    <3>1. InQueue' = InQueue
      BY DEF InQueue
    <3>2. work'[w].d = work[w].d /\ work'[w].i = work[w].i
      BY <1>8, <1>9 DEF IInv, Placed
    <3> QED
      BY <1>9, <3>1, <3>2
  <2>3. \A e \in Delivery : Gone(e)' <=> Gone(e)
    BY <2>2 DEF Gone
  <2>4. \A v \in Worker : /\ work'[v].pc \in {"take", "verify"} => work[v].pc \in {"take", "verify"}
                          /\ work'[v].pc \in Submitting => work[v].pc \in Submitting
    BY <1>9 DEF Submitting
  <2> QED
    BY <2>1, <2>2, <2>3, <2>4 DEF IInv, Topics, TopicsOf
<1>5. Counted'
  BY <1>10
<1> QED
  BY <1>1, <1>2, <1>3, <1>4, <1>5 DEF IInv

\* A worker tries a topic again.
LEMMA BackoffEndStep ==
  ASSUME IInv, NEW w \in Worker, BackoffEnd(w)
  PROVE  IInv'
<1> USE DEF BackoffEnd, handleVars, bookVars
<1>0. work[w].d \in Delivery
  BY Sizes DEF IInv, TypeOK, Placed, Loops
<1>8. PICK d \in Delivery : d = work[w].d
  BY <1>0
<1>9. /\ work' \in [Worker -> [pc : {"select", "take", "verify", "submit", "backoff", "drain", "exit"},
                              d : Delivery \cup {NoDelivery}, i : Nat, attempt : 0..Retries,
                              draining : BOOLEAN]]
      /\ work'[w].pc = "submit" /\ work'[w].d = d /\ work'[w].i = work[w].i /\ work'[w].attempt = work[w].attempt + 1
      /\ \A v \in Worker \ {w} : work'[v] = work[v]
  <2>1. work[w].attempt + 1 \in 0..Retries /\ work[w].i \in Nat
    BY Sizes DEF IInv, TypeOK, Placed
  <2> QED
    BY <1>0, <1>8, <2>1, WorkMoves DEF IInv
<1>1. TypeOK'
  BY <1>9 DEF IInv, TypeOK
<1>2. Tables'
  BY DEF IInv, Tables
<1>3. Placed'
  <2>1. \A v \in Worker :
          /\ work'[v].pc \in Loops <=> work'[v].d = NoDelivery
          /\ work'[v].d # NoDelivery => handle[work'[v].d] = "queued" /\ work'[v].d \notin InQueue
    BY <1>0, <1>8, <1>9, Sizes DEF IInv, Placed, Loops
  <2>2. \A v \in Worker :
          /\ work'[v].pc \in {"take", "verify"} => work'[v].i = 0
          /\ work'[v].pc \in Submitting => work'[v].i \in TopicsOf(work'[v].d)
          /\ work'[v].pc = "backoff" => work'[v].attempt < Retries
    <3>1. \A v \in Worker \ {w} : work'[v] = work[v]
      BY <1>9
    <3>2. /\ work'[w].pc \in {"take", "verify"} => work'[w].i = 0
          /\ work'[w].pc \in Submitting => work'[w].i \in TopicsOf(work'[w].d)
          /\ work'[w].pc = "backoff" => work'[w].attempt < Retries
      BY <1>8, <1>9 DEF IInv, TypeOK, Placed, Submitting
    <3> QED
      BY <3>1, <3>2 DEF IInv, Placed
  <2>3. \A u, v \in Worker : work'[u].d = work'[v].d /\ work'[u].d # NoDelivery => u = v
    BY <1>8, <1>9 DEF IInv, Placed
  <2> QED
    BY <2>1, <2>2, <2>3 DEF IInv, Placed, TopicsOf, InQueue
<1>4. Topics'
  <2>1. \A e \in Delivery : \A i \in TopicsOf(e) :
          /\ Untouched(e, i)' <=> Untouched(e, i)
          /\ Pending(e, i)' <=> Pending(e, i)
          /\ Settled(e, i) => Settled(e, i)'
    BY SameTopics DEF IInv, TypeOK
  <2>2. InQueue' = InQueue /\ \A v \in Worker : work'[v].d = work[v].d /\ work'[v].i = work[v].i
    <3>1. InQueue' = InQueue
      BY DEF InQueue
    <3>2. work'[w].d = work[w].d /\ work'[w].i = work[w].i
      BY <1>8, <1>9 DEF IInv, Placed
    <3> QED
      BY <1>9, <3>1, <3>2
  <2>3. \A e \in Delivery : Gone(e)' <=> Gone(e)
    BY <2>2 DEF Gone
  <2>4. \A v \in Worker : /\ work'[v].pc \in {"take", "verify"} => work[v].pc \in {"take", "verify"}
                          /\ work'[v].pc \in Submitting => work[v].pc \in Submitting
    BY <1>9 DEF Submitting
  <2> QED
    BY <2>1, <2>2, <2>3, <2>4 DEF IInv, Topics, TopicsOf
<1>5. Counted'
  <2>1. \A v \in Worker :
          /\ work'[v].pc = "take" <=> work[v].pc = "take"
          /\ work[v].pc = "take" => work'[v].d = work[v].d
    BY <1>9
  <2> QED
    BY <2>1, WorkerHolds DEF IInv
<1> QED
  BY <1>1, <1>2, <1>3, <1>4, <1>5 DEF IInv

\* A worker waits before it tries a topic again.
LEMMA BackoffStep ==
  ASSUME IInv, NEW w \in Worker, work[w].pc = "submit", ~GivesUp(w),
         WorkTo(w, "backoff", work[w].d, work[w].i, work[w].attempt),
         UNCHANGED <<handle, marked, started, stopping, cut, q, bytes, booked, shadowed, also>>
  PROVE  IInv'
<1>7. work[w].attempt \in Nat /\ work[w].attempt < Retries
  BY Sizes DEF IInv, TypeOK, GivesUp
<1>0. work[w].d \in Delivery
  BY Sizes DEF IInv, TypeOK, Placed, Loops
<1>8. PICK d \in Delivery : d = work[w].d
  BY <1>0
<1>9. /\ work' \in [Worker -> [pc : {"select", "take", "verify", "submit", "backoff", "drain", "exit"},
                              d : Delivery \cup {NoDelivery}, i : Nat, attempt : 0..Retries,
                              draining : BOOLEAN]]
      /\ work'[w].pc = "backoff" /\ work'[w].d = d /\ work'[w].i = work[w].i /\ work'[w].attempt = work[w].attempt
      /\ \A v \in Worker \ {w} : work'[v] = work[v]
  <2>1. work[w].attempt \in 0..Retries /\ work[w].i \in Nat
    BY Sizes DEF IInv, TypeOK, Placed
  <2> QED
    BY <1>0, <1>8, <2>1, WorkMoves DEF IInv
<1>1. TypeOK'
  BY <1>9 DEF IInv, TypeOK
<1>2. Tables'
  BY DEF IInv, Tables
<1>3. Placed'
  <2>1. \A v \in Worker :
          /\ work'[v].pc \in Loops <=> work'[v].d = NoDelivery
          /\ work'[v].d # NoDelivery => handle[work'[v].d] = "queued" /\ work'[v].d \notin InQueue
    BY <1>0, <1>8, <1>9, Sizes DEF IInv, Placed, Loops
  <2>2. \A v \in Worker :
          /\ work'[v].pc \in {"take", "verify"} => work'[v].i = 0
          /\ work'[v].pc \in Submitting => work'[v].i \in TopicsOf(work'[v].d)
          /\ work'[v].pc = "backoff" => work'[v].attempt < Retries
    <3>1. \A v \in Worker \ {w} : work'[v] = work[v]
      BY <1>9
    <3>2. /\ work'[w].pc \in {"take", "verify"} => work'[w].i = 0
          /\ work'[w].pc \in Submitting => work'[w].i \in TopicsOf(work'[w].d)
          /\ work'[w].pc = "backoff" => work'[w].attempt < Retries
      <4>1. work[w].i \in TopicsOf(work[w].d)
        BY DEF IInv, Placed, Submitting
      <4> QED
        BY <1>7, <1>8, <1>9, <4>1 DEF Submitting
    <3> QED
      BY <3>1, <3>2 DEF IInv, Placed
  <2>3. \A u, v \in Worker : work'[u].d = work'[v].d /\ work'[u].d # NoDelivery => u = v
    BY <1>8, <1>9 DEF IInv, Placed
  <2> QED
    BY <2>1, <2>2, <2>3 DEF IInv, Placed, TopicsOf, InQueue
<1>4. Topics'
  <2>1. \A e \in Delivery : \A i \in TopicsOf(e) :
          /\ Untouched(e, i)' <=> Untouched(e, i)
          /\ Pending(e, i)' <=> Pending(e, i)
          /\ Settled(e, i) => Settled(e, i)'
    BY SameTopics DEF IInv, TypeOK
  <2>2. InQueue' = InQueue /\ \A v \in Worker : work'[v].d = work[v].d /\ work'[v].i = work[v].i
    <3>1. InQueue' = InQueue
      BY DEF InQueue
    <3>2. work'[w].d = work[w].d /\ work'[w].i = work[w].i
      BY <1>8, <1>9 DEF IInv, Placed
    <3> QED
      BY <1>9, <3>1, <3>2
  <2>3. \A e \in Delivery : Gone(e)' <=> Gone(e)
    BY <2>2 DEF Gone
  <2>4. \A v \in Worker : /\ work'[v].pc \in {"take", "verify"} => work[v].pc \in {"take", "verify"}
                          /\ work'[v].pc \in Submitting => work[v].pc \in Submitting
    BY <1>9 DEF Submitting
  <2> QED
    BY <2>1, <2>2, <2>3, <2>4 DEF IInv, Topics, TopicsOf
<1>5. Counted'
  <2>1. \A v \in Worker :
          /\ work'[v].pc = "take" <=> work[v].pc = "take"
          /\ work[v].pc = "take" => work'[v].d = work[v].d
    BY <1>9
  <2> QED
    BY <2>1, WorkerHolds DEF IInv
<1> QED
  BY <1>1, <1>2, <1>3, <1>4, <1>5 DEF IInv

\* A booking is of the topics it is for.
LEMMA BookingMoves ==
  ASSUME TypeOK, Tables, NEW d \in Delivery, NEW S, NEW what \in {"submitted", "refused", "error", "spv"},
         Booking(d, S, what)
  PROVE  /\ DOMAIN booked' = Delivery
         /\ \A e \in Delivery :
              /\ booked'[e] \in [TopicsOf(e) -> SUBSET {"submitted", "refused", "error", "spv"}]
              /\ \A j \in TopicsOf(e) :
                   /\ e = d /\ j \in S => booked'[e][j] = booked[e][j] \cup {what}
                   /\ e # d \/ j \notin S => booked'[e][j] = booked[e][j]
<1>1. booked' = [booked EXCEPT ![d] = [i \in TopicsOf(d) |->
                   IF i \in S THEN booked[d][i] \cup {what} ELSE booked[d][i]]]
  BY DEF Booking
<1>2. DOMAIN booked' = Delivery /\ \A e \in Delivery : e # d => booked'[e] = booked[e]
  BY <1>1 DEF Tables
<1>3. booked'[d] = [i \in TopicsOf(d) |-> IF i \in S THEN booked[d][i] \cup {what} ELSE booked[d][i]]
  BY <1>1 DEF Tables
<1>4. \A i \in TopicsOf(d) : booked[d][i] \in SUBSET {"submitted", "refused", "error", "spv"}
  BY DEF TypeOK
<1>5. \A i \in TopicsOf(d) : booked'[d][i] = IF i \in S THEN booked[d][i] \cup {what} ELSE booked[d][i]
  BY <1>3
<1>6. booked'[d] \in [TopicsOf(d) -> SUBSET {"submitted", "refused", "error", "spv"}]
  BY <1>3, <1>4
<1> QED
  BY <1>2, <1>5, <1>6 DEF TypeOK

\* A topic is answered for: it is booked once and offered once to the shadow.
LEMMA AnswerStep ==
  ASSUME IInv, NEW w \in Worker, work[w].pc = "submit",
         NEW what \in {"submitted", "refused", "error"}, Answer(w, what)
  PROVE  IInv'
<1>0. work[w].d \in Delivery /\ work[w].pc \notin Loops
  BY Sizes DEF IInv, TypeOK, Placed, Loops
<1>1. PICK d \in Delivery : d = work[w].d
  BY <1>0
<1>2. PICK i \in TopicsOf(d) : i = work[w].i /\ i \in Nat \ {0}
  BY <1>1, Sizes DEF IInv, Placed, Submitting, TopicsOf
<1>3. /\ Booking(d, {i}, what) /\ NextTopic(w, i + 1)
      /\ shadowed' = [shadowed EXCEPT ![d][i] = @ + 1]
      /\ handle' = handle /\ marked' = marked /\ started' = started /\ stopping' = stopping
      /\ cut' = cut /\ q' = q /\ bytes' = bytes
  BY <1>1, <1>2 DEF Answer, handleVars
<1>4. /\ DOMAIN booked' = Delivery
      /\ \A e \in Delivery :
           /\ booked'[e] \in [TopicsOf(e) -> SUBSET {"submitted", "refused", "error", "spv"}]
           /\ \A j \in TopicsOf(e) :
                /\ e = d /\ j = i => booked'[e][j] = booked[e][j] \cup {what}
                /\ e # d \/ j # i => booked'[e][j] = booked[e][j]
  <2>1. what \in {"submitted", "refused", "error", "spv"}
    OBVIOUS
  <2>2. PICK S : S = {i}
    OBVIOUS
  <2>3. Booking(d, S, what)
    BY <1>3, <2>2
  <2>4. /\ DOMAIN booked' = Delivery
        /\ \A e \in Delivery :
             /\ booked'[e] \in [TopicsOf(e) -> SUBSET {"submitted", "refused", "error", "spv"}]
             /\ \A j \in TopicsOf(e) :
                  /\ e = d /\ j \in S => booked'[e][j] = booked[e][j] \cup {what}
                  /\ e # d \/ j \notin S => booked'[e][j] = booked[e][j]
    BY <2>1, <2>3, BookingMoves DEF IInv
  <2> QED
    BY <2>2, <2>4
<1>5. /\ DOMAIN shadowed' = Delivery
      /\ \A e \in Delivery :
           /\ shadowed'[e] \in [TopicsOf(e) -> Nat]
           /\ \A j \in TopicsOf(e) :
                shadowed'[e][j] = IF e = d /\ j = i THEN shadowed[e][j] + 1 ELSE shadowed[e][j]
  BY <1>2, <1>3 DEF IInv, TypeOK, Tables
<1>6. Pending(d, i)
  BY <1>1, <1>2 DEF IInv, Topics, Submitting
<1>7. booked'[d][i] = {what} /\ shadowed'[d][i] = 1
  <2>1. booked[d][i] = {} /\ shadowed[d][i] = 0
    BY <1>6 DEF Pending
  <2>2. booked'[d][i] = booked[d][i] \cup {what} /\ shadowed'[d][i] = shadowed[d][i] + 1
    BY <1>4, <1>5
  <2> QED
    BY <2>1, <2>2
<1>8. i + 1 \in Nat \ {0} /\ i + 1 - 1 = i
  BY <1>2
<1>9. Placed' /\ Topics'
  <2>1. \A e \in Delivery : \A j \in TopicsOf(e) : e # d \/ j # (i + 1) - 1 =>
           booked'[e][j] = booked[e][j] /\ shadowed'[e][j] = shadowed[e][j]
    <3>1. (i + 1) - 1 = i
      BY <1>2
    <3> QED
      BY <1>4, <1>5, <3>1
  <2>2. work[w].pc \in Submitting /\ i + 1 = work[w].i + 1 /\ work[w].d = d
    BY <1>1, <1>2 DEF Submitting
  <2>3. \/ booked'[d][work[w].i] = {} /\ cut /\ shadowed'[d][work[w].i] = 0
        \/ /\ \E x \in {"submitted", "refused", "error"} : booked'[d][work[w].i] = {x}
           /\ shadowed'[d][work[w].i] = 1
    BY <1>2, <1>7
  <2> QED
    BY <1>3, <1>8, <2>1, <2>2, <2>3, TopicDone
<1>10. /\ work' \in [Worker -> [pc : {"select", "take", "verify", "submit", "backoff", "drain", "exit"},
                              d : Delivery \cup {NoDelivery}, i : Nat, attempt : 0..Retries,
                              draining : BOOLEAN]]
       /\ \A v \in Worker \ {w} : work'[v] = work[v]
       /\ work'[w].pc # "take"
       /\ DOMAIN also' = Delivery
       /\ \A e \in Delivery : also'[e] \in [TopicsOf(e) -> Nat]
  BY <1>0, <1>3, <1>8, NextTopicMoves DEF IInv
<1>11. TypeOK' /\ Tables'
  BY <1>3, <1>4, <1>5, <1>10 DEF IInv, TypeOK, Tables, TopicsOf
<1>12. Counted'
  BY <1>3, <1>10, WorkerHolds DEF IInv
<1> QED
  BY <1>9, <1>11, <1>12 DEF IInv

\* A submit comes back.
LEMMA SubmitStep ==
  ASSUME IInv, NEW w \in Worker, SubmitOK(w) \/ SubmitRefused(w) \/ SubmitFail(w)
  PROVE  IInv'
<1>1. CASE \E what \in {"submitted", "refused", "error"} : work[w].pc = "submit" /\ Answer(w, what)
  BY <1>1, AnswerStep
<1>2. CASE /\ work[w].pc = "submit" /\ ~GivesUp(w)
           /\ WorkTo(w, "backoff", work[w].d, work[w].i, work[w].attempt)
           /\ UNCHANGED <<handle, marked, started, stopping, cut, q, bytes, booked, shadowed, also>>
  BY <1>2, BackoffStep
<1> QED
  BY <1>1, <1>2 DEF SubmitOK, SubmitRefused, SubmitFail, handleVars, bookVars

\* A delivery that passes goes to its first topic.
LEMMA VerifyPassStep ==
  ASSUME IInv, NEW w \in Worker, VerifyPass(w)
  PROVE  IInv'
<1>0. work[w].d \in Delivery /\ work[w].pc \notin Loops
  BY Sizes DEF IInv, TypeOK, Placed, Loops, VerifyPass
<1>1. PICK d \in Delivery : d = work[w].d
  BY <1>0
<1>2. PICK n \in Nat \ {0} : n = 1
  BY <1>1 DEF IInv, TypeOK
<1>3. /\ NextTopic(w, n) /\ work[w].pc = "verify"
      /\ UNCHANGED <<handle, marked, started, stopping, cut, q, bytes, booked, shadowed>>
  BY <1>2 DEF VerifyPass, handleVars
<1>4. Placed' /\ Topics'
  <2>1. \/ work[w].pc = "verify" /\ n = 1
        \/ work[w].pc \in Submitting /\ n = work[w].i + 1
    BY <1>2, <1>3 DEF Submitting
  <2>2. work[w].pc \in Submitting => booked'[d][work[w].i] = {} /\ cut /\ shadowed'[d][work[w].i] = 0
    <3>1. SUFFICES ASSUME work[w].pc \in Submitting
                   PROVE  booked[d][work[w].i] = {} /\ cut /\ shadowed[d][work[w].i] = 0
      BY <1>3
    <3>2. work[w].i \in TopicsOf(d) /\ Pending(d, work[w].i)
      BY <1>1, <3>1 DEF IInv, Placed, Topics
    <3> QED
      BY <1>3, <3>1, <3>2 DEF Pending, Submitting
  <2> QED
    BY <1>1, <1>3, <2>1, <2>2, TopicDone
<1>5. /\ work' \in [Worker -> [pc : {"select", "take", "verify", "submit", "backoff", "drain", "exit"},
                              d : Delivery \cup {NoDelivery}, i : Nat, attempt : 0..Retries,
                              draining : BOOLEAN]]
      /\ \A v \in Worker \ {w} : work'[v] = work[v]
      /\ work'[w].pc # "take" /\ work[w].pc # "take"
      /\ DOMAIN also' = Delivery
      /\ \A e \in Delivery : also'[e] \in [TopicsOf(e) -> Nat]
  BY <1>0, <1>3, NextTopicMoves DEF IInv
<1>6. TypeOK' /\ Tables'
  BY <1>3, <1>5 DEF IInv, TypeOK, Tables, TopicsOf
<1>7. Counted'
  BY <1>3, <1>5, WorkerHolds DEF IInv
<1> QED
  BY <1>4, <1>6, <1>7 DEF IInv

\* The drain's end leaves the topic that waits.
LEMMA BackoffCutStep ==
  ASSUME IInv, NEW w \in Worker, BackoffCut(w)
  PROVE  IInv'
<1>0. work[w].d \in Delivery /\ work[w].pc \notin Loops
  BY Sizes DEF IInv, TypeOK, Placed, Loops, BackoffCut
<1>1. PICK d \in Delivery : d = work[w].d
  BY <1>0
<1>2. PICK n \in Nat \ {0} : n = work[w].i + 1
  BY <1>1 DEF IInv, TypeOK
<1>3. /\ NextTopic(w, n) /\ work[w].pc = "backoff" /\ cut
      /\ UNCHANGED <<handle, marked, started, stopping, cut, q, bytes, booked, shadowed>>
  BY <1>2 DEF BackoffCut, handleVars
<1>4. Placed' /\ Topics'
  <2>1. \/ work[w].pc = "verify" /\ n = 1
        \/ work[w].pc \in Submitting /\ n = work[w].i + 1
    BY <1>2, <1>3 DEF Submitting
  <2>2. work[w].pc \in Submitting => booked'[d][work[w].i] = {} /\ cut /\ shadowed'[d][work[w].i] = 0
    <3>1. SUFFICES ASSUME work[w].pc \in Submitting
                   PROVE  booked[d][work[w].i] = {} /\ cut /\ shadowed[d][work[w].i] = 0
      BY <1>3
    <3>2. work[w].i \in TopicsOf(d) /\ Pending(d, work[w].i)
      BY <1>1, <3>1 DEF IInv, Placed, Topics
    <3> QED
      BY <1>3, <3>1, <3>2 DEF Pending, Submitting
  <2> QED
    BY <1>1, <1>3, <2>1, <2>2, TopicDone
<1>5. /\ work' \in [Worker -> [pc : {"select", "take", "verify", "submit", "backoff", "drain", "exit"},
                              d : Delivery \cup {NoDelivery}, i : Nat, attempt : 0..Retries,
                              draining : BOOLEAN]]
      /\ \A v \in Worker \ {w} : work'[v] = work[v]
      /\ work'[w].pc # "take" /\ work[w].pc # "take"
      /\ DOMAIN also' = Delivery
      /\ \A e \in Delivery : also'[e] \in [TopicsOf(e) -> Nat]
  BY <1>0, <1>3, NextTopicMoves DEF IInv
<1>6. TypeOK' /\ Tables'
  BY <1>3, <1>5 DEF IInv, TypeOK, Tables, TopicsOf
<1>7. Counted'
  BY <1>3, <1>5, WorkerHolds DEF IInv
<1> QED
  BY <1>4, <1>6, <1>7 DEF IInv

\* A delivery SPV refuses is done with at once.
LEMMA VerifyRefuseStep ==
  ASSUME IInv, NEW w \in Worker, VerifyRefuse(w)
  PROVE  IInv'
<1>0. work[w].d \in Delivery /\ work[w].pc = "verify" /\ InQueue' = InQueue
  BY Sizes DEF IInv, TypeOK, Placed, Loops, VerifyRefuse, InQueue
<1>1. PICK d \in Delivery : d = work[w].d
  BY <1>0
<1>2. /\ Booking(d, TopicsOf(d), "spv") /\ WorkTo(w, Looping(w), NoDelivery, 0, 0)
      /\ UNCHANGED <<handle, marked, started, stopping, cut, q, bytes, shadowed, also>>
  BY <1>1 DEF VerifyRefuse, handleVars
<1>3. /\ DOMAIN booked' = Delivery
      /\ \A e \in Delivery :
           /\ booked'[e] \in [TopicsOf(e) -> SUBSET {"submitted", "refused", "error", "spv"}]
           /\ \A j \in TopicsOf(e) :
                /\ e = d /\ j \in TopicsOf(d) => booked'[e][j] = booked[e][j] \cup {"spv"}
                /\ e # d \/ j \notin TopicsOf(d) => booked'[e][j] = booked[e][j]
  BY <1>2, BookingMoves DEF IInv
<1>4. /\ work' \in [Worker -> [pc : {"select", "take", "verify", "submit", "backoff", "drain", "exit"},
                              d : Delivery \cup {NoDelivery}, i : Nat, attempt : 0..Retries,
                              draining : BOOLEAN]]
      /\ work'[w].pc \in {"select", "drain"} /\ work'[w].d = NoDelivery /\ work'[w].i = 0
      /\ \A v \in Worker \ {w} : work'[v] = work[v]
  <2>1. Looping(w) \in {"select", "drain"}
    BY DEF Looping
  <2>2. 0 \in 0..Retries
    BY Sizes
  <2> QED
    BY <1>2, <2>1, <2>2, WorkMoves DEF IInv
<1>5. TypeOK' /\ Tables'
  BY <1>2, <1>3, <1>4 DEF IInv, TypeOK, Tables, TopicsOf
<1>6. Counted'
  BY <1>0, <1>2, <1>4, WorkerHolds DEF IInv
<1>7. Placed'
  <2>1. \A v \in Worker :
          /\ work'[v].pc \in Loops <=> work'[v].d = NoDelivery
          /\ work'[v].d # NoDelivery => handle[work'[v].d] = "queued" /\ work'[v].d \notin InQueue
    BY <1>4, Sizes DEF IInv, Placed, Loops
  <2>2. \A v \in Worker :
          /\ work'[v].pc \in {"take", "verify"} => work'[v].i = 0
          /\ work'[v].pc \in Submitting => work'[v].i \in TopicsOf(work'[v].d)
          /\ work'[v].pc = "backoff" => work'[v].attempt < Retries
    BY <1>4 DEF IInv, Placed, Submitting
  <2>3. \A u, v \in Worker : work'[u].d = work'[v].d /\ work'[u].d # NoDelivery => u = v
    BY <1>4 DEF IInv, Placed
  <2> QED
    BY <1>0, <1>2, <2>1, <2>2, <2>3 DEF IInv, Placed, TopicsOf
<1>8. Topics'
  <2> SUFFICES ASSUME NEW e \in Delivery, NEW j \in TopicsOf(e)
               PROVE  /\ handle[e] # "queued" \/ e \in InQueue => Untouched(e, j)'
                      /\ Gone(e)' => Settled(e, j)'
                      /\ \A v \in Worker : work'[v].d = e =>
                           /\ work'[v].pc \in {"take", "verify"} \/ j > work'[v].i => Untouched(e, j)'
                           /\ work'[v].pc \in Submitting /\ j = work'[v].i => Pending(e, j)'
                           /\ j < work'[v].i => Settled(e, j)'
    BY <1>0, <1>2 DEF Topics, TopicsOf
  <2>0. \A v \in Worker : work'[v].d = e => v # w /\ work'[v] = work[v]
    BY <1>4, Sizes
  <2>1. CASE e # d
    <3>1. booked'[e][j] = booked[e][j] /\ shadowed' = shadowed /\ also' = also /\ (cut' <=> cut)
      BY <1>2, <1>3, <2>1
    <3>2. /\ Untouched(e, j)' <=> Untouched(e, j)
          /\ Pending(e, j)' <=> Pending(e, j)
          /\ Settled(e, j)' <=> Settled(e, j)
      BY <3>1 DEF Untouched, Pending, Settled
    <3>3. Gone(e)' => Gone(e)
      BY <1>0, <1>1, <1>2, <1>4, <2>1 DEF Gone
    <3> QED
      BY <2>0, <3>2, <3>3 DEF IInv, Topics
  <2>2. CASE e = d
    <3>1. handle[e] = "queued" /\ e \notin InQueue
      BY <1>0, <1>1, <2>2, Sizes DEF IInv, Placed
    <3>2. \A v \in Worker : work'[v].d # e
      BY <1>1, <2>0, <2>2, Sizes DEF IInv, Placed
    <3>3. Untouched(e, j)
      BY <1>0, <1>1, <2>2 DEF IInv, Topics
    <3>4. booked'[e][j] = {"spv"} /\ shadowed'[e][j] = 0 /\ also'[e][j] = 0
      BY <1>2, <1>3, <2>2, <3>3 DEF Untouched
    <3> QED
      BY <3>1, <3>2, <3>4 DEF Settled
  <2> QED
    BY <2>1, <2>2
<1> QED
  BY <1>5, <1>6, <1>7, <1>8 DEF IInv

\* A worker sees the stop.
LEMMA EnterDrainStep ==
  ASSUME IInv, NEW w \in Worker, EnterDrain(w)
  PROVE  IInv'
<1> USE DEF EnterDrain, handleVars, bookVars
<1>9. /\ work' \in [Worker -> [pc : {"select", "take", "verify", "submit", "backoff", "drain", "exit"},
                              d : Delivery \cup {NoDelivery}, i : Nat, attempt : 0..Retries,
                              draining : BOOLEAN]]
      /\ \A v \in Worker : /\ work'[v].d = work[v].d /\ work'[v].i = work[v].i
                           /\ work'[v].attempt = work[v].attempt
                           /\ work'[v].pc # work[v].pc => v = w /\ work[v].pc \in Loops /\ work'[v].pc \in Loops
  BY DEF IInv, TypeOK, Loops
<1>1. TypeOK'
  BY <1>9 DEF IInv, TypeOK
<1>2. Tables'
  BY DEF IInv, Tables
<1>3. Placed'
  BY <1>9 DEF IInv, Placed, Loops, Submitting, InQueue, TopicsOf
<1>4. Topics'
  <2>1. \A e \in Delivery : \A i \in TopicsOf(e) :
          /\ Untouched(e, i)' <=> Untouched(e, i)
          /\ Pending(e, i)' <=> Pending(e, i)
          /\ Settled(e, i) => Settled(e, i)'
    BY SameTopics DEF IInv, TypeOK
  <2>2. InQueue' = InQueue
    BY DEF InQueue
  <2>3. \A e \in Delivery : Gone(e)' <=> Gone(e)
    BY <1>9, <2>2 DEF Gone
  <2>4. \A v \in Worker : /\ work'[v].pc \in {"take", "verify"} => work[v].pc \in {"take", "verify"}
                          /\ work'[v].pc \in Submitting => work[v].pc \in Submitting
    BY <1>9 DEF Submitting, Loops
  <2> QED
    BY <1>9, <2>1, <2>2, <2>3, <2>4 DEF IInv, Topics, TopicsOf
<1>5. Counted'
  <2>1. \A v \in Worker :
          /\ work'[v].pc = "take" <=> work[v].pc = "take"
          /\ work[v].pc = "take" => work'[v].d = work[v].d
    BY <1>9 DEF Loops
  <2> QED
    BY <2>1, WorkerHolds DEF IInv
<1> QED
  BY <1>1, <1>2, <1>3, <1>4, <1>5 DEF IInv

\* A worker has drained the queue.
LEMMA DrainEndStep ==
  ASSUME IInv, NEW w \in Worker, DrainEnd(w)
  PROVE  IInv'
<1> USE DEF DrainEnd, handleVars, bookVars
<1>9. /\ work' \in [Worker -> [pc : {"select", "take", "verify", "submit", "backoff", "drain", "exit"},
                              d : Delivery \cup {NoDelivery}, i : Nat, attempt : 0..Retries,
                              draining : BOOLEAN]]
      /\ \A v \in Worker : /\ work'[v].d = work[v].d /\ work'[v].i = work[v].i
                           /\ work'[v].attempt = work[v].attempt
                           /\ work'[v].pc # work[v].pc => v = w /\ work[v].pc \in Loops /\ work'[v].pc \in Loops
  BY DEF IInv, TypeOK, Loops
<1>1. TypeOK'
  BY <1>9 DEF IInv, TypeOK
<1>2. Tables'
  BY DEF IInv, Tables
<1>3. Placed'
  BY <1>9 DEF IInv, Placed, Loops, Submitting, InQueue, TopicsOf
<1>4. Topics'
  <2>1. \A e \in Delivery : \A i \in TopicsOf(e) :
          /\ Untouched(e, i)' <=> Untouched(e, i)
          /\ Pending(e, i)' <=> Pending(e, i)
          /\ Settled(e, i) => Settled(e, i)'
    BY SameTopics DEF IInv, TypeOK
  <2>2. InQueue' = InQueue
    BY DEF InQueue
  <2>3. \A e \in Delivery : Gone(e)' <=> Gone(e)
    BY <1>9, <2>2 DEF Gone
  <2>4. \A v \in Worker : /\ work'[v].pc \in {"take", "verify"} => work[v].pc \in {"take", "verify"}
                          /\ work'[v].pc \in Submitting => work[v].pc \in Submitting
    BY <1>9 DEF Submitting, Loops
  <2> QED
    BY <1>9, <2>1, <2>2, <2>3, <2>4 DEF IInv, Topics, TopicsOf
<1>5. Counted'
  <2>1. \A v \in Worker :
          /\ work'[v].pc = "take" <=> work[v].pc = "take"
          /\ work[v].pc = "take" => work'[v].d = work[v].d
    BY <1>9 DEF Loops
  <2> QED
    BY <2>1, WorkerHolds DEF IInv
<1> QED
  BY <1>1, <1>2, <1>3, <1>4, <1>5 DEF IInv

\* Start runs.
LEMMA BeginStep ==
  ASSUME IInv, Begin
  PROVE  IInv'
<1> USE DEF Begin, handleVars, bookVars
<1>1. TypeOK'
  BY DEF IInv, TypeOK
<1>2. Tables'
  BY DEF IInv, Tables
<1>3. Placed'
  BY DEF IInv, Placed, InQueue, TopicsOf
<1>4. Topics'
  <2>1. \A e \in Delivery : \A i \in TopicsOf(e) :
          /\ Untouched(e, i)' <=> Untouched(e, i)
          /\ Pending(e, i)' <=> Pending(e, i)
          /\ Settled(e, i) => Settled(e, i)'
    BY SameTopics DEF IInv, TypeOK
  <2>2. InQueue' = InQueue /\ \A e \in Delivery : Gone(e)' <=> Gone(e)
    BY DEF InQueue, Gone
  <2> QED
    BY <2>1, <2>2 DEF IInv, Topics, TopicsOf
<1>5. Counted'
  BY WorkerHolds DEF IInv
<1> QED
  BY <1>1, <1>2, <1>3, <1>4, <1>5 DEF IInv

\* The feed is told to stop.
LEMMA StopStep ==
  ASSUME IInv, Stop
  PROVE  IInv'
<1> USE DEF Stop, handleVars, bookVars
<1>1. TypeOK'
  BY DEF IInv, TypeOK
<1>2. Tables'
  BY DEF IInv, Tables
<1>3. Placed'
  BY DEF IInv, Placed, InQueue, TopicsOf
<1>4. Topics'
  <2>1. \A e \in Delivery : \A i \in TopicsOf(e) :
          /\ Untouched(e, i)' <=> Untouched(e, i)
          /\ Pending(e, i)' <=> Pending(e, i)
          /\ Settled(e, i) => Settled(e, i)'
    BY SameTopics DEF IInv, TypeOK
  <2>2. InQueue' = InQueue /\ \A e \in Delivery : Gone(e)' <=> Gone(e)
    BY DEF InQueue, Gone
  <2> QED
    BY <2>1, <2>2 DEF IInv, Topics, TopicsOf
<1>5. Counted'
  BY WorkerHolds DEF IInv
<1> QED
  BY <1>1, <1>2, <1>3, <1>4, <1>5 DEF IInv

\* The drain's time is up.
LEMMA DrainTimerStep ==
  ASSUME IInv, DrainTimer
  PROVE  IInv'
<1> USE DEF DrainTimer, handleVars, bookVars
<1>1. TypeOK'
  BY DEF IInv, TypeOK
<1>2. Tables'
  BY DEF IInv, Tables
<1>3. Placed'
  BY DEF IInv, Placed, InQueue, TopicsOf
<1>4. Topics'
  <2>1. \A e \in Delivery : \A i \in TopicsOf(e) :
          /\ Untouched(e, i)' <=> Untouched(e, i)
          /\ Pending(e, i)' <=> Pending(e, i)
          /\ Settled(e, i) => Settled(e, i)'
    BY SameTopics DEF IInv, TypeOK
  <2>2. InQueue' = InQueue /\ \A e \in Delivery : Gone(e)' <=> Gone(e)
    BY DEF InQueue, Gone
  <2> QED
    BY <2>1, <2>2 DEF IInv, Topics, TopicsOf
<1>5. Counted'
  BY WorkerHolds DEF IInv
<1> QED
  BY <1>1, <1>2, <1>3, <1>4, <1>5 DEF IInv

\* Start returns.
LEMMA StartReturnStep ==
  ASSUME IInv, StartReturn
  PROVE  IInv'
<1> USE DEF StartReturn, handleVars, bookVars
<1>1. TypeOK'
  BY DEF IInv, TypeOK
<1>2. Tables'
  BY DEF IInv, Tables
<1>3. Placed'
  BY DEF IInv, Placed, InQueue, TopicsOf
<1>4. Topics'
  <2>1. \A e \in Delivery : \A i \in TopicsOf(e) :
          /\ Untouched(e, i)' <=> Untouched(e, i)
          /\ Pending(e, i)' <=> Pending(e, i)
          /\ Settled(e, i) => Settled(e, i)'
    BY SameTopics DEF IInv, TypeOK
  <2>2. InQueue' = InQueue /\ \A e \in Delivery : Gone(e)' <=> Gone(e)
    BY DEF InQueue, Gone
  <2> QED
    BY <2>1, <2>2 DEF IInv, Topics, TopicsOf
<1>5. Counted'
  BY WorkerHolds DEF IInv
<1> QED
  BY <1>1, <1>2, <1>3, <1>4, <1>5 DEF IInv

\* Every step keeps the invariant.
LEMMA NextIInv == IInv /\ [Next]_vars => IInv'
<1> SUFFICES ASSUME IInv, [Next]_vars PROVE IInv'
  OBVIOUS
<1>1. CASE \E d \in Delivery : Deliver(d) \/ HandleStep(d)
  BY <1>1, DeliverStep, CheckStartedStep, ReserveStep, PutStep, PutFullStep, UndoStep DEF HandleStep
<1>2. CASE \E w \in Worker : WorkStep(w)
  BY <1>2, ReceiveStep, TakeStep, VerifyPassStep, VerifyRefuseStep, SubmitStep, BackoffEndStep,
     BackoffCutStep, EnterDrainStep, DrainEndStep DEF WorkStep
<1>3. CASE Begin \/ Stop \/ DrainTimer \/ StartReturn
  BY <1>3, BeginStep, StopStep, DrainTimerStep, StartReturnStep
<1>4. CASE UNCHANGED vars
  <2> USE <1>4 DEF vars
  <2>1. TypeOK' /\ Tables' /\ Placed'
    BY DEF IInv, TypeOK, Tables, Placed, InQueue, TopicsOf
  <2>2. Topics'
    BY DEF IInv, Topics, Untouched, Pending, Settled, Gone, InQueue, TopicsOf
  <2>3. Counted'
    BY WorkerHolds DEF IInv
  <2> QED
    BY <2>1, <2>2, <2>3 DEF IInv
<1> QED
  BY <1>1, <1>2, <1>3, <1>4 DEF Next

\* So it holds of every reachable state.
LEMMA Invariance == Spec => []IInv
BY InitIInv, NextIInv, PTL DEF Spec

-----------------------------------------------------------------------------
(* The theorems *)

\* Feed.queuedBytes is the bytes of what is queued, being put and being taken,
\* and the objects in the queue keep to the byte bound.
THEOREM BytesAccountedHolds == Spec => []BytesAccounted
<1>1. IInv => BytesAccounted
  <2> SUFFICES ASSUME IInv PROVE BytesAccounted
    OBVIOUS
  <2>1. SizeOf(Held) = SumOf(Size, Held) /\ SizeOf(InQueue) = SumOf(Size, InQueue)
    BY DEF SizeOf, SumOf
  <2>2. Held \subseteq Delivery /\ Admitted \subseteq Held /\ InQueue \subseteq Admitted
    BY HeldType DEF IInv, Admitted
  <2>3. IsFiniteSet(Admitted) /\ IsFiniteSet(InQueue)
    BY <2>2, FS_Subset DEF IInv, Counted
  <2>4. SumOf(Size, InQueue) <= SumOf(Size, Admitted)
    BY <2>2, <2>3, Sizes, SumSubset
  <2>5. SumOf(Size, InQueue) \in Nat /\ SumOf(Size, Admitted) \in Nat
    BY <2>2, <2>3, Sizes, SumNat
  <2>6. QueueBytes > 0 => SumOf(Size, InQueue) <= QueueBytes
    BY <2>4, <2>5, Sizes DEF IInv, Counted
  <2> QED
    BY <2>1, <2>6 DEF IInv, Counted, Held, BytesAccounted
<1> QED
  BY <1>1, Invariance, PTL

\* Each delivery is in one place and each of its topics is answered for once.
THEOREM DeliveryAccountedHolds == Spec => []DeliveryAccounted
<1>1. IInv => DeliveryAccounted
  <2> SUFFICES ASSUME IInv, NEW d \in Delivery
               PROVE  /\ Cardinality({i \in DOMAIN q : q[i] = d}) + Cardinality(AtWorker(d)) <= 1
                      /\ d \in InQueue \/ AtWorker(d) # {} => handle[d] = "queued"
                      /\ \A i \in TopicsOf(d) :
                           LET done == handle[d] = "queued" /\ d \notin InQueue /\ i \in Passed(d)
                               spv  == booked[d][i] = {"spv"}
                           IN  /\ Cardinality(booked[d][i]) <= 1
                               /\ done => booked[d][i] # {} \/ cut
                               /\ done => also[d][i] = IF spv THEN 0 ELSE 1
                               /\ shadowed[d][i] = IF spv \/ booked[d][i] = {} THEN 0 ELSE 1
                               /\ booked[d][i] # {} => done
    BY DEF DeliveryAccounted
  <2>1. Cardinality({i \in DOMAIN q : q[i] = d}) + Cardinality(AtWorker(d)) <= 1
    <3> DEFINE Q == {i \in DOMAIN q : q[i] = d}
               W == AtWorker(d)
    <3>1. Q = {} \/ \E i : Q = {i}
      BY DEF IInv, Placed
    <3>2. W = {} \/ \E w : W = {w}
      <4>1. \A u, v \in AtWorker(d) : u = v
        BY Sizes DEF IInv, Placed, AtWorker
      <4> QED
        BY <4>1
    <3>3. Q = {} \/ W = {}
      BY Sizes DEF IInv, Placed, AtWorker, InQueue
    <3>4. Cardinality({}) = 0 /\ \A x : Cardinality({x}) = 1
      BY FS_EmptySet, FS_Singleton
    <3> HIDE DEF Q, W
    <3>5. /\ Cardinality(Q) = 0 \/ Cardinality(Q) = 1
          /\ Cardinality(W) = 0 \/ Cardinality(W) = 1
          /\ Cardinality(Q) = 0 \/ Cardinality(W) = 0
      BY <3>1, <3>2, <3>3, <3>4
    <3>6. Cardinality(Q) + Cardinality(W) <= 1
      BY <3>5
    <3> QED
      BY <3>6 DEF Q, W
  <2>2. d \in InQueue \/ AtWorker(d) # {} => handle[d] = "queued"
    BY Sizes DEF IInv, Placed, InQueue, AtWorker
  <2>3. ASSUME NEW i \in TopicsOf(d)
        PROVE  LET done == handle[d] = "queued" /\ d \notin InQueue /\ i \in Passed(d)
                   spv  == booked[d][i] = {"spv"}
               IN  /\ Cardinality(booked[d][i]) <= 1
                   /\ done => booked[d][i] # {} \/ cut
                   /\ done => also[d][i] = IF spv THEN 0 ELSE 1
                   /\ shadowed[d][i] = IF spv \/ booked[d][i] = {} THEN 0 ELSE 1
                   /\ booked[d][i] # {} => done
    <3> DEFINE done == handle[d] = "queued" /\ d \notin InQueue /\ i \in Passed(d)
    <3>0. i \in Nat /\ i > 0
      BY Sizes DEF TopicsOf
    <3>1. (done /\ Settled(d, i)) \/ (~done /\ (Untouched(d, i) \/ Pending(d, i)))
      <4>1. CASE handle[d] # "queued" \/ d \in InQueue
        BY <4>1 DEF IInv, Topics
      <4>2. CASE Gone(d)
        <5>1. AtWorker(d) = {}
          BY <4>2 DEF Gone, AtWorker
        <5> QED
          BY <4>2, <5>1 DEF IInv, Topics, Gone, Passed
      <4>3. CASE \E w \in Worker : work[w].d = d
        <5>1. PICK w \in Worker : work[w].d = d
          BY <4>3
        <5>2. AtWorker(d) = {w}
          BY <5>1, Sizes DEF IInv, Placed, AtWorker
        <5>3. i \in Passed(d) <=> i < work[w].i
          BY <5>2 DEF Passed
        <5>4. handle[d] = "queued" /\ d \notin InQueue /\ work[w].pc \notin Loops /\ work[w].i \in Nat
          BY <5>1, Sizes DEF IInv, Placed, TypeOK
        <5>5. CASE i < work[w].i
          BY <5>1, <5>3, <5>4, <5>5 DEF IInv, Topics
        <5>6. CASE i = work[w].i
          <6>1. work[w].pc \in Submitting
            BY <3>0, <5>4, <5>6 DEF IInv, TypeOK, Placed, Loops, Submitting
          <6> QED
            BY <5>1, <5>3, <5>6, <6>1, <3>0 DEF IInv, Topics
        <5>7. CASE i > work[w].i
          BY <3>0, <5>1, <5>3, <5>4, <5>7 DEF IInv, Topics
        <5> QED
          BY <3>0, <5>4, <5>5, <5>6, <5>7
      <4> QED
        BY <4>1, <4>2, <4>3 DEF Gone
    <3> HIDE DEF done
    <3>2. booked[d][i] = {} \/ \E x : booked[d][i] = {x}
      BY <3>1 DEF Settled, Untouched, Pending
    <3>3. Cardinality(booked[d][i]) <= 1
      <4>1. Cardinality(booked[d][i]) \in {0, 1}
        BY <3>2, FS_EmptySet, FS_Singleton
      <4> QED
        BY <4>1
    <3>4. done => booked[d][i] # {} \/ cut
      BY <3>1 DEF Settled
    <3>5. done => also[d][i] = IF booked[d][i] = {"spv"} THEN 0 ELSE 1
      BY <3>1 DEF Settled
    <3>6. shadowed[d][i] = IF booked[d][i] = {"spv"} \/ booked[d][i] = {} THEN 0 ELSE 1
      BY <3>1 DEF Settled, Untouched, Pending
    <3>7. booked[d][i] # {} => done
      BY <3>1 DEF Untouched, Pending
    <3> QED
      BY <3>3, <3>4, <3>5, <3>6, <3>7 DEF done
  <2> QED
    BY <2>1, <2>2, <2>3
<1> QED
  BY <1>1, Invariance, PTL

-----------------------------------------------------------------------------
(* Queues whose members are different *)

Members(s) == {s[i] : i \in DOMAIN s}

\* What is put into a queue is its last.
LEMMA PutLast ==
  ASSUME NEW E, NEW s \in Seq(E), NEW e \in E
  PROVE  /\ Append(s, e) \in Seq(E) /\ Len(Append(s, e)) = Len(s) + 1 /\ Len(s) \in Nat
         /\ DOMAIN Append(s, e) = 1..(Len(s) + 1) /\ DOMAIN s = 1..Len(s)
         /\ \A i \in DOMAIN s : Append(s, e)[i] = s[i]
         /\ Append(s, e)[Len(s) + 1] = e
         /\ Members(Append(s, e)) = Members(s) \cup {e}
<1>1. /\ Append(s, e) \in Seq(E) /\ Len(Append(s, e)) = Len(s) + 1 /\ Len(s) \in Nat
      /\ DOMAIN Append(s, e) = 1..(Len(s) + 1) /\ DOMAIN s = 1..Len(s)
      /\ \A i \in DOMAIN s : Append(s, e)[i] = s[i]
      /\ Append(s, e)[Len(s) + 1] = e
  OBVIOUS
<1>2. Members(Append(s, e)) = Members(s) \cup {e}
  BY <1>1 DEF Members
<1> QED
  BY <1>1, <1>2

\* What is received is its first.
LEMMA TakeFirst ==
  ASSUME NEW E, NEW s \in Seq(E), s # <<>>, \A i, j \in DOMAIN s : s[i] = s[j] => i = j
  PROVE  /\ Head(s) \in Members(s) /\ Head(s) \in E /\ Head(s) = s[1] /\ 1 \in DOMAIN s
         /\ Tail(s) \in Seq(E) /\ Len(Tail(s)) = Len(s) - 1 /\ Len(s) \in Nat
         /\ DOMAIN s = 1..Len(s) /\ DOMAIN Tail(s) = 1..(Len(s) - 1)
         /\ \A i \in DOMAIN Tail(s) : i + 1 \in DOMAIN s /\ Tail(s)[i] = s[i + 1]
         /\ Members(Tail(s)) = Members(s) \ {Head(s)}
<1>0. PICK t : t = Tail(s)
  OBVIOUS
<1>1. /\ Head(s) \in E /\ Head(s) = s[1] /\ 1 \in DOMAIN s
      /\ t \in Seq(E) /\ Len(t) = Len(s) - 1 /\ Len(s) \in Nat \ {0}
      /\ DOMAIN s = 1..Len(s) /\ DOMAIN t = 1..(Len(s) - 1)
      /\ \A i \in DOMAIN t : i + 1 \in DOMAIN s /\ t[i] = s[i + 1]
  BY <1>0
<1>2. ASSUME NEW i \in DOMAIN t
      PROVE  t[i] \in Members(s) \ {Head(s)}
  BY <1>1 DEF Members
<1>3. ASSUME NEW i \in DOMAIN s, s[i] # s[1]
      PROVE  s[i] \in Members(t)
  <2>1. i - 1 \in DOMAIN t /\ t[i - 1] = s[i]
    BY <1>1, <1>3
  <2> QED
    BY <2>1 DEF Members
<1>4. Members(t) = Members(s) \ {Head(s)} /\ Head(s) \in Members(s)
  BY <1>1, <1>2, <1>3 DEF Members
<1> QED
  BY <1>0, <1>1, <1>4

-----------------------------------------------------------------------------
(* The other targets of a route, beside the feed's primary *)

Idle == {"select", "exit"}

-----------------------------------------------------------------------------
(* The also target *)

\* An offer that was taken is in the queue once, or with one worker, or over; a
\* worker that waits has an attempt left.
AlsoPlaced ==
  /\ \A i, j \in DOMAIN aQ : aQ[i] = aQ[j] => i = j
  /\ \A i \in DOMAIN aQ : aOffer[aQ[i]] = "queued"
  /\ \A w \in TargetWorker :
       /\ aWork[w].pc \in Idle <=> aWork[w].o = NoTargetOffer
       /\ aWork[w].o # NoTargetOffer => aOffer[aWork[w].o] = "queued" /\ aWork[w].o \notin Al!InQueue
       /\ aWork[w].pc = "backoff" => aWork[w].attempt < AlsoRetries
  /\ \A v, w \in TargetWorker : aWork[v].o = aWork[w].o /\ aWork[v].o # NoTargetOffer => v = w

\* The objects whose bytes are counted, and those of them whose room is theirs.
AlsoHeld == Al!InQueue \cup Al!Hands \cup Al!Reserving
AlsoAdmitted == Al!InQueue \cup Al!Hands \cup {o \in AlsoOffers : aOffer[o] = "put"}

AlsoCounted ==
  /\ IsFiniteSet(AlsoHeld)
  /\ aBytes = SumOf(AlsoSize, AlsoHeld)
  /\ SumOf(AlsoSize, AlsoAdmitted) <= AlsoBytes

AlsoShed == {o \in AlsoOffers : aOffer[o] = "shed"}

AlsoAnswered ==
  /\ IsFiniteSet(Al!Over)
  /\ SumOf(aResults, Al!Results) = Cardinality(Al!Over)
  /\ aResults["shed"] = Cardinality(AlsoShed)

AlsoInv == Al!TypeOK /\ AlsoPlaced /\ AlsoCounted /\ AlsoAnswered

\* What the constants are.
LEMMA AlsoSizes ==
  ASSUME Al!AlsoConstants
  PROVE  /\ \A o \in AlsoOffers : AlsoSize[o] \in Nat /\ AlsoSize[o] > 0
         /\ TargetDepth \in Nat /\ TargetDepth > 0 /\ AlsoBytes \in Nat /\ AlsoRetries \in Nat
         /\ NoTargetOffer \notin AlsoOffers
BY DEF Al!AlsoConstants

\* The counter is the bytes held, and only those admitted keep to the bound.
LEMMA AlsoHeldType ==
  ASSUME Al!AlsoConstants, Al!TypeOK, AlsoPlaced
  PROVE  /\ AlsoHeld \subseteq AlsoOffers /\ AlsoAdmitted \subseteq AlsoHeld
         /\ Al!InQueue \subseteq AlsoOffers /\ Al!Hands \subseteq AlsoOffers
<1>1. Al!InQueue \subseteq AlsoOffers
  BY DEF Al!TypeOK, Al!InQueue
<1>2. Al!Hands \subseteq AlsoOffers
  BY DEF Al!TypeOK, Al!Hands
<1> QED
  BY <1>1, <1>2 DEF AlsoHeld, AlsoAdmitted, Al!Reserving

\* No step that leaves what is held and admitted alone disturbs the counter, nor
\* does one that only lets something admitted go.
LEMMA AlsoKeeps ==
  ASSUME Al!AlsoConstants, Al!TypeOK, AlsoPlaced, AlsoCounted,
         AlsoHeld' = AlsoHeld, AlsoAdmitted' \subseteq AlsoAdmitted, aBytes' = aBytes
  PROVE  AlsoCounted'
<1>1. AlsoHeld \subseteq AlsoOffers /\ AlsoAdmitted \subseteq AlsoHeld
  BY AlsoHeldType
<1>2. IsFiniteSet(AlsoAdmitted)
  BY <1>1, FS_Subset DEF AlsoCounted
<1>3. \A o \in AlsoAdmitted : AlsoSize[o] \in Nat
  BY <1>1, AlsoSizes
<1>4. SumOf(AlsoSize, AlsoAdmitted') <= SumOf(AlsoSize, AlsoAdmitted)
  BY <1>2, <1>3, SumSubset
<1>5. SumOf(AlsoSize, AlsoAdmitted') \in Nat /\ SumOf(AlsoSize, AlsoAdmitted) \in Nat
  BY <1>2, <1>3, SumNat, FS_Subset
<1> QED
  BY <1>4, <1>5, AlsoSizes DEF AlsoCounted

\* A reservation adds one object's bytes, and admits it if all that is counted
\* with it keeps to the bound.
LEMMA AlsoAdds ==
  ASSUME Al!AlsoConstants, Al!TypeOK, AlsoPlaced, AlsoCounted, NEW o \in AlsoOffers, o \notin AlsoHeld,
         AlsoHeld' = AlsoHeld \cup {o}, aBytes' = aBytes + AlsoSize[o],
         \/ AlsoAdmitted' = AlsoAdmitted
         \/ aBytes + AlsoSize[o] <= AlsoBytes /\ AlsoAdmitted' \subseteq AlsoHeld'
  PROVE  AlsoCounted' /\ aBytes' \in Nat
<1>1. AlsoHeld \subseteq AlsoOffers /\ AlsoAdmitted \subseteq AlsoHeld
  BY AlsoHeldType
<1>2. IsFiniteSet(AlsoHeld')
  BY FS_AddElement DEF AlsoCounted
<1>3. aBytes' = SumOf(AlsoSize, AlsoHeld')
  BY <1>1, AlsoSizes, SumAdd DEF AlsoCounted
<1>4. aBytes \in Nat /\ aBytes' \in Nat
  BY AlsoSizes DEF Al!TypeOK
<1>5. ASSUME aBytes + AlsoSize[o] <= AlsoBytes, AlsoAdmitted' \subseteq AlsoHeld'
      PROVE  SumOf(AlsoSize, AlsoAdmitted') <= AlsoBytes
  <2>1. \A e \in AlsoHeld' : AlsoSize[e] \in Nat
    BY <1>1, AlsoSizes
  <2>2. SumOf(AlsoSize, AlsoAdmitted') <= SumOf(AlsoSize, AlsoHeld')
    BY <1>2, <1>5, <2>1, SumSubset
  <2>3. SumOf(AlsoSize, AlsoAdmitted') \in Nat
    BY <1>2, <1>5, <2>1, SumNat, FS_Subset
  <2> QED
    BY <1>3, <1>4, <1>5, <2>2, <2>3, AlsoSizes
<1> QED
  BY <1>2, <1>3, <1>4, <1>5 DEF AlsoCounted

\* What is given back is one object's bytes.
LEMMA AlsoDrops ==
  ASSUME Al!AlsoConstants, Al!TypeOK, AlsoPlaced, AlsoCounted, NEW o \in AlsoHeld,
         AlsoHeld' = AlsoHeld \ {o}, AlsoAdmitted' \subseteq AlsoAdmitted, aBytes' = aBytes - AlsoSize[o]
  PROVE  AlsoCounted' /\ aBytes' \in Nat
<1>1. AlsoHeld \subseteq AlsoOffers /\ AlsoAdmitted \subseteq AlsoHeld
  BY AlsoHeldType
<1>2. IsFiniteSet(AlsoHeld') /\ IsFiniteSet(AlsoAdmitted)
  BY <1>1, FS_RemoveElement, FS_Subset DEF AlsoCounted
<1>3. SumOf(AlsoSize, AlsoHeld) = SumOf(AlsoSize, AlsoHeld \ {o}) + AlsoSize[o]
  BY <1>1, AlsoSizes, SumRemove DEF AlsoCounted
<1>4. SumOf(AlsoSize, AlsoHeld') \in Nat
  BY <1>1, <1>2, AlsoSizes, SumNat
<1>5. aBytes' = SumOf(AlsoSize, AlsoHeld')
  BY <1>1, <1>3, <1>4, AlsoSizes DEF AlsoCounted
<1>6. \A e \in AlsoAdmitted : AlsoSize[e] \in Nat
  BY <1>1, AlsoSizes
<1>7. SumOf(AlsoSize, AlsoAdmitted') <= SumOf(AlsoSize, AlsoAdmitted)
  BY <1>2, <1>6, SumSubset
<1>8. SumOf(AlsoSize, AlsoAdmitted') \in Nat /\ SumOf(AlsoSize, AlsoAdmitted) \in Nat
  BY <1>2, <1>6, SumNat, FS_Subset
<1> QED
  BY <1>2, <1>4, <1>5, <1>7, <1>8, AlsoSizes DEF AlsoCounted

LEMMA AlsoResults == IsFiniteSet(Al!Results) /\ "shed" \in Al!Results
<1>1. Al!Results = ({"ok"} \cup {"refused"}) \cup ({"error"} \cup {"shed"})
  BY DEF Al!Results
<1> QED
  BY <1>1, FS_Singleton, FS_Union

\* The number of results moves with the offers that are over.
LEMMA AlsoSays ==
  ASSUME AlsoAnswered, Al!Over' = Al!Over, AlsoShed' = AlsoShed, aResults' = aResults
  PROVE  AlsoAnswered'
BY DEF AlsoAnswered

LEMMA AlsoAnswers ==
  ASSUME Al!TypeOK, AlsoAnswered, NEW o, o \notin Al!Over, Al!Over' = Al!Over \cup {o},
         NEW result \in Al!Results, Al!Add(result),
         AlsoShed' = IF result = "shed" THEN AlsoShed \cup {o} ELSE AlsoShed
  PROVE  AlsoAnswered' /\ aResults' \in [Al!Results -> Nat]
<1>1. IsFiniteSet(Al!Results) /\ "shed" \in Al!Results
  BY AlsoResults
<1>2. /\ aResults' \in [Al!Results -> Nat]
      /\ aResults'[result] = aResults[result] + 1
      /\ \A r \in Al!Results : aResults[r] \in Nat
      /\ \A r \in Al!Results \ {result} : aResults'[r] = aResults[r]
  BY DEF Al!TypeOK, Al!Add
<1>0. SumOf(aResults', Al!Results) = SumOf(aResults, Al!Results) + 1
  BY <1>1, <1>2, SumCounts
<1>3. IsFiniteSet(Al!Over') /\ Cardinality(Al!Over') = Cardinality(Al!Over) + 1
  BY FS_AddElement DEF AlsoAnswered
<1>4. AlsoShed \subseteq Al!Over
  BY DEF AlsoShed, Al!Over
<1>5. IsFiniteSet(AlsoShed) /\ o \notin AlsoShed
  BY <1>4, FS_Subset DEF AlsoAnswered
<1>6. aResults'["shed"] = Cardinality(AlsoShed')
  <2>1. CASE result = "shed"
    <3>1. Cardinality(AlsoShed') = Cardinality(AlsoShed) + 1
      BY <1>5, <2>1, FS_AddElement
    <3>2. aResults'["shed"] = aResults["shed"] + 1
      BY <1>1, <2>1 DEF Al!TypeOK, Al!Add
    <3> QED
      BY <3>1, <3>2 DEF AlsoAnswered
  <2>2. CASE result # "shed"
    BY <1>1, <2>2 DEF Al!TypeOK, Al!Add, AlsoAnswered
  <2> QED
    BY <2>1, <2>2
<1> QED
  BY <1>0, <1>2, <1>3, <1>6 DEF AlsoAnswered

\* A step of one call of Offer that moves neither the queue nor a worker.
LEMMA AlsoCallMoves ==
  ASSUME Al!AlsoConstants, Al!TypeOK, AlsoPlaced, NEW o \in AlsoOffers, NEW from, NEW to, Al!OfferTo(o, from, to),
         from \in {"none", "reserve", "put", "undo"}, to \in {"reserve", "put", "undo", "shed"},
         from \in {"put", "undo"} => to \in {"undo", "shed"}, from # to,
         aQ' = aQ, aWork' = aWork
  PROVE  /\ aOffer' \in [AlsoOffers -> {"none", "reserve", "put", "undo", "queued", "shed"}]
         /\ AlsoPlaced'
         /\ Al!InQueue' = Al!InQueue /\ Al!Hands' = Al!Hands
         /\ o \notin Al!InQueue /\ o \notin Al!Hands /\ o \notin Al!Over
         /\ \A p \in AlsoOffers : aOffer'[p] = IF p = o THEN to ELSE aOffer[p]
         /\ Al!Over' = IF to = "shed" THEN Al!Over \cup {o} ELSE Al!Over
         /\ AlsoShed' = IF to = "shed" THEN AlsoShed \cup {o} ELSE AlsoShed
<1>1. /\ aOffer' \in [AlsoOffers -> {"none", "reserve", "put", "undo", "queued", "shed"}]
      /\ \A p \in AlsoOffers : aOffer'[p] = IF p = o THEN to ELSE aOffer[p]
      /\ aOffer[o] = from /\ from # "queued" /\ from # "shed" /\ to # "queued"
  BY DEF Al!TypeOK, Al!OfferTo
<1>2. Al!InQueue' = Al!InQueue /\ Al!Hands' = Al!Hands
  BY DEF Al!InQueue, Al!Hands
<1>3. o \notin Al!InQueue /\ o \notin Al!Hands /\ \A w \in TargetWorker : aWork[w].o # o
  BY <1>1, AlsoSizes DEF AlsoPlaced, Al!InQueue, Al!Hands
<1>4. AlsoPlaced'
  <2>1. \A i \in DOMAIN aQ : aQ[i] \in AlsoOffers /\ aQ[i] # o
    BY <1>3 DEF Al!TypeOK, Al!InQueue
  <2>2. \A i \in DOMAIN aQ' : aOffer'[aQ'[i]] = "queued"
    BY <1>1, <2>1 DEF AlsoPlaced
  <2>3. \A w \in TargetWorker :
          aWork'[w].o # NoTargetOffer => aOffer'[aWork'[w].o] = "queued" /\ aWork'[w].o \notin Al!InQueue'
    BY <1>1, <1>2, <1>3 DEF AlsoPlaced, Al!TypeOK
  <2> QED
    BY <2>2, <2>3 DEF AlsoPlaced
<1>5. Al!Over' = IF to = "shed" THEN Al!Over \cup {o} ELSE Al!Over
  <2>1. \A p \in AlsoOffers : Al!AtWorker(p)' = Al!AtWorker(p)
    BY DEF Al!AtWorker
  <2>2. ASSUME NEW p \in AlsoOffers
        PROVE  p \in Al!Over' <=> p \in Al!Over \/ (p = o /\ to = "shed")
    BY <1>1, <1>2, <2>1 DEF Al!Over
  <2> QED
    BY <2>2 DEF Al!Over
<1>6. AlsoShed' = IF to = "shed" THEN AlsoShed \cup {o} ELSE AlsoShed
  BY <1>1 DEF AlsoShed
<1>7. o \notin Al!Over
  BY <1>1 DEF Al!Over
<1> QED
  BY <1>1, <1>2, <1>3, <1>4, <1>5, <1>6, <1>7

LEMMA AlsoCheckStarted ==
  ASSUME Al!AlsoConstants, AlsoInv, NEW o \in AlsoOffers, Al!CheckStarted(o)
  PROVE  AlsoInv'
<1>1. /\ aQ' = aQ /\ aBytes' = aBytes /\ aWork' = aWork /\ aStarted' = aStarted /\ aDone' = aDone
      /\ \/ Al!OfferTo(o, "none", "reserve") /\ aResults' = aResults
         \/ Al!OfferTo(o, "none", "shed") /\ Al!Add("shed")
  BY DEF Al!CheckStarted, Al!startVars
<1>2. AlsoCounted'
  <2>1. Al!InQueue' = Al!InQueue /\ Al!Hands' = Al!Hands
    BY <1>1 DEF Al!InQueue, Al!Hands
  <2>2. \A p \in AlsoOffers : aOffer'[p] # aOffer[p] => aOffer[p] = "none" /\ aOffer'[p] \in {"reserve", "shed"}
    BY <1>1 DEF Al!OfferTo, AlsoInv, Al!TypeOK
  <2>3. Al!Reserving' = Al!Reserving /\ AlsoAdmitted' = AlsoAdmitted
    BY <2>1, <2>2 DEF Al!Reserving, AlsoAdmitted
  <2> QED
    BY <1>1, <2>1, <2>3, AlsoKeeps DEF AlsoInv, AlsoHeld
<1>3. CASE Al!OfferTo(o, "none", "reserve") /\ aResults' = aResults
  <2>1. /\ AlsoPlaced' /\ Al!Over' = Al!Over /\ AlsoShed' = AlsoShed
        /\ aOffer' \in [AlsoOffers -> {"none", "reserve", "put", "undo", "queued", "shed"}]
    BY <1>1, <1>3, AlsoCallMoves DEF AlsoInv
  <2>2. AlsoAnswered'
    BY <1>3, <2>1, AlsoSays DEF AlsoInv
  <2> QED
    BY <1>1, <1>2, <1>3, <2>1, <2>2 DEF AlsoInv, Al!TypeOK
<1>4. CASE Al!OfferTo(o, "none", "shed") /\ Al!Add("shed")
  <2>1. /\ AlsoPlaced' /\ Al!Over' = Al!Over \cup {o} /\ AlsoShed' = AlsoShed \cup {o} /\ o \notin Al!Over
        /\ aOffer' \in [AlsoOffers -> {"none", "reserve", "put", "undo", "queued", "shed"}]
    BY <1>1, <1>4, AlsoCallMoves DEF AlsoInv
  <2>2. AlsoAnswered' /\ aResults' \in [Al!Results -> Nat]
    BY <1>4, <2>1, AlsoAnswers DEF AlsoInv, Al!Results
  <2> QED
    BY <1>1, <1>2, <2>1, <2>2 DEF AlsoInv, Al!TypeOK
<1> QED
  BY <1>1, <1>3, <1>4

LEMMA AlsoReserve ==
  ASSUME Al!AlsoConstants, AlsoInv, NEW o \in AlsoOffers, Al!Reserve(o)
  PROVE  AlsoInv'
<1> DEFINE to == IF aBytes + AlsoSize[o] > AlsoBytes THEN "undo" ELSE "put"
<1>1. /\ aQ' = aQ /\ aBytes' = aBytes + AlsoSize[o] /\ aWork' = aWork /\ aStarted' = aStarted /\ aDone' = aDone
      /\ Al!OfferTo(o, "reserve", to) /\ aResults' = aResults
  BY DEF Al!Reserve, Al!startVars
<1>2. to \in {"put", "undo"} /\ (to = "put" => ~(aBytes + AlsoSize[o] > AlsoBytes))
  OBVIOUS
<1> HIDE DEF to
<1>3. /\ AlsoPlaced' /\ Al!Over' = Al!Over /\ AlsoShed' = AlsoShed
      /\ Al!InQueue' = Al!InQueue /\ Al!Hands' = Al!Hands /\ o \notin Al!InQueue /\ o \notin Al!Hands
      /\ aOffer' \in [AlsoOffers -> {"none", "reserve", "put", "undo", "queued", "shed"}]
      /\ \A p \in AlsoOffers : aOffer'[p] = IF p = o THEN to ELSE aOffer[p]
  BY <1>1, <1>2, AlsoCallMoves DEF AlsoInv
<1>4. aOffer[o] = "reserve" /\ aBytes \in Nat /\ AlsoSize[o] \in Nat /\ AlsoBytes \in Nat
  BY <1>1, AlsoSizes DEF Al!OfferTo, AlsoInv, Al!TypeOK
<1>5. Al!Reserving' = Al!Reserving \cup {o} /\ o \notin Al!Reserving
  BY <1>2, <1>3, <1>4 DEF Al!Reserving
<1>6. AlsoHeld' = AlsoHeld \cup {o} /\ o \notin AlsoHeld
  BY <1>3, <1>5 DEF AlsoHeld
<1>7. \/ AlsoAdmitted' = AlsoAdmitted
      \/ aBytes + AlsoSize[o] <= AlsoBytes /\ AlsoAdmitted' \subseteq AlsoHeld'
  <2>1. CASE to = "undo"
    BY <1>3, <1>4, <2>1 DEF AlsoAdmitted
  <2>2. CASE to = "put"
    <3>1. AlsoAdmitted' \subseteq AlsoHeld'
      BY DEF AlsoAdmitted, AlsoHeld, Al!Reserving
    <3> QED
      BY <1>2, <1>4, <2>2, <3>1
  <2> QED
    BY <1>2, <2>1, <2>2
<1>8. AlsoCounted' /\ aBytes' \in Nat
  BY <1>1, <1>6, <1>7, AlsoAdds DEF AlsoInv
<1>9. AlsoAnswered'
  BY <1>1, <1>3, AlsoSays DEF AlsoInv
<1> QED
  BY <1>1, <1>3, <1>8, <1>9 DEF AlsoInv, Al!TypeOK

LEMMA AlsoPutFull ==
  ASSUME Al!AlsoConstants, AlsoInv, NEW o \in AlsoOffers, Al!PutFull(o)
  PROVE  AlsoInv'
<1>1. /\ aQ' = aQ /\ aBytes' = aBytes /\ aWork' = aWork /\ aStarted' = aStarted /\ aDone' = aDone
      /\ Al!OfferTo(o, "put", "undo") /\ aResults' = aResults
  BY DEF Al!PutFull, Al!startVars
<1>2. /\ AlsoPlaced' /\ Al!Over' = Al!Over /\ AlsoShed' = AlsoShed
      /\ Al!InQueue' = Al!InQueue /\ Al!Hands' = Al!Hands
      /\ aOffer' \in [AlsoOffers -> {"none", "reserve", "put", "undo", "queued", "shed"}]
      /\ \A p \in AlsoOffers : aOffer'[p] = IF p = o THEN "undo" ELSE aOffer[p]
  BY <1>1, AlsoCallMoves DEF AlsoInv
<1>3. aOffer[o] = "put"
  BY <1>1 DEF Al!OfferTo
<1>4. AlsoHeld' = AlsoHeld
  BY <1>2, <1>3 DEF AlsoHeld, Al!Reserving
<1>5. AlsoAdmitted' \subseteq AlsoAdmitted
  BY <1>2, <1>3 DEF AlsoAdmitted
<1>6. AlsoCounted'
  BY <1>1, <1>4, <1>5, AlsoKeeps DEF AlsoInv
<1>7. AlsoAnswered'
  BY <1>1, <1>2, AlsoSays DEF AlsoInv
<1> QED
  BY <1>1, <1>2, <1>6, <1>7 DEF AlsoInv, Al!TypeOK

LEMMA AlsoUndo ==
  ASSUME Al!AlsoConstants, AlsoInv, NEW o \in AlsoOffers, Al!Undo(o)
  PROVE  AlsoInv'
<1>1. /\ aQ' = aQ /\ aBytes' = aBytes - AlsoSize[o] /\ aWork' = aWork /\ aStarted' = aStarted /\ aDone' = aDone
      /\ Al!OfferTo(o, "undo", "shed") /\ Al!Add("shed")
  BY DEF Al!Undo, Al!startVars
<1>2. /\ AlsoPlaced' /\ Al!Over' = Al!Over \cup {o} /\ AlsoShed' = AlsoShed \cup {o} /\ o \notin Al!Over
      /\ Al!InQueue' = Al!InQueue /\ Al!Hands' = Al!Hands /\ o \notin Al!InQueue /\ o \notin Al!Hands
      /\ aOffer' \in [AlsoOffers -> {"none", "reserve", "put", "undo", "queued", "shed"}]
      /\ \A p \in AlsoOffers : aOffer'[p] = IF p = o THEN "shed" ELSE aOffer[p]
  BY <1>1, AlsoCallMoves DEF AlsoInv
<1>3. aOffer[o] = "undo"
  BY <1>1 DEF Al!OfferTo
<1>4. o \in Al!Reserving /\ Al!Reserving' = Al!Reserving \ {o}
  BY <1>2, <1>3 DEF Al!Reserving
<1>5. o \in AlsoHeld /\ AlsoHeld' = AlsoHeld \ {o}
  BY <1>2, <1>4 DEF AlsoHeld
<1>6. AlsoAdmitted' \subseteq AlsoAdmitted
  BY <1>2, <1>3 DEF AlsoAdmitted
<1>7. AlsoCounted' /\ aBytes' \in Nat
  BY <1>1, <1>5, <1>6, AlsoDrops DEF AlsoInv
<1>8. AlsoAnswered' /\ aResults' \in [Al!Results -> Nat]
  BY <1>1, <1>2, AlsoAnswers DEF AlsoInv, Al!Results
<1> QED
  BY <1>1, <1>2, <1>7, <1>8 DEF AlsoInv, Al!TypeOK

LEMMA AlsoPut ==
  ASSUME Al!AlsoConstants, AlsoInv, NEW o \in AlsoOffers, Al!Put(o)
  PROVE  AlsoInv'
<1>1. /\ aQ' = Append(aQ, o) /\ aBytes' = aBytes /\ aWork' = aWork /\ aStarted' = aStarted /\ aDone' = aDone
      /\ aOffer[o] = "put" /\ aOffer' = [aOffer EXCEPT ![o] = "queued"] /\ aResults' = aResults
      /\ Len(aQ) < TargetDepth
  BY DEF Al!Put, Al!startVars, Al!OfferTo
<1>2. aQ \in Seq(AlsoOffers) /\ aOffer \in [AlsoOffers -> {"none", "reserve", "put", "undo", "queued", "shed"}]
  BY DEF AlsoInv, Al!TypeOK
<1>3. /\ aQ' \in Seq(AlsoOffers) /\ Len(aQ') = Len(aQ) + 1 /\ Len(aQ) \in Nat
      /\ DOMAIN aQ' = 1..(Len(aQ) + 1) /\ DOMAIN aQ = 1..Len(aQ)
      /\ \A i \in DOMAIN aQ : aQ'[i] = aQ[i]
      /\ aQ'[Len(aQ) + 1] = o
      /\ Al!InQueue' = Al!InQueue \cup {o}
  <2> HIDE <1>1
  <2>1. aQ' = Append(aQ, o)
    BY <1>1
  <2> QED
    <3>1. /\ aQ' \in Seq(AlsoOffers) /\ Len(aQ') = Len(aQ) + 1 /\ Len(aQ) \in Nat
          /\ DOMAIN aQ' = 1..(Len(aQ) + 1) /\ DOMAIN aQ = 1..Len(aQ)
          /\ \A i \in DOMAIN aQ : aQ'[i] = aQ[i]
          /\ aQ'[Len(aQ) + 1] = o
          /\ Members(aQ') = Members(aQ) \cup {o}
      <4>1. /\ Append(aQ, o) \in Seq(AlsoOffers) /\ Len(Append(aQ, o)) = Len(aQ) + 1 /\ Len(aQ) \in Nat
            /\ DOMAIN Append(aQ, o) = 1..(Len(aQ) + 1) /\ DOMAIN aQ = 1..Len(aQ)
            /\ \A i \in DOMAIN aQ : Append(aQ, o)[i] = aQ[i]
            /\ Append(aQ, o)[Len(aQ) + 1] = o
            /\ Members(Append(aQ, o)) = Members(aQ) \cup {o}
        BY <1>2, PutLast
      <4> QED
        BY <2>1, <4>1
    <3> QED
      BY <3>1 DEF Al!InQueue, Members
<1>4. /\ aOffer' \in [AlsoOffers -> {"none", "reserve", "put", "undo", "queued", "shed"}]
      /\ \A p \in AlsoOffers : aOffer'[p] = IF p = o THEN "queued" ELSE aOffer[p]
  BY <1>1, <1>2
<1>5. /\ Al!Hands' = Al!Hands /\ \A p \in AlsoOffers : Al!AtWorker(p)' = Al!AtWorker(p)
      /\ o \notin Al!InQueue /\ o \notin Al!Hands /\ \A w \in TargetWorker : aWork[w].o # o
  BY <1>1, AlsoSizes DEF Al!Hands, Al!AtWorker, Al!InQueue, AlsoInv, AlsoPlaced
<1>6. AlsoPlaced'
  <2>1. \A i, j \in DOMAIN aQ' : aQ'[i] = aQ'[j] => i = j
    <3>1. \A i \in DOMAIN aQ : aQ[i] # o
      BY <1>5 DEF Al!InQueue
    <3>2. \A i \in DOMAIN aQ' : i \in DOMAIN aQ \/ i = Len(aQ) + 1
      BY <1>3
    <3> QED
      BY <1>3, <3>1, <3>2 DEF AlsoInv, AlsoPlaced
  <2>2. \A i \in DOMAIN aQ' : aOffer'[aQ'[i]] = "queued"
    <3>1. \A i \in DOMAIN aQ' : i \in DOMAIN aQ \/ i = Len(aQ) + 1
      BY <1>3
    <3>2. \A i \in DOMAIN aQ : aQ[i] \in AlsoOffers /\ aOffer[aQ[i]] = "queued"
      BY <1>2 DEF AlsoInv, AlsoPlaced
    <3> QED
      BY <1>3, <1>4, <3>1, <3>2
  <2>3. \A w \in TargetWorker :
          aWork'[w].o # NoTargetOffer => aOffer'[aWork'[w].o] = "queued" /\ aWork'[w].o \notin Al!InQueue'
    <3>1. \A w \in TargetWorker : aWork[w].o # NoTargetOffer => aWork[w].o \in AlsoOffers
      BY DEF AlsoInv, Al!TypeOK
    <3> QED
      BY <1>1, <1>3, <1>4, <1>5, <3>1 DEF AlsoInv, AlsoPlaced
  <2> QED
    BY <1>1, <2>1, <2>2, <2>3 DEF AlsoInv, AlsoPlaced
<1>7. AlsoCounted'
  <2>1. Al!Reserving = Al!Reserving' \cup {o}
    BY <1>1, <1>4 DEF Al!Reserving
  <2>2. AlsoHeld' = AlsoHeld
    BY <1>3, <1>5, <2>1 DEF AlsoHeld
  <2>3. AlsoAdmitted' \subseteq AlsoAdmitted
    BY <1>1, <1>3, <1>4, <1>5 DEF AlsoAdmitted
  <2> QED
    BY <1>1, <2>2, <2>3, AlsoKeeps DEF AlsoInv
<1>8. Al!Over' = Al!Over /\ AlsoShed' = AlsoShed
  <2>1. ASSUME NEW p \in AlsoOffers PROVE p \in Al!Over' <=> p \in Al!Over
    BY <1>1, <1>3, <1>4, <1>5 DEF Al!Over
  <2>2. AlsoShed' = AlsoShed
    BY <1>1, <1>4 DEF AlsoShed
  <2> QED
    BY <2>1, <2>2 DEF Al!Over
<1>9. AlsoAnswered'
  BY <1>1, <1>8, AlsoSays DEF AlsoInv
<1>10. Al!TypeOK'
  <2>1. Len(aQ') <= TargetDepth
    BY <1>1, <1>3, AlsoSizes
  <2> QED
    BY <1>1, <1>3, <1>4, <2>1 DEF AlsoInv, Al!TypeOK
<1> QED
  BY <1>6, <1>7, <1>9, <1>10 DEF AlsoInv

\* A worker's move: where it is afterwards, and that the others stay.
LEMMA AlsoWorkMoves ==
  ASSUME Al!AlsoConstants, Al!TypeOK, NEW w \in TargetWorker, NEW pc, NEW o, NEW n, Al!WorkTo(w, pc, o, n),
         pc \in {"select", "submit", "backoff", "release", "exit"},
         o \in AlsoOffers \cup {NoTargetOffer}, n \in 0..AlsoRetries
  PROVE  /\ aWork' \in [TargetWorker -> [pc : {"select", "submit", "backoff", "release", "exit"},
                                    o : AlsoOffers \cup {NoTargetOffer}, attempt : 0..AlsoRetries]]
         /\ aWork'[w].pc = pc /\ aWork'[w].o = o /\ aWork'[w].attempt = n
         /\ \A v \in TargetWorker \ {w} : aWork'[v] = aWork[v]
BY DEF Al!TypeOK, Al!WorkTo

\* A worker goes on with the object it has: nothing that is counted changes but,
\* when the object is answered for, its result.
LEMMA AlsoGoesOn ==
  ASSUME Al!AlsoConstants, AlsoInv, NEW w \in TargetWorker, aWork[w].pc \notin Idle,
         NEW pc \in {"submit", "backoff", "release"}, NEW n \in 0..AlsoRetries,
         Al!WorkTo(w, pc, aWork[w].o, n), pc = "backoff" => n < AlsoRetries,
         aOffer' = aOffer, aStarted' = aStarted, aDone' = aDone, aQ' = aQ, aBytes' = aBytes,
         \/ pc # "release" /\ aWork[w].pc # "release" /\ aResults' = aResults
         \/ /\ pc = "release" /\ aWork[w].pc # "release"
            /\ \E result \in Al!Results \ {"shed"} : Al!Add(result)
  PROVE  AlsoInv'
<1> DEFINE o == aWork[w].o
<1>1. o \in AlsoOffers /\ aOffer[o] = "queued" /\ o \notin Al!InQueue
  BY DEF AlsoInv, Al!TypeOK, AlsoPlaced
<1>2. /\ aWork' \in [TargetWorker -> [pc : {"select", "submit", "backoff", "release", "exit"},
                                 o : AlsoOffers \cup {NoTargetOffer}, attempt : 0..AlsoRetries]]
      /\ aWork'[w].pc = pc /\ aWork'[w].o = o /\ aWork'[w].attempt = n
      /\ \A v \in TargetWorker \ {w} : aWork'[v] = aWork[v]
  BY <1>1, AlsoWorkMoves DEF AlsoInv
<1> HIDE DEF o
<1>3. o = aWork[w].o
  BY DEF o
<1>4. Al!InQueue' = Al!InQueue /\ Al!Hands' = Al!Hands /\ Al!Reserving' = Al!Reserving
  <2>1. \A v \in TargetWorker : aWork'[v].o = aWork[v].o
    BY <1>2, <1>3
  <2> QED
    BY <2>1 DEF Al!InQueue, Al!Hands, Al!Reserving
<1>5. AlsoPlaced'
  <2>1. \A v \in TargetWorker :
          /\ aWork'[v].o = aWork[v].o
          /\ aWork'[v].pc \in Idle <=> aWork[v].pc \in Idle
          /\ aWork'[v].pc = "backoff" => aWork'[v].attempt < AlsoRetries
    BY <1>2, <1>3 DEF AlsoInv, AlsoPlaced, Idle
  <2> QED
    BY <1>4, <2>1 DEF AlsoInv, AlsoPlaced
<1>6. AlsoCounted'
  <2>1. AlsoHeld' = AlsoHeld /\ AlsoAdmitted' = AlsoAdmitted
    BY <1>4 DEF AlsoHeld, AlsoAdmitted
  <2> QED
    BY <2>1, AlsoKeeps DEF AlsoInv
<1>7. AlsoShed' = AlsoShed
  BY DEF AlsoShed
<1>8. \A p \in AlsoOffers : Al!AtWorker(p)' = Al!AtWorker(p)
  BY <1>2, <1>3 DEF Al!AtWorker
<1>9. Al!AtWorker(o) = {w}
  BY <1>1, <1>3, AlsoSizes DEF Al!AtWorker, AlsoInv, AlsoPlaced
<1>10. \A p \in AlsoOffers : p # o => \A v \in Al!AtWorker(p) : aWork'[v] = aWork[v]
  BY <1>2, <1>3 DEF Al!AtWorker
<1>11. \A p \in AlsoOffers : p # o => (p \in Al!Over' <=> p \in Al!Over)
  BY <1>4, <1>8, <1>10 DEF Al!Over
<1>12. o \notin Al!Over /\ (o \in Al!Over' <=> pc = "release")
  <2>1. o \in Al!Over <=> aWork[w].pc = "release"
    BY <1>1, <1>9 DEF Al!Over
  <2>2. o \in Al!Over' <=> pc = "release"
    BY <1>1, <1>2, <1>4, <1>8, <1>9 DEF Al!Over
  <2> QED
    BY <2>1, <2>2
<1>13. AlsoAnswered' /\ aResults' \in [Al!Results -> Nat]
  <2>1. CASE pc # "release" /\ aResults' = aResults
    <3>1. Al!Over' = Al!Over
      BY <1>1, <1>11, <1>12, <2>1 DEF Al!Over
    <3> QED
      BY <1>7, <2>1, <3>1, AlsoSays DEF AlsoInv, Al!TypeOK
  <2>2. ASSUME pc = "release", NEW result \in Al!Results \ {"shed"}, Al!Add(result)
        PROVE  AlsoAnswered' /\ aResults' \in [Al!Results -> Nat]
    <3>1. Al!Over' = Al!Over \cup {o}
      BY <1>1, <1>11, <1>12, <2>2 DEF Al!Over
    <3> QED
      BY <1>7, <1>12, <2>2, <3>1, AlsoAnswers DEF AlsoInv
  <2> QED
    BY <2>1, <2>2
<1> QED
  BY <1>2, <1>5, <1>6, <1>13 DEF AlsoInv, Al!TypeOK

LEMMA AlsoReceive ==
  ASSUME Al!AlsoConstants, AlsoInv, NEW w \in TargetWorker, Al!Receive(w)
  PROVE  AlsoInv'
<1>1. /\ aWork[w].pc = "select" /\ aQ # <<>> /\ Al!WorkTo(w, "submit", Head(aQ), 0) /\ aQ' = Tail(aQ)
      /\ aOffer' = aOffer /\ aBytes' = aBytes /\ aResults' = aResults /\ aStarted' = aStarted /\ aDone' = aDone
  BY DEF Al!Receive, Al!startVars
<1>2. aQ \in Seq(AlsoOffers) /\ \A i, j \in DOMAIN aQ : aQ[i] = aQ[j] => i = j
  BY DEF AlsoInv, Al!TypeOK, AlsoPlaced
<1>3. /\ Head(aQ) \in Al!InQueue /\ Head(aQ) \in AlsoOffers /\ Head(aQ) = aQ[1] /\ 1 \in DOMAIN aQ
      /\ aQ' \in Seq(AlsoOffers) /\ Len(aQ') = Len(aQ) - 1 /\ Len(aQ) \in Nat
      /\ DOMAIN aQ = 1..Len(aQ) /\ DOMAIN aQ' = 1..(Len(aQ) - 1)
      /\ \A i \in DOMAIN aQ' : i + 1 \in DOMAIN aQ /\ aQ'[i] = aQ[i + 1]
      /\ Al!InQueue' = Al!InQueue \ {Head(aQ)}
  <2>1. aQ # <<>> /\ aQ' = Tail(aQ)
    BY <1>1
  <2>2. /\ Head(aQ) \in Members(aQ) /\ Head(aQ) \in AlsoOffers /\ Head(aQ) = aQ[1] /\ 1 \in DOMAIN aQ
        /\ aQ' \in Seq(AlsoOffers) /\ Len(aQ') = Len(aQ) - 1 /\ Len(aQ) \in Nat
        /\ DOMAIN aQ = 1..Len(aQ) /\ DOMAIN aQ' = 1..(Len(aQ) - 1)
        /\ \A i \in DOMAIN aQ' : i + 1 \in DOMAIN aQ /\ aQ'[i] = aQ[i + 1]
        /\ Members(aQ') = Members(aQ) \ {Head(aQ)}
    <3>1. /\ Head(aQ) \in Members(aQ) /\ Head(aQ) \in AlsoOffers /\ Head(aQ) = aQ[1] /\ 1 \in DOMAIN aQ
          /\ Tail(aQ) \in Seq(AlsoOffers) /\ Len(Tail(aQ)) = Len(aQ) - 1 /\ Len(aQ) \in Nat
          /\ DOMAIN aQ = 1..Len(aQ) /\ DOMAIN Tail(aQ) = 1..(Len(aQ) - 1)
          /\ \A i \in DOMAIN Tail(aQ) : i + 1 \in DOMAIN aQ /\ Tail(aQ)[i] = aQ[i + 1]
          /\ Members(Tail(aQ)) = Members(aQ) \ {Head(aQ)}
      BY <1>2, <2>1, TakeFirst
    <3> QED
      BY <2>1, <3>1
  <2> QED
    BY <2>2 DEF Al!InQueue, Members
<1>0. PICK o : o = Head(aQ)
  OBVIOUS
<1>4. /\ aWork' \in [TargetWorker -> [pc : {"select", "submit", "backoff", "release", "exit"},
                                 o : AlsoOffers \cup {NoTargetOffer}, attempt : 0..AlsoRetries]]
      /\ aWork'[w].pc = "submit" /\ aWork'[w].o = o /\ aWork'[w].attempt = 0
      /\ \A v \in TargetWorker \ {w} : aWork'[v] = aWork[v]
  <2>1. 0 \in 0..AlsoRetries
    BY AlsoSizes
  <2> QED
    BY <1>0, <1>1, <1>3, <2>1, AlsoWorkMoves DEF AlsoInv
<1>5. aWork[w].o = NoTargetOffer /\ aOffer[o] = "queued" /\ \A v \in TargetWorker : aWork[v].o # o
  BY <1>0, <1>1, <1>3, AlsoSizes DEF AlsoInv, AlsoPlaced, Idle
<1>13. o \in Al!InQueue /\ o \in AlsoOffers /\ Al!InQueue' = Al!InQueue \ {o}
  BY <1>0, <1>3
<1>6. Al!Hands' = Al!Hands \cup {o}
  <2>1. o # NoTargetOffer
    BY <1>13, AlsoSizes
  <2> QED
    BY <1>4, <1>5, <2>1 DEF Al!Hands
<1>7. Al!Reserving' = Al!Reserving
  BY <1>1 DEF Al!Reserving
<1>8. AlsoCounted'
  <2>1. AlsoHeld' = AlsoHeld /\ AlsoAdmitted' = AlsoAdmitted
    BY <1>13, <1>1, <1>6, <1>7 DEF AlsoHeld, AlsoAdmitted
  <2> QED
    BY <1>1, <2>1, AlsoKeeps DEF AlsoInv
<1>9. AlsoPlaced'
  <2>1. \A i, j \in DOMAIN aQ' : aQ'[i] = aQ'[j] => i = j
    BY <1>2, <1>3
  <2>2. \A i \in DOMAIN aQ' : aOffer'[aQ'[i]] = "queued"
    BY <1>1, <1>3 DEF AlsoInv, AlsoPlaced
  <2>3. \A v \in TargetWorker :
          /\ aWork'[v].pc \in Idle <=> aWork'[v].o = NoTargetOffer
          /\ aWork'[v].o # NoTargetOffer => aOffer'[aWork'[v].o] = "queued" /\ aWork'[v].o \notin Al!InQueue'
          /\ aWork'[v].pc = "backoff" => aWork'[v].attempt < AlsoRetries
    BY <1>13, <1>1, <1>4, <1>5, AlsoSizes DEF AlsoInv, AlsoPlaced, Idle
  <2>4. \A u, v \in TargetWorker : aWork'[u].o = aWork'[v].o /\ aWork'[u].o # NoTargetOffer => u = v
    BY <1>4, <1>5 DEF AlsoInv, AlsoPlaced
  <2> QED
    BY <2>1, <2>2, <2>3, <2>4 DEF AlsoPlaced
<1>10. Al!Over' = Al!Over /\ AlsoShed' = AlsoShed
  <2>1. ASSUME NEW p \in AlsoOffers, p # o PROVE p \in Al!Over' <=> p \in Al!Over
    <3>1. Al!AtWorker(p)' = Al!AtWorker(p) /\ \A v \in Al!AtWorker(p) : aWork'[v] = aWork[v]
      BY <1>4, <1>5, <2>1, AlsoSizes DEF Al!AtWorker
    <3> QED
      BY <1>13, <1>1, <2>1, <3>1 DEF Al!Over
  <2>2. o \notin Al!Over
    BY <1>13, <1>5 DEF Al!Over
  <2>3. o \notin Al!Over'
    <3>1. w \in Al!AtWorker(o)' /\ aOffer'[o] = "queued" /\ aWork'[w].pc = "submit"
      BY <1>1, <1>4, <1>5 DEF Al!AtWorker
    <3> QED
      BY <3>1 DEF Al!Over
  <2>4. Al!Over' \subseteq AlsoOffers /\ Al!Over \subseteq AlsoOffers
    BY DEF Al!Over
  <2>5. Al!Over' = Al!Over
    BY <2>1, <2>2, <2>3, <2>4
  <2>6. AlsoShed' = AlsoShed
    BY <1>1 DEF AlsoShed
  <2> QED
    BY <2>5, <2>6
<1>11. AlsoAnswered'
  BY <1>1, <1>10, AlsoSays DEF AlsoInv
<1>12. Al!TypeOK'
  <2>1. Len(aQ') <= TargetDepth
    BY <1>3, AlsoSizes DEF AlsoInv, Al!TypeOK
  <2> QED
    BY <1>1, <1>3, <1>4, <2>1 DEF AlsoInv, Al!TypeOK
<1> QED
  BY <1>8, <1>9, <1>11, <1>12 DEF AlsoInv

LEMMA AlsoRelease ==
  ASSUME Al!AlsoConstants, AlsoInv, NEW w \in TargetWorker, Al!Release(w)
  PROVE  AlsoInv'
<1>1. /\ aWork[w].pc = "release" /\ aBytes' = aBytes - AlsoSize[aWork[w].o]
      /\ aWork' = [aWork EXCEPT ![w] = Al!IdleWorker]
      /\ aOffer' = aOffer /\ aQ' = aQ /\ aResults' = aResults /\ aStarted' = aStarted /\ aDone' = aDone
  BY DEF Al!Release, Al!startVars
<1>0. PICK o : o = aWork[w].o
  OBVIOUS
<1>2. o \in AlsoOffers /\ aOffer[o] = "queued" /\ o \notin Al!InQueue
  BY <1>0, <1>1 DEF AlsoInv, Al!TypeOK, AlsoPlaced, Idle
<1>3. /\ aWork' \in [TargetWorker -> [pc : {"select", "submit", "backoff", "release", "exit"},
                                 o : AlsoOffers \cup {NoTargetOffer}, attempt : 0..AlsoRetries]]
      /\ aWork'[w].pc = "select" /\ aWork'[w].o = NoTargetOffer /\ aWork'[w].attempt = 0
      /\ \A v \in TargetWorker \ {w} : aWork'[v] = aWork[v]
  <2>1. 0 \in 0..AlsoRetries
    BY AlsoSizes
  <2>2. Al!IdleWorker \in [pc : {"select", "submit", "backoff", "release", "exit"},
                          o : AlsoOffers \cup {NoTargetOffer}, attempt : 0..AlsoRetries]
    BY <2>1 DEF Al!IdleWorker
  <2>3. Al!IdleWorker.pc = "select" /\ Al!IdleWorker.o = NoTargetOffer /\ Al!IdleWorker.attempt = 0
    BY DEF Al!IdleWorker
  <2> QED
    BY <1>1, <2>2, <2>3 DEF AlsoInv, Al!TypeOK
<1>4. \A v \in TargetWorker : v # w => aWork[v].o # o
  BY <1>0, <1>2, AlsoSizes DEF AlsoInv, AlsoPlaced
<1>5. /\ Al!InQueue' = Al!InQueue /\ Al!Reserving' = Al!Reserving
      /\ Al!Hands' = Al!Hands \ {o} /\ o \in Al!Hands
  <2>1. o # NoTargetOffer
    BY <1>2, AlsoSizes
  <2>2. Al!InQueue' = Al!InQueue /\ Al!Reserving' = Al!Reserving
    BY <1>1 DEF Al!InQueue, Al!Reserving
  <2>3. Al!Hands' = Al!Hands \ {o} /\ o \in Al!Hands
    BY <1>0, <1>3, <1>4, <2>1 DEF Al!Hands
  <2> QED
    BY <2>2, <2>3
<1>6. AlsoCounted' /\ aBytes' \in Nat
  <2>1. o \in AlsoHeld /\ o \notin Al!Reserving
    BY <1>2, <1>5 DEF AlsoHeld, Al!Reserving
  <2>2. AlsoHeld' = AlsoHeld \ {o} /\ AlsoAdmitted' \subseteq AlsoAdmitted
    BY <1>1, <1>2, <1>5, <2>1 DEF AlsoHeld, AlsoAdmitted
  <2> QED
    BY <1>0, <1>1, <2>1, <2>2, AlsoDrops DEF AlsoInv
<1>7. AlsoPlaced'
  <2>1. \A v \in TargetWorker :
          /\ aWork'[v].pc \in Idle <=> aWork'[v].o = NoTargetOffer
          /\ aWork'[v].o # NoTargetOffer => aOffer'[aWork'[v].o] = "queued" /\ aWork'[v].o \notin Al!InQueue'
          /\ aWork'[v].pc = "backoff" => aWork'[v].attempt < AlsoRetries
    BY <1>1, <1>3, <1>5 DEF AlsoInv, AlsoPlaced, Idle
  <2>2. \A u, v \in TargetWorker : aWork'[u].o = aWork'[v].o /\ aWork'[u].o # NoTargetOffer => u = v
    BY <1>3 DEF AlsoInv, AlsoPlaced
  <2> QED
    BY <1>1, <2>1, <2>2 DEF AlsoInv, AlsoPlaced
<1>8. Al!Over' = Al!Over /\ AlsoShed' = AlsoShed
  <2>1. ASSUME NEW p \in AlsoOffers, p # o PROVE p \in Al!Over' <=> p \in Al!Over
    <3>1. Al!AtWorker(p)' = Al!AtWorker(p) /\ \A v \in Al!AtWorker(p) : aWork'[v] = aWork[v]
      BY <1>0, <1>3, <2>1, AlsoSizes DEF Al!AtWorker
    <3> QED
      BY <1>1, <1>5, <3>1 DEF Al!Over
  <2>2. o \in Al!Over
    <3>1. \A v \in Al!AtWorker(o) : aWork[v].pc = "release"
      BY <1>1, <1>4 DEF Al!AtWorker
    <3> QED
      BY <1>2, <3>1 DEF Al!Over
  <2>3. o \in Al!Over'
    <3>1. \A v \in TargetWorker : aWork'[v].o # o
      BY <1>2, <1>3, <1>4, AlsoSizes
    <3> QED
      BY <1>1, <1>2, <1>5, <3>1 DEF Al!Over, Al!AtWorker
  <2>4. Al!Over' = Al!Over
    <3>1. Al!Over' \subseteq AlsoOffers /\ Al!Over \subseteq AlsoOffers
      BY DEF Al!Over
    <3> QED BY <2>1, <2>2, <2>3, <3>1
  <2>5. AlsoShed' = AlsoShed
    BY <1>1 DEF AlsoShed
  <2> QED
    BY <2>4, <2>5
<1>9. AlsoAnswered'
  BY <1>1, <1>8, AlsoSays DEF AlsoInv
<1> QED
  BY <1>1, <1>3, <1>6, <1>7, <1>9 DEF AlsoInv, Al!TypeOK

LEMMA AlsoWorkerExit ==
  ASSUME Al!AlsoConstants, AlsoInv, NEW w \in TargetWorker, Al!WorkerExit(w)
  PROVE  AlsoInv'
<1>1. /\ aWork[w].pc = "select" /\ aWork' = [aWork EXCEPT ![w].pc = "exit"]
      /\ aOffer' = aOffer /\ aQ' = aQ /\ aBytes' = aBytes /\ aResults' = aResults
      /\ aStarted' = aStarted /\ aDone' = aDone
  BY DEF Al!WorkerExit, Al!startVars
<1>2. /\ aWork' \in [TargetWorker -> [pc : {"select", "submit", "backoff", "release", "exit"},
                                 o : AlsoOffers \cup {NoTargetOffer}, attempt : 0..AlsoRetries]]
      /\ aWork'[w].pc = "exit" /\ aWork'[w].o = aWork[w].o
      /\ \A v \in TargetWorker \ {w} : aWork'[v] = aWork[v]
  BY <1>1 DEF AlsoInv, Al!TypeOK
<1>3. aWork[w].o = NoTargetOffer /\ \A v \in TargetWorker : aWork'[v].o = aWork[v].o
  BY <1>1, <1>2 DEF AlsoInv, AlsoPlaced, Idle
<1>4. Al!InQueue' = Al!InQueue /\ Al!Hands' = Al!Hands /\ Al!Reserving' = Al!Reserving
  BY <1>1, <1>3 DEF Al!InQueue, Al!Hands, Al!Reserving
<1>5. AlsoCounted'
  <2>1. AlsoHeld' = AlsoHeld /\ AlsoAdmitted' = AlsoAdmitted
    BY <1>1, <1>4 DEF AlsoHeld, AlsoAdmitted
  <2> QED
    BY <1>1, <2>1, AlsoKeeps DEF AlsoInv
<1>6. AlsoPlaced'
  <2>1. \A v \in TargetWorker :
          /\ aWork'[v].pc \in Idle <=> aWork[v].pc \in Idle
          /\ aWork'[v].pc = "backoff" => aWork'[v].attempt < AlsoRetries
    BY <1>1, <1>2 DEF AlsoInv, AlsoPlaced, Idle
  <2> QED
    BY <1>1, <1>3, <1>4, <2>1 DEF AlsoInv, AlsoPlaced
<1>7. Al!Over' = Al!Over
  <2>1. ASSUME NEW p \in AlsoOffers
        PROVE  Al!AtWorker(p)' = Al!AtWorker(p) /\ \A v \in Al!AtWorker(p) : aWork'[v] = aWork[v]
    BY <1>2, <1>3, AlsoSizes DEF Al!AtWorker
  <2>2. ASSUME NEW p \in AlsoOffers PROVE p \in Al!Over' <=> p \in Al!Over
    BY <1>1, <1>4, <2>1 DEF Al!Over
  <2> QED
    BY <2>2 DEF Al!Over
<1>8. AlsoShed' = AlsoShed
  BY <1>1 DEF AlsoShed
<1>9. AlsoAnswered'
  BY <1>1, <1>7, <1>8, AlsoSays DEF AlsoInv
<1> QED
  BY <1>1, <1>2, <1>5, <1>6, <1>9 DEF AlsoInv, Al!TypeOK

\* A step of Start, or none, touches no offer and no worker.
LEMMA AlsoStands ==
  ASSUME AlsoInv, aOffer' = aOffer, aQ' = aQ, aBytes' = aBytes, aWork' = aWork, aResults' = aResults,
         aStarted' \in BOOLEAN, aDone' \in BOOLEAN
  PROVE  AlsoInv'
<1>1. /\ Al!InQueue' = Al!InQueue /\ Al!Hands' = Al!Hands /\ Al!Reserving' = Al!Reserving
      /\ AlsoShed' = AlsoShed /\ \A p \in AlsoOffers : Al!AtWorker(p)' = Al!AtWorker(p)
  BY DEF Al!InQueue, Al!Hands, Al!Reserving, AlsoShed, Al!AtWorker
<1>2. Al!TypeOK'
  BY DEF AlsoInv, Al!TypeOK
<1>3. AlsoPlaced'
  BY <1>1 DEF AlsoInv, AlsoPlaced
<1>4. AlsoHeld' = AlsoHeld /\ AlsoAdmitted' = AlsoAdmitted
  BY <1>1 DEF AlsoHeld, AlsoAdmitted
<1>5. AlsoCounted'
  BY <1>4 DEF AlsoInv, AlsoCounted
<1>6. Al!Over' = Al!Over
  BY <1>1 DEF Al!Over
<1>7. AlsoAnswered'
  BY <1>1, <1>6, AlsoSays DEF AlsoInv
<1> QED
  BY <1>2, <1>3, <1>5, <1>7 DEF AlsoInv

\* A worker that has asked the target goes on by one of these.
LEMMA AlsoBooks ==
  ASSUME Al!AlsoConstants, AlsoInv, NEW w \in TargetWorker, aWork[w].pc \in {"submit", "backoff"},
         NEW result \in {"ok", "refused", "error"}, Al!Book(w, result)
  PROVE  AlsoInv'
<1>1. /\ Al!WorkTo(w, "release", aWork[w].o, 0) /\ Al!Add(result)
      /\ aOffer' = aOffer /\ aStarted' = aStarted /\ aDone' = aDone /\ aQ' = aQ /\ aBytes' = aBytes
  BY DEF Al!Book, Al!startVars
<1>2. 0 \in 0..AlsoRetries
  BY AlsoSizes
<1>3. result \in Al!Results \ {"shed"}
  BY DEF Al!Results
<1>4. aWork[w].pc \notin Idle
  BY DEF Idle
<1> QED
  BY <1>1, <1>2, <1>3, <1>4, AlsoGoesOn

LEMMA AlsoTries ==
  ASSUME Al!AlsoConstants, AlsoInv, NEW w \in TargetWorker,
         Al!SubmitOK(w) \/ Al!SubmitRefused(w) \/ Al!SubmitFail(w) \/ Al!BackoffEnd(w) \/ Al!BackoffCut(w)
  PROVE  AlsoInv'
<1>0. aWork[w].attempt \in 0..AlsoRetries /\ AlsoRetries \in Nat
  BY AlsoSizes DEF AlsoInv, Al!TypeOK
<1>1. CASE Al!SubmitOK(w)
  BY <1>1, AlsoBooks DEF Al!SubmitOK
<1>2. CASE Al!SubmitRefused(w)
  BY <1>2, AlsoBooks DEF Al!SubmitRefused
<1>3. CASE Al!BackoffCut(w)
  BY <1>3, AlsoBooks DEF Al!BackoffCut
<1>4. CASE Al!SubmitFail(w)
  <2>1. CASE aWork[w].attempt >= AlsoRetries \/ aDone
    BY <1>4, <2>1, AlsoBooks DEF Al!SubmitFail
  <2>2. CASE ~(aWork[w].attempt >= AlsoRetries \/ aDone)
    <3>1. /\ aWork[w].pc = "submit" /\ Al!WorkTo(w, "backoff", aWork[w].o, aWork[w].attempt)
          /\ aOffer' = aOffer /\ aStarted' = aStarted /\ aDone' = aDone /\ aQ' = aQ /\ aBytes' = aBytes
          /\ aResults' = aResults
      BY <1>4, <2>2 DEF Al!SubmitFail, Al!startVars
    <3>2. aWork[w].attempt < AlsoRetries /\ aWork[w].pc \notin Idle
      BY <1>0, <2>2, <3>1 DEF Idle
    <3> QED
      BY <1>0, <3>1, <3>2, AlsoGoesOn
  <2> QED
    BY <2>1, <2>2
<1>5. CASE Al!BackoffEnd(w)
  <2>1. /\ aWork[w].pc = "backoff" /\ Al!WorkTo(w, "submit", aWork[w].o, aWork[w].attempt + 1)
        /\ aOffer' = aOffer /\ aStarted' = aStarted /\ aDone' = aDone /\ aQ' = aQ /\ aBytes' = aBytes
        /\ aResults' = aResults
    BY <1>5 DEF Al!BackoffEnd, Al!startVars
  <2>2. aWork[w].attempt + 1 \in 0..AlsoRetries /\ aWork[w].pc \notin Idle
    BY <1>0, <2>1 DEF AlsoInv, AlsoPlaced, Idle
  <2> QED
    BY <2>1, <2>2, AlsoGoesOn
<1> QED
  BY <1>1, <1>2, <1>3, <1>4, <1>5

LEMMA AlsoNext ==
  ASSUME Al!AlsoConstants, AlsoInv, Al!Next
  PROVE  AlsoInv'
<1>1. ASSUME NEW o \in AlsoOffers, Al!CheckStarted(o) \/ Al!OfferStep(o) PROVE AlsoInv'
  BY <1>1, AlsoCheckStarted, AlsoReserve, AlsoPut, AlsoPutFull, AlsoUndo DEF Al!OfferStep
<1>2. ASSUME NEW w \in TargetWorker, Al!WorkStep(w) PROVE AlsoInv'
  BY <1>2, AlsoReceive, AlsoTries, AlsoRelease, AlsoWorkerExit DEF Al!WorkStep
<1>3. CASE Al!StartBegin \/ Al!Stop \/ Al!StartReturn
  <2>1. /\ aOffer' = aOffer /\ aQ' = aQ /\ aBytes' = aBytes /\ aWork' = aWork /\ aResults' = aResults
        /\ aStarted' \in BOOLEAN /\ aDone' \in BOOLEAN
    BY <1>3 DEF Al!StartBegin, Al!Stop, Al!StartReturn, AlsoInv, Al!TypeOK
  <2> QED
    BY <2>1, AlsoStands
<1> QED
  BY <1>1, <1>2, <1>3 DEF Al!Next

LEMMA AlsoInit == ASSUME Al!AlsoConstants, Al!Init PROVE AlsoInv
<1>1. /\ aOffer = [o \in AlsoOffers |-> "none"] /\ aStarted = FALSE /\ aDone = FALSE
      /\ aQ = <<>> /\ aBytes = 0 /\ aWork = [w \in TargetWorker |-> Al!IdleWorker]
      /\ aResults = [r \in Al!Results |-> 0]
  BY DEF Al!Init
<1>2. Al!IdleWorker.pc = "select" /\ Al!IdleWorker.o = NoTargetOffer /\ Al!IdleWorker.attempt = 0
  BY DEF Al!IdleWorker
<1>3. Al!TypeOK
  <2>1. Al!IdleWorker \in [pc : {"select", "submit", "backoff", "release", "exit"},
                          o : AlsoOffers \cup {NoTargetOffer}, attempt : 0..AlsoRetries]
    BY AlsoSizes DEF Al!IdleWorker
  <2>2. aQ \in Seq(AlsoOffers) /\ Len(aQ) <= TargetDepth
    BY <1>1, AlsoSizes
  <2> QED
    BY <1>1, <2>1, <2>2 DEF Al!TypeOK
<1>4. DOMAIN aQ = {}
  BY <1>1
<1>5. AlsoPlaced
  BY <1>1, <1>2, <1>4 DEF AlsoPlaced, Idle
<1>6. Al!InQueue = {} /\ Al!Hands = {} /\ Al!Reserving = {}
  BY <1>1, <1>2, <1>4 DEF Al!InQueue, Al!Hands, Al!Reserving
<1>7. AlsoHeld = {} /\ AlsoAdmitted = {}
  BY <1>1, <1>6 DEF AlsoHeld, AlsoAdmitted
<1>8. AlsoCounted
  BY <1>1, <1>7, SumEmpty, FS_EmptySet, AlsoSizes DEF AlsoCounted
<1>9. Al!Over = {} /\ AlsoShed = {}
  BY <1>1 DEF Al!Over, AlsoShed
<1>10. SumOf(aResults, Al!Results) = 0
  <2>1. IsFiniteSet(Al!Results)
    BY AlsoResults
  <2>2. \A r \in Al!Results : aResults[r] = 0
    BY <1>1
  <2> QED
    BY <2>1, <2>2, SumZeros
<1>11. AlsoAnswered
  <2>1. aResults["shed"] = 0
    BY <1>1 DEF Al!Results
  <2> QED
    BY <1>9, <1>10, <2>1, FS_EmptySet DEF AlsoAnswered
<1> QED
  BY <1>3, <1>5, <1>8, <1>11 DEF AlsoInv

\* An instance has the library's operators under names of its own.
LEMMA AlsoLibrary ==
  /\ \A S : Al!Cardinality(S) = Cardinality(S)
  /\ \A S : Al!SizeOf(S) = SumOf(AlsoSize, S)
<1>1. \A S : Al!Cardinality(S) = Cardinality(S)
  BY DEF Al!Cardinality, Cardinality
<1>2. \A S : Al!SizeOf(S) = SumOf(AlsoSize, S)
  BY DEF Al!SizeOf, SumOf, Al!MapThenSumSet, MapThenSumSet, Al!MapThenFoldSet, MapThenFoldSet
<1> QED
  BY <1>1, <1>2

LEMMA AlsoHolds == ASSUME Al!AlsoConstants, AlsoInv PROVE Al!BytesAccounted /\ Al!OffersCounted
<1>1. Al!BytesAccounted
  <2>1. AlsoHeld \subseteq AlsoOffers /\ AlsoAdmitted \subseteq AlsoHeld
    BY AlsoHeldType DEF AlsoInv
  <2>2. IsFiniteSet(AlsoAdmitted) /\ IsFiniteSet(Al!InQueue \cup Al!Hands) /\ Al!InQueue \cup Al!Hands \subseteq AlsoAdmitted
    <3>1. Al!InQueue \cup Al!Hands \subseteq AlsoAdmitted
      BY DEF AlsoAdmitted
    <3> QED
      BY <2>1, <3>1, FS_Subset DEF AlsoInv, AlsoCounted
  <2>3. \A o \in AlsoAdmitted : AlsoSize[o] \in Nat
    BY <2>1, AlsoSizes
  <2>4. SumOf(AlsoSize, Al!InQueue \cup Al!Hands) <= SumOf(AlsoSize, AlsoAdmitted)
    BY <2>2, <2>3, SumSubset
  <2>5. SumOf(AlsoSize, Al!InQueue \cup Al!Hands) \in Nat /\ SumOf(AlsoSize, AlsoAdmitted) \in Nat
    <3>1. \A o \in Al!InQueue \cup Al!Hands : AlsoSize[o] \in Nat
      BY <2>2, <2>3
    <3> QED
      BY <2>2, <2>3, <3>1, SumNat
  <2>6. SumOf(AlsoSize, Al!InQueue \cup Al!Hands) <= AlsoBytes
    BY <2>4, <2>5, AlsoSizes DEF AlsoInv, AlsoCounted
  <2>7. aBytes = SumOf(AlsoSize, Al!InQueue \cup Al!Hands \cup Al!Reserving)
    BY DEF AlsoInv, AlsoCounted, AlsoHeld
  <2>8. \A S : Al!SizeOf(S) = SumOf(AlsoSize, S)
    BY AlsoLibrary
  <2> QED
    BY <2>6, <2>7, <2>8 DEF Al!BytesAccounted, AlsoInv
<1>2. ASSUME NEW o \in AlsoOffers
      PROVE  /\ Cardinality({i \in DOMAIN aQ : aQ[i] = o}) + Cardinality(Al!AtWorker(o)) <= 1
             /\ o \in Al!InQueue \cup Al!Hands => aOffer[o] = "queued"
  <2> DEFINE I == {i \in DOMAIN aQ : aQ[i] = o}
  <2>1. CASE o \in Al!InQueue
    <3>1. PICK i \in DOMAIN aQ : aQ[i] = o
      BY <2>1 DEF Al!InQueue
    <3>2. I = {i}
      BY <3>1 DEF AlsoInv, AlsoPlaced
    <3>3. Al!AtWorker(o) = {}
      BY <2>1, AlsoSizes DEF Al!AtWorker, AlsoInv, AlsoPlaced
    <3>4. aOffer[o] = "queued"
      BY <3>1 DEF AlsoInv, AlsoPlaced
    <3> HIDE DEF I
    <3>5. Cardinality(I) = 1 /\ Cardinality(Al!AtWorker(o)) = 0
      BY <3>2, <3>3, FS_EmptySet, FS_Singleton
    <3> QED
      BY <3>4, <3>5 DEF I
  <2>2. CASE o \notin Al!InQueue
    <3>1. I = {}
      BY <2>2 DEF Al!InQueue
    <3>2. \A v, w \in Al!AtWorker(o) : v = w
      BY AlsoSizes DEF Al!AtWorker, AlsoInv, AlsoPlaced
    <3>3. Al!AtWorker(o) = {} \/ \E w : Al!AtWorker(o) = {w}
      BY <3>2
    <3>4. o \in Al!Hands => aOffer[o] = "queued"
      BY AlsoSizes DEF Al!Hands, AlsoInv, AlsoPlaced
    <3> HIDE DEF I
    <3>5. Cardinality(I) = 0 /\ Cardinality(Al!AtWorker(o)) \in {0, 1}
      BY <3>1, <3>3, FS_EmptySet, FS_Singleton
    <3> QED
      BY <2>2, <3>4, <3>5 DEF I
  <2> QED
    BY <2>1, <2>2
<1>3. Al!OffersCounted
  <2>1. Al!MapThenSumSet(LAMBDA r : aResults[r], Al!Results) = Al!Cardinality(Al!Over)
    <3>1. Al!MapThenSumSet(LAMBDA r : aResults[r], Al!Results) = SumOf(aResults, Al!Results)
      BY DEF SumOf, Al!MapThenSumSet, MapThenSumSet, Al!MapThenFoldSet, MapThenFoldSet
    <3> QED
      BY <3>1, AlsoLibrary DEF AlsoInv, AlsoAnswered
  <2>2. aResults["shed"] = Al!Cardinality({o \in AlsoOffers : aOffer[o] = "shed"})
    BY AlsoLibrary DEF AlsoInv, AlsoAnswered, AlsoShed
  <2>3. \A o \in AlsoOffers :
          /\ Al!Cardinality({i \in DOMAIN aQ : aQ[i] = o}) + Al!Cardinality(Al!AtWorker(o)) <= 1
          /\ o \in Al!InQueue \cup Al!Hands => aOffer[o] = "queued"
    BY <1>2, AlsoLibrary
  <2> QED
    BY <2>1, <2>2, <2>3 DEF Al!OffersCounted
<1> QED
  BY <1>1, <1>3

-----------------------------------------------------------------------------
(* The shadow *)

\* An offer that was taken is in the queue once, or with one worker, or over.
ShadowPlaced ==
  /\ \A i, j \in DOMAIN sQ : sQ[i] = sQ[j] => i = j
  /\ \A i \in DOMAIN sQ : sOffer[sQ[i]] = "queued"
  /\ \A w \in TargetWorker :
       /\ sWork[w].pc \in Idle <=> sWork[w].o = NoTargetOffer
       /\ sWork[w].o # NoTargetOffer => sOffer[sWork[w].o] = "queued" /\ sWork[w].o \notin Sh!InQueue
  /\ \A v, w \in TargetWorker : sWork[v].o = sWork[w].o /\ sWork[v].o # NoTargetOffer => v = w

ShadowDropped == {o \in ShadowOffers : sOffer[o] = "dropped"}
ShadowSettled == {o \in ShadowOffers : sOffer[o] = "queued"} \ (Sh!InQueue \cup Sh!Hands)
ShadowComparing == {w \in TargetWorker : sWork[w].pc = "compare"}

Processed == Sh!Kinds \ {"shadow_dropped"}
Answered == Sh!Compared \cup {"shadow_error"}

ShadowCounted ==
  /\ IsFiniteSet(ShadowDropped) /\ IsFiniteSet(ShadowSettled) /\ IsFiniteSet(ShadowComparing)
  /\ sKinds["shadow_dropped"] = Cardinality(ShadowDropped)
  /\ SumOf(sKinds, Processed) = Cardinality(ShadowSettled)
  /\ SumOf(sKinds, Sh!Compared) + Cardinality(ShadowComparing) <= sSubmitted
  /\ sSubmitted <= SumOf(sKinds, Answered) + Cardinality(ShadowComparing)

\* What was decided is what Classify says of two answers.
ShadowJudged ==
  \A v \in sVerdict :
    v.p \in Answers \cup {NoAnswer} /\ v.s \in Answers /\ v.kind = Sh!Classify(v.p, v.s)

ShadowInv == Sh!TypeOK /\ ShadowPlaced /\ ShadowCounted /\ ShadowJudged

LEMMA ShadowSizes ==
  ASSUME Sh!ShadowConstants
  PROVE  /\ TargetDepth \in Nat /\ TargetDepth > 0 /\ NoTargetOffer \notin ShadowOffers /\ NoAnswer \notin Answers
         /\ \A a \in Answers : a.outputs \in Seq(Nat) /\ a.coins \in Seq(Nat)
BY DEF Sh!ShadowConstants

\* The kinds, and those that are summed.
LEMMA ShadowKinds ==
  /\ IsFiniteSet(Sh!Kinds) /\ IsFiniteSet(Processed) /\ IsFiniteSet(Sh!Compared) /\ IsFiniteSet(Answered)
  /\ Processed \subseteq Sh!Kinds /\ Sh!Compared \subseteq Sh!Kinds /\ Answered \subseteq Sh!Kinds
  /\ Answered = Processed /\ "shadow_error" \notin Sh!Compared /\ "shadow_dropped" \notin Answered
  /\ {"shadow_dropped", "shadow_error"} \subseteq Sh!Kinds
<1>1. Sh!Compared = ({"match"} \cup {"primary_only"}) \cup ({"shadow_only"} \cup {"differ"})
  BY DEF Sh!Compared
<1>2. IsFiniteSet(Sh!Compared)
  BY <1>1, FS_Singleton, FS_Union
<1>3. Sh!Kinds = Sh!Compared \cup ({"shadow_error"} \cup {"shadow_dropped"})
  BY DEF Sh!Kinds
<1>4. IsFiniteSet(Sh!Kinds)
  BY <1>2, <1>3, FS_Singleton, FS_Union
<1>5. "shadow_error" \notin Sh!Compared /\ "shadow_dropped" \notin Sh!Compared
  BY DEF Sh!Compared
<1>6. Processed \subseteq Sh!Kinds /\ Answered \subseteq Sh!Kinds /\ Answered = Processed
  BY <1>3, <1>5 DEF Processed, Answered
<1> QED
  BY <1>2, <1>3, <1>4, <1>5, <1>6, FS_Subset DEF Answered

\* One more of a kind, in a sum over some of them.
LEMMA ShadowAdds ==
  ASSUME Sh!TypeOK, NEW kind \in Sh!Kinds, Sh!Add(kind)
  PROVE  /\ sKinds' \in [Sh!Kinds -> Nat]
         /\ \A k \in Sh!Kinds : sKinds'[k] = IF k = kind THEN sKinds[k] + 1 ELSE sKinds[k]
BY DEF Sh!TypeOK, Sh!Add

LEMMA ShadowSums ==
  ASSUME Sh!TypeOK, NEW kind \in Sh!Kinds, Sh!Add(kind),
         NEW P, P \subseteq Sh!Kinds
  PROVE  /\ SumOf(sKinds, P) \in Nat
         /\ kind \in P => SumOf(sKinds', P) = SumOf(sKinds, P) + 1
         /\ kind \notin P => SumOf(sKinds', P) = SumOf(sKinds, P)
<1>1. IsFiniteSet(P)
  BY ShadowKinds, FS_Subset
<1>2. \A k \in Sh!Kinds : sKinds'[k] = IF k = kind THEN sKinds[k] + 1 ELSE sKinds[k]
  BY ShadowAdds
<1>3. \A k \in Sh!Kinds : sKinds[k] \in Nat
  BY DEF Sh!TypeOK
<1>4. /\ \A k \in P : sKinds[k] \in Nat
      /\ kind \in P => sKinds'[kind] = sKinds[kind] + 1
      /\ \A k \in P \ {kind} : sKinds'[k] = sKinds[k]
  BY <1>2, <1>3
<1> QED
  BY <1>1, <1>4, SumCounts

\* A dropped offer is counted as such.
LEMMA ShadowDrops ==
  ASSUME Sh!ShadowConstants, ShadowInv, NEW o \in ShadowOffers, sOffer[o] \in {"none", "put"},
         sOffer' = [sOffer EXCEPT ![o] = "dropped"], Sh!Add("shadow_dropped"),
         sPrimary' \in [ShadowOffers -> Answers \cup {NoAnswer}],
         sQ' = sQ, sWork' = sWork, sStarted' = sStarted, sDone' = sDone,
         sSubmitted' = sSubmitted, sVerdict' = sVerdict
  PROVE  ShadowInv'
<1>1. /\ sOffer' \in [ShadowOffers -> {"none", "put", "queued", "dropped"}]
      /\ \A p \in ShadowOffers : sOffer'[p] = IF p = o THEN "dropped" ELSE sOffer[p]
  BY DEF ShadowInv, Sh!TypeOK
<1>2. /\ sKinds' \in [Sh!Kinds -> Nat]
      /\ sKinds'["shadow_dropped"] = sKinds["shadow_dropped"] + 1
      /\ SumOf(sKinds', Processed) = SumOf(sKinds, Processed)
      /\ SumOf(sKinds', Sh!Compared) = SumOf(sKinds, Sh!Compared)
      /\ SumOf(sKinds', Answered) = SumOf(sKinds, Answered)
  <2>1. Sh!TypeOK /\ "shadow_dropped" \in Sh!Kinds
    BY ShadowKinds DEF ShadowInv
  <2>2. /\ sKinds' \in [Sh!Kinds -> Nat]
        /\ sKinds'["shadow_dropped"] = sKinds["shadow_dropped"] + 1
    BY <2>1, ShadowAdds
  <2>3. /\ Processed \subseteq Sh!Kinds /\ Sh!Compared \subseteq Sh!Kinds
        /\ Answered \subseteq Sh!Kinds /\ "shadow_dropped" \notin Processed
        /\ "shadow_dropped" \notin Sh!Compared /\ "shadow_dropped" \notin Answered
    BY ShadowKinds DEF Processed, Answered
  <2>4. SumOf(sKinds', Processed) = SumOf(sKinds, Processed)
    BY <2>1, <2>3, ShadowSums
  <2>5. SumOf(sKinds', Sh!Compared) = SumOf(sKinds, Sh!Compared)
    BY <2>1, <2>3, ShadowSums
  <2>6. SumOf(sKinds', Answered) = SumOf(sKinds, Answered)
    BY <2>1, <2>3, ShadowSums
  <2> QED
    BY <2>2, <2>4, <2>5, <2>6
<1>3. Sh!InQueue' = Sh!InQueue /\ Sh!Hands' = Sh!Hands
  BY DEF Sh!InQueue, Sh!Hands
<1>4. ShadowPlaced'
  <2>1. \A i \in DOMAIN sQ : sQ[i] \in ShadowOffers /\ sQ[i] # o
    BY DEF ShadowInv, ShadowPlaced, Sh!TypeOK
  <2>2. \A w \in TargetWorker : sWork[w].o # NoTargetOffer => sWork[w].o \in ShadowOffers /\ sWork[w].o # o
    BY DEF ShadowInv, ShadowPlaced, Sh!TypeOK
  <2> QED
    BY <1>1, <1>3, <2>1, <2>2 DEF ShadowInv, ShadowPlaced
<1>5. ShadowDropped' = ShadowDropped \cup {o} /\ o \notin ShadowDropped
  BY <1>1 DEF ShadowDropped
<1>6. ShadowSettled' = ShadowSettled /\ ShadowComparing' = ShadowComparing
  BY <1>1, <1>3 DEF ShadowSettled, ShadowComparing
<1>7. IsFiniteSet(ShadowDropped') /\ Cardinality(ShadowDropped') = Cardinality(ShadowDropped) + 1
  BY <1>5, FS_AddElement DEF ShadowInv, ShadowCounted
<1>8. ShadowCounted'
  BY <1>2, <1>6, <1>7 DEF ShadowInv, ShadowCounted
<1>9. ShadowJudged'
  BY DEF ShadowInv, ShadowJudged
<1> QED
  BY <1>1, <1>2, <1>4, <1>8, <1>9 DEF ShadowInv, Sh!TypeOK

\* A step that counts nothing and settles nothing.
LEMMA ShadowSays ==
  ASSUME ShadowInv, ShadowDropped' = ShadowDropped, ShadowSettled' = ShadowSettled,
         ShadowComparing' = ShadowComparing, sKinds' = sKinds, sSubmitted' = sSubmitted
  PROVE  ShadowCounted'
BY DEF ShadowInv, ShadowCounted

LEMMA ShadowOffer ==
  ASSUME Sh!ShadowConstants, ShadowInv, NEW o \in ShadowOffers,
         Sh!CheckStarted(o) \/ Sh!PutFull(o)
  PROVE  ShadowInv'
<1>1. CASE Sh!PutFull(o)
  BY <1>1, ShadowDrops DEF Sh!PutFull, Sh!OfferTo, Sh!startVars, ShadowInv, Sh!TypeOK
<1>2. CASE Sh!CheckStarted(o)
  <2>1. /\ sPrimary' \in [ShadowOffers -> Answers \cup {NoAnswer}] /\ sOffer[o] = "none"
        /\ sQ' = sQ /\ sWork' = sWork /\ sStarted' = sStarted /\ sDone' = sDone
        /\ sSubmitted' = sSubmitted /\ sVerdict' = sVerdict
    BY <1>2 DEF Sh!CheckStarted, Sh!OfferTo, Sh!startVars, ShadowInv, Sh!TypeOK
  <2>2. CASE sOffer' = [sOffer EXCEPT ![o] = "dropped"] /\ Sh!Add("shadow_dropped")
    BY <2>1, <2>2, ShadowDrops
  <2>3. CASE sOffer' = [sOffer EXCEPT ![o] = "put"] /\ sKinds' = sKinds
    <3>1. /\ sOffer' \in [ShadowOffers -> {"none", "put", "queued", "dropped"}]
          /\ \A p \in ShadowOffers : sOffer'[p] = IF p = o THEN "put" ELSE sOffer[p]
      BY <2>3 DEF ShadowInv, Sh!TypeOK
    <3>2. Sh!InQueue' = Sh!InQueue /\ Sh!Hands' = Sh!Hands
      BY <2>1 DEF Sh!InQueue, Sh!Hands
    <3>3. ShadowPlaced'
      <4>1. \A i \in DOMAIN sQ : sQ[i] \in ShadowOffers /\ sQ[i] # o
        BY <2>1 DEF ShadowInv, ShadowPlaced, Sh!TypeOK
      <4>2. \A w \in TargetWorker : sWork[w].o # NoTargetOffer => sWork[w].o \in ShadowOffers /\ sWork[w].o # o
        BY <2>1 DEF ShadowInv, ShadowPlaced, Sh!TypeOK
      <4> QED
        BY <2>1, <3>1, <3>2, <4>1, <4>2 DEF ShadowInv, ShadowPlaced
    <3>4. /\ ShadowDropped' = ShadowDropped /\ ShadowSettled' = ShadowSettled
          /\ ShadowComparing' = ShadowComparing
      BY <2>1, <3>1, <3>2 DEF ShadowDropped, ShadowSettled, ShadowComparing
    <3>5. ShadowCounted'
      BY <2>1, <2>3, <3>4, ShadowSays
    <3>6. ShadowJudged'
      BY <2>1 DEF ShadowInv, ShadowJudged
    <3> QED
      BY <2>1, <2>3, <3>1, <3>3, <3>5, <3>6 DEF ShadowInv, Sh!TypeOK
  <2> QED
    BY <1>2, <2>2, <2>3 DEF Sh!CheckStarted, Sh!OfferTo
<1> QED
  BY <1>1, <1>2

LEMMA ShadowPut ==
  ASSUME Sh!ShadowConstants, ShadowInv, NEW o \in ShadowOffers, Sh!Put(o)
  PROVE  ShadowInv'
<1>1. /\ sQ' = Append(sQ, o) /\ sOffer[o] = "put" /\ sOffer' = [sOffer EXCEPT ![o] = "queued"]
      /\ Len(sQ) < TargetDepth
      /\ sPrimary' = sPrimary /\ sWork' = sWork /\ sStarted' = sStarted /\ sDone' = sDone
      /\ sKinds' = sKinds /\ sSubmitted' = sSubmitted /\ sVerdict' = sVerdict
  BY DEF Sh!Put, Sh!OfferTo, Sh!startVars, Sh!countVars
<1>2. sQ \in Seq(ShadowOffers)
  BY DEF ShadowInv, Sh!TypeOK
<1>3. /\ sQ' \in Seq(ShadowOffers) /\ Len(sQ') = Len(sQ) + 1 /\ Len(sQ) \in Nat
      /\ DOMAIN sQ' = 1..(Len(sQ) + 1) /\ DOMAIN sQ = 1..Len(sQ)
      /\ \A i \in DOMAIN sQ : sQ'[i] = sQ[i]
      /\ sQ'[Len(sQ) + 1] = o
      /\ Sh!InQueue' = Sh!InQueue \cup {o}
  <2>1. /\ Append(sQ, o) \in Seq(ShadowOffers) /\ Len(Append(sQ, o)) = Len(sQ) + 1 /\ Len(sQ) \in Nat
        /\ DOMAIN Append(sQ, o) = 1..(Len(sQ) + 1) /\ DOMAIN sQ = 1..Len(sQ)
        /\ \A i \in DOMAIN sQ : Append(sQ, o)[i] = sQ[i]
        /\ Append(sQ, o)[Len(sQ) + 1] = o
        /\ Members(Append(sQ, o)) = Members(sQ) \cup {o}
    BY <1>2, PutLast
  <2>2. /\ sQ' \in Seq(ShadowOffers) /\ Len(sQ') = Len(sQ) + 1 /\ Len(sQ) \in Nat
        /\ DOMAIN sQ' = 1..(Len(sQ) + 1) /\ DOMAIN sQ = 1..Len(sQ)
        /\ \A i \in DOMAIN sQ : sQ'[i] = sQ[i]
        /\ sQ'[Len(sQ) + 1] = o
        /\ Members(sQ') = Members(sQ) \cup {o}
    BY <1>1, <2>1
  <2> QED
    BY <2>2 DEF Sh!InQueue, Members
<1>4. /\ sOffer' \in [ShadowOffers -> {"none", "put", "queued", "dropped"}]
      /\ \A p \in ShadowOffers : sOffer'[p] = IF p = o THEN "queued" ELSE sOffer[p]
  BY <1>1 DEF ShadowInv, Sh!TypeOK
<1>5. /\ Sh!Hands' = Sh!Hands
      /\ o \notin Sh!InQueue /\ o \notin Sh!Hands /\ \A w \in TargetWorker : sWork[w].o # o
  BY <1>1, ShadowSizes DEF Sh!Hands, Sh!InQueue, ShadowInv, ShadowPlaced
<1>6. ShadowPlaced'
  <2>0. \A i \in DOMAIN sQ' : i \in DOMAIN sQ \/ i = Len(sQ) + 1
    BY <1>3
  <2>1. \A i, j \in DOMAIN sQ' : sQ'[i] = sQ'[j] => i = j
    <3>1. \A i \in DOMAIN sQ : sQ[i] # o
      BY <1>5 DEF Sh!InQueue
    <3> QED
      BY <1>3, <2>0, <3>1 DEF ShadowInv, ShadowPlaced
  <2>2. \A i \in DOMAIN sQ' : sOffer'[sQ'[i]] = "queued"
    <3>1. \A i \in DOMAIN sQ : sQ[i] \in ShadowOffers /\ sOffer[sQ[i]] = "queued"
      BY <1>2 DEF ShadowInv, ShadowPlaced
    <3> QED
      BY <1>3, <1>4, <2>0, <3>1
  <2>3. \A w \in TargetWorker :
          sWork'[w].o # NoTargetOffer => sOffer'[sWork'[w].o] = "queued" /\ sWork'[w].o \notin Sh!InQueue'
    <3>1. \A w \in TargetWorker : sWork[w].o # NoTargetOffer => sWork[w].o \in ShadowOffers
      BY DEF ShadowInv, Sh!TypeOK
    <3> QED
      BY <1>1, <1>3, <1>4, <1>5, <3>1 DEF ShadowInv, ShadowPlaced
  <2> QED
    BY <1>1, <2>1, <2>2, <2>3 DEF ShadowInv, ShadowPlaced
<1>7. /\ ShadowDropped' = ShadowDropped /\ ShadowSettled' = ShadowSettled
      /\ ShadowComparing' = ShadowComparing
  BY <1>1, <1>3, <1>4, <1>5 DEF ShadowDropped, ShadowSettled, ShadowComparing
<1>8. ShadowCounted'
  BY <1>1, <1>7, ShadowSays
<1>9. ShadowJudged'
  BY <1>1 DEF ShadowInv, ShadowJudged
<1>10. Sh!TypeOK'
  <2>1. Len(sQ') <= TargetDepth
    BY <1>1, <1>3, ShadowSizes
  <2> QED
    BY <1>1, <1>3, <1>4, <2>1 DEF ShadowInv, Sh!TypeOK
<1> QED
  BY <1>6, <1>8, <1>9, <1>10 DEF ShadowInv

LEMMA ShadowReceive ==
  ASSUME Sh!ShadowConstants, ShadowInv, NEW w \in TargetWorker, Sh!Receive(w)
  PROVE  ShadowInv'
<1>1. /\ sWork[w].pc = "select" /\ sQ # <<>> /\ sQ' = Tail(sQ)
      /\ sWork' = [sWork EXCEPT ![w] = [Sh!IdleWorker EXCEPT !.pc = "submit", !.o = Head(sQ)]]
      /\ sOffer' = sOffer /\ sPrimary' = sPrimary /\ sStarted' = sStarted /\ sDone' = sDone
      /\ sKinds' = sKinds /\ sSubmitted' = sSubmitted /\ sVerdict' = sVerdict
  BY DEF Sh!Receive, Sh!startVars, Sh!countVars
<1>2. sQ \in Seq(ShadowOffers) /\ \A i, j \in DOMAIN sQ : sQ[i] = sQ[j] => i = j
  BY DEF ShadowInv, Sh!TypeOK, ShadowPlaced
<1>0. PICK o : o = Head(sQ)
  OBVIOUS
<1>3. /\ o \in ShadowOffers /\ o = sQ[1] /\ 1 \in DOMAIN sQ
      /\ sQ' \in Seq(ShadowOffers) /\ Len(sQ') = Len(sQ) - 1 /\ Len(sQ) \in Nat
      /\ DOMAIN sQ = 1..Len(sQ) /\ DOMAIN sQ' = 1..(Len(sQ) - 1)
      /\ \A i \in DOMAIN sQ' : i + 1 \in DOMAIN sQ /\ sQ'[i] = sQ[i + 1]
      /\ o \in Sh!InQueue /\ Sh!InQueue' = Sh!InQueue \ {o}
  <2>1. /\ Head(sQ) \in Members(sQ) /\ Head(sQ) \in ShadowOffers /\ Head(sQ) = sQ[1] /\ 1 \in DOMAIN sQ
        /\ Tail(sQ) \in Seq(ShadowOffers) /\ Len(Tail(sQ)) = Len(sQ) - 1 /\ Len(sQ) \in Nat
        /\ DOMAIN sQ = 1..Len(sQ) /\ DOMAIN Tail(sQ) = 1..(Len(sQ) - 1)
        /\ \A i \in DOMAIN Tail(sQ) : i + 1 \in DOMAIN sQ /\ Tail(sQ)[i] = sQ[i + 1]
        /\ Members(Tail(sQ)) = Members(sQ) \ {Head(sQ)}
    <3>1. sQ # <<>>
      BY <1>1
    <3> QED
      BY <1>2, <3>1, TakeFirst
  <2>2. /\ o \in ShadowOffers /\ o = sQ[1] /\ 1 \in DOMAIN sQ
        /\ sQ' \in Seq(ShadowOffers) /\ Len(sQ') = Len(sQ) - 1 /\ Len(sQ) \in Nat
        /\ DOMAIN sQ = 1..Len(sQ) /\ DOMAIN sQ' = 1..(Len(sQ) - 1)
        /\ \A i \in DOMAIN sQ' : i + 1 \in DOMAIN sQ /\ sQ'[i] = sQ[i + 1]
        /\ o \in Members(sQ) /\ Members(sQ') = Members(sQ) \ {o}
    BY <1>0, <1>1, <2>1
  <2> QED
    BY <2>2 DEF Sh!InQueue, Members
<1>4. /\ sWork' \in [TargetWorker -> [pc : {"select", "submit", "compare", "exit"},
                                 o : ShadowOffers \cup {NoTargetOffer}, answer : Answers \cup {NoAnswer}]]
      /\ sWork'[w].pc = "submit" /\ sWork'[w].o = o
      /\ \A v \in TargetWorker \ {w} : sWork'[v] = sWork[v]
  BY <1>0, <1>1, <1>3 DEF ShadowInv, Sh!TypeOK, Sh!IdleWorker
<1>5. sWork[w].o = NoTargetOffer /\ sOffer[o] = "queued" /\ \A v \in TargetWorker : sWork[v].o # o
  BY <1>1, <1>3, ShadowSizes DEF ShadowInv, ShadowPlaced, Idle
<1>6. Sh!Hands' = Sh!Hands \cup {o}
  <2>1. o # NoTargetOffer
    BY <1>3, ShadowSizes
  <2> QED
    BY <1>4, <1>5, <2>1 DEF Sh!Hands
<1>7. ShadowPlaced'
  <2>1. \A i, j \in DOMAIN sQ' : sQ'[i] = sQ'[j] => i = j
    BY <1>2, <1>3
  <2>2. \A i \in DOMAIN sQ' : sOffer'[sQ'[i]] = "queued"
    BY <1>1, <1>3 DEF ShadowInv, ShadowPlaced
  <2>3. \A v \in TargetWorker :
          /\ sWork'[v].pc \in Idle <=> sWork'[v].o = NoTargetOffer
          /\ sWork'[v].o # NoTargetOffer => sOffer'[sWork'[v].o] = "queued" /\ sWork'[v].o \notin Sh!InQueue'
    BY <1>1, <1>3, <1>4, <1>5, ShadowSizes DEF ShadowInv, ShadowPlaced, Idle
  <2>4. \A u, v \in TargetWorker : sWork'[u].o = sWork'[v].o /\ sWork'[u].o # NoTargetOffer => u = v
    BY <1>4, <1>5 DEF ShadowInv, ShadowPlaced
  <2> QED
    BY <2>1, <2>2, <2>3, <2>4 DEF ShadowPlaced
<1>8. ShadowDropped' = ShadowDropped /\ ShadowSettled' = ShadowSettled
  BY <1>1, <1>3, <1>6 DEF ShadowDropped, ShadowSettled
<1>9. ShadowComparing' = ShadowComparing
  BY <1>1, <1>4 DEF ShadowComparing
<1>10. ShadowCounted'
  BY <1>1, <1>8, <1>9, ShadowSays
<1>11. ShadowJudged'
  BY <1>1 DEF ShadowInv, ShadowJudged
<1>12. Sh!TypeOK'
  <2>1. Len(sQ') <= TargetDepth
    BY <1>3, ShadowSizes DEF ShadowInv, Sh!TypeOK
  <2> QED
    BY <1>1, <1>3, <1>4, <2>1 DEF ShadowInv, Sh!TypeOK
<1> QED
  BY <1>7, <1>10, <1>11, <1>12 DEF ShadowInv

\* A worker is through with its job: the offer is settled under a kind.
LEMMA ShadowEnds ==
  ASSUME Sh!ShadowConstants, ShadowInv, NEW w \in TargetWorker, sWork[w].pc \notin Idle,
         NEW kind \in Processed, Sh!Finish(w, kind), sSubmitted' = sSubmitted
  PROVE  /\ Sh!TypeOK' /\ ShadowPlaced'
         /\ IsFiniteSet(ShadowDropped') /\ IsFiniteSet(ShadowSettled')
         /\ sKinds'["shadow_dropped"] = Cardinality(ShadowDropped')
         /\ SumOf(sKinds', Processed) = Cardinality(ShadowSettled')
         /\ SumOf(sKinds', Answered) = SumOf(sKinds, Answered) + 1
         /\ ShadowComparing' = ShadowComparing \ {w}
<1>1. /\ Sh!Add(kind) /\ sWork' = [sWork EXCEPT ![w] = Sh!IdleWorker]
      /\ sOffer' = sOffer /\ sPrimary' = sPrimary /\ sQ' = sQ /\ sStarted' = sStarted /\ sDone' = sDone
  BY DEF Sh!Finish, Sh!startVars
<1>2. /\ sWork' \in [TargetWorker -> [pc : {"select", "submit", "compare", "exit"},
                                 o : ShadowOffers \cup {NoTargetOffer}, answer : Answers \cup {NoAnswer}]]
      /\ sWork'[w].pc = "select" /\ sWork'[w].o = NoTargetOffer
      /\ \A v \in TargetWorker \ {w} : sWork'[v] = sWork[v]
  BY <1>1 DEF ShadowInv, Sh!TypeOK, Sh!IdleWorker
<1>3. PICK o \in ShadowOffers : /\ o = sWork[w].o /\ o # NoTargetOffer /\ sOffer[o] = "queued" /\ o \notin Sh!InQueue
                           /\ \A v \in TargetWorker \ {w} : sWork[v].o # o
  <2>1. sWork[w].o # NoTargetOffer
    BY DEF ShadowInv, ShadowPlaced
  <2>2. sWork[w].o \in ShadowOffers
    BY <2>1 DEF ShadowInv, Sh!TypeOK
  <2> QED
    BY <2>1, <2>2 DEF ShadowInv, ShadowPlaced
<1>4. Sh!InQueue' = Sh!InQueue
  BY <1>1 DEF Sh!InQueue
<1>5. o \in Sh!Hands /\ Sh!Hands' = Sh!Hands \ {o}
  BY <1>2, <1>3 DEF Sh!Hands
<1>6. ShadowPlaced'
  <2>1. /\ \A i, j \in DOMAIN sQ' : sQ'[i] = sQ'[j] => i = j
        /\ \A i \in DOMAIN sQ' : sOffer'[sQ'[i]] = "queued"
    BY <1>1 DEF ShadowInv, ShadowPlaced
  <2>2. \A v \in TargetWorker :
          /\ sWork'[v].pc \in Idle <=> sWork'[v].o = NoTargetOffer
          /\ sWork'[v].o # NoTargetOffer => sOffer'[sWork'[v].o] = "queued" /\ sWork'[v].o \notin Sh!InQueue'
    BY <1>1, <1>2, <1>4 DEF ShadowInv, ShadowPlaced, Idle
  <2>3. \A u, v \in TargetWorker : sWork'[u].o = sWork'[v].o /\ sWork'[u].o # NoTargetOffer => u = v
    BY <1>2 DEF ShadowInv, ShadowPlaced
  <2> QED
    BY <2>1, <2>2, <2>3 DEF ShadowPlaced
<1>7. ShadowDropped' = ShadowDropped
  BY <1>1 DEF ShadowDropped
<1>8. ShadowSettled' = ShadowSettled \cup {o} /\ o \notin ShadowSettled
  BY <1>1, <1>3, <1>4, <1>5 DEF ShadowSettled
<1>9. /\ IsFiniteSet(ShadowDropped') /\ IsFiniteSet(ShadowSettled')
      /\ Cardinality(ShadowSettled') = Cardinality(ShadowSettled) + 1
  BY <1>7, <1>8, FS_AddElement DEF ShadowInv, ShadowCounted
<1>10. Sh!TypeOK /\ kind \in Sh!Kinds /\ kind # "shadow_dropped"
  BY DEF ShadowInv, Processed
<1>11. /\ sKinds' \in [Sh!Kinds -> Nat]
       /\ sKinds'["shadow_dropped"] = sKinds["shadow_dropped"]
  BY <1>1, <1>10, ShadowAdds, ShadowKinds
<1>12. SumOf(sKinds', Processed) = SumOf(sKinds, Processed) + 1
  BY <1>1, <1>10, ShadowSums, ShadowKinds
<1>13. SumOf(sKinds', Answered) = SumOf(sKinds, Answered) + 1
  BY <1>12, ShadowKinds
<1>14. ShadowComparing' = ShadowComparing \ {w}
  BY <1>2 DEF ShadowComparing
<1>15. Sh!TypeOK'
  BY <1>1, <1>2, <1>11 DEF ShadowInv, Sh!TypeOK
<1>16. /\ sKinds'["shadow_dropped"] = Cardinality(ShadowDropped')
       /\ SumOf(sKinds', Processed) = Cardinality(ShadowSettled')
  BY <1>7, <1>9, <1>11, <1>12 DEF ShadowInv, ShadowCounted
<1> QED
  BY <1>6, <1>9, <1>13, <1>14, <1>15, <1>16

\* The numbers of a state, for the sums below.
LEMMA ShadowNumbers ==
  ASSUME ShadowInv
  PROVE  /\ SumOf(sKinds, Sh!Compared) \in Nat /\ SumOf(sKinds, Answered) \in Nat
         /\ Cardinality(ShadowComparing) \in Nat /\ sSubmitted \in Nat
<1>1. \A k \in Sh!Kinds : sKinds[k] \in Nat
  BY DEF ShadowInv, Sh!TypeOK
<1>2. SumOf(sKinds, Sh!Compared) \in Nat
  BY <1>1, ShadowKinds, SumNat
<1>3. SumOf(sKinds, Answered) \in Nat
  BY <1>1, ShadowKinds, SumNat
<1> QED
  BY <1>2, <1>3, FS_CardinalityType DEF ShadowInv, ShadowCounted, Sh!TypeOK

\* An error: the submit failed, or the answer has no entry for the topic.
LEMMA ShadowError ==
  ASSUME Sh!ShadowConstants, ShadowInv, NEW w \in TargetWorker, Sh!SubmitFail(w) \/ Sh!NoEntry(w)
  PROVE  ShadowInv'
<1>1. /\ Sh!Finish(w, "shadow_error") /\ sSubmitted' = sSubmitted /\ sVerdict' = sVerdict
      /\ sPrimary' = sPrimary /\ sWork[w].pc \in {"submit", "compare"}
  BY DEF Sh!SubmitFail, Sh!NoEntry, Sh!Finish
<1>2. "shadow_error" \in Processed /\ sWork[w].pc \notin Idle
  BY <1>1, ShadowKinds DEF Processed, Idle
<1>3. /\ Sh!TypeOK' /\ ShadowPlaced'
      /\ IsFiniteSet(ShadowDropped') /\ IsFiniteSet(ShadowSettled')
      /\ sKinds'["shadow_dropped"] = Cardinality(ShadowDropped')
      /\ SumOf(sKinds', Processed) = Cardinality(ShadowSettled')
      /\ SumOf(sKinds', Answered) = SumOf(sKinds, Answered) + 1
      /\ ShadowComparing' = ShadowComparing \ {w}
  BY <1>1, <1>2, ShadowEnds
<1>4. SumOf(sKinds', Sh!Compared) = SumOf(sKinds, Sh!Compared)
  <2>1. Sh!TypeOK /\ Sh!Add("shadow_error")
    BY <1>1 DEF ShadowInv, Sh!Finish
  <2> QED
    BY <2>1, ShadowSums, ShadowKinds
<1>5. /\ IsFiniteSet(ShadowComparing')
      /\ Cardinality(ShadowComparing') <= Cardinality(ShadowComparing)
      /\ Cardinality(ShadowComparing') >= Cardinality(ShadowComparing) - 1
      /\ Cardinality(ShadowComparing') \in Nat
  <2>1. IsFiniteSet(ShadowComparing)
    BY DEF ShadowInv, ShadowCounted
  <2>2. /\ IsFiniteSet(ShadowComparing \ {w}) /\ Cardinality(ShadowComparing) \in Nat
        /\ Cardinality(ShadowComparing \ {w})
             = IF w \in ShadowComparing THEN Cardinality(ShadowComparing) - 1 ELSE Cardinality(ShadowComparing)
    BY <2>1, FS_RemoveElement, FS_CardinalityType
  <2>3. Cardinality(ShadowComparing \ {w}) \in Nat
    BY <2>2, FS_CardinalityType
  <2> QED
    BY <1>3, <2>2, <2>3
<1>6. ShadowCounted'
  <2>1. /\ SumOf(sKinds, Sh!Compared) \in Nat /\ SumOf(sKinds, Answered) \in Nat
        /\ Cardinality(ShadowComparing) \in Nat /\ sSubmitted \in Nat
    BY ShadowNumbers
  <2>2. /\ SumOf(sKinds, Sh!Compared) + Cardinality(ShadowComparing) <= sSubmitted
        /\ sSubmitted <= SumOf(sKinds, Answered) + Cardinality(ShadowComparing)
    BY DEF ShadowInv, ShadowCounted
  <2>3. /\ SumOf(sKinds', Sh!Compared) + Cardinality(ShadowComparing') <= sSubmitted'
        /\ sSubmitted' <= SumOf(sKinds', Answered) + Cardinality(ShadowComparing')
    BY <1>1, <1>3, <1>4, <1>5, <2>1, <2>2
  <2> QED
    BY <1>3, <1>5, <2>3 DEF ShadowCounted
<1>7. ShadowJudged'
  BY <1>1 DEF ShadowInv, ShadowJudged
<1> QED
  BY <1>3, <1>6, <1>7 DEF ShadowInv

\* A comparison.
LEMMA ShadowCompare ==
  ASSUME Sh!ShadowConstants, ShadowInv, NEW w \in TargetWorker, Sh!Compare(w)
  PROVE  ShadowInv'
<1>1. PICK kind : /\ kind = Sh!Classify(sPrimary[sWork[w].o], sWork[w].answer)
                  /\ Sh!Finish(w, kind)
                  /\ sVerdict' = sVerdict \cup {[p |-> sPrimary[sWork[w].o], s |-> sWork[w].answer, kind |-> kind]}
                  /\ sSubmitted' = sSubmitted /\ sPrimary' = sPrimary
                  /\ sWork[w].pc = "compare" /\ sWork[w].answer # NoAnswer
  <2>1. /\ Sh!Finish(w, Sh!Classify(sPrimary[sWork[w].o], sWork[w].answer))
        /\ sSubmitted' = sSubmitted /\ sWork[w].pc = "compare" /\ sWork[w].answer # NoAnswer
    BY DEF Sh!Compare
  <2>2. sVerdict' = sVerdict \cup {[p |-> sPrimary[sWork[w].o], s |-> sWork[w].answer,
                                  kind |-> Sh!Classify(sPrimary[sWork[w].o], sWork[w].answer)]}
    BY DEF Sh!Compare
  <2>3. sPrimary' = sPrimary
    BY <2>1, Zenon DEF Sh!Finish
  <2> QED
    BY <2>1, <2>2, <2>3
<1>2. kind \in Sh!Compared
  BY <1>1 DEF Sh!Classify, Sh!Compared
<1>3. kind \in Processed /\ sWork[w].pc \notin Idle
  BY <1>1, <1>2, ShadowKinds DEF Processed, Answered, Idle
<1>4. /\ Sh!TypeOK' /\ ShadowPlaced'
      /\ IsFiniteSet(ShadowDropped') /\ IsFiniteSet(ShadowSettled')
      /\ sKinds'["shadow_dropped"] = Cardinality(ShadowDropped')
      /\ SumOf(sKinds', Processed) = Cardinality(ShadowSettled')
      /\ SumOf(sKinds', Answered) = SumOf(sKinds, Answered) + 1
      /\ ShadowComparing' = ShadowComparing \ {w}
  BY <1>1, <1>3, ShadowEnds
<1>5. SumOf(sKinds', Sh!Compared) = SumOf(sKinds, Sh!Compared) + 1
  <2>1. Sh!TypeOK /\ Sh!Add(kind) /\ kind \in Sh!Kinds
    BY <1>1, <1>2, ShadowKinds DEF ShadowInv, Sh!Finish
  <2> QED
    BY <1>2, <2>1, ShadowSums, ShadowKinds
<1>6. IsFiniteSet(ShadowComparing') /\ Cardinality(ShadowComparing') = Cardinality(ShadowComparing) - 1
  <2>1. w \in ShadowComparing
    BY <1>1 DEF ShadowComparing
  <2> QED
    BY <1>4, <2>1, FS_RemoveElement DEF ShadowInv, ShadowCounted
<1>7. ShadowCounted'
  <2>1. /\ SumOf(sKinds, Sh!Compared) \in Nat /\ SumOf(sKinds, Answered) \in Nat
        /\ Cardinality(ShadowComparing) \in Nat /\ sSubmitted \in Nat
    BY ShadowNumbers
  <2>2. /\ SumOf(sKinds, Sh!Compared) + Cardinality(ShadowComparing) <= sSubmitted
        /\ sSubmitted <= SumOf(sKinds, Answered) + Cardinality(ShadowComparing)
    BY DEF ShadowInv, ShadowCounted
  <2>3. /\ SumOf(sKinds', Sh!Compared) + Cardinality(ShadowComparing') <= sSubmitted'
        /\ sSubmitted' <= SumOf(sKinds', Answered) + Cardinality(ShadowComparing')
    BY <1>1, <1>4, <1>5, <1>6, <2>1, <2>2
  <2> QED
    BY <1>4, <1>6, <2>3 DEF ShadowCounted
<1>8. ShadowJudged'
  <2>1. sWork[w].o \in ShadowOffers
    BY <1>3 DEF ShadowInv, ShadowPlaced, Sh!TypeOK
  <2>2. sPrimary[sWork[w].o] \in Answers \cup {NoAnswer} /\ sWork[w].answer \in Answers
    BY <1>1, <2>1 DEF ShadowInv, Sh!TypeOK
  <2> QED
    BY <1>1, <2>2 DEF ShadowInv, ShadowJudged
<1> QED
  BY <1>4, <1>7, <1>8 DEF ShadowInv

\* The shadow answered, and the comparison is to come; or the worker stops.
LEMMA ShadowGoesOn ==
  ASSUME Sh!ShadowConstants, ShadowInv, NEW w \in TargetWorker, Sh!SubmitOK(w) \/ Sh!WorkerExit(w)
  PROVE  ShadowInv'
<1>1. /\ sOffer' = sOffer /\ sPrimary' = sPrimary /\ sQ' = sQ /\ sKinds' = sKinds /\ sVerdict' = sVerdict
      /\ sStarted' = sStarted /\ sDone' = sDone
  BY DEF Sh!SubmitOK, Sh!WorkerExit, Sh!startVars, Sh!countVars
<1>2. /\ sWork' \in [TargetWorker -> [pc : {"select", "submit", "compare", "exit"},
                                 o : ShadowOffers \cup {NoTargetOffer}, answer : Answers \cup {NoAnswer}]]
      /\ \A v \in TargetWorker : sWork'[v].o = sWork[v].o /\ (sWork'[v].pc \in Idle <=> sWork[v].pc \in Idle)
      /\ \/ /\ sWork[w].pc = "submit" /\ sWork'[w].pc = "compare" /\ sSubmitted' = sSubmitted + 1
            /\ \A v \in TargetWorker \ {w} : sWork'[v] = sWork[v]
         \/ /\ \A v \in TargetWorker : sWork'[v].pc = "compare" <=> sWork[v].pc = "compare"
            /\ sSubmitted' = sSubmitted
  <2>1. CASE Sh!SubmitOK(w)
    <3>1. PICK a \in Answers \cup {NoAnswer} :
            sWork' = [sWork EXCEPT ![w].pc = "compare", ![w].answer = a]
      BY <2>1 DEF Sh!SubmitOK
    <3>2. /\ sWork' \in [TargetWorker -> [pc : {"select", "submit", "compare", "exit"},
                                     o : ShadowOffers \cup {NoTargetOffer}, answer : Answers \cup {NoAnswer}]]
          /\ sWork'[w].pc = "compare" /\ sWork'[w].o = sWork[w].o
          /\ \A v \in TargetWorker \ {w} : sWork'[v] = sWork[v]
      BY <3>1 DEF ShadowInv, Sh!TypeOK
    <3>3. sWork[w].pc = "submit" /\ sSubmitted' = sSubmitted + 1
      BY <2>1 DEF Sh!SubmitOK
    <3> QED
      BY <3>2, <3>3 DEF Idle
  <2>2. CASE Sh!WorkerExit(w)
    BY <2>2 DEF Sh!WorkerExit, Sh!countVars, ShadowInv, Sh!TypeOK, Idle
  <2> QED
    BY <2>1, <2>2
<1>3. Sh!InQueue' = Sh!InQueue /\ Sh!Hands' = Sh!Hands
  BY <1>1, <1>2 DEF Sh!InQueue, Sh!Hands
<1>4. ShadowPlaced'
  BY <1>1, <1>2, <1>3 DEF ShadowInv, ShadowPlaced
<1>5. ShadowDropped' = ShadowDropped /\ ShadowSettled' = ShadowSettled
  BY <1>1, <1>3 DEF ShadowDropped, ShadowSettled
<1>6. ShadowCounted'
  <2>1. CASE /\ sWork[w].pc = "submit" /\ sWork'[w].pc = "compare" /\ sSubmitted' = sSubmitted + 1
             /\ \A v \in TargetWorker \ {w} : sWork'[v] = sWork[v]
    <3>1. ShadowComparing' = ShadowComparing \cup {w} /\ w \notin ShadowComparing
      BY <2>1 DEF ShadowComparing
    <3>2. IsFiniteSet(ShadowComparing') /\ Cardinality(ShadowComparing') = Cardinality(ShadowComparing) + 1
      BY <3>1, FS_AddElement DEF ShadowInv, ShadowCounted
    <3>3. /\ SumOf(sKinds, Sh!Compared) \in Nat /\ SumOf(sKinds, Answered) \in Nat
          /\ Cardinality(ShadowComparing) \in Nat /\ sSubmitted \in Nat
      BY ShadowNumbers
    <3> QED
      BY <1>1, <1>5, <2>1, <3>2, <3>3 DEF ShadowInv, ShadowCounted
  <2>2. CASE /\ \A v \in TargetWorker : sWork'[v].pc = "compare" <=> sWork[v].pc = "compare"
             /\ sSubmitted' = sSubmitted
    <3>1. ShadowComparing' = ShadowComparing
      BY <2>2 DEF ShadowComparing
    <3> QED
      BY <1>1, <1>5, <2>2, <3>1, ShadowSays
  <2> QED
    BY <1>2, <2>1, <2>2
<1>7. ShadowJudged'
  BY <1>1 DEF ShadowInv, ShadowJudged
<1>8. sSubmitted' \in Nat
  BY <1>2 DEF ShadowInv, Sh!TypeOK
<1> QED
  BY <1>1, <1>2, <1>4, <1>6, <1>7, <1>8 DEF ShadowInv, Sh!TypeOK

\* Start and stop, and the steps of others.
LEMMA ShadowStands ==
  ASSUME ShadowInv,
         Sh!StartBegin \/ Sh!Stop \/ Sh!StartReturn \/ UNCHANGED Sh!vars
  PROVE  ShadowInv'
<1>1. /\ sOffer' = sOffer /\ sPrimary' = sPrimary /\ sQ' = sQ /\ sWork' = sWork /\ sKinds' = sKinds
      /\ sSubmitted' = sSubmitted /\ sVerdict' = sVerdict
      /\ sStarted' \in BOOLEAN /\ sDone' \in BOOLEAN
  BY DEF Sh!StartBegin, Sh!Stop, Sh!StartReturn, Sh!vars, Sh!countVars, ShadowInv, Sh!TypeOK
<1>2. Sh!InQueue' = Sh!InQueue /\ Sh!Hands' = Sh!Hands
  BY <1>1 DEF Sh!InQueue, Sh!Hands
<1>3. ShadowPlaced'
  BY <1>1, <1>2 DEF ShadowInv, ShadowPlaced
<1>4. ShadowDropped' = ShadowDropped /\ ShadowSettled' = ShadowSettled /\ ShadowComparing' = ShadowComparing
  BY <1>1, <1>2 DEF ShadowDropped, ShadowSettled, ShadowComparing
<1>5. ShadowCounted'
  BY <1>1, <1>4, ShadowSays
<1>6. ShadowJudged'
  BY <1>1 DEF ShadowInv, ShadowJudged
<1> QED
  BY <1>1, <1>3, <1>5, <1>6 DEF ShadowInv, Sh!TypeOK

LEMMA ShadowNext ==
  ASSUME Sh!ShadowConstants, ShadowInv, Sh!Next \/ UNCHANGED Sh!vars
  PROVE  ShadowInv'
<1>1. CASE \E o \in ShadowOffers : Sh!CheckStarted(o) \/ Sh!Put(o) \/ Sh!PutFull(o)
  BY <1>1, ShadowOffer, ShadowPut
<1>2. CASE \E w \in TargetWorker : Sh!WorkStep(w)
  <2>1. PICK w \in TargetWorker : Sh!WorkStep(w)
    BY <1>2
  <2>2. \/ Sh!Receive(w) \/ Sh!SubmitFail(w) \/ Sh!SubmitOK(w) \/ Sh!NoEntry(w)
        \/ Sh!Compare(w) \/ Sh!WorkerExit(w)
    BY <2>1 DEF Sh!WorkStep
  <2> QED
    BY <2>2, ShadowReceive, ShadowError, ShadowGoesOn, ShadowCompare
<1>3. CASE Sh!StartBegin \/ Sh!Stop \/ Sh!StartReturn \/ UNCHANGED Sh!vars
  BY <1>3, ShadowStands
<1> QED
  BY <1>1, <1>2, <1>3 DEF Sh!Next

LEMMA ShadowInit ==
  ASSUME Sh!ShadowConstants, Sh!Init
  PROVE  ShadowInv
<1>1. /\ sOffer = [o \in ShadowOffers |-> "none"] /\ sPrimary = [o \in ShadowOffers |-> NoAnswer]
      /\ sStarted = FALSE /\ sDone = FALSE /\ sQ = <<>>
      /\ sWork = [w \in TargetWorker |-> Sh!IdleWorker]
      /\ sKinds = [k \in Sh!Kinds |-> 0] /\ sSubmitted = 0 /\ sVerdict = {}
  BY DEF Sh!Init
<1>2. Sh!TypeOK
  <2>1. <<>> \in Seq(ShadowOffers) /\ Len(<<>>) <= TargetDepth
    BY ShadowSizes
  <2>2. Sh!IdleWorker \in [pc : {"select", "submit", "compare", "exit"},
                           o : ShadowOffers \cup {NoTargetOffer}, answer : Answers \cup {NoAnswer}]
    BY DEF Sh!IdleWorker
  <2> QED
    BY <1>1, <2>1, <2>2 DEF Sh!TypeOK
<1>3. ShadowPlaced
  BY <1>1 DEF ShadowPlaced, Sh!IdleWorker, Idle
<1>4. ShadowDropped = {} /\ ShadowSettled = {} /\ ShadowComparing = {}
  BY <1>1 DEF ShadowDropped, ShadowSettled, ShadowComparing, Sh!IdleWorker
<1>5. \A k \in Sh!Kinds : sKinds[k] = 0
  BY <1>1
<1>6. SumOf(sKinds, Processed) = 0 /\ SumOf(sKinds, Sh!Compared) = 0 /\ SumOf(sKinds, Answered) = 0
  <2>1. SumOf(sKinds, Processed) = 0
    BY <1>5, ShadowKinds, SumZeros
  <2>2. SumOf(sKinds, Sh!Compared) = 0
    BY <1>5, ShadowKinds, SumZeros
  <2> QED
    BY <2>1, <2>2, ShadowKinds
<1>7. sKinds["shadow_dropped"] = 0
  BY <1>5, ShadowKinds
<1>8. ShadowCounted
  BY <1>1, <1>4, <1>6, <1>7, FS_EmptySet DEF ShadowCounted
<1>9. ShadowJudged
  BY <1>1 DEF ShadowJudged
<1> QED
  BY <1>2, <1>3, <1>8, <1>9 DEF ShadowInv

\* The invariant gives the counts of the property.
LEMMA ShadowLibrary ==
  /\ \A P : Sh!Count(P) = SumOf(sKinds, P)
  /\ \A P : Sh!Cardinality(P) = Cardinality(P)
<1>1. \A P : Sh!Count(P) = SumOf(sKinds, P)
  BY DEF Sh!Count, SumOf, Sh!MapThenSumSet, MapThenSumSet, Sh!MapThenFoldSet, MapThenFoldSet
<1>2. \A P : Sh!Cardinality(P) = Cardinality(P)
  BY DEF Sh!Cardinality, Cardinality
<1> QED
  BY <1>1, <1>2

LEMMA ShadowHolds ==
  ASSUME ShadowInv
  PROVE  Sh!KindsAddUp
<1>1. \A P : Sh!Count(P) = SumOf(sKinds, P)
  BY ShadowLibrary
<1>2. \A P : Sh!Cardinality(P) = Cardinality(P)
  BY ShadowLibrary
<1> HIDE DEF Sh!Count, Sh!Cardinality
<1>3. /\ sKinds["shadow_dropped"] = Sh!Cardinality({o \in ShadowOffers : sOffer[o] = "dropped"})
      /\ Sh!Count(Sh!Kinds \ {"shadow_dropped"})
           = Sh!Cardinality({o \in ShadowOffers : sOffer[o] = "queued"} \ (Sh!InQueue \cup Sh!Hands))
  BY <1>1, <1>2 DEF ShadowInv, ShadowCounted, ShadowDropped, ShadowSettled, Processed
<1>4. /\ Sh!Count(Sh!Compared) + Sh!Cardinality({w \in TargetWorker : sWork[w].pc = "compare"}) <= sSubmitted
      /\ sSubmitted <= Sh!Count(Sh!Compared \cup {"shadow_error"})
                         + Sh!Cardinality({w \in TargetWorker : sWork[w].pc = "compare"})
  BY <1>1, <1>2 DEF ShadowInv, ShadowCounted, ShadowComparing, Answered
<1> QED
  BY <1>3, <1>4 DEF ShadowInv, Sh!KindsAddUp

-----------------------------------------------------------------------------
(* Sorted sequences: every list of naturals has one, and one only *)

Occurs(x, s) == Cardinality({i \in DOMAIN s : s[i] = x})
Sorted(s) == \A i, j \in DOMAIN s : i < j => s[i] <= s[j]

\* p permutes the places in D.
Permutes(p, D) ==
  /\ p \in [D -> D]
  /\ \A i, j \in D : p[i] = p[j] => i = j
  /\ \A k \in D : \E i \in D : p[i] = k

\* A list of this length is put in order by a permutation of its places.
Sortable(n) ==
  \A v \in [1..n -> Nat] : \E p : Permutes(p, 1..n) /\ Sorted([i \in 1..n |-> v[p[i]]])

\* One place more, e: what stands at m goes there, and what stands there takes its
\* place among those that p permutes.
OneMore(r, p, D, e, m) ==
  /\ Permutes(r, D \cup {e}) /\ r[e] = m
  /\ \A i \in D : r[i] = IF p[i] = m THEN e ELSE p[i]

LEMMA OneMorePlace ==
  ASSUME NEW D, NEW e, e \notin D, NEW m, m \in D \cup {e}, NEW p, Permutes(p, D)
  PROVE  \E r : OneMore(r, p, D, e, m)
<1>1. p \in [D -> D] /\ (\A i, j \in D : p[i] = p[j] => i = j) /\ (\A k \in D : \E i \in D : p[i] = k)
  BY DEF Permutes
<1>2. PICK E : E = D \cup {e}
  OBVIOUS
<1>3. PICK r : r = [i \in E |-> IF i = e THEN m ELSE IF p[i] = m THEN e ELSE p[i]]
  OBVIOUS
<1>4. r \in [E -> E]
  BY <1>1, <1>2, <1>3
<1>5. r[e] = m /\ \A i \in D : r[i] = IF p[i] = m THEN e ELSE p[i]
  BY <1>2, <1>3
<1>6. \A i \in D : r[i] # m
  BY <1>1, <1>5
<1>7. \A i, j \in D : r[i] = r[j] => i = j
  BY <1>1, <1>5
<1>8. \A i, j \in E : r[i] = r[j] => i = j
  BY <1>2, <1>5, <1>6, <1>7
<1>9. ASSUME NEW k \in E PROVE \E i \in E : r[i] = k
  <2>1. CASE k = m
    BY <1>2, <1>5, <2>1
  <2>2. CASE k # m /\ k \in D
    <3>1. PICK i \in D : p[i] = k
      BY <1>1, <2>2
    <3> QED BY <1>2, <1>5, <2>2, <3>1
  <2>3. CASE k # m /\ k = e
    <3>1. PICK i \in D : p[i] = m
      BY <1>1, <2>3
    <3> QED BY <1>2, <1>5, <2>3, <3>1
  <2> QED BY <1>2, <2>1, <2>2, <2>3
<1>10. Permutes(r, E)
  BY <1>4, <1>8, <1>9 DEF Permutes
<1>11. OneMore(r, p, D, e, m)
  BY <1>2, <1>5, <1>10 DEF OneMore
<1> QED
  BY <1>11

\* The greatest value goes to the end.
LEMMA SortingStep ==
  ASSUME NEW n \in Nat, Sortable(n)
  PROVE  Sortable(n + 1)
<1> SUFFICES ASSUME NEW v \in [1..(n + 1) -> Nat]
             PROVE  \E r : Permutes(r, 1..(n + 1)) /\ Sorted([i \in 1..(n + 1) |-> v[r[i]]])
  BY DEF Sortable
<1>0. 1..(n + 1) = 1..n \cup {n + 1} /\ n + 1 \notin 1..n
  OBVIOUS
<1>1. PICK m \in 1..(n + 1) : \A i \in 1..(n + 1) : v[i] <= v[m]
  <2>1. IsFiniteSet(1..(n + 1))
    <3>1. 1 \in Int /\ n + 1 \in Int
      OBVIOUS
    <3> QED
      BY <3>1, FS_Interval
  <2>2. \A i \in 1..(n + 1) : v[i] \in Nat
    OBVIOUS
  <2>3. 1..(n + 1) # {}
    BY <1>0
  <2> QED
    BY <2>1, <2>2, <2>3, GreatestValue
<1>2. PICK u : u = [i \in 1..n |-> IF i = m THEN v[n + 1] ELSE v[i]]
  OBVIOUS
<1>3. u \in [1..n -> Nat] /\ \A i \in 1..n : u[i] = IF i = m THEN v[n + 1] ELSE v[i]
  BY <1>0, <1>2
<1>4. PICK p : Permutes(p, 1..n) /\ Sorted([i \in 1..n |-> u[p[i]]])
  BY <1>3 DEF Sortable
<1>5. \A i \in 1..n : p[i] \in 1..n
  BY <1>4 DEF Permutes
<1>6. PICK r : /\ Permutes(r, 1..n \cup {n + 1}) /\ r[n + 1] = m
               /\ \A i \in 1..n : r[i] = IF p[i] = m THEN n + 1 ELSE p[i]
  <2>1. PICK D : D = 1..n
    OBVIOUS
  <2>2. PICK e : e = n + 1
    OBVIOUS
  <2>3. e \notin D /\ m \in D \cup {e} /\ Permutes(p, D)
    BY <1>0, <1>4, <2>1, <2>2
  <2>4. \E r : OneMore(r, p, D, e, m)
    BY <2>3, OneMorePlace, Zenon
  <2> QED
    BY <2>1, <2>2, <2>4, Zenon DEF OneMore
<1>7. \A i \in 1..(n + 1) : r[i] \in 1..(n + 1)
  BY <1>0, <1>6 DEF Permutes
<1>8. \A i \in 1..n : v[r[i]] = u[p[i]]
  BY <1>3, <1>5, <1>6
<1>9. \A i, j \in 1..n : i < j => u[p[i]] <= u[p[j]]
  BY <1>4 DEF Sorted
<1>10. ASSUME NEW i \in 1..(n + 1), NEW j \in 1..(n + 1), i < j PROVE v[r[i]] <= v[r[j]]
  <2>1. i \in 1..n
    BY <1>10
  <2>2. CASE j = n + 1
    BY <1>1, <1>6, <1>7, <2>2
  <2>3. CASE j \in 1..n
    BY <1>8, <1>9, <1>10, <2>1, <2>3
  <2> QED
    BY <1>0, <2>2, <2>3
<1>11. Sorted([i \in 1..(n + 1) |-> v[r[i]]])
  BY <1>10 DEF Sorted
<1> QED
  BY <1>0, <1>6, <1>11

LEMMA SortingPermutation ==
  \A n \in Nat : Sortable(n)
<1> DEFINE Good == {n \in Nat : Sortable(n)}
<1>1. 0 \in Good
  <2> SUFFICES ASSUME NEW v \in [1..0 -> Nat]
               PROVE  \E p : Permutes(p, 1..0) /\ Sorted([i \in 1..0 |-> v[p[i]]])
    BY DEF Sortable
  <2>1. Permutes([i \in 1..0 |-> i], 1..0)
    BY DEF Permutes
  <2> QED
    BY <2>1 DEF Sorted
<1>2. \A n \in Good : n + 1 \in Good
  BY SortingStep
<1>3. Good = Nat
  <2> HIDE DEF Good
  <2> Good \subseteq Nat
    BY DEF Good
  <2> QED BY <1>1, <1>2, NaturalSetInduction
<1> QED
  BY <1>3

\* So the same members stand in the sorted list, as often.
LEMMA SortedExists ==
  ASSUME NEW n \in Nat, NEW v \in [1..n -> Nat]
  PROVE  \E s \in [1..n -> {v[i] : i \in 1..n}] : Sorted(s) /\ \A x : Occurs(x, s) = Occurs(x, v)
<1>1. PICK p : Permutes(p, 1..n) /\ Sorted([i \in 1..n |-> v[p[i]]])
  BY SortingPermutation DEF Sortable
<1>2. /\ \A i \in 1..n : p[i] \in 1..n
      /\ \A i, j \in 1..n : p[i] = p[j] => i = j
      /\ \A k \in 1..n : \E i \in 1..n : p[i] = k
  BY <1>1 DEF Permutes
<1>3. PICK s : s = [i \in 1..n |-> v[p[i]]]
  OBVIOUS
<1>4. s \in [1..n -> {v[i] : i \in 1..n}] /\ DOMAIN s = 1..n /\ DOMAIN v = 1..n
  BY <1>2, <1>3
<1>5. ASSUME NEW x PROVE Occurs(x, s) = Occurs(x, v)
  <2>1. PICK A : A = {i \in 1..n : s[i] = x}
    OBVIOUS
  <2>2. PICK B : B = {i \in 1..n : v[i] = x}
    OBVIOUS
  <2>3. PICK f : f = [i \in A |-> p[i]]
    OBVIOUS
  <2>4. \A i \in 1..n : s[i] = v[p[i]]
    BY <1>3
  <2>5. f \in [A -> B]
    BY <1>2, <2>1, <2>2, <2>3, <2>4
  <2>6. \A i, j \in A : f[i] = f[j] => i = j
    BY <1>2, <2>1, <2>3
  <2>7. \A k \in B : \E i \in A : f[i] = k
    <3> TAKE k \in B
    <3>1. PICK i \in 1..n : p[i] = k
      BY <1>2, <2>2
    <3>2. i \in A
      BY <2>1, <2>2, <2>4, <3>1
    <3> QED BY <2>3, <3>1, <3>2
  <2>8. f \in Bijection(A, B)
    BY <2>5, <2>6, <2>7 DEF Bijection, Injection, Surjection, IsInjective
  <2>9. IsFiniteSet(A)
    BY <2>1, FS_Interval, FS_Subset
  <2>10. Cardinality(A) = Cardinality(B)
    BY <2>8, <2>9, FS_Bijection DEF ExistsBijection
  <2> QED
    BY <1>4, <2>1, <2>2, <2>10 DEF Occurs
<1> QED
  BY <1>1, <1>3, <1>4, <1>5

\* Where two sorted lists part, the lesser member stands less often in the list
\* that has passed it.
LEMMA SortedPart ==
  ASSUME NEW m \in Nat, NEW n \in Nat, NEW a \in [1..n -> Nat], NEW b \in [1..m -> Nat],
         Sorted(b), NEW i \in 1..n, \A j \in 1..(i - 1) : j \in 1..m /\ a[j] = b[j],
         i \in 1..m => a[i] < b[i]
  PROVE  Occurs(a[i], b) < Occurs(a[i], a)
<1>1. PICK A : A = {j \in 1..n : a[j] = a[i]}
  OBVIOUS
<1>2. PICK B : B = {j \in 1..m : b[j] = a[i]}
  OBVIOUS
<1>3. B \subseteq A \ {i}
  <2> SUFFICES ASSUME NEW j \in B PROVE j \in A \ {i}
    OBVIOUS
  <2>1. j \in 1..m /\ b[j] = a[i] /\ a[i] \in Nat /\ b[j] \in Nat
    BY <1>2
  <2>2. j < i
    <3> SUFFICES ASSUME j >= i PROVE FALSE
      BY <2>1
    <3>1. i \in 1..m
      BY <2>1
    <3>2. a[i] < b[i] /\ b[i] \in Nat
      BY <3>1
    <3>3. i = j \/ b[i] <= b[j]
      BY <2>1, <3>1 DEF Sorted
    <3> QED
      BY <2>1, <3>2, <3>3
  <2>3. j \in 1..(i - 1) /\ j \in 1..n
    BY <2>1, <2>2
  <2> QED
    BY <1>1, <2>1, <2>2, <2>3
<1>4. IsFiniteSet(A) /\ i \in A
  BY <1>1, FS_Interval, FS_Subset
<1>5. Cardinality(A) \in Nat /\ Cardinality(A \ {i}) = Cardinality(A) - 1 /\ IsFiniteSet(A \ {i})
  BY <1>4, FS_RemoveElement, FS_CardinalityType
<1>6. Cardinality(B) <= Cardinality(A \ {i}) /\ Cardinality(B) \in Nat
  BY <1>3, <1>5, FS_Subset, FS_CardinalityType
<1>7. Cardinality(B) < Cardinality(A)
  BY <1>5, <1>6
<1>8. Occurs(a[i], b) = Cardinality(B) /\ Occurs(a[i], a) = Cardinality(A)
  BY <1>1, <1>2 DEF Occurs
<1> QED
  BY <1>7, <1>8

\* So two sorted lists of the same members are the same list.
LEMMA SortedUnique ==
  ASSUME NEW m \in Nat, NEW n \in Nat, NEW a \in [1..n -> Nat], NEW b \in [1..m -> Nat],
         Sorted(a), Sorted(b), \A x : Occurs(x, a) = Occurs(x, b)
  PROVE  a = b
<1> DEFINE Same == {k \in Nat : \A i \in 1..k : i \in 1..n \cup 1..m => i \in 1..n /\ i \in 1..m /\ a[i] = b[i]}
<1>1. 0 \in Same
  OBVIOUS
<1>2. ASSUME NEW k \in Same PROVE k + 1 \in Same
  <2>1. PICK i \in Nat : i = k + 1
    OBVIOUS
  <2>2. ASSUME i \in 1..n, ~(i \in 1..m /\ a[i] <= b[i] /\ b[i] <= a[i]), i \in 1..m => a[i] <= b[i]
        PROVE  FALSE
    <3>1. \A j \in 1..(i - 1) : j \in 1..m /\ a[j] = b[j]
      BY <2>1, <2>2
    <3>2. i \in 1..m => a[i] < b[i]
      BY <2>2
    <3>3. Occurs(a[i], b) < Occurs(a[i], a)
      BY <2>2, <3>1, <3>2, SortedPart
    <3>4. Occurs(a[i], b) = Occurs(a[i], a) /\ Occurs(a[i], a) \in Nat
      <4>1. {j \in DOMAIN a : a[j] = a[i]} \subseteq 1..n
        OBVIOUS
      <4>2. IsFiniteSet({j \in DOMAIN a : a[j] = a[i]})
        BY <4>1, FS_Interval, FS_Subset
      <4> QED
        BY <4>2, FS_CardinalityType DEF Occurs
    <3> QED
      BY <3>3, <3>4
  <2>3. ASSUME i \in 1..m, ~(i \in 1..n /\ a[i] <= b[i] /\ b[i] <= a[i]), i \in 1..n => b[i] <= a[i]
        PROVE  FALSE
    <3>1. \A j \in 1..(i - 1) : j \in 1..n /\ b[j] = a[j]
      BY <2>1, <2>3
    <3>2. i \in 1..n => b[i] < a[i]
      BY <2>3
    <3>3. Occurs(b[i], a) < Occurs(b[i], b)
      BY <2>3, <3>1, <3>2, SortedPart
    <3>4. Occurs(b[i], a) = Occurs(b[i], b) /\ Occurs(b[i], b) \in Nat
      <4>1. {j \in DOMAIN b : b[j] = b[i]} \subseteq 1..m
        OBVIOUS
      <4>2. IsFiniteSet({j \in DOMAIN b : b[j] = b[i]})
        BY <4>1, FS_Interval, FS_Subset
      <4> QED
        BY <4>2, FS_CardinalityType DEF Occurs
    <3> QED
      BY <3>3, <3>4
  <2>4. i \in 1..n \cup 1..m => i \in 1..n /\ i \in 1..m /\ a[i] = b[i]
    BY <2>2, <2>3
  <2>5. \A j \in 1..(k + 1) : j \in 1..k \/ j = i
    BY <2>1
  <2> QED
    BY <2>1, <2>4, <2>5
<1>3. Same = Nat
  <2> HIDE DEF Same
  <2> Same \subseteq Nat
    BY DEF Same
  <2> QED BY <1>1, <1>2, NaturalSetInduction
<1>4. \A i \in 1..n \cup 1..m : i \in 1..n /\ i \in 1..m /\ a[i] = b[i]
  <2> TAKE i \in 1..n \cup 1..m
  <2>1. i \in Nat
    OBVIOUS
  <2>2. i \in Same
    <3> HIDE DEF Same
    <3> QED BY <1>3, <2>1
  <2>3. i \in 1..i
    BY <2>1
  <2> QED BY <2>2, <2>3
<1>5. 1..n = 1..m
  BY <1>4
<1> QED
  BY <1>4, <1>5

-----------------------------------------------------------------------------
(* What Classify compares *)

\* A value no place holds stands there no time.
LEMMA OccursNowhere ==
  ASSUME NEW x, NEW s, \A i \in DOMAIN s : s[i] # x
  PROVE  Occurs(x, s) = 0
<1>1. {i \in DOMAIN s : s[i] = x} = {}
  OBVIOUS
<1> QED
  BY <1>1, FS_EmptySet DEF Occurs

LEMMA TimesIsOccurs ==
  ASSUME NEW x, NEW s
  PROVE  Sh!Times(x, s) = Occurs(x, s)
BY DEF Sh!Times, Occurs, Sh!Cardinality, Cardinality

\* The canonical form of a list of naturals is sorted, as long, and has the same
\* members as often.
LEMMA CanonSorts ==
  ASSUME NEW v \in Seq(Nat)
  PROVE  /\ Sh!Canon(v) \in [1..Len(v) -> Nat] /\ Sorted(Sh!Canon(v))
         /\ \A x : Occurs(x, Sh!Canon(v)) = Occurs(x, v)
<1>1. PICK n \in Nat : n = Len(v) /\ v \in [1..n -> Nat] /\ DOMAIN v = 1..n
  OBVIOUS
<1>2. PICK R : R = {v[i] : i \in 1..n}
  OBVIOUS
<1>3. Sh!Range(v) = R
  BY <1>1, <1>2 DEF Sh!Range
<1>4. PICK s \in [1..n -> R] : Sorted(s) /\ \A x : Occurs(x, s) = Occurs(x, v)
  BY <1>1, <1>2, SortedExists
<1>5. PICK c : c = Sh!Canon(v)
  OBVIOUS
<1>6. \E t \in [DOMAIN v -> Sh!Range(v)] :
        /\ \A i, j \in DOMAIN t : i < j => t[i] <= t[j]
        /\ \A x \in Sh!Range(v) : Sh!Times(x, t) = Sh!Times(x, v)
  <2>1. s \in [DOMAIN v -> Sh!Range(v)]
    BY <1>1, <1>3
  <2>2. \A i, j \in DOMAIN s : i < j => s[i] <= s[j]
    BY <1>4 DEF Sorted
  <2>3. \A x : Sh!Times(x, s) = Sh!Times(x, v)
    BY <1>4, TimesIsOccurs
  <2> QED
    BY <2>1, <2>2, <2>3
<1>7. /\ c \in [DOMAIN v -> Sh!Range(v)]
      /\ \A i, j \in DOMAIN c : i < j => c[i] <= c[j]
      /\ \A x \in Sh!Range(v) : Sh!Times(x, c) = Sh!Times(x, v)
  BY <1>5, <1>6 DEF Sh!Canon
<1>8. c \in [1..n -> R] /\ Sorted(c)
  BY <1>1, <1>3, <1>7 DEF Sorted
<1>9. ASSUME NEW x PROVE Occurs(x, c) = Occurs(x, v)
  <2>1. CASE x \in R
    BY <1>3, <1>7, <2>1, TimesIsOccurs
  <2>2. CASE x \notin R
    <3>1. \A i \in DOMAIN c : c[i] # x
      BY <1>8, <2>2
    <3>2. \A i \in DOMAIN v : v[i] # x
      BY <1>1, <1>2, <2>2
    <3> QED
      BY <3>1, <3>2, OccursNowhere
  <2> QED
    BY <2>1, <2>2
<1>10. c \in [1..n -> Nat]
  BY <1>1, <1>2, <1>8
<1> QED
  BY <1>1, <1>5, <1>8, <1>9, <1>10

\* The two lists have the same members as often, whatever their order.
SameBag(s, t) == \A x \in Sh!Range(s) \cup Sh!Range(t) : Sh!Times(x, s) = Sh!Times(x, t)

\* What is listed occurs, once in a list that names nothing twice.
LEMMA OccursListed ==
  ASSUME NEW s \in Seq(Nat), NEW x
  PROVE  /\ x \in Sh!Range(s) <=> Sh!Times(x, s) # 0
         /\ x \in Sh!Range(s) /\ Sh!Distinct(s) => Sh!Times(x, s) = 1
<1> DEFINE S == {i \in DOMAIN s : s[i] = x}
<1>1. Sh!Times(x, s) = Cardinality(S)
  BY TimesIsOccurs DEF Occurs
<1>2. IsFiniteSet(S)
  <2>1. Len(s) \in Nat /\ DOMAIN s = 1..Len(s)
    OBVIOUS
  <2>2. IsFiniteSet(1..Len(s))
    BY <2>1, FS_Interval
  <2> QED
    BY <2>1, <2>2, FS_Subset
<1>3. x \in Sh!Range(s) <=> S # {}
  BY DEF Sh!Range
<1>4. ASSUME x \in Sh!Range(s), Sh!Distinct(s) PROVE Cardinality(S) = 1
  <2>1. PICK i : S = {i}
    BY <1>4 DEF Sh!Range, Sh!Distinct
  <2> QED
    BY <2>1, FS_Singleton
<1> HIDE DEF S
<1>5. S = {} <=> Cardinality(S) = 0
  BY <1>2, FS_EmptySet
<1> QED
  BY <1>1, <1>3, <1>4, <1>5

\* Lists of the same members as often are of the same set; lists of the same
\* set that name nothing twice have its members as often.
LEMMA BagsAndSets ==
  ASSUME NEW u \in Seq(Nat), NEW v \in Seq(Nat)
  PROVE  /\ SameBag(u, v) => Sh!SameSet(u, v)
         /\ Sh!SameSet(u, v) /\ Sh!Distinct(u) /\ Sh!Distinct(v) => SameBag(u, v)
<1>1. ASSUME SameBag(u, v), NEW x PROVE x \in Sh!Range(u) <=> x \in Sh!Range(v)
  BY <1>1, OccursListed DEF SameBag
<1>2. Sh!SameSet(u, v) /\ Sh!Distinct(u) /\ Sh!Distinct(v) => SameBag(u, v)
  BY OccursListed DEF SameBag, Sh!SameSet
<1>3. SameBag(u, v) => Sh!Range(u) = Sh!Range(v)
  BY <1>1
<1> QED
  BY <1>2, <1>3 DEF Sh!SameSet

\* Two lists have the same canonical form when they have the same members as
\* often, and the empty list alone has an empty one.
LEMMA CanonTells ==
  ASSUME NEW u \in Seq(Nat), NEW v \in Seq(Nat)
  PROVE  /\ Sh!Canon(u) = Sh!Canon(v) <=> SameBag(u, v)
         /\ Sh!Canon(v) = <<>> <=> v = <<>>
<1>1. /\ Sh!Canon(u) \in [1..Len(u) -> Nat] /\ Sorted(Sh!Canon(u))
      /\ \A x : Occurs(x, Sh!Canon(u)) = Occurs(x, u)
  BY CanonSorts
<1>2. /\ Sh!Canon(v) \in [1..Len(v) -> Nat] /\ Sorted(Sh!Canon(v))
      /\ \A x : Occurs(x, Sh!Canon(v)) = Occurs(x, v)
  BY CanonSorts
<1>3. ASSUME Sh!Canon(u) = Sh!Canon(v) PROVE SameBag(u, v)
  <2>1. \A x : Occurs(x, u) = Occurs(x, v)
    BY <1>1, <1>2, <1>3
  <2> QED
    BY <2>1, TimesIsOccurs DEF SameBag
<1>4. ASSUME SameBag(u, v) PROVE Sh!Canon(u) = Sh!Canon(v)
  <2>1. ASSUME NEW x PROVE Occurs(x, u) = Occurs(x, v)
    <3>1. CASE x \in Sh!Range(u) \cup Sh!Range(v)
      BY <1>4, <3>1, TimesIsOccurs DEF SameBag
    <3>2. CASE x \notin Sh!Range(u) \cup Sh!Range(v)
      <4>1. (\A i \in DOMAIN u : u[i] # x) /\ \A i \in DOMAIN v : v[i] # x
        BY <3>2 DEF Sh!Range
      <4> QED
        BY <4>1, OccursNowhere
    <3> QED
      BY <3>1, <3>2
  <2>2. \A x : Occurs(x, Sh!Canon(u)) = Occurs(x, Sh!Canon(v))
    BY <1>1, <1>2, <2>1
  <2>3. Len(u) \in Nat /\ Len(v) \in Nat
    OBVIOUS
  <2> QED
    BY <1>1, <1>2, <2>2, <2>3, SortedUnique
<1>5. Sh!Canon(v) = <<>> <=> v = <<>>
  <2>1. DOMAIN Sh!Canon(v) = 1..Len(v) /\ Len(v) \in Nat /\ DOMAIN v = 1..Len(v)
    BY <1>2
  <2>2. ASSUME Sh!Canon(v) = <<>> PROVE v = <<>>
    <3>1. 1..Len(v) = {}
      BY <2>1, <2>2
    <3>2. Len(v) = 0
      <4>1. Len(v) # 0 => 1 \in 1..Len(v)
        BY <2>1
      <4> QED
        BY <3>1, <4>1
    <3> QED
      BY <3>2, EmptySeq
  <2>3. ASSUME v = <<>> PROVE Sh!Canon(v) = <<>>
    <3>1. Len(v) = 0
      BY <2>3
    <3>2. Sh!Canon(v) \in [1..0 -> Nat]
      BY <1>2, <3>1
    <3> QED
      BY <3>2
  <2> QED
    BY <2>2, <2>3
<1> QED
  BY <1>3, <1>4, <1>5

\* An answer's lists, and its canonical form.
LEMMA SetsOfAnswer ==
  ASSUME Sh!ShadowConstants, NEW a \in Answers \cup {NoAnswer}
  PROVE  /\ Sh!Outputs(a) \in Seq(Nat) /\ Sh!Coins(a) \in Seq(Nat)
         /\ Sh!Sets(a) = <<Sh!Canon(Sh!Outputs(a)), Sh!Canon(Sh!Coins(a))>>
<1>1. CASE a = NoAnswer
  <2>1. <<>> \in Seq(Nat)
    OBVIOUS
  <2>2. Sh!Canon(<<>>) = <<>>
    BY <2>1, CanonTells
  <2> QED
    BY <1>1, <2>1, <2>2 DEF Sh!Outputs, Sh!Coins, Sh!Sets
<1>2. CASE a # NoAnswer
  BY <1>2, ShadowSizes DEF Sh!Outputs, Sh!Coins, Sh!Sets
<1> QED
  BY <1>1, <1>2

\* What Classify says of two answers.
LEMMA ClassifyTells ==
  ASSUME Sh!ShadowConstants, NEW p \in Answers \cup {NoAnswer}, NEW s \in Answers \cup {NoAnswer}
  PROVE  /\ Sh!Classify(p, s) = "match"
              <=> SameBag(Sh!Outputs(p), Sh!Outputs(s)) /\ SameBag(Sh!Coins(p), Sh!Coins(s))
         /\ Sh!Classify(p, s) = "primary_only" <=> Sh!Nothing(s) /\ ~Sh!Nothing(p)
         /\ Sh!Classify(p, s) = "shadow_only" <=> Sh!Nothing(p) /\ ~Sh!Nothing(s)
<1>1. PICK mine : mine = Sh!Sets(p)
  OBVIOUS
<1>2. PICK theirs : theirs = Sh!Sets(s)
  OBVIOUS
<1>3. PICK empty : empty = <<<<>>, <<>>>>
  OBVIOUS
<1>4. /\ Sh!Outputs(p) \in Seq(Nat) /\ Sh!Coins(p) \in Seq(Nat)
      /\ mine = <<Sh!Canon(Sh!Outputs(p)), Sh!Canon(Sh!Coins(p))>>
  BY <1>1, SetsOfAnswer
<1>5. /\ Sh!Outputs(s) \in Seq(Nat) /\ Sh!Coins(s) \in Seq(Nat)
      /\ theirs = <<Sh!Canon(Sh!Outputs(s)), Sh!Canon(Sh!Coins(s))>>
  BY <1>2, SetsOfAnswer
<1>6. mine = theirs
        <=> SameBag(Sh!Outputs(p), Sh!Outputs(s)) /\ SameBag(Sh!Coins(p), Sh!Coins(s))
  <2>1. Sh!Canon(Sh!Outputs(p)) = Sh!Canon(Sh!Outputs(s)) <=> SameBag(Sh!Outputs(p), Sh!Outputs(s))
    BY <1>4, <1>5, CanonTells
  <2>2. Sh!Canon(Sh!Coins(p)) = Sh!Canon(Sh!Coins(s)) <=> SameBag(Sh!Coins(p), Sh!Coins(s))
    BY <1>4, <1>5, CanonTells
  <2> QED
    BY <1>4, <1>5, <2>1, <2>2
<1>7. mine = empty <=> Sh!Nothing(p)
  <2>1. Sh!Canon(Sh!Outputs(p)) = <<>> <=> Sh!Outputs(p) = <<>>
    BY <1>4, CanonTells
  <2>2. Sh!Canon(Sh!Coins(p)) = <<>> <=> Sh!Coins(p) = <<>>
    BY <1>4, CanonTells
  <2> QED
    BY <1>3, <1>4, <2>1, <2>2 DEF Sh!Nothing
<1>8. theirs = empty <=> Sh!Nothing(s)
  <2>1. Sh!Canon(Sh!Outputs(s)) = <<>> <=> Sh!Outputs(s) = <<>>
    BY <1>5, CanonTells
  <2>2. Sh!Canon(Sh!Coins(s)) = <<>> <=> Sh!Coins(s) = <<>>
    BY <1>5, CanonTells
  <2> QED
    BY <1>3, <1>5, <2>1, <2>2 DEF Sh!Nothing
<1>9. Sh!Classify(p, s) =
        CASE mine = theirs                   -> "match"
          [] mine # theirs /\ mine = empty   -> "shadow_only"
          [] mine # theirs /\ theirs = empty -> "primary_only"
          [] OTHER                           -> "differ"
  BY <1>1, <1>2, <1>3 DEF Sh!Classify
<1>10. /\ Sh!Classify(p, s) = "match" <=> mine = theirs
       /\ Sh!Classify(p, s) = "primary_only" <=> theirs = empty /\ mine # empty
       /\ Sh!Classify(p, s) = "shadow_only" <=> mine = empty /\ theirs # empty
  <2>1. CASE mine = theirs
    BY <1>9, <2>1
  <2>2. CASE mine # theirs /\ mine = empty
    BY <1>9, <2>2
  <2>3. CASE mine # theirs /\ mine # empty /\ theirs = empty
    BY <1>9, <2>3
  <2>4. CASE mine # theirs /\ mine # empty /\ theirs # empty
    BY <1>9, <2>4
  <2> QED
    BY <2>1, <2>2, <2>3, <2>4
<1> QED
  BY <1>6, <1>7, <1>8, <1>10

LEMMA ShadowVerdicts ==
  ASSUME Sh!ShadowConstants, ShadowInv
  PROVE  Sh!VerdictsRight
<1> SUFFICES ASSUME NEW v \in sVerdict
             PROVE  /\ v.kind = "match" => /\ Sh!SameSet(Sh!Outputs(v.p), Sh!Outputs(v.s))
                                           /\ Sh!SameSet(Sh!Coins(v.p), Sh!Coins(v.s))
                    /\ /\ \A a \in {v.p, v.s} : Sh!Distinct(Sh!Outputs(a)) /\ Sh!Distinct(Sh!Coins(a))
                       /\ Sh!SameSet(Sh!Outputs(v.p), Sh!Outputs(v.s))
                       /\ Sh!SameSet(Sh!Coins(v.p), Sh!Coins(v.s))
                       => v.kind = "match"
                    /\ v.kind = "primary_only" <=> Sh!Nothing(v.s) /\ ~Sh!Nothing(v.p)
                    /\ v.kind = "shadow_only" <=> Sh!Nothing(v.p) /\ ~Sh!Nothing(v.s)
  BY DEF Sh!VerdictsRight
<1>1. v.p \in Answers \cup {NoAnswer} /\ v.s \in Answers \cup {NoAnswer} /\ v.kind = Sh!Classify(v.p, v.s)
  BY DEF ShadowInv, ShadowJudged
<1>2. /\ Sh!Outputs(v.p) \in Seq(Nat) /\ Sh!Coins(v.p) \in Seq(Nat)
      /\ Sh!Outputs(v.s) \in Seq(Nat) /\ Sh!Coins(v.s) \in Seq(Nat)
  BY <1>1, SetsOfAnswer
<1>3. /\ v.kind = "match" <=> /\ SameBag(Sh!Outputs(v.p), Sh!Outputs(v.s))
                              /\ SameBag(Sh!Coins(v.p), Sh!Coins(v.s))
      /\ v.kind = "primary_only" <=> Sh!Nothing(v.s) /\ ~Sh!Nothing(v.p)
      /\ v.kind = "shadow_only" <=> Sh!Nothing(v.p) /\ ~Sh!Nothing(v.s)
  BY <1>1, ClassifyTells
<1>4. ASSUME v.kind = "match"
      PROVE  Sh!SameSet(Sh!Outputs(v.p), Sh!Outputs(v.s)) /\ Sh!SameSet(Sh!Coins(v.p), Sh!Coins(v.s))
  BY <1>2, <1>3, <1>4, BagsAndSets
<1>5. ASSUME \A a \in {v.p, v.s} : Sh!Distinct(Sh!Outputs(a)) /\ Sh!Distinct(Sh!Coins(a)),
             Sh!SameSet(Sh!Outputs(v.p), Sh!Outputs(v.s)), Sh!SameSet(Sh!Coins(v.p), Sh!Coins(v.s))
      PROVE  v.kind = "match"
  <2>1. /\ Sh!Distinct(Sh!Outputs(v.p)) /\ Sh!Distinct(Sh!Outputs(v.s))
        /\ Sh!Distinct(Sh!Coins(v.p)) /\ Sh!Distinct(Sh!Coins(v.s))
    BY <1>5
  <2>2. SameBag(Sh!Outputs(v.p), Sh!Outputs(v.s)) /\ SameBag(Sh!Coins(v.p), Sh!Coins(v.s))
    BY <1>2, <1>5, <2>1, BagsAndSets
  <2> QED
    BY <1>3, <2>2
<1> QED
  BY <1>3, <1>4, <1>5

-----------------------------------------------------------------------------
(* The targets together *)

TargetInv == AlsoInv /\ ShadowInv

LEMMA TargetsStep ==
  ASSUME Al!AlsoConstants, Sh!ShadowConstants, TargetInv,
         TargetNext \/ UNCHANGED targetVars
  PROVE  TargetInv'
<1>1. CASE Al!Next /\ UNCHANGED Sh!vars
  <2>1. AlsoInv'
    BY <1>1, AlsoNext DEF TargetInv
  <2>3. ShadowInv'
    BY <1>1, ShadowNext DEF TargetInv
  <2> QED
    BY <2>1, <2>3 DEF TargetInv
<1>2. CASE (Sh!Next \/ UNCHANGED Sh!vars) /\ UNCHANGED Al!vars
  <2>2. ShadowInv'
    BY <1>2, ShadowNext DEF TargetInv
  <2>3. /\ aOffer' = aOffer /\ aQ' = aQ /\ aBytes' = aBytes /\ aWork' = aWork /\ aResults' = aResults
        /\ aStarted' \in BOOLEAN /\ aDone' \in BOOLEAN
    BY <1>2 DEF Al!vars, TargetInv, AlsoInv, Al!TypeOK
  <2>4. AlsoInv'
    BY <2>3, AlsoStands DEF TargetInv
  <2> QED
    BY <2>2, <2>4 DEF TargetInv
<1> QED
  BY <1>1, <1>2 DEF TargetNext, targetVars, aVars, sVars, Al!vars, Sh!vars

LEMMA TargetsInvariant == TargetSpec => []TargetInv
<1>1. TargetInit => TargetInv
  BY AlsoInit, ShadowInit, AlsoAssumption, ShadowAssumption DEF TargetInit, TargetInv
<1>2. TargetInv /\ [TargetNext]_targetVars => TargetInv'
  BY TargetsStep, AlsoAssumption, ShadowAssumption
<1>3. TargetSpec => TargetInit /\ [][TargetNext]_targetVars
  BY DEF TargetSpec
<1> QED
  BY <1>1, <1>2, <1>3, PTL

\* The also target's byte counter is the sizes of what it holds, and what was
\* admitted keeps to the bound, however its offers, workers, retries and stop
\* interleave and whatever the workers, the sizes and the bounds are.
THEOREM AlsoBytesAccounted == TargetSpec => []TargetBytesAccounted
<1>1. TargetInv => TargetBytesAccounted
  BY AlsoHolds, AlsoAssumption DEF TargetInv, TargetBytesAccounted
<1> QED
  BY <1>1, TargetsInvariant, PTL

\* Every offer to either target is counted once, under one outcome: none is lost
\* between the queue, the workers and the counters, for any number of offers.
THEOREM TargetOffersCounted == TargetSpec => []EveryOfferCounted
<1>1. TargetInv => EveryOfferCounted
  BY AlsoHolds, ShadowHolds, AlsoAssumption, ShadowAssumption DEF TargetInv, EveryOfferCounted
<1> QED
  BY <1>1, TargetsInvariant, PTL

\* What the shadow counts as a match, as silence of one side or as neither is so,
\* for answers of any length: sorting both lists tells the same members from
\* others.
THEOREM ShadowVerdictsRight == TargetSpec => []VerdictsRight
<1>1. TargetInv => VerdictsRight
  BY ShadowVerdicts, ShadowAssumption DEF TargetInv, VerdictsRight
<1> QED
  BY <1>1, TargetsInvariant, PTL

=============================================================================
