--------------------------- MODULE UpTunnelProofs ---------------------------
(***************************************************************************)
(* Proofs about UpTunnel, for any set of records, any number of addresses  *)
(* and any resend budget, grace and fail-back time.                        *)
(*                                                                         *)
(* The ...Locked operators are composed in the actions, so what each does  *)
(* is stated once, as the relation Settles between the client before and   *)
(* after it, which is transitive.  The actions are then proved from these  *)
(* lemmas and never expand the operators again.                            *)
(***************************************************************************)
EXTENDS UpTunnel, TLAPS

\* Records the client keeps bytes of.
Held(k) == k.unconfirmed \cup k.resend

\* Records the client answers for: held, or settled.
Placed(k) == {r \in Record : r \in Held(k) \/ k.confirmed[r] > 0 \/ k.lost[r] > 0}

\* A client state in which each record is in one place at most.
ClientOK(k) ==
  /\ k \in Client
  /\ k.unconfirmed # {} => k.cur.open
  /\ ~k.cur.open => k.cur.written = 0
  /\ k.unconfirmed \cap k.resend = {}
  /\ \A r \in Held(k) :
       k.confirmed[r] = 0 /\ k.lost[r] = 0 /\ k.resends[r] <= MaxResends
  /\ \A r \in Record : k.confirmed[r] + k.lost[r] <= 1
  /\ \A r \in k.unconfirmed : k.end[r] <= k.cur.written

\* k2 settles or requeues records of k, with q unacknowledged, and writes
\* nothing.
Settles(k, k2, q) ==
  /\ ClientOK(k2)
  /\ Placed(k2) = Placed(k)
  /\ k2.unconfirmed \subseteq k.unconfirmed
  /\ k2.end = k.end
  /\ k2.cur.open => k.cur.open /\ k2.cur.written = k.cur.written
  /\ k2.cur.written \in {0, k.cur.written}
  /\ \A r \in Record :
       /\ k2.confirmed[r] > 0 =>
            \/ k.confirmed[r] > 0
            \/ r \in k.unconfirmed /\ (OutqKnown => k.end[r] <= k.cur.written - q)
       /\ k.confirmed[r] <= k2.confirmed[r]
       /\ k.lost[r] <= k2.lost[r]
       /\ k.resends[r] <= k2.resends[r]
       /\ r \notin Placed(k) => k2.resends[r] = k.resends[r]
       /\ r \in k2.resend =>
            r \in k.resend \/ (r \in k.unconfirmed /\ k.resends[r] + 1 <= k2.resends[r])

\* Records are lost only with their budget spent.
LosesSpent(k, k2) ==
  \A r \in Record : k2.lost[r] > 0 => k.lost[r] > 0 \/ k2.resends[r] > MaxResends

\* The inductive invariant.
IInv ==
  /\ TypeOK
  /\ ClientOK(c)
  /\ net.acked <= c.cur.written
  /\ ~c.cur.open => net.acked = 0
  /\ c.unconfirmed \subseteq hist.carried
  /\ \A r \in c.unconfirmed : c.end[r] <= net.acked => r \in hist.onHost
  /\ OutqKnown => \A r \in Record : c.confirmed[r] > 0 => r \in hist.onHost
  /\ op.kind = "send" => op.rec \in Record /\ returned[op.rec] = "no"
  /\ op.kind # "send" => op.rec = NoRecord /\ ~op.ok
  /\ op.attempt = 2 => ~c.cur.open
  /\ Placed(c) = Accepted
  /\ \A r \in Record :
       /\ hist.writes[r] <= MaxResends + 1
       /\ r \notin Accepted => hist.writes[r] = 0 /\ c.resends[r] = 0
       /\ r \in c.resend => hist.writes[r] <= c.resends[r]
       /\ r \in c.unconfirmed => hist.writes[r] <= c.resends[r] + 1
       /\ c.lost[r] > 0 => c.resends[r] > MaxResends \/ hist.closed

-----------------------------------------------------------------------------
(* The operators *)

\* CountedFor adds one call for the records of S and leaves the others.
LEMMA CountedForFields ==
  ASSUME NEW f \in [Record -> Nat], NEW S
  PROVE  /\ CountedFor(f, S) \in [Record -> Nat]
         /\ \A r \in S \cap Record : CountedFor(f, S)[r] = f[r] + 1
         /\ \A r \in Record \ S : CountedFor(f, S)[r] = f[r]
BY DEF CountedFor

\* The relation composes, so an action may chain the operators.
LEMMA SettlesTrans ==
  ASSUME NEW k, NEW k1, NEW k2, NEW q \in Int,
         ClientOK(k), Settles(k, k1, q), Settles(k1, k2, q)
  PROVE  Settles(k, k2, q)
<1> k \in Client /\ k1 \in Client /\ k2 \in Client
  BY DEF Settles, ClientOK
<1> USE DEF Client, Stream
<1>1. ASSUME NEW r \in Record, k2.confirmed[r] > 0
      PROVE  \/ k.confirmed[r] > 0
             \/ r \in k.unconfirmed /\ (OutqKnown => k.end[r] <= k.cur.written - q)
  <2>1. CASE k1.confirmed[r] > 0
    BY <2>1 DEF Settles
  <2>2. CASE r \in k1.unconfirmed /\ (OutqKnown => k1.end[r] <= k1.cur.written - q)
    BY <2>2 DEF Settles, ClientOK
  <2> QED BY <1>1, <2>1, <2>2 DEF Settles
<1>2. ASSUME NEW r \in Record
      PROVE  /\ k.confirmed[r] <= k2.confirmed[r]
             /\ k.lost[r] <= k2.lost[r]
             /\ k.resends[r] <= k2.resends[r]
             /\ r \notin Placed(k) => k2.resends[r] = k.resends[r]
             /\ r \in k2.resend =>
                  r \in k.resend \/ (r \in k.unconfirmed /\ k.resends[r] + 1 <= k2.resends[r])
  BY DEF Settles
<1> QED BY <1>1, <1>2 DEF Settles

\* A client state settles itself.
LEMMA SettlesSelf ==
  ASSUME NEW k, NEW q \in Int, ClientOK(k)
  PROVE  Settles(k, k, q) /\ LosesSpent(k, k)
BY DEF Settles, LosesSpent, ClientOK, Client, Stream

\* What requeueLocked does to the records of S, field by field.
LEMMA RequeueFields ==
  ASSUME NEW k \in Client, NEW S \in SUBSET Record
  PROVE  LET k2 == RequeueLocked(k, S) IN
         /\ k2 \in Client
         /\ k2.cur = k.cur /\ k2.idx = k.idx /\ k2.leftAt = k.leftAt
         /\ k2.unconfirmed = k.unconfirmed /\ k2.end = k.end
         /\ k2.confirmed = k.confirmed
         /\ k2.resend = k.resend \cup {r \in S : k.resends[r] + 1 <= MaxResends}
         /\ \A r \in Record :
              /\ k2.resends[r] = k.resends[r] + IF r \in S THEN 1 ELSE 0
              /\ k2.lost[r] = k.lost[r] + IF r \in S /\ k.resends[r] + 1 > MaxResends
                                          THEN 1 ELSE 0
<1> DEFINE spent == CountedFor(k.resends, S)
           gone  == {r \in S : spent[r] > MaxResends}
<1>1. k.resends \in [Record -> Nat] /\ k.lost \in [Record -> Nat]
  BY DEF Client
<1>2. spent \in [Record -> Nat] /\ CountedFor(k.lost, gone) \in [Record -> Nat]
  BY <1>1, CountedForFields
<1>3. \A r \in S : spent[r] = k.resends[r] + 1
  BY <1>1, CountedForFields
<1>4. RequeueLocked(k, S) =
        [k EXCEPT !.resends = spent, !.resend = @ \cup (S \ gone),
                  !.lost = CountedFor(k.lost, gone)]
  BY DEF RequeueLocked, LoseLocked, Client
<1>5. S \ gone = {r \in S : k.resends[r] + 1 <= MaxResends}
  BY <1>1, <1>2, <1>3, UpTunnelAssumption
<1> HIDE DEF spent, gone
<1>6. RequeueLocked(k, S) \in Client
  BY <1>2, <1>4 DEF Client
<1>7. RequeueLocked(k, S).resends = spent
  BY <1>4 DEF Client
<1>8. RequeueLocked(k, S).lost = CountedFor(k.lost, gone)
  BY <1>4 DEF Client
<1> USE DEF spent, gone
<1>9. \A r \in Record : spent[r] = k.resends[r] + IF r \in S THEN 1 ELSE 0
  BY <1>1 DEF CountedFor
<1>10. \A r \in Record :
         CountedFor(k.lost, gone)[r]
           = k.lost[r] + IF r \in S /\ k.resends[r] + 1 > MaxResends THEN 1 ELSE 0
  BY <1>1, <1>3 DEF CountedFor
<1> HIDE DEF spent, gone
<1> QED
  BY <1>4, <1>5, <1>6, <1>7, <1>8, <1>9, <1>10 DEF Client

\* requeueLocked applied to records that have just left the unconfirmed set.
LEMMA RequeueSettles ==
  ASSUME NEW k, NEW q \in Int, ClientOK(k), NEW S \in SUBSET Record, NEW base,
         ClientOK(base), base.end = k.end,
         base.unconfirmed \subseteq k.unconfirmed, base.resend \subseteq k.resend,
         base.resends = k.resends, base.lost = k.lost,
         base.cur.open => k.cur.open /\ base.cur.written = k.cur.written,
         base.cur.written \in {0, k.cur.written},
         S \cap Held(base) = {}, S \subseteq Held(k),
         \A r \in S : base.confirmed[r] = 0,
         Placed(base) \cup S = Placed(k),
         \A r \in Record :
           /\ k.confirmed[r] <= base.confirmed[r]
           /\ base.confirmed[r] > 0 =>
                \/ k.confirmed[r] > 0
                \/ r \in k.unconfirmed /\ (OutqKnown => k.end[r] <= k.cur.written - q)
  PROVE  Settles(k, RequeueLocked(base, S), q) /\ LosesSpent(k, RequeueLocked(base, S))
<1> DEFINE k2 == RequeueLocked(base, S)
<1> base \in Client /\ k \in Client
  BY DEF ClientOK
<1>1. /\ k2 \in Client
      /\ k2.cur = base.cur
      /\ k2.unconfirmed = base.unconfirmed /\ k2.end = base.end
      /\ k2.confirmed = base.confirmed
      /\ k2.resend = base.resend \cup {r \in S : base.resends[r] + 1 <= MaxResends}
      /\ \A r \in Record :
           /\ k2.resends[r] = base.resends[r] + IF r \in S THEN 1 ELSE 0
           /\ k2.lost[r] = base.lost[r] + IF r \in S /\ base.resends[r] + 1 > MaxResends
                                          THEN 1 ELSE 0
  BY RequeueFields
<1> HIDE DEF k2
<1> USE UpTunnelAssumption
<1>2. \A r \in S : base.lost[r] = 0
  BY DEF ClientOK
<1>3. ClientOK(k2)
  <2>1. (k2.unconfirmed # {} => k2.cur.open) /\ (~k2.cur.open => k2.cur.written = 0)
    BY <1>1 DEF ClientOK
  <2>2. k2.unconfirmed \cap k2.resend = {}
    BY <1>1 DEF ClientOK, Held
  <2>3. ASSUME NEW r \in Held(k2)
        PROVE  k2.confirmed[r] = 0 /\ k2.lost[r] = 0 /\ k2.resends[r] <= MaxResends
    <3>1. CASE r \in S
      BY <1>1, <1>2, <2>3, <3>1 DEF Held, Client
    <3>2. CASE r \notin S
      BY <1>1, <2>3, <3>2 DEF ClientOK, Held, Client
    <3> QED BY <3>1, <3>2
  <2>4. ASSUME NEW r \in Record
        PROVE  k2.confirmed[r] + k2.lost[r] <= 1
    <3>1. CASE r \in S
      BY <1>1, <1>2, <3>1 DEF Client
    <3>2. CASE r \notin S
      BY <1>1, <3>2 DEF ClientOK, Client
    <3> QED BY <3>1, <3>2
  <2>5. \A r \in k2.unconfirmed : k2.end[r] <= k2.cur.written
    BY <1>1 DEF ClientOK
  <2> QED BY <1>1, <2>1, <2>2, <2>3, <2>4, <2>5 DEF ClientOK
<1>4. \A r \in S : r \in k2.resend \/ k2.lost[r] > 0
  BY <1>1 DEF Client
<1>5. Placed(k2) = Placed(base) \cup S
  BY <1>1, <1>4 DEF Placed, Held, Client
<1>6. Settles(k, k2, q)
  <2>1. ASSUME NEW r \in Record, r \in k2.resend
        PROVE  r \in k.resend \/ (r \in k.unconfirmed /\ k.resends[r] + 1 <= k2.resends[r])
    BY <1>1, <2>1 DEF Held, Client
  <2>2. ASSUME NEW r \in Record
        PROVE  k.lost[r] <= k2.lost[r] /\ k.resends[r] <= k2.resends[r]
    BY <1>1 DEF Client
  <2>3. ASSUME NEW r \in Record, r \notin Placed(k)
        PROVE  k2.resends[r] = k.resends[r]
    BY <1>1, <2>3 DEF Client, Placed
  <2> QED BY <1>1, <1>3, <1>5, <2>1, <2>2, <2>3 DEF Settles
<1>7. LosesSpent(k, k2)
  BY <1>1 DEF LosesSpent, Client
<1> QED BY <1>6, <1>7 DEF k2

\* retireLocked settles the connection's records and leaves none on it.
LEMMA RetireSettles ==
  ASSUME NEW k, NEW q \in Int, ClientOK(k), NEW clean \in BOOLEAN
  PROVE  /\ Settles(k, RetireLocked(k, clean, q), q)
         /\ LosesSpent(k, RetireLocked(k, clean, q))
<1> k \in Client
  BY DEF ClientOK
<1> DEFINE known == clean /\ OutqKnown
           sure  == {r \in k.unconfirmed : known /\ k.end[r] <= k.cur.written - q}
           rest  == k.unconfirmed \ sure
           base  == ConfirmLocked([k EXCEPT !.cur = NoStream, !.unconfirmed = {}], sure)
<1>1. CASE ~k.cur.open
  BY <1>1, SettlesSelf DEF RetireLocked
<1>2. CASE k.cur.open
  <2>1. CountedFor(k.confirmed, sure) \in [Record -> Nat]
    BY CountedForFields DEF Client
  <2>2. base = [k EXCEPT !.cur = NoStream, !.unconfirmed = {},
                         !.confirmed = CountedFor(k.confirmed, sure)]
    BY DEF ConfirmLocked, Client
  <2>3. \A r \in Record :
          CountedFor(k.confirmed, sure)[r] = k.confirmed[r] + IF r \in sure THEN 1 ELSE 0
    BY DEF CountedFor
  <2>4. sure \subseteq k.unconfirmed /\ k.unconfirmed \subseteq Record
    BY DEF Client
  <2>5. \A r \in sure : OutqKnown => k.end[r] <= k.cur.written - q
    OBVIOUS
  <2>6. RetireLocked(k, clean, q) = RequeueLocked(base, rest)
    BY <1>2 DEF RetireLocked
  <2> HIDE DEF sure, base
  <2>a. NoStream \in Stream
    BY DEF NoStream, Stream
  <2>b. base \in Client
    BY <2>1, <2>2, <2>a DEF Client
  <2>c. base.confirmed = CountedFor(k.confirmed, sure)
    BY <2>2 DEF Client
  <2>7. /\ base \in Client
        /\ base.cur = NoStream /\ base.unconfirmed = {} /\ base.resend = k.resend
        /\ base.end = k.end /\ base.resends = k.resends /\ base.lost = k.lost
        /\ \A r \in Record : base.confirmed[r] = k.confirmed[r] + IF r \in sure THEN 1 ELSE 0
    BY <2>2, <2>3, <2>b, <2>c DEF Client
  <2>8. ClientOK(base)
    BY <2>4, <2>7 DEF ClientOK, Held, Client, NoStream
  <2>9. Placed(base) \cup rest = Placed(k)
    BY <2>4, <2>7 DEF Placed, Held, Client
  <2>10. \A r \in rest : base.confirmed[r] = 0
    BY <2>4, <2>7 DEF ClientOK, Held, Client
  <2>11. rest \cap Held(base) = {} /\ rest \subseteq Held(k) /\ rest \in SUBSET Record
    BY <2>4, <2>7 DEF ClientOK, Held
  <2>12. \A r \in Record :
           /\ k.confirmed[r] <= base.confirmed[r]
           /\ base.confirmed[r] > 0 =>
                \/ k.confirmed[r] > 0
                \/ r \in k.unconfirmed /\ (OutqKnown => k.end[r] <= k.cur.written - q)
    BY <2>4, <2>5, <2>7 DEF Client
  <2>13. base.cur.open = FALSE /\ base.cur.written = 0
    BY <2>7 DEF NoStream
  <2> HIDE DEF rest
  <2>14. /\ Settles(k, RequeueLocked(base, rest), q)
         /\ LosesSpent(k, RequeueLocked(base, rest))
    BY <2>7, <2>8, <2>9, <2>10, <2>11, <2>12, <2>13, RequeueSettles
  <2> QED BY <2>6, <2>14
<1> QED BY <1>1, <1>2

\* Whatever its records' fate, a retired connection is gone.
LEMMA RetireCloses ==
  ASSUME NEW k, ClientOK(k), NEW clean \in BOOLEAN, NEW q \in Int
  PROVE  ~RetireLocked(k, clean, q).cur.open
<1> k \in Client
  BY DEF ClientOK
<1> DEFINE known == clean /\ OutqKnown
           sure  == {r \in k.unconfirmed : known /\ k.end[r] <= k.cur.written - q}
           base  == ConfirmLocked([k EXCEPT !.cur = NoStream, !.unconfirmed = {}], sure)
<1>1. CASE ~k.cur.open
  BY <1>1 DEF RetireLocked
<1>2. CASE k.cur.open
  <2>1. CountedFor(k.confirmed, sure) \in [Record -> Nat] /\ NoStream \in Stream
    BY CountedForFields DEF Client, NoStream, Stream
  <2>2. base = [k EXCEPT !.cur = NoStream, !.unconfirmed = {},
                         !.confirmed = CountedFor(k.confirmed, sure)]
    BY DEF ConfirmLocked, Client
  <2>3. k.unconfirmed \ sure \in SUBSET Record
    BY DEF Client
  <2>4. RetireLocked(k, clean, q) = RequeueLocked(base, k.unconfirmed \ sure)
    BY <1>2 DEF RetireLocked
  <2> HIDE DEF sure, base
  <2>5. base \in Client /\ base.cur = NoStream
    BY <2>1, <2>2 DEF Client
  <2>6. RequeueLocked(base, k.unconfirmed \ sure).cur = NoStream
    BY <2>3, <2>5, RequeueFields
  <2> QED BY <2>4, <2>6 DEF NoStream
<1> QED BY <1>1, <1>2

\* chargeResendsLocked spends one resend on every waiting record.
LEMMA ChargeSettles ==
  ASSUME NEW k, NEW q \in Int, ClientOK(k)
  PROVE  Settles(k, ChargeResendsLocked(k), q) /\ LosesSpent(k, ChargeResendsLocked(k))
<1> k \in Client
  BY DEF ClientOK
<1> DEFINE base == [k EXCEPT !.resend = {}]
<1>1. /\ base \in Client
      /\ base.resend = {}
      /\ base.cur = k.cur /\ base.unconfirmed = k.unconfirmed
      /\ base.end = k.end /\ base.resends = k.resends /\ base.lost = k.lost
      /\ base.confirmed = k.confirmed
  BY DEF Client
<1>2. ChargeResendsLocked(k) = RequeueLocked(base, k.resend)
  BY DEF ChargeResendsLocked
<1> HIDE DEF base
<1>3. ClientOK(base) /\ Placed(base) \cup k.resend = Placed(k)
  BY <1>1 DEF ClientOK, Placed, Held, Client
<1>4. k.resend \cap Held(base) = {} /\ k.resend \subseteq Held(k) /\ k.resend \in SUBSET Record
  BY <1>1 DEF ClientOK, Held, Client
<1>5. \A r \in k.resend : base.confirmed[r] = 0
  BY <1>1 DEF ClientOK, Held
<1>6. \A r \in Record : k.confirmed[r] <= base.confirmed[r]
  BY <1>1 DEF Client
<1>7. base.cur.open = k.cur.open /\ base.cur.written = k.cur.written
  BY <1>1
<1> QED BY <1>1, <1>2, <1>3, <1>4, <1>5, <1>6, <1>7, RequeueSettles

\* Charging the waiting records is no business of the connection.
LEMMA ChargeKeepsCur ==
  ASSUME NEW k \in Client
  PROVE  ChargeResendsLocked(k).cur = k.cur
<1> DEFINE base == [k EXCEPT !.resend = {}]
<1>1. base \in Client /\ base.cur = k.cur /\ k.resend \in SUBSET Record
  BY DEF Client
<1>2. ChargeResendsLocked(k) = RequeueLocked(base, k.resend)
  BY DEF ChargeResendsLocked
<1> HIDE DEF base
<1> QED BY <1>1, <1>2, RequeueFields

\* advanceLocked moves the address and the fail-back clock and nothing else.
LEMMA AdvanceFields ==
  ASSUME NEW k \in Client
  PROVE  LET k2 == AdvanceLocked(k) IN
         /\ k2 \in Client
         /\ k2.cur = k.cur /\ k2.unconfirmed = k.unconfirmed /\ k2.resend = k.resend
         /\ k2.end = k.end /\ k2.resends = k.resends
         /\ k2.confirmed = k.confirmed /\ k2.lost = k.lost
<1> USE UpTunnelAssumption
<1>1. CASE NAddr <= 1
  BY <1>1 DEF AdvanceLocked
<1>2. CASE NAddr > 1
  <2> DEFINE next == (k.idx + 1) % NAddr
             left == IF next = 0 THEN Unset ELSE IF k.leftAt = Unset THEN 0 ELSE k.leftAt
  <2>1. k.idx \in Nat
    BY DEF Client
  <2>2. next \in Nat
    BY <1>2, <2>1
  <2>3. left \in Nat \cup {Unset}
    BY DEF Client
  <2>4. AdvanceLocked(k) = [k EXCEPT !.idx = next, !.leftAt = left]
    BY <1>2 DEF AdvanceLocked, Client
  <2> HIDE DEF next, left
  <2> QED BY <2>2, <2>3, <2>4 DEF Client
<1> QED BY <1>1, <1>2

\* A change of address settles nothing.
LEMMA AdvanceSettles ==
  ASSUME NEW k, NEW q \in Int, ClientOK(k)
  PROVE  Settles(k, AdvanceLocked(k), q) /\ LosesSpent(k, AdvanceLocked(k))
<1> DEFINE k2 == AdvanceLocked(k)
<1> k \in Client
  BY DEF ClientOK
<1>1. /\ k2 \in Client
      /\ k2.cur = k.cur /\ k2.unconfirmed = k.unconfirmed /\ k2.resend = k.resend
      /\ k2.end = k.end /\ k2.resends = k.resends
      /\ k2.confirmed = k.confirmed /\ k2.lost = k.lost
  BY AdvanceFields
<1> HIDE DEF k2
<1>2. ClientOK(k2) /\ Placed(k2) = Placed(k)
  BY <1>1 DEF ClientOK, Placed, Held
<1>3. Settles(k, k2, q)
  BY <1>1, <1>2 DEF Settles, Client, Stream
<1>4. LosesSpent(k, k2)
  BY <1>1 DEF LosesSpent
<1> QED BY <1>3, <1>4 DEF k2

\* Losing only spent records composes as Settles does.
LEMMA LosesSpentTrans ==
  ASSUME NEW k, NEW k1, NEW k2, NEW q \in Int,
         Settles(k, k1, q), Settles(k1, k2, q), LosesSpent(k, k1), LosesSpent(k1, k2)
  PROVE  LosesSpent(k, k2)
<1> k1 \in Client /\ k2 \in Client
  BY DEF Settles, ClientOK
<1>1. \A r \in Record : k1.resends[r] > MaxResends => k2.resends[r] > MaxResends
  BY UpTunnelAssumption DEF Settles, Client
<1> QED BY <1>1 DEF LosesSpent

\* A failed write confirms nothing, whatever the peer had acknowledged.
LEMMA RetireUnclean ==
  ASSUME NEW k \in Client, NEW q
  PROVE  RetireLocked(k, FALSE, 0) = RetireLocked(k, FALSE, q)
<1>1. {r \in k.unconfirmed : (FALSE /\ OutqKnown) /\ k.end[r] <= k.cur.written - 0}
        = {r \in k.unconfirmed : (FALSE /\ OutqKnown) /\ k.end[r] <= k.cur.written - q}
  OBVIOUS
<1> QED BY <1>1, Zenon DEF RetireLocked

\* A failed write retires the connection uncleanly and moves on.
LEMMA BreakSettles ==
  ASSUME NEW k, ClientOK(k), NEW q \in Int
  PROVE  /\ Settles(k, BreakLocked(k), q) /\ LosesSpent(k, BreakLocked(k))
         /\ ~BreakLocked(k).cur.open
<1> DEFINE k1 == RetireLocked(k, FALSE, q)
<1>0. FALSE \in BOOLEAN
  OBVIOUS
<1>1. Settles(k, k1, q) /\ LosesSpent(k, k1)
  BY <1>0, RetireSettles, Zenon
<1>2. ~k1.cur.open
  BY <1>0, RetireCloses, Zenon
<1>3. BreakLocked(k) = AdvanceLocked(k1)
  BY RetireUnclean, Zenon DEF BreakLocked, ClientOK
<1> HIDE DEF k1
<1>4. ClientOK(k1) /\ k1 \in Client
  BY <1>1 DEF Settles, ClientOK
<1>5. Settles(k1, AdvanceLocked(k1), q) /\ LosesSpent(k1, AdvanceLocked(k1))
  BY <1>4, AdvanceSettles
<1>6. AdvanceLocked(k1).cur = k1.cur
  BY <1>4, AdvanceFields
<1> QED
  BY <1>1, <1>2, <1>3, <1>5, <1>6, SettlesTrans, LosesSpentTrans

\* reapLocked retires a connection its reader has declared dead.
LEMMA ReapSettles ==
  ASSUME NEW k, NEW q \in Int, ClientOK(k)
  PROVE  Settles(k, ReapLocked(k, q), q) /\ LosesSpent(k, ReapLocked(k, q))
<1> DEFINE k1 == RetireLocked(k, k.cur.clean, q)
<1> k.cur.clean \in BOOLEAN
  BY DEF ClientOK, Client, Stream
<1>1. Settles(k, k1, q) /\ LosesSpent(k, k1)
  BY RetireSettles
<1>2. Settles(k1, AdvanceLocked(k1), q) /\ LosesSpent(k1, AdvanceLocked(k1))
  BY <1>1, AdvanceSettles DEF Settles
<1>3. ReapLocked(k, q) \in {k, k1, AdvanceLocked(k1)}
  BY DEF ReapLocked
<1> HIDE DEF k1
<1> QED
  BY <1>1, <1>2, <1>3, SettlesSelf, SettlesTrans, LosesSpentTrans

\* pollLocked confirms acknowledged records and touches nothing else.
LEMMA PollSettles ==
  ASSUME NEW k, NEW q \in Int, ClientOK(k), k.cur.written - q \in Nat
  PROVE  /\ Settles(k, PollLocked(k, q), q) /\ LosesSpent(k, PollLocked(k, q))
         /\ PollLocked(k, q).cur.open = k.cur.open
         /\ PollLocked(k, q).resend = k.resend
<1> k \in Client
  BY DEF ClientOK
<1> DEFINE acked == PollAcked(k, q)
           over  == Cardinality(k.unconfirmed) > MaxUnconfirmed
           Stops(r) == k.end[r] > acked \/ (~over /\ k.at[r] < Grace)
           sure  == {r \in k.unconfirmed :
                       \A s \in k.unconfirmed : k.end[s] <= k.end[r] => ~Stops(s)}
           k2 == PollLocked(k, q)
<1>1. CASE ~(k.cur.open /\ k.unconfirmed # {})
  BY <1>1, SettlesSelf DEF PollLocked
<1>2. CASE k.cur.open /\ k.unconfirmed # {}
  <2>1. acked \in Nat /\ (OutqKnown => acked = k.cur.written - q)
    BY DEF PollAcked, Client, Stream
  <2>2. \A r \in sure : OutqKnown => k.end[r] <= k.cur.written - q
    <3>1. \A r \in sure : ~Stops(r)
      BY DEF Client
    <3> QED BY <3>1, <2>1 DEF Client
  <2>3. sure \subseteq k.unconfirmed /\ k.unconfirmed \subseteq Record
    BY DEF Client
  <2>4. CountedFor(k.confirmed, sure) \in [Record -> Nat]
    BY CountedForFields DEF Client
  <2>5. \A r \in Record :
          CountedFor(k.confirmed, sure)[r] = k.confirmed[r] + IF r \in sure THEN 1 ELSE 0
    BY DEF CountedFor
  <2>6. k2 = [k EXCEPT !.cur = [k.cur EXCEPT !.acked = acked],
                       !.unconfirmed = k.unconfirmed \ sure,
                       !.confirmed = CountedFor(k.confirmed, sure)]
    BY <1>2 DEF PollLocked, ConfirmLocked, Client, Stream
  <2> HIDE DEF sure, acked, k2
  <2>7. [k.cur EXCEPT !.acked = acked] \in Stream
    BY <2>1 DEF Client, Stream
  <2>8. k2 \in Client
    BY <2>4, <2>6, <2>7 DEF Client
  <2>9. /\ k2.cur.open = k.cur.open /\ k2.cur.written = k.cur.written
        /\ k2.unconfirmed = k.unconfirmed \ sure /\ k2.resend = k.resend
        /\ k2.end = k.end /\ k2.resends = k.resends /\ k2.lost = k.lost
    BY <2>6 DEF Client, Stream
  <2>10. k2.confirmed = CountedFor(k.confirmed, sure)
    BY <2>6 DEF Client
  <2>11. \A r \in Record : k2.confirmed[r] = k.confirmed[r] + IF r \in sure THEN 1 ELSE 0
    BY <2>5, <2>10
  <2>12. ClientOK(k2)
    <3>1. \A r \in Record : k2.confirmed[r] + k2.lost[r] <= 1
      BY <2>3, <2>9, <2>11 DEF ClientOK, Held, Client
    <3> QED BY <1>2, <2>3, <2>8, <2>9, <2>11, <3>1 DEF ClientOK, Held, Client
  <2>13. Placed(k2) = Placed(k)
    BY <2>3, <2>9, <2>11 DEF Placed, Held, Client
  <2>14. Settles(k, k2, q)
    <3>1. ASSUME NEW r \in Record
          PROVE  /\ k.confirmed[r] <= k2.confirmed[r]
                 /\ k2.confirmed[r] > 0 =>
                      \/ k.confirmed[r] > 0
                      \/ r \in k.unconfirmed /\ (OutqKnown => k.end[r] <= k.cur.written - q)
      BY <2>2, <2>3, <2>11 DEF Client
    <3>2. ASSUME NEW r \in Record
          PROVE  k.lost[r] <= k2.lost[r] /\ k.resends[r] <= k2.resends[r]
      BY <2>9 DEF Client
    <3> QED BY <2>9, <2>12, <2>13, <3>1, <3>2 DEF Settles
  <2>15. LosesSpent(k, k2)
    BY <2>9 DEF LosesSpent
  <2> QED BY <2>9, <2>14, <2>15 DEF k2
<1> QED BY <1>1, <1>2

\* Fail-back drops a connection only when it carries nothing unconfirmed.
LEMMA FailBackSettles ==
  ASSUME NEW k, NEW q \in Int, ClientOK(k)
  PROVE  /\ Settles(k, MaybeFailBackLocked(k), q)
         /\ LosesSpent(k, MaybeFailBackLocked(k))
<1> k \in Client
  BY DEF ClientOK
<1> DEFINE k2 == [k EXCEPT !.idx = 0, !.leftAt = Unset, !.cur = NoStream]
<1>1. CASE MaybeFailBackLocked(k) = k
  BY <1>1, SettlesSelf
<1>2. CASE MaybeFailBackLocked(k) # k
  <2>1. MaybeFailBackLocked(k) = k2 /\ ~(k.cur.open /\ k.unconfirmed # {})
    BY <1>2 DEF MaybeFailBackLocked
  <2>2. k.unconfirmed = {}
    BY <2>1 DEF ClientOK
  <2>3. NoStream \in Stream /\ NoStream.open = FALSE /\ NoStream.written = 0
    BY DEF NoStream, Stream
  <2>4. /\ k2 \in Client
        /\ k2.cur = NoStream /\ k2.unconfirmed = k.unconfirmed /\ k2.resend = k.resend
        /\ k2.end = k.end /\ k2.resends = k.resends
        /\ k2.confirmed = k.confirmed /\ k2.lost = k.lost
    BY <2>3 DEF Client
  <2> HIDE DEF k2
  <2>5. ClientOK(k2) /\ Placed(k2) = Placed(k)
    BY <2>2, <2>3, <2>4 DEF ClientOK, Placed, Held
  <2>6. Settles(k, k2, q) /\ LosesSpent(k, k2)
    BY <2>3, <2>4, <2>5 DEF Settles, LosesSpent, Client
  <2> QED BY <2>1, <2>6
<1> QED BY <1>1, <1>2

\* Close settles every record, with or without its resends spent.
LEMMA CloseSettles ==
  ASSUME NEW k, NEW q \in Int, ClientOK(k)
  PROVE  Settles(k, CloseLocked(k, q), q) /\ ~CloseLocked(k, q).cur.open
<1> k \in Client
  BY DEF ClientOK
<1> DEFINE acked == IF OutqKnown THEN k.cur.written - q ELSE k.cur.acked
           sure  == IF k.cur.open THEN {r \in k.unconfirmed : k.end[r] <= acked} ELSE {}
           gone  == (k.unconfirmed \ sure) \cup k.resend
           yes   == CountedFor(k.confirmed, sure)
           no    == CountedFor(CountedFor(k.lost, k.unconfirmed \ sure), k.resend)
           k2    == CloseLocked(k, q)
<1>1. sure \subseteq k.unconfirmed /\ k.unconfirmed \subseteq Record /\ k.resend \subseteq Record
  BY DEF Client
<1>2. yes \in [Record -> Nat] /\ no \in [Record -> Nat]
  BY CountedForFields DEF Client
<1>3. \A r \in Record : yes[r] = k.confirmed[r] + IF r \in sure THEN 1 ELSE 0
  BY DEF CountedFor
<1>4. \A r \in Record : no[r] = k.lost[r] + IF r \in gone THEN 1 ELSE 0
  <2>1. k.unconfirmed \cap k.resend = {}
    BY DEF ClientOK
  <2> HIDE DEF sure
  <2>2. \A r \in Record : no[r] = k.lost[r] + (IF r \in k.unconfirmed \ sure THEN 1 ELSE 0)
                                    + IF r \in k.resend THEN 1 ELSE 0
    BY DEF CountedFor
  <2> QED BY <2>1, <2>2 DEF Client
<1>5. NoStream \in Stream /\ NoStream.open = FALSE /\ NoStream.written = 0
  BY DEF NoStream, Stream
<1>6. \A r \in sure : OutqKnown => k.end[r] <= k.cur.written - q
  OBVIOUS
<1>7. /\ k2.resend = {} /\ k2.end = k.end /\ k2.resends = k.resends
      /\ k2.lost = no /\ k2.confirmed = yes /\ k2.unconfirmed = {} /\ ~k2.cur.open
      /\ k2.cur.written = 0
      /\ k2 \in Client
  <2>1. CASE k.cur.open
    <3>1. k2 = [k EXCEPT !.cur = NoStream, !.unconfirmed = {}, !.confirmed = yes,
                         !.lost = no, !.resend = {}]
      BY <2>1 DEF CloseLocked, LoseLocked, ConfirmLocked, Client
    <3> HIDE DEF yes, no, k2
    <3> QED BY <1>2, <1>5, <3>1 DEF Client
  <2>2. CASE ~k.cur.open
    <3>1. k.unconfirmed = {} /\ k.cur.written = 0
      BY <2>2 DEF ClientOK
    <3>2. sure = {}
      BY <2>2
    <3>3. k2 = [k EXCEPT !.resend = {}, !.lost = CountedFor(k.lost, k.resend)]
      BY <2>2 DEF CloseLocked, LoseLocked, Client
    <3>4. CountedFor(k.lost, k.resend) \in [Record -> Nat]
      BY CountedForFields DEF Client
    <3>5. \A r \in Record : CountedFor(k.lost, k.resend)[r] = no[r]
      BY <1>4, <3>1 DEF CountedFor
    <3> HIDE DEF yes, no, k2, sure
    <3>6. CountedFor(k.lost, k.resend) = no
      BY <1>2, <3>4, <3>5
    <3>7. yes = k.confirmed
      BY <1>2, <1>3, <3>2 DEF Client
    <3> QED BY <2>2, <3>1, <3>3, <3>4, <3>6, <3>7 DEF Client
  <2> QED BY <2>1, <2>2
<1> HIDE DEF sure, k2, yes, no
<1>8. ClientOK(k2)
  <2>1. ASSUME NEW r \in Record
        PROVE  k2.confirmed[r] + k2.lost[r] <= 1
    BY <1>1, <1>3, <1>4, <1>7 DEF ClientOK, Held, Client
  <2> QED BY <1>7, <2>1 DEF ClientOK, Held
<1>9. Placed(k2) = Placed(k)
  BY <1>1, <1>3, <1>4, <1>7 DEF Placed, Held, Client
<1>10. ASSUME NEW r \in Record
       PROVE  /\ k.confirmed[r] <= k2.confirmed[r] /\ k.lost[r] <= k2.lost[r]
              /\ k.resends[r] <= k2.resends[r]
              /\ k2.confirmed[r] > 0 =>
                   \/ k.confirmed[r] > 0
                   \/ r \in k.unconfirmed /\ (OutqKnown => k.end[r] <= k.cur.written - q)
  BY <1>1, <1>3, <1>4, <1>6, <1>7 DEF Client
<1> QED BY <1>7, <1>8, <1>9, <1>10 DEF Settles, k2

\* A write leaves the client well typed and the resend set alone.
LEMMA WriteInClient ==
  ASSUME NEW k \in Client, NEW r \in Record
  PROVE  WriteLocked(k, r) \in Client /\ WriteLocked(k, r).resend = k.resend
<1> DEFINE cur2 == [k.cur EXCEPT !.written = @ + 1]
           end2 == [k.end EXCEPT ![r] = k.cur.written + 1]
           at2 == [k.at EXCEPT ![r] = 0]
           order2 == [k.order EXCEPT ![r] = k.written + 1]
           k2 == WriteLocked(k, r)
<1>1. cur2 \in Stream /\ end2 \in [Record -> Nat] /\ at2 \in [Record -> Nat]
        /\ order2 \in [Record -> Nat] /\ k.written + 1 \in Nat
  BY DEF Client, Stream
<1>2. k2 = [k EXCEPT !.cur = cur2, !.end = end2, !.at = at2, !.order = order2,
                     !.unconfirmed = k.unconfirmed \cup {r}, !.written = k.written + 1]
  BY DEF WriteLocked, Client, Stream
<1> HIDE DEF cur2, end2, at2, order2, k2
<1>3. k2 \in Client /\ k2.resend = k.resend
  BY <1>1, <1>2 DEF Client
<1> QED BY <1>3 DEF k2

\* What writing r, and taking it off the resend set, does to the client.
LEMMA WriteFields ==
  ASSUME NEW k, ClientOK(k), k.cur.open, NEW r \in Record
  PROVE  LET k2 == FlushResendLocked(k, r) IN
         /\ k2 \in Client
         /\ k2.cur = [k.cur EXCEPT !.written = @ + 1]
         /\ k2.unconfirmed = k.unconfirmed \cup {r}
         /\ k2.resend = k.resend \ {r}
         /\ k2.end = [k.end EXCEPT ![r] = k.cur.written + 1]
         /\ k2.resends = k.resends /\ k2.confirmed = k.confirmed /\ k2.lost = k.lost
<1> k \in Client
  BY DEF ClientOK
<1> DEFINE cur2 == [k.cur EXCEPT !.written = @ + 1]
           end2 == [k.end EXCEPT ![r] = k.cur.written + 1]
           at2 == [k.at EXCEPT ![r] = 0]
           order2 == [k.order EXCEPT ![r] = k.written + 1]
           k2 == FlushResendLocked(k, r)
<1>1. cur2 \in Stream /\ end2 \in [Record -> Nat] /\ at2 \in [Record -> Nat]
        /\ order2 \in [Record -> Nat] /\ k.written + 1 \in Nat
  BY DEF Client, Stream
<1>2. k2 = [k EXCEPT !.cur = cur2, !.end = end2, !.at = at2, !.order = order2,
                     !.unconfirmed = k.unconfirmed \cup {r}, !.resend = k.resend \ {r},
                     !.written = k.written + 1]
  BY DEF FlushResendLocked, WriteLocked, Client, Stream
<1> HIDE DEF cur2, end2, at2, order2, k2
<1>3. /\ k2 \in Client
      /\ k2.cur = cur2
      /\ k2.unconfirmed = k.unconfirmed \cup {r}
      /\ k2.resend = k.resend \ {r}
      /\ k2.end = end2
      /\ k2.resends = k.resends /\ k2.confirmed = k.confirmed /\ k2.lost = k.lost
  BY <1>1, <1>2 DEF Client
<1> QED BY <1>3 DEF k2, cur2, end2

-----------------------------------------------------------------------------
(* The actions *)

\* The operation and the results: what the invariant says of them.
OpOK ==
  /\ op.kind = "send" => op.rec \in Record /\ returned[op.rec] = "no"
  /\ op.kind # "send" => op.rec = NoRecord /\ ~op.ok
  /\ op.attempt = 2 => ~c.cur.open

\* What the send queue reads is an integer, and the acknowledged offset.
LEMMA UnsentFact ==
  ASSUME IInv
  PROVE  /\ UnsentBytes \in Int /\ c.cur.written - UnsentBytes = net.acked
         /\ c.cur.written - UnsentBytes \in Nat
BY DEF IInv, TypeOK, Client, Stream, Network, UnsentBytes

\* A step that only settles records keeps the invariant.
LEMMA SettleStep ==
  ASSUME IInv, NEW k, Settles(c, k, UnsentBytes), c' = k,
         LosesSpent(c, k) \/ hist'.closed,
         net' \in Network, k.cur.open => net' = net, ~k.cur.open => net'.acked = 0,
         hist' \in History, hist'.writes = hist.writes, hist'.onHost = hist.onHost,
         k.cur.open => hist'.carried = hist.carried, hist.closed => hist'.closed,
         op' \in Operations, returned' \in [Record -> Returns], OpOK',
         Accepted' = Accepted
  PROVE  IInv'
<1> k \in Client /\ ClientOK(k) /\ c \in Client
  BY DEF Settles, ClientOK, IInv, TypeOK
<1> net \in Network /\ hist \in History
  BY DEF IInv, TypeOK
<1>1. TypeOK'
  BY DEF TypeOK
<1>2. ClientOK(c)'
  OBVIOUS
<1>3. (net.acked <= c.cur.written)' /\ (~c.cur.open => net.acked = 0)'
  BY DEF IInv, Settles, Network, Client, Stream
<1>4. (c.unconfirmed \subseteq hist.carried)'
  BY DEF IInv, Settles, ClientOK
<1>5. (\A r \in c.unconfirmed : c.end[r] <= net.acked => r \in hist.onHost)'
  BY DEF IInv, Settles, ClientOK
<1>6. (OutqKnown => \A r \in Record : c.confirmed[r] > 0 => r \in hist.onHost)'
  BY UnsentFact DEF IInv, Settles
<1>7. (Placed(c) = Accepted)'
  BY DEF IInv, Settles
<1>8. ASSUME NEW r \in Record
      PROVE  /\ hist'.writes[r] <= MaxResends + 1
             /\ r \notin Accepted' => hist'.writes[r] = 0 /\ c'.resends[r] = 0
             /\ r \in c'.resend => hist'.writes[r] <= c'.resends[r]
             /\ r \in c'.unconfirmed => hist'.writes[r] <= c'.resends[r] + 1
             /\ c'.lost[r] > 0 => c'.resends[r] > MaxResends \/ hist'.closed
  <2>1. hist.writes[r] \in Nat /\ c.resends[r] \in Nat /\ k.resends[r] \in Nat
          /\ MaxResends \in Nat
    BY UpTunnelAssumption DEF History, Client
  <2>2. c.resends[r] <= k.resends[r]
    BY DEF Settles
  <2>3. hist.writes[r] <= MaxResends + 1
    BY DEF IInv
  <2>4. r \notin Accepted => hist.writes[r] = 0 /\ k.resends[r] = 0
    <3>1. ASSUME r \notin Accepted PROVE k.resends[r] = 0
      <4>1. c.resends[r] = 0 /\ r \notin Placed(c)
        BY <3>1 DEF IInv
      <4> QED BY <4>1 DEF Settles
    <3> QED BY <3>1 DEF IInv
  <2>5. r \in k.resend => hist.writes[r] <= k.resends[r]
    BY <2>1, <2>2 DEF IInv, Settles
  <2>6. r \in k.unconfirmed => hist.writes[r] <= k.resends[r] + 1
    BY <2>1, <2>2 DEF IInv, Settles
  <2>7. k.lost[r] > 0 => k.resends[r] > MaxResends \/ hist'.closed
    BY <2>1, <2>2 DEF IInv, LosesSpent
  <2> QED BY <2>3, <2>4, <2>5, <2>6, <2>7
<1> QED BY <1>1, <1>2, <1>3, <1>4, <1>5, <1>6, <1>7, <1>8 DEF IInv, OpOK

\* A write of a waiting or of a new record keeps the invariant.
LEMMA WriteStep ==
  ASSUME IInv, c.cur.open, NEW r \in Record,
         c' = FlushResendLocked(c, r),
         Written(r),
         r \in c.resend \/ r \notin Accepted,
         op' \in Operations, returned' \in [Record -> Returns], OpOK',
         Accepted' = Accepted \cup {r}
  PROVE  IInv'
<1> ClientOK(c) /\ c \in Client /\ net \in Network /\ hist \in History
  BY DEF IInv, TypeOK
<1>1. /\ c' \in Client
      /\ c'.cur = [c.cur EXCEPT !.written = @ + 1]
      /\ c'.unconfirmed = c.unconfirmed \cup {r}
      /\ c'.resend = c.resend \ {r}
      /\ c'.end = [c.end EXCEPT ![r] = c.cur.written + 1]
      /\ c'.resends = c.resends /\ c'.confirmed = c.confirmed /\ c'.lost = c.lost
  BY WriteFields
<1>2. c'.cur.open /\ c'.cur.written = c.cur.written + 1 /\ c.cur.written \in Nat
  BY <1>1 DEF Client, Stream
<1>3. /\ net' = net
      /\ hist' \in History
      /\ hist'.writes = [hist.writes EXCEPT ![r] = @ + 1]
      /\ hist'.carried = hist.carried \cup {r}
      /\ hist'.onHost = hist.onHost /\ hist'.closed = hist.closed
  <2>1. [hist.writes EXCEPT ![r] = @ + 1] \in [Record -> Nat]
    BY DEF History
  <2>2. /\ net' = net
        /\ hist' = [hist EXCEPT !.writes = [hist.writes EXCEPT ![r] = @ + 1],
                                !.carried = hist.carried \cup {r}]
    BY DEF Written, History
  <2> QED BY <2>1, <2>2 DEF History
<1>4. r \notin c.unconfirmed /\ c.confirmed[r] = 0 /\ c.lost[r] = 0
  BY DEF ClientOK, Held, IInv, Placed, Client
<1>5. c.resends[r] <= MaxResends /\ hist.writes[r] <= c.resends[r]
  BY UpTunnelAssumption DEF ClientOK, Held, IInv, History, Client
<1>6. c'.end[r] = c.cur.written + 1 /\ \A s \in Record \ {r} : c'.end[s] = c.end[s]
  BY <1>1 DEF Client
<1>7. TypeOK'
  BY <1>1, <1>3 DEF TypeOK
<1>8. ClientOK(c)'
  <2>1. c'.unconfirmed \cap c'.resend = {}
    BY <1>1 DEF ClientOK
  <2>2. \A s \in Held(c') :
          c'.confirmed[s] = 0 /\ c'.lost[s] = 0 /\ c'.resends[s] <= MaxResends
    BY <1>1, <1>4, <1>5 DEF ClientOK, Held
  <2>3. \A s \in c'.unconfirmed : c'.end[s] <= c'.cur.written
    BY <1>1, <1>2, <1>6 DEF ClientOK, Client
  <2> QED BY <1>1, <1>2, <2>1, <2>2, <2>3 DEF ClientOK
<1>9. (net.acked <= c.cur.written)' /\ (~c.cur.open => net.acked = 0)'
  BY <1>2, <1>3 DEF IInv, Network
<1>10. (c.unconfirmed \subseteq hist.carried)'
  BY <1>1, <1>3 DEF IInv
<1>11. (\A s \in c.unconfirmed : c.end[s] <= net.acked => s \in hist.onHost)'
  BY <1>1, <1>2, <1>3, <1>6 DEF IInv, Network, Client
<1>12. (OutqKnown => \A s \in Record : c.confirmed[s] > 0 => s \in hist.onHost)'
  BY <1>1, <1>3 DEF IInv
<1>13. (Placed(c) = Accepted)'
  BY <1>1 DEF Placed, Held, IInv
<1>14. ASSUME NEW s \in Record
       PROVE  /\ hist'.writes[s] <= MaxResends + 1
              /\ s \notin Accepted' => hist'.writes[s] = 0 /\ c'.resends[s] = 0
              /\ s \in c'.resend => hist'.writes[s] <= c'.resends[s]
              /\ s \in c'.unconfirmed => hist'.writes[s] <= c'.resends[s] + 1
              /\ c'.lost[s] > 0 => c'.resends[s] > MaxResends \/ hist'.closed
  <2>1. CASE s = r
    BY <1>1, <1>3, <1>4, <1>5, <2>1, UpTunnelAssumption DEF History, Client
  <2>2. CASE s # r
    BY <1>1, <1>3, <2>2 DEF IInv, History
  <2> QED BY <2>1, <2>2
<1> QED
  BY <1>7, <1>8, <1>9, <1>10, <1>11, <1>12, <1>13, <1>14 DEF IInv, OpOK

\* A connection's network and history after the client has moved on are of
\* their types and forget a dropped connection.
LEMMA AfterFacts ==
  ASSUME IInv, NEW k
  PROVE  /\ NetAfter(k) \in Network
         /\ k.cur.open => NetAfter(k) = net
         /\ ~k.cur.open => NetAfter(k).acked = 0
         /\ HistAfter(k) \in History
         /\ HistAfter(k).writes = hist.writes /\ HistAfter(k).onHost = hist.onHost
         /\ HistAfter(k).closed = hist.closed
         /\ k.cur.open => HistAfter(k).carried = hist.carried
BY DEF IInv, TypeOK, NetAfter, HistAfter, NoNet, Network, History

\* The opening of Send and Poll: reap, then poll.
LEMMA ReapPollSettles ==
  ASSUME IInv
  PROVE  LET k == PollLocked(ReapLocked(c, UnsentBytes), UnsentBytes) IN
         Settles(c, k, UnsentBytes) /\ LosesSpent(c, k)
<1> DEFINE q == UnsentBytes
           k1 == ReapLocked(c, q)
<1>0. q \in Int /\ c.cur.written - q = net.acked /\ net.acked \in Nat /\ ClientOK(c)
  BY UnsentFact DEF IInv, TypeOK, Network
<1> HIDE DEF q
<1>1. Settles(c, k1, q) /\ LosesSpent(c, k1)
  BY <1>0, ReapSettles
<1> HIDE DEF k1
<1>2. ClientOK(k1) /\ k1 \in Client
  BY <1>1 DEF Settles, ClientOK
<1>3. CASE k1.cur.open
  <2>1. k1.cur.written - q \in Nat
    BY <1>0, <1>1, <1>3 DEF Settles
  <2>2. Settles(k1, PollLocked(k1, q), q) /\ LosesSpent(k1, PollLocked(k1, q))
    BY <1>0, <1>2, <2>1, PollSettles
  <2> QED BY <1>0, <1>1, <2>2, SettlesTrans, LosesSpentTrans DEF k1, q
<1>4. CASE ~k1.cur.open
  <2>1. PollLocked(k1, q) = k1
    BY <1>4 DEF PollLocked
  <2> QED BY <1>1, <2>1 DEF k1, q
<1> QED BY <1>3, <1>4

\* Init establishes the invariant.
LEMMA InvInit == Init => IInv
<1> SUFFICES ASSUME Init PROVE IInv
  OBVIOUS
<1> USE UpTunnelAssumption
<1>1. NoStream \in Stream /\ NoStream.open = FALSE /\ NoStream.written = 0
  BY DEF NoStream, Stream
<1>2. /\ c \in Client
      /\ c.cur = NoStream /\ c.unconfirmed = {} /\ c.resend = {}
      /\ \A r \in Record : c.confirmed[r] = 0 /\ c.lost[r] = 0 /\ c.resends[r] = 0
  BY <1>1 DEF Init, Client
<1>3. /\ hist \in History /\ \A r \in Record : hist.writes[r] = 0
  BY DEF Init, History
<1>4. net \in Network /\ net.acked = 0
  BY DEF Init, NoNet, Network
<1>5. op \in Operations /\ op.kind = "none" /\ op.rec = NoRecord /\ op.ok = FALSE
        /\ op.attempt = 0
  BY DEF Init, Idle, Operations
<1>6. returned \in [Record -> Returns] /\ \A r \in Record : returned[r] = "no"
  BY DEF Init, Returns
<1>7. Accepted = {} /\ Placed(c) = {}
  BY <1>2, <1>5, <1>6 DEF Accepted, Placed, Held
<1>8. ClientOK(c)
  BY <1>1, <1>2 DEF ClientOK, Held
<1> QED BY <1>1, <1>2, <1>3, <1>4, <1>5, <1>6, <1>7, <1>8 DEF IInv, TypeOK, Stream

\* The steps of the operations keep the invariant.
LEMMA ClientInv == IInv /\ ClientStep => IInv'
<1> SUFFICES ASSUME IInv, ClientStep PROVE IInv'
  OBVIOUS
<1> DEFINE q == UnsentBytes
<1> q \in Int /\ ClientOK(c) /\ c \in Client
  BY UnsentFact DEF IInv, TypeOK
<1> op \in Operations /\ returned \in [Record -> Returns] /\ OpOK
  BY DEF IInv, TypeOK, OpOK
<1> net \in Network /\ hist \in History
  BY DEF IInv, TypeOK
<1> HIDE DEF q
<1>0. Idle \in Operations /\ Idle.kind = "none" /\ Idle.rec = NoRecord /\ Idle.ok = FALSE
        /\ Idle.attempt = 0
  BY DEF Idle, Operations
<1>1. ASSUME NEW r \in Record, Send(r) PROVE IInv'
  <2> DEFINE k0 == PollLocked(ReapLocked(c, UnsentBytes), UnsentBytes)
             k == MaybeFailBackLocked(k0)
  <2>1. Settles(c, k0, UnsentBytes) /\ LosesSpent(c, k0)
    BY ReapPollSettles
  <2>2. /\ op.kind = "none" /\ r \in Fresh
        /\ op' = [kind |-> "send", rec |-> r, attempt |-> 0, ok |-> FALSE]
        /\ c' = k /\ net' = NetAfter(k) /\ hist' = HistAfter(k) /\ returned' = returned
    BY <1>1 DEF Send
  <2> HIDE DEF k0
  <2>3. UnsentBytes \in Int
    BY UnsentFact
  <2>4. Settles(k0, k, UnsentBytes) /\ LosesSpent(k0, k)
    BY <2>1, <2>3, FailBackSettles DEF Settles
  <2>5. Settles(c, k, UnsentBytes) /\ LosesSpent(c, k)
    BY <2>1, <2>3, <2>4, SettlesTrans, LosesSpentTrans
  <2> HIDE DEF k
  <2>6. op' \in Operations /\ OpOK'
    BY <2>2 DEF Operations, OpOK, Fresh
  <2>7. Accepted' = Accepted
    BY <2>2 DEF Accepted, OpOK
  <2> QED BY <2>2, <2>5, <2>6, <2>7, AfterFacts, SettleStep
<1>2. ASSUME Poll PROVE IInv'
  <2> DEFINE k == PollLocked(ReapLocked(c, UnsentBytes), UnsentBytes)
  <2>1. Settles(c, k, UnsentBytes) /\ LosesSpent(c, k)
    BY ReapPollSettles
  <2>2. /\ op.kind = "none"
        /\ op' = Idle \/ op' = [Idle EXCEPT !.kind = "poll"]
        /\ c' = k /\ net' = NetAfter(k) /\ hist' = HistAfter(k) /\ returned' = returned
    BY <1>2 DEF Poll
  <2> HIDE DEF k
  <2>3. op' \in Operations /\ op'.kind # "send" /\ op'.rec = NoRecord /\ op'.ok = FALSE
          /\ op'.attempt = 0
    BY <1>0, <2>2 DEF Operations
  <2>4. OpOK' /\ Accepted' = Accepted
    BY <2>2, <2>3, UpTunnelAssumption DEF OpOK, Accepted
  <2> QED BY <2>1, <2>2, <2>3, <2>4, AfterFacts, SettleStep
<1>3. ASSUME DialFail PROVE IInv'
  <2>1. /\ Attempting /\ ~c.cur.open /\ c' = AdvanceLocked(c)
        /\ op' = [op EXCEPT !.attempt = @ + 1]
        /\ returned' = returned /\ net' = net /\ hist' = hist
    BY <1>3 DEF DialFail
  <2>2. Settles(c, c', q) /\ LosesSpent(c, c') /\ c'.cur = c.cur
    BY <2>1, AdvanceSettles, AdvanceFields
  <2>3. op' \in Operations /\ op'.kind = op.kind /\ op'.rec = op.rec /\ op'.ok = op.ok
    BY <2>1 DEF Operations, Attempting
  <2>4. OpOK' /\ Accepted' = Accepted
    BY <2>1, <2>2, <2>3 DEF OpOK, Accepted
  <2>5. net.acked = 0
    BY <2>1 DEF IInv
  <2> QED BY <2>1, <2>2, <2>3, <2>4, <2>5, SettleStep DEF q
<1>4. ASSUME Attempting, Broken PROVE IInv'
  <2> DEFINE k == BreakLocked(c)
  <2>1. Settles(c, k, q) /\ LosesSpent(c, k) /\ ~k.cur.open
    BY BreakSettles
  <2>2. /\ c' = k /\ net' = NetAfter(k) /\ hist' = HistAfter(k)
        /\ op' = [op EXCEPT !.attempt = @ + 1] /\ returned' = returned
    BY <1>4 DEF Broken
  <2> HIDE DEF k
  <2>3. op' \in Operations /\ op'.kind = op.kind /\ op'.rec = op.rec /\ op'.ok = op.ok
    BY <1>4, <2>2 DEF Operations, Attempting
  <2>4. OpOK' /\ Accepted' = Accepted
    BY <2>1, <2>2, <2>3 DEF OpOK, Accepted
  <2> QED BY <2>1, <2>2, <2>3, <2>4, AfterFacts, SettleStep DEF q
<1>5. ASSUME NEW r \in Record, FlushOK(r) PROVE IInv'
  <2>1. /\ c.cur.open /\ r \in c.resend /\ c' = FlushResendLocked(c, r) /\ Written(r)
        /\ op' = op /\ returned' = returned /\ op.attempt # 2
    BY <1>5 DEF FlushOK, ResendHead, Written, Attempting, Operations
  <2>2. r \in Accepted
    BY <2>1 DEF IInv, Placed, Held
  <2>3. OpOK' /\ Accepted' = Accepted \cup {r}
    BY <2>1, <2>2 DEF OpOK, Accepted
  <2> QED BY <2>1, <2>3, WriteStep
<1>6. ASSUME WriteOK PROVE IInv'
  <2> DEFINE r == op.rec
  <2>1. /\ op.kind = "send" /\ ~op.ok /\ c.cur.open /\ c.resend = {}
        /\ c' = WriteLocked(c, r) /\ Written(r)
        /\ op' = [op EXCEPT !.ok = TRUE] /\ returned' = returned /\ op.attempt # 2
    BY <1>6 DEF WriteOK, Attempting, Written, Operations
  <2>2. r \in Record /\ returned[r] = "no" /\ r \notin Accepted
    BY <2>1 DEF OpOK, Accepted
  <2>3. op' \in Operations /\ op'.kind = "send" /\ op'.rec = op.rec /\ op'.ok = TRUE
          /\ op'.attempt = op.attempt
    BY <2>1 DEF Operations
  <2>4. OpOK' /\ Accepted' = Accepted \cup {r}
    BY <2>1, <2>2, <2>3 DEF OpOK, Accepted
  <2>5. c' = FlushResendLocked(c, r)
    <3>1. WriteLocked(c, r).resend = {} /\ WriteLocked(c, r) \in Client
      BY <2>1, <2>2, WriteInClient
    <3>2. \A k \in Client : k.resend = {} => k = [k EXCEPT !.resend = k.resend \ {r}]
      BY DEF Client
    <3> QED BY <2>1, <3>1, <3>2 DEF FlushResendLocked
  <2> HIDE DEF r
  <2> QED BY <2>1, <2>2, <2>3, <2>4, <2>5, WriteStep
<1>7. ASSUME DialOK PROVE IInv'
  <2>1. /\ ~c.cur.open /\ c' = [c EXCEPT !.cur = NewStream]
        /\ net' = [acked |-> 0, drained |-> TRUE, link |-> "open", watch |-> "reading"]
        /\ op' = op /\ returned' = returned /\ hist' = hist /\ op.attempt # 2
    BY <1>7 DEF DialOK, Attempting, Operations
  <2>2. NewStream \in Stream /\ NewStream.written = 0 /\ NewStream.open = TRUE
    BY DEF NewStream, NoStream, Stream
  <2>3. /\ c' \in Client /\ c'.cur = NewStream
        /\ c'.unconfirmed = c.unconfirmed /\ c'.resend = c.resend
        /\ c'.end = c.end /\ c'.resends = c.resends
        /\ c'.confirmed = c.confirmed /\ c'.lost = c.lost
    BY <2>1, <2>2 DEF Client
  <2>4. c.unconfirmed = {}
    BY <2>1 DEF ClientOK
  <2>5. net' \in Network /\ net'.acked = 0
    BY <2>1 DEF Network
  <2>6. ClientOK(c)' /\ Placed(c)' = Placed(c)
    BY <2>2, <2>3, <2>4 DEF ClientOK, Placed, Held
  <2>7. Accepted' = Accepted
    BY <2>1 DEF Accepted
  <2>8. TypeOK'
    BY <2>1, <2>3, <2>5 DEF TypeOK
  <2> QED BY <2>1, <2>2, <2>3, <2>4, <2>5, <2>6, <2>7, <2>8 DEF IInv
<1>8. ASSUME SendReturn PROVE IInv'
  <2>1. /\ op.kind = "send" /\ c' = PollLocked(c, UnsentBytes)
        /\ returned' = [returned EXCEPT ![op.rec] = IF op.ok THEN "nil" ELSE "error"]
        /\ op' = Idle /\ net' = net /\ hist' = hist
    BY <1>8 DEF SendReturn
  <2>2. /\ Settles(c, c', UnsentBytes) /\ LosesSpent(c, c')
        /\ c'.cur.open = c.cur.open
    BY <2>1, UnsentFact, PollSettles
  <2>3. op.rec \in Record /\ returned[op.rec] = "no"
    BY <2>1 DEF OpOK
  <2>4. returned' \in [Record -> Returns]
    BY <2>1, <2>3 DEF Returns
  <2>5. OpOK' /\ op' \in Operations
    BY <1>0, <2>1 DEF OpOK
  <2>6. Accepted' = Accepted
    <3>1. ASSUME NEW s \in Record PROVE s \in Accepted' <=> s \in Accepted
      <4>1. CASE s = op.rec
        BY <1>0, <2>1, <2>3, <4>1, UpTunnelAssumption DEF Accepted
      <4>2. CASE s # op.rec
        BY <1>0, <2>1, <2>3, <4>2, UpTunnelAssumption DEF Accepted
      <4> QED BY <4>1, <4>2
    <3> QED BY <3>1 DEF Accepted
  <2>7. ~c.cur.open => net.acked = 0
    BY DEF IInv
  <2> QED BY <2>1, <2>2, <2>4, <2>5, <2>6, <2>7, SettleStep
<1>9. ASSUME PollReturn PROVE IInv'
  <2>1. /\ op.kind = "poll" /\ (c' = ChargeResendsLocked(c) \/ c' = c)
        /\ op' = Idle /\ returned' = returned /\ net' = net /\ hist' = hist
    BY <1>9 DEF PollReturn
  <2>2. Settles(c, c', q) /\ LosesSpent(c, c') /\ c'.cur = c.cur
    <3>1. CASE c' = ChargeResendsLocked(c)
      BY <3>1, ChargeSettles, ChargeKeepsCur
    <3>2. CASE c' = c
      BY <3>2, SettlesSelf
    <3> QED BY <2>1, <3>1, <3>2
  <2>3. OpOK' /\ op' \in Operations
    BY <1>0, <2>1 DEF OpOK
  <2>4. Accepted' = Accepted
    BY <1>0, <2>1, UpTunnelAssumption DEF Accepted, OpOK
  <2>5. ~c.cur.open => net.acked = 0
    BY DEF IInv
  <2> QED BY <2>1, <2>2, <2>3, <2>4, <2>5, SettleStep DEF q
<1>10. ASSUME Close PROVE IInv'
  <2> DEFINE k == CloseLocked(c, UnsentBytes)
  <2>1. Settles(c, k, UnsentBytes) /\ ~k.cur.open
    BY CloseSettles DEF q
  <2>2. /\ c' = k /\ net' = NetAfter(k)
        /\ hist' = [hist EXCEPT !.carried = {}, !.closed = TRUE]
        /\ op' = op /\ returned' = returned
    BY <1>10 DEF Close
  <2> HIDE DEF k
  <2>3. /\ hist' \in History /\ hist'.writes = hist.writes
        /\ hist'.onHost = hist.onHost /\ hist'.closed = TRUE
    BY <2>2 DEF History
  <2>4. OpOK' /\ Accepted' = Accepted
    BY <2>1, <2>2 DEF OpOK, Accepted
  <2> QED BY <2>1, <2>2, <2>3, <2>4, AfterFacts, SettleStep
<1> QED
  BY <1>1, <1>2, <1>3, <1>4, <1>5, <1>6, <1>7, <1>8, <1>9, <1>10
  DEF ClientStep, FlushFail, WriteFail

\* The reader, the peer and the clock keep the invariant.
LEMMA EnvironmentInv ==
  IInv /\ (WatchRead \/ WatchStore \/ PeerAck \/ PeerRead \/ PeerClose \/ PeerReset \/ Tick)
    => IInv'
<1> SUFFICES ASSUME IInv,
                    WatchRead \/ WatchStore \/ PeerAck \/ PeerRead \/ PeerClose
                      \/ PeerReset \/ Tick
             PROVE IInv'
  OBVIOUS
<1> USE UpTunnelAssumption
<1> ClientOK(c) /\ c \in Client /\ net \in Network /\ hist \in History
  BY DEF IInv, TypeOK
<1>1. ASSUME c' \in Client, c'.cur.open = c.cur.open, c'.cur.written = c.cur.written,
             c'.unconfirmed = c.unconfirmed, c'.resend = c.resend,
             c'.end = c.end, c'.resends = c.resends,
             c'.confirmed = c.confirmed, c'.lost = c.lost,
             net' \in Network, net'.acked = net.acked,
             hist' \in History, hist'.writes = hist.writes, hist'.carried = hist.carried,
             hist'.onHost = hist.onHost, hist'.closed = hist.closed,
             op' = op, returned' = returned
      PROVE  IInv'
  <2>1. Accepted' = Accepted /\ Placed(c') = Placed(c)
    BY <1>1 DEF Accepted, Placed, Held
  <2>2. ClientOK(c')
    BY <1>1 DEF ClientOK, Held
  <2>3. TypeOK'
    BY <1>1 DEF IInv, TypeOK
  <2> QED BY <1>1, <2>1, <2>2, <2>3 DEF IInv
<1>2. ASSUME WatchRead PROVE IInv'
  <2>1. [c.cur EXCEPT !.clean = (net.link = "fin")] \in Stream
    BY DEF Client, Stream
  <2>2. /\ c' = [c EXCEPT !.cur = [c.cur EXCEPT !.clean = (net.link = "fin")]]
        /\ net' = [net EXCEPT !.watch = "storing"]
        /\ op' = op /\ returned' = returned /\ hist' = hist
    BY <1>2 DEF WatchRead, Client
  <2>3. c' \in Client /\ net' \in Network /\ net'.acked = net.acked
    BY <2>1, <2>2 DEF Client, Network
  <2>4. /\ c'.cur.open = c.cur.open /\ c'.cur.written = c.cur.written
        /\ c'.unconfirmed = c.unconfirmed /\ c'.resend = c.resend
        /\ c'.end = c.end /\ c'.resends = c.resends
        /\ c'.confirmed = c.confirmed /\ c'.lost = c.lost
    BY <2>2 DEF Client, Stream
  <2> QED BY <1>1, <2>2, <2>3, <2>4
<1>3. ASSUME WatchStore PROVE IInv'
  <2>1. [c.cur EXCEPT !.dead = TRUE] \in Stream
    BY DEF Client, Stream
  <2>2. /\ c' = [c EXCEPT !.cur = [c.cur EXCEPT !.dead = TRUE]]
        /\ net' = [net EXCEPT !.watch = "done"]
        /\ op' = op /\ returned' = returned /\ hist' = hist
    BY <1>3 DEF WatchStore, Client
  <2>3. c' \in Client /\ net' \in Network /\ net'.acked = net.acked
    BY <2>1, <2>2 DEF Client, Network
  <2>4. /\ c'.cur.open = c.cur.open /\ c'.cur.written = c.cur.written
        /\ c'.unconfirmed = c.unconfirmed /\ c'.resend = c.resend
        /\ c'.end = c.end /\ c'.resends = c.resends
        /\ c'.confirmed = c.confirmed /\ c'.lost = c.lost
    BY <2>2 DEF Client, Stream
  <2> QED BY <1>1, <2>2, <2>3, <2>4
<1>4. ASSUME PeerAck PROVE IInv'
  <2> DEFINE new == {r \in hist.carried : c.end[r] = net.acked + 1}
  <2>1. /\ net.link = "open" /\ net.acked < c.cur.written
        /\ net' = [net EXCEPT !.acked = @ + 1, !.drained = FALSE]
        /\ hist' = [hist EXCEPT !.onHost = hist.onHost \cup new]
        /\ c' = c /\ op' = op /\ returned' = returned
    BY <1>4 DEF PeerAck
  <2>2. new \subseteq Record
    BY DEF History
  <2>3. net' \in Network /\ net'.acked = net.acked + 1
    <3>1. net' = [net EXCEPT !.acked = net.acked + 1, !.drained = FALSE]
            /\ net.acked + 1 \in Nat
      BY <2>1 DEF Network
    <3> QED BY <3>1 DEF Network
  <2>4. \A r \in c.unconfirmed : c.end[r] = net.acked + 1 => r \in new
    BY DEF IInv
  <2> HIDE DEF new
  <2>5. /\ hist' \in History /\ hist'.writes = hist.writes /\ hist'.carried = hist.carried
        /\ hist'.onHost = hist.onHost \cup new /\ hist'.closed = hist.closed
    BY <2>1, <2>2 DEF History
  <2>6. c.cur.open
    BY <2>1 DEF ClientOK, Network
  <2>7. \A r \in c.unconfirmed : c.end[r] <= net'.acked => r \in hist'.onHost
    BY <2>3, <2>4, <2>5 DEF IInv, Network, Client
  <2>8. Accepted' = Accepted
    BY <2>1 DEF Accepted
  <2>9. TypeOK'
    BY <2>1, <2>3, <2>5 DEF IInv, TypeOK
  <2>10. net'.acked <= c.cur.written
    BY <2>1, <2>3 DEF Network, Client, Stream
  <2> QED BY <2>1, <2>3, <2>5, <2>6, <2>7, <2>8, <2>9, <2>10 DEF IInv
<1>5. ASSUME PeerRead PROVE IInv'
  <2> DEFINE new == {r \in hist.carried : c.end[r] <= net.acked}
  <2>1. /\ net' = [net EXCEPT !.drained = TRUE]
        /\ hist' = [hist EXCEPT !.read = hist.read \cup new]
        /\ c' = c /\ op' = op /\ returned' = returned
    BY <1>5 DEF PeerRead
  <2>2. new \subseteq Record
    BY DEF History
  <2>3. net' \in Network /\ net'.acked = net.acked
    BY <2>1 DEF Network
  <2> HIDE DEF new
  <2>4. /\ hist' \in History /\ hist'.writes = hist.writes /\ hist'.carried = hist.carried
        /\ hist'.onHost = hist.onHost /\ hist'.closed = hist.closed
    BY <2>1, <2>2 DEF History
  <2> QED BY <1>1, <2>1, <2>3, <2>4
<1>6. ASSUME PeerClose \/ PeerReset PROVE IInv'
  <2>1. /\ \/ net' = [net EXCEPT !.link = "fin"]
           \/ net' = [net EXCEPT !.link = "rst"]
        /\ hist' = hist /\ c' = c /\ op' = op /\ returned' = returned
    BY <1>6 DEF PeerClose, PeerReset
  <2>2. net' \in Network /\ net'.acked = net.acked
    BY <2>1 DEF Network
  <2> QED BY <1>1, <2>1, <2>2
<1>7. ASSUME Tick PROVE IInv'
  <2> DEFINE at2 == [r \in Record |-> IF r \in c.unconfirmed
                                      THEN AtMost(c.at[r] + 1, Grace) ELSE c.at[r]]
             left2 == IF c.leftAt = Unset THEN c.leftAt ELSE AtMost(c.leftAt + 1, Prefer)
  <2>1. /\ c' = [c EXCEPT !.at = at2, !.leftAt = left2]
        /\ op' = op /\ returned' = returned /\ net' = net /\ hist' = hist
    BY <1>7 DEF Tick, Client
  <2>2. at2 \in [Record -> Nat]
    BY DEF Client, AtMost
  <2>3. left2 \in Nat \cup {Unset}
    BY DEF Client, AtMost
  <2> HIDE DEF at2, left2
  <2>4. /\ c' \in Client
        /\ c'.cur = c.cur
        /\ c'.unconfirmed = c.unconfirmed /\ c'.resend = c.resend
        /\ c'.end = c.end /\ c'.resends = c.resends
        /\ c'.confirmed = c.confirmed /\ c'.lost = c.lost
    BY <2>1, <2>2, <2>3 DEF Client
  <2> QED BY <1>1, <2>1, <2>4
<1> QED BY <1>2, <1>3, <1>4, <1>5, <1>6, <1>7

\* IInv is inductive.
LEMMA InvNext == IInv /\ [Next]_vars => IInv'
<1>1. IInv /\ Next => IInv'
  BY ClientInv, EnvironmentInv DEF Next
<1>2. IInv /\ UNCHANGED vars => IInv'
  BY DEF vars, IInv, TypeOK, Accepted
<1> QED BY <1>1, <1>2

\* IInv holds in every state of every behaviour.
LEMMA InvHolds == Spec => []IInv
<1> QED BY InvInit, InvNext, PTL DEF Spec

-----------------------------------------------------------------------------
(* The connection and its reader, the address and the fail-back clock *)

Away(k) == NAddr > 1 => (k.leftAt = Unset <=> k.idx = 0)

\* k2 keeps the connection of k with what its reader has stored, or has none;
\* and its clock runs as that of k.
Turns(k, k2) ==
  /\ \/ k2.cur = NoStream \/ k2.cur = k.cur
     \/ k.cur.open /\ k2.cur.open /\ k2.cur.dead = k.cur.dead /\ k2.cur.clean = k.cur.clean
  /\ Away(k) => Away(k2)

\* The second layer: without a connection there is no network, and what the
\* reader has published of a FIN is that the close was clean.
Watched ==
  /\ ~c.cur.open => c.cur = NoStream /\ net = NoNet
  /\ c.cur.dead => net.watch = "done"
  /\ net.link = "open" => net.watch = "reading"
  /\ net.link = "fin" /\ net.watch \in {"storing", "done"} => c.cur.clean

\* The relation composes.
LEMMA TurnsTrans ==
  ASSUME NEW k, NEW k1, NEW k2, Turns(k, k1), Turns(k1, k2)
  PROVE  Turns(k, k2)
BY DEF Turns, NoStream

\* requeueLocked does not touch the connection or the address.
LEMMA RequeueTurns ==
  ASSUME NEW k, NEW base \in Client, NEW S \in SUBSET Record, Turns(k, base)
  PROVE  Turns(k, RequeueLocked(base, S))
<1>1. /\ RequeueLocked(base, S).cur = base.cur /\ RequeueLocked(base, S).idx = base.idx
      /\ RequeueLocked(base, S).leftAt = base.leftAt
  BY RequeueFields
<1> QED
  BY <1>1 DEF Turns, Away

\* retireLocked drops the connection and stays at the address.
LEMMA RetireTurns ==
  ASSUME NEW k \in Client, NEW clean \in BOOLEAN, NEW q \in Int
  PROVE  Turns(k, RetireLocked(k, clean, q))
<1> DEFINE known == clean /\ OutqKnown
           sure  == {r \in k.unconfirmed : known /\ k.end[r] <= k.cur.written - q}
           base  == ConfirmLocked([k EXCEPT !.cur = NoStream, !.unconfirmed = {}], sure)
<1>1. CASE ~k.cur.open
  BY <1>1 DEF RetireLocked, Turns
<1>2. CASE k.cur.open
  <2>1. CountedFor(k.confirmed, sure) \in [Record -> Nat] /\ NoStream \in Stream
    BY CountedForFields DEF Client, NoStream, Stream
  <2>2. base = [k EXCEPT !.cur = NoStream, !.unconfirmed = {},
                         !.confirmed = CountedFor(k.confirmed, sure)]
    BY DEF ConfirmLocked, Client
  <2>3. k.unconfirmed \ sure \in SUBSET Record
    BY DEF Client
  <2>4. RetireLocked(k, clean, q) = RequeueLocked(base, k.unconfirmed \ sure)
    BY <1>2 DEF RetireLocked
  <2> HIDE DEF sure, base
  <2>5. base \in Client /\ base.cur = NoStream /\ base.idx = k.idx /\ base.leftAt = k.leftAt
    BY <2>1, <2>2 DEF Client
  <2>6. Turns(k, base)
    BY <2>5 DEF Turns, Away
  <2> QED BY <2>3, <2>4, <2>5, <2>6, RequeueTurns
<1> QED BY <1>1, <1>2

\* advanceLocked starts the clock when it leaves the preferred address, and
\* stops it when it comes round to it.
LEMMA AdvanceTurns ==
  ASSUME NEW k \in Client
  PROVE  Turns(k, AdvanceLocked(k))
<1> USE UpTunnelAssumption
<1>1. CASE NAddr <= 1
  BY <1>1 DEF AdvanceLocked, Turns
<1>2. CASE NAddr > 1
  <2> DEFINE next == (k.idx + 1) % NAddr
             left == IF next = 0 THEN Unset ELSE IF k.leftAt = Unset THEN 0 ELSE k.leftAt
  <2>1. left = Unset <=> next = 0
    BY DEF Unset
  <2>2. AdvanceLocked(k) = [k EXCEPT !.idx = next, !.leftAt = left]
    BY <1>2 DEF AdvanceLocked, Client
  <2> HIDE DEF next, left
  <2>3. AdvanceLocked(k).cur = k.cur /\ AdvanceLocked(k).idx = next /\ AdvanceLocked(k).leftAt = left
    BY <2>2 DEF Client
  <2> QED BY <2>1, <2>3 DEF Turns, Away
<1> QED BY <1>1, <1>2

\* A failed write.
LEMMA BreakTurns ==
  ASSUME NEW k, ClientOK(k)
  PROVE  Turns(k, BreakLocked(k))
<1> DEFINE k1 == RetireLocked(k, FALSE, 0)
<1>0. FALSE \in BOOLEAN /\ 0 \in Int /\ k \in Client
  BY DEF ClientOK
<1>1. Turns(k, k1)
  BY <1>0, RetireTurns, Zenon
<1>2. Settles(k, k1, 0)
  BY <1>0, RetireSettles, Zenon
<1>3. BreakLocked(k) = AdvanceLocked(k1)
  BY DEF BreakLocked
<1> HIDE DEF k1
<1>4. k1 \in Client
  BY <1>2 DEF Settles, ClientOK
<1> QED BY <1>1, <1>3, <1>4, AdvanceTurns, TurnsTrans

\* The reader's verdict is acted on.
LEMMA ReapTurns ==
  ASSUME NEW k, NEW q \in Int, ClientOK(k)
  PROVE  Turns(k, ReapLocked(k, q))
<1> DEFINE k1 == RetireLocked(k, k.cur.clean, q)
<1> k.cur.clean \in BOOLEAN /\ k \in Client
  BY DEF ClientOK, Client, Stream
<1>1. Turns(k, k1)
  BY RetireTurns
<1>2. Settles(k, k1, q)
  BY RetireSettles
<1>3. ReapLocked(k, q) \in {k, k1, AdvanceLocked(k1)}
  BY DEF ReapLocked
<1> HIDE DEF k1
<1>4. k1 \in Client
  BY <1>2 DEF Settles, ClientOK
<1>5. Turns(k1, AdvanceLocked(k1)) /\ Turns(k, k)
  BY <1>4, AdvanceTurns DEF Turns
<1> QED BY <1>1, <1>3, <1>5, TurnsTrans

\* pollLocked counts what is acknowledged and stays on the connection.
LEMMA PollTurns ==
  ASSUME NEW k \in Client, NEW q
  PROVE  Turns(k, PollLocked(k, q))
<1> DEFINE acked == PollAcked(k, q)
           over  == Cardinality(k.unconfirmed) > MaxUnconfirmed
           Stops(r) == k.end[r] > acked \/ (~over /\ k.at[r] < Grace)
           sure  == {r \in k.unconfirmed :
                       \A s \in k.unconfirmed : k.end[s] <= k.end[r] => ~Stops(s)}
<1>1. CASE ~(k.cur.open /\ k.unconfirmed # {})
  BY <1>1 DEF PollLocked, Turns
<1>2. CASE k.cur.open /\ k.unconfirmed # {}
  <2>1. PollLocked(k, q) = [k EXCEPT !.cur = [k.cur EXCEPT !.acked = acked],
                                     !.unconfirmed = k.unconfirmed \ sure,
                                     !.confirmed = CountedFor(k.confirmed, sure)]
    BY <1>2 DEF PollLocked, ConfirmLocked, Client, Stream
  <2> HIDE DEF sure, acked
  <2>2. /\ PollLocked(k, q).cur = [k.cur EXCEPT !.acked = acked]
        /\ PollLocked(k, q).idx = k.idx /\ PollLocked(k, q).leftAt = k.leftAt
    BY <2>1 DEF Client
  <2>3. LET u == [k.cur EXCEPT !.acked = acked]
        IN  u.open = k.cur.open /\ u.dead = k.cur.dead /\ u.clean = k.cur.clean
    BY DEF Client, Stream
  <2> QED BY <1>2, <2>2, <2>3 DEF Turns, Away
<1> QED BY <1>1, <1>2

\* Fail-back is to the preferred address, with the clock stopped.
LEMMA FailBackTurns ==
  ASSUME NEW k \in Client
  PROVE  Turns(k, MaybeFailBackLocked(k))
<1> DEFINE k2 == [k EXCEPT !.idx = 0, !.leftAt = Unset, !.cur = NoStream]
<1>1. k2.idx = 0 /\ k2.leftAt = Unset /\ k2.cur = NoStream
  BY DEF Client
<1>2. Turns(k, k2)
  <2> HIDE DEF k2
  <2> QED BY <1>1 DEF Turns, Away
<1>3. MaybeFailBackLocked(k) = k \/ MaybeFailBackLocked(k) = k2
  BY DEF MaybeFailBackLocked
<1> QED BY <1>2, <1>3 DEF Turns

\* A flush that no address took is charged where the client is.
LEMMA ChargeTurns ==
  ASSUME NEW k \in Client
  PROVE  Turns(k, ChargeResendsLocked(k))
<1> DEFINE base == [k EXCEPT !.resend = {}]
<1>1. base \in Client /\ base.cur = k.cur /\ base.idx = k.idx /\ base.leftAt = k.leftAt
      /\ k.resend \in SUBSET Record
  BY DEF Client
<1>2. ChargeResendsLocked(k) = RequeueLocked(base, k.resend)
  BY DEF ChargeResendsLocked
<1> HIDE DEF base
<1>3. Turns(k, base)
  BY <1>1 DEF Turns, Away
<1> QED BY <1>1, <1>2, <1>3, RequeueTurns

\* Close leaves the address alone.
LEMMA CloseTurns ==
  ASSUME NEW k \in Client, NEW q
  PROVE  Turns(k, CloseLocked(k, q))
<1> DEFINE acked == IF OutqKnown THEN k.cur.written - q ELSE k.cur.acked
           sure  == {r \in k.unconfirmed : k.end[r] <= acked}
           yes   == CountedFor(k.confirmed, sure)
           no    == CountedFor(CountedFor(k.lost, k.unconfirmed \ sure), k.resend)
           k2    == CloseLocked(k, q)
<1>1. CASE k.cur.open
  <2>1. k2 = [k EXCEPT !.cur = NoStream, !.unconfirmed = {}, !.confirmed = yes,
                       !.lost = no, !.resend = {}]
    BY <1>1 DEF CloseLocked, LoseLocked, ConfirmLocked, Client
  <2> HIDE DEF yes, no, k2
  <2>2. k2.cur = NoStream /\ k2.idx = k.idx /\ k2.leftAt = k.leftAt
    BY <2>1 DEF Client
  <2> QED BY <2>2 DEF Turns, Away, k2
<1>2. CASE ~k.cur.open
  <2>1. k2 = [k EXCEPT !.resend = {}, !.lost = CountedFor(k.lost, k.resend)]
    BY <1>2 DEF CloseLocked, LoseLocked, Client
  <2> HIDE DEF k2
  <2>2. k2.cur = k.cur /\ k2.idx = k.idx /\ k2.leftAt = k.leftAt
    BY <2>1 DEF Client
  <2> QED BY <2>2 DEF Turns, Away, k2
<1> QED BY <1>1, <1>2

\* So does a write.
LEMMA WriteTurns ==
  ASSUME NEW k \in Client, k.cur.open, NEW r \in Record
  PROVE  Turns(k, WriteLocked(k, r)) /\ Turns(k, FlushResendLocked(k, r))
<1> DEFINE cur2 == [k.cur EXCEPT !.written = @ + 1]
           end2 == [k.end EXCEPT ![r] = k.cur.written + 1]
           at2 == [k.at EXCEPT ![r] = 0]
           order2 == [k.order EXCEPT ![r] = k.written + 1]
           k2 == WriteLocked(k, r)
<1>1. k2 = [k EXCEPT !.cur = cur2, !.end = end2, !.at = at2, !.order = order2,
                     !.unconfirmed = k.unconfirmed \cup {r}, !.written = k.written + 1]
  BY DEF WriteLocked, Client, Stream
<1>2. cur2.open = k.cur.open /\ cur2.dead = k.cur.dead /\ cur2.clean = k.cur.clean
  BY DEF Client, Stream
<1>3. FlushResendLocked(k, r) = [k2 EXCEPT !.resend = k2.resend \ {r}]
  BY DEF FlushResendLocked
<1> HIDE DEF cur2, end2, at2, order2, k2
<1>4. k2.cur = cur2 /\ k2.idx = k.idx /\ k2.leftAt = k.leftAt
  BY <1>1 DEF Client
<1>5. k2 \in Client
  BY WriteInClient DEF k2
<1>6. /\ FlushResendLocked(k, r).cur = cur2 /\ FlushResendLocked(k, r).idx = k.idx
      /\ FlushResendLocked(k, r).leftAt = k.leftAt
  BY <1>3, <1>4, <1>5 DEF Client
<1> QED BY <1>2, <1>4, <1>6 DEF Turns, Away, k2

\* The opening of Send and Poll.
LEMMA ReapPollTurns ==
  ASSUME IInv
  PROVE  LET k == PollLocked(ReapLocked(c, UnsentBytes), UnsentBytes) IN
         Turns(c, k) /\ k \in Client
<1>0. ClientOK(c) /\ UnsentBytes \in Int
  BY UnsentFact DEF IInv
<1> DEFINE k1 == ReapLocked(c, UnsentBytes)
<1>1. Turns(c, k1)
  BY <1>0, ReapTurns
<1>2. k1 \in Client
  BY <1>0, ReapSettles DEF Settles, ClientOK
<1>3. PollLocked(k1, UnsentBytes) \in Client
  BY ReapPollSettles DEF Settles, ClientOK
<1>4. Turns(k1, PollLocked(k1, UnsentBytes))
  BY <1>2, PollTurns
<1> HIDE DEF k1
<1>5. Turns(c, PollLocked(k1, UnsentBytes))
  BY <1>1, <1>4, TurnsTrans
<1> QED BY <1>3, <1>5 DEF k1

\* A step of an operation other than a dial keeps the connection and its
\* network, or drops both.
LEMMA ClientTurns ==
  ASSUME IInv, ClientStep, ~DialOK
  PROVE  Turns(c, c') /\ (net' = NetAfter(c') \/ (net' = net /\ c'.cur.open = c.cur.open))
<1>0. c \in Client /\ ClientOK(c) /\ UnsentBytes \in Int
  BY UnsentFact DEF IInv, TypeOK
<1> DEFINE Goal == Turns(c, c') /\ (net' = NetAfter(c') \/ (net' = net /\ c'.cur.open = c.cur.open))
<1>1. ASSUME NEW r \in Record, Send(r) PROVE Goal
  <2> DEFINE k0 == PollLocked(ReapLocked(c, UnsentBytes), UnsentBytes)
  <2>1. Turns(c, k0) /\ k0 \in Client
    BY ReapPollTurns
  <2>2. c' = MaybeFailBackLocked(k0) /\ net' = NetAfter(MaybeFailBackLocked(k0))
    BY <1>1 DEF Send
  <2> HIDE DEF k0
  <2> QED BY <2>1, <2>2, FailBackTurns, TurnsTrans
<1>2. ASSUME Poll PROVE Goal
  <2> DEFINE k0 == PollLocked(ReapLocked(c, UnsentBytes), UnsentBytes)
  <2>1. Turns(c, k0)
    BY ReapPollTurns
  <2>2. c' = k0 /\ net' = NetAfter(k0)
    BY <1>2 DEF Poll
  <2> HIDE DEF k0
  <2> QED BY <2>1, <2>2
<1>3. ASSUME DialFail PROVE Goal
  BY <1>0, <1>3, AdvanceTurns, AdvanceFields DEF DialFail
<1>4. ASSUME Broken PROVE Goal
  BY <1>0, <1>4, BreakTurns DEF Broken
<1>5. ASSUME NEW r \in Record, c.cur.open, c' \in {WriteLocked(c, r), FlushResendLocked(c, r)}, net' = net
      PROVE  Goal
  <2>1. Turns(c, c')
    BY <1>0, <1>5, WriteTurns
  <2>2. c'.cur.open
    <3>1. FlushResendLocked(c, r).cur = [c.cur EXCEPT !.written = @ + 1]
      BY <1>0, <1>5, WriteFields
    <3>2. WriteLocked(c, r) \in Client /\ FlushResendLocked(c, r) = [WriteLocked(c, r) EXCEPT !.resend = @ \ {r}]
      BY <1>0, WriteInClient DEF FlushResendLocked
    <3>3. FlushResendLocked(c, r).cur = WriteLocked(c, r).cur
      BY <3>2 DEF Client
    <3>4. c'.cur = [c.cur EXCEPT !.written = @ + 1]
      BY <1>5, <3>1, <3>3
    <3> QED BY <1>0, <1>5, <3>4 DEF Client, Stream
  <2> QED BY <1>5, <2>1, <2>2 DEF NetAfter
<1>6. ASSUME NEW r \in Record, FlushOK(r) PROVE Goal
  BY <1>5, <1>6 DEF FlushOK, Written
<1>7. ASSUME WriteOK PROVE Goal
  BY <1>5, <1>7 DEF WriteOK, Written, IInv
<1>8. ASSUME SendReturn PROVE Goal
  BY <1>0, <1>8, UnsentFact, PollTurns, PollSettles DEF SendReturn
<1>9. ASSUME PollReturn PROVE Goal
  <2>1. CASE c' = ChargeResendsLocked(c)
    BY <1>0, <1>9, <2>1, ChargeTurns, ChargeKeepsCur DEF PollReturn
  <2>2. CASE c' = c
    BY <1>9, <2>2 DEF PollReturn, Turns
  <2> QED BY <1>9, <2>1, <2>2 DEF PollReturn
<1>10. ASSUME Close PROVE Goal
  BY <1>0, <1>10, CloseTurns DEF Close
<1> QED
  BY <1>1, <1>2, <1>3, <1>4, <1>6, <1>7, <1>8, <1>9, <1>10 DEF ClientStep, FlushFail, WriteFail

\* The clock and the reader keep to the second layer.
LEMMA LayerNext ==
  ASSUME IInv, IInv', Watched, AwayClock, [Next]_vars
  PROVE  Watched' /\ AwayClock'
<1> c \in Client /\ net \in Network
  BY DEF IInv, TypeOK
<1> USE UpTunnelAssumption
<1>1. ASSUME ClientStep, ~DialOK PROVE Watched' /\ AwayClock'
  <2>1. Turns(c, c') /\ (net' = NetAfter(c') \/ (net' = net /\ c'.cur.open = c.cur.open))
    BY <1>1, ClientTurns
  <2>2. AwayClock'
    BY <2>1 DEF Turns, Away, AwayClock
  <2>3. CASE ~c'.cur.open
    <3>1. c'.cur = NoStream
      BY <2>1, <2>3 DEF Turns, Watched
    <3>2. net' = NoNet
      BY <2>1, <2>3 DEF NetAfter, Watched
    <3> QED BY <2>2, <3>1, <3>2 DEF Watched, NoStream, NoNet
  <2>4. CASE c'.cur.open
    <3>1. net' = net
      BY <2>1, <2>4 DEF NetAfter
    <3>2. c'.cur.dead = c.cur.dead /\ c'.cur.clean = c.cur.clean
      BY <2>1, <2>4 DEF Turns, NoStream
    <3> QED BY <2>2, <2>4, <3>1, <3>2 DEF Watched
  <2> QED BY <2>3, <2>4
<1>2. ASSUME DialOK PROVE Watched' /\ AwayClock'
  <2>1. /\ c'.cur = NewStream /\ c'.leftAt = c.leftAt /\ c'.idx = c.idx
        /\ net'.link = "open" /\ net'.watch = "reading"
    BY <1>2 DEF DialOK, Client
  <2>2. NewStream.open = TRUE /\ NewStream.dead = FALSE
    BY DEF NewStream, NoStream
  <2> QED BY <2>1, <2>2 DEF Watched, AwayClock
<1>3. ASSUME WatchRead PROVE Watched' /\ AwayClock'
  <2>1. c.cur.open /\ ~c.cur.dead
    BY <1>3 DEF WatchRead, Watched, NoNet
  <2>2. /\ c' = [c EXCEPT !.cur = [c.cur EXCEPT !.clean = (net.link = "fin")]]
        /\ net' = [net EXCEPT !.watch = "storing"]
    BY <1>3 DEF WatchRead, Client
  <2>3. /\ c'.cur.open = c.cur.open /\ c'.cur.dead = c.cur.dead
        /\ c'.cur.clean = (net.link = "fin") /\ c'.leftAt = c.leftAt /\ c'.idx = c.idx
    BY <2>2 DEF Client, Stream
  <2>4. net'.link = net.link /\ net'.watch = "storing" /\ net.link # "open"
    BY <1>3, <2>2 DEF WatchRead, Network
  <2> QED BY <2>1, <2>3, <2>4 DEF Watched, AwayClock
<1>4. ASSUME WatchStore PROVE Watched' /\ AwayClock'
  <2>1. c.cur.open
    BY <1>4 DEF WatchStore, Watched, NoNet
  <2>2. /\ c' = [c EXCEPT !.cur = [c.cur EXCEPT !.dead = TRUE]]
        /\ net' = [net EXCEPT !.watch = "done"] /\ net.watch = "storing"
    BY <1>4 DEF WatchStore, Client
  <2>3. /\ c'.cur.open = c.cur.open /\ c'.cur.clean = c.cur.clean
        /\ c'.leftAt = c.leftAt /\ c'.idx = c.idx
    BY <2>2 DEF Client, Stream
  <2>4. net'.link = net.link /\ net'.watch = "done"
    BY <2>2 DEF Network
  <2> QED BY <2>1, <2>2, <2>3, <2>4 DEF Watched, AwayClock
<1>5. ASSUME PeerAck \/ PeerRead PROVE Watched' /\ AwayClock'
  <2>1. c' = c /\ net.link = "open" /\ net'.link = "open" /\ net'.watch = net.watch
    BY <1>5 DEF PeerAck, PeerRead, Network
  <2>2. c.cur.open
    BY <2>1 DEF Watched, NoNet
  <2> QED BY <2>1, <2>2 DEF Watched, AwayClock
<1>6. ASSUME PeerClose \/ PeerReset PROVE Watched' /\ AwayClock'
  <2>1. c' = c /\ net.link \in {"open", "fin"} /\ net'.watch = net.watch /\ net'.link \in {"fin", "rst"}
        /\ (net'.link = "fin" => net.link = "open")
    BY <1>6 DEF PeerClose, PeerReset, Network
  <2>2. c.cur.open
    BY <2>1 DEF Watched, NoNet
  <2>3. net.link = "open" => net.watch = "reading"
    BY DEF Watched
  <2> QED BY <2>1, <2>2, <2>3 DEF Watched, AwayClock
<1>7. ASSUME Tick PROVE Watched' /\ AwayClock'
  <2> DEFINE left2 == IF c.leftAt = Unset THEN c.leftAt ELSE AtMost(c.leftAt + 1, Prefer)
             at2 == [r \in Record |-> IF r \in c.unconfirmed
                                      THEN AtMost(c.at[r] + 1, Grace) ELSE c.at[r]]
  <2>1. c' = [c EXCEPT !.at = at2, !.leftAt = left2] /\ net' = net
    BY <1>7 DEF Tick, Client
  <2>2. left2 = Unset <=> c.leftAt = Unset
    BY DEF Client, AtMost, Unset
  <2> HIDE DEF at2, left2
  <2>3. c'.cur = c.cur /\ c'.idx = c.idx /\ c'.leftAt = left2
    BY <2>1 DEF Client
  <2> QED BY <2>1, <2>2, <2>3 DEF Watched, AwayClock
<1>8. ASSUME UNCHANGED vars PROVE Watched' /\ AwayClock'
  BY <1>8 DEF vars, Watched, AwayClock
<1> QED
  BY <1>1, <1>2, <1>3, <1>4, <1>5, <1>6, <1>7, <1>8 DEF Next

-----------------------------------------------------------------------------
(* Safety *)

\* The fields of Client, stream and pending keep their types.
THEOREM TypeCorrect == Spec => []TypeOK
<1>1. IInv => TypeOK
  BY DEF IInv
<1> QED BY <1>1, InvHolds, PTL

\* No record is dropped, held twice or settled twice, whatever the sequence of
\* sends, polls, closes, failovers and network failures: Send's promise that
\* done is called exactly once, and never for a record it refused.
THEOREM ConservationHolds == Spec => []Conservation
<1>1. IInv => Conservation
  <2> SUFFICES ASSUME IInv, NEW r \in Record
               PROVE  Places(r) = IF r \in Accepted THEN 1 ELSE 0
    BY DEF Conservation
  <2> c \in Client /\ ClientOK(c)
    BY DEF IInv, TypeOK
  <2>1. c.confirmed[r] \in Nat /\ c.lost[r] \in Nat /\ c.confirmed[r] + c.lost[r] <= 1
    BY DEF ClientOK, Client
  <2>2. CASE r \notin Accepted
    <3>1. r \notin c.unconfirmed /\ r \notin c.resend
            /\ ~(c.confirmed[r] > 0) /\ ~(c.lost[r] > 0)
      BY <2>2 DEF IInv, Placed, Held
    <3> QED BY <2>1, <2>2, <3>1 DEF Places
  <2>3. CASE r \in Accepted /\ r \in Held(c)
    <3>1. c.confirmed[r] = 0 /\ c.lost[r] = 0
      BY <2>3 DEF ClientOK
    <3>2. \/ r \in c.unconfirmed /\ r \notin c.resend
          \/ r \notin c.unconfirmed /\ r \in c.resend
      BY <2>3 DEF ClientOK, Held
    <3> QED BY <2>3, <3>1, <3>2 DEF Places
  <2>4. CASE r \in Accepted /\ r \notin Held(c)
    <3>1. c.confirmed[r] > 0 \/ c.lost[r] > 0
      BY <2>4 DEF IInv, Placed
    <3>2. r \notin c.unconfirmed /\ r \notin c.resend
      BY <2>4 DEF Held
    <3> QED BY <2>1, <2>4, <3>1, <3>2 DEF Places
  <2> QED BY <2>2, <2>3, <2>4
<1> QED BY <1>1, InvHolds, PTL

\* With a readable send queue, only records the ingress host acknowledged are
\* ever confirmed, across any number of connections, failovers and fail-backs.
THEOREM ConfirmedWasAckedHolds == Spec => []ConfirmedWasAcked
<1>1. IInv => ConfirmedWasAcked
  BY DEF IInv, ConfirmedWasAcked
<1> QED BY <1>1, InvHolds, PTL

\* The resend budget bounds the writes of a record for every MaxResends.
THEOREM ResendBudgetHolds == Spec => []ResendBudget
<1>1. IInv => ResendBudget
  BY DEF IInv, ResendBudget
<1> QED BY <1>1, InvHolds, PTL

\* The second layer holds in every state of every behaviour.
LEMMA LayerHolds == Spec => [](Watched /\ AwayClock)
<1>1. Init => Watched /\ AwayClock
  BY DEF Init, Watched, AwayClock, NoStream, NoNet
<1>2. IInv /\ IInv' /\ (Watched /\ AwayClock) /\ [Next]_vars => (Watched /\ AwayClock)'
  BY LayerNext
<1> QED BY <1>1, <1>2, InvHolds, PTL DEF Spec

\* advanceLocked, maybeFailBackLocked and the clock agree for any number of
\* addresses: the fail-back clock runs exactly while the client is away.
THEOREM AwayClockHolds == Spec => []AwayClock
BY LayerHolds, PTL

-----------------------------------------------------------------------------
(* A clean close *)

\* retireLocked, told that the close was clean, requeues and loses nothing that
\* was acknowledged.
LEMMA RetireCleanKeeps ==
  ASSUME NEW k, NEW q \in Int, ClientOK(k), OutqKnown, NEW r \in k.unconfirmed,
         k.end[r] <= k.cur.written - q
  PROVE  LET k2 == RetireLocked(k, TRUE, q) IN r \notin k2.resend /\ k2.lost[r] = k.lost[r]
<1> k \in Client /\ k.cur.open
  BY DEF ClientOK
<1> DEFINE known == TRUE /\ OutqKnown
           sure  == {s \in k.unconfirmed : known /\ k.end[s] <= k.cur.written - q}
           rest  == k.unconfirmed \ sure
           base  == ConfirmLocked([k EXCEPT !.cur = NoStream, !.unconfirmed = {}], sure)
<1>1. CountedFor(k.confirmed, sure) \in [Record -> Nat] /\ NoStream \in Stream
  BY CountedForFields DEF Client, NoStream, Stream
<1>2. base = [k EXCEPT !.cur = NoStream, !.unconfirmed = {},
                       !.confirmed = CountedFor(k.confirmed, sure)]
  BY DEF ConfirmLocked, Client
<1>3. rest \in SUBSET Record /\ r \notin rest /\ r \in Record
  BY DEF Client
<1>4. RetireLocked(k, TRUE, q) = RequeueLocked(base, rest)
  BY DEF RetireLocked
<1> HIDE DEF sure, base
<1>5. base \in Client /\ base.resend = k.resend /\ base.lost = k.lost
  BY <1>1, <1>2 DEF Client
<1> HIDE DEF rest
<1> DEFINE k2 == RequeueLocked(base, rest)
<1>6. /\ k2.resend = base.resend \cup {s \in rest : base.resends[s] + 1 <= MaxResends}
      /\ k2.lost[r] = base.lost[r] + IF r \in rest /\ base.resends[r] + 1 > MaxResends THEN 1 ELSE 0
  BY <1>3, <1>5, RequeueFields
<1> HIDE DEF k2
<1>7. r \notin k.resend /\ k.lost[r] \in Nat
  BY <1>3 DEF ClientOK, Client
<1>8. r \notin k2.resend /\ k2.lost[r] = k.lost[r]
  BY <1>3, <1>5, <1>6, <1>7
<1> QED BY <1>4, <1>8 DEF k2

\* When Send or Poll reaps a connection that a FIN closed, what the peer
\* acknowledged on it is neither resent nor lost; nor by Close.
THEOREM CleanCloseKeepsAckedHolds == Spec => CleanCloseKeepsAcked
<1> DEFINE Kept == \A r \in c.unconfirmed :
                     c.end[r] <= net.acked => r \notin c'.resend /\ c'.lost[r] = c.lost[r]
<1>1. ASSUME IInv, Watched, [Next]_vars, OutqKnown, op.kind = "none", net.link = "fin", c.cur.dead
      PROVE  Kept
  <2> SUFFICES ASSUME NEW r \in c.unconfirmed, c.end[r] <= net.acked
               PROVE  r \notin c'.resend /\ c'.lost[r] = c.lost[r]
    OBVIOUS
  <2>0. ClientOK(c) /\ c \in Client /\ r \in Record /\ r \notin c.resend /\ c.cur.open
    BY <1>1 DEF IInv, ClientOK, Client
  <2>1. c.cur.clean = TRUE
    BY <1>1, <2>0 DEF Watched, Client, Stream
  <2>2. UnsentBytes \in Int /\ c.end[r] <= c.cur.written - UnsentBytes
    BY <1>1, UnsentFact
  <2> DEFINE k1 == RetireLocked(c, TRUE, UnsentBytes)
  <2>3. r \notin k1.resend /\ k1.lost[r] = c.lost[r]
    BY <1>1, <2>0, <2>2, RetireCleanKeeps
  <2>4. k1 \in Client /\ ~k1.cur.open
    <3>1. TRUE \in BOOLEAN
      OBVIOUS
    <3> QED BY <2>0, <2>2, <3>1, RetireSettles, RetireCloses, Zenon DEF Settles, ClientOK
  <2>5. PollLocked(ReapLocked(c, UnsentBytes), UnsentBytes) = k1
    <3>1. ReapLocked(c, UnsentBytes) = k1
      BY <1>1, <2>0, <2>1 DEF ReapLocked
    <3> HIDE DEF k1
    <3>2. PollLocked(k1, UnsentBytes) = k1
      BY <2>4 DEF PollLocked
    <3> QED BY <3>1, <3>2
  <2> HIDE DEF k1
  <2>6. ASSUME NEW s \in Record, Send(s) PROVE r \notin c'.resend /\ c'.lost[r] = c.lost[r]
    <3>1. c' = MaybeFailBackLocked(k1)
      BY <2>5, <2>6 DEF Send
    <3>2. c' = k1 \/ c' = [k1 EXCEPT !.idx = 0, !.leftAt = Unset, !.cur = NoStream]
      BY <3>1 DEF MaybeFailBackLocked
    <3>3. c'.resend = k1.resend /\ c'.lost = k1.lost
      BY <2>4, <3>2 DEF Client
    <3> QED BY <2>3, <3>3
  <2>7. ASSUME Poll PROVE r \notin c'.resend /\ c'.lost[r] = c.lost[r]
    BY <2>3, <2>5, <2>7 DEF Poll
  <2>8. ASSUME Close PROVE r \notin c'.resend /\ c'.lost[r] = c.lost[r]
    <3> DEFINE k == CloseLocked(c, UnsentBytes)
    <3>1. Settles(c, k, UnsentBytes)
      BY <2>0, <2>2, CloseSettles
    <3>2. c' = k
      BY <2>8 DEF Close
    <3> DEFINE acked == IF OutqKnown THEN c.cur.written - UnsentBytes ELSE c.cur.acked
               sure == {s \in c.unconfirmed : c.end[s] <= acked}
               no == CountedFor(CountedFor(c.lost, c.unconfirmed \ sure), c.resend)
    <3>3. k = [c EXCEPT !.cur = NoStream, !.unconfirmed = {}, !.confirmed = CountedFor(c.confirmed, sure),
                        !.lost = no, !.resend = {}]
      BY <2>0 DEF CloseLocked, LoseLocked, ConfirmLocked, Client
    <3>4. r \in sure
      BY <1>1, <2>2
    <3> HIDE DEF sure
    <3>5. no[r] = c.lost[r]
      BY <2>0, <3>4 DEF CountedFor, Client
    <3> HIDE DEF no, k
    <3>6. k.resend = {} /\ k.lost = no
      BY <2>0, <3>3 DEF Client
    <3> QED BY <3>2, <3>5, <3>6
  <2>9. ASSUME c'.resend = c.resend, c'.lost = c.lost PROVE r \notin c'.resend /\ c'.lost[r] = c.lost[r]
    BY <2>0, <2>9
  <2>10. ASSUME WatchRead \/ WatchStore \/ Tick PROVE c'.resend = c.resend /\ c'.lost = c.lost
    BY <2>0, <2>10 DEF WatchRead, WatchStore, Tick, Client
  <2>11. ASSUME PeerAck \/ PeerRead \/ PeerClose \/ PeerReset \/ UNCHANGED vars PROVE c' = c
    BY <2>11 DEF PeerAck, PeerRead, PeerClose, PeerReset, vars
  <2>12. ASSUME ClientStep PROVE Poll \/ Close \/ \E s \in Record : Send(s)
    BY <1>1, <2>12 DEF ClientStep, FlushOK, DialOK, DialFail, FlushFail, WriteOK, WriteFail,
                       SendReturn, PollReturn, Attempting
  <2> QED
    BY <1>1, <2>6, <2>7, <2>8, <2>9, <2>10, <2>11, <2>12 DEF Next
<1>2. IInv /\ Watched /\ [Next]_vars
        => (OutqKnown /\ op.kind = "none" /\ net.link = "fin" /\ c.cur.dead => Kept)
  BY <1>1
<1> QED
  BY <1>2, InvHolds, LayerHolds, PTL DEF Spec, CleanCloseKeepsAcked

-----------------------------------------------------------------------------
(* The refinement of RecordDelivery *)

\* What a connection carried, Send accepted.
CarriedTaken == hist.carried \subseteq Accepted

\* The three kinds of steps the caller can tell apart: a record is taken, a
\* record is refused, or records are settled, none of them perhaps.
TakesOne(r) ==
  /\ r \notin Accepted /\ returned[r] = "no" /\ Accepted' = Accepted \cup {r}
  /\ c'.confirmed = c.confirmed /\ c'.lost = c.lost /\ returned' = returned
  /\ hist'.onHost = hist.onHost /\ hist'.carried \subseteq hist.carried \cup {r}

RefusesOne(r) ==
  /\ r \notin Accepted /\ returned[r] = "no" /\ Accepted' = Accepted
  /\ c'.confirmed = c.confirmed /\ c'.lost = c.lost /\ hist' = hist
  /\ returned' = [returned EXCEPT ![r] = "error"]

SettlesSome ==
  /\ Accepted' = Accepted
  /\ \A r \in Record : /\ c.confirmed[r] <= c'.confirmed[r] /\ c.lost[r] <= c'.lost[r]
                       /\ returned'[r] = "error" <=> returned[r] = "error"
  /\ hist'.onHost = hist.onHost /\ hist'.carried \subseteq hist.carried \cup Accepted

\* A step that leaves the caller's view and the records' fate alone is of the third kind.
LEMMA QuietStep ==
  ASSUME IInv, c'.confirmed = c.confirmed, c'.lost = c.lost, op' = op, returned' = returned,
         hist'.onHost = hist.onHost, hist'.carried \subseteq hist.carried \cup Accepted
  PROVE  SettlesSome
<1>1. Accepted' = Accepted
  BY DEF Accepted
<1>2. \A r \in Record : c.confirmed[r] \in Nat /\ c.lost[r] \in Nat
  BY DEF IInv, TypeOK, Client
<1> QED BY <1>1, <1>2 DEF SettlesSome

\* Every step of an operation is of one of the kinds.
LEMMA ClientKinds ==
  ASSUME IInv, ClientStep
  PROVE  SettlesSome \/ \E r \in Record : TakesOne(r) \/ RefusesOne(r)
<1>0. /\ c \in Client /\ ClientOK(c) /\ UnsentBytes \in Int /\ OpOK
      /\ op \in Operations /\ returned \in [Record -> Returns] /\ hist \in History
  BY UnsentFact DEF IInv, TypeOK, OpOK
<1>1. ASSUME NEW k, Settles(c, k, UnsentBytes), c' = k, Accepted' = Accepted,
             \A r \in Record : returned'[r] = "error" <=> returned[r] = "error",
             hist'.onHost = hist.onHost, hist'.carried \subseteq hist.carried
      PROVE  SettlesSome
  BY <1>1 DEF Settles, SettlesSome
<1>2. \A k : HistAfter(k).onHost = hist.onHost /\ HistAfter(k).carried \subseteq hist.carried
  BY <1>0 DEF HistAfter, History
<1>3. ASSUME NEW r \in Record, Send(r) PROVE SettlesSome
  <2> DEFINE k0 == PollLocked(ReapLocked(c, UnsentBytes), UnsentBytes)
             k == MaybeFailBackLocked(k0)
  <2>1. Settles(c, k0, UnsentBytes)
    BY ReapPollSettles
  <2>2. /\ op.kind = "none" /\ op' = [kind |-> "send", rec |-> r, attempt |-> 0, ok |-> FALSE]
        /\ c' = k /\ hist' = HistAfter(k) /\ returned' = returned
    BY <1>3 DEF Send
  <2> HIDE DEF k0
  <2>3. Settles(k0, k, UnsentBytes)
    BY <1>0, <2>1, FailBackSettles DEF Settles
  <2>4. Settles(c, k, UnsentBytes)
    BY <1>0, <2>1, <2>3, SettlesTrans
  <2> HIDE DEF k
  <2>5. Accepted' = Accepted
    BY <1>0, <2>2 DEF Accepted, OpOK
  <2> QED BY <1>1, <1>2, <2>2, <2>4, <2>5
<1>4. ASSUME Poll PROVE SettlesSome
  <2> DEFINE k == PollLocked(ReapLocked(c, UnsentBytes), UnsentBytes)
  <2>1. Settles(c, k, UnsentBytes)
    BY ReapPollSettles
  <2>2. /\ op.kind = "none" /\ (op' = Idle \/ op' = [Idle EXCEPT !.kind = "poll"])
        /\ c' = k /\ hist' = HistAfter(k) /\ returned' = returned
    BY <1>4 DEF Poll
  <2> HIDE DEF k
  <2>3. Accepted' = Accepted
    BY <1>0, <2>2 DEF Accepted, OpOK, Idle
  <2> QED BY <1>1, <1>2, <2>1, <2>2, <2>3
<1>5. ASSUME DialFail PROVE SettlesSome
  <2>1. /\ c' = AdvanceLocked(c) /\ op' = [op EXCEPT !.attempt = @ + 1]
        /\ returned' = returned /\ hist' = hist
    BY <1>5 DEF DialFail
  <2>2. Accepted' = Accepted
    BY <1>0, <2>1 DEF Accepted, Operations
  <2> QED BY <1>0, <1>1, <2>1, <2>2, AdvanceSettles
<1>6. ASSUME Broken PROVE SettlesSome
  <2>1. /\ c' = BreakLocked(c) /\ op' = [op EXCEPT !.attempt = @ + 1]
        /\ returned' = returned /\ hist' = HistAfter(c')
    BY <1>6 DEF Broken
  <2>2. Accepted' = Accepted
    BY <1>0, <2>1 DEF Accepted, Operations
  <2> QED BY <1>0, <1>1, <1>2, <2>1, <2>2, BreakSettles
<1>7. ASSUME NEW r \in Record, FlushOK(r) PROVE SettlesSome
  <2>1. /\ c.cur.open /\ r \in c.resend /\ c' = FlushResendLocked(c, r)
        /\ op' = op /\ returned' = returned
        /\ hist'.onHost = hist.onHost /\ hist'.carried = hist.carried \cup {r}
    BY <1>0, <1>7 DEF FlushOK, ResendHead, Written, History
  <2>2. r \in Accepted
    BY <2>1 DEF IInv, Placed, Held
  <2>3. c'.confirmed = c.confirmed /\ c'.lost = c.lost
    BY <1>0, <2>1, WriteFields
  <2> QED BY <2>1, <2>2, <2>3, QuietStep
<1>8. ASSUME WriteOK PROVE \E r \in Record : TakesOne(r)
  <2>1. PICK r \in Record : r = op.rec /\ returned[r] = "no" /\ r \notin Accepted
    BY <1>0, <1>8 DEF WriteOK, Attempting, OpOK, Accepted
  <2>2. /\ c.cur.open /\ c' = WriteLocked(c, r) /\ op' = [op EXCEPT !.ok = TRUE] /\ returned' = returned
        /\ hist'.onHost = hist.onHost /\ hist'.carried = hist.carried \cup {r}
    BY <1>0, <1>8, <2>1 DEF WriteOK, Written, History
  <2>3. Accepted' = Accepted \cup {r}
    BY <1>0, <2>1, <2>2 DEF Accepted, Operations
  <2>4. c'.confirmed = c.confirmed /\ c'.lost = c.lost
    <3>1. FlushResendLocked(c, r).confirmed = c.confirmed /\ FlushResendLocked(c, r).lost = c.lost
      BY <1>0, <2>2, WriteFields
    <3>2. WriteLocked(c, r) \in Client /\ FlushResendLocked(c, r) = [WriteLocked(c, r) EXCEPT !.resend = @ \ {r}]
      BY <1>0, WriteInClient DEF FlushResendLocked
    <3> QED BY <2>2, <3>1, <3>2 DEF Client
  <2> QED BY <2>1, <2>2, <2>3, <2>4 DEF TakesOne
<1>9. ASSUME DialOK PROVE SettlesSome
  <2>1. c' = [c EXCEPT !.cur = NewStream] /\ op' = op /\ returned' = returned /\ hist' = hist
    BY <1>9 DEF DialOK
  <2>2. c'.confirmed = c.confirmed /\ c'.lost = c.lost
    BY <1>0, <2>1 DEF Client
  <2> QED BY <2>1, <2>2, QuietStep
<1>10. ASSUME SendReturn PROVE SettlesSome \/ \E r \in Record : RefusesOne(r)
  <2>1. PICK r \in Record : r = op.rec /\ returned[r] = "no"
    BY <1>0, <1>10 DEF SendReturn, OpOK
  <2>2. /\ op.kind = "send" /\ c' = PollLocked(c, UnsentBytes) /\ op' = Idle /\ hist' = hist
        /\ returned' = [returned EXCEPT ![r] = IF op.ok THEN "nil" ELSE "error"]
    BY <1>10, <2>1 DEF SendReturn
  <2>3. Accepted' = Accepted
    <3>1. ASSUME NEW s \in Record PROVE s \in Accepted' <=> s \in Accepted
      <4>0. Idle.rec = NoRecord /\ Idle.ok = FALSE
        BY DEF Idle
      <4>1. CASE s = r
        BY <1>0, <2>1, <2>2, <4>0, <4>1, UpTunnelAssumption DEF Accepted
      <4>2. CASE s # r
        BY <1>0, <2>1, <2>2, <4>0, <4>2, UpTunnelAssumption DEF Accepted
      <4> QED BY <4>1, <4>2
    <3> QED BY <3>1 DEF Accepted
  <2>4. CASE op.ok
    <3>1. \A s \in Record : returned'[s] = "error" <=> returned[s] = "error"
      BY <1>0, <2>1, <2>2, <2>4
    <3>2. Settles(c, PollLocked(c, UnsentBytes), UnsentBytes)
      BY <1>0, UnsentFact, PollSettles
    <3> QED BY <1>1, <2>2, <2>3, <3>1, <3>2
  <2>5. CASE ~op.ok
    <3>1. ~c.cur.open
      BY <1>0, <1>10, <2>5 DEF SendReturn, OpOK
    <3>2. c' = c
      BY <2>2, <3>1 DEF PollLocked
    <3>3. r \notin Accepted
      BY <2>1, <2>5 DEF Accepted
    <3> QED BY <2>1, <2>2, <2>3, <2>5, <3>2, <3>3 DEF RefusesOne
  <2> QED BY <2>4, <2>5
<1>11. ASSUME PollReturn PROVE SettlesSome
  <2>1. /\ op.kind = "poll" /\ (c' = ChargeResendsLocked(c) \/ c' = c)
        /\ op' = Idle /\ returned' = returned /\ hist' = hist
    BY <1>11 DEF PollReturn
  <2>2. Settles(c, c', UnsentBytes)
    BY <1>0, <2>1, ChargeSettles, SettlesSelf
  <2>3. Accepted' = Accepted
    BY <1>0, <2>1, UpTunnelAssumption DEF Accepted, OpOK, Idle
  <2> QED BY <1>1, <2>1, <2>2, <2>3
<1>12. ASSUME Close PROVE SettlesSome
  <2>1. /\ c' = CloseLocked(c, UnsentBytes) /\ op' = op /\ returned' = returned
        /\ hist' = [hist EXCEPT !.carried = {}, !.closed = TRUE]
    BY <1>12 DEF Close
  <2>2. hist'.onHost = hist.onHost /\ hist'.carried = {}
    BY <1>0, <2>1 DEF History
  <2>3. Accepted' = Accepted
    BY <2>1 DEF Accepted
  <2> QED BY <1>0, <1>1, <2>1, <2>2, <2>3, CloseSettles
<1> QED
  BY <1>3, <1>4, <1>5, <1>6, <1>7, <1>8, <1>9, <1>10, <1>11, <1>12 DEF ClientStep, FlushFail, WriteFail

\* The reader, the peer and the clock change no record's fate.
LEMMA StepKinds ==
  ASSUME IInv, [Next]_vars, ~PeerAck
  PROVE  SettlesSome \/ \E r \in Record : TakesOne(r) \/ RefusesOne(r)
<1>0. c \in Client /\ hist \in History
  BY DEF IInv, TypeOK
<1>1. ASSUME WatchRead \/ WatchStore \/ Tick PROVE SettlesSome
  <2>1. c'.confirmed = c.confirmed /\ c'.lost = c.lost /\ op' = op /\ returned' = returned /\ hist' = hist
    BY <1>0, <1>1 DEF WatchRead, WatchStore, Tick, Client
  <2> QED BY <2>1, QuietStep
<1>2. ASSUME PeerRead \/ PeerClose \/ PeerReset \/ UNCHANGED vars PROVE SettlesSome
  <2>1. c' = c /\ op' = op /\ returned' = returned /\ hist'.onHost = hist.onHost /\ hist'.carried = hist.carried
    BY <1>0, <1>2 DEF PeerRead, PeerClose, PeerReset, vars, History
  <2> QED BY <2>1, QuietStep
<1> QED
  BY <1>1, <1>2, ClientKinds DEF Next

\* The peer acknowledges a record.
LEMMA AckStep ==
  ASSUME IInv, PeerAck
  PROVE  /\ c' = c /\ op' = op /\ returned' = returned /\ hist'.carried = hist.carried
         /\ \E S \in SUBSET hist.carried : hist'.onHost = hist.onHost \cup S
<1>1. hist \in History
  BY DEF IInv, TypeOK
<1> QED BY <1>1 DEF PeerAck, History

\* The third layer: connections carry only records that were accepted.
LEMMA CarriedTakenHolds == Spec => []CarriedTaken
<1>1. Init => CarriedTaken
  BY DEF Init, CarriedTaken
<1>2. ASSUME IInv, CarriedTaken, [Next]_vars PROVE CarriedTaken'
  <2>1. CASE PeerAck
    BY <1>2, <2>1, AckStep DEF CarriedTaken, Accepted
  <2>2. CASE ~PeerAck
    BY <1>2, <2>2, StepKinds DEF CarriedTaken, SettlesSome, TakesOne, RefusesOne
  <2> QED BY <2>1, <2>2
<1> QED BY <1>1, <1>2, InvHolds, PTL DEF Spec


\* The caller's view of a record, fate by fate: it depends on where the record
\* is, not on the order in which FateOf asks.
LEMMA FateCases ==
  ASSUME IInv, NEW r \in Record
  PROVE  /\ c.confirmed[r] \in Nat /\ c.lost[r] \in Nat /\ c.confirmed[r] + c.lost[r] <= 1
         /\ c.confirmed[r] > 0 \/ c.lost[r] > 0 => r \in Accepted
<1>1. c \in Client
  BY DEF IInv, TypeOK
<1> QED BY <1>1 DEF IInv, ClientOK, Client, Placed

\* A step that settles records is a Settle of the contract: of what was pending,
\* each record one way, and confirmed only what the host has acknowledged.
LEMMA SettlesDelivers ==
  ASSUME IInv, IInv', OutqKnown, SettlesSome
  PROVE  \E yes, no \in SUBSET Record : Delivery!Settle(yes, no)
<1> DEFINE yes == {r \in Record : c'.confirmed[r] > 0 /\ c.confirmed[r] = 0}
           no  == {r \in Record : c'.lost[r] > 0 /\ c.lost[r] = 0}
<1>1. ASSUME NEW r \in Record
      PROVE  /\ c.confirmed[r] \in Nat /\ c.lost[r] \in Nat /\ c.confirmed[r] + c.lost[r] <= 1
             /\ c.confirmed[r] > 0 \/ c.lost[r] > 0 => r \in Accepted
  BY <1>1, FateCases
<1>2. ASSUME NEW r \in Record
      PROVE  /\ c'.confirmed[r] \in Nat /\ c'.lost[r] \in Nat /\ c'.confirmed[r] + c'.lost[r] <= 1
             /\ c'.confirmed[r] > 0 \/ c'.lost[r] > 0 => r \in Accepted
             /\ c'.confirmed[r] > 0 => r \in hist.onHost
  <2>1. c' \in Client /\ Placed(c)' = Accepted'
    BY DEF IInv, TypeOK
  <2>2. Accepted' = Accepted /\ hist'.onHost = hist.onHost
    BY DEF SettlesSome
  <2>3. c'.confirmed[r] \in Nat /\ c'.lost[r] \in Nat /\ c'.confirmed[r] + c'.lost[r] <= 1
    BY <2>1 DEF IInv, ClientOK, Client
  <2>4. c'.confirmed[r] > 0 \/ c'.lost[r] > 0 => r \in Accepted
    BY <2>1, <2>2 DEF Placed
  <2>5. c'.confirmed[r] > 0 => r \in hist.onHost
    BY <2>2 DEF IInv
  <2> QED BY <2>3, <2>4, <2>5
<1>3. ASSUME NEW r \in Record
      PROVE  /\ c.confirmed[r] <= c'.confirmed[r] /\ c.lost[r] <= c'.lost[r]
             /\ r \in Accepted' <=> r \in Accepted
             /\ returned'[r] = "error" <=> returned[r] = "error"
  BY <1>3 DEF SettlesSome
<1>4. yes \cap no = {} /\ yes \subseteq hist.onHost
  BY <1>2
<1>5. ASSUME NEW r \in yes \cup no PROVE FateOf(r) = "pending"
  BY <1>1, <1>2, <1>3, <1>5 DEF FateOf
<1>6. ASSUME NEW r \in Record
      PROVE  FateOf(r)' = IF r \in yes THEN "confirmed" ELSE IF r \in no THEN "lost" ELSE FateOf(r)
  BY <1>1, <1>2, <1>3, <1>6 DEF FateOf
<1>7. hist'.onHost = hist.onHost
  BY DEF SettlesSome
<1>8. yes \in SUBSET Record /\ no \in SUBSET Record
  OBVIOUS
<1> HIDE DEF yes, no
<1>9. Delivery!Settle(yes, no)
  BY <1>4, <1>5, <1>6, <1>7, <1>8 DEF Delivery!Settle
<1> QED BY <1>8, <1>9

\* A step that takes a record is a Take of the contract.
LEMMA TakesDelivers ==
  ASSUME IInv, NEW r \in Record, TakesOne(r)
  PROVE  Delivery!Take(r)
<1>1. ASSUME NEW s \in Record
      PROVE  /\ c.confirmed[s] \in Nat /\ c.lost[s] \in Nat
             /\ c.confirmed[s] > 0 \/ c.lost[s] > 0 => s \in Accepted
  BY <1>1, FateCases
<1>2. FateOf(r) = "unsent"
  BY <1>1 DEF TakesOne, FateOf
<1>3. FateOf(r)' = "pending"
  BY <1>1 DEF TakesOne, FateOf
<1>4. ASSUME NEW s \in Record, s # r PROVE FateOf(s)' = FateOf(s)
  BY <1>4 DEF TakesOne, FateOf
<1>5. hist'.onHost = hist.onHost
  BY DEF TakesOne
<1> QED BY <1>2, <1>3, <1>4, <1>5 DEF Delivery!Take

\* A step that returns an error is a Refuse of the contract.
LEMMA RefusesDelivers ==
  ASSUME IInv, NEW r \in Record, RefusesOne(r)
  PROVE  Delivery!Refuse(r)
<1>0. returned \in [Record -> Returns]
  BY DEF IInv, TypeOK
<1>1. ASSUME NEW s \in Record
      PROVE  /\ c.confirmed[s] \in Nat /\ c.lost[s] \in Nat
             /\ c.confirmed[s] > 0 \/ c.lost[s] > 0 => s \in Accepted
  BY <1>1, FateCases
<1>2. FateOf(r) = "unsent"
  BY <1>1 DEF RefusesOne, FateOf
<1>3. FateOf(r)' = "refused"
  BY <1>0, <1>1 DEF RefusesOne, FateOf
<1>4. ASSUME NEW s \in Record, s # r PROVE FateOf(s)' = FateOf(s)
  BY <1>0, <1>4 DEF RefusesOne, FateOf
<1>5. hist'.onHost = hist.onHost
  BY DEF RefusesOne
<1> QED BY <1>2, <1>3, <1>4, <1>5 DEF Delivery!Refuse

\* The peer's acknowledgement is an Arrive of the contract, of records taken.
LEMMA AckDelivers ==
  ASSUME IInv, CarriedTaken, PeerAck
  PROVE  \E S \in SUBSET Record : Delivery!Arrive(S)
<1>1. PICK S \in SUBSET hist.carried : hist'.onHost = hist.onHost \cup S
  BY AckStep
<1>2. S \in SUBSET Record /\ S \subseteq Accepted
  BY <1>1 DEF CarriedTaken, Accepted
<1>3. ASSUME NEW r \in S PROVE FateOf(r) \notin {"unsent", "refused"}
  BY <1>2, <1>3 DEF FateOf
<1>4. Accepted' = Accepted /\ c' = c /\ returned' = returned
  BY AckStep DEF Accepted
<1>5. ASSUME NEW r \in Record PROVE FateOf(r)' = FateOf(r)
  BY <1>4 DEF FateOf
<1>6. Delivery!Arrive(S)
  BY <1>1, <1>2, <1>3, <1>5 DEF Delivery!Arrive
<1> QED BY <1>2, <1>6

\* Where the kernel reports its send queue, the client with its dials,
\* failovers, resends and reaps implements the contract of Send's comment:
\* every step takes, refuses, acknowledges or settles records, or is invisible.
THEOREM ImplementsDeliveryHolds ==
  ASSUME OutqKnown
  PROVE  Spec => ImplementsDelivery
<1>1. Init => Delivery!Init
  <2> SUFFICES ASSUME Init PROVE Delivery!Init
    OBVIOUS
  <2>1. ASSUME NEW r \in Record PROVE FateOf(r) = "unsent"
    BY <2>1, UpTunnelAssumption DEF Init, FateOf, Accepted, Idle
  <2>2. hist.onHost = {}
    BY DEF Init
  <2> QED BY <2>1, <2>2 DEF Delivery!Init
<1>2. IInv /\ IInv' /\ CarriedTaken /\ [Next]_vars
        => [Delivery!Next]_<<[r \in Record |-> FateOf(r)], hist.onHost>>
  <2> SUFFICES ASSUME IInv, IInv', CarriedTaken, [Next]_vars PROVE Delivery!Next
    OBVIOUS
  <2>1. CASE PeerAck
    BY <2>1, AckDelivers DEF Delivery!Next
  <2>2. CASE SettlesSome
    BY <2>2, SettlesDelivers DEF Delivery!Next
  <2>3. CASE \E r \in Record : TakesOne(r) \/ RefusesOne(r)
    BY <2>3, TakesDelivers, RefusesDelivers DEF Delivery!Next
  <2> QED BY <2>1, <2>2, <2>3, StepKinds
<1> QED
  BY <1>1, <1>2, InvHolds, CarriedTakenHolds, PTL
     DEF Spec, ImplementsDelivery, Delivery!Spec
=============================================================================
