------------------------- MODULE PublishQueueProofs -------------------------
(***************************************************************************)
(* What is proved of PublishQueue, for any calls, record sizes and bounds: *)
(* the byte counter is exact and the bound holds, an accepted record is in *)
(* one place, and only a rollback leaves a waiting call behind.            *)
(***************************************************************************)
EXTENDS PublishQueue, SetSums, SequenceTheorems

-----------------------------------------------------------------------------
(* The inductive invariant *)

\* A call has its result when it is done, and not before.
ResultKnown == \A p \in Publisher : pc[p] # "done" => result[p] = "none"

\* Where accepted records are: each once in the channel, or with Run, or with
\* the client, whose word the two counts repeat.
Placed ==
  /\ \A i, j \in DOMAIN ch : ch[i] = ch[j] => i = j
  /\ \A i \in DOMAIN ch : result[ch[i]] = "nil" /\ fate[ch[i]] = "unsent" /\ ch[i] # item
  /\ run \in {"taken", "wake", "send"} <=> item # NoItem
  /\ item # NoItem => result[item] = "nil" /\ fate[item] = "unsent"
  /\ \A p \in Publisher :
       /\ fate[p] = "unsent" /\ result[p] = "nil" => p \in InChannel \/ item = p
       /\ fate[p] # "unsent" => result[p] = "nil"
       /\ p \in called <=> fate[p] = "confirmed"
       /\ p \in failed <=> fate[p] \in {"refused", "lost"}

\* The records whose bytes are booked.
Held == InChannel \cup Reserving \cup Receiving

Counted ==
  /\ IsFiniteSet(Held)
  /\ bytes = SumOf(Size, Held)
  /\ MaxBytes > 0 /\ bytes > MaxBytes => \A p, o \in Held : p = o

\* A call that waits, and was not passed over, waits behind booked bytes or
\* behind a wakeup that is under way; and so will one whose rollback is due.
Wakeful ==
  /\ \A p \in Publisher \ missed :
       Waiting(p) => ch # <<>> \/ run \in {"taken", "wake", "stopped"} \/ Reserving # {}
  /\ \A p \in Publisher :
       pc[p] = "rollback" /\ signal[p] = "open" => ch # <<>> \/ run \in {"taken", "wake", "stopped"}

IInv == TypeOK /\ ResultKnown /\ Placed /\ Counted /\ Wakeful

-----------------------------------------------------------------------------
(* The channel *)

\* A record put into the channel is its last.
LEMMA ChannelPut ==
  ASSUME TypeOK, NEW p \in Publisher, ch' = Append(ch, p)
  PROVE  /\ ch' \in Seq(Publisher) /\ ch' # <<>>
         /\ Len(ch') = Len(ch) + 1 /\ DOMAIN ch' = 1..(Len(ch) + 1) /\ DOMAIN ch = 1..Len(ch)
         /\ \A i \in DOMAIN ch : ch'[i] = ch[i]
         /\ ch'[Len(ch) + 1] = p
         /\ InChannel' = InChannel \cup {p}
<1>1. /\ ch' \in Seq(Publisher) /\ ch' # <<>>
      /\ Len(ch') = Len(ch) + 1 /\ DOMAIN ch' = 1..(Len(ch) + 1) /\ DOMAIN ch = 1..Len(ch)
      /\ \A i \in DOMAIN ch : ch'[i] = ch[i]
      /\ ch'[Len(ch) + 1] = p
  BY DEF TypeOK
<1>2. Len(ch) \in Nat
  BY DEF TypeOK
<1>3. InChannel' = InChannel \cup {p}
  BY <1>1, <1>2 DEF InChannel
<1> QED
  BY <1>1, <1>3

\* A record received is its first.
LEMMA ChannelTake ==
  ASSUME TypeOK, ch # <<>>, ch' = Tail(ch), \A i, j \in DOMAIN ch : ch[i] = ch[j] => i = j
  PROVE  /\ Head(ch) \in InChannel /\ Head(ch) \in Publisher /\ Head(ch) = ch[1] /\ 1 \in DOMAIN ch
         /\ ch' \in Seq(Publisher) /\ Len(ch') = Len(ch) - 1
         /\ \A i \in DOMAIN ch' : i + 1 \in DOMAIN ch /\ ch'[i] = ch[i + 1]
         /\ InChannel' = InChannel \ {Head(ch)}
<1>1. /\ Head(ch) \in Publisher /\ Head(ch) = ch[1] /\ 1 \in DOMAIN ch
      /\ ch' \in Seq(Publisher) /\ Len(ch') = Len(ch) - 1
      /\ DOMAIN ch = 1..Len(ch) /\ DOMAIN ch' = 1..(Len(ch) - 1) /\ Len(ch) \in Nat \ {0}
      /\ \A i \in DOMAIN ch' : i + 1 \in DOMAIN ch /\ ch'[i] = ch[i + 1]
  BY DEF TypeOK
<1>2. \A x \in InChannel' : x \in InChannel \ {Head(ch)}
  BY <1>1 DEF InChannel
<1>3. \A x \in InChannel \ {Head(ch)} : x \in InChannel'
  <2> SUFFICES ASSUME NEW i \in DOMAIN ch, ch[i] # ch[1] PROVE ch[i] \in InChannel'
    BY <1>1 DEF InChannel
  <2>1. i - 1 \in DOMAIN ch' /\ ch'[i - 1] = ch[i]
    BY <1>1
  <2> QED
    BY <2>1 DEF InChannel
<1>4. Head(ch) \in InChannel
  BY <1>1 DEF InChannel
<1> QED
  BY <1>1, <1>2, <1>3, <1>4

-----------------------------------------------------------------------------
(* The bytes *)

\* Only records count, and their sizes are positive.
LEMMA HeldType == ASSUME TypeOK, Placed PROVE Held \subseteq Publisher
BY DEF TypeOK, Placed, Held, InChannel, Reserving, Receiving

\* What the assumption says of the records and the bounds.
LEMMA Sizes ==
  /\ \A p \in Publisher : Size[p] \in Nat /\ Size[p] > 0
  /\ Depth \in Nat /\ Depth > 0 /\ MaxBytes \in Nat /\ NoItem \notin Publisher
BY QueueAssumption

\* An empty counter means that nothing is held.
LEMMA NothingHeld ==
  ASSUME TypeOK, Placed, Counted, bytes = 0
  PROVE  Held = {}
<1>1. SUFFICES ASSUME NEW p \in Held PROVE FALSE
  OBVIOUS
<1>2. Held \subseteq Publisher
  BY HeldType
<1>3. SumOf(Size, Held) = SumOf(Size, Held \ {p}) + Size[p]
  BY <1>2, Sizes, SumRemove DEF Counted
<1>4. SumOf(Size, Held \ {p}) \in Nat
  BY <1>2, Sizes, SumNat, FS_RemoveElement DEF Counted
<1>5. 0 = SumOf(Size, Held)
  BY DEF Counted
<1>6. Size[p] \in Nat /\ Size[p] > 0
  BY <1>2, Sizes
<1> QED
  BY <1>3, <1>4, <1>5, <1>6

\* A counter that is not empty means that something is.
LEMMA SomethingHeld ==
  ASSUME Counted, bytes # 0
  PROVE  ch # <<>> \/ run = "taken" \/ Reserving # {}
<1>1. SUFFICES ASSUME ch = <<>>, run # "taken", Reserving = {} PROVE FALSE
  OBVIOUS
<1>2. DOMAIN ch = {}
  BY <1>1
<1>3. Held = {}
  BY <1>1, <1>2 DEF Held, InChannel, Receiving
<1> QED
  BY <1>3, SumEmpty DEF Counted

\* A step that moves no bytes keeps the count.
LEMMA KeepsCounted ==
  ASSUME Counted, Held' = Held, bytes' = bytes
  PROVE  Counted'
BY DEF Counted

\* A reservation that fits keeps the count and the bound.
LEMMA AddsCounted ==
  ASSUME TypeOK, Placed, Counted, NEW p \in Publisher, p \notin Held, Fits(Size[p]),
         Held' = Held \cup {p}, bytes' = bytes + Size[p]
  PROVE  Counted' /\ bytes' \in Nat
<1>1. Held \subseteq Publisher
  BY HeldType
<1>2. IsFiniteSet(Held')
  BY FS_AddElement DEF Counted
<1>3. bytes' = SumOf(Size, Held')
  BY <1>1, Sizes, SumAdd DEF Counted
<1>4. bytes \in Nat /\ bytes' \in Nat
  BY Sizes DEF TypeOK
<1>5. ASSUME MaxBytes > 0, bytes' > MaxBytes PROVE \A q, o \in Held' : q = o
  <2>1. bytes = 0
    BY <1>4, <1>5, Sizes DEF Fits
  <2> QED
    BY <2>1, NothingHeld
<1> QED
  BY <1>2, <1>3, <1>4, <1>5 DEF Counted

\* What is given back is one record's bytes.
LEMMA DropsCounted ==
  ASSUME TypeOK, Placed, Counted, NEW p \in Held,
         Held' = Held \ {p}, bytes' = bytes - Size[p]
  PROVE  Counted' /\ bytes' \in Nat
<1>1. Held \subseteq Publisher
  BY HeldType
<1>2. IsFiniteSet(Held')
  BY FS_RemoveElement DEF Counted
<1>3. SumOf(Size, Held) = SumOf(Size, Held \ {p}) + Size[p]
  BY <1>1, Sizes, SumRemove DEF Counted
<1>4. SumOf(Size, Held') \in Nat
  BY <1>1, <1>2, Sizes, SumNat
<1>5. bytes' = SumOf(Size, Held')
  BY <1>1, <1>3, <1>4, Sizes DEF Counted
<1>6. ASSUME MaxBytes > 0, bytes' > MaxBytes PROVE \A q, o \in Held' : q = o
  <2>1. bytes > MaxBytes
    BY <1>1, <1>4, <1>5, <1>6, Sizes DEF TypeOK
  <2> QED
    BY <1>6, <2>1 DEF Counted
<1> QED
  BY <1>2, <1>4, <1>5, <1>6 DEF Counted

-----------------------------------------------------------------------------
(* The steps *)

\* The queue starts empty.
LEMMA InitIInv == Init => IInv
<1> SUFFICES ASSUME Init PROVE IInv
  OBVIOUS
<1>1. ch = <<>> /\ DOMAIN ch = {}
  BY DEF Init
<1>2. TypeOK
  BY <1>1, Sizes DEF Init, TypeOK, Client!Init, Client!Fates
<1>3. ResultKnown /\ Wakeful
  BY DEF Init, ResultKnown, Wakeful, Waiting
<1>4. Placed
  BY <1>1 DEF Init, Placed, Client!Init
<1>5. Held = {}
  BY <1>1 DEF Init, Held, InChannel, Reserving, Receiving
<1>6. Counted
  BY <1>5, SumEmpty, FS_EmptySet DEF Init, Counted
<1> QED
  BY <1>2, <1>3, <1>4, <1>6 DEF IInv

\* A call starts, or returns at once.
LEMMA EnterStep ==
  ASSUME IInv, NEW p \in Publisher, Enter(p)
  PROVE  IInv'
<1> USE DEF Enter, Move, Return, clientVars
<1>1. TypeOK'
  BY DEF IInv, TypeOK
<1>2. ResultKnown'
  BY DEF IInv, TypeOK, ResultKnown
<1>3. Placed'
  BY DEF IInv, TypeOK, ResultKnown, Placed, InChannel
<1>4. Held' = Held /\ bytes' = bytes
  BY DEF IInv, TypeOK, Held, InChannel, Reserving, Receiving
<1>5. Counted'
  BY <1>4, KeepsCounted DEF IInv
<1>6. Wakeful'
  BY DEF IInv, TypeOK, Wakeful, Waiting, Reserving
<1> QED
  BY <1>1, <1>2, <1>3, <1>5, <1>6 DEF IInv

\* An offer that does not fit waits behind the bytes that are booked.
LEMMA ReserveFailStep ==
  ASSUME IInv, NEW p \in Publisher, ReserveFail(p)
  PROVE  IInv'
<1> USE DEF ReserveFail, Move, Return, clientVars, AfterFailedOffer
<1>1. TypeOK'
  BY DEF IInv, TypeOK
<1>2. ResultKnown'
  BY DEF IInv, TypeOK, ResultKnown
<1>3. Placed'
  BY DEF IInv, TypeOK, ResultKnown, Placed, InChannel
<1>4. Held' = Held /\ bytes' = bytes
  BY DEF IInv, TypeOK, Held, InChannel, Reserving, Receiving
<1>5. Counted'
  BY <1>4, KeepsCounted DEF IInv
<1>6. Wakeful'
  <2>1. bytes # 0
    BY DEF Fits
  <2>2. ch # <<>> \/ run = "taken" \/ Reserving # {}
    BY <2>1, SomethingHeld DEF IInv
  <2>3. Reserving' = Reserving
    BY DEF IInv, TypeOK, Reserving, AfterFailedOffer
  <2> QED
    BY <2>2, <2>3 DEF IInv, TypeOK, Wakeful, Waiting, AfterFailedOffer
<1> QED
  BY <1>1, <1>2, <1>3, <1>5, <1>6 DEF IInv

\* A full channel holds a record.
LEMMA PutFailStep ==
  ASSUME IInv, NEW p \in Publisher, PutFail(p)
  PROVE  IInv'
<1> USE DEF PutFail, Move, Return, clientVars
<1>1. TypeOK'
  BY DEF IInv, TypeOK
<1>2. ResultKnown'
  BY DEF IInv, TypeOK, ResultKnown
<1>3. Placed'
  BY DEF IInv, TypeOK, ResultKnown, Placed, InChannel
<1>4. Held' = Held /\ bytes' = bytes
  BY DEF IInv, TypeOK, Held, InChannel, Reserving, Receiving
<1>5. Counted'
  BY <1>4, KeepsCounted DEF IInv
<1>6. Wakeful'
  <2>1. ch # <<>>
    BY Sizes
  <2> QED
    BY <2>1 DEF IInv, TypeOK, Wakeful, Waiting
<1> QED
  BY <1>1, <1>2, <1>3, <1>5, <1>6 DEF IInv

\* A call takes the room signal before it tries again.
LEMMA TakeSignalStep ==
  ASSUME IInv, NEW p \in Publisher, TakeSignal(p)
  PROVE  IInv'
<1> USE DEF TakeSignal, Move, Return, clientVars
<1>1. TypeOK'
  BY DEF IInv, TypeOK
<1>2. ResultKnown'
  BY DEF IInv, TypeOK, ResultKnown
<1>3. Placed'
  BY DEF IInv, TypeOK, ResultKnown, Placed, InChannel
<1>4. Held' = Held /\ bytes' = bytes
  BY DEF IInv, TypeOK, Held, InChannel, Reserving, Receiving
<1>5. Counted'
  BY <1>4, KeepsCounted DEF IInv
<1>6. Wakeful'
  BY DEF IInv, TypeOK, Wakeful, Waiting, Reserving
<1> QED
  BY <1>1, <1>2, <1>3, <1>5, <1>6 DEF IInv

\* A call is woken.
LEMMA WakeStep ==
  ASSUME IInv, NEW p \in Publisher, Wake(p)
  PROVE  IInv'
<1> USE DEF Wake, Move, Return, clientVars
<1>1. TypeOK'
  BY DEF IInv, TypeOK
<1>2. ResultKnown'
  BY DEF IInv, TypeOK, ResultKnown
<1>3. Placed'
  BY DEF IInv, TypeOK, ResultKnown, Placed, InChannel
<1>4. Held' = Held /\ bytes' = bytes
  BY DEF IInv, TypeOK, Held, InChannel, Reserving, Receiving
<1>5. Counted'
  BY <1>4, KeepsCounted DEF IInv
<1>6. Wakeful'
  BY DEF IInv, TypeOK, Wakeful, Waiting, Reserving
<1> QED
  BY <1>1, <1>2, <1>3, <1>5, <1>6 DEF IInv

\* A call gives up.
LEMMA TimeoutStep ==
  ASSUME IInv, NEW p \in Publisher, Timeout(p)
  PROVE  IInv'
<1> USE DEF Timeout, Move, Return, clientVars
<1>1. TypeOK'
  BY DEF IInv, TypeOK
<1>2. ResultKnown'
  BY DEF IInv, TypeOK, ResultKnown
<1>3. Placed'
  BY DEF IInv, TypeOK, ResultKnown, Placed, InChannel
<1>4. Held' = Held /\ bytes' = bytes
  BY DEF IInv, TypeOK, Held, InChannel, Reserving, Receiving
<1>5. Counted'
  BY <1>4, KeepsCounted DEF IInv
<1>6. Wakeful'
  BY DEF IInv, TypeOK, Wakeful, Waiting, Reserving
<1> QED
  BY <1>1, <1>2, <1>3, <1>5, <1>6 DEF IInv

\* A call is cancelled.
LEMMA CancelStep ==
  ASSUME IInv, NEW p \in Publisher, Cancel(p)
  PROVE  IInv'
<1> USE DEF Cancel, Move, Return, clientVars
<1>1. TypeOK'
  BY DEF IInv, TypeOK
<1>2. ResultKnown'
  BY DEF IInv, TypeOK, ResultKnown
<1>3. Placed'
  BY DEF IInv, TypeOK, ResultKnown, Placed, InChannel
<1>4. Held' = Held /\ bytes' = bytes
  BY DEF IInv, TypeOK, Held, InChannel, Reserving, Receiving
<1>5. Counted'
  BY <1>4, KeepsCounted DEF IInv
<1>6. Wakeful'
  BY DEF IInv, TypeOK, Wakeful, Waiting, Reserving
<1> QED
  BY <1>1, <1>2, <1>3, <1>5, <1>6 DEF IInv

\* A call is refused.
LEMMA RefuseStep ==
  ASSUME IInv, NEW p \in Publisher, Refuse(p)
  PROVE  IInv'
<1> USE DEF Refuse, Move, Return, clientVars
<1>1. TypeOK'
  BY DEF IInv, TypeOK
<1>2. ResultKnown'
  BY DEF IInv, TypeOK, ResultKnown
<1>3. Placed'
  BY DEF IInv, TypeOK, ResultKnown, Placed, InChannel
<1>4. Held' = Held /\ bytes' = bytes
  BY DEF IInv, TypeOK, Held, InChannel, Reserving, Receiving
<1>5. Counted'
  BY <1>4, KeepsCounted DEF IInv
<1>6. Wakeful'
  BY DEF IInv, TypeOK, Wakeful, Waiting, Reserving
<1> QED
  BY <1>1, <1>2, <1>3, <1>5, <1>6 DEF IInv

\* A record still on offer is neither in the channel nor with Run.
LEMMA OnOffer ==
  ASSUME IInv, NEW p \in Publisher, pc[p] # "done"
  PROVE  p \notin InChannel /\ p # item /\ p \notin Receiving /\ fate[p] = "unsent"
<1>1. result[p] = "none"
  BY DEF IInv, ResultKnown
<1>2. p # item
  BY <1>1, QueueAssumption DEF IInv, Placed
<1>3. p \notin InChannel
  BY <1>1 DEF IInv, Placed, InChannel
<1> QED
  BY <1>1, <1>2, <1>3 DEF IInv, Placed, Receiving

\* A reservation books the record's bytes.
LEMMA ReserveOKStep ==
  ASSUME IInv, NEW p \in Publisher, ReserveOK(p)
  PROVE  IInv'
<1> USE DEF ReserveOK, Move, clientVars
<1>1. p \notin Held
  BY OnOffer DEF Held, Reserving
<1>2. Held' = Held \cup {p}
  BY DEF IInv, TypeOK, Held, InChannel, Reserving, Receiving
<1>3. Counted' /\ bytes' \in Nat
  BY <1>1, <1>2, AddsCounted DEF IInv
<1>4. TypeOK'
  BY <1>3 DEF IInv, TypeOK
<1>5. ResultKnown' /\ Placed'
  BY DEF IInv, TypeOK, ResultKnown, Placed, InChannel
<1>6. Wakeful'
  BY DEF IInv, TypeOK, Wakeful, Waiting, Reserving
<1> QED
  BY <1>3, <1>4, <1>5, <1>6 DEF IInv

\* The record moves from its reservation into the channel, and is accepted.
LEMMA PutOKStep ==
  ASSUME IInv, NEW p \in Publisher, PutOK(p)
  PROVE  IInv'
<1> USE DEF PutOK, Move, Return, clientVars
<1>0. TypeOK /\ result[p] = "none" /\ ch' = Append(ch, p)
  BY DEF IInv, ResultKnown
<1>1. /\ ch' \in Seq(Publisher) /\ ch' # <<>>
      /\ Len(ch') = Len(ch) + 1 /\ DOMAIN ch' = 1..(Len(ch) + 1) /\ DOMAIN ch = 1..Len(ch)
      /\ \A i \in DOMAIN ch : ch'[i] = ch[i]
      /\ ch'[Len(ch) + 1] = p
      /\ InChannel' = InChannel \cup {p}
  BY <1>0, ChannelPut
<1>2. p \notin InChannel /\ p # item /\ fate[p] = "unsent"
  BY OnOffer
<1>3. TypeOK'
  <2>1. Len(ch') <= Depth
    BY <1>1, Sizes DEF IInv, TypeOK
  <2> QED
    BY <1>1, <2>1 DEF IInv, TypeOK
<1>4. ResultKnown'
  BY DEF IInv, TypeOK, ResultKnown
<1>5. Placed'
  <2>1. Len(ch) \in Nat
    BY DEF IInv, TypeOK
  <2>2. \A i, j \in DOMAIN ch' : ch'[i] = ch'[j] => i = j
    BY <1>1, <1>2, <2>1 DEF IInv, Placed, InChannel
  <2>3. \A i \in DOMAIN ch' : result'[ch'[i]] = "nil" /\ fate'[ch'[i]] = "unsent" /\ ch'[i] # item'
    <3> SUFFICES ASSUME NEW i \in DOMAIN ch'
                 PROVE  result'[ch'[i]] = "nil" /\ fate'[ch'[i]] = "unsent" /\ ch'[i] # item'
      OBVIOUS
    <3>1. CASE i \in DOMAIN ch
      BY <1>1, <3>1 DEF IInv, TypeOK, Placed
    <3>2. CASE i = Len(ch) + 1
      BY <1>0, <1>1, <1>2, <3>2 DEF TypeOK
    <3> QED
      BY <1>1, <2>1, <3>1, <3>2
  <2>4. item # NoItem => result'[item] = "nil" /\ fate'[item] = "unsent"
    BY DEF IInv, TypeOK, Placed
  <2>5. \A q \in Publisher :
          /\ fate'[q] = "unsent" /\ result'[q] = "nil" => q \in InChannel' \/ item' = q
          /\ fate'[q] # "unsent" => result'[q] = "nil"
    BY <1>1 DEF IInv, TypeOK, Placed
  <2> QED
    BY <2>2, <2>3, <2>4, <2>5 DEF IInv, Placed
<1>6. Held' = Held /\ bytes' = bytes
  <2>1. Reserving' = Reserving \ {p} /\ p \in Reserving
    BY DEF IInv, TypeOK, Reserving
  <2>2. Receiving' = Receiving
    BY DEF Receiving
  <2> QED
    BY <1>1, <2>1, <2>2 DEF Held
<1>7. Counted'
  BY <1>6, KeepsCounted DEF IInv
<1>8. Wakeful'
  BY <1>1 DEF IInv, TypeOK, Wakeful, Waiting
<1> QED
  BY <1>3, <1>4, <1>5, <1>7, <1>8 DEF IInv

\* A rollback gives the bytes back and passes over those who wait.
LEMMA RollbackStep ==
  ASSUME IInv, NEW p \in Publisher, Rollback(p)
  PROVE  IInv'
<1> USE DEF Rollback, Move, AfterFailedOffer, clientVars
<1>1. p \in Held
  BY DEF Held, Reserving
<1>2. Held' = Held \ {p}
  <2>1. p \notin InChannel /\ p \notin Receiving
    BY OnOffer
  <2>2. Reserving' = Reserving \ {p}
    BY DEF IInv, TypeOK, Reserving
  <2>3. InChannel' = InChannel /\ Receiving' = Receiving
    BY DEF InChannel, Receiving
  <2> QED
    BY <2>1, <2>2, <2>3 DEF Held
<1>3. Counted' /\ bytes' \in Nat
  BY <1>1, <1>2, DropsCounted DEF IInv
<1>4. TypeOK'
  BY <1>3 DEF IInv, TypeOK
<1>5. ResultKnown' /\ Placed'
  BY DEF IInv, TypeOK, ResultKnown, Placed, InChannel
<1>6. Wakeful'
  BY DEF IInv, TypeOK, Wakeful, Waiting
<1> QED
  BY <1>3, <1>4, <1>5, <1>6 DEF IInv

\* Run receives the first record of the channel.
LEMMA ReceiveStep == IInv /\ Receive => IInv'
<1> SUFFICES ASSUME IInv, Receive PROVE IInv'
  OBVIOUS
<1> USE DEF Receive, publisherVars, clientVars
<1>1. /\ Head(ch) \in InChannel /\ Head(ch) \in Publisher /\ Head(ch) = ch[1] /\ 1 \in DOMAIN ch
      /\ ch' \in Seq(Publisher) /\ Len(ch') = Len(ch) - 1
      /\ \A i \in DOMAIN ch' : i + 1 \in DOMAIN ch /\ ch'[i] = ch[i + 1]
      /\ InChannel' = InChannel \ {Head(ch)}
  BY ChannelTake DEF IInv, Placed
<1>2. item = NoItem /\ item' = Head(ch)
  BY DEF IInv, Placed
<1>3. TypeOK'
  <2>1. Len(ch') <= Depth
    BY <1>1, Sizes DEF IInv, TypeOK
  <2> QED
    BY <1>1, <2>1 DEF IInv, TypeOK
<1>4. ResultKnown'
  BY DEF IInv, ResultKnown
<1>5. Placed'
  <2>1. \A i \in DOMAIN ch' : i \in Nat
    BY <1>3 DEF TypeOK
  <2>2. \A i, j \in DOMAIN ch' : ch'[i] = ch'[j] => i = j
    <3> SUFFICES ASSUME NEW i \in DOMAIN ch', NEW j \in DOMAIN ch', ch'[i] = ch'[j] PROVE i = j
      OBVIOUS
    <3>1. i + 1 = j + 1
      BY <1>1 DEF IInv, Placed
    <3> QED
      BY <2>1, <3>1
  <2>3. \A i \in DOMAIN ch' : result'[ch'[i]] = "nil" /\ fate'[ch'[i]] = "unsent" /\ ch'[i] # item'
    <3> SUFFICES ASSUME NEW i \in DOMAIN ch'
                 PROVE  result'[ch'[i]] = "nil" /\ fate'[ch'[i]] = "unsent" /\ ch'[i] # item'
      OBVIOUS
    <3>1. ch'[i] \in InChannel'
      BY DEF InChannel
    <3> QED
      BY <1>1, <1>2, <3>1 DEF IInv, Placed
  <2>4. result'[item'] = "nil" /\ fate'[item'] = "unsent" /\ item' # NoItem
    BY <1>1, <1>2, QueueAssumption DEF IInv, Placed
  <2>5. \A q \in Publisher :
          fate'[q] = "unsent" /\ result'[q] = "nil" => q \in InChannel' \/ item' = q
    BY <1>1, <1>2, QueueAssumption DEF IInv, Placed
  <2> QED
    BY <2>2, <2>3, <2>4, <2>5 DEF IInv, Placed
<1>6. Held' = Held /\ bytes' = bytes
  <2>1. Reserving' = Reserving /\ Receiving = {} /\ Receiving' = {Head(ch)}
    BY DEF Reserving, Receiving
  <2> QED
    BY <1>1, <2>1 DEF Held
<1>7. Counted'
  BY <1>6, KeepsCounted DEF IInv
<1>8. Wakeful'
  BY DEF IInv, Wakeful, Waiting, Reserving
<1> QED
  BY <1>3, <1>4, <1>5, <1>7, <1>8 DEF IInv

\* Run returns the bytes of the record it received.
LEMMA ReleaseStep == IInv /\ Release => IInv'
<1> SUFFICES ASSUME IInv, Release PROVE IInv'
  OBVIOUS
<1> USE DEF Release, publisherVars, clientVars
<1>1. item \in Held
  BY DEF Held, Receiving
<1>2. Held' = Held \ {item}
  <2>1. item \in Publisher /\ result[item] = "nil"
    BY DEF IInv, TypeOK, Placed
  <2>2. item \notin InChannel /\ item \notin Reserving
    BY <2>1 DEF IInv, TypeOK, Placed, ResultKnown, InChannel, Reserving
  <2>3. InChannel' = InChannel /\ Reserving' = Reserving /\ Receiving = {item} /\ Receiving' = {}
    BY DEF InChannel, Reserving, Receiving
  <2> QED
    BY <2>2, <2>3 DEF Held
<1>3. Counted' /\ bytes' \in Nat
  BY <1>1, <1>2, DropsCounted DEF IInv
<1>4. TypeOK' /\ ResultKnown' /\ Placed'
  BY <1>3 DEF IInv, TypeOK, ResultKnown, Placed, InChannel
<1>5. Wakeful'
  BY DEF IInv, Wakeful, Waiting, Reserving
<1> QED
  BY <1>3, <1>4, <1>5 DEF IInv

\* It wakes every call that waits.
LEMMA WakeWaitersStep == IInv /\ WakeWaiters => IInv'
<1> SUFFICES ASSUME IInv, WakeWaiters PROVE IInv'
  OBVIOUS
<1> USE DEF WakeWaiters, clientVars
<1>1. TypeOK' /\ ResultKnown' /\ Placed'
  BY DEF IInv, TypeOK, ResultKnown, Placed, InChannel
<1>2. Held' = Held /\ bytes' = bytes
  BY DEF Held, InChannel, Reserving, Receiving
<1>3. Counted'
  BY <1>2, KeepsCounted DEF IInv
<1>4. Wakeful'
  BY DEF IInv, TypeOK, Wakeful, Waiting
<1> QED
  BY <1>1, <1>3, <1>4 DEF IInv

\* The client takes the record or refuses it.
LEMMA SendStep == IInv /\ Send => IInv'
<1> SUFFICES ASSUME IInv, Send PROVE IInv'
  OBVIOUS
<1> USE DEF Send, publisherVars, Client!Take, Client!Refuse
<1>1. item \in Publisher /\ result[item] = "nil"
  BY DEF IInv, TypeOK, Placed
<1>2. TypeOK' /\ ResultKnown'
  BY <1>1 DEF IInv, TypeOK, ResultKnown, Client!Fates
<1>3. Placed'
  <2>1. item' = NoItem /\ run' = "select" /\ ch' = ch /\ result' = result /\ called' = called
    OBVIOUS
  <2>2. \A q \in Publisher : q # item => fate'[q] = fate[q] /\ (q \in failed' <=> q \in failed)
    BY DEF IInv, TypeOK
  <2>3. /\ fate[item] = "unsent"
        /\ (fate'[item] = "pending" /\ failed' = failed) \/ (fate'[item] = "refused" /\ item \in failed')
    BY <1>1 DEF IInv, TypeOK
  <2>4. \A i \in DOMAIN ch : ch[i] \in Publisher /\ ch[i] # item
    BY DEF IInv, TypeOK, Placed
  <2>5. \A q \in Publisher :
          /\ fate'[q] = "unsent" /\ result'[q] = "nil" => q \in InChannel' \/ item' = q
          /\ fate'[q] # "unsent" => result'[q] = "nil"
          /\ q \in called' <=> fate'[q] = "confirmed"
          /\ q \in failed' <=> fate'[q] \in {"refused", "lost"}
    BY <1>1, <2>1, <2>2, <2>3 DEF IInv, Placed, InChannel
  <2>6. \A i \in DOMAIN ch' : result'[ch'[i]] = "nil" /\ fate'[ch'[i]] = "unsent" /\ ch'[i] # item'
    BY <2>1, <2>2, <2>4, QueueAssumption DEF IInv, Placed
  <2> QED
    BY <2>1, <2>5, <2>6 DEF IInv, Placed
<1>4. Held' = Held /\ bytes' = bytes
  BY DEF Held, InChannel, Reserving, Receiving
<1>5. Counted'
  BY <1>4, KeepsCounted DEF IInv
<1>6. Wakeful'
  BY DEF IInv, Wakeful, Waiting, Reserving
<1> QED
  BY <1>2, <1>3, <1>5, <1>6 DEF IInv

\* The client settles records it took.
LEMMA DoneStep ==
  ASSUME IInv, NEW yes \in SUBSET Publisher, NEW no \in SUBSET Publisher, Done(yes, no)
  PROVE  IInv'
<1> USE DEF Done, publisherVars, Client!Settle
<1>1. TypeOK' /\ ResultKnown'
  BY DEF IInv, TypeOK, ResultKnown, Client!Fates
<1>2. \A q \in Publisher : q \notin yes \cup no => fate'[q] = fate[q]
  OBVIOUS
<1>3. Placed'
  <2>1. \A i \in DOMAIN ch : fate'[ch[i]] = fate[ch[i]]
    BY DEF IInv, TypeOK, Placed
  <2>2. item # NoItem => fate'[item] = fate[item]
    BY DEF IInv, TypeOK, Placed
  <2>3. \A q \in Publisher :
          /\ fate'[q] = "unsent" <=> fate[q] = "unsent"
          /\ q \in called' <=> fate'[q] = "confirmed"
          /\ q \in failed' <=> fate'[q] \in {"refused", "lost"}
    BY DEF IInv, TypeOK, Placed
  <2> QED
    BY <2>1, <2>2, <2>3 DEF IInv, Placed, InChannel
<1>4. Held' = Held /\ bytes' = bytes
  BY DEF Held, InChannel, Reserving, Receiving
<1>5. Counted'
  BY <1>4, KeepsCounted DEF IInv
<1>6. Wakeful'
  BY DEF IInv, Wakeful, Waiting, Reserving
<1> QED
  BY <1>1, <1>3, <1>5, <1>6 DEF IInv

\* What changes nothing but the host's records, or ends Run.
LEMMA OtherSteps ==
  ASSUME IInv, (\E p \in Publisher : Arrive(p)) \/ Stop \/ UNCHANGED vars
  PROVE  IInv'
<1> USE DEF Arrive, Client!Arrive, Stop, publisherVars, clientVars, vars
<1>1. TypeOK' /\ ResultKnown' /\ Placed'
  BY DEF IInv, TypeOK, ResultKnown, Placed, InChannel
<1>2. Held' = Held /\ bytes' = bytes
  BY DEF Held, InChannel, Reserving, Receiving
<1>3. Counted'
  BY <1>2, KeepsCounted DEF IInv
<1>4. Wakeful'
  BY DEF IInv, Wakeful, Waiting, Reserving
<1> QED
  BY <1>1, <1>3, <1>4 DEF IInv

\* Every step keeps the invariant.
LEMMA NextIInv == IInv /\ [Next]_vars => IInv'
<1> SUFFICES ASSUME IInv, [Next]_vars PROVE IInv'
  OBVIOUS
<1>1. ASSUME NEW p \in Publisher, PublishStep(p) PROVE IInv'
  BY <1>1, EnterStep, ReserveOKStep, ReserveFailStep, PutOKStep, PutFailStep, RollbackStep,
     TakeSignalStep, WakeStep, TimeoutStep, CancelStep, RefuseStep DEF PublishStep
<1>2. CASE RunStep
  BY <1>2, ReceiveStep, ReleaseStep, WakeWaitersStep, SendStep DEF RunStep
<1>3. ASSUME NEW yes \in SUBSET Publisher, NEW no \in SUBSET Publisher, Done(yes, no) PROVE IInv'
  BY <1>3, DoneStep
<1> QED
  BY <1>1, <1>2, <1>3, OtherSteps DEF Next

\* The invariant holds throughout.
LEMMA Invariance == Spec => []IInv
BY InitIInv, NextIInv, PTL DEF Spec

-----------------------------------------------------------------------------
(* The theorems *)

\* Queue.bytes is what is booked, and past the bound there is one record: no
\* interleaving of reservations, rollbacks and releases leaks or loses bytes.
THEOREM BytesAccountedHolds == Spec => []BytesAccounted
<1>1. IInv => BytesAccounted
  <2> SUFFICES ASSUME IInv PROVE BytesAccounted
    OBVIOUS
  <2>1. bytes = MapThenSumSet(LAMBDA p : Size[p], Held)
    BY DEF IInv, Counted, SumOf
  <2>2. ASSUME MaxBytes > 0, bytes > MaxBytes PROVE Cardinality(Held) = 1
    <3>1. Held # {}
      <4>1. bytes # 0
        BY <2>2, Sizes
      <4> QED
        BY <4>1, SumEmpty DEF IInv, Counted
    <3>2. PICK q : q \in Held
      BY <3>1
    <3>3. Held = {q}
      BY <2>2, <3>2 DEF IInv, Counted
    <3> QED
      BY <3>3, FS_Singleton
  <2> QED
    BY <2>1, <2>2 DEF IInv, BytesAccounted, Held
<1> QED
  BY <1>1, Invariance, PTL

\* The places of a record, counted.
LEMMA CountTrue ==
  ASSUME NEW s, DOMAIN s = 1..5
  PROVE  /\ (\A i \in 1..5 : ~s[i]) => Cardinality({i \in DOMAIN s : s[i]}) = 0
         /\ \A k \in 1..5 : s[k] /\ (\A i \in 1..5 : s[i] => i = k)
              => Cardinality({i \in DOMAIN s : s[i]}) = 1
<1>1. (\A i \in 1..5 : ~s[i]) => {i \in DOMAIN s : s[i]} = {}
  OBVIOUS
<1>2. ASSUME NEW k \in 1..5, s[k], \A i \in 1..5 : s[i] => i = k
      PROVE  {i \in DOMAIN s : s[i]} = {k}
  BY <1>2
<1> QED
  BY <1>1, <1>2, FS_EmptySet, FS_Singleton

\* An accepted record is in one place, and a record that was not is in none.
THEOREM AcceptedAccountedHolds == Spec => []AcceptedAccounted
<1>1. IInv => AcceptedAccounted
  <2> SUFFICES ASSUME IInv, NEW p \in Publisher
               PROVE  LET places == <<p \in InChannel, item = p, fate[p] = "pending", p \in failed, p \in called>>
                      IN  /\ Cardinality({i \in DOMAIN places : places[i]}) = IF result[p] = "nil" THEN 1 ELSE 0
                          /\ p \in called <=> fate[p] = "confirmed"
                          /\ p \in failed <=> fate[p] \in {"refused", "lost"}
    BY DEF AcceptedAccounted
  <2> DEFINE places == <<p \in InChannel, item = p, fate[p] = "pending", p \in failed, p \in called>>
  <2>1. DOMAIN places = 1..5
    OBVIOUS
  <2>2. fate[p] \in {"unsent", "refused", "pending", "confirmed", "lost"} /\ p # NoItem
    BY QueueAssumption DEF IInv, TypeOK, Client!Fates
  <2>3. /\ p \in called <=> fate[p] = "confirmed"
        /\ p \in failed <=> fate[p] \in {"refused", "lost"}
        /\ p \in InChannel => result[p] = "nil" /\ fate[p] = "unsent" /\ item # p
        /\ item = p => result[p] = "nil" /\ fate[p] = "unsent"
        /\ fate[p] = "unsent" /\ result[p] = "nil" => p \in InChannel \/ item = p
        /\ fate[p] # "unsent" => result[p] = "nil"
    BY <2>2 DEF IInv, Placed, InChannel
  <2>4. /\ places[1] <=> p \in InChannel
        /\ places[2] <=> item = p
        /\ places[3] <=> fate[p] = "pending"
        /\ places[4] <=> p \in failed
        /\ places[5] <=> p \in called
    OBVIOUS
  <2>5. 1..5 = {1, 2, 3, 4, 5}
    OBVIOUS
  <2> HIDE DEF places
  <2>6. Cardinality({i \in DOMAIN places : places[i]}) = IF result[p] = "nil" THEN 1 ELSE 0
    <3>1. CASE result[p] # "nil"
      <4>1. \A i \in 1..5 : ~places[i]
        BY <2>2, <2>3, <2>4, <2>5, <3>1
      <4> QED
        BY <2>1, <3>1, <4>1, CountTrue
    <3>2. CASE result[p] = "nil"
      <4> SUFFICES \E k \in 1..5 : places[k] /\ \A i \in 1..5 : places[i] => i = k
        BY <2>1, <3>2, CountTrue
      <4>1. CASE p \in InChannel
        BY <2>2, <2>3, <2>4, <2>5, <4>1
      <4>2. CASE item = p
        BY <2>2, <2>3, <2>4, <2>5, <4>2
      <4>3. CASE fate[p] = "pending"
        BY <2>2, <2>3, <2>4, <2>5, <4>3
      <4>4. CASE fate[p] \in {"refused", "lost"}
        BY <2>2, <2>3, <2>4, <2>5, <4>4
      <4>5. CASE fate[p] = "confirmed"
        BY <2>2, <2>3, <2>4, <2>5, <4>5
      <4> QED
        BY <2>2, <2>3, <3>2, <4>1, <4>2, <4>3, <4>4, <4>5
    <3> QED
      BY <3>1, <3>2
  <2> QED
    BY <2>3, <2>6 DEF places
<1> QED
  BY <1>1, Invariance, PTL

\* A call that was not passed over by a rollback waits only while something
\* that must still happen can wake it.
THEOREM NoLostWakeupHolds == Spec => []NoLostWakeup
<1>1. IInv => NoLostWakeup
  BY DEF IInv, Wakeful, NoLostWakeup, Waiting, Stirring, Reserving
<1> QED
  BY <1>1, Invariance, PTL

=============================================================================
