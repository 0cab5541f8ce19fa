---------------------------- MODULE PublishQueue ----------------------------
(***************************************************************************)
(* The bounded publish queue of src/uptunnel/queue.go: concurrent callers  *)
(* of Publish, the drain goroutine Run, the byte reservation they share    *)
(* and the room signal that wakes a waiting caller.                        *)
(*                                                                         *)
(* A publisher is one call of Publish and stands for its record too.  The  *)
(* atomic byte counter, the channel and the room mutex are separate, so    *)
(* each access is a step.  The client behind Run is the contract           *)
(* RecordDelivery, which UpTunnel implements.                              *)
(***************************************************************************)
EXTENDS Integers, Sequences, FiniteSets, FiniteSetsExt

CONSTANTS
  Publisher,   \* the calls of Publish
  Size,        \* the bytes of each call's record
  Depth,       \* cap(Queue.ch)
  MaxBytes,    \* Queue.MaxBytes (0 bounds by count alone)
  Waits,       \* Queue.Wait > 0
  NoItem       \* Run holds no record

ASSUME QueueAssumption ==
  /\ Size \in [Publisher -> Nat \ {0}]
  /\ Depth \in Nat \ {0}
  /\ MaxBytes \in Nat
  /\ Waits \in BOOLEAN
  /\ NoItem \notin Publisher

VARIABLES
  pc,        \* where each call of Publish is
  tried,     \* the calls that are past their first offer
  signal,    \* the room channel a call holds: none, open or closed
  result,    \* what each call returned
  bytes,     \* Queue.bytes
  ch,        \* Queue.ch
  run,       \* where Run is
  item,      \* the record Run has received
  failed,    \* records counted by Queue.failed
  called,    \* records whose sent callback has run
  fate,      \* the client's state of each record (RecordDelivery)
  arrived,   \* records at the ingress host (RecordDelivery)
  missed     \* history: the calls parked when a rollback gave bytes back

publisherVars == <<pc, tried, signal, result, missed>>
clientVars == <<failed, called, fate, arrived>>
vars == <<pc, tried, signal, result, bytes, ch, run, item, failed, called, fate, arrived,
          missed>>

Client == INSTANCE RecordDelivery WITH Record <- Publisher

-----------------------------------------------------------------------------
(* Publish *)

Move(p, from, to) == pc[p] = from /\ pc' = [pc EXCEPT ![p] = to]

Return(p, value) == result' = [result EXCEPT ![p] = value]

\* A call starts; a context already done is returned at once.
Enter(p) ==
  /\ \/ Move(p, "idle", "offer") /\ UNCHANGED result
     \/ Move(p, "idle", "done") /\ Return(p, "ctx")
  /\ UNCHANGED <<tried, signal, bytes, ch, run, item, missed>> /\ UNCHANGED clientVars

\* The test of reserve.
Fits(n) == MaxBytes = 0 \/ bytes = 0 \/ bytes + n <= MaxBytes

\* reserve books the bytes in one compare-and-swap.
ReserveOK(p) ==
  /\ Fits(Size[p])
  /\ Move(p, "offer", "put")
  /\ bytes' = bytes + Size[p]
  /\ UNCHANGED <<tried, signal, result, ch, run, item, missed>> /\ UNCHANGED clientVars

\* Mutant: a call waits without having taken the room signal.
AfterFailedOfferParks(p) == IF Waits THEN "parked" ELSE "refuse"

\* Where a failed offer leads: shed at once, wait for the first time, or park.
AfterFailedOffer(p) ==
  IF p \in tried THEN "parked" ELSE IF Waits THEN "signal" ELSE "refuse"

ReserveFail(p) ==
  /\ ~Fits(Size[p])
  /\ Move(p, "offer", AfterFailedOffer(p))
  /\ tried' = tried \cup {p}
  /\ UNCHANGED <<signal, result, bytes, ch, run, item, missed>> /\ UNCHANGED clientVars

PutOK(p) ==
  /\ Len(ch) < Depth
  /\ Move(p, "put", "done")
  /\ ch' = Append(ch, p)
  /\ Return(p, "nil")
  /\ UNCHANGED <<tried, signal, bytes, run, item, missed>> /\ UNCHANGED clientVars

\* The channel is full; the reservation is still booked.
PutFail(p) ==
  /\ Len(ch) = Depth
  /\ Move(p, "put", "rollback")
  /\ UNCHANGED <<tried, signal, result, bytes, ch, run, item, missed>> /\ UNCHANGED clientVars

\* Mutant: the reservation of a record the channel did not take stays booked.
RollbackForgotten(p) ==
  /\ Move(p, "rollback", AfterFailedOffer(p))
  /\ tried' = tried \cup {p}
  /\ UNCHANGED <<signal, result, bytes, ch, run, item, missed>> /\ UNCHANGED clientVars

\* The bytes go back; nobody is woken.
Rollback(p) ==
  /\ Move(p, "rollback", AfterFailedOffer(p))
  /\ bytes' = bytes - Size[p]
  /\ tried' = tried \cup {p}
  /\ missed' = missed \cup {o \in Publisher : pc[o] = "parked" /\ signal[o] = "open"}
  /\ UNCHANGED <<signal, result, ch, run, item>> /\ UNCHANGED clientVars

\* roomSignal: the open room channel, made if there is none.
TakeSignal(p) ==
  /\ Move(p, "signal", "offer")
  /\ signal' = [signal EXCEPT ![p] = "open"]
  /\ UNCHANGED <<tried, result, bytes, ch, run, item, missed>> /\ UNCHANGED clientVars

\* The select of the waiting loop: room, the timer, or the caller's context.
Wake(p) ==
  /\ signal[p] = "closed"
  /\ Move(p, "parked", "signal")
  /\ UNCHANGED <<tried, signal, result, bytes, ch, run, item, missed>> /\ UNCHANGED clientVars

Timeout(p) ==
  /\ Move(p, "parked", "refuse")
  /\ UNCHANGED <<tried, signal, result, bytes, ch, run, item, missed>> /\ UNCHANGED clientVars

Cancel(p) ==
  /\ Move(p, "parked", "done")
  /\ Return(p, "ctx")
  /\ UNCHANGED <<tried, signal, bytes, ch, run, item, missed>> /\ UNCHANGED clientVars

Refuse(p) ==
  /\ Move(p, "refuse", "done")
  /\ Return(p, "full")
  /\ UNCHANGED <<tried, signal, bytes, ch, run, item, missed>> /\ UNCHANGED clientVars

-----------------------------------------------------------------------------
(* Run *)

Receive ==
  /\ run = "select" /\ ch # <<>>
  /\ item' = Head(ch)
  /\ ch' = Tail(ch)
  /\ run' = "taken"
  /\ UNCHANGED publisherVars /\ UNCHANGED <<bytes, clientVars>>

\* taken: the bytes first, then the room signal.
Release ==
  /\ run = "taken"
  /\ bytes' = bytes - Size[item]
  /\ run' = "wake"
  /\ UNCHANGED publisherVars /\ UNCHANGED <<ch, item, clientVars>>

\* Mutant: the room channel is replaced without being closed.
WakeWaitersUnclosed ==
  /\ run = "wake"
  /\ run' = "send"
  /\ UNCHANGED publisherVars /\ UNCHANGED <<bytes, ch, item, clientVars>>

WakeWaiters ==
  /\ run = "wake"
  /\ signal' = [p \in Publisher |-> IF signal[p] = "open" THEN "closed" ELSE signal[p]]
  /\ missed' = {}
  /\ run' = "send"
  /\ UNCHANGED <<pc, tried, result, bytes, ch, item, clientVars>>

\* Mutant: a record the client refused is not counted.
SendUncounted ==
  /\ run = "send"
  /\ Client!Take(item) \/ Client!Refuse(item)
  /\ run' = "select" /\ item' = NoItem
  /\ UNCHANGED <<bytes, ch, failed, called>> /\ UNCHANGED publisherVars

\* Mutant: a record the client refuses is sent again without end.
SendAgain ==
  /\ run = "send"
  /\ \/ Client!Take(item) /\ run' = "select" /\ item' = NoItem
     \/ run' = "wake" /\ UNCHANGED <<item, fate, arrived>>
  /\ UNCHANGED <<bytes, ch, failed, called>> /\ UNCHANGED publisherVars

Send ==
  /\ run = "send"
  /\ \/ Client!Take(item) /\ UNCHANGED failed
     \/ Client!Refuse(item) /\ failed' = failed \cup {item}
  /\ run' = "select" /\ item' = NoItem
  /\ UNCHANGED <<bytes, ch, called>> /\ UNCHANGED publisherVars

\* The client calls done for records it settles, from Poll, from Send, and,
\* once Run has returned, from Close.
Done(yes, no) ==
  /\ yes \cup no # {}
  /\ Client!Settle(yes, no)
  /\ called' = called \cup yes
  /\ failed' = failed \cup no
  /\ UNCHANGED publisherVars /\ UNCHANGED <<bytes, ch, run, item>>

\* The ingress host acknowledges a record.
Arrive(p) ==
  /\ Client!Arrive({p}) /\ p \notin arrived
  /\ UNCHANGED publisherVars /\ UNCHANGED <<bytes, ch, run, item, failed, called>>

\* The context of Run is cancelled.
Stop ==
  /\ run = "select"
  /\ run' = "stopped"
  /\ UNCHANGED publisherVars /\ UNCHANGED <<bytes, ch, item, clientVars>>

-----------------------------------------------------------------------------

Init ==
  /\ pc = [p \in Publisher |-> "idle"]
  /\ tried = {}
  /\ signal = [p \in Publisher |-> "none"]
  /\ result = [p \in Publisher |-> "none"]
  /\ bytes = 0
  /\ ch = <<>>
  /\ run = "select"
  /\ item = NoItem
  /\ failed = {} /\ called = {}
  /\ Client!Init
  /\ missed = {}

PublishStep(p) ==
  \/ Enter(p) \/ ReserveOK(p) \/ ReserveFail(p) \/ PutOK(p) \/ PutFail(p) \/ Rollback(p)
  \/ TakeSignal(p) \/ Wake(p) \/ Timeout(p) \/ Cancel(p) \/ Refuse(p)

RunStep == Receive \/ Release \/ WakeWaiters \/ Send

Next ==
  \/ \E p \in Publisher : PublishStep(p) \/ Arrive(p)
  \/ RunStep
  \/ \E yes, no \in SUBSET Publisher : Done(yes, no)
  \/ Stop

Spec == Init /\ [][Next]_vars

-----------------------------------------------------------------------------
(* Properties *)

\* The state of the queue is well typed; the channel never exceeds its depth.
TypeOK ==
  /\ pc \in [Publisher -> {"idle", "offer", "put", "rollback", "signal", "parked",
                           "refuse", "done"}]
  /\ tried \subseteq Publisher
  /\ signal \in [Publisher -> {"none", "open", "closed"}]
  /\ result \in [Publisher -> {"none", "nil", "full", "ctx"}]
  /\ bytes \in Nat
  /\ ch \in Seq(Publisher) /\ Len(ch) <= Depth
  /\ run \in {"select", "taken", "wake", "send", "stopped"}
  /\ item \in Publisher \cup {NoItem}
  /\ failed \subseteq Publisher /\ called \subseteq Publisher
  /\ fate \in [Publisher -> Client!Fates] /\ arrived \subseteq Publisher
  /\ missed \subseteq Publisher

InChannel == {ch[i] : i \in DOMAIN ch}
Reserving == {p \in Publisher : pc[p] \in {"put", "rollback"}}
Receiving == IF run = "taken" THEN {item} ELSE {}

\* Queue.bytes counts exactly the records in the channel, the reservations of
\* calls still in offer, and the record Run has received and not yet released:
\* no interleaving of offer, its rollback and taken leaks or loses bytes.  Past
\* MaxBytes there is a single record, carried alone ("a record larger than the
\* bound on its own is carried alone rather than refused for its size").
BytesAccounted ==
  LET held == InChannel \cup Reserving \cup Receiving
  IN  /\ TypeOK
      /\ bytes = MapThenSumSet(LAMBDA p : Size[p], held)
      /\ MaxBytes > 0 /\ bytes > MaxBytes => Cardinality(held) = 1

\* A record Publish accepted is in the channel, with Run, with the client, or
\* accounted for, in one of these places only; a record Publish did not accept
\* is in none of them.  Its sent callback has run exactly if the client
\* confirmed it, and it is counted as failed exactly if the client refused or
\* lost it.
AcceptedAccounted ==
  \A p \in Publisher :
    LET places == <<p \in InChannel, item = p, fate[p] = "pending", p \in failed, p \in called>>
    IN  /\ Cardinality({i \in DOMAIN places : places[i]}) = IF result[p] = "nil" THEN 1 ELSE 0
        /\ p \in called <=> fate[p] = "confirmed"
        /\ p \in failed <=> fate[p] \in {"refused", "lost"}

\* Some step that must still happen will close the room signal or change what
\* an offer finds: Run has work, or another call is on its way to an offer.
Stirring(p) ==
  \/ ch # <<>> \/ run # "select"
  \/ \E o \in Publisher \ {p} :
       \/ pc[o] \in {"offer", "put", "rollback", "signal"}
       \/ pc[o] = "parked" /\ signal[o] = "closed"

Waiting(p) == pc[p] = "parked" /\ signal[p] = "open"

\* A call waits for room only while something can still wake it: "Take the room
\* signal BEFORE trying again, so a take that lands between the attempt and the
\* wait is not a wakeup lost" (Publish).  The one exception is a call that was
\* already waiting when a rollback gave bytes back, which wakes nobody.
NoLostWakeup ==
  \A p \in Publisher \ missed : Waiting(p) => Stirring(p)

\* Without that exception: ErrQueueFull means that the queue "had no room for
\* the record, for as long as Queue.Wait allows", so a call that waits is woken
\* by whatever makes the room it waits for.
WaitersWoken ==
  \A p \in Publisher : Waiting(p) => Stirring(p)

-----------------------------------------------------------------------------
(* Fairness: a call that is not waiting runs on, the drain goroutine runs,  *)
(* the client settles what it took (UpTunnel's EveryRecordSettles).  The    *)
(* timer of a waiting call and the contexts are left free.                  *)

Unblocked(p) ==
  \/ ReserveOK(p) \/ ReserveFail(p) \/ PutOK(p) \/ PutFail(p) \/ Rollback(p)
  \/ TakeSignal(p) \/ Wake(p) \/ Refuse(p)

Fairness ==
  /\ \A p \in Publisher : WF_vars(Unblocked(p))
  /\ WF_vars(RunStep)
  /\ \A p \in Publisher : WF_vars(Done({p}, {}) \/ Done({}, {p}))

FairSpec == Spec /\ Fairness

\* While Run drains, a call that waits for room comes out of its wait without
\* the help of its timer: every wait is ended by a take (Publish, roomSignal),
\* but for the waits of NoLostWakeup's exception.
WaitersGetRoom ==
  \A p \in Publisher :
    pc[p] = "parked" ~> (pc[p] # "parked" \/ run = "stopped" \/ p \in missed)

\* While Run drains, every record Publish accepted is confirmed, with its sent
\* callback run, or counted as failed.
AcceptedSettles ==
  \A p \in Publisher : result[p] = "nil" ~> (p \in called \cup failed \/ run = "stopped")

=============================================================================
