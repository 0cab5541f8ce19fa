------------------------------ MODULE UpTunnel ------------------------------
(***************************************************************************)
(* The up-tunnel client of src/uptunnel/uptunnel.go: the long-lived TCP    *)
(* record stream to the fabric's ingress, its failover between addresses,  *)
(* the confirmation of written records and the resends after a connection  *)
(* died.                                                                   *)
(*                                                                         *)
(* The client's fields are one record c, and every ...Locked method of the *)
(* code is an operator from a client state to a client state, so that an   *)
(* action composes them in the code's order.  All of them run under        *)
(* Client.mu; only the network, the connection's reader and the clock move *)
(* while an operation holds it, so an operation is cut into steps at the   *)
(* calls that wait on the network (dial, write).                           *)
(*                                                                         *)
(* Data abstraction.  A record is one unit of the stream, so byte offsets  *)
(* count whole records: "r.end <= s.acked" asks whether the record is      *)
(* acknowledged to its last byte and cannot tell parts of a record apart.  *)
(* The slices unconfirmed and resend are sets; their order is the order in *)
(* which their records were last written (field order).  Instants are kept *)
(* as the time elapsed since them, capped at the only value the code       *)
(* compares them with.                                                     *)
(***************************************************************************)
EXTENDS Integers, FiniteSets

CONSTANTS
  Record,          \* the submission records handed to Send
  NAddr,           \* len(Client.Addrs)
  MaxResends,      \* Client.MaxResends
  Grace,           \* Client.ConfirmGrace, in clock ticks
  Prefer,          \* Client.Prefer, in clock ticks (0 is sticky failover)
  MaxUnconfirmed,  \* maxUnconfirmed
  OutqKnown,       \* unsentBytes reads the send queue (Linux) or does not
  NoRecord         \* stands for a nil *pending

ASSUME UpTunnelAssumption ==
  /\ NAddr \in Nat
  /\ MaxResends \in Nat \ {0}
  /\ Grace \in Nat \ {0}
  /\ Prefer \in Nat
  /\ MaxUnconfirmed \in Nat
  /\ OutqKnown \in BOOLEAN
  /\ NoRecord \notin Record

VARIABLES
  c,        \* the Client's fields
  op,       \* the operation that holds Client.mu
  returned, \* what Send returned for the records it was called with
  net,      \* the current connection outside the client: the peer and the reader
  hist      \* history of the peer: writes, carried, onHost, read

vars == <<c, op, returned, net, hist>>

Unset == -1                    \* a zero time.Time

-----------------------------------------------------------------------------
(* Client state *)

\* A nil *stream and a stream fresh from the dial.
NoStream  == [open |-> FALSE, written |-> 0, acked |-> 0, dead |-> FALSE, clean |-> FALSE]
NewStream == [NoStream EXCEPT !.open = TRUE]

Stream == [open : BOOLEAN, written : Nat, acked : Nat, dead : BOOLEAN, clean : BOOLEAN]

Client ==
  [cur : Stream,                          \* the connection, c.cur
   idx : Nat,                             \* the address in use
   leftAt : Nat \cup {Unset},             \* ticks since Addrs[0] was left
   unconfirmed : SUBSET Record,           \* written on cur, not confirmed
   resend : SUBSET Record,                \* from a dead connection
   end : [Record -> Nat],                 \* pending.end, offset on its connection
   at : [Record -> Nat],                  \* ticks since pending.at
   resends : [Record -> Nat],             \* pending.resends
   order : [Record -> Nat],               \* value of written at its last write
   written : Nat,                         \* Client.written, over all connections
   confirmed : [Record -> Nat],           \* done(true) calls
   lost : [Record -> Nat]]                \* done(false) calls

\* What stands in no connection: the link of an absent peer.
NoNet == [acked |-> 0, drained |-> TRUE, link |-> "none", watch |-> "none"]

\* The operation holding the mutex; "none" when it is free.
Idle == [kind |-> "none", rec |-> NoRecord, attempt |-> 0, ok |-> FALSE]

AtMost(n, bound) == IF n < bound THEN n ELSE bound

\* Counts one more call of done for the records of S.
CountedFor(f, S) == [r \in Record |-> f[r] + IF r \in S THEN 1 ELSE 0]

-----------------------------------------------------------------------------
(* The ...Locked methods.  q is what unsentBytes reads from the socket.    *)

ConfirmLocked(k, S) == [k EXCEPT !.confirmed = CountedFor(@, S)]

LoseLocked(k, S) == [k EXCEPT !.lost = CountedFor(@, S)]

\* Mutant: one resend too many.
RequeueLockedOffByOne(k, S) ==
  LET spent == CountedFor(k.resends, S)
      gone  == {r \in S : spent[r] > MaxResends + 1}
  IN  LoseLocked([k EXCEPT !.resends = spent, !.resend = @ \cup (S \ gone)], gone)

\* Spends one resend on each record of S; past the budget it is lost.
RequeueLocked(k, S) ==
  LET spent == CountedFor(k.resends, S)
      gone  == {r \in S : spent[r] > MaxResends}
  IN  LoseLocked([k EXCEPT !.resends = spent, !.resend = @ \cup (S \ gone)], gone)

\* Mutant: the waiting slice is walked and not emptied first.
ChargeResendsLockedKept(k) == RequeueLocked(k, k.resend)

ChargeResendsLocked(k) == RequeueLocked([k EXCEPT !.resend = {}], k.resend)

\* Mutant: coming round to the preferred address leaves the clock running.
AdvanceLockedNoReset(k) ==
  IF NAddr <= 1
  THEN k
  ELSE [k EXCEPT !.idx = (@ + 1) % NAddr, !.leftAt = IF @ = Unset THEN 0 ELSE @]

AdvanceLocked(k) ==
  LET next == (k.idx + 1) % NAddr
  IN  IF NAddr <= 1
      THEN k
      ELSE [k EXCEPT !.idx = next,
                     !.leftAt = IF next = 0 THEN Unset
                                ELSE IF @ = Unset THEN 0 ELSE @]

\* Closes the connection and settles the records on it.
RetireLocked(k, clean, q) ==
  LET known == clean /\ OutqKnown
      sure  == {r \in k.unconfirmed : known /\ k.end[r] <= k.cur.written - q}
      rest  == k.unconfirmed \ sure
  IN  IF k.cur.open
      THEN RequeueLocked(
             ConfirmLocked([k EXCEPT !.cur = NoStream, !.unconfirmed = {}], sure), rest)
      ELSE k

BreakLocked(k) == AdvanceLocked(RetireLocked(k, FALSE, 0))

ReapLocked(k, q) ==
  LET retired == RetireLocked(k, k.cur.clean, q)
  IN  IF k.cur.open /\ k.cur.dead
      THEN IF k.cur.clean THEN retired ELSE AdvanceLocked(retired)
      ELSE k

\* Mutant: the queue reading counts one byte too many.
PollAckedOffByOne(k, q) == IF OutqKnown THEN k.cur.written - q - 1 ELSE k.cur.written

\* Mutant: the send queue's reading is dropped, so that nothing new is confirmed.
PollAckedStale(k, q) == IF OutqKnown THEN k.cur.acked ELSE k.cur.written

\* Without a send-queue reading everything written counts as acknowledged.
PollAcked(k, q) == IF OutqKnown THEN k.cur.written - q ELSE k.cur.written

\* The longest prefix of unconfirmed, in stream order, that is acknowledged
\* and has outlived the grace window.
PollLocked(k, q) ==
  LET acked == PollAcked(k, q)
      over  == Cardinality(k.unconfirmed) > MaxUnconfirmed
      Stops(r) == k.end[r] > acked \/ (~over /\ k.at[r] < Grace)
      sure  == {r \in k.unconfirmed :
                  \A s \in k.unconfirmed : k.end[s] <= k.end[r] => ~Stops(s)}
  IN  IF k.cur.open /\ k.unconfirmed # {}
      THEN ConfirmLocked([k EXCEPT !.cur.acked = acked,
                                   !.unconfirmed = @ \ sure], sure)
      ELSE k

\* Mutant: fail-back drops the connection with records in flight on it.
MaybeFailBackLockedEager(k) ==
  IF Prefer = 0 \/ k.idx = 0 \/ k.leftAt = Unset \/ k.leftAt < Prefer
  THEN k
  ELSE [k EXCEPT !.idx = 0, !.leftAt = Unset, !.cur = NoStream]

\* Fail-back leaves a connection only when nothing on it awaits confirmation.
MaybeFailBackLocked(k) ==
  IF \/ Prefer = 0 \/ k.idx = 0 \/ k.leftAt = Unset
     \/ k.leftAt < Prefer
     \/ k.cur.open /\ k.unconfirmed # {}
  THEN k
  ELSE [k EXCEPT !.idx = 0, !.leftAt = Unset, !.cur = NoStream]

\* A write the local kernel took.
WriteLocked(k, r) ==
  [k EXCEPT !.cur.written = @ + 1,
            !.end[r] = k.cur.written + 1,
            !.at[r] = 0,
            !.unconfirmed = @ \cup {r},
            !.order[r] = k.written + 1,
            !.written = @ + 1]

\* One turn of flushResendLocked whose write succeeded.
FlushResendLocked(k, r) == [WriteLocked(k, r) EXCEPT !.resend = @ \ {r}]

\* Close settles everything: acknowledged is confirmed, the rest is lost.
CloseLocked(k, q) ==
  LET acked == IF OutqKnown THEN k.cur.written - q ELSE k.cur.acked
      sure  == {r \in k.unconfirmed : k.end[r] <= acked}
      onCur == IF k.cur.open
               THEN LoseLocked(
                      ConfirmLocked([k EXCEPT !.cur = NoStream, !.unconfirmed = {}], sure),
                      k.unconfirmed \ sure)
               ELSE k
  IN  LoseLocked([onCur EXCEPT !.resend = {}], k.resend)

-----------------------------------------------------------------------------
(* Steps of the operations *)

\* SIOCOUTQ: written on this connection and not acknowledged by the peer.
UnsentBytes == c.cur.written - net.acked

\* The first record of the slice resend.
ResendHead == {r \in c.resend : \A s \in c.resend : c.order[r] <= c.order[s]}

\* The network of a connection the client has dropped is of no more interest.
NetAfter(k) == IF k.cur.open THEN net ELSE NoNet
HistAfter(k) == IF k.cur.open THEN hist ELSE [hist EXCEPT !.carried = {}]

\* Mutant: a record whose Send failed, and was counted so, is sent again.
FreshAgain == {r \in Record : returned[r] # "nil" /\ op.rec # r}

\* Run sends a record once; it tries none again after an error.
Fresh == {r \in Record : returned[r] = "no" /\ op.rec # r}

\* Send up to the start of sendLocked.
Send(r) ==
  LET k == MaybeFailBackLocked(PollLocked(ReapLocked(c, UnsentBytes), UnsentBytes))
  IN  /\ op.kind = "none"
      /\ r \in Fresh
      /\ op' = [kind |-> "send", rec |-> r, attempt |-> 0, ok |-> FALSE]
      /\ c' = k /\ net' = NetAfter(k) /\ hist' = HistAfter(k)
      /\ UNCHANGED returned

\* Poll up to the start of sendLocked, or all of it when nothing waits.
Poll ==
  LET k == PollLocked(ReapLocked(c, UnsentBytes), UnsentBytes)
  IN  /\ op.kind = "none"
      /\ op' = IF k.resend = {} THEN Idle ELSE [Idle EXCEPT !.kind = "poll"]
      /\ c' = k /\ net' = NetAfter(k) /\ hist' = HistAfter(k)
      /\ UNCHANGED returned

\* An attempt of sendLocked is under way.
Attempting == op.kind \in {"send", "poll"} /\ ~op.ok /\ op.attempt < 2

DialOK ==
  /\ Attempting /\ ~c.cur.open /\ NAddr > 0
  /\ c' = [c EXCEPT !.cur = NewStream]
  /\ net' = [acked |-> 0, drained |-> TRUE, link |-> "open", watch |-> "reading"]
  /\ UNCHANGED <<op, returned, hist>>

DialFail ==
  /\ Attempting /\ ~c.cur.open
  /\ c' = AdvanceLocked(c)
  /\ op' = [op EXCEPT !.attempt = @ + 1]
  /\ UNCHANGED <<returned, net, hist>>

\* The kernel takes bytes for a peer that is gone until it has seen the reset.
Written(r) ==
  /\ net.link \in {"open", "fin"}
  /\ hist' = [hist EXCEPT !.writes[r] = @ + 1, !.carried = @ \cup {r}]
  /\ UNCHANGED <<returned, net>>

Broken ==
  LET k == BreakLocked(c)
  IN  /\ c' = k /\ net' = NetAfter(k) /\ hist' = HistAfter(k)
      /\ op' = [op EXCEPT !.attempt = @ + 1]
      /\ UNCHANGED returned

FlushOK(r) ==
  /\ Attempting /\ c.cur.open /\ r \in ResendHead
  /\ c' = FlushResendLocked(c, r)
  /\ Written(r)
  /\ UNCHANGED op

FlushFail ==
  /\ Attempting /\ c.cur.open /\ c.resend # {}
  /\ Broken

WriteOK ==
  /\ Attempting /\ op.kind = "send" /\ c.cur.open /\ c.resend = {}
  /\ c' = WriteLocked(c, op.rec)
  /\ Written(op.rec)
  /\ op' = [op EXCEPT !.ok = TRUE]

WriteFail ==
  /\ Attempting /\ op.kind = "send" /\ c.cur.open /\ c.resend = {}
  /\ Broken

\* The end of Send: the second poll, then the result.
SendReturn ==
  /\ op.kind = "send" /\ (op.ok \/ op.attempt = 2)
  /\ c' = PollLocked(c, UnsentBytes)
  /\ returned' = [returned EXCEPT ![op.rec] = IF op.ok THEN "nil" ELSE "error"]
  /\ op' = Idle
  /\ UNCHANGED <<net, hist>>

\* Mutant: a failed flush costs the waiting records nothing.
PollReturnFree ==
  /\ op.kind = "poll"
  /\ op.attempt = 2 \/ (c.cur.open /\ c.resend = {})
  /\ op' = Idle
  /\ UNCHANGED <<c, returned, net, hist>>

\* The end of Poll: a flush no address took is charged to the records.
PollReturn ==
  /\ op.kind = "poll"
  /\ \/ /\ op.attempt = 2
        /\ c' = ChargeResendsLocked(c)
     \/ /\ op.attempt < 2 /\ c.cur.open /\ c.resend = {}
        /\ UNCHANGED c
  /\ op' = Idle
  /\ UNCHANGED <<returned, net, hist>>

Close ==
  LET k == CloseLocked(c, UnsentBytes)
  IN  /\ op.kind = "none"
      /\ c' = k /\ net' = NetAfter(k)
      /\ hist' = [hist EXCEPT !.carried = {}, !.closed = TRUE]
      /\ UNCHANGED <<op, returned>>

-----------------------------------------------------------------------------
(* The connection's reader, goroutine watch: the verdict is stored before  *)
(* the flag that publishes it.                                             *)

\* Mutant: the flag is published before the verdict, which follows it.
WatchReadDeadFirst ==
  /\ net.link \in {"fin", "rst"}
  /\ \/ /\ net.watch = "reading"
        /\ c' = [c EXCEPT !.cur.dead = TRUE]
        /\ net' = [net EXCEPT !.watch = "storing"]
     \/ /\ net.watch = "storing"
        /\ c' = [c EXCEPT !.cur.clean = (net.link = "fin")]
        /\ net' = [net EXCEPT !.watch = "done"]
  /\ UNCHANGED <<op, returned, hist>>

WatchRead ==
  /\ net.watch = "reading" /\ net.link \in {"fin", "rst"}
  /\ c' = [c EXCEPT !.cur.clean = (net.link = "fin")]
  /\ net' = [net EXCEPT !.watch = "storing"]
  /\ UNCHANGED <<op, returned, hist>>

WatchStore ==
  /\ net.watch = "storing"
  /\ c' = [c EXCEPT !.cur.dead = TRUE]
  /\ net' = [net EXCEPT !.watch = "done"]
  /\ UNCHANGED <<op, returned, hist>>

-----------------------------------------------------------------------------
(* Environment: the ingress host, its process, and the clock *)

\* The host's TCP acknowledges the next record of the stream.
PeerAck ==
  /\ net.link = "open" /\ net.acked < c.cur.written
  /\ net' = [net EXCEPT !.acked = @ + 1, !.drained = FALSE]
  /\ hist' = [hist EXCEPT !.onHost =
                @ \cup {r \in hist.carried : c.end[r] = net.acked + 1}]
  /\ UNCHANGED <<c, op, returned>>

\* The ingress process reads what its host has acknowledged.
PeerRead ==
  /\ net.link = "open" /\ ~net.drained
  /\ net' = [net EXCEPT !.drained = TRUE]
  /\ hist' = [hist EXCEPT !.read =
                @ \cup {r \in hist.carried : c.end[r] <= net.acked}]
  /\ UNCHANGED <<c, op, returned>>

\* The process closes having read everything: a FIN, seen as EOF.
PeerClose ==
  /\ net.link = "open" /\ net.drained
  /\ net' = [net EXCEPT !.link = "fin"]
  /\ UNCHANGED <<c, op, returned, hist>>

\* A reset, a keepalive failure or TCP_USER_TIMEOUT.
PeerReset ==
  /\ net.link \in {"open", "fin"}
  /\ net' = [net EXCEPT !.link = "rst"]
  /\ UNCHANGED <<c, op, returned, hist>>

Tick ==
  /\ c' = [c EXCEPT !.at = [r \in Record |->
                             IF r \in c.unconfirmed THEN AtMost(c.at[r] + 1, Grace)
                             ELSE c.at[r]],
                    !.leftAt = IF @ = Unset THEN @ ELSE AtMost(@ + 1, Prefer)]
  /\ UNCHANGED <<op, returned, net, hist>>

-----------------------------------------------------------------------------

Init ==
  /\ c = [cur |-> NoStream, idx |-> 0, leftAt |-> Unset,
          unconfirmed |-> {}, resend |-> {},
          end |-> [r \in Record |-> 0], at |-> [r \in Record |-> 0],
          resends |-> [r \in Record |-> 0], order |-> [r \in Record |-> 0],
          written |-> 0,
          confirmed |-> [r \in Record |-> 0], lost |-> [r \in Record |-> 0]]
  /\ op = Idle
  /\ returned = [r \in Record |-> "no"]
  /\ net = NoNet
  /\ hist = [writes |-> [r \in Record |-> 0], carried |-> {}, onHost |-> {}, read |-> {},
             closed |-> FALSE]

ClientStep ==
  \/ \E r \in Record : Send(r) \/ FlushOK(r)
  \/ Poll \/ DialOK \/ DialFail \/ FlushFail \/ WriteOK \/ WriteFail
  \/ SendReturn \/ PollReturn \/ Close

Next ==
  \/ ClientStep
  \/ WatchRead \/ WatchStore
  \/ PeerAck \/ PeerRead \/ PeerClose \/ PeerReset
  \/ Tick

Spec == Init /\ [][Next]_vars

-----------------------------------------------------------------------------
(* Properties *)

Returns == {"no", "nil", "error"}
Operations == [kind : {"none", "send", "poll"}, rec : Record \cup {NoRecord},
               attempt : 0..2, ok : BOOLEAN]
Network == [acked : Nat, drained : BOOLEAN, link : {"none", "open", "fin", "rst"},
            watch : {"none", "reading", "storing", "done"}]
History == [writes : [Record -> Nat], carried : SUBSET Record, onHost : SUBSET Record,
            read : SUBSET Record, closed : BOOLEAN]

\* The fields of Client, stream and pending keep their types.
TypeOK ==
  /\ c \in Client
  /\ op \in Operations
  /\ returned \in [Record -> Returns]
  /\ net \in Network
  /\ hist \in History

\* Records a write succeeded for: Send has returned nil, or is about to.
Accepted == {r \in Record : returned[r] = "nil" \/ (op.rec = r /\ op.ok)}

\* The number of places that hold a record or have settled it.
Places(r) ==
  (IF r \in c.unconfirmed THEN 1 ELSE 0) + (IF r \in c.resend THEN 1 ELSE 0)
    + c.confirmed[r] + c.lost[r]

\* Through reaps, breaks, flushes, charges, fail-backs and Close no record is
\* dropped and none is held or settled twice: an accepted record waits for
\* confirmation, or waits for a resend, or had its done callback called once
\* (Send: "done ... is called exactly once"); a record Send refused is nowhere
\* and its callback is never called.
Conservation == \A r \in Record : Places(r) = IF r \in Accepted THEN 1 ELSE 0

\* Where the send queue can be read, done(true) is only ever called for a
\* record the ingress host acknowledged to its last byte, on whichever
\* connection carried it: pollLocked, retireLocked and Close compare offsets
\* with the right connection's acknowledgements.
ConfirmedWasAcked ==
  OutqKnown => \A r \in Record : c.confirmed[r] > 0 => r \in hist.onHost

\* A record is written at most MaxResends times after its first write, across
\* connections and however often its flush is cut short; and unless the client
\* was closed, it is given up only with its resends spent.
ResendBudget ==
  \A r \in Record :
    /\ hist.writes[r] <= MaxResends + 1
    /\ c.lost[r] > 0 => c.resends[r] > MaxResends \/ hist.closed

\* The fail-back clock runs exactly while the client is off the preferred
\* address, so that no failover can leave it on the standby for good.
AwayClock == NAddr > 1 => (c.leftAt = Unset <=> c.idx = 0)

\* When the reader has published a close by FIN, retiring the connection from
\* Send or Poll resends and loses nothing that the peer acknowledged on it
\* (package doc: "After a clean close (FIN) only the bytes the peer never
\* acknowledged are resent").
CleanCloseKeepsAcked ==
  [][OutqKnown /\ op.kind = "none" /\ net.link = "fin" /\ c.cur.dead =>
       \A r \in c.unconfirmed :
         c.end[r] <= net.acked => r \notin c'.resend /\ c'.lost[r] = c.lost[r]]_vars

\* The client implements the contract of RecordDelivery.
FateOf(r) ==
  IF c.confirmed[r] > 0 THEN "confirmed"
  ELSE IF c.lost[r] > 0 THEN "lost"
  ELSE IF r \in Accepted THEN "pending"
  ELSE IF returned[r] = "error" THEN "refused"
  ELSE "unsent"

Delivery == INSTANCE RecordDelivery
  WITH fate <- [r \in Record |-> FateOf(r)], arrived <- hist.onHost

\* Every step of the client, with its dials, failovers and resends, is a step
\* of the abstract contract of Send or leaves it alone.
ImplementsDelivery == Delivery!Spec

-----------------------------------------------------------------------------
(* Fairness.  Queue.Run calls Poll on a ticker; an operation under way runs *)
(* on, a dial or a write returns by its deadline; the reader goroutine is   *)
(* scheduled; and while bytes are outstanding TCP acknowledges them or      *)
(* TCP_USER_TIMEOUT fails the connection.  Nothing says that an idle        *)
(* connection ever fails, that a dial ever succeeds, that the peer stays    *)
(* up, or that anything is ever sent.                                       *)

\* Bytes on the connection that the peer's host has not acknowledged.
Outstanding == net.link = "open" /\ net.acked < c.cur.written

Fairness ==
  /\ WF_vars(Poll)
  /\ WF_vars(DialOK \/ DialFail)
  /\ WF_vars((\E r \in Record : FlushOK(r)) \/ FlushFail)
  /\ WF_vars(WriteOK \/ WriteFail)
  /\ WF_vars(SendReturn) /\ WF_vars(PollReturn)
  /\ WF_vars(WatchRead) /\ WF_vars(WatchStore)
  /\ WF_vars(Outstanding /\ (PeerAck \/ PeerReset))
  /\ WF_vars(Tick)

FairSpec == Spec /\ Fairness

\* Every record Send took is settled in the end, on whatever network: "a record
\* cannot wait on a dead plane for ever" (Poll).
EveryRecordSettles ==
  \A r \in Record : (r \in Accepted) ~> (c.confirmed[r] + c.lost[r] = 1)

=============================================================================
