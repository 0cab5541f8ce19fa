---------------------------- MODULE HeaderStore ----------------------------
(***************************************************************************)
(* The header chain of src/headers/chain.go: the lanes' concurrent calls   *)
(* of Observe, the canonical chain and its window, the re-anchoring across *)
(* a gap, the startup warm-up, the reads the engine verifies against, the  *)
(* read API over them, and the height reported by the tracker.             *)
(*                                                                         *)
(* Store.mu is released around every call of the anchor service, so a call *)
(* of Observe or RootAt is cut there; the loop of recanonLocked runs under *)
(* the mutex and is one step per turn, with every other user of the mutex  *)
(* held off.                                                               *)
(*                                                                         *)
(* Data abstraction.  A header stands for its hash and its merkle root.    *)
(* An entry of Store.at carries its height, so that at needs no first key. *)
(* The anchor service answers truthfully, or not at all.  Counters of      *)
(* metrics are left out, the source an answer is booked under is kept.     *)
(***************************************************************************)
EXTENDS Integers, FiniteSets

CONSTANTS
  Header,       \* the headers of the network, bad ones included
  ParentOf,     \* header.prev
  HeightOf,     \* the height a header has in the network
  Target,       \* the target a header declares (0: malformed)
  Work,         \* the hash of a header, as proof of work compares it
  MinTarget,    \* Options.MinBits (0: no floor)
  Anchor,       \* Options.Anchor.Hash
  MaxHeight,    \* the heights of the instance are 0..MaxHeight
  HeightWrap,   \* heights are unsigned: arithmetic on them is modulo 2^32
  Window,       \* Options.Window (0: unbounded)
  WarmDepth,    \* the depth of the warm-up
  FallbackCap,  \* fallbackCap
  UseAnchor,    \* Options.Lookup and Options.Fallback are set (main.buildStore)
  Lane,         \* the concurrent callers of Observe
  Reader,       \* the concurrent requests to the read API
  NoHeader      \* the zero hash

Heights == 0..MaxHeight

ASSUME HeaderStoreAssumption ==
  /\ MaxHeight \in Nat /\ Window \in Nat /\ MinTarget \in Nat
  /\ HeightWrap \in Nat /\ HeightWrap > MaxHeight
  /\ WarmDepth \in Nat /\ FallbackCap \in Nat \ {0}
  /\ UseAnchor \in BOOLEAN
  /\ NoHeader \notin Header /\ Anchor \in Header
  /\ ParentOf \in [Header -> Header \cup {NoHeader}]
  /\ HeightOf \in [Header -> Heights]
  /\ Target \in [Header -> Nat] /\ Work \in [Header -> Nat]
  /\ \A h \in Header : ParentOf[h] # NoHeader => HeightOf[h] = HeightOf[ParentOf[h]] + 1

VARIABLES
  byHash,      \* Store.byHash: the height of each header known, or Absent
  at,          \* Store.at: the entry of each header held, or NoEntry
  canon,       \* Store.canon
  tip, tipH,   \* Store.tip, Store.tipH
  lowest,      \* Store.lowest
  historyTop,  \* Store.historyTop
  cache,       \* Store.fallbackRoots
  tracker,     \* Tracker.height
  lane,        \* where each lane's handler is
  reader,      \* where each read is
  warm,        \* the warm-up is loading or done
  best,        \* the best header of the anchor service (external)
  delivered,   \* history: the headers the lanes have carried
  reanchored   \* history: a header was put without its parent

storeVars == <<byHash, at, canon, tip, tipH, lowest, historyTop>>
vars == <<byHash, at, canon, tip, tipH, lowest, historyTop, cache, tracker, lane, reader,
          warm, best, delivered, reanchored>>

Absent == -1
NoEntry == [h |-> Absent, prev |-> NoHeader, viaAnchor |-> FALSE]

AtLeast(n, bound) == IF n > bound THEN n ELSE bound

\* A header the store holds at a height: s.at[h][hash].
Held(x, h) == at[x] # NoEntry /\ at[x].h = h

\* The canonical header of a height, if it is held.
CanonHeld(h) == canon[h] # NoHeader /\ Held(canon[h], h)

LockFree == \A l \in Lane : lane[l].pc # "walk"

\* The floor, then the header's own target.
CheckWork(x) ==
  /\ Target[x] # 0
  /\ MinTarget # 0 => Target[x] <= MinTarget
  /\ Work[x] <= Target[x]

-----------------------------------------------------------------------------
(* Observe *)

IdleLane == [pc |-> "idle", hdr |-> NoHeader, h |-> 0]

LaneTo(l, pc, x, h) == lane' = [lane EXCEPT ![l] = [pc |-> pc, hdr |-> x, h |-> h]]

\* A header comes down a lane.
Arrival(l, x) ==
  /\ lane[l].pc = "idle" /\ warm = "done"
  /\ delivered' = delivered \cup {x}
  /\ UNCHANGED <<byHash, canon, tip, tipH, lowest, historyTop, cache, tracker, reader,
                 warm, best, reanchored>>

Reject(l, x) ==
  /\ ~CheckWork(x)
  /\ Arrival(l, x)
  /\ UNCHANGED <<at, lane>>

\* A re-delivery makes a header fetched from the anchor one received.
Redeliver(l, x) ==
  /\ CheckWork(x) /\ LockFree
  /\ byHash[x] # Absent
  /\ Arrival(l, x)
  /\ at' = IF Held(x, byHash[x]) THEN [at EXCEPT ![x].viaAnchor = FALSE] ELSE at
  /\ UNCHANGED lane

\* The parent's height is read here and used when the mutex is taken again.
ParentKnown(l, x) ==
  /\ CheckWork(x) /\ LockFree
  /\ byHash[x] = Absent
  /\ ParentOf[x] # NoHeader /\ byHash[ParentOf[x]] # Absent
  /\ Arrival(l, x)
  /\ LaneTo(l, "chain", x, byHash[ParentOf[x]])
  /\ UNCHANGED at

\* The parent is looked up, or the header is an orphan.
ParentUnknown(l, x) ==
  /\ CheckWork(x) /\ LockFree
  /\ byHash[x] = Absent
  /\ ParentOf[x] # NoHeader => byHash[ParentOf[x]] = Absent
  /\ Arrival(l, x)
  /\ IF UseAnchor THEN LaneTo(l, "lookup", x, 0) ELSE UNCHANGED lane
  /\ UNCHANGED at

\* Mutant: a re-anchored header does not lower the floor of the window.
PutLockedFloor(x, e) == at' = [at EXCEPT ![x] = e] /\ UNCHANGED lowest

\* putLocked.
PutLocked(x, e) ==
  /\ at' = [at EXCEPT ![x] = e]
  /\ lowest' = IF e.h < lowest THEN e.h ELSE lowest

\* Lookup.HeaderAt answered; re-check under the mutex, then re-anchor.
LookupOK(l) ==
  LET p == ParentOf[lane[l].hdr]
      h == IF byHash[p] # Absent THEN byHash[p] ELSE HeightOf[p]
  IN  /\ lane[l].pc = "lookup" /\ LockFree
      /\ p # NoHeader
      /\ IF byHash[p] # Absent
         THEN UNCHANGED <<byHash, at, lowest, reanchored>>
         ELSE /\ reanchored' = TRUE
              /\ byHash' = [byHash EXCEPT ![p] = h]
              /\ PutLocked(p, [h |-> h, prev |-> NoHeader, viaAnchor |-> TRUE])
      /\ LaneTo(l, "chain", lane[l].hdr, h)
      /\ UNCHANGED <<canon, tip, tipH, historyTop, cache, tracker, reader, warm, best,
                     delivered>>

\* No answer: the header is an orphan and is not kept.
LookupFail(l) ==
  /\ lane[l].pc = "lookup"
  /\ lane' = [lane EXCEPT ![l] = IdleLane]
  /\ UNCHANGED storeVars
  /\ UNCHANGED <<cache, tracker, reader, warm, best, delivered, reanchored>>

\* Mutant: a competing header of the tip's height takes over the tip.
MovesTipOnTie(x, h) == ParentOf[x] = tip \/ h >= tipH

MovesTip(x, h) == ParentOf[x] = tip \/ h > tipH

\* Mutant: a header is given the height of its parent.
ChildHeightSame(h) == h

ChildHeight(h) == h + 1

\* The header takes its place, and the tip if it extends it or is higher.
Chain(l) ==
  LET x == lane[l].hdr
      h == ChildHeight(lane[l].h)
  IN  /\ lane[l].pc = "chain" /\ LockFree
      /\ byHash' = [byHash EXCEPT ![x] = h]
      /\ PutLocked(x, [h |-> h, prev |-> ParentOf[x], viaAnchor |-> FALSE])
      /\ IF MovesTip(x, h)
         THEN tip' = x /\ tipH' = h /\ LaneTo(l, "walk", x, h)
         ELSE UNCHANGED <<tip, tipH>> /\ lane' = [lane EXCEPT ![l] = IdleLane]
      /\ UNCHANGED <<canon, historyTop, cache, tracker, reader, warm, best, delivered, reanchored>>

-----------------------------------------------------------------------------
(* recanonLocked and pruneLocked, under the mutex *)

\* Mutant: the walk ends at the first height that has a header already.
WalkGoesOnIfVacant(x, h) ==
  /\ Held(x, h) /\ at[x].prev # NoHeader /\ h > 0
  /\ byHash[at[x].prev] = h - 1
  /\ canon[h - 1] = NoHeader

\* The walk goes on below a header: its parent is known, one height down.
WalkGoesOn(x, h) ==
  /\ Held(x, h) /\ at[x].prev # NoHeader /\ h > 0
  /\ byHash[at[x].prev] = h - 1

RecanonStep(l) ==
  LET x == lane[l].hdr
      h == lane[l].h
  IN  /\ lane[l].pc = "walk"
      /\ canon[h] # x /\ WalkGoesOn(x, h)
      /\ canon' = [canon EXCEPT ![h] = x]
      /\ LaneTo(l, "walk", at[x].prev, h - 1)
      /\ UNCHANGED <<byHash, at, tip, tipH, lowest, historyTop, cache, tracker, reader,
                     warm, best, delivered, reanchored>>

\* The heights pruneLocked deletes: from the lowest retained to the window's floor.
Pruned == IF Window = 0 \/ tipH < Window THEN {} ELSE lowest..(tipH - Window - 1)

\* The height below a height, as an unsigned difference.
HeightBelow(h) == (h - 1) % HeightWrap

\* Mutant: a cutoff of zero wraps around.
HistoryTopAfterWrapped(cutoff) ==
  IF Window # 0 /\ tipH >= Window THEN AtLeast(historyTop, HeightBelow(cutoff)) ELSE historyTop

\* A height below the window's floor is history.
HistoryTopAfter(cutoff) ==
  IF Window # 0 /\ tipH >= Window /\ cutoff > 0
  THEN AtLeast(historyTop, HeightBelow(cutoff)) ELSE historyTop

PruneLocked(kept) ==
  LET cutoff == tipH - Window
      Gone(x) == at[x] # NoEntry /\ at[x].h \in Pruned
  IN  /\ byHash' = [x \in Header |-> IF Gone(x) THEN Absent ELSE byHash[x]]
      /\ at' = [x \in Header |-> IF Gone(x) THEN NoEntry ELSE at[x]]
      /\ canon' = [h \in Heights |-> IF h \in Pruned THEN NoHeader ELSE kept[h]]
      /\ lowest' = IF Pruned = {} THEN lowest ELSE cutoff
      /\ historyTop' = HistoryTopAfter(cutoff)

\* The last turn of the walk, the pruning, and the end of Observe.
RecanonEnd(l) ==
  LET x == lane[l].hdr
      h == lane[l].h
  IN  /\ lane[l].pc = "walk"
      /\ ~(canon[h] # x /\ WalkGoesOn(x, h))
      /\ PruneLocked([canon EXCEPT ![h] = x])
      /\ LaneTo(l, "learn", NoHeader, tipH)
      /\ UNCHANGED <<tip, tipH, cache, tracker, reader, warm, best, delivered, reanchored>>

\* Mutant: the last caller wins.
LearnLast(l) ==
  /\ lane[l].pc = "learn"
  /\ tracker' = lane[l].h
  /\ lane' = [lane EXCEPT ![l] = IdleLane]
  /\ UNCHANGED storeVars /\ UNCHANGED <<cache, reader, warm, best, delivered, reanchored>>

\* headerHandler tells the tracker of a tip, outside the store's mutex.
Learn(l) ==
  /\ lane[l].pc = "learn"
  /\ tracker' = AtLeast(lane[l].h, tracker)
  /\ lane' = [lane EXCEPT ![l] = IdleLane]
  /\ UNCHANGED storeVars /\ UNCHANGED <<cache, reader, warm, best, delivered, reanchored>>

-----------------------------------------------------------------------------
(* Reads, as the read API makes them: RootAt (the engine's verification) and *)
(* then Known, Tip and then Known, HeaderForHeight, HeaderByHash             *)

IdleReader ==
  [pc |-> "idle", kind |-> "root", h |-> 0, x |-> NoHeader, src |-> "none", known |-> FALSE]

\* Where an answer of the anchor is booked.
AnchoredSource(h) == IF h <= historyTop THEN "history" ELSE "fallback"

\* Mutant: a header from the anchor is canonical here, so it is the lane's.
HeldSourceCanon(h) == "lane"

\* Where the answer of a canonical header that is held is booked.
HeldSource(h) == IF at[canon[h]].viaAnchor THEN AnchoredSource(h) ELSE "lane"

ReaderIs(r, q) ==
  /\ reader' = [reader EXCEPT ![r] = q]
  /\ UNCHANGED storeVars /\ UNCHANGED <<tracker, lane, warm, best, delivered, reanchored>>

ReaderTo(r, pc, kind, h, x, src) ==
  ReaderIs(r, [IdleReader EXCEPT !.pc = pc, !.kind = kind, !.h = h, !.x = x, !.src = src])

\* A request comes in, or the store is asked again, under the mutex.
Asks(r) == reader[r].pc \in {"idle", "done"} /\ LockFree

\* What follows an answer: the flag of a root is read in another critical
\* section, that of a header was read with it.
Answered(kind) == IF kind = "root" THEN "known" ELSE "done"

ReadHeld(r, kind, h) ==
  /\ Asks(r) /\ CanonHeld(h)
  /\ ReaderIs(r, [pc |-> Answered(kind), kind |-> kind, h |-> h, x |-> canon[h],
                  src |-> HeldSource(h), known |-> kind = "header" /\ ~at[canon[h]].viaAnchor])
  /\ UNCHANGED cache

ReadCached(r, h) ==
  /\ Asks(r) /\ ~CanonHeld(h) /\ cache[h] # NoHeader
  /\ ReaderTo(r, "known", "root", h, cache[h], AnchoredSource(h))
  /\ UNCHANGED cache

\* The anchor is asked with the mutex released; without one it is a miss.
ReadAnchor(r, kind, h) ==
  /\ Asks(r) /\ ~CanonHeld(h) /\ (kind = "root" => cache[h] = NoHeader)
  /\ ReaderTo(r, IF UseAnchor THEN "ask" ELSE "done", kind, h, NoHeader, "miss")
  /\ UNCHANGED cache

ReadTip(r) ==
  /\ Asks(r)
  /\ ReaderTo(r, "known", "tip", tipH, tip, "none")
  /\ UNCHANGED cache

\* Known: the canonical header of the height was received, not re-anchored.
Known(h) == CanonHeld(h) /\ ~at[canon[h]].viaAnchor

\* The root, or the tip, is at hand; its height's flag is read now.
ReadKnown(r) ==
  /\ reader[r].pc = "known" /\ LockFree
  /\ ReaderIs(r, [reader[r] EXCEPT !.pc = "done", !.known = Known(reader[r].h)])
  /\ UNCHANGED cache

\* HeaderByHash: from what is held alone; anything else is a 404, without a header.
ReadByHash(r, x) ==
  /\ Asks(r)
  /\ IF byHash[x] # Absent /\ Held(x, byHash[x])
     THEN ReaderIs(r, [IdleReader EXCEPT !.pc = "done", !.kind = "hash", !.h = byHash[x],
                                         !.x = x, !.known = ~at[x].viaAnchor])
     ELSE ReaderTo(r, "done", "hash", 0, NoHeader, "none")
  /\ UNCHANGED cache

\* The best chain of the anchor service: a header and its ancestors.
ChainOf[x \in Header] ==
  {x} \cup IF ParentOf[x] = NoHeader THEN {} ELSE ChainOf[ParentOf[x]]

\* The anchor answers with its best chain's header of the height.
FallbackOK(r) ==
  \E x \in ChainOf[best] :
    /\ reader[r].pc = "ask" /\ HeightOf[x] = reader[r].h
    /\ ReaderTo(r, "book", reader[r].kind, reader[r].h, x, "none")
    /\ UNCHANGED cache

FallbackFail(r) ==
  /\ reader[r].pc = "ask"
  /\ ReaderTo(r, "done", reader[r].kind, reader[r].h, NoHeader, "miss")
  /\ UNCHANGED cache

Cached == {h \in Heights : cache[h] # NoHeader}

\* Mutant: the root is kept under the height of the tip.
CacheWithTip(h, x) == [cache EXCEPT ![tipH] = x]

\* The cache with one more root; it is emptied first when it is full.
CacheWith(h, x) ==
  IF Cardinality(Cached) >= FallbackCap
  THEN [k \in Heights |-> IF k = h THEN x ELSE NoHeader]
  ELSE [cache EXCEPT ![h] = x]

\* The answer is booked, and a root is kept.
Book(r) ==
  LET q == reader[r]
  IN  /\ q.pc = "book" /\ LockFree
      /\ ReaderTo(r, Answered(q.kind), q.kind, q.h, q.x, AnchoredSource(q.h))
      /\ cache' = IF q.kind = "root" THEN CacheWith(q.h, q.x) ELSE cache

-----------------------------------------------------------------------------
(* The warm-up, before the lanes open, and the anchor service *)

AnchorHeight == HeightOf[Anchor]

\* The heights warmed: WarmDepth of them, ending at the anchor.
WarmHeights ==
  LET depth == IF WarmDepth > FallbackCap \div 2 THEN FallbackCap \div 2 ELSE WarmDepth
  IN  {h \in Heights : AnchorHeight - depth < h /\ h <= AnchorHeight}

\* A worker loads one height.
WarmOne(h) ==
  /\ warm = "loading" /\ UseAnchor /\ h \in WarmHeights
  /\ Cardinality(Cached) < FallbackCap
  /\ \E x \in ChainOf[best] :
       HeightOf[x] = h /\ cache' = [cache EXCEPT ![h] = x]
  /\ UNCHANGED storeVars /\ UNCHANGED <<tracker, lane, reader, warm, best, delivered, reanchored>>

\* All heights were tried, or the context is done.
WarmEnd ==
  /\ warm = "loading"
  /\ warm' = "done"
  /\ UNCHANGED storeVars /\ UNCHANGED <<cache, tracker, lane, reader, best, delivered, reanchored>>

\* The anchor service moves to a higher tip, by an extension or a reorganisation.
BestMoves ==
  /\ \E x \in Header : HeightOf[x] > HeightOf[best] /\ best' = x
  /\ UNCHANGED storeVars /\ UNCHANGED <<cache, tracker, lane, reader, warm, delivered, reanchored>>

-----------------------------------------------------------------------------

\* New, and main.buildStore: the anchor service's tip is the anchor.
Init ==
  /\ byHash = [x \in Header |-> IF x = Anchor THEN AnchorHeight ELSE Absent]
  /\ at = [x \in Header |-> NoEntry]
  /\ canon = [h \in Heights |-> NoHeader]
  /\ tip = Anchor /\ tipH = AnchorHeight
  /\ lowest = AnchorHeight /\ historyTop = AnchorHeight
  /\ cache = [h \in Heights |-> NoHeader]
  /\ tracker = 0
  /\ lane = [l \in Lane |-> IdleLane]
  /\ reader = [r \in Reader |-> IdleReader]
  /\ warm = "loading"
  /\ best = Anchor
  /\ delivered = {} /\ reanchored = FALSE

Observe(l) ==
  \/ \E x \in Header : Reject(l, x) \/ Redeliver(l, x) \/ ParentKnown(l, x) \/ ParentUnknown(l, x)
  \/ LookupOK(l) \/ LookupFail(l) \/ Chain(l) \/ RecanonStep(l) \/ RecanonEnd(l) \/ Learn(l)

Read(r) ==
  \/ \E h \in Heights, kind \in {"root", "header"} : ReadHeld(r, kind, h) \/ ReadAnchor(r, kind, h)
  \/ \E h \in Heights : ReadCached(r, h)
  \/ \E x \in Header : ReadByHash(r, x)
  \/ ReadTip(r) \/ FallbackOK(r) \/ FallbackFail(r) \/ Book(r) \/ ReadKnown(r)

Next ==
  \/ \E l \in Lane : Observe(l)
  \/ \E r \in Reader : Read(r)
  \/ \E h \in Heights : WarmOne(h)
  \/ WarmEnd
  \/ BestMoves

Spec == Init /\ [][Next]_vars

-----------------------------------------------------------------------------
(* Properties *)

Entry == [h : Heights \cup {Absent}, prev : Header \cup {NoHeader}, viaAnchor : BOOLEAN]

\* The fields of Store and Tracker keep their types.
TypeOK ==
  /\ byHash \in [Header -> Heights \cup {Absent}]
  /\ at \in [Header -> Entry]
  /\ canon \in [Heights -> Header \cup {NoHeader}]
  /\ tip \in Header /\ tipH \in Heights
  /\ lowest \in Heights /\ historyTop \in Heights
  /\ cache \in [Heights -> Header \cup {NoHeader}]
  /\ tracker \in Heights
  /\ lane \in [Lane -> [pc : {"idle", "lookup", "chain", "walk", "learn"},
                        hdr : Header \cup {NoHeader}, h : Heights]]
  /\ reader \in [Reader -> [pc : {"idle", "ask", "book", "known", "done"},
                            kind : {"root", "header", "tip", "hash"},
                            h : Heights, x : Header \cup {NoHeader}, known : BOOLEAN,
                            src : {"none", "lane", "history", "fallback", "miss"}]]
  /\ warm \in {"loading", "done"}
  /\ best \in Header
  /\ delivered \subseteq Header /\ reanchored \in BOOLEAN

\* Heights are derived by chaining, from parents read before the mutex was
\* released and from parents looked up, and still every header is indexed,
\* held and canonical at the height the network gives it.
TrueHeights ==
  /\ TypeOK
  /\ \A x \in Header : byHash[x] # Absent => byHash[x] = HeightOf[x]
  /\ \A x \in Header : at[x] # NoEntry => at[x].h = HeightOf[x]
  /\ \A h \in Heights : canon[h] # NoHeader => HeightOf[canon[h]] = h

\* The index and the heights agree, through concurrent observations and
\* pruning: exactly the headers held, and the anchor, are in byHash, and no
\* header is held below lowest, where pruneLocked would never reach it.
IndexSound ==
  /\ \A x \in Header : at[x] # NoEntry => byHash[x] = at[x].h /\ at[x].h >= lowest
  /\ \A x \in Header : byHash[x] # Absent => at[x] # NoEntry \/ x = Anchor

\* The tip is known at its height and never pruned, and the tracker never runs
\* ahead of it.  Once no handler is under way the tip is the highest header
\* received, and the tracker reports it, however the lanes' calls of Learn
\* interleaved ("Learn is the tracker's only writer of the reported height").
TipReported ==
  /\ byHash[tip] = tipH
  /\ tracker <= tipH
  /\ (\A l \in Lane : lane[l].pc \in {"idle", "lookup"}) =>
       /\ \A x \in Header : at[x] # NoEntry => at[x].h <= tipH
       /\ tip # Anchor => tracker = tipH

Received(x) == x \in delivered /\ CheckWork(x)

\* A root booked as the lane's is of a header that this host received on a
\* lane and whose proof of work it checked (package doc: "every object the
\* engine admits is verified against headers this host received itself"), and
\* so is a header that the API serves as known: also when the anchor supplied
\* the header while a lane was between its two critical sections with it, and
\* when a lane delivered it again.
LaneAnswers ==
  \A r \in Reader :
    LET q == reader[r]
    IN  q.src = "lane" \/ (q.known /\ q.kind \in {"header", "hash"}) => Received(q.x)

\* Answers of the anchor that arrive late, for readers that found nothing when
\* they asked, go into a cache that others have filled or emptied since: a read
\* still answers with a header of the height asked for, from whichever of the
\* canonical chain, the cache, the tip and the anchor it comes, and the cache
\* keeps each root under its own height and to its bound ("Bounded by
\* fallbackCap").
AnswerHeights ==
  /\ \A r \in Reader : reader[r].x # NoHeader => HeightOf[reader[r].x] = reader[r].h
  /\ \A h \in Heights : cache[h] # NoHeader => HeightOf[cache[h]] = h
  /\ Cardinality(Cached) <= FallbackCap

\* Between the walks of recanonLocked, what the canonical map serves is on the
\* tip's own chain ("canon is the canonical chain: height to the hash on the
\* best chain"), after any fork, reorganisation and pruning, as long as no
\* header was re-anchored.
CanonServed ==
  LockFree /\ ~reanchored => \A h \in Heights : CanonHeld(h) => canon[h] \in ChainOf[tip]

\* The same after headers were re-anchored ("RootAt serves the canonical chain's root
\* for a height").
CanonServedAcrossGap ==
  LockFree => \A h \in Heights : CanonHeld(h) => canon[h] \in ChainOf[tip]

\* A root that is served for a height gives way to another header's only on
\* the chain of a strictly higher tip: of two headers that compete at the tip's
\* height the first stays ("a fork does not silently overwrite the root a
\* previous header committed to").
HigherChainReplaces ==
  [][\A h \in Heights :
       CanonHeld(h) /\ canon'[h] \notin {canon[h], NoHeader} =>
         h < tipH /\ canon'[h] \in ChainOf[tip]]_vars

=============================================================================
