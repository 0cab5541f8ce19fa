------------------------- MODULE HeaderStoreProofs -------------------------
(***************************************************************************)
(* What is proved of HeaderStore, for any network of headers, any window,  *)
(* lanes and readers: heights are true, the index is sound, the tip is     *)
(* reported, answers are of their height and booked to their source, and   *)
(* the canonical map is the tip's chain as long as nothing was re-anchored.*)
(*                                                                         *)
(* The invariant is in layers, each proved inductive on those before it.   *)
(***************************************************************************)
EXTENDS HeaderStore, SetSums

-----------------------------------------------------------------------------
(* The inductive invariants *)

LaneTable ==
  [Lane -> [pc : {"idle", "lookup", "chain", "walk", "learn"}, hdr : Header \cup {NoHeader}, h : Heights]]

\* The types of the store and of its writers.
StoreType ==
  /\ byHash \in [Header -> Heights \cup {Absent}]
  /\ at \in [Header -> Entry]
  /\ canon \in [Heights -> Header \cup {NoHeader}]
  /\ tip \in Header /\ tipH \in Heights
  /\ lowest \in Heights /\ historyTop \in Heights
  /\ tracker \in Heights
  /\ lane \in LaneTable
  /\ delivered \subseteq Header /\ reanchored \in BOOLEAN

\* Every header is indexed, held and canonical at its height in the network,
\* and an entry names its parent, unless it was re-anchored.
Located ==
  /\ \A x \in Header : byHash[x] # Absent => byHash[x] = HeightOf[x]
  /\ \A x \in Header : at[x] # NoEntry => at[x].h = HeightOf[x] /\ at[x].prev \in {ParentOf[x], NoHeader}
  /\ \A h \in Heights : canon[h] # NoHeader => HeightOf[canon[h]] = h

\* Known are the headers held, and the anchor, which never is; canonical are
\* known ones.
Indexed ==
  /\ IndexSound
  /\ byHash[Anchor] # Absent /\ at[Anchor] = NoEntry
  /\ \A h \in Heights : canon[h] # NoHeader => byHash[canon[h]] # Absent

\* What a lane carries from one critical section to the next.
Carried ==
  /\ \A l \in Lane :
       /\ lane[l].pc \in {"lookup", "chain"} =>
            lane[l].hdr \in Header \ {Anchor} /\ lane[l].hdr \in delivered /\ CheckWork(lane[l].hdr)
       /\ lane[l].pc = "chain" =>
            ParentOf[lane[l].hdr] # NoHeader /\ lane[l].h = HeightOf[ParentOf[lane[l].hdr]]
       /\ lane[l].pc = "walk" =>
            lane[l].hdr \in Header /\ lane[l].h = HeightOf[lane[l].hdr] /\ byHash[lane[l].hdr] # Absent
  /\ \A l, m \in Lane : lane[l].pc = "walk" /\ lane[m].pc = "walk" => l = m

Core == StoreType /\ Located /\ Indexed /\ Carried

\* The tip is known, and nothing held is higher but the parent of a header on
\* its way; a new tip the tracker has not heard of is on its way to it.
TipKnown == byHash[tip] = tipH

TrackerBehind ==
  /\ tracker <= tipH
  /\ \A l \in Lane : lane[l].pc = "learn" => lane[l].h <= tipH

NothingHigher ==
  \A x \in Header : at[x] # NoEntry =>
    HeightOf[x] <= tipH \/ \E l \in Lane : lane[l].pc = "chain" /\ HeightOf[x] <= lane[l].h

TipHeard ==
  tip # Anchor =>
    tracker = tipH \/ \E l \in Lane : lane[l].pc = "walk" \/ (lane[l].pc = "learn" /\ lane[l].h = tipH)

Tips == TipKnown /\ TrackerBehind /\ NothingHigher /\ TipHeard

\* The walk is down the tip's chain, and starts at a height that had no header.
Walked ==
  /\ \A h \in Heights : canon[h] # NoHeader => h <= tipH
  /\ \A l \in Lane : lane[l].pc = "walk" =>
       lane[l].hdr \in ChainOf[tip] /\ (lane[l].h = tipH => canon[tipH] = NoHeader)

\* A parent that is not known any more is history.
Recorded(p) == byHash[p] # Absent \/ HeightOf[p] <= historyTop

\* Without a re-anchoring every header held descends from the anchor, and what
\* is canonical is above the history and on one chain: the tip's, but for the
\* part a walk has still to pass.
Descended ==
  \A x \in Header : at[x] # NoEntry =>
    /\ at[x].prev = ParentOf[x] /\ ParentOf[x] # NoHeader
    /\ HeightOf[x] > AnchorHeight /\ Recorded(ParentOf[x])

Following ==
  \A l \in Lane : lane[l].pc = "chain" => lane[l].h >= AnchorHeight /\ Recorded(ParentOf[lane[l].hdr])

HistoryKept == historyTop = AnchorHeight \/ (Window # 0 /\ historyTop <= tipH - Window - 1)

ServedOnTip ==
  LockFree => \A h \in Heights : CanonHeld(h) => h > historyTop /\ canon[h] \in ChainOf[tip]

Passing ==
  \A l \in Lane : lane[l].pc = "walk" =>
    /\ \A h \in Heights : h > lane[l].h /\ CanonHeld(h) => canon[h] \in ChainOf[tip]
    /\ \E old \in Header : \A h \in Heights :
         h <= lane[l].h /\ CanonHeld(h) => h > historyTop /\ canon[h] \in ChainOf[old]

Rooted == Descended /\ Following /\ HistoryKept /\ ServedOnTip /\ Passing

Walks == Walked /\ (~reanchored => Rooted)

Request == [pc : {"idle", "ask", "book", "known", "done"}, kind : {"root", "header", "tip", "hash"},
            h : Heights, x : Header \cup {NoHeader}, known : BOOLEAN,
            src : {"none", "lane", "history", "fallback", "miss"}]

\* The types of the readers and of what they read besides the store.
ReadType ==
  /\ cache \in [Heights -> Header \cup {NoHeader}]
  /\ reader \in [Reader -> Request]
  /\ warm \in {"loading", "done"}
  /\ best \in Header

\* An entry that was not re-anchored was received.
Sourced == \A x \in Header : at[x] # NoEntry /\ ~at[x].viaAnchor => Received(x)

\* The cache keeps each root under its height, and to its bound.
CacheSound ==
  /\ \A h \in Heights : cache[h] # NoHeader => HeightOf[cache[h]] = h
  /\ Cardinality(Cached) <= FallbackCap

\* What a read has in hand is of its height, and is booked to its source.
Sound(q) ==
  /\ q.x # NoHeader => HeightOf[q.x] = q.h
  /\ q.pc = "book" => q.x \in Header
  /\ q.pc = "known" => q.kind \in {"root", "tip"}
  /\ q.src = "lane" => Received(q.x)
  /\ q.known /\ q.kind \in {"header", "hash"} => Received(q.x)

Reads == ReadType /\ Sourced /\ CacheSound /\ \A r \in Reader : Sound(reader[r])

IInv == Core /\ Tips /\ Walks /\ Reads

-----------------------------------------------------------------------------
(* Chains of headers *)

\* What the network is.
LEMMA Network ==
  /\ MaxHeight \in Nat /\ Heights = 0..MaxHeight /\ Absent = -1 /\ Absent \notin Heights
  /\ Window \in Nat /\ FallbackCap \in Nat /\ UseAnchor \in BOOLEAN
  /\ NoHeader \notin Header /\ Anchor \in Header /\ AnchorHeight = HeightOf[Anchor]
  /\ AnchorHeight \in Heights
  /\ \A x \in Header : ParentOf[x] \in Header \cup {NoHeader} /\ HeightOf[x] \in Heights
                       /\ HeightOf[x] \in Nat
  /\ \A x \in Header : ParentOf[x] # NoHeader => HeightOf[x] = HeightOf[ParentOf[x]] + 1
BY HeaderStoreAssumption DEF Heights, Absent, AnchorHeight

\* One below a height that is not the lowest is no wrap.
LEMMA HeightBelowIs ==
  ASSUME NEW h \in Heights, h > 0
  PROVE  HeightBelow(h) = h - 1
<1>1. h - 1 \in Nat /\ HeightWrap \in Nat /\ h - 1 < HeightWrap
  BY Network, HeaderStoreAssumption
<1> QED
  BY <1>1 DEF HeightBelow

\* A set of headers that holds a header whenever it holds the lower ones holds
\* them all.
LEMMA HeightInduction ==
  ASSUME NEW Good,
         \A x \in Header : (\A y \in Header : HeightOf[y] < HeightOf[x] => y \in Good) => x \in Good
  PROVE  \A x \in Header : x \in Good
<1> DEFINE Below == {n \in Nat : \A x \in Header : HeightOf[x] < n => x \in Good}
<1>1. 0 \in Below
  BY Network
<1>2. \A n \in Below : n + 1 \in Below
  BY Network
<1>3. Below = Nat
  <2>1. Below \in SUBSET Nat
    OBVIOUS
  <2> HIDE DEF Below
  <2> QED
    BY <1>1, <1>2, <2>1, NaturalSetInduction
<1> SUFFICES ASSUME NEW x \in Header PROVE x \in Good
  OBVIOUS
<1>4. HeightOf[x] + 1 \in Below
  BY <1>3, Network
<1> QED
  BY <1>4, Network

\* One turn of the recursion of ChainOf.
Link(f, x) == {x} \cup IF ParentOf[x] = NoHeader THEN {} ELSE f[ParentOf[x]]

\* The recursion defines a function: it is built one height after another.
LEMMA ChainExists == \E f : f = [x \in Header |-> Link(f, x)]
<1> DEFINE UpTo(n) == {x \in Header : HeightOf[x] < n}
           Good == {n \in Nat : \E f : f = [x \in UpTo(n) |-> Link(f, x)]}
<1>1. 0 \in Good
  <2>1. UpTo(0) = {}
    BY Network
  <2>2. [x \in UpTo(0) |-> {}] = [x \in UpTo(0) |-> Link([y \in UpTo(0) |-> {}], x)]
    BY <2>1
  <2> QED
    BY <2>2
<1>2. \A n \in Good : n + 1 \in Good
  <2> TAKE n \in Good
  <2>1. PICK f : f = [x \in UpTo(n) |-> Link(f, x)]
    OBVIOUS
  <2> DEFINE g == [x \in UpTo(n + 1) |-> IF x \in UpTo(n) THEN f[x] ELSE Link(f, x)]
  <2>2. ASSUME NEW x \in UpTo(n + 1), ParentOf[x] # NoHeader
        PROVE  ParentOf[x] \in UpTo(n) /\ ParentOf[x] \in UpTo(n + 1)
    BY <2>2, Network
  <2>3. \A x \in UpTo(n + 1) : Link(g, x) = Link(f, x)
    BY <2>2 DEF Link
  <2>4. \A x \in UpTo(n) : f[x] = Link(f, x)
    BY <2>1
  <2>5. \A x \in UpTo(n + 1) : g[x] = Link(g, x)
    BY <2>3, <2>4
  <2>6. g = [x \in UpTo(n + 1) |-> Link(g, x)]
    BY <2>5
  <2>7. \E k : k = [x \in UpTo(n + 1) |-> Link(k, x)]
    BY <2>6
  <2>8. n + 1 \in Nat
    OBVIOUS
  <2> HIDE DEF UpTo, g
  <2> QED
    BY <2>7, <2>8
<1>3. Good = Nat
  <2>1. Good \in SUBSET Nat
    OBVIOUS
  <2> HIDE DEF Good
  <2> QED
    BY <1>1, <1>2, <2>1, NaturalSetInduction
<1>4. UpTo(MaxHeight + 1) = Header
  BY Network
<1>5. MaxHeight + 1 \in Good
  <2>1. MaxHeight + 1 \in Nat
    BY Network
  <2> HIDE DEF Good
  <2> QED
    BY <1>3, <2>1
<1> QED
  BY <1>4, <1>5

\* So ChainOf satisfies its equation.
LEMMA ChainUnfolds ==
  ASSUME NEW x \in Header
  PROVE  ChainOf[x] = {x} \cup IF ParentOf[x] = NoHeader THEN {} ELSE ChainOf[ParentOf[x]]
<1>1. ChainOf = CHOOSE f : f = [y \in Header |-> Link(f, y)]
  BY DEF ChainOf, Link
<1>2. ChainOf = [y \in Header |-> Link(ChainOf, y)]
  <2> HIDE DEF ChainOf
  <2> QED
    BY <1>1, ChainExists
<1>3. ChainOf[x] = Link(ChainOf, x)
  <2> HIDE DEF ChainOf
  <2> QED
    BY <1>2
<1> QED
  BY <1>3 DEF Link

\* A chain holds its header and its parent's chain.
LEMMA ChainHolds ==
  ASSUME NEW x \in Header
  PROVE  /\ x \in ChainOf[x]
         /\ ParentOf[x] # NoHeader =>
              ParentOf[x] \in ChainOf[x] /\ ChainOf[ParentOf[x]] \subseteq ChainOf[x]
<1>1. x \in ChainOf[x]
  BY ChainUnfolds
<1>2. ASSUME ParentOf[x] # NoHeader
      PROVE  ParentOf[x] \in ChainOf[x] /\ ChainOf[ParentOf[x]] \subseteq ChainOf[x]
  <2>1. ParentOf[x] \in Header
    BY <1>2, Network
  <2>2. ChainOf[ParentOf[x]] \subseteq ChainOf[x]
    BY <1>2, ChainUnfolds
  <2>3. ParentOf[x] \in ChainOf[ParentOf[x]]
    BY <2>1, ChainUnfolds
  <2> QED
    BY <2>2, <2>3
<1> QED
  BY <1>1, <1>2

\* A chain has lower headers, and their chains.
LEMMA ChainBelow ==
  \A x \in Header : ChainOf[x] \subseteq Header
    /\ \A y \in ChainOf[x] : (y = x \/ HeightOf[y] < HeightOf[x]) /\ ChainOf[y] \subseteq ChainOf[x]
<1> DEFINE Good == {x \in Header : ChainOf[x] \subseteq Header
             /\ \A y \in ChainOf[x] : (y = x \/ HeightOf[y] < HeightOf[x]) /\ ChainOf[y] \subseteq ChainOf[x]}
<1>1. ASSUME NEW x \in Header, \A y \in Header : HeightOf[y] < HeightOf[x] => y \in Good
      PROVE  x \in Good
  <2>1. CASE ParentOf[x] = NoHeader
    BY <2>1, ChainUnfolds
  <2>2. CASE ParentOf[x] # NoHeader
    <3>1. ParentOf[x] \in Header /\ HeightOf[ParentOf[x]] < HeightOf[x]
      BY <2>2, Network
    <3>2. ParentOf[x] \in Good
      BY <1>1, <3>1
    <3>3. ChainOf[x] = {x} \cup ChainOf[ParentOf[x]]
      BY <2>2, ChainUnfolds
    <3>4. ChainOf[x] \subseteq Header
      BY <3>2, <3>3
    <3>5. ASSUME NEW y \in ChainOf[x] PROVE (y = x \/ HeightOf[y] < HeightOf[x]) /\ ChainOf[y] \subseteq ChainOf[x]
      <4>1. CASE y = x
        BY <4>1
      <4>2. CASE y \in ChainOf[ParentOf[x]]
        <5>1. y \in Header /\ HeightOf[y] <= HeightOf[ParentOf[x]]
          BY <3>1, <3>2, <4>2, Network
        <5>2. ChainOf[y] \subseteq ChainOf[ParentOf[x]]
          BY <3>2, <4>2
        <5>3. HeightOf[y] < HeightOf[x]
          BY <3>1, <5>1, Network
        <5> QED
          BY <3>3, <5>2, <5>3
      <4> QED
        BY <3>3, <4>1, <4>2
    <3> QED
      BY <3>4, <3>5
  <2> QED
    BY <2>1, <2>2
<1>2. \A x \in Header : x \in Good
  <2> HIDE DEF Good
  <2> QED
    BY <1>1, HeightInduction
<1> QED
  BY <1>2

\* Of two headers of a chain the lower one is on the chain of the other.
LEMMA ChainLinear ==
  \A x \in Header : \A y, z \in ChainOf[x] : HeightOf[y] <= HeightOf[z] => y \in ChainOf[z]
<1> DEFINE Good == {x \in Header : \A y, z \in ChainOf[x] : HeightOf[y] <= HeightOf[z] => y \in ChainOf[z]}
<1>1. ASSUME NEW x \in Header, \A y \in Header : HeightOf[y] < HeightOf[x] => y \in Good
      PROVE  x \in Good
  <2> SUFFICES ASSUME NEW y \in ChainOf[x], NEW z \in ChainOf[x], HeightOf[y] <= HeightOf[z]
               PROVE  y \in ChainOf[z]
    OBVIOUS
  <2>0. y \in Header /\ z \in Header
    BY ChainBelow
  <2>1. CASE z = x
    BY <2>1
  <2>2. CASE z # x
    <3>1. HeightOf[z] < HeightOf[x]
      BY <2>2, ChainBelow
    <3>2. y # x
      BY <2>0, <3>1, Network
    <3>3. ParentOf[x] # NoHeader /\ y \in ChainOf[ParentOf[x]] /\ z \in ChainOf[ParentOf[x]]
      BY <2>2, <3>2, ChainUnfolds
    <3>4. ParentOf[x] \in Good
      BY <1>1, <3>3, Network
    <3> QED
      BY <3>3, <3>4
  <2> QED
    BY <2>1, <2>2
<1>2. \A x \in Header : x \in Good
  <2> HIDE DEF Good
  <2> QED
    BY <1>1, HeightInduction
<1> QED
  BY <1>2

-----------------------------------------------------------------------------
(* The store and its lanes *)

\* The store starts with the anchor alone.
LEMMA InitCore == Init => Core
<1> SUFFICES ASSUME Init PROVE Core
  OBVIOUS
<1> USE Network DEF Init
<1>1. StoreType
  <2>1. NoEntry \in Entry
    BY DEF NoEntry, Entry
  <2>2. lane \in LaneTable
    BY DEF LaneTable, IdleLane
  <2>3. byHash \in [Header -> Heights \cup {Absent}] /\ at \in [Header -> Entry]
        /\ canon \in [Heights -> Header \cup {NoHeader}]
    BY <2>1
  <2>4. 0 \in Heights
    OBVIOUS
  <2> QED
    BY <2>2, <2>3, <2>4 DEF StoreType
<1>2. Located
  BY DEF Located
<1>3. Indexed
  BY DEF Indexed, IndexSound
<1>4. Carried
  BY DEF Carried, IdleLane
<1> QED
  BY <1>1, <1>2, <1>3, <1>4 DEF Core

\* Reads, the warm-up and the anchor service leave the store and the lanes alone.
LEMMA Elsewhere ==
  ASSUME \/ \E r \in Reader : Read(r)
         \/ \E h \in Heights : WarmOne(h)
         \/ WarmEnd \/ BestMoves
  PROVE  UNCHANGED <<byHash, at, canon, tip, tipH, lowest, historyTop, tracker, lane, delivered, reanchored>>
<1>1. ASSUME NEW r \in Reader, Read(r)
      PROVE  UNCHANGED <<byHash, at, canon, tip, tipH, lowest, historyTop, tracker, lane, delivered, reanchored>>
  <2>1. \E q : ReaderIs(r, q)
    BY <1>1 DEF Read, ReadHeld, ReadAnchor, ReadCached, ReadByHash, ReadTip, FallbackOK, FallbackFail,
                Book, ReadKnown, ReaderTo
  <2> QED
    BY <2>1 DEF ReaderIs, storeVars
<1>2. ASSUME (\E h \in Heights : WarmOne(h)) \/ WarmEnd \/ BestMoves
      PROVE  UNCHANGED <<byHash, at, canon, tip, tipH, lowest, historyTop, tracker, lane, delivered, reanchored>>
  BY <1>2 DEF WarmOne, WarmEnd, BestMoves, storeVars
<1> QED
  BY <1>1, <1>2

-----------------------------------------------------------------------------
(* What the steps of a lane do, pointwise *)

\* One lane moves.
LaneAt(l, pc, x, h) ==
  /\ lane' \in LaneTable
  /\ lane'[l].pc = pc /\ lane'[l].hdr = x /\ lane'[l].h = h
  /\ \A m \in Lane \ {l} : lane'[m] = lane[m]

\* One header is put at its height.
PutAt(x, e) ==
  /\ at' \in [Header -> Entry]
  /\ at'[x] = e /\ at'[x] # NoEntry
  /\ \A y \in Header \ {x} : at'[y] = at[y]
  /\ lowest' \in Heights /\ lowest' <= lowest /\ lowest' <= e.h

\* One header is indexed.
IndexAt(x, h) ==
  /\ byHash' \in [Header -> Heights \cup {Absent}]
  /\ byHash'[x] = h
  /\ \A y \in Header \ {x} : byHash'[y] = byHash[y]

\* A lane goes where it is told.
LEMMA LaneMoves ==
  ASSUME StoreType, NEW l \in Lane, NEW pc \in {"idle", "lookup", "chain", "walk", "learn"},
         NEW x \in Header \cup {NoHeader}, NEW h \in Heights, LaneTo(l, pc, x, h)
  PROVE  LaneAt(l, pc, x, h)
BY DEF StoreType, LaneTable, LaneTo, LaneAt

\* A lane that is done is idle.
LEMMA LaneRests ==
  ASSUME StoreType, NEW l \in Lane, lane' = [lane EXCEPT ![l] = IdleLane]
  PROVE  LaneAt(l, "idle", NoHeader, 0)
<1>1. 0 \in Heights
  BY Network
<1>2. LaneTo(l, "idle", NoHeader, 0)
  BY DEF LaneTo, IdleLane
<1> QED
  BY <1>1, <1>2, LaneMoves

\* putLocked.
LEMMA PutMoves ==
  ASSUME StoreType, NEW x \in Header, NEW e \in Entry, e.h \in Heights, PutLocked(x, e)
  PROVE  PutAt(x, e)
<1>1. e # NoEntry
  BY Network DEF NoEntry
<1>2. /\ at' \in [Header -> Entry] /\ at'[x] = e
      /\ \A y \in Header \ {x} : at'[y] = at[y]
  BY DEF StoreType, PutLocked
<1>3. lowest' \in Heights /\ lowest' <= lowest /\ lowest' <= e.h
  BY Network DEF StoreType, PutLocked
<1> QED
  BY <1>1, <1>2, <1>3 DEF PutAt

\* A re-delivery may only mark an entry as received.
Redelivered(l, x) ==
  /\ CheckWork(x) /\ LockFree /\ lane' = lane /\ delivered' = delivered \cup {x}
  /\ at' \in [Header -> Entry]
  /\ \A y \in Header : /\ at'[y] # NoEntry <=> at[y] # NoEntry
                       /\ at'[y].h = at[y].h /\ at'[y].prev = at[y].prev
                       /\ y # x => at'[y] = at[y]
  /\ UNCHANGED <<byHash, canon, tip, tipH, lowest, historyTop, cache, tracker, reader,
                 warm, best, reanchored>>

\* What Redeliver does.
LEMMA RedeliverMoves ==
  ASSUME Core, NEW l \in Lane, NEW x \in Header, Redeliver(l, x)
  PROVE  Redelivered(l, x)
<1>1. CASE at' = at
  BY <1>1 DEF Redeliver, Arrival, Redelivered, Core, StoreType
<1>2. CASE Held(x, byHash[x]) /\ at' = [at EXCEPT ![x].viaAnchor = FALSE]
  <2>1. at[x] \in Entry /\ at[x] # NoEntry /\ at[x].h # Absent
    BY <1>2, Network DEF Core, StoreType, Located, Held
  <2>2. at'[x] = [at[x] EXCEPT !.viaAnchor = FALSE] /\ \A y \in Header \ {x} : at'[y] = at[y]
    BY <1>2 DEF Core, StoreType
  <2>3. at'[x] \in Entry /\ at'[x].h = at[x].h /\ at'[x].prev = at[x].prev
    BY <2>1, <2>2 DEF Entry
  <2>4. at'[x] # NoEntry
    BY <2>1, <2>3 DEF NoEntry
  <2>5. at' \in [Header -> Entry]
    BY <1>2, <2>2, <2>3 DEF Core, StoreType
  <2> QED
    BY <2>1, <2>2, <2>3, <2>4, <2>5 DEF Redeliver, Arrival, Redelivered
<1> QED
  BY <1>1, <1>2 DEF Redeliver

\* A header waits for its parent's height, or to be looked up.
LEMMA ArrivalMoves ==
  ASSUME Core, NEW l \in Lane, NEW x \in Header, ParentKnown(l, x) \/ ParentUnknown(l, x)
  PROVE  /\ CheckWork(x) /\ LockFree /\ byHash[x] = Absent /\ x # Anchor
         /\ delivered' = delivered \cup {x} /\ lane[l].pc = "idle"
         /\ \/ /\ ParentOf[x] \in Header /\ byHash[ParentOf[x]] # Absent
               /\ LaneAt(l, "chain", x, HeightOf[ParentOf[x]])
            \/ LaneAt(l, "lookup", x, 0)
            \/ lane' = lane
         /\ UNCHANGED <<byHash, at, canon, tip, tipH, lowest, historyTop, cache, tracker, reader,
                        warm, best, reanchored>>
<1>0. /\ CheckWork(x) /\ LockFree /\ byHash[x] = Absent /\ x # Anchor
      /\ delivered' = delivered \cup {x} /\ lane[l].pc = "idle"
      /\ UNCHANGED <<byHash, at, canon, tip, tipH, lowest, historyTop, cache, tracker, reader,
                     warm, best, reanchored>>
  BY DEF ParentKnown, ParentUnknown, Arrival, Core, Indexed
<1>1. CASE ParentKnown(l, x)
  <2>1. /\ ParentOf[x] \in Header /\ byHash[ParentOf[x]] # Absent
        /\ LaneTo(l, "chain", x, byHash[ParentOf[x]])
    BY <1>1, Network DEF ParentKnown
  <2>2. byHash[ParentOf[x]] = HeightOf[ParentOf[x]] /\ HeightOf[ParentOf[x]] \in Heights
    BY <2>1, Network DEF Core, Located
  <2>3. LaneAt(l, "chain", x, HeightOf[ParentOf[x]])
    BY <2>1, <2>2, LaneMoves DEF Core
  <2> QED
    BY <1>0, <2>1, <2>3
<1>2. CASE ParentUnknown(l, x)
  <2>1. CASE UseAnchor
    <3>1. LaneTo(l, "lookup", x, 0)
      BY <1>2, <2>1 DEF ParentUnknown
    <3>2. 0 \in Heights
      BY Network
    <3>3. LaneAt(l, "lookup", x, 0)
      BY <3>1, <3>2, LaneMoves DEF Core
    <3> QED
      BY <1>0, <3>3
  <2>2. CASE ~UseAnchor
    BY <1>0, <1>2, <2>2 DEF ParentUnknown
  <2> QED
    BY <2>1, <2>2
<1> QED
  BY <1>1, <1>2

\* The parent is known by now, or it is re-anchored.
LookedUp(l, x, p) ==
  /\ lane[l].pc = "lookup" /\ LockFree /\ x = lane[l].hdr /\ p = ParentOf[x]
  /\ LaneAt(l, "chain", x, HeightOf[p])
  /\ \/ byHash[p] # Absent /\ UNCHANGED <<byHash, at, lowest, reanchored>>
     \/ /\ byHash[p] = Absent /\ p # Anchor /\ reanchored' = TRUE
        /\ IndexAt(p, HeightOf[p])
        /\ PutAt(p, [h |-> HeightOf[p], prev |-> NoHeader, viaAnchor |-> TRUE])
  /\ UNCHANGED <<canon, tip, tipH, historyTop, cache, tracker, reader, warm, best, delivered>>

\* What LookupOK does.
LEMMA LookupMoves ==
  ASSUME Core, NEW l \in Lane, LookupOK(l)
  PROVE  \E x \in Header \ {Anchor}, p \in Header : LookedUp(l, x, p)
<1>1. PICK x \in Header \ {Anchor} : x = lane[l].hdr
  BY DEF LookupOK, Core, Carried
<1>2. PICK p \in Header : p = ParentOf[x]
  BY <1>1, Network DEF LookupOK
<1>3. /\ lane[l].pc = "lookup" /\ LockFree
      /\ UNCHANGED <<canon, tip, tipH, historyTop, cache, tracker, reader, warm, best, delivered>>
  BY <1>1, <1>2 DEF LookupOK
<1>4. HeightOf[p] \in Heights
  BY Network
<1>5. CASE byHash[p] # Absent
  <2>1. byHash[p] = HeightOf[p]
    BY <1>5 DEF Core, Located
  <2>2. LaneTo(l, "chain", x, HeightOf[p]) /\ UNCHANGED <<byHash, at, lowest, reanchored>>
    BY <1>1, <1>2, <1>5, <2>1 DEF LookupOK
  <2>3. LaneAt(l, "chain", x, HeightOf[p])
    BY <1>4, <2>2, LaneMoves, Zenon DEF Core
  <2> QED
    BY <1>1, <1>2, <1>3, <1>5, <2>2, <2>3 DEF LookedUp
<1>6. CASE byHash[p] = Absent
  <2> DEFINE e == [h |-> HeightOf[p], prev |-> NoHeader, viaAnchor |-> TRUE]
  <2>1. /\ LaneTo(l, "chain", x, HeightOf[p]) /\ reanchored' = TRUE
        /\ byHash' = [byHash EXCEPT ![p] = HeightOf[p]] /\ PutLocked(p, e)
    BY <1>1, <1>2, <1>6 DEF LookupOK
  <2>2. LaneAt(l, "chain", x, HeightOf[p])
    BY <1>4, <2>1, LaneMoves DEF Core
  <2>3. e \in Entry /\ e.h = HeightOf[p]
    BY <1>4 DEF Entry
  <2>4. PutAt(p, e)
    <3> HIDE DEF e
    <3> QED
      BY <1>4, <2>1, <2>3, PutMoves DEF Core
  <2>5. IndexAt(p, HeightOf[p])
    BY <1>4, <2>1 DEF Core, StoreType, IndexAt
  <2>6. p # Anchor
    BY <1>6, Zenon DEF Core, Indexed
  <2> QED
    BY <1>1, <1>2, <1>3, <1>6, <2>1, <2>2, <2>4, <2>5, <2>6 DEF LookedUp
<1> QED
  BY <1>5, <1>6

\* A header takes its place one above its parent.
Chained(l, x, h) ==
  /\ lane[l].pc = "chain" /\ LockFree /\ x = lane[l].hdr
  /\ h = HeightOf[x] /\ h = lane[l].h + 1 /\ ParentOf[x] \in Header /\ lane[l].h = HeightOf[ParentOf[x]]
  /\ x \in delivered /\ CheckWork(x)
  /\ IndexAt(x, h)
  /\ PutAt(x, [h |-> h, prev |-> ParentOf[x], viaAnchor |-> FALSE])
  /\ \/ MovesTip(x, h) /\ tip' = x /\ tipH' = h /\ LaneAt(l, "walk", x, h)
     \/ ~MovesTip(x, h) /\ tip' = tip /\ tipH' = tipH /\ LaneAt(l, "idle", NoHeader, 0)
  /\ UNCHANGED <<canon, historyTop, cache, tracker, reader, warm, best, delivered, reanchored>>

\* What Chain does.
LEMMA ChainMoves ==
  ASSUME Core, NEW l \in Lane, Chain(l)
  PROVE  \E x \in Header \ {Anchor}, h \in Heights : Chained(l, x, h)
<1>1. PICK x \in Header \ {Anchor} : x = lane[l].hdr
  BY DEF Chain, Core, Carried
<1>2. /\ lane[l].pc = "chain" /\ LockFree /\ x \in delivered /\ CheckWork(x)
      /\ ParentOf[x] \in Header /\ lane[l].h = HeightOf[ParentOf[x]]
  BY <1>1, Network DEF Chain, Core, Carried
<1>3. PICK h \in Heights : h = HeightOf[x] /\ h = lane[l].h + 1
  BY <1>2, Network
<1> DEFINE e == [h |-> h, prev |-> ParentOf[x], viaAnchor |-> FALSE]
<1>4. /\ byHash' = [byHash EXCEPT ![x] = h] /\ PutLocked(x, e)
      /\ \/ MovesTip(x, h) /\ tip' = x /\ tipH' = h /\ LaneTo(l, "walk", x, h)
         \/ ~MovesTip(x, h) /\ tip' = tip /\ tipH' = tipH /\ lane' = [lane EXCEPT ![l] = IdleLane]
      /\ UNCHANGED <<canon, historyTop, cache, tracker, reader, warm, best, delivered, reanchored>>
  BY <1>1, <1>3 DEF Chain, ChildHeight
<1>5. e \in Entry /\ e.h = h
  BY <1>2 DEF Entry
<1>6. PutAt(x, e)
  <2> HIDE DEF e
  <2> QED
    BY <1>4, <1>5, PutMoves DEF Core
<1>7. IndexAt(x, h)
  BY <1>4 DEF Core, StoreType, IndexAt
<1>8. /\ LaneTo(l, "walk", x, h) => LaneAt(l, "walk", x, h)
      /\ lane' = [lane EXCEPT ![l] = IdleLane] => LaneAt(l, "idle", NoHeader, 0)
  BY LaneMoves, LaneRests DEF Core
<1> QED
  BY <1>1, <1>2, <1>3, <1>4, <1>6, <1>7, <1>8 DEF Chained

\* The walk writes one height and goes to the parent.
Stepped(l, x, p, h) ==
  /\ lane[l].pc = "walk" /\ x = lane[l].hdr /\ h = lane[l].h /\ h = HeightOf[x] /\ byHash[x] # Absent
  /\ at[x] # NoEntry /\ p = at[x].prev /\ p = ParentOf[x] /\ h - 1 \in Heights /\ h - 1 = HeightOf[p]
  /\ byHash[p] # Absent
  /\ canon' \in [Heights -> Header \cup {NoHeader}]
  /\ canon'[h] = x /\ \A k \in Heights \ {h} : canon'[k] = canon[k]
  /\ LaneAt(l, "walk", p, h - 1)
  /\ UNCHANGED <<byHash, at, tip, tipH, lowest, historyTop, cache, tracker, reader,
                 warm, best, delivered, reanchored>>

\* What RecanonStep does.
LEMMA StepMoves ==
  ASSUME Core, NEW l \in Lane, RecanonStep(l)
  PROVE  \E x, p \in Header, h \in Heights : Stepped(l, x, p, h)
<1>1. PICK x \in Header, h \in Heights : x = lane[l].hdr /\ h = lane[l].h /\ h = HeightOf[x] /\ byHash[x] # Absent
  BY Network DEF RecanonStep, Core, Carried
<1>2. /\ lane[l].pc = "walk" /\ at[x] # NoEntry /\ at[x].prev # NoHeader /\ h > 0
      /\ byHash[at[x].prev] = h - 1
      /\ canon' = [canon EXCEPT ![h] = x] /\ LaneTo(l, "walk", at[x].prev, h - 1)
      /\ UNCHANGED <<byHash, at, tip, tipH, lowest, historyTop, cache, tracker, reader,
                     warm, best, delivered, reanchored>>
  BY <1>1 DEF RecanonStep, WalkGoesOn, Held
<1>3. PICK p \in Header : p = at[x].prev /\ p = ParentOf[x]
  BY <1>2, Network DEF Core, Located
<1>4. h - 1 \in Heights /\ h - 1 = HeightOf[p] /\ byHash[p] # Absent
  <2>1. h = HeightOf[p] + 1
    BY <1>1, <1>3, Network
  <2> QED
    BY <1>2, <1>3, <2>1, Network
<1>5. LaneAt(l, "walk", p, h - 1)
  BY <1>2, <1>3, <1>4, LaneMoves DEF Core
<1>6. /\ canon' \in [Heights -> Header \cup {NoHeader}]
      /\ canon'[h] = x /\ \A k \in Heights \ {h} : canon'[k] = canon[k]
  BY <1>2 DEF Core, StoreType
<1> QED
  BY <1>1, <1>2, <1>3, <1>4, <1>5, <1>6 DEF Stepped

\* The walk writes one height more, and what is below the window goes.
Ended(l, x, h) ==
  /\ lane[l].pc = "walk" /\ x = lane[l].hdr /\ h = lane[l].h /\ h = HeightOf[x] /\ byHash[x] # Absent
  /\ ~(canon[h] # x /\ WalkGoesOn(x, h))
  /\ Pruned \subseteq Heights
  /\ byHash' \in [Header -> Heights \cup {Absent}] /\ at' \in [Header -> Entry]
  /\ canon' \in [Heights -> Header \cup {NoHeader}]
  /\ \A y \in Header :
       IF at[y] # NoEntry /\ HeightOf[y] \in Pruned
       THEN byHash'[y] = Absent /\ at'[y] = NoEntry
       ELSE byHash'[y] = byHash[y] /\ at'[y] = at[y]
  /\ \A k \in Heights : canon'[k] = IF k \in Pruned THEN NoHeader ELSE IF k = h THEN x ELSE canon[k]
  /\ \/ Pruned = {} /\ lowest' = lowest
     \/ Pruned # {} /\ lowest' = tipH - Window
  /\ lowest' \in Heights /\ historyTop' = HistoryTopAfter(tipH - Window) /\ historyTop' \in Heights
  /\ LaneAt(l, "learn", NoHeader, tipH)
  /\ UNCHANGED <<tip, tipH, cache, tracker, reader, warm, best, delivered, reanchored>>

\* What RecanonEnd does.
LEMMA EndMoves ==
  ASSUME Core, NEW l \in Lane, RecanonEnd(l)
  PROVE  \E x \in Header, h \in Heights : Ended(l, x, h)
<1>1. PICK x \in Header, h \in Heights : x = lane[l].hdr /\ h = lane[l].h /\ h = HeightOf[x] /\ byHash[x] # Absent
  BY Network DEF RecanonEnd, Core, Carried
<1>2. /\ lane[l].pc = "walk" /\ ~(canon[h] # x /\ WalkGoesOn(x, h))
      /\ PruneLocked([canon EXCEPT ![h] = x]) /\ LaneTo(l, "learn", NoHeader, tipH)
      /\ UNCHANGED <<tip, tipH, cache, tracker, reader, warm, best, delivered, reanchored>>
  BY <1>1 DEF RecanonEnd
<1>3. LaneAt(l, "learn", NoHeader, tipH)
  BY <1>2, LaneMoves DEF Core, StoreType
<1>4. /\ tipH \in Heights /\ lowest \in Heights /\ historyTop \in Heights
      /\ byHash \in [Header -> Heights \cup {Absent}] /\ at \in [Header -> Entry]
      /\ canon \in [Heights -> Header \cup {NoHeader}]
  BY DEF Core, StoreType
<1>5. Pruned \subseteq Heights /\ (Pruned # {} => tipH - Window \in Heights)
  BY <1>4, Network DEF Pruned
<1>6. /\ byHash' = [y \in Header |-> IF at[y] # NoEntry /\ at[y].h \in Pruned THEN Absent ELSE byHash[y]]
      /\ at' = [y \in Header |-> IF at[y] # NoEntry /\ at[y].h \in Pruned THEN NoEntry ELSE at[y]]
      /\ canon' = [k \in Heights |-> IF k \in Pruned THEN NoHeader ELSE [canon EXCEPT ![h] = x][k]]
      /\ lowest' = IF Pruned = {} THEN lowest ELSE tipH - Window
      /\ historyTop' = HistoryTopAfter(tipH - Window)
  BY <1>2 DEF PruneLocked
<1>7. \A y \in Header :
        IF at[y] # NoEntry /\ HeightOf[y] \in Pruned
        THEN byHash'[y] = Absent /\ at'[y] = NoEntry
        ELSE byHash'[y] = byHash[y] /\ at'[y] = at[y]
  BY <1>6 DEF Core, Located
<1>8. NoEntry \in Entry
  BY Network DEF NoEntry, Entry
<1>9. byHash' \in [Header -> Heights \cup {Absent}] /\ at' \in [Header -> Entry]
  BY <1>4, <1>6, <1>8
<1>10. \A k \in Heights : canon'[k] = IF k \in Pruned THEN NoHeader ELSE IF k = h THEN x ELSE canon[k]
  BY <1>4, <1>6
<1>11. canon' \in [Heights -> Header \cup {NoHeader}]
  BY <1>4, <1>6
<1>12. historyTop' \in Heights
  BY <1>4, <1>6, Network, HeightBelowIs DEF HistoryTopAfter, AtLeast
<1> QED
  BY <1>1, <1>2, <1>3, <1>4, <1>5, <1>6, <1>7, <1>9, <1>10, <1>11, <1>12 DEF Ended

-----------------------------------------------------------------------------
(* Heights, the index and what lanes carry *)

\* A lane that is done with its header, or walks from a known one, disturbs no
\* other.
LEMMA CarriedOn ==
  ASSUME Carried, NEW l \in Lane, delivered \subseteq delivered',
         \A m \in Lane \ {l} : lane'[m] = lane[m] /\ lane'[m].pc # "walk",
         \/ lane'[l].pc \in {"idle", "learn"}
         \/ /\ lane'[l].pc = "walk" /\ lane'[l].hdr \in Header
            /\ lane'[l].h = HeightOf[lane'[l].hdr] /\ byHash'[lane'[l].hdr] # Absent
  PROVE  Carried'
<1>1. ASSUME NEW m \in Lane
      PROVE  /\ lane'[m].pc \in {"lookup", "chain"} =>
                  lane'[m].hdr \in Header \ {Anchor} /\ lane'[m].hdr \in delivered' /\ CheckWork(lane'[m].hdr)
             /\ lane'[m].pc = "chain" =>
                  ParentOf[lane'[m].hdr] # NoHeader /\ lane'[m].h = HeightOf[ParentOf[lane'[m].hdr]]
             /\ lane'[m].pc = "walk" =>
                  lane'[m].hdr \in Header /\ lane'[m].h = HeightOf[lane'[m].hdr] /\ byHash'[lane'[m].hdr] # Absent
  <2>1. CASE m = l
    BY <2>1
  <2>2. CASE m # l
    BY <2>2 DEF Carried
  <2> QED
    BY <2>1, <2>2
<1>2. \A m, n \in Lane : lane'[m].pc = "walk" /\ lane'[n].pc = "walk" => m = n
  OBVIOUS
<1> QED
  BY <1>1, <1>2 DEF Carried

\* A header of too little work is dropped.
LEMMA RejectCore ==
  ASSUME Core, NEW l \in Lane, NEW x \in Header, Reject(l, x)
  PROVE  Core'
<1> USE Network DEF Reject, Arrival
<1>1. StoreType'
  BY DEF Core, StoreType, Entry
<1>2. Located'
  BY DEF Core, StoreType, Located
<1>3. Indexed'
  BY DEF Core, StoreType, Located, Indexed, IndexSound
<1>4. Carried'
  BY DEF Core, StoreType, Located, Indexed, Carried, LockFree
<1> QED
  BY <1>1, <1>2, <1>3, <1>4 DEF Core

\* A header is delivered again.
LEMMA RedeliverCore ==
  ASSUME Core, NEW l \in Lane, NEW x \in Header, Redeliver(l, x)
  PROVE  Core'
<1>0. Redelivered(l, x)
  BY RedeliverMoves
<1> USE <1>0, Network DEF Redelivered
<1>1. StoreType'
  BY DEF Core, StoreType, Entry
<1>2. Located'
  BY DEF Core, StoreType, Located
<1>3. Indexed'
  BY DEF Core, StoreType, Located, Indexed, IndexSound
<1>4. Carried'
  BY DEF Core, StoreType, Located, Indexed, Carried, LockFree
<1> QED
  BY <1>1, <1>2, <1>3, <1>4 DEF Core

\* A header waits for its parent.
LEMMA ArriveCore ==
  ASSUME Core, NEW l \in Lane, NEW x \in Header, ParentKnown(l, x) \/ ParentUnknown(l, x)
  PROVE  Core'
<1>0. /\ CheckWork(x) /\ LockFree /\ byHash[x] = Absent /\ x # Anchor
      /\ delivered' = delivered \cup {x} /\ lane[l].pc = "idle"
      /\ \/ /\ ParentOf[x] \in Header /\ byHash[ParentOf[x]] # Absent
            /\ LaneAt(l, "chain", x, HeightOf[ParentOf[x]])
         \/ LaneAt(l, "lookup", x, 0)
         \/ lane' = lane
      /\ UNCHANGED <<byHash, at, canon, tip, tipH, lowest, historyTop, cache, tracker, reader,
                     warm, best, reanchored>>
  BY ArrivalMoves
<1> USE <1>0, Network DEF LaneAt
<1>1. StoreType'
  BY DEF Core, StoreType, Entry
<1>2. Located'
  BY DEF Core, StoreType, Located
<1>3. Indexed'
  BY DEF Core, StoreType, Located, Indexed, IndexSound
<1>4. Carried'
  <2>1. \A m \in Lane : lane[m].pc # "walk"
    BY DEF LockFree
  <2>2. \A m \in Lane \ {l} : lane'[m] = lane[m]
    OBVIOUS
  <2>3. /\ lane'[l].pc \in {"idle", "chain", "lookup"} /\ (lane'[l].pc # "idle" => lane'[l].hdr = x)
        /\ lane'[l].pc = "chain" => ParentOf[x] # NoHeader /\ lane'[l].h = HeightOf[ParentOf[x]]
    OBVIOUS
  <2>4. x \in Header \ {Anchor} /\ CheckWork(x) /\ x \in delivered' /\ delivered \subseteq delivered'
    OBVIOUS
  <2> HIDE <1>0
  <2> QED
    BY <2>1, <2>2, <2>3, <2>4 DEF Core, Carried
<1> QED
  BY <1>1, <1>2, <1>3, <1>4 DEF Core

\* The anchor answers for a parent.
LEMMA LookupOKCore ==
  ASSUME Core, NEW l \in Lane, LookupOK(l)
  PROVE  Core'
<1>0. PICK x \in Header \ {Anchor}, p \in Header : LookedUp(l, x, p)
  BY LookupMoves
<1> USE <1>0, Network DEF LookedUp, LaneAt, IndexAt, PutAt
<1>1. StoreType'
  BY DEF Core, StoreType, Entry
<1>2. Located'
  BY DEF Core, StoreType, Located
<1>3. Indexed'
  <2>1. CASE byHash[p] # Absent
    BY <2>1 DEF Core, StoreType, Located, Indexed, IndexSound
  <2>2. CASE byHash[p] = Absent
    <3>1. at'[p].h = HeightOf[p] /\ byHash'[p] = HeightOf[p] /\ lowest' <= lowest /\ lowest' <= HeightOf[p]
      BY <2>2
    <3>2. \A y \in Header \ {p} : at'[y] = at[y] /\ byHash'[y] = byHash[y]
      BY <2>2
    <3>3. \A y \in Header : at[y] # NoEntry => at[y].h \in Int
      BY DEF Core, Located
    <3>4. lowest \in Int /\ lowest' \in Int
      BY <2>2 DEF Core, StoreType
    <3>5. \A y \in Header : at'[y] # NoEntry => byHash'[y] = at'[y].h /\ at'[y].h >= lowest'
      BY <3>1, <3>2, <3>3, <3>4 DEF Core, Indexed, IndexSound
    <3>6. \A y \in Header : byHash'[y] # Absent => at'[y] # NoEntry \/ y = Anchor
      BY <2>2, <3>2 DEF Core, Indexed, IndexSound
    <3>7. byHash'[Anchor] # Absent /\ at'[Anchor] = NoEntry
      BY <2>2, <3>2 DEF Core, Indexed
    <3>8. ASSUME NEW k \in Heights, canon[k] # NoHeader PROVE byHash'[canon[k]] # Absent
      <4>1. canon[k] \in Header /\ byHash[canon[k]] # Absent
        BY <3>8 DEF Core, StoreType, Indexed
      <4> HIDE <1>0
      <4>2. HeightOf[p] # Absent
        BY Network, Zenon
      <4> QED
        BY <3>1, <3>2, <4>1, <4>2
    <3> QED
      BY <3>5, <3>6, <3>7, <3>8 DEF Indexed, IndexSound
  <2> QED
    BY <2>1, <2>2
<1>4. Carried'
  <2>1. \A m \in Lane \ {l} : lane'[m] = lane[m]
    OBVIOUS
  <2>2. lane'[l].pc = "chain" /\ lane'[l].hdr = x /\ lane'[l].h = HeightOf[p] /\ p = ParentOf[x]
    OBVIOUS
  <2>3. x \in delivered' /\ CheckWork(x)
    BY DEF Core, Carried
  <2>4. \A y \in Header : byHash[y] # Absent => byHash'[y] # Absent
    OBVIOUS
  <2>5. \A m \in Lane : lane'[m].pc # "walk"
    BY <2>1, <2>2 DEF LockFree
  <2> QED
    BY <2>1, <2>2, <2>3, <2>5 DEF Core, Carried
<1> QED
  BY <1>1, <1>2, <1>3, <1>4 DEF Core

\* The anchor does not.
LEMMA LookupFailCore ==
  ASSUME Core, NEW l \in Lane, LookupFail(l)
  PROVE  Core'
<1>0. LaneAt(l, "idle", NoHeader, 0)
  BY LaneRests DEF LookupFail, Core
<1> USE <1>0, Network DEF LookupFail, storeVars, LaneAt
<1>1. StoreType'
  BY DEF Core, StoreType, Entry
<1>2. Located'
  BY DEF Core, StoreType, Located
<1>3. Indexed'
  BY DEF Core, StoreType, Located, Indexed, IndexSound
<1>4. Carried'
  BY DEF Core, StoreType, Located, Indexed, Carried, LockFree
<1> QED
  BY <1>1, <1>2, <1>3, <1>4 DEF Core

\* A header takes its place.
LEMMA ChainCore ==
  ASSUME Core, NEW l \in Lane, Chain(l)
  PROVE  Core'
<1>0. PICK x \in Header \ {Anchor}, h \in Heights : Chained(l, x, h)
  BY ChainMoves
<1>9. /\ h \in Int /\ h # Absent /\ h = HeightOf[x] /\ byHash'[x] = h
      /\ at'[x].h = h /\ at'[x].prev = ParentOf[x] /\ at'[x] # NoEntry /\ lowest' <= lowest /\ lowest' <= h
      /\ \A y \in Header \ {x} : at'[y] = at[y] /\ byHash'[y] = byHash[y]
      /\ canon' = canon /\ delivered' = delivered /\ LockFree
  BY <1>0, Network DEF Chained, IndexAt, PutAt
<1>10. /\ \A m \in Lane \ {l} : lane'[m] = lane[m]
       /\ lane'[l].pc = "idle" \/ (lane'[l].pc = "walk" /\ lane'[l].hdr = x /\ lane'[l].h = h)
  BY <1>0 DEF Chained, LaneAt
<1>1. StoreType'
  BY <1>0 DEF Chained, LaneAt, IndexAt, PutAt, Core, StoreType
<1>2. Located'
  <2>1. \A y \in Header : byHash'[y] # Absent => byHash'[y] = HeightOf[y]
    BY <1>9 DEF Core, Located
  <2>2. \A y \in Header : at'[y] # NoEntry => at'[y].h = HeightOf[y] /\ at'[y].prev \in {ParentOf[y], NoHeader}
    BY <1>9 DEF Core, Located
  <2> QED
    BY <1>9, <2>1, <2>2 DEF Core, Located
<1>3. Indexed'
  <2>3. \A y \in Header : at[y] # NoEntry => at[y].h \in Int
    BY Network DEF Core, Located
  <2>4. lowest \in Int /\ lowest' \in Int
    BY <1>1, Network DEF Core, StoreType
  <2>5. \A y \in Header : at'[y] # NoEntry => byHash'[y] = at'[y].h /\ at'[y].h >= lowest'
    BY <1>9, <2>3, <2>4 DEF Core, Indexed, IndexSound
  <2>6. \A y \in Header : byHash'[y] # Absent => at'[y] # NoEntry \/ y = Anchor
    BY <1>9 DEF Core, Indexed, IndexSound
  <2>7. byHash'[Anchor] # Absent /\ at'[Anchor] = NoEntry
    BY <1>9, Network DEF Core, Indexed
  <2>8. ASSUME NEW k \in Heights, canon[k] # NoHeader PROVE byHash'[canon[k]] # Absent
    <3>1. canon[k] \in Header /\ byHash[canon[k]] # Absent
      BY <2>8 DEF Core, StoreType, Indexed
    <3> QED
      BY <1>9, <3>1
  <2> QED
    BY <1>9, <2>5, <2>6, <2>7, <2>8 DEF Indexed, IndexSound
<1>4. Carried'
  <2>1. \A m \in Lane \ {l} : lane'[m] = lane[m] /\ lane'[m].pc # "walk"
    BY <1>9, <1>10 DEF LockFree
  <2> QED
    BY <1>9, <1>10, <2>1, CarriedOn DEF Core
<1> QED
  BY <1>1, <1>2, <1>3, <1>4 DEF Core

\* The walk goes on.
LEMMA RecanonStepCore ==
  ASSUME Core, NEW l \in Lane, RecanonStep(l)
  PROVE  Core'
<1>0. PICK x \in Header, p \in Header, h \in Heights : Stepped(l, x, p, h)
  BY StepMoves
<1> USE <1>0, Network DEF Stepped, LaneAt
<1>1. StoreType'
  BY DEF Core, StoreType, Entry
<1>2. Located'
  <2>1. \A k \in Heights : canon'[k] # NoHeader => HeightOf[canon'[k]] = k
    BY DEF Core, Located
  <2> QED
    BY <2>1 DEF Core, Located
<1>3. Indexed'
  BY DEF Core, StoreType, Located, Indexed, IndexSound
<1>4. Carried'
  <2>1. \A m \in Lane \ {l} : lane'[m] = lane[m]
    OBVIOUS
  <2>2. \A m \in Lane \ {l} : lane'[m].pc # "walk"
    BY <2>1 DEF Core, Carried
  <2>3. lane'[l].pc = "walk" /\ lane'[l].hdr = p /\ lane'[l].h = HeightOf[p] /\ byHash'[p] # Absent
    OBVIOUS
  <2>4. byHash' = byHash /\ delivered' = delivered
    OBVIOUS
  <2>5. \A m \in Lane \ {l} : lane'[m].pc \in {"lookup", "chain"} =>
            lane'[m].hdr \in Header \ {Anchor} /\ lane'[m].hdr \in delivered' /\ CheckWork(lane'[m].hdr)
    BY <2>1, <2>4 DEF Core, Carried
  <2>6. \A m \in Lane \ {l} : lane'[m].pc = "chain" =>
            ParentOf[lane'[m].hdr] # NoHeader /\ lane'[m].h = HeightOf[ParentOf[lane'[m].hdr]]
    BY <2>1 DEF Core, Carried
  <2> QED
    BY <2>2, <2>3, <2>5, <2>6 DEF Carried
<1> QED
  BY <1>1, <1>2, <1>3, <1>4 DEF Core

\* The walk ends, and the store is pruned.
LEMMA RecanonEndCore ==
  ASSUME Core, NEW l \in Lane, RecanonEnd(l)
  PROVE  Core'
<1>0. PICK x \in Header, h \in Heights : Ended(l, x, h)
  BY EndMoves
<1> USE <1>0, Network DEF Ended, LaneAt
<1>1. StoreType'
  BY DEF Core, StoreType, Entry
<1>2. Located'
  <2>1. /\ \A y \in Header : byHash'[y] # Absent => byHash'[y] = byHash[y]
        /\ \A y \in Header : at'[y] # NoEntry => at'[y] = at[y]
        /\ \A k \in Heights : canon'[k] # NoHeader => canon'[k] = canon[k] \/ (k = h /\ canon'[k] = x)
        /\ h = HeightOf[x]
    OBVIOUS
  <2> HIDE <1>0
  <2> QED
    BY <2>1 DEF Core, Located
<1>3. Indexed'
  <2>1. \A y \in Header : at'[y] # NoEntry => at[y] # NoEntry /\ at'[y] = at[y] /\ byHash'[y] = byHash[y] /\ HeightOf[y] \notin Pruned
    OBVIOUS
  <2>2. \A y \in Header : at'[y] # NoEntry => at'[y].h = HeightOf[y]
    BY <2>1 DEF Core, Located
  <2>3. \A y \in Header : at'[y] # NoEntry => byHash'[y] = at'[y].h /\ HeightOf[y] >= lowest
    BY <2>1, <2>2 DEF Core, Indexed, IndexSound
  <2>4. \A n \in Heights : n >= lowest /\ n \notin Pruned => n >= lowest'
    BY DEF Core, StoreType, Pruned
  <2>5. \A y \in Header : at'[y] # NoEntry => at'[y].h >= lowest'
    BY <2>1, <2>2, <2>3, <2>4
  <2>6. \A y \in Header : byHash'[y] # Absent => at'[y] # NoEntry \/ y = Anchor
    BY DEF Core, Indexed, IndexSound
  <2>7. byHash'[Anchor] # Absent /\ at'[Anchor] = NoEntry
    BY DEF Core, Indexed
  <2>8. ASSUME NEW k \in Heights, canon'[k] # NoHeader PROVE byHash'[canon'[k]] # Absent
    <3>1. k \notin Pruned /\ canon'[k] \in Header /\ HeightOf[canon'[k]] = k /\ byHash[canon'[k]] # Absent
      BY <2>8 DEF Core, Located, Indexed, StoreType
    <3> QED
      BY <3>1
  <2> QED
    BY <2>3, <2>5, <2>6, <2>7, <2>8 DEF Indexed, IndexSound
<1>4. Carried'
  <2>1. \A m \in Lane \ {l} : lane'[m] = lane[m]
    OBVIOUS
  <2>2. \A m \in Lane \ {l} : lane'[m].pc # "walk"
    BY <2>1 DEF Core, Carried
  <2>3. lane'[l].pc = "learn" /\ delivered' = delivered
    OBVIOUS
  <2> HIDE <1>0 DEF Ended
  <2> QED
    BY <2>1, <2>2, <2>3, CarriedOn DEF Core
<1> QED
  BY <1>1, <1>2, <1>3, <1>4 DEF Core

\* The tracker is told of a tip.
LEMMA LearnCore ==
  ASSUME Core, NEW l \in Lane, Learn(l)
  PROVE  Core'
<1>0. LaneAt(l, "idle", NoHeader, 0)
  BY LaneRests DEF Learn, Core
<1> USE <1>0, Network DEF Learn, AtLeast, storeVars, LaneAt
<1>1. StoreType'
  <2>1. tracker' \in Heights
    BY DEF Core, StoreType, LaneTable
  <2> QED
    BY <2>1 DEF Core, StoreType
<1>2. Located'
  BY DEF Core, StoreType, Located
<1>3. Indexed'
  BY DEF Core, StoreType, Located, Indexed, IndexSound
<1>4. Carried'
  BY DEF Core, StoreType, Located, Indexed, Carried, LockFree
<1> QED
  BY <1>1, <1>2, <1>3, <1>4 DEF Core

\* The store and its lanes keep to the first layer.
LEMMA CoreInvariance == Spec => []Core
<1>1. ASSUME Core, [Next]_vars PROVE Core'
  <2>1. CASE \E l \in Lane : Observe(l)
    BY <1>1, <2>1, RejectCore, RedeliverCore, ArriveCore, LookupOKCore, LookupFailCore, ChainCore,
       RecanonStepCore, RecanonEndCore, LearnCore DEF Observe
  <2>2. CASE UNCHANGED <<byHash, at, canon, tip, tipH, lowest, historyTop, tracker, lane, delivered, reanchored>>
    BY <1>1, <2>2 DEF Core, StoreType, Located, Indexed, IndexSound, Carried
  <2> QED
    BY <1>1, <2>1, <2>2, Elsewhere DEF Next, vars
<1> QED
  BY <1>1, InitCore, PTL DEF Spec

-----------------------------------------------------------------------------
(* The tip and the tracker *)

\* A header of too little work is dropped.
LEMMA RejectTips ==
  ASSUME Core, Core', Tips, NEW l \in Lane, NEW x \in Header, Reject(l, x)
  PROVE  Tips'
<1> USE Network DEF Reject, Arrival
<1>1. TipKnown'
  BY DEF Core, StoreType, Located, Indexed, Carried, LaneTable, LockFree, Tips, TipKnown
<1>2. TrackerBehind'
  BY DEF Core, StoreType, Located, Indexed, Carried, LaneTable, LockFree, Tips, TrackerBehind
<1>3. NothingHigher'
  BY DEF Core, StoreType, Located, Indexed, Carried, LaneTable, LockFree, Tips, NothingHigher
<1>4. TipHeard'
  BY DEF Core, StoreType, Located, Indexed, Carried, LaneTable, LockFree, Tips, TipHeard
<1> QED
  BY <1>1, <1>2, <1>3, <1>4 DEF Tips

\* A header is delivered again.
LEMMA RedeliverTips ==
  ASSUME Core, Core', Tips, NEW l \in Lane, NEW x \in Header, Redeliver(l, x)
  PROVE  Tips'
<1>0. Redelivered(l, x)
  BY RedeliverMoves
<1> USE <1>0, Network DEF Redelivered
<1>1. TipKnown'
  BY DEF Core, StoreType, Located, Indexed, Carried, LaneTable, LockFree, Tips, TipKnown
<1>2. TrackerBehind'
  BY DEF Core, StoreType, Located, Indexed, Carried, LaneTable, LockFree, Tips, TrackerBehind
<1>3. NothingHigher'
  BY DEF Core, StoreType, Located, Indexed, Carried, LaneTable, LockFree, Tips, NothingHigher
<1>4. TipHeard'
  BY DEF Core, StoreType, Located, Indexed, Carried, LaneTable, LockFree, Tips, TipHeard
<1> QED
  BY <1>1, <1>2, <1>3, <1>4 DEF Tips

\* A header waits for its parent.
LEMMA ArriveTips ==
  ASSUME Core, Core', Tips, NEW l \in Lane, NEW x \in Header, ParentKnown(l, x) \/ ParentUnknown(l, x)
  PROVE  Tips'
<1>0. /\ CheckWork(x) /\ LockFree /\ byHash[x] = Absent /\ x # Anchor
      /\ delivered' = delivered \cup {x} /\ lane[l].pc = "idle"
      /\ \/ /\ ParentOf[x] \in Header /\ byHash[ParentOf[x]] # Absent
            /\ LaneAt(l, "chain", x, HeightOf[ParentOf[x]])
         \/ LaneAt(l, "lookup", x, 0)
         \/ lane' = lane
      /\ UNCHANGED <<byHash, at, canon, tip, tipH, lowest, historyTop, cache, tracker, reader,
                     warm, best, reanchored>>
  BY ArrivalMoves
<1> USE <1>0, Network DEF LaneAt
<1>1. TipKnown'
  BY DEF Core, StoreType, Located, Indexed, Carried, LaneTable, LockFree, Tips, TipKnown
<1>2. TrackerBehind'
  <2>1. \A m \in Lane : lane'[m].pc = "learn" => lane'[m] = lane[m]
    OBVIOUS
  <2>2. tipH' = tipH /\ tracker' = tracker
    OBVIOUS
  <2> HIDE <1>0
  <2> QED
    BY <2>1, <2>2 DEF Tips, TrackerBehind
<1>3. NothingHigher'
  <2>1. \A m \in Lane : lane[m].pc = "chain" => lane'[m] = lane[m]
    OBVIOUS
  <2>2. at' = at /\ tipH' = tipH
    OBVIOUS
  <2> HIDE <1>0
  <2> QED
    BY <2>1, <2>2 DEF Tips, NothingHigher
<1>4. TipHeard'
  <2>1. \A m \in Lane : lane[m].pc \in {"walk", "learn"} => lane'[m] = lane[m]
    OBVIOUS
  <2> QED
    BY <2>1 DEF Tips, TipHeard
<1> QED
  BY <1>1, <1>2, <1>3, <1>4 DEF Tips

\* The anchor answers for a parent.
LEMMA LookupOKTips ==
  ASSUME Core, Core', Tips, NEW l \in Lane, LookupOK(l)
  PROVE  Tips'
<1>0. PICK x \in Header \ {Anchor}, p \in Header : LookedUp(l, x, p)
  BY LookupMoves
<1> USE <1>0, Network DEF LookedUp, LaneAt, IndexAt, PutAt
<1>1. TipKnown'
  BY DEF Core, StoreType, Located, Indexed, Carried, LaneTable, LockFree, Tips, TipKnown
<1>2. TrackerBehind'
  <2>1. \A m \in Lane : lane'[m].pc = "learn" => lane'[m] = lane[m]
    OBVIOUS
  <2> QED
    BY <2>1 DEF Tips, TrackerBehind
<1>3. NothingHigher'
  <2>1. \A m \in Lane : lane[m].pc = "chain" => lane'[m] = lane[m]
    OBVIOUS
  <2>2. lane'[l].pc = "chain" /\ lane'[l].h = HeightOf[p] /\ tipH' = tipH
    OBVIOUS
  <2>3. \A y \in Header : at'[y] # NoEntry => at[y] # NoEntry \/ y = p
    OBVIOUS
  <2>4. ASSUME NEW y \in Header, at'[y] # NoEntry
        PROVE  HeightOf[y] <= tipH' \/ \E m \in Lane : lane'[m].pc = "chain" /\ HeightOf[y] <= lane'[m].h
    <3>1. CASE y = p
      BY <2>2, <3>1
    <3>2. CASE at[y] # NoEntry
      <4>1. HeightOf[y] <= tipH \/ \E m \in Lane : lane[m].pc = "chain" /\ HeightOf[y] <= lane[m].h
        BY <3>2 DEF Tips, NothingHigher
      <4> QED
        BY <2>1, <2>2, <4>1
    <3> QED
      BY <2>3, <2>4, <3>1, <3>2
  <2> QED
    BY <2>4 DEF NothingHigher
<1>4. TipHeard'
  <2>1. \A m \in Lane : lane[m].pc \in {"walk", "learn"} => lane'[m] = lane[m]
    OBVIOUS
  <2>2. tip' = tip /\ tipH' = tipH /\ tracker' = tracker
    OBVIOUS
  <2> HIDE <1>0
  <2> QED
    BY <2>1, <2>2 DEF Tips, TipHeard
<1> QED
  BY <1>1, <1>2, <1>3, <1>4 DEF Tips

\* The anchor does not.
LEMMA LookupFailTips ==
  ASSUME Core, Core', Tips, NEW l \in Lane, LookupFail(l)
  PROVE  Tips'
<1>0. LaneAt(l, "idle", NoHeader, 0)
  BY LaneRests DEF LookupFail, Core
<1> USE <1>0, Network DEF LookupFail, storeVars, LaneAt
<1>1. TipKnown'
  BY DEF Core, StoreType, Located, Indexed, Carried, LaneTable, LockFree, Tips, TipKnown
<1>2. TrackerBehind'
  BY DEF Core, StoreType, Located, Indexed, Carried, LaneTable, LockFree, Tips, TrackerBehind
<1>3. NothingHigher'
  BY DEF Core, StoreType, Located, Indexed, Carried, LaneTable, LockFree, Tips, NothingHigher
<1>4. TipHeard'
  BY DEF Core, StoreType, Located, Indexed, Carried, LaneTable, LockFree, Tips, TipHeard
<1> QED
  BY <1>1, <1>2, <1>3, <1>4 DEF Tips

\* A header takes its place.
LEMMA ChainTips ==
  ASSUME Core, Core', Tips, NEW l \in Lane, Chain(l)
  PROVE  Tips'
<1>0. PICK x \in Header \ {Anchor}, h \in Heights : Chained(l, x, h)
  BY ChainMoves
<1>7. /\ h = HeightOf[x] /\ h \in Int /\ lane[l].h \in Int /\ lane[l].h < h /\ CheckWork(x)
      /\ byHash'[x] = h /\ tracker' = tracker
      /\ \A y \in Header \ {x} : at'[y] = at[y] /\ byHash'[y] = byHash[y]
  BY <1>0, Network DEF Chained, IndexAt, PutAt
<1>8. /\ tipH \in Int /\ tip \in Header /\ tipH = HeightOf[tip] /\ byHash[tip] = tipH /\ tracker \in Int
      /\ lane[l].pc = "chain"
  BY <1>0, Network DEF Core, StoreType, Located, Tips, TipKnown, Chained
<1>9. /\ \A m \in Lane \ {l} : lane'[m] = lane[m]
      /\ \/ tip' = x /\ tipH' = h /\ h > tipH /\ lane'[l].pc = "walk"
         \/ tip' = tip /\ tipH' = tipH /\ h <= tipH /\ lane'[l].pc = "idle"
  <2>1. MovesTip(x, h) <=> h > tipH
    BY <1>0, <1>7, <1>8, Network DEF Chained, MovesTip
  <2> QED
    BY <1>0, <1>7, <1>8, <2>1 DEF Chained, LaneAt
<1>1. TipKnown'
  <2>1. CASE tip' = x /\ tipH' = h
    BY <1>7, <2>1 DEF TipKnown
  <2>2. CASE tip' = tip /\ tipH' = tipH
    BY <1>7, <1>8, <2>2 DEF TipKnown
  <2> QED
    BY <1>9, <2>1, <2>2
<1>2. TrackerBehind'
  <2>1. \A m \in Lane : lane'[m].pc = "learn" => lane'[m] = lane[m]
    BY <1>9
  <2>2. \A m \in Lane : lane[m].h \in Int
    BY Network DEF Core, StoreType, LaneTable
  <2>3. tipH <= tipH' /\ tipH' \in Int
    BY <1>7, <1>8, <1>9
  <2>4. tracker' <= tipH'
    BY <1>7, <1>8, <2>3 DEF Tips, TrackerBehind
  <2>5. ASSUME NEW m \in Lane, lane'[m].pc = "learn" PROVE lane'[m].h <= tipH'
    <3>1. lane[m].h <= tipH
      BY <2>1, <2>5 DEF Tips, TrackerBehind
    <3> QED
      BY <1>8, <2>1, <2>2, <2>3, <2>5, <3>1
  <2> QED
    BY <2>4, <2>5 DEF TrackerBehind
<1>3. NothingHigher'
  <2>1. ASSUME NEW y \in Header, at'[y] # NoEntry
        PROVE  HeightOf[y] <= tipH' \/ \E m \in Lane : lane'[m].pc = "chain" /\ HeightOf[y] <= lane'[m].h
    <3>0. HeightOf[y] \in Int
      BY Network
    <3>1. CASE y = x
      BY <1>7, <1>9, <3>1
    <3>2. CASE y # x
      <4>1. at[y] # NoEntry
        BY <1>7, <2>1, <3>2
      <4>2. CASE HeightOf[y] <= tipH
        BY <1>7, <1>8, <1>9, <3>0, <4>2
      <4>3. CASE \E m \in Lane : lane[m].pc = "chain" /\ HeightOf[y] <= lane[m].h
        <5>1. PICK m \in Lane : lane[m].pc = "chain" /\ HeightOf[y] <= lane[m].h
          BY <4>3
        <5>2. CASE m = l
          BY <1>7, <1>8, <1>9, <3>0, <5>1, <5>2
        <5>3. CASE m # l
          BY <1>9, <5>1, <5>3
        <5> QED
          BY <5>2, <5>3
      <4> QED
        BY <4>1, <4>2, <4>3 DEF Tips, NothingHigher
    <3> QED
      BY <3>1, <3>2
  <2> QED
    BY <2>1 DEF NothingHigher
<1>4. TipHeard'
  <2>1. CASE lane'[l].pc = "walk"
    BY <2>1 DEF TipHeard
  <2>2. CASE tip' = tip /\ tipH' = tipH
    <3>1. \A m \in Lane : lane[m].pc \in {"walk", "learn"} => lane'[m] = lane[m]
      BY <1>8, <1>9
    <3> QED
      BY <1>7, <2>2, <3>1 DEF Tips, TipHeard
  <2> QED
    BY <1>9, <2>1, <2>2
<1> QED
  BY <1>1, <1>2, <1>3, <1>4 DEF Tips

\* The walk goes on.
LEMMA RecanonStepTips ==
  ASSUME Core, Core', Tips, NEW l \in Lane, RecanonStep(l)
  PROVE  Tips'
<1>0. PICK x \in Header, p \in Header, h \in Heights : Stepped(l, x, p, h)
  BY StepMoves
<1> USE <1>0, Network DEF Stepped, LaneAt
<1>1. TipKnown'
  BY DEF Core, StoreType, Located, Indexed, Carried, LaneTable, LockFree, Tips, TipKnown
<1>2. TrackerBehind'
  <2>1. \A m \in Lane : lane'[m].pc = "learn" => lane'[m] = lane[m]
    OBVIOUS
  <2>2. tipH' = tipH /\ tracker' = tracker
    OBVIOUS
  <2> HIDE <1>0
  <2> QED
    BY <2>1, <2>2 DEF Tips, TrackerBehind
<1>3. NothingHigher'
  <2>1. \A m \in Lane : lane[m].pc = "chain" => lane'[m] = lane[m]
    OBVIOUS
  <2>2. at' = at /\ tipH' = tipH
    OBVIOUS
  <2> QED
    BY <2>1, <2>2 DEF Tips, NothingHigher
<1>4. TipHeard'
  BY DEF Core, StoreType, Located, Indexed, Carried, LaneTable, LockFree, Tips, TipHeard
<1> QED
  BY <1>1, <1>2, <1>3, <1>4 DEF Tips

\* The walk ends, and the store is pruned.
LEMMA RecanonEndTips ==
  ASSUME Core, Core', Tips, NEW l \in Lane, RecanonEnd(l)
  PROVE  Tips'
<1>0. PICK x \in Header, h \in Heights : Ended(l, x, h)
  BY EndMoves
<1> USE <1>0, Network DEF Ended, LaneAt
<1>1. TipKnown'
  <2>1. byHash[tip] = tipH /\ HeightOf[tip] = tipH /\ tip \in Header
    BY DEF Core, StoreType, Located, Tips, TipKnown
  <2>2. tipH \notin Pruned
    BY DEF Core, StoreType, Pruned
  <2>3. byHash'[tip] = byHash[tip] /\ tip' = tip /\ tipH' = tipH
    BY <2>1, <2>2
  <2> QED
    BY <2>1, <2>3 DEF TipKnown
<1>2. TrackerBehind'
  <2>1. \A m \in Lane : lane'[m].pc = "learn" => lane'[m] = lane[m] \/ lane'[m].h = tipH
    OBVIOUS
  <2>2. tipH \in Int /\ tipH' = tipH /\ tracker' = tracker
    BY DEF Core, StoreType
  <2> QED
    BY <2>1, <2>2 DEF Tips, TrackerBehind
<1>3. NothingHigher'
  <2>1. \A m \in Lane : lane[m].pc = "chain" => lane'[m] = lane[m]
    OBVIOUS
  <2>2. \A y \in Header : at'[y] # NoEntry => at[y] # NoEntry
    OBVIOUS
  <2>3. tipH' = tipH
    OBVIOUS
  <2> QED
    BY <2>1, <2>2, <2>3 DEF Tips, NothingHigher
<1>4. TipHeard'
  BY DEF Core, StoreType, Located, Indexed, Carried, LaneTable, LockFree, Tips, TipHeard
<1> QED
  BY <1>1, <1>2, <1>3, <1>4 DEF Tips

\* The tracker is told of a tip.
LEMMA LearnTips ==
  ASSUME Core, Core', Tips, NEW l \in Lane, Learn(l)
  PROVE  Tips'
<1>0. LaneAt(l, "idle", NoHeader, 0)
  BY LaneRests DEF Learn, Core
<1> USE <1>0, Network DEF Learn, AtLeast, storeVars, LaneAt
<1>1. TipKnown'
  BY DEF Core, StoreType, Located, Indexed, Carried, LaneTable, LockFree, Tips, TipKnown
<1>2. TrackerBehind'
  BY DEF Core, StoreType, Located, Indexed, Carried, LaneTable, LockFree, Tips, TrackerBehind
<1>3. NothingHigher'
  BY DEF Core, StoreType, Located, Indexed, Carried, LaneTable, LockFree, Tips, NothingHigher
<1>4. TipHeard'
  <2>1. \A m \in Lane \ {l} : lane'[m] = lane[m]
    OBVIOUS
  <2>2. tracker \in Int /\ tipH \in Int /\ tracker <= tipH /\ lane[l].h \in Int /\ lane[l].h <= tipH
    BY DEF Core, StoreType, LaneTable, Tips, TrackerBehind
  <2>3. (tracker = tipH => tracker' = tipH) /\ (lane[l].h = tipH => tracker' = tipH)
    BY <2>2
  <2>4. lane[l].pc = "learn" /\ tip' = tip /\ tipH' = tipH
    OBVIOUS
  <2> QED
    BY <2>1, <2>3, <2>4 DEF Tips, TipHeard
<1> QED
  BY <1>1, <1>2, <1>3, <1>4 DEF Tips

\* The tip starts at the anchor and keeps to the second layer.
LEMMA TipsInvariance == Spec => []Tips
<1>1. Init => Tips
  BY Network DEF Init, Tips, TipKnown, TrackerBehind, NothingHigher, TipHeard, IdleLane
<1>2. ASSUME Core, Core', Tips, [Next]_vars PROVE Tips'
  <2>1. CASE \E l \in Lane : Observe(l)
    BY <1>2, <2>1, RejectTips, RedeliverTips, ArriveTips, LookupOKTips, LookupFailTips, ChainTips,
       RecanonStepTips, RecanonEndTips, LearnTips DEF Observe
  <2>2. CASE UNCHANGED <<byHash, at, canon, tip, tipH, lowest, historyTop, tracker, lane, delivered, reanchored>>
    BY <1>2, <2>2 DEF Tips, TipKnown, TrackerBehind, NothingHigher, TipHeard
  <2> QED
    BY <1>2, <2>1, <2>2, Elsewhere DEF Next, vars
<1> QED
  BY <1>1, <1>2, CoreInvariance, PTL DEF Spec

-----------------------------------------------------------------------------
(* The canonical map *)

\* What is served is the same while the map and the entries are.
LEMMA SameServed ==
  ASSUME StoreType, canon' = canon,
         \A y \in Header : (at'[y] # NoEntry <=> at[y] # NoEntry) /\ at'[y].h = at[y].h
  PROVE  \A h \in Heights : CanonHeld(h)' <=> CanonHeld(h)
BY DEF StoreType, CanonHeld, Held

\* No lane starts a walk, ends one, or has a header to place whose parent is not known.
QuietLanes ==
  \A m \in Lane : /\ lane'[m].pc = "walk" <=> lane[m].pc = "walk"
                  /\ lane'[m].pc = "walk" => lane'[m] = lane[m]
                  /\ lane'[m].pc = "chain" =>
                       \/ lane'[m] = lane[m]
                       \/ /\ ParentOf[lane'[m].hdr] \in Header /\ byHash[ParentOf[lane'[m].hdr]] # Absent
                          /\ lane'[m].h = HeightOf[ParentOf[lane'[m].hdr]]

\* A step that neither walks, nor puts, nor moves the tip.
LEMMA QuietWalks ==
  ASSUME Core, Core', Walks,
         UNCHANGED <<byHash, canon, tip, tipH, historyTop, reanchored>>,
         \A y \in Header : /\ at'[y] # NoEntry <=> at[y] # NoEntry
                           /\ at'[y].h = at[y].h /\ at'[y].prev = at[y].prev,
         QuietLanes
  PROVE  Walks'
<1> USE DEF QuietLanes
<1>1. \A h \in Heights : CanonHeld(h)' <=> CanonHeld(h)
  BY SameServed DEF Core
<1>2. LockFree' <=> LockFree
  BY DEF LockFree
<1>3. Walked'
  BY DEF Walks, Walked
<1>4. ASSUME ~reanchored' PROVE Rooted'
  <2>0. Rooted
    BY <1>4 DEF Walks
  <2>1. \A p : Recorded(p)' <=> Recorded(p)
    BY DEF Recorded
  <2>2. Descended'
    BY <2>0, <2>1 DEF Rooted, Descended
  <2>3. Following'
    <3> SUFFICES ASSUME NEW m \in Lane, lane'[m].pc = "chain"
                 PROVE  lane'[m].h >= AnchorHeight /\ Recorded(ParentOf[lane'[m].hdr])
      BY <2>1 DEF Following, Recorded
    <3>1. CASE lane'[m] = lane[m]
      BY <2>0, <3>1 DEF Rooted, Following
    <3>2. CASE /\ ParentOf[lane'[m].hdr] \in Header /\ byHash[ParentOf[lane'[m].hdr]] # Absent
               /\ lane'[m].h = HeightOf[ParentOf[lane'[m].hdr]]
      <4>1. PICK p \in Header : p = ParentOf[lane'[m].hdr]
        BY <3>2
      <4>2. at[p] # NoEntry \/ p = Anchor
        BY <3>2, <4>1 DEF Core, Indexed, IndexSound
      <4>3. HeightOf[p] >= AnchorHeight
        BY <2>0, <4>2, Network DEF Rooted, Descended
      <4> QED
        BY <3>2, <4>1, <4>3 DEF Recorded
    <3> QED
      BY <3>1, <3>2
  <2>4. HistoryKept'
    BY <2>0 DEF Rooted, HistoryKept
  <2>5. ServedOnTip'
    BY <1>1, <1>2, <2>0 DEF Rooted, ServedOnTip
  <2>6. Passing'
    BY <1>1, <2>0 DEF Rooted, Passing
  <2> QED
    BY <2>2, <2>3, <2>4, <2>5, <2>6 DEF Rooted
<1> QED
  BY <1>3, <1>4 DEF Walks

\* The quiet steps of a lane.
LEMMA RejectWalks ==
  ASSUME Core, Core', Walks, NEW l \in Lane, NEW x \in Header,
         Reject(l, x) \/ Redeliver(l, x) \/ ParentKnown(l, x) \/ ParentUnknown(l, x)
  PROVE  Walks'
<1>1. CASE Reject(l, x)
  BY <1>1, QuietWalks DEF Reject, Arrival, QuietLanes
<1>2. CASE Redeliver(l, x)
  <2>1. Redelivered(l, x)
    BY <1>2, RedeliverMoves
  <2> QED
    BY <2>1, QuietWalks DEF Redelivered, QuietLanes
<1>3. CASE ParentKnown(l, x) \/ ParentUnknown(l, x)
  <2>1. /\ lane[l].pc = "idle"
        /\ \/ /\ ParentOf[x] \in Header /\ byHash[ParentOf[x]] # Absent
              /\ LaneAt(l, "chain", x, HeightOf[ParentOf[x]])
           \/ LaneAt(l, "lookup", x, 0)
           \/ lane' = lane
        /\ UNCHANGED <<byHash, at, canon, tip, tipH, historyTop, reanchored>>
    BY <1>3, ArrivalMoves
  <2>2. QuietLanes
    BY <2>1 DEF LaneAt, QuietLanes
  <2>3. \A y \in Header : /\ at'[y] # NoEntry <=> at[y] # NoEntry
                          /\ at'[y].h = at[y].h /\ at'[y].prev = at[y].prev
    BY <2>1
  <2>4. UNCHANGED <<byHash, canon, tip, tipH, historyTop, reanchored>>
    BY <2>1
  <2> QED
    BY <2>2, <2>3, <2>4, QuietWalks
<1> QED
  BY <1>1, <1>2, <1>3

\* A lane gives up, or tells the tracker.
LEMMA RestWalks ==
  ASSUME Core, Core', Walks, NEW l \in Lane, LookupFail(l) \/ Learn(l)
  PROVE  Walks'
<1>1. /\ LaneAt(l, "idle", NoHeader, 0) /\ lane[l].pc # "walk"
      /\ UNCHANGED <<byHash, at, canon, tip, tipH, historyTop, reanchored>>
  BY LaneRests DEF LookupFail, Learn, storeVars, Core
<1>2. QuietLanes
  BY <1>1 DEF LaneAt, QuietLanes
<1>3. \A y \in Header : /\ at'[y] # NoEntry <=> at[y] # NoEntry
                        /\ at'[y].h = at[y].h /\ at'[y].prev = at[y].prev
  BY <1>1
<1>4. UNCHANGED <<byHash, canon, tip, tipH, historyTop, reanchored>>
  BY <1>1
<1> QED
  BY <1>2, <1>3, <1>4, QuietWalks

\* The anchor answers: the parent is known by now, or it is re-anchored.
LEMMA LookupWalks ==
  ASSUME Core, Core', Walks, NEW l \in Lane, LookupOK(l)
  PROVE  Walks'
<1>1. PICK x \in Header \ {Anchor}, p \in Header : LookedUp(l, x, p)
  BY LookupMoves
<1>2. /\ \A m \in Lane : lane[m].pc # "walk" /\ lane'[m].pc # "walk"
      /\ \A m \in Lane : lane'[m].pc = "chain" =>
           lane'[m] = lane[m] \/ (ParentOf[lane'[m].hdr] = p /\ lane'[m].h = HeightOf[p])
  BY <1>1 DEF LookedUp, LaneAt, LockFree
<1>3. UNCHANGED <<canon, tip, tipH, historyTop>>
  BY <1>1 DEF LookedUp
<1>4. CASE byHash[p] # Absent
  <2>1. UNCHANGED <<byHash, at, reanchored>>
    BY <1>1, <1>4 DEF LookedUp
  <2> QED
    BY <1>2, <1>3, <1>4, <2>1, QuietWalks DEF QuietLanes
<1>5. CASE byHash[p] = Absent
  <2>1. reanchored' = TRUE
    BY <1>1, <1>5 DEF LookedUp
  <2>2. Walked'
    BY <1>2, <1>3 DEF Walks, Walked
  <2> QED
    BY <2>1, <2>2 DEF Walks
<1> QED
  BY <1>4, <1>5

\* A header takes its place; a new tip starts a walk.
LEMMA ChainWalks ==
  ASSUME Core, Core', Tips, Walks, NEW l \in Lane, Chain(l)
  PROVE  Walks'
<1>1. PICK x \in Header \ {Anchor}, h \in Heights : Chained(l, x, h)
  BY ChainMoves
<1>2. /\ \A m \in Lane : lane[m].pc # "walk"
      /\ \A m \in Lane \ {l} : lane'[m] = lane[m] /\ lane'[m].pc # "walk"
      /\ lane'[l].pc # "chain"
  BY <1>1 DEF Chained, LaneAt, LockFree
<1>3. /\ canon' = canon /\ historyTop' = historyTop /\ (reanchored' <=> reanchored)
      /\ at'[x].prev = ParentOf[x] /\ at'[x].h = HeightOf[x] /\ byHash'[x] # Absent
      /\ \A y \in Header \ {x} : at'[y] = at[y] /\ byHash'[y] = byHash[y]
  BY <1>1, Network DEF Chained, IndexAt, PutAt
<1>4. /\ tipH \in Int /\ tipH' \in Int /\ tipH <= tipH' /\ tipH = HeightOf[tip] /\ tip \in Header
      /\ lane[l].pc = "chain" /\ h = HeightOf[x] /\ h = lane[l].h + 1 /\ lane[l].hdr = x
      /\ \/ lane'[l].pc = "walk" /\ lane'[l].hdr = x /\ lane'[l].h = h /\ tip' = x /\ tipH' = h /\ h > tipH
         \/ lane'[l].pc = "idle" /\ tip' = tip /\ tipH' = tipH
  BY <1>1, Network DEF Core, StoreType, Located, Tips, TipKnown, Chained, MovesTip, LaneAt
<1>5. x \in ChainOf[x]
  BY ChainHolds
<1>6. Walked'
  <2>1. \A k \in Heights : canon'[k] # NoHeader => k <= tipH /\ k <= tipH'
    BY <1>3, <1>4, Network DEF Walks, Walked
  <2>2. lane'[l].pc = "walk" =>
          lane'[l].hdr \in ChainOf[tip'] /\ (lane'[l].h = tipH' => canon'[tipH'] = NoHeader)
    BY <1>4, <1>5, <2>1, Network
  <2> QED
    BY <1>2, <2>1, <2>2 DEF Walked
<1>7. ASSUME ~reanchored' PROVE Rooted'
  <2>0. Rooted
    BY <1>3, <1>7 DEF Walks
  <2>1. \A p \in Header : Recorded(p) => Recorded(p)'
    BY <1>3 DEF Recorded
  <2>2. ParentOf[x] \in Header /\ Recorded(ParentOf[x]) /\ h > AnchorHeight
    BY <1>1, <1>4, <2>0, Network DEF Rooted, Following, Chained
  <2>3. Descended'
    <3>1. \A y \in Header \ {x} : at'[y] # NoEntry =>
             /\ at'[y].prev = ParentOf[y] /\ ParentOf[y] # NoHeader
             /\ HeightOf[y] > AnchorHeight /\ Recorded(ParentOf[y])'
      BY <1>3, <2>0, <2>1, Network DEF Rooted, Descended
    <3>2. /\ at'[x].prev = ParentOf[x] /\ ParentOf[x] # NoHeader
          /\ HeightOf[x] > AnchorHeight /\ Recorded(ParentOf[x])'
      BY <1>3, <1>4, <2>1, <2>2, Network
    <3> QED
      BY <3>1, <3>2 DEF Descended
  <2>4. Following'
    <3> SUFFICES ASSUME NEW m \in Lane, lane'[m].pc = "chain"
                 PROVE  lane'[m].h >= AnchorHeight /\ Recorded(ParentOf[lane[m].hdr])' /\ lane'[m] = lane[m]
      BY DEF Following, Recorded
    <3>1. lane'[m] = lane[m]
      BY <1>2
    <3>2. lane[m].h >= AnchorHeight /\ Recorded(ParentOf[lane[m].hdr]) /\ ParentOf[lane[m].hdr] \in Header
      BY <2>0, <3>1, Network DEF Rooted, Following, Core, Carried
    <3> QED
      BY <1>3, <3>1, <3>2 DEF Recorded
  <2>5. HistoryKept'
    BY <1>3, <1>4, <2>0, Network DEF Rooted, HistoryKept, Core, StoreType
  <2>6. ASSUME NEW k \in Heights PROVE CanonHeld(k)' => CanonHeld(k)
    <3>1. CASE canon[k] = x
      <4>1. at[x] # NoEntry /\ at[x].h = k
        BY <3>1, Network DEF Core, Located, Indexed, IndexSound
      <4> QED
        BY <3>1, <4>1, Network DEF CanonHeld, Held
    <3>2. CASE canon[k] # x
      BY <1>3, <3>2 DEF Core, StoreType, CanonHeld, Held
    <3> QED
      BY <3>1, <3>2
  <2>7. LockFree
    BY <1>1 DEF Chained
  <2>8. \A k \in Heights : CanonHeld(k)' => k > historyTop /\ canon[k] \in ChainOf[tip] /\ k <= tipH
    BY <2>0, <2>6, <2>7 DEF Rooted, ServedOnTip, Walks, Walked, CanonHeld
  <2>9. ServedOnTip'
    <3>1. LockFree' => tip' = tip
      BY <1>4 DEF LockFree
    <3> QED
      BY <1>3, <2>8, <3>1 DEF ServedOnTip
  <2>10. Passing'
    <3> SUFFICES ASSUME lane'[l].pc = "walk"
                 PROVE  /\ \A k \in Heights : k > lane'[l].h /\ CanonHeld(k)' => canon'[k] \in ChainOf[tip']
                        /\ \E old \in Header : \A k \in Heights :
                             k <= lane'[l].h /\ CanonHeld(k)' => k > historyTop' /\ canon'[k] \in ChainOf[old]
      BY <1>2 DEF Passing
    <3>1. \A k \in Heights : k > lane'[l].h => ~CanonHeld(k)'
      BY <1>4, <2>8, Network
    <3> QED
      BY <1>3, <1>4, <2>8, <3>1
  <2> QED
    BY <2>3, <2>4, <2>5, <2>9, <2>10 DEF Rooted
<1> QED
  BY <1>6, <1>7 DEF Walks

\* The walk goes on to the parent.
LEMMA StepWalks ==
  ASSUME Core, Core', Tips, Walks, NEW l \in Lane, RecanonStep(l)
  PROVE  Walks'
<1>1. PICK x \in Header, p \in Header, h \in Heights : Stepped(l, x, p, h)
  BY StepMoves
<1>2. /\ lane[l].pc = "walk" /\ lane[l].hdr = x /\ lane[l].h = h
      /\ lane'[l].pc = "walk" /\ lane'[l].hdr = p /\ lane'[l].h = h - 1
      /\ \A m \in Lane \ {l} : lane'[m] = lane[m] /\ lane'[m].pc # "walk"
  BY <1>1 DEF Stepped, LaneAt, Core, Carried
<1>3. /\ UNCHANGED <<byHash, at, tip, tipH, historyTop, reanchored>>
      /\ canon'[h] = x /\ \A k \in Heights \ {h} : canon'[k] = canon[k]
      /\ p = ParentOf[x] /\ h = HeightOf[x] /\ h - 1 \in Heights /\ h \in Int
  BY <1>1, Network DEF Stepped
<1>4. x \in ChainOf[tip] /\ tip \in Header
  BY <1>2 DEF Walks, Walked, Core, StoreType
<1>5. p \in ChainOf[tip]
  <2>1. p \in ChainOf[x]
    BY <1>3, ChainHolds, Network
  <2> QED
    BY <1>4, <2>1, ChainBelow
<1>6. tipH = HeightOf[tip] /\ tipH \in Int /\ h <= tipH
  <2>1. tipH = HeightOf[tip] /\ tipH \in Int
    BY Network DEF Core, StoreType, Located, Tips, TipKnown
  <2> QED
    BY <1>3, <1>4, <2>1, ChainBelow, Network
<1>7. Walked'
  <2>1. \A k \in Heights : canon'[k] # NoHeader => k <= tipH'
    BY <1>3, <1>6 DEF Walks, Walked
  <2>2. lane'[l].hdr \in ChainOf[tip'] /\ lane'[l].h # tipH'
    BY <1>2, <1>3, <1>5, <1>6
  <2> QED
    BY <1>2, <2>1, <2>2 DEF Walked
<1>8. ASSUME ~reanchored' PROVE Rooted'
  <2>0. Rooted
    BY <1>3, <1>8 DEF Walks
  <2>1. Descended'
    BY <1>3, <2>0 DEF Rooted, Descended, Recorded
  <2>2. Following'
    BY <1>2, <1>3, <2>0 DEF Rooted, Following, Recorded
  <2>3. HistoryKept'
    BY <1>3, <2>0 DEF Rooted, HistoryKept
  <2>4. ServedOnTip'
    BY <1>2 DEF ServedOnTip, LockFree
  <2>5. \A k \in Heights \ {h} : CanonHeld(k)' <=> CanonHeld(k)
    BY <1>3 DEF CanonHeld, Held
  <2>6. \A k \in Heights : k > h - 1 /\ CanonHeld(k)' => canon'[k] \in ChainOf[tip']
    <3> SUFFICES ASSUME NEW k \in Heights, k > h - 1, CanonHeld(k)' PROVE canon'[k] \in ChainOf[tip]
      BY <1>3
    <3>1. CASE k = h
      BY <1>3, <1>4, <3>1
    <3>2. CASE k > h
      BY <1>2, <1>3, <2>0, <2>5, <3>2, Network DEF Rooted, Passing
    <3> QED
      BY <1>3, <3>1, <3>2, Network
  <2>7. PICK old \in Header : \A k \in Heights :
          k <= h /\ CanonHeld(k) => k > historyTop /\ canon[k] \in ChainOf[old]
    BY <1>2, <2>0 DEF Rooted, Passing
  <2>8. \A k \in Heights : k <= h - 1 /\ CanonHeld(k)' => k > historyTop' /\ canon'[k] \in ChainOf[old]
    BY <1>3, <2>5, <2>7, Network
  <2>9. Passing'
    BY <1>2, <2>6, <2>8 DEF Passing
  <2> QED
    BY <2>1, <2>2, <2>3, <2>4, <2>9 DEF Rooted
<1> QED
  BY <1>7, <1>8 DEF Walks

\* The walk ends where the map is the tip's chain already, or where the chain
\* leaves what is known: there is nothing canonical below that is still held.
LEMMA EndWalks ==
  ASSUME Core, Core', Tips, Walks, NEW l \in Lane, RecanonEnd(l)
  PROVE  Walks'
<1>1. PICK x \in Header, h \in Heights : Ended(l, x, h)
  BY EndMoves
<1>2. /\ lane[l].pc = "walk" /\ lane[l].hdr = x /\ lane[l].h = h /\ h = HeightOf[x] /\ byHash[x] # Absent
      /\ \A m \in Lane : lane'[m].pc # "walk"
      /\ \A m \in Lane : lane'[m].pc = "chain" => lane'[m] = lane[m]
  BY <1>1 DEF Ended, LaneAt, Core, Carried
<1>3. /\ tip' = tip /\ tipH' = tipH /\ (reanchored' <=> reanchored)
      /\ \A y \in Header :
           IF at[y] # NoEntry /\ HeightOf[y] \in Pruned
           THEN byHash'[y] = Absent /\ at'[y] = NoEntry
           ELSE byHash'[y] = byHash[y] /\ at'[y] = at[y]
      /\ \A k \in Heights : canon'[k] = IF k \in Pruned THEN NoHeader ELSE IF k = h THEN x ELSE canon[k]
      /\ historyTop' = HistoryTopAfter(tipH - Window)
  BY <1>1 DEF Ended
<1>4. x \in ChainOf[tip] /\ tip \in Header
  BY <1>2 DEF Walks, Walked, Core, StoreType
<1>5. tipH = HeightOf[tip] /\ tipH \in Int /\ h <= tipH
  <2>1. tipH = HeightOf[tip] /\ tipH \in Int
    BY Network DEF Core, StoreType, Located, Tips, TipKnown
  <2> QED
    BY <1>2, <1>4, <2>1, ChainBelow, Network
<1>6. Walked'
  BY <1>2, <1>3, <1>5 DEF Walks, Walked
<1>7. /\ historyTop \in Int /\ historyTop' \in Int /\ historyTop <= historyTop'
      /\ \A n \in Pruned : n <= historyTop'
      /\ historyTop' = historyTop \/ (Window # 0 /\ historyTop' = tipH - Window - 1)
      /\ \A n \in Heights : n >= lowest /\ n \notin Pruned /\ Window # 0 => n > tipH - Window - 1
  <2>1. tipH \in Nat /\ Window \in Nat /\ historyTop \in Nat /\ lowest \in Nat
    BY Network DEF Core, StoreType
  <2>2. historyTop' = IF Window # 0 /\ tipH - Window > 0 /\ tipH - Window - 1 >= historyTop
                      THEN tipH - Window - 1 ELSE historyTop
    <3>1. tipH \in Heights /\ (tipH >= Window => tipH - Window \in Heights)
      BY <2>1, Network DEF Core, StoreType
    <3> QED
      BY <1>3, <2>1, <3>1, HeightBelowIs DEF HistoryTopAfter, AtLeast
  <2>3. /\ historyTop' \in Int /\ historyTop <= historyTop'
        /\ historyTop' = historyTop \/ (Window # 0 /\ historyTop' = tipH - Window - 1)
    BY <2>1, <2>2
  <2>4. ASSUME NEW n \in Pruned PROVE n <= historyTop'
    <3>1. n \in Int /\ n >= 0 /\ n <= tipH - Window - 1 /\ Window # 0
      BY <2>1 DEF Pruned
    <3> QED
      BY <2>1, <2>2, <3>1
  <2>5. \A n \in Heights : n >= lowest /\ n \notin Pruned /\ Window # 0 => n > tipH - Window - 1
    BY <2>1, Network DEF Pruned
  <2> QED
    BY <2>1, <2>3, <2>4, <2>5
<1>8. ASSUME ~reanchored' PROVE Rooted'
  <2>0. Rooted
    BY <1>3, <1>8 DEF Walks
  <2>1. \A p \in Header : Recorded(p) => Recorded(p)'
    BY <1>3, <1>7, Network DEF Recorded
  <2>2. \A y \in Header : at'[y] # NoEntry => at[y] # NoEntry /\ at'[y] = at[y] /\ HeightOf[y] \notin Pruned
    BY <1>3
  <2>3. Descended'
    BY <2>0, <2>1, <2>2, Network DEF Rooted, Descended
  <2>4. Following'
    <3> SUFFICES ASSUME NEW m \in Lane, lane'[m].pc = "chain"
                 PROVE  lane'[m].h >= AnchorHeight /\ Recorded(ParentOf[lane[m].hdr])' /\ lane'[m] = lane[m]
      BY DEF Following, Recorded
    <3>1. lane'[m] = lane[m]
      BY <1>2
    <3>2. lane[m].h >= AnchorHeight /\ Recorded(ParentOf[lane[m].hdr]) /\ ParentOf[lane[m].hdr] \in Header
      BY <2>0, <3>1, Network DEF Rooted, Following, Core, Carried
    <3>3. \A p \in Header : Recorded(p) => byHash'[p] # Absent \/ HeightOf[p] <= historyTop'
      BY <2>1 DEF Recorded
    <3> QED
      BY <3>1, <3>2, <3>3 DEF Recorded
  <2>5. HistoryKept'
    BY <1>3, <1>7, <2>0 DEF Rooted, HistoryKept
  <2>6. PICK old \in Header : \A k \in Heights :
          k <= h /\ CanonHeld(k) => k > historyTop /\ canon[k] \in ChainOf[old]
    BY <1>2, <2>0 DEF Rooted, Passing
  <2>7. ASSUME NEW k \in Heights, k < h, CanonHeld(k)
        PROVE  canon[k] \in ChainOf[tip]
    <3>0. /\ canon[k] \in Header /\ HeightOf[canon[k]] = k /\ k > AnchorHeight
          /\ k > historyTop /\ canon[k] \in ChainOf[old]
      BY <2>0, <2>6, <2>7, Network DEF Core, StoreType, Located, CanonHeld, Held, Rooted, Descended
    <3>1. Held(x, h)
      <4>1. at[x] # NoEntry \/ x = Anchor
        BY <1>2 DEF Core, Indexed, IndexSound
      <4>2. x # Anchor
        BY <1>2, <2>7, <3>0, Network
      <4> QED
        BY <1>2, <4>1, <4>2 DEF Core, Located, Held
    <3>2. CASE canon[h] = x
      <4>1. CanonHeld(h)
        BY <3>1, <3>2, Network DEF CanonHeld
      <4>2. x \in ChainOf[old]
        BY <2>6, <3>2, <4>1, Network
      <4>3. canon[k] \in ChainOf[x]
        BY <1>2, <2>7, <3>0, <4>2, ChainLinear, Network
      <4> QED
        BY <1>4, <4>3, ChainBelow
    <3>3. CASE canon[h] # x
      <4>1. ~WalkGoesOn(x, h)
        BY <1>1, <3>3 DEF Ended
      <4>2. /\ at[x].prev = ParentOf[x] /\ ParentOf[x] \in Header /\ Recorded(ParentOf[x])
            /\ HeightOf[ParentOf[x]] = h - 1 /\ h > 0
        BY <1>2, <2>0, <3>1, Network DEF Rooted, Descended, Held
      <4>3. byHash[ParentOf[x]] # h - 1
        BY <3>1, <4>1, <4>2, Network DEF WalkGoesOn
      <4>4. h - 1 <= historyTop
        BY <4>2, <4>3, Network DEF Core, Located, Recorded
      <4> QED
        BY <1>7, <2>7, <3>0, <4>4, Network
    <3> QED
      BY <3>2, <3>3
  <2>8. ASSUME NEW k \in Heights, CanonHeld(k)' PROVE k > historyTop' /\ canon'[k] \in ChainOf[tip]
    <3>1. /\ k \notin Pruned /\ canon'[k] \in Header /\ at[canon'[k]] # NoEntry /\ HeightOf[canon'[k]] = k
      BY <1>2, <1>3, <2>2, <2>8 DEF Core, StoreType, Located, CanonHeld, Held
    <3>2. k > AnchorHeight /\ k >= lowest
      BY <2>0, <3>1 DEF Rooted, Descended, Core, Located, Indexed, IndexSound
    <3>3. k > historyTop'
      <4>0. k \in Int /\ AnchorHeight \in Int /\ Window \in Int
        BY Network
      <4>1. Window # 0 => k > tipH - Window - 1
        BY <1>7, <3>1, <3>2
      <4>2. historyTop = AnchorHeight \/ (Window # 0 /\ historyTop <= tipH - Window - 1)
        BY <2>0 DEF Rooted, HistoryKept
      <4> QED
        BY <1>5, <1>7, <3>2, <4>0, <4>1, <4>2
    <3>4. CASE k = h
      BY <1>3, <1>4, <3>1, <3>3, <3>4
    <3>5. CASE k # h
      <4>1. canon'[k] = canon[k] /\ CanonHeld(k)
        BY <1>3, <3>1, <3>5, Network DEF CanonHeld, Held, Core, Located
      <4>2. k < h => canon[k] \in ChainOf[tip]
        BY <2>7, <4>1
      <4>3. k > h => canon[k] \in ChainOf[tip]
        BY <1>2, <2>0, <4>1 DEF Rooted, Passing
      <4> QED
        BY <3>3, <3>5, <4>1, <4>2, <4>3, Network
    <3> QED
      BY <3>4, <3>5
  <2>9. ServedOnTip'
    BY <1>3, <2>8 DEF ServedOnTip
  <2>10. Passing'
    BY <1>2 DEF Passing
  <2> QED
    BY <2>3, <2>4, <2>5, <2>9, <2>10 DEF Rooted
<1> QED
  BY <1>6, <1>8 DEF Walks

\* The map starts empty and keeps to the third layer.
LEMMA WalksInvariance == Spec => []Walks
<1>1. Init => Walks
  <2> SUFFICES ASSUME Init PROVE Walks
    OBVIOUS
  <2>1. Walked
    BY Network DEF Init, Walked, IdleLane
  <2>2. Rooted
    BY Network DEF Init, Rooted, Descended, Following, HistoryKept, ServedOnTip, Passing, CanonHeld, IdleLane
  <2> QED
    BY <2>1, <2>2 DEF Walks
<1>2. ASSUME Core, Core', Tips, Walks, [Next]_vars PROVE Walks'
  <2>1. CASE \E l \in Lane : Observe(l)
    BY <1>2, <2>1, RejectWalks, LookupWalks, RestWalks, ChainWalks, StepWalks, EndWalks DEF Observe
  <2>2. CASE UNCHANGED <<byHash, at, canon, tip, tipH, lowest, historyTop, tracker, lane, delivered, reanchored>>
    BY <1>2, <2>2, QuietWalks DEF QuietLanes
  <2> QED
    BY <1>2, <2>1, <2>2, Elsewhere DEF Next, vars
<1> QED
  BY <1>1, <1>2, CoreInvariance, TipsInvariance, PTL DEF Spec

-----------------------------------------------------------------------------
(* The reads *)

\* What is received stays so.
LEMMA ReceivedStays ==
  ASSUME delivered \subseteq delivered'
  PROVE  \A x : Received(x) => Received(x)'
BY DEF Received

\* The steps of a lane change nothing a read has in hand.
LEMMA LaneLeaves ==
  ASSUME NEW l \in Lane, Observe(l)
  PROVE  UNCHANGED <<cache, reader, warm, best>> /\ delivered \subseteq delivered'
<1>1. ASSUME NEW x \in Header, Arrival(l, x)
      PROVE  UNCHANGED <<cache, reader, warm, best>> /\ delivered \subseteq delivered'
  BY <1>1 DEF Arrival
<1>2. CASE \E x \in Header : Reject(l, x) \/ Redeliver(l, x) \/ ParentKnown(l, x) \/ ParentUnknown(l, x)
  BY <1>1, <1>2 DEF Reject, Redeliver, ParentKnown, ParentUnknown
<1>3. CASE LookupOK(l) \/ LookupFail(l) \/ Chain(l)
  BY <1>3 DEF LookupOK, LookupFail, Chain
<1>4. CASE RecanonStep(l) \/ RecanonEnd(l) \/ Learn(l)
  BY <1>4 DEF RecanonStep, RecanonEnd, Learn
<1> QED
  BY <1>2, <1>3, <1>4 DEF Observe

\* An entry is put as received by the lane that carries its header.
LEMMA LaneSourced ==
  ASSUME Core, Sourced, NEW l \in Lane, Observe(l)
  PROVE  Sourced'
<1>0. \A x \in Header : Received(x) => Received(x)'
  BY LaneLeaves, ReceivedStays
<1>1. CASE at' = at
  BY <1>0, <1>1 DEF Sourced
<1>2. ASSUME NEW x \in Header, Redeliver(l, x) PROVE Sourced'
  <2>1. Redelivered(l, x)
    BY <1>2, RedeliverMoves
  <2>2. Received(x)'
    BY <2>1 DEF Redelivered, Received, CheckWork
  <2> QED
    BY <1>0, <2>1, <2>2 DEF Sourced, Redelivered
<1>3. CASE LookupOK(l)
  <2>1. PICK x \in Header \ {Anchor}, p \in Header : LookedUp(l, x, p)
    BY <1>3, LookupMoves
  <2>2. CASE at' = at
    BY <1>1, <2>2
  <2>3. CASE PutAt(p, [h |-> HeightOf[p], prev |-> NoHeader, viaAnchor |-> TRUE])
    <3>1. at'[p].viaAnchor /\ \A y \in Header \ {p} : at'[y] = at[y]
      BY <2>3 DEF PutAt
    <3> QED
      BY <1>0, <3>1 DEF Sourced
  <2> QED
    BY <2>1, <2>2, <2>3 DEF LookedUp
<1>4. CASE Chain(l)
  <2>1. PICK x \in Header \ {Anchor}, h \in Heights : Chained(l, x, h)
    BY <1>4, ChainMoves
  <2>2. Received(x) /\ \A y \in Header \ {x} : at'[y] = at[y]
    BY <2>1 DEF Chained, PutAt, Received
  <2> QED
    BY <1>0, <2>2 DEF Sourced
<1>5. CASE RecanonEnd(l)
  <2>1. PICK x \in Header, h \in Heights : Ended(l, x, h)
    BY <1>5, EndMoves
  <2>2. \A y \in Header : at'[y] = NoEntry \/ at'[y] = at[y]
    BY <2>1 DEF Ended
  <2> QED
    BY <1>0, <2>2 DEF Sourced
<1>6. ASSUME NEW x \in Header, Reject(l, x) \/ ParentKnown(l, x) \/ ParentUnknown(l, x) PROVE at' = at
  BY <1>6 DEF Reject, ParentKnown, ParentUnknown
<1>7. ASSUME LookupFail(l) \/ RecanonStep(l) \/ Learn(l) PROVE at' = at
  BY <1>7 DEF LookupFail, RecanonStep, Learn, storeVars
<1> QED
  BY <1>1, <1>2, <1>3, <1>4, <1>5, <1>6, <1>7 DEF Observe

\* What is sound stays so.
LEMMA SoundStays ==
  ASSUME delivered \subseteq delivered', NEW q, Sound(q)
  PROVE  Sound(q)'
<1>1. \A x : Received(x) => Received(x)'
  BY ReceivedStays
<1> QED
  BY <1>1 DEF Sound

\* One read has something else in hand.
ReaderAt(r, q) ==
  /\ q \in Request /\ Sound(q)
  /\ reader' \in [Reader -> Request]
  /\ reader'[r] = q /\ \A s \in Reader \ {r} : reader'[s] = reader[s]

\* What a read step does.
LEMMA ReaderMoves ==
  ASSUME ReadType, NEW r \in Reader, NEW q \in Request, Sound(q), ReaderIs(r, q)
  PROVE  ReaderAt(r, q)
BY DEF ReadType, ReaderIs, ReaderAt

\* A read without the flag needs its height alone.
LEMMA PlainMoves ==
  ASSUME ReadType, NEW r \in Reader,
         NEW pc \in {"ask", "book", "known", "done"}, NEW kind \in {"root", "header", "tip", "hash"},
         NEW h \in Heights, NEW x \in Header \cup {NoHeader}, NEW src \in {"none", "history", "fallback", "miss"},
         ReaderTo(r, pc, kind, h, x, src),
         x # NoHeader => HeightOf[x] = h,
         pc = "book" => x \in Header,
         pc = "known" => kind \in {"root", "tip"}
  PROVE  \E q : ReaderAt(r, q)
<1> DEFINE q == [IdleReader EXCEPT !.pc = pc, !.kind = kind, !.h = h, !.x = x, !.src = src]
<1>0. /\ IdleReader \in Request /\ IdleReader.known = FALSE
  BY Network DEF IdleReader, Request
<1>1. /\ q \in Request /\ q.pc = pc /\ q.kind = kind /\ q.h = h /\ q.x = x /\ q.src = src
      /\ q.known = FALSE
  BY <1>0 DEF Request
<1>3. ReaderIs(r, q)
  BY DEF ReaderTo
<1>2. Sound(q)
  <2> HIDE DEF q
  <2> QED
    BY <1>1 DEF Sound
<1> HIDE DEF q
<1> QED
  BY <1>1, <1>2, <1>3, ReaderMoves

\* The canonical header that is held for a height is of the height, and was
\* received if it was not re-anchored.
LEMMA CanonSound ==
  ASSUME Core, Sourced, NEW h \in Heights, CanonHeld(h)
  PROVE  /\ canon[h] \in Header /\ HeightOf[canon[h]] = h
         /\ ~at[canon[h]].viaAnchor => Received(canon[h])
         /\ at[canon[h]].viaAnchor \in BOOLEAN
BY DEF Core, StoreType, Located, Sourced, CanonHeld, Held, Entry

\* The anchor service answers with headers of the network.
LEMMA BestChain ==
  ASSUME ReadType, NEW x \in ChainOf[best]
  PROVE  x \in Header
BY ChainBelow DEF ReadType

\* Every read step leaves sound answers, and the cache as it is.
LEMMA ReadMoves ==
  ASSUME Core, TipKnown, Reads, NEW r \in Reader, Read(r), ~Book(r)
  PROVE  (\E q : ReaderAt(r, q)) /\ UNCHANGED <<cache, warm, best>>
<1>0. ReadType /\ Sourced /\ reader[r] \in Request /\ Sound(reader[r])
  BY DEF Reads, ReadType
<1>1. ASSUME NEW h \in Heights, NEW kind \in {"root", "header"}, ReadHeld(r, kind, h)
      PROVE  \E q : ReaderAt(r, q)
  <2>1. PICK x \in Header : x = canon[h]
    BY <1>0, <1>1, CanonSound DEF ReadHeld
  <2>2. HeightOf[x] = h /\ (~at[x].viaAnchor => Received(x)) /\ at[x].viaAnchor \in BOOLEAN
    BY <1>0, <1>1, <2>1, CanonSound DEF ReadHeld
  <2>3. PICK src : src = HeldSource(h)
    OBVIOUS
  <2>4. src \in {"none", "lane", "history", "fallback", "miss"} /\ (src = "lane" => ~at[x].viaAnchor)
    BY <2>1, <2>3 DEF HeldSource, AnchoredSource
  <2>5. PICK pc : pc = Answered(kind)
    OBVIOUS
  <2>6. pc \in {"known", "done"} /\ (pc = "known" => kind = "root")
    BY <2>5 DEF Answered
  <2>7. PICK known \in BOOLEAN : known <=> kind = "header" /\ ~at[x].viaAnchor
    OBVIOUS
  <2> DEFINE q == [pc |-> pc, kind |-> kind, h |-> h, x |-> x, src |-> src, known |-> known]
  <2>8. ReaderIs(r, q)
    BY <1>1, <2>1, <2>3, <2>5, <2>7 DEF ReadHeld
  <2>9. q \in Request
    BY <2>4, <2>6 DEF Request
  <2>10. Sound(q)
    BY <2>2, <2>4, <2>6, <2>7 DEF Sound
  <2> HIDE DEF q
  <2> QED
    BY <1>0, <2>8, <2>9, <2>10, ReaderMoves
<1>2. ASSUME NEW h \in Heights, NEW kind \in {"root", "header"}, ReadAnchor(r, kind, h)
      PROVE  \E q : ReaderAt(r, q)
  <2>1. PICK pc \in {"ask", "done"} : ReaderTo(r, pc, kind, h, NoHeader, "miss")
    BY <1>2 DEF ReadAnchor
  <2> QED
    BY <1>0, <2>1, PlainMoves
<1>3. ASSUME NEW h \in Heights, ReadCached(r, h)
      PROVE  \E q : ReaderAt(r, q)
  <2>1. PICK x \in Header : x = cache[h] /\ HeightOf[x] = h
    BY <1>0, <1>3 DEF ReadCached, Reads, ReadType, CacheSound
  <2>2. PICK src \in {"history", "fallback"} : src = AnchoredSource(h)
    BY DEF AnchoredSource
  <2>3. ReaderTo(r, "known", "root", h, x, src)
    BY <1>3, <2>1, <2>2 DEF ReadCached
  <2> QED
    BY <1>0, <2>1, <2>2, <2>3, PlainMoves
<1>4. ASSUME ReadTip(r)
      PROVE  \E q : ReaderAt(r, q)
  <2>1. tip \in Header /\ tipH \in Heights /\ HeightOf[tip] = tipH
    BY Network DEF Core, StoreType, Located, TipKnown
  <2> QED
    BY <1>0, <1>4, <2>1, PlainMoves DEF ReadTip
<1>5. ASSUME FallbackOK(r)
      PROVE  \E q : ReaderAt(r, q)
  <2>1. PICK x \in ChainOf[best] :
          HeightOf[x] = reader[r].h /\ ReaderTo(r, "book", reader[r].kind, reader[r].h, x, "none")
    BY <1>5 DEF FallbackOK
  <2>2. x \in Header
    BY <2>1, BestChain DEF Reads
  <2>3. reader[r].kind \in {"root", "header", "tip", "hash"} /\ reader[r].h \in Heights
    BY <1>0 DEF Request
  <2> QED
    BY <1>0, <2>1, <2>2, <2>3, PlainMoves
<1>6. ASSUME FallbackFail(r)
      PROVE  \E q : ReaderAt(r, q)
  <2>1. reader[r].kind \in {"root", "header", "tip", "hash"} /\ reader[r].h \in Heights
    BY <1>0 DEF Request
  <2> QED
    BY <1>0, <1>6, <2>1, PlainMoves DEF FallbackFail
<1>7. ASSUME ReadKnown(r)
      PROVE  \E q : ReaderAt(r, q)
  <2>1. PICK h \in Heights : h = reader[r].h
    BY <1>0 DEF Request
  <2>2. PICK known \in BOOLEAN : known <=> Known(h)
    OBVIOUS
  <2> DEFINE q == [reader[r] EXCEPT !.pc = "done", !.known = known]
  <2>4. ReaderIs(r, q) /\ reader[r].pc = "known"
    BY <1>7, <2>1, <2>2 DEF ReadKnown, Known
  <2>5. /\ q \in Request /\ q.pc = "done" /\ q.known = known /\ q.kind = reader[r].kind
        /\ q.h = h /\ q.x = reader[r].x /\ q.src = reader[r].src
    BY <1>0, <2>1 DEF Request
  <2> HIDE DEF q
  <2>6. Sound(q)
    BY <1>0, <2>1, <2>4, <2>5 DEF Sound
  <2> QED
    BY <1>0, <2>4, <2>5, <2>6, ReaderMoves
<1>8. ASSUME NEW x \in Header, ReadByHash(r, x)
      PROVE  \E q : ReaderAt(r, q)
  <2>1. CASE byHash[x] # Absent /\ Held(x, byHash[x])
    <3>1. PICK h \in Heights : h = byHash[x] /\ h = HeightOf[x]
      BY <2>1, Network DEF Core, Located
    <3>2. at[x].viaAnchor \in BOOLEAN /\ (~at[x].viaAnchor => Received(x))
      BY <1>0, <2>1 DEF Core, StoreType, Entry, Sourced, Held
    <3>3. PICK known \in BOOLEAN : known <=> ~at[x].viaAnchor
      OBVIOUS
    <3> DEFINE q == [IdleReader EXCEPT !.pc = "done", !.kind = "hash", !.h = h, !.x = x, !.known = known]
    <3>4. IdleReader \in Request /\ IdleReader.src = "none"
      BY Network DEF IdleReader, Request
    <3>5. /\ q \in Request /\ q.pc = "done" /\ q.kind = "hash" /\ q.h = h /\ q.x = x /\ q.src = "none"
          /\ q.known = known
      BY <3>4 DEF Request
    <3>6. (~at[x].viaAnchor) = known
      BY <3>2, <3>3
    <3>7. ReaderIs(r, q)
      BY <1>8, <2>1, <3>1, <3>6 DEF ReadByHash
    <3> HIDE DEF q
    <3>8. Sound(q)
      BY <3>1, <3>2, <3>3, <3>5 DEF Sound
    <3> QED
      BY <1>0, <3>5, <3>7, <3>8, ReaderMoves
  <2>2. CASE ~(byHash[x] # Absent /\ Held(x, byHash[x]))
    <3>1. ReaderTo(r, "done", "hash", 0, NoHeader, "none")
      BY <1>8, <2>2 DEF ReadByHash
    <3>2. 0 \in Heights
      BY Network
    <3> QED
      BY <1>0, <3>1, <3>2, PlainMoves
  <2> QED
    BY <2>1, <2>2
<1>9. \E q : ReaderAt(r, q)
  BY <1>1, <1>2, <1>3, <1>4, <1>5, <1>6, <1>7, <1>8 DEF Read
<1>10. UNCHANGED <<cache, warm, best>>
  BY DEF Read, ReadHeld, ReadAnchor, ReadCached, ReadByHash, ReadTip, FallbackOK, FallbackFail,
         ReadKnown, ReaderTo, ReaderIs
<1> QED
  BY <1>9, <1>10

\* The roots cached can be counted.
LEMMA CacheCounted == IsFiniteSet(Cached) /\ Cardinality(Cached) \in Nat
<1>1. IsFiniteSet(Heights)
  <2>1. 0 \in Int /\ MaxHeight \in Int /\ Heights = 0..MaxHeight
    BY Network
  <2>2. IsFiniteSet(0..MaxHeight)
    BY <2>1, FS_Interval
  <2> QED
    BY <2>1, <2>2
<1> QED
  BY <1>1, FS_Subset, FS_CardinalityType DEF Cached

\* A cache that is not full takes one more root.
LEMMA CacheGrows ==
  ASSUME Cardinality(Cached) < FallbackCap, NEW h \in Heights, Cached' \subseteq Cached \cup {h}
  PROVE  Cardinality(Cached)' <= FallbackCap
<1>2. IsFiniteSet(Cached) /\ Cardinality(Cached) \in Nat
  BY CacheCounted
<1>3. /\ IsFiniteSet(Cached \cup {h}) /\ Cardinality(Cached \cup {h}) \in Nat
      /\ Cardinality(Cached \cup {h}) <= Cardinality(Cached) + 1
  <2>1. /\ IsFiniteSet(Cached \cup {h})
        /\ Cardinality(Cached \cup {h}) = IF h \in Cached THEN Cardinality(Cached)
                                          ELSE Cardinality(Cached) + 1
    BY <1>2, FS_AddElement
  <2> QED
    BY <1>2, <2>1
<1>4. IsFiniteSet(Cached') /\ Cardinality(Cached') <= Cardinality(Cached \cup {h})
  BY <1>3, FS_Subset
<1>5. Cardinality(Cached') \in Nat
  BY <1>4, FS_CardinalityType
<1>6. FallbackCap \in Nat
  BY Network
<1> QED
  BY <1>2, <1>3, <1>4, <1>5, <1>6

\* The root that is booked is of the height it is kept under.
LEMMA BookMoves ==
  ASSUME Reads, NEW r \in Reader, Book(r)
  PROVE  /\ \E q : ReaderAt(r, q)
         /\ cache' \in [Heights -> Header \cup {NoHeader}]
         /\ CacheSound'
         /\ UNCHANGED <<warm, best>>
<1>0. ReadType /\ reader[r] \in Request /\ Sound(reader[r])
  BY DEF Reads, ReadType
<1>1. PICK kind \in {"root", "header", "tip", "hash"}, h \in Heights, x \in Header :
        kind = reader[r].kind /\ h = reader[r].h /\ x = reader[r].x /\ HeightOf[x] = h
  BY <1>0, Network DEF Book, Request, Sound
<1>2. PICK src \in {"history", "fallback"} : src = AnchoredSource(h)
  BY DEF AnchoredSource
<1>3. PICK pc \in {"known", "done"} : pc = Answered(kind) /\ (pc = "known" => kind = "root")
  BY DEF Answered
<1>4. ReaderTo(r, pc, kind, h, x, src)
  BY <1>1, <1>2, <1>3 DEF Book
<1>5. \E q : ReaderAt(r, q)
  BY <1>0, <1>1, <1>2, <1>3, <1>4, PlainMoves
<1>6. cache \in [Heights -> Header \cup {NoHeader}] /\ CacheSound
  BY DEF Reads, ReadType
<1>7. \/ cache' = cache
      \/ cache' = [k \in Heights |-> IF k = h THEN x ELSE NoHeader]
      \/ cache' = [cache EXCEPT ![h] = x] /\ ~(Cardinality(Cached) >= FallbackCap)
  BY <1>1 DEF Book, CacheWith
<1>8. /\ cache' \in [Heights -> Header \cup {NoHeader}]
      /\ \A k \in Heights : cache'[k] # NoHeader => (k = h /\ cache'[k] = x) \/ cache'[k] = cache[k]
  BY <1>6, <1>7
<1>9. CacheSound'
  <2>1. \A k \in Heights : cache'[k] # NoHeader => HeightOf[cache'[k]] = k
    BY <1>1, <1>6, <1>8 DEF CacheSound
  <2>2. Cardinality(Cached)' <= FallbackCap
    <3>1. CASE cache' = cache
      BY <1>6, <3>1 DEF CacheSound, Cached
    <3>2. CASE cache' = [k \in Heights |-> IF k = h THEN x ELSE NoHeader]
      <4>1. Cached' = {h}
        BY <1>1, <3>2, Network DEF Cached
      <4>2. Cardinality(Cached') = 1
        BY <4>1, FS_Singleton
      <4> QED
        BY <4>2, HeaderStoreAssumption
    <3>3. CASE cache' = [cache EXCEPT ![h] = x] /\ ~(Cardinality(Cached) >= FallbackCap)
      <4>1. Cached' \subseteq Cached \cup {h}
        BY <1>6, <3>3 DEF Cached
      <4>2. Cardinality(Cached) < FallbackCap
        BY <3>3, CacheCounted, Network
      <4> QED
        BY <4>1, <4>2, CacheGrows
    <3> QED
      BY <1>7, <3>1, <3>2, <3>3
  <2> QED
    BY <2>1, <2>2 DEF CacheSound
<1>10. UNCHANGED <<warm, best>>
  BY DEF Book, ReaderTo, ReaderIs
<1> QED
  BY <1>5, <1>8, <1>9, <1>10

\* The warm-up keeps roots of the anchor service's chain.
LEMMA WarmReads ==
  ASSUME Reads, NEW h \in Heights, WarmOne(h)
  PROVE  Reads'
<1>1. PICK x \in ChainOf[best] : HeightOf[x] = h /\ cache' = [cache EXCEPT ![h] = x]
  BY DEF WarmOne
<1>2. x \in Header
  BY <1>1, BestChain DEF Reads
<1>3. UNCHANGED <<at, delivered, reader, warm, best>> /\ Cardinality(Cached) < FallbackCap
  BY DEF WarmOne, storeVars
<1>4. ReadType'
  BY <1>1, <1>2, <1>3 DEF Reads, ReadType
<1>5. \A k \in Heights : cache'[k] = IF k = h THEN x ELSE cache[k]
  BY <1>1 DEF Reads, ReadType
<1>6. CacheSound'
  <2>1. \A k \in Heights : cache'[k] # NoHeader => HeightOf[cache'[k]] = k
    BY <1>1, <1>5 DEF Reads, CacheSound
  <2>2. Cached' \subseteq Cached \cup {h}
    BY <1>5 DEF Cached
  <2> QED
    BY <1>3, <2>1, <2>2, CacheGrows DEF CacheSound
<1>7. Sourced'
  BY <1>3 DEF Reads, Sourced, Received
<1>8. \A r \in Reader : Sound(reader[r])'
  BY <1>3, SoundStays DEF Reads
<1> QED
  BY <1>4, <1>6, <1>7, <1>8 DEF Reads

\* The readers start idle, and keep to the fourth layer.
LEMMA ReadsInvariance == Spec => []Reads
<1>1. Init => Reads
  <2> SUFFICES ASSUME Init PROVE Reads
    OBVIOUS
  <2>0. 0 \in Heights
    BY Network
  <2>1. ReadType
    BY <2>0, Network DEF Init, ReadType, Request, IdleReader
  <2>2. Sourced /\ CacheSound
    <3>1. Cached = {}
      BY DEF Init, Cached
    <3>2. Cardinality(Cached) = 0
      BY <3>1, FS_EmptySet
    <3> QED
      BY <3>2, Network DEF Init, Sourced, CacheSound
  <2>3. \A r \in Reader : Sound(reader[r])
    BY DEF Init, Sound, IdleReader
  <2> QED
    BY <2>1, <2>2, <2>3 DEF Reads
<1>2. ASSUME Core, Tips, Reads, [Next]_vars PROVE Reads'
  <2>1. ASSUME NEW l \in Lane, Observe(l) PROVE Reads'
    <3>1. UNCHANGED <<cache, reader, warm, best>> /\ delivered \subseteq delivered'
      BY <2>1, LaneLeaves
    <3>2. Sourced'
      BY <1>2, <2>1, LaneSourced DEF Reads
    <3>3. ReadType' /\ CacheSound'
      BY <1>2, <3>1 DEF Reads, ReadType, CacheSound, Cached
    <3>4. \A r \in Reader : Sound(reader[r])'
      BY <1>2, <3>1, SoundStays DEF Reads
    <3> QED
      BY <3>2, <3>3, <3>4 DEF Reads
  <2>2. ASSUME NEW r \in Reader, Read(r) PROVE Reads'
    <3>1. /\ \E q : ReaderAt(r, q)
          /\ cache' \in [Heights -> Header \cup {NoHeader}]
          /\ CacheSound'
          /\ UNCHANGED <<warm, best>>
      <4>1. CASE Book(r)
        BY <1>2, <4>1, BookMoves
      <4>2. CASE ~Book(r)
        BY <1>2, <2>2, <4>2, ReadMoves DEF Tips, Reads, ReadType, CacheSound, Cached
      <4> QED
        BY <4>1, <4>2
    <3>2. PICK q : ReaderAt(r, q)
      BY <3>1
    <3>3. UNCHANGED <<at, delivered>>
      BY <2>2, Elsewhere
    <3>4. ReadType'
      BY <1>2, <3>1, <3>2 DEF Reads, ReadType, ReaderAt
    <3>5. CacheSound'
      BY <3>1
    <3>6. Sourced'
      BY <1>2, <3>3 DEF Reads, Sourced, Received
    <3>7. \A s \in Reader : reader'[s] = q \/ reader'[s] = reader[s]
      BY <3>2 DEF ReaderAt
    <3>8. ASSUME NEW s \in Reader PROVE Sound(reader[s])'
      <4>1. PICK p : p = reader'[s] /\ Sound(p)
        BY <1>2, <3>2, <3>7 DEF Reads, ReaderAt
      <4>2. Sound(p)'
        BY <3>3, <4>1, SoundStays
      <4> QED
        BY <4>1, <4>2 DEF Sound
    <3> QED
      BY <3>4, <3>5, <3>6, <3>8 DEF Reads
  <2>3. ASSUME NEW h \in Heights, WarmOne(h) PROVE Reads'
    BY <1>2, <2>3, WarmReads
  <2>4. CASE WarmEnd \/ BestMoves
    <3>1. UNCHANGED <<at, delivered, reader, cache>>
      BY <2>4 DEF WarmEnd, BestMoves, storeVars
    <3>2. ReadType'
      BY <1>2, <2>4, Network DEF WarmEnd, BestMoves, Reads, ReadType
    <3>3. Sourced' /\ CacheSound'
      BY <1>2, <3>1 DEF Reads, Sourced, Received, CacheSound, Cached
    <3>4. \A r \in Reader : Sound(reader[r])'
      BY <1>2, <3>1, SoundStays DEF Reads
    <3> QED
      BY <3>2, <3>3, <3>4 DEF Reads
  <2>5. CASE UNCHANGED vars
    <3>1. UNCHANGED <<at, delivered, reader, cache, warm, best>>
      BY <2>5 DEF vars
    <3>2. ReadType' /\ Sourced' /\ CacheSound'
      BY <1>2, <3>1 DEF Reads, ReadType, Sourced, Received, CacheSound, Cached
    <3>3. \A r \in Reader : Sound(reader[r])'
      BY <1>2, <3>1, SoundStays DEF Reads
    <3> QED
      BY <3>2, <3>3 DEF Reads
  <2> QED
    BY <1>2, <2>1, <2>2, <2>3, <2>4, <2>5 DEF Next
<1> QED
  BY <1>1, <1>2, CoreInvariance, TipsInvariance, PTL DEF Spec

-----------------------------------------------------------------------------
(* The properties *)

\* The four layers together.
LEMMA Invariance == Spec => []IInv
BY CoreInvariance, TipsInvariance, WalksInvariance, ReadsInvariance, PTL DEF IInv

\* Observe gives every header the height it has in the network, whatever the
\* lanes interleave, and canon and byHash keep it.
THEOREM TrueHeightsHolds == Spec => []TrueHeights
<1>1. ASSUME IInv PROVE TrueHeights
  <2>1. TypeOK
    BY <1>1 DEF IInv, Core, StoreType, LaneTable, Reads, ReadType, Request, TypeOK
  <2> QED
    BY <1>1, <2>1 DEF IInv, Core, Located, TrueHeights
<1> QED
  BY <1>1, Invariance, PTL

\* byHash and at agree through putLocked and pruneLocked, and lowest is below
\* every entry.
THEOREM IndexSoundHolds == Spec => []IndexSound
<1>1. ASSUME IInv PROVE IndexSound
  BY <1>1 DEF IInv, Core, Indexed
<1> QED
  BY <1>1, Invariance, PTL

\* The tip is known at its height, and the tracker ends at it, however the
\* lanes' calls of Learn interleave.
THEOREM TipReportedHolds == Spec => []TipReported
<1>1. ASSUME IInv PROVE TipReported
  <2> SUFFICES ASSUME \A l \in Lane : lane[l].pc \in {"idle", "lookup"}
               PROVE  /\ \A x \in Header : at[x] # NoEntry => at[x].h <= tipH
                      /\ tip # Anchor => tracker = tipH
    BY <1>1 DEF IInv, Tips, TipKnown, TrackerBehind, TipReported
  <2>1. \A l \in Lane : lane[l].pc \notin {"chain", "walk", "learn"}
    OBVIOUS
  <2>2. \A x \in Header : at[x] # NoEntry => at[x].h <= tipH
    BY <1>1, <2>1 DEF IInv, Core, Located, Tips, NothingHigher
  <2>3. tip # Anchor => tracker = tipH
    BY <1>1, <2>1 DEF IInv, Tips, TipHeard
  <2> QED
    BY <2>2, <2>3
<1> QED
  BY <1>1, Invariance, PTL

\* Between the walks of recanonLocked, RootAt serves the tip's own chain, as
\* long as nothing was re-anchored.
THEOREM CanonServedHolds == Spec => []CanonServed
<1>1. ASSUME IInv PROVE CanonServed
  BY <1>1 DEF IInv, Walks, Rooted, ServedOnTip, CanonServed
<1> QED
  BY <1>1, Invariance, PTL

\* What the read API and RootAt book to the lane, and a header served as known,
\* was received by this host and its work checked.
THEOREM LaneAnswersHolds == Spec => []LaneAnswers
<1>1. ASSUME IInv PROVE LaneAnswers
  <2> SUFFICES ASSUME NEW r \in Reader
               PROVE  LET q == reader[r]
                      IN  q.src = "lane" \/ (q.known /\ q.kind \in {"header", "hash"})
                            => Received(q.x)
    BY DEF LaneAnswers
  <2>1. Sound(reader[r])
    BY <1>1 DEF IInv, Reads
  <2> QED
    BY <2>1 DEF Sound
<1> QED
  BY <1>1, Invariance, PTL

\* RootAt, HeaderForHeight and the cache answer with a header of the height
\* asked for, and fallbackRoots keeps to its bound, though answers arrive after
\* others have filled or emptied it.
THEOREM AnswerHeightsHolds == Spec => []AnswerHeights
<1>1. ASSUME IInv PROVE AnswerHeights
  <2>1. \A r \in Reader : reader[r].x # NoHeader => HeightOf[reader[r].x] = reader[r].h
    BY <1>1 DEF IInv, Reads, Sound
  <2> QED
    BY <1>1, <2>1 DEF IInv, Reads, CacheSound, AnswerHeights
<1> QED
  BY <1>1, Invariance, PTL

\* recanonLocked replaces a root that is served only below the height of the
\* tip, by a header of the tip's chain.
THEOREM HigherChainReplacesHolds == Spec => HigherChainReplaces
<1> DEFINE Replaced(h) ==
      CanonHeld(h) /\ canon'[h] \notin {canon[h], NoHeader} => h < tipH /\ canon'[h] \in ChainOf[tip]
<1>1. ASSUME IInv, [Next]_vars PROVE \A h \in Heights : Replaced(h)
  <2>1. ASSUME canon' = canon PROVE \A h \in Heights : Replaced(h)
    BY <2>1
  <2>2. ASSUME NEW l \in Lane, NEW x \in Header, NEW k \in Heights,
               lane[l].pc = "walk", x = lane[l].hdr, k = lane[l].h,
               \A h \in Heights : canon'[h] \in {canon[h], NoHeader} \/ (h = k /\ canon'[h] = x)
        PROVE  \A h \in Heights : Replaced(h)
    <3>1. x \in ChainOf[tip] /\ (k = tipH => canon[tipH] = NoHeader)
      BY <1>1, <2>2 DEF IInv, Walks, Walked
    <3>2. \A h \in Heights : CanonHeld(h) => h <= tipH /\ canon[h] # NoHeader
      BY <1>1 DEF IInv, Walks, Walked, CanonHeld
    <3>3. tipH \in Int /\ k \in Int
      BY <1>1, Network DEF IInv, Core, StoreType
    <3>4. CanonHeld(k) => k < tipH
      BY <3>1, <3>2, <3>3
    <3> QED
      BY <2>2, <3>1, <3>4
  <2>3. ASSUME NEW l \in Lane, RecanonStep(l) PROVE \A h \in Heights : Replaced(h)
    <3>1. PICK x, p \in Header, h \in Heights : Stepped(l, x, p, h)
      BY <1>1, <2>3, StepMoves DEF IInv
    <3>2. /\ lane[l].pc = "walk" /\ x = lane[l].hdr /\ h = lane[l].h
          /\ \A k \in Heights : canon'[k] \in {canon[k], NoHeader} \/ (k = h /\ canon'[k] = x)
      BY <3>1 DEF Stepped
    <3> HIDE DEF Replaced
    <3> QED
      BY <2>2, <3>2
  <2>4. ASSUME NEW l \in Lane, RecanonEnd(l) PROVE \A h \in Heights : Replaced(h)
    <3>1. PICK x \in Header, h \in Heights : Ended(l, x, h)
      BY <1>1, <2>4, EndMoves DEF IInv
    <3>2. /\ lane[l].pc = "walk" /\ x = lane[l].hdr /\ h = lane[l].h
          /\ \A k \in Heights : canon'[k] \in {canon[k], NoHeader} \/ (k = h /\ canon'[k] = x)
      BY <3>1 DEF Ended
    <3> HIDE DEF Replaced
    <3> QED
      BY <2>2, <3>2
  <2>5. ASSUME NEW l \in Lane, Observe(l) PROVE RecanonStep(l) \/ RecanonEnd(l) \/ canon' = canon
    BY <2>5 DEF Observe, Reject, Redeliver, ParentKnown, ParentUnknown, Arrival, LookupOK, LookupFail,
                Chain, Learn, storeVars
  <2> HIDE DEF Replaced
  <2> QED
    BY <1>1, <2>1, <2>3, <2>4, <2>5, Elsewhere DEF Next, vars
<1> QED
  BY <1>1, Invariance, PTL DEF Spec, HigherChainReplaces

=============================================================================
