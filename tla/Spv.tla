-------------------------------- MODULE Spv --------------------------------
(***************************************************************************)
(* One verification of a BEEF object by src/pkg/spv, against a chain       *)
(* tracker whose chain grows, reorganises and fails between two calls, and *)
(* what src/feed/verify.go does with the verdict.                          *)
(*                                                                         *)
(* Every call of the tracker is a step of its own; the pure work between   *)
(* two of them belongs to the step that follows.  The queues of the two    *)
(* walks are sets: their order, which for the tips is the order of a Go    *)
(* map, decides only which of several faults is met first.                 *)
(*                                                                         *)
(* Data abstraction.  An object is what the parser hands over: a map from  *)
(* ids to transactions, whose inputs name their sources by id, so that a   *)
(* source is linked if it is in the map and cannot be another than the one *)
(* named.  A merkle path is the root it computes and its height.  A script *)
(* passes under all rules, under none, or only under those before Genesis, *)
(* or it runs for longer than any deadline.                                *)
(***************************************************************************)
EXTENDS Integers, Sequences, FiniteSets, FiniteSetsExt, Functions

CONSTANTS
  Object,                \* the objects that may arrive
  Confs,                 \* the configurations of the instance
  Branch,                \* the chains of the network
  RootOf,                \* the root at each height of each chain
  MaxHeight,             \* the heights of the instance are 0..MaxHeight
  StartHeight,           \* the height of the store's anchor
  MaxSats,               \* maxSatoshis
  CoinbaseMaturity,      \* coinbaseMaturity
  ConfiscationMaturity,  \* confiscationMaturity
  LockTimeThreshold,     \* lockTimeThreshold
  Genesis,               \* ActivationHeights.Genesis
  NoTx,                  \* the zero txid
  NoRoot,                \* what a path computes for a transaction it does not hold
  NoPath                 \* a transaction without a merkle path

Heights == 0..MaxHeight

\* The mode is the feed's, or that of another caller of Verify.  The bridge's
\* tracker is headers.Tracker, and it always runs the scripts; another caller's
\* may be chainclient.Client, and it may skip them.
Conf ==
  {c \in [tracker : {"store", "client"}, finality : {"ignore", "require"},
          mode : {"shadow", "enforce", "library"}, skip : BOOLEAN, key : {"shared", "short"}] :
     c.skip \/ c.tracker = "client" => c.mode = "library"}

\* What the parser hands over is an object of this shape.
Shape(o) ==
  /\ o.parses \in BOOLEAN /\ NoTx \notin DOMAIN o.txs
  /\ \A t \in DOMAIN o.txs :
       LET tx == o.txs[t]
       IN  /\ tx.inputs \in Seq(Range(tx.inputs)) /\ tx.outputs \in Seq(Range(tx.outputs))
           /\ \A i \in DOMAIN tx.outputs : tx.outputs[i].sats \in Nat
           /\ tx.lock \in Nat
           /\ tx.path # NoPath => tx.path.height \in Heights /\ tx.path.root \in Nat \cup {NoRoot}

\* The transactions are finitely many, and none is its own ancestor: an id is the
\* hash of a transaction that names its sources by theirs.  So some first one of
\* any set spends no other of it, and some last one is spent by no other.
Ordered(o) ==
  /\ IsFiniteSet(DOMAIN o.txs)
  /\ \A S \in SUBSET DOMAIN o.txs :
       S # {} =>
         /\ \E t \in S : \A i \in DOMAIN o.txs[t].inputs : o.txs[t].inputs[i].src \notin S
         /\ \E t \in S : \A u \in S : \A i \in DOMAIN o.txs[u].inputs : o.txs[u].inputs[i].src # t

ASSUME SpvAssumption ==
  /\ Confs \subseteq Conf
  /\ MaxHeight \in Nat /\ StartHeight \in Heights /\ MaxSats \in Nat
  /\ Genesis \in 0..(MaxHeight + 1) /\ LockTimeThreshold \in Nat \ {0}
  /\ CoinbaseMaturity \in Nat /\ ConfiscationMaturity \in Nat
  /\ \A b \in Branch : RootOf[b] \in [Heights -> Nat]
  /\ \A o \in Object : Shape(o) /\ Ordered(o)

VARIABLES
  obj,      \* the object under verification
  conf,     \* the verifier's and the feed's configuration
  chain,    \* the tracker's chain: its branch and tip, and Tracker.height
  expired,  \* the verification's context is done
  v,        \* the verification: graph, watchTracker and where it is
  verdict,  \* Verdict
  sent,     \* what the feed did with the object
  hist      \* history: the branches the tracker answers from, the first tip, and
            \* whether a root was answered with "there is no such header"

vars == <<obj, conf, chain, expired, v, verdict, sent, hist>>

Unmined == MaxHeight + 1   \* unminedHeight, above every height
NoTip == -1                \* graph.tip is nil
Overflow == -1             \* addSats refused

-----------------------------------------------------------------------------
(* Transactions *)

Ids(o) == DOMAIN o.txs
Body(t) == obj.txs[t]

\* The in-object sources of a transaction: what FindAtomicTransactionByHash links.
Sources(o, t) == {o.txs[t].inputs[i].src : i \in DOMAIN o.txs[t].inputs} \cap Ids(o)

\* The transactions no other transaction of the object spends.
Tips(o) == {t \in Ids(o) : \A u \in Ids(o) : t \notin Sources(o, u)}

NullOutpoint(in) == in.src = NoTx

IsCoinbase(tx) == Len(tx.inputs) = 1 /\ NullOutpoint(tx.inputs[1])

AddSats(total, n) ==
  IF total = Overflow \/ n > MaxSats \/ total > MaxSats - n THEN Overflow ELSE total + n

OutTotal(tx) == FoldFunction(LAMBDA out, total : AddSats(total, out.sats), 0, tx.outputs)

\* Is there an output behind an input?  Without its source there is not.
Spendable(o, in) == in.src \in Ids(o) /\ in.vout \in DOMAIN o.txs[in.src].outputs

Spent(o, in) == o.txs[in.src].outputs[in.vout]

\* Mutant: a tie with the parent's depth is not one deeper.
DepthFlat(o) ==
  LET depth[t \in Ids(o)] == Max({0} \cup {depth[p] : p \in Sources(o, t)})
  IN  Max({0} \cup {depth[t] : t \in Ids(o)})

\* The longest chain of in-object parents, as work measures it.
Depth(o) ==
  LET depth[t \in Ids(o)] == Max({0} \cup {depth[p] + 1 : p \in Sources(o, t)})
  IN  Max({0} \cup {depth[t] : t \in Ids(o)})

-----------------------------------------------------------------------------
(* The chain tracker: what its calls may answer *)

Fails == -2     \* no answer: an error
NotHeld == -3   \* an answer: there is no such header

\* Tracker.IsValidRootForHeight asks the store.  It answers from its chain, where
\* a gap may keep the root of a chain it has left, from the fallback roots it
\* keeps, or from its anchor, which may be ahead of it or on another chain.  It
\* never answers that there is no header.
TrackerRoots(h) == {Fails} \cup {RootOf[b][h] : b \in hist.branches}

\* The client asks the read API of such a store, and reads a 404 as a root that
\* is not there, also where the store's own read failed.
RootAnswers(h) == TrackerRoots(h) \cup (IF conf.tracker = "client" THEN {NotHeld} ELSE {})

\* CurrentHeight: the tracker tells what it learned, the client asks for the tip.
HeightAnswers == IF conf.tracker = "store" THEN {chain.learned} ELSE {chain.top, Fails}

\* The chain grows by one, on its branch or on another that has overtaken it.
\* What it does after the verdict is nothing to the verification.
Extend ==
  /\ v.pc \notin {"settle", "done"} /\ chain.top < MaxHeight
  /\ \E b \in Branch :
       /\ chain' = [chain EXCEPT !.branch = b, !.top = @ + 1]
       /\ hist' = [hist EXCEPT !.branches = @ \cup {b}]
  /\ UNCHANGED <<obj, conf, expired, v, verdict, sent>>

\* headerHandler tells the tracker of a header that became the tip, after the
\* store has it; of the anchor nobody tells it, so until then its height is 0.
Learn ==
  /\ v.pc \notin {"settle", "done"}
  /\ \E h \in (StartHeight + 1)..chain.top :
       h > chain.learned /\ chain' = [chain EXCEPT !.learned = h]
  /\ UNCHANGED <<obj, conf, expired, v, verdict, sent, hist>>

Expire ==
  /\ v.pc \notin {"settle", "done"} /\ ~expired
  /\ expired' = TRUE
  /\ UNCHANGED <<obj, conf, chain, v, verdict, sent, hist>>

-----------------------------------------------------------------------------
(* verify: the parser and the tips *)

NewRun == [pc |-> "parse", tx |-> NoTx, todo |-> {}, seen |-> {}, tried |-> {}, mined |-> {},
           tip |-> NoTip, vin |-> 0, total |-> 0, scripts |-> 0,
           failed |-> FALSE, notYet |-> FALSE, err |-> "none"]

NoVerdict == [result |-> "none", reason |-> "none", tip |-> NoTip, scripts |-> 0, depth |-> 0]

VerdictIs(result, reason) ==
  verdict' = [result |-> result, reason |-> reason, tip |-> v.tip, scripts |-> v.scripts,
              depth |-> IF obj.parses THEN Depth(obj) ELSE 0]

Step(w) == v' = w /\ UNCHANGED <<obj, conf, chain, expired, verdict, sent, hist>>

\* A check has failed; what that means is for Classify to say.
Fail(w, err) == Step([w EXCEPT !.pc = "classify", !.err = err])

\* The result is there, and only the verdict is kept.
End(result, reason) ==
  /\ VerdictIs(result, reason)
  /\ v' = [NewRun EXCEPT !.pc = "settle"]
  /\ UNCHANGED <<obj, conf, chain, expired, sent, hist>>

\* An object that does not parse, or that holds no transaction.
ParseRefused ==
  /\ v.pc = "parse" /\ (~obj.parses \/ Ids(obj) = {})
  /\ End("refused", "parse")

Parse ==
  /\ v.pc = "parse" /\ obj.parses /\ Ids(obj) # {}
  /\ Step([v EXCEPT !.pc = "tips"])

\* graph.check begins with another tip.
NextTip(t) ==
  /\ v.pc = "tips" /\ t \in Tips(obj) \ v.tried
  /\ Step([v EXCEPT !.pc = "prove", !.tried = @ \cup {t}, !.todo = {t}, !.seen = {t}])

\* Mutant: one tip is enough, the subject an engine would pick.
AllPassedOne ==
  /\ v.pc = "tips" /\ v.tried # {}
  /\ End("ok", "none")

AllPassed ==
  /\ v.pc = "tips" /\ Tips(obj) \subseteq v.tried
  /\ End("ok", "none")

-----------------------------------------------------------------------------
(* proveMined *)

ProveLinks(t) ==
  /\ v.pc = "prove" /\ t \in v.todo /\ Body(t).path = NoPath
  /\ LET new == Sources(obj, t) \ v.seen
     IN  Step([v EXCEPT !.todo = (@ \ {t}) \cup new, !.seen = @ \cup new])

\* A path that does not hold the transaction computes no root.
ProveBroken(t) ==
  /\ v.pc = "prove" /\ t \in v.todo /\ Body(t).path # NoPath /\ Body(t).path.root = NoRoot
  /\ Fail(v, "structure")

\* MerklePath.Verify asks the tracker for the root.
ProveRoot(t) ==
  /\ v.pc = "prove" /\ t \in v.todo /\ Body(t).path # NoPath /\ Body(t).path.root # NoRoot
  /\ \E answer \in RootAnswers(Body(t).path.height) :
       /\ v' = CASE answer = Fails -> [v EXCEPT !.failed = TRUE, !.pc = "classify", !.err = "tracker"]
                 [] answer = Body(t).path.root -> [v EXCEPT !.todo = @ \ {t}, !.mined = @ \cup {t}]
                 [] OTHER -> [v EXCEPT !.pc = "askTip", !.tx = t]
       /\ hist' = [hist EXCEPT !.absent = @ \/ answer = NotHeld]
  /\ UNCHANGED <<obj, conf, chain, expired, verdict, sent>>

\* watchTracker asks for the tip, to tell a root that is wrong from one that is
\* not there yet.  A failure of this second call is not recorded.
AskTip ==
  /\ v.pc = "askTip"
  /\ \E answer \in HeightAnswers :
       /\ v' = [v EXCEPT !.pc = "classify", !.err = "merkle",
                         !.notYet = answer # Fails /\ Body(v.tx).path.height > answer]
  /\ UNCHANGED <<obj, conf, chain, expired, verdict, sent, hist>>

\* Every path below the tip is proven; the transactions without one are checked.
Proven ==
  /\ v.pc = "prove" /\ v.todo = {}
  /\ \E t \in v.seen : /\ \A u \in v.seen : t \notin Sources(obj, u)
                       /\ Step([v EXCEPT !.pc = "check", !.todo = {t}, !.seen = {}])

-----------------------------------------------------------------------------
(* checkTx *)

\* The faults found before the tracker is asked.
StructureFault(tx) ==
  \/ IsCoinbase(tx) \/ tx.inputs = <<>> \/ tx.outputs = <<>>
  \/ OutTotal(tx) = Overflow
  \/ \E i \in DOMAIN tx.outputs : tx.outputs[i].p2sh
  \/ \E i \in DOMAIN tx.inputs : NullOutpoint(tx.inputs[i])
  \/ \E i, j \in DOMAIN tx.inputs :
       /\ i < j
       /\ tx.inputs[i].src = tx.inputs[j].src /\ tx.inputs[i].vout = tx.inputs[j].vout

CheckMined(t) ==
  /\ v.pc = "check" /\ t \in v.todo /\ t \in v.mined
  /\ Step([v EXCEPT !.todo = @ \ {t}, !.seen = @ \cup {t}])

CheckStructure(t) ==
  /\ v.pc = "check" /\ t \in v.todo \ v.mined
  /\ IF StructureFault(Body(t))
     THEN Fail(v, "structure")
     ELSE Step([v EXCEPT !.pc = "final", !.tx = t])

\* A lock that the policy looks at: a lock time and an input that is not final.
Locked(tx) ==
  /\ conf.finality = "require" /\ tx.lock # 0
  /\ \E i \in DOMAIN tx.inputs : ~tx.inputs[i].final

\* Does the step that comes next need the tip?
FinalNeedsTip == v.pc = "final" /\ Locked(Body(v.tx)) /\ Body(v.tx).lock < LockTimeThreshold

\* The maturities an input's source must have reached.
Maturities(in) ==
  {m \in {CoinbaseMaturity, ConfiscationMaturity} :
     /\ in.src \in Ids(obj)
     /\ \/ m = CoinbaseMaturity /\ IsCoinbase(Body(in.src))
        \/ m = ConfiscationMaturity /\ Body(in.src).confiscation}

InputNeedsTip ==
  /\ v.pc = "inputs" /\ v.vin \in DOMAIN Body(v.tx).inputs
  /\ LET in == Body(v.tx).inputs[v.vin]
     IN  Spendable(obj, in) /\ Maturities(in) # {} /\ in.src \in v.mined

\* The tip is asked for once and kept.
ChainTip ==
  /\ v.tip = NoTip /\ (FinalNeedsTip \/ InputNeedsTip)
  /\ \E answer \in HeightAnswers :
       IF answer = Fails
       THEN Fail([v EXCEPT !.failed = TRUE], "tracker")
       ELSE Step([v EXCEPT !.tip = answer])

\* Finality under the policy; then a confiscation transaction is refused.
CheckFinal ==
  /\ v.pc = "final" /\ (FinalNeedsTip => v.tip # NoTip)
  /\ IF \/ Locked(Body(v.tx)) /\ (~FinalNeedsTip \/ Body(v.tx).lock > v.tip)
        \/ Body(v.tx).confiscation
     THEN Fail(v, "structure")
     ELSE Step([v EXCEPT !.pc = "inputs", !.vin = 1, !.total = 0])

DeepEnough(src, maturity) ==
  src \in v.mined /\ v.tip + 1 - Body(src).path.height >= maturity

CheckInput ==
  /\ v.pc = "inputs" /\ v.vin \in DOMAIN Body(v.tx).inputs
  /\ InputNeedsTip => v.tip # NoTip
  /\ LET in == Body(v.tx).inputs[v.vin]
         sum == AddSats(v.total, Spent(obj, in).sats)
     IN  IF \/ ~Spendable(obj, in)
            \/ \E m \in Maturities(in) : ~DeepEnough(in.src, m)
            \/ sum = Overflow
         THEN Fail(v, "structure")
         ELSE Step([v EXCEPT !.vin = @ + 1, !.total = sum])

\* The transaction is through: its sources come next.
Checked == [v EXCEPT !.pc = "check", !.tx = NoTx, !.vin = 0, !.total = 0, !.seen = @ \cup {v.tx},
                     !.todo = (@ \ {v.tx}) \cup (Sources(obj, v.tx) \ (v.seen \cup {v.tx}))]

CheckAmounts ==
  /\ v.pc = "inputs" /\ v.vin > Len(Body(v.tx).inputs)
  /\ IF OutTotal(Body(v.tx)) > v.total THEN Fail(v, "structure")
     ELSE IF conf.skip THEN Step(Checked)
     ELSE Step([v EXCEPT !.pc = "scripts", !.vin = 1])

\* The height a coin is judged at; a P2SH output that is no mined coinbase's
\* can only be from before Genesis.
CoinHeight(in) ==
  LET coin == IF in.src \in v.mined THEN Body(in.src).path.height ELSE Unmined
      old == /\ Genesis # 0 /\ Spent(obj, in).p2sh
             /\ ~(IsCoinbase(Body(in.src)) /\ in.src \in v.mined)
  IN  IF old /\ coin >= Genesis THEN Genesis - 1 ELSE coin

Passes(in) == in.script = "ok" \/ (in.script = "old" /\ CoinHeight(in) < Genesis)

RunScript ==
  /\ v.pc = "scripts" /\ v.vin \in DOMAIN Body(v.tx).inputs
  /\ Body(v.tx).inputs[v.vin].script # "slow"
  /\ LET w == [v EXCEPT !.scripts = @ + 1]
     IN  IF Passes(Body(v.tx).inputs[v.vin]) THEN Step([w EXCEPT !.vin = @ + 1]) ELSE Fail(w, "script")

\* Mutant: the interpreter is not told of the deadline.
ScriptRunsOn == v.pc = "scripts" /\ expired /\ Step(v)

\* The interpreter gives up when the context is done.
ScriptCut ==
  /\ v.pc = "scripts" /\ v.vin \in DOMAIN Body(v.tx).inputs /\ expired
  /\ Fail([v EXCEPT !.scripts = @ + 1], "script")

ScriptsPassed ==
  /\ v.pc = "scripts" /\ v.vin > Len(Body(v.tx).inputs)
  /\ Step(Checked)

TipChecked ==
  /\ v.pc = "check" /\ v.todo = {}
  /\ Step([v EXCEPT !.pc = "tips", !.seen = {}])

-----------------------------------------------------------------------------
(* classify, and the feed *)

\* Mutant: what failed is looked at before why.
ReasonByError ==
  CASE v.err = "script" -> "script" [] expired -> "deadline" [] v.failed -> "tracker"
    [] v.notYet -> "not_yet" [] v.err = "merkle" -> "merkle" [] OTHER -> "structure"

\* What the tracker or the clock did comes before what failed.
Reason ==
  CASE expired -> "deadline"
    [] ~expired /\ v.failed -> "tracker"
    [] ~expired /\ ~v.failed /\ v.notYet -> "not_yet"
    [] OTHER -> v.err

Classify ==
  /\ v.pc = "classify"
  /\ End(IF Reason \in {"deadline", "tracker", "not_yet"} THEN "error" ELSE "refused", Reason)

\* Marker: it binds the key and the exact object.  CheckMarker recomputes it.
NoMarker == <<>>
Marker(key, o) == <<key, o>>
CheckMarker(key, o, value) == key # "short" /\ value = Marker(key, o)

\* Mutant: an object that could not be verified is dropped as well.
DropsUnverified == conf.mode = "enforce" /\ verdict.result # "ok"

\* enforce drops what the verifier refused.
Drops == conf.mode = "enforce" /\ verdict.result = "refused"

\* process: the object is dropped, or submitted with or without the marker.
Settle ==
  /\ v.pc = "settle"
  /\ v' = [v EXCEPT !.pc = "done"]
  /\ sent' = IF conf.mode = "library" THEN sent
             ELSE IF Drops THEN [sent EXCEPT !.to = "dropped"]
             ELSE [sent EXCEPT !.to = "engine",
                               !.marker = IF /\ conf.mode = "enforce" /\ verdict.result = "ok"
                                             /\ conf.key # "short"
                                          THEN Marker(conf.key, obj) ELSE NoMarker]
  /\ UNCHANGED <<obj, conf, chain, expired, verdict, hist>>

\* compare: in shadow mode the two verdicts are compared on the first topic.
Mismatch(engine) ==
  CASE verdict.result = "ok" /\ engine = "refused" -> "bridge_ok_engine_refused"
    [] verdict.result = "refused" /\ engine = "ok" -> "bridge_refused_engine_ok"
    [] OTHER -> "none"

\* The engine takes, refuses or fails (external).
EngineAnswers ==
  /\ v.pc = "done" /\ sent.to = "engine" /\ sent.engine = "none"
  /\ \E answer \in {"ok", "refused", "failed"} :
       sent' = [sent EXCEPT !.engine = answer,
                            !.mismatch = IF conf.mode = "shadow" THEN Mismatch(answer) ELSE "none"]
  /\ UNCHANGED <<obj, conf, chain, expired, v, verdict, hist>>

-----------------------------------------------------------------------------

Init ==
  /\ obj \in Object /\ conf \in Confs
  /\ \E b \in Branch, others \in SUBSET Branch :
       /\ chain = [branch |-> b, top |-> StartHeight, learned |-> 0]
       /\ hist = [branches |-> others \cup {b}, start |-> StartHeight, absent |-> FALSE]
  /\ expired = FALSE
  /\ v = NewRun /\ verdict = NoVerdict
  /\ sent = [to |-> "none", marker |-> NoMarker, engine |-> "none", mismatch |-> "none"]

Walk(t) == NextTip(t) \/ ProveLinks(t) \/ ProveBroken(t) \/ ProveRoot(t) \/ CheckMined(t) \/ CheckStructure(t)

Verify ==
  \/ ParseRefused \/ Parse \/ AllPassed
  \/ \E t \in Ids(obj) : Walk(t)
  \/ AskTip \/ Proven \/ ChainTip \/ CheckFinal \/ CheckInput \/ CheckAmounts
  \/ RunScript \/ ScriptCut \/ ScriptsPassed \/ TipChecked \/ Classify

Next == Verify \/ Settle \/ EngineAnswers \/ Extend \/ Learn \/ Expire

\* A verification runs on its feed worker's goroutine, and a worker has one at
\* a time: every step of it that can be taken is taken.  Its context has a
\* timeout, so that it expires.
Spec == Init /\ [][Next]_vars /\ WF_vars(Verify \/ Settle) /\ WF_vars(Expire)

-----------------------------------------------------------------------------
(* What the verdict must mean: the rules, stated without the walk *)

\* The transactions a tip's verdict can rest on: the tips and, through
\* transactions without a path, their ancestors.
Judged(o, tips) ==
  LET closed == {S \in SUBSET Ids(o) :
                   /\ tips \subseteq S
                   /\ \A t \in S : o.txs[t].path = NoPath => Sources(o, t) \subseteq S}
  IN  {t \in Ids(o) : \A S \in closed : t \in S}

Unproven(o, tips) == {t \in Judged(o, tips) : o.txs[t].path = NoPath}

\* What the values of a function on a finite set add up to.
Total(f) == MapThenSumSet(LAMBDA x : f[x], DOMAIN f)

Values(outs) == [i \in DOMAIN outs |-> outs[i].sats]
SpentValues(o, ins) == [i \in DOMAIN ins |-> Spent(o, ins[i]).sats]

\* The output exists, and a reward or a confiscated coin is old enough.
SourceRight(o, in, tip) ==
  LET src == o.txs[in.src]
      mature(n) == src.path # NoPath /\ src.path.height + n <= tip + 1
  IN  /\ Spendable(o, in)
      /\ IsCoinbase(src) => mature(CoinbaseMaturity)
      /\ src.confiscation => mature(ConfiscationMaturity)

AmountsRight(o, tx) ==
  LET spends == Total(SpentValues(o, tx.inputs))
  IN  Total(Values(tx.outputs)) <= spends /\ spends <= MaxSats

\* The rules for a transaction of the next block after the tip.
Valid(o, tx, tip, finality) ==
  /\ tx.inputs # <<>> /\ tx.outputs # <<>> /\ ~tx.confiscation
  /\ \A i \in DOMAIN tx.outputs : ~tx.outputs[i].p2sh
  /\ Cardinality({<<tx.inputs[i].src, tx.inputs[i].vout>> : i \in DOMAIN tx.inputs}) = Len(tx.inputs)
  /\ \A i \in DOMAIN tx.inputs : SourceRight(o, tx.inputs[i], tip)
  /\ AmountsRight(o, tx)
  /\ finality = "ignore" \/ tx.lock <= Min({tip, LockTimeThreshold - 1})
       \/ \A i \in DOMAIN tx.inputs : tx.inputs[i].final

\* A script for the rules before Genesis is right for a coin of that time, or
\* for one whose form that time alone allowed.
ScriptRight(o, in) ==
  LET src == o.txs[in.src]
      proven == src.path # NoPath
  IN  \/ in.script = "ok"
      \/ /\ in.script = "old" /\ Genesis > 0
         /\ \/ proven /\ src.path.height < Genesis
            \/ Spent(o, in).p2sh /\ ~(IsCoinbase(src) /\ proven)

ScriptsRight(o, tx) == \A i \in DOMAIN tx.inputs : ScriptRight(o, tx.inputs[i])

OnSomeBranch(branches, path) == \E b \in branches : RootOf[b][path.height] = path.root

\* The ancestors of some transactions, in the object.
Below(o, T) ==
  {t \in Ids(o) : \A S \in SUBSET Ids(o) : (\A u \in T \cup S : Sources(o, u) \subseteq S) => t \in S}

\* The ancestors of what the chain itself holds.
Buried(o, branches) ==
  Below(o, {u \in Ids(o) : o.txs[u].path # NoPath /\ OnSomeBranch(branches, o.txs[u].path)})

\* A transaction is as good as a pass says of it: its path is on a chain the
\* tracker follows or, without one, it keeps the rules and its scripts pass.
GoodTx(t, tip) ==
  IF Body(t).path # NoPath THEN OnSomeBranch(hist.branches, Body(t).path)
  ELSE Valid(obj, Body(t), tip, conf.finality) /\ (conf.skip \/ ScriptsRight(obj, Body(t)))

\* Every transaction of an object that passed is good at the tip of today,
\* though they were looked at one by one while the chain moved, but for the
\* ancestors of a mined one (EveryTransactionVerified is without that).
OKVerified ==
  verdict.result = "ok" =>
    /\ obj.parses /\ Ids(obj) # {}
    /\ \A t \in Ids(obj) \ Buried(obj, hist.branches) : GoodTx(t, chain.top)

\* "with them every unproven ancestor, which is every unproven transaction in
\* the object" (spv.go:18): a pass is a word for each transaction of the object,
\* so that an engine "can skip script verification for any transaction in it".
EveryTransactionVerified ==
  verdict.result = "ok" => \A t \in Ids(obj) : GoodTx(t, chain.top)

\* Is there anything wrong with the object, for a verifier at that tip?  For a
\* path, this is a root that it does not compute, or that a chain the tracker
\* answers from has not.
Faulty(tip) ==
  \/ ~obj.parses \/ Ids(obj) = {}
  \/ \E t \in Judged(obj, Tips(obj)) \ Unproven(obj, Tips(obj)) :
       Body(t).path.root = NoRoot \/ \E b \in hist.branches : RootOf[b][Body(t).path.height] # Body(t).path.root
  \/ \E t \in Unproven(obj, Tips(obj)) :
       ~Valid(obj, Body(t), tip, conf.finality) \/ (~conf.skip /\ ~ScriptsRight(obj, Body(t)))

\* A refusal names a fault of the object at the tip the verification saw, or at
\* any if it asked for none: neither a tracker that fails, nor a header still to
\* come, nor the deadline is one.  The bridge has no exception.  Another caller's
\* client has: a 404, which it takes for a root that differs.
RefusedJustified ==
  verdict.result = "refused" =>
    \/ conf.tracker = "client" /\ verdict.reason = "merkle" /\ hist.absent
    \/ \A tip \in (IF verdict.tip = NoTip THEN Heights ELSE {verdict.tip}) : Faulty(tip)

\* "ResultRefused: the object is invalid on its merits" (spv.go:35): there is a
\* fault of it at the height the network had reached before the object came.
RefusedOnMerits ==
  verdict.result = "refused" => Faulty(hist.start)

\* Is there a chain of n parents in the object?
ChainOf(o, n) == \E c \in [0..n -> Ids(o)] : \A i \in 1..n : c[i] \in Sources(o, c[i - 1])

\* The scripts of the transactions a tip is judged by.
ScriptsBelow(o, tip) == Total([t \in Unproven(o, {tip}) |-> Len(o.txs[t].inputs)])

\* The counters of a verdict: the depth is the longest chain of parents, and a
\* pass ran every script below each tip once.
WorkReported ==
  /\ v.pc \in {"settle", "done"} /\ obj.parses =>
       IF Ids(obj) = {} THEN verdict.depth = 0
       ELSE ChainOf(obj, verdict.depth) /\ ~ChainOf(obj, verdict.depth + 1)
  /\ verdict.result = "ok" /\ ~conf.skip =>
       verdict.scripts = Total([tip \in Tips(obj) |-> ScriptsBelow(obj, tip)])

\* The marker lets the engine skip the scripts of the whole object: of every
\* transaction without a path they are right, but for ancestors of a mined one.
\* And what the engine is never shown has a fault at the tip the verifier saw.
TrustEarned ==
  /\ CheckMarker(conf.key, obj, sent.marker) =>
       \A t \in Ids(obj) \ Buried(obj, hist.branches) : Body(t).path = NoPath => ScriptsRight(obj, Body(t))
  /\ sent.to = "dropped" => Faulty(IF verdict.tip = NoTip THEN chain.top ELSE verdict.tip)

\* Every verification ends, whatever the tracker answers, and though a script
\* may run for longer than the deadline; the object is submitted or dropped.
VerificationEnds == <>(v.pc = "done" /\ (conf.mode # "library" => sent.to # "none"))

=============================================================================
