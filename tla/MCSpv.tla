------------------------------- MODULE MCSpv -------------------------------
(* Small objects for Spv: a good one, and that one with a defect each. *)
EXTENDS Spv, TLC

CONSTANTS a, b, c, d, gone, one, two

MCRootOf == one :> [h \in Heights |-> h]
         @@ two :> [h \in Heights |-> IF h < 2 THEN h ELSE 10 + h]

In(src, vout) == [src |-> src, vout |-> vout, final |-> TRUE, script |-> "ok"]
Out(sats) == [sats |-> sats, p2sh |-> FALSE]
Tx(inputs, outputs) ==
  [inputs |-> inputs, outputs |-> outputs, path |-> NoPath, lock |-> 0, confiscation |-> FALSE]
Mined(tx, height, root) == [tx EXCEPT !.path = [height |-> height, root |-> root]]
Obj(txs) == [parses |-> TRUE, txs |-> txs]

Reward(height) == Mined(Tx(<<In(NoTx, 1)>>, <<Out(2), Out(2)>>), height, height)
Coin(height) == Mined(Tx(<<In(gone, 1)>>, <<Out(2), Out(2)>>), height, height)

\* Two tips share an unproven parent, which spends a coin.
Good == Obj(a :> Coin(1) @@ b :> Tx(<<In(a, 1)>>, <<Out(1), Out(1)>>)
            @@ c :> Tx(<<In(b, 1), In(a, 2)>>, <<Out(3)>>)
            @@ d :> Tx(<<In(b, 2)>>, <<Out(1)>>))

\* A chain of two whose last transaction, or whose coin, is as given.
Last(tx) == Obj(a :> Coin(1) @@ c :> tx)
From(coin) == Obj(a :> coin @@ c :> Tx(<<In(a, 1)>>, <<Out(2)>>))
Spend == Tx(<<In(a, 1)>>, <<Out(2)>>)
Script(kind) == [Spend EXCEPT !.inputs[1].script = kind]
Lock(n) == [Spend EXCEPT !.lock = n, !.inputs[1].final = FALSE]

Proofs ==
  {From(Mined(Coin(1), h, r)) : h \in {2, 4}, r \in {2, 4, 12, 14, NoRoot}}

Coins ==
  {From(Reward(1)), From(Reward(2)), From(Tx(<<In(NoTx, 1)>>, <<Out(2)>>)),
   From([Coin(1) EXCEPT !.confiscation = TRUE]), From([Coin(0) EXCEPT !.confiscation = TRUE]),
   From([Coin(1) EXCEPT !.outputs[1].sats = 6])}

Spends ==
  {Last(Script("bad")), Last(Script("old")), Last(Script("slow")), Last(Lock(1)), Last(Lock(3)), Last(Lock(9)),
   Last([Spend EXCEPT !.outputs[1].sats = 3]), Last([Spend EXCEPT !.outputs[1].p2sh = TRUE]),
   Last([Spend EXCEPT !.confiscation = TRUE]), Last([Spend EXCEPT !.outputs = <<>>]),
   Last([Spend EXCEPT !.inputs = <<>>]), Last(Tx(<<In(a, 1), In(a, 1)>>, <<Out(2)>>)),
   Last(Tx(<<In(a, 3)>>, <<Out(2)>>)), Last(Tx(<<In(a, 1), In(gone, 1)>>, <<Out(2)>>)),
   Last(Tx(<<In(a, 1), In(NoTx, 1)>>, <<Out(2)>>))}

\* A coin from before Genesis, and one that is old by its form alone.
Olds ==
  {Obj(a :> Coin(0) @@ c :> Script("old")),
   Obj(a :> [Coin(1) EXCEPT !.outputs[1].p2sh = TRUE] @@ c :> Script("old")),
   Obj(a :> [Reward(1) EXCEPT !.outputs[1].p2sh = TRUE] @@ c :> Script("old"))}

\* A mined transaction d that c spends, over an unmined one that only d spends,
\* or over a coin.
Over(below, height) ==
  Obj(a :> Coin(1) @@ b :> below @@ d :> Mined(Tx(<<In(b, 1)>>, <<Out(2)>>), height, height)
      @@ c :> Tx(<<In(d, 1)>>, <<Out(2)>>))

Hidden ==
  {Over(Spend, 2), Over(Script("bad"), 2), Over(Script("bad"), 4), Over(Mined(Coin(1), 2, 9), 2)}

Shapes ==
  {Good, [Good EXCEPT !.txs[d].inputs[1].script = "bad"],
   [Good EXCEPT !.txs[b].outputs[1].sats = 2], [Good EXCEPT !.parses = FALSE], Obj(<<>>)}

\* The bridge's tracker with each policy and mode, and another caller's client,
\* which runs the scripts or skips them.
MCConf(tracker, finality, mode, skip, key) ==
  [tracker |-> tracker, finality |-> finality, mode |-> mode, skip |-> skip, key |-> key]

MCConfs ==
  {MCConf("store", f, m, FALSE, "shared") : f \in {"ignore", "require"}, m \in {"enforce", "shadow"}}
    \cup {MCConf("store", "require", "enforce", FALSE, "short"),
          MCConf("client", "require", "library", FALSE, "shared"),
          MCConf("client", "ignore", "library", TRUE, "shared")}

StoreIgnores == {MCConf("store", "ignore", "enforce", FALSE, "shared")}

MCObject == Shapes \cup Hidden \cup Proofs \cup Coins \cup Spends \cup Olds

=============================================================================
