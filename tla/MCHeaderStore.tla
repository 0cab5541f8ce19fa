--------------------------- MODULE MCHeaderStore ---------------------------
(***************************************************************************)
(* HeaderStore on small networks.  Above the first header g0 is its child  *)
(* a1; above that a main chain m2, m3 and a fork f2, f3, f4 that overtakes *)
(* it.  c1, c2 is a chain beside a1, so that with the store anchored at a1 *)
(* a reorganisation crosses the anchor.  b2 has a target easier than the   *)
(* floor, and so may the first header: the anchor service supplies it all  *)
(* the same.                                                               *)
(***************************************************************************)
EXTENDS HeaderStore, TLC

CONSTANTS g0, a1, c1, c2, m2, m3, f2, f3, f4, b2,
  Easy      \* the headers with a target easier than the floor

OnHeaders(f) == [x \in Header |-> f[x]]

MCParent == OnHeaders(g0 :> NoHeader @@ a1 :> g0 @@ m2 :> a1 @@ m3 :> m2
                        @@ f2 :> a1 @@ f3 :> f2 @@ f4 :> f3 @@ b2 :> a1
                        @@ c1 :> g0 @@ c2 :> c1)

MCHeight == OnHeaders(g0 :> 0 @@ a1 :> 1 @@ m2 :> 2 @@ m3 :> 3
                        @@ f2 :> 2 @@ f3 :> 3 @@ f4 :> 4 @@ b2 :> 2
                        @@ c1 :> 1 @@ c2 :> 2)

MCTarget == [x \in Header |-> IF x \in Easy THEN 9 ELSE 5]

MCWork == [x \in Header |-> 3]

ActorSymmetry == Permutations(Lane) \cup Permutations(Reader)

\* A bound on who is at work: a second reader asks for roots only, as the first
\* does then, and beside at most one busy lane.
Crew ==
  \/ Cardinality({r \in Reader : reader[r].pc # "idle"}) <= 1
  \/ /\ Cardinality({l \in Lane : lane[l].pc # "idle"}) <= 1
     /\ \A r \in Reader : reader[r].kind = "root"

=============================================================================
