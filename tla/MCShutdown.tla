----------------------------- MODULE MCShutdown -----------------------------
(* The configurations of Shutdown for model checking: every flag with those  *)
(* it is checked against, the others as in a bridge that runs all its parts. *)
EXTENDS Shutdown

CONSTANTS x, y

Full ==
  [mode |-> "all", malformed |-> FALSE, engine |-> TRUE, anchor |-> TRUE, topicsSet |-> TRUE, topics |-> {x},
   shadow |-> TRUE, routes |-> "plain", shadowFacade |-> FALSE,
   facade |-> TRUE, ingress |-> "hosts", trusted |-> FALSE, source |-> "local",
   verify |-> "shadow", key |-> "none", broker |-> FALSE]

Modes == {"sink", "feed", "all"}

\* Where submissions go.
Engines ==
  {[Full EXCEPT !.mode = m, !.engine = e, !.anchor = a, !.topicsSet = t[1], !.topics = t[2],
                !.shadow = s, !.routes = r, !.shadowFacade = f] :
     m \in Modes, e \in BOOLEAN, a \in BOOLEAN, t \in {<<FALSE, {}>>, <<TRUE, {}>>, <<TRUE, {x}>>}, s \in BOOLEAN,
     r \in {"none", "plain", "shadowed", "bad"}, f \in BOOLEAN}

\* What is published, and from where.
Edges ==
  {[c EXCEPT !.facade = f, !.ingress = i, !.source = s, !.trusted = t] :
     c \in {Full, [Full EXCEPT !.mode = "feed"],
           [Full EXCEPT !.mode = "sink", !.engine = FALSE, !.shadow = FALSE, !.routes = "none"]},
     f \in BOOLEAN, i \in {"none", "blank", "hosts"}, s \in {"none", "local", "foreign"}, t \in BOOLEAN}

Verifiers ==
  {[Full EXCEPT !.verify = v, !.key = k] :
     v \in {"off", "shadow", "enforce"}, k \in {"none", "unusable", "good"}}

Subscriptions ==
  {[Full EXCEPT !.broker = TRUE, !.topics = t] : t \in SUBSET Topic}
    \cup {[Full EXCEPT !.malformed = TRUE]}

MCConfigs == Engines \cup Edges \cup Verifiers \cup Subscriptions

=============================================================================
