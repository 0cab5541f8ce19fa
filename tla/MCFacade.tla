------------------------------ MODULE MCFacade ------------------------------
(* Facade for model checking: who submits and who delivers what. *)
EXTENDS Facade, TLC

CONSTANTS r1, r2, r3, e1, o1, t1, t2

\* One object throughout: a request for both topics, and one for each; the
\* second topic of the last request is trusted, as is its source.
SameObject == [c \in Caller |-> o1]
MixedTopics ==
  [c \in Caller |-> CASE c = r2 -> <<t1>> [] c = r3 -> <<t2>> [] OTHER -> <<t1, t2>>]
LastTrusted == {<<r3, t2>>} \cap (Request \X Topic)

=============================================================================
