------------------------------ MODULE Startup ------------------------------
(***************************************************************************)
(* The configuration of src/cmd/overlay-bridge: what validate refuses, what *)
(* run wires of what it accepts, and the comparison of the elected topics   *)
(* with the consumer's subscription (src/topics/reconcile.go).              *)
(*                                                                          *)
(* A flag is its value as the code tells values apart: set or not, well     *)
(* formed or not.  The flags that are refused for their form alone are one, *)
(* malformed.  A list flag is what validate sees, set or not, and the list  *)
(* that splitList makes of it, which may be empty (","): topicsSet and the  *)
(* names for -topics; for -edge-ingress, blank is set without any host.     *)
(* A topic's id is a hash of its name, so a name stands for it.             *)
(***************************************************************************)
EXTENDS Integers, FiniteSets

CONSTANT Topic  \* topic names

Flags ==
  [mode : {"sink", "feed", "all"}, malformed : BOOLEAN,
   engine : BOOLEAN, anchor : BOOLEAN, topicsSet : BOOLEAN, topics : SUBSET Topic,
   shadow : BOOLEAN, routes : {"none", "plain", "shadowed", "bad"}, shadowFacade : BOOLEAN,
   facade : BOOLEAN, ingress : {"none", "blank", "hosts"}, trusted : BOOLEAN, source : {"none", "local", "foreign"},
   verify : {"off", "shadow", "enforce"}, key : {"none", "unusable", "good"},
   broker : BOOLEAN]

Config == {c \in Flags : c.topics # {} => c.topicsSet}

-----------------------------------------------------------------------------
(* validate *)

\* What a bridge that submits must have, and a sink must not.
EngineConfigured(c) ==
  IF c.mode # "sink"
  THEN c.engine /\ c.anchor /\ c.topicsSet /\ c.routes # "bad"
  ELSE ~c.shadow /\ c.routes = "none"

\* Is there a shadow to offer the facade's submissions to?
ShadowConfigured(c) == c.shadow \/ c.routes = "shadowed"

\* Mutant: a facade is accepted without a way to publish.
AcceptsUnpublished(c) ==
  /\ ~c.malformed /\ EngineConfigured(c)
  /\ c.trusted => c.mode = "all" /\ c.facade
  /\ c.shadowFacade => ShadowConfigured(c)
  /\ c.verify = "enforce" => c.key # "none"

Accepts(c) ==
  /\ ~c.malformed /\ EngineConfigured(c)
  /\ c.trusted => c.mode = "all" /\ c.facade
  /\ c.shadowFacade => ShadowConfigured(c)
  /\ c.verify = "enforce" => c.key # "none"
  /\ c.mode = "all" /\ c.facade => c.ingress # "none"

-----------------------------------------------------------------------------
(* run: what is built *)

\* A marker key that is given must load.
KeyLoads(c) == c.verify = "off" \/ c.key # "unusable"

\* A queue is built for a list that is set; its client may have no address.
HasQueue(c) == c.mode = "all" /\ c.ingress # "none"

\* A source that is given must be an address of this machine.
SourceResolves(c) == HasQueue(c) => c.source # "foreign"

HasFacade(c) == c.mode = "all" /\ c.facade

\* The parts of the process, as they are handed to each other.
Wiring(c) ==
  [submits   |-> c.mode # "sink",
   shadowed  |-> c.mode # "sink" /\ ShadowConfigured(c),
   verify    |-> c.verify,
   marks     |-> c.verify # "off" /\ c.key = "good",
   facade    |-> HasFacade(c),
   publishes |-> HasQueue(c),
   offers    |-> c.shadowFacade]

-----------------------------------------------------------------------------
(* topics.Compare *)

Compare(bridged, subscribed, all) ==
  [missing |-> subscribed \ bridged, extra |-> bridged \ subscribed, all |-> all]

DiffOK(d) == d.missing = {} /\ ~d.all

=============================================================================
