--------------------------- MODULE RecordDelivery ---------------------------
(***************************************************************************)
(* What the up-tunnel promises its caller about each record, with no       *)
(* connection, address, offset or resend in sight: Send takes a record or  *)
(* refuses it; a record it took is settled once, as confirmed or as lost;  *)
(* and a record is confirmed only after it arrived at the ingress host.    *)
(* This is the contract of Client.Send's doc comment in                    *)
(* src/uptunnel/uptunnel.go.                                               *)
(***************************************************************************)
CONSTANT Record

VARIABLES
  fate,    \* what the caller has been told of each record
  arrived  \* the records the ingress host has acknowledged

Fates == {"unsent", "refused", "pending", "confirmed", "lost"}

Init ==
  /\ fate = [r \in Record |-> "unsent"]
  /\ arrived = {}

Take(r) ==
  /\ fate[r] = "unsent"
  /\ fate' = [fate EXCEPT ![r] = "pending"]
  /\ UNCHANGED arrived

Refuse(r) ==
  /\ fate[r] = "unsent"
  /\ fate' = [fate EXCEPT ![r] = "refused"]
  /\ UNCHANGED arrived

\* The host acknowledges records that were taken.
Arrive(S) ==
  /\ \A r \in S : fate[r] \notin {"unsent", "refused"}
  /\ arrived' = arrived \cup S
  /\ UNCHANGED fate

\* One call of the client may settle several records, one way or the other.
Settle(yes, no) ==
  /\ yes \cap no = {}
  /\ \A r \in yes \cup no : fate[r] = "pending"
  /\ yes \subseteq arrived
  /\ fate' = [r \in Record |-> IF r \in yes THEN "confirmed"
                               ELSE IF r \in no THEN "lost" ELSE fate[r]]
  /\ UNCHANGED arrived

Next ==
  \/ \E r \in Record : Take(r) \/ Refuse(r)
  \/ \E S \in SUBSET Record : Arrive(S)
  \/ \E yes, no \in SUBSET Record : Settle(yes, no)

Spec == Init /\ [][Next]_<<fate, arrived>>

=============================================================================
