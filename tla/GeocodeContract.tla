--------------------------- MODULE GeocodeContract ---------------------------
(***************************************************************************)
(* What geocoder_field promises to the owner of an entity, without queue,  *)
(* processes or flags: whoever saves an entity finds its coordinates       *)
(* settled, owed by the queue, or excused for a reason on record; there is *)
(* no fourth possibility.  GeocodeQueue implements this contract.          *)
(***************************************************************************)
CONSTANT Entities

VARIABLE status     \* status[e] for each entity

Accounted == {"settled", "owed", "excused"}

Init == status = [e \in Entities |-> "absent"]

(* A save, a redelivery or a late worker moves an entity between the       *)
(* accounted states.                                                       *)
Save(e) ==
    /\ status[e] # "deleted"
    /\ \E s \in Accounted : status' = [status EXCEPT ![e] = s]

(* The queue pays a debt, or reports why it cannot.                        *)
Settle(e) ==
    /\ status[e] = "owed"
    /\ \E s \in {"settled", "excused", "deleted"} : status' = [status EXCEPT ![e] = s]

Delete(e) ==
    /\ status[e] \in Accounted
    /\ status' = [status EXCEPT ![e] = "deleted"]

Next == \E e \in Entities : Save(e) \/ Settle(e) \/ Delete(e)

Spec == Init /\ [][Next]_status

FairSpec == Spec /\ \A e \in Entities : WF_status(Settle(e))

=============================================================================
