---------------------------- MODULE SessionStore ----------------------------
(* What a session engine promises its callers (docs/en/guide/auth.md,      *)
(* "Session methods"): data is kept under a key until the key is ended,    *)
(* and an ended key never names a session again.                           *)
CONSTANTS Keys, Data, Absent

VARIABLES session, ended

Init == session = [k \in Keys |-> Absent] /\ ended = {}

Put(k, d) == /\ k \notin ended
             /\ session' = [session EXCEPT ![k] = d]
             /\ UNCHANGED ended

End(k) == /\ session' = [session EXCEPT ![k] = Absent]
          /\ ended' = ended \cup {k}

Next == \E k \in Keys : End(k) \/ \E d \in Data : Put(k, d)

Spec == Init /\ [][Next]_<<session, ended>>
=============================================================================
