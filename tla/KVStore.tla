------------------------------ MODULE KVStore ------------------------------
(***************************************************************************)
(* What the storage engine promises its callers (spec.md sections 3, 4.1, *)
(* 7 and 8): a map from keys to values in which a put replaces the whole  *)
(* value at once, is refused for a present key unless overwrites are      *)
(* allowed, and a delete makes the key absent.  Reads, stats and garbage  *)
(* collection leave the map as it is.                                     *)
(***************************************************************************)
CONSTANTS Keys, Values, Absent, Overwrite

VARIABLE store

TypeOK == store \in [Keys -> Values \cup {Absent}]

Init == store = [k \in Keys |-> Absent]

Put(k, v) ==
    /\ Overwrite \/ store[k] = Absent
    /\ store' = [store EXCEPT ![k] = v]

Delete(k) ==
    /\ store[k] # Absent
    /\ store' = [store EXCEPT ![k] = Absent]

Next == \E k \in Keys : Delete(k) \/ \E v \in Values : Put(k, v)

Spec == Init /\ [][Next]_store

====
