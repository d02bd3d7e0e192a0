------------------------------ MODULE HashMap ------------------------------
(* What class Hash promises: a map from keys to values.                    *)
CONSTANTS Key, Val, Absent

VARIABLE dict

MapInit == dict = [k \in Key |-> Absent]

MapStore(k, v) == dict' = [dict EXCEPT ![k] = v]
MapDelete(k) == dict' = [dict EXCEPT ![k] = Absent]
MapClear == dict' = [k \in Key |-> Absent]

MapNext ==
    \/ \E k \in Key : MapDelete(k) \/ \E v \in Val : MapStore(k, v)
    \/ MapClear

MapSpec == MapInit /\ [][MapNext]_dict
=============================================================================
