-------------------------------- MODULE SgsMap --------------------------------
(***************************************************************************)
(* What sgs/map.h promises of a map: it associates keys with values; put    *)
(* adds a key or replaces its value, or fails and alters nothing; remove of *)
(* a key that is not there alters nothing either.                           *)
(***************************************************************************)
CONSTANTS Keys, Values

VARIABLE map    \* a function from the keys that are in the map to their values

Init == map = <<>>

Put(k, v) == map' = [x \in DOMAIN map \cup {k} |-> IF x = k THEN v ELSE map[x]]

Remove(k) ==
    /\ k \in DOMAIN map
    /\ map' = [x \in DOMAIN map \ {k} |-> map[x]]

Clear == map' = <<>>

Next ==
    \/ \E k \in Keys, v \in Values : Put(k, v)
    \/ \E k \in Keys : Remove(k)
    \/ Clear

Spec == Init /\ [][Next]_map

=============================================================================
