---------------------------- MODULE BoundedCache ----------------------------
(***************************************************************************)
(* What the handlers rely on when they share the session's diffCache: a    *)
(* map that never holds more than maxSize entries, that answers with the   *)
(* value last stored under the key, and that gives up one other entry, and *)
(* only one, when a new key does not fit. Which one is left open.          *)
(***************************************************************************)
EXTENDS Naturals, FiniteSets

CONSTANTS Key, Value, maxSize
VARIABLE store

Store == UNION {[D -> Value] : D \in SUBSET Key}

Init == store = [k \in {} |-> {}]

Holds(s, k, v) == k \in DOMAIN s /\ s[k] = v

(* Entries other than that of k and those in lost are left as they are. *)
KeepsOthers(s, t, k, lost) ==
    /\ DOMAIN t = (DOMAIN s \ lost) \cup {k}
    /\ \A other \in DOMAIN t \ {k} : t[other] = s[other]

Put(k, v) ==
    \E lost \in {{}} \cup {{other} : other \in DOMAIN store} :
        /\ lost = {} <=> k \in DOMAIN store \/ Cardinality(DOMAIN store) < maxSize
        /\ store' \in Store
        /\ Holds(store', k, v)
        /\ KeepsOthers(store, store', k, lost)

Clear == store' = [k \in {} |-> {}]

Next == (\E k \in Key, v \in Value : Put(k, v)) \/ Clear

Spec == Init /\ [][Next]_store
=============================================================================
