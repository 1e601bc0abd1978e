--------------------------------- MODULE Maps ---------------------------------
(* Partial functions that a program extends in place, key by key.          *)

\* f with v under the key k, which may be new.
Put(f, k, v) == [x \in DOMAIN f \cup {k} |-> IF x = k THEN v ELSE f[x]]
=============================================================================
