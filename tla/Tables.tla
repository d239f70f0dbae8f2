------------------------------- MODULE Tables -------------------------------
(***************************************************************************)
(* A table is a function from the keys of its rows; the rows of the other  *)
(* keys do not exist.                                                      *)
(***************************************************************************)

\* Table f with row v under key k, inserted or replaced.
Put(f, k, v) == [x \in DOMAIN f \cup {k} |-> IF x = k THEN v ELSE f[x]]

\* Table f without the row of key k.
Drop(f, k) == [x \in DOMAIN f \ {k} |-> f[x]]
=============================================================================
