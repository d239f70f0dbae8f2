---------------------------- MODULE MCPagedLists ----------------------------
(***************************************************************************)
(* Five rows, stamped one after the other or with two at the same instant. *)
(***************************************************************************)
EXTENDS PagedLists

MCRow == 1 .. 5

\* One of the lists that only grow, and two whose rows may leave.
MCQueries ==
  {[of |-> "profiles", by |-> "nothing"], [of |-> "members", by |-> "segment"],
   [of |-> "jobs", by |-> "status"]}

MCStampings == {<<1, 2, 3, 4, 5>>, <<1, 2, 2, 3, 4>>}
MCLimits == {-1, 1, 2, 3}
=============================================================================
