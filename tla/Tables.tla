------------------------------- MODULE Tables -------------------------------
(***************************************************************************)
(* Tables as functions: what Go's maps hold when entries are written over  *)
(* those that were there.                                                  *)
(***************************************************************************)

\* Entries written over those of a table, and the table of a single entry.
Over(new, old) ==
  [x \in DOMAIN new \cup DOMAIN old |-> IF x \in DOMAIN new THEN new[x] ELSE old[x]]
Only(x, value) == [y \in {x} |-> value]
=============================================================================
