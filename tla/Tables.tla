------------------------------- MODULE Tables -------------------------------
(***************************************************************************)
(* Rows are functions from columns to values, tables functions from ids to *)
(* rows; both are written by laying what is new over what there was.       *)
(***************************************************************************)

Over(new, old) ==
  [x \in DOMAIN new \cup DOMAIN old |-> IF x \in DOMAIN new THEN new[x] ELSE old[x]]

=============================================================================
