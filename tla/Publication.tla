---------------------------- MODULE Publication ----------------------------
(***************************************************************************)
(* What `the-pass data build` promises of one output directory: a dataset  *)
(* is published in it at most once, is never replaced, and is the only one *)
(* any call ever returns.                                                  *)
(***************************************************************************)
CONSTANTS Datasets, NoDataset

VARIABLES published, returned

PublicationInit == published = NoDataset /\ returned = {}

Publish ==
  /\ published = NoDataset
  /\ published' \in Datasets
  /\ UNCHANGED returned

Return ==
  /\ published # NoDataset
  /\ returned' = returned \cup {published}
  /\ UNCHANGED published

PublicationSpec == PublicationInit /\ [][Publish \/ Return]_<<published, returned>>
=============================================================================
