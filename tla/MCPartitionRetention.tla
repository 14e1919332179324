------------------------ MODULE MCPartitionRetention ------------------------
(***************************************************************************)
(* PartitionRetention with a table of every kind: part_config overrides    *)
(* the decorator, no row in part_config, no retention in part_config, and  *)
(* no retention in the decorator.                                          *)
(***************************************************************************)
EXTENDS PartitionRetention

MCRegistered == {1, 3, 4}
MCConf == <<2, 1, 0, 1>>
MCMeta == <<1, 1, 1, 0>>
=============================================================================
