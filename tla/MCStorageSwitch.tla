---------------------------- MODULE MCStorageSwitch ----------------------------
(* A small instance of StorageSwitch for TLC. *)
EXTENDS StorageSwitch

MCRests == {<<1, "a">>}
MCDefaultRest == <<1, "a">>
=============================================================================
