--------------------------- MODULE MCStorageWalk ---------------------------
(***************************************************************************)
(* A giant of nine leaves in a keyspace of sixteen keys, one of them the   *)
(* key ff..ff, split three ways after one warmup response; and a trie that *)
(* one response covers.                                                    *)
(***************************************************************************)
EXTENDS StorageWalk

MCTries == {{0, 2, 4, 5, 6, 9, 11, 14, 15}, {3, 15}}
=============================================================================
