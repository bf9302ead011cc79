-------------------------------- MODULE Keys --------------------------------
(***************************************************************************)
(* The keys and values of the state, opaque (package schema).  None is     *)
(* "no entry", which the code expresses by the absence of a Go map key or  *)
(* of an LMDB row.                                                         *)
(***************************************************************************)
CONSTANTS
    Addr,      \* account addresses
    Slot,      \* storage slots of an account
    Val,       \* slot values
    Zero,      \* the zero value, also the tombstone of a cleared slot
    None       \* no entry
=============================================================================
