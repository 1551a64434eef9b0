----------------------------- MODULE MCStorage -----------------------------
(* One storage, opened and disposed of any number of times, with a few       *)
(* pieces held at a time.                                                    *)
EXTENDS Storage

CONSTANT MaxPieces  \* pieces held at once

StorageNext == Next /\ Len(handed') <= MaxPieces
StorageSpec == Init /\ [][StorageNext]_storageVars

=============================================================================
