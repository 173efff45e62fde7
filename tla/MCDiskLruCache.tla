--------------------------- MODULE MCDiskLruCache ---------------------------
(* Instance of DiskLruCache for TLC. *)
EXTENDS DiskLruCache, TLC

KeySymmetry == Permutations(Keys)
=============================================================================
