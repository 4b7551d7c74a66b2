----------------------------- MODULE MCAtomicWrite -----------------------------
(* The model-checking runs of AtomicWrite.  The call slots, the temp names    *)
(* and the inodes are interchangeable, and what a free inode last held cannot *)
(* be observed: CreateTemp empties it before anything refers to it again.     *)
EXTENDS AtomicWrite, TLC

Symmetry == Permutations(Calls) \cup Permutations(Temps) \cup Permutations(Inodes)

View ==
  <<dir, ddir, [i \in Inodes |-> IF Free(i) THEN None ELSE <<inode[i], disk[i]>>],
    callVars, histVars>>
================================================================================
