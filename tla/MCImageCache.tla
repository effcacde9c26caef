----------------------------- MODULE MCImageCache -----------------------------
(* ImageCache with interchangeable calls, cleaners and extensions.           *)
EXTENDS ImageCache, TLC

Symm == Permutations(Requests) \cup Permutations(Cleaners) \cup Permutations(Exts)
=============================================================================
