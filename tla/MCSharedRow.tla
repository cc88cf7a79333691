---------------------------- MODULE MCSharedRow ----------------------------
(* SharedRow on small instances: two users, two files. *)
EXTENDS SharedRow, TLC

CONSTANTS ann, bob, h1, h2

AnnAndBob == {ann, bob}

TwoFiles == {h1, h2}

\* Bob second, or the emitter alone.
PresentChoices == {<<>>, <<bob>>}

FullSymmetry == Permutations(Threads) \cup Permutations(Docs) \cup Permutations(Hashes)
=============================================================================
