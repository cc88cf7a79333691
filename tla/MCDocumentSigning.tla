------------------------- MODULE MCDocumentSigning -------------------------
(* DocumentSigning on small instances: two or three users, one or two files. *)
EXTENDS DocumentSigning, TLC

CONSTANTS ann, bob, cat, h1, h2

AnnAndBob == {ann, bob}
Everybody == {ann, bob, cat}

\* Up to two other signers; the account of one may just have been removed.
ThreePartyChoices == {<<>>, <<bob>>, <<bob, cat>>, <<bob, NoUser>>, <<NoUser, cat>>}

OneFile == {h1}
TwoFiles == {h1, h2}

\* The emitter alone, or Bob second, whose account may just have been removed.
BobChoices == {<<>>, <<bob>>, <<NoUser>>}

\* Bob second, or the emitter alone.
PresentChoices == {<<>>, <<bob>>}

ThreadSymmetry == Permutations(Threads)
FullSymmetry == Permutations(Threads) \cup Permutations(Docs) \cup Permutations(Hashes)
=============================================================================
