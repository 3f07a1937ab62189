------------------------------- MODULE MCVod -------------------------------
(* Instances of Vod: categories written 1, 2 and 4.  1 and 2 share a hash, *)
(* 4 has the next one, and is stored under the name 3, for it has a        *)
(* character that FilterDup replaces: f4 and f5 look it up in vain, one    *)
(* after the other.  The titles of f1 and f2 have the last hash, so that   *)
(* one of them runs over into the number of f4 or f5, which share a hash.  *)
EXTENDS Vod

CONSTANTS f1, f2, f3, f4, f5

MCFiles == {f1, f2, f3, f4, f5}

MCRawCat == f1 :> 1 @@ f2 :> 2 @@ f3 :> 1 @@ f4 :> 4 @@ f5 :> 4

MCFilter == [r \in 0 .. 4 |-> IF r = 4 THEN 3 ELSE r]

MCCatHash == <<1, 1, 2>> @@ 0 :> 0

MCTitle == f1 :> 2 @@ f2 :> 1 @@ f3 :> 1 @@ f4 :> 1 @@ f5 :> 2

MCTitleHash == f1 :> 1 @@ f2 :> 1 @@ f3 :> 0 @@ f4 :> 0 @@ f5 :> 0

MCTitleRange == 2

MCClips == {f1, f2}

MCSymmetry == Permutations(Clients)

=============================================================================
