----------------------------- MODULE VodCatalog -----------------------------
(***************************************************************************)
(* The clips of the VOD server, httpd/httpvod.c: vodInit enumerates the    *)
(* files below vodroot and adds each to its category, under a number the   *)
(* clients name it by.  The number is made of the hash of the category and *)
(* the hash of the title; a bitmap tells which numbers are taken.          *)
(*                                                                         *)
(* A file is known by what AddClip takes from its name: the category as    *)
(* written, the title, and the title's hash.  The module has no Next of    *)
(* its own; Vod composes it with the clients' lists.                       *)
(***************************************************************************)
EXTENDS Integers, Sequences, FiniteSets, SequencesExt

CONSTANTS
    Files,       (* the files below vodroot                                 *)
    RawCat,      (* [Files -> Nat]: the category as the file name has it;   *)
                 (* 0: none.  Names are numbers in their alphabetical order *)
    Filter,      (* FilterDup: the name a category is stored under          *)
    CatHash,     (* GetCategoryHash of a stored name                        *)
    Title,       (* [Files -> Nat]: the titles, in alphabetical order       *)
    TitleHash,   (* [Files -> 0 .. TitleRange - 1]                          *)
    TitleRange   (* 10000 in the code                                       *)

ASSUME TitleRangeAssumption == TitleRange \in Nat \ {0}

ASSUME NamesAssumption ==
    /\ CatHash[0] \in Nat
    /\ \A f \in Files :
          /\ RawCat[f] \in Nat /\ Filter[RawCat[f]] \in Nat
          /\ CatHash[Filter[RawCat[f]]] \in Nat
          /\ Title[f] \in Nat /\ TitleHash[f] \in 0 .. TitleRange - 1

VARIABLES
    cats,     (* the categories, a list: name, hash, count and clips        *)
    hash,     (* CLIP_INFO::hash of the files added                         *)
    hashmap   (* the bits set                                               *)

catVars == <<cats, hash, hashmap>>

(* vodInit: the static first category has no name.                         *)
CatInit ==
    /\ cats = <<[name |-> 0, hash |-> CatHash[0], count |-> 0, clips |-> <<>>]>>
    /\ hash = [f \in {} |-> 0] /\ hashmap = {}

Added == DOMAIN hash

(* The place before which something goes, given the places it goes before. *)
Place(s, after) ==
    IF after = {} THEN Len(s) + 1
    ELSE CHOOSE j \in after : \A i \in after : j <= i

(* Mutant: a clip in a category that was there is not counted.             *)
FindCategoryNoCount(raw) ==
    LET k == Place(cats, {j \in DOMAIN cats : cats[j].name >= raw})
    IN  IF k \in DOMAIN cats /\ cats[k].name = raw
        THEN [at |-> k, list |-> cats]
        ELSE [at |-> k,
              list |-> InsertAt(cats, k,
                          [name |-> Filter[raw], hash |-> CatHash[Filter[raw]],
                           count |-> 1, clips |-> <<>>])]

(* FindCategory: the place in the list of the category called raw, made    *)
(* there if it is missing.  The search compares the name as written with   *)
(* the names as stored; the first place that is not before it ends it.     *)
FindCategory(raw) ==
    LET k == Place(cats, {j \in DOMAIN cats : cats[j].name >= raw})
    IN  IF k \in DOMAIN cats /\ cats[k].name = raw
        THEN [at |-> k, list |-> [cats EXCEPT ![k].count = @ + 1]]
        ELSE [at |-> k,
              list |-> InsertAt(cats, k,
                          [name |-> Filter[raw], hash |-> CatHash[Filter[raw]],
                           count |-> 1, clips |-> <<>>])]

(* GetClipByHash: only the categories with the number's category hash are  *)
(* looked at.  The clips found, at most the first of which is returned.    *)
ClipsByHash(list, h) ==
    {f \in Added :
        /\ hash[f] = h
        /\ \E k \in DOMAIN list :
              list[k].hash = h \div TitleRange /\ f \in ToSet(list[k].clips)}

(* Mutant: a number taken in another category is used again.               *)
NumberInCategory(list, at, h0) ==
    LET goesOn(h) == h \in hashmap
                       /\ ClipsByHash(list, h) \cap ToSet(list[at].clips) # {}
    IN  CHOOSE h \in h0 .. h0 + Cardinality(Added) :
           ~goesOn(h) /\ \A g \in h0 .. h - 1 : goesOn(g)

(* The loop of AddClip: on from h0, as long as the number is taken and     *)
(* GetClipByHash finds the clip that has it.  Each number it passes is     *)
(* that of another clip, so that it ends.                                  *)
Number(list, at, h0) ==
    LET goesOn(h) == h \in hashmap /\ ClipsByHash(list, h) # {}
    IN  CHOOSE h \in h0 .. h0 + Cardinality(Added) :
           ~goesOn(h) /\ \A g \in h0 .. h - 1 : goesOn(g)

(* AddClip: the file goes before the first clip whose title is greater.    *)
AddClip(f) ==
    LET found == FindCategory(RawCat[f])
        list  == found.list
        k     == found.at
        h     == Number(list, k, list[k].hash * TitleRange + TitleHash[f])
        clips == list[k].clips
        place == Place(clips, {i \in DOMAIN clips : Title[clips[i]] > Title[f]})
    IN  /\ f \notin Added
        /\ cats' = [list EXCEPT ![k].clips = InsertAt(clips, place, f)]
        /\ hash' = [g \in Added \cup {f} |-> IF g = f THEN h ELSE hash[g]]
        /\ hashmap' = hashmap \cup {h}

-----------------------------------------------------------------------------
(* Properties.                                                             *)

CategoryOf(f) == CHOOSE k \in DOMAIN cats : f \in ToSet(cats[k].clips)

(* GetClipByHash gives back the clip a client names by its number, and no  *)
(* other: categories that share a hash, titles that do, and numbers that   *)
(* ran over from the category below do not come in its way.  A clip whose  *)
(* own number ran over into the next category is the exception.            *)
FindableById ==
    \A f \in Added :
        LET k == CategoryOf(f)
        IN  hash[f] \div TitleRange = cats[k].hash =>
                ClipsByHash(cats, hash[f]) = {f}

(* Every category is listed with the number of its clips, in order of      *)
(* title, and every file is in one category.                               *)
CategoriesAreSound ==
    /\ \A k \in DOMAIN cats :
          /\ cats[k].count = Len(cats[k].clips)
          /\ \A i, j \in DOMAIN cats[k].clips :
                i < j => Title[cats[k].clips[i]] <= Title[cats[k].clips[j]]
    /\ \A f \in Added : \E k \in DOMAIN cats :
          /\ f \in ToSet(cats[k].clips)
          /\ \A j \in DOMAIN cats : f \in ToSet(cats[j].clips) => j = k

=============================================================================
