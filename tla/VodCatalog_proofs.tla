------------------------- MODULE VodCatalog_proofs -------------------------
(***************************************************************************)
(* What AddClip keeps of the catalogue, for any files, names and hashes.   *)
(* Vod_proofs makes theorems of it.                                        *)
(***************************************************************************)
EXTENDS VodCatalog, DataLemmas, FiniteSetTheorems, TLAPS

Category == [name : Nat, hash : Nat, count : Nat, clips : Seq(Files)]

(* A list of categories as the requests find it, or, between the search of *)
(* a category and the insertion of the clip, with the count of the         *)
(* category at one ahead of its clips.                                     *)
ListInv(list, at) ==
    /\ list \in Seq(Category)
    /\ \A k \in DOMAIN list :
          /\ list[k].count = Len(list[k].clips) + (IF k = at THEN 1 ELSE 0)
          /\ \A i, j \in DOMAIN list[k].clips :
                i < j => Title[list[k].clips[i]] <= Title[list[k].clips[j]]
          /\ ToSet(list[k].clips) \subseteq Added
    /\ \A f \in Added : \E k \in DOMAIN list :
          /\ f \in ToSet(list[k].clips)
          /\ \A j \in DOMAIN list : f \in ToSet(list[j].clips) => j = k

NumbersInv ==
    /\ Added \subseteq Files /\ IsFiniteSet(Added)
    /\ hash \in [Added -> Nat]
    /\ \A f \in Added : hash[f] \in hashmap

(* No two clips answer to one number.                                      *)
OneClip ==
    \A f, g \in Added :
        f \in ClipsByHash(cats, hash[f]) /\ g \in ClipsByHash(cats, hash[f])
            => f = g

CatInv == ListInv(cats, 0) /\ NumbersInv /\ OneClip

-----------------------------------------------------------------------------
(* Place: nothing before it is among the places to stop at.                *)
LEMMA PlaceProperties ==
    ASSUME NEW S, NEW s \in Seq(S), NEW after, after \subseteq 1 .. Len(s)
    PROVE  /\ Place(s, after) \in 1 .. Len(s) + 1
           /\ \A i \in after : Place(s, after) <= i
           /\ Place(s, after) \in after \/ Place(s, after) = Len(s) + 1
<1>1. Len(s) \in Nat
  BY LenProperties
<1>2. CASE after = {}
  BY <1>1, <1>2 DEF Place
<1>3. CASE after # {}
  <2>1. \E j \in after : \A i \in after : j <= i
    <3>1. after \subseteq Nat
      BY <1>1
    <3> QED BY <3>1, <1>3, HasLeast
  <2>2. Place(s, after) = CHOOSE j \in after : \A i \in after : j <= i
    BY <1>3 DEF Place
  <2>3. Place(s, after) \in after /\ \A i \in after : Place(s, after) <= i
    BY <2>1, <2>2
  <2>4. \A i \in 1 .. Len(s) : i \in 1 .. Len(s) + 1
    BY <1>1
  <2> QED BY <2>3, <2>4
<1> QED BY <1>2, <1>3

(* The clips found by a number depend on the hash and the clips of the     *)
(* categories only.                                                        *)
LEMMA SameClipsFound ==
    ASSUME NEW list, NEW list2, NEW h,
           \A k \in DOMAIN list : list[k].clips = <<>> \/
              \E j \in DOMAIN list2 : list2[j].hash = list[k].hash
                                   /\ list2[j].clips = list[k].clips,
           \A k \in DOMAIN list2 : list2[k].clips = <<>> \/
              \E j \in DOMAIN list : list[j].hash = list2[k].hash
                                   /\ list[j].clips = list2[k].clips
    PROVE  ClipsByHash(list2, h) = ClipsByHash(list, h)
<1>1. ToSet(<<>>) = {}
  BY DEF ToSet
<1>2. \A f : \A k \in DOMAIN list :
        list[k].hash = h \div TitleRange /\ f \in ToSet(list[k].clips)
        => \E j \in DOMAIN list2 :
              list2[j].hash = h \div TitleRange /\ f \in ToSet(list2[j].clips)
  BY <1>1
<1>3. \A f : \A k \in DOMAIN list2 :
        list2[k].hash = h \div TitleRange /\ f \in ToSet(list2[k].clips)
        => \E j \in DOMAIN list :
              list[j].hash = h \div TitleRange /\ f \in ToSet(list[j].clips)
  BY <1>1
<1> QED BY <1>2, <1>3 DEF ClipsByHash

(* FindCategory, the category was there: it is counted.                    *)
LEMMA CountCategory ==
    ASSUME CatInv, NEW k \in DOMAIN cats
    PROVE  LET list == [cats EXCEPT ![k].count = @ + 1]
           IN  /\ ListInv(list, k) /\ DOMAIN list = DOMAIN cats
               /\ \A h : ClipsByHash(list, h) = ClipsByHash(cats, h)
<1> DEFINE list == [cats EXCEPT ![k].count = @ + 1]
<1>1. cats \in Seq(Category) /\ DOMAIN cats = 1 .. Len(cats)
  BY LenProperties DEF CatInv, ListInv
<1>2. cats[k] \in Category
  BY <1>1, ElementOfSeq
<1> DEFINE new == [cats[k] EXCEPT !.count = cats[k].count + 1]
<1>3. /\ new \in Category /\ new.count = cats[k].count + 1
      /\ new.clips = cats[k].clips /\ new.hash = cats[k].hash
  BY <1>2 DEF Category
<1>4. list = [cats EXCEPT ![k] = new]
  OBVIOUS
<1> HIDE DEF new, list
<1>5. /\ list \in Seq(Category) /\ DOMAIN list = DOMAIN cats
      /\ \A j \in DOMAIN cats : list[j] = IF j = k THEN new ELSE cats[j]
  <2>1. /\ list \in Seq(Category) /\ Len(list) = Len(cats)
        /\ \A j \in 1 .. Len(cats) : list[j] = IF j = k THEN new ELSE cats[j]
    BY <1>1, <1>3, <1>4, ExceptSeq
  <2> QED BY <2>1, <1>1, LenProperties
<1>6. \A j \in DOMAIN cats :
         list[j].clips = cats[j].clips /\ list[j].hash = cats[j].hash
  BY <1>5, <1>3
<1>7. ASSUME NEW j \in DOMAIN cats
      PROVE  list[j].count = Len(list[j].clips) + (IF j = k THEN 1 ELSE 0)
  <2>0. Len(cats[j].clips) \in Nat
    <3>1. cats[j] \in Category
      BY <1>1, ElementOfSeq
    <3>2. cats[j].clips \in Seq(Files)
      BY <3>1 DEF Category
    <3> QED BY <3>2, LenProperties
  <2>1. cats[j].count = Len(cats[j].clips) + (IF j = 0 THEN 1 ELSE 0)
    BY DEF CatInv, ListInv
  <2>2. j # 0
    BY <1>1
  <2>3. cats[j].count = Len(cats[j].clips)
    BY <2>0, <2>1, <2>2
  <2>4. CASE j = k
    BY <2>4, <2>3, <1>5, <1>3
  <2>5. CASE j # k
    <3>1. list[j] = cats[j]
      BY <1>5, <2>5
    <3> QED BY <3>1, <2>0, <2>3, <2>5
  <2> QED BY <2>4, <2>5
<1>8. ListInv(list, k)
  BY <1>5, <1>6, <1>7 DEF CatInv, ListInv
<1>9. \A h : ClipsByHash(list, h) = ClipsByHash(cats, h)
  BY <1>5, <1>6, SameClipsFound
<1> QED BY <1>5, <1>8, <1>9 DEF list

(* FindCategory, the category is new: it goes in at its place, and those   *)
(* behind it move on.                                                      *)
LEMMA InsertCategory ==
    ASSUME CatInv, NEW k \in 1 .. Len(cats) + 1,
           NEW new \in Category, new.count = 1, new.clips = <<>>
    PROVE  LET list == InsertAt(cats, k, new)
           IN  /\ ListInv(list, k) /\ k \in DOMAIN list
               /\ \A h : ClipsByHash(list, h) = ClipsByHash(cats, h)
<1> DEFINE n == Len(cats)
           list == InsertAt(cats, k, new)
           at(j) == IF j < k THEN j ELSE j + 1
<1>1. /\ cats \in Seq(Category) /\ n \in Nat /\ DOMAIN cats = 1 .. n
  BY LenProperties DEF CatInv, ListInv
<1>2. /\ list \in Seq(Category) /\ Len(list) = n + 1
      /\ \A i \in 1 .. n + 1 :
            list[i] = IF i < k THEN cats[i]
                      ELSE IF i = k THEN new ELSE cats[i - 1]
  BY <1>1, InsertAtProperties
<1>3. DOMAIN list = 1 .. n + 1
  <2> HIDE DEF list
  <2> QED BY <1>2, LenProperties
<1> HIDE DEF n, list
<1>4. \A j \in 1 .. n : at(j) \in 1 .. n + 1 /\ at(j) # k /\ list[at(j)] = cats[j]
  BY <1>1, <1>2
<1>5. ASSUME NEW i \in 1 .. n + 1, i # k
      PROVE  \E j \in 1 .. n : i = at(j) /\ list[i] = cats[j]
  <2>1. CASE i < k
    <3>1. i \in 1 .. n /\ i = at(i)
      BY <2>1, <1>1 DEF n
    <3> QED BY <3>1, <1>4
  <2>2. CASE i > k
    <3>1. i - 1 \in 1 .. n /\ i = at(i - 1)
      BY <2>2, <1>1
    <3> QED BY <3>1, <1>4
  <2> QED BY <2>1, <2>2, <1>5, <1>1 DEF n
<1>6. list[k] = new /\ k \in 1 .. n + 1
  BY <1>1, <1>2 DEF n
<1>7. ToSet(<<>>) = {} /\ Len(<<>>) = 0 /\ DOMAIN <<>> = {}
  BY DEF ToSet
<1>8. ASSUME NEW i \in DOMAIN list
      PROVE  /\ list[i].count = Len(list[i].clips) + (IF i = k THEN 1 ELSE 0)
             /\ \A a, b \in DOMAIN list[i].clips :
                   a < b => Title[list[i].clips[a]] <= Title[list[i].clips[b]]
             /\ ToSet(list[i].clips) \subseteq Added
  <2>1. CASE i = k
    <3>1. list[i].count = 1 /\ list[i].clips = <<>>
      BY <2>1, <1>6
    <3> QED BY <3>1, <2>1, <1>7
  <2>2. CASE i # k
    <3>1. PICK j \in 1 .. n : list[i] = cats[j]
      BY <2>2, <1>3, <1>5
    <3>2. j # 0
      BY <1>1
    <3>3. /\ cats[j].count = Len(cats[j].clips) + (IF j = 0 THEN 1 ELSE 0)
          /\ \A a, b \in DOMAIN cats[j].clips :
                a < b => Title[cats[j].clips[a]] <= Title[cats[j].clips[b]]
          /\ ToSet(cats[j].clips) \subseteq Added
      BY <1>1 DEF CatInv, ListInv
    <3> QED BY <3>1, <3>2, <3>3, <2>2
  <2> QED BY <2>1, <2>2
<1>9. ASSUME NEW f \in Added
      PROVE  \E i \in DOMAIN list :
                /\ f \in ToSet(list[i].clips)
                /\ \A j \in DOMAIN list : f \in ToSet(list[j].clips) => j = i
  <2>1. PICK j \in 1 .. n :
           /\ f \in ToSet(cats[j].clips)
           /\ \A b \in 1 .. n : f \in ToSet(cats[b].clips) => b = j
    BY <1>1 DEF CatInv, ListInv
  <2>2. at(j) \in DOMAIN list /\ f \in ToSet(list[at(j)].clips)
    BY <2>1, <1>3, <1>4
  <2>3. ASSUME NEW i \in DOMAIN list, f \in ToSet(list[i].clips)
        PROVE  i = at(j)
    <3>1. i # k
      BY <2>3, <1>6, <1>7
    <3>2. PICK b \in 1 .. n : i = at(b) /\ list[i] = cats[b]
      BY <3>1, <1>3, <1>5
    <3> QED BY <3>2, <2>1, <2>3
  <2> HIDE DEF at
  <2> QED BY <2>2, <2>3
<1>10. ListInv(list, k)
  BY <1>2, <1>8, <1>9 DEF ListInv
<1>11. ASSUME NEW h
       PROVE  ClipsByHash(list, h) = ClipsByHash(cats, h)
  <2>1. \A j \in DOMAIN cats : \E i \in DOMAIN list : list[i] = cats[j]
    BY <1>1, <1>3, <1>4
  <2>2. \A i \in DOMAIN list : list[i].clips = <<>> \/
           \E j \in DOMAIN cats : list[i] = cats[j]
    BY <1>1, <1>3, <1>5, <1>6
  <2> QED BY <2>1, <2>2, SameClipsFound
<1> QED BY <1>3, <1>6, <1>10, <1>11 DEF list

(* FindCategory gives a category of a good list, one ahead of its clips,   *)
(* and no clip answers to another number for it.                           *)
LEMMA FindCategoryKeeps ==
    ASSUME CatInv, NEW f \in Files, NamesAssumption
    PROVE  LET found == FindCategory(RawCat[f])
           IN  /\ found.at \in DOMAIN found.list
               /\ ListInv(found.list, found.at)
               /\ \A h : ClipsByHash(found.list, h) = ClipsByHash(cats, h)
<1> DEFINE raw == RawCat[f]
           after == {j \in DOMAIN cats : cats[j].name >= raw}
           k == Place(cats, after)
           new == [name |-> Filter[raw], hash |-> CatHash[Filter[raw]],
                   count |-> 1, clips |-> <<>>]
           found == FindCategory(raw)
<1>1. cats \in Seq(Category) /\ DOMAIN cats = 1 .. Len(cats)
  BY LenProperties DEF CatInv, ListInv
<1>2. k \in 1 .. Len(cats) + 1
  <2>1. after \subseteq 1 .. Len(cats)
    BY <1>1
  <2> HIDE DEF after
  <2> QED BY <1>1, <2>1, PlaceProperties
<1>3. new \in Category /\ new.count = 1 /\ new.clips = <<>>
  <2>1. <<>> \in Seq(Files)
    BY EmptySeq
  <2>2. Filter[raw] \in Nat /\ CatHash[Filter[raw]] \in Nat
    BY DEF NamesAssumption
  <2> QED BY <2>1, <2>2 DEF Category
<1>4. CASE k \in DOMAIN cats /\ cats[k].name = raw
  <2>1. /\ found.at = k
        /\ found.list = [cats EXCEPT ![k].count = @ + 1]
    BY <1>4 DEF FindCategory
  <2> HIDE DEF k, found
  <2> QED BY <2>1, <1>4, CountCategory DEF found
<1>5. CASE ~(k \in DOMAIN cats /\ cats[k].name = raw)
  <2>1. found.at = k /\ found.list = InsertAt(cats, k, new)
    BY <1>5 DEF FindCategory
  <2> HIDE DEF k, found, new
  <2>2. /\ ListInv(InsertAt(cats, k, new), k)
        /\ k \in DOMAIN InsertAt(cats, k, new)
        /\ \A h : ClipsByHash(InsertAt(cats, k, new), h) = ClipsByHash(cats, h)
    BY <1>2, <1>3, InsertCategory
  <2> QED BY <2>1, <2>2 DEF found
<1> QED BY <1>4, <1>5

(* The loop of AddClip ends, at a number that no clip answers to or that   *)
(* no clip has: every number it passes is another clip's.                  *)
LEMMA NumberIsFree ==
    ASSUME NumbersInv, NEW list, NEW at, NEW h0 \in Nat
    PROVE  LET h == Number(list, at, h0)
           IN  h \in Nat /\ ~(h \in hashmap /\ ClipsByHash(list, h) # {})
<1> DEFINE goesOn(h) == h \in hashmap /\ ClipsByHash(list, h) # {}
           range == h0 .. h0 + Cardinality(Added)
           ends == {h \in range : ~goesOn(h)}
<1>1. Cardinality(Added) \in Nat /\ IsFiniteSet(Added)
  BY FS_CardinalityType DEF NumbersInv
<1>2. IsFiniteSet(range) /\ Cardinality(range) = Cardinality(Added) + 1
  <2>1. h0 + Cardinality(Added) \in Int /\ h0 \in Int
    BY <1>1
  <2>2. /\ IsFiniteSet(range)
        /\ Cardinality(range) = IF h0 > h0 + Cardinality(Added) THEN 0
                                ELSE (h0 + Cardinality(Added)) - h0 + 1
    BY <2>1, FS_Interval
  <2> HIDE DEF range
  <2> QED BY <2>2, <1>1
<1>3. ends # {}
  <2> SUFFICES ASSUME ends = {} PROVE FALSE
    OBVIOUS
  <2>1. \A h \in range : \E f \in Added : hash[f] = h
    BY DEF ClipsByHash
  <2> DEFINE clip == [h \in range |-> CHOOSE f \in Added : hash[f] = h]
  <2>2. \A h \in range : clip[h] \in Added /\ hash[clip[h]] = h
    BY <2>1
  <2>3. clip \in [range -> Added]
    BY <2>2
  <2> HIDE DEF clip, range
  <2>4. clip \in Injection(range, Added)
    BY <2>2, <2>3 DEF Injection, IsInjective
  <2>5. Cardinality(range) <= Cardinality(Added)
    BY <2>4, <1>1, FS_Injection
  <2> QED BY <2>5, <1>1, <1>2
<1>4. ends \subseteq Nat
  BY <1>1
<1>5. PICK h \in ends : \A g \in ends : h <= g
  <2> HIDE DEF ends
  <2> QED BY <1>3, <1>4, HasLeast
<1>6. h \in range /\ ~goesOn(h) /\ \A g \in h0 .. h - 1 : goesOn(g)
  <2>1. h \in range /\ ~goesOn(h)
    BY <1>5
  <2>2. ASSUME NEW g \in h0 .. h - 1 PROVE goesOn(g)
    <3>1. g \in range /\ ~(h <= g)
      BY <2>1, <1>1
    <3>2. g \notin ends
      BY <3>1, <1>5
    <3> QED BY <3>1, <3>2
  <2> QED BY <2>1, <2>2
<1>7. Number(list, at, h0) =
         CHOOSE i \in range : ~goesOn(i) /\ \A g \in h0 .. i - 1 : goesOn(g)
  BY DEF Number
<1>8. Number(list, at, h0) \in range /\ ~goesOn(Number(list, at, h0))
  <2> HIDE DEF goesOn, range
  <2> QED BY <1>6, <1>7
<1> QED BY <1>8, <1>1

(* vodInit begins with a good catalogue.                                   *)
LEMMA CatInitInv == ASSUME CatInit, NamesAssumption PROVE CatInv
<1> DEFINE first == [name |-> 0, hash |-> CatHash[0], count |-> 0,
                     clips |-> <<>>]
<1>1. cats = <<first>> /\ Added = {} /\ hash \in [Added -> Nat]
  BY DEF CatInit, Added
<1>2. <<>> \in Seq(Files) /\ Len(<<>>) = 0
  BY EmptySeq
<1>3. first \in Category
  BY <1>2 DEF Category, NamesAssumption
<1>4. /\ cats \in Seq(Category) /\ DOMAIN cats = {1}
      /\ cats[1].count = 0 /\ cats[1].clips = <<>>
  <2> HIDE DEF first
  <2>1. cats \in Seq(Category) /\ DOMAIN cats = {1} /\ cats[1] = first
    BY <1>1, <1>3
  <2> QED BY <2>1 DEF first
<1>5. ToSet(<<>>) = {} /\ DOMAIN <<>> = {}
  BY DEF ToSet
<1>6. ListInv(cats, 0)
  <2>1. ASSUME NEW k \in DOMAIN cats
        PROVE  /\ cats[k].count = Len(cats[k].clips) + (IF k = 0 THEN 1 ELSE 0)
               /\ \A i, j \in DOMAIN cats[k].clips :
                     i < j => Title[cats[k].clips[i]] <= Title[cats[k].clips[j]]
               /\ ToSet(cats[k].clips) \subseteq Added
    <3>1. k = 1
      BY <1>4
    <3>2. cats[k].count = 0 /\ cats[k].clips = <<>>
      BY <3>1, <1>4
    <3>3. cats[k].count = Len(cats[k].clips) + (IF k = 0 THEN 1 ELSE 0)
      BY <3>1, <3>2, <1>2
    <3> QED BY <3>2, <3>3, <1>5
  <2> QED BY <2>1, <1>1, <1>4 DEF ListInv
<1>7. NumbersInv /\ OneClip
  BY <1>1, FS_EmptySet DEF NumbersInv, OneClip
<1> QED BY <1>6, <1>7 DEF CatInv

(* AddClip puts the clip into its category, in its place by title: the     *)
(* clips are in order, and they are those that were there and the new one. *)
LEMMA ClipInPlace ==
    ASSUME NamesAssumption, NEW f \in Files, NEW clips \in Seq(Files),
           \A i, j \in DOMAIN clips : i < j => Title[clips[i]] <= Title[clips[j]]
    PROVE  LET place == Place(clips,
                         {i \in DOMAIN clips : Title[clips[i]] > Title[f]})
               new   == InsertAt(clips, place, f)
           IN  /\ new \in Seq(Files) /\ Len(new) = Len(clips) + 1
               /\ ToSet(new) = ToSet(clips) \cup {f}
               /\ \A i, j \in DOMAIN new :
                     i < j => Title[new[i]] <= Title[new[j]]
<1> DEFINE n     == Len(clips)
           after == {i \in DOMAIN clips : Title[clips[i]] > Title[f]}
           p     == Place(clips, after)
           new   == InsertAt(clips, p, f)
<1>1. n \in Nat /\ DOMAIN clips = 1 .. n
  BY LenProperties
<1>2. /\ p \in 1 .. n + 1
      /\ \A i \in after : p <= i
      /\ p \in after \/ p = n + 1
  <2>1. after \subseteq 1 .. Len(clips)
    BY <1>1
  <2> HIDE DEF after
  <2> QED BY <2>1, PlaceProperties
<1> HIDE DEF p
<1>3. /\ new \in Seq(Files) /\ Len(new) = n + 1
      /\ \A i \in 1 .. n + 1 :
            new[i] = IF i < p THEN clips[i]
                     ELSE IF i = p THEN f ELSE clips[i - 1]
  BY <1>2, InsertAtProperties
<1>4. DOMAIN new = 1 .. n + 1
  <2> HIDE DEF new
  <2> QED BY <1>3, LenProperties
<1> HIDE DEF n, new
<1>5. \A i \in 1 .. n : clips[i] \in Files /\ Title[clips[i]] \in Nat
  <2>1. \A i \in 1 .. n : clips[i] \in Files
    BY ElementOfSeq DEF n
  <2> QED BY <2>1 DEF NamesAssumption
<1>6. Title[f] \in Nat
  BY DEF NamesAssumption
<1>7. \A i \in 1 .. n : i < p => Title[clips[i]] <= Title[f]
  <2> SUFFICES ASSUME NEW i \in 1 .. n, i < p
               PROVE  Title[clips[i]] <= Title[f]
    OBVIOUS
  <2>1. i \notin after
    BY <1>1, <1>2
  <2> QED BY <2>1, <1>1, <1>5, <1>6
<1>8. \A i \in 1 .. n : i >= p => Title[clips[i]] >= Title[f]
  <2> SUFFICES ASSUME NEW i \in 1 .. n, i >= p
               PROVE  Title[clips[i]] >= Title[f]
    OBVIOUS
  <2>1. p \in 1 .. n /\ p \in after
    BY <1>1, <1>2
  <2>2. Title[clips[p]] > Title[f]
    BY <2>1
  <2>3. Title[clips[p]] <= Title[clips[i]]
    <3>1. CASE p = i
      BY <3>1, <1>5
    <3>2. CASE p # i
      <4>1. p < i
        BY <3>2, <2>1, <1>1
      <4> QED BY <4>1, <2>1, <1>1
    <3> QED BY <3>1, <3>2
  <2> QED BY <2>1, <2>2, <2>3, <1>5, <1>6
<1> HIDE DEF after
<1>9. \A i \in 1 .. n : \E j \in 1 .. n + 1 : new[j] = clips[i]
  <2> SUFFICES ASSUME NEW i \in 1 .. n
               PROVE  \E j \in 1 .. n + 1 : new[j] = clips[i]
    OBVIOUS
  <2>1. CASE i < p
    <3>1. i \in 1 .. n + 1
      BY <1>1
    <3> QED BY <3>1, <2>1, <1>3
  <2>2. CASE i >= p
    <3>1. i + 1 \in 1 .. n + 1 /\ ~(i + 1 < p) /\ i + 1 # p /\ i + 1 - 1 = i
      BY <2>2, <1>1, <1>2
    <3>2. new[i + 1] = clips[i + 1 - 1]
      BY <3>1, <1>3
    <3> QED BY <3>1, <3>2
  <2> QED BY <2>1, <2>2, <1>1, <1>2
<1>10. \A i \in 1 .. n + 1 : i < p => i \in 1 .. n
  BY <1>1, <1>2
<1>11. \A i \in 1 .. n + 1 : i > p => i - 1 \in 1 .. n /\ i - 1 >= p
  BY <1>1, <1>2
<1>12. ToSet(new) = ToSet(clips) \cup {f}
  <2>1. p \in 1 .. n + 1 /\ new[p] = f
    BY <1>1, <1>2, <1>3
  <2>2. \A i \in 1 .. n + 1 :
           new[i] = f \/ \E j \in 1 .. n : new[i] = clips[j]
    <3> SUFFICES ASSUME NEW i \in 1 .. n + 1, i # p
                 PROVE  \E j \in 1 .. n : new[i] = clips[j]
      BY <2>1
    <3>1. CASE i < p
      BY <3>1, <1>3, <1>10
    <3>2. CASE i > p
      <4>1. new[i] = clips[i - 1]
        BY <3>2, <1>2, <1>3
      <4> QED BY <4>1, <3>2, <1>11
    <3> QED BY <3>1, <3>2, <1>1, <1>2
  <2>3. \A x : x \in ToSet(clips) <=> \E i \in 1 .. n : x = clips[i]
    BY <1>1 DEF ToSet
  <2>4. \A x : x \in ToSet(new) <=> \E i \in 1 .. n + 1 : x = new[i]
    BY <1>4 DEF ToSet
  <2> QED BY <2>1, <2>2, <2>3, <2>4, <1>9
<1>13. ASSUME NEW i \in 1 .. n + 1, NEW j \in 1 .. n + 1, i < j
       PROVE  Title[new[i]] <= Title[new[j]]
  <2>1. CASE i < p
    <3>1. new[i] = clips[i] /\ i \in 1 .. n /\ Title[clips[i]] <= Title[f]
      BY <2>1, <1>3, <1>7, <1>10
    <3>2. CASE j < p
      <4>1. new[j] = clips[j] /\ j \in 1 .. n
        BY <3>2, <1>3, <1>10
      <4>2. Title[clips[i]] <= Title[clips[j]]
        BY <4>1, <3>1, <1>1, <1>13
      <4> QED BY <4>1, <4>2, <3>1
    <3>3. CASE j = p
      <4>1. new[j] = f
        BY <3>3, <1>2, <1>3
      <4> QED BY <4>1, <3>1
    <3>4. CASE j > p
      <4>1. new[j] = clips[j - 1] /\ j - 1 \in 1 .. n /\ j - 1 >= p
        BY <3>4, <1>2, <1>3, <1>11
      <4>2. Title[clips[j - 1]] >= Title[f] /\ Title[clips[j - 1]] \in Nat
        BY <4>1, <1>5, <1>8
      <4>3. Title[clips[i]] \in Nat
        BY <3>1, <1>5
      <4> QED BY <4>1, <4>2, <4>3, <3>1, <1>6
    <3> QED BY <3>2, <3>3, <3>4, <1>1, <1>2
  <2>2. CASE i >= p
    <3>1. new[j] = clips[j - 1] /\ j - 1 \in 1 .. n /\ j - 1 >= p
      <4>1. j > p
        BY <2>2, <1>1, <1>2, <1>13
      <4> QED BY <4>1, <1>2, <1>3, <1>11
    <3>2. CASE i = p
      <4>1. new[i] = f
        BY <3>2, <1>2, <1>3
      <4>2. Title[clips[j - 1]] >= Title[f] /\ Title[clips[j - 1]] \in Nat
        BY <3>1, <1>5, <1>8
      <4> QED BY <4>1, <4>2, <3>1, <1>6
    <3>3. CASE i > p
      <4>1. new[i] = clips[i - 1] /\ i - 1 \in 1 .. n
        BY <3>3, <1>2, <1>3, <1>11
      <4>2. i - 1 < j - 1
        BY <1>13, <1>1
      <4>3. Title[clips[i - 1]] <= Title[clips[j - 1]]
        BY <4>1, <4>2, <3>1, <1>1
      <4> QED BY <4>1, <4>3, <3>1
    <3> QED BY <2>2, <3>2, <3>3, <1>1, <1>2
  <2> QED BY <2>1, <2>2, <1>1, <1>2
<1> QED BY <1>3, <1>4, <1>12, <1>13 DEF n, new, p, after

(* AddClip keeps a good catalogue.                                         *)
LEMMA AddClipKeeps ==
    ASSUME CatInv, NEW f \in Files, AddClip(f), NamesAssumption,
           TitleRangeAssumption
    PROVE  CatInv'
<1> DEFINE found == FindCategory(RawCat[f])
           list  == found.list
           k     == found.at
           h     == Number(list, k, list[k].hash * TitleRange + TitleHash[f])
           clips == list[k].clips
           place == Place(clips, {i \in DOMAIN clips : Title[clips[i]] > Title[f]})
           more  == InsertAt(clips, place, f)
<1>1. /\ k \in DOMAIN list /\ ListInv(list, k)
      /\ \A i : ClipsByHash(list, i) = ClipsByHash(cats, i)
  <2> HIDE DEF found
  <2> QED BY FindCategoryKeeps DEF found
<1>2. /\ f \notin Added
      /\ cats' = [list EXCEPT ![k].clips = more]
      /\ hash' = [g \in Added \cup {f} |-> IF g = f THEN h ELSE hash[g]]
      /\ hashmap' = hashmap \cup {h}
  <2> HIDE DEF found
  <2> QED BY DEF AddClip, found
<1> HIDE DEF found, k, list
<1>3. /\ list \in Seq(Category) /\ DOMAIN list = 1 .. Len(list)
      /\ \A i \in DOMAIN list :
            /\ list[i] \in Category
            /\ list[i].clips \in Seq(Files) /\ Len(list[i].clips) \in Nat
            /\ list[i].hash \in Nat
  <2>1. list \in Seq(Category) /\ DOMAIN list = 1 .. Len(list)
    BY <1>1, LenProperties DEF ListInv
  <2>2. \A i \in DOMAIN list : list[i] \in Category
    BY <2>1, ElementOfSeq
  <2>3. \A i \in DOMAIN list :
           list[i].clips \in Seq(Files) /\ list[i].hash \in Nat
    BY <2>2 DEF Category
  <2> QED BY <2>1, <2>2, <2>3, LenProperties
<1>4. /\ clips \in Seq(Files)
      /\ \A i, j \in DOMAIN clips : i < j => Title[clips[i]] <= Title[clips[j]]
  BY <1>1, <1>3 DEF ListInv
<1>5. /\ more \in Seq(Files) /\ Len(more) = Len(clips) + 1
      /\ ToSet(more) = ToSet(clips) \cup {f}
      /\ \A i, j \in DOMAIN more : i < j => Title[more[i]] <= Title[more[j]]
  <2> HIDE DEF clips
  <2> QED BY <1>4, ClipInPlace
<1>6. /\ h \in Nat
      /\ ~(h \in hashmap /\ ClipsByHash(list, h) # {})
  <2>1. list[k].hash \in Nat /\ TitleHash[f] \in Nat /\ TitleRange \in Nat
    BY <1>1, <1>3 DEF NamesAssumption, TitleRangeAssumption
  <2> DEFINE h0 == list[k].hash * TitleRange + TitleHash[f]
  <2>2. h0 \in Nat
    <3>1. \A a, b, c \in Nat : a * b + c \in Nat
      OBVIOUS
    <3> QED BY <3>1, <2>1
  <2>3. NumbersInv
    BY DEF CatInv
  <2> HIDE DEF h0
  <2>4. LET i == Number(list, k, h0)
        IN  i \in Nat /\ ~(i \in hashmap /\ ClipsByHash(list, i) # {})
    BY <2>2, <2>3, NumberIsFree
  <2> QED BY <2>4 DEF h0
<1> HIDE DEF h, more
<1>7. /\ Added' = Added \cup {f}
      /\ hash'[f] = h /\ \A g \in Added : hash'[g] = hash[g]
  BY <1>2 DEF Added
<1> DEFINE cat == [list[k] EXCEPT !.clips = more]
<1>8. /\ cat \in Category /\ cat.clips = more
      /\ cat.hash = list[k].hash /\ cat.count = list[k].count
  BY <1>1, <1>3, <1>5 DEF Category
<1>9. cats' = [list EXCEPT ![k] = cat]
  BY <1>2
<1> HIDE DEF cat
<1>10. /\ cats' \in Seq(Category) /\ DOMAIN cats' = DOMAIN list
       /\ \A i \in DOMAIN list : cats'[i] = IF i = k THEN cat ELSE list[i]
  <2>1. /\ [list EXCEPT ![k] = cat] \in Seq(Category)
        /\ Len([list EXCEPT ![k] = cat]) = Len(list)
        /\ \A i \in 1 .. Len(list) :
              [list EXCEPT ![k] = cat][i] = IF i = k THEN cat ELSE list[i]
    BY <1>1, <1>3, <1>8, ExceptSeq
  <2> QED BY <2>1, <1>3, <1>9, LenProperties
<1>11. \A i \in DOMAIN list :
          /\ cats'[i].hash = list[i].hash
          /\ cats'[i].clips = IF i = k THEN more ELSE list[i].clips
          /\ cats'[i].count = list[i].count
  BY <1>8, <1>10
<1>12. ASSUME NEW i \in DOMAIN list
       PROVE  ToSet(cats'[i].clips) = IF i = k THEN ToSet(clips) \cup {f}
                                      ELSE ToSet(list[i].clips)
  BY <1>5, <1>11
<1>13. \A i \in DOMAIN list : f \notin ToSet(list[i].clips)
  BY <1>1, <1>2 DEF ListInv
<1>14. ListInv(cats, 0)'
  <2>1. ASSUME NEW i \in DOMAIN list
        PROVE  cats'[i].count = Len(cats'[i].clips) + (IF i = 0 THEN 1 ELSE 0)
    <3>1. list[i].count = Len(list[i].clips) + (IF i = k THEN 1 ELSE 0)
      BY <1>1 DEF ListInv
    <3>2. i # 0
      BY <1>3
    <3>3. CASE i = k
      <4>1. Len(cats'[i].clips) = Len(list[i].clips) + 1
        BY <3>3, <1>5, <1>11
      <4>2. Len(list[i].clips) + 1 + 0 = Len(list[i].clips) + 1
        BY <1>3
      <4> QED BY <4>1, <4>2, <3>1, <3>2, <3>3, <1>11
    <3>4. CASE i # k
      BY <3>1, <3>2, <3>4, <1>11
    <3> QED BY <3>3, <3>4
  <2>2. ASSUME NEW i \in DOMAIN list
        PROVE  \A a, b \in DOMAIN cats'[i].clips :
                  a < b => Title[cats'[i].clips[a]] <= Title[cats'[i].clips[b]]
    <3>1. CASE i = k
      BY <3>1, <1>5, <1>11
    <3>2. CASE i # k
      BY <3>2, <1>1, <1>11 DEF ListInv
    <3> QED BY <3>1, <3>2
  <2>3. \A i \in DOMAIN list : ToSet(cats'[i].clips) \subseteq Added'
    <3>1. \A i \in DOMAIN list : ToSet(list[i].clips) \subseteq Added
      BY <1>1 DEF ListInv
    <3> QED BY <3>1, <1>1, <1>7, <1>12
  <2>4. ASSUME NEW g \in Added'
        PROVE  \E i \in DOMAIN list :
                  /\ g \in ToSet(cats'[i].clips)
                  /\ \A j \in DOMAIN list :
                        g \in ToSet(cats'[j].clips) => j = i
    <3>1. CASE g = f
      BY <3>1, <1>1, <1>12, <1>13
    <3>2. CASE g # f
      <4>1. g \in Added
        BY <3>2, <1>7
      <4>2. \A i \in DOMAIN list :
               g \in ToSet(cats'[i].clips) <=> g \in ToSet(list[i].clips)
        BY <3>2, <1>12
      <4>3. \E i \in DOMAIN list :
               /\ g \in ToSet(list[i].clips)
               /\ \A j \in DOMAIN list : g \in ToSet(list[j].clips) => j = i
        BY <4>1, <1>1 DEF ListInv
      <4> QED BY <4>2, <4>3
    <3> QED BY <3>1, <3>2
  <2> QED BY <2>1, <2>2, <2>3, <2>4, <1>10 DEF ListInv
<1>15. NumbersInv'
  <2>1. Added' \subseteq Files /\ IsFiniteSet(Added')
    BY <1>7, FS_AddElement DEF CatInv, NumbersInv
  <2>2. hash' \in [Added' -> Nat]
    BY <1>2, <1>6, <1>7 DEF CatInv, NumbersInv
  <2>3. \A g \in Added' : hash'[g] \in hashmap'
    BY <1>2, <1>7 DEF CatInv, NumbersInv
  <2> QED BY <2>1, <2>2, <2>3 DEF NumbersInv
<1> DEFINE Found(g) == \E j \in DOMAIN list :
                          /\ list[j].hash = hash'[g] \div TitleRange
                          /\ g \in ToSet(cats'[j].clips)
<1>16. ASSUME NEW g \in Added, Found(g)
       PROVE  g \in ClipsByHash(cats, hash[g]) /\ hash[g] # h
  <2>1. g # f /\ hash'[g] = hash[g]
    BY <1>2, <1>7
  <2>2. \E j \in DOMAIN list : /\ list[j].hash = hash[g] \div TitleRange
                              /\ g \in ToSet(list[j].clips)
    BY <1>16, <2>1, <1>12
  <2>3. g \in ClipsByHash(list, hash[g])
    BY <2>2 DEF ClipsByHash
  <2>4. hash[g] \in hashmap
    BY DEF CatInv, NumbersInv
  <2> QED BY <2>3, <2>4, <1>1, <1>6
<1>17. OneClip'
  <2>1. SUFFICES ASSUME NEW a \in Added', NEW b \in Added',
                        hash'[a] = hash'[b], Found(a), Found(b)
                 PROVE  a = b
    BY <1>10, <1>11 DEF OneClip, ClipsByHash
  <2> HIDE DEF Found
  <2>2. CASE a = f /\ b \in Added
    BY <2>1, <2>2, <1>7, <1>16
  <2>3. CASE a \in Added /\ b = f
    BY <2>1, <2>3, <1>7, <1>16
  <2>4. CASE a \in Added /\ b \in Added
    <3>1. /\ a \in ClipsByHash(cats, hash[a])
          /\ b \in ClipsByHash(cats, hash[b])
      BY <2>1, <2>4, <1>16
    <3>2. hash[a] = hash[b]
      BY <2>1, <2>4, <1>7
    <3> QED BY <3>1, <3>2, <2>4 DEF CatInv, OneClip
  <2> QED BY <2>2, <2>3, <2>4, <1>7
<1> QED BY <1>14, <1>15, <1>17 DEF CatInv

-----------------------------------------------------------------------------
(* A clip that its number names is the only one that it names.             *)
LEMMA CatInvFindable == CatInv => FindableById
<1> SUFFICES ASSUME CatInv, NEW f \in Added,
                    hash[f] \div TitleRange = cats[CategoryOf(f)].hash
             PROVE  ClipsByHash(cats, hash[f]) = {f}
  BY DEF FindableById
<1>1. \E k \in DOMAIN cats : f \in ToSet(cats[k].clips)
  BY DEF CatInv, ListInv
<1>2. CategoryOf(f) \in DOMAIN cats /\ f \in ToSet(cats[CategoryOf(f)].clips)
  BY <1>1 DEF CategoryOf
<1>3. f \in ClipsByHash(cats, hash[f])
  BY <1>2 DEF ClipsByHash
<1>4. \A g \in ClipsByHash(cats, hash[f]) : g \in Added
  BY DEF ClipsByHash
<1>5. \A g \in ClipsByHash(cats, hash[f]) : g = f
  BY <1>3, <1>4 DEF CatInv, OneClip
<1> QED BY <1>3, <1>5

(* The categories of a good catalogue are counted and in order.            *)
LEMMA CatInvSound == CatInv => CategoriesAreSound
<1> SUFFICES ASSUME CatInv PROVE CategoriesAreSound
  OBVIOUS
<1>1. ASSUME NEW k \in DOMAIN cats PROVE cats[k].count = Len(cats[k].clips)
  <2>1. DOMAIN cats = 1 .. Len(cats) /\ cats[k] \in Category
    BY LenProperties, ElementOfSeq DEF CatInv, ListInv
  <2>2. cats[k].clips \in Seq(Files)
    BY <2>1 DEF Category
  <2>3. Len(cats[k].clips) \in Nat /\ k # 0
    BY <2>1, <2>2, LenProperties
  <2>4. cats[k].count = Len(cats[k].clips) + (IF k = 0 THEN 1 ELSE 0)
    BY DEF CatInv, ListInv
  <2> QED BY <2>3, <2>4
<1> QED BY <1>1 DEF CatInv, ListInv, CategoriesAreSound

(* The types of the catalogue.                                             *)
LEMMA CatInvType ==
    ASSUME CatInv
    PROVE  /\ \A k \in DOMAIN cats :
                 /\ cats[k].count \in Nat /\ cats[k].hash \in Nat
                 /\ ToSet(cats[k].clips) \subseteq Files
           /\ Added \subseteq Files /\ \A f \in Added : hash[f] \in hashmap
<1>1. ASSUME NEW k \in DOMAIN cats PROVE cats[k] \in Category
  <2>1. cats \in Seq(Category) /\ DOMAIN cats = 1 .. Len(cats)
    BY LenProperties DEF CatInv, ListInv
  <2> QED BY <2>1, ElementOfSeq
<1> QED BY <1>1 DEF CatInv, ListInv, NumbersInv, Category

(* What the requests do leaves the catalogue alone.                        *)
LEMMA CatUnchanged == CatInv /\ UNCHANGED catVars => CatInv'
<1> SUFFICES ASSUME CatInv, UNCHANGED catVars PROVE CatInv'
  OBVIOUS
<1>1. cats' = cats /\ hash' = hash /\ hashmap' = hashmap /\ Added' = Added
  BY DEF catVars, Added
<1>2. ListInv(cats, 0)' /\ NumbersInv'
  BY <1>1 DEF CatInv, ListInv, NumbersInv
<1>3. OneClip'
  BY <1>1 DEF CatInv, OneClip, ClipsByHash
<1> QED BY <1>2, <1>3 DEF CatInv

=============================================================================
