-------------------------- MODULE Playlists_proofs --------------------------
(***************************************************************************)
(* Proofs about Playlists, for any files, paths, play modes and bounds.    *)
(***************************************************************************)
EXTENDS Playlists, DataLemmas, SequenceTheorems, FiniteSetTheorems, TLAPS

USE PathAssumption

List == FileListType(Paths)

-----------------------------------------------------------------------------
(* The operators of module FileList.                                       *)

LEMMA ListsType ==
    ASSUME NEW ls \in Seq(List)
    PROVE  /\ DOMAIN ls = 1 .. Len(ls) /\ Len(ls) \in Nat
           /\ \A i \in DOMAIN ls :
                 /\ ls[i] \in List /\ ls[i].path \in Paths
                 /\ ls[i].items \in Seq(Files) /\ ls[i].count \in Nat
                 /\ Len(ls[i].items) \in Nat
<1>1. /\ DOMAIN ls = 1 .. Len(ls) /\ Len(ls) \in Nat
      /\ \A i \in DOMAIN ls : ls[i] \in List
  OBVIOUS
<1>2. \A l \in List : /\ l.path \in Paths /\ l.items \in Seq(Files)
                       /\ l.count \in Nat /\ Len(l.items) \in Nat
  BY DEF List, FileListType
<1> QED
  BY <1>1, <1>2

(* A function with a list's domain keeps its length.                       *)
LEMMA PathsOfType ==
    ASSUME NEW ls \in Seq(List)
    PROVE  /\ PathsOf(ls) \in Seq(Paths)
           /\ Len(PathsOf(ls)) = Len(ls)
           /\ \A i \in 1 .. Len(ls) : PathsOf(ls)[i] = ls[i].path
<1>1. /\ DOMAIN ls = 1 .. Len(ls)
      /\ \A i \in 1 .. Len(ls) : ls[i] \in List
  OBVIOUS
<1>2. \A i \in 1 .. Len(ls) : ls[i].path \in Paths
  BY <1>1 DEF List, FileListType
<1>3. PathsOf(ls) = [i \in 1 .. Len(ls) |-> ls[i].path]
  BY <1>1 DEF PathsOf
<1> QED
  BY <1>2, <1>3

(* What removing an element from a sequence leaves.                        *)
LEMMA DropAtType ==
    ASSUME NEW S, NEW s \in Seq(S), NEW i \in Nat
    PROVE  /\ DropAt(s, i) \in Seq(S)
           /\ i >= Len(s) => DropAt(s, i) = s
           /\ i < Len(s) =>
                 /\ Len(DropAt(s, i)) = Len(s) - 1
                 /\ \A j \in 1 .. Len(s) - 1 :
                       DropAt(s, i)[j] = IF j <= i THEN s[j] ELSE s[j + 1]
<1>1. DOMAIN s = 1 .. Len(s)
  OBVIOUS
<1>2. CASE i >= Len(s)
  <2>1. i + 1 \notin DOMAIN s
    BY <1>1, <1>2, LenProperties
  <2> QED
    BY <1>2, <2>1 DEF DropAt
<1>3. CASE i < Len(s)
  <2>1. DropAt(s, i) = RemoveAt(s, i + 1)
    BY <1>1, <1>3 DEF DropAt
  <2>2. RemoveAt(s, i + 1) = SubSeq(s, 1, (i + 1) - 1)
                                \o SubSeq(s, (i + 1) + 1, Len(s))
    BY DEF RemoveAt
  <2>3. (i + 1) - 1 = i /\ (i + 1) + 1 = i + 2
    OBVIOUS
  <2>4. DropAt(s, i) = SubSeq(s, 1, i) \o SubSeq(s, i + 2, Len(s))
    BY <2>1, <2>2, <2>3
  <2> DEFINE a == SubSeq(s, 1, i)
             z == SubSeq(s, i + 2, Len(s))
  <2>5. /\ a \in Seq(S) /\ Len(a) = i
        /\ \A j \in 1 .. i : a[j] = s[j]
    BY <1>3
  <2>6. /\ z \in Seq(S) /\ Len(z) = Len(s) - i - 1
        /\ \A j \in 1 .. Len(s) - i - 1 : z[j] = s[j + i + 1]
    BY <1>3
  <2>7. DropAt(s, i) = a \o z
    BY <2>4
  <2>8. Len(s) \in Nat
    BY LenProperties
  <2> HIDE DEF a, z
  <2>9. /\ a \o z \in Seq(S) /\ Len(a \o z) = Len(a) + Len(z)
        /\ \A j \in 1 .. Len(a) + Len(z) :
              (a \o z)[j] = IF j <= Len(a) THEN a[j] ELSE z[j - Len(a)]
    BY <2>5, <2>6, ConcatProperties
  <2>10. Len(a) + Len(z) = Len(s) - 1
    BY <2>5, <2>6, <2>8
  <2>11. ASSUME NEW j \in 1 .. Len(s) - 1
         PROVE  (a \o z)[j] = IF j <= i THEN s[j] ELSE s[j + 1]
    <3>1. CASE j <= i
      <4>1. j \in 1 .. i /\ j \in 1 .. Len(a) + Len(z)
        BY <2>8, <2>10, <3>1
      <4> QED
        BY <2>5, <2>9, <3>1, <4>1
    <3>2. CASE ~(j <= i)
      <4>1. /\ j - i \in 1 .. Len(s) - i - 1 /\ (j - i) + i + 1 = j + 1
            /\ j \in 1 .. Len(a) + Len(z)
        BY <2>8, <2>10, <3>2
      <4>2. (a \o z)[j] = z[j - i]
        BY <2>5, <2>9, <3>2, <4>1
      <4>3. z[j - i] = s[(j - i) + i + 1]
        BY <2>6, <4>1
      <4> QED
        BY <3>2, <4>1, <4>2, <4>3
    <3> QED
      BY <3>1, <3>2
  <2> DEFINE w == a \o z
  <2>12. /\ w \in Seq(S) /\ Len(w) = Len(s) - 1
         /\ \A j \in 1 .. Len(s) - 1 :
               w[j] = IF j <= i THEN s[j] ELSE s[j + 1]
    BY <2>9, <2>10, <2>11
  <2>13. DropAt(s, i) = w /\ ~(i >= Len(s))
    BY <1>3, <2>7, <2>8
  <2> HIDE DEF w
  <2> QED
    BY <1>3, <2>12, <2>13
<1> QED
  BY <1>2, <1>3

LEMMA NodeAtType ==
    ASSUME NEW s \in Seq(Files), NEW i \in Int
    PROVE  NodeAt(s, i) \in Files \cup {Null}
<1>1. DOMAIN s = 1 .. Len(s) /\ \A k \in 1 .. Len(s) : s[k] \in Files
  OBVIOUS
<1> QED
  BY <1>1 DEF NodeAt

LEMMA SelectInType ==
    ASSUME NEW S, NEW rows \in Seq(S), NEW i \in Int,
           NEW old \in Nat \cup {-1}, old < Len(rows)
    PROVE  /\ SelectIn(rows, old, i) \in Nat \cup {-1}
           /\ SelectIn(rows, old, i) < Len(rows)
  BY DEF SelectIn

(* The selected row is a row.                                              *)
Box == {b \in BoxType : b.sel < Len(b.rows)}

(* What every operation on a list promises of its result r: the types, the *)
(* path, that a list with other items is marked, and that rows which were  *)
(* those of the document are so again and covered by the count.            *)
Good(l, b, r) ==
    /\ r.list \in List /\ r.list.path = l.path
    /\ r.box \in Box
    /\ r.list.dirty \/ (r.list.items = l.items /\ ~l.dirty)
    /\ b.rows = l.items => r.box.rows = r.list.items
    /\ b.rows = l.items /\ l.count >= Len(l.items)
         => r.list.count >= Len(r.list.items)

LEMMA EmptyBoxIsBox == EmptyBox \in Box
  BY DEF Box, BoxType, EmptyBox

LEMMA SameIsGood ==
    ASSUME NEW l \in List, NEW b \in Box
    PROVE  Good(l, b, [list |-> l, box |-> b])
  BY DEF Good, List, FileListType

LEMMA ShowIsGood ==
    ASSUME NEW l \in List, NEW b
    PROVE  LET r == Show(l, b)
           IN  /\ r.list \in List /\ r.list.path = l.path
               /\ r.list.items = l.items /\ r.list.dirty = l.dirty
               /\ r.list.count = l.count + Len(l.items)
               /\ r.box \in Box /\ r.box.rows = l.items
<1>1. /\ l.items \in Seq(Files) /\ l.selIdx \in Int /\ l.count \in Nat
      /\ Len(l.items) \in Nat
  BY DEF List, FileListType
<1>2. /\ SelectIn(l.items, -1, l.selIdx) \in Nat \cup {-1}
      /\ SelectIn(l.items, -1, l.selIdx) < Len(l.items)
  BY <1>1 DEF SelectIn
<1>3. Show(l, b).box \in Box /\ Show(l, b).box.rows = l.items
  BY <1>1, <1>2 DEF Show, Box, BoxType
<1>4. l.count + Len(l.items) \in Nat
  BY <1>1
<1> QED
  BY <1>1, <1>3, <1>4 DEF Show, List, FileListType

LEMMA AddFileIsGood ==
    ASSUME NEW l \in List, NEW b \in Box, NEW f \in Files
    PROVE  Good(l, b, AddFile(l, b, f)) /\ AddFile(l, b, f).list.dirty
<1> DEFINE items == Append(l.items, f)
           idx   == IF l.selIdx = -1 THEN 0 ELSE l.selIdx
           r     == AddFile(l, b, f)
<1>1. /\ l.items \in Seq(Files) /\ l.selIdx \in Int /\ l.count \in Nat
      /\ b.rows \in Seq(Files) /\ b.sel \in Nat \cup {-1} /\ b.sel < Len(b.rows)
  BY DEF List, FileListType, Box, BoxType
<1>2. items \in Seq(Files) /\ Len(items) = Len(l.items) + 1 /\ idx \in Int
  BY <1>1
<1>3. NodeAt(items, idx) \in Files \cup {Null}
  BY <1>2, NodeAtType
<1>4. r = [ list |-> [l EXCEPT !.items = items, !.dirty = TRUE,
                               !.count = l.count + 1, !.selIdx = idx,
                               !.fileNode = NodeAt(items, idx)],
            box  |-> [b EXCEPT !.rows = Append(b.rows, f)] ]
  BY DEF AddFile
<1> HIDE DEF items, idx, r
<1>5. r.list \in List /\ r.list.path = l.path /\ r.list.dirty
      /\ r.list.items = items /\ r.list.count = l.count + 1
  <2>1. r.list = [l EXCEPT !.items = items, !.dirty = TRUE,
                           !.count = l.count + 1, !.selIdx = idx,
                           !.fileNode = NodeAt(items, idx)]
    BY <1>4
  <2>2. l.count + 1 \in Nat
    BY <1>1
  <2> QED
    BY <1>2, <1>3, <2>1, <2>2 DEF List, FileListType
<1>6. /\ Append(b.rows, f) \in Seq(Files)
      /\ Len(Append(b.rows, f)) = Len(b.rows) + 1
  BY <1>1
<1>7. r.box \in Box /\ r.box.rows = Append(b.rows, f)
  <2>1. r.box = [b EXCEPT !.rows = Append(b.rows, f)]
    BY <1>4
  <2>2. b.sel < Len(Append(b.rows, f))
    BY <1>1, <1>6
  <2> QED
    BY <1>1, <1>6, <2>1, <2>2 DEF Box, BoxType
<1>8. b.rows = l.items => Append(b.rows, f) = items
  BY DEF items
<1>9. Good(l, b, r)
  BY <1>1, <1>2, <1>5, <1>7, <1>8 DEF Good
<1> QED
  BY <1>5, <1>9 DEF r

LEMMA ChangeSelIndexIsGood ==
    ASSUME NEW l \in List, NEW b \in Box
    PROVE  Good(l, b, ChangeSelIndex(l, b))
<1>1. CASE b.sel = l.selIdx \/ b.sel < 0
  BY <1>1, SameIsGood DEF ChangeSelIndex
<1>2. CASE ~(b.sel = l.selIdx \/ b.sel < 0)
  <2>1. b.sel \in Int /\ l.items \in Seq(Files)
    BY DEF Box, BoxType, List, FileListType
  <2>2. NodeAt(l.items, b.sel) \in Files \cup {Null}
    BY <2>1, NodeAtType
  <2> QED
    BY <1>2, <2>1, <2>2 DEF ChangeSelIndex, Good, List, FileListType
<1> QED
  BY <1>1, <1>2

LEMMA MoveToIsGood ==
    ASSUME NEW l \in List, NEW b \in Box, NEW i \in Int
    PROVE  Good(l, b, MoveTo(l, b, i))
<1>1. /\ l.items \in Seq(Files)
      /\ b.rows \in Seq(Files) /\ b.sel \in Nat \cup {-1} /\ b.sel < Len(b.rows)
  BY DEF List, FileListType, Box, BoxType
<1>2. NodeAt(l.items, i) \in Files \cup {Null}
  BY <1>1, NodeAtType
<1>3. /\ SelectIn(b.rows, b.sel, i) \in Nat \cup {-1}
      /\ SelectIn(b.rows, b.sel, i) < Len(b.rows)
  BY <1>1, SelectInType
<1> DEFINE r == MoveTo(l, b, i)
<1>4. /\ r.list = [l EXCEPT !.selIdx = i, !.fileNode = NodeAt(l.items, i)]
      /\ r.box = [b EXCEPT !.sel = SelectIn(b.rows, b.sel, i)]
  BY DEF MoveTo
<1> HIDE DEF r
<1>5. r.box \in Box /\ r.box.rows = b.rows
  BY <1>1, <1>3, <1>4 DEF Box, BoxType
<1>6. r.list \in List /\ r.list.path = l.path /\ r.list.items = l.items
      /\ r.list.count = l.count /\ r.list.dirty = l.dirty
  BY <1>2, <1>4 DEF List, FileListType
<1>7. l.dirty \in BOOLEAN
  BY DEF List, FileListType
<1>8. Good(l, b, r)
  BY <1>5, <1>6, <1>7 DEF Good
<1> QED
  BY <1>8 DEF r

LEMMA MovesAreGood ==
    ASSUME NEW l \in List, NEW b \in Box, NEW m \in Modes,
           NEW r \in MoveNext(l, b, m) \cup MovePrevious(l, b, m)
    PROVE  Good(l, b, r)
<1>1. l.count \in Nat /\ l.selIdx \in Int
  BY DEF List, FileListType
<1>2. CASE r = [list |-> l, box |-> b]
  BY <1>2, SameIsGood
<1>3. CASE r # [list |-> l, box |-> b]
  <2>1. \A d \in {1, -1} : Candidates(l, m, d) \subseteq Int
    BY <1>1 DEF Candidates
  <2>2. PICK i \in Int : r = MoveTo(l, b, i)
    <3>1. CASE r \in MoveNext(l, b, m)
      <4>1. PICK i \in Candidates(l, m, 1) :
               r = MoveTo(l, b, IF i = l.count
                                THEN IF m.repeat THEN 0 ELSE -1 ELSE i)
        BY <1>3, <3>1 DEF MoveNext
      <4> QED
        BY <2>1, <4>1
    <3>2. CASE r \in MovePrevious(l, b, m)
      <4>1. PICK i \in Candidates(l, m, -1) :
               r = MoveTo(l, b, IF m.repeat /\ i < 0 THEN i + l.count ELSE i)
        BY <1>3, <3>2 DEF MovePrevious
      <4>2. i \in Int /\ i + l.count \in Int
        BY <1>1, <2>1, <4>1
      <4> QED
        BY <4>1, <4>2
    <3> QED
      BY <3>1, <3>2
  <2> QED
    BY <2>2, MoveToIsGood
<1> QED
  BY <1>2, <1>3

LEMMA RemoveIsGood ==
    ASSUME NEW l \in List, NEW b \in Box
    PROVE  Good(l, b, RemoveSelectedItem(l, b))
<1>1. CASE IsEmpty(l) \/ b.sel < 0
  BY <1>1, SameIsGood DEF RemoveSelectedItem
<1>2. CASE ~(IsEmpty(l) \/ b.sel < 0)
  <2> DEFINE at   == b.sel
             idx  == IF at = l.count THEN at - 1 ELSE at
             rows == DropAt(b.rows, at)
             items == DropAt(l.items, at)
             node == IF NodeAt(l.items, at) = Null THEN l.fileNode
                     ELSE IF at > 0 THEN NodeAt(l.items, at - 1)
                     ELSE NodeAt(l.items, 1)
             sel  == SelectIn(rows, -1, idx)
             r    == RemoveSelectedItem(l, b)
  <2>1. /\ l.items \in Seq(Files) /\ l.selIdx \in Int /\ l.count \in Nat
        /\ l.fileNode \in Files \cup {Null}
        /\ b.rows \in Seq(Files) /\ at \in Nat /\ at < Len(b.rows)
        /\ l.count > 0
    BY <1>2 DEF List, FileListType, Box, BoxType, IsEmpty
  <2>2. idx \in Int
    BY <2>1
  <2>3. /\ rows \in Seq(Files) /\ items \in Seq(Files)
        /\ Len(rows) = Len(b.rows) - 1
        /\ at < Len(l.items) => Len(items) = Len(l.items) - 1
    BY <2>1, DropAtType
  <2>4. node \in Files \cup {Null}
    <3>1. at \in Int /\ at - 1 \in Int
      BY <2>1
    <3> QED
      BY <2>1, <3>1, NodeAtType
  <2>5. sel \in Nat \cup {-1} /\ sel < Len(rows)
    BY <2>2, <2>3 DEF SelectIn
  <2>6. r = [ list |-> [l EXCEPT !.items = items, !.dirty = TRUE,
                                 !.fileNode = node, !.selIdx = idx,
                                 !.count = l.count - 1],
              box  |-> [rows |-> rows, sel |-> sel] ]
    BY <1>2 DEF RemoveSelectedItem
  <2> HIDE DEF idx, rows, items, node, sel, r
  <2>7. r.box \in Box /\ r.box.rows = rows
    <3>1. r.box = [rows |-> rows, sel |-> sel]
      BY <2>6
    <3> QED
      BY <2>3, <2>5, <3>1 DEF Box, BoxType
  <2>8. /\ r.list \in List /\ r.list.path = l.path /\ r.list.items = items
        /\ r.list.count = l.count - 1 /\ r.list.dirty
    <3>1. r.list = [l EXCEPT !.items = items, !.dirty = TRUE,
                             !.fileNode = node, !.selIdx = idx,
                             !.count = l.count - 1]
      BY <2>6
    <3>2. l.count - 1 \in Nat
      BY <2>1
    <3> QED
      BY <2>2, <2>3, <2>4, <3>1, <3>2 DEF List, FileListType
  <2>9. b.rows = l.items => rows = items
    BY DEF rows, items
  <2>10. Good(l, b, r)
    <3>1. at < Len(l.items) /\ Len(l.items) \in Nat
            => Len(items) = Len(l.items) - 1
      BY <2>3
    <3>2. Len(l.items) \in Nat
      BY <2>1
    <3>3. b.rows = l.items /\ l.count >= Len(l.items)
            => l.count - 1 >= Len(items)
      BY <2>1, <3>1, <3>2
    <3> QED
      BY <2>7, <2>8, <2>9, <3>3 DEF Good
  <2> QED
    BY <2>10 DEF r
<1> QED
  BY <1>1, <1>2

LEMMA ClearIsGood ==
    ASSUME NEW l \in List, NEW b \in Box
    PROVE  Good(l, b, Clear(l, b))
<1>1. CASE IsEmpty(l)
  BY <1>1, SameIsGood DEF Clear
<1>2. CASE ~IsEmpty(l)
  <2> DEFINE r == Clear(l, b)
  <2>1. r = [ list |-> [l EXCEPT !.items = <<>>, !.fileNode = Null,
                                 !.dirty = TRUE, !.selIdx = -1, !.count = 0],
              box  |-> EmptyBox ]
    BY <1>2 DEF Clear
  <2> HIDE DEF r
  <2>2. r.list \in List /\ r.list.path = l.path /\ r.list.dirty
        /\ r.list.items = <<>> /\ r.list.count = 0
    <3>1. r.list = [l EXCEPT !.items = <<>>, !.fileNode = Null,
                             !.dirty = TRUE, !.selIdx = -1, !.count = 0]
      BY <2>1
    <3>2. <<>> \in Seq(Files)
      OBVIOUS
    <3>3. ASSUME NEW none \in Seq(Files), NEW k,
                 k = [l EXCEPT !.items = none, !.fileNode = Null,
                               !.dirty = TRUE, !.selIdx = -1, !.count = 0]
          PROVE  k \in List /\ k.path = l.path /\ k.dirty
                 /\ k.items = none /\ k.count = 0
      <4>1. -1 \in Int /\ 0 \in Nat /\ Null \in Files \cup {Null}
        OBVIOUS
      <4> QED
        BY <3>3, <4>1 DEF List, FileListType
    <3> QED
      BY <3>1, <3>2, <3>3
  <2>3. r.box \in Box /\ r.box.rows = <<>>
    <3>1. r.box = EmptyBox
      BY <2>1
    <3> QED
      BY <3>1, EmptyBoxIsBox DEF EmptyBox
  <2>4. Len(r.list.items) = 0
    BY <2>2
  <2>5. Good(l, b, r)
    BY <2>2, <2>3, <2>4 DEF Good
  <2> QED
    BY <2>5 DEF r
<1> QED
  BY <1>1, <1>2

-----------------------------------------------------------------------------
(* The inductive invariant.                                                *)

(* What the manager holds: lists ls, rows, entries, the index k of the     *)
(* list in use, and the files d, none of which is missing or listed twice. *)
Synced(ls, rows, ents, k, d) ==
    /\ rows = PathsOf(ls) /\ ents = PathsOf(ls)
    /\ IF ls = <<>> THEN k = -1 ELSE k + 1 \in DOMAIN ls
    /\ \A i, j \in DOMAIN ls : ls[i].path = ls[j].path => i = j
    /\ \A i \in DOMAIN ls : d[ls[i].path] # Null

Sole(ls, i) == \A j \in DOMAIN ls \ {i} : ls[j].path # ls[i].path

(* A list that is not marked holds what its file holds, if it has it alone. *)
Clean(ls, d) ==
    \A i \in DOMAIN ls :
        d[ls[i].path] # Null /\ Sole(ls, i) /\ ~ls[i].dirty
            => ls[i].items = d[ls[i].path]

(* The list of index k, if there is one, is shown and counted.             *)
Shown(ls, k, b) ==
    k + 1 \in DOMAIN ls =>
        b.rows = ls[k + 1].items /\ ls[k + 1].count >= Len(ls[k + 1].items)

(* Every row has a list, and the selected row is one.                      *)
RowsHaveLists ==
    running => /\ Len(element.rows) <= Len(lists)
               /\ element.sel < Len(element.rows)

IInv ==
    /\ TypeOK /\ RowsHaveLists /\ box \in Box
    /\ running /\ ~upset =>
          /\ Synced(lists, element.rows, entries, selIdx, disk)
          /\ Shown(lists, selIdx, box)
    /\ Clean(lists, disk)

LEMMA InitIInv == Init => IInv
<1> SUFFICES ASSUME Init PROVE IInv
  OBVIOUS
<1>1. <<>> \in Seq(List) /\ <<>> \in Seq(Paths) /\ DOMAIN <<>> = {}
  OBVIOUS
<1>2. TypeOK
  BY <1>1, EmptyBoxIsBox DEF Init, TypeOK, Box, BoxType, EmptyBox, List
<1> QED
  BY <1>1, <1>2, EmptyBoxIsBox DEF Init, IInv, RowsHaveLists, Clean

(* Steps that leave the lists alone.                                       *)
LEMMA OtherSteps ==
    ASSUME IInv, RenameList \/ ClearLists \/ ChangeMode
    PROVE  IInv'
<1>1. UNCHANGED <<running, lists, selIdx, element, entries, box, saved, disk,
                  upset>>
      /\ dirty' \in BOOLEAN /\ mode' \in Modes
  BY DEF RenameList, ClearLists, ChangeMode, IInv, TypeOK
<1>2. TypeOK'
  BY <1>1 DEF IInv, TypeOK
<1> QED
  BY <1>1, <1>2 DEF IInv, RowsHaveLists

LEMMA HighlightStep ==
    ASSUME IInv, NEW i \in Nat, HighlightList(i)
    PROVE  IInv'
<1>1. /\ UNCHANGED <<running, lists, selIdx, entries, dirty, mode, box, saved,
                     disk, upset>>
      /\ element' = [element EXCEPT !.sel = i]
      /\ i + 1 \in DOMAIN element.rows /\ running
  BY DEF HighlightList
<1>2. /\ element'.rows = element.rows /\ element'.sel = i
      /\ i < Len(element.rows)
      /\ element' \in [rows : Seq(Paths), sel : Nat \cup {-1}]
  <2>1. element \in [rows : Seq(Paths), sel : Nat \cup {-1}]
    BY DEF IInv, TypeOK
  <2>2. /\ element.rows \in Seq(Paths)
        /\ DOMAIN element.rows = 1 .. Len(element.rows)
        /\ Len(element.rows) \in Nat
    BY <2>1
  <2>3. i < Len(element.rows)
    BY <1>1, <2>2
  <2> QED
    BY <1>1, <2>1, <2>2, <2>3
<1>3. TypeOK'
  BY <1>1, <1>2 DEF IInv, TypeOK
<1> QED
  BY <1>1, <1>2, <1>3 DEF IInv, RowsHaveLists

LEMMA SelectRowStep ==
    ASSUME IInv, NEW i \in Nat, SelectRow(i)
    PROVE  IInv'
<1>1. /\ UNCHANGED <<running, lists, selIdx, element, entries, dirty, mode,
                     saved, disk, upset>>
      /\ box' = [box EXCEPT !.sel = i] /\ i + 1 \in DOMAIN box.rows
  BY DEF SelectRow
<1>2. box' \in Box /\ box'.rows = box.rows
  BY <1>1 DEF IInv, Box, BoxType
<1>3. TypeOK'
  BY <1>1, <1>2 DEF IInv, TypeOK, Box
<1> QED
  BY <1>1, <1>2, <1>3 DEF IInv, RowsHaveLists, Shown

LEMMA VanishStep ==
    ASSUME IInv, NEW p \in Paths, Vanish(p)
    PROVE  IInv'
<1>1. /\ UNCHANGED <<running, lists, selIdx, element, entries, dirty, mode,
                     box, saved>>
      /\ disk' = [disk EXCEPT ![p] = Null]
      /\ upset' = (upset \/ p \in ToSet(PathsOf(lists)))
  BY DEF Vanish
<1>2. lists \in Seq(List) /\ disk \in [Paths -> {Null} \cup Seq(Files)]
  BY DEF IInv, TypeOK, List
<1>3. /\ DOMAIN lists = 1 .. Len(lists)
      /\ \A i \in DOMAIN lists : lists[i].path \in Paths
  BY <1>2, ListsType
<1>4. TypeOK'
  <2>1. disk' \in [Paths -> {Null} \cup Seq(Files)]
    BY <1>1, <1>2
  <2>2. upset' \in BOOLEAN
    BY <1>1
  <2> QED
    BY <1>1, <2>1, <2>2 DEF IInv, TypeOK
<1>5. Clean(lists, disk)'
  <2> SUFFICES ASSUME NEW i \in DOMAIN lists, disk'[lists[i].path] # Null,
                      Sole(lists, i), ~lists[i].dirty
               PROVE  lists[i].items = disk'[lists[i].path]
    BY <1>1 DEF Clean
  <2> QED
    BY <1>1, <1>2, <1>3 DEF IInv, Clean
<1>6. ASSUME running, ~upset'
      PROVE  Synced(lists, element.rows, entries, selIdx, disk')
  <2>1. ~upset /\ p \notin ToSet(PathsOf(lists))
    BY <1>1, <1>6
  <2>2. \A i \in DOMAIN lists : lists[i].path # p
    BY <1>3, <2>1 DEF ToSet, PathsOf
  <2> QED
    BY <1>1, <1>2, <1>3, <1>6, <2>1, <2>2 DEF IInv, Synced
<1>7. ~upset' => ~upset
  BY <1>1
<1>8. running' /\ ~upset' =>
         /\ Synced(lists', element'.rows, entries', selIdx', disk')
         /\ Shown(lists', selIdx', box')
  BY <1>1, <1>6, <1>7 DEF IInv
<1>9. RowsHaveLists' /\ box' \in Box
  BY <1>1 DEF IInv, RowsHaveLists
<1> QED
  BY <1>4, <1>5, <1>8, <1>9 DEF IInv

(* A list of which the paths are those of another is in step as it is.     *)
LEMMA SamePaths ==
    ASSUME NEW ls \in Seq(List), NEW ks \in Seq(List), Len(ks) = Len(ls),
           \A i \in DOMAIN ls : ks[i].path = ls[i].path
    PROVE  /\ DOMAIN ks = DOMAIN ls /\ PathsOf(ks) = PathsOf(ls)
           /\ \A rows, ents, k, d : Synced(ls, rows, ents, k, d) =>
                                        Synced(ks, rows, ents, k, d)
           /\ \A i \in DOMAIN ls : Sole(ks, i) => Sole(ls, i)
<1>1. DOMAIN ks = DOMAIN ls
  BY ListsType
<1>2. PathsOf(ks) = PathsOf(ls)
  BY <1>1 DEF PathsOf
<1>3. ks = <<>> <=> ls = <<>>
  <2>1. (ks = <<>> <=> Len(ks) = 0) /\ (ls = <<>> <=> Len(ls) = 0)
    BY EmptySeq
  <2> QED
    BY <2>1
<1>4. ASSUME NEW rows, NEW ents, NEW k, NEW d, Synced(ls, rows, ents, k, d)
      PROVE  Synced(ks, rows, ents, k, d)
  BY <1>1, <1>2, <1>3, <1>4 DEF Synced
<1>5. \A i \in DOMAIN ls : Sole(ks, i) => Sole(ls, i)
  BY <1>1 DEF Sole
<1> QED
  BY <1>1, <1>2, <1>4, <1>5

(* One list is replaced by what a good operation makes of it.              *)
LEMMA ReplaceOne ==
    ASSUME NEW ls \in Seq(List), NEW n \in DOMAIN ls, NEW l \in List,
           l.path = ls[n].path,
           l.dirty \/ (l.items = ls[n].items /\ ~ls[n].dirty),
           NEW ks, ks = [ls EXCEPT ![n] = l]
    PROVE  /\ ks \in Seq(List) /\ Len(ks) = Len(ls) /\ ks[n] = l
           /\ DOMAIN ks = DOMAIN ls
           /\ \A i \in DOMAIN ls :
                 /\ ks[i].path = ls[i].path
                 /\ ks[i].dirty \/ (ks[i].items = ls[i].items /\ ~ls[i].dirty)
<1>1. ks \in Seq(List) /\ Len(ks) = Len(ls)
  BY ExceptSeq
<1>2. /\ DOMAIN ks = DOMAIN ls /\ ks[n] = l
      /\ \A i \in DOMAIN ls \ {n} : ks[i] = ls[i]
  OBVIOUS
<1>3. \A i \in DOMAIN ls : ls[i].dirty \in BOOLEAN
  BY ListsType DEF List, FileListType
<1>4. ASSUME NEW i \in DOMAIN ls
      PROVE  /\ ks[i].path = ls[i].path
             /\ ks[i].dirty \/ (ks[i].items = ls[i].items /\ ~ls[i].dirty)
  BY <1>2, <1>3
<1> QED
  BY <1>1, <1>2, <1>4

LEMMA StillClean ==
    ASSUME NEW ls \in Seq(List), NEW ks \in Seq(List), Len(ks) = Len(ls),
           \A i \in DOMAIN ls :
              /\ ks[i].path = ls[i].path
              /\ ks[i].dirty \/ (ks[i].items = ls[i].items /\ ~ls[i].dirty),
           NEW d, Clean(ls, d)
    PROVE  Clean(ks, d)
<1>1. DOMAIN ks = DOMAIN ls /\ \A i \in DOMAIN ls : Sole(ks, i) => Sole(ls, i)
  BY SamePaths
<1>2. ASSUME NEW i \in DOMAIN ks, d[ks[i].path] # Null, Sole(ks, i),
             ~ks[i].dirty
      PROVE  ks[i].items = d[ks[i].path]
  <2>1. ls[i].items = ks[i].items /\ ~ls[i].dirty /\ ls[i].path = ks[i].path
    BY <1>1, <1>2
  <2>2. Sole(ls, i)
    BY <1>1, <1>2
  <2> QED
    BY <1>1, <1>2, <2>1, <2>2 DEF Clean
<1> QED
  BY <1>2 DEF Clean

LEMMA UpdateStep ==
    ASSUME IInv, HasList, NEW r, Good(Current, box, r), Update(r)
    PROVE  IInv'
<1> DEFINE n == selIdx + 1
<1>1. /\ UNCHANGED <<running, selIdx, element, entries, dirty, mode, saved,
                     disk, upset>>
      /\ lists' = [lists EXCEPT ![n] = r.list] /\ box' = r.box
  BY DEF Update
<1>2. lists \in Seq(List) /\ n \in DOMAIN lists /\ Current = lists[n] /\ running
  BY DEF IInv, TypeOK, List, HasList, Current
<1>3. /\ r.list \in List /\ r.list.path = lists[n].path /\ r.box \in Box
      /\ r.list.dirty \/ (r.list.items = lists[n].items /\ ~lists[n].dirty)
  BY <1>2 DEF Good
<1> HIDE DEF n
<1>4. /\ lists' \in Seq(List) /\ Len(lists') = Len(lists) /\ lists'[n] = r.list
      /\ DOMAIN lists' = DOMAIN lists
      /\ \A i \in DOMAIN lists : lists'[i].path = lists[i].path
      /\ Clean(lists', disk)
  <2>1. /\ lists' \in Seq(List) /\ Len(lists') = Len(lists)
        /\ lists'[n] = r.list
        /\ DOMAIN lists' = DOMAIN lists
        /\ \A i \in DOMAIN lists :
              /\ lists'[i].path = lists[i].path
              /\ lists'[i].dirty
                    \/ (lists'[i].items = lists[i].items /\ ~lists[i].dirty)
    BY <1>1, <1>2, <1>3, ReplaceOne
  <2>2. Clean(lists', disk)
    BY <1>2, <2>1, StillClean DEF IInv
  <2> QED
    BY <2>1, <2>2
<1>5. TypeOK'
  BY <1>1, <1>3, <1>4 DEF IInv, TypeOK, Box, List
<1>6. ASSUME ~upset
      PROVE  /\ Synced(lists', element.rows, entries, selIdx, disk)
             /\ Shown(lists', selIdx, box')
  <2>1. /\ Synced(lists, element.rows, entries, selIdx, disk)
        /\ Shown(lists, selIdx, box)
    BY <1>2, <1>6 DEF IInv
  <2>2. Synced(lists', element.rows, entries, selIdx, disk)
    BY <1>2, <1>4, <2>1, SamePaths
  <2>3. box.rows = lists[n].items /\ lists[n].count >= Len(lists[n].items)
    BY <1>2, <2>1 DEF Shown, n
  <2>4. r.box.rows = r.list.items /\ r.list.count >= Len(r.list.items)
    BY <1>2, <2>3 DEF Good
  <2> QED
    BY <1>1, <1>4, <2>2, <2>4 DEF Shown, n
<1>7. RowsHaveLists'
  BY <1>1, <1>4 DEF IInv, RowsHaveLists
<1> QED
  BY <1>1, <1>2, <1>3, <1>4, <1>5, <1>6, <1>7 DEF IInv

LEMMA FileSteps ==
    ASSUME IInv,
           \/ PlaySelected \/ PlayNext \/ PlayPrevious \/ RemoveFile
           \/ ClearCurList
           \/ \E f \in Files : HasList /\ Update(AddFile(Current, box, f))
    PROVE  IInv'
<1>1. HasList
  BY DEF PlaySelected, PlayNext, PlayPrevious, RemoveFile, ClearCurList
<1>2. Current \in List /\ box \in Box /\ mode \in Modes
  <2>1. lists \in Seq(List) /\ selIdx + 1 \in DOMAIN lists
    BY <1>1 DEF IInv, TypeOK, List, HasList
  <2> QED
    BY <2>1, ListsType DEF IInv, TypeOK, Current
<1>3. PICK r : Update(r) /\ Good(Current, box, r)
  <2>1. CASE PlaySelected
    BY <1>2, <2>1, ChangeSelIndexIsGood DEF PlaySelected
  <2>2. CASE PlayNext
    <3>1. PICK r \in MoveNext(Current, box, mode) : Update(r)
      BY <2>2 DEF PlayNext
    <3>2. Good(Current, box, r)
      BY <1>2, MovesAreGood
    <3> QED
      BY <3>1, <3>2
  <2>3. CASE PlayPrevious
    <3>1. PICK r \in MovePrevious(Current, box, mode) : Update(r)
      BY <2>3 DEF PlayPrevious
    <3>2. Good(Current, box, r)
      BY <1>2, MovesAreGood
    <3> QED
      BY <3>1, <3>2
  <2>4. CASE RemoveFile
    BY <1>2, <2>4, RemoveIsGood DEF RemoveFile
  <2>5. CASE ClearCurList
    BY <1>2, <2>5, ClearIsGood DEF ClearCurList
  <2>6. CASE \E f \in Files : HasList /\ Update(AddFile(Current, box, f))
    BY <1>2, <2>6, AddFileIsGood
  <2> QED
    BY <2>1, <2>2, <2>3, <2>4, <2>5, <2>6
<1> QED
  BY <1>1, <1>3, UpdateStep

LEMMA ClickStep ==
    ASSUME IInv, NEW m \in Nat, ClickList(m)
    PROVE  IInv'
<1> DEFINE r == Show(lists[m + 1], box)
           n == m + 1
<1>1. /\ UNCHANGED <<running, entries, mode, saved, disk, upset>>
      /\ lists' = [lists EXCEPT ![n] = r.list] /\ box' = r.box
      /\ element' = [element EXCEPT !.sel = m] /\ selIdx' = m /\ dirty' = TRUE
      /\ running /\ n \in DOMAIN element.rows
  BY DEF ClickList
<1>2. /\ lists \in Seq(List)
      /\ element \in [rows : Seq(Paths), sel : Nat \cup {-1}]
      /\ Len(element.rows) <= Len(lists)
  BY <1>1 DEF IInv, TypeOK, List, RowsHaveLists
<1>3. m < Len(element.rows) /\ n \in DOMAIN lists
  <2>1. /\ DOMAIN element.rows = 1 .. Len(element.rows)
        /\ DOMAIN lists = 1 .. Len(lists)
        /\ Len(lists) \in Nat /\ Len(element.rows) \in Nat
    BY <1>2, ListsType
  <2> QED
    BY <1>1, <1>2, <2>1
<1>4. lists[n] \in List
  BY <1>2, <1>3, ListsType
<1>5. /\ r.list \in List /\ r.list.path = lists[n].path
      /\ r.list.items = lists[n].items /\ r.list.dirty = lists[n].dirty
      /\ r.list.count = lists[n].count + Len(lists[n].items)
      /\ r.box \in Box /\ r.box.rows = lists[n].items
  BY <1>4, ShowIsGood
<1>6. r.list.dirty \/ (r.list.items = lists[n].items /\ ~lists[n].dirty)
  BY <1>5
<1>7. r.box.rows = r.list.items /\ r.list.count >= Len(r.list.items)
  BY <1>2, <1>3, <1>5, ListsType
<1> HIDE DEF r, n
<1>8. /\ lists' \in Seq(List) /\ Len(lists') = Len(lists) /\ lists'[n] = r.list
      /\ DOMAIN lists' = DOMAIN lists
      /\ \A i \in DOMAIN lists : lists'[i].path = lists[i].path
      /\ Clean(lists', disk)
  <2>1. /\ lists' \in Seq(List) /\ Len(lists') = Len(lists)
        /\ lists'[n] = r.list
        /\ DOMAIN lists' = DOMAIN lists
        /\ \A i \in DOMAIN lists :
              /\ lists'[i].path = lists[i].path
              /\ lists'[i].dirty
                    \/ (lists'[i].items = lists[i].items /\ ~lists[i].dirty)
    BY <1>1, <1>2, <1>3, <1>5, <1>6, ReplaceOne
  <2>2. Clean(lists', disk)
    BY <1>2, <2>1, StillClean DEF IInv
  <2> QED
    BY <2>1, <2>2
<1>9. /\ element' \in [rows : Seq(Paths), sel : Nat \cup {-1}]
      /\ element'.rows = element.rows /\ element'.sel = m
  BY <1>1, <1>2
<1>10. TypeOK'
  BY <1>1, <1>5, <1>8, <1>9 DEF IInv, TypeOK, Box, List
<1>11. ASSUME ~upset
       PROVE  /\ Synced(lists', element'.rows, entries, m, disk)
              /\ Shown(lists', m, box')
  <2>1. Synced(lists, element.rows, entries, selIdx, disk)
    BY <1>1, <1>11 DEF IInv
  <2>2. lists # <<>>
    BY <1>3
  <2>3. Synced(lists, element.rows, entries, m, disk)
    BY <1>3, <2>1, <2>2 DEF Synced, n
  <2>4. Synced(lists', element'.rows, entries, m, disk)
    BY <1>2, <1>8, <1>9, <2>3, SamePaths
  <2> QED
    BY <1>1, <1>7, <1>8, <2>4 DEF Shown, n
<1>12. RowsHaveLists' /\ box' \in Box /\ Clean(lists', disk)
  BY <1>1, <1>2, <1>3, <1>5, <1>8, <1>9 DEF IInv, RowsHaveLists
<1> QED
  BY <1>1, <1>10, <1>11, <1>12 DEF IInv

(* A list is appended to the others.                                       *)
LEMMA AppendOne ==
    ASSUME NEW ls \in Seq(List), NEW l \in List
    PROVE  LET ks == Append(ls, l)
           IN  /\ ks \in Seq(List) /\ Len(ks) = Len(ls) + 1
               /\ Len(ls) \in Nat /\ DOMAIN ls = 1 .. Len(ls)
               /\ DOMAIN ks = 1 .. Len(ls) + 1
               /\ ks[Len(ls) + 1] = l
               /\ \A i \in DOMAIN ls : ks[i] = ls[i]
  OBVIOUS

LEMMA AppendPath ==
    ASSUME NEW ls \in Seq(List), NEW ks \in Seq(List), Len(ks) = Len(ls) + 1,
           \A i \in DOMAIN ls : ks[i] = ls[i]
    PROVE  PathsOf(ks) = Append(PathsOf(ls), ks[Len(ls) + 1].path)
<1> DEFINE a == PathsOf(ks)
           z == Append(PathsOf(ls), ks[Len(ls) + 1].path)
<1>1. /\ Len(ls) \in Nat /\ DOMAIN ls = 1 .. Len(ls)
      /\ DOMAIN ks = 1 .. Len(ls) + 1
  OBVIOUS
<1>2. ks[Len(ls) + 1].path \in Paths
  BY <1>1, ListsType
<1>3. /\ a \in Seq(Paths) /\ Len(a) = Len(ls) + 1
      /\ \A i \in 1 .. Len(ls) + 1 : a[i] = ks[i].path
  BY <1>1, PathsOfType
<1>4. /\ PathsOf(ls) \in Seq(Paths) /\ Len(PathsOf(ls)) = Len(ls)
      /\ \A i \in 1 .. Len(ls) : PathsOf(ls)[i] = ls[i].path
  BY PathsOfType
<1>5. /\ z \in Seq(Paths) /\ Len(z) = Len(ls) + 1
      /\ z[Len(ls) + 1] = ks[Len(ls) + 1].path
      /\ \A i \in 1 .. Len(ls) : z[i] = PathsOf(ls)[i]
  BY <1>2, <1>4
<1> HIDE DEF a, z
<1>6. ASSUME NEW i \in 1 .. Len(ls) + 1
      PROVE  a[i] = z[i]
  <2>1. CASE i = Len(ls) + 1
    BY <1>1, <1>3, <1>5, <2>1
  <2>2. CASE i # Len(ls) + 1
    <3>1. i \in 1 .. Len(ls)
      BY <1>1, <2>2
    <3> QED
      BY <1>1, <1>3, <1>4, <1>5, <3>1
  <2> QED
    BY <2>1, <2>2
<1>7. a = z
  BY <1>1, <1>3, <1>5, <1>6, SeqEqual
<1> QED
  BY <1>7 DEF a, z

(* A new list, shown.                                                      *)
LEMMA NewListIsShown ==
    ASSUME NEW p \in Paths, NEW items \in Seq(Files), NEW b
    PROVE  LET r == Show(NewFileList(p, items), b)
           IN  /\ r.list \in List /\ r.list.path = p /\ r.list.items = items
               /\ r.list.count = Len(items) /\ ~r.list.dirty
               /\ r.box \in Box /\ r.box.rows = items
<1> DEFINE l == NewFileList(p, items)
<1>1. l = [path |-> p, items |-> items, selIdx |-> -1, fileNode |-> Null,
           count |-> 0, dirty |-> FALSE]
  BY DEF NewFileList
<1>2. Len(items) \in Nat
  OBVIOUS
<1>3. l \in List /\ l.path = p /\ l.items = items /\ l.count = 0 /\ ~l.dirty
  BY <1>1 DEF List, FileListType
<1> HIDE DEF l
<1>4. /\ Show(l, b).list \in List /\ Show(l, b).list.path = l.path
      /\ Show(l, b).list.items = l.items /\ Show(l, b).list.dirty = l.dirty
      /\ Show(l, b).list.count = l.count + Len(l.items)
      /\ Show(l, b).box \in Box /\ Show(l, b).box.rows = l.items
  BY <1>3, ShowIsGood
<1>5. /\ Show(l, b).list \in List /\ Show(l, b).list.path = p
      /\ Show(l, b).list.items = items /\ ~Show(l, b).list.dirty
      /\ Show(l, b).list.count = Len(items)
      /\ Show(l, b).box \in Box /\ Show(l, b).box.rows = items
  BY <1>2, <1>3, <1>4
<1> QED
  BY <1>5 DEF l

(* The file p, which now holds items, is opened as the last list.          *)
LEMMA OpenedStep ==
    ASSUME IInv, running, NEW p \in Paths, NEW items \in Seq(Files),
           NEW f \in Files \cup {Null}, Opened(p, items, f),
           disk' = [disk EXCEPT ![p] = items]
    PROVE  IInv'
<1> DEFINE shown == Show(NewFileList(p, items), box)
           ls    == Append(lists, shown.list)
           i     == Len(element.rows)
           r     == AddFile(ls[i + 1], shown.box, f)
<1>1. /\ UNCHANGED <<running, mode, saved>>
      /\ IF f = Null THEN lists' = ls /\ box' = shown.box
         ELSE lists' = [ls EXCEPT ![i + 1] = r.list] /\ box' = r.box
      /\ element' = [rows |-> Append(element.rows, p), sel |-> i]
      /\ selIdx' = i /\ entries' = Append(entries, p) /\ dirty' = TRUE
      /\ upset' = (upset \/ p \in ToSet(PathsOf(lists)))
  BY DEF Opened
<1>2. /\ lists \in Seq(List) /\ element.rows \in Seq(Paths)
      /\ Len(element.rows) <= Len(lists) /\ entries \in Seq(Paths)
      /\ disk \in [Paths -> {Null} \cup Seq(Files)]
  BY DEF IInv, TypeOK, List, RowsHaveLists
<1>3. /\ shown.list \in List /\ shown.list.path = p /\ shown.list.items = items
      /\ shown.list.count = Len(items) /\ ~shown.list.dirty
      /\ shown.box \in Box /\ shown.box.rows = items
  BY NewListIsShown
<1>4. /\ ls \in Seq(List) /\ Len(ls) = Len(lists) + 1
      /\ Len(lists) \in Nat /\ DOMAIN lists = 1 .. Len(lists)
      /\ DOMAIN ls = 1 .. Len(lists) + 1
      /\ ls[Len(lists) + 1] = shown.list
      /\ \A j \in DOMAIN lists : ls[j] = lists[j]
      /\ PathsOf(ls) = Append(PathsOf(lists), p)
  <2> DEFINE l == shown.list
  <2>1. l \in List /\ l.path = p /\ ls = Append(lists, l)
    BY <1>3
  <2> HIDE DEF l, ls
  <2>2. /\ ls \in Seq(List) /\ Len(ls) = Len(lists) + 1
        /\ Len(lists) \in Nat /\ DOMAIN lists = 1 .. Len(lists)
        /\ DOMAIN ls = 1 .. Len(lists) + 1
        /\ ls[Len(lists) + 1] = l
        /\ \A j \in DOMAIN lists : ls[j] = lists[j]
    BY <1>2, <2>1, AppendOne
  <2>3. PathsOf(ls) = Append(PathsOf(lists), l.path)
    BY <1>2, <2>2, AppendPath
  <2> QED
    BY <2>1, <2>2, <2>3 DEF l
<1>5. i \in Nat /\ i + 1 \in DOMAIN ls /\ ls[i + 1] \in List
  <2>1. i \in Nat
    BY <1>2
  <2>2. i + 1 \in DOMAIN ls
    BY <1>2, <1>4, <2>1
  <2> QED
    BY <1>4, <2>1, <2>2, ListsType
<1> HIDE DEF shown, ls, i
<1>6. f # Null => Good(ls[i + 1], shown.box, r)
  BY <1>3, <1>5, AddFileIsGood
<1> HIDE DEF r
<1>7. /\ lists' \in Seq(List) /\ Len(lists') = Len(lists) + 1
      /\ DOMAIN lists' = DOMAIN ls
      /\ \A j \in DOMAIN ls :
            /\ lists'[j].path = ls[j].path
            /\ lists'[j].dirty
                  \/ (lists'[j].items = ls[j].items /\ ~ls[j].dirty)
      /\ box' \in Box
  <2>1. CASE f = Null
    <3>1. \A j \in DOMAIN ls : ls[j].dirty \in BOOLEAN
      BY <1>4, ListsType DEF List, FileListType
    <3> QED
      BY <1>1, <1>3, <1>4, <2>1, <3>1
  <2>2. CASE f # Null
    <3>1. /\ r.list \in List /\ r.list.path = ls[i + 1].path /\ r.box \in Box
          /\ r.list.dirty
                \/ (r.list.items = ls[i + 1].items /\ ~ls[i + 1].dirty)
      BY <1>6, <2>2 DEF Good
    <3>2. lists' = [ls EXCEPT ![i + 1] = r.list] /\ box' = r.box
      BY <1>1, <2>2
    <3> QED
      BY <1>4, <1>5, <3>1, <3>2, ReplaceOne
  <2> QED
    BY <2>1, <2>2
<1>8. disk' \in [Paths -> {Null} \cup Seq(Files)]
  BY <1>2
<1>9. Clean(ls, disk')
  <2> SUFFICES ASSUME NEW j \in DOMAIN ls, disk'[ls[j].path] # Null,
                      Sole(ls, j), ~ls[j].dirty
               PROVE  ls[j].items = disk'[ls[j].path]
    BY DEF Clean
  <2>1. CASE j = Len(lists) + 1
    BY <1>2, <1>3, <1>4, <2>1
  <2>2. CASE j # Len(lists) + 1
    <3>1. j \in DOMAIN lists /\ ls[j] = lists[j]
      BY <1>4, <2>2
    <3>2. Len(lists) + 1 \in DOMAIN ls \ {j}
      BY <1>4, <2>2
    <3>3. lists[j].path # p
      BY <1>3, <1>4, <3>1, <3>2 DEF Sole
    <3>4. lists[j].path \in Paths
      BY <1>2, <3>1, ListsType
    <3>5. disk'[lists[j].path] = disk[lists[j].path]
      BY <1>2, <3>3, <3>4
    <3>6. Sole(lists, j)
      BY <1>4, <3>1 DEF Sole
    <3> QED
      BY <3>1, <3>5, <3>6 DEF IInv, Clean
  <2> QED
    BY <2>1, <2>2
<1>10. Clean(lists', disk')
  BY <1>4, <1>7, <1>9, StillClean
<1>11. TypeOK'
  <2>1. element' \in [rows : Seq(Paths), sel : Nat \cup {-1}]
        /\ selIdx' \in Nat \cup {-1} /\ entries' \in Seq(Paths)
    BY <1>1, <1>2, <1>5
  <2>2. upset' \in BOOLEAN /\ dirty' \in BOOLEAN /\ running' \in BOOLEAN
    BY <1>1 DEF IInv, TypeOK
  <2>3. saved' = saved /\ mode' = mode
    BY <1>1
  <2> QED
    BY <1>7, <1>8, <2>1, <2>2, <2>3 DEF IInv, TypeOK, Box, List
<1>12. RowsHaveLists'
  <2>1. element'.rows = Append(element.rows, p) /\ element'.sel = i
    BY <1>1
  <2>2. Len(element'.rows) = i + 1
    BY <1>2, <2>1 DEF i
  <2>3. i <= Len(lists)
    BY <1>2 DEF i
  <2> QED
    BY <1>4, <1>5, <1>7, <2>1, <2>2, <2>3 DEF RowsHaveLists
<1>13. ASSUME ~upset'
       PROVE  /\ Synced(lists', element'.rows, entries', selIdx', disk')
              /\ Shown(lists', selIdx', box')
  <2>1. ~upset /\ p \notin ToSet(PathsOf(lists))
    BY <1>1, <1>13
  <2>2. Synced(lists, element.rows, entries, selIdx, disk)
    BY <2>1 DEF IInv
  <2>3. i = Len(lists)
    <3>1. element.rows = PathsOf(lists) /\ Len(PathsOf(lists)) = Len(lists)
      BY <1>2, <2>2, PathsOfType DEF Synced
    <3> QED
      BY <3>1 DEF i
  <2>4. \A j \in DOMAIN lists : lists[j].path \in Paths /\ lists[j].path # p
    <3>1. \A j \in DOMAIN lists : lists[j].path # p
      BY <2>1 DEF ToSet, PathsOf
    <3> QED
      BY <1>2, <3>1, ListsType
  <2>5. Synced(ls, element'.rows, entries', selIdx', disk')
    <3>1. element'.rows = PathsOf(ls) /\ entries' = PathsOf(ls)
      BY <1>1, <1>4, <2>2 DEF Synced
    <3>2. ls # <<>> /\ selIdx' + 1 \in DOMAIN ls
      BY <1>1, <1>5
    <3>3. \A j \in DOMAIN ls : j \in DOMAIN lists \/ j = Len(lists) + 1
      BY <1>4
    <3>4. \A j, k \in DOMAIN ls : ls[j].path = ls[k].path => j = k
      BY <1>3, <1>4, <2>2, <2>4, <3>3 DEF Synced
    <3>5. ASSUME NEW j \in DOMAIN ls
          PROVE  disk'[ls[j].path] # Null
      <4>1. CASE j \in DOMAIN lists
        BY <1>2, <1>4, <2>2, <2>4, <4>1 DEF Synced
      <4>2. CASE j = Len(lists) + 1
        BY <1>2, <1>3, <1>4, <4>2
      <4> QED
        BY <3>3, <4>1, <4>2
    <3> QED
      BY <3>1, <3>2, <3>4, <3>5 DEF Synced
  <2>6. Synced(lists', element'.rows, entries', selIdx', disk')
    BY <1>4, <1>7, <2>5, SamePaths
  <2>7. Shown(lists', selIdx', box')
    <3>1. ls[i + 1] = shown.list /\ selIdx' = i
      BY <1>1, <1>4, <2>3
    <3>2. shown.box.rows = ls[i + 1].items
          /\ ls[i + 1].count >= Len(ls[i + 1].items)
      BY <1>3, <3>1
    <3>3. CASE f = Null
      BY <1>1, <3>1, <3>2, <3>3 DEF Shown
    <3>4. CASE f # Null
      <4>1. r.box.rows = r.list.items /\ r.list.count >= Len(r.list.items)
        BY <1>6, <3>2, <3>4 DEF Good
      <4>2. lists'[i + 1] = r.list /\ box' = r.box
        BY <1>1, <1>5, <3>4
      <4> QED
        BY <3>1, <4>1, <4>2 DEF Shown
    <3> QED
      BY <3>3, <3>4
  <2> QED
    BY <2>6, <2>7
<1> QED
  BY <1>1, <1>7, <1>10, <1>11, <1>12, <1>13 DEF IInv

LEMMA OpenSteps ==
    ASSUME IInv, NEW p \in Paths,
           \/ NewList(p) \/ OpenList(p)
           \/ \E f \in Files :
                 /\ running /\ disk' = [disk EXCEPT ![p] = Created(p)]
                 /\ Opened(p, Created(p), f)
    PROVE  IInv'
<1>1. disk \in [Paths -> {Null} \cup Seq(Files)]
  BY DEF IInv, TypeOK
<1>2. Created(p) \in Seq(Files)
  BY <1>1 DEF Created
<1>3. CASE NewList(p)
  BY <1>2, <1>3, OpenedStep DEF NewList
<1>4. CASE OpenList(p)
  <2>1. disk[p] \in Seq(Files) /\ disk' = [disk EXCEPT ![p] = disk[p]]
    BY <1>1, <1>4 DEF OpenList
  <2> QED
    BY <1>4, <2>1, OpenedStep DEF OpenList
<1>5. CASE \E f \in Files :
              /\ running /\ disk' = [disk EXCEPT ![p] = Created(p)]
              /\ Opened(p, Created(p), f)
  BY <1>2, <1>5, OpenedStep
<1> QED
  BY <1>3, <1>4, <1>5

(* The index, before element i + 1 was removed, of the one now at j.       *)
Was(i, j) == IF j <= i THEN j ELSE j + 1

(* A list is removed from the others.                                      *)
LEMMA DropOne ==
    ASSUME NEW ls \in Seq(List), NEW i \in Nat, i < Len(ls)
    PROVE  LET ks == DropAt(ls, i)
           IN  /\ ks \in Seq(List) /\ Len(ks) = Len(ls) - 1
               /\ Len(ls) \in Nat /\ DOMAIN ls = 1 .. Len(ls)
               /\ DOMAIN ks = 1 .. Len(ls) - 1
               /\ \A j \in DOMAIN ks :
                     Was(i, j) \in DOMAIN ls \ {i + 1} /\ ks[j] = ls[Was(i, j)]
               /\ \A m \in DOMAIN ls \ {i + 1} :
                     \E j \in DOMAIN ks : m = Was(i, j)
<1> DEFINE ks == DropAt(ls, i)
<1>1. /\ ks \in Seq(List) /\ Len(ks) = Len(ls) - 1
      /\ \A j \in 1 .. Len(ls) - 1 :
            ks[j] = IF j <= i THEN ls[j] ELSE ls[j + 1]
  BY DropAtType
<1> HIDE DEF ks
<1>2. Len(ls) \in Nat /\ DOMAIN ls = 1 .. Len(ls)
  OBVIOUS
<1>3. DOMAIN ks = 1 .. Len(ls) - 1
  BY <1>1
<1>4. ASSUME NEW j \in DOMAIN ks
      PROVE  Was(i, j) \in DOMAIN ls \ {i + 1} /\ ks[j] = ls[Was(i, j)]
  BY <1>1, <1>2, <1>3 DEF Was
<1>5. ASSUME NEW m \in DOMAIN ls \ {i + 1}
      PROVE  \E j \in DOMAIN ks : m = Was(i, j)
  <2>1. CASE m <= i
    <3>1. m \in DOMAIN ks /\ Was(i, m) = m
      BY <1>2, <1>3, <2>1 DEF Was
    <3> QED
      BY <3>1
  <2>2. CASE ~(m <= i)
    <3>1. m - 1 \in DOMAIN ks /\ Was(i, m - 1) = m
      BY <1>2, <1>3, <2>2 DEF Was
    <3> QED
      BY <3>1
  <2> QED
    BY <2>1, <2>2
<1> QED
  BY <1>1, <1>2, <1>3, <1>4, <1>5 DEF ks

LEMMA DropPath ==
    ASSUME NEW ls \in Seq(List), NEW i \in Nat, i < Len(ls)
    PROVE  DropAt(PathsOf(ls), i) = PathsOf(DropAt(ls, i))
<1> DEFINE ks == DropAt(ls, i)
           ps == PathsOf(ls)
           a  == DropAt(ps, i)
           z  == PathsOf(ks)
<1>1. /\ ks \in Seq(List) /\ Len(ks) = Len(ls) - 1
      /\ \A j \in 1 .. Len(ls) - 1 :
            ks[j] = IF j <= i THEN ls[j] ELSE ls[j + 1]
  BY DropAtType
<1>2. /\ ps \in Seq(Paths) /\ Len(ps) = Len(ls) /\ Len(ls) \in Nat
      /\ \A j \in 1 .. Len(ls) : ps[j] = ls[j].path
  BY PathsOfType
<1> HIDE DEF ks, ps
<1>3. /\ z \in Seq(Paths) /\ Len(z) = Len(ls) - 1
      /\ \A j \in 1 .. Len(ls) - 1 : z[j] = ks[j].path
  BY <1>1, PathsOfType
<1>4. /\ a \in Seq(Paths) /\ Len(a) = Len(ls) - 1
      /\ \A j \in 1 .. Len(ls) - 1 :
            a[j] = IF j <= i THEN ps[j] ELSE ps[j + 1]
  BY <1>2, DropAtType
<1> HIDE DEF a, z
<1>5. ASSUME NEW j \in 1 .. Len(ls) - 1
      PROVE  a[j] = z[j]
  <2>1. j \in 1 .. Len(ls) /\ j + 1 \in 1 .. Len(ls)
    BY <1>2
  <2> QED
    BY <1>1, <1>2, <1>3, <1>4, <2>1
<1>6. a = z
  BY <1>3, <1>4, <1>5, SeqEqual
<1> QED
  BY <1>6 DEF a, z, ks, ps

(* The index of the row to select when one of rows has been removed.       *)
LEMMA NextSelected ==
    ASSUME NEW n \in Nat, NEW i \in 0 .. n, NEW next, NEW sel,
           next = (IF i = n THEN i - 1 ELSE i),
           sel = (IF n # 0 /\ next < 0 THEN 0 ELSE next)
    PROVE  IF n = 0 THEN sel = -1 ELSE sel \in 0 .. n - 1
<1>1. next \in Int /\ next >= -1 /\ next < n
  OBVIOUS
<1>2. CASE n = 0
  BY <1>1, <1>2
<1>3. CASE n # 0
  BY <1>1, <1>3
<1> QED
  BY <1>2, <1>3

LEMMA RemoveStep ==
    ASSUME IInv, RemoveList
    PROVE  IInv'
<1> DEFINE i     == element.sel
           n     == i + 1
           path  == lists[n].path
           clear == Clear(lists[n], box)
           rows  == DropAt(element.rows, i)
           rest  == DropAt(lists, i)
           next  == IF i = Len(rows) THEN i - 1 ELSE i
           sel   == IF rows # <<>> /\ next < 0 THEN 0 ELSE next
           r     == Show(rest[sel + 1], clear.box)
<1>1. /\ running /\ i >= 0 /\ dirty' = TRUE /\ entries' = DropAt(entries, i)
      /\ UNCHANGED <<running, mode, saved, upset>>
  BY DEF RemoveList, EntriesWithout
<1>2. /\ disk[path] = Null =>
            /\ lists' = [lists EXCEPT ![n] = clear.list] /\ box' = clear.box
            /\ element' = [rows |-> rows, sel |-> -1]
            /\ UNCHANGED <<selIdx, disk>>
      /\ disk[path] # Null =>
            /\ disk' = [disk EXCEPT ![path] = Null]
            /\ element' = [rows |-> rows, sel |-> SelectIn(rows, -1, sel)]
            /\ selIdx' = sel
            /\ sel < 0 => lists' = rest /\ box' = clear.box
            /\ ~(sel < 0) => lists' = [rest EXCEPT ![sel + 1] = r.list]
                             /\ box' = r.box
  BY DEF RemoveList
<1>3. /\ lists \in Seq(List) /\ element.rows \in Seq(Paths)
      /\ Len(element.rows) <= Len(lists) /\ entries \in Seq(Paths)
      /\ disk \in [Paths -> {Null} \cup Seq(Files)] /\ box \in Box
      /\ i \in Nat /\ i < Len(element.rows)
      /\ Len(lists) \in Nat /\ Len(element.rows) \in Nat
  BY <1>1 DEF IInv, TypeOK, List, RowsHaveLists
<1>4. /\ n \in DOMAIN lists /\ lists[n] \in List
      /\ path \in Paths /\ i < Len(lists)
  <2>1. n \in DOMAIN lists /\ i < Len(lists)
    BY <1>3
  <2> QED
    BY <1>3, <2>1, ListsType
<1>5. Good(lists[n], box, clear)
  BY <1>3, <1>4, ClearIsGood
<1>6. rows \in Seq(Paths) /\ Len(rows) = Len(element.rows) - 1
  BY <1>3, DropAtType
<1>7. /\ rest \in Seq(List) /\ Len(rest) = Len(lists) - 1
      /\ DOMAIN lists = 1 .. Len(lists) /\ DOMAIN rest = 1 .. Len(lists) - 1
      /\ \A j \in DOMAIN rest :
            Was(i, j) \in DOMAIN lists \ {n} /\ rest[j] = lists[Was(i, j)]
      /\ \A m \in DOMAIN lists \ {n} : \E j \in DOMAIN rest : m = Was(i, j)
  BY <1>3, <1>4, DropOne
<1>8. IF Len(rows) = 0 THEN sel = -1 ELSE sel \in 0 .. Len(rows) - 1
  <2>1. Len(rows) \in Nat /\ i \in 0 .. Len(rows)
    BY <1>3, <1>6
  <2>2. rows = <<>> <=> Len(rows) = 0
    BY <1>6, EmptySeq
  <2>3. sel = IF Len(rows) # 0 /\ next < 0 THEN 0 ELSE next
    BY <2>2
  <2> HIDE DEF sel, rows
  <2> QED
    BY <2>1, <2>3, NextSelected
<1>9. /\ DropAt(entries, i) \in Seq(Paths)
      /\ sel \in Nat \cup {-1}
      /\ SelectIn(rows, -1, sel) \in Nat \cup {-1}
      /\ SelectIn(rows, -1, sel) < Len(rows)
      /\ sel >= 0 => sel + 1 \in DOMAIN rest
  <2> HIDE DEF sel, rows, rest, n
  <2>1. DropAt(entries, i) \in Seq(Paths)
    BY <1>3, DropAtType
  <2>2. sel \in Nat \cup {-1} /\ sel < Len(rows) /\ Len(rows) \in Nat
    BY <1>3, <1>6, <1>8
  <2>3. sel >= 0 => sel + 1 \in DOMAIN rest
    BY <1>3, <1>6, <1>7, <2>2
  <2>4. SelectIn(rows, -1, sel) \in Nat \cup {-1}
        /\ SelectIn(rows, -1, sel) < Len(rows)
    BY <2>2 DEF SelectIn
  <2> QED
    BY <2>1, <2>2, <2>3, <2>4
<1>10. clear.box \in Box /\ clear.list \in List /\ clear.list.path = path
       /\ (clear.list.dirty
             \/ (clear.list.items = lists[n].items /\ ~lists[n].dirty))
  BY <1>5 DEF Good
<1>11. sel >= 0 =>
          /\ r.list \in List /\ r.list.path = rest[sel + 1].path
          /\ r.list.items = rest[sel + 1].items
          /\ r.list.dirty = rest[sel + 1].dirty
          /\ r.list.count >= Len(r.list.items)
          /\ r.box \in Box /\ r.box.rows = r.list.items
  <2> SUFFICES ASSUME sel >= 0
               PROVE  /\ r.list \in List /\ r.list.path = rest[sel + 1].path
                      /\ r.list.items = rest[sel + 1].items
                      /\ r.list.dirty = rest[sel + 1].dirty
                      /\ r.list.count >= Len(r.list.items)
                      /\ r.box \in Box /\ r.box.rows = r.list.items
    OBVIOUS
  <2> DEFINE l == rest[sel + 1]
  <2>1. l \in List /\ l.count \in Nat /\ Len(l.items) \in Nat
    BY <1>7, <1>9, ListsType
  <2> HIDE DEF l
  <2>2. /\ Show(l, clear.box).list \in List
        /\ Show(l, clear.box).list.path = l.path
        /\ Show(l, clear.box).list.items = l.items
        /\ Show(l, clear.box).list.dirty = l.dirty
        /\ Show(l, clear.box).list.count = l.count + Len(l.items)
        /\ Show(l, clear.box).box \in Box
        /\ Show(l, clear.box).box.rows = l.items
    BY <2>1, ShowIsGood
  <2>3. Show(l, clear.box).list.count >= Len(Show(l, clear.box).list.items)
    BY <2>1, <2>2
  <2> QED
    BY <2>2, <2>3 DEF l
<1> HIDE DEF n, path, clear, rows, rest, next, sel, r
<1>12. CASE disk[path] = Null
  <2>1. /\ lists' = [lists EXCEPT ![n] = clear.list] /\ box' = clear.box
        /\ element' = [rows |-> rows, sel |-> -1]
        /\ UNCHANGED <<selIdx, disk>>
    BY <1>2, <1>12
  <2>2. /\ lists' \in Seq(List) /\ Len(lists') = Len(lists)
        /\ \A j \in DOMAIN lists :
              /\ lists'[j].path = lists[j].path
              /\ lists'[j].dirty
                    \/ (lists'[j].items = lists[j].items /\ ~lists[j].dirty)
    BY <1>3, <1>4, <1>10, <2>1, ReplaceOne DEF path
  <2>3. Clean(lists', disk)
    BY <1>3, <2>2, StillClean DEF IInv
  <2>4. ~upset => FALSE
    <3>1. ASSUME ~upset PROVE disk[lists[n].path] # Null
      BY <1>1, <1>4, <3>1 DEF IInv, Synced
    <3> QED
      BY <1>12, <3>1 DEF path
  <2>5. TypeOK'
    <3>1. element' \in [rows : Seq(Paths), sel : Nat \cup {-1}]
      BY <1>6, <2>1
    <3> QED
      BY <1>1, <1>9, <1>10, <2>1, <2>2, <3>1 DEF IInv, TypeOK, Box, List
  <2>6. RowsHaveLists'
    <3>1. element'.rows = rows /\ element'.sel = -1
      BY <2>1
    <3> QED
      BY <1>3, <1>6, <2>2, <3>1 DEF RowsHaveLists
  <2> QED
    BY <1>1, <1>10, <2>1, <2>3, <2>4, <2>5, <2>6 DEF IInv
<1>13. CASE disk[path] # Null
  <2>1. /\ disk' = [disk EXCEPT ![path] = Null]
        /\ element' = [rows |-> rows, sel |-> SelectIn(rows, -1, sel)]
        /\ selIdx' = sel
        /\ sel < 0 => lists' = rest /\ box' = clear.box
        /\ ~(sel < 0) => lists' = [rest EXCEPT ![sel + 1] = r.list]
                         /\ box' = r.box
    BY <1>2, <1>13
  <2>2. disk' \in [Paths -> {Null} \cup Seq(Files)]
    BY <1>3, <2>1
  <2>3. /\ lists' \in Seq(List) /\ Len(lists') = Len(rest) /\ box' \in Box
        /\ DOMAIN lists' = DOMAIN rest
        /\ \A j \in DOMAIN rest :
              /\ lists'[j].path = rest[j].path
              /\ lists'[j].dirty
                    \/ (lists'[j].items = rest[j].items /\ ~rest[j].dirty)
    <3>1. \A j \in DOMAIN rest : rest[j].dirty \in BOOLEAN
      BY <1>7, ListsType DEF List, FileListType
    <3>2. CASE sel < 0
      BY <1>7, <1>10, <2>1, <3>1, <3>2
    <3>3. CASE ~(sel < 0)
      <4>1. /\ sel + 1 \in DOMAIN rest /\ r.list \in List /\ r.box \in Box
            /\ r.list.path = rest[sel + 1].path
            /\ r.list.dirty
                  \/ (r.list.items = rest[sel + 1].items
                      /\ ~rest[sel + 1].dirty)
        BY <1>9, <1>11, <3>1, <3>3
      <4>2. lists' = [rest EXCEPT ![sel + 1] = r.list] /\ box' = r.box
        BY <2>1, <3>3
      <4> QED
        BY <1>7, <4>1, <4>2, ReplaceOne
    <3> QED
      BY <3>2, <3>3
  <2>4. Clean(rest, disk')
    <3> SUFFICES ASSUME NEW j \in DOMAIN rest, disk'[rest[j].path] # Null,
                        Sole(rest, j), ~rest[j].dirty
                 PROVE  rest[j].items = disk'[rest[j].path]
      BY DEF Clean
    <3> DEFINE m == Was(i, j)
    <3>1. /\ m \in DOMAIN lists \ {n} /\ rest[j] = lists[m]
          /\ lists[m].path \in Paths
      BY <1>3, <1>7, ListsType
    <3>2. lists[m].path # path /\ disk'[lists[m].path] = disk[lists[m].path]
      BY <1>3, <1>4, <2>1, <3>1
    <3>3. ASSUME NEW k \in DOMAIN lists \ {m}
          PROVE  lists[k].path # lists[m].path
      <4>1. CASE k = n
        BY <3>2, <4>1 DEF path
      <4>2. CASE k # n
        <5>1. PICK h \in DOMAIN rest : k = Was(i, h)
          BY <1>7, <4>2
        <5>2. h # j
          BY <5>1
        <5> QED
          BY <1>7, <3>1, <5>1, <5>2 DEF Sole
      <4> QED
        BY <4>1, <4>2
    <3>4. Sole(lists, m)
      BY <3>3 DEF Sole
    <3> HIDE DEF m
    <3> QED
      BY <3>1, <3>2, <3>4 DEF IInv, Clean
  <2>5. Clean(lists', disk')
    BY <1>7, <2>3, <2>4, StillClean
  <2>6. TypeOK'
    <3>1. element' \in [rows : Seq(Paths), sel : Nat \cup {-1}]
      BY <1>6, <1>9, <2>1
    <3> QED
      BY <1>1, <1>9, <2>1, <2>2, <2>3, <3>1 DEF IInv, TypeOK, Box, List
  <2>7. RowsHaveLists'
    <3>1. element'.rows = rows /\ element'.sel = SelectIn(rows, -1, sel)
      BY <2>1
    <3> QED
      BY <1>3, <1>6, <1>7, <1>9, <2>3, <3>1 DEF RowsHaveLists
  <2>8. ASSUME ~upset
        PROVE  /\ Synced(lists', element'.rows, entries', selIdx', disk')
               /\ Shown(lists', selIdx', box')
    <3>1. Synced(lists, element.rows, entries, selIdx, disk)
      BY <1>1, <2>8 DEF IInv
    <3>2. element'.rows = PathsOf(rest) /\ entries' = PathsOf(rest)
      <4>1. DropAt(PathsOf(lists), i) = PathsOf(rest)
        BY <1>3, <1>4, DropPath DEF rest
      <4> QED
        BY <1>1, <2>1, <3>1, <4>1 DEF Synced, rows
    <3>3. IF rest = <<>> THEN sel = -1 ELSE sel + 1 \in DOMAIN rest
      <4>1. Len(rows) = Len(rest)
        <5>1. Len(PathsOf(lists)) = Len(lists)
          BY <1>3, PathsOfType
        <5> QED
          BY <1>6, <1>7, <3>1, <5>1 DEF Synced
      <4>2. rest = <<>> <=> Len(rest) = 0
        BY <1>7, EmptySeq
      <4> QED
        BY <1>8, <1>9, <4>1, <4>2
    <3>4. ASSUME NEW j \in DOMAIN rest, NEW k \in DOMAIN rest,
                 rest[j].path = rest[k].path
          PROVE  j = k
      <4>1. Was(i, j) = Was(i, k)
        BY <1>7, <3>1, <3>4 DEF Synced
      <4> QED
        BY <1>3, <1>7, <4>1 DEF Was
    <3>5. ASSUME NEW j \in DOMAIN rest
          PROVE  disk'[rest[j].path] # Null
      <4>1. Was(i, j) \in DOMAIN lists \ {n} /\ rest[j] = lists[Was(i, j)]
        BY <1>7
      <4>2. rest[j].path # path /\ rest[j].path \in Paths
        BY <1>3, <1>4, <3>1, <4>1, ListsType DEF Synced, path
      <4>3. disk[rest[j].path] # Null
        BY <3>1, <4>1 DEF Synced
      <4> QED
        BY <1>3, <2>1, <4>2, <4>3
    <3>6. Synced(rest, element'.rows, entries', selIdx', disk')
      BY <2>1, <3>2, <3>3, <3>4, <3>5 DEF Synced
    <3>7. Synced(lists', element'.rows, entries', selIdx', disk')
      BY <1>7, <2>3, <3>6, SamePaths
    <3>8. Shown(lists', selIdx', box')
      <4>1. CASE sel < 0
        <5>1. selIdx' + 1 \notin DOMAIN lists'
          BY <1>7, <1>9, <2>1, <2>3, <4>1
        <5> QED
          BY <5>1 DEF Shown
      <4>2. CASE ~(sel < 0)
        <5>1. sel >= 0
          BY <1>9, <4>2
        <5>2. lists'[sel + 1] = r.list /\ box' = r.box
          BY <1>7, <1>9, <2>1, <4>2, <5>1
        <5> QED
          BY <1>11, <2>1, <5>1, <5>2 DEF Shown
      <4> QED
        BY <4>1, <4>2
    <3> QED
      BY <3>7, <3>8
  <2> QED
    BY <1>1, <2>3, <2>5, <2>6, <2>7, <2>8 DEF IInv
<1> QED
  BY <1>12, <1>13

-----------------------------------------------------------------------------
(* The player starts and ends.                                             *)

LEMMA ListedCount == TypeOK => Cardinality(Listed) \in Nat
<1> SUFFICES ASSUME TypeOK PROVE Cardinality(Listed) \in Nat
  OBVIOUS
<1>1. saved.entries \in Seq(Paths)
  BY DEF TypeOK
<1>2. Len(saved.entries) \in Nat /\ Listed \subseteq 1 .. Len(saved.entries)
  BY <1>1 DEF Listed
<1>3. IsFiniteSet(1 .. Len(saved.entries))
  BY <1>2, FS_Interval
<1> QED
  BY <1>2, <1>3, FS_Subset, FS_CardinalityType

(* The lists that are opened for the entries in there.                     *)
LEMMA OpenedLists ==
    ASSUME TypeOK, NEW there \in Seq(Paths),
           \A k \in 1 .. Len(there) : disk[there[k]] # Null
    PROVE  LET opened == [i \in DOMAIN there |->
                             NewFileList(there[i], disk[there[i]])]
           IN  /\ opened \in Seq(List) /\ Len(opened) = Len(there)
               /\ DOMAIN opened = 1 .. Len(there)
               /\ \A i \in DOMAIN opened : /\ opened[i].path = there[i]
                                           /\ opened[i].items = disk[there[i]]
<1> DEFINE opened == [i \in DOMAIN there |->
                         NewFileList(there[i], disk[there[i]])]
<1>1. DOMAIN there = 1 .. Len(there) /\ Len(there) \in Nat
  OBVIOUS
<1>2. ASSUME NEW i \in 1 .. Len(there)
      PROVE  /\ NewFileList(there[i], disk[there[i]]) \in List
             /\ NewFileList(there[i], disk[there[i]]).path = there[i]
             /\ NewFileList(there[i], disk[there[i]]).items = disk[there[i]]
  <2>1. there[i] \in Paths /\ disk[there[i]] \in Seq(Files)
    BY DEF TypeOK
  <2> QED
    BY <2>1 DEF NewFileList, List, FileListType
<1>3. opened = [i \in 1 .. Len(there) |-> NewFileList(there[i], disk[there[i]])]
  BY <1>1
<1> HIDE DEF opened
<1>4. opened \in Seq(List) /\ Len(opened) = Len(there)
      /\ DOMAIN opened = 1 .. Len(there)
  BY <1>1, <1>2, <1>3
<1>5. \A i \in DOMAIN opened : /\ opened[i].path = there[i]
                               /\ opened[i].items = disk[there[i]]
  BY <1>2, <1>3, <1>4
<1> QED
  BY <1>4, <1>5 DEF opened

LEMMA SamePathSequence ==
    ASSUME NEW ls \in Seq(List), NEW ps \in Seq(Paths), Len(ls) = Len(ps),
           \A i \in DOMAIN ls : ls[i].path = ps[i]
    PROVE  PathsOf(ls) = ps
<1> DEFINE z == PathsOf(ls)
<1>1. /\ z \in Seq(Paths) /\ Len(z) = Len(ls)
      /\ \A i \in 1 .. Len(ls) : z[i] = ls[i].path
  BY PathsOfType
<1>2. DOMAIN ls = 1 .. Len(ls)
  OBVIOUS
<1> HIDE DEF z
<1>3. z = ps
  BY <1>1, <1>2, SeqEqual
<1> QED
  BY <1>3 DEF z

LEMMA StartStep ==
    ASSUME IInv, Start
    PROVE  IInv'
<1>1. /\ running' = TRUE /\ entries' = saved.entries /\ dirty' = FALSE
      /\ UNCHANGED <<mode, saved, disk>>
  BY DEF Start
<1>2. TypeOK /\ saved.entries \in Seq(Paths) /\ saved.last \in Nat \cup {-1}
      /\ Cardinality(Listed) \in Nat
  BY ListedCount DEF IInv, TypeOK
<1>3. PICK g \in InOrder :
       LET there == [k \in DOMAIN g |-> saved.entries[g[k]]]
           opened == [i \in DOMAIN there |->
                        NewFileList(there[i], disk[there[i]])]
           sel == IF there = <<>> THEN -1
                  ELSE IF saved.last >= 0 THEN saved.last ELSE Len(there) - 1
       IN  /\ IF sel + 1 \in DOMAIN opened
              THEN LET r == Show(opened[sel + 1], EmptyBox)
                   IN  lists' = [opened EXCEPT ![sel + 1] = r.list]
                       /\ box' = r.box
              ELSE lists' = opened /\ box' = EmptyBox
           /\ element' = [rows |-> there, sel |-> SelectIn(there, -1, sel)]
           /\ selIdx' = sel
           /\ upset' = (\/ there # saved.entries \/ ~IsInjective(there)
                        \/ sel >= Len(there))
  BY DEF Start
<1> DEFINE there == [k \in DOMAIN g |-> saved.entries[g[k]]]
           opened == [i \in DOMAIN there |->
                        NewFileList(there[i], disk[there[i]])]
           sel == IF there = <<>> THEN -1
                  ELSE IF saved.last >= 0 THEN saved.last ELSE Len(there) - 1
           r   == Show(opened[sel + 1], EmptyBox)
<1>4. /\ sel + 1 \in DOMAIN opened
            => lists' = [opened EXCEPT ![sel + 1] = r.list] /\ box' = r.box
      /\ sel + 1 \notin DOMAIN opened => lists' = opened /\ box' = EmptyBox
      /\ element' = [rows |-> there, sel |-> SelectIn(there, -1, sel)]
      /\ selIdx' = sel
      /\ upset' = (\/ there # saved.entries \/ ~IsInjective(there)
                   \/ sel >= Len(there))
  BY <1>3
<1>5. /\ there \in Seq(Paths) /\ Len(there) \in Nat
      /\ DOMAIN there = 1 .. Len(there)
      /\ \A k \in 1 .. Len(there) : disk[there[k]] # Null
  <2>1. g \in [1 .. Cardinality(Listed) -> Listed]
    BY DEF InOrder
  <2>2. \A i \in Listed : /\ saved.entries[i] \in Paths
                          /\ disk[saved.entries[i]] # Null
    BY <1>2 DEF Listed
  <2> DEFINE N == Cardinality(Listed)
  <2>3. /\ N \in Nat /\ there = [k \in 1 .. N |-> saved.entries[g[k]]]
        /\ \A k \in 1 .. N : g[k] \in Listed
    BY <1>2, <2>1
  <2>4. \A k \in 1 .. N : /\ saved.entries[g[k]] \in Paths
                          /\ disk[saved.entries[g[k]]] # Null
    BY <2>2, <2>3
  <2> HIDE DEF N, there
  <2>5. there \in Seq(Paths) /\ Len(there) = N /\ DOMAIN there = 1 .. N
    BY <2>3, <2>4
  <2> QED
    BY <2>3, <2>4, <2>5
<1>7. (there = <<>> <=> Len(there) = 0)
  BY <1>5, EmptySeq
<1>8. sel \in Nat \cup {-1} /\ (sel = -1 => there = <<>>)
  BY <1>2, <1>5, <1>7
<1>9. there = <<>> => sel = -1
  BY <1>2, <1>5, <1>7
<1> HIDE DEF there
<1>10. /\ opened \in Seq(List) /\ Len(opened) = Len(there)
       /\ DOMAIN opened = 1 .. Len(there) /\ PathsOf(opened) = there
       /\ \A i \in DOMAIN opened : /\ opened[i].path = there[i]
                                   /\ opened[i].items = disk[there[i]]
  <2>1. /\ opened \in Seq(List) /\ Len(opened) = Len(there)
        /\ DOMAIN opened = 1 .. Len(there)
        /\ \A i \in DOMAIN opened : /\ opened[i].path = there[i]
                                    /\ opened[i].items = disk[there[i]]
    BY <1>2, <1>5, OpenedLists
  <2> HIDE DEF opened
  <2>2. PathsOf(opened) = there
    BY <1>5, <2>1, SamePathSequence
  <2> QED
    BY <2>1, <2>2
<1> HIDE DEF opened, sel
<1>11. sel + 1 \in DOMAIN opened =>
         /\ r.list \in List /\ r.list.path = opened[sel + 1].path
         /\ r.list.items = opened[sel + 1].items
         /\ r.list.dirty = opened[sel + 1].dirty
         /\ r.list.count >= Len(r.list.items)
         /\ r.box \in Box /\ r.box.rows = r.list.items
  <2> SUFFICES ASSUME sel + 1 \in DOMAIN opened
               PROVE  /\ r.list \in List /\ r.list.path = opened[sel + 1].path
                      /\ r.list.items = opened[sel + 1].items
                      /\ r.list.dirty = opened[sel + 1].dirty
                      /\ r.list.count >= Len(r.list.items)
                      /\ r.box \in Box /\ r.box.rows = r.list.items
    OBVIOUS
  <2> DEFINE l == opened[sel + 1]
  <2>1. l \in List /\ l.count \in Nat /\ Len(l.items) \in Nat
    BY <1>10, ListsType
  <2> HIDE DEF l
  <2>2. /\ Show(l, EmptyBox).list \in List
        /\ Show(l, EmptyBox).list.path = l.path
        /\ Show(l, EmptyBox).list.items = l.items
        /\ Show(l, EmptyBox).list.dirty = l.dirty
        /\ Show(l, EmptyBox).list.count = l.count + Len(l.items)
        /\ Show(l, EmptyBox).box \in Box
        /\ Show(l, EmptyBox).box.rows = l.items
    BY <2>1, ShowIsGood
  <2>3. Show(l, EmptyBox).list.count >= Len(Show(l, EmptyBox).list.items)
    BY <2>1, <2>2
  <2> QED
    BY <2>2, <2>3 DEF l
<1> HIDE DEF r
<1>12. /\ lists' \in Seq(List) /\ Len(lists') = Len(opened) /\ box' \in Box
       /\ DOMAIN lists' = DOMAIN opened
       /\ \A j \in DOMAIN opened :
             /\ lists'[j].path = opened[j].path
             /\ lists'[j].dirty
                   \/ (lists'[j].items = opened[j].items /\ ~opened[j].dirty)
  <2>1. \A j \in DOMAIN opened : opened[j].dirty \in BOOLEAN
    BY <1>10, ListsType DEF List, FileListType
  <2>2. CASE sel + 1 \in DOMAIN opened
    <3>1. /\ r.list \in List /\ r.box \in Box
          /\ r.list.path = opened[sel + 1].path
          /\ r.list.dirty \/ (r.list.items = opened[sel + 1].items
                              /\ ~opened[sel + 1].dirty)
          /\ lists' = [opened EXCEPT ![sel + 1] = r.list] /\ box' = r.box
      BY <1>4, <1>11, <2>1, <2>2
    <3> QED
      BY <1>10, <2>2, <3>1, ReplaceOne
  <2>3. CASE sel + 1 \notin DOMAIN opened
    BY <1>4, <1>10, <2>1, <2>3, EmptyBoxIsBox
  <2> QED
    BY <2>2, <2>3
<1>13. Clean(opened, disk)
  BY <1>10 DEF Clean
<1>14. Clean(lists', disk)
  BY <1>10, <1>12, <1>13, StillClean
<1>15. /\ SelectIn(there, -1, sel) \in Nat \cup {-1}
       /\ SelectIn(there, -1, sel) < Len(there)
  BY <1>5, <1>8 DEF SelectIn
<1>16. TypeOK'
  <2>1. element' \in [rows : Seq(Paths), sel : Nat \cup {-1}]
    BY <1>4, <1>5, <1>15
  <2>2. upset' \in BOOLEAN
    BY <1>4
  <2> QED
    BY <1>1, <1>2, <1>4, <1>8, <1>12, <2>1, <2>2 DEF TypeOK, Box, List
<1>17. RowsHaveLists'
  <2>1. element'.rows = there /\ element'.sel = SelectIn(there, -1, sel)
    BY <1>4
  <2> QED
    BY <1>5, <1>10, <1>12, <1>15, <2>1 DEF RowsHaveLists
<1>18. ASSUME ~upset'
       PROVE  /\ Synced(lists', element'.rows, entries', selIdx', disk')
              /\ Shown(lists', selIdx', box')
  <2>1. there = saved.entries /\ IsInjective(there) /\ ~(sel >= Len(there))
    BY <1>4, <1>18
  <2>2. element'.rows = PathsOf(opened) /\ entries' = PathsOf(opened)
    BY <1>1, <1>4, <1>10, <2>1
  <2>3. opened = <<>> <=> Len(opened) = 0
    BY <1>10, EmptySeq
  <2>4. IF opened = <<>> THEN sel = -1 ELSE sel + 1 \in DOMAIN opened
    BY <1>5, <1>7, <1>8, <1>9, <1>10, <2>1, <2>3
  <2>5. \A i, j \in DOMAIN opened : opened[i].path = opened[j].path => i = j
    BY <1>5, <1>10, <2>1 DEF IsInjective
  <2>6. \A i \in DOMAIN opened : disk'[opened[i].path] # Null
    BY <1>1, <1>5, <1>10
  <2>7. Synced(opened, element'.rows, entries', selIdx', disk')
    BY <1>4, <2>2, <2>4, <2>5, <2>6 DEF Synced
  <2>8. Synced(lists', element'.rows, entries', selIdx', disk')
    BY <1>10, <1>12, <2>7, SamePaths
  <2>9. Shown(lists', selIdx', box')
    BY <1>4, <1>10, <1>11, <1>12 DEF Shown
  <2> QED
    BY <2>8, <2>9
<1> QED
  BY <1>1, <1>12, <1>14, <1>16, <1>17, <1>18 DEF IInv

LEMMA WrittenType ==
    ASSUME TypeOK, NEW p \in Paths
    PROVE  Written(p) \in {Null} \cup Seq(Files)
<1> DEFINE edited == {i \in DOMAIN lists : lists[i].path = p /\ lists[i].dirty}
           last   == CHOOSE i \in edited : \A j \in edited : j <= i
<1>1. lists \in Seq(List) /\ disk \in [Paths -> {Null} \cup Seq(Files)]
  BY DEF TypeOK, List
<1>2. CASE disk[p] = Null \/ edited = {}
  BY <1>1, <1>2 DEF Written
<1>3. CASE ~(disk[p] = Null \/ edited = {})
  <2>1. Len(lists) \in Nat /\ edited \subseteq 0 .. Len(lists)
    BY <1>1
  <2>2. \E i \in edited : \A j \in edited : j <= i
    <3> HIDE DEF edited
    <3> QED
      BY <1>3, <2>1, HasGreatest
  <2>3. last \in edited
    <3> HIDE DEF edited
    <3> QED
      BY <2>2
  <2>4. lists[last].items \in Seq(Files)
    <3>1. last \in DOMAIN lists
      BY <2>3
    <3> HIDE DEF last, edited
    <3> QED
      BY <1>1, <3>1, ListsType
  <2>5. Written(p) = lists[last].items
    BY <1>3 DEF Written
  <2> QED
    BY <2>4, <2>5
<1> QED
  BY <1>2, <1>3

LEMMA EndSteps ==
    ASSUME IInv, Quit \/ Crash
    PROVE  IInv'
<1>1. /\ running' = FALSE /\ mode' = mode
      /\ lists' = <<>> /\ selIdx' = -1 /\ element' = EmptyBox
      /\ entries' = <<>> /\ dirty' = FALSE /\ box' = EmptyBox /\ upset' = FALSE
  BY DEF Quit, Crash, MemoryLost
<1>2. disk' \in [Paths -> {Null} \cup Seq(Files)]
  <2>1. CASE Quit
    <3>1. \A p \in Paths : Written(p) \in {Null} \cup Seq(Files)
      BY WrittenType DEF IInv
    <3>2. disk' = [p \in Paths |-> Written(p)]
      BY <2>1 DEF Quit
    <3> QED
      BY <3>1, <3>2
  <2>2. CASE Crash
    BY <2>2 DEF Crash, IInv, TypeOK
  <2> QED
    BY <2>1, <2>2
<1>3. saved' \in [entries : Seq(Paths), last : Nat \cup {-1}]
  BY DEF Quit, Crash, IInv, TypeOK
<1>4. <<>> \in Seq(List) /\ <<>> \in Seq(Paths) /\ DOMAIN <<>> = {}
  OBVIOUS
<1>5. TypeOK'
  <2>1. element' \in [rows : Seq(Paths), sel : Nat \cup {-1}]
    BY <1>1, <1>4 DEF EmptyBox
  <2>2. box' \in BoxType
    BY <1>1, EmptyBoxIsBox DEF Box
  <2>3. mode' \in Modes
    BY <1>1 DEF IInv, TypeOK
  <2>4. lists' \in Seq(FileListType(Paths))
    BY <1>1, <1>4 DEF List
  <2>5. upset' \in BOOLEAN /\ dirty' \in BOOLEAN /\ running' \in BOOLEAN
        /\ selIdx' \in Nat \cup {-1} /\ entries' \in Seq(Paths)
    BY <1>1, <1>4
  <2> QED
    BY <1>2, <1>3, <2>1, <2>2, <2>3, <2>4, <2>5 DEF TypeOK
<1>6. Clean(lists', disk')
  BY <1>1, <1>4 DEF Clean
<1> QED
  BY <1>1, <1>5, <1>6, EmptyBoxIsBox DEF IInv, RowsHaveLists

-----------------------------------------------------------------------------
(* Every step preserves the invariant.                                     *)

LEMMA NextIInv == IInv /\ [Next]_vars => IInv'
<1> SUFFICES ASSUME IInv, [Next]_vars PROVE IInv'
  OBVIOUS
<1>1. CASE UNCHANGED vars
  BY <1>1 DEF vars, IInv, TypeOK, RowsHaveLists
<1>2. CASE Start
  BY <1>2, StartStep
<1>3. CASE Quit \/ Crash
  BY <1>3, EndSteps
<1>4. CASE \E p \in Paths : Vanish(p)
  BY <1>4, VanishStep
<1>5. CASE ListCommand
  <2>1. CASE \E p \in Paths : NewList(p) \/ OpenList(p)
    BY <2>1, OpenSteps
  <2>2. CASE \E i \in 0 .. MaxLists - 1 : HighlightList(i) \/ ClickList(i)
    <3>1. PICK i \in 0 .. MaxLists - 1 : HighlightList(i) \/ ClickList(i)
      BY <2>2
    <3>2. i \in Nat
      OBVIOUS
    <3> QED
      BY <3>1, <3>2, HighlightStep, ClickStep
  <2>3. CASE RenameList \/ ClearLists \/ ChangeMode
    BY <2>3, OtherSteps
  <2>4. CASE RemoveList
    BY <2>4, RemoveStep
  <2> QED
    BY <1>5, <2>1, <2>2, <2>3, <2>4 DEF ListCommand
<1>6. CASE FileCommand
  <2>1. CASE \E i \in 0 .. MaxItems - 1 : SelectRow(i)
    <3>1. PICK i \in 0 .. MaxItems - 1 : SelectRow(i)
      BY <2>1
    <3>2. i \in Nat
      OBVIOUS
    <3> QED
      BY <3>1, <3>2, SelectRowStep
  <2>2. CASE \E f \in Files : Add(f)
    <3>1. PICK f \in Files : Add(f)
      BY <2>2
    <3>2. CASE HasList /\ Update(AddFile(Current, box, f))
      BY <3>2, FileSteps
    <3>3. CASE /\ running /\ disk' = [disk EXCEPT ![Default] = Created(Default)]
               /\ Opened(Default, Created(Default), f)
      BY <3>3, OpenSteps
    <3> QED
      BY <3>1, <3>2, <3>3 DEF Add
  <2>3. CASE PlaySelected \/ PlayNext \/ PlayPrevious \/ RemoveFile
             \/ ClearCurList
    BY <2>3, FileSteps
  <2> QED
    BY <1>6, <2>1, <2>2, <2>3 DEF FileCommand
<1> QED
  BY <1>1, <1>2, <1>3, <1>4, <1>5, <1>6 DEF Next

(* The inductive invariant holds in every state.                           *)
THEOREM Invariance == Spec => []IInv
<1> QED
  BY InitIInv, NextIInv, PTL DEF Spec

-----------------------------------------------------------------------------
(* The properties.                                                         *)

(* Every variable keeps its type, for any files and any bounds.            *)
THEOREM TypeCorrect == Spec => []TypeOK
<1>1. IInv => TypeOK
  BY DEF IInv
<1> QED
  BY <1>1, Invariance, PTL

(* A list is in use whenever the manager shows any, so that addFile never  *)
(* meets lists with none in use, whatever was removed, opened or missing.  *)
OneInUse == selIdx < 0 => element.rows = <<>>

THEOREM OneIsInUse == Spec => []OneInUse
<1>1. Init => OneInUse
  BY DEF Init, OneInUse, EmptyBox
<1>2. IInv /\ OneInUse /\ [Next]_vars => OneInUse'
  <2> SUFFICES ASSUME IInv, OneInUse, [Next]_vars, selIdx' < 0
               PROVE  element'.rows = <<>>
    BY DEF OneInUse
  <2>1. element \in [rows : Seq(Paths), sel : Nat \cup {-1}] /\ selIdx \in Int
    BY DEF IInv, TypeOK
  <2>2. CASE selIdx' = selIdx /\ element'.rows = element.rows
    BY <2>2 DEF OneInUse
  <2>3. CASE Start
    <3>1. PICK g \in InOrder :
            LET there == [k \in DOMAIN g |-> saved.entries[g[k]]]
                sel == IF there = <<>> THEN -1
                       ELSE IF saved.last >= 0 THEN saved.last ELSE Len(there) - 1
            IN  /\ element' = [rows |-> there, sel |-> SelectIn(there, -1, sel)]
                /\ selIdx' = sel
      BY <2>3, Zenon DEF Start
    <3> DEFINE there == [k \in DOMAIN g |-> saved.entries[g[k]]]
    <3>2. there = <<>> \/ Len(there) >= 1
      <4>1. Cardinality(Listed) \in Nat /\ g \in [1 .. Cardinality(Listed) -> Listed]
        BY ListedCount DEF InOrder, IInv
      <4>2. there \in Seq({saved.entries[i] : i \in Listed})
        BY <4>1
      <4> HIDE DEF there
      <4> QED BY <4>2
    <3>3. saved.last \in Int
      BY DEF IInv, TypeOK
    <3> HIDE DEF there
    <3>4. element'.rows = there
          /\ selIdx' = IF there = <<>> THEN -1
                       ELSE IF saved.last >= 0 THEN saved.last ELSE Len(there) - 1
      BY <3>1 DEF there
    <3>5. Len(there) >= 1 /\ Len(there) \in Int => Len(there) - 1 >= 0
      OBVIOUS
    <3> QED BY <3>2, <3>3, <3>4, <3>5
  <2>4. CASE Quit \/ Crash
    BY <2>4 DEF Quit, Crash, MemoryLost, EmptyBox
  <2>5. ASSUME NEW p, NEW items, NEW f, Opened(p, items, f) PROVE FALSE
    <3>1. selIdx' = Len(element.rows) /\ Len(element.rows) \in Nat
      BY <2>1, <2>5 DEF Opened
    <3> QED BY <3>1
  <2>6. CASE RemoveList
    <3> DEFINE i    == element.sel
               rows == DropAt(element.rows, i)
               next == IF i = Len(rows) THEN i - 1 ELSE i
               sel  == IF rows # <<>> /\ next < 0 THEN 0 ELSE next
    <3>1. element'.rows = rows /\ (selIdx' = selIdx \/ selIdx' = sel)
      BY <2>6 DEF RemoveList
    <3>2. i \in Nat
      BY <2>1, <2>6 DEF RemoveList
    <3>3. element.rows = <<>> => rows = <<>>
      BY DEF DropAt
    <3> HIDE DEF rows
    <3>4. sel < 0 => rows = <<>>
      BY <3>2
    <3> QED BY <3>1, <3>3, <3>4 DEF OneInUse
  <2>7. ASSUME NEW i \in 0 .. MaxLists - 1, ClickList(i) PROVE FALSE
    <3>1. selIdx' = i /\ i >= 0 /\ i \in Int
      BY <2>7 DEF ClickList
    <3> QED BY <3>1
  <2>8. ASSUME NEW r, Update(r) PROVE element'.rows = <<>>
    BY <2>2, <2>8 DEF Update
  <2>9. CASE ListCommand
    <3>1. ASSUME NEW p, NewList(p) \/ OpenList(p) PROVE FALSE
      BY <2>5, <3>1 DEF NewList, OpenList
    <3>2. ASSUME NEW i, HighlightList(i) PROVE element'.rows = <<>>
      BY <2>1, <2>2, <3>2 DEF HighlightList
    <3>3. CASE RenameList \/ ClearLists \/ ChangeMode
      BY <2>2, <3>3 DEF RenameList, ClearLists, ChangeMode
    <3> QED BY <2>6, <2>7, <2>9, <3>1, <3>2, <3>3 DEF ListCommand
  <2>10. CASE FileCommand
    <3>1. ASSUME NEW i, SelectRow(i) PROVE element'.rows = <<>>
      BY <2>2, <3>1 DEF SelectRow
    <3>2. ASSUME NEW f, Add(f) PROVE element'.rows = <<>>
      BY <2>5, <2>8, <3>2 DEF Add
    <3>3. CASE PlaySelected \/ PlayNext \/ PlayPrevious \/ RemoveFile \/ ClearCurList
      BY <2>8, <3>3 DEF PlaySelected, PlayNext, PlayPrevious, RemoveFile, ClearCurList
    <3> QED BY <2>10, <3>1, <3>2, <3>3 DEF FileCommand
  <2>11. CASE (\E p \in Paths : Vanish(p)) \/ UNCHANGED vars
    BY <2>2, <2>11 DEF Vanish, vars
  <2> QED BY <2>3, <2>4, <2>9, <2>10, <2>11 DEF Next
<1> QED BY <1>1, <1>2, Invariance, PTL DEF Spec

(* The listbox shows what the list in use holds, whatever commands the     *)
(* user gave, in whatever order, over any number of starts.                *)
THEOREM RowsShown == Spec => []RowsAreDocument
<1>1. IInv => RowsAreDocument
  BY DEF IInv, RowsAreDocument, HasList, Current, Shown
<1> QED
  BY <1>1, Invariance, PTL

(* A list in use counts at least the files it holds.                       *)
THEOREM CountRight == Spec => []CountCovers
<1>1. IInv => CountCovers
  BY DEF IInv, CountCovers, HasList, Current, Shown
<1> QED
  BY <1>1, Invariance, PTL

(* Rows, lists and listmgr.xml in memory name the same files in the same   *)
(* order.                                                                  *)
THEOREM InStep == Spec => []ManagerInStep
<1>1. IInv => ManagerInStep
  BY DEF IInv, ManagerInStep, Synced
<1> QED
  BY <1>1, Invariance, PTL

(* What save() writes to the file of a list that has it alone.             *)
LEMMA WrittenList ==
    ASSUME IInv, NEW i \in DOMAIN lists, disk[lists[i].path] # Null,
           Sole(lists, i)
    PROVE  Written(lists[i].path) = lists[i].items
<1> DEFINE p      == lists[i].path
           edited == {j \in DOMAIN lists : lists[j].path = p /\ lists[j].dirty}
<1>1. CASE lists[i].dirty
  <2>1. edited = {i}
    BY <1>1 DEF Sole
  <2>2. i \in Nat
    BY DEF IInv, TypeOK
  <2>3. (CHOOSE k \in {i} : \A j \in {i} : j <= k) = i
    BY <2>2
  <2>4. Written(p) = lists[CHOOSE k \in edited : \A j \in edited : j <= k].items
    BY <2>1 DEF Written
  <2> HIDE DEF edited
  <2> QED
    BY <2>1, <2>3, <2>4
<1>2. CASE ~lists[i].dirty
  <2>1. edited = {}
    BY <1>2 DEF Sole
  <2>2. Written(p) = disk[p]
    BY <2>1 DEF Written
  <2> QED
    BY <1>2, <2>2 DEF IInv, Clean
<1> QED
  BY <1>1, <1>2

(* When the player quits, the file of every list has what was last seen in *)
(* that list, if the file is there and no other list has it too.           *)
THEOREM EditsAreSaved == Spec => EditsReachDisk
<1> DEFINE A == Quit => \A i \in DOMAIN lists :
                   LET p == lists[i].path
                   IN  disk[p] # Null /\ (\A j \in DOMAIN lists \ {i} :
                                              lists[j].path # p)
                           => disk'[p] = lists[i].items
<1>1. IInv => A
  <2> SUFFICES ASSUME IInv, Quit, NEW i \in DOMAIN lists,
                      disk[lists[i].path] # Null, Sole(lists, i)
               PROVE  disk'[lists[i].path] = lists[i].items
    BY DEF Sole
  <2>1. lists[i].path \in Paths
    BY ListsType DEF IInv, TypeOK, List
  <2>2. disk'[lists[i].path] = Written(lists[i].path)
    BY <2>1 DEF Quit
  <2> QED
    BY <2>2, WrittenList
<1>2. IInv /\ [Next]_vars => [A]_vars
  BY <1>1
<1>3. []IInv /\ [][Next]_vars => [][A]_vars
  <2> HIDE DEF A
  <2> QED BY <1>2, PTL
<1> QED
  BY <1>3, Invariance, PTL DEF Spec, EditsReachDisk

=============================================================================
