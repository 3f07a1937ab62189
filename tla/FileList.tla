------------------------------ MODULE FileList ------------------------------
(***************************************************************************)
(* One playlist of the player, chrome/content/xulplayer/js/playlist.js.    *)
(*                                                                         *)
(* A CFileList keeps the same files four times over: as elements of its    *)
(* document (doc), as rows of the one "playlist" listbox all lists share,  *)
(* as a count, and as a current file that is both an index (selIdx) and a  *)
(* node (fileNode).  An operation takes a list l and the listbox b and     *)
(* returns both, as a record [list, box]; indices start at 0, as in the    *)
(* code.  An item's title, size and type are left out.                     *)
(***************************************************************************)
EXTENDS Integers, Sequences, SequencesExt

CONSTANTS
    Files,    (* the files a list may hold                                  *)
    Null      (* no node                                                    *)

FileListType(Paths) ==
    [ path : Paths, items : Seq(Files), selIdx : Int,
      fileNode : Files \cup {Null}, count : Nat, dirty : BOOLEAN ]

BoxType == [ rows : Seq(Files), sel : Nat \cup {-1} ]

EmptyBox == [rows |-> <<>>, sel |-> -1]

(* new CFileList(path).initialize(): the document is loaded; the list      *)
(* counts no files yet, so that nothing is selected.                       *)
NewFileList(path, items) ==
    [path |-> path, items |-> items, selIdx |-> -1, fileNode |-> Null,
     count |-> 0, dirty |-> FALSE]

IsEmpty(l) == l.count = 0

(* getCurItemNode for index i.                                             *)
NodeAt(items, i) == IF i + 1 \in DOMAIN items THEN items[i + 1] ELSE Null

(* XUL listbox: assigning selectedIndex clears the selection if negative   *)
(* and does nothing if there is no such row.                               *)
SelectIn(rows, old, i) ==
    IF i < 0 THEN -1 ELSE IF i < Len(rows) THEN i ELSE old

(* removeItemAt and removeChild: nothing happens if there is no such row.  *)
DropAt(s, i) == IF i + 1 \in DOMAIN s THEN RemoveAt(s, i + 1) ELSE s

(* Mutant: the rows of the list shown before stay.                         *)
ShowOnTop(l, b) ==
    LET rows == b.rows \o l.items
    IN  [ list |-> [l EXCEPT !.count = @ + Len(l.items)],
          box  |-> [rows |-> rows, sel |-> SelectIn(rows, -1, l.selIdx)] ]

(* Mutant: a list that is shown does not count its files.                  *)
ShowUncounted(l, b) ==
    [ list |-> l,
      box  |-> [rows |-> l.items, sel |-> SelectIn(l.items, -1, l.selIdx)] ]

(* show(): the listbox is filled again, by appendItem, which counts.       *)
Show(l, b) ==
    [ list |-> [l EXCEPT !.count = @ + Len(l.items)],
      box  |-> [rows |-> l.items, sel |-> SelectIn(l.items, -1, l.selIdx)] ]

(* addFile: appended to the document and to the listbox, and counted.      *)
AddFile(l, b, f) ==
    LET items == Append(l.items, f)
        idx   == IF l.selIdx = -1 THEN 0 ELSE l.selIdx
    IN  [ list |-> [l EXCEPT !.items = items, !.dirty = TRUE, !.count = @ + 1,
                             !.selIdx = idx, !.fileNode = NodeAt(items, idx)],
          box  |-> [b EXCEPT !.rows = Append(@, f)] ]

(* A double click makes the selected row the current file, unless its      *)
(* index already is the current one.                                       *)
ChangeSelIndex(l, b) ==
    [ list |-> IF b.sel = l.selIdx \/ b.sel < 0 THEN l
               ELSE [l EXCEPT !.selIdx = b.sel,
                              !.fileNode = NodeAt(l.items, b.sel)],
      box  |-> b ]

MoveTo(l, b, i) ==
    [ list |-> [l EXCEPT !.selIdx = i, !.fileNode = NodeAt(l.items, i)],
      box  |-> [b EXCEPT !.sel = SelectIn(b.rows, @, i)] ]

(* The index d further on, or a random one that is not the current one.    *)
Candidates(l, mode, d) ==
    IF mode.random
    THEN {IF r = l.selIdx /\ l.count > 1 THEN l.selIdx + d ELSE r :
             r \in 0 .. l.count - 1}
    ELSE {l.selIdx + d}

(* moveNext: past the last file, to the first one or to none.              *)
MoveNext(l, b, mode) ==
    IF l.count < 1 \/ mode.repeatOne THEN {[list |-> l, box |-> b]}
    ELSE LET past == IF mode.repeat THEN 0 ELSE -1
         IN  {MoveTo(l, b, IF i = l.count THEN past ELSE i) :
                 i \in Candidates(l, mode, 1)}

(* movePrevious: before the first file, the index stays negative unless    *)
(* the list repeats.                                                       *)
MovePrevious(l, b, mode) ==
    IF l.count < 1 \/ mode.repeatOne THEN {[list |-> l, box |-> b]}
    ELSE {MoveTo(l, b, IF mode.repeat /\ i < 0 THEN i + l.count ELSE i) :
             i \in Candidates(l, mode, -1)}

(* Mutant: the count is decreased for the row and for the node.            *)
RemoveSelectedTwo(l, b) ==
    IF IsEmpty(l) \/ b.sel < 0 THEN [list |-> l, box |-> b]
    ELSE LET rows == DropAt(b.rows, b.sel)
         IN  [ list |-> [l EXCEPT !.items = DropAt(@, b.sel), !.dirty = TRUE,
                                  !.selIdx = b.sel, !.count = @ - 2],
               box  |-> [rows |-> rows, sel |-> SelectIn(rows, -1, b.sel)] ]

(* Mutant: the current file goes from the document, not the selected one.  *)
RemoveSelectedCurrent(l, b) ==
    IF IsEmpty(l) \/ b.sel < 0 THEN [list |-> l, box |-> b]
    ELSE LET rows == DropAt(b.rows, b.sel)
         IN  [ list |-> [l EXCEPT !.items = DropAt(@, l.selIdx),
                                  !.dirty = TRUE, !.selIdx = b.sel,
                                  !.count = @ - 1],
               box  |-> [rows |-> rows, sel |-> SelectIn(rows, -1, b.sel)] ]

(* removeSelectedItem: the file before the removed one (or, if there is    *)
(* none, the one after it) becomes the current node; the index stays where *)
(* it was, and is compared with the count before that is decreased.        *)
RemoveSelectedItem(l, b) ==
    IF IsEmpty(l) \/ b.sel < 0 THEN [list |-> l, box |-> b]
    ELSE LET at   == b.sel
             idx  == IF at = l.count THEN at - 1 ELSE at
             rows == DropAt(b.rows, at)
             node == IF NodeAt(l.items, at) = Null THEN l.fileNode
                     ELSE IF at > 0 THEN NodeAt(l.items, at - 1)
                     ELSE NodeAt(l.items, 1)
         IN  [ list |-> [l EXCEPT !.items = DropAt(@, at), !.dirty = TRUE,
                                  !.fileNode = node, !.selIdx = idx,
                                  !.count = @ - 1],
               box  |-> [rows |-> rows, sel |-> SelectIn(rows, -1, idx)] ]

Clear(l, b) ==
    IF IsEmpty(l) THEN [list |-> l, box |-> b]
    ELSE [ list |-> [l EXCEPT !.items = <<>>, !.fileNode = Null,
                              !.dirty = TRUE, !.selIdx = -1, !.count = 0],
           box  |-> EmptyBox ]

=============================================================================
