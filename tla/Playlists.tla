----------------------------- MODULE Playlists ------------------------------
(***************************************************************************)
(* The playlist manager, chrome/content/xulplayer/js/playlistman.js, over  *)
(* the lists of module FileList: which lists are open, which one is shown, *)
(* what listmgr.xml and the .xpl files hold, from one start of the player  *)
(* to the next, with crashes and with files that vanish in between.        *)
(*                                                                         *)
(* The user's commands each run to their end in the one JavaScript thread. *)
(* A command that throws stops where the exception is raised.              *)
(***************************************************************************)
EXTENDS FileList

CONSTANTS
    Paths,      (* the .xpl files                                           *)
    Default,    (* default.xpl                                              *)
    Modes,      (* the play modes the user may choose                       *)
    MaxLists, MaxItems, MaxCount, MaxBack    (* bounds of the model         *)

ASSUME PathAssumption ==
    Default \in Paths /\ Null \notin Files \cup Paths /\ Null \notin Seq(Files)
ASSUME ModeAssumption ==
    Modes \subseteq [random : BOOLEAN, repeat : BOOLEAN, repeatOne : BOOLEAN]

VARIABLES
    running,    (* the player runs                                          *)
    lists,      (* this.lists, the CFileList objects                        *)
    selIdx,     (* this.selIdx, the list in use                             *)
    element,    (* the "listManager" listbox: a row per list, the selected  *)
    entries,    (* this.doc, listmgr.xml in memory: a path per list         *)
    dirty,      (* this.dirty                                               *)
    mode,       (* bRandom, bRepeat, bRepeatOne, the same in every list     *)
    box,        (* the "playlist" listbox                                   *)
    saved,      (* listmgr.xml on disk                                      *)
    disk,       (* what each .xpl file holds, Null if there is none         *)
    upset       (* history: since the start a listed file was missing or    *)
                (* listed twice, or the last list in use was not listed     *)

vars == <<running, lists, selIdx, element, entries, dirty, mode, box, saved,
          disk, upset>>

Init ==
    /\ running = FALSE
    /\ lists = <<>> /\ selIdx = -1 /\ element = EmptyBox
    /\ entries = <<>> /\ dirty = FALSE /\ mode \in Modes /\ box = EmptyBox
    /\ saved = [entries |-> <<>>, last |-> -1]
    /\ disk = [p \in Paths |-> Null]
    /\ upset = FALSE

-----------------------------------------------------------------------------
(* Helpers.                                                                *)

HasList == running /\ selIdx + 1 \in DOMAIN lists

Current == lists[selIdx + 1]

(* A command of the current list has returned r.                           *)
Update(r) ==
    /\ lists' = [lists EXCEPT ![selIdx + 1] = r.list]
    /\ box' = r.box
    /\ UNCHANGED <<running, selIdx, element, entries, dirty, mode, saved,
                   disk, upset>>

PathsOf(ls) == [i \in DOMAIN ls |-> ls[i].path]

(* openNativeList for a file that holds items: a row, an entry and a list  *)
(* are appended, and the list is shown.  A file f may be added to it then. *)
Opened(p, items, f) ==
    LET shown == Show(NewFileList(p, items), box)
        ls    == Append(lists, shown.list)
        i     == Len(element.rows)
        r     == AddFile(ls[i + 1], shown.box, f)
    IN  /\ Len(lists) < MaxLists /\ Len(entries) <= MaxLists
        /\ IF f = Null
           THEN lists' = ls /\ box' = shown.box
           ELSE lists' = [ls EXCEPT ![i + 1] = r.list] /\ box' = r.box
        /\ element' = [rows |-> Append(element.rows, p), sel |-> i]
        /\ selIdx' = i
        /\ entries' = Append(entries, p) /\ dirty' = TRUE
        /\ upset' = (upset \/ p \in ToSet(PathsOf(lists)))
        /\ UNCHANGED <<running, mode, saved>>

(* newList writes an empty list, unless there is such a file: saveUTF8File *)
(* overwrites none without being told to.                                  *)
Created(p) == IF disk[p] = Null THEN <<>> ELSE disk[p]

-----------------------------------------------------------------------------
(* The life of the player.                                                 *)

(* The entries of listmgr.xml whose file is there, in their order.         *)
Listed == {i \in DOMAIN saved.entries : disk[saved.entries[i]] # Null}

InOrder == {g \in [1 .. Cardinality(Listed) -> Listed] :
               \A j, k \in DOMAIN g : j < k => g[j] < g[k]}

(* new CPlaylistMan().initialize(): a list for every entry whose file is   *)
(* there.  If the last list in use no longer has an index the program      *)
(* throws, with the lists opened and none shown.                           *)
Start ==
    /\ ~running
    /\ \E g \in InOrder :
       LET there == [k \in DOMAIN g |-> saved.entries[g[k]]]
           opened == [i \in DOMAIN there |->
                        NewFileList(there[i], disk[there[i]])]
           sel == IF there = <<>> THEN -1
                  ELSE IF saved.last >= 0 THEN saved.last ELSE Len(there) - 1
       IN  /\ IF sel + 1 \in DOMAIN opened
              THEN LET r == Show(opened[sel + 1], EmptyBox)
                   IN  lists' = [opened EXCEPT ![sel + 1] = r.list]
                       /\ box' = r.box
              ELSE lists' = opened /\ box' = EmptyBox
           /\ element' = [rows |-> there, sel |-> SelectIn(there, -1, sel)]
           /\ selIdx' = sel
           /\ upset' = (\/ there # saved.entries \/ ~IsInjective(there)
                        \/ sel >= Len(there))
    /\ running' = TRUE /\ entries' = saved.entries /\ dirty' = FALSE
    /\ UNCHANGED <<mode, saved, disk>>

(* What the player had in memory is gone when it ends.                     *)
MemoryLost ==
    /\ lists' = <<>> /\ selIdx' = -1 /\ element' = EmptyBox
    /\ entries' = <<>> /\ dirty' = FALSE /\ box' = EmptyBox
    /\ upset' = FALSE

(* Mutant: only the list in use is written.                                *)
WrittenCurrent(p) ==
    IF disk[p] # Null /\ selIdx + 1 \in DOMAIN lists /\ Current.path = p
    THEN Current.items ELSE disk[p]

(* save(): what the file p holds then; of several lists the last wins, and *)
(* a file that was deleted is not written again.                           *)
Written(p) ==
    LET edited == {i \in DOMAIN lists : lists[i].path = p /\ lists[i].dirty}
    IN  IF disk[p] = Null \/ edited = {} THEN disk[p]
        ELSE lists[CHOOSE i \in edited : \A j \in edited : j <= i].items

Quit ==
    /\ running /\ running' = FALSE
    /\ disk' = [p \in Paths |-> Written(p)]
    /\ saved' = IF dirty THEN [entries |-> entries, last |-> selIdx] ELSE saved
    /\ MemoryLost
    /\ UNCHANGED mode

Crash ==
    /\ running /\ running' = FALSE
    /\ MemoryLost
    /\ UNCHANGED <<mode, saved, disk>>

(* Somebody else removes a playlist file.                                  *)
Vanish(p) ==
    /\ disk[p] # Null
    /\ disk' = [disk EXCEPT ![p] = Null]
    /\ upset' = (upset \/ p \in ToSet(PathsOf(lists)))
    /\ UNCHANGED <<running, lists, selIdx, element, entries, dirty, mode, box,
                   saved>>

-----------------------------------------------------------------------------
(* Commands on the lists.                                                  *)

NewList(p) ==
    /\ running
    /\ disk' = [disk EXCEPT ![p] = Created(p)]
    /\ Opened(p, Created(p), Null)

OpenList(p) ==
    /\ running /\ disk[p] # Null
    /\ Opened(p, disk[p], Null)
    /\ UNCHANGED disk

(* renameList throws before it does anything if no row is selected.        *)
RenameList ==
    /\ running /\ selIdx >= 0 /\ element.sel >= 0 /\ dirty' = TRUE
    /\ UNCHANGED <<running, lists, selIdx, element, entries, mode, box, saved,
                   disk, upset>>

(* The arrow keys select a row without the click that changes the list.    *)
HighlightList(i) ==
    /\ running /\ i + 1 \in DOMAIN element.rows
    /\ element' = [element EXCEPT !.sel = i]
    /\ UNCHANGED <<running, lists, selIdx, entries, dirty, mode, box, saved,
                   disk, upset>>

(* A click: changeList shows the list in the row, if it is another one.    *)
ClickList(i) ==
    /\ running /\ i + 1 \in DOMAIN element.rows /\ i # selIdx
    /\ LET r == Show(lists[i + 1], box)
       IN  /\ r.list.count <= MaxCount
           /\ lists' = [lists EXCEPT ![i + 1] = r.list] /\ box' = r.box
    /\ element' = [element EXCEPT !.sel = i]
    /\ selIdx' = i /\ dirty' = TRUE
    /\ UNCHANGED <<running, entries, mode, saved, disk, upset>>

(* Mutant: the entry of the list in use is removed, not of the selected.   *)
EntriesWithoutCurrent(i) == DropAt(entries, selIdx)

(* The entry of listmgr.xml with index i, of all entries, is removed.      *)
EntriesWithout(i) == DropAt(entries, i)

(* removeList, for the selected row i.  The entry with the same index is   *)
(* dropped from listmgr.xml, the list is cleared and its row removed; then *)
(* the file is deleted, which throws if there is none.                     *)
RemoveList ==
    /\ running /\ element.sel >= 0
    /\ LET i     == element.sel
           path  == lists[i + 1].path
           clear == Clear(lists[i + 1], box)
           rows  == DropAt(element.rows, i)
           rest  == DropAt(lists, i)
           next  == IF i = Len(rows) THEN i - 1 ELSE i
           sel   == IF rows # <<>> /\ next < 0 THEN 0 ELSE next
           r     == Show(rest[sel + 1], clear.box)
       IN  /\ sel >= 0 => r.list.count <= MaxCount
           /\ entries' = EntriesWithout(i) /\ dirty' = TRUE
           /\ IF disk[path] = Null
              THEN /\ lists' = [lists EXCEPT ![i + 1] = clear.list]
                   /\ box' = clear.box
                   /\ element' = [rows |-> rows, sel |-> -1]
                   /\ UNCHANGED <<selIdx, disk>>
              ELSE /\ disk' = [disk EXCEPT ![path] = Null]
                   /\ element' = [rows |-> rows,
                                  sel |-> SelectIn(rows, -1, sel)]
                   /\ selIdx' = sel
                   /\ IF sel < 0 THEN lists' = rest /\ box' = clear.box
                      ELSE /\ lists' = [rest EXCEPT ![sel + 1] = r.list]
                           /\ box' = r.box
    /\ UNCHANGED <<running, mode, saved, upset>>

(* clear(): throws after it has set dirty, there is no function deleteFile.*)
ClearLists ==
    /\ running /\ element.rows # <<>> /\ dirty' = TRUE
    /\ UNCHANGED <<running, lists, selIdx, element, entries, mode, box, saved,
                   disk, upset>>

ChangeMode ==
    /\ running /\ mode' \in Modes \ {mode}
    /\ UNCHANGED <<running, lists, selIdx, element, entries, dirty, box,
                   saved, disk, upset>>

-----------------------------------------------------------------------------
(* Commands on the current list.                                           *)

SelectRow(i) ==
    /\ running /\ i + 1 \in DOMAIN box.rows
    /\ box' = [box EXCEPT !.sel = i]
    /\ UNCHANGED <<running, lists, selIdx, element, entries, dirty, mode,
                   saved, disk, upset>>

(* changeListSelIndex, before the double-clicked row is played.            *)
PlaySelected == HasList /\ Update(ChangeSelIndex(Current, box))

PlayNext ==
    /\ HasList /\ Current.selIdx < MaxCount
    /\ \E r \in MoveNext(Current, box, mode) : Update(r)

PlayPrevious ==
    /\ HasList /\ Current.selIdx > -MaxBack
    /\ \E r \in MovePrevious(Current, box, mode) : Update(r)

(* A file is added to the list in use; if there is none, to a new default  *)
(* list.  addFile has a third case, lists but none in use, that never      *)
(* arises (theorem OneIsInUse of Playlists_proofs).                        *)
Add(f) ==
    \/ /\ HasList /\ Len(Current.items) < MaxItems /\ Current.count < MaxCount
       /\ Update(AddFile(Current, box, f))
    \/ /\ running /\ selIdx < 0 /\ element.rows = <<>>
       /\ disk' = [disk EXCEPT ![Default] = Created(Default)]
       /\ Opened(Default, Created(Default), f)

RemoveFile == HasList /\ Update(RemoveSelectedItem(Current, box))

ClearCurList == HasList /\ Update(Clear(Current, box))

ListCommand ==
    \/ \E p \in Paths : NewList(p) \/ OpenList(p)
    \/ \E i \in 0 .. MaxLists - 1 : HighlightList(i) \/ ClickList(i)
    \/ RenameList \/ RemoveList \/ ClearLists \/ ChangeMode

FileCommand ==
    \/ \E i \in 0 .. MaxItems - 1 : SelectRow(i)
    \/ \E f \in Files : Add(f)
    \/ PlaySelected \/ PlayNext \/ PlayPrevious \/ RemoveFile \/ ClearCurList

Next ==
    \/ Start \/ Quit \/ Crash \/ \E p \in Paths : Vanish(p)
    \/ ListCommand \/ FileCommand

Spec == Init /\ [][Next]_vars

-----------------------------------------------------------------------------
(* Properties.                                                             *)

(* Every variable has its type.                                            *)
TypeOK ==
    /\ running \in BOOLEAN /\ dirty \in BOOLEAN /\ upset \in BOOLEAN
    /\ lists \in Seq(FileListType(Paths)) /\ selIdx \in Nat \cup {-1}
    /\ element \in [rows : Seq(Paths), sel : Nat \cup {-1}]
    /\ entries \in Seq(Paths) /\ mode \in Modes /\ box \in BoxType
    /\ saved \in [entries : Seq(Paths), last : Nat \cup {-1}]
    /\ disk \in [Paths -> {Null} \cup Seq(Files)]

(* The listbox all lists share shows what the current list holds, through  *)
(* every switch between lists, removal, clearing and restart: removing the *)
(* selected row removes that file and no other.                            *)
RowsAreDocument ==
    HasList /\ ~upset => box.rows = Current.items

(* A list that shows files never takes itself for empty (it would then     *)
(* refuse to remove, clear or move), and no index beyond the count can     *)
(* select a file.                                                          *)
CountCovers ==
    HasList /\ ~upset => Current.count >= Len(Current.items)

(* The manager's rows, its lists and listmgr.xml in memory stay in step,   *)
(* so that an index into one is an index into the others, unless the file  *)
(* of a listed playlist was missing or was listed twice.                   *)
ManagerInStep ==
    running /\ ~upset =>
        /\ element.rows = PathsOf(lists) /\ entries = PathsOf(lists)
        /\ lists # <<>> => selIdx + 1 \in DOMAIN lists

(* Whatever was done to a list since the start is in its file once the     *)
(* player has saved: no edit forgets to mark its list, no list is saved    *)
(* over another.                                                           *)
EditsReachDisk ==
    [][Quit => \A i \in DOMAIN lists :
          LET p == lists[i].path
          IN  disk[p] # Null /\ (\A j \in DOMAIN lists \ {i} :
                                     lists[j].path # p)
                  => disk'[p] = lists[i].items]_vars

(* Violated (see README): the entries of listmgr.xml include every list    *)
(* the manager shows, so that it is there again after a restart.           *)
EntryOfEachList ==
    running => \A i \in DOMAIN element.rows : element.rows[i] \in ToSet(entries)

(* Violated (see README): the current node is the file at the current      *)
(* index, so that the row that was double-clicked is the one that plays.   *)
CurrentFileIsAtIndex ==
    HasList => Current.selIdx < 0
               \/ Current.fileNode = NodeAt(Current.items, Current.selIdx)

=============================================================================
