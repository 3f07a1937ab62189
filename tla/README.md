# A TLA+ verification of XULPlayer

XULPlayer is a media player: a XUL user interface in JavaScript, an NPAPI
plug-in in C++ that starts and controls MPlayer processes, and MiniWeb, a
single-threaded HTTP server in C that serves files, uploads and a remote
interface. This directory holds TLA+ models of the parts with state that is
hard to get right, TLC configurations that check them, and proofs for TLAPS.

Line numbers refer to the files under `src/`; `JS` stands for
`chrome/content/xulplayer/js`.

- [1. The system](#1-the-system)
- [2. The modules](#2-the-modules)
- [3. What is checked](#3-what-is-checked)
- [4. What is proved](#4-what-is-proved)
- [5. Where code and statement disagree](#5-where-code-and-statement-disagree)
- [6. What is not modelled](#6-what-is-not-modelled)
- [7. Plan](#7-plan)
- [8. Running it](#8-running-it)

## 1. The system

| component | state | operations | talks to |
|---|---|---|---|
| HTTP server (`httpd/http.c`) | list of connection structures, each with a socket, a file, flags, buffers; client count; kill flag | accept, select pass, read and parse, dispatch, send raw/stream/file, keep alive, expire, close, clean up | URL handlers by callback; the kernel by descriptors; `mwServerShutdown` through a shared flag |
| multipart posts and uploads (`httpd/httppost.c`, `miniweb.c`) | multipart structure and upload file of a connection | parse boundary and fields, commit a chunk, open and close the upload file | called by the server's read step; upload and variable callbacks |
| URL handlers (`httpd/httphandler.c`) | session object of a stream, its producer thread | build an answer; asynchronous data | called by the server's dispatch and write steps |
| VOD server (`httpd/httpvod.c`) | categories of clips with their numbers; one context per client address with a linked list and a pending command | build the catalogue, look up, add, pin, delete, play, control | the server's dispatch, pages and players of the clients |
| child processes (`httpd/processpil.c`) | pid, pipes, buffer | start, read, terminate, wait, clean | handlers that are not built |
| HTTP client (`httpd/httpclient.c`) | socket, header, body, state | request, response, keep alive, clean | plug-in, VOD |
| playlist (`JS/playlist.js`) | document, rows of a shared listbox, count, current index and node | add, remove, clear, next, previous, show, save | playlist manager; the GUI |
| playlist manager (`JS/playlistman.js`) | `listmgr.xml`, rows, open lists, the list in use | start, new, open, remove, switch, save | playlists; files through `JS/io.js` |
| playback (`JS/player.js`, `JS/gui.js`) | timer, playing flag, play modes | play, poll, stop, auto-next | playlist manager, plug-in |
| player pool (`plugin/Xulplayer.cpp`, `methods.cpp`) | slots with a player and a window, the active slot | create, destroy, activate, play, stop | MPlayer processes (event callback), playback |
| conversion, devices (`JS/converter.js`, `device.js`) | queue of files, the running tool | start, poll, stop | external programs |

The rest is the plug-in's NPAPI glue, forms and dialogs, a download manager
that is a front end to other programs, system information, and vendored
libraries; `PROJECT.json` lists every part with its status.

**What is hard, and what makes each part correct**

- *HTTP server.* One thread, but a connection goes through many C functions
  that each may close it, hand an object over, or return a code upon which the
  caller closes it once more. Correct means: every object and descriptor is
  released exactly once on every path; nothing of one request is visible in
  the next one of a kept-alive connection; the client count stays exact; the
  list is never followed into a freed structure; expiry, end of stream,
  errors and shutdown all lead to the same end; dead peers go away; a
  shutdown finishes.
- *Playlists.* The same list of files is kept four times over (document,
  rows, count, current file as index and as node), all lists share one
  listbox, and a list of lists is kept three times over (objects, rows, XML
  entries), across sessions, files that vanish, exceptions in the middle of a
  command and crashes. Correct means: the copies agree, and edits survive.
- *Player pool and playback.* Callbacks of player processes interleave with
  timers and user commands; slots are reused. Correct means: the active slot
  names a living window, each stop leads to at most one next file, and a
  playlist does not stand still.
- *Uploads.* A state machine over chunks whose cuts fall anywhere, in a buffer
  that still holds what was there before. Correct means: what is passed on is
  what was sent, for every cut, and the server does not wait for more when
  everything has come.
- *VOD server.* Clips are named by numbers made of hashes that collide; lists
  of clients that come and go are threaded through one heap and edited by
  indices that may be out of date. Correct means: a number leads to its clip,
  every client has its own queue, every entry is in one list.
- *Client, conversion.* Retry of a request on a connection that was kept
  alive; an external process that is polled.

The hazards, at their lines, are in `PROJECT.json`; each names the properties
that would catch it, or says why none does.

## 2. The modules

| module | models |
|---|---|
| `HttpServer` | the event loop of `httpd/http.c`, with the objects that `httppost.c`, `miniweb.c` and stream handlers make it own |
| `Connections` | abstract: the life of a connection as the outside sees it |
| `HttpServer_proofs` | theorems about `HttpServer`, and that it implements `Connections` |
| `MCHttpServer` | instances of `HttpServer` for TLC |
| `FileList` | one playlist, `JS/playlist.js`: an operator per method |
| `Playlists` | the manager, `JS/playlistman.js`, over `FileList`, the disk and restarts |
| `Playlists_proofs` | theorems about `Playlists` with its lists |
| `MCPlaylists` | instances of `Playlists` for TLC |
| `PlayerPool` | the plug-in's slots, windows and active player, `plugin/Xulplayer.cpp` and `methods.cpp` |
| `Playback` | polling, auto-next and the user's commands, `JS/player.js` and `JS/gui.js`, over `PlayerPool` |
| `Playback_proofs` | theorems about `Playback` with its pool |
| `DataLemmas` | lemmas on sets of numbers and on sequences that all the proofs but those of `HttpServer` use |
| `VodCatalog` | categories, clips and their numbers, `httpd/httpvod.c` |
| `VodLists` | contexts and lists of the clients on the heap, `httpd/httpvod.c` |
| `VodQueues` | abstract: a queue and a pending command for every client |
| `Vod`, `MCVod` | the VOD server: the catalogue, then the requests; its instance |
| `VodCatalog_proofs`, `VodLists_proofs`, `Vod_proofs` | invariants of the catalogue and of the linked lists; the theorems about `Vod`, and that it implements `VodQueues` |
| `MultipartPost`, `MCMultipartPost` | the parser of multipart posts and direct uploads, `httpd/httppost.c`; its instances |
| `MultipartPost_proofs` | theorems about `MultipartPost` |

### HttpServer

`pc` is where the loop thread is, `cur` the `HttpSocket` it works on, `todo`
the structures of the list the current pass has not visited. Every C function
that changes state is an action or, if several call it, an operator:

| code | model |
|---|---|
| `mwHttpLoop` 364-543 | `LoopHead`, `SweepKeep`, `SweepExpire`, `SelectReady/Error/Timeout`, `NotReady`, `Ready`, `ProcessDone`, `CallerCloses`, `Accept*`, `Cleanup`, `Stop` |
| `_mwProcessReadSocket` 914-1140 | `Read*`, one action per way out, then label `dispatch` |
| `_mwProcessMultipartPost`, upload callback | `MultipartPost`, `UploadFile` |
| `_mwCheckUrlHandlers` 835-908, 401 | `Handler*`, `Unauthorized` |
| `_mwStartSendFile2`, `_mwListDirectory`, `_mwStartSendRawData` | `StartFile*`, `StartDirectory`, `StartResponse` |
| `_mwProcessWriteSocket`, `_mwSendRawDataChunk`, `_mwSendFileChunk` | `Write*` |
| `_mwCloseSocket` 1170-1230, `_mwInitSocketData` | `CloseSocket` = `Frees`, `Released`, `KeepsAlive`, `Closed`, `ClosedDescs`; `InitSocketData` |

The fields of a structure are one record. `live` is not in the code: it counts,
for each kind of heap object, what was allocated for the connection and not
freed since, so that a leak or a double free is visible although the pointer
is gone. Flags keep their bit-by-bit life, in particular that expiry assigns
`FLAG_CONN_CLOSE` where everything else sets it. Header and body bytes are
replaced by a choice among the outcomes the parser distinguishes; the number
of bytes left to send by whether there are any.

Abstractions a reader should know of:

- *Time.* `expired` is the set of structures whose `tmExpirationTime` has
  passed. It is read only at the head of the loop, so `TimePasses` acts only
  there; likewise `Kill` acts where `bKillWebserver` is read next.
- *Order.* The list is a set. Within a pass, connections are visited in any
  order, which includes that of the code.
- *Allocation.* `malloc` returns each structure once. A structure that is
  freed is not seen again, so that any use after free is visible.
- *Closing one connection twice* is kept: where the function closes and the
  caller closes again, both calls happen.
- *Headers* have at most one Content-Type field.
- The response of a stream handler is one that keeps a session in `ptr` until
  it is told of the close, like `uhAsyncDataTest` (`httpd/httphandler.c`
  238-269).
- When `accept` succeeds and `malloc` fails the loop breaks; the socket it
  accepted is lost (`orphan`), as in the code (line 475).

### Connections

One variable: each connection is `none`, then alternates `waiting` and
`answering`, then `closed`, then `released`, and never comes back.
`HttpServer!Life` is the refinement mapping and `ImplementsConnections` the
property. It rules out, for instance, an answer to a connection that was
closed, a second life of a structure, and a release while still open by any
path but the final clean-up.

### FileList and Playlists

A `CFileList` is a record and a method an operator from the list and the
listbox to a record `[list, box]` of both; `MoveNext` and `MovePrevious`
return the set of outcomes, since a list may be played in random order. A XUL
listbox is external: `SelectIn` and `DropAt` are what assigning
`selectedIndex` and `removeItemAt` do.

`Playlists` has an action for each command of the user, which runs to its end
in the one JavaScript thread; an exception ends it where it is raised, with
what was assigned before (`RemoveList`, `ClearLists`, `Start`). `Quit` is
`uninit()` with its save, `Crash` the end of the player without it, `Vanish`
somebody else's removal of a file. `upset` is a history variable: since the
player started a listed file was missing, was listed twice, or the list in
use was not among those found. The manager uses row numbers as entry numbers,
which is sound only as long as none of this happens, and the invariants say
so; what goes wrong otherwise is run `entry`. `addFile` has a case for
lists of which none is in use; it never arises (`OneIsInUse`) and is left out.

Play modes are set in all lists together and kept once. Titles, sizes and
types are left out. `openM3uList` throws before it changes anything and is
left out.

### PlayerPool and Playback

`PlayerPool` has the variables of `CXulplayer`: `made` (a `CMPlayer` exists),
`wnd`, `active` and `multi`; `st` is the state of each `CMPlayer`, which is in
a library outside the repository, so that `Started`, `Fails`, `Stops` and
`Ends` are external and may happen at any time. `Stops` includes what
`PlayerEventHandler` does then. `leaked` is a history variable.

| code | model |
|---|---|
| `createPlayer`, `method_play` | `Free`, `Target`, `Play` |
| `destroyPlayerWindow` on `PLAYER_STOPPING` | `ActiveAfter`, `Stops` |
| `method_stop`, `method_pause`, `setActiveId`, click on a window | `StopActive`, `PauseActive`, `SetActive`, `Click` |
| `startPlay`, `CPlayer.play` | `StartPlay`, then `Look` for its `getInfo`, then `FirstLoop` for the `playLoop()` at its end |
| `playLoop` and its timer | `Loop`, `PlayLoop`, `TimerFires` |
| `updatePlayerState` as stop callback, `next_cmd` | `AutoNext` and `StartPlay` in `Loop` |
| `stop_cmd`, `pause_cmd`, `play_cmd`, `applyPlayerOptions`, `switchPlayer`, `toggleDualMode` | `StopCmd`, `PauseCmd`, `Choose`, `ApplyOptions` and `Replay`, `SwitchPlayer`, `ToggleDual` |

A handler of the one JavaScript thread is an action; it is cut where the
state of the player, which other threads change, is read or changed twice in
it (`play` between the start of the player, the question for its state and
its `playLoop`, `applyPlayerOptions` between stop and start).
What the playlist offers next is any file or none. Multi mode is set once,
by a script; nothing in the GUI does, so that both values are checked.

### VodCatalog, VodLists and Vod

A category and a clip are told apart by numbers that stand for names in
alphabetical order; `Filter` is what `FilterDup` makes of a name, so that the
module has its mixture of filtered and unfiltered comparisons. Hashes are
constants, to make them collide. The linked lists are kept as nodes with
`data` and `nxt`, not as sequences: `AddEntry`, `TakeFirst`, `DelEntry` and
`PinEntry` are the `pl*` functions, with the cases of an index past the end.
`Del` may take the server down, since the code frees a string constant after
each deletion (`httpvod.c` 683-685); what free() makes of that is open.
Indices are 0 or more, as the pages send them. `Vod!Queues` is the refinement
mapping to `VodQueues`.

### MultipartPost

The body is a sequence of tokens (line break, boundary, headers, value, end
mark, bytes of a file), received in pieces that may end anywhere between two
tokens. `Data` are the bytes of files; a client chooses a boundary that they
do not hold. The buffer is kept in full, because the boundary search goes
through all of it: with what it held before the request (`Lefts`: it is
allocated without being cleared, and kept from one request to the next), and
with what earlier moves left behind (the body's over the header, `http.c`
1032; that to the beginning of a file, `httppost.c` 266). Only `Cleared` has
the memset that zeroes the rest, `Shifted` has not. `start` is how much of
the body comes in one piece with the header; `Begun` is the buffer then, with
the zero byte of `http.c` 955 behind it. A move from behind the data has a
length below zero and is a `Crash`, as is a search whose result the code uses
although it found nothing, and a section for which `stParams` has no room
(`NoRoom`). "hend" is two line breaks; if a file ends in them, the second is
that of the boundary (`SplitSection`). Each pass of the loop
of `_mwProcessMultipartPost` is one of `LastChunk`, `NoHeader`, `AwaitValue`,
`Variable`, `FileHeader`, and `FullBuffer` what comes after it; a token is
never cut, so that boundaries that are cut in the middle are represented by
cuts between the line break and the boundary. A post that names its file in
the Content-Type is not taken apart (`FirstDirect`, `ReceiveDirect`,
`DirectEnds`, `DirectLeft`, in `http.c`).

## 3. What is checked

All runs finish within the limits of a laptop; the figures are distinct
states.

| run | instance | states | shows |
|---|---|---|---|
| `one` | 1 structure whose peer may stop reacting, 3 descriptors, 2 requests, every kind of request and handler | 170 thousand | the objects and descriptors of one connection; dead peers are closed, a shutdown ends |
| `two` | 2 structures, 3 descriptors, 1 request, uploads, raw and descriptor answers | 860 thousand | what needs two connections, and the refinement |
| `files` | 1 list of 3 files, 4 play modes, count up to 4 | 280 thousand | the four copies of a list |
| `saved` | 2 lists of 1 file, random order | 1.4 million | manager, disk, restarts |
| `player` | 3 slots, 2 timers | 160 thousand | polling, auto-next and the windows |
| `vod` | 5 clips in 3 categories with colliding hashes, one made twice, then 2 clients, 3 entries | 66 thousand | numbers, lists, the refinement |
| `upload` | posts of one to four sections and direct uploads in every cut, files of 0 to 8 bytes, a buffer of 7 that is new or used | 360 thousand | what is passed on is what was sent |
| `stream`, `current`, `entry`, `direct`, `stale` | as small as the case allows | | a disagreement each, section 5 |

**HttpServer properties**

- `TypeOK` includes the bound on requests of a kept-alive connection.
- `ObjectsOwned`: multipart structure, payload and path are allocated once
  and freed once on every path.
- `OnlyExpiryLeaks`: a connection that has been closed leaves no buffer and no
  stream session, unless it expired.
- `FreshRequestIsClean`: a kept-alive connection that waits for its next
  request carries nothing of the last.
- `FileReadIsOpen`: the file-sending step never uses the 0 that a closed file
  leaves in `fd`, which is a valid descriptor.
- `NothingOpenAfterStop`: what is released when the loop ends, whichever
  state each connection was in.
- `ClientCountExact`, `DescriptorsOwned`: the count and the descriptors
  across all double closes and failures.
- `PassIsSafe`: the pass that saves its next pointer never meets a structure
  that was freed meanwhile.
- `StalledConnectionClosed`, `ShutdownCompletes`: liveness.

*Bounds.* A connection interacts with another only through the list, the
client count and the descriptors it takes, so that two structures show every
interaction; three descriptors are one fewer than two uploading connections
that each send a file would want, so that running out happens too. Two
requests let the second be served by a kept-alive connection and the limit be
reached. `two` uses the requests and handlers that own descriptors; the others
own objects of one connection only and are in `one`. Structures and
descriptors are symmetric in `two`; `one`, which checks liveness too, has no
symmetry.

*Fairness.* `FairSpec` assumes that the loop thread keeps running
(`WF(LoopThread)`: it never waits for anything but `select` with a timeout)
and that the clock advances: for a connection that no longer reacts nothing
resets `tmExpirationTime`, so the time at which the loop's head finds it
passed must come (`SF`, since the clock is read only there and the action is
enabled once per iteration). Nothing is assumed of clients: select may report
nothing for ever, handlers may deliver empty pieces for ever.

**Playlists properties**

- `RowsAreDocument`: the listbox that all lists share shows what the list in
  use holds.
- `CountCovers`: the count is never below the number of files. It may be
  above: `show()` counts the files again each time.
- `ManagerInStep`: rows, list objects and entries have the same paths in the
  same order.
- `EditsReachDisk`: on quit every list of which there is a file is in it.

*Bounds.* `MaxLists`, `MaxItems`, `MaxCount` (the count grows with each
`show()`) and `MaxBack` (the index falls below zero with each
`movePrevious()`) are guards of the actions that would exceed them. Three
files have a first, a middle and a last row; a list is shown at least twice
within `MaxCount`. Two lists and two paths let one be removed, replaced,
listed twice, or missing while another is shown; `Opened` allows as many
entries as lists and one more, since an entry may have no list. For the
manager the contents of a list matter only as empty or not.

**Playback properties**

- `PlayingIsWatched`: as long as the user interface shows that something
  plays, a timer or a call is pending that will look again. Of a paused player
  this is false: between the start of a file and the question for its state
  that file may end, its window close and a paused player of a lower slot
  become active; `play()` polls only what plays.
- `EndIsNoticed`: it does not for ever take something for playing that no
  longer plays.
- `StopSticks`: after stop, no timer that is still pending starts a file.
- `NextSparesVideos`: auto-next never takes the slot of a video that plays,
  with all slots in use, in dual and in multi mode.
- `NoWindowLost`: in multi mode no window is overwritten while it exists.
  Outside of it this is false: `createPlayer` replaces the window of slot 0
  (line 271; the `DestroyWindow` of line 269 is commented out).
- `ControlMovesDown`: if the video under control closes and one in a lower
  slot exists, the controls act on a video. For higher slots this is false:
  line 291 looks only below.

A file that does not start, or is over before `play()` looks, is never shown
as playing: the playlist stands still, and none of these properties says that
it should not.

*Bounds.* Three slots are the two players of dual mode and one more, and let
the pool be empty, partly used and full, with a window below, above and
between others; two timers, so that chains of `playLoop` overlap
(`MaxTimers` guards what starts a file). *Fairness:* a call that is under way
goes on and a timer that is set fires; nothing is assumed of players or user.

**VOD properties**

- `FindableById`: `GetClipByHash` gives back the clip that has the number, and
  no other. A clip whose number ran over into the next category's range may
  not be found, and is excepted; it must not hide others.
- `CategoriesAreSound`: counts, order and every file in one category. Two
  categories of one name are not excluded, for the code makes them.
- `EntriesAccounted`: every entry allocated is in one list once; no circle.
- `ImplementsQueues`: every client has the queue of `VodQueues`, in order, and
  no other client's requests touch it.

*Bounds.* Five clips: two categories that share a hash, and one with the next
hash whose stored name differs from the one written; two clips are in that, so
that it is looked up in vain and made a second time, and their titles share a
hash too. Other titles have the last hash of the range, so that numbers
collide and run over. `TitleRange` is 2
instead of 10000. Three entries make a first, middle and last, and two
clients interleave their nodes. The run allows deadlock: the server may crash
in `Del`.

**MultipartPost properties**

- `DoneIsComplete`: when the application is told of a post, every value and
  every byte of every file has been passed on.
- `UploadsArePrefixes`: what is passed on of a file is a beginning of it, at
  every moment and whatever happens next.
- `LastChunkIsLast`: the last chunk is announced when it is.
- `StaysInside`: no pass of the parser runs into a `Crash`.
- `PostIsTakenIn`: a post whose first section is a variable, and a direct
  upload, ends in being stored, if the client stays and the callback writes.
  A post that begins with a file longer than the buffer is rejected
  ("posted variable too large"): its data is not scanned for a boundary
  before the buffer is full.

These hold of a `Plain` post, which has no more sections than
`MAXPOSTPARAMS`. Two coincidences make the parser take an old boundary for a
new one, since the search goes through the whole buffer and the memset after
the header of a file is commented out (`httppost.c` 268-271):

- `PlainStart`: a file in the second or a later section begins with a line
  break, and that is all of it that has come. The move has left it in front of
  the boundary that began the section, and the file ends there.
- `PlainSeam`: some of the body comes in one piece with the header, but no
  more than the header is long, and not all of the first section. When the
  body has moved to the front, the end of the header, which is two line
  breaks, is left in front of the first boundary as it was received (run
  `stale`).

*Bounds.* Buffer 7, chunk 3, header 2: the buffer is longer than a section's
header and shorter than the longest files, so that they are flushed several
times and boundaries lie across pieces and halves. The first piece holds 0 to 4
tokens of the body, less and more than the header is long; that it holds a
whole section and is still no longer than the header needs a header longer
than this buffer allows, and is covered by the theorems only. Three sections
let a file follow a variable and a file, and end before another section, so
that both coincidences above occur, and a post of four variables is one more
than `MAXPOSTPARAMS`, which is 3 instead of 50. One line break in a file puts
it at every place of it; two files end in two of them. A used buffer holds
the parts that a search could take for those of a section. The run allows
deadlock: a post ends. *Fairness:* the server goes on with what it has, and
data that was sent arrives.

Each property has a mutant in the module (an operator marked `Mutant:` before
the definition it stands for), a plausible mistake that TLC must find.

## 4. What is proved

`HttpServer_proofs` proves, for any finite set of structures, any
descriptors, any limit of requests and any mix of requests and handlers:

| theorem | states |
|---|---|
| `Invariance` | `Spec => []IndInv` |
| `TypeCorrect`, `CountCorrect`, `DescriptorsCorrect`, `ObjectsCorrect`, `ClosesCorrect`, `PassCorrect`, `RequestsCorrect`, `FileReadsCorrect`, `StopCorrect` | each safety invariant of runs `one` and `two` |
| `Implementation` | `Spec => ImplementsConnections` |

Assumptions: the four ASSUMEs of `HttpServer` (`Null` is neither structure
nor descriptor, the structures are finite, the limit is a natural number, the
kinds of request and handler are among those of the code). TLC evaluates them
in every run.

The invariants are not inductive. What `_mwCloseSocket` frees depends on
flags, so that exactness of the objects after a close needs to know how flags
and objects are related before it, and that depends on where the loop is.
`IndInv` is

- `TypeOK`;
- `ConnInv` of every structure: `ObjectsExact` and `SessionExact` (each kind
  of object is live exactly when the field and the flags that will free it
  say so; for the session this holds until expiry clears the flags) and
  `Shape` (what a closed, a receiving and a never used structure cannot
  hold);
- `Settled` for every structure the thread is not working on: what a
  connection looks like between two calls;
- `Stage` for the one it is working on: what holds at each label;
- `Position`: how `pc`, `cur`, `todo`, `list` and `mem` belong together;
- `DescriptorsOwned` and `ClientCountExact` themselves.

The proof first establishes what `_mwCloseSocket` does to one record
(`ReleasedObjects`, `ClosedInv`, ...), then what replacing one record does to
the invariant (`CloseSocketStep` and its likes), then one lemma per action.
The count needs the cardinality theorems of the library: closing removes one
element of `Connected` if the socket was open. `Implementation` maps each
action to a move of `Connections` or a stutter under `IndInv`.

`Playback_proofs` proves, for any number of slots and of timers:

| theorem | states |
|---|---|
| `Invariance` | `Spec => []IInv` |
| `TypeCorrect`, `Watched`, `WindowsKept` | `TypeOK`, `PlayingIsWatched`, `NoWindowLost` |
| `StopHolds`, `VideosSpared`, `ControlKept` | `StopSticks`, `NextSparesVideos`, `ControlMovesDown` |

Assumptions: at least one slot, and the bound on timers is a natural number.
`IInv` adds to the invariants `PoolInv` (a slot with a window has a player,
outside multi mode only slot 0 is used, and nothing has been played as long
as no slot is active) and `StopInv` (after
stop, auto-next is off): `StopSticks` holds because nothing but a choice of
the user switches auto-next on again, and `NextSparesVideos` because in multi
mode a full pool means that the active player, which has just been seen not
to play, is the target.

`Playlists_proofs` proves, for any files, paths, play modes and bounds:

| theorem | states |
|---|---|
| `Invariance` | `Spec => []IInv` |
| `TypeCorrect`, `RowsShown`, `CountRight`, `InStep` | `TypeOK`, `RowsAreDocument`, `CountCovers`, `ManagerInStep` |
| `EditsAreSaved` | `Spec => EditsReachDisk` |
| `OneIsInUse` | a list is in use whenever there are rows, in every state |

Assumptions: the default file is one of the paths, `Null` is neither a file,
a path nor a sequence of files, and the play modes are records of the three
flags. The properties speak of the list in use, but the commands go through
the rows of the listbox and of the manager, and quitting writes all lists, so
that `IInv` adds

- `RowsHaveLists`: every row has a list, and the selected row is a row (in
  every state, upset or not: otherwise a click could name no list);
- `Synced`: rows, entries and lists have the same paths, none twice, the list
  in use is among them unless there is none, and every file is there;
- `Shown`: the list in use is the one in the listbox, and counted;
- `Clean`: a list that is not marked and has its file alone holds what the
  file holds. It needs neither `Synced` nor that the player is not upset, and
  it is why no edit is lost: a list that is not written has nothing to write.

Every operation of `FileList` is first shown to be `Good`: it keeps the types
and the path, marks a list whose items it changes, and keeps rows and document
equal if they were. `UpdateStep` then covers all commands on the list in use
at once; opening, removing (with `Was`, the index before a removal) and
starting have a lemma each. Deletion shows why `Synced` must speak of the
files: only it excludes the exception in `RemoveList`, after which rows and
lists are out of step.

`Vod_proofs` proves, for any files, names, hashes, clients and any number of
entries:

| theorem | states |
|---|---|
| `TypeCorrect` | `TypeOK`: heads and links are null or entries in use |
| `Findable`, `CategoriesCorrect` | `FindableById`, `CategoriesAreSound` |
| `EntriesCorrect` | `EntriesAccounted` |
| `Implementation` | `Spec => ImplementsQueues` |

Assumptions: at least one node (`MaxNodesAssumption`), the range of titles is
positive (`TitleRangeAssumption`), titles and category names are numbers
(`NamesAssumption`), and the address of an unused context is no client's
(`NoIpAssumption`). Of the hashes only their range is assumed: they may
collide in any way.

- `CatInv` (`VodCatalog_proofs`): counts, order and one category for each
  clip; numbers are set in `hashmap`; no two clips answer to one number.
  `AddClip` is taken apart into finding the category, counting, and inserting;
  `ListInv(list, at)` holds in between, with the count of category `at` one
  ahead. A number is free when it is given (`NumberIsFree`), so that a clip
  that runs over into the next category's range hides none that was there.
- `ListsInv` (`VodLists_proofs`): either the static first context is unused or
  all contexts belong to clients, each to one (`Told`); the heap has its types
  (`Heap`); and there is a function `p` from contexts to sequences of nodes
  such that every list is `p[k]` (`Lists`): from its head on `nxt` leads
  through `p[k]` and to null (`Chain`), no node is in two sequences or twice in
  one, and every allocated node is in some. The properties speak of what
  pointers reach, by a recursive function; with `p` named, what the `k`-th step
  reaches is `p[k]` (`NodeAtChain`, `ReachChain`), shown with a least
  counterexample (`HasLeast`), so that no induction principle is needed.

Each request is then an edit of one sequence that leaves the others alone:
`RemoveChain`, `AppendChain` and `PinChain` do the pointers,
`RemoveMoves`, `AddMoves`, `PinMoves` and `AloneMoves` the invariant, after
`ContextWorks` has found or made the client's context. The `*Outcome` lemmas
say what a request does to the client's queue as `VodQueues` sees it, and
`Implementation` maps it: a listing and a pin that names no entry are `Look`,
a delete that names none is `Del(c, 0)`, building the catalogue is a stutter.

`MultipartPost_proofs` proves, for any size of buffer, chunk and header, any
number of sections and any file, wherever the network cuts the body:

| theorem | states |
|---|---|
| `TypeCorrect` | `TypeOK` |
| `DoneComplete` | `DoneIsComplete` |
| `PrefixesPassedOn` | `UploadsArePrefixes` |
| `LastIsLast` | `LastChunkIsLast` |
| `Inside` | `StaysInside` |

Assumptions: chunk and header are shorter than the buffer (`SizesAssumption`,
as those of `httpint.h` 88-89 are), a post is sections or a direct upload
(`PostsAssumption`), and neither the files nor what the buffer held before
hold the boundary (`FilesAssumption`, `LeftsAssumption`: a client chooses it
anew for each post).

The properties relate what was passed on to the file, which no state of the
parser mentions, and the body is a recursive concatenation. So `JoinExists`,
`JoinPlaces` and `BodyLayout` first show, once more with a least
counterexample, that there is a `P` with `Layout(P)`: the place where each
section ends and what is where in it. `IInv` says, beside the types, that of a
`Plain` post (`ParserInv(P)`)

- the buffer holds the body from `Gone` on (`Window`);
- the parser is `AtSection(P, k)`, in front of a section, with all sections up
  to `k` told of and all files complete, or `InFile(P, k, j)`, with `j` bytes
  of the file of section `k` passed on;
- what is behind the data cannot be taken for a boundary: before the first
  move it is the header, a copy of the beginning of the body and what the
  buffer held before, which has no boundary in it (`Seam`),
  after a section was ended it is zero, and in a file no boundary is there as
  long as that of the file has not come, but for the one in front of the
  section, which is at the second place.

The last is what makes the proof work, and where `Plain` is needed: the line
break in front of such an old boundary must not be data. `FirstBoundary` and
`FileBoundary` then show that the boundary found is the next one of the body,
`HeaderFound` that the searches of a header's parts stay in it,
`FullBufferIsFile` that a full buffer without a boundary begins with bytes of
the file and can only hold the beginning of a boundary in the half that is
kept. A direct upload has `DirectInv`.

Only model-checked: liveness (`StalledConnectionClosed`, `ShutdownCompletes`,
`EndIsNoticed`, `PostIsTakenIn`), which is out of the prover's reach under
fairness, and the runs of section 5, which look for a violation. Every safety
property of every passing run, and both refinements, are theorems.

## 5. Where code and statement disagree

Each is a run that TLC refutes; `PROJECT.json` quotes both sides.

- `stream` - expiry forgets the stream. `httpd/http.c:384` assigns
  `flags=FLAG_CONN_CLOSE`; the bits that would make `_mwCloseSocket` tell the
  handler ("indicate connection closed", line 1204) and free `ptr` are gone.
  The clean-up after the loop uses `|=`.
- `current` - after a file has been removed, the current node and the current
  index name different files (`JS/playlist.js:258`).
- `entry` - with a missing file, removing a list drops the entry of another
  (`JS/playlistman.js:135`).
- `direct` - a direct upload longer than the buffer is cut off and reported as
  complete (`httpd/http.c:935`): the room passed to `recv` becomes 0, its
  answer 0 is taken for a client that has closed, and the branch that would
  pass a full buffer on (line 1075) cannot be reached.
- `stale` - a boundary is found in old data. `httpd/httppost.c:173` searches
  the whole buffer, although line 172 speaks of new data. In the run the
  header and a beginning of the body no longer than it come in one piece. The
  move of the body over the header (`http.c:1032`) leaves the end of the
  header next to the first boundary as it was received: together they are a
  boundary, which the search finds behind the data.

Seen in the code while modelling, without a statement of the repository to
compare with:

- *Dual mode.* Nothing calls `setEnableMultiMode`, so both views play in slot
  0; leaving dual mode throws, since `exitDualMode` does not exist
  (`window.js:65`).
- *Auto-next.* A file that does not reach the playing state, or has left it
  before `play()` asks, starts no polling and the list stands still; a slot that was selected but never used has no
  state, so that `playLoop` polls it for ever.
- *VOD.* `del` frees a string constant and always answers "OK" (681-686); the
  data of a deleted entry is lost; a category whose name holds `_` or `&` is
  not found again and made anew; the index of a changed list names another
  entry, and a negative one uses a null pointer (875, 907); re-initialisation keeps counts and categories but drops contexts.
- *Playlists.* A list created over an existing file that the user agreed to
  overwrite keeps its contents: `saveUTF8File` is called without `overwrite`
  (`JS/playlistman.js` 120-124, `JS/io.js` 179-228).
- *Uploads.* A post with a file that begins with a line break, in any section
  but the first, may be cut short (`PlainStart`). A header that arrives alone is
  followed by a `recv` that finds nothing and drops the connection
  (`NothingYet`); a `recv` of 0 in the middle of a post counts as its end;
  values of several lines are cut after the first.
- *Life cycle.* A quit signal during `mwServerStart` is lost, since
  `bKillWebserver` is reset at `http.c:161`; the clean-up of `miniweb.c` runs
  twice when the program ends by a signal.

## 6. What is not modelled

- In the server: the wait of `mwServerStart` and `mwServerShutdown` for the
  thread and the `MW_UNINIT` calls; `FLAG_CUSTOM_HEADER` (rtsp.c),
  `FLAG_DATA_SOCKET`, the 7z and Windows CE variants; virtual paths; header
  and body bytes; the pacing of streams and downloads.
- In playback: Flash, TV, transcoding and pages; seeking, volume, subtitles.
- In the VOD server: the pages and streams that read the catalogue, negative
  indices, re-initialisation, numbers past the hash bitmap.
- In uploads: url-encoded posts, authentication in the middle of a post, the
  text of headers; tokens are not cut in the middle, and the line
  break in an end mark or a header line is not taken for that of a boundary
  behind it, where none comes; the zero byte behind the data of a direct
  upload, which nothing searches.
- In the playlists: m3u import, malformed XML, titles and durations, the
  second player's view.
- The components marked `not_modelled`, because they are on the plan
  (section 7), hold no state of their own (handlers, NPAPI glue, forms),
  are front ends of other programs (downloads, devices), do not build
  (`mpd.c`) or are third-party code.
- Outside the repository: MPlayer and the PluginCommon library that wraps it.

## 7. Plan

1. Done: `HttpServer`, `Connections`, their runs and proofs.
2. Done: `FileList`, `Playlists`, their runs.
3. Done: `PlayerPool`, `Playback`, their run and proofs.
4. Done: `VodCatalog`, `VodLists`, `VodQueues`, `Vod` and their run.
5. Done: `MultipartPost` and its runs.
6. Left to model: `HttpClient` (`httpclient.c` 110-432: keep-alive, chunked
   bodies, time-outs), `Converter` (`converter.js` 46-160),
   `HttpLifecycle` (start, shutdown wait, `MW_UNINIT`).
7. Done: the proofs about `Playlists`, the VOD server and `MultipartPost`.
   Of what the runs check, liveness alone has no theorem.

## 8. Running it

    tlc -workers 2 -config HttpServer_two.cfg MCHttpServer
    tlc -workers 2 -config Playlists_saved.cfg MCPlaylists
    tlc -workers 2 -config Playback_player.cfg Playback
    tlc -workers 2 -config Vod_vod.cfg MCVod
    tlc -workers 2 -config MultipartPost_upload.cfg MCMultipartPost
    tlapm HttpServer_proofs.tla
    tlapm Playback_proofs.tla
    tlapm Playlists_proofs.tla
    tlapm DataLemmas.tla
    tlapm VodCatalog_proofs.tla
    tlapm VodLists_proofs.tla
    tlapm Vod_proofs.tla
    tlapm MultipartPost_proofs.tla
