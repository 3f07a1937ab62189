--------------------------- MODULE MultipartPost ---------------------------
(***************************************************************************)
(* The parser of multipart posts, httpd/httppost.c, with the code of       *)
(* httpd/http.c that hands it the first part of the body: one connection,  *)
(* whose body arrives in pieces of any size and is taken apart in a buffer *)
(* that may be smaller than the file in it.  A post that names a file in   *)
(* its Content-Type is not taken apart: its body is the file (Direct).     *)
(*                                                                         *)
(* The bytes are tokens that are received whole:                           *)
(*   "nl"    a line break          "bd"    two dashes and the boundary     *)
(*   "dv"    the Content-Disposition of a variable                         *)
(*   "df"    one with a file name  "hend"  the end of a section's header   *)
(*   "v"     a value               "end"   two dashes and a line break     *)
(*   "h"     a line of the request's header         "0"  a zero byte       *)
(* and those of the file sent.  "hend" is two line breaks; a file has none  *)
(* but in "nl" and "hend", and a value is a single line.  Every pass of    *)
(* the loop over the buffer is a step; pc is what comes next.              *)
(***************************************************************************)
EXTENDS Integers, Sequences, FiniteSets

CONSTANTS
    Size,         (* HTTPMAXRECVBUFFER                                      *)
    Chunk,        (* HTTPUPLOAD_CHUNKSIZE                                   *)
    MAXPOSTPARAMS,
    HeaderLen,    (* length of the request's header                         *)
    Posts,        (* what is sent: sequences of "var" and "file", or <<"raw">> *)
    Data,         (* bytes of files                                         *)
    FileData,     (* what is in the files                                   *)
    Lefts         (* what a buffer may hold before: it is not cleared       *)

ASSUME SizesAssumption ==
    /\ Size \in Nat /\ Chunk \in 1 .. Size - 1 /\ HeaderLen \in 1 .. Size - 1
    /\ MAXPOSTPARAMS \in Nat

ASSUME PostsAssumption ==
    Posts \subseteq {<<"raw">>} \cup (Seq({"var", "file"}) \ {<<>>})

(* A client chooses a boundary that its files do not hold.                 *)
ASSUME FilesAssumption == FileData \subseteq Seq(Data) /\ "bd" \notin Data

VARIABLES
    post, file,      (* the sections that are sent, the data of a file      *)
    body,            (* what is sent                                        *)
    start,           (* how much of it comes in one piece with the header   *)
    refuses,         (* the upload callback cannot write its file           *)
    received,        (* tokens of the body received                         *)
    buffer, writeLocation,
    pchFilename,     (* a file is being received                            *)
    params,          (* pp.stParams: the values                             *)
    uploads,         (* history: data and last chunk of the files passed on *)
    pc,              (* "read", "scan", "full", "direct"; "first" before all *)
    result           (* how it ended; "open" until then                     *)

sent == <<post, file, body, start, refuses>>
vars == <<sent, received, buffer, writeLocation, pchFilename, params, uploads,
          pc, result>>

Tokens == {"nl", "bd", "dv", "df", "hend", "v", "end", "h", "0"} \cup Data

(* The boundary of a post is in nothing that was received before.          *)
ASSUME LeftsAssumption == Lefts \subseteq [1 .. Size -> Tokens \ {"bd"}]

(* What an application is told of a section: a value, or that there was a  *)
(* file.                                                                   *)
Told == Seq(Tokens) \cup {<<"f">>}

Section(kind) ==
    IF kind = "var" THEN <<"nl", "bd", "dv", "hend", "v">>
    ELSE <<"nl", "bd", "df", "hend">> \o file

Direct == post = <<"raw">>

(* The body: before the first boundary there is no line break.             *)
Body ==
    LET sections[k \in 0 .. Len(post)] ==
            IF k = 0 THEN <<>> ELSE sections[k - 1] \o Section(post[k])
    IN  IF Direct THEN file
        ELSE Tail(sections[Len(post)] \o <<"nl", "bd", "end">>)

Init ==
    /\ post \in Posts /\ file \in FileData /\ body = Body
    /\ start \in 0 .. Size - HeaderLen - 1 /\ start <= Len(body)
    /\ refuses \in BOOLEAN /\ received = 0 /\ buffer \in Lefts
    /\ writeLocation = 0 /\ pchFilename = FALSE
    /\ params = <<>> /\ uploads = <<>>
    /\ pc = "first" /\ result = "open"

-----------------------------------------------------------------------------
(* Searching the buffer.                                                   *)

Least(S) == CHOOSE i \in S : \A j \in S : i <= j

(* _mwFindMultipartBoundary searches the whole buffer, whatever of it is   *)
(* in use.                                                                 *)
Boundaries ==
    {i \in 1 .. Size - 1 : buffer[i] \in {"nl", "hend"} /\ buffer[i + 1] = "bd"}

(* What strstr and _mwStrStrNoCase find: nothing behind a zero byte.       *)
Found(tokens, from) ==
    {i \in from .. Size :
        buffer[i] \in tokens /\ \A j \in 1 .. i : buffer[j] # "0"}

LineBreak == {"nl", "dv", "df", "hend", "end", "h"}

(* strncmp(buffer + strlen(boundary) + 2, "--\r\n", 4).                    *)
AtEndMark(buf) == buf[1] = "nl" /\ buf[2] = "bd" /\ buf[3] = "end"

(* memmove to the front of the buffer; what it does not cover stays.       *)
Shifted(by) ==
    [i \in 1 .. Size |->
        IF i + by <= writeLocation THEN buffer[i + by] ELSE buffer[i]]

(* Mutant: the rest of the buffer is left as it is.                        *)
ClearedNot(by) == Shifted(by)

(* Mutant: what was moved is ended by a single zero byte.                  *)
ClearedOnce(by) ==
    [Shifted(by) EXCEPT ![writeLocation - by + 1] = "0"]

(* memmove and memset: the rest of the buffer is zero.                     *)
Cleared(by) ==
    [i \in 1 .. Size |->
        IF i + by <= writeLocation THEN buffer[i + by] ELSE "0"]

-----------------------------------------------------------------------------
(* Receiving.                                                              *)

(* The header and the first n tokens of the body, as they come.            *)
Piece(n) ==
    [i \in 1 .. HeaderLen |-> IF i < HeaderLen THEN "h" ELSE "hend"]
        \o SubSeq(body, 1, n)

(* The buffer when n more tokens are put behind the others.                *)
Filled(n) ==
    [i \in 1 .. Size |->
        IF i \in writeLocation + 1 .. writeLocation + n
        THEN body[received + i - writeLocation] ELSE buffer[i]]

(* The first piece with a zero byte behind it, and what was there before.  *)
Begun(n) ==
    [i \in 1 .. Size |->
        IF i <= HeaderLen + n THEN Piece(n)[i]
        ELSE IF i = HeaderLen + n + 1 THEN "0" ELSE buffer[i]]

(* The first piece ends n tokens into the body.  The body moves to the     *)
(* front, over the header; what it does not cover stays behind it.         *)
First(n) ==
    /\ pc = "first" /\ ~Direct
    /\ buffer' = [i \in 1 .. Size |-> IF i <= n THEN body[i] ELSE Begun(n)[i]]
    /\ received' = n /\ writeLocation' = n
    /\ pc' = IF n > 0 THEN "scan" ELSE "read"
    /\ UNCHANGED <<sent, pchFilename, params, uploads, result>>

(* recv: the next n tokens go behind the others.                           *)
Receive(n) ==
    /\ pc = "read" /\ received < Len(body) /\ buffer' = Filled(n)
    /\ received' = received + n /\ writeLocation' = writeLocation + n
    /\ pc' = "scan"
    /\ UNCHANGED <<sent, pchFilename, params, uploads, result>>

Finish(how) == result' = how /\ pc' = "over"

(* A header that comes in a piece of its own is followed at once by a recv *)
(* on a socket that does not block: there may be nothing yet.              *)
NothingYet ==
    /\ pc = "read" /\ received = 0 /\ Finish("nothing")
    /\ UNCHANGED <<sent, received, buffer, writeLocation, pchFilename, params, uploads>>

(* The client closes: recv returns 0 or fails.  If it returns 0 the request *)
(* counts as received, but nobody is told of the values.                   *)
PeerCloses ==
    /\ pc = "read" /\ Finish("left")
    /\ UNCHANGED <<sent, received, buffer, writeLocation, pchFilename, params, uploads>>

-----------------------------------------------------------------------------
(* The passes of the loop: there is a boundary in the buffer.              *)

Boundary == pc = "scan" /\ Boundaries # {}

(* What passes on data does to the history.                                *)
Passed(data, last) ==
    uploads' = [uploads EXCEPT ![Len(uploads)] =
                   [data |-> @.data \o data, last |-> last]]

(* A move to what lies behind the data has a length below zero: undefined. *)
Crash == Finish("crash") /\ UNCHANGED <<buffer, writeLocation>>

(* The next section begins at token i: everything is received if the end   *)
(* mark is there, and _mwNotifyPostVars tells the application.             *)
NextSection(i) ==
    IF i - 1 > writeLocation THEN Crash
    ELSE /\ buffer' = Cleared(i - 1) /\ writeLocation' = writeLocation - (i - 1)
         /\ IF AtEndMark(buffer') THEN Finish("done") ELSE UNCHANGED <<pc, result>>

(* The boundary at i has the second line break of "hend": the first is     *)
(* left out of the move.                                                   *)
SplitSection(i) ==
    IF i > writeLocation THEN Crash
    ELSE /\ buffer' = [Cleared(i - 1) EXCEPT ![1] = "nl"]
         /\ writeLocation' = writeLocation - (i - 1)
         /\ IF AtEndMark(buffer') THEN Finish("done") ELSE UNCHANGED <<pc, result>>

(* The boundary ends the file.                                             *)
LastChunk ==
    /\ Boundary /\ pchFilename
    /\ LET b == Least(Boundaries)
           data == SubSeq(buffer, 1, b - 1)
       IN  \/ buffer[b] = "nl" /\ Passed(data, TRUE) /\ NextSection(b)
           \/ buffer[b] = "hend" /\ Passed(Append(data, "nl"), TRUE) /\ SplitSection(b)
    /\ pchFilename' = FALSE
    /\ UNCHANGED <<sent, received, params>>

Starts  == Found({"dv", "df"}, 1)
Ends    == Found({"hend"}, 1)
HasHeader == Starts # {} /\ Ends # {}
IsFile  == Found({"df"}, 1) # {} /\ Least(Found({"df"}, 1)) < Least(Ends)

(* Mutant: the end mark is not looked for again once more has come.        *)
NoHeaderNoEnd ==
    /\ Boundary /\ ~pchFilename /\ ~HasHeader
    /\ pc' = "full"
    /\ UNCHANGED <<sent, received, buffer, writeLocation, pchFilename, params,
                   uploads, result>>

(* No whole header is there: this is the end, or more has to come.         *)
NoHeader ==
    /\ Boundary /\ ~pchFilename /\ ~HasHeader
    /\ IF AtEndMark(buffer) THEN Finish("done") ELSE pc' = "full" /\ UNCHANGED result
    /\ UNCHANGED <<sent, received, buffer, writeLocation, pchFilename, params, uploads>>

AwaitValue ==
    /\ Boundary /\ ~pchFilename /\ HasHeader /\ ~IsFile
    /\ Found(LineBreak, Least(Ends) + 1) = {}
    /\ pc' = "full"
    /\ UNCHANGED <<sent, received, buffer, writeLocation, pchFilename, params,
                   uploads, result>>

(* There is no room in stParams, and no look at it: undefined.             *)
NoRoom == Len(params) = MAXPOSTPARAMS

(* A variable: its value is the line behind the header.  A search that     *)
(* leads nowhere is undefined, too.                                        *)
Variable ==
    /\ Boundary /\ ~pchFilename /\ HasHeader /\ ~IsFile
    /\ Found(LineBreak, Least(Ends) + 1) # {}
    /\ LET headers == Found({"hend"}, Least(Starts))
           breaks  == Found(LineBreak, Least(headers) + 1)
       IN  IF headers = {} \/ breaks = {} \/ NoRoom
           THEN Crash /\ UNCHANGED params
           ELSE /\ params' = Append(params,
                        SubSeq(buffer, Least(headers) + 1, Least(breaks) - 1))
                /\ NextSection(Least(breaks))
    /\ UNCHANGED <<sent, received, pchFilename, uploads>>

(* A file: its data begins behind the header, and what the move leaves     *)
(* behind the data stays there.                                            *)
FileHeader ==
    /\ Boundary /\ ~pchFilename /\ HasHeader /\ IsFile
    /\ LET headers == Found({"hend"}, Least(Found({"df"}, 1)))
           h       == Least(headers)
       IN  IF h > writeLocation \/ NoRoom
           THEN Crash /\ UNCHANGED <<params, pchFilename, uploads>>
           ELSE /\ params' = Append(params, <<"f">>)
                /\ pchFilename' = TRUE
                /\ uploads' = Append(uploads, [data |-> <<>>, last |-> FALSE])
                /\ buffer' = Shifted(h) /\ writeLocation' = writeLocation - h
                /\ pc' = IF writeLocation' = 0 THEN "full" ELSE "scan"
                /\ UNCHANGED result
    /\ UNCHANGED <<sent, received>>

NoBoundary ==
    /\ pc = "scan" /\ Boundaries = {} /\ pc' = "full"
    /\ UNCHANGED <<sent, received, buffer, writeLocation, pchFilename, params,
                   uploads, result>>

(* After the loop: a full buffer is a piece of a file, or it is too long a *)
(* section.                                                                *)
PassOn(chunk) ==
    /\ pc = "full"
    /\ IF writeLocation < Size
       THEN pc' = "read" /\ UNCHANGED <<buffer, writeLocation, uploads, result>>
       ELSE IF ~pchFilename
       THEN Finish("toolarge") /\ UNCHANGED <<buffer, writeLocation, uploads>>
       ELSE /\ Passed(SubSeq(buffer, 1, chunk), FALSE)
            /\ IF refuses
               THEN Finish("refused") /\ UNCHANGED <<buffer, writeLocation>>
               ELSE /\ buffer' = Shifted(chunk)
                    /\ writeLocation' = writeLocation - chunk
                    /\ pc' = "read" /\ UNCHANGED result
    /\ UNCHANGED <<sent, received, pchFilename, params>>

(* Mutant: all of the buffer is passed on, and with it part of a boundary. *)
FullBufferAll == PassOn(Size)

(* Half of the buffer is passed on.                                        *)
FullBuffer == PassOn(Chunk)

-----------------------------------------------------------------------------
(* A direct upload: the parts of the body are collected in the buffer.     *)

(* The first part is passed on at once.                                    *)
FirstDirect(n) ==
    /\ pc = "first" /\ Direct /\ buffer' = Begun(n)
    /\ uploads' = <<[data |-> SubSeq(body, 1, n), last |-> FALSE]>>
    /\ received' = n /\ writeLocation' = 0
    /\ pc' = "direct"
    /\ UNCHANGED <<sent, pchFilename, params, result>>

(* The room for recv: there is always a zero byte behind what was received. *)
DirectRoom == Size - 1 - writeLocation

(* A full buffer would be passed on.                                       *)
ReceiveDirect(n) ==
    /\ pc = "direct" /\ received < Len(body) /\ buffer' = Filled(n)
    /\ received' = received + n
    /\ IF writeLocation + n = Size
       THEN Passed(buffer', FALSE) /\ writeLocation' = 0
       ELSE UNCHANGED uploads /\ writeLocation' = writeLocation + n
    /\ UNCHANGED <<sent, pchFilename, params, pc, result>>

(* recv returns 0: the connection ends, and what is in the buffer is the   *)
(* last of the file.  So it does if it was given no room.                  *)
CommitDirect(how) ==
    /\ pc = "direct" /\ Passed(SubSeq(buffer, 1, writeLocation), TRUE)
    /\ Finish(how)
    /\ UNCHANGED <<sent, received, buffer, writeLocation, pchFilename, params>>

DirectEnds ==
    (received = Len(body) \/ DirectRoom = 0) /\ CommitDirect("stored")

DirectLeft == received < Len(body) /\ CommitDirect("left")

-----------------------------------------------------------------------------
Scan == LastChunk \/ NoHeader \/ AwaitValue \/ Variable \/ FileHeader
            \/ NoBoundary \/ FullBuffer

(* Mutant: recv is not given the room that is left.                        *)
NetworkAnySize ==
    \/ First(start) \/ FirstDirect(start)
    \/ \E n \in 1 .. Size : n <= Len(body) - received /\ Receive(n)
    \/ \E n \in 1 .. DirectRoom : n <= Len(body) - received /\ ReceiveDirect(n)
    \/ DirectEnds

(* What comes, in pieces that fit.                                         *)
Network ==
    \/ First(start) \/ FirstDirect(start)
    \/ \E n \in 1 .. Size - writeLocation :
          n <= Len(body) - received /\ Receive(n)
    \/ \E n \in 1 .. DirectRoom : n <= Len(body) - received /\ ReceiveDirect(n)
    \/ DirectEnds

Next == Scan \/ Network \/ NothingYet \/ PeerCloses \/ DirectLeft

(* The server goes on with what it has, and a client that stays goes on    *)
(* sending (external).                                                     *)
Spec == Init /\ [][Next]_vars /\ WF_vars(Scan) /\ WF_vars(Network)

-----------------------------------------------------------------------------
(* Properties.                                                             *)

Over == pc = "over"

(* Every variable has its type.                                            *)
TypeOK ==
    /\ post \in Posts /\ file \in FileData /\ refuses \in BOOLEAN
    /\ start \in 0 .. Size - HeaderLen - 1 /\ start <= Len(body)
    /\ received \in 0 .. Len(body) /\ writeLocation \in 0 .. Size
    /\ buffer \in [1 .. Size -> Tokens]
    /\ pchFilename \in BOOLEAN
    /\ params \in Seq(Told)
    /\ uploads \in Seq([data : Seq(Tokens), last : BOOLEAN])
    /\ pc \in {"first", "read", "scan", "full", "direct", "over"}
    /\ result \in {"open", "done", "stored", "nothing", "left", "toolarge",
                   "refused", "crash"}

(* Two cuts make the parser take an old boundary for a new one, and are    *)
(* excepted below.  A first piece that holds some of the body, but not the *)
(* whole first section, and no more of it than the header is long: when    *)
(* the body has moved to the front, the end of the header is left in front *)
(* of the first boundary, where that was received.  And a line break that  *)
(* begins a file in a later section and is all of it that has come: it     *)
(* meets the boundary in front of the section.  Excepted is, too, a post   *)
(* of more sections than there is room for.                                *)
PlainSeam ==
    start \in 1 .. HeaderLen => \E i \in 2 .. start : body[i] = "bd"
PlainStart == \A k \in DOMAIN post :
    k > 1 /\ post[k] = "file" => file = <<>> \/ file[1] \notin {"nl", "hend"}
Plain == PlainStart /\ PlainSeam /\ Len(post) <= MAXPOSTPARAMS

(* The application is told of a post when every value and every byte of    *)
(* every file has been passed on, wherever the network cut the body, what  *)
(* the buffer still held, and however much longer than it the file is.     *)
DoneIsComplete ==
    Plain /\ result = "done" =>
        /\ params = [k \in DOMAIN post |-> IF post[k] = "var" THEN <<"v">> ELSE <<"f">>]
        /\ \A k \in DOMAIN uploads : uploads[k] = [data |-> file, last |-> TRUE]

(* What is passed on of a file is a beginning of it: nothing is left out,  *)
(* repeated, or taken from the boundary or from what the buffer held.      *)
UploadsArePrefixes ==
    Plain => \A k \in DOMAIN uploads :
        LET data == uploads[k].data
        IN  Len(data) <= Len(file) /\ data = SubSeq(file, 1, Len(data))

(* The parser does not leave what it has received: no header, value or     *)
(* boundary is sought in vain or found behind the data.                    *)
StaysInside == Plain => result # "crash"

(* The callback is told that a chunk is the last one when it is.  At the   *)
(* end of a direct upload it is told so in any case.                       *)
LastChunkIsLast ==
    Plain /\ ~Direct => \A k \in DOMAIN uploads : uploads[k].last => uploads[k].data = file

(* A post whose first section is a variable, and a direct upload, is taken *)
(* in to its end, whatever the size of its files, if the client stays and  *)
(* the callback can write; no cut leaves the server waiting for more.      *)
PostIsTakenIn ==
    Plain /\ ~refuses /\ post[1] # "file"
        => <>(result \in {"done", "stored", "left", "nothing"})

(* A direct upload whose client closes when it has sent all of the file is *)
(* stored in whole.  It is not if the file is longer than the buffer.      *)
DirectUploadComplete ==
    result = "stored" => uploads = <<[data |-> file, last |-> TRUE]>>

(* The parser searches new data for the boundary, so that what it finds    *)
(* was received, and has not been taken apart before.  It does not: see    *)
(* Plain.                                                                  *)
BoundaryIsNew == Boundary => Least(Boundaries) < writeLocation

=============================================================================
