-------------------------- MODULE MCMultipartPost --------------------------
(* Instances of MultipartPost: files of up to MaxFile tokens, of which up  *)
(* to MaxBreaks are line breaks and the others all different, two with a   *)
(* "hend" in them, and a buffer that is new or holds parts of older posts. *)
EXTENDS MultipartPost

CONSTANTS MaxFile, MaxBreaks

Letters == <<"d1", "d2", "d3", "d4", "d5", "d6", "d7", "d8", "d9", "d10">>

MCData == {Letters[i] : i \in DOMAIN Letters} \cup {"nl", "hend"}

FilesOf(n) ==
    {[i \in 1 .. n |-> IF i \in breaks THEN "nl" ELSE Letters[i]] :
        breaks \in {B \in SUBSET (1 .. n) : Cardinality(B) <= MaxBreaks}}

MCFileData ==
    UNION {FilesOf(n) : n \in 0 .. MaxFile} \cup {<<"hend">>, <<"d1", "hend">>}

MCPosts == {<<"var", "file", "var">>, <<"var", "file", "file">>, <<"var", "file">>,
            <<"file", "var">>, <<"file", "file">>, <<"var", "var">>, <<"file">>,
            <<"var", "var", "var", "var">>, <<"raw">>}

MCDirect == {<<"raw">>}

Old == <<"df", "hend", "nl">>

MCLefts == {[i \in 1 .. Size |-> "0"], [i \in 1 .. Size |-> Old[(i % 3) + 1]]}

=============================================================================
