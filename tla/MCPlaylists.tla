----------------------------- MODULE MCPlaylists ----------------------------
(* Playlists with a few lists of a few files, for TLC.                     *)
EXTENDS Playlists

CONSTANTS f1, f2, p1, p2

Repeating == [random |-> FALSE, repeat |-> TRUE,  repeatOne |-> FALSE]
Straight  == [random |-> FALSE, repeat |-> FALSE, repeatOne |-> FALSE]
Shuffled  == [random |-> TRUE,  repeat |-> FALSE, repeatOne |-> FALSE]
Single    == [random |-> FALSE, repeat |-> TRUE,  repeatOne |-> TRUE]

OneMode  == {Shuffled}
AllModes == {Repeating, Straight, Shuffled, Single}
=============================================================================
