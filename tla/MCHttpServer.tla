---------------------------- MODULE MCHttpServer ----------------------------
(* HttpServer with one or two connections, for TLC.                        *)
EXTENDS HttpServer, TLC

CONSTANTS s1, s2, d1, d2, d3

OneStruct  == {s1}
TwoStructs == {s1, s2}
TwoDescs   == {d1, d2}
ThreeDescs == {d1, d2, d3}

AllMethods  == {"get", "post", "multipart", "upload"}
AllHandlers == {"redirect", "raw", "stream", "file", "fd"}

Symmetry == Permutations(TwoStructs) \cup Permutations(ThreeDescs)
=============================================================================
