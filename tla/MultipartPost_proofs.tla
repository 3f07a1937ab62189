----------------------- MODULE MultipartPost_proofs -----------------------
(***************************************************************************)
(* Theorems about the parser of multipart posts, for every post whose      *)
(* files do not hold the boundary, every size of buffer, chunk and header, *)
(* and every cut of the body by the network.                               *)
(***************************************************************************)
EXTENDS MultipartPost, DataLemmas

(* Where the sections of the body end: P[k] is the place of the line break *)
(* behind section k.                                                       *)
Layout(P) ==
    /\ P \in [0 .. Len(post) -> Nat] /\ P[0] = 0
    /\ \A k \in 1 .. Len(post) :
          /\ post[k] = "var" =>
                /\ P[k] = P[k - 1] + 5
                /\ body[P[k - 1] + 1] = "bd" /\ body[P[k - 1] + 2] = "dv"
                /\ body[P[k - 1] + 3] = "hend" /\ body[P[k - 1] + 4] = "v"
          /\ post[k] = "file" =>
                /\ P[k] = P[k - 1] + 4 + Len(file)
                /\ body[P[k - 1] + 1] = "bd" /\ body[P[k - 1] + 2] = "df"
                /\ body[P[k - 1] + 3] = "hend"
                /\ \A i \in 1 .. Len(file) : body[P[k - 1] + 3 + i] = file[i]
          /\ body[P[k]] = "nl"
    /\ body[P[Len(post)] + 1] = "bd" /\ body[P[Len(post)] + 2] = "end"
    /\ Len(body) = P[Len(post)] + 2

-----------------------------------------------------------------------------
(* The body.                                                               *)

(* A definition by recursion on the sections has a solution.               *)
LEMMA JoinExists ==
    ASSUME NEW S, NEW n \in Nat, NEW g \in [1 .. n -> Seq(S)]
    PROVE  \E f : f = [k \in 0 .. n |-> IF k = 0 THEN <<>> ELSE f[k - 1] \o g[k]]
<1> DEFINE Solves(f, m) ==
               f = [k \in 0 .. m |-> IF k = 0 THEN <<>> ELSE f[k - 1] \o g[k]]
           wrong == {m \in 0 .. n : ~ \E f : Solves(f, m)}
<1>1. wrong = {}
  <2> SUFFICES ASSUME wrong # {} PROVE FALSE
    OBVIOUS
  <2>1. PICK m \in wrong : \A l \in wrong : m <= l
    <3> HIDE DEF Solves
    <3>1. wrong \subseteq Nat
      OBVIOUS
    <3> HIDE DEF wrong
    <3> QED BY <3>1, HasLeast
  <2>2. m \in 0 .. n /\ ~ \E f : Solves(f, m)
    BY <2>1
  <2>3. m # 0
    <3> SUFFICES ASSUME m = 0 PROVE FALSE
      OBVIOUS
    <3> DEFINE e == [k \in 0 .. 0 |-> <<>>]
    <3>1. Solves(e, 0)
      OBVIOUS
    <3> QED BY <3>1, <2>2
  <2>4. m - 1 \in 0 .. n /\ ~(m <= m - 1)
    BY <2>2, <2>3
  <2>5. PICK f : Solves(f, m - 1)
    <3> HIDE DEF Solves
    <3> QED BY <2>1, <2>4
  <2> DEFINE h == [k \in 0 .. m |-> IF k < m THEN f[k] ELSE f[m - 1] \o g[m]]
  <2>6. ASSUME NEW k \in 0 .. m
        PROVE  h[k] = IF k = 0 THEN <<>> ELSE h[k - 1] \o g[k]
    <3>1. CASE k = 0
      BY <3>1, <2>2, <2>3, <2>5
    <3>2. CASE k # 0 /\ k < m
      <4>1. k \in 0 .. m - 1 /\ k - 1 \in 0 .. m /\ k - 1 < m
        BY <3>2, <2>2
      <4>2. f[k] = f[k - 1] \o g[k]
        BY <4>1, <3>2, <2>5
      <4> QED BY <4>1, <4>2, <3>2
    <3>3. CASE k = m
      <4>1. m - 1 \in 0 .. m /\ m - 1 < m
        BY <2>2, <2>3
      <4> QED BY <4>1, <3>3, <2>3
    <3> QED BY <3>1, <3>2, <3>3, <2>2
  <2>7. Solves(h, m)
    <3>1. h = [k \in 0 .. m |-> h[k]]
      OBVIOUS
    <3> HIDE DEF h
    <3> QED BY <3>1, <2>6
  <2> QED BY <2>7, <2>2
<1>2. n \in 0 .. n
  OBVIOUS
<1>3. \E f : Solves(f, n)
  <2> HIDE DEF Solves
  <2> QED BY <1>1, <1>2
<1> QED BY <1>3

(* A place behind a others.                                                *)
LEMMA PlaceInSum ==
    ASSUME NEW a \in Nat, NEW b \in Nat, NEW i \in 1 .. b
    PROVE  a + i \in 1 .. a + b
  OBVIOUS

(* A place among the first a.                                              *)
LEMMA PlaceBefore ==
    ASSUME NEW a \in Nat, NEW b \in Nat, NEW i \in 1 .. a
    PROVE  i \in 1 .. a + b
  OBVIOUS

(* Each part of a concatenation stays where it is put.                     *)
LEMMA ConcatPlaces ==
    ASSUME NEW S, NEW s \in Seq(S), NEW t \in Seq(S)
    PROVE  /\ s \o t \in Seq(S) /\ Len(s \o t) = Len(s) + Len(t)
           /\ Len(s \o t) \in Nat /\ Len(s) \in Nat /\ Len(t) \in Nat
           /\ \A i \in 1 .. Len(s) : (s \o t)[i] = s[i]
           /\ \A i \in 1 .. Len(t) : (s \o t)[Len(s) + i] = t[i]
  OBVIOUS

(* f[k] is the first k of n sequences, one behind the other.               *)
Joined(S, n, g, f) ==
    /\ n \in Nat /\ \A k \in 1 .. n : g[k] \in Seq(S)
    /\ f[0] = <<>> /\ \A k \in 1 .. n : f[k] = f[k - 1] \o g[k]

(* Each begins behind the one before it, and they stay where they were put. *)
Placed(S, n, g, f) ==
    /\ \A k \in 0 .. n : f[k] \in Seq(S)
    /\ \A k \in 1 .. n : Len(f[k]) = Len(f[k - 1]) + Len(g[k])
    /\ \A k \in 1 .. n : \A i \in 1 .. Len(g[k]) :
          /\ Len(f[k - 1]) + i \in 1 .. Len(f[n])
          /\ f[n][Len(f[k - 1]) + i] = g[k][i]

(* Sequences that are joined are found again in the result.                *)
LEMMA JoinPlaces ==
    ASSUME NEW S, NEW n, NEW g, NEW f, Joined(S, n, g, f)
    PROVE  Placed(S, n, g, f)
<1>0. n \in Nat /\ \A k \in 1 .. n : g[k] \in Seq(S)
  BY DEF Joined
<1>1. f[0] = <<>> /\ \A k \in 1 .. n : f[k] = f[k - 1] \o g[k]
  BY DEF Joined
<1> USE <1>0, <1>1
<1>2. ASSUME NEW k \in 0 .. n PROVE f[k] \in Seq(S)
  <2> DEFINE wrong == {m \in 0 .. n : f[m] \notin Seq(S)}
  <2> SUFFICES ASSUME wrong # {} PROVE FALSE
    OBVIOUS
  <2>1. PICK m \in wrong : \A l \in wrong : m <= l
    <3>1. wrong \subseteq Nat
      OBVIOUS
    <3> HIDE DEF wrong
    <3> QED BY <3>1, HasLeast
  <2>2. m # 0
    BY <2>1, EmptySeq
  <2>3. m \in 1 .. n /\ m - 1 \in 0 .. n /\ ~(m <= m - 1)
    BY <2>1, <2>2
  <2>4. f[m - 1] \in Seq(S) /\ g[m] \in Seq(S)
    BY <2>1, <2>3
  <2>5. f[m] \in Seq(S)
    BY <2>4, <2>3, ConcatProperties
  <2> QED BY <2>5, <2>1
<1>4. ASSUME NEW k \in 1 .. n
      PROVE  /\ Len(f[k]) = Len(f[k - 1]) + Len(g[k])
             /\ Len(f[k]) \in Nat /\ Len(f[k - 1]) \in Nat /\ Len(g[k]) \in Nat
             /\ \A i \in 1 .. Len(f[k - 1]) : f[k][i] = f[k - 1][i]
             /\ \A i \in 1 .. Len(g[k]) : f[k][Len(f[k - 1]) + i] = g[k][i]
  <2>0. k - 1 \in 0 .. n
    OBVIOUS
  <2>1. f[k - 1] \in Seq(S) /\ g[k] \in Seq(S) /\ f[k] = f[k - 1] \o g[k]
    BY <1>2, <2>0
  <2> DEFINE s == f[k - 1]
             t == g[k]
  <2>2. s \in Seq(S) /\ t \in Seq(S) /\ f[k] = s \o t
    BY <2>1
  <2> HIDE DEF s, t
  <2>3. /\ Len(f[k]) = Len(s) + Len(t)
        /\ Len(f[k]) \in Nat /\ Len(s) \in Nat /\ Len(t) \in Nat
        /\ \A i \in 1 .. Len(s) : f[k][i] = s[i]
        /\ \A i \in 1 .. Len(t) : f[k][Len(s) + i] = t[i]
    BY <2>2, ConcatPlaces
  <2> QED BY <2>3 DEF s, t
<1>5. ASSUME NEW k \in 1 .. n, NEW i \in 1 .. Len(g[k])
      PROVE  /\ Len(f[k - 1]) + i \in 1 .. Len(f[n])
             /\ f[n][Len(f[k - 1]) + i] = g[k][i]
  <2> DEFINE at == Len(f[k - 1]) + i
             Right(m) == at \in 1 .. Len(f[m]) /\ f[m][at] = g[k][i]
             wrong == {m \in k .. n : ~Right(m)}
  <2>1. Right(k)
    <3>1. /\ Len(f[k]) = Len(f[k - 1]) + Len(g[k])
          /\ Len(f[k - 1]) \in Nat /\ Len(g[k]) \in Nat
          /\ f[k][Len(f[k - 1]) + i] = g[k][i]
      BY <1>4
    <3>2. at \in 1 .. Len(f[k])
      BY <3>1, PlaceInSum, Zenon
    <3> QED BY <3>1, <3>2
  <2>2. wrong = {}
    <3> SUFFICES ASSUME wrong # {} PROVE FALSE
      OBVIOUS
    <3>1. PICK m \in wrong : \A l \in wrong : m <= l
      <4> HIDE DEF Right
      <4>1. wrong \subseteq Nat
        OBVIOUS
      <4> HIDE DEF wrong
      <4> QED BY <4>1, HasLeast
    <3>2. m # k
      BY <3>1, <2>1
    <3>3. m \in 1 .. n /\ m - 1 \in k .. n /\ ~(m <= m - 1)
      <4>1. m \in k .. n
        OBVIOUS
      <4> HIDE DEF wrong
      <4> QED BY <4>1, <3>2
    <3>4. Right(m - 1)
      <4> HIDE DEF Right
      <4> QED BY <3>1, <3>3
    <3>5. Right(m)
      <4>1. g[m] \in Seq(S)
        BY <3>3
      <4>2. Len(g[m]) \in Nat
        BY <4>1, LenProperties
      <4>3. /\ Len(f[m]) = Len(f[m - 1]) + Len(g[m]) /\ Len(f[m - 1]) \in Nat
            /\ \A l \in 1 .. Len(f[m - 1]) : f[m][l] = f[m - 1][l]
        BY <3>3, <1>4
      <4>4. at \in 1 .. Len(f[m - 1]) /\ f[m - 1][at] = g[k][i]
        BY <3>4
      <4>5. at \in 1 .. Len(f[m]) /\ f[m][at] = g[k][i]
        <5> HIDE DEF at
        <5>1. at \in 1 .. Len(f[m])
          BY <4>2, <4>3, <4>4, PlaceBefore, Zenon
        <5>2. f[m][at] = f[m - 1][at]
          BY <4>3, <4>4
        <5> QED BY <5>1, <5>2, <4>4
      <4> QED BY <4>5
    <3> QED BY <3>5, <3>1
  <2>3. n \in k .. n
    OBVIOUS
  <2>4. Right(n)
    <3> HIDE DEF Right
    <3> QED BY <2>2, <2>3
  <2> QED BY <2>4
<1> QED BY <1>2, <1>4, <1>5 DEF Placed

(* What is sent of a section, token by token.                              *)
LEMMA SectionTokens ==
    ASSUME file \in Seq(Tokens), NEW kind \in {"var", "file"}
    PROVE  /\ Section(kind) \in Seq(Tokens)
           /\ Section(kind)[1] = "nl" /\ Section(kind)[2] = "bd"
           /\ kind = "var" =>
                 /\ Len(Section(kind)) = 5 /\ Section(kind)[3] = "dv"
                 /\ Section(kind)[4] = "hend" /\ Section(kind)[5] = "v"
           /\ kind = "file" =>
                 /\ Len(Section(kind)) = 4 + Len(file)
                 /\ Section(kind)[3] = "df" /\ Section(kind)[4] = "hend"
                 /\ \A i \in 1 .. Len(file) : Section(kind)[4 + i] = file[i]
<1>1. CASE kind = "var"
  <2>1. Section(kind) = <<"nl", "bd", "dv", "hend", "v">>
    BY <1>1 DEF Section
  <2>2. <<"nl", "bd", "dv", "hend", "v">> \in Seq(Tokens)
    BY DEF Tokens
  <2> QED BY <2>1, <2>2, <1>1
<1>2. CASE kind = "file"
  <2> DEFINE s == <<"nl", "bd", "df", "hend">>
  <2>1. Section(kind) = s \o file
    BY <1>2 DEF Section
  <2>0. s \in Seq(Tokens)
    BY DEF Tokens
  <2>2. /\ s \in Seq(Tokens) /\ Len(s) = 4 /\ s[1] = "nl" /\ s[2] = "bd"
        /\ s[3] = "df" /\ s[4] = "hend"
    BY <2>0
  <2> HIDE DEF s
  <2>7. s \in Seq(Tokens) /\ file \in Seq(Tokens)
    BY <2>0
  <2>3. s \o file \in Seq(Tokens) /\ Len(s \o file) = Len(s) + Len(file)
    BY <2>7, ConcatPlaces
  <2>5. \A i \in 1 .. Len(s) : (s \o file)[i] = s[i]
    BY <2>7, ConcatPlaces
  <2>6. \A i \in 1 .. Len(file) : (s \o file)[Len(s) + i] = file[i]
    BY <2>7, ConcatPlaces
  <2>4. 1 \in 1 .. 4 /\ 2 \in 1 .. 4 /\ 3 \in 1 .. 4 /\ 4 \in 1 .. 4
    OBVIOUS
  <2> QED BY <2>1, <2>2, <2>3, <2>4, <2>5, <2>6, <1>2
<1> QED BY <1>1, <1>2

(* The body of a post that is taken apart has a layout.                    *)
LEMMA BodyLayout ==
    ASSUME post \in Seq({"var", "file"}), post # <<>>,
           file \in Seq(Data), body = Body
    PROVE  body \in Seq(Tokens) /\ \E P : Layout(P)
<1> DEFINE n == Len(post)
           end == <<"nl", "bd", "end">>
<1>1. n \in Nat /\ n # 0 /\ \A k \in 1 .. n : post[k] \in {"var", "file"}
  BY LenProperties, EmptySeq
<1>2. file \in Seq(Tokens) /\ Len(file) \in Nat
  <2>1. Data \subseteq Tokens
    BY DEF Tokens
  <2> QED BY <2>1, LenProperties, SeqMonotonic
<1>3. post # <<"raw">>
  <2>1. post = <<"raw">> => n = 1 /\ post[1] = "raw"
    OBVIOUS
  <2>2. n = 1 => post[1] \in {"var", "file"}
    BY <1>1
  <2> QED BY <2>1, <2>2
(* The sections, and what they are joined to.                              *)
<1>6. PICK g, f : /\ \A k \in 1 .. n : g[k] = Section(post[k])
                  /\ \A k \in 1 .. n : g[k] \in Seq(Tokens)
                  /\ f[0] = <<>> /\ \A k \in 1 .. n : f[k] = f[k - 1] \o g[k]
                  /\ Body = Tail(f[n] \o end)
  <2> DEFINE h == [k \in 1 .. n |-> Section(post[k])]
             Solves(e) == e = [k \in 0 .. n |-> IF k = 0 THEN <<>>
                                                ELSE e[k - 1] \o Section(post[k])]
             d == CHOOSE e : Solves(e)
  <2>1. \A k \in 1 .. n : h[k] = Section(post[k]) /\ h[k] \in Seq(Tokens)
    BY <1>1, <1>2, SectionTokens
  <2>2. Body = Tail(d[n] \o end)
    BY <1>3 DEF Body, Direct
  <2>3. Solves(d)
    <3>1. h \in [1 .. n -> Seq(Tokens)]
      BY <2>1
    <3>2. PICK e : e = [k \in 0 .. n |-> IF k = 0 THEN <<>> ELSE e[k - 1] \o h[k]]
      <4> HIDE DEF h, n
      <4> QED BY <3>1, <1>1, JoinExists
    <3>3. Solves(e)
      <4>1. \A k \in 0 .. n : k # 0 => h[k] = Section(post[k])
        BY <1>1
      <4> HIDE DEF h, n
      <4>2. [k \in 0 .. n |-> IF k = 0 THEN <<>> ELSE e[k - 1] \o h[k]]
            = [k \in 0 .. n |-> IF k = 0 THEN <<>> ELSE e[k - 1] \o Section(post[k])]
        BY <4>1
      <4> QED BY <4>2, <3>2
    <3> HIDE DEF Solves
    <3> QED BY <3>3
  <2>4. d[0] = <<>> /\ \A k \in 1 .. n : d[k] = d[k - 1] \o h[k]
    <3>1. \A k \in 0 .. n : d[k] = IF k = 0 THEN <<>>
                                    ELSE d[k - 1] \o Section(post[k])
      <4> HIDE DEF d, n
      <4> QED BY <2>3
    <3>2. 0 \in 0 .. n /\ \A k \in 1 .. n : k \in 0 .. n /\ k # 0
      BY <1>1
    <3> HIDE DEF d, n, h
    <3> QED BY <3>1, <3>2, <2>1
  <2> HIDE DEF d, n, h, Solves, end
  <2> QED BY <2>1, <2>2, <2>4
<1>4. Body = Tail(f[n] \o end)
  BY <1>6
<1>5. \A k \in 1 .. n : g[k] = Section(post[k]) /\ g[k] \in Seq(Tokens)
  BY <1>6
<1>7. f[0] = <<>> /\ \A k \in 1 .. n : f[k] = f[k - 1] \o g[k]
  BY <1>6
<1> HIDE DEF n
<1>8. /\ \A k \in 0 .. n : f[k] \in Seq(Tokens)
      /\ \A k \in 1 .. n : Len(f[k]) = Len(f[k - 1]) + Len(g[k])
      /\ \A k \in 1 .. n : \A i \in 1 .. Len(g[k]) :
            /\ Len(f[k - 1]) + i \in 1 .. Len(f[n])
            /\ f[n][Len(f[k - 1]) + i] = g[k][i]
  <2>1. Joined(Tokens, n, g, f)
    BY <1>1, <1>5, <1>7 DEF Joined, n
  <2>2. Placed(Tokens, n, g, f)
    BY <2>1, JoinPlaces
  <2> QED BY <2>2 DEF Placed
<1> DEFINE P == [k \in 0 .. n |-> Len(f[k])]
           full == f[n] \o end
<1>9. /\ P \in [0 .. n -> Nat] /\ P[0] = 0
      /\ \A k \in 0 .. n : P[k] = Len(f[k])
  <2>1. \A k \in 0 .. n : Len(f[k]) \in Nat
    BY <1>8, LenProperties
  <2>2. 0 \in 0 .. n /\ Len(f[0]) = 0
    BY <1>1, <1>7
  <2> QED BY <2>1, <2>2
<1>10. /\ full \in Seq(Tokens) /\ Len(full) = P[n] + 3
       /\ \A i \in 1 .. P[n] : full[i] = f[n][i]
       /\ full[P[n] + 1] = "nl" /\ full[P[n] + 2] = "bd" /\ full[P[n] + 3] = "end"
  <2>1. n \in 0 .. n
    BY <1>1
  <2>2. f[n] \in Seq(Tokens) /\ P[n] = Len(f[n])
    BY <2>1, <1>8
  <2>0. end \in Seq(Tokens)
    BY DEF Tokens
  <2>3. /\ end \in Seq(Tokens) /\ Len(end) = 3
        /\ end[1] = "nl" /\ end[2] = "bd" /\ end[3] = "end"
    BY <2>0
  <2>4. 1 \in 1 .. 3 /\ 2 \in 1 .. 3 /\ 3 \in 1 .. 3
    OBVIOUS
  <2> HIDE DEF P, end
  <2> DEFINE a == f[n]
  <2>6. a \in Seq(Tokens) /\ end \in Seq(Tokens) /\ full = a \o end
    BY <2>2, <2>3
  <2> HIDE DEF full, a
  <2>7. full \in Seq(Tokens) /\ Len(full) = Len(a) + Len(end)
    BY <2>6, ConcatPlaces
  <2>8. \A i \in 1 .. Len(a) : full[i] = a[i]
    BY <2>6, ConcatPlaces
  <2>9. \A i \in 1 .. Len(end) : full[Len(a) + i] = end[i]
    BY <2>6, ConcatPlaces
  <2> QED BY <2>2, <2>3, <2>4, <2>7, <2>8, <2>9 DEF a
<1>11. /\ body \in Seq(Tokens) /\ Len(body) = P[n] + 2
       /\ \A i \in 1 .. P[n] + 2 : body[i] = full[i + 1]
  <2>1. P[n] \in Nat
    BY <1>1, <1>9
  <2>2. full # <<>>
    BY <2>1, <1>10
  <2> HIDE DEF full, P
  <2>3. body = Tail(full)
    BY <1>4 DEF full
  <2>4. full \in Seq(Tokens) /\ Len(full) = P[n] + 3
    BY <1>10
  <2> DEFINE q == P[n]
  <2>5. q \in Nat /\ full # <<>> /\ full \in Seq(Tokens) /\ Len(full) = q + 3
    BY <2>1, <2>2, <2>4
  <2> HIDE DEF q
  <2>6. /\ Tail(full) \in Seq(Tokens) /\ Len(Tail(full)) = q + 2
        /\ \A i \in 1 .. q + 2 : Tail(full)[i] = full[i + 1]
    BY <2>5, HeadTailProperties
  <2> QED BY <2>3, <2>6 DEF q
<1> HIDE DEF P, full, end
(* The tokens of section k.                                                *)
<1>12. ASSUME NEW k \in 1 .. n
       PROVE  /\ P[k - 1] \in Nat /\ P[k] \in Nat
              /\ P[k] = P[k - 1] + Len(g[k])
              /\ \A i \in 1 .. Len(g[k]) : P[k - 1] + i \in 2 .. P[n]
                    => body[(P[k - 1] + i) - 1] = g[k][i]
              /\ \A i \in 1 .. Len(g[k]) : P[k - 1] + i \in 1 .. P[n]
  <2>1. k \in 0 .. n /\ k - 1 \in 0 .. n /\ n \in 0 .. n
    BY <1>1
  <2>2. P[k] = Len(f[k]) /\ P[k - 1] = Len(f[k - 1]) /\ P[n] = Len(f[n])
    BY <2>1, <1>9
  <2>3. P[k - 1] \in Nat /\ P[k] \in Nat /\ P[n] \in Nat
    BY <2>1, <1>9
  <2>4. ASSUME NEW i \in 1 .. Len(g[k])
        PROVE  P[k - 1] + i \in 1 .. P[n] /\ f[n][P[k - 1] + i] = g[k][i]
    BY <2>2, <1>8
  <2>5. ASSUME NEW i \in 1 .. Len(g[k]), P[k - 1] + i \in 2 .. P[n]
        PROVE  body[(P[k - 1] + i) - 1] = g[k][i]
    <3> DEFINE a == P[k - 1] + i
    <3>1. a \in 1 .. P[n] /\ f[n][a] = g[k][i] /\ a \in 2 .. P[n]
      BY <2>4, <2>5
    <3> HIDE DEF a
    <3>2. a - 1 \in 1 .. P[n] + 2 /\ (a - 1) + 1 = a
      <4> DEFINE q == P[n]
      <4>1. q \in Nat /\ a \in 1 .. q /\ a \in 2 .. q
        BY <3>1, <2>3
      <4> HIDE DEF q
      <4>2. a - 1 \in 1 .. q + 2 /\ (a - 1) + 1 = a
        BY <4>1
      <4> QED BY <4>2 DEF q
    <3>3. body[a - 1] = full[a]
      BY <3>2, <1>11
    <3> QED BY <3>1, <3>3, <1>10 DEF a
  <2> QED BY <2>2, <2>3, <2>4, <2>5, <1>8
<1>13. ASSUME NEW k \in 1 .. n
       PROVE  /\ Len(g[k]) = IF post[k] = "var" THEN 5 ELSE 4 + Len(file)
              /\ g[k][1] = "nl" /\ g[k][2] = "bd" /\ g[k][4] = "hend"
              /\ post[k] = "var" => g[k][3] = "dv" /\ g[k][5] = "v"
              /\ post[k] = "file" =>
                    g[k][3] = "df" /\ \A i \in 1 .. Len(file) : g[k][4 + i] = file[i]
  <2>1. g[k] = Section(post[k]) /\ post[k] \in {"var", "file"}
    BY <1>1, <1>5
  <2> QED BY <2>1, <1>2, SectionTokens
<1>14. ASSUME NEW k \in 1 .. n, NEW i \in 1 .. Len(g[k]), i >= 2
       PROVE  body[P[k - 1] + (i - 1)] = g[k][i]
  <2>1. P[k - 1] + i \in 1 .. P[n] /\ P[k - 1] \in Nat
    BY <1>12
  <2>2. P[k - 1] + i \in 2 .. P[n] /\ (P[k - 1] + i) - 1 = P[k - 1] + (i - 1)
    BY <2>1, <1>14
  <2> QED BY <2>2, <1>12
<1>15. ASSUME NEW k \in 1 .. n
       PROVE  body[P[k]] = "nl"
  <2>1. P[k] \in Nat /\ P[k] # 0
    <3>1. P[k] \in Nat /\ P[k - 1] \in Nat /\ P[k] = P[k - 1] + Len(g[k])
      BY <1>12
    <3>2. Len(g[k]) \in Nat /\ Len(g[k]) # 0
      BY <1>13, <1>2
    <3> QED BY <3>1, <3>2
  <2>2. CASE k = n
    <3>1. P[n] \in 1 .. P[n] + 2
      BY <2>1, <2>2
    <3> QED BY <3>1, <2>2, <1>10, <1>11
  <2>3. CASE k # n
    <3>1. k + 1 \in 1 .. n /\ (k + 1) - 1 = k
      BY <2>3, <1>1
    <3>2. 1 \in 1 .. Len(g[k + 1])
      BY <3>1, <1>13, <1>2
    <3>3. P[k] + 1 \in 1 .. P[n]
      BY <3>1, <3>2, <1>12
    <3>4. P[k] + 1 \in 2 .. P[n] /\ (P[k] + 1) - 1 = P[k]
      BY <3>3, <2>1
    <3>5. body[P[k]] = g[k + 1][1]
      <4>1. /\ P[(k + 1) - 1] + 1 \in 2 .. P[n]
            /\ \A i \in 1 .. Len(g[k + 1]) : P[(k + 1) - 1] + i \in 2 .. P[n]
                  => body[(P[(k + 1) - 1] + i) - 1] = g[k + 1][i]
        BY <3>1, <3>4, <1>12
      <4>2. body[(P[(k + 1) - 1] + 1) - 1] = g[k + 1][1]
        BY <3>2, <4>1
      <4> QED BY <4>2, <3>1, <3>4
    <3> QED BY <3>5, <3>1, <1>13
  <2> QED BY <2>2, <2>3
<1>16. Layout(P)
  <2>1. ASSUME NEW k \in 1 .. n, post[k] = "var"
        PROVE  /\ P[k] = P[k - 1] + 5
               /\ body[P[k - 1] + 1] = "bd" /\ body[P[k - 1] + 2] = "dv"
               /\ body[P[k - 1] + 3] = "hend" /\ body[P[k - 1] + 4] = "v"
    <3>1. Len(g[k]) = 5
      BY <2>1, <1>13
    <3>2. 2 \in 1 .. 5 /\ 3 \in 1 .. 5 /\ 4 \in 1 .. 5 /\ 5 \in 1 .. 5
      OBVIOUS
    <3>3. \A i \in 1 .. 5 : i >= 2 => body[P[k - 1] + (i - 1)] = g[k][i]
      BY <3>1, <1>14
    <3>4. body[P[k - 1] + (2 - 1)] = g[k][2] /\ body[P[k - 1] + (3 - 1)] = g[k][3]
      BY <3>2, <3>3
    <3>5. body[P[k - 1] + (4 - 1)] = g[k][4] /\ body[P[k - 1] + (5 - 1)] = g[k][5]
      BY <3>2, <3>3
    <3>6. P[k - 1] \in Nat /\ P[k] = P[k - 1] + Len(g[k])
      BY <1>12
    <3>7. /\ body[P[k - 1] + 1] = g[k][2] /\ body[P[k - 1] + 2] = g[k][3]
          /\ body[P[k - 1] + 3] = g[k][4] /\ body[P[k - 1] + 4] = g[k][5]
      BY <3>4, <3>5, <3>6
    <3> QED BY <3>1, <3>6, <3>7, <2>1, <1>13
  <2>2. ASSUME NEW k \in 1 .. n, post[k] = "file"
        PROVE  /\ P[k] = P[k - 1] + 4 + Len(file)
               /\ body[P[k - 1] + 1] = "bd" /\ body[P[k - 1] + 2] = "df"
               /\ body[P[k - 1] + 3] = "hend"
               /\ \A i \in 1 .. Len(file) : body[P[k - 1] + 3 + i] = file[i]
    <3>1. Len(g[k]) = 4 + Len(file)
      BY <2>2, <1>13
    <3>2. /\ 2 \in 1 .. 4 + Len(file) /\ 3 \in 1 .. 4 + Len(file)
          /\ 4 \in 1 .. 4 + Len(file)
      BY <1>2
    <3>3. \A i \in 1 .. 4 + Len(file) : i >= 2 => body[P[k - 1] + (i - 1)] = g[k][i]
      BY <3>1, <1>14
    <3>4. /\ body[P[k - 1] + (2 - 1)] = g[k][2] /\ body[P[k - 1] + (3 - 1)] = g[k][3]
          /\ body[P[k - 1] + (4 - 1)] = g[k][4]
      BY <3>2, <3>3
    <3>5. P[k - 1] \in Nat
      BY <1>12
    <3>6. ASSUME NEW i \in 1 .. Len(file) PROVE body[P[k - 1] + 3 + i] = file[i]
      <4> DEFINE a == P[k - 1]
                 b == Len(file)
      <4>0. a \in Nat /\ b \in Nat /\ i \in 1 .. b
        BY <1>2, <3>5
      <4> HIDE DEF a, b
      <4>3. 4 + i \in 1 .. 4 + b /\ 4 + i >= 2 /\ a + ((4 + i) - 1) = a + 3 + i
        BY <4>0
      <4>1. /\ 4 + i \in 1 .. 4 + Len(file) /\ 4 + i >= 2
            /\ P[k - 1] + ((4 + i) - 1) = P[k - 1] + 3 + i
        BY <4>3 DEF a, b
      <4>2. body[P[k - 1] + 3 + i] = g[k][4 + i]
        BY <4>1, <3>3
      <4> QED BY <4>2, <2>2, <1>13
    <3>7. P[k] = P[k - 1] + 4 + Len(file)
      <4> DEFINE a == P[k - 1]
                 b == Len(file)
      <4>0. a \in Nat /\ b \in Nat /\ P[k] = a + (4 + b)
        BY <3>1, <3>5, <1>2, <1>12
      <4> HIDE DEF a, b
      <4>1. P[k] = a + 4 + b
        BY <4>0
      <4> QED BY <4>1 DEF a, b
    <3> QED BY <3>4, <3>6, <3>7, <2>2, <1>13
  <2>3. body[P[n] + 1] = "bd" /\ body[P[n] + 2] = "end"
    <3>1. P[n] \in Nat
      BY <1>1, <1>9
    <3>2. /\ P[n] + 1 \in 1 .. P[n] + 2 /\ P[n] + 2 \in 1 .. P[n] + 2
          /\ (P[n] + 1) + 1 = P[n] + 2 /\ (P[n] + 2) + 1 = P[n] + 3
      BY <3>1
    <3> QED BY <3>2, <1>10, <1>11
  <2> HIDE DEF P
  <2> QED BY <2>1, <2>2, <2>3, <1>9, <1>11, <1>15 DEF Layout, n
<1> QED BY <1>11, <1>16

-----------------------------------------------------------------------------
(* The buffer.                                                             *)

(* The least of a set of natural numbers.                                  *)
LEMMA LeastIn ==
    ASSUME NEW T, T \subseteq Nat, T # {}
    PROVE  Least(T) \in T /\ \A i \in T : Least(T) <= i
<1>1. \E x \in T : \A y \in T : x <= y
  BY HasLeast
<1> QED BY <1>1 DEF Least

(* A number of the set that none is below is the least.                    *)
LEMMA LeastIs ==
    ASSUME NEW T, T \subseteq Nat, NEW x \in T, \A y \in T : x <= y
    PROVE  Least(T) = x
<1>1. Least(T) \in T /\ \A i \in T : Least(T) <= i
  BY LeastIn
<1>2. Least(T) <= x /\ x <= Least(T)
  BY <1>1
<1>3. Least(T) \in Nat /\ x \in Nat
  BY <1>1
<1> QED BY <1>2, <1>3

(* What is found is in the buffer.                                         *)
LEMMA FoundInBuffer ==
    ASSUME NEW tokens, NEW from \in Nat, from >= 1
    PROVE  /\ Found(tokens, from) \subseteq 1 .. Size
           /\ Found(tokens, from) \subseteq Nat
           /\ \A i \in Found(tokens, from) : i >= from
  BY SizesAssumption DEF Found

(* A part of the buffer.                                                   *)
LEMMA PartOfBuffer ==
    ASSUME buffer \in [1 .. Size -> Tokens],
           NEW a \in Nat, NEW b \in Nat, a >= 1, b <= Size, a <= b + 1
    PROVE  /\ SubSeq(buffer, a, b) \in Seq(Tokens)
           /\ Len(SubSeq(buffer, a, b)) = b - a + 1
           /\ \A i \in 1 .. b - a + 1 : SubSeq(buffer, a, b)[i] = buffer[a + i - 1]
<1>1. a \in Int /\ b \in Int /\ \A i \in a .. b : buffer[i] \in Tokens
  BY SizesAssumption
<1>2. /\ SubSeq(buffer, a, b) \in Seq(Tokens)
      /\ Len(SubSeq(buffer, a, b)) = IF a <= b THEN b - a + 1 ELSE 0
      /\ \A i \in 1 .. b - a + 1 : SubSeq(buffer, a, b)[i] = buffer[a + i - 1]
  BY <1>1, SubSeqProperties
<1> QED BY <1>2

(* The header of the request and the beginning of the body.                *)
LEMMA PieceTokens ==
    ASSUME body \in Seq(Tokens), NEW n \in 0 .. Len(body)
    PROVE  \A i \in 1 .. HeaderLen + n :
              /\ Piece(n)[i] \in Tokens
              /\ i <= HeaderLen => Piece(n)[i] \in {"h", "hend"}
              /\ i > HeaderLen => Piece(n)[i] = body[i - HeaderLen]
<1> DEFINE a == [i \in 1 .. HeaderLen |-> IF i < HeaderLen THEN "h" ELSE "hend"]
           b == SubSeq(body, 1, n)
<1>1. HeaderLen \in Nat /\ n \in Nat /\ Len(body) \in Nat
  BY SizesAssumption, LenProperties
<1>2. a \in Seq(Tokens) /\ Len(a) = HeaderLen /\ \A i \in 1 .. HeaderLen : a[i] \in {"h", "hend"}
  <2>1. "h" \in Tokens /\ "hend" \in Tokens
    BY DEF Tokens
  <2>2. a \in [1 .. HeaderLen -> Tokens]
    BY <2>1
  <2> QED BY <2>2, <1>1
<1>3. /\ b \in Seq(Tokens) /\ Len(b) = n
      /\ \A i \in 1 .. n : b[i] = body[i] /\ b[i] \in Tokens
  <2>1. \A i \in 1 .. n : body[i] \in Tokens
    BY <1>1, ElementOfSeq
  <2>2. /\ b \in Seq(Tokens) /\ Len(b) = IF 1 <= n THEN n - 1 + 1 ELSE 0
        /\ \A i \in 1 .. n - 1 + 1 : b[i] = body[1 + i - 1]
    <3>1. 1 \in Int /\ n \in Int
      OBVIOUS
    <3> QED BY <2>1, <3>1, SubSeqProperties
  <2> HIDE DEF b
  <2> QED BY <2>1, <2>2, <1>1
<1>4. Piece(n) = a \o b
  BY DEF Piece
<1> HIDE DEF a, b
<1>5. /\ \A i \in 1 .. Len(a) + Len(b) :
            (a \o b)[i] = IF i <= Len(a) THEN a[i] ELSE b[i - Len(a)]
  BY <1>2, <1>3, ConcatProperties
<1>6. ASSUME NEW i \in 1 .. HeaderLen + n
      PROVE  /\ Piece(n)[i] \in Tokens
             /\ i <= HeaderLen => Piece(n)[i] \in {"h", "hend"}
             /\ i > HeaderLen => Piece(n)[i] = body[i - HeaderLen]
  <2>1. Piece(n)[i] = IF i <= HeaderLen THEN a[i] ELSE b[i - HeaderLen]
    BY <1>2, <1>3, <1>4, <1>5
  <2>2. CASE i <= HeaderLen
    <3>1. i \in 1 .. HeaderLen
      BY <1>1, <2>2
    <3> QED BY <2>1, <2>2, <3>1, <1>1, <1>2 DEF Tokens
  <2>3. CASE i > HeaderLen
    <3>1. i - HeaderLen \in 1 .. n /\ ~(i <= HeaderLen)
      BY <1>1, <2>3
    <3> QED BY <2>1, <3>1, <1>3
  <2> QED BY <2>2, <2>3, <1>1
<1> QED BY <1>6

-----------------------------------------------------------------------------
(* Types.                                                                  *)

Upload == [data : Seq(Tokens), last : BOOLEAN]

(* The types, with what they need: data is passed on only of a file that   *)
(* was begun, and result tells how it ended.                               *)
TypeInv ==
    /\ TypeOK
    /\ body \in Seq(Tokens)
    /\ pchFilename \/ pc = "direct" => uploads # <<>>
    /\ pc # "over" => result = "open"

(* Passing on data changes the last of the uploads.                        *)
LEMMA PassedProperties ==
    ASSUME uploads \in Seq(Upload), uploads # <<>>,
           NEW data \in Seq(Tokens), NEW last \in BOOLEAN, Passed(data, last)
    PROVE  /\ uploads' \in Seq(Upload) /\ uploads' # <<>>
           /\ Len(uploads) \in Nat /\ Len(uploads) >= 1
           /\ Len(uploads') = Len(uploads)
           /\ uploads[Len(uploads)].data \in Seq(Tokens)
           /\ uploads'[Len(uploads)] =
                 [data |-> uploads[Len(uploads)].data \o data, last |-> last]
           /\ \A i \in 1 .. Len(uploads) - 1 : uploads'[i] = uploads[i]
<1> DEFINE n == Len(uploads)
           e == [data |-> uploads[n].data \o data, last |-> last]
<1>1. n \in Nat /\ n >= 1
  BY EmptySeq
<1>2. n \in 1 .. n
  BY <1>1
<1>3. uploads[n] \in Upload
  BY <1>2, ElementOfSeq
<1>4. uploads[n].data \in Seq(Tokens)
  BY <1>3 DEF Upload
<1>5. e \in Upload
  <2>1. uploads[n].data \o data \in Seq(Tokens)
    BY <1>4, ConcatProperties
  <2> QED BY <2>1 DEF Upload
<1>6. uploads' = [uploads EXCEPT ![n] = e]
  BY DEF Passed
<1>7. \A i \in 1 .. n - 1 : i \in 1 .. n /\ i # n
  BY <1>1
<1> HIDE DEF n, e
<1>9. n = Len(uploads)
  BY DEF n
<1>8. /\ uploads' \in Seq(Upload) /\ Len(uploads') = n
      /\ \A i \in 1 .. n : uploads'[i] = IF i = n THEN e ELSE uploads[i]
  BY <1>2, <1>5, <1>6, <1>9, ExceptSeq
<1>10. uploads' # <<>>
  BY <1>8, <1>1, EmptySeq
<1> QED BY <1>1, <1>2, <1>4, <1>7, <1>8, <1>10 DEF n, e

(* Moving what is in the buffer leaves tokens in it.                       *)
LEMMA MovedTokens ==
    ASSUME buffer \in [1 .. Size -> Tokens], writeLocation \in 0 .. Size,
           NEW by \in Nat
    PROVE  /\ Shifted(by) \in [1 .. Size -> Tokens]
           /\ Cleared(by) \in [1 .. Size -> Tokens]
<1>1. ASSUME NEW i \in 1 .. Size
      PROVE  /\ (IF i + by <= writeLocation THEN buffer[i + by] ELSE buffer[i]) \in Tokens
             /\ (IF i + by <= writeLocation THEN buffer[i + by] ELSE "0") \in Tokens
  <2>1. i + by <= writeLocation => i + by \in 1 .. Size
    BY SizesAssumption
  <2>2. "0" \in Tokens
    BY DEF Tokens
  <2> QED BY <2>1, <2>2
<1> QED BY <1>1 DEF Shifted, Cleared

(* What is received goes into the room that is left.                       *)
LEMMA FilledTokens ==
    ASSUME TypeInv, NEW n \in 1 .. Size - writeLocation, n <= Len(body) - received
    PROVE  /\ Filled(n) \in [1 .. Size -> Tokens]
           /\ received + n \in 0 .. Len(body) /\ writeLocation + n \in 1 .. Size
<1>1. /\ buffer \in [1 .. Size -> Tokens] /\ writeLocation \in 0 .. Size
      /\ received \in 0 .. Len(body) /\ body \in Seq(Tokens) /\ Len(body) \in Nat
      /\ Size \in Nat
  BY SizesAssumption, LenProperties DEF TypeInv, TypeOK
<1>2. ASSUME NEW i \in 1 .. Size
      PROVE  (IF i \in writeLocation + 1 .. writeLocation + n
              THEN body[received + i - writeLocation] ELSE buffer[i]) \in Tokens
  <2>1. CASE i \in writeLocation + 1 .. writeLocation + n
    <3>1. received + i - writeLocation \in 1 .. Len(body)
      BY <1>1, <2>1
    <3> QED BY <3>1, <2>1, <1>1, ElementOfSeq
  <2>2. CASE i \notin writeLocation + 1 .. writeLocation + n
    BY <2>2, <1>1
  <2> QED BY <2>1, <2>2
<1> QED BY <1>1, <1>2 DEF Filled

(* The first piece.                                                        *)
LEMMA FirstTypes ==
    ASSUME TypeInv, First(start) \/ FirstDirect(start)
    PROVE  TypeInv'
<1>0. PICK n : n = start
  OBVIOUS
<1>10. n \in 0 .. Size - HeaderLen - 1 /\ n <= Len(body)
  BY <1>0 DEF TypeInv, TypeOK
<1>1. n \in Nat /\ n \in 0 .. Len(body) /\ n \in 0 .. Size /\ n <= HeaderLen + n
  BY <1>10, SizesAssumption, LenProperties DEF TypeInv
<1>2. /\ \A i \in 1 .. HeaderLen + n : Piece(n)[i] \in Tokens
      /\ body \in Seq(Tokens)
  BY <1>1, PieceTokens DEF TypeInv
<1>3. "0" \in Tokens /\ HeaderLen \in Nat
  BY SizesAssumption DEF Tokens
<1>6. ASSUME NEW i \in 1 .. Size
      PROVE  Begun(n)[i] \in Tokens
  <2>1. i <= HeaderLen + n => i \in 1 .. HeaderLen + n
    BY <1>1, <1>3
  <2>2. buffer[i] \in Tokens
    BY DEF TypeInv, TypeOK
  <2> QED BY <2>1, <2>2, <1>2, <1>3 DEF Begun
<1>4. CASE First(n)
  <2>1. ASSUME NEW i \in 1 .. Size
        PROVE  (IF i <= n THEN body[i] ELSE Begun(n)[i]) \in Tokens
    <3>1. i <= n => i \in 1 .. Len(body)
      BY <1>1
    <3>2. i <= n => body[i] \in Tokens
      BY <3>1, <1>2, ElementOfSeq
    <3> QED BY <3>2, <1>6
  <2>2. buffer' \in [1 .. Size -> Tokens]
    BY <2>1, <1>4 DEF First
  <2>3. pc' \in {"scan", "read"} /\ result' = "open"
    BY <1>4 DEF First, TypeInv
  <2>4. /\ UNCHANGED <<post, file, body, start, refuses, pchFilename, params, uploads>>
        /\ received' = n /\ writeLocation' = n
    BY <1>4 DEF First, sent
  <2> QED BY <2>2, <2>3, <2>4, <1>1 DEF TypeInv, TypeOK
<1>5. CASE FirstDirect(n)
  <2>2. buffer' \in [1 .. Size -> Tokens]
    <3>1. buffer' = Begun(n)
      BY <1>5 DEF FirstDirect
    <3>2. Begun(n) = [i \in 1 .. Size |-> Begun(n)[i]]
      BY DEF Begun
    <3> QED BY <3>1, <3>2, <1>6
  <2>3. SubSeq(body, 1, n) \in Seq(Tokens)
    <3>1. \A i \in 1 .. n : body[i] \in Tokens
      BY <1>1, <1>2, ElementOfSeq
    <3> QED BY <3>1, <1>1, SubSeqProperties
  <2>4. /\ uploads' \in Seq([data : Seq(Tokens), last : BOOLEAN])
        /\ uploads' # <<>>
    <3> DEFINE u == [data |-> SubSeq(body, 1, n), last |-> FALSE]
    <3>1. u \in [data : Seq(Tokens), last : BOOLEAN] /\ uploads' = <<u>>
      BY <2>3, <1>5 DEF FirstDirect
    <3> HIDE DEF u
    <3> QED BY <3>1
  <2>5. /\ UNCHANGED <<post, file, body, start, refuses, pchFilename, params, result>>
        /\ received' = n /\ writeLocation' = 0 /\ pc' = "direct" /\ pc = "first"
    BY <1>5 DEF FirstDirect, sent
  <2>6. 0 \in 0 .. Size
    BY SizesAssumption
  <2> QED BY <2>2, <2>4, <2>5, <2>6, <1>1 DEF TypeInv, TypeOK
<1> QED BY <1>0, <1>4, <1>5

(* A further piece.                                                        *)
LEMMA ReceiveTypes ==
    ASSUME TypeInv, NEW n \in 1 .. Size - writeLocation, n <= Len(body) - received,
           Receive(n)
    PROVE  TypeInv'
<1>1. /\ Filled(n) \in [1 .. Size -> Tokens]
      /\ received + n \in 0 .. Len(body) /\ writeLocation + n \in 1 .. Size
  BY FilledTokens
<1>2. /\ buffer' = Filled(n) /\ received' = received + n
      /\ writeLocation' = writeLocation + n /\ pc' = "scan" /\ pc = "read"
      /\ UNCHANGED <<post, file, body, start, refuses, pchFilename, params, uploads, result>>
  BY DEF Receive, sent
<1> QED BY <1>1, <1>2 DEF TypeInv, TypeOK

(* A piece of a direct upload: there is always room behind it.             *)
LEMMA ReceiveDirectTypes ==
    ASSUME TypeInv, NEW n \in 1 .. DirectRoom, n <= Len(body) - received,
           ReceiveDirect(n)
    PROVE  TypeInv'
<1>0. Size \in Nat /\ writeLocation \in 0 .. Size
  BY SizesAssumption DEF TypeInv, TypeOK
<1>5. n \in 1 .. Size - writeLocation /\ ~(writeLocation + n = Size)
  BY <1>0 DEF DirectRoom
<1>1. /\ Filled(n) \in [1 .. Size -> Tokens]
      /\ received + n \in 0 .. Len(body) /\ writeLocation + n \in 1 .. Size
  BY <1>5, FilledTokens
<1>2. /\ buffer' = Filled(n) /\ received' = received + n
      /\ writeLocation' = writeLocation + n
      /\ UNCHANGED <<post, file, body, start, refuses, pchFilename, params, uploads,
                     pc, result>>
  BY <1>5 DEF ReceiveDirect, sent
<1> QED BY <1>1, <1>2 DEF TypeInv, TypeOK

(* The end of a direct upload.                                             *)
LEMMA CommitTypes ==
    ASSUME TypeInv, NEW how \in {"stored", "left"}, CommitDirect(how)
    PROVE  TypeInv'
<1>1. SubSeq(buffer, 1, writeLocation) \in Seq(Tokens)
  <2>1. /\ writeLocation \in Nat /\ writeLocation <= Size
        /\ 1 <= writeLocation + 1 /\ 1 \in Nat /\ 1 >= 1
        /\ buffer \in [1 .. Size -> Tokens]
    BY SizesAssumption DEF TypeInv, TypeOK
  <2> QED BY <2>1, PartOfBuffer
<1>2. uploads' \in Seq(Upload) /\ uploads' # <<>>
  <2>1. uploads \in Seq(Upload) /\ uploads # <<>>
    BY DEF TypeInv, TypeOK, CommitDirect, Upload
  <2>2. Passed(SubSeq(buffer, 1, writeLocation), TRUE) /\ TRUE \in BOOLEAN
    BY DEF CommitDirect
  <2> QED BY <1>1, <2>1, <2>2, PassedProperties
<1>3. /\ UNCHANGED <<post, file, body, start, refuses, received, buffer, writeLocation,
                     pchFilename, params>>
      /\ result' = how /\ pc' = "over"
  BY DEF CommitDirect, sent, Finish
<1> QED BY <1>2, <1>3 DEF TypeInv, TypeOK, Upload

(* The next section.                                                       *)
LEMMA NextSectionTypes ==
    ASSUME TypeInv, NEW i \in Nat, i >= 1, pc = "scan", NextSection(i)
    PROVE  /\ buffer' \in [1 .. Size -> Tokens] /\ writeLocation' \in 0 .. Size
           /\ pc' \in {"scan", "over"} /\ result' \in {"open", "done", "crash"}
           /\ pc' # "over" => result' = "open"
<1>1. /\ Size \in Nat /\ writeLocation \in 0 .. Size /\ result = "open"
      /\ buffer \in [1 .. Size -> Tokens]
  BY SizesAssumption DEF TypeInv, TypeOK
<1>2. CASE i - 1 > writeLocation
  BY <1>1, <1>2 DEF NextSection, Crash, Finish
<1>3. CASE ~(i - 1 > writeLocation)
  <2>1. i - 1 \in Nat /\ writeLocation - (i - 1) \in 0 .. Size
    BY <1>1, <1>3
  <2>2. Cleared(i - 1) \in [1 .. Size -> Tokens]
    BY <2>1, <1>1, MovedTokens
  <2>3. /\ buffer' = Cleared(i - 1) /\ writeLocation' = writeLocation - (i - 1)
        /\ \/ result' = "done" /\ pc' = "over"
           \/ pc' = pc /\ result' = result
    BY <1>3 DEF NextSection, Finish
  <2> QED BY <2>1, <2>2, <2>3, <1>1
<1> QED BY <1>2, <1>3

(* The next section, behind the second line break of an end of a header.   *)
LEMMA SplitSectionTypes ==
    ASSUME TypeInv, NEW i \in Nat, i >= 1, pc = "scan", SplitSection(i)
    PROVE  /\ buffer' \in [1 .. Size -> Tokens] /\ writeLocation' \in 0 .. Size
           /\ pc' \in {"scan", "over"} /\ result' \in {"open", "done", "crash"}
           /\ pc' # "over" => result' = "open"
<1>1. /\ Size \in Nat /\ writeLocation \in 0 .. Size /\ result = "open"
      /\ buffer \in [1 .. Size -> Tokens] /\ "nl" \in Tokens
  BY SizesAssumption DEF TypeInv, TypeOK, Tokens
<1>2. CASE i > writeLocation
  BY <1>1, <1>2 DEF SplitSection, Crash, Finish
<1>3. CASE ~(i > writeLocation)
  <2>1. i - 1 \in Nat /\ writeLocation - (i - 1) \in 0 .. Size
    BY <1>1, <1>3
  <2>2. Cleared(i - 1) \in [1 .. Size -> Tokens]
    BY <2>1, <1>1, MovedTokens
  <2>3. [Cleared(i - 1) EXCEPT ![1] = "nl"] \in [1 .. Size -> Tokens]
    BY <2>2, <1>1
  <2>4. /\ buffer' = [Cleared(i - 1) EXCEPT ![1] = "nl"]
        /\ writeLocation' = writeLocation - (i - 1)
        /\ \/ result' = "done" /\ pc' = "over"
           \/ pc' = pc /\ result' = result
    BY <1>3 DEF SplitSection, Finish
  <2> QED BY <2>1, <2>3, <2>4, <1>1
<1> QED BY <1>2, <1>3

(* The end of a file.                                                      *)
LEMMA LastChunkTypes ==
    ASSUME TypeInv, LastChunk
    PROVE  TypeInv'
<1> DEFINE b == Least(Boundaries)
           data == SubSeq(buffer, 1, b - 1)
<1>1. b \in 1 .. Size - 1 /\ pc = "scan"
  <2>1. Boundaries \subseteq Nat /\ Boundaries # {} /\ Boundaries \subseteq 1 .. Size - 1
    BY SizesAssumption DEF Boundaries, LastChunk, Boundary
  <2> QED BY <2>1, LeastIn DEF LastChunk, Boundary
<1>2. data \in Seq(Tokens)
  <2>1. /\ b - 1 \in Nat /\ b - 1 <= Size /\ 1 <= (b - 1) + 1 /\ 1 \in Nat /\ 1 >= 1
        /\ buffer \in [1 .. Size -> Tokens]
    BY <1>1, SizesAssumption DEF TypeInv, TypeOK
  <2> HIDE DEF b
  <2> QED BY <2>1, PartOfBuffer
<1>3. /\ \/ Passed(data, TRUE) /\ NextSection(b)
         \/ Passed(Append(data, "nl"), TRUE) /\ SplitSection(b)
      /\ pchFilename' = FALSE
      /\ UNCHANGED <<post, file, body, start, refuses, received, params>> /\ pchFilename
  BY DEF LastChunk, sent
<1> HIDE DEF data
<1>4. uploads' \in Seq(Upload) /\ uploads' # <<>>
  <2>1. uploads \in Seq(Upload) /\ uploads # <<>> /\ TRUE \in BOOLEAN
    BY <1>3 DEF TypeInv, TypeOK, Upload
  <2>2. Append(data, "nl") \in Seq(Tokens)
    <3>1. "nl" \in Tokens
      BY DEF Tokens
    <3> QED BY <3>1, <1>2, AppendProperties
  <2>3. CASE Passed(data, TRUE)
    BY <1>2, <2>1, <2>3, PassedProperties
  <2>4. CASE Passed(Append(data, "nl"), TRUE)
    BY <2>1, <2>2, <2>4, PassedProperties
  <2> QED BY <1>3, <2>3, <2>4
<1>5. b \in Nat /\ b >= 1
  BY <1>1, SizesAssumption
<1> HIDE DEF b
<1>6. /\ buffer' \in [1 .. Size -> Tokens] /\ writeLocation' \in 0 .. Size
      /\ pc' \in {"scan", "over"} /\ result' \in {"open", "done", "crash"}
      /\ pc' # "over" => result' = "open"
  BY <1>1, <1>3, <1>5, NextSectionTypes, SplitSectionTypes
<1> QED BY <1>3, <1>4, <1>6 DEF TypeInv, TypeOK, Upload

(* A variable: its value is a part of the buffer.                          *)
LEMMA VariableTypes ==
    ASSUME TypeInv, Variable
    PROVE  TypeInv'
<1> DEFINE headers == Found({"hend"}, Least(Starts))
           breaks  == Found(LineBreak, Least(headers) + 1)
           value   == SubSeq(buffer, Least(headers) + 1, Least(breaks) - 1)
<1>1. /\ UNCHANGED <<post, file, body, start, refuses, received, pchFilename, uploads>>
      /\ pc = "scan" /\ ~pchFilename
  BY DEF Variable, Boundary, sent
<1>2. Least(Starts) \in Nat /\ Least(Starts) >= 1
  <2>1. Starts # {}
    BY DEF Variable, HasHeader
  <2>2. Starts \subseteq Nat /\ \A i \in Starts : i >= 1
    BY FoundInBuffer DEF Starts
  <2> QED BY <2>1, <2>2, LeastIn
<1>3. CASE headers = {} \/ breaks = {} \/ NoRoom
  <2>1. Crash /\ UNCHANGED params
    BY <1>3 DEF Variable
  <2> QED BY <1>1, <2>1 DEF TypeInv, TypeOK, Crash, Finish
<1>4. CASE headers # {} /\ breaks # {} /\ ~NoRoom
  <2>1. params' = Append(params, value) /\ NextSection(Least(breaks))
    BY <1>4 DEF Variable
  <2> DEFINE h == Least(headers)
             l == Least(breaks)
  <2>2. h \in Nat /\ h >= 1
    <3>1. headers \subseteq Nat /\ \A i \in headers : i >= Least(Starts)
      BY <1>2, FoundInBuffer
    <3> HIDE DEF headers
    <3>2. h \in headers
      BY <3>1, <1>4, LeastIn
    <3> HIDE DEF h
    <3> QED BY <3>1, <3>2, <1>2
  <2>3. l \in Nat /\ l >= h + 1 /\ l <= Size
    <3>0. h + 1 \in Nat /\ h + 1 >= 1
      BY <2>2
    <3> HIDE DEF h
    <3>1. LET T == Found(LineBreak, h + 1)
          IN  T \subseteq Nat /\ T \subseteq 1 .. Size /\ \A i \in T : i >= h + 1
      BY <3>0, FoundInBuffer
    <3>2. breaks \subseteq Nat /\ breaks \subseteq 1 .. Size /\ \A i \in breaks : i >= h + 1
      BY <3>1 DEF h
    <3> HIDE DEF breaks
    <3>3. l \in breaks
      BY <3>2, <1>4, LeastIn
    <3> HIDE DEF l
    <3>4. l \in Nat /\ l >= h + 1 /\ l \in 1 .. Size
      BY <3>2, <3>3
    <3> QED BY <3>4, SizesAssumption
  <2>4. value = SubSeq(buffer, h + 1, l - 1)
    OBVIOUS
  <2> HIDE DEF h, l, value
  <2>5. value \in Seq(Tokens)
    <3>1. /\ h + 1 \in Nat /\ l - 1 \in Nat /\ h + 1 >= 1 /\ l - 1 <= Size
          /\ h + 1 <= (l - 1) + 1 /\ buffer \in [1 .. Size -> Tokens]
      BY <2>2, <2>3, SizesAssumption DEF TypeInv, TypeOK
    <3> QED BY <3>1, <2>4, PartOfBuffer
  <2>6. params' \in Seq(Told)
    <3>1. params \in Seq(Told) /\ value \in Told
      BY <2>5 DEF TypeInv, TypeOK, Told
    <3> QED BY <3>1, <2>1, AppendProperties
  <2>7. l \in Nat /\ l >= 1 /\ NextSection(l)
    BY <2>1, <2>2, <2>3 DEF l
  <2>8. /\ buffer' \in [1 .. Size -> Tokens] /\ writeLocation' \in 0 .. Size
        /\ pc' \in {"scan", "over"} /\ result' \in {"open", "done", "crash"}
        /\ pc' # "over" => result' = "open"
    BY <2>7, <1>1, NextSectionTypes
  <2> QED BY <1>1, <2>6, <2>8 DEF TypeInv, TypeOK
<1> QED BY <1>3, <1>4

(* The header of a file: the data begins inside the buffer.                *)
LEMMA FileHeaderTypes ==
    ASSUME TypeInv, FileHeader
    PROVE  TypeInv'
<1> DEFINE headers == Found({"hend"}, Least(Found({"df"}, 1)))
           h       == Least(headers)
           new     == [data |-> <<>>, last |-> FALSE]
<1>1. /\ UNCHANGED <<post, file, body, start, refuses, received>> /\ pc = "scan"
  BY DEF FileHeader, Boundary, sent
<1>2. CASE h > writeLocation \/ NoRoom
  <2>1. Crash /\ UNCHANGED <<params, pchFilename, uploads>>
    BY <1>2 DEF FileHeader
  <2> QED BY <1>1, <2>1 DEF TypeInv, TypeOK, Crash, Finish
<1>3. CASE ~(h > writeLocation \/ NoRoom)
  <2>1. /\ params' = Append(params, <<"f">>)
        /\ pchFilename' = TRUE /\ uploads' = Append(uploads, new)
        /\ buffer' = Shifted(h) /\ writeLocation' = writeLocation - h
        /\ pc' \in {"full", "scan"} /\ result' = result
    BY <1>3 DEF FileHeader
  <2>2. h \in Nat
    <3>1. Found({"df"}, 1) # {}
      BY DEF FileHeader, IsFile
    <3>2. Least(Found({"df"}, 1)) \in Nat /\ Least(Found({"df"}, 1)) >= 1
      <4>1. Found({"df"}, 1) \subseteq Nat /\ \A i \in Found({"df"}, 1) : i >= 1
        BY FoundInBuffer
      <4> QED BY <3>1, <4>1, LeastIn
    <3>3. headers \subseteq Nat
      BY <3>2, FoundInBuffer
    <3>4. writeLocation \in Int /\ writeLocation >= 0
      BY DEF TypeInv, TypeOK
    <3> HIDE DEF headers
    <3>5. headers # {}
      <4>1. Boundary /\ HasHeader
        BY DEF FileHeader
      <4>2. Ends # {} /\ Least(Found({"df"}, 1)) < Least(Ends)
        BY <4>1 DEF FileHeader, HasHeader, IsFile
      <4>3. Ends \subseteq Nat
        BY FoundInBuffer DEF Ends
      <4>4. Least(Ends) \in Ends /\ Least(Ends) \in Nat
        BY <4>2, <4>3, LeastIn
      <4>5. Least(Ends) \in headers
        <5> DEFINE d == Least(Found({"df"}, 1))
                   e == Least(Ends)
        <5>1. d \in Nat /\ e \in Nat /\ d < e /\ e \in Found({"hend"}, 1)
          BY <3>2, <4>2, <4>4 DEF Ends
        <5> HIDE DEF d, e
        <5>2. e \in Found({"hend"}, d)
          BY <5>1, SizesAssumption DEF Found
        <5> QED BY <5>2 DEF d, e, headers
      <4> QED BY <4>5
    <3> QED BY <3>3, <3>5, LeastIn
  <2> HIDE DEF h
  <2>3. buffer' \in [1 .. Size -> Tokens]
    BY <2>1, <2>2, MovedTokens DEF TypeInv, TypeOK
  <2>4. writeLocation' \in 0 .. Size
    BY <2>1, <2>2, <1>3, SizesAssumption DEF TypeInv, TypeOK
  <2>5. params' \in Seq(Told)
    <3>1. <<"f">> \in Told /\ params \in Seq(Told)
      BY DEF Told, TypeInv, TypeOK
    <3> QED BY <3>1, <2>1, AppendProperties
  <2>6. uploads' \in Seq(Upload) /\ uploads' # <<>>
    <3>1. uploads \in Seq(Upload) /\ new \in Upload
      <4>1. <<>> \in Seq(Tokens)
        BY EmptySeq
      <4> QED BY <4>1 DEF Upload, TypeInv, TypeOK
    <3> HIDE DEF new
    <3> QED BY <3>1, <2>1, AppendProperties
  <2>7. result = "open"
    BY <1>1 DEF TypeInv
  <2> QED BY <1>1, <2>1, <2>3, <2>4, <2>5, <2>6, <2>7 DEF TypeInv, TypeOK, Upload
<1> QED BY <1>2, <1>3

(* A full buffer.                                                          *)
LEMMA FullBufferTypes ==
    ASSUME TypeInv, FullBuffer
    PROVE  TypeInv'
<1>1. /\ pc = "full" /\ result = "open" /\ PassOn(Chunk)
      /\ UNCHANGED <<post, file, body, start, refuses, received, pchFilename, params>>
  BY DEF FullBuffer, PassOn, TypeInv, sent
<1>2. CASE writeLocation < Size
  BY <1>1, <1>2 DEF PassOn, TypeInv, TypeOK
<1>3. CASE ~(writeLocation < Size) /\ ~pchFilename
  BY <1>1, <1>3 DEF PassOn, TypeInv, TypeOK, Finish
<1>4. CASE ~(writeLocation < Size) /\ pchFilename
  <2>1. /\ Passed(SubSeq(buffer, 1, Chunk), FALSE)
        /\ \/ /\ result' = "refused" /\ pc' = "over"
              /\ UNCHANGED <<buffer, writeLocation>>
           \/ /\ buffer' = Shifted(Chunk) /\ pc' = "read" /\ result' = result
              /\ writeLocation' = writeLocation - Chunk
    BY <1>1, <1>4 DEF PassOn, Finish
  <2>2. Chunk \in Nat /\ Chunk <= Size /\ 1 <= Chunk + 1 /\ Size \in Nat
    BY SizesAssumption
  <2>3. buffer \in [1 .. Size -> Tokens] /\ writeLocation \in 0 .. Size
    BY DEF TypeInv, TypeOK
  <2>4. SubSeq(buffer, 1, Chunk) \in Seq(Tokens)
    <3>1. 1 \in Nat /\ 1 >= 1
      OBVIOUS
    <3> QED BY <3>1, <2>2, <2>3, PartOfBuffer
  <2>5. uploads' \in Seq(Upload) /\ uploads' # <<>>
    <3>1. uploads \in Seq(Upload) /\ uploads # <<>> /\ FALSE \in BOOLEAN
      BY <1>4 DEF TypeInv, TypeOK, Upload
    <3> QED BY <2>1, <2>4, <3>1, PassedProperties
  <2>6. Shifted(Chunk) \in [1 .. Size -> Tokens] /\ writeLocation - Chunk \in 0 .. Size
    BY <2>2, <2>3, <1>4, MovedTokens
  <2> QED BY <1>1, <2>1, <2>3, <2>5, <2>6 DEF TypeInv, TypeOK, Upload
<1> QED BY <1>2, <1>3, <1>4

(* The steps that only go on, or end, without a change of what was read.   *)
LEMMA PlainStepTypes ==
    ASSUME TypeInv, NoHeader \/ AwaitValue \/ NoBoundary \/ NothingYet \/ PeerCloses
    PROVE  TypeInv'
<1>1. /\ UNCHANGED <<post, file, body, start, refuses, received, buffer, writeLocation,
                     pchFilename, params, uploads>>
      /\ pc # "direct" /\ pc # "over"
      /\ \/ pc' = "full" /\ result' = result
         \/ pc' = "over" /\ result' \in {"done", "nothing", "left"}
  BY DEF NoHeader, AwaitValue, NoBoundary, NothingYet, PeerCloses, Boundary,
         Finish, sent
<1> QED BY <1>1 DEF TypeInv, TypeOK

(* Before anything has come.                                               *)
LEMMA InitTypes ==
    ASSUME Init
    PROVE  TypeInv
<1>1. file \in Seq(Data) /\ Data \subseteq Tokens
  BY FilesAssumption DEF Init, Tokens
<1>2. file \in Seq(Tokens)
  BY <1>1, SeqMonotonic
<1>3. body \in Seq(Tokens)
  <2>1. CASE Direct
    BY <1>2, <2>1 DEF Init, Body
  <2>2. CASE ~Direct
    <3>1. post \in Seq({"var", "file"}) /\ post # <<>>
      BY <2>2, PostsAssumption DEF Init, Direct
    <3> QED BY <1>1, <3>1, BodyLayout DEF Init
  <2> QED BY <2>1, <2>2
<1>4. 0 \in 0 .. Len(body) /\ 0 \in 0 .. Size
  BY <1>3, LenProperties, SizesAssumption
<1>5. buffer \in [1 .. Size -> Tokens]
  BY LeftsAssumption DEF Init
<1>6. params \in Seq(Told) /\ uploads \in Seq([data : Seq(Tokens), last : BOOLEAN])
  BY EmptySeq DEF Init
<1> QED BY <1>3, <1>4, <1>5, <1>6 DEF Init, TypeInv, TypeOK

(* Every step keeps the types.                                             *)
LEMMA TypeStep ==
    ASSUME TypeInv, [Next]_vars
    PROVE  TypeInv'
<1>1. CASE Scan
  BY <1>1, LastChunkTypes, VariableTypes, FileHeaderTypes, FullBufferTypes,
     PlainStepTypes DEF Scan
<1>2. CASE Network
  <2>1. CASE First(start) \/ FirstDirect(start)
    BY <2>1, FirstTypes
  <2>2. CASE \E n \in 1 .. Size - writeLocation :
                 n <= Len(body) - received /\ Receive(n)
    BY <2>2, ReceiveTypes
  <2>3. CASE \E n \in 1 .. DirectRoom : n <= Len(body) - received /\ ReceiveDirect(n)
    BY <2>3, ReceiveDirectTypes
  <2>4. CASE DirectEnds
    BY <2>4, CommitTypes DEF DirectEnds
  <2> QED BY <1>2, <2>1, <2>2, <2>3, <2>4 DEF Network
<1>3. CASE NothingYet \/ PeerCloses
  BY <1>3, PlainStepTypes
<1>4. CASE DirectLeft
  BY <1>4, CommitTypes DEF DirectLeft
<1>5. CASE UNCHANGED vars
  BY <1>5 DEF vars, sent, TypeInv, TypeOK
<1> QED BY <1>1, <1>2, <1>3, <1>4, <1>5 DEF Next

(* Every variable keeps its type, whatever is sent and however it is cut.  *)
THEOREM TypeCorrect == Spec => []TypeOK
<1>1. TypeInv => TypeOK
  BY DEF TypeInv
<1>2. Init => TypeInv
  BY InitTypes
<1>3. TypeInv /\ [Next]_vars => TypeInv'
  BY TypeStep
<1> QED BY <1>1, <1>2, <1>3, PTL DEF Spec

-----------------------------------------------------------------------------
(* Where the parser is.                                                    *)

(* What of the body has left the buffer, and what is in the buffer.        *)
Gone == received - writeLocation
Window == \A i \in 1 .. writeLocation : buffer[i] = body[Gone + i]

(* Every section up to now has been told of.                               *)
ParamsRight ==
    /\ Len(params) <= Len(post)
    /\ \A k \in 1 .. Len(params) :
          params[k] = IF post[k] = "var" THEN <<"v">> ELSE <<"f">>

Complete == [data |-> file, last |-> TRUE]

(* Before the first move: behind the body is the header of the request,    *)
(* and behind that no boundary but those of the first piece, where they    *)
(* were received.                                                          *)
Seam ==
    /\ start <= received
    /\ \A i \in writeLocation + 1 .. Size :
          IF i <= HeaderLen THEN buffer[i] \in {"h", "hend"}
          ELSE buffer[i] = "bd" =>
                  i - HeaderLen <= start /\ body[i - HeaderLen] = "bd"

(* The line break in front of a section; the first has none.               *)
Lead(k) == IF k = 0 THEN 0 ELSE 1

(* k sections have been told of, and the buffer begins in front of the     *)
(* next.                                                                   *)
AtSection(P, k) ==
    /\ ~pchFilename
    /\ \A u \in 1 .. Len(uploads) : uploads[u] = Complete
    /\ Gone = P[k] - Lead(k)
    /\ k = 0 => Seam
    /\ k # 0 => Size >= 5 /\ \A i \in writeLocation + 1 .. Size : buffer[i] = "0"

(* The buffer begins in the file of section k, of which j tokens have been *)
(* passed on.  While its boundary has not come there is none behind what   *)
(* was received either, but for the one that was in front of the section.  *)
InFile(P, k, j) ==
    /\ pchFilename /\ k >= 1 /\ post[k] = "file" /\ j \in 0 .. Len(file)
    /\ \A u \in 1 .. Len(uploads) - 1 : uploads[u] = Complete
    /\ uploads[Len(uploads)] = [data |-> SubSeq(file, 1, j), last |-> FALSE]
    /\ Gone = P[k - 1] + 3 + j
    /\ Size >= 5
    /\ received <= P[k] => \A i \in writeLocation + 1 .. Size :
          buffer[i] = "bd" => i = 2 /\ j = 0 /\ k > 1
    /\ pc = "scan" => writeLocation >= 1
    /\ pc = "full" => writeLocation < Size \/ Boundaries = {}

(* What has been passed on of a file is a beginning of it.                 *)
Begins(u) ==
    \E j \in 0 .. Len(file) :
        u.data = SubSeq(file, 1, j) /\ (u.last => j = Len(file))

History == \A u \in 1 .. Len(uploads) : Begins(uploads[u])

Reading == pc \in {"read", "scan", "full"}

ParserInv(P) ==
    /\ ParamsRight
    /\ pc \in {"first", "read", "scan", "full", "over"}
    /\ pc = "first" =>
          /\ params = <<>> /\ uploads = <<>> /\ writeLocation = 0 /\ received = 0
          /\ ~pchFilename /\ \A i \in 1 .. Size : buffer[i] # "bd"
    /\ Reading => /\ Window
                  /\ \/ AtSection(P, Len(params))
                     \/ \E j \in Nat : InFile(P, Len(params), j)
    /\ pc = "over" =>
          /\ History /\ result # "crash"
          /\ result = "done" =>
                /\ Len(params) = Len(post)
                /\ \A u \in 1 .. Len(uploads) : uploads[u] = Complete

(* A direct upload: what has been passed on and what is in the buffer are  *)
(* a beginning of the file.                                                *)
DirectInv ==
    /\ body = file
    /\ pc \in {"first", "direct", "over"}
    /\ pc = "first" => uploads = <<>>
    /\ pc = "direct" =>
          /\ Window
          /\ uploads = <<[data |-> SubSeq(file, 1, Gone), last |-> FALSE]>>
          /\ Gone >= 0
    /\ pc = "over" =>
          /\ result \notin {"crash", "done"}
          /\ \A u \in 1 .. Len(uploads) :
                \E j \in 0 .. Len(file) : uploads[u].data = SubSeq(file, 1, j)

(* The inductive invariant.                                                *)
IInv ==
    /\ TypeInv
    /\ Direct => DirectInv
    /\ Plain /\ ~Direct => \E P : Layout(P) /\ ParserInv(P)

-----------------------------------------------------------------------------
(* The sections of a body.                                                 *)

(* What is taken apart: at least one section, and no boundary in the file. *)
LEMMA PostFacts ==
    ASSUME TypeInv, ~Direct
    PROVE  /\ post \in Seq({"var", "file"}) /\ post # <<>> /\ file \in Seq(Data)
           /\ Len(post) \in Nat /\ Len(post) >= 1 /\ Len(file) \in Nat
           /\ \A k \in 1 .. Len(post) : post[k] \in {"var", "file"}
           /\ \A i \in 1 .. Len(file) : file[i] # "bd"
<1>1. post \in Seq({"var", "file"}) /\ post # <<>>
  BY PostsAssumption DEF TypeInv, TypeOK, Direct
<1>2. file \in Seq(Data)
  BY FilesAssumption DEF TypeInv, TypeOK
<1>3. Len(post) \in Nat /\ Len(post) >= 1
  BY <1>1, EmptySeq
<1>4. \A k \in 1 .. Len(post) : post[k] \in {"var", "file"}
  BY <1>1, ElementOfSeq
<1>5. Len(file) \in Nat /\ \A i \in 1 .. Len(file) : file[i] \in Data
  BY <1>2, ElementOfSeq, LenProperties
<1> QED BY <1>1, <1>2, <1>3, <1>4, <1>5, FilesAssumption

(* The tokens of section k, where its place says.                          *)
LEMMA SectionPlaces ==
    ASSUME TypeInv, ~Direct, NEW P, Layout(P), NEW k \in 1 .. Len(post)
    PROVE  /\ P[k - 1] \in Nat /\ P[k] \in Nat /\ P[k] >= P[k - 1] + 4
           /\ P[k] = P[k - 1] + IF post[k] = "var" THEN 5 ELSE 4 + Len(file)
           /\ body[P[k - 1] + 1] = "bd" /\ body[P[k - 1] + 3] = "hend"
           /\ body[P[k - 1] + 2] = IF post[k] = "var" THEN "dv" ELSE "df"
           /\ post[k] = "var" => body[P[k - 1] + 4] = "v"
           /\ post[k] = "file" =>
                 \A i \in 1 .. Len(file) : body[P[k - 1] + 3 + i] = file[i]
           /\ body[P[k]] = "nl"
<1>1. k - 1 \in 0 .. Len(post) /\ k \in 0 .. Len(post) /\ post[k] \in {"var", "file"}
      /\ Len(file) \in Nat
  BY PostFacts
<1>2. P[k - 1] \in Nat /\ P[k] \in Nat
  BY <1>1 DEF Layout
<1>3. CASE post[k] = "var"
  <2>1. /\ P[k] = P[k - 1] + 5
        /\ body[P[k - 1] + 1] = "bd" /\ body[P[k - 1] + 2] = "dv"
        /\ body[P[k - 1] + 3] = "hend" /\ body[P[k - 1] + 4] = "v" /\ body[P[k]] = "nl"
    BY <1>3 DEF Layout
  <2> QED BY <1>2, <1>3, <2>1
<1>4. CASE post[k] = "file"
  <2>1. /\ P[k] = P[k - 1] + 4 + Len(file)
        /\ body[P[k - 1] + 1] = "bd" /\ body[P[k - 1] + 2] = "df"
        /\ body[P[k - 1] + 3] = "hend" /\ body[P[k]] = "nl"
        /\ \A i \in 1 .. Len(file) : body[P[k - 1] + 3 + i] = file[i]
    BY <1>4 DEF Layout
  <2> DEFINE a == P[k - 1]
             b == Len(file)
  <2>2. a \in Nat /\ b \in Nat /\ P[k] = a + 4 + b
    BY <1>1, <1>2, <2>1
  <2> HIDE DEF a, b
  <2>3. P[k] = a + (4 + b) /\ P[k] >= a + 4
    BY <2>2
  <2> QED BY <1>2, <1>4, <2>1, <2>3 DEF a, b
<1> QED BY <1>1, <1>3, <1>4

(* A variable takes five places.                                           *)
LEMMA VariablePlaces ==
    ASSUME TypeInv, ~Direct, NEW P, Layout(P), NEW k \in Int, k + 1 \in 1 .. Len(post),
           (k + 1) - 1 = k, post[k + 1] = "var"
    PROVE  P[k + 1] = P[k] + 5 /\ body[P[k] + 4] = "v" /\ body[P[k] + 5] = "nl"
<1>1. /\ P[k + 1] = P[(k + 1) - 1] + 5 /\ body[P[(k + 1) - 1] + 4] = "v"
      /\ body[P[k + 1]] = "nl"
  BY DEF Layout
<1> QED BY <1>1

(* A file takes four places more than it is long.                          *)
LEMMA FilePlaces ==
    ASSUME TypeInv, ~Direct, NEW P, Layout(P), NEW k \in 1 .. Len(post), post[k] = "file"
    PROVE  /\ P[k - 1] \in Nat /\ P[k] \in Nat /\ Len(file) \in Nat
           /\ P[k] = P[k - 1] + (4 + Len(file)) /\ body[P[k]] = "nl"
<1>1. P[k - 1] \in Nat /\ P[k] \in Nat
  BY SectionPlaces
<1>2. P[k] = P[k - 1] + 4 + Len(file) /\ body[P[k]] = "nl"
  BY DEF Layout
<1>3. Len(file) \in Nat
  BY PostFacts
<1> QED BY <1>1, <1>2, <1>3

(* A section tells its kind in its second place.                           *)
LEMMA SectionKind ==
    ASSUME TypeInv, ~Direct, NEW P, Layout(P), NEW k \in 1 .. Len(post)
    PROVE  body[P[k - 1] + 2] \in {"dv", "df"}
<1>1. post[k] \in {"var", "file"}
  BY PostFacts
<1> QED BY <1>1 DEF Layout

(* A section holds no boundary but the one it begins with.                 *)
LEMMA SectionInside ==
    ASSUME TypeInv, ~Direct, NEW P, Layout(P), NEW k \in 1 .. Len(post),
           NEW i \in Int, i >= P[k - 1] + 2, i <= P[k]
    PROVE  body[i] # "bd"
<1> DEFINE a == P[k - 1]
           b == Len(file)
<1>1. /\ a \in Nat /\ b \in Nat /\ P[k] \in Nat
      /\ P[k] = a + IF post[k] = "var" THEN 5 ELSE 4 + b
      /\ body[a + 3] = "hend"
      /\ body[a + 2] = IF post[k] = "var" THEN "dv" ELSE "df"
      /\ body[P[k]] = "nl" /\ i >= a + 2 /\ i <= P[k]
  BY SectionPlaces, PostFacts
<1>2. post[k] = "var" => body[a + 4] = "v"
  BY SectionPlaces
<1>3. post[k] = "file" => \A l \in 1 .. b : body[a + 3 + l] = file[l]
  BY SectionPlaces
<1>4. post[k] \in {"var", "file"} /\ \A l \in 1 .. b : file[l] # "bd"
  BY PostFacts
<1> HIDE DEF a, b
<1>5. CASE i = P[k] \/ i = a + 2 \/ i = a + 3
  BY <1>1, <1>5
<1>6. CASE ~(i = P[k] \/ i = a + 2 \/ i = a + 3)
  <2>1. CASE post[k] = "var"
    <3>1. i = a + 4
      BY <1>1, <1>6, <2>1
    <3> QED BY <3>1, <1>2, <2>1
  <2>2. CASE post[k] = "file"
    <3>1. i - (a + 3) \in 1 .. b /\ a + 3 + (i - (a + 3)) = i
      BY <1>1, <1>6, <2>2
    <3> QED BY <3>1, <1>3, <1>4, <2>2
  <2> QED BY <2>1, <2>2, <1>4
<1> QED BY <1>5, <1>6

(* The body ends behind the last section.                                  *)
LEMMA BodyEnds ==
    ASSUME TypeInv, ~Direct, NEW P, Layout(P)
    PROVE  /\ P[0] = 0 /\ P[Len(post)] \in Nat /\ body[P[Len(post)] + 1] = "bd"
           /\ body[P[Len(post)] + 2] = "end" /\ Len(body) = P[Len(post)] + 2
           /\ \A k \in 0 .. Len(post) : P[k] \in Nat
           /\ \A k \in 1 .. Len(post) : body[P[k]] = "nl"
<1>1. Len(post) \in 0 .. Len(post)
  BY PostFacts
<1> QED BY <1>1 DEF Layout

-----------------------------------------------------------------------------
(* What is found in front of a section.                                    *)

(* In front of the first section a boundary is found behind it only.       *)
LEMMA FirstBoundary ==
    ASSUME TypeInv, ~Direct, Plain, NEW P, Layout(P), Window, AtSection(P, 0),
           Boundaries # {}
    PROVE  writeLocation >= P[1] + 1
<1>1. /\ 1 \in 1 .. Len(post) /\ P[0] = 0 /\ 1 - 1 = 0
      /\ writeLocation \in Nat /\ received \in Nat /\ HeaderLen \in Nat /\ Size \in Nat
      /\ received \in 0 .. Len(body) /\ Len(body) \in Nat /\ HeaderLen >= 1
  BY PostFacts, BodyEnds, SizesAssumption, LenProperties DEF TypeInv, TypeOK
<1>2. /\ received = writeLocation /\ Seam
      /\ \A i \in 1 .. writeLocation : buffer[i] = body[i]
  <2>1. Gone = 0 /\ Seam
    BY <1>1 DEF AtSection, Lead
  <2>2. received = writeLocation
    BY <2>1, <1>1 DEF Gone
  <2> QED BY <2>1, <2>2 DEF Window
<1>3. /\ P[1] \in Nat
      /\ \A i \in Int : i >= 2 /\ i <= P[1] => body[i] # "bd"
  <2>1. \A i \in Int : i >= P[0] + 2 /\ i <= P[1] => body[i] # "bd"
    BY <1>1, SectionInside
  <2>2. P[1] \in Nat
    BY <1>1, SectionPlaces
  <2> QED BY <2>1, <2>2, <1>1
<1>4. PICK i \in 1 .. Size - 1 : buffer[i + 1] = "bd"
  BY DEF Boundaries
<1>5. ASSUME NEW m \in Int, m >= 2, m <= writeLocation, body[m] = "bd"
      PROVE  writeLocation >= P[1] + 1
  BY <1>1, <1>3, <1>5
<1>6. CASE i + 1 <= writeLocation
  <2>1. i + 1 \in 1 .. writeLocation /\ i + 1 \in Int /\ i + 1 >= 2
    BY <1>1, <1>6
  <2>2. body[i + 1] = "bd"
    BY <2>1, <1>2, <1>4
  <2> QED BY <2>1, <2>2, <1>5, <1>6
<1>7. CASE ~(i + 1 <= writeLocation)
  <2>1. i + 1 \in writeLocation + 1 .. Size
    BY <1>1, <1>7
  <2>2. start <= writeLocation /\ start \in Int
    BY <1>2 DEF Seam, TypeInv, TypeOK
  <2> DEFINE m == i + 1 - HeaderLen
  <2>3. i + 1 > HeaderLen /\ m <= start /\ body[m] = "bd" /\ m \in Int /\ m >= 1
    BY <2>1, <1>1, <1>2, <1>4 DEF Seam
  <2>4. CASE m >= 2
    <3>1. m <= writeLocation
      BY <2>2, <2>3, <1>1
    <3> QED BY <3>1, <2>3, <2>4, <1>5
  <2>5. CASE ~(m >= 2)
    <3>1. start \in 1 .. HeaderLen
      BY <2>1, <2>2, <2>3, <2>5, <1>1
    <3>2. PICK l \in 2 .. start : body[l] = "bd"
      BY <3>1 DEF Plain, PlainSeam
    <3>3. l \in Int /\ l >= 2 /\ l <= writeLocation
      BY <3>2, <2>2, <1>1
    <3> QED BY <3>2, <3>3, <1>5
  <2> QED BY <2>4, <2>5
<1> QED BY <1>6, <1>7

(* A boundary and a whole header in front of a section: the section is     *)
(* there, and so is its header.                                            *)
LEMMA HeaderRead ==
    ASSUME TypeInv, ~Direct, Plain, NEW P, Layout(P), Window,
           NEW k \in 0 .. Len(post), AtSection(P, k), Boundaries # {}, HasHeader
    PROVE  /\ k < Len(post) /\ writeLocation >= Lead(k) + 3
           /\ k = 0 => writeLocation >= P[1] + 1
<1>1. /\ Len(post) \in Nat /\ Len(post) >= 1 /\ writeLocation \in Nat
      /\ writeLocation <= Size /\ Size \in Nat /\ received \in 0 .. Len(body)
      /\ Len(body) = P[Len(post)] + 2 /\ P[k] \in Nat /\ received \in Nat
  BY PostFacts, BodyEnds, SizesAssumption, LenProperties DEF TypeInv, TypeOK
<1>2. CASE k = 0
  <2>1. writeLocation >= P[1] + 1
    BY <1>2, FirstBoundary
  <2>2. P[1] \in Nat /\ P[1] >= P[0] + 4 /\ P[0] = 0
    <3>1. 1 \in 1 .. Len(post) /\ 1 - 1 = 0
      BY <1>1
    <3> QED BY <3>1, SectionPlaces, BodyEnds
  <2> QED BY <2>1, <2>2, <1>1, <1>2 DEF Lead
<1>3. CASE k # 0
  <2>1. /\ Gone = P[k] - 1 /\ \A i \in writeLocation + 1 .. Size : buffer[i] = "0"
    BY <1>3 DEF AtSection, Lead
  <2>2. received = P[k] - 1 + writeLocation
    BY <2>1, <1>1 DEF Gone
  <2>3. \A i \in 1 .. writeLocation : buffer[i] = body[P[k] - 1 + i]
    BY <2>1 DEF Window
  <2>4. k \in 1 .. Len(post)
    BY <1>1, <1>3
  <2>5. PICK e \in 1 .. Size : buffer[e] = "hend"
    BY DEF HasHeader, Ends, Found
  <2>6. e \in 1 .. writeLocation
    <3> SUFFICES ASSUME e > writeLocation PROVE FALSE
      BY <1>1
    <3>1. e \in writeLocation + 1 .. Size
      BY <1>1
    <3> QED BY <3>1, <2>1, <2>5
  <2>7. body[P[k] - 1 + e] = "hend"
    BY <2>3, <2>5, <2>6
  <2>8. body[P[k]] = "nl"
    BY <2>4, BodyEnds
  <2>9. e # 1
    <3>1. P[k] - 1 + 1 = P[k]
      BY <1>1
    <3> QED BY <3>1, <2>7, <2>8
  <2>10. body[P[k] + 1] = "bd"
    <3>1. CASE k = Len(post)
      BY <3>1, BodyEnds
    <3>2. CASE k # Len(post)
      <4>1. k + 1 \in 1 .. Len(post) /\ (k + 1) - 1 = k
        BY <3>2, <1>1
      <4> QED BY <4>1, SectionPlaces
    <3> QED BY <3>1, <3>2
  <2>11. e # 2
    <3>1. P[k] - 1 + 2 = P[k] + 1
      BY <1>1
    <3> QED BY <3>1, <2>7, <2>10
  <2>12. e >= 3
    BY <2>6, <2>9, <2>11, <1>1
  <2>13. k # Len(post)
    <3> SUFFICES ASSUME k = Len(post) PROVE FALSE
      OBVIOUS
    <3>1. writeLocation <= 3
      BY <1>1, <2>2
    <3>2. e = 3 /\ P[k] - 1 + 3 = P[k] + 2
      BY <3>1, <2>6, <2>12, <1>1
    <3>3. body[P[k] + 2] = "end"
      BY BodyEnds
    <3> QED BY <3>2, <3>3, <2>7
  <2>14. k < Len(post) /\ k + 1 \in 1 .. Len(post) /\ (k + 1) - 1 = k
    BY <2>13, <1>1
  <2>15. body[P[k] + 2] \in {"dv", "df"}
    BY <2>14, SectionPlaces
  <2>16. e # 3
    <3>1. P[k] - 1 + 3 = P[k] + 2
      BY <1>1
    <3> QED BY <3>1, <2>7, <2>15
  <2>17. writeLocation >= 4
    BY <2>6, <2>12, <2>16, <1>1
  <2> QED BY <2>14, <2>17, <1>3 DEF Lead
<1> QED BY <1>2, <1>3

(* The header in the buffer: the kind of the section and the end of the    *)
(* header are found where they are.                                        *)
LEMMA HeaderFound ==
    ASSUME TypeInv, ~Direct, NEW P, Layout(P), Window,
           NEW k \in 0 .. Len(post), AtSection(P, k), k < Len(post),
           writeLocation >= Lead(k) + 3
    PROVE  /\ Lead(k) \in {0, 1}
           /\ Least(Starts) = Lead(k) + 2 /\ Least(Ends) = Lead(k) + 3
           /\ Found({"hend"}, Lead(k) + 2) # {}
           /\ Least(Found({"hend"}, Lead(k) + 2)) = Lead(k) + 3
           /\ IsFile <=> post[k + 1] = "file"
           /\ IsFile => Least(Found({"df"}, 1)) = Lead(k) + 2
           /\ \A j \in 1 .. Lead(k) + 3 : buffer[j] # "0"
           /\ \A i \in Int : i >= 1 /\ Lead(k) + i <= writeLocation =>
                 buffer[Lead(k) + i] = body[P[k] + i]
<1> DEFINE o == Lead(k)
<1>1. /\ o \in {0, 1} /\ writeLocation \in Nat /\ writeLocation <= Size /\ Size \in Nat
      /\ P[k] \in Nat /\ k + 1 \in 1 .. Len(post) /\ (k + 1) - 1 = k
      /\ Len(post) \in Nat /\ Gone = P[k] - o /\ writeLocation >= o + 3
  BY PostFacts, BodyEnds, SizesAssumption DEF TypeInv, TypeOK, Lead, AtSection
<1>2. /\ body[P[k] + 1] = "bd" /\ body[P[k] + 3] = "hend"
      /\ body[P[k] + 2] = IF post[k + 1] = "var" THEN "dv" ELSE "df"
      /\ post[k + 1] \in {"var", "file"}
  BY <1>1, SectionPlaces, PostFacts
<1>3. o = 1 => k \in 1 .. Len(post) /\ body[P[k]] = "nl"
  <2>1. o = 1 => k # 0
    BY DEF Lead
  <2> QED BY <2>1, <1>1, BodyEnds
<1> HIDE DEF o
<1>4. \A i \in Int : i >= 1 /\ o + i <= writeLocation => buffer[o + i] = body[P[k] + i]
  <2> SUFFICES ASSUME NEW i \in Int, i >= 1, o + i <= writeLocation
               PROVE  buffer[o + i] = body[P[k] + i]
    OBVIOUS
  <2>1. o + i \in 1 .. writeLocation /\ Gone + (o + i) = P[k] + i
    BY <1>1
  <2> QED BY <2>1 DEF Window
<1>5. /\ buffer[o + 1] = "bd" /\ buffer[o + 3] = "hend"
      /\ buffer[o + 2] = IF post[k + 1] = "var" THEN "dv" ELSE "df"
  <2>1. /\ 1 \in Int /\ 1 >= 1 /\ o + 1 <= writeLocation
        /\ 2 \in Int /\ 2 >= 1 /\ o + 2 <= writeLocation
        /\ 3 \in Int /\ 3 >= 1 /\ o + 3 <= writeLocation
    BY <1>1
  <2>2. /\ buffer[o + 1] = body[P[k] + 1] /\ buffer[o + 2] = body[P[k] + 2]
        /\ buffer[o + 3] = body[P[k] + 3]
    BY <2>1, <1>4
  <2> QED BY <2>2, <1>2
<1>6. o = 1 => buffer[1] = "nl"
  <2> SUFFICES ASSUME o = 1 PROVE buffer[1] = "nl"
    OBVIOUS
  <2>1. 1 \in 1 .. writeLocation /\ Gone + 1 = P[k]
    BY <1>1
  <2> QED BY <2>1, <1>3 DEF Window
<1>7. \A j \in 1 .. o + 3 : buffer[j] # "0" /\ j \in 1 .. Size
  <2> SUFFICES ASSUME NEW j \in 1 .. o + 3 PROVE buffer[j] # "0" /\ j \in 1 .. Size
    OBVIOUS
  <2>1. j = o + 1 \/ j = o + 2 \/ j = o + 3 \/ (o = 1 /\ j = 1)
    BY <1>1
  <2>2. j \in 1 .. Size
    BY <1>1
  <2> QED BY <2>1, <2>2, <1>5, <1>6
(* The kind.                                                               *)
<1>9. Least(Starts) = o + 2
  <2>1. o + 2 \in Starts
    <3>1. o + 2 \in 1 .. Size /\ \A j \in 1 .. o + 2 : j \in 1 .. o + 3
      BY <1>1
    <3> QED BY <3>1, <1>5, <1>7 DEF Starts, Found
  <2>2. ASSUME NEW i \in Starts PROVE o + 2 <= i
    <3>1. i \in 1 .. Size /\ buffer[i] \in {"dv", "df"}
      BY DEF Starts, Found
    <3>2. i # o + 1 /\ (o = 1 => i # 1)
      BY <3>1, <1>5, <1>6
    <3> QED BY <3>1, <3>2, <1>1
  <2>3. Starts \subseteq Nat
    BY FoundInBuffer DEF Starts
  <2> QED BY <2>1, <2>2, <2>3, LeastIs
(* The end of the header, wherever the search begins.                      *)
<1>10. ASSUME NEW from \in Nat, from >= 1, from <= o + 3
       PROVE  /\ o + 3 \in Found({"hend"}, from)
              /\ Least(Found({"hend"}, from)) = o + 3
  <2>1. o + 3 \in Found({"hend"}, from)
    <3>1. o + 3 \in from .. Size
      BY <1>1, <1>10
    <3> QED BY <3>1, <1>5, <1>7 DEF Found
  <2>2. ASSUME NEW i \in Found({"hend"}, from) PROVE o + 3 <= i
    <3>1. i \in from .. Size /\ buffer[i] = "hend"
      BY DEF Found
    <3>2. i # o + 1 /\ i # o + 2 /\ (o = 1 => i # 1)
      BY <3>1, <1>5, <1>6
    <3> QED BY <3>1, <3>2, <1>1, <1>10
  <2>3. Found({"hend"}, from) \subseteq Nat
    BY <1>10, FoundInBuffer
  <2> QED BY <2>1, <2>2, <2>3, LeastIs
<1>11. /\ Least(Ends) = o + 3 /\ Least(Found({"hend"}, o + 2)) = o + 3
       /\ Found({"hend"}, o + 2) # {}
  <2>1. 1 \in Nat /\ 1 >= 1 /\ 1 <= o + 3 /\ o + 2 \in Nat /\ o + 2 >= 1 /\ o + 2 <= o + 3
    BY <1>1
  <2> QED BY <2>1, <1>10 DEF Ends
(* What kind it is.                                                        *)
<1>12. CASE post[k + 1] = "file"
  <2>1. Least(Found({"df"}, 1)) = o + 2 /\ Found({"df"}, 1) # {}
    <3>1. o + 2 \in Found({"df"}, 1)
      <4>1. o + 2 \in 1 .. Size /\ \A j \in 1 .. o + 2 : j \in 1 .. o + 3
        BY <1>1
      <4>2. buffer[o + 2] = "df"
        BY <1>5, <1>12
      <4> QED BY <4>1, <4>2, <1>7 DEF Found
    <3>2. ASSUME NEW i \in Found({"df"}, 1) PROVE o + 2 <= i
      <4>1. i \in 1 .. Size /\ buffer[i] = "df"
        BY DEF Found
      <4>2. i # o + 1 /\ (o = 1 => i # 1)
        BY <4>1, <1>5, <1>6
      <4> QED BY <4>1, <4>2, <1>1
    <3>3. Found({"df"}, 1) \subseteq Nat
      BY FoundInBuffer
    <3> QED BY <3>1, <3>2, <3>3, LeastIs
  <2>2. IsFile
    <3>1. o + 2 < o + 3
      BY <1>1
    <3> QED BY <3>1, <2>1, <1>11 DEF IsFile
  <2> QED BY <2>1, <2>2, <1>1, <1>4, <1>7, <1>9, <1>11, <1>12 DEF o
<1>13. CASE post[k + 1] = "var"
  <2>1. ~IsFile
    <3> SUFFICES ASSUME IsFile PROVE FALSE
      OBVIOUS
    <3> DEFINE d == Least(Found({"df"}, 1))
    <3>1. d \in Found({"df"}, 1) /\ d < o + 3
      <4>1. Found({"df"}, 1) # {} /\ Found({"df"}, 1) \subseteq Nat
        BY FoundInBuffer DEF IsFile
      <4> QED BY <4>1, <1>11, LeastIn DEF IsFile
    <3>2. d \in 1 .. Size /\ buffer[d] = "df"
      BY <3>1 DEF Found
    <3> HIDE DEF d
    <3>3. d = o + 1 \/ d = o + 2 \/ (o = 1 /\ d = 1)
      BY <3>1, <3>2, <1>1
    <3> QED BY <3>2, <3>3, <1>5, <1>6, <1>13
  <2> QED BY <2>1, <1>1, <1>4, <1>7, <1>9, <1>11, <1>13 DEF o
<1> QED BY <1>2, <1>12, <1>13

-----------------------------------------------------------------------------
(* The steps of the parser.                                                *)

(* A file that was passed on in whole was passed on from its beginning.    *)
LEMMA CompleteBegins ==
    ASSUME TypeInv, ~Direct
    PROVE  Begins(Complete)
<1>1. Len(file) \in 0 .. Len(file) /\ file = SubSeq(file, 1, Len(file))
  BY PostFacts, SubSeqFull
<1> QED BY <1>1 DEF Begins, Complete

(* After the move the next section is in front, or the end mark is.        *)
LEMMA NextSectionStep ==
    ASSUME TypeInv, ~Direct, NEW P, Layout(P), Window, pc = "scan",
           NEW k \in 1 .. Len(post), NEW i \in Nat, i >= 1,
           i - 1 <= writeLocation, Gone + (i - 1) = P[k] - 1, Size >= 5,
           NextSection(i), UNCHANGED <<sent, received>>,
           pchFilename' = FALSE, \A u \in 1 .. Len(uploads') : uploads'[u] = Complete,
           Len(params') = k,
           \A l \in 1 .. k : params'[l] = IF post[l] = "var" THEN <<"v">> ELSE <<"f">>
    PROVE  ParserInv(P)'
<1> DEFINE m == i - 1
<1>1. /\ buffer' = Cleared(m) /\ writeLocation' = writeLocation - m
      /\ IF AtEndMark(buffer') THEN result' = "done" /\ pc' = "over"
         ELSE pc' = pc /\ result' = result
  <2>1. ~(i - 1 > writeLocation)
    BY DEF TypeInv, TypeOK
  <2> QED BY <2>1 DEF NextSection, Finish
<1>2. /\ m \in Nat /\ writeLocation \in Nat /\ m <= writeLocation
      /\ writeLocation <= Size /\ Size \in Nat /\ Gone \in Int /\ P[k] \in Nat
      /\ received \in Nat /\ Gone = received - writeLocation /\ Gone + m = P[k] - 1
      /\ Len(post) \in Nat /\ k <= Len(post) /\ k >= 1 /\ result = "open"
  <2>1. k \in 0 .. Len(post)
    OBVIOUS
  <2> QED BY <2>1, SizesAssumption, BodyEnds, PostFacts, LenProperties
      DEF TypeInv, TypeOK, Gone
<1>3. UNCHANGED <<post, file, body, start, refuses, received>>
  BY DEF sent
<1> HIDE DEF m
<1>14. m \in Nat /\ writeLocation \in Nat /\ m <= writeLocation /\ writeLocation <= Size
      /\ Size \in Nat
  BY <1>2
<1>4. writeLocation' \in Nat /\ writeLocation' <= Size /\ Gone' = P[k] - 1
  <2>1. Gone' = received - (writeLocation - m)
    BY <1>1, <1>3 DEF Gone
  <2>2. writeLocation - m \in Nat /\ writeLocation - m <= Size
    BY <1>14
  <2>3. received - (writeLocation - m) = Gone + m
    BY <1>2
  <2> QED BY <2>1, <2>2, <2>3, <1>1, <1>2
<1>13. Size \in Nat /\ Size >= 5 /\ k # 0
  BY <1>2
<1>5. ASSUME NEW l \in 1 .. writeLocation'
      PROVE  buffer'[l] = body[P[k] - 1 + l]
  <2>1. /\ l \in 1 .. Size /\ l + m <= writeLocation /\ l + m \in 1 .. writeLocation
        /\ Gone + (l + m) = P[k] - 1 + l
    <3>1. writeLocation' = writeLocation - m
      BY <1>1
    <3>2. l \in 1 .. writeLocation - m
      BY <3>1
    <3>3. l \in 1 .. Size /\ l + m <= writeLocation /\ l + m \in 1 .. writeLocation
      BY <3>2, <1>14
    <3>4. Gone \in Int /\ P[k] \in Nat /\ Gone + m = P[k] - 1
      BY <1>2
    <3>5. Gone + (l + m) = P[k] - 1 + l
      BY <3>2, <3>4, <1>14
    <3> QED BY <3>3, <3>5
  <2>2. buffer'[l] = buffer[l + m]
    BY <2>1, <1>1 DEF Cleared
  <2>3. buffer[l + m] = body[Gone + (l + m)]
    BY <2>1 DEF Window
  <2> QED BY <2>1, <2>2, <2>3
<1>6. ASSUME NEW l \in writeLocation' + 1 .. Size
      PROVE  buffer'[l] = "0"
  <2>1. l \in 1 .. Size /\ ~(l + m <= writeLocation)
    <3>1. writeLocation' = writeLocation - m
      BY <1>1
    <3> QED BY <3>1, <1>2, <1>4
  <2> QED BY <2>1, <1>1 DEF Cleared
<1>7. AtEndMark(buffer') => k = Len(post)
  <2> SUFFICES ASSUME AtEndMark(buffer'), k # Len(post) PROVE FALSE
    OBVIOUS
  <2>1. buffer'[3] = "end"
    BY DEF AtEndMark
  <2>2. 3 \in 1 .. writeLocation'
    <3> DEFINE w == writeLocation'
    <3>1. w \in Nat /\ Size \in Nat /\ Size >= 5
      BY <1>4, <1>13
    <3>2. 3 \notin w + 1 .. Size
      BY <2>1, <1>6
    <3> HIDE DEF w
    <3>3. 3 \in 1 .. w
      BY <3>1, <3>2
    <3> QED BY <3>3 DEF w
  <2>3. body[P[k] - 1 + 3] = "end"
    BY <2>1, <2>2, <1>5
  <2>4. P[k] - 1 + 3 = P[k] + 2 /\ k + 1 \in 1 .. Len(post) /\ (k + 1) - 1 = k
    BY <1>2
  <2>5. body[P[(k + 1) - 1] + 2] \in {"dv", "df"}
    BY <2>4, SectionKind
  <2> QED BY <2>3, <2>4, <2>5
<1>8. ParamsRight'
  BY <1>2, <1>3 DEF ParamsRight
<1>9. /\ \/ pc' = "scan" /\ result' = "open"
         \/ pc' = "over" /\ result' = "done" /\ k = Len(post)
  BY <1>1, <1>2, <1>7
<1>10. Window'
  BY <1>3, <1>4, <1>5 DEF Window
<1>11. AtSection(P, k)'
  <2>1. Gone' = P[k] - Lead(k)
    BY <1>2, <1>4 DEF Lead
  <2>2. Complete' = Complete
    BY <1>3 DEF Complete
  <2> QED BY <2>1, <2>2, <1>6, <1>13 DEF AtSection
<1>12. History'
  BY <1>3, CompleteBegins DEF History, Begins, Complete
<1> QED BY <1>3, <1>8, <1>9, <1>10, <1>11, <1>12 DEF ParserInv, Reading, Complete

(* The parser in front of a section.                                       *)
LEMMA InFrontOfSection ==
    ASSUME TypeInv, ~Direct, NEW P, Layout(P), ParserInv(P), Reading, ~pchFilename
    PROVE  /\ Window /\ AtSection(P, Len(params)) /\ Len(params) \in 0 .. Len(post)
           /\ Len(params) \in Nat
           /\ \A u \in 1 .. Len(uploads) : uploads[u] = Complete
<1>1. Window /\ AtSection(P, Len(params)) /\ Len(params) <= Len(post)
  BY DEF ParserInv, InFile, ParamsRight
<1>2. Len(params) \in Nat
  BY LenProperties DEF TypeInv, TypeOK
<1> QED BY <1>1, <1>2, PostFacts DEF AtSection

(* There is room for the sections that have not been told of.              *)
LEMMA RoomIsLeft ==
    ASSUME Plain, NEW k \in Nat, k = Len(params), Len(post) \in Nat, k < Len(post)
    PROVE  ~NoRoom
<1>1. Len(post) <= MAXPOSTPARAMS /\ MAXPOSTPARAMS \in Nat
  BY SizesAssumption DEF Plain
<1> QED BY <1>1 DEF NoRoom

(* A variable takes the parser to the next section.                        *)
LEMMA VariableStep ==
    ASSUME TypeInv, ~Direct, Plain, NEW P, Layout(P), ParserInv(P), Variable
    PROVE  ParserInv(P)'
<1> DEFINE k == Len(params)
           o == Lead(k)
<1>1. /\ pc = "scan" /\ Reading /\ ~pchFilename /\ Boundaries # {} /\ HasHeader
      /\ ~IsFile
  BY DEF Variable, Boundary, Reading
<1>2. /\ Window /\ AtSection(P, k) /\ k \in 0 .. Len(post) /\ k \in Nat
      /\ \A u \in 1 .. Len(uploads) : uploads[u] = Complete
  BY <1>1, InFrontOfSection
<1>3. /\ k < Len(post) /\ writeLocation >= o + 3
      /\ k = 0 => writeLocation >= P[1] + 1
  BY <1>1, <1>2, HeaderRead
<1>4. /\ o \in {0, 1} /\ Least(Starts) = o + 2 /\ Least(Ends) = o + 3
      /\ Found({"hend"}, o + 2) # {} /\ Least(Found({"hend"}, o + 2)) = o + 3
      /\ post[k + 1] # "file"
      /\ \A j \in 1 .. o + 3 : buffer[j] # "0"
      /\ \A i \in Int : i >= 1 /\ o + i <= writeLocation => buffer[o + i] = body[P[k] + i]
  BY <1>1, <1>2, <1>3, HeaderFound
<1>5. /\ k + 1 \in 1 .. Len(post) /\ (k + 1) - 1 = k /\ P[k] \in Nat
      /\ writeLocation \in Nat /\ writeLocation <= Size /\ Size \in Nat
      /\ Len(post) \in Nat /\ Gone = P[k] - o
  <2>1. Len(post) \in Nat
    BY PostFacts
  <2>2. k + 1 \in 1 .. Len(post) /\ (k + 1) - 1 = k
    BY <2>1, <1>2, <1>3
  <2>3. P[k] \in Nat /\ Gone = P[k] - o
    BY <1>2, BodyEnds DEF AtSection
  <2>4. writeLocation \in Nat /\ writeLocation <= Size /\ Size \in Nat
    BY SizesAssumption DEF TypeInv, TypeOK
  <2> QED BY <2>1, <2>2, <2>3, <2>4
<1>6. post[k + 1] = "var"
  BY <1>4, <1>5, PostFacts
<1>7. P[k + 1] = P[k] + 5 /\ body[P[k] + 4] = "v" /\ body[P[k] + 5] = "nl"
  BY <1>5, <1>6, VariablePlaces
<1>8. o = 0 => k = 0 /\ writeLocation >= 5
  <2> SUFFICES ASSUME o = 0 PROVE k = 0 /\ writeLocation >= 5
    OBVIOUS
  <2>1. k = 0
    BY DEF Lead
  <2>2. P[1] = 0 + 5 /\ writeLocation >= P[1] + 1
    BY <2>1, <1>3, <1>7, BodyEnds
  <2> QED BY <2>1, <2>2, <1>5
<1>9. o = 1 => \A i \in writeLocation + 1 .. Size : buffer[i] = "0"
  BY <1>2 DEF AtSection, Lead
<1>10. k \in Nat
  BY <1>2
<1>11. /\ k = Len(params)
  OBVIOUS
<1> HIDE DEF k, o
(* The value and the line break behind it have come.                       *)
<1> DEFINE breaks == Found(LineBreak, o + 4)
<1>12. breaks # {}
  <2>1. Found(LineBreak, Least(Ends) + 1) # {} /\ o + 3 + 1 = o + 4
    BY <1>4 DEF Variable
  <2>2. Least(Ends) + 1 = o + 4
    BY <2>1, <1>4
  <2> QED BY <2>1, <2>2
<1>13. writeLocation >= o + 5
  <2>1. CASE o = 0
    BY <2>1, <1>8
  <2>2. CASE o = 1
    <3>1. PICK i \in o + 4 .. Size : buffer[i] \in LineBreak /\ buffer[i] # "0"
      <4>1. PICK i \in breaks : TRUE
        BY <1>12
      <4>2. /\ i \in o + 4 .. Size /\ buffer[i] \in LineBreak
            /\ \A j \in 1 .. i : buffer[j] # "0"
        BY <4>1 DEF Found
      <4>3. i \in 1 .. i
        BY <4>2, <1>4
      <4> QED BY <4>2, <4>3
    <3>2. i <= writeLocation
      <4> SUFFICES ASSUME ~(i <= writeLocation) PROVE FALSE
        OBVIOUS
      <4>1. i \in writeLocation + 1 .. Size
        BY <3>1, <1>4, <1>5
      <4> QED BY <4>1, <3>1, <2>2, <1>9
    <3>3. i # o + 4
      <4> SUFFICES ASSUME i = o + 4 PROVE FALSE
        OBVIOUS
      <4>1. 4 \in Int /\ 4 >= 1 /\ o + 4 <= writeLocation
        BY <3>2
      <4>2. buffer[i] = "v"
        BY <4>1, <1>4, <1>7
      <4> QED BY <4>2, <3>1 DEF LineBreak
    <3> QED BY <3>1, <3>2, <3>3, <1>4, <1>5
  <2> QED BY <2>1, <2>2, <1>4
<1>14. buffer[o + 4] = "v" /\ buffer[o + 5] = "nl"
  <2>1. /\ 4 \in Int /\ 4 >= 1 /\ o + 4 <= writeLocation
        /\ 5 \in Int /\ 5 >= 1 /\ o + 5 <= writeLocation
    BY <1>13, <1>4, <1>5
  <2>2. buffer[o + 4] = body[P[k] + 4] /\ buffer[o + 5] = body[P[k] + 5]
    BY <2>1, <1>4
  <2> QED BY <2>2, <1>7
<1>15. Least(breaks) = o + 5
  <2>1. o + 5 \in breaks
    <3>1. o + 5 \in o + 4 .. Size
      BY <1>13, <1>4, <1>5
    <3>2. ASSUME NEW j \in 1 .. o + 5 PROVE buffer[j] # "0"
      <4>1. j \in 1 .. o + 3 \/ j = o + 4 \/ j = o + 5
        BY <1>4
      <4> QED BY <4>1, <1>4, <1>14
    <3>3. "nl" \in LineBreak
      BY DEF LineBreak
    <3> QED BY <3>1, <3>2, <3>3, <1>14 DEF Found
  <2>2. ASSUME NEW i \in breaks PROVE o + 5 <= i
    <3>1. i \in o + 4 .. Size /\ buffer[i] \in LineBreak
      BY DEF Found
    <3>2. i # o + 4
      BY <3>1, <1>14 DEF LineBreak
    <3> QED BY <3>1, <3>2, <1>4
  <2>3. breaks \subseteq Nat
    <3>1. o + 4 \in Nat /\ o + 4 >= 1
      BY <1>4
    <3> QED BY <3>1, FoundInBuffer
  <2> QED BY <2>1, <2>2, <2>3, LeastIs
<1> HIDE DEF breaks
<1>22. ~NoRoom
  <2>1. k < Len(post) /\ Len(post) \in Nat
    BY <1>3, <1>5
  <2> QED BY <2>1, <1>10, <1>11, RoomIsLeft
<1>16. /\ params' = Append(params, SubSeq(buffer, o + 4, o + 4))
       /\ NextSection(o + 5)
       /\ UNCHANGED <<sent, received, pchFilename, uploads>>
  <2>1. o + 3 + 1 = o + 4 /\ o + 5 - 1 = o + 4
    <3>1. o \in Nat
      BY <1>4
    <3> HIDE DEF o
    <3> QED BY <3>1
  <2>2. Found({"hend"}, Least(Starts)) = Found({"hend"}, o + 2)
    BY <1>4
  <2>3. Least(Found({"hend"}, Least(Starts))) + 1 = o + 4
    BY <2>1, <2>2, <1>4
  <2>4. Found(LineBreak, Least(Found({"hend"}, Least(Starts))) + 1) = breaks
    BY <2>3 DEF breaks
  <2>5. /\ Found({"hend"}, Least(Starts)) # {} /\ breaks # {} /\ ~NoRoom
        /\ Least(breaks) = o + 5
    BY <2>2, <1>4, <1>12, <1>15, <1>22
  <2> DEFINE headers == Found({"hend"}, Least(Starts))
             l == Least(headers) + 1
  <2>6. /\ params' = Append(params, SubSeq(buffer, l, Least(Found(LineBreak, l)) - 1))
        /\ NextSection(Least(Found(LineBreak, l)))
        /\ UNCHANGED <<sent, received, pchFilename, uploads>>
    BY <2>4, <2>5 DEF Variable
  <2>7. l = o + 4 /\ Least(Found(LineBreak, l)) = o + 5
    BY <2>3, <2>4, <2>5
  <2> HIDE DEF l
  <2>8. Least(Found(LineBreak, l)) - 1 = o + 4
    <3> DEFINE q == Least(Found(LineBreak, l))
    <3>1. q = o + 5
      BY <2>7
    <3> HIDE DEF q
    <3>2. q - 1 = o + 4
      BY <3>1, <1>4
    <3> QED BY <3>2 DEF q
  <2> QED BY <2>6, <2>7, <2>8
<1>17. SubSeq(buffer, o + 4, o + 4) = <<"v">>
  <2> DEFINE a == o + 4
  <2>1. /\ a \in Nat /\ a >= 1 /\ a <= Size /\ a <= a + 1 /\ a - a + 1 = 1
        /\ a + 1 - 1 = a /\ buffer \in [1 .. Size -> Tokens]
    <3>1. buffer \in [1 .. Size -> Tokens]
      BY DEF TypeInv, TypeOK
    <3>2. o \in Nat
      BY <1>4
    <3>3. writeLocation \in Nat /\ writeLocation <= Size /\ Size \in Nat
      BY <1>5
    <3> HIDE DEF o
    <3>4. a \in Nat /\ a >= 1 /\ a <= Size
      BY <3>2, <3>3, <1>13
    <3> HIDE DEF a
    <3>5. a <= a + 1 /\ a - a + 1 = 1 /\ a + 1 - 1 = a
      BY <3>4
    <3> QED BY <3>1, <3>4, <3>5
  <2>2. buffer[a] = "v"
    BY <1>14
  <2> HIDE DEF a
  <2>3. /\ SubSeq(buffer, a, a) \in Seq(Tokens)
        /\ Len(SubSeq(buffer, a, a)) = 1
        /\ SubSeq(buffer, a, a)[1] = "v"
    <3>1. /\ SubSeq(buffer, a, a) \in Seq(Tokens)
          /\ Len(SubSeq(buffer, a, a)) = a - a + 1
          /\ \A i \in 1 .. a - a + 1 : SubSeq(buffer, a, a)[i] = buffer[a + i - 1]
      BY <2>1, PartOfBuffer
    <3>2. 1 \in 1 .. a - a + 1
      BY <2>1
    <3> QED BY <2>1, <2>2, <3>1, <3>2
  <2>4. SubSeq(buffer, a, a) = <<"v">>
    <3> DEFINE s == SubSeq(buffer, a, a)
    <3>1. s \in Seq(Tokens) /\ Len(s) = 1 /\ s[1] = "v"
      BY <2>3
    <3> HIDE DEF s
    <3>2. s = <<"v">>
      BY <3>1
    <3> QED BY <3>2 DEF s
  <2> QED BY <2>4 DEF a
<1>18. params' = Append(params, <<"v">>)
  BY <1>16, <1>17
<1>19. /\ Len(params') = k + 1
       /\ \A l \in 1 .. k + 1 :
             params'[l] = IF post[l] = "var" THEN <<"v">> ELSE <<"f">>
  <2>1. params \in Seq(Told) /\ <<"v">> \in Told
    <3>1. <<"v">> \in Seq(Tokens)
      BY DEF Tokens
    <3> QED BY <3>1 DEF TypeInv, TypeOK, Told
  <2>2. /\ Len(params') = k + 1 /\ params'[k + 1] = <<"v">>
        /\ \A l \in 1 .. k : params'[l] = params[l]
    BY <2>1, <1>11, <1>18, AppendProperties
  <2>3. \A l \in 1 .. k : params[l] = IF post[l] = "var" THEN <<"v">> ELSE <<"f">>
    BY <1>11 DEF ParserInv, ParamsRight
  <2>4. \A l \in 1 .. k + 1 : l \in 1 .. k \/ l = k + 1
    BY <1>10
  <2> QED BY <2>2, <2>3, <2>4, <1>6
<1>20. /\ o + 5 \in Nat /\ o + 5 >= 1 /\ (o + 5) - 1 <= writeLocation
       /\ Gone + ((o + 5) - 1) = P[k + 1] - 1 /\ Size >= 5
  <2>1. o + 5 \in Nat /\ o + 5 >= 1 /\ (o + 5) - 1 <= writeLocation /\ Size >= 5
    BY <1>4, <1>5, <1>13
  <2>2. P[k + 1] = P[k] + 5
    BY <1>7
  <2> DEFINE a == P[k]
             b == P[k + 1]
  <2>3. a \in Nat /\ b = a + 5 /\ Gone = a - o
    BY <1>5, <2>2
  <2> HIDE DEF a, b
  <2>4. Gone + ((o + 5) - 1) = b - 1
    BY <2>3, <1>4
  <2> QED BY <2>1, <2>4 DEF b
<1>21. /\ UNCHANGED <<sent, received>> /\ pchFilename' = FALSE
       /\ \A u \in 1 .. Len(uploads') : uploads'[u] = Complete
  BY <1>1, <1>2, <1>16 DEF TypeInv, TypeOK
<1> QED BY <1>1, <1>2, <1>5, <1>16, <1>19, <1>20, <1>21, NextSectionStep

(* The header of a file takes the parser into the file.                    *)
LEMMA FileHeaderStep ==
    ASSUME TypeInv, ~Direct, Plain, NEW P, Layout(P), ParserInv(P), FileHeader
    PROVE  ParserInv(P)'
<1>0. PICK k : k = Len(params)
  OBVIOUS
<1> DEFINE o == Lead(k)
           new == [data |-> <<>>, last |-> FALSE]
<1>1. /\ pc = "scan" /\ Reading /\ ~pchFilename /\ Boundaries # {} /\ HasHeader
      /\ IsFile /\ result = "open"
  BY DEF FileHeader, Boundary, Reading, TypeInv
<1>2. /\ Window /\ AtSection(P, k) /\ k \in 0 .. Len(post) /\ k \in Nat
      /\ \A u \in 1 .. Len(uploads) : uploads[u] = Complete
  BY <1>0, <1>1, InFrontOfSection
<1>3. /\ k < Len(post) /\ writeLocation >= o + 3
      /\ k = 0 => writeLocation >= P[1] + 1
  BY <1>1, <1>2, HeaderRead
<1>4. /\ o \in {0, 1} /\ Found({"hend"}, o + 2) # {}
      /\ Least(Found({"hend"}, o + 2)) = o + 3
      /\ post[k + 1] = "file" /\ Least(Found({"df"}, 1)) = o + 2
  BY <1>1, <1>2, <1>3, HeaderFound
<1>5. /\ k + 1 \in 1 .. Len(post) /\ (k + 1) - 1 = k /\ P[k] \in Nat
      /\ Len(post) \in Nat /\ Gone = P[k] - o
  BY <1>2, <1>3, PostFacts, BodyEnds DEF AtSection
<1>6. /\ writeLocation \in Nat /\ writeLocation <= Size /\ Size \in Nat
      /\ received \in Nat /\ Gone = received - writeLocation /\ Gone \in Int
  BY SizesAssumption DEF TypeInv, TypeOK, Gone
<1>7. P[k + 1] \in Nat /\ P[k + 1] >= P[k] + 4
  BY <1>5, SectionPlaces
<1>8. o = 0 => k = 0 /\ P[0] = 0 /\ writeLocation >= P[1] + 1
  <2>1. o = 0 => k = 0
    BY DEF Lead
  <2>2. k = 0 => k + 1 = 1
    OBVIOUS
  <2> QED BY <2>1, <2>2, <1>3, <1>4, BodyEnds
<1>9. o = 1 => /\ k >= 1 /\ Size >= 5
               /\ \A i \in writeLocation + 1 .. Size : buffer[i] = "0"
  BY <1>2 DEF AtSection, Lead
<1>10. k = Len(params) /\ k \in Nat
  BY <1>0, <1>2
<1> HIDE DEF o
<1> DEFINE h == o + 3
<1>11. /\ params' = Append(params, <<"f">>) /\ pchFilename' = TRUE
       /\ uploads' = Append(uploads, new) /\ buffer' = Shifted(h)
       /\ writeLocation' = writeLocation - h
       /\ pc' = (IF writeLocation' = 0 THEN "full" ELSE "scan") /\ result' = result
       /\ UNCHANGED <<post, file, body, start, refuses, received>>
  <2> DEFINE at == Least(Found({"df"}, 1))
             g  == Least(Found({"hend"}, at))
  <2>1. g = h
    BY <1>4
  <2>2. h \in Nat /\ ~(h > writeLocation)
    BY <1>3, <1>4, <1>6
  <2>5. ~NoRoom
    BY <1>3, <1>5, <1>10, RoomIsLeft
  <2>3. IF g > writeLocation \/ NoRoom
        THEN Crash /\ UNCHANGED <<params, pchFilename, uploads>>
        ELSE /\ params' = Append(params, <<"f">>) /\ pchFilename' = TRUE
             /\ uploads' = Append(uploads, new) /\ buffer' = Shifted(g)
             /\ writeLocation' = writeLocation - g
             /\ pc' = (IF writeLocation' = 0 THEN "full" ELSE "scan")
             /\ UNCHANGED result
    BY DEF FileHeader
  <2>4. UNCHANGED <<post, file, body, start, refuses, received>>
    BY DEF FileHeader, sent
  <2> HIDE DEF g, h, new
  <2> QED BY <2>1, <2>2, <2>3, <2>4, <2>5
<1>12. /\ h \in Nat /\ h >= 3 /\ h <= writeLocation
  BY <1>3, <1>4, <1>6
<1>13. /\ writeLocation' \in Nat /\ writeLocation' <= Size
       /\ writeLocation' = writeLocation - h
  <2>1. writeLocation - h \in Nat /\ writeLocation - h <= Size
    BY <1>6, <1>12
  <2> QED BY <2>1, <1>11
<1>14. Gone' = Gone + h /\ Gone' = P[k] + 3
  <2>1. Gone' = received - (writeLocation - h)
    BY <1>11 DEF Gone
  <2>2. received - (writeLocation - h) = Gone + h
    BY <1>6, <1>12
  <2>3. Gone + h = P[k] + 3
    <3>1. h = o + 3 /\ o \in {0, 1}
      BY <1>4
    <3>2. P[k] \in Nat /\ Gone = P[k] - o
      BY <1>5
    <3> HIDE DEF h, o
    <3> QED BY <3>1, <3>2
  <2> QED BY <2>1, <2>2, <2>3
<1> HIDE DEF h
<1>15. Window'
  <2> SUFFICES ASSUME NEW l \in 1 .. writeLocation'
               PROVE  buffer'[l] = body'[Gone' + l]
    BY DEF Window
  <2>1. /\ l \in 1 .. Size /\ l + h <= writeLocation /\ l + h \in 1 .. writeLocation
        /\ Gone + (l + h) = Gone + h + l
    BY <1>6, <1>12, <1>13
  <2>2. buffer'[l] = buffer[l + h]
    BY <2>1, <1>11 DEF Shifted
  <2>3. buffer[l + h] = body[Gone + (l + h)]
    BY <2>1, <1>2 DEF Window
  <2> QED BY <2>1, <2>2, <2>3, <1>11, <1>14
<1>16. /\ Len(params') = k + 1 /\ ParamsRight'
  <2>1. params \in Seq(Told) /\ <<"f">> \in Told
    BY DEF TypeInv, TypeOK, Told
  <2>2. /\ Len(params') = k + 1 /\ params'[k + 1] = <<"f">>
        /\ \A l \in 1 .. k : params'[l] = params[l]
    BY <2>1, <1>10, <1>11, AppendProperties
  <2>3. \A l \in 1 .. k : params[l] = IF post[l] = "var" THEN <<"v">> ELSE <<"f">>
    BY <1>10 DEF ParserInv, ParamsRight
  <2>4. \A l \in 1 .. k + 1 : l \in 1 .. k \/ l = k + 1
    BY <1>10
  <2>5. \A l \in 1 .. k + 1 : params'[l] = IF post[l] = "var" THEN <<"v">> ELSE <<"f">>
    BY <2>2, <2>3, <2>4, <1>4
  <2>6. k + 1 <= Len(post)
    BY <1>5
  <2> QED BY <2>2, <2>5, <2>6, <1>11 DEF ParamsRight
<1>17. /\ Len(uploads') = Len(uploads) + 1 /\ Len(uploads) \in Nat
       /\ uploads'[Len(uploads')] = new
       /\ \A u \in 1 .. Len(uploads') - 1 : uploads'[u] = Complete
  <2>1. uploads \in Seq(Upload) /\ new \in Upload
    <3>1. <<>> \in Seq(Tokens)
      BY EmptySeq
    <3> QED BY <3>1 DEF Upload, TypeInv, TypeOK
  <2> HIDE DEF new
  <2>2. /\ Len(uploads') = Len(uploads) + 1 /\ Len(uploads) \in Nat
        /\ uploads'[Len(uploads) + 1] = new
        /\ \A u \in 1 .. Len(uploads) : uploads'[u] = uploads[u]
    BY <2>1, <1>11, AppendProperties, LenProperties
  <2>3. Len(uploads') - 1 = Len(uploads)
    BY <2>2
  <2> QED BY <2>2, <2>3, <1>2
<1>18. Size >= 5
  <2>1. o = 0 => P[1] \in Nat /\ P[1] >= 4
    BY <1>7, <1>8
  <2> QED BY <2>1, <1>4, <1>6, <1>8, <1>9
<1>19. ASSUME received <= P[k + 1], NEW i \in writeLocation' + 1 .. Size,
              buffer'[i] = "bd"
       PROVE  i = 2 /\ k + 1 > 1
  <2>1. o = 1
    <3> SUFFICES ASSUME o = 0 PROVE FALSE
      BY <1>4
    <3>1. k = 0 /\ P[0] = 0 /\ writeLocation >= P[1] + 1 /\ P[1] \in Nat
      BY <1>7, <1>8
    <3>2. received <= P[1] /\ Gone = 0
      BY <3>1, <1>5, <1>19
    <3> QED BY <3>1, <3>2, <1>6
  <2>2. i \in 1 .. Size /\ ~(i + h <= writeLocation)
    BY <1>6, <1>12, <1>13
  <2>3. buffer[i] = "bd"
    BY <2>2, <1>11, <1>19 DEF Shifted
  <2>4. i \in 1 .. writeLocation
    <3> SUFFICES ASSUME ~(i <= writeLocation) PROVE FALSE
      BY <2>2
    <3>1. i \in writeLocation + 1 .. Size
      BY <2>2, <1>6
    <3> QED BY <3>1, <2>1, <2>3, <1>9
  <2>5. body[P[k] - 1 + i] = "bd"
    <3>1. Gone + i = P[k] - 1 + i
      BY <2>1, <1>5
    <3>2. buffer[i] = body[Gone + i]
      BY <2>4, <1>2 DEF Window
    <3> QED BY <3>1, <3>2, <2>3
  <2> DEFINE a == P[k]
             b == P[k + 1]
  <2>6. a \in Nat /\ b \in Nat /\ Gone = a - 1 /\ received <= b
    BY <2>1, <1>5, <1>7, <1>19
  <2>7. /\ \A l \in Int : l >= a + 2 /\ l <= b => body[l] # "bd"
    BY <1>5, SectionInside
  <2>8. i # 1
    <3>1. k \in 1 .. Len(post)
      BY <2>1, <1>5, <1>9
    <3>2. body[P[k]] = "nl" /\ P[k] - 1 + 1 = P[k]
      BY <3>1, <1>5, BodyEnds
    <3> QED BY <3>2, <2>5
  <2>9. body[a - 1 + i] = "bd"
    BY <2>5
  <2> HIDE DEF a, b
  <2>10. a - 1 + i \in Int /\ a - 1 + i <= b
    BY <2>4, <2>6, <1>6
  <2>11. ~(a - 1 + i >= a + 2)
    BY <2>7, <2>9, <2>10
  <2>12. i = 2
    BY <2>4, <2>6, <2>8, <2>11, <1>6
  <2> QED BY <2>1, <2>12, <1>9, <1>10
<1>20. /\ pc' = "scan" => writeLocation' >= 1
       /\ pc' = "full" => writeLocation' < Size
       /\ pc' \in {"scan", "full"}
  <2>1. writeLocation' = 0 \/ writeLocation' >= 1
    BY <1>13
  <2>2. CASE writeLocation' = 0
    <3>1. pc' = "full" /\ writeLocation' < Size
      BY <2>2, <1>6, <1>11, <1>18
    <3> QED BY <3>1
  <2>3. CASE writeLocation' >= 1
    <3>1. writeLocation' # 0
      BY <2>3
    <3>2. pc' = "scan"
      BY <3>1, <1>11
    <3> QED BY <3>2, <2>3
  <2> QED BY <2>1, <2>2, <2>3
<1>21. InFile(P, k + 1, 0)'
  <2>1. pchFilename' /\ k + 1 >= 1 /\ post'[k + 1] = "file"
    BY <1>4, <1>10, <1>11
  <2>2. 0 \in 0 .. Len(file) /\ SubSeq(file, 1, 0) = <<>>
    BY PostFacts, SubSeqEmpty
  <2>3. uploads'[Len(uploads')] = [data |-> SubSeq(file', 1, 0), last |-> FALSE]
    BY <2>2, <1>11, <1>17
  <2>4. Complete' = Complete /\ file' = file
    BY <1>11 DEF Complete
  <2>5. Gone' = P[(k + 1) - 1] + 3 + 0
    <3>1. P[k] + 3 = P[k] + 3 + 0
      BY <1>5
    <3> QED BY <3>1, <1>5, <1>14
  <2>6. received' = received
    BY <1>11
  <2>7. received' <= P[k + 1] => \A i \in writeLocation' + 1 .. Size :
           buffer'[i] = "bd" => i = 2 /\ 0 = 0 /\ k + 1 > 1
    BY <2>6, <1>19
  <2>8. \A u \in 1 .. Len(uploads') - 1 : uploads'[u] = Complete'
    BY <2>4, <1>17
  <2>9. 0 \in 0 .. Len(file')
    BY <2>2, <2>4
  <2> HIDE DEF new
  <2> QED BY <2>1, <2>3, <2>5, <2>7, <2>8, <2>9, <1>18, <1>20 DEF InFile
<1>22. Reading' /\ pc' # "first" /\ pc' # "over" /\ 0 \in Nat
       /\ pc' \in {"first", "read", "scan", "full", "over"}
  BY <1>20 DEF Reading
<1> HIDE DEF new
<1>23. \E l \in Nat : InFile(P, Len(params), l)'
  <2>1. InFile(P, Len(params), 0)'
    BY <1>16, <1>21 DEF InFile
  <2> QED BY <2>1, <1>22
<1> QED BY <1>15, <1>16, <1>22, <1>23 DEF ParserInv

(* The boundary that is found in a file is the one behind it.              *)
LEMMA FileBoundary ==
    ASSUME TypeInv, ~Direct, Plain, NEW P, Layout(P), NEW k \in 1 .. Len(post),
           NEW j \in Nat, Window, InFile(P, k, j), pc = "scan", Boundaries # {}
    PROVE  /\ Least(Boundaries) = Len(file) - j + 1
           /\ Least(Boundaries) - 1 <= writeLocation
           /\ Gone + (Least(Boundaries) - 1) = P[k] - 1
           /\ \A i \in 1 .. Len(file) - j : buffer[i] = file[j + i]
           /\ buffer[Least(Boundaries)] = "nl"
<1> DEFINE a == P[k - 1]
           n == Len(file)
           b == n - j + 1
<1>1. /\ a \in Nat /\ P[k] \in Nat /\ P[k] = a + 4 + n /\ n \in Nat /\ j <= n
      /\ body[P[k]] = "nl"
      /\ \A i \in 1 .. n : body[a + 3 + i] = file[i]
      /\ \A i \in Int : i >= a + 2 /\ i <= P[k] => body[i] # "bd"
  <2>1. post[k] = "file" /\ j \in 0 .. n
    BY DEF InFile
  <2>2. a \in Nat /\ P[k] \in Nat /\ n \in Nat /\ P[k] = a + (4 + n) /\ body[P[k]] = "nl"
    BY <2>1, FilePlaces
  <2>3. \A i \in 1 .. n : body[a + 3 + i] = file[i]
    BY <2>1, SectionPlaces
  <2>4. \A i \in Int : i >= a + 2 /\ i <= P[k] => body[i] # "bd"
    BY SectionInside
  <2> HIDE DEF a, n
  <2>5. P[k] = a + 4 + n
    BY <2>2
  <2> QED BY <2>1, <2>2, <2>3, <2>4, <2>5
<1>2. /\ Gone = a + 3 + j /\ writeLocation >= 1
      /\ received <= P[k] => \A i \in writeLocation + 1 .. Size :
            buffer[i] = "bd" => i = 2 /\ j = 0 /\ k > 1
  BY DEF InFile
<1>3. /\ writeLocation \in Nat /\ writeLocation <= Size /\ Size \in Nat
      /\ received \in Nat /\ Gone = received - writeLocation
  BY SizesAssumption DEF TypeInv, TypeOK, Gone
<1>8. post[k] = "file" /\ post \in Seq({"var", "file"})
  BY PostFacts DEF InFile
<1>12. P[Len(post)] \in Nat /\ Len(body) = P[Len(post)] + 2 /\ body[P[Len(post)] + 1] = "bd"
  BY BodyEnds
<1>13. k < Len(post) => body[P[k] + 1] = "bd"
  <2> SUFFICES ASSUME k < Len(post) PROVE body[P[k] + 1] = "bd"
    OBVIOUS
  <2>1. k + 1 \in 1 .. Len(post) /\ (k + 1) - 1 = k
    BY PostFacts
  <2> QED BY <2>1, SectionPlaces
<1>14. body[P[k] + 1] = "bd"
  <2>1. k = Len(post) \/ k < Len(post)
    BY PostFacts
  <2> QED BY <2>1, <1>12, <1>13
<1> HIDE DEF a, n
<1>4. b \in Nat /\ b >= 1 /\ Gone + b = P[k] /\ Gone + (b - 1) = P[k] - 1
  BY <1>1, <1>2
<1>9. Boundaries \subseteq Nat
  BY <1>3 DEF Boundaries
<1> HIDE DEF b
<1>5. CASE received >= P[k] + 1
  <2>1. b + 1 <= writeLocation /\ b \in 1 .. writeLocation /\ b + 1 \in 1 .. writeLocation
        /\ Gone + (b + 1) = P[k] + 1 /\ b \in 1 .. Size - 1
    BY <1>1, <1>3, <1>4, <1>5
  <2>2. buffer[b] = body[Gone + b] /\ buffer[b + 1] = body[Gone + (b + 1)]
    BY <2>1 DEF Window
  <2>3. b \in Boundaries
    BY <2>1, <2>2, <1>1, <1>4, <1>14 DEF Boundaries
  <2>4. ASSUME NEW i \in Boundaries PROVE b <= i
    <3> SUFFICES ASSUME ~(b <= i) PROVE FALSE
      OBVIOUS
    <3>1. i \in 1 .. Size - 1 /\ buffer[i + 1] = "bd"
      BY DEF Boundaries
    <3>2. i + 1 \in 1 .. writeLocation
      BY <3>1, <2>1, <1>3, <1>4
    <3>3. body[Gone + (i + 1)] = "bd"
      BY <3>1, <3>2 DEF Window
    <3>4. Gone + (i + 1) \in Int /\ Gone + (i + 1) >= a + 2 /\ Gone + (i + 1) <= P[k]
      BY <3>1, <1>1, <1>2, <1>4
    <3> QED BY <3>3, <3>4, <1>1
  <2>5. Least(Boundaries) = b
    BY <2>3, <2>4, <1>9, LeastIs
  <2>6. ASSUME NEW i \in 1 .. n - j PROVE buffer[i] = file[j + i]
    <3>4. n \in Nat /\ j \in Nat /\ a \in Nat /\ j <= n /\ Gone = a + 3 + j /\ b = n - j + 1
      BY <1>1, <1>2 DEF b
    <3>5. b <= writeLocation
      BY <2>1, <1>3, <1>4
    <3>6. i \in Nat /\ i >= 1 /\ i <= b - 1 /\ j + i \in 1 .. n
      BY <3>4
    <3>1. /\ i \in 1 .. writeLocation /\ Gone + i = a + 3 + (j + i) /\ j + i \in 1 .. n
      BY <3>4, <3>5, <3>6, <1>3, <1>4
    <3>2. buffer[i] = body[Gone + i]
      BY <3>1 DEF Window
    <3> QED BY <3>1, <3>2, <1>1
  <2>7. b - 1 <= writeLocation
    BY <2>1, <1>3, <1>4
  <2>8. buffer[b] = "nl"
    BY <2>2, <1>1, <1>4
  <2> QED BY <2>5, <2>6, <2>7, <2>8, <1>4 DEF b, n
<1>6. CASE ~(received >= P[k] + 1)
  <2>1. received <= P[k]
    BY <1>1, <1>3, <1>6
  <2>2. PICK i \in 1 .. Size - 1 : buffer[i] \in {"nl", "hend"} /\ buffer[i + 1] = "bd"
    BY DEF Boundaries
  <2>3. i + 1 > writeLocation
    <3> SUFFICES ASSUME ~(i + 1 > writeLocation) PROVE FALSE
      OBVIOUS
    <3>1. i + 1 \in 1 .. writeLocation
      BY <1>3
    <3>2. body[Gone + (i + 1)] = "bd"
      BY <3>1, <2>2 DEF Window
    <3>3. Gone + (i + 1) \in Int /\ Gone + (i + 1) >= a + 2 /\ Gone + (i + 1) <= P[k]
      BY <3>1, <2>1, <1>1, <1>2, <1>3
    <3> QED BY <3>2, <3>3, <1>1
  <2>4. i + 1 = 2 /\ j = 0 /\ k > 1
    <3>1. i + 1 \in writeLocation + 1 .. Size
      BY <2>3, <1>3
    <3> QED BY <3>1, <2>1, <2>2, <1>2
  <2>5. i = 1 /\ writeLocation = 1
    BY <2>3, <2>4, <1>2, <1>3
  <2>6. n = 0
    <3> SUFFICES ASSUME n # 0 PROVE FALSE
      OBVIOUS
    <3>1. 1 \in 1 .. n
      BY <1>1
    <3>2. body[a + 3 + 1] = file[1]
      BY <3>1, <1>1
    <3>3. 1 \in 1 .. writeLocation /\ Gone + 1 = a + 3 + 1
      BY <2>4, <2>5, <1>1, <1>2
    <3>4. file[1] \in {"nl", "hend"}
      BY <3>2, <3>3, <2>2, <2>5 DEF Window
    <3>5. k \in DOMAIN post
      BY <1>8, LenProperties
    <3>6. file = <<>>
      BY <3>4, <3>5, <2>4, <1>8 DEF Plain, PlainStart
    <3> QED BY <3>6 DEF n
  <2>7. b = 1
    BY <2>4, <2>6 DEF b
  <2>8. 1 \in Boundaries /\ \A l \in Boundaries : 1 <= l
    BY <2>2, <2>5 DEF Boundaries
  <2>9. Least(Boundaries) = b
    BY <2>7, <2>8, <1>9, LeastIs
  <2>10. b - 1 <= writeLocation /\ 1 .. n - j = {}
    BY <2>4, <2>5, <2>6, <2>7
  <2>11. buffer[b] = "nl"
    <3>1. b \in 1 .. writeLocation
      BY <2>5, <2>7
    <3>2. buffer[b] = body[Gone + b]
      BY <3>1 DEF Window
    <3> QED BY <3>2, <1>1, <1>4
  <2> QED BY <2>9, <2>10, <2>11, <1>4 DEF b, n
<1> QED BY <1>5, <1>6

(* The file and its beginnings.                                            *)
LEMMA FileFacts ==
    ASSUME TypeInv
    PROVE  /\ file \in Seq(Data) /\ Len(file) \in Nat
           /\ \A j \in 0 .. Len(file) : Len(SubSeq(file, 1, j)) = j
           /\ SubSeq(file, 1, Len(file)) = file
<1>1. file \in Seq(Data)
  BY FilesAssumption DEF TypeInv, TypeOK
<1>2. Len(file) \in Nat /\ \A i \in 1 .. Len(file) : file[i] \in Data
  BY <1>1, ElementOfSeq, LenProperties
<1>3. ASSUME NEW j \in 0 .. Len(file) PROVE Len(SubSeq(file, 1, j)) = j
  <2>1. 1 \in Int /\ j \in Int /\ \A i \in 1 .. j : file[i] \in Data
    BY <1>2
  <2>2. Len(SubSeq(file, 1, j)) = IF 1 <= j THEN j - 1 + 1 ELSE 0
    BY <2>1, SubSeqProperties
  <2> QED BY <2>2, <1>2
<1> QED BY <1>1, <1>2, <1>3, SubSeqFull

(* A piece of a file joins what was passed on before it.                   *)
LEMMA FileGrows ==
    ASSUME TypeInv, NEW j \in Nat, NEW m \in Nat,
           j + m <= Len(file), m <= Size, \A i \in 1 .. m : buffer[i] = file[j + i]
    PROVE  /\ SubSeq(file, 1, j) \o SubSeq(buffer, 1, m) = SubSeq(file, 1, j + m)
           /\ SubSeq(buffer, 1, m) \in Seq(Tokens)
<1> DEFINE x == SubSeq(file, 1, j)
           y == SubSeq(buffer, 1, m)
           z == SubSeq(file, 1, j + m)
<1>1. file \in Seq(Tokens) /\ Len(file) \in Nat
  <2>1. file \in Seq(Data) /\ Len(file) \in Nat
    BY FileFacts
  <2>2. Data \subseteq Tokens
    BY DEF Tokens
  <2> QED BY <2>1, <2>2, SeqMonotonic
<1>2. \A i \in 1 .. Len(file) : file[i] \in Tokens
  BY <1>1, ElementOfSeq
<1>3. ASSUME NEW l \in Nat, l <= Len(file)
      PROVE  /\ SubSeq(file, 1, l) \in Seq(Tokens)
             /\ Len(SubSeq(file, 1, l)) = l
             /\ \A i \in 1 .. l : SubSeq(file, 1, l)[i] = file[i]
  <2>1. 1 \in Int /\ l \in Int /\ \A i \in 1 .. l : file[i] \in Tokens
    BY <1>1, <1>2, <1>3
  <2>2. /\ SubSeq(file, 1, l) \in Seq(Tokens)
        /\ Len(SubSeq(file, 1, l)) = IF 1 <= l THEN l - 1 + 1 ELSE 0
        /\ \A i \in 1 .. l - 1 + 1 : SubSeq(file, 1, l)[i] = file[1 + i - 1]
    BY <2>1, SubSeqProperties
  <2>3. l - 1 + 1 = l /\ (IF 1 <= l THEN l - 1 + 1 ELSE 0) = l /\ \A i \in 1 .. l : 1 + i - 1 = i
    BY <1>3
  <2> QED BY <2>2, <2>3
<1>4. x \in Seq(Tokens) /\ Len(x) = j /\ \A i \in 1 .. j : x[i] = file[i]
  <2>1. j <= Len(file)
    BY <1>1
  <2> QED BY <2>1, <1>3
<1>5. z \in Seq(Tokens) /\ Len(z) = j + m /\ \A i \in 1 .. j + m : z[i] = file[i]
  <2>1. j + m \in Nat
    OBVIOUS
  <2> QED BY <2>1, <1>3
<1>6. y \in Seq(Tokens) /\ Len(y) = m /\ \A i \in 1 .. m : y[i] = buffer[i]
  <2>1. /\ 1 \in Nat /\ 1 >= 1 /\ 1 <= m + 1 /\ m - 1 + 1 = m
        /\ \A i \in 1 .. m : 1 + i - 1 = i
    OBVIOUS
  <2>2. buffer \in [1 .. Size -> Tokens]
    BY DEF TypeInv, TypeOK
  <2>3. /\ y \in Seq(Tokens) /\ Len(y) = m - 1 + 1
        /\ \A i \in 1 .. m - 1 + 1 : y[i] = buffer[1 + i - 1]
    BY <2>1, <2>2, PartOfBuffer
  <2> HIDE DEF y
  <2> QED BY <2>1, <2>3
<1> HIDE DEF x, y, z
<1> DEFINE w == x \o y
<1>7. /\ w \in Seq(Tokens) /\ Len(w) = j + m
      /\ \A i \in 1 .. j + m : w[i] = IF i <= j THEN x[i] ELSE y[i - j]
  <2>1. /\ x \o y \in Seq(Tokens) /\ Len(x \o y) = Len(x) + Len(y)
        /\ \A i \in 1 .. Len(x) + Len(y) :
              (x \o y)[i] = IF i <= Len(x) THEN x[i] ELSE y[i - Len(x)]
    BY <1>4, <1>6, ConcatProperties
  <2> QED BY <2>1, <1>4, <1>6
<1> HIDE DEF w
<1>8. ASSUME NEW i \in 1 .. j + m PROVE w[i] = z[i]
  <2>1. CASE i <= j
    <3>1. i \in 1 .. j
      BY <2>1
    <3> QED BY <3>1, <2>1, <1>4, <1>5, <1>7
  <2>2. CASE ~(i <= j)
    <3>1. i - j \in 1 .. m /\ j + (i - j) = i
      BY <2>2
    <3>2. w[i] = y[i - j] /\ y[i - j] = buffer[i - j] /\ buffer[i - j] = file[j + (i - j)]
      BY <3>1, <2>2, <1>6, <1>7
    <3> QED BY <3>1, <3>2, <1>5
  <2> QED BY <2>1, <2>2
<1>9. w = z
  BY <1>5, <1>7, <1>8, SeqEqual
<1> QED BY <1>6, <1>9 DEF w, x, y, z

(* The parser in a file.                                                   *)
LEMMA InsideFile ==
    ASSUME TypeInv, ~Direct, NEW P, ParserInv(P), Reading, pchFilename
    PROVE  /\ Window /\ Len(params) \in 1 .. Len(post)
           /\ \E j \in 0 .. Len(file) : InFile(P, Len(params), j)
<1>1. Window /\ Len(params) <= Len(post) /\ \E j \in Nat : InFile(P, Len(params), j)
  BY DEF ParserInv, AtSection, ParamsRight
<1>2. PICK j \in Nat : InFile(P, Len(params), j)
  BY <1>1
<1>3. Len(params) >= 1 /\ j \in 0 .. Len(file)
  BY <1>2 DEF InFile
<1>4. Len(params) \in Nat
  BY LenProperties DEF TypeInv, TypeOK
<1> QED BY <1>1, <1>2, <1>3, <1>4, PostFacts

(* The boundary takes the parser behind the file, passed on in whole.      *)
LEMMA LastChunkStep ==
    ASSUME TypeInv, ~Direct, Plain, NEW P, Layout(P), ParserInv(P), LastChunk
    PROVE  ParserInv(P)'
<1>0. PICK k : k = Len(params)
  OBVIOUS
<1>1. pc = "scan" /\ Reading /\ pchFilename /\ Boundaries # {}
  BY DEF LastChunk, Boundary, Reading
<1>2. Window /\ k \in 1 .. Len(post) /\ \E j \in 0 .. Len(file) : InFile(P, k, j)
  BY <1>0, <1>1, InsideFile
<1>3. PICK j \in 0 .. Len(file) : InFile(P, k, j)
  BY <1>2
<1>4. Len(file) \in Nat /\ j \in Nat /\ j <= Len(file)
  BY PostFacts
<1> DEFINE b == Least(Boundaries)
           m == Len(file) - j
<1>5. /\ b = m + 1 /\ b - 1 <= writeLocation /\ Gone + (b - 1) = P[k] - 1
      /\ \A i \in 1 .. m : buffer[i] = file[j + i]
      /\ buffer[b] = "nl"
  BY <1>1, <1>2, <1>3, <1>4, FileBoundary
<1>6. /\ Passed(SubSeq(buffer, 1, b - 1), TRUE) /\ NextSection(b)
      /\ pchFilename' = FALSE /\ UNCHANGED <<sent, received, params>>
  BY <1>5 DEF LastChunk
<1>7. m \in Nat /\ j + m = Len(file)
  BY <1>4
<1> HIDE DEF b, m
<1>8. /\ b - 1 = m /\ b \in Nat /\ b >= 1 /\ m <= writeLocation
      /\ writeLocation \in Nat /\ writeLocation <= Size /\ Size \in Nat
  BY <1>5, <1>7, SizesAssumption DEF TypeInv, TypeOK
<1>9. /\ SubSeq(file, 1, j) \o SubSeq(buffer, 1, m) = file
      /\ SubSeq(buffer, 1, m) \in Seq(Tokens)
  <2>1. j + m <= Len(file) /\ m <= Size
    BY <1>4, <1>7, <1>8
  <2>2. /\ SubSeq(file, 1, j) \o SubSeq(buffer, 1, m) = SubSeq(file, 1, j + m)
        /\ SubSeq(buffer, 1, m) \in Seq(Tokens)
    BY <2>1, <1>4, <1>5, <1>7, FileGrows
  <2>3. SubSeq(file, 1, Len(file)) = file
    BY SubSeqFull, PostFacts
  <2> QED BY <2>2, <2>3, <1>7
<1>10. \A u \in 1 .. Len(uploads') : uploads'[u] = Complete
  <2> DEFINE n == Len(uploads)
             data == SubSeq(buffer, 1, m)
  <2>1. uploads \in Seq(Upload) /\ uploads # <<>> /\ TRUE \in BOOLEAN
    BY <1>1 DEF TypeInv, TypeOK, Upload
  <2>2. Passed(data, TRUE) /\ data \in Seq(Tokens)
    BY <1>6, <1>8, <1>9
  <2> HIDE DEF data
  <2>3. /\ n \in Nat /\ n >= 1 /\ Len(uploads') = n
        /\ uploads'[n] = [data |-> uploads[n].data \o data, last |-> TRUE]
        /\ \A i \in 1 .. n - 1 : uploads'[i] = uploads[i]
    BY <2>1, <2>2, PassedProperties
  <2>4. uploads[n].data = SubSeq(file, 1, j) /\ \A u \in 1 .. n - 1 : uploads[u] = Complete
    BY <1>3 DEF InFile
  <2>5. uploads'[n] = Complete
    <3>1. uploads[n].data \o data = file
      BY <2>4, <1>9 DEF data
    <3> QED BY <3>1, <2>3 DEF Complete
  <2>6. \A u \in 1 .. n : u \in 1 .. n - 1 \/ u = n
    BY <2>3
  <2> QED BY <2>3, <2>4, <2>5, <2>6
<1>11. /\ Len(params') = k
       /\ \A l \in 1 .. k : params'[l] = IF post[l] = "var" THEN <<"v">> ELSE <<"f">>
  <2>1. params' = params
    BY <1>6
  <2>2. \A l \in 1 .. k : params[l] = IF post[l] = "var" THEN <<"v">> ELSE <<"f">>
    BY <1>0 DEF ParserInv, ParamsRight
  <2> QED BY <2>1, <2>2, <1>0
<1>12. Size >= 5
  BY <1>3 DEF InFile
<1>13. UNCHANGED <<sent, received>>
  BY <1>6
<1> QED BY <1>1, <1>2, <1>5, <1>6, <1>8, <1>10, <1>11, <1>12, <1>13, NextSectionStep

(* What has been told of and passed on while the parser reads.             *)
LEMMA HistoryRight ==
    ASSUME TypeInv, ~Direct, NEW P, ParserInv(P), pc # "first"
    PROVE  History
<1>1. CASE pc = "over"
  BY <1>1 DEF ParserInv
<1>2. CASE Reading /\ ~pchFilename
  <2>1. \A u \in 1 .. Len(uploads) : uploads[u] = Complete
    BY <1>2 DEF ParserInv, AtSection, InFile
  <2> QED BY <2>1, CompleteBegins DEF History
<1>3. CASE Reading /\ pchFilename
  <2>1. PICK j \in 0 .. Len(file) : InFile(P, Len(params), j)
    BY <1>3, InsideFile
  <2> DEFINE n == Len(uploads)
  <2>2. /\ \A u \in 1 .. n - 1 : uploads[u] = Complete
        /\ uploads[n] = [data |-> SubSeq(file, 1, j), last |-> FALSE]
    BY <2>1 DEF InFile
  <2>3. Begins(uploads[n])
    BY <2>2 DEF Begins
  <2>4. n \in Nat
    BY LenProperties DEF TypeInv, TypeOK
  <2> HIDE DEF n
  <2>5. \A u \in 1 .. n : u \in 1 .. n - 1 \/ u = n
    BY <2>4
  <2> QED BY <2>2, <2>3, <2>5, CompleteBegins DEF History, n
<1> QED BY <1>1, <1>2, <1>3 DEF ParserInv, Reading

(* Ending without being done.                                              *)
LEMMA EndStep ==
    ASSUME TypeInv, ~Direct, NEW P, ParserInv(P), pc # "first",
           UNCHANGED <<post, file, params, uploads>>,
           pc' = "over", result' \in {"nothing", "left", "toolarge"}
    PROVE  ParserInv(P)'
<1>1. History
  BY HistoryRight
<1>2. History'
  BY <1>1 DEF History, Begins
<1>3. ParamsRight'
  BY DEF ParserInv, ParamsRight
<1> QED BY <1>2, <1>3 DEF ParserInv, Reading

(* Going on without a change of what was read.                             *)
LEMMA GoOnStep ==
    ASSUME TypeInv, ~Direct, NEW P, ParserInv(P), Reading,
           UNCHANGED <<sent, received, buffer, writeLocation, pchFilename, params,
                       uploads>>,
           \/ pc' = "read"
           \/ pc' = "full" /\ (pchFilename => Boundaries = {})
    PROVE  ParserInv(P)'
<1>1. /\ UNCHANGED <<post, file, body, start, received, buffer, writeLocation,
                     pchFilename, params, uploads>>
      /\ pc' \in {"read", "full"}
  BY DEF sent
<1>2. PICK k : k = Len(params)
  OBVIOUS
<1>3. Window' /\ ParamsRight' /\ Boundaries' = Boundaries /\ Gone' = Gone
  BY <1>1 DEF ParserInv, Window, ParamsRight, Boundaries, Gone
<1>10. Complete' = Complete /\ (Seam => Seam')
  BY <1>1 DEF Complete, Seam
<1>4. ASSUME AtSection(P, k) PROVE AtSection(P, k)'
  <2>1. /\ ~pchFilename /\ \A u \in 1 .. Len(uploads) : uploads[u] = Complete
        /\ Gone = P[k] - Lead(k) /\ (k = 0 => Seam)
        /\ k # 0 => Size >= 5 /\ \A i \in writeLocation + 1 .. Size : buffer[i] = "0"
    BY <1>4 DEF AtSection
  <2>2. k # 0 => Size >= 5 /\ \A i \in writeLocation' + 1 .. Size : buffer'[i] = "0"
    BY <2>1, <1>1
  <2>3. \A u \in 1 .. Len(uploads') : uploads'[u] = Complete'
    BY <2>1, <1>1, <1>10
  <2>4. ~pchFilename' /\ Gone' = P[k] - Lead(k) /\ (k = 0 => Seam')
    BY <2>1, <1>1, <1>3, <1>10
  <2> QED BY <2>2, <2>3, <2>4 DEF AtSection
<1>5. ASSUME NEW j \in Nat, InFile(P, k, j) PROVE InFile(P, k, j)'
  <2>1. /\ pchFilename /\ k >= 1 /\ post[k] = "file" /\ j \in 0 .. Len(file)
        /\ \A u \in 1 .. Len(uploads) - 1 : uploads[u] = Complete
        /\ uploads[Len(uploads)] = [data |-> SubSeq(file, 1, j), last |-> FALSE]
        /\ Gone = P[k - 1] + 3 + j
        /\ Size >= 5
        /\ received <= P[k] => \A i \in writeLocation + 1 .. Size :
              buffer[i] = "bd" => i = 2 /\ j = 0 /\ k > 1
    BY <1>5 DEF InFile
  <2>2. pc' # "scan" /\ (pc' = "full" => Boundaries' = {})
    BY <2>1, <1>3
  <2> QED BY <2>1, <2>2, <1>1, <1>3, <1>10 DEF InFile
<1>6. AtSection(P, k) \/ \E j \in Nat : InFile(P, k, j)
  BY <1>2 DEF ParserInv
<1>7. k = Len(params')
  BY <1>1, <1>2
<1>8. AtSection(P, k)' => AtSection(P, Len(params))'
  BY <1>7 DEF AtSection
<1>9. ASSUME NEW j \in Nat, InFile(P, k, j)' PROVE InFile(P, Len(params), j)'
  BY <1>7, <1>9 DEF InFile
<1> QED BY <1>1, <1>3, <1>4, <1>5, <1>6, <1>8, <1>9 DEF ParserInv, Reading

(* The end mark is found behind the last section only.                     *)
LEMMA NoHeaderStep ==
    ASSUME TypeInv, ~Direct, NEW P, Layout(P), ParserInv(P), NoHeader
    PROVE  ParserInv(P)'
<1>1. pc = "scan" /\ Reading /\ ~pchFilename
  BY DEF NoHeader, Boundary, Reading
<1>2. UNCHANGED <<sent, received, buffer, writeLocation, pchFilename, params, uploads>>
  BY DEF NoHeader
<1>3. CASE ~AtEndMark(buffer)
  <2>1. pc' = "full" /\ (pchFilename => Boundaries = {})
    BY <1>1, <1>3 DEF NoHeader
  <2> QED BY <1>1, <1>2, <2>1, GoOnStep
<1>4. CASE AtEndMark(buffer)
  <2>1. pc' = "over" /\ result' = "done"
    BY <1>4 DEF NoHeader, Finish
  <2>2. PICK k : k = Len(params)
    OBVIOUS
  <2>3. /\ Window /\ AtSection(P, k) /\ k \in 0 .. Len(post) /\ k \in Nat
        /\ \A u \in 1 .. Len(uploads) : uploads[u] = Complete
    BY <1>1, <2>2, InFrontOfSection
  <2>4. buffer[1] = "nl" /\ buffer[3] = "end"
    BY <1>4 DEF AtEndMark
  <2>5. /\ writeLocation \in Nat /\ writeLocation <= Size /\ Size \in Nat
        /\ Len(post) \in Nat /\ Len(post) >= 1 /\ P[k] \in Nat /\ P[0] = 0
        /\ HeaderLen \in Nat /\ HeaderLen >= 1 /\ HeaderLen < Size
    BY <2>3, PostFacts, BodyEnds, SizesAssumption DEF TypeInv, TypeOK
  <2>6. k # 0
    <3> SUFFICES ASSUME k = 0 PROVE FALSE
      OBVIOUS
    <3>1. Gone = 0 /\ Seam
      BY <2>3, <2>5 DEF AtSection, Lead
    <3>2. CASE writeLocation = 0
      <4>1. 1 \in writeLocation + 1 .. Size /\ 1 <= HeaderLen
        BY <2>5, <3>2
      <4>2. buffer[1] \in {"h", "hend"}
        BY <3>1, <4>1 DEF Seam
      <4> QED BY <2>4, <4>2
    <3>3. CASE writeLocation # 0
      <4>1. 1 \in 1 .. writeLocation /\ Gone + 1 = 1
        BY <2>5, <3>1, <3>3
      <4>2. body[1] = "nl"
        BY <2>3, <2>4, <4>1 DEF Window
      <4>3. 1 \in 1 .. Len(post) /\ P[1 - 1] + 1 = 1
        BY <2>5
      <4>4. body[1] = "bd"
        BY <4>3, SectionPlaces
      <4> QED BY <4>2, <4>4
    <3> QED BY <3>2, <3>3
  <2>7. Gone = P[k] - 1 /\ Size >= 5 /\ \A i \in writeLocation + 1 .. Size : buffer[i] = "0"
    BY <2>3, <2>6 DEF AtSection, Lead
  <2>8. k = Len(post)
    <3> SUFFICES ASSUME k # Len(post) PROVE FALSE
      OBVIOUS
    <3>1. 3 \in 1 .. writeLocation
      <4> SUFFICES ASSUME ~(3 <= writeLocation) PROVE FALSE
        BY <2>5
      <4>1. 3 \in writeLocation + 1 .. Size
        BY <2>5, <2>7
      <4> QED BY <4>1, <2>4, <2>7
    <3>2. Gone + 3 = P[k] + 2 /\ k + 1 \in 1 .. Len(post) /\ (k + 1) - 1 = k
      BY <2>3, <2>5, <2>7
    <3>3. body[P[k] + 2] = "end"
      BY <2>3, <2>4, <3>1, <3>2 DEF Window
    <3>4. body[P[k] + 2] \in {"dv", "df"}
      BY <3>2, SectionPlaces
    <3> QED BY <3>3, <3>4
  <2>9. UNCHANGED <<post, file, params, uploads>>
    BY <1>2 DEF sent
  <2>10. History
    BY <1>1, HistoryRight
  <2>11. History'
    BY <2>9, <2>10 DEF History, Begins
  <2>12. ParamsRight'
    BY <2>9 DEF ParserInv, ParamsRight
  <2>13. \A u \in 1 .. Len(uploads') : uploads'[u] = Complete'
    BY <2>3, <2>9 DEF Complete
  <2>14. Len(params') = Len(post')
    BY <2>2, <2>8, <2>9
  <2> QED BY <2>1, <2>11, <2>12, <2>13, <2>14 DEF ParserInv, Reading
<1> QED BY <1>3, <1>4

(* What is received continues what is in the buffer.                       *)
LEMMA FilledWindow ==
    ASSUME TypeInv, NEW n \in 1 .. Size - writeLocation, Window,
           buffer' = Filled(n), received' = received + n,
           writeLocation' = writeLocation + n, body' = body
    PROVE  /\ Window' /\ Gone' = Gone
           /\ \A i \in writeLocation' + 1 .. Size :
                 i \in writeLocation + 1 .. Size /\ buffer'[i] = buffer[i]
           /\ writeLocation' \in Nat /\ writeLocation' <= Size /\ writeLocation' >= 1
           /\ received' \in Nat /\ received' >= received
<1>1. /\ writeLocation \in Nat /\ writeLocation <= Size /\ Size \in Nat
      /\ received \in Nat /\ Gone = received - writeLocation /\ Gone \in Int
      /\ n \in Nat /\ n >= 1 /\ writeLocation + n <= Size
  BY SizesAssumption DEF TypeInv, TypeOK, Gone
<1>2. Gone' = Gone
  <2>1. Gone' = (received + n) - (writeLocation + n)
    BY DEF Gone
  <2>2. (received + n) - (writeLocation + n) = received - writeLocation
    BY <1>1
  <2> QED BY <2>1, <2>2 DEF Gone
<1>3. \A i \in 1 .. Size :
         buffer'[i] = IF i \in writeLocation + 1 .. writeLocation + n
                      THEN body[received + i - writeLocation] ELSE buffer[i]
  BY DEF Filled
<1>4. ASSUME NEW i \in 1 .. writeLocation + n
      PROVE  buffer'[i] = body[Gone + i]
  <2>1. i \in 1 .. Size
    BY <1>1
  <2>2. CASE i <= writeLocation
    <3>1. i \in 1 .. writeLocation /\ i \notin writeLocation + 1 .. writeLocation + n
      BY <2>2, <1>1
    <3> QED BY <3>1, <2>1, <1>3 DEF Window
  <2>3. CASE ~(i <= writeLocation)
    <3>1. /\ i \in writeLocation + 1 .. writeLocation + n
          /\ received + i - writeLocation = Gone + i
      BY <2>3, <1>1
    <3> QED BY <3>1, <2>1, <1>3
  <2> QED BY <2>2, <2>3
<1>5. Window'
  BY <1>2, <1>4 DEF Window
<1>6. ASSUME NEW i \in writeLocation + n + 1 .. Size
      PROVE  i \in writeLocation + 1 .. Size /\ buffer'[i] = buffer[i]
  <2>1. /\ i \in 1 .. Size /\ i \notin writeLocation + 1 .. writeLocation + n
        /\ i \in writeLocation + 1 .. Size
    BY <1>1
  <2> QED BY <2>1, <1>3
<1>7. /\ writeLocation + n \in Nat /\ writeLocation + n >= 1
      /\ received + n \in Nat /\ received + n >= received
  BY <1>1
<1> QED BY <1>1, <1>2, <1>5, <1>6, <1>7

(* What comes continues what is in the buffer.                             *)
LEMMA ReceiveStep ==
    ASSUME TypeInv, ~Direct, NEW P, Layout(P), ParserInv(P),
           NEW n \in 1 .. Size - writeLocation, n <= Len(body) - received, Receive(n)
    PROVE  ParserInv(P)'
<1>1. /\ pc = "read" /\ Reading /\ pc' = "scan"
      /\ UNCHANGED <<post, file, body, pchFilename, params, uploads>>
      /\ buffer' = Filled(n) /\ received' = received + n
      /\ writeLocation' = writeLocation + n
  BY DEF Receive, Reading, sent
<1>2. PICK k : k = Len(params)
  OBVIOUS
<1>3. Window /\ (AtSection(P, k) \/ \E j \in Nat : InFile(P, k, j))
  BY <1>1, <1>2 DEF ParserInv
<1>4. /\ Window' /\ Gone' = Gone
      /\ \A i \in writeLocation' + 1 .. Size :
            i \in writeLocation + 1 .. Size /\ buffer'[i] = buffer[i]
      /\ writeLocation' >= 1
      /\ received' \in Nat /\ received' >= received /\ received \in Nat
  <2>1. received \in Nat
    BY DEF TypeInv, TypeOK
  <2> QED BY <2>1, <1>1, <1>3, FilledWindow
<1>5. ASSUME AtSection(P, k) PROVE AtSection(P, k)'
  <2>1. Seam => Seam'
    <3> SUFFICES ASSUME Seam PROVE Seam'
      OBVIOUS
    <3>1. start' = start /\ start \in Int
      BY DEF Receive, sent, TypeInv, TypeOK
    <3>2. start' <= received'
      BY <3>1, <1>4 DEF Seam
    <3>3. ASSUME NEW i \in writeLocation' + 1 .. Size
          PROVE  IF i <= HeaderLen THEN buffer'[i] \in {"h", "hend"}
                 ELSE buffer'[i] = "bd" =>
                         i - HeaderLen <= start' /\ body'[i - HeaderLen] = "bd"
      <4>1. i \in writeLocation + 1 .. Size /\ buffer'[i] = buffer[i]
        BY <1>4
      <4> QED BY <4>1, <3>1, <1>1 DEF Seam
    <3> QED BY <3>2, <3>3 DEF Seam
  <2>2. \A u \in 1 .. Len(uploads') : uploads'[u] = Complete'
    BY <1>1, <1>5 DEF AtSection, Complete
  <2>3. k # 0 => Size >= 5 /\ \A i \in writeLocation' + 1 .. Size : buffer'[i] = "0"
    BY <1>4, <1>5 DEF AtSection
  <2>4. ~pchFilename' /\ Gone' = P[k] - Lead(k) /\ (k = 0 => Seam')
    BY <1>1, <1>4, <1>5, <2>1 DEF AtSection
  <2> QED BY <2>2, <2>3, <2>4 DEF AtSection
<1>6. ASSUME NEW j \in Nat, InFile(P, k, j) PROVE InFile(P, k, j)'
  <2>1. /\ pchFilename /\ k >= 1 /\ post[k] = "file" /\ j \in 0 .. Len(file)
        /\ \A u \in 1 .. Len(uploads) - 1 : uploads[u] = Complete
        /\ uploads[Len(uploads)] = [data |-> SubSeq(file, 1, j), last |-> FALSE]
        /\ Gone = P[k - 1] + 3 + j
        /\ Size >= 5
        /\ received <= P[k] => \A i \in writeLocation + 1 .. Size :
              buffer[i] = "bd" => i = 2 /\ j = 0 /\ k > 1
    BY <1>6 DEF InFile
  <2>2. P[k] \in Nat
    <3>1. Len(params) \in Nat /\ Len(params) <= Len(post)
      BY LenProperties DEF TypeInv, TypeOK, ParserInv, ParamsRight
    <3>2. k \in 0 .. Len(post)
      BY <3>1, <1>2, PostFacts
    <3> QED BY <3>2, BodyEnds
  <2>3. received' <= P[k] => received <= P[k]
    BY <2>2, <1>4
  <2>4. received' <= P[k] => \A i \in writeLocation' + 1 .. Size :
              buffer'[i] = "bd" => i = 2 /\ j = 0 /\ k > 1
    BY <2>1, <2>3, <1>4
  <2>5. Complete' = Complete
    BY <1>1 DEF Complete
  <2> QED BY <2>1, <2>4, <2>5, <1>1, <1>4 DEF InFile
<1>7. ParamsRight'
  BY <1>1 DEF ParserInv, ParamsRight
<1>8. k = Len(params')
  BY <1>1, <1>2
<1>9. AtSection(P, k)' => AtSection(P, Len(params))'
  BY <1>8 DEF AtSection
<1>10. ASSUME NEW j \in Nat, InFile(P, k, j)' PROVE InFile(P, Len(params), j)'
  BY <1>8, <1>10 DEF InFile
<1> QED BY <1>1, <1>3, <1>4, <1>5, <1>6, <1>7, <1>9, <1>10 DEF ParserInv, Reading

(* A full buffer without a boundary is all of the file.                    *)
LEMMA FullBufferIsFile ==
    ASSUME TypeInv, ~Direct, NEW P, Layout(P), NEW k \in 1 .. Len(post),
           NEW j \in Nat, Window, InFile(P, k, j), writeLocation = Size,
           Boundaries = {}
    PROVE  /\ received <= P[k] /\ j + Chunk <= Len(file)
           /\ \A i \in 1 .. Chunk : buffer[i] = file[j + i]
           /\ \A i \in 1 .. Size : buffer[i] # "bd"
<1> DEFINE a == P[k - 1]
           n == Len(file)
<1>1. /\ a \in Nat /\ P[k] \in Nat /\ P[k] = a + 4 + n /\ n \in Nat
      /\ body[P[k]] = "nl"
      /\ \A i \in 1 .. n : body[a + 3 + i] = file[i]
      /\ \A i \in Int : i >= a + 2 /\ i <= P[k] => body[i] # "bd"
  <2>1. post[k] = "file"
    BY DEF InFile
  <2>2. a \in Nat /\ P[k] \in Nat /\ n \in Nat /\ P[k] = a + (4 + n) /\ body[P[k]] = "nl"
    BY <2>1, FilePlaces
  <2>3. \A i \in 1 .. n : body[a + 3 + i] = file[i]
    BY <2>1, SectionPlaces
  <2>4. \A i \in Int : i >= a + 2 /\ i <= P[k] => body[i] # "bd"
    BY SectionInside
  <2> HIDE DEF a, n
  <2>5. P[k] = a + 4 + n
    BY <2>2
  <2> QED BY <2>2, <2>3, <2>4, <2>5
<1>2. Gone = a + 3 + j /\ j <= n
  BY DEF InFile
<1>3. /\ Size \in Nat /\ received \in Nat /\ Gone = received - Size
      /\ Chunk \in Nat /\ Chunk <= Size - 1 /\ Chunk >= 1
  BY SizesAssumption DEF TypeInv, TypeOK, Gone
<1>4. body[P[k] + 1] = "bd"
  <2>1. CASE k = Len(post)
    BY <2>1, BodyEnds
  <2>2. CASE k # Len(post)
    <3>1. k + 1 \in 1 .. Len(post) /\ (k + 1) - 1 = k
      BY <2>2, PostFacts
    <3> QED BY <3>1, SectionPlaces
  <2> QED BY <2>1, <2>2
<1> HIDE DEF a, n
<1>5. received <= P[k]
  <2> SUFFICES ASSUME ~(received <= P[k]) PROVE FALSE
    OBVIOUS
  <2> DEFINE b == P[k] - Gone
  <2>1. b \in Nat /\ b >= 1 /\ b + 1 <= Size /\ Gone + b = P[k] /\ Gone + (b + 1) = P[k] + 1
    BY <1>1, <1>2, <1>3
  <2> HIDE DEF b
  <2>2. b \in 1 .. writeLocation /\ b + 1 \in 1 .. writeLocation /\ b \in 1 .. Size - 1
    BY <2>1, <1>3
  <2>3. buffer[b] = body[Gone + b] /\ buffer[b + 1] = body[Gone + (b + 1)]
    BY <2>2 DEF Window
  <2>4. b \in Boundaries
    BY <2>1, <2>2, <2>3, <1>1, <1>4 DEF Boundaries
  <2> QED BY <2>4
<1>6. j + Chunk <= n
  BY <1>1, <1>2, <1>3, <1>5
<1>7. ASSUME NEW i \in 1 .. Size
      PROVE  buffer[i] # "bd" /\ (i <= Chunk => buffer[i] = file[j + i])
  <2>1. buffer[i] = body[Gone + i]
    BY DEF Window
  <2>2. Gone + i \in Int /\ Gone + i >= a + 2 /\ Gone + i <= P[k]
    BY <1>1, <1>2, <1>3, <1>5
  <2>3. i <= Chunk => Gone + i = a + 3 + (j + i) /\ j + i \in 1 .. n
    BY <1>1, <1>2, <1>3, <1>6
  <2> QED BY <2>1, <2>2, <2>3, <1>1
<1>8. \A i \in 1 .. Chunk : i \in 1 .. Size /\ i <= Chunk
  BY <1>3
<1> QED BY <1>5, <1>6, <1>7, <1>8 DEF n

(* A piece of a full buffer is the next piece of the file.                 *)
LEMMA FullBufferStep ==
    ASSUME TypeInv, ~Direct, NEW P, Layout(P), ParserInv(P), FullBuffer
    PROVE  ParserInv(P)'
<1>1. /\ pc = "full" /\ Reading /\ result = "open" /\ PassOn(Chunk)
      /\ UNCHANGED <<post, file, body, start, refuses, received, pchFilename, params>>
      /\ UNCHANGED sent
  BY DEF FullBuffer, PassOn, TypeInv, sent, Reading
<1>2. CASE writeLocation < Size
  <2>1. pc' = "read" /\ UNCHANGED <<buffer, writeLocation, uploads>>
    BY <1>1, <1>2 DEF PassOn
  <2> QED BY <1>1, <2>1, GoOnStep
<1>3. CASE ~(writeLocation < Size) /\ ~pchFilename
  <2>1. result' = "toolarge" /\ pc' = "over" /\ UNCHANGED uploads
    BY <1>1, <1>3 DEF PassOn, Finish
  <2> QED BY <1>1, <2>1, EndStep
<1>4. CASE ~(writeLocation < Size) /\ pchFilename
  <2>1. PICK k : k = Len(params)
    OBVIOUS
  <2>2. Window /\ k \in 1 .. Len(post) /\ \E l \in 0 .. Len(file) : InFile(P, k, l)
    BY <1>1, <1>4, <2>1, InsideFile
  <2>3. PICK j \in 0 .. Len(file) : InFile(P, k, j)
    BY <2>2
  <2>4. j \in Nat /\ Len(file) \in Nat
    BY PostFacts
  <2>5. /\ writeLocation = Size /\ Size \in Nat /\ Chunk \in Nat /\ Chunk <= Size - 1
        /\ Chunk >= 1 /\ received \in Nat /\ Gone = received - writeLocation
        /\ Gone \in Int
    BY <1>4, SizesAssumption DEF TypeInv, TypeOK, Gone
  <2>6. Boundaries = {}
    BY <1>1, <1>4, <2>3 DEF InFile
  <2>7. /\ received <= P[k] /\ j + Chunk <= Len(file)
        /\ \A i \in 1 .. Chunk : buffer[i] = file[j + i]
        /\ \A i \in 1 .. Size : buffer[i] # "bd"
    BY <2>2, <2>3, <2>4, <2>5, <2>6, FullBufferIsFile
  <2>8. /\ SubSeq(file, 1, j) \o SubSeq(buffer, 1, Chunk) = SubSeq(file, 1, j + Chunk)
        /\ SubSeq(buffer, 1, Chunk) \in Seq(Tokens)
    <3>1. Chunk <= Size
      BY <2>5
    <3> QED BY <3>1, <2>4, <2>5, <2>7, FileGrows
  <2>9. /\ Passed(SubSeq(buffer, 1, Chunk), FALSE)
        /\ IF refuses
           THEN result' = "refused" /\ pc' = "over"
           ELSE /\ buffer' = Shifted(Chunk) /\ pc' = "read"
                /\ writeLocation' = writeLocation - Chunk
    BY <1>1, <1>4 DEF PassOn, Finish
  <2> DEFINE m == Len(uploads)
             data == SubSeq(buffer, 1, Chunk)
             more == [data |-> SubSeq(file, 1, j + Chunk), last |-> FALSE]
  <2>10. /\ m \in Nat /\ m >= 1 /\ Len(uploads') = m /\ uploads'[m] = more
         /\ \A u \in 1 .. m - 1 : uploads'[u] = Complete
    <3>1. uploads \in Seq(Upload) /\ uploads # <<>> /\ FALSE \in BOOLEAN
      BY <1>4 DEF TypeInv, TypeOK, Upload
    <3>2. Passed(data, FALSE) /\ data \in Seq(Tokens)
      BY <2>8, <2>9
    <3>3. SubSeq(file, 1, j) \o data = SubSeq(file, 1, j + Chunk)
      BY <2>8
    <3> HIDE DEF data
    <3>4. /\ m \in Nat /\ m >= 1 /\ Len(uploads') = m
          /\ uploads'[m] = [data |-> uploads[m].data \o data, last |-> FALSE]
          /\ \A i \in 1 .. m - 1 : uploads'[i] = uploads[i]
      BY <3>1, <3>2, PassedProperties
    <3>5. uploads[m].data = SubSeq(file, 1, j) /\ \A u \in 1 .. m - 1 : uploads[u] = Complete
      BY <2>3 DEF InFile
    <3> QED BY <3>3, <3>4, <3>5
  <2> HIDE DEF data
  <2>11. j + Chunk \in 0 .. Len(file)
    BY <2>4, <2>5, <2>7
  <2>12. ParamsRight' /\ Complete' = Complete /\ file' = file
    BY <1>1 DEF ParserInv, ParamsRight, Complete
  <2>13. CASE refuses
    <3>1. result' = "refused" /\ pc' = "over"
      BY <2>9, <2>13
    <3>2. Begins(more) /\ Begins(Complete)
      BY <2>11, CompleteBegins DEF Begins
    <3>3. \A u \in 1 .. m : u \in 1 .. m - 1 \/ u = m
      BY <2>10
    <3>4. \A u \in 1 .. Len(uploads') : Begins(uploads'[u])
      BY <3>2, <3>3, <2>10
    <3>5. History'
      BY <3>4, <2>12 DEF History, Begins
    <3> QED BY <3>1, <3>5, <2>12 DEF ParserInv, Reading
  <2>14. CASE ~refuses
    <3>1. /\ buffer' = Shifted(Chunk) /\ pc' = "read"
          /\ writeLocation' = writeLocation - Chunk
      BY <2>9, <2>14
    <3>2. /\ writeLocation' \in Nat /\ writeLocation' <= Size
      <4>1. writeLocation - Chunk \in Nat /\ writeLocation - Chunk <= Size
        BY <2>5
      <4> QED BY <3>1, <4>1
    <3>3. Gone' = Gone + Chunk
      <4>1. Gone' = received - (writeLocation - Chunk)
        BY <1>1, <3>1 DEF Gone
      <4>2. received - (writeLocation - Chunk) = Gone + Chunk
        BY <2>5
      <4> QED BY <4>1, <4>2
    <3>4. Window'
      <4> SUFFICES ASSUME NEW l \in 1 .. writeLocation'
                   PROVE  buffer'[l] = body'[Gone' + l]
        BY DEF Window
      <4>1. l \in Nat /\ l >= 1 /\ l <= writeLocation - Chunk
        BY <3>1, <3>2
      <4>2. /\ l \in 1 .. Size /\ l + Chunk <= writeLocation
            /\ l + Chunk \in 1 .. writeLocation
            /\ Gone + (l + Chunk) = Gone + Chunk + l
        BY <4>1, <2>5
      <4>3. buffer'[l] = buffer[l + Chunk]
        BY <4>2, <3>1 DEF Shifted
      <4>4. buffer[l + Chunk] = body[Gone + (l + Chunk)]
        BY <4>2, <2>2 DEF Window
      <4> QED BY <4>2, <4>3, <4>4, <1>1, <3>3
    <3>5. \A i \in writeLocation' + 1 .. Size : buffer'[i] # "bd"
      <4> SUFFICES ASSUME NEW i \in writeLocation' + 1 .. Size PROVE buffer'[i] # "bd"
        OBVIOUS
      <4>1. i \in 1 .. Size
        <5> DEFINE w == writeLocation'
        <5>1. w \in Nat /\ Size \in Nat /\ i \in w + 1 .. Size
          BY <2>5, <3>2
        <5> HIDE DEF w, m, more
        <5> QED BY <5>1
      <4>2. i + Chunk <= writeLocation => i + Chunk \in 1 .. Size
        BY <4>1, <2>5
      <4>3. buffer'[i] = IF i + Chunk <= writeLocation THEN buffer[i + Chunk] ELSE buffer[i]
        BY <4>1, <3>1 DEF Shifted
      <4> QED BY <4>1, <4>2, <4>3, <2>7
    <3>6. Gone' = P[k - 1] + 3 + (j + Chunk)
      <4>1. Gone = P[k - 1] + 3 + j
        BY <2>3 DEF InFile
      <4> DEFINE a == P[k - 1]
      <4>2. a \in Nat /\ Gone = a + 3 + j
        BY <4>1, <2>2, SectionPlaces
      <4> HIDE DEF a
      <4>3. Gone + Chunk = a + 3 + (j + Chunk)
        BY <4>2, <2>4, <2>5
      <4> QED BY <4>3, <3>3 DEF a
    <3>7. pchFilename' /\ k >= 1 /\ post'[k] = "file" /\ Size >= 5
      BY <1>1, <1>4, <2>3 DEF InFile
    <3>8. InFile(P, k, j + Chunk)'
      BY <2>10, <2>11, <2>12, <3>1, <3>5, <3>6, <3>7 DEF InFile
    <3>9. InFile(P, Len(params), j + Chunk)'
      <4>1. k = Len(params')
        BY <1>1, <2>1
      <4> QED BY <3>8, <4>1 DEF InFile
    <3>10. j + Chunk \in Nat
      BY <2>4, <2>5
    <3> QED BY <3>1, <3>4, <3>9, <3>10, <2>12 DEF ParserInv, Reading
  <2> QED BY <2>13, <2>14
<1> QED BY <1>2, <1>3, <1>4

(* The body moves over the header of the request.                          *)
LEMMA FirstStep ==
    ASSUME TypeInv, ~Direct, NEW P, Layout(P), ParserInv(P),
           First(start)
    PROVE  ParserInv(P)'
<1>0. PICK n : n = start
  OBVIOUS
<1>1. /\ UNCHANGED <<post, file, body, start, pchFilename, params, uploads>>
      /\ received' = n /\ writeLocation' = n /\ pc' \in {"scan", "read"}
      /\ buffer' = [i \in 1 .. Size |-> IF i <= n THEN body[i] ELSE Begun(n)[i]]
      /\ params = <<>> /\ uploads = <<>> /\ ~pchFilename
      /\ \A i \in 1 .. Size : buffer[i] # "bd"
  BY <1>0 DEF First, sent, ParserInv
<1>10. n \in 0 .. Size - HeaderLen - 1 /\ n <= Len(body)
  BY <1>0 DEF TypeInv, TypeOK
<1>2. /\ n \in Nat /\ n \in 0 .. Len(body) /\ n <= Size /\ Size \in Nat /\ HeaderLen \in Nat
      /\ body \in Seq(Tokens)
  BY <1>10, SizesAssumption, LenProperties DEF TypeInv
<1>3. Gone' = 0 /\ P[0] = 0
  <2>1. Gone' = n - n
    BY <1>1 DEF Gone
  <2> QED BY <2>1, <1>2, BodyEnds
<1>4. Window'
  <2> SUFFICES ASSUME NEW l \in 1 .. writeLocation'
               PROVE  buffer'[l] = body'[Gone' + l]
    BY DEF Window
  <2>1. l \in 1 .. n
    BY <1>1
  <2>2. l \in 1 .. Size /\ l <= n /\ 0 + l = l
    BY <2>1, <1>2
  <2>3. buffer'[l] = body[l]
    BY <2>2, <1>1
  <2> QED BY <2>2, <2>3, <1>1, <1>3
<1>5. Seam'
  <2> SUFFICES ASSUME NEW i \in n + 1 .. Size
               PROVE  IF i <= HeaderLen THEN buffer'[i] \in {"h", "hend"}
                      ELSE buffer'[i] = "bd" =>
                              i - HeaderLen <= n /\ body[i - HeaderLen] = "bd"
    BY <1>0, <1>1, <1>2 DEF Seam
  <2>1. i \in 1 .. Size /\ ~(i <= n)
    BY <1>2
  <2>2. buffer'[i] = Begun(n)[i]
    BY <2>1, <1>1
  <2>3. CASE i <= HeaderLen + n
    <3>1. i \in 1 .. HeaderLen + n
      BY <2>1, <2>3, <1>2
    <3>2. /\ i <= HeaderLen => Piece(n)[i] \in {"h", "hend"}
          /\ i > HeaderLen => Piece(n)[i] = body[i - HeaderLen]
      BY <3>1, <1>2, PieceTokens
    <3>3. i - HeaderLen <= n /\ (i <= HeaderLen \/ i > HeaderLen)
      BY <3>1, <1>2
    <3>4. buffer'[i] = Piece(n)[i]
      BY <2>1, <2>2, <2>3 DEF Begun
    <3> QED BY <3>2, <3>3, <3>4
  <2>4. CASE ~(i <= HeaderLen + n)
    <3>1. ~(i <= HeaderLen)
      BY <2>1, <2>4, <1>2
    <3>2. buffer'[i] \in {"0", buffer[i]}
      BY <2>1, <2>2, <2>4 DEF Begun
    <3> QED BY <3>1, <3>2, <2>1, <1>1
  <2> QED BY <2>3, <2>4
<1>6. params' = <<>> /\ uploads' = <<>> /\ Len(<<>>) = 0 /\ Len(post) \in Nat /\ post' = post
  BY <1>1, PostFacts
<1>7. Len(params') = 0 /\ Len(uploads') = 0
  BY <1>6
<1>8. AtSection(P, Len(params))'
  BY <1>1, <1>3, <1>5, <1>7 DEF AtSection, Lead
<1>9. ParamsRight'
  BY <1>6, <1>7 DEF ParamsRight
<1> QED BY <1>1, <1>4, <1>8, <1>9 DEF ParserInv, Reading

-----------------------------------------------------------------------------
(* Direct uploads.                                                         *)

(* The first part of a direct upload is passed on at once.                 *)
LEMMA FirstDirectStep ==
    ASSUME TypeInv, Direct, DirectInv, FirstDirect(start)
    PROVE  DirectInv'
<1>0. PICK n : n = start
  OBVIOUS
<1>1. /\ UNCHANGED <<file, body, result>> /\ body = file
      /\ uploads' = <<[data |-> SubSeq(body, 1, n), last |-> FALSE]>>
      /\ received' = n /\ writeLocation' = 0 /\ pc' = "direct"
  BY <1>0 DEF FirstDirect, sent, DirectInv
<1>2. n \in Nat
  BY <1>0, SizesAssumption DEF TypeInv, TypeOK
<1>3. Gone' = n
  <2>1. Gone' = n - 0
    BY <1>1 DEF Gone
  <2> QED BY <2>1, <1>2
<1>4. Window'
  BY <1>1 DEF Window
<1> QED BY <1>1, <1>2, <1>3, <1>4 DEF DirectInv

(* The buffer of a direct upload is never full.                            *)
LEMMA ReceiveDirectStep ==
    ASSUME TypeInv, Direct, DirectInv, NEW n \in 1 .. DirectRoom,
           n <= Len(body) - received, ReceiveDirect(n)
    PROVE  DirectInv'
<1>1. Size \in Nat /\ writeLocation \in Nat /\ received \in Nat
  BY SizesAssumption DEF TypeInv, TypeOK
<1>2. n \in 1 .. Size - writeLocation /\ ~(writeLocation + n = Size)
  BY <1>1 DEF DirectRoom
<1>3. /\ buffer' = Filled(n) /\ received' = received + n
      /\ writeLocation' = writeLocation + n
      /\ UNCHANGED <<file, body, uploads, pc, result>> /\ pc = "direct"
  BY <1>2 DEF ReceiveDirect, sent
<1>4. /\ body = file /\ Window /\ Gone >= 0
      /\ uploads = <<[data |-> SubSeq(file, 1, Gone), last |-> FALSE]>>
  BY <1>3 DEF DirectInv
<1>5. Window' /\ Gone' = Gone
  BY <1>2, <1>3, <1>4, FilledWindow
<1> QED BY <1>3, <1>4, <1>5 DEF DirectInv

(* What is left of a direct upload is passed on at its end.                *)
LEMMA CommitStep ==
    ASSUME TypeInv, Direct, DirectInv, NEW how \in {"stored", "left"},
           CommitDirect(how)
    PROVE  DirectInv'
<1> DEFINE data == SubSeq(buffer, 1, writeLocation)
           was  == [data |-> SubSeq(file, 1, Gone), last |-> FALSE]
<1>1. /\ pc = "direct" /\ Passed(data, TRUE) /\ result' = how /\ pc' = "over"
      /\ UNCHANGED <<file, body>>
  BY DEF CommitDirect, Finish, sent
<1>2. body = file /\ Window /\ Gone >= 0 /\ uploads = <<was>>
  BY <1>1 DEF DirectInv
<1>3. /\ received \in Nat /\ received <= Len(file) /\ Gone = received - writeLocation
      /\ writeLocation \in Nat /\ writeLocation <= Size /\ Len(file) \in Nat
  BY <1>2, FileFacts, SizesAssumption DEF TypeInv, TypeOK, Gone
<1>4. Gone \in Nat /\ Gone + writeLocation = received
  BY <1>2, <1>3
<1>5. /\ SubSeq(file, 1, Gone) \o data = SubSeq(file, 1, received)
      /\ data \in Seq(Tokens)
  <2>1. \A i \in 1 .. writeLocation : buffer[i] = file[Gone + i]
    BY <1>2 DEF Window
  <2>2. /\ SubSeq(file, 1, Gone) \o data = SubSeq(file, 1, Gone + writeLocation)
        /\ data \in Seq(Tokens)
    BY <2>1, <1>3, <1>4, FileGrows
  <2> QED BY <2>2, <1>4
<1>6. uploads \in Seq(Upload) /\ uploads # <<>> /\ Len(uploads) = 1 /\ uploads[1] = was
  BY <1>1, <1>2 DEF TypeInv, TypeOK, Upload
<1> HIDE DEF data
<1>7. /\ Len(uploads') = Len(uploads)
      /\ uploads'[Len(uploads)] =
            [data |-> uploads[Len(uploads)].data \o data, last |-> TRUE]
  <2>1. TRUE \in BOOLEAN
    OBVIOUS
  <2> QED BY <2>1, <1>1, <1>5, <1>6, PassedProperties
<1>8. Len(uploads') = 1 /\ uploads'[1].data = SubSeq(file, 1, received)
  <2>1. was.data = SubSeq(file, 1, Gone)
    OBVIOUS
  <2> HIDE DEF was
  <2>2. uploads[1].data \o data = SubSeq(file, 1, received)
    BY <2>1, <1>5, <1>6
  <2>3. /\ Len(uploads') = 1
        /\ uploads'[1] = [data |-> SubSeq(file, 1, received), last |-> TRUE]
    BY <2>2, <1>6, <1>7
  <2> DEFINE all == [data |-> SubSeq(file, 1, received), last |-> TRUE]
  <2>4. all.data = SubSeq(file, 1, received)
    OBVIOUS
  <2> HIDE DEF all
  <2>5. uploads'[1] = all
    BY <2>3 DEF all
  <2> QED BY <2>3, <2>4, <2>5
<1>9. \A u \in 1 .. Len(uploads') :
         \E j \in 0 .. Len(file) : uploads'[u].data = SubSeq(file, 1, j)
  BY <1>3, <1>8
<1> QED BY <1>1, <1>2, <1>9 DEF DirectInv

(* A direct upload passes on a beginning of the file.                      *)
LEMMA DirectStep ==
    ASSUME TypeInv, Direct, DirectInv, [Next]_vars
    PROVE  DirectInv'
<1>1. CASE UNCHANGED vars
  BY <1>1 DEF vars, sent, DirectInv, Window, Gone
<1>2. CASE Next
  <2>1. ~Scan /\ ~NothingYet /\ ~PeerCloses
    BY DEF DirectInv, Scan, LastChunk, NoHeader, AwaitValue, Variable, FileHeader,
           NoBoundary, FullBuffer, PassOn, Boundary, NothingYet, PeerCloses
  <2>2. CASE DirectLeft
    BY <2>2, CommitStep DEF DirectLeft
  <2>3. CASE First(start) \/ FirstDirect(start)
    BY <2>3, FirstDirectStep DEF First
  <2>4. ~ \E n \in 1 .. Size - writeLocation : n <= Len(body) - received /\ Receive(n)
    BY DEF DirectInv, Receive
  <2>5. CASE \E n \in 1 .. DirectRoom : n <= Len(body) - received /\ ReceiveDirect(n)
    BY <2>5, ReceiveDirectStep
  <2>6. CASE DirectEnds
    BY <2>6, CommitStep DEF DirectEnds
  <2> QED BY <1>2, <2>1, <2>2, <2>3, <2>4, <2>5, <2>6 DEF Next, Network
<1> QED BY <1>1, <1>2

-----------------------------------------------------------------------------
(* The inductive invariant.                                                *)

(* Every step keeps the invariant of the parser.                           *)
LEMMA ParserStep ==
    ASSUME TypeInv, ~Direct, Plain, NEW P, Layout(P), ParserInv(P), [Next]_vars
    PROVE  ParserInv(P)'
<1>1. CASE UNCHANGED vars
  <2>1. CASE Reading
    BY <2>1, <1>1, TypeStep DEF vars, sent, ParserInv, ParamsRight, Window, Gone,
       AtSection, InFile, Seam, Complete, Reading, Boundaries, TypeInv
  <2>2. CASE ~Reading
    BY <2>2, <1>1 DEF vars, sent, ParserInv, ParamsRight, Reading, History, Begins,
       Complete
  <2> QED BY <2>1, <2>2
<1>2. CASE Scan
  <2>1. CASE LastChunk
    BY <2>1, LastChunkStep
  <2>2. CASE NoHeader
    BY <2>2, NoHeaderStep
  <2>3. CASE Variable
    BY <2>3, VariableStep
  <2>4. CASE FileHeader
    BY <2>4, FileHeaderStep
  <2>5. CASE AwaitValue \/ NoBoundary
    <3>1. /\ UNCHANGED <<sent, received, buffer, writeLocation, pchFilename, params,
                         uploads>>
          /\ pc = "scan" /\ pc' = "full" /\ (pchFilename => Boundaries = {})
      BY <2>5 DEF AwaitValue, NoBoundary, Boundary
    <3>2. Reading
      BY <3>1 DEF Reading
    <3> QED BY <3>1, <3>2, GoOnStep
  <2>6. CASE FullBuffer
    BY <2>6, FullBufferStep
  <2> QED BY <1>2, <2>1, <2>2, <2>3, <2>4, <2>5, <2>6 DEF Scan
<1>3. CASE Network
  <2>1. CASE First(start) \/ FirstDirect(start)
    BY <2>1, FirstStep DEF FirstDirect
  <2>2. CASE \E n \in 1 .. Size - writeLocation :
                 n <= Len(body) - received /\ Receive(n)
    BY <2>2, ReceiveStep
  <2>3. pc # "direct"
    BY DEF ParserInv
  <2> QED BY <1>3, <2>1, <2>2, <2>3
      DEF Network, ReceiveDirect, DirectEnds, CommitDirect
<1>4. CASE NothingYet \/ PeerCloses
  <2>1. /\ UNCHANGED <<post, file, params, uploads>> /\ pc = "read"
        /\ pc' = "over" /\ result' \in {"nothing", "left", "toolarge"}
    BY <1>4 DEF NothingYet, PeerCloses, Finish, sent
  <2> QED BY <2>1, EndStep
<1>5. ~DirectLeft
  BY DEF DirectLeft, CommitDirect, ParserInv
<1> QED BY <1>1, <1>2, <1>3, <1>4, <1>5 DEF Next

(* It holds at first: the body has a layout.                               *)
LEMMA Init_IInv ==
    ASSUME Init
    PROVE  IInv
<1>1. TypeInv
  BY InitTypes
<1>2. Direct => DirectInv
  BY DEF Init, Direct, DirectInv, Body
<1>3. ASSUME ~Direct PROVE \E P : Layout(P) /\ ParserInv(P)
  <2>1. /\ post \in Seq({"var", "file"}) /\ post # <<>> /\ file \in Seq(Data)
        /\ Len(post) \in Nat
    BY <1>1, <1>3, PostFacts
  <2>2. body = Body
    BY DEF Init
  <2>3. PICK P : Layout(P)
    BY <2>1, <2>2, BodyLayout
  <2>4. ParserInv(P)
    <3>1. \A i \in 1 .. Size : buffer[i] # "bd"
      <4>1. buffer \in [1 .. Size -> Tokens \ {"bd"}]
        BY LeftsAssumption DEF Init
      <4> QED BY <4>1
    <3> QED BY <2>1, <3>1 DEF Init, ParserInv, ParamsRight, Reading
  <2> QED BY <2>3, <2>4
<1> QED BY <1>1, <1>2, <1>3 DEF IInv

(* Every step keeps it; what is sent stays the same.                       *)
LEMMA Step_IInv ==
    ASSUME IInv, [Next]_vars
    PROVE  IInv'
<1>1. TypeInv'
  BY TypeStep DEF IInv
<1>2. UNCHANGED <<post, file, body, start, refuses>>
  BY DEF Next, Scan, Network, LastChunk, NoHeader, AwaitValue, Variable, FileHeader,
         NoBoundary, FullBuffer, PassOn, First, FirstDirect, Receive, ReceiveDirect,
         DirectEnds, DirectLeft, CommitDirect, NothingYet, PeerCloses, vars, sent
<1>3. /\ Direct' <=> Direct
      /\ Plain' <=> Plain
  BY <1>2 DEF Direct, Plain, PlainStart, PlainSeam
<1>4. ASSUME Direct PROVE DirectInv'
  BY <1>4, DirectStep DEF IInv
<1>5. ASSUME Plain, ~Direct PROVE \E P : Layout(P)' /\ ParserInv(P)'
  <2>1. PICK P : Layout(P) /\ ParserInv(P)
    BY <1>5 DEF IInv
  <2>2. ParserInv(P)'
    BY <1>5, <2>1, ParserStep DEF IInv
  <2>3. Layout(P)'
    BY <1>2, <2>1 DEF Layout
  <2> QED BY <2>2, <2>3
<1> QED BY <1>1, <1>3, <1>4, <1>5 DEF IInv

(* The invariant holds in every state.                                     *)
LEMMA Invariance == Spec => []IInv
<1>1. Init => IInv
  BY Init_IInv
<1>2. IInv /\ [Next]_vars => IInv'
  BY Step_IInv
<1> QED BY <1>1, <1>2, PTL DEF Spec

-----------------------------------------------------------------------------
(* What follows from it.                                                   *)

(* Whatever has been passed on of a file begins it.                        *)
LEMMA WhatIsPassedOn ==
    ASSUME IInv, Plain, NEW u \in DOMAIN uploads
    PROVE  \E j \in 0 .. Len(file) :
              /\ uploads[u].data = SubSeq(file, 1, j)
              /\ ~Direct /\ uploads[u].last => j = Len(file)
<1>1. TypeInv /\ u \in 1 .. Len(uploads)
  <2>1. uploads \in Seq(Upload)
    BY DEF IInv, TypeInv, TypeOK, Upload
  <2> QED BY <2>1, LenProperties DEF IInv
<1>2. CASE ~Direct
  <2>1. PICK P : ParserInv(P)
    BY <1>2 DEF IInv
  <2>2. pc # "first"
    <3> SUFFICES ASSUME pc = "first" PROVE FALSE
      OBVIOUS
    <3>1. uploads = <<>>
      BY <2>1 DEF ParserInv
    <3>2. Len(uploads) = 0
      BY <3>1
    <3> QED BY <3>2, <1>1
  <2>3. History
    BY <1>1, <1>2, <2>1, <2>2, HistoryRight
  <2> QED BY <1>1, <2>3 DEF History, Begins
<1>3. CASE Direct
  <2>1. DirectInv
    BY <1>3 DEF IInv
  <2>2. CASE pc = "over"
    BY <1>1, <1>3, <2>1, <2>2 DEF DirectInv
  <2>3. CASE pc = "direct"
    <3> DEFINE was == [data |-> SubSeq(file, 1, Gone), last |-> FALSE]
    <3>1. uploads = <<was>> /\ Gone >= 0 /\ body = file
      BY <2>1, <2>3 DEF DirectInv
    <3>2. was.data = SubSeq(file, 1, Gone)
      OBVIOUS
    <3> HIDE DEF was
    <3>3. Len(uploads) = 1 /\ uploads[1] = was
      BY <3>1
    <3>4. u = 1
      BY <3>3, <1>1
    <3>5. Gone \in 0 .. Len(file)
      <4>1. received \in 0 .. Len(file) /\ writeLocation \in Nat /\ Len(file) \in Nat
        BY <1>1, <3>1, FileFacts, SizesAssumption DEF TypeInv, TypeOK
      <4> QED BY <4>1, <3>1 DEF Gone
    <3> QED BY <1>3, <3>2, <3>3, <3>4, <3>5
  <2>4. CASE pc = "first"
    <3>1. uploads = <<>>
      BY <2>1, <2>4 DEF DirectInv
    <3>2. Len(uploads) = 0
      BY <3>1
    <3> QED BY <3>2, <1>1
  <2> QED BY <2>1, <2>2, <2>3, <2>4 DEF DirectInv
<1> QED BY <1>2, <1>3

(* Wherever the network cuts a post, and however much longer than the      *)
(* buffer a file is: when the application is told of a post that is not    *)
(* one of the two exceptions, it has been told of every section, and every *)
(* file has been passed on to its end.                                     *)
THEOREM DoneComplete == Spec => []DoneIsComplete
<1>1. ASSUME IInv, Plain, result = "done"
      PROVE  /\ params = [k \in DOMAIN post |->
                             IF post[k] = "var" THEN <<"v">> ELSE <<"f">>]
             /\ \A k \in DOMAIN uploads : uploads[k] = [data |-> file, last |-> TRUE]
  <2>1. TypeInv /\ pc = "over"
    BY <1>1 DEF IInv, TypeInv
  <2>2. ~Direct
    BY <1>1, <2>1 DEF IInv, DirectInv
  <2>3. PICK P : ParserInv(P)
    BY <1>1, <2>2 DEF IInv
  <2>4. /\ Len(params) = Len(post)
        /\ \A u \in 1 .. Len(uploads) : uploads[u] = Complete
        /\ \A k \in 1 .. Len(params) :
              params[k] = IF post[k] = "var" THEN <<"v">> ELSE <<"f">>
    BY <1>1, <2>1, <2>3 DEF ParserInv, ParamsRight
  <2>5. DOMAIN post = 1 .. Len(post) /\ DOMAIN params = 1 .. Len(params)
        /\ DOMAIN uploads = 1 .. Len(uploads)
    <3>1. params \in Seq(Told) /\ uploads \in Seq(Upload) /\ post \in Seq({"var", "file"})
      BY <2>1, <2>2, PostFacts DEF TypeInv, TypeOK, Upload
    <3> QED BY <3>1, LenProperties
  <2>6. params = [k \in DOMAIN post |->
                     IF post[k] = "var" THEN <<"v">> ELSE <<"f">>]
    <3>1. params = [k \in 1 .. Len(params) |-> params[k]]
      <4>1. params \in Seq(Told)
        BY <2>1 DEF TypeInv, TypeOK
      <4> QED BY <4>1, LenProperties
    <3> DEFINE kind(k) == IF post[k] = "var" THEN <<"v">> ELSE <<"f">>
    <3>2. \A k \in 1 .. Len(params) : params[k] = kind(k)
      BY <2>4
    <3> HIDE DEF kind
    <3>3. [k \in 1 .. Len(params) |-> params[k]] = [k \in 1 .. Len(params) |-> kind(k)]
      BY <3>2
    <3>4. params = [k \in DOMAIN post |-> kind(k)]
      BY <3>1, <3>3, <2>4, <2>5
    <3> QED BY <3>4 DEF kind
  <2> QED BY <2>4, <2>5, <2>6 DEF Complete
<1>2. IInv => DoneIsComplete
  BY <1>1 DEF DoneIsComplete
<1> QED BY <1>2, Invariance, PTL

(* What is passed on of a file is a beginning of it, whatever was in the   *)
(* buffer before and however its boundary was cut.                         *)
THEOREM PrefixesPassedOn == Spec => []UploadsArePrefixes
<1>1. ASSUME IInv, Plain, NEW k \in DOMAIN uploads
      PROVE  /\ Len(uploads[k].data) <= Len(file)
             /\ uploads[k].data = SubSeq(file, 1, Len(uploads[k].data))
  <2>1. PICK j \in 0 .. Len(file) : uploads[k].data = SubSeq(file, 1, j)
    BY <1>1, WhatIsPassedOn
  <2>2. Len(SubSeq(file, 1, j)) = j /\ Len(file) \in Nat
    BY <1>1, FileFacts DEF IInv
  <2> QED BY <2>1, <2>2
<1>2. IInv => UploadsArePrefixes
  BY <1>1 DEF UploadsArePrefixes
<1> QED BY <1>2, Invariance, PTL

(* The parser neither searches in vain nor moves more than it has.         *)
THEOREM Inside == Spec => []StaysInside
<1>1. ASSUME IInv, Plain PROVE result # "crash"
  <2>1. pc # "over" => result = "open"
    BY <1>1 DEF IInv, TypeInv
  <2>2. CASE Direct
    BY <1>1, <2>1, <2>2 DEF IInv, DirectInv
  <2>3. CASE ~Direct
    <3>1. PICK P : ParserInv(P)
      BY <1>1, <2>3 DEF IInv
    <3> QED BY <2>1, <3>1 DEF ParserInv
  <2> QED BY <2>2, <2>3
<1>2. IInv => StaysInside
  BY <1>1 DEF StaysInside
<1> QED BY <1>2, Invariance, PTL

(* A chunk that is passed on as the last one ends the file.                *)
THEOREM LastIsLast == Spec => []LastChunkIsLast
<1>1. ASSUME IInv, Plain, ~Direct, NEW k \in DOMAIN uploads, uploads[k].last
      PROVE  uploads[k].data = file
  <2>1. uploads[k].data = SubSeq(file, 1, Len(file))
    BY <1>1, WhatIsPassedOn
  <2> QED BY <1>1, <2>1, FileFacts DEF IInv
<1>2. IInv => LastChunkIsLast
  BY <1>1 DEF LastChunkIsLast
<1> QED BY <1>2, Invariance, PTL

=============================================================================
