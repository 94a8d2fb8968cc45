----------------------- MODULE FrontendStreamProofs -----------------------
(***************************************************************************)
(* That the frames of a client arrive whole and in order, for any frames,  *)
(* any chunks of the stream and any sizes.                                 *)
(*                                                                         *)
(* The argument: the bytes at hand and under way are always the encoding   *)
(* of the frames not yet found.  A scan that starts at a frame boundary    *)
(* finds the frame that was written there and stops at the next boundary;  *)
(* by induction on the bytes left, all it finds are the next frames, and   *)
(* what it leaves is the encoding of the rest.                             *)
(*                                                                         *)
(* That only part of a frame waits, and that a bad stream stays bad: a     *)
(* scan stops at part of a frame, at a frame of a bad length or at the end *)
(* of the bytes, and bytes that follow change only the first of these.     *)
(***************************************************************************)
EXTENDS FrontendConnection, TLAPS, SequenceTheorems, WellFoundedInduction

-----------------------------------------------------------------------------
(* Numbers.                                                                *)

\* A set of numbers has a least one.
LEMMA LeastNumber ==
    ASSUME NEW T, T \subseteq Nat, T # {}
    PROVE  \E n \in T : \A k \in T : n <= k
<1>1. PICK n \in T : \A k \in T : ~ (<<k, n>> \in OpToRel(<, Nat))
    BY NatLessThanWellFounded, WFMin
<1>2. ASSUME NEW k \in T PROVE n <= k
    <2>1. k \in Nat /\ n \in Nat
        OBVIOUS
    <2>2. <<k, n>> \in Nat \X Nat /\ <<k, n>>[1] = k /\ <<k, n>>[2] = n
        BY <2>1
    <2>3. ~ (<<k, n>>[1] < <<k, n>>[2])
        BY <1>1, <2>2 DEF OpToRel
    <2> QED BY <2>1, <2>2, <2>3
<1> QED BY <1>1, <1>2

\* Induction, for a set of numbers instead of a predicate.
LEMMA NumberInduction ==
    ASSUME NEW T, 0 \in T, \A n \in Nat : n \in T => n + 1 \in T
    PROVE  Nat \subseteq T
<1> SUFFICES ASSUME Nat \ T # {} PROVE FALSE
    OBVIOUS
<1>1. PICK n \in Nat \ T : \A k \in Nat \ T : n <= k
    BY LeastNumber
<1>2. n # 0 /\ n - 1 \in Nat
    BY <1>1
<1>3. n - 1 \in T
    BY <1>1, <1>2
<1>4. (n - 1) + 1 = n
    OBVIOUS
<1> QED BY <1>1, <1>2, <1>3, <1>4

-----------------------------------------------------------------------------
(* FlattenSeq, which EncodeAll uses: what it does with a sequence at either *)
(* end of the others.                                                      *)

\* f has the concatenations of the first 1, 2, ..., n sequences of ss.
Sums(ss, n, f) == f = [i \in 1..n |-> IF i = 1 THEN ss[i] ELSE f[i-1] \o ss[i]]

\* What such an f has at each place.
LEMMA SumsFacts ==
    ASSUME NEW ss, NEW n, NEW f, Sums(ss, n, f)
    PROVE  \A i \in 1..n : f[i] = IF i = 1 THEN ss[i] ELSE f[i-1] \o ss[i]
<1> DEFINE e(i) == IF i = 1 THEN ss[i] ELSE f[i-1] \o ss[i]
<1>1. f = [i \in 1..n |-> e(i)]
    BY DEF Sums
<1> HIDE DEF e
<1>2. \A i \in 1..n : f[i] = e(i)
    BY <1>1
<1> QED BY <1>2 DEF e

\* There is one.
LEMMA SumsExist == ASSUME NEW ss, NEW n \in Nat PROVE \E f : Sums(ss, n, f)
<1> DEFINE T == {k \in Nat : \E f : Sums(ss, k, f)}
<1>1. 0 \in T
    <2>1. Sums(ss, 0, [i \in 1..0 |-> ss[i]])
        BY DEF Sums
    <2> QED BY <2>1
<1>2. ASSUME NEW k \in Nat, k \in T PROVE k + 1 \in T
    <2>1. PICK f : Sums(ss, k, f)
        BY <1>2
    <2> DEFINE g == [i \in 1..(k+1) |-> IF i = k + 1 THEN IF i = 1 THEN ss[i] ELSE f[i-1] \o ss[i]
                                        ELSE f[i]]
    <2>2. \A i \in 1..k : g[i] = f[i] /\ f[i] = IF i = 1 THEN ss[i] ELSE f[i-1] \o ss[i]
        <3>1. \A i \in 1..k : f[i] = IF i = 1 THEN ss[i] ELSE f[i-1] \o ss[i]
            BY <2>1, SumsFacts
        <3>2. \A i \in 1..k : g[i] = f[i]
            OBVIOUS
        <3> HIDE DEF g
        <3> QED BY <3>1, <3>2
    <2>3. ASSUME NEW i \in 1..(k+1) PROVE g[i] = IF i = 1 THEN ss[i] ELSE g[i-1] \o ss[i]
        <3>1. CASE i = k + 1 /\ i = 1
            BY <3>1
        <3>2. CASE i = k + 1 /\ i # 1
            <4>1. i - 1 \in 1..k
                BY <3>2
            <4> QED BY <2>2, <3>2, <4>1
        <3>3. CASE i # k + 1
            <4>1. i \in 1..k /\ (i # 1 => i - 1 \in 1..k)
                BY <3>3
            <4>2. g[i] = f[i] /\ (i # 1 => g[i-1] = f[i-1])
                BY <2>2, <4>1
            <4> HIDE DEF g
            <4> QED BY <2>2, <4>1, <4>2
        <3> QED BY <3>1, <3>2, <3>3
    <2>4. g = [i \in 1..(k+1) |-> g[i]]
        OBVIOUS
    <2> HIDE DEF g
    <2>5. Sums(ss, k + 1, g)
        BY <2>3, <2>4 DEF Sums
    <2> QED BY <2>5
<1> HIDE DEF T
<1>3. Nat \subseteq T
    BY <1>1, <1>2, NumberInduction
<1> QED BY <1>3 DEF T

\* FlattenSeq is its last.
LEMMA FlattenIsSum ==
    ASSUME NEW S, NEW ss \in Seq(S), ss # <<>>
    PROVE  \E f : Sums(ss, Len(ss), f) /\ FlattenSeq(ss) = f[Len(ss)]
<1>1. Len(ss) \in Nat \ {0}
    BY EmptySeq
<1>2. \E f : Sums(ss, Len(ss), f)
    BY <1>1, SumsExist
<1> DEFINE g == CHOOSE f : Sums(ss, Len(ss), f)
<1>3. Sums(ss, Len(ss), g)
    BY <1>2
<1>4. FlattenSeq(ss) = g[Len(ss)]
    BY <1>1 DEF FlattenSeq, Sums
<1> QED BY <1>3, <1>4

\* All of them are sequences of the same elements.
LEMMA SumsType ==
    ASSUME NEW S, NEW n \in Nat, NEW ss, NEW f, Sums(ss, n, f), \A i \in 1..n : ss[i] \in Seq(S)
    PROVE  \A i \in 1..n : f[i] \in Seq(S)
<1> DEFINE T == {k \in Nat : k \in 1..n => f[k] \in Seq(S)}
<1>1. 0 \in T
    OBVIOUS
<1>2. ASSUME NEW k \in Nat, k \in T PROVE k + 1 \in T
    <2> SUFFICES ASSUME k + 1 \in 1..n PROVE f[k + 1] \in Seq(S)
        OBVIOUS
    <2>1. f[k+1] = IF k + 1 = 1 THEN ss[k+1] ELSE f[(k+1)-1] \o ss[k+1]
        BY SumsFacts
    <2>2. CASE k + 1 = 1
        BY <2>1, <2>2
    <2>3. CASE k + 1 # 1
        <3>1. k \in 1..n /\ (k + 1) - 1 = k
            BY <2>3
        <3>2. f[k] \in Seq(S) /\ ss[k+1] \in Seq(S)
            BY <1>2, <3>1
        <3> QED BY <2>1, <2>3, <3>1, <3>2, ConcatProperties
    <2> QED BY <2>2, <2>3
<1> HIDE DEF T
<1>3. Nat \subseteq T
    BY <1>1, <1>2, NumberInduction
<1> QED BY <1>3 DEF T

\* They depend on the sequences up to their place only.
LEMMA SumsAgree ==
    ASSUME NEW n \in Nat, NEW m \in Nat, n <= m, NEW ss, NEW tt, NEW f, NEW g,
           Sums(ss, n, f), Sums(tt, m, g), \A i \in 1..n : ss[i] = tt[i]
    PROVE  \A i \in 1..n : f[i] = g[i]
<1> DEFINE T == {k \in Nat : k \in 1..n => f[k] = g[k]}
<1>1. 0 \in T
    OBVIOUS
<1>2. ASSUME NEW k \in Nat, k \in T PROVE k + 1 \in T
    <2> SUFFICES ASSUME k + 1 \in 1..n PROVE f[k + 1] = g[k + 1]
        OBVIOUS
    <2>1. f[k+1] = IF k + 1 = 1 THEN ss[k+1] ELSE f[(k+1)-1] \o ss[k+1]
        BY SumsFacts
    <2>2. g[k+1] = IF k + 1 = 1 THEN tt[k+1] ELSE g[(k+1)-1] \o tt[k+1]
        <3>1. k + 1 \in 1..m
            OBVIOUS
        <3> QED BY <3>1, SumsFacts
    <2>3. k + 1 # 1 => f[(k+1)-1] = g[(k+1)-1]
        <3>1. k + 1 # 1 => k \in 1..n /\ (k + 1) - 1 = k
            OBVIOUS
        <3> QED BY <1>2, <3>1
    <2>4. ss[k+1] = tt[k+1]
        OBVIOUS
    <2> HIDE DEF T
    <2> QED BY <2>1, <2>2, <2>3, <2>4
<1> HIDE DEF T
<1>3. Nat \subseteq T
    BY <1>1, <1>2, NumberInduction
<1> QED BY <1>3 DEF T

\* A sequence of sequences with one more at its end.
LEMMA FlattenAppend ==
    ASSUME NEW S, NEW ss \in Seq(Seq(S)), NEW s \in Seq(S)
    PROVE  /\ FlattenSeq(ss) \in Seq(S)
           /\ FlattenSeq(Append(ss, s)) = FlattenSeq(ss) \o s
<1> DEFINE tt == Append(ss, s)
           n == Len(ss)
<1>1. /\ tt \in Seq(Seq(S)) /\ tt # <<>> /\ n \in Nat /\ Len(tt) = n + 1
      /\ \A i \in 1..n : tt[i] = ss[i]
      /\ tt[n + 1] = s
    BY AppendProperties, LenProperties
<1> HIDE DEF tt
<1>2. PICK g : Sums(tt, n + 1, g) /\ FlattenSeq(tt) = g[n + 1]
    BY <1>1, FlattenIsSum
<1>3. g[n+1] = IF n + 1 = 1 THEN tt[n+1] ELSE g[(n+1)-1] \o tt[n+1]
    BY <1>1, <1>2, SumsFacts
<1>4. CASE ss = <<>>
    <2>1. n = 0 /\ FlattenSeq(ss) = <<>>
        BY <1>4, EmptySeq DEF FlattenSeq
    <2>2. <<>> \o s = s
        BY ConcatEmptySeq
    <2> QED BY <1>1, <1>2, <1>3, <2>1, <2>2 DEF tt
<1>5. CASE ss # <<>>
    <2>1. n \in Nat \ {0}
        BY <1>5, EmptySeq
    <2>2. PICK f : Sums(ss, n, f) /\ FlattenSeq(ss) = f[n]
        BY <1>5, FlattenIsSum
    <2>3. f[n] = g[n]
        <3>1. n \in Nat /\ n + 1 \in Nat /\ n <= n + 1 /\ n \in 1..n
            BY <2>1
        <3>2. \A i \in 1..n : ss[i] = tt[i]
            BY <1>1
        <3> HIDE DEF n
        <3> QED BY <1>2, <2>2, <3>1, <3>2, SumsAgree
    <2>4. f[n] \in Seq(S)
        <3>1. \A i \in 1..n : ss[i] \in Seq(S)
            BY ElementOfSeq
        <3> QED BY <2>1, <2>2, <3>1, SumsType
    <2>5. n + 1 # 1 /\ (n + 1) - 1 = n
        BY <2>1
    <2> QED BY <1>1, <1>2, <1>3, <2>2, <2>3, <2>4, <2>5 DEF tt
<1> QED BY <1>4, <1>5

\* Concatenation is associative.
LEMMA Associates ==
    ASSUME NEW S, NEW x \in Seq(S), NEW y \in Seq(S), NEW z \in Seq(S)
    PROVE  (x \o y) \o z = x \o (y \o z)
BY ConcatAssociative

\* Or seen from its first sequence.
LEMMA FlattenHead ==
    ASSUME NEW S, NEW ss \in Seq(Seq(S)), ss # <<>>
    PROVE  FlattenSeq(ss) = Head(ss) \o FlattenSeq(Tail(ss))
<1> DEFINE n == Len(ss)
           tt == Tail(ss)
           a == Head(ss)
<1>1. /\ n \in Nat \ {0} /\ a \in Seq(S) /\ tt \in Seq(Seq(S)) /\ Len(tt) = n - 1
      /\ (\A i \in 1..(n-1) : tt[i] = ss[i+1]) /\ a = ss[1]
    BY EmptySeq, HeadTailProperties
<1>2. PICK f : Sums(ss, n, f) /\ FlattenSeq(ss) = f[n]
    BY FlattenIsSum
<1> HIDE DEF tt, a, n
<1>3. f[1] = a
    BY <1>1, <1>2, SumsFacts
<1>4. CASE n = 1
    <2>1. FlattenSeq(tt) = <<>>
        <3>1. Len(tt) = 0
            BY <1>1, <1>4
        <3>2. tt = <<>>
            BY <1>1, <3>1, EmptySeq
        <3> QED BY <3>1, <3>2 DEF FlattenSeq
    <2>2. a \o <<>> = a
        BY <1>1, ConcatEmptySeq
    <2> QED BY <1>2, <1>3, <1>4, <2>1, <2>2 DEF tt, a
<1>5. CASE n # 1
    <2>1. tt # <<>> /\ n - 1 \in Nat \ {0}
        BY <1>1, <1>5, EmptySeq
    <2>2. PICK g : Sums(tt, n - 1, g) /\ FlattenSeq(tt) = g[n - 1]
        BY <1>1, <2>1, FlattenIsSum
    <2>3. \A i \in 1..(n-1) : g[i] \in Seq(S) /\ tt[i] \in Seq(S)
        <3>1. \A i \in 1..(n-1) : tt[i] \in Seq(S)
            BY <1>1, ElementOfSeq
        <3> QED BY <2>1, <2>2, <3>1, SumsType
    <2> DEFINE T == {k \in Nat : k \in 1..(n-1) => f[k+1] = a \o g[k]}
    <2>4. 0 \in T
        OBVIOUS
    <2>5. ASSUME NEW k \in Nat, k \in T PROVE k + 1 \in T
        <3> SUFFICES ASSUME k + 1 \in 1..(n-1) PROVE f[(k+1)+1] = a \o g[k+1]
            OBVIOUS
        <3>1. (k+1)+1 \in 1..n /\ (k+1)+1 # 1 /\ ((k+1)+1)-1 = k+1
            BY <1>1
        <3>2. f[(k+1)+1] = f[k+1] \o tt[k+1]
            <4>1. \A i \in 1..n : f[i] = IF i = 1 THEN ss[i] ELSE f[i-1] \o ss[i]
                BY <1>2, SumsFacts
            <4>2. PICK m \in 1..n : m = (k+1)+1 /\ m # 1 /\ m - 1 = k + 1
                BY <3>1
            <4>3. f[m] = f[m-1] \o ss[m]
                BY <4>1, <4>2
            <4>4. ss[(k+1)+1] = tt[k+1]
                BY <1>1
            <4> QED BY <4>2, <4>3, <4>4
        <3>3. g[k+1] = IF k+1 = 1 THEN tt[k+1] ELSE g[(k+1)-1] \o tt[k+1]
            BY <2>2, SumsFacts
        <3>4. CASE k = 0
            <4>1. f[k+1] = a /\ g[k+1] = tt[k+1]
                BY <1>3, <3>3, <3>4
            <4> QED BY <3>2, <4>1
        <3>5. CASE k # 0
            <4>1. k \in 1..(n-1) /\ k + 1 # 1 /\ (k+1)-1 = k
                BY <1>1, <3>5
            <4>2. f[k+1] = a \o g[k] /\ g[k+1] = g[k] \o tt[k+1]
                BY <2>5, <3>3, <4>1
            <4>3. (a \o g[k]) \o tt[k+1] = a \o (g[k] \o tt[k+1])
                <5>1. a \in Seq(S) /\ g[k] \in Seq(S) /\ tt[k+1] \in Seq(S)
                    BY <1>1, <2>3, <4>1
                <5>2. PICK x, y, z \in Seq(S) : x = a /\ y = g[k] /\ z = tt[k+1]
                    BY <5>1
                <5>3. (x \o y) \o z = x \o (y \o z)
                    BY Associates, SMTT(60)
                <5> QED BY <5>2, <5>3
            <4> QED BY <3>2, <4>2, <4>3
        <3> QED BY <3>4, <3>5
    <2> HIDE DEF T
    <2>6. Nat \subseteq T
        BY <2>4, <2>5, NumberInduction
    <2>7. f[(n-1)+1] = a \o g[n-1]
        <3>1. n - 1 \in Nat /\ n - 1 \in 1..(n-1)
            BY <1>1, <2>1
        <3>2. n - 1 \in T
            BY <2>6, <3>1
        <3> QED BY <3>1, <3>2 DEF T
    <2>8. (n-1)+1 = n
        BY <1>1
    <2> QED BY <1>2, <2>2, <2>7, <2>8 DEF tt, a
<1> QED BY <1>4, <1>5

-----------------------------------------------------------------------------
(* Encoding.                                                               *)

\* The bytes of a stream.
Types == {f.type : f \in Frames} \cup {"body", "length"}
Bytes == [type : Types, value : Nat]

\* What is assumed of a frame.
LEMMA FrameFacts ==
    ASSUME NEW f \in Frames
    PROVE  /\ f.length \in Nat /\ f.body \in Nat /\ f = Frame(f.type, f.length, f.body)
           /\ f.length < LengthBytes \/ 1 + f.length > MaxFrame \/ f.length = LengthBytes + f.body
           /\ LengthBytes \in Nat \ {0}
           /\ f.type \in Types
BY FramesAssumption, FramingAssumption DEF WellFormed, Types

\* A frame is its type byte, its length and its body.
LEMMA EncodeFacts ==
    ASSUME NEW f \in Frames
    PROVE  /\ Encode(f) \in Seq(Bytes)
           /\ Len(Encode(f)) = 1 + LengthBytes + f.body
           /\ Encode(f)[1].type = f.type
           /\ Encode(f)[2].value = f.length
<1> DEFINE u == <<Byte(f.type, 0), Byte("length", f.length)>>
           n == LengthBytes - 1 + f.body
           v == [i \in 1..n |-> BodyByte]
<1>1. /\ f.length \in Nat /\ f.body \in Nat /\ LengthBytes \in Nat \ {0} /\ f.type \in Types
      /\ n \in Nat
    BY FrameFacts
<1>2. Byte(f.type, 0) \in Bytes /\ Byte("length", f.length) \in Bytes /\ BodyByte \in Bytes
    BY <1>1 DEF Byte, BodyByte, Bytes, Types
<1>3. u \in Seq(Bytes) /\ Len(u) = 2 /\ u[1] = Byte(f.type, 0) /\ u[2] = Byte("length", f.length)
    BY <1>2
<1>4. v \in Seq(Bytes) /\ Len(v) = n
    BY <1>1, <1>2
<1>5. Encode(f) = u \o v
    BY DEF Encode
<1> HIDE DEF u, v
<1>6. /\ Encode(f) \in Seq(Bytes)
      /\ Len(Encode(f)) = 2 + n
      /\ Encode(f)[1] = u[1] /\ Encode(f)[2] = u[2]
    <2>1. /\ u \o v \in Seq(Bytes)
          /\ Len(u \o v) = Len(u) + Len(v)
          /\ \A i \in 1..(Len(u) + Len(v)) :
                (u \o v)[i] = IF i <= Len(u) THEN u[i] ELSE v[i - Len(u)]
        BY <1>3, <1>4, ConcatProperties
    <2>2. 1 \in 1..(2 + n) /\ 2 \in 1..(2 + n)
        BY <1>1
    <2>3. (u \o v)[1] = u[1] /\ (u \o v)[2] = u[2]
        BY <1>3, <1>4, <2>1, <2>2
    <2> QED BY <1>3, <1>4, <1>5, <2>1, <2>3
<1>7. 2 + n = 1 + LengthBytes + f.body
    BY <1>1
<1> HIDE DEF n
<1> QED BY <1>3, <1>6, <1>7 DEF Byte

\* The frames of gs as bytes, still apart.
EncodeEach(gs) == [i \in 1..Len(gs) |-> Encode(gs[i])]

\* Place by place.
LEMMA EachFacts ==
    ASSUME NEW gs \in Seq(Frames)
    PROVE  /\ EncodeEach(gs) \in Seq(Seq(Bytes))
           /\ Len(EncodeEach(gs)) = Len(gs)
           /\ \A i \in 1..Len(gs) : EncodeEach(gs)[i] = Encode(gs[i])
<1>1. Len(gs) \in Nat /\ \A i \in 1..Len(gs) : Encode(gs[i]) \in Seq(Bytes)
    BY EncodeFacts, ElementOfSeq, LenProperties
<1> QED BY <1>1 DEF EncodeEach

\* No frame has no byte.
LEMMA EncodeNone == EncodeAll(<<>>) = <<>>
<1>1. EncodeAll(<<>>) = FlattenSeq(EncodeEach(<<>>))
    BY DEF EncodeAll, EncodeEach
<1>2. EncodeEach(<<>>) = <<>>
    BY EachFacts, EmptySeq
<1>3. FlattenSeq(<<>>) = <<>>
    BY EmptySeq DEF FlattenSeq
<1> QED BY <1>1, <1>2, <1>3

\* The bytes of frames with one more after them.
LEMMA EncodeAppend ==
    ASSUME NEW gs \in Seq(Frames), NEW f \in Frames
    PROVE  /\ EncodeAll(gs) \in Seq(Bytes)
           /\ EncodeAll(Append(gs, f)) = EncodeAll(gs) \o Encode(f)
<1>1. EncodeEach(gs) \in Seq(Seq(Bytes)) /\ Encode(f) \in Seq(Bytes)
    BY EachFacts, EncodeFacts
<1>2. EncodeEach(Append(gs, f)) = Append(EncodeEach(gs), Encode(f))
    <2> DEFINE hs == Append(gs, f)
               s == EncodeEach(hs)
               t == Append(EncodeEach(gs), Encode(f))
    <2>1. /\ hs \in Seq(Frames) /\ Len(hs) = Len(gs) + 1 /\ hs[Len(gs) + 1] = f
          /\ (\A i \in 1..Len(gs) : hs[i] = gs[i]) /\ Len(gs) \in Nat
        BY AppendProperties, LenProperties
    <2> HIDE DEF hs
    <2>2. /\ s \in Seq(Seq(Bytes)) /\ Len(s) = Len(gs) + 1
          /\ \A i \in 1..(Len(gs) + 1) : s[i] = Encode(hs[i])
        BY <2>1, EachFacts
    <2>3. /\ t \in Seq(Seq(Bytes)) /\ Len(t) = Len(gs) + 1
          /\ \A i \in 1..Len(gs) : t[i] = Encode(gs[i])
          /\ t[Len(gs) + 1] = Encode(f)
        BY <1>1, EachFacts, AppendProperties
    <2> HIDE DEF s, t
    <2>4. ASSUME NEW i \in 1..Len(s) PROVE s[i] = t[i]
        <3>1. i \in 1..Len(gs) \/ i = Len(gs) + 1
            BY <2>1, <2>2
        <3>2. s[i] = Encode(hs[i])
            BY <2>2
        <3> QED BY <2>1, <2>3, <3>1, <3>2
    <2>5. s = t
        BY <2>2, <2>3, <2>4, SeqEqual
    <2> QED BY <2>5 DEF s, t, hs
<1>3. /\ EncodeAll(Append(gs, f)) = FlattenSeq(EncodeEach(Append(gs, f)))
      /\ EncodeAll(gs) = FlattenSeq(EncodeEach(gs))
    BY DEF EncodeAll, EncodeEach
<1> QED BY <1>1, <1>2, <1>3, FlattenAppend

\* The bytes of frames, those of the first apart.
LEMMA EncodeHead ==
    ASSUME NEW gs \in Seq(Frames), gs # <<>>
    PROVE  EncodeAll(gs) = Encode(Head(gs)) \o EncodeAll(Tail(gs))
<1>1. /\ EncodeAll(gs) = FlattenSeq(EncodeEach(gs))
      /\ EncodeAll(Tail(gs)) = FlattenSeq(EncodeEach(Tail(gs)))
    BY DEF EncodeAll, EncodeEach
<1> DEFINE n == Len(gs)
           s == EncodeEach(gs)
           hs == Tail(gs)
<1>2. /\ n \in Nat \ {0} /\ hs \in Seq(Frames) /\ Len(hs) = n - 1
      /\ (\A i \in 1..(n-1) : hs[i] = gs[i+1]) /\ Head(gs) = gs[1]
    BY EmptySeq, HeadTailProperties
<1> HIDE DEF hs
<1>3. s \in Seq(Seq(Bytes)) /\ Len(s) = n /\ \A i \in 1..n : s[i] = Encode(gs[i])
    BY EachFacts
<1> HIDE DEF s
<1>4. s # <<>>
    BY <1>2, <1>3, EmptySeq
<1>5. /\ Head(s) = s[1] /\ Tail(s) \in Seq(Seq(Bytes)) /\ Len(Tail(s)) = n - 1
      /\ \A i \in 1..(n-1) : Tail(s)[i] = s[i+1]
    BY <1>3, <1>4, HeadTailProperties
<1>6. Head(s) = Encode(Head(gs))
    BY <1>2, <1>3, <1>5
<1>7. Tail(s) = EncodeEach(hs)
    <2> DEFINE t == EncodeEach(hs)
    <2>1. t \in Seq(Seq(Bytes)) /\ Len(t) = n - 1 /\ \A i \in 1..(n-1) : t[i] = Encode(hs[i])
        BY <1>2, EachFacts
    <2> HIDE DEF t
    <2>2. \A i \in 1..(n-1) : Tail(s)[i] = t[i]
        <3> SUFFICES ASSUME NEW i \in 1..(n-1) PROVE Tail(s)[i] = t[i]
            OBVIOUS
        <3>1. i + 1 \in 1..n
            BY <1>2
        <3> QED BY <1>2, <1>3, <1>5, <2>1, <3>1
    <2>3. Tail(s) = t
        BY <1>5, <2>1, <2>2, SeqEqual
    <2> QED BY <2>3 DEF t
<1>8. FlattenSeq(s) = Head(s) \o FlattenSeq(Tail(s))
    BY <1>3, <1>4, FlattenHead
<1> QED BY <1>1, <1>6, <1>7, <1>8 DEF s, hs

-----------------------------------------------------------------------------
(* The scan of a buffer.                                                   *)

\* No frame is found from offset o on.
Found(o, ok) == [frames |-> <<>>, offset |-> o, ok |-> ok]
\* A frame stands at offset o with all its bytes.
Complete(b, o) == HeaderAt(b, o) /\ ~BadLength(b, o) /\ o + 1 + LengthAt(b, o) <= Len(b)
\* The body of the recursive function of Scan, f standing for the function.
ScanStep(b, f, o) ==
    IF ~HeaderAt(b, o) THEN [frames |-> <<>>, offset |-> o, ok |-> TRUE]
    ELSE IF BadLength(b, o) THEN [frames |-> <<>>, offset |-> o, ok |-> FALSE]
    ELSE IF o + 1 + LengthAt(b, o) > Len(b) THEN [frames |-> <<>>, offset |-> o, ok |-> TRUE]
    ELSE LET rest == f[o + 1 + LengthAt(b, o)]
         IN [rest EXCEPT !.frames = <<FrameAt(b, o)>> \o @]
\* f is that function from offset k on.
Scans(b, k, f) == f = [o \in k..Len(b) |-> ScanStep(b, f, o)]

\* A header lies within the buffer, and its frame does not end before it.
LEMMA LengthFacts ==
    ASSUME NEW b \in Seq(Bytes), NEW o \in 0..Len(b), HeaderAt(b, o)
    PROVE  /\ LengthAt(b, o) \in Nat /\ Len(b) \in Nat
           /\ o + 1 \in 1..Len(b) /\ o + 2 \in 1..Len(b)
           /\ ~BadLength(b, o) => o + 1 + LengthAt(b, o) >= o + 2
<1>1. LengthBytes \in Nat \ {0} /\ MaxFrame \in Nat /\ Len(b) \in Nat
    BY FramingAssumption, LenProperties
<1>2. o + 1 \in 1..Len(b) /\ o + 2 \in 1..Len(b)
    BY <1>1 DEF HeaderAt
<1>3. b[o + 2] \in Bytes
    BY <1>2, ElementOfSeq
<1>4. LengthAt(b, o) \in Nat
    BY <1>3 DEF LengthAt, Bytes
<1>5. ~BadLength(b, o) => LengthAt(b, o) >= LengthBytes
    BY <1>1, <1>4 DEF BadLength
<1> QED BY <1>1, <1>2, <1>4, <1>5

\* The scan from an offset depends on larger offsets only.
LEMMA ScanLooksAhead ==
    ASSUME NEW b \in Seq(Bytes), NEW o \in 0..Len(b), NEW f, NEW g,
           \A i \in (o+1)..Len(b) : f[i] = g[i]
    PROVE  ScanStep(b, f, o) = ScanStep(b, g, o)
<1>1. CASE Complete(b, o)
    <2>1. o + 1 + LengthAt(b, o) \in (o+1)..Len(b)
        BY <1>1, LengthFacts DEF Complete
    <2>2. f[o + 1 + LengthAt(b, o)] = g[o + 1 + LengthAt(b, o)]
        BY <2>1
    <2> QED BY <2>2 DEF ScanStep
<1>2. CASE ~HeaderAt(b, o) \/ BadLength(b, o)
    BY <1>2 DEF ScanStep
<1>3. CASE HeaderAt(b, o) /\ ~BadLength(b, o) /\ ~(o + 1 + LengthAt(b, o) <= Len(b))
    <2>1. o + 1 + LengthAt(b, o) > Len(b)
        BY <1>3, LengthFacts
    <2> QED BY <1>3, <2>1 DEF ScanStep
<1> QED BY <1>1, <1>2, <1>3 DEF Complete

\* So there is such a function: the loop of consumeFrontendMessages ends.
LEMMA ScansExist ==
    ASSUME NEW b \in Seq(Bytes)
    PROVE  \E f : Scans(b, 0, f)
<1> DEFINE n == Len(b)
           T == {m \in Nat : m <= n => \E f : Scans(b, n - m, f)}
<1>0. n \in Nat
    BY LenProperties
<1> HIDE DEF n
<1>1. 0 \in T
    <2> DEFINE f == [o \in n..n |-> Found(o, TRUE)]
    <2>1. \A o \in n..n : ~HeaderAt(b, o)
        BY <1>0, FramingAssumption DEF HeaderAt, n
    <2>2. \A o \in n..n : ScanStep(b, f, o) = Found(o, TRUE)
        BY <2>1 DEF ScanStep, Found
    <2>3. f = [o \in n..n |-> ScanStep(b, f, o)]
        BY <2>2
    <2> HIDE DEF f
    <2>4. n - 0 = n
        BY <1>0
    <2> QED BY <1>0, <2>3, <2>4 DEF Scans, n
<1>2. ASSUME NEW m \in Nat, m \in T PROVE m + 1 \in T
    <2> SUFFICES ASSUME m + 1 <= n PROVE \E f : Scans(b, n - (m + 1), f)
        OBVIOUS
    <2>1. PICK k \in Nat : k = n - (m + 1) /\ k + 1 = n - m /\ k < n
        BY <1>0
    <2>2. PICK f : Scans(b, k + 1, f)
        BY <1>0, <1>2, <2>1
    <2> DEFINE g == [o \in k..n |-> IF o = k THEN ScanStep(b, f, k) ELSE f[o]]
    <2>3. f = [o \in (k+1)..n |-> ScanStep(b, f, o)]
        BY <2>2 DEF Scans, n
    <2>4. \A o \in (k+1)..n : f[o] = ScanStep(b, f, o)
        <3> DEFINE e(o) == ScanStep(b, f, o)
        <3> HIDE DEF e
        <3>1. f = [o \in (k+1)..n |-> e(o)]
            BY <2>3 DEF e
        <3>2. \A o \in (k+1)..n : f[o] = e(o)
            BY <3>1
        <3> QED BY <3>2 DEF e
    <2>5. (\A o \in (k+1)..n : g[o] = f[o]) /\ g[k] = ScanStep(b, f, k)
        BY <1>0, <2>1
    <2>6. g = [o \in k..n |-> g[o]]
        OBVIOUS
    <2> HIDE DEF g
    <2>7. ASSUME NEW o \in k..n PROVE g[o] = ScanStep(b, g, o)
        <3>1. o \in 0..Len(b) /\ \A i \in (o+1)..Len(b) : g[i] = f[i]
            BY <1>0, <2>1, <2>5 DEF n
        <3>2. ScanStep(b, g, o) = ScanStep(b, f, o)
            BY <3>1, ScanLooksAhead
        <3>3. o = k \/ o \in (k+1)..n
            BY <1>0, <2>1
        <3> QED BY <2>4, <2>5, <3>2, <3>3
    <2>8. g = [o \in k..n |-> ScanStep(b, g, o)]
        BY <2>6, <2>7
    <2>9. Scans(b, k, g)
        BY <2>8 DEF Scans, n
    <2> QED BY <2>1, <2>9
<1> HIDE DEF T
<1>3. Nat \subseteq T
    BY <1>1, <1>2, NumberInduction
<1>4. n \in T /\ n - n = 0 /\ n <= n
    BY <1>0, <1>3
<1> QED BY <1>0, <1>4 DEF T

\* Scan is its value at offset 0.
LEMMA ScanFacts ==
    ASSUME NEW b \in Seq(Bytes)
    PROVE  \E f : /\ Scan(b) = f[0]
                  /\ \A o \in 0..Len(b) : f[o] = ScanStep(b, f, o)
<1> DEFINE g == CHOOSE f : Scans(b, 0, f)
<1>1. Scans(b, 0, g)
    BY ScansExist
<1>2. Scan(b) = g[0]
    BY DEF Scan, Scans, ScanStep
<1> HIDE DEF g
<1>3. \A o \in 0..Len(b) : g[o] = ScanStep(b, g, o)
    <2> DEFINE e(o) == ScanStep(b, g, o)
    <2> HIDE DEF e
    <2>1. g = [o \in 0..Len(b) |-> e(o)]
        BY <1>1 DEF Scans, e
    <2>2. \A o \in 0..Len(b) : g[o] = e(o)
        BY <2>1
    <2> QED BY <2>2 DEF e
<1> QED BY <1>2, <1>3

-----------------------------------------------------------------------------
(* Sequences without their first elements.                                 *)

Drop(s, k) == SubSeq(s, k + 1, Len(s))

\* Place by place.
LEMMA DropFacts ==
    ASSUME NEW S, NEW s \in Seq(S), NEW k \in 0..Len(s)
    PROVE  /\ Drop(s, k) \in Seq(S)
           /\ Len(Drop(s, k)) = Len(s) - k
           /\ \A i \in 1..(Len(s) - k) : Drop(s, k)[i] = s[k + i]
<1> DEFINE m == k + 1
           n == Len(s)
           t == SubSeq(s, m, n)
<1>1. n \in Nat /\ m \in Int /\ m - 1 = k /\ m <= n + 1
    BY LenProperties
<1>2. \A i \in m..n : s[i] \in S
    BY <1>1, ElementOfSeq
<1> HIDE DEF m, n
<1>3. /\ SubSeq(s, m, n) \in Seq(S)
      /\ Len(SubSeq(s, m, n)) = IF m <= n THEN n - m + 1 ELSE 0
      /\ \A i \in 1..(n - m + 1) : SubSeq(s, m, n)[i] = s[m + i - 1]
    BY <1>1, <1>2, SubSeqProperties
<1>4. t \in Seq(S) /\ Len(t) = n - k /\ \A i \in 1..(n - k) : t[i] = s[m + i - 1]
    <2>1. n - m + 1 = n - k /\ (IF m <= n THEN n - m + 1 ELSE 0) = n - k
        BY <1>1
    <2> QED BY <1>3, <2>1
<1>5. \A i \in 1..(n - k) : m + i - 1 = k + i
    BY <1>1
<1> QED BY <1>4, <1>5 DEF Drop, m, n

\* Nothing is dropped.
LEMMA DropNone == ASSUME NEW S, NEW s \in Seq(S) PROVE Drop(s, 0) = s
BY SubSeqFull DEF Drop

\* One element, and k more.
LEMMA DropTail ==
    ASSUME NEW S, NEW s \in Seq(S), s # <<>>, NEW k \in 0..(Len(s) - 1)
    PROVE  Drop(Tail(s), k) = Drop(s, k + 1) /\ Len(Tail(s)) = Len(s) - 1
<1>1. /\ Tail(s) \in Seq(S) /\ Len(Tail(s)) = Len(s) - 1
      /\ \A i \in 1..(Len(s) - 1) : Tail(s)[i] = s[i + 1]
      /\ Len(s) \in Nat \ {0}
    BY HeadTailProperties, EmptySeq
<1> DEFINE u == Drop(Tail(s), k)
           v == Drop(s, k + 1)
           n == Len(s) - 1 - k
<1>2. u \in Seq(S) /\ Len(u) = n /\ \A i \in 1..n : u[i] = Tail(s)[k + i]
    <2>1. PICK t \in Seq(S) : t = Tail(s)
        BY <1>1
    <2>2. k \in 0..Len(t) /\ Len(t) - k = n
        BY <1>1, <2>1
    <2> HIDE DEF n
    <2>3. /\ Drop(t, k) \in Seq(S) /\ Len(Drop(t, k)) = Len(t) - k
          /\ \A i \in 1..(Len(t) - k) : Drop(t, k)[i] = t[k + i]
        BY <2>1, <2>2, DropFacts
    <2> QED BY <2>1, <2>2, <2>3
<1>3. v \in Seq(S) /\ Len(v) = n /\ \A i \in 1..n : v[i] = s[(k + 1) + i]
    <2>1. k + 1 \in 0..Len(s) /\ Len(s) - (k + 1) = n
        BY <1>1
    <2> QED BY <2>1, DropFacts
<1> HIDE DEF u, v
<1>4. \A i \in 1..n : u[i] = v[i]
    <2> SUFFICES ASSUME NEW i \in 1..n PROVE u[i] = v[i]
        OBVIOUS
    <2>1. k + i \in 1..(Len(s) - 1) /\ (k + i) + 1 = (k + 1) + i
        BY <1>1
    <2> QED BY <1>1, <1>2, <1>3, <2>1
<1>5. u = v
    BY <1>2, <1>3, <1>4, SeqEqual
<1> QED BY <1>1, <1>5 DEF u, v

\* Equal streams stay equal when the same bytes are taken off their fronts.
LEMMA FrontOfConcat ==
    ASSUME NEW S
    PROVE  \A x, w, e, y \in Seq(S) :
              x \o w = e \o y /\ Len(e) <= Len(x) => Drop(x, Len(e)) \o w = y
<1> TAKE x, w, e, y \in Seq(S)
<1> HAVE x \o w = e \o y /\ Len(e) <= Len(x)
<1> DEFINE n == Len(e)
<1>1. n \in Nat /\ Len(x) \in Nat /\ Len(w) \in Nat /\ Len(y) \in Nat /\ n <= Len(x)
    BY LenProperties
<1>2. /\ Len(x \o w) = Len(x) + Len(w)
      /\ \A i \in 1..(Len(x) + Len(w)) : (x \o w)[i] = IF i <= Len(x) THEN x[i] ELSE w[i - Len(x)]
    BY ConcatProperties
<1>3. /\ Len(e \o y) = n + Len(y)
      /\ \A i \in 1..(n + Len(y)) : (e \o y)[i] = IF i <= n THEN e[i] ELSE y[i - n]
    BY ConcatProperties
<1>4. Len(x) + Len(w) = n + Len(y)
    BY <1>2, <1>3
<1> DEFINE z == Drop(x, n)
<1>5. z \in Seq(S) /\ Len(z) = Len(x) - n /\ \A i \in 1..(Len(x) - n) : z[i] = x[n + i]
    BY <1>1, DropFacts
<1> HIDE DEF z, n
<1>7. /\ z \o w \in Seq(S) /\ Len(z \o w) = Len(y)
      /\ \A i \in 1..Len(y) : (z \o w)[i] = IF i <= Len(x) - n THEN z[i] ELSE w[i - (Len(x) - n)]
    <2>1. (Len(x) - n) + Len(w) = Len(y)
        BY <1>1, <1>4
    <2> QED BY <1>5, <2>1, ConcatProperties
<1>8. ASSUME NEW i \in 1..Len(y) PROVE (z \o w)[i] = y[i]
    <2>1. n + i \in 1..(n + Len(y)) /\ ~(n + i <= n) /\ (n + i) - n = i
        BY <1>1
    <2>2. (e \o y)[n + i] = y[i]
        BY <1>3, <2>1
    <2>3. CASE i <= Len(x) - n
        <3>1. n + i <= Len(x) /\ i \in 1..(Len(x) - n)
            BY <1>1, <2>3
        <3>2. (x \o w)[n + i] = x[n + i]
            BY <1>2, <1>4, <2>1, <3>1
        <3>3. (z \o w)[i] = x[n + i]
            BY <1>5, <1>7, <2>3, <3>1
        <3> QED BY <2>2, <3>2, <3>3
    <2>4. CASE ~(i <= Len(x) - n)
        <3>1. ~(n + i <= Len(x)) /\ (n + i) - Len(x) = i - (Len(x) - n)
            BY <1>1, <2>4
        <3>2. (x \o w)[n + i] = w[i - (Len(x) - n)]
            BY <1>2, <1>4, <2>1, <3>1
        <3>3. (z \o w)[i] = w[i - (Len(x) - n)]
            BY <1>7, <2>4
        <3> QED BY <2>2, <3>2, <3>3
    <2> QED BY <2>3, <2>4
<1>9. z \o w = y
    BY <1>7, <1>8, SeqEqual
<1> QED BY <1>9 DEF z, n

-----------------------------------------------------------------------------
(* The scan of a buffer that begins what the frames gs are encoded as.     *)

\* What the scan of b from offset o finds, when w is what b lacks of the frames gs.
Accounts(b, w, r, gs) ==
    \E m \in 0..Len(gs) :
        /\ r.frames = SubSeq(gs, 1, m)
        /\ r.offset \in 0..Len(b)
        /\ Drop(b, r.offset) \o w = EncodeAll(Drop(gs, m))

\* The scan may stop at once.
LEMMA NothingFound ==
    ASSUME NEW b \in Seq(Bytes), NEW w \in Seq(Bytes), NEW o \in 0..Len(b),
           NEW gs \in Seq(Frames), Drop(b, o) \o w = EncodeAll(gs),
           NEW r, r = Found(o, TRUE)
    PROVE  Accounts(b, w, r, gs)
<1>1. SubSeq(gs, 1, 0) = <<>> /\ 0 \in 0..Len(gs)
    BY SubSeqEmpty, LenProperties
<1>2. Drop(gs, 0) = gs
    BY DropNone
<1> QED BY <1>1, <1>2 DEF Accounts, Found

\* A complete frame is the next one that was written.
LEMMA FrameFound ==
    ASSUME NEW b \in Seq(Bytes), NEW w \in Seq(Bytes), NEW o \in 0..Len(b),
           NEW gs \in Seq(Frames), Drop(b, o) \o w = EncodeAll(gs), Complete(b, o)
    PROVE  /\ gs # <<>> /\ FrameAt(b, o) = Head(gs)
           /\ o + 1 + LengthAt(b, o) \in (o + 1)..Len(b)
           /\ Drop(b, o + 1 + LengthAt(b, o)) \o w = EncodeAll(Tail(gs))
<1>1. /\ Len(b) \in Nat /\ o + 1 \in 1..Len(b) /\ o + 2 \in 1..Len(b)
      /\ LengthAt(b, o) \in Nat
      /\ o + 1 + LengthAt(b, o) \in (o + 1)..Len(b) /\ LengthAt(b, o) >= 1
    BY LengthFacts DEF Complete
<1> DEFINE x == Drop(b, o)
<1>2. x \in Seq(Bytes) /\ Len(x) = Len(b) - o /\ \A i \in 1..(Len(b) - o) : x[i] = b[o + i]
    BY DropFacts
<1> HIDE DEF x
<1>3. x \o w = EncodeAll(gs)
    BY DEF x
<1>4. gs # <<>>
    <2>1. Len(x \o w) = Len(x) + Len(w) /\ Len(w) \in Nat
        BY <1>2, ConcatProperties, LenProperties
    <2>2. Len(x \o w) # 0
        BY <1>1, <1>2, <2>1
    <2>3. x \o w # <<>>
        BY <2>2, EmptySeq
    <2> QED BY <1>3, <2>3, EncodeNone
<1>5. PICK g \in Frames : g = Head(gs)
    BY <1>4, HeadTailProperties
<1>6. Tail(gs) \in Seq(Frames)
    BY <1>4, HeadTailProperties
<1>7. PICK e \in Seq(Bytes) : /\ e = Encode(g) /\ Len(e) = 1 + LengthBytes + g.body
                              /\ e[1].type = g.type /\ e[2].value = g.length
    BY EncodeFacts
<1>8. PICK y \in Seq(Bytes) : y = EncodeAll(Tail(gs))
    BY <1>5, <1>6, EncodeAppend
<1>9. x \o w = e \o y
    BY <1>3, <1>4, <1>5, <1>7, <1>8, EncodeHead
<1>10. x[1] = e[1] /\ x[2] = e[2]
    <2>1. /\ Len(x \o w) = Len(x) + Len(w)
          /\ \A i \in 1..(Len(x) + Len(w)) : (x \o w)[i] = IF i <= Len(x) THEN x[i] ELSE w[i - Len(x)]
        BY <1>2, ConcatProperties
    <2>2. /\ Len(e \o y) = Len(e) + Len(y)
          /\ \A i \in 1..(Len(e) + Len(y)) : (e \o y)[i] = IF i <= Len(e) THEN e[i] ELSE y[i - Len(e)]
        BY ConcatProperties
    <2>3. 1 \in 1..Len(x) /\ 2 \in 1..Len(x) /\ Len(x) \in Nat /\ Len(w) \in Nat
        BY <1>1, <1>2, LenProperties
    <2>4. (x \o w)[1] = x[1] /\ (x \o w)[2] = x[2]
        BY <2>1, <2>3
    <2>5. 1 \in 1..Len(e) /\ 2 \in 1..Len(e) /\ Len(e) \in Nat /\ Len(y) \in Nat
        BY <1>7, FrameFacts, LenProperties
    <2>6. (e \o y)[1] = e[1] /\ (e \o y)[2] = e[2]
        BY <2>2, <2>5
    <2> QED BY <1>9, <2>4, <2>6
<1>11. b[o + 1].type = g.type /\ LengthAt(b, o) = g.length
    <2>1. 1 \in 1..(Len(b) - o) /\ 2 \in 1..(Len(b) - o)
        BY <1>1
    <2>2. x[1] = b[o + 1] /\ x[2] = b[o + 2]
        BY <1>2, <2>1
    <2> QED BY <1>7, <1>10, <2>2 DEF LengthAt
<1>12. g.length = LengthBytes + g.body /\ g = Frame(g.type, g.length, g.body)
    BY <1>11, FrameFacts DEF Complete, BadLength
<1>13. FrameAt(b, o) = g
    <2>1. g.length - LengthBytes = g.body
        BY <1>12, FrameFacts
    <2> QED BY <1>11, <1>12, <2>1 DEF FrameAt
<1>14. Len(e) = 1 + LengthAt(b, o)
    BY <1>7, <1>11, <1>12, FrameFacts
<1>15. Drop(x, Len(e)) \o w = y
    <2>1. Len(e) <= Len(x)
        BY <1>1, <1>2, <1>14
    <2>2. x \in Seq(Bytes) /\ w \in Seq(Bytes) /\ e \in Seq(Bytes) /\ y \in Seq(Bytes)
        BY <1>2, <1>7, <1>8
    <2>3. \A p, q, r, t \in Seq(Bytes) :
             p \o q = r \o t /\ Len(r) <= Len(p) => Drop(p, Len(r)) \o q = t
        BY FrontOfConcat, Zenon
    <2>4. x \o w = e \o y => Drop(x, Len(e)) \o w = y
        BY <2>1, <2>2, <2>3, Zenon
    <2> QED BY <1>9, <2>4
<1>16. Drop(x, Len(e)) = Drop(b, o + 1 + LengthAt(b, o))
    <2> DEFINE k == 1 + LengthAt(b, o)
               u == Drop(x, k)
               v == Drop(b, o + k)
               n == Len(b) - o - k
    <2>0. k \in Nat /\ o \in Nat /\ Len(b) \in Nat /\ o + k <= Len(b) /\ Len(x) = Len(b) - o
        BY <1>1, <1>2
    <2> HIDE DEF k
    <2>1. k \in 0..Len(x) /\ o + k \in 0..Len(b) /\ n \in Nat /\ Len(x) - k = n /\ Len(b) - (o + k) = n
        BY <2>0
    <2> USE DEF k
    <2>2. u \in Seq(Bytes) /\ Len(u) = n /\ \A i \in 1..n : u[i] = x[k + i]
        BY <1>2, <2>1, DropFacts
    <2>3. v \in Seq(Bytes) /\ Len(v) = n /\ \A i \in 1..n : v[i] = b[(o + k) + i]
        BY <2>1, DropFacts
    <2> HIDE DEF u, v, n
    <2>4. ASSUME NEW i \in 1..n PROVE u[i] = v[i]
        <3>1. k + i \in 1..(Len(b) - o) /\ o + (k + i) = (o + k) + i
            <4>1. Len(b) \in Nat /\ k \in Nat /\ o \in Nat /\ i \in Nat /\ i >= 1
                BY <1>1, <2>1
            <4>2. i <= Len(b) - o - k
                BY <2>1 DEF n
            <4> HIDE DEF k
            <4> QED BY <4>1, <4>2
        <3> QED BY <1>2, <2>2, <2>3, <3>1
    <2>5. u = v
        BY <2>2, <2>3, <2>4, SeqEqual
    <2>6. o + k = o + 1 + LengthAt(b, o)
        BY <1>1
    <2> QED BY <1>14, <2>5, <2>6 DEF u, v
<1> QED BY <1>1, <1>4, <1>5, <1>8, <1>13, <1>15, <1>16

\* The first frames of a sequence, its head apart.
LEMMA TakeTail ==
    ASSUME NEW S, NEW s \in Seq(S), s # <<>>, NEW m \in 0..(Len(s) - 1)
    PROVE  SubSeq(s, 1, m + 1) = <<Head(s)>> \o SubSeq(Tail(s), 1, m)
<1>1. /\ Len(s) \in Nat \ {0} /\ Head(s) = s[1]
      /\ Tail(s) \in Seq(S) /\ Len(Tail(s)) = Len(s) - 1
      /\ \A i \in 1..(Len(s) - 1) : Tail(s)[i] = s[i + 1]
    BY HeadTailProperties, EmptySeq
<1>2. SubSeq(s, 1, m + 1) = <<s[1]>> \o SubSeq(s, 1 + 1, m + 1)
    <2>1. 1 \in 1..Len(s) /\ m + 1 \in 1..Len(s)
        BY <1>1
    <2> QED BY <2>1, SubSeqRecursiveFirst
<1>3. SubSeq(s, 2, m + 1) = SubSeq(Tail(s), 1, m)
    <2> DEFINE u == SubSeq(s, 2, m + 1)
               v == SubSeq(Tail(s), 1, m)
    <2>1. PICK t \in Seq(S) : t = Tail(s)
        BY <1>1
    <2>2. \A i \in 2..(m + 1) : s[i] \in S
        BY <1>1, ElementOfSeq
    <2>3. u \in Seq(S) /\ Len(u) = m /\ \A i \in 1..m : u[i] = s[i + 1]
        <3>1. /\ u \in Seq(S) /\ Len(u) = IF 2 <= m + 1 THEN (m + 1) - 2 + 1 ELSE 0
              /\ \A i \in 1..((m + 1) - 2 + 1) : u[i] = s[2 + i - 1]
            BY <1>1, <2>2, SubSeqProperties
        <3>2. (m + 1) - 2 + 1 = m /\ (IF 2 <= m + 1 THEN (m + 1) - 2 + 1 ELSE 0) = m
            BY <1>1
        <3>3. \A i \in 1..m : 2 + i - 1 = i + 1
            BY <1>1
        <3> HIDE DEF u
        <3> QED BY <3>1, <3>2, <3>3
    <2>4. \A i \in 1..m : t[i] \in S
        BY <1>1, <2>1, ElementOfSeq
    <2>5. v \in Seq(S) /\ Len(v) = m /\ \A i \in 1..m : v[i] = t[i]
        <3>1. /\ v \in Seq(S) /\ Len(v) = IF 1 <= m THEN m - 1 + 1 ELSE 0
              /\ \A i \in 1..(m - 1 + 1) : v[i] = t[1 + i - 1]
            BY <1>1, <2>1, <2>4, SubSeqProperties
        <3>2. m - 1 + 1 = m /\ (IF 1 <= m THEN m - 1 + 1 ELSE 0) = m
            BY <1>1
        <3>3. \A i \in 1..m : 1 + i - 1 = i
            BY <1>1
        <3> HIDE DEF v
        <3> QED BY <3>1, <3>2, <3>3
    <2> HIDE DEF u, v
    <2>6. \A i \in 1..m : u[i] = v[i]
        <3> SUFFICES ASSUME NEW i \in 1..m PROVE u[i] = v[i]
            OBVIOUS
        <3>1. i \in 1..(Len(s) - 1)
            BY <1>1
        <3> QED BY <1>1, <2>1, <2>3, <2>5, <3>1
    <2>7. u = v
        BY <2>3, <2>5, <2>6, SeqEqual
    <2> QED BY <2>7 DEF u, v
<1>4. 1 + 1 = 2
    OBVIOUS
<1> QED BY <1>1, <1>2, <1>3, <1>4

\* One more frame found in front of those of the rest.
LEMMA OneMore ==
    ASSUME NEW b \in Seq(Bytes), NEW w \in Seq(Bytes), NEW gs \in Seq(Frames), gs # <<>>,
           NEW rest, Accounts(b, w, rest, Tail(gs)),
           NEW r, r.frames = <<Head(gs)>> \o rest.frames, r.offset = rest.offset
    PROVE  Accounts(b, w, r, gs)
<1>1. PICK m \in 0..Len(Tail(gs)) :
        /\ rest.frames = SubSeq(Tail(gs), 1, m)
        /\ rest.offset \in 0..Len(b)
        /\ Drop(b, rest.offset) \o w = EncodeAll(Drop(Tail(gs), m))
    BY DEF Accounts
<1>2. Len(Tail(gs)) = Len(gs) - 1 /\ Len(gs) \in Nat \ {0}
    BY HeadTailProperties, EmptySeq
<1>3. m \in 0..(Len(gs) - 1) /\ m + 1 \in 0..Len(gs)
    BY <1>2
<1>4. r.frames = SubSeq(gs, 1, m + 1)
    BY <1>1, <1>3, TakeTail
<1>5. Drop(Tail(gs), m) = Drop(gs, m + 1)
    BY <1>3, DropTail
<1> QED BY <1>1, <1>3, <1>4, <1>5 DEF Accounts

\* The scan finds frames that were written, in order, and stops where the
\* bytes of the others begin.
LEMMA ScanAccounts ==
    ASSUME NEW b \in Seq(Bytes), NEW w \in Seq(Bytes),
           NEW gs \in Seq(Frames), b \o w = EncodeAll(gs), Scan(b).ok
    PROVE  Accounts(b, w, Scan(b), gs)
<1>1. PICK f : Scan(b) = f[0] /\ \A o \in 0..Len(b) : f[o] = ScanStep(b, f, o)
    BY ScanFacts
<1> DEFINE Record(r) == r = [frames |-> r.frames, offset |-> r.offset, ok |-> r.ok]
           Right(o) == /\ Record(f[o])
                       /\ \A hs \in Seq(Frames) : Drop(b, o) \o w = EncodeAll(hs) /\ f[o].ok
                                                 => Accounts(b, w, f[o], hs)
           T == {d \in Nat : \A o \in 0..Len(b) : Len(b) - o <= d => Right(o)}
<1>2. Len(b) \in Nat
    BY LenProperties
<1>3. ASSUME NEW o \in 0..Len(b), \A p \in (o+1)..Len(b) : Right(p) PROVE Right(o)
    <2>0. f[o] = ScanStep(b, f, o)
        BY <1>1
    <2>4. Record(f[o])
        <3>1. CASE Complete(b, o)
            <4>1. PICK p \in (o + 1)..Len(b) : p = o + 1 + LengthAt(b, o)
                BY <3>1, LengthFacts DEF Complete
            <4>2. ~(o + 1 + LengthAt(b, o) > Len(b))
                BY <1>2, <4>1
            <4>3. f[o] = [f[p] EXCEPT !.frames = <<FrameAt(b, o)>> \o @]
                BY <2>0, <3>1, <4>1, <4>2 DEF ScanStep, Complete
            <4>4. Record(f[p])
                BY <1>3, <4>1
            <4> QED BY <4>3, <4>4
        <3>2. CASE ~Complete(b, o)
            <4>1. HeaderAt(b, o) /\ ~BadLength(b, o) => o + 1 + LengthAt(b, o) > Len(b)
                BY <3>2, LengthFacts DEF Complete
            <4>2. f[o] = Found(o, TRUE) \/ f[o] = Found(o, FALSE)
                BY <2>0, <4>1 DEF ScanStep, Found
            <4> QED BY <4>2 DEF Found
        <3> QED BY <3>1, <3>2
    <2> SUFFICES ASSUME NEW hs \in Seq(Frames), Drop(b, o) \o w = EncodeAll(hs), f[o].ok
                 PROVE  Accounts(b, w, f[o], hs)
        BY <2>4
    <2>1. CASE Complete(b, o)
        <3> DEFINE p == o + 1 + LengthAt(b, o)
        <3>1. /\ hs # <<>> /\ FrameAt(b, o) = Head(hs)
              /\ p \in (o + 1)..Len(b)
              /\ Drop(b, p) \o w = EncodeAll(Tail(hs))
            BY <2>1, FrameFound
        <3>2. f[o] = [f[p] EXCEPT !.frames = <<Head(hs)>> \o @]
            <4>1. ~(o + 1 + LengthAt(b, o) > Len(b))
                BY <1>2, <3>1
            <4> QED BY <2>0, <2>1, <3>1, <4>1 DEF ScanStep, Complete
        <3> HIDE DEF p
        <3>4. PICK q : q = f[p] /\ Record(q)
            BY <1>3, <3>1
        <3>5. f[o].frames = <<Head(hs)>> \o q.frames /\ f[o].offset = q.offset /\ f[o].ok = q.ok
            BY <3>2, <3>4
        <3>6. Tail(hs) \in Seq(Frames)
            BY <3>1, HeadTailProperties
        <3>7. Accounts(b, w, q, Tail(hs))
            BY <1>3, <3>1, <3>4, <3>5, <3>6
        <3> QED BY <3>1, <3>5, <3>7, OneMore
    <2>2. CASE HeaderAt(b, o) /\ BadLength(b, o)
        BY <2>0, <2>2 DEF ScanStep
    <2>3. CASE ~HeaderAt(b, o) \/ (~BadLength(b, o) /\ ~Complete(b, o))
        <3>1. HeaderAt(b, o) /\ ~BadLength(b, o) /\ ~Complete(b, o) => o + 1 + LengthAt(b, o) > Len(b)
            BY LengthFacts DEF Complete
        <3>2. f[o] = Found(o, TRUE)
            BY <2>0, <2>3, <3>1 DEF ScanStep, Found
        <3> QED BY <3>2, NothingFound
    <2> QED BY <2>1, <2>2, <2>3
<1> HIDE DEF Right
<1>4. 0 \in T
    <2> SUFFICES ASSUME NEW o \in 0..Len(b), Len(b) - o <= 0 PROVE Right(o)
        OBVIOUS
    <2>1. (o+1)..Len(b) = {}
        BY <1>2
    <2> QED BY <1>3, <2>1
<1>5. ASSUME NEW d \in Nat, d \in T PROVE d + 1 \in T
    <2> SUFFICES ASSUME NEW o \in 0..Len(b), Len(b) - o <= d + 1 PROVE Right(o)
        OBVIOUS
    <2>1. \A p \in (o+1)..Len(b) : p \in 0..Len(b) /\ Len(b) - p <= d
        BY <1>2
    <2>2. \A p \in (o+1)..Len(b) : Right(p)
        BY <1>5, <2>1
    <2> QED BY <1>3, <2>2
<1> HIDE DEF T
<1>6. Nat \subseteq T
    BY <1>4, <1>5, NumberInduction
<1>7. Right(0)
    <2>1. Len(b) \in T /\ 0 \in 0..Len(b) /\ Len(b) - 0 <= Len(b)
        BY <1>2, <1>6
    <2> QED BY <2>1 DEF T
<1>8. Drop(b, 0) = b
    BY DropNone
<1> QED BY <1>1, <1>7, <1>8 DEF Right

-----------------------------------------------------------------------------
(* Prefixes and cuts.                                                      *)

\* A prefix agrees with the sequence, place by place.
LEMMA PrefixFacts ==
    ASSUME NEW S, NEW s \in Seq(S), NEW t \in Seq(S)
    PROVE  IsPrefix(s, t) <=> Len(s) <= Len(t) /\ \A i \in 1..Len(s) : s[i] = t[i]
<1>1. Len(s) \in Nat /\ Len(t) \in Nat /\ SubSeq(s, 1, Len(s)) = s
    BY LenProperties, SubSeqFull
<1>2. CASE Len(s) <= Len(t)
    <2> DEFINE n == Len(s)
               u == SubSeq(t, 1, n)
    <2>1. \A i \in 1..n : t[i] \in S
        BY <1>1, <1>2, ElementOfSeq
    <2>2. u \in Seq(S) /\ Len(u) = n /\ \A i \in 1..n : u[i] = t[i]
        <3>1. /\ u \in Seq(S) /\ Len(u) = IF 1 <= n THEN n - 1 + 1 ELSE 0
              /\ \A i \in 1..(n - 1 + 1) : u[i] = t[1 + i - 1]
            BY <1>1, <2>1, SubSeqProperties
        <3>2. n - 1 + 1 = n /\ (IF 1 <= n THEN n - 1 + 1 ELSE 0) = n
            BY <1>1
        <3>3. \A i \in 1..n : 1 + i - 1 = i
            BY <1>1
        <3> HIDE DEF u, n
        <3> QED BY <3>1, <3>2, <3>3
    <2>3. IsPrefix(s, t) <=> s = u
        BY <1>1, <1>2 DEF IsPrefix
    <2> HIDE DEF u
    <2>4. s = u <=> \A i \in 1..n : s[i] = u[i]
        BY <2>2, SeqEqual
    <2>5. (\A i \in 1..n : s[i] = u[i]) <=> \A i \in 1..n : s[i] = t[i]
        BY <2>2
    <2> QED BY <1>2, <2>3, <2>4, <2>5
<1>3. CASE ~(Len(s) <= Len(t))
    BY <1>3 DEF IsPrefix
<1> QED BY <1>2, <1>3

\* What follows the first elements, when one more is appended.
LEMMA DropAppend ==
    ASSUME NEW S, NEW s \in Seq(S), NEW e \in S, NEW k \in 0..Len(s)
    PROVE  Drop(Append(s, e), k) = Append(Drop(s, k), e)
<1> DEFINE n == Len(s)
           t == Append(s, e)
           u == Drop(t, k)
           d == Drop(s, k)
           v == Append(d, e)
<1>1. /\ t \in Seq(S) /\ Len(t) = n + 1 /\ t[n + 1] = e /\ n \in Nat
      /\ \A i \in 1..n : t[i] = s[i]
    BY AppendProperties, LenProperties
<1>2. d \in Seq(S) /\ Len(d) = n - k /\ \A i \in 1..(n - k) : d[i] = s[k + i]
    BY DropFacts
<1> HIDE DEF t, d
<1>3. u \in Seq(S) /\ Len(u) = n + 1 - k /\ \A i \in 1..(n + 1 - k) : u[i] = t[k + i]
    <2>1. k \in 0..Len(t)
        BY <1>1
    <2>2. u \in Seq(S) /\ Len(u) = Len(t) - k /\ \A i \in 1..(Len(t) - k) : u[i] = t[k + i]
        BY <1>1, <2>1, DropFacts
    <2> QED BY <1>1, <2>2
<1>4. /\ v \in Seq(S) /\ Len(v) = (n - k) + 1 /\ v[(n - k) + 1] = e
      /\ \A i \in 1..(n - k) : v[i] = d[i]
    <2>1. /\ v \in Seq(S) /\ Len(v) = Len(d) + 1 /\ v[Len(d) + 1] = e
          /\ \A i \in 1..Len(d) : v[i] = d[i]
        BY <1>2, AppendProperties
    <2> QED BY <1>2, <2>1
<1> HIDE DEF u, v
<1>5. ASSUME NEW i \in 1..Len(u) PROVE u[i] = v[i]
    <2>0. i \in 1..(n + 1 - k)
        BY <1>3
    <2>1. u[i] = t[k + i]
        BY <1>3, <2>0
    <2>2. CASE i = (n - k) + 1
        <3>1. k + i = n + 1
            BY <1>1, <2>2
        <3> QED BY <1>1, <1>4, <2>1, <2>2, <3>1
    <2>3. CASE i # (n - k) + 1
        <3>1. i \in 1..(n - k) /\ k + i \in 1..n
            BY <1>1, <2>0, <2>3
        <3>2. v[i] = s[k + i]
            BY <1>2, <1>4, <3>1
        <3>3. t[k + i] = s[k + i]
            BY <1>1, <3>1
        <3> QED BY <2>1, <3>2, <3>3
    <2> QED BY <2>2, <2>3
<1>6. Len(u) = Len(v)
    BY <1>1, <1>3, <1>4
<1>7. u = v
    BY <1>3, <1>4, <1>5, <1>6, SeqEqual
<1> QED BY <1>7 DEF u, v, t, d

-----------------------------------------------------------------------------
(* The steps of a connection.                                              *)

\* FramesInOrder of a stream: s written, i to be handled, b buffered, w under way.
Ordered(s, i, b, w) == IsPrefix(i, s) /\ b \o w = EncodeAll(Drop(s, Len(i)))

\* The stream after a write.
LEMMA WriteOrder ==
    ASSUME NEW s \in Seq(Frames), NEW i \in Seq(Frames), NEW b \in Seq(Bytes), NEW w \in Seq(Bytes),
           NEW f \in Frames, Ordered(s, i, b, w)
    PROVE  Ordered(Append(s, f), i, b, w \o Encode(f))
<1>1. Len(i) \in 0..Len(s) /\ \A k \in 1..Len(i) : i[k] = s[k]
    BY PrefixFacts, LenProperties DEF Ordered
<1>2. PICK t \in Seq(Frames) : /\ t = Append(s, f) /\ Len(t) = Len(s) + 1 /\ Len(s) \in Nat
                               /\ \A k \in 1..Len(s) : t[k] = s[k]
    <2>1. /\ Append(s, f) \in Seq(Frames) /\ Len(Append(s, f)) = Len(s) + 1 /\ Len(s) \in Nat
          /\ \A k \in 1..Len(s) : Append(s, f)[k] = s[k]
        BY AppendProperties, LenProperties
    <2> QED BY <2>1, Zenon
<1>3. IsPrefix(i, t)
    <2>1. Len(i) <= Len(t)
        BY <1>1, <1>2
    <2>2. \A k \in 1..Len(i) : k \in 1..Len(s)
        BY <1>1, <1>2
    <2>3. \A k \in 1..Len(i) : i[k] = t[k]
        BY <1>1, <1>2, <2>2
    <2> QED BY <1>2, <2>1, <2>3, PrefixFacts
<1>4. PICK d \in Seq(Frames) : d = Drop(s, Len(i))
    BY <1>1, DropFacts
<1>5. Drop(t, Len(i)) = Append(d, f)
    BY <1>1, <1>2, <1>4, DropAppend
<1>6. PICK e \in Seq(Bytes) : e = Encode(f)
    BY EncodeFacts
<1>7. b \o (w \o e) = (b \o w) \o e
    BY Associates, SMTT(60)
<1>8. b \o w = EncodeAll(d)
    BY <1>4 DEF Ordered
<1>9. EncodeAll(Append(d, f)) = EncodeAll(d) \o e
    BY <1>4, <1>6, EncodeAppend
<1>10. b \o (w \o e) = EncodeAll(Drop(t, Len(i)))
    BY <1>5, <1>7, <1>8, <1>9
<1> QED BY <1>2, <1>3, <1>6, <1>10 DEF Ordered

\* A sequence cut in two.
LEMMA CutInTwo ==
    ASSUME NEW S, NEW s \in Seq(S), NEW n \in 1..Len(s)
    PROVE  /\ SubSeq(s, 1, n) \in Seq(S) /\ Drop(s, n) \in Seq(S)
           /\ SubSeq(s, 1, n) \o Drop(s, n) = s
<1>1. Len(s) \in Nat /\ n \in 0..Len(s)
    BY LenProperties
<1>2. Drop(s, n) \in Seq(S)
    BY <1>1, DropFacts
<1>3. SubSeq(s, 1, n) \in Seq(S)
    <2>1. \A i \in 1..n : s[i] \in S
        BY <1>1, ElementOfSeq
    <2> QED BY <1>1, <2>1, SubSeqProperties
<1>4. SubSeq(s, 1, n) \o SubSeq(s, n + 1, Len(s)) = s
    <2>1. SubSeq(s, 1, Len(s)) = s
        BY SubSeqFull
    <2>2. SubSeq(s, 1, n) \o SubSeq(s, n + 1, Len(s)) = SubSeq(s, 1, Len(s))
        BY <1>1, ConcatAdjacentSubSeq
    <2> QED BY <2>1, <2>2
<1> QED BY <1>2, <1>3, <1>4 DEF Drop

\* The bytes of a chunk, behind those that were kept, and the bytes after it.
LEMMA ReceivedBytes ==
    ASSUME NEW b \in Seq(Bytes), NEW w \in Seq(Bytes), NEW n \in 1..Len(w)
    PROVE  /\ b \o SubSeq(w, 1, n) \in Seq(Bytes) /\ Drop(w, n) \in Seq(Bytes)
           /\ (b \o SubSeq(w, 1, n)) \o Drop(w, n) = b \o w
<1>1. PICK u, v \in Seq(Bytes) : u = SubSeq(w, 1, n) /\ v = Drop(w, n) /\ u \o v = w
    <2>1. /\ SubSeq(w, 1, n) \in Seq(Bytes) /\ Drop(w, n) \in Seq(Bytes)
          /\ SubSeq(w, 1, n) \o Drop(w, n) = w
        BY CutInTwo, Zenon
    <2> QED BY <2>1, Zenon
<1>2. (b \o u) \o v = b \o (u \o v)
    BY <1>1, Associates, SMTT(60)
<1>3. b \o u \in Seq(Bytes)
    BY <1>1, ConcatProperties
<1> QED BY <1>1, <1>2, <1>3

\* The stream after a chunk that could be read: b is the buffer with the chunk.
LEMMA ReceiveOrder ==
    ASSUME NEW s \in Seq(Frames), NEW b \in Seq(Bytes), NEW w \in Seq(Bytes),
           b \o w = EncodeAll(s), Consume(b).ok
    PROVE  /\ Consume(b).messages \in Seq(Frames) /\ Consume(b).remainder \in Seq(Bytes)
           /\ Ordered(s, Consume(b).messages, Consume(b).remainder, w)
<1>1. /\ Scan(b).ok /\ Consume(b).messages = Scan(b).frames
      /\ Consume(b).remainder = Drop(b, Scan(b).offset)
    BY DEF Consume, Drop
<1>2. Accounts(b, w, Scan(b), s)
    BY <1>1, ScanAccounts
<1>3. PICK m \in 0..Len(s) :
        /\ Scan(b).frames = SubSeq(s, 1, m)
        /\ Scan(b).offset \in 0..Len(b)
        /\ Drop(b, Scan(b).offset) \o w = EncodeAll(Drop(s, m))
    BY <1>2 DEF Accounts
<1>4. Drop(b, Scan(b).offset) \in Seq(Bytes)
    BY <1>3, DropFacts
<1> DEFINE i == SubSeq(s, 1, m)
<1>5. i \in Seq(Frames) /\ Len(i) = m /\ \A k \in 1..m : i[k] = s[k]
    <2>1. m \in Nat /\ \A k \in 1..m : s[k] \in Frames
        BY <1>3, ElementOfSeq, LenProperties
    <2>2. /\ i \in Seq(Frames) /\ Len(i) = IF 1 <= m THEN m - 1 + 1 ELSE 0
          /\ \A k \in 1..(m - 1 + 1) : i[k] = s[1 + k - 1]
        BY <2>1, SubSeqProperties
    <2>3. m - 1 + 1 = m /\ (IF 1 <= m THEN m - 1 + 1 ELSE 0) = m
        BY <2>1
    <2>4. \A k \in 1..m : 1 + k - 1 = k
        BY <2>1
    <2> HIDE DEF i
    <2> QED BY <2>2, <2>3, <2>4
<1> HIDE DEF i
<1>6. IsPrefix(i, s)
    <2>1. Len(i) <= Len(s)
        BY <1>3, <1>5, LenProperties
    <2> QED BY <1>5, <2>1, PrefixFacts
<1> QED BY <1>1, <1>3, <1>4, <1>5, <1>6 DEF Ordered, i

\* The stream after a frame was taken up.
LEMMA DispatchOrder ==
    ASSUME NEW s \in Seq(Frames), NEW i \in Seq(Frames), NEW b \in Seq(Bytes), NEW w \in Seq(Bytes),
           i # <<>>, Ordered(s, i, b, w)
    PROVE  /\ Tail(s) \in Seq(Frames) /\ Tail(i) \in Seq(Frames)
           /\ Ordered(Tail(s), Tail(i), b, w)
<1>1. /\ Len(i) \in Nat \ {0} /\ Len(s) \in Nat /\ Len(i) <= Len(s)
      /\ \A k \in 1..Len(i) : i[k] = s[k]
    BY PrefixFacts, LenProperties, EmptySeq DEF Ordered
<1>2. s # <<>>
    BY <1>1, EmptySeq
<1>3. PICK t \in Seq(Frames) : /\ t = Tail(s) /\ Len(t) = Len(s) - 1
                               /\ \A k \in 1..(Len(s) - 1) : t[k] = s[k + 1]
    <2>1. /\ Tail(s) \in Seq(Frames) /\ Len(Tail(s)) = Len(s) - 1
          /\ \A k \in 1..(Len(s) - 1) : Tail(s)[k] = s[k + 1]
        BY <1>2, HeadTailProperties
    <2> QED BY <2>1, Zenon
<1>4. PICK j \in Seq(Frames) : /\ j = Tail(i) /\ Len(j) = Len(i) - 1
                               /\ \A k \in 1..(Len(i) - 1) : j[k] = i[k + 1]
    <2>1. /\ Tail(i) \in Seq(Frames) /\ Len(Tail(i)) = Len(i) - 1
          /\ \A k \in 1..(Len(i) - 1) : Tail(i)[k] = i[k + 1]
        BY HeadTailProperties
    <2> QED BY <2>1, Zenon
<1>5. IsPrefix(j, t)
    <2>1. Len(j) <= Len(t)
        BY <1>1, <1>3, <1>4
    <2>2. ASSUME NEW k \in 1..Len(j) PROVE j[k] = t[k]
        <3>1. k \in 1..(Len(i) - 1) /\ k \in 1..(Len(s) - 1) /\ k + 1 \in 1..Len(i)
            BY <1>1, <1>4
        <3> QED BY <1>1, <1>3, <1>4, <3>1
    <2> QED BY <1>3, <1>4, <2>1, <2>2, PrefixFacts
<1>6. Drop(t, Len(j)) = Drop(s, Len(i))
    <2>1. Len(i) - 1 \in 0..(Len(s) - 1) /\ (Len(i) - 1) + 1 = Len(i)
        BY <1>1
    <2>2. Drop(Tail(s), Len(i) - 1) = Drop(s, (Len(i) - 1) + 1)
        BY <1>2, <2>1, DropTail
    <2> QED BY <1>3, <1>4, <2>1, <2>2
<1> QED BY <1>3, <1>4, <1>5, <1>6 DEF Ordered

-----------------------------------------------------------------------------
(* The theorem.                                                            *)

\* The inductive invariant of the stream.
StreamInv ==
    /\ sent \in Seq(Frames) /\ inbox \in Seq(Frames)
    /\ buffer \in Seq(Bytes) /\ wire \in Seq(Bytes)
    /\ FramesInOrder

\* The lemmas above are about its last part.
LEMMA OrderedIsFramesInOrder == FramesInOrder <=> Ordered(sent, inbox, buffer, wire)
BY DEF FramesInOrder, Ordered, Drop

\* A new connection, and one that was made again.
LEMMA NewStream == EmptyStream => StreamInv
<1> SUFFICES ASSUME EmptyStream PROVE StreamInv
    OBVIOUS
<1>1. <<>> \in Seq(Frames) /\ <<>> \in Seq(Bytes) /\ Len(<<>>) = 0
    BY EmptySeq
<1>2. IsPrefix(<<>>, <<>>)
    BY <1>1 DEF IsPrefix
<1>3. <<>> \o <<>> = <<>> /\ Drop(<<>>, 0) = <<>>
    <2>1. PICK s \in Seq(Frames) : s = <<>>
        BY <1>1
    <2> QED BY <2>1, ConcatEmptySeq, DropNone
<1>4. Ordered(<<>>, <<>>, <<>>, <<>>)
    BY <1>1, <1>2, <1>3, EncodeNone DEF Ordered
<1>5. FramesInOrder
    BY <1>4, OrderedIsFramesInOrder DEF EmptyStream
<1> QED BY <1>1, <1>5 DEF StreamInv, EmptyStream

\* Every step keeps it.
LEMMA StreamStep == StreamInv /\ [Next]_vars => StreamInv'
<1> SUFFICES ASSUME StreamInv, [Next]_vars PROVE StreamInv'
    OBVIOUS
<1> USE DEF StreamInv
<1>0. Ordered(sent, inbox, buffer, wire)
    BY OrderedIsFramesInOrder
<1>1. ASSUME Ordered(sent', inbox', buffer', wire') PROVE FramesInOrder'
    BY <1>1 DEF FramesInOrder, Ordered, Drop
<1>2. ASSUME NEW f \in Frames, Write(f) PROVE StreamInv'
    <2>1. sent' = Append(sent, f) /\ wire' = wire \o Encode(f) /\ inbox' = inbox /\ buffer' = buffer
        BY <1>2 DEF Write
    <2>2. sent' \in Seq(Frames)
        BY <2>1, AppendProperties
    <2>3. wire' \in Seq(Bytes)
        BY <2>1, EncodeFacts, ConcatProperties
    <2>4. Ordered(sent', inbox', buffer', wire')
        BY <1>0, <2>1, WriteOrder
    <2> QED BY <1>1, <2>1, <2>2, <2>3, <2>4
<1>3. ASSUME NEW n \in 1..Len(wire), Receive(n) PROVE StreamInv'
    <2> DEFINE b == buffer \o SubSeq(wire, 1, n)
    <2>1. inbox = <<>> /\ sent' = sent /\ wire' = Drop(wire, n)
        BY <1>3 DEF Receive, Drop
    <2>2. b \in Seq(Bytes) /\ wire' \in Seq(Bytes) /\ b \o wire' = buffer \o wire
        BY <2>1, ReceivedBytes
    <2>3. buffer \o wire = EncodeAll(sent)
        BY <1>0, <2>1, EmptySeq, DropNone DEF Ordered
    <2>4. CASE Consume(b).ok
        <3>1. buffer' = Consume(b).remainder /\ inbox' = Consume(b).messages
            BY <1>3, <2>4 DEF Receive
        <3> HIDE DEF b
        <3>2. /\ inbox' \in Seq(Frames) /\ buffer' \in Seq(Bytes)
              /\ Ordered(sent', inbox', buffer', wire')
            BY <2>1, <2>2, <2>3, <2>4, <3>1, ReceiveOrder
        <3> QED BY <1>1, <2>1, <2>2, <3>2
    <2>5. CASE ~Consume(b).ok
        <3>1. buffer' = b /\ inbox' = <<>>
            BY <1>3, <2>5 DEF Receive
        <3>2. Ordered(sent', inbox', buffer', wire')
            BY <1>0, <2>1, <2>2, <3>1 DEF Ordered
        <3> QED BY <1>1, <2>1, <2>2, <3>1, <3>2
    <2> QED BY <2>4, <2>5
<1>4. ASSUME Dispatch PROVE StreamInv'
    <2>1. /\ inbox # <<>> /\ inbox' = Tail(inbox) /\ sent' = Tail(sent)
          /\ wire' = wire /\ buffer' = buffer
        BY <1>4 DEF Dispatch
    <2>2. /\ sent' \in Seq(Frames) /\ inbox' \in Seq(Frames)
          /\ Ordered(sent', inbox', buffer', wire')
        BY <1>0, <2>1, DispatchOrder
    <2> QED BY <1>1, <2>1, <2>2
<1>5. ASSUME Connect PROVE StreamInv'
    <2>1. EmptyStream'
        BY <1>5 DEF Connect, EmptyStream
    <2> QED BY <2>1, NewStream, PTL
<1>6. ASSUME UNCHANGED stream PROVE StreamInv'
    BY <1>6 DEF stream, FramesInOrder
<1>7. Disconnect \/ UNCHANGED vars => UNCHANGED stream
    BY DEF Disconnect, vars, stream
<1> QED BY <1>2, <1>3, <1>4, <1>5, <1>6, <1>7 DEF Next, ReceiveSome

\* However the stream is cut into chunks, and whatever frames are in it, the
\* frames handleRaw takes up are those the client wrote, whole and in order.
THEOREM FramesArriveInOrder == Spec => []FramesInOrder
<1>1. Init => StreamInv
    BY NewStream DEF Init
<1>2. StreamInv => FramesInOrder
    BY DEF StreamInv
<1> QED BY <1>1, <1>2, StreamStep, PTL DEF Spec
-----------------------------------------------------------------------------
(* Where a scan stops.                                                     *)

\* A frame of a bad length stands at offset o.
Bad(b, o) == HeaderAt(b, o) /\ BadLength(b, o)
\* No frame and no bad frame does: its bytes are still to come.
Partial(b, o) == ~Complete(b, o) /\ ~Bad(b, o)

\* What the scan finds from an offset, by what stands there.
LEMMA ScanCases ==
    ASSUME NEW b \in Seq(Bytes), NEW o \in 0..Len(b), NEW f
    PROVE  /\ Bad(b, o) => ScanStep(b, f, o) = Found(o, FALSE)
           /\ Partial(b, o) => ScanStep(b, f, o) = Found(o, TRUE)
           /\ Complete(b, o) =>
                 /\ o + 1 + LengthAt(b, o) \in (o+1)..Len(b)
                 /\ ScanStep(b, f, o) = [f[o + 1 + LengthAt(b, o)] EXCEPT
                                           !.frames = <<FrameAt(b, o)>> \o @]
<1>1. Bad(b, o) => ScanStep(b, f, o) = Found(o, FALSE)
    BY DEF Bad, ScanStep, Found
<1>2. ASSUME Partial(b, o) PROVE ScanStep(b, f, o) = Found(o, TRUE)
    <2>1. HeaderAt(b, o) /\ ~BadLength(b, o) => o + 1 + LengthAt(b, o) > Len(b)
        BY <1>2, LengthFacts DEF Partial, Complete
    <2> QED BY <1>2, <2>1 DEF Partial, Bad, ScanStep, Found
<1>3. ASSUME Complete(b, o)
      PROVE  /\ o + 1 + LengthAt(b, o) \in (o+1)..Len(b)
             /\ ScanStep(b, f, o) = [f[o + 1 + LengthAt(b, o)] EXCEPT
                                       !.frames = <<FrameAt(b, o)>> \o @]
    <2>1. /\ o + 1 + LengthAt(b, o) \in (o+1)..Len(b)
          /\ ~(o + 1 + LengthAt(b, o) > Len(b))
        BY <1>3, LengthFacts DEF Complete
    <2> QED BY <1>3, <2>1 DEF ScanStep, Complete
<1> QED BY <1>1, <1>2, <1>3

\* Induction over the offsets of a buffer, from its end.
LEMMA OffsetInduction ==
    ASSUME NEW n \in Nat, NEW R,
           \A o \in 0..n : (\A p \in (o+1)..n : p \in R) => o \in R
    PROVE  \A o \in 0..n : o \in R
<1> DEFINE T == {d \in Nat : \A o \in 0..n : n - o <= d => o \in R}
<1>1. 0 \in T
    <2> SUFFICES ASSUME NEW o \in 0..n, n - o <= 0 PROVE o \in R
        OBVIOUS
    <2>1. (o+1)..n = {}
        OBVIOUS
    <2> QED BY <2>1
<1>2. ASSUME NEW d \in Nat, d \in T PROVE d + 1 \in T
    <2> SUFFICES ASSUME NEW o \in 0..n, n - o <= d + 1 PROVE o \in R
        OBVIOUS
    <2>1. \A p \in (o+1)..n : p \in 0..n /\ n - p <= d
        OBVIOUS
    <2>2. \A p \in (o+1)..n : p \in R
        BY <1>2, <2>1
    <2> QED BY <2>2
<1> HIDE DEF T
<1>3. Nat \subseteq T
    BY <1>1, <1>2, NumberInduction
<1>4. n \in T
    BY <1>3
<1> QED BY <1>4 DEF T

\* The fields of what a scan finds.
Scanned(r) == r = [frames |-> r.frames, offset |-> r.offset, ok |-> r.ok]

\* A scan from offset o finds this.
LEMMA ScanFrom ==
    ASSUME NEW b \in Seq(Bytes), NEW f, \A o \in 0..Len(b) : f[o] = ScanStep(b, f, o)
    PROVE  \A o \in 0..Len(b) :
              /\ Scanned(f[o])
              /\ Bad(b, o) => f[o] = Found(o, FALSE)
              /\ Partial(b, o) => f[o] = Found(o, TRUE)
              /\ Complete(b, o) =>
                    LET p == o + 1 + LengthAt(b, o)
                    IN /\ p \in (o+1)..Len(b)
                       /\ f[o].frames = <<FrameAt(b, o)>> \o f[p].frames
                       /\ f[o].offset = f[p].offset /\ f[o].ok = f[p].ok
<1> DEFINE R == {o \in 0..Len(b) : Scanned(f[o])}
<1>0. Len(b) \in Nat
    BY LenProperties
<1>1. ASSUME NEW o \in 0..Len(b)
      PROVE  /\ Bad(b, o) => f[o] = Found(o, FALSE)
             /\ Partial(b, o) => f[o] = Found(o, TRUE)
             /\ Complete(b, o) =>
                   /\ o + 1 + LengthAt(b, o) \in (o+1)..Len(b)
                   /\ f[o] = [f[o + 1 + LengthAt(b, o)] EXCEPT !.frames = <<FrameAt(b, o)>> \o @]
    <2>1. f[o] = ScanStep(b, f, o)
        OBVIOUS
    <2> QED BY <2>1, ScanCases
<1>2. ASSUME NEW o \in 0..Len(b), \A p \in (o+1)..Len(b) : p \in R PROVE o \in R
    <2>1. CASE Bad(b, o) \/ Partial(b, o)
        <3>1. f[o] = Found(o, FALSE) \/ f[o] = Found(o, TRUE)
            BY <1>1, <2>1
        <3> QED BY <3>1 DEF Found, Scanned
    <2>2. CASE Complete(b, o)
        <3>1. PICK p \in (o+1)..Len(b) : p = o + 1 + LengthAt(b, o)
            BY <1>1, <2>2
        <3>2. Scanned(f[p])
            BY <1>2, <3>1
        <3>3. f[o] = [f[p] EXCEPT !.frames = <<FrameAt(b, o)>> \o @]
            BY <1>1, <2>2, <3>1
        <3> QED BY <3>2, <3>3 DEF Scanned
    <2> QED BY <2>1, <2>2 DEF Partial
<1> HIDE DEF R
<1>3. \A o \in 0..Len(b) : o \in R
    BY <1>0, <1>2, OffsetInduction
<1>4. ASSUME NEW o \in 0..Len(b), Complete(b, o), NEW p, p = o + 1 + LengthAt(b, o)
      PROVE  /\ p \in (o+1)..Len(b)
             /\ f[o].frames = <<FrameAt(b, o)>> \o f[p].frames
             /\ f[o].offset = f[p].offset /\ f[o].ok = f[p].ok
    <2>0. p \in (o+1)..Len(b)
        BY <1>1, <1>4
    <2>1. p \in (o+1)..Len(b) /\ p \in 0..Len(b)
        BY <1>0, <2>0
    <2>2. Scanned(f[p])
        BY <1>3, <2>1 DEF R
    <2>3. f[o] = [f[p] EXCEPT !.frames = <<FrameAt(b, o)>> \o @]
        BY <1>1, <1>4
    <2> QED BY <2>1, <2>2, <2>3 DEF Scanned
<1>5. \A o \in 0..Len(b) : Scanned(f[o])
    BY <1>3 DEF R
<1> QED BY <1>1, <1>4, <1>5

\* A scan that is no error stops where part of a frame stands, and no sooner than
\* it began; if it found a frame, frames may be that long.
LEMMA ScanStops ==
    ASSUME NEW b \in Seq(Bytes), Scan(b).ok
    PROVE  LET o == Scan(b).offset
           IN /\ o \in 0..Len(b) /\ Partial(b, o)
              /\ o > 0 => 1 + LengthBytes <= MaxFrame
<1>1. PICK f : Scan(b) = f[0] /\ \A o \in 0..Len(b) : f[o] = ScanStep(b, f, o)
    BY ScanFacts
<1> DEFINE Stops(o) == f[o].ok => /\ f[o].offset \in o..Len(b) /\ Partial(b, f[o].offset)
                                  /\ f[o].offset > o => 1 + LengthBytes <= MaxFrame
           R == {o \in 0..Len(b) : Stops(o)}
<1>2. Len(b) \in Nat
    BY LenProperties
<1>3. ASSUME NEW o \in 0..Len(b), \A p \in (o+1)..Len(b) : p \in R PROVE Stops(o)
    <2>1. CASE Bad(b, o)
        <3>1. f[o] = Found(o, FALSE)
            BY <1>1, <2>1, ScanFrom
        <3> QED BY <3>1 DEF Found
    <2>2. CASE Partial(b, o)
        <3>1. f[o] = Found(o, TRUE)
            BY <1>1, <2>2, ScanFrom
        <3>2. f[o].offset = o
            BY <3>1 DEF Found
        <3> QED BY <1>2, <2>2, <3>2
    <2>3. CASE Complete(b, o)
        <3>1. PICK p \in (o+1)..Len(b) : f[o].offset = f[p].offset /\ f[o].ok = f[p].ok
            BY <1>1, <2>3, ScanFrom
        <3>2. 1 + LengthBytes <= MaxFrame
            <4>1. HeaderAt(b, o) /\ ~BadLength(b, o)
                BY <2>3 DEF Complete
            <4>2. LengthAt(b, o) \in Nat
                BY <4>1, LengthFacts
            <4> QED BY <4>1, <4>2, FramingAssumption DEF BadLength
        <3>3. f[p].ok => f[p].offset \in p..Len(b) /\ Partial(b, f[p].offset)
            BY <1>3
        <3> QED BY <1>2, <3>1, <3>2, <3>3
    <2> QED BY <2>1, <2>2, <2>3 DEF Partial
<1> HIDE DEF Stops
<1>4. ASSUME NEW o \in 0..Len(b), \A p \in (o+1)..Len(b) : p \in R PROVE o \in R
    BY <1>3, <1>4
<1> HIDE DEF R
<1>5. \A o \in 0..Len(b) : o \in R
    BY <1>2, <1>4, OffsetInduction
<1>6. Stops(0)
    BY <1>2, <1>5 DEF R
<1> QED BY <1>1, <1>6 DEF Stops

\* What Consume answers.
LEMMA ConsumeFacts ==
    ASSUME NEW b
    PROVE  /\ Consume(b).ok <=> Scan(b).ok /\ ~(Len(b) > MaxFrame /\ Scan(b).offset = 0)
           /\ Consume(b).messages = Scan(b).frames
           /\ Consume(b).remainder = Drop(b, Scan(b).offset)
BY DEF Consume, Drop

\* The header of a frame among the bytes from an offset on.
LEMMA HeaderInDrop ==
    ASSUME NEW b \in Seq(Bytes), NEW o \in 0..Len(b), NEW r, r = Drop(b, o)
    PROVE  /\ r \in Seq(Bytes) /\ Len(r) = Len(b) - o
           /\ HeaderAt(r, 0) <=> HeaderAt(b, o)
           /\ HeaderAt(b, o) => LengthAt(r, 0) = LengthAt(b, o)
<1>1. r \in Seq(Bytes) /\ Len(r) = Len(b) - o /\ \A i \in 1..(Len(b) - o) : r[i] = b[o + i]
    BY DropFacts
<1>2. LengthBytes \in Nat \ {0} /\ Len(b) \in Nat
    BY FramingAssumption, LenProperties
<1>3. HeaderAt(r, 0) <=> HeaderAt(b, o)
    BY <1>1, <1>2 DEF HeaderAt
<1>4. ASSUME HeaderAt(b, o) PROVE LengthAt(r, 0) = LengthAt(b, o)
    <2>1. 2 \in 1..(Len(b) - o)
        BY <1>2, <1>4 DEF HeaderAt
    <2> QED BY <1>1, <2>1 DEF LengthAt
<1> QED BY <1>1, <1>3, <1>4

\* What consumeFrontendMessages keeps is part of one frame, no longer than a frame
\* may be, and read by itself it is no error.
LEMMA RemainderWaits ==
    ASSUME NEW b \in Seq(Bytes), Consume(b).ok, NEW r, r = Consume(b).remainder
    PROVE  Consume(r).ok /\ Consume(r).messages = <<>> /\ Len(r) <= MaxFrame
<1> DEFINE o == Scan(b).offset
<1>0. /\ Scan(b).ok /\ ~(Len(b) > MaxFrame /\ o = 0) /\ r = Drop(b, o)
    BY ConsumeFacts
<1>1. o \in 0..Len(b) /\ Partial(b, o) /\ (o > 0 => 1 + LengthBytes <= MaxFrame)
    BY <1>0, ScanStops
<1> HIDE DEF o
<1>2. /\ r \in Seq(Bytes) /\ Len(r) = Len(b) - o
      /\ HeaderAt(r, 0) <=> HeaderAt(b, o)
      /\ HeaderAt(b, o) => LengthAt(r, 0) = LengthAt(b, o)
    BY <1>0, <1>1, HeaderInDrop
<1>3. /\ Len(b) \in Nat /\ MaxFrame \in Nat /\ LengthBytes \in Nat \ {0}
      /\ HeaderAt(b, o) => LengthAt(b, o) \in Nat
    BY <1>1, FramingAssumption, LenProperties, LengthFacts
<1>4. HeaderAt(b, o) =>
         /\ LengthAt(b, o) >= LengthBytes /\ 1 + LengthAt(b, o) <= MaxFrame
         /\ Len(r) < 1 + LengthAt(b, o)
    <2>1. HeaderAt(b, o) => ~BadLength(b, o) /\ ~(o + 1 + LengthAt(b, o) <= Len(b))
        BY <1>1 DEF Partial, Complete, Bad
    <2> QED BY <1>1, <1>2, <1>3, <2>1 DEF BadLength
<1>5. Partial(r, 0)
    BY <1>2, <1>3, <1>4 DEF Partial, Complete, Bad, BadLength
<1>6. Scan(r) = Found(0, TRUE)
    <2>1. PICK f : Scan(r) = f[0] /\ \A i \in 0..Len(r) : f[i] = ScanStep(r, f, i)
        BY <1>2, ScanFacts
    <2>2. 0 \in 0..Len(r)
        BY <1>1, <1>2, <1>3
    <2> QED BY <1>2, <1>5, <2>1, <2>2, ScanFrom
<1>7. Len(r) <= MaxFrame
    <2>1. CASE o = 0
        BY <1>0, <1>2, <1>3, <2>1
    <2>2. CASE o > 0 /\ HeaderAt(b, o)
        BY <1>1, <1>2, <1>3, <1>4, <2>2
    <2>3. CASE o > 0 /\ ~HeaderAt(b, o)
        BY <1>1, <1>2, <1>3, <2>3 DEF HeaderAt
    <2> QED BY <1>1, <2>1, <2>2, <2>3
<1>8. Scan(r).frames = <<>> /\ Scan(r).ok
    BY <1>6 DEF Found
<1>9. ~(Len(r) > MaxFrame)
    BY <1>2, <1>3, <1>7, LenProperties
<1> QED BY <1>7, <1>8, <1>9, ConsumeFacts

\* The bytes of a buffer keep their places when more follow.
LEMMA MoreBytes ==
    ASSUME NEW b \in Seq(Bytes), NEW c \in Seq(Bytes), NEW d, d = b \o c,
           NEW o \in 0..Len(b)
    PROVE  /\ d \in Seq(Bytes) /\ Len(d) = Len(b) + Len(c) /\ o \in 0..Len(d)
           /\ HeaderAt(b, o) => HeaderAt(d, o) /\ LengthAt(d, o) = LengthAt(b, o)
           /\ Bad(b, o) => Bad(d, o)
           /\ Complete(b, o) => Complete(d, o)
<1>1. /\ d \in Seq(Bytes) /\ Len(d) = Len(b) + Len(c)
      /\ \A i \in 1..(Len(b) + Len(c)) : d[i] = IF i <= Len(b) THEN b[i] ELSE c[i - Len(b)]
    BY ConcatProperties
<1>2. Len(b) \in Nat /\ Len(c) \in Nat /\ LengthBytes \in Nat \ {0}
    BY LenProperties, FramingAssumption
<1>3. ASSUME HeaderAt(b, o) PROVE HeaderAt(d, o) /\ LengthAt(d, o) = LengthAt(b, o)
    <2>1. o + 2 \in 1..(Len(b) + Len(c)) /\ o + 2 <= Len(b)
        BY <1>2, <1>3 DEF HeaderAt
    <2>2. d[o + 2] = b[o + 2]
        BY <1>1, <2>1
    <2>3. HeaderAt(d, o)
        BY <1>1, <1>2, <1>3 DEF HeaderAt
    <2> QED BY <2>2, <2>3 DEF LengthAt
<1>4. Bad(b, o) => Bad(d, o)
    BY <1>3 DEF Bad, BadLength
<1>5. ASSUME Complete(b, o) PROVE Complete(d, o)
    <2>1. HeaderAt(b, o) /\ LengthAt(b, o) \in Nat
        BY <1>5, LengthFacts DEF Complete
    <2> QED BY <1>1, <1>2, <1>3, <1>5, <2>1 DEF Complete, BadLength
<1> QED BY <1>1, <1>2, <1>3, <1>4, <1>5

\* A buffer that could not be read cannot be read with more bytes at its end.
LEMMA BadStaysBad ==
    ASSUME NEW b \in Seq(Bytes), NEW c \in Seq(Bytes), NEW d, d = b \o c, ~Consume(b).ok
    PROVE  ~Consume(d).ok
<1>0. /\ d \in Seq(Bytes) /\ Len(d) = Len(b) + Len(c) /\ Len(b) \in Nat /\ Len(c) \in Nat
      /\ 0 \in 0..Len(b)
    <2>1. Len(b) \in Nat /\ Len(c) \in Nat
        BY LenProperties
    <2> QED BY <2>1, ConcatProperties
<1>1. PICK f : Scan(b) = f[0] /\ \A o \in 0..Len(b) : f[o] = ScanStep(b, f, o)
    BY ScanFacts
<1>2. PICK g : Scan(d) = g[0] /\ \A o \in 0..Len(d) : g[o] = ScanStep(d, g, o)
    BY <1>0, ScanFacts
<1>3. CASE ~Scan(b).ok
    <2> DEFINE R == {o \in 0..Len(b) : ~f[o].ok => ~g[o].ok}
    <2>1. ASSUME NEW o \in 0..Len(b), \A p \in (o+1)..Len(b) : p \in R
          PROVE  ~f[o].ok => ~g[o].ok
        <3>0. /\ o \in 0..Len(d)
              /\ HeaderAt(b, o) => HeaderAt(d, o) /\ LengthAt(d, o) = LengthAt(b, o)
              /\ Bad(b, o) => Bad(d, o)
              /\ Complete(b, o) => Complete(d, o)
            <4>1. b \in Seq(Bytes) /\ c \in Seq(Bytes) /\ d = b \o c /\ o \in 0..Len(b)
                OBVIOUS
            <4> QED BY <4>1, MoreBytes
        <3>1. CASE Bad(b, o)
            <4>1. g[o] = Found(o, FALSE)
                BY <1>0, <1>2, <3>0, <3>1, ScanFrom
            <4> QED BY <4>1 DEF Found
        <3>2. CASE Partial(b, o)
            <4>1. f[o] = Found(o, TRUE)
                BY <1>1, <3>2, ScanFrom
            <4> QED BY <4>1 DEF Found
        <3>3. CASE Complete(b, o)
            <4>0. /\ o + 1 + LengthAt(b, o) \in (o+1)..Len(b)
                  /\ f[o].ok = f[o + 1 + LengthAt(b, o)].ok
                BY <1>1, <3>3, ScanFrom
            <4>1. PICK p \in (o+1)..Len(b) : p = o + 1 + LengthAt(b, o) /\ f[o].ok = f[p].ok
                BY <4>0, Zenon
            <4>2. LengthAt(d, o) = LengthAt(b, o)
                BY <3>0, <3>3 DEF Complete
            <4>3. g[o].ok = g[o + 1 + LengthAt(d, o)].ok
                BY <1>0, <1>2, <3>0, <3>3, ScanFrom
            <4> QED BY <2>1, <4>1, <4>2, <4>3
        <3> QED BY <3>1, <3>2, <3>3 DEF Partial
    <2>2. ASSUME NEW o \in 0..Len(b), \A p \in (o+1)..Len(b) : p \in R PROVE o \in R
        BY <2>1, <2>2
    <2> HIDE DEF R
    <2>3. \A o \in 0..Len(b) : o \in R
        BY <1>0, <2>2, OffsetInduction
    <2>4. ~g[0].ok
        BY <1>0, <1>1, <1>3, <2>3 DEF R
    <2> QED BY <1>2, <2>4, ConsumeFacts
<1>4. CASE Scan(b).ok
    <2>1. Len(b) > MaxFrame /\ Scan(b).offset = 0
        BY <1>4, ConsumeFacts
    <2>2. Partial(b, 0)
        BY <1>4, <2>1, ScanStops
    <2>3. MaxFrame \in Nat /\ LengthBytes \in Nat \ {0}
        BY FramingAssumption
    <2>4. ~HeaderAt(b, 0)
        <3> SUFFICES ASSUME HeaderAt(b, 0) PROVE FALSE
            OBVIOUS
        <3>1. LengthAt(b, 0) \in Nat
            BY <1>0, LengthFacts
        <3>2. ~BadLength(b, 0) /\ ~(0 + 1 + LengthAt(b, 0) <= Len(b))
            BY <2>2 DEF Partial, Complete, Bad
        <3> QED BY <1>0, <2>1, <2>3, <3>1, <3>2 DEF BadLength
    <2>5. MaxFrame <= LengthBytes
        BY <1>0, <2>1, <2>3, <2>4 DEF HeaderAt
    <2>6. 0 \in 0..Len(d) /\ Len(d) > MaxFrame
        BY <1>0, <2>1, <2>3
    <2>7. CASE HeaderAt(d, 0)
        <3>1. LengthAt(d, 0) \in Nat
            BY <1>0, <2>6, <2>7, LengthFacts
        <3>2. Bad(d, 0)
            BY <2>3, <2>5, <2>7, <3>1 DEF Bad, BadLength
        <3>3. g[0] = Found(0, FALSE)
            BY <1>0, <1>2, <2>6, <3>2, ScanFrom
        <3>4. ~Scan(d).ok
            BY <1>2, <3>3 DEF Found
        <3> QED BY <3>4, ConsumeFacts
    <2>8. CASE ~HeaderAt(d, 0)
        <3>1. Partial(d, 0)
            BY <2>8 DEF Partial, Complete, Bad
        <3>2. g[0] = Found(0, TRUE)
            BY <1>0, <1>2, <2>6, <3>1, ScanFrom
        <3>3. Scan(d).offset = 0
            BY <1>2, <3>2 DEF Found
        <3> QED BY <2>6, <3>3, ConsumeFacts
    <2> QED BY <2>7, <2>8
<1> QED BY <1>3, <1>4

\* Nothing is found, and no error, in a buffer without bytes.
LEMMA EmptyBufferWaits ==
    Consume(<<>>).ok /\ Consume(<<>>).messages = <<>> /\ Len(<<>>) <= MaxFrame
<1>1. PICK b \in Seq(Bytes) : b = <<>> /\ Len(b) = 0
    BY EmptySeq
<1>2. PICK f : Scan(b) = f[0] /\ \A o \in 0..Len(b) : f[o] = ScanStep(b, f, o)
    BY ScanFacts
<1>3. MaxFrame \in Nat /\ LengthBytes \in Nat \ {0}
    BY FramingAssumption
<1>4. Partial(b, 0)
    BY <1>1, <1>3 DEF Partial, Complete, Bad, HeaderAt
<1>5. Scan(b) = Found(0, TRUE)
    <2>1. 0 \in 0..Len(b)
        BY <1>1
    <2> QED BY <1>2, <1>4, <2>1, ScanFrom
<1>6. Scan(b).frames = <<>> /\ Scan(b).ok
    BY <1>5 DEF Found
<1>7. Len(b) <= MaxFrame /\ ~(Len(b) > MaxFrame)
    BY <1>1, <1>3
<1>8. Consume(b).ok /\ Consume(b).messages = <<>> /\ Len(b) <= MaxFrame
    BY <1>6, <1>7, ConsumeFacts
<1> QED BY <1>1, <1>8

-----------------------------------------------------------------------------
(* What waits, and what could not be read.                                 *)

\* What waits in the buffer, after a step that leaves it alone.
LEMMA BufferUnchanged ==
    ASSUME OnlyPartOfAFrameWaits, buffer' = buffer, inbox = <<>> => inbox' = <<>>
    PROVE  OnlyPartOfAFrameWaits' /\ (Stuck => Stuck' /\ inbox' = <<>>)
BY DEF OnlyPartOfAFrameWaits, Stuck

\* And after a chunk.
LEMMA ReceivedWaits ==
    ASSUME StreamInv, NEW n \in 1..Len(wire), Receive(n)
    PROVE  OnlyPartOfAFrameWaits' /\ (Stuck => Stuck' /\ inbox' = <<>>)
<1> DEFINE b == buffer \o SubSeq(wire, 1, n)
<1>1. b \in Seq(Bytes) /\ buffer \in Seq(Bytes) /\ SubSeq(wire, 1, n) \in Seq(Bytes)
    <2>1. buffer \in Seq(Bytes) /\ wire \in Seq(Bytes)
        BY DEF StreamInv
    <2> QED BY <2>1, ReceivedBytes, CutInTwo
<1>2. /\ Consume(b).ok => buffer' = Consume(b).remainder
      /\ ~Consume(b).ok => buffer' = b /\ inbox' = <<>>
    BY DEF Receive
<1>3. Stuck => ~Consume(b).ok
    BY <1>1, BadStaysBad DEF Stuck
<1> HIDE DEF b
<1>4. CASE Consume(b).ok
    <2>1. Consume(buffer').ok /\ Consume(buffer').messages = <<>> /\ Len(buffer') <= MaxFrame
        BY <1>1, <1>2, <1>4, RemainderWaits
    <2> QED BY <1>3, <1>4, <2>1 DEF OnlyPartOfAFrameWaits, Stuck
<1>5. CASE ~Consume(b).ok
    BY <1>2, <1>5 DEF OnlyPartOfAFrameWaits, Stuck
<1> QED BY <1>4, <1>5

\* Every step of a connection, and what a new one starts with.
LEMMA WaitsStep ==
    ASSUME StreamInv, OnlyPartOfAFrameWaits, [Next]_vars
    PROVE  /\ OnlyPartOfAFrameWaits'
           /\ Stuck => (Stuck' /\ inbox' = <<>>) \/ (closed /\ ~closed')
<1>1. ASSUME NEW f \in Frames, Write(f) PROVE buffer' = buffer /\ inbox' = inbox
    BY <1>1 DEF Write
<1>2. ASSUME NEW n \in 1..Len(wire), Receive(n)
      PROVE  OnlyPartOfAFrameWaits' /\ (Stuck => Stuck' /\ inbox' = <<>>)
    BY <1>2, ReceivedWaits
<1>3. Dispatch => buffer' = buffer /\ inbox # <<>>
    BY DEF Dispatch
<1>4. Disconnect \/ UNCHANGED vars => buffer' = buffer /\ inbox' = inbox
    BY DEF Disconnect, stream, vars
<1>5. ASSUME Connect PROVE OnlyPartOfAFrameWaits' /\ closed /\ ~closed'
    <2>1. buffer' = <<>> /\ closed /\ ~closed'
        BY <1>5 DEF Connect
    <2> QED BY <2>1, EmptyBufferWaits DEF OnlyPartOfAFrameWaits, Stuck
<1>6. CASE Dispatch
    BY <1>3, <1>6, BufferUnchanged
<1>7. CASE buffer' = buffer /\ inbox' = inbox
    BY <1>7, BufferUnchanged
<1> QED BY <1>1, <1>2, <1>4, <1>5, <1>6, <1>7 DEF Next, ReceiveSome

\* After any chunk the buffer holds part of one frame, no longer than a frame may
\* be: handleRaw never leaves a frame that arrived whole for a later chunk.
THEOREM OnlyPartsWait == Spec => []OnlyPartOfAFrameWaits
<1>1. Init => StreamInv /\ OnlyPartOfAFrameWaits
    <2>1. Init => StreamInv /\ buffer = <<>>
        BY NewStream DEF Init, EmptyStream
    <2> QED BY <2>1, EmptyBufferWaits DEF OnlyPartOfAFrameWaits, Stuck
<1>2. StreamInv /\ OnlyPartOfAFrameWaits /\ [Next]_vars => OnlyPartOfAFrameWaits'
    BY WaitsStep
<1> QED BY <1>1, <1>2, StreamStep, PTL DEF Spec

\* However more bytes arrive, a stream that could not be read stays so, and none of
\* its frames are taken up, until the client connects anew.
THEOREM BadStreamsStayBad == Spec => BadStreamStaysBad
<1>1. Init => StreamInv
    BY NewStream DEF Init
<1>2. StreamInv /\ OnlyPartOfAFrameWaits /\ [Next]_vars =>
         [Stuck => (Stuck' /\ inbox' = <<>>) \/ (closed /\ ~closed')]_vars
    BY WaitsStep
<1> QED BY <1>1, <1>2, StreamStep, OnlyPartsWait, PTL DEF Spec, BadStreamStaysBad
=============================================================================
