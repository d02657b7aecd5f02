-------------------------- MODULE SentRequestProofs -------------------------
(***************************************************************************)
(* What RequestReader promises of a request as it was sent, for any        *)
(* well-formed requests and any limits: the message holds the method, the  *)
(* target, the fields and the arguments that the client meant.             *)
(* RequestReaderProofs is about every stream of tokens; here the stream is *)
(* Wire(sent), and the proof follows the reader along it.                  *)
(***************************************************************************)
EXTENDS RequestReaderProofs, WellFoundedInduction, NaturalsInduction, FiniteSetTheorems

-----------------------------------------------------------------------------
(* Sequences put together from their parts                                  *)

\* Induction, for a set: the least number of 0 .. n that is not in it would be a
\* successor.
LEMMA UpFromZero ==
    ASSUME NEW n \in Nat, NEW S, 0 \in S,
           \A k \in 0 .. n : k + 1 \in 0 .. n /\ k \in S => k + 1 \in S
    PROVE  0 .. n \subseteq S
<1>. DEFINE T == (0 .. n) \ S
            R == OpToRel(<, Nat)
<1>1. IsWellFoundedOn(R, Nat)
  BY NatLessThanWellFounded
<1>2. R = {ss \in Nat \X Nat : ss[1] < ss[2]}
  BY DEF OpToRel
<1>3. T \subseteq Nat
  OBVIOUS
<1>. HIDE DEF R
<1>4. ASSUME T # {} PROVE FALSE
  <2>1. PICK k \in T : \A m \in T : ~(<<m, k>> \in R)
    BY <1>1, <1>3, <1>4, WFMin
  <2>2. k \in 1 .. n /\ k \notin S
    OBVIOUS
  <2>3. k - 1 \in 0 .. n /\ k - 1 + 1 = k /\ k - 1 \in Nat /\ k \in Nat /\ k - 1 < k
    BY <2>2
  <2>4. k - 1 \notin T
    BY <1>2, <2>1, <2>3
  <2>. QED  BY <2>2, <2>3, <2>4
<1>. QED  BY <1>4

\* f[i] is what the first i sequences of ss give, put one behind the other.
IsFlat(ss, n, f) ==
    f = [i \in 1 .. n |-> IF i = 1 THEN ss[i] ELSE f[i - 1] \o ss[i]]

LEMMA FlatUnique ==
    ASSUME NEW ss, NEW n \in Nat, NEW f, NEW g, IsFlat(ss, n, f), IsFlat(ss, n, g)
    PROVE  f = g
<1>1. /\ \A i \in 1 .. n : f[i] = IF i = 1 THEN ss[i] ELSE f[i - 1] \o ss[i]
      /\ \A i \in 1 .. n : g[i] = IF i = 1 THEN ss[i] ELSE g[i - 1] \o ss[i]
  BY DEF IsFlat
<1>. DEFINE S == {i \in 0 .. n : i = 0 \/ f[i] = g[i]}
<1>2. ASSUME NEW k \in 0 .. n, k + 1 \in 0 .. n, k \in S PROVE k + 1 \in S
  <2>1. k + 1 \in 1 .. n /\ k + 1 - 1 = k
    BY <1>2
  <2>2. f[k + 1] = (IF k = 0 THEN ss[k + 1] ELSE f[k] \o ss[k + 1])
    BY <1>1, <2>1
  <2>3. g[k + 1] = (IF k = 0 THEN ss[k + 1] ELSE g[k] \o ss[k + 1])
    BY <1>1, <2>1
  <2>. QED  BY <1>2, <2>2, <2>3
<1>3. 0 .. n \subseteq S
  <2>. HIDE DEF S
  <2>1. 0 \in S
    BY DEF S
  <2>. QED  BY <1>2, <2>1, UpFromZero
<1>4. \A i \in 1 .. n : f[i] = g[i]
  BY <1>3
<1>5. f = [i \in 1 .. n |-> f[i]] /\ g = [i \in 1 .. n |-> g[i]]
  BY DEF IsFlat
<1>. QED  BY <1>4, <1>5

LEMMA FlatExists ==
    ASSUME NEW ss, NEW n \in Nat
    PROVE  \E f : IsFlat(ss, n, f)
<1>. DEFINE S == {k \in 0 .. n : \E f : IsFlat(ss, k, f)}
<1>1. 0 \in S
  <2>. DEFINE f == [i \in 1 .. 0 |-> <<>>]
  <2>1. IsFlat(ss, 0, f)
    BY DEF IsFlat
  <2>. QED  BY <2>1
<1>2. ASSUME NEW k \in 0 .. n, k + 1 \in 0 .. n, k \in S PROVE k + 1 \in S
  <2>1. PICK f : IsFlat(ss, k, f)
    BY <1>2
  <2>. DEFINE g == [i \in 1 .. k + 1 |->
                       IF i = k + 1 THEN IF i = 1 THEN ss[i] ELSE f[k] \o ss[i] ELSE f[i]]
  <2>2. \A i \in 1 .. k : f[i] = IF i = 1 THEN ss[i] ELSE f[i - 1] \o ss[i]
    BY <2>1 DEF IsFlat
  <2>3. ASSUME NEW i \in 1 .. k + 1
        PROVE  g[i] = IF i = 1 THEN ss[i] ELSE g[i - 1] \o ss[i]
    <3>1. CASE i = k + 1
      <4>1. i # 1 => g[i - 1] = f[k]
        BY <3>1
      <4>. QED  BY <3>1, <4>1
    <3>2. CASE i # k + 1
      <4>1. i \in 1 .. k /\ g[i] = f[i]
        BY <3>2
      <4>2. i # 1 => i - 1 \in 1 .. k + 1 /\ i - 1 # k + 1
        BY <4>1
      <4>3. i # 1 => g[i - 1] = f[i - 1]
        BY <4>2
      <4>. QED  BY <2>2, <4>1, <4>3
    <3>. QED  BY <3>1, <3>2
  <2>4. g = [i \in 1 .. k + 1 |-> g[i]]
    OBVIOUS
  <2>5. IsFlat(ss, k + 1, g)
    <3>. HIDE DEF g
    <3>. QED  BY <2>3, <2>4 DEF IsFlat
  <2>. QED  BY <1>2, <2>5
<1>3. n \in 0 .. n
  OBVIOUS
<1>. HIDE DEF S
<1>4. 0 .. n \subseteq S
  BY <1>1, <1>2, UpFromZero
<1>. QED  BY <1>3, <1>4 DEF S

\* What the first k give
Flat(ss) == [k \in 0 .. Len(ss) |-> FlattenSeq(SubSeq(ss, 1, k))]

LEMMA FlattenIs ==
    ASSUME NEW T, NEW ss \in Seq(T), ss # <<>>, NEW f, IsFlat(ss, Len(ss), f)
    PROVE  FlattenSeq(ss) = f[Len(ss)]
<1>. DEFINE P(g) == IsFlat(ss, Len(ss), g)
<1>1. Len(ss) \in Nat /\ Len(ss) # 0
  BY LenProperties, EmptySeq
<1>2. FlattenSeq(ss) = (CHOOSE g : P(g))[Len(ss)]
  BY <1>1 DEF FlattenSeq, IsFlat
<1>3. P(f) /\ \A g : P(g) => g = f
  BY <1>1, FlatUnique
<1>. HIDE DEF P
<1>4. (CHOOSE g : P(g)) = f
  BY <1>3
<1>. QED  BY <1>2, <1>4

LEMMA FlatSteps ==
    ASSUME NEW T, NEW ss \in Seq(Seq(T))
    PROVE  /\ Flat(ss)[0] = <<>> /\ Flat(ss)[Len(ss)] = FlattenSeq(ss)
           /\ \A k \in 1 .. Len(ss) : Flat(ss)[k] = Flat(ss)[k - 1] \o ss[k]
<1>. DEFINE n == Len(ss)
<1>1. n \in Nat /\ DOMAIN ss = 1 .. n /\ \A i \in 1 .. n : ss[i] \in Seq(T)
  BY LenProperties, ElementOfSeq
<1>2. PICK f : IsFlat(ss, n, f)
  BY <1>1, FlatExists
<1>3. \A i \in 1 .. n : f[i] = IF i = 1 THEN ss[i] ELSE f[i - 1] \o ss[i]
  BY <1>2 DEF IsFlat
<1>4. ASSUME NEW k \in 1 .. n PROVE Flat(ss)[k] = f[k]
  <2>. DEFINE s == SubSeq(ss, 1, k)
              g == [i \in 1 .. k |-> f[i]]
  <2>1. s \in Seq(Seq(T)) /\ Len(s) = k /\ \A i \in 1 .. k : s[i] = ss[i]
    BY <1>1, SubSeqProperties
  <2>2. s # <<>>
    <3>. HIDE DEF s
    <3>. QED  BY <1>1, <2>1, EmptySeq
  <2>3. ASSUME NEW i \in 1 .. k PROVE g[i] = IF i = 1 THEN s[i] ELSE g[i - 1] \o s[i]
    <3>1. i \in 1 .. n /\ s[i] = ss[i] /\ g[i] = f[i]
      BY <1>1, <2>1
    <3>2. i # 1 => i - 1 \in 1 .. k
      BY <1>1
    <3>3. i # 1 => g[i - 1] = f[i - 1]
      BY <3>2
    <3>. QED  BY <1>3, <3>1, <3>3
  <2>4. g = [i \in 1 .. k |-> g[i]] /\ g[k] = f[k]
    BY <1>1
  <2>. HIDE DEF g, s
  <2>5. IsFlat(s, k, g)
    BY <2>3, <2>4 DEF IsFlat
  <2>6. FlattenSeq(s) = g[k]
    BY <2>1, <2>2, <2>5, FlattenIs
  <2>7. k \in 0 .. Len(ss)
    BY <1>1
  <2>. QED  BY <2>4, <2>6, <2>7 DEF Flat, s
<1>5. Flat(ss)[0] = <<>>
  <2>1. SubSeq(ss, 1, 0) = <<>>
    BY SubSeqProperties, EmptySeq
  <2>2. 0 \in 0 .. Len(ss) /\ FlattenSeq(<<>>) = <<>>
    BY <1>1 DEF FlattenSeq
  <2>. QED  BY <2>1, <2>2 DEF Flat
<1>6. Flat(ss)[n] = FlattenSeq(ss)
  <2>1. SubSeq(ss, 1, n) = ss
    BY <1>1, SubSeqFull
  <2>2. n \in 0 .. n
    BY <1>1
  <2>. QED  BY <2>1, <2>2 DEF Flat
<1>7. ASSUME NEW k \in 1 .. n PROVE Flat(ss)[k] = Flat(ss)[k - 1] \o ss[k]
  <2>1. CASE k = 1
    <3>1. Flat(ss)[k] = ss[k] /\ ss[k] \in Seq(T) /\ k - 1 = 0
      BY <1>1, <1>3, <1>4, <2>1
    <3>2. <<>> \o ss[k] = ss[k]
      BY <3>1, ConcatEmptySeq
    <3>. QED  BY <1>5, <3>1, <3>2
  <2>2. CASE k # 1
    <3>1. k - 1 \in 1 .. n
      BY <1>1, <2>2
    <3>. QED  BY <1>3, <1>4, <2>2, <3>1
  <2>. QED  BY <2>1, <2>2
<1>. QED  BY <1>5, <1>6, <1>7

LEMMA FlatTyped ==
    ASSUME NEW T, NEW ss \in Seq(Seq(T))
    PROVE  \A k \in 0 .. Len(ss) : Flat(ss)[k] \in Seq(T)
<1>. DEFINE n == Len(ss)
            S == {k \in 0 .. n : Flat(ss)[k] \in Seq(T)}
<1>1. n \in Nat /\ \A k \in 1 .. n : ss[k] \in Seq(T)
  BY LenProperties, ElementOfSeq
<1>2. Flat(ss)[0] = <<>> /\ \A k \in 1 .. n : Flat(ss)[k] = Flat(ss)[k - 1] \o ss[k]
  BY FlatSteps
<1>. HIDE DEF n
<1>3. 0 \in S
  <2>1. 0 \in 0 .. n
    BY <1>1
  <2>2. Flat(ss)[0] \in Seq(T)
    BY <1>2, EmptySeq, Zenon
  <2>. QED  BY <2>1, <2>2
<1>4. ASSUME NEW k \in 0 .. n, k + 1 \in 0 .. n, k \in S PROVE k + 1 \in S
  <2>. DEFINE m == k + 1
  <2>1. m \in 1 .. n /\ m - 1 = k
    BY <1>1, <1>4
  <2>2. m \in 0 .. n /\ Flat(ss)[k] \in Seq(T)
    BY <1>4
  <2>. HIDE DEF m
  <2>3. Flat(ss)[m] = Flat(ss)[k] \o ss[m] /\ ss[m] \in Seq(T)
    BY <1>1, <1>2, <2>1
  <2>4. Flat(ss)[m] \in Seq(T)
    BY <2>2, <2>3, ConcatProperties
  <2>5. m \in S
    BY <2>2, <2>4
  <2>. QED  BY <2>5 DEF m
<1>. HIDE DEF S
<1>5. 0 .. n \subseteq S
  BY <1>1, <1>3, <1>4, UpFromZero
<1>. QED  BY <1>5 DEF S, n

LEMMA SpelledEmpty == ASSUME NEW w, NEW j PROVE Spelled(w, <<>>, j)
BY EmptySeq DEF Spelled

LEMMA SpelledSelf ==
    ASSUME NEW T, NEW s \in Seq(T)
    PROVE  Spelled(s, s, 1)
<1>1. \A l \in 1 .. Len(s) : 1 + l - 1 = l
  BY LenProperties
<1>. QED  BY <1>1 DEF Spelled

\* Two sequences are spelled, one behind the other, when each is in its place.
LEMMA SpelledBoth ==
    ASSUME NEW T, NEW s \in Seq(T), NEW t \in Seq(T), NEW w, NEW j \in Int
    PROVE  /\ Len(s \o t) = Len(s) + Len(t) /\ s \o t \in Seq(T)
           /\ Spelled(w, s \o t, j) <=> Spelled(w, s, j) /\ Spelled(w, t, j + Len(s))
<1>. DEFINE m == Len(s)
            n == Len(t)
            u == s \o t
<1>1. /\ m \in Nat /\ n \in Nat /\ Len(u) = m + n /\ u \in Seq(T)
      /\ \A i \in 1 .. m + n : u[i] = IF i <= m THEN s[i] ELSE t[i - m]
  BY LenProperties, ConcatProperties
<1>. HIDE DEF m, n, u
<1>2. ASSUME \A l \in 1 .. m + n : w[j + l - 1] = u[l], NEW l \in 1 .. m
      PROVE  w[j + l - 1] = s[l]
  <2>1. l \in 1 .. m + n /\ l <= m
    BY <1>1
  <2>2. w[j + l - 1] = u[l] /\ u[l] = s[l]
    BY <1>1, <1>2, <2>1
  <2>. QED  BY <2>2
<1>3. ASSUME \A l \in 1 .. m + n : w[j + l - 1] = u[l], NEW l \in 1 .. n
      PROVE  w[j + m + l - 1] = t[l]
  <2>1. m + l \in 1 .. m + n /\ j + (m + l) - 1 = j + m + l - 1 /\ m + l - m = l /\ ~(m + l <= m)
    BY <1>1
  <2>2. w[j + (m + l) - 1] = u[m + l] /\ u[m + l] = t[m + l - m]
    BY <1>1, <1>3, <2>1
  <2>. QED  BY <2>1, <2>2
<1>4. ASSUME \A l \in 1 .. m : w[j + l - 1] = s[l],
             \A l \in 1 .. n : w[j + m + l - 1] = t[l], NEW l \in 1 .. m + n
      PROVE  w[j + l - 1] = u[l]
  <2>1. CASE l <= m
    <3>1. l \in 1 .. m
      BY <1>1, <2>1
    <3>2. w[j + l - 1] = s[l]
      BY <1>4, <3>1
    <3>. QED  BY <1>1, <2>1, <3>2
  <2>2. CASE ~(l <= m)
    <3>1. l - m \in 1 .. n /\ j + m + (l - m) - 1 = j + l - 1
      BY <1>1, <2>2
    <3>2. w[j + m + (l - m) - 1] = t[l - m]
      BY <1>4, <3>1
    <3>3. u[l] = t[l - m]
      BY <1>1, <2>2
    <3>. QED  BY <3>1, <3>2, <3>3
  <2>. QED  BY <2>1, <2>2
<1>. QED  BY <1>1, <1>2, <1>3, <1>4 DEF Spelled, m, n, u

LEMMA SpelledAll ==
    ASSUME NEW T, NEW s \in Seq(T), NEW t \in Seq(T)
    PROVE  /\ Len(s \o t) = Len(s) + Len(t) /\ s \o t \in Seq(T)
           /\ \A w : \A j \in Int :
                 Spelled(w, s \o t, j) <=> Spelled(w, s, j) /\ Spelled(w, t, j + Len(s))
<1>1. /\ Len(s \o t) = Len(s) + Len(t) /\ s \o t \in Seq(T)
  BY ConcatProperties
<1>2. ASSUME NEW w, NEW j \in Int
      PROVE  Spelled(w, s \o t, j) <=> Spelled(w, s, j) /\ Spelled(w, t, j + Len(s))
  BY SpelledBoth
<1>. QED  BY <1>1, <1>2

LEMMA SpelledFlat ==
    ASSUME NEW T, NEW ss \in Seq(Seq(T)), NEW w, NEW j \in Int,
           Spelled(w, FlattenSeq(ss), j)
    PROVE  \A k \in 1 .. Len(ss) : Spelled(w, ss[k], j + Len(Flat(ss)[k - 1]))
<1>. DEFINE n == Len(ss)
            S == {k \in 0 .. n : Spelled(w, Flat(ss)[n - k], j)}
<1>1. n \in Nat
  BY LenProperties
<1>2. /\ Flat(ss)[n] = FlattenSeq(ss)
      /\ \A k \in 1 .. n : Flat(ss)[k] = Flat(ss)[k - 1] \o ss[k]
      /\ \A k \in 1 .. n : ss[k] \in Seq(T)
      /\ \A k \in 0 .. n : Flat(ss)[k] \in Seq(T)
  BY FlatSteps, FlatTyped, ElementOfSeq
<1>. HIDE DEF n
<1>3. ASSUME NEW k \in 1 .. n
      PROVE  Spelled(w, Flat(ss)[k], j) <=>
                Spelled(w, Flat(ss)[k - 1], j) /\ Spelled(w, ss[k], j + Len(Flat(ss)[k - 1]))
  <2>1. k - 1 \in 0 .. n /\ k \in 0 .. n
    BY <1>1
  <2>. DEFINE h == Flat(ss)[k - 1]
  <2>2. h \in Seq(T) /\ ss[k] \in Seq(T) /\ Flat(ss)[k] = h \o ss[k]
    BY <1>2, <2>1
  <2>. HIDE DEF h
  <2>3. Spelled(w, Flat(ss)[k], j) <=> Spelled(w, h, j) /\ Spelled(w, ss[k], j + Len(h))
    BY <2>2, SpelledBoth
  <2>. QED  BY <2>3 DEF h
<1>4. 0 \in S
  BY <1>1, <1>2
<1>5. ASSUME NEW k \in 0 .. n, k + 1 \in 0 .. n, k \in S PROVE k + 1 \in S
  <2>1. n - k \in 1 .. n /\ n - (k + 1) = n - k - 1
    BY <1>1, <1>5
  <2>. QED  BY <1>3, <1>5, <2>1
<1>. HIDE DEF S
<1>6. 0 .. n \subseteq S
  BY <1>1, <1>4, <1>5, UpFromZero
<1>7. ASSUME NEW k \in 1 .. n PROVE Spelled(w, Flat(ss)[k], j)
  <2>1. n - k \in 0 .. n /\ n - (n - k) = k
    BY <1>1
  <2>. QED  BY <1>6, <2>1 DEF S
<1>. QED  BY <1>3, <1>7 DEF n

\* b is what s begins with.
Begins(b, s) == Len(b) <= Len(s) /\ \A l \in 1 .. Len(b) : b[l] = s[l]

LEMMA BeginsMore ==
    ASSUME NEW T, NEW b \in Seq(T), NEW s \in Seq(T), Begins(b, s), Len(b) < Len(s)
    PROVE  /\ s[Len(b) + 1] \in T
           /\ Begins(Append(b, s[Len(b) + 1]), s)
           /\ Len(Append(b, s[Len(b) + 1])) = Len(b) + 1
<1>1. Len(b) \in Nat /\ Len(s) \in Nat /\ Len(b) + 1 \in 1 .. Len(s)
  BY LenProperties
<1>. DEFINE c == s[Len(b) + 1]
<1>2. c \in T
  BY <1>1, ElementOfSeq
<1>. HIDE DEF c
<1>3. /\ Len(Append(b, c)) = Len(b) + 1
      /\ \A i \in 1 .. Len(b) + 1 : Append(b, c)[i] = IF i = Len(b) + 1 THEN c ELSE b[i]
  BY <1>2, AppendProperties
<1>4. ASSUME NEW i \in 1 .. Len(b) + 1 PROVE Append(b, c)[i] = s[i]
  <2>1. i = Len(b) + 1 \/ i \in 1 .. Len(b)
    BY <1>1
  <2>. QED  BY <1>3, <2>1 DEF Begins, c
<1>. QED  BY <1>1, <1>2, <1>3, <1>4 DEF Begins, c

LEMMA BeginsNext ==
    ASSUME NEW T, NEW b \in Seq(T), NEW s \in Seq(T), Begins(b, s), Len(b) < Len(s),
           NEW c, c = s[Len(b) + 1]
    PROVE  Begins(Append(b, c), s) /\ Len(Append(b, c)) = Len(b) + 1
BY BeginsMore

LEMMA BeginsWhole ==
    ASSUME NEW T, NEW b \in Seq(T), NEW s \in Seq(T), Begins(b, s), Len(b) = Len(s)
    PROVE  b = s
BY SeqEqual DEF Begins

-----------------------------------------------------------------------------
(* Where the parts of a request stand                                       *)

\* What a client sends is printed or ends a line.
Sendable == Printed \cup Control

\* The lines of the fields, and the arguments each with the token before it
Lines(r) ==
    [k \in DOMAIN r.fields |->
        r.fields[k].name \o <<"colon", "sp">> \o r.fields[k].value \o r.eol]

Parts(args, sep) ==
    [k \in DOMAIN args |->
        (IF k = 1 THEN <<>> ELSE <<sep>>) \o args[k].key \o <<"eq">> \o args[k].value]

\* The tokens before the path, before the query, before the version, before field
\* k + 1, and those of the header
PathAt(r) == Len(r.lead) + 2
QueryAt(r) == PathAt(r) + Len(r.path) + 1
HttpAt(r) == QueryAt(r) + (IF r.inquery THEN Len(Joined(r.args, "amp")) + 1 ELSE 0)
FieldAt(r) ==
    [k \in 0 .. Len(r.fields) |-> HttpAt(r) + 5 + Len(r.eol) + Len(Flat(Lines(r))[k])]

LEMMA TokenSets ==
    /\ Usual \subseteq Printed /\ NameChar \subseteq Usual /\ Printed \subseteq Sendable
    /\ Sendable \subseteq Token /\ Methods \cap Upper \subseteq Printed /\ Blank \subseteq Control
    /\ Control \subseteq Sendable /\ "HTTP" \in Usual /\ "1" \in Usual
    /\ {"sp", "slash", "dot", "qm", "eq", "amp", "colon"} \subseteq Printed
    /\ {"cr", "lf", "nul"} = Control
BY ReaderAssumption, RequestAssumption
   DEF Usual, Printed, NameChar, Sendable, Token, Control, Blank, Digit, Word

LEMMA Apart ==
    /\ Upper \subseteq Word
    /\ \A c \in Word : c \notin Digit \cup Control
                          \cup {"eq", "amp", "colon", "sp", "slash", "dot", "qm"}
BY ReaderAssumption, RequestAssumption DEF Word

LEMMA RequestTyped ==
    ASSUME NEW r \in Requests
    PROVE  /\ r.lead \in Seq(Blank) /\ r.method \in Methods \cap Upper
           /\ r.path \in Seq(Usual \cup {"slash", "dot"}) /\ Len(r.path) \in Nat \ {0}
           /\ r.path[1] = "slash"
           /\ r.inquery \in BOOLEAN /\ r.sep \in {"amp", "lf"}
           /\ r.eol \in LineEnd /\ r.end \in LineEnd \cup {<<>>}
           /\ r.lead \in Seq(Sendable) /\ r.path \in Seq(Sendable)
           /\ r.eol \in Seq(Sendable) /\ r.end \in Seq(Sendable)
           /\ Len(r.lead) \in Nat /\ Len(r.eol) \in {1, 2} /\ Len(r.end) \in 0 .. 2
<1>1. WellFormed(r)
  BY RequestAssumption
<1>2. /\ r.lead \in Seq(Blank) /\ r.method \in Methods \cap Upper
      /\ r.path \in Seq(Usual \cup {"slash", "dot"}) /\ r.path # <<>> /\ Head(r.path) = "slash"
      /\ r.inquery \in BOOLEAN /\ r.sep \in {"amp", "lf"}
      /\ r.eol \in LineEnd /\ r.end \in LineEnd \cup {<<>>}
  BY <1>1 DEF WellFormed
<1>3. Len(r.path) \in Nat \ {0} /\ r.path[1] = "slash" /\ Len(r.lead) \in Nat
  BY <1>2, LenProperties, HeadTailProperties, EmptySeq
<1>4. r.lead \in Seq(Sendable) /\ r.path \in Seq(Sendable)
  <2>1. Blank \subseteq Sendable /\ Usual \cup {"slash", "dot"} \subseteq Sendable
    BY TokenSets
  <2>. QED  BY <1>2, <2>1, SeqMonotonic
<1>5. \A e \in LineEnd \cup {<<>>} : e \in Seq(Sendable) /\ Len(e) \in 0 .. 2
  <2>1. "cr" \in Sendable /\ "lf" \in Sendable
    BY TokenSets
  <2>2. ASSUME NEW e \in LineEnd \cup {<<>>} PROVE e \in Seq(Sendable) /\ Len(e) \in 0 .. 2
    <3>1. e = <<"lf">> \/ e = <<"cr", "lf">> \/ e = <<>>
      BY Zenon DEF LineEnd
    <3>2. CASE e = <<"lf">>
      BY <2>1, <3>2
    <3>3. CASE e = <<"cr", "lf">>
      BY <2>1, <3>3
    <3>4. CASE e = <<>>
      BY <3>4
    <3>. QED  BY <3>1, <3>2, <3>3, <3>4
  <2>. QED  BY <2>2
<1>6. \A e \in LineEnd : Len(e) \in {1, 2}
  BY DEF LineEnd
<1>. QED  BY <1>2, <1>3, <1>4, <1>5, <1>6

LEMMA SentFields ==
    ASSUME NEW r \in Requests
    PROVE  /\ Len(r.fields) \in Nat /\ DOMAIN r.fields = 1 .. Len(r.fields)
           /\ \A k \in 1 .. Len(r.fields) :
                 /\ r.fields[k].name \in Seq(NameChar) /\ r.fields[k].name \in Seq(Sendable)
                 /\ Len(r.fields[k].name) \in 1 .. MaxName - 1
                 /\ r.fields[k].value \in Seq(Printed) /\ r.fields[k].value \in Seq(Sendable)
                 /\ Len(r.fields[k].value) \in Nat
                 /\ Len(r.fields[k].value) > 0 => r.fields[k].value[1] # "sp"
<1>. DEFINE R == [name : Seq(NameChar), value : Seq(Printed)]
<1>1. WellFormed(r)
  BY RequestAssumption
<1>2. /\ r.fields \in Seq(R)
      /\ \A k \in DOMAIN r.fields :
            /\ Len(r.fields[k].name) \in 1 .. MaxName - 1
            /\ r.fields[k].value # <<>> => Head(r.fields[k].value) # "sp"
  BY <1>1 DEF WellFormed
<1>. HIDE DEF R
<1>3. /\ Len(r.fields) \in Nat /\ DOMAIN r.fields = 1 .. Len(r.fields)
      /\ \A k \in 1 .. Len(r.fields) : r.fields[k] \in R
  BY <1>2, LenProperties, ElementOfSeq
<1>4. ASSUME NEW k \in 1 .. Len(r.fields)
      PROVE  /\ r.fields[k].name \in Seq(NameChar) /\ r.fields[k].name \in Seq(Sendable)
             /\ r.fields[k].value \in Seq(Printed) /\ r.fields[k].value \in Seq(Sendable)
             /\ Len(r.fields[k].value) \in Nat
             /\ Len(r.fields[k].value) > 0 => r.fields[k].value[1] # "sp"
  <2>1. r.fields[k].name \in Seq(NameChar) /\ r.fields[k].value \in Seq(Printed)
    BY <1>3 DEF R
  <2>2. NameChar \subseteq Sendable /\ Printed \subseteq Sendable
    BY TokenSets
  <2>3. r.fields[k].name \in Seq(Sendable) /\ r.fields[k].value \in Seq(Sendable)
    BY <2>1, <2>2, SeqMonotonic
  <2>4. Len(r.fields[k].value) \in Nat
    BY <2>1, LenProperties
  <2>5. ASSUME Len(r.fields[k].value) > 0 PROVE r.fields[k].value[1] # "sp"
    <3>1. r.fields[k].value # <<>>
      BY <2>5, EmptySeq
    <3>. QED  BY <1>2, <1>3, <2>1, <3>1, HeadTailProperties
  <2>. QED  BY <2>1, <2>3, <2>4, <2>5
<1>. QED  BY <1>2, <1>3, <1>4

LEMMA SentArgs ==
    ASSUME NEW r \in Requests
    PROVE  /\ Len(r.args) \in Nat /\ DOMAIN r.args = 1 .. Len(r.args)
           /\ r.args \in Seq([key : Seq(Usual \ {"amp", "eq"}), value : Seq(Printed \ {"amp", "sp"})])
           /\ \A k \in 1 .. Len(r.args) :
                 /\ r.args[k].key \in Seq(Usual \ {"amp", "eq"}) /\ r.args[k].key \in Seq(Sendable)
                 /\ r.args[k].value \in Seq(Printed \ {"amp", "sp"})
                 /\ r.args[k].value \in Seq(Sendable)
                 /\ r.args[k] = [key |-> r.args[k].key, value |-> r.args[k].value]
<1>. DEFINE R == [key : Seq(Usual \ {"amp", "eq"}), value : Seq(Printed \ {"amp", "sp"})]
<1>1. r.args \in Seq(R)
  BY RequestAssumption DEF WellFormed
<1>2. \A a \in R : /\ a.key \in Seq(Usual \ {"amp", "eq"}) /\ a.value \in Seq(Printed \ {"amp", "sp"})
                   /\ a = [key |-> a.key, value |-> a.value]
  OBVIOUS
<1>. HIDE DEF R
<1>3. /\ Len(r.args) \in Nat /\ DOMAIN r.args = 1 .. Len(r.args)
      /\ \A k \in 1 .. Len(r.args) : r.args[k] \in R
  BY <1>1, LenProperties, ElementOfSeq
<1>4. Usual \ {"amp", "eq"} \subseteq Sendable /\ Printed \ {"amp", "sp"} \subseteq Sendable
  BY TokenSets
<1>5. \A s \in Seq(Usual \ {"amp", "eq"}) \cup Seq(Printed \ {"amp", "sp"}) : s \in Seq(Sendable)
  BY <1>4, SeqMonotonic
<1>. QED  BY <1>1, <1>2, <1>3, <1>5 DEF R

\* A field's line, and an argument with what stands before it, in their parts
LEMMA LineLaid ==
    ASSUME NEW r \in Requests, NEW k \in 1 .. Len(r.fields)
    PROVE  LET f == r.fields[k]
               l == Lines(r)[k]
           IN  /\ l \in Seq(Sendable)
               /\ Len(l) = Len(f.name) + 2 + Len(f.value) + Len(r.eol)
               /\ \A w : \A j \in Int : Spelled(w, l, j) =>
                     /\ Spelled(w, f.name, j)
                     /\ w[j + Len(f.name)] = "colon" /\ w[j + Len(f.name) + 1] = "sp"
                     /\ Spelled(w, f.value, j + Len(f.name) + 2)
                     /\ Spelled(w, r.eol, j + Len(f.name) + 2 + Len(f.value))
<1>. DEFINE f == r.fields[k]
            name == f.name
            value == f.value
            c == <<"colon", "sp">>
            a == name \o c
            b == a \o value
            l == b \o r.eol
<1>1. Lines(r)[k] = l
  BY SentFields DEF Lines
<1>2. /\ name \in Seq(Sendable) /\ value \in Seq(Sendable) /\ r.eol \in Seq(Sendable)
      /\ Len(name) \in Nat /\ Len(value) \in Nat /\ Len(r.eol) \in Nat
  <2>1. name \in Seq(Sendable) /\ value \in Seq(Sendable) /\ r.eol \in Seq(Sendable)
    BY SentFields, RequestTyped
  <2>. HIDE DEF name, value
  <2>. QED  BY <2>1, LenProperties
<1>3. c \in Seq(Sendable) /\ Len(c) = 2
  BY TokenSets
<1>4. ASSUME NEW w, NEW j \in Int, Spelled(w, c, j)
      PROVE  w[j] = "colon" /\ w[j + 1] = "sp"
  <2>1. \A i \in 1 .. 2 : w[j + i - 1] = <<"colon", "sp">>[i]
    BY <1>4 DEF Spelled
  <2>2. w[j + 1 - 1] = "colon" /\ w[j + 2 - 1] = "sp" /\ j + 1 - 1 = j /\ j + 2 - 1 = j + 1
    BY <2>1
  <2>. QED  BY <2>2
<1>. HIDE DEF c, name, value
<1>5. a \in Seq(Sendable) /\ Len(a) = Len(name) + 2
  BY <1>2, <1>3, SpelledAll
<1>6. ASSUME NEW w, NEW j \in Int, Spelled(w, a, j)
      PROVE  Spelled(w, name, j) /\ Spelled(w, c, j + Len(name))
  BY <1>2, <1>3, <1>6, SpelledAll
<1>. HIDE DEF a
<1>7. b \in Seq(Sendable) /\ Len(b) = Len(name) + 2 + Len(value)
  BY <1>2, <1>5, SpelledAll
<1>8. ASSUME NEW w, NEW j \in Int, Spelled(w, b, j)
      PROVE  Spelled(w, a, j) /\ Spelled(w, value, j + Len(a))
  BY <1>2, <1>5, <1>8, SpelledAll
<1>. HIDE DEF b
<1>9. l \in Seq(Sendable) /\ Len(l) = Len(name) + 2 + Len(value) + Len(r.eol)
  BY <1>2, <1>7, SpelledAll
<1>10. ASSUME NEW w, NEW j \in Int, Spelled(w, l, j)
       PROVE  Spelled(w, b, j) /\ Spelled(w, r.eol, j + Len(b))
  BY <1>2, <1>7, <1>10, SpelledAll
<1>. HIDE DEF l
<1>11. ASSUME NEW w, NEW j \in Int, Spelled(w, l, j)
       PROVE  /\ Spelled(w, name, j)
              /\ w[j + Len(name)] = "colon" /\ w[j + Len(name) + 1] = "sp"
              /\ Spelled(w, value, j + Len(name) + 2)
              /\ Spelled(w, r.eol, j + Len(name) + 2 + Len(value))
  <2>1. Spelled(w, b, j) /\ Spelled(w, a, j) /\ Spelled(w, name, j)
    BY <1>6, <1>8, <1>10, <1>11
  <2>2. j + Len(name) \in Int /\ j + Len(a) = j + Len(name) + 2
        /\ j + Len(b) = j + Len(name) + 2 + Len(value)
    BY <1>2, <1>5, <1>7
  <2>3. Spelled(w, c, j + Len(name))
    BY <1>6, <2>1
  <2>. QED  BY <1>4, <1>8, <1>10, <1>11, <2>1, <2>2, <2>3
<1>. QED  BY <1>1, <1>9, <1>11 DEF name, value

\* s is argument k, behind a separator when it is not the first; p is 0 or 1.
PartIs(k, sep, key, value, p, s) ==
    /\ s \in Seq(Sendable)
    /\ Len(s) = p + Len(key) + 1 + Len(value)
    /\ \A w : \A j \in Int : Spelled(w, s, j) =>
          /\ k # 1 => w[j] = sep
          /\ Spelled(w, key, j + p) /\ w[j + p + Len(key)] = "eq"
          /\ Spelled(w, value, j + p + Len(key) + 1)

LEMMA PartLaid ==
    ASSUME NEW r \in Requests, NEW k \in 1 .. Len(r.args), NEW sep \in {"amp", "lf"}
    PROVE  PartIs(k, sep, r.args[k].key, r.args[k].value, IF k = 1 THEN 0 ELSE 1,
                  Parts(r.args, sep)[k])
<1>. DEFINE key == r.args[k].key
            value == r.args[k].value
            p == IF k = 1 THEN 0 ELSE 1
            z == IF k = 1 THEN <<>> ELSE <<sep>>
            e == <<"eq">>
            a == z \o key
            b == a \o e
            t == b \o value
<1>1. Parts(r.args, sep)[k] = t
  BY SentArgs DEF Parts
<1>2. /\ key \in Seq(Sendable) /\ value \in Seq(Sendable)
      /\ Len(key) \in Nat /\ Len(value) \in Nat /\ p \in 0 .. 1
  <2>1. key \in Seq(Sendable) /\ value \in Seq(Sendable)
    BY SentArgs
  <2>. HIDE DEF key, value
  <2>. QED  BY <2>1, LenProperties
<1>3. z \in Seq(Sendable) /\ Len(z) = p /\ e \in Seq(Sendable) /\ Len(e) = 1
  <2>1. sep \in Sendable /\ "eq" \in Sendable
    BY TokenSets
  <2>. QED  BY <2>1
<1>4. ASSUME NEW w, NEW j \in Int
      PROVE  /\ Spelled(w, e, j) => w[j] = "eq"
             /\ k # 1 /\ Spelled(w, z, j) => w[j] = sep
  <2>1. \A c : Spelled(w, <<c>>, j) => w[j] = c
    <3>1. ASSUME NEW c, Spelled(w, <<c>>, j) PROVE w[j] = c
      <4>1. Len(<<c>>) = 1 /\ <<c>>[1] = c /\ j + 1 - 1 = j /\ 1 \in 1 .. 1
        OBVIOUS
      <4>. QED  BY <3>1, <4>1 DEF Spelled
    <3>. QED  BY <3>1
  <2>. QED  BY <2>1
<1>. HIDE DEF key, value, z, e, p
<1>5. a \in Seq(Sendable) /\ Len(a) = p + Len(key)
  BY <1>2, <1>3, SpelledAll
<1>6. ASSUME NEW w, NEW j \in Int, Spelled(w, a, j)
      PROVE  Spelled(w, z, j) /\ Spelled(w, key, j + p)
  BY <1>2, <1>3, <1>6, SpelledAll
<1>. HIDE DEF a
<1>7. b \in Seq(Sendable) /\ Len(b) = p + Len(key) + 1
  <2>1. p \in 0 .. 1 /\ Len(key) \in Nat /\ Len(a) = p + Len(key) /\ Len(e) = 1
    BY <1>2, <1>3, <1>5
  <2>2. b \in Seq(Sendable) /\ Len(b) = Len(a) + Len(e)
    BY <1>3, <1>5, ConcatProperties
  <2>. QED  BY <2>1, <2>2
<1>8. ASSUME NEW w, NEW j \in Int, Spelled(w, b, j)
      PROVE  Spelled(w, a, j) /\ Spelled(w, e, j + (p + Len(key)))
  BY <1>3, <1>5, <1>8, SpelledAll
<1>. HIDE DEF b
<1>9. t \in Seq(Sendable) /\ Len(t) = p + Len(key) + 1 + Len(value)
  BY <1>2, <1>7, SpelledAll
<1>10. ASSUME NEW w, NEW j \in Int, Spelled(w, t, j)
       PROVE  Spelled(w, b, j) /\ Spelled(w, value, j + (p + Len(key) + 1))
  BY <1>2, <1>7, <1>10, SpelledAll
<1>. HIDE DEF t
<1>11. ASSUME NEW w, NEW j \in Int, Spelled(w, t, j)
       PROVE  /\ k # 1 => w[j] = sep
              /\ Spelled(w, key, j + p) /\ w[j + p + Len(key)] = "eq"
              /\ Spelled(w, value, j + p + Len(key) + 1)
  <2>1. Spelled(w, b, j) /\ Spelled(w, value, j + (p + Len(key) + 1))
    BY <1>10, <1>11
  <2>2. Spelled(w, a, j) /\ Spelled(w, e, j + (p + Len(key)))
    BY <1>8, <2>1
  <2>3. /\ j + (p + Len(key)) = j + p + Len(key) /\ j + p + Len(key) \in Int
        /\ j + (p + Len(key) + 1) = j + p + Len(key) + 1
    BY <1>2
  <2>. QED  BY <1>4, <1>6, <2>1, <2>2, <2>3
<1>12. PartIs(k, sep, key, value, p, t)
  BY <1>9, <1>11 DEF PartIs
<1>. QED  BY <1>1, <1>12 DEF key, value, p

LEMMA IsSeq ==
    ASSUME NEW T, NEW n \in Nat, NEW f, f = [k \in 1 .. n |-> f[k]],
           \A k \in 1 .. n : f[k] \in T
    PROVE  f \in Seq(T) /\ Len(f) = n
OBVIOUS

LEMMA PartsTyped ==
    ASSUME NEW r \in Requests
    PROVE  /\ Lines(r) \in Seq(Seq(Sendable)) /\ Len(Lines(r)) = Len(r.fields)
           /\ \A sep \in {"amp", "lf"} :
                 /\ Parts(r.args, sep) \in Seq(Seq(Sendable))
                 /\ Len(Parts(r.args, sep)) = Len(r.args)
                 /\ Joined(r.args, sep) = FlattenSeq(Parts(r.args, sep))
                 /\ Joined(r.args, sep) \in Seq(Sendable)
<1>. DEFINE T == Seq(Sendable)
<1>1. ASSUME NEW n \in Nat, NEW f, DOMAIN f = 1 .. n, \A k \in 1 .. n : f[k] \in T,
             f = [k \in 1 .. n |-> f[k]]
      PROVE  f \in Seq(T) /\ Len(f) = n
  BY <1>1
<1>2. Lines(r) \in Seq(T) /\ Len(Lines(r)) = Len(r.fields)
  <2>1. /\ Len(r.fields) \in Nat /\ DOMAIN Lines(r) = 1 .. Len(r.fields)
        /\ Lines(r) = [k \in 1 .. Len(r.fields) |-> Lines(r)[k]]
    BY SentFields DEF Lines
  <2>2. \A k \in 1 .. Len(r.fields) : Lines(r)[k] \in T
    BY LineLaid
  <2>. QED  BY <1>1, <2>1, <2>2
<1>3. ASSUME NEW sep \in {"amp", "lf"}
      PROVE  Parts(r.args, sep) \in Seq(T) /\ Len(Parts(r.args, sep)) = Len(r.args)
  <2>. DEFINE f == Parts(r.args, sep)
  <2>1. /\ Len(r.args) \in Nat /\ DOMAIN f = 1 .. Len(r.args)
        /\ f = [k \in 1 .. Len(r.args) |-> f[k]]
    BY SentArgs DEF Parts
  <2>2. \A k \in 1 .. Len(r.args) : f[k] \in T
    BY PartLaid DEF PartIs
  <2>. HIDE DEF f
  <2>3. f \in Seq(T) /\ Len(f) = Len(r.args)
    BY <1>1, <2>1, <2>2
  <2>. QED  BY <2>3 DEF f
<1>4. ASSUME NEW sep \in {"amp", "lf"}
      PROVE  /\ Joined(r.args, sep) = FlattenSeq(Parts(r.args, sep))
             /\ Joined(r.args, sep) \in Seq(Sendable)
  <2>1. Joined(r.args, sep) = FlattenSeq(Parts(r.args, sep))
    BY DEF Joined, Parts
  <2>2. Flat(Parts(r.args, sep))[Len(Parts(r.args, sep))] = FlattenSeq(Parts(r.args, sep))
    BY <1>3, FlatSteps
  <2>3. Len(Parts(r.args, sep)) \in 0 .. Len(Parts(r.args, sep))
    BY <1>3, LenProperties
  <2>4. Flat(Parts(r.args, sep))[Len(Parts(r.args, sep))] \in Seq(Sendable)
    BY <1>3, <2>3, FlatTyped
  <2>. QED  BY <2>1, <2>2, <2>4
<1>. QED  BY <1>2, <1>3, <1>4

LEMMA Places ==
    ASSUME NEW r \in Requests
    PROVE  /\ PathAt(r) \in Nat /\ QueryAt(r) \in Nat /\ HttpAt(r) \in Nat
           /\ PathAt(r) = Len(r.lead) + 2 /\ QueryAt(r) = PathAt(r) + Len(r.path) + 1
           /\ r.inquery => HttpAt(r) = QueryAt(r) + Len(Joined(r.args, "amp")) + 1
           /\ ~r.inquery => HttpAt(r) = QueryAt(r)
           /\ Len(Joined(r.args, "amp")) \in Nat
           /\ FieldAt(r)[0] = HttpAt(r) + 5 + Len(r.eol)
           /\ \A k \in 0 .. Len(r.fields) : FieldAt(r)[k] \in Nat
           /\ \A k \in 1 .. Len(r.fields) :
                 FieldAt(r)[k] = FieldAt(r)[k - 1] + Len(r.fields[k].name) + 2
                                     + Len(r.fields[k].value) + Len(r.eol)
<1>. DEFINE a == Len(r.lead)
            p == Len(r.path)
            e == Len(r.eol)
            q == Len(Joined(r.args, "amp"))
            n == Len(r.fields)
            F == Flat(Lines(r))
<1>1. a \in Nat /\ p \in Nat /\ e \in Nat /\ q \in Nat
  BY RequestTyped, PartsTyped, LenProperties
<1>2. /\ PathAt(r) = a + 2 /\ QueryAt(r) = PathAt(r) + p + 1
      /\ HttpAt(r) = QueryAt(r) + (IF r.inquery THEN q + 1 ELSE 0)
      /\ \A k \in 0 .. n : FieldAt(r)[k] = HttpAt(r) + 5 + e + Len(F[k])
  BY DEF PathAt, QueryAt, HttpAt, FieldAt
<1>3. /\ Lines(r) \in Seq(Seq(Sendable)) /\ Len(Lines(r)) = n /\ n \in Nat
      /\ \A k \in 1 .. n : /\ Len(r.fields[k].name) \in Nat
                          /\ Len(r.fields[k].value) \in Nat
                          /\ Lines(r)[k] \in Seq(Sendable)
                          /\ Len(Lines(r)[k]) = Len(r.fields[k].name) + 2
                                                   + Len(r.fields[k].value) + e
  BY PartsTyped, SentFields, LineLaid, LenProperties
<1>4. F[0] = <<>> /\ \A k \in 1 .. n : F[k] = F[k - 1] \o Lines(r)[k]
  BY <1>3, FlatSteps
<1>5. \A k \in 0 .. n : F[k] \in Seq(Sendable)
  BY <1>3, FlatTyped
<1>. HIDE DEF a, p, e, q, n, F
<1>6. /\ PathAt(r) \in Nat /\ QueryAt(r) \in Nat /\ HttpAt(r) \in Nat
      /\ r.inquery => HttpAt(r) = QueryAt(r) + q + 1
      /\ ~r.inquery => HttpAt(r) = QueryAt(r)
  <2>1. PathAt(r) \in Nat /\ QueryAt(r) \in Nat
    BY <1>1, <1>2
  <2>2. CASE r.inquery
    <3>1. HttpAt(r) = QueryAt(r) + (q + 1)
      BY <1>2, <2>2, Zenon
    <3>2. HttpAt(r) = QueryAt(r) + q + 1 /\ HttpAt(r) \in Nat
      BY <1>1, <2>1, <3>1
    <3>. QED  BY <2>1, <2>2, <3>2, Zenon
  <2>3. CASE ~r.inquery
    <3>1. HttpAt(r) = QueryAt(r) + 0
      BY <1>2, <2>3, Zenon
    <3>2. HttpAt(r) = QueryAt(r) /\ HttpAt(r) \in Nat
      BY <2>1, <3>1
    <3>. QED  BY <2>1, <2>3, <3>2, Zenon
  <2>. QED  BY <2>2, <2>3, Zenon
<1>7. FieldAt(r)[0] = HttpAt(r) + 5 + e
  <2>1. Len(F[0]) = 0
    BY <1>4, EmptySeq, Zenon
  <2>2. 0 \in 0 .. n
    BY <1>3
  <2>3. FieldAt(r)[0] = HttpAt(r) + 5 + e + 0
    BY <1>2, <2>1, <2>2, Zenon
  <2>. QED  BY <1>1, <1>6, <2>3
<1>8. ASSUME NEW k \in 0 .. n PROVE FieldAt(r)[k] \in Nat
  <2>. DEFINE l == Len(F[k])
  <2>1. l \in Nat
    BY <1>5, LenProperties
  <2>2. FieldAt(r)[k] = HttpAt(r) + 5 + e + l
    BY <1>2
  <2>. HIDE DEF l
  <2>. QED  BY <1>1, <1>6, <2>1, <2>2
<1>9. ASSUME NEW k \in 1 .. n
      PROVE  FieldAt(r)[k] = FieldAt(r)[k - 1] + Len(r.fields[k].name) + 2
                                 + Len(r.fields[k].value) + e
  <2>. DEFINE g == F[k - 1]
              gl == Len(g)
              line == Lines(r)[k]
              x == Len(r.fields[k].name)
              y == Len(r.fields[k].value)
              l == Len(F[k])
              here == FieldAt(r)[k - 1]
              there == FieldAt(r)[k]
  <2>1. k - 1 \in 0 .. n /\ k \in 0 .. n
    BY <1>3
  <2>2. g \in Seq(Sendable) /\ line \in Seq(Sendable) /\ F[k] = g \o line
    BY <1>3, <1>4, <1>5, <2>1
  <2>. DEFINE ll == Len(line)
              h == HttpAt(r)
  <2>3. l = gl + ll
    BY <2>2, ConcatProperties
  <2>4. ll = x + 2 + y + e /\ x \in Nat /\ y \in Nat /\ e \in Nat /\ h \in Nat
    BY <1>1, <1>3, <1>6
  <2>5. gl \in Nat
    BY <2>2, LenProperties
  <2>6. there = h + 5 + e + l /\ here = h + 5 + e + gl
    BY <1>2, <2>1
  <2>. HIDE DEF gl, x, y, l, ll, here, there, h
  <2>8. there = here + x + 2 + y + e
    BY <2>3, <2>4, <2>5, <2>6
  <2>. QED  BY <2>8 DEF here, there, x, y
<1>. QED  BY <1>1, <1>2, <1>6, <1>7, <1>8, <1>9 DEF a, p, e, q, n

LEMMA OneSpelled ==
    ASSUME NEW w, NEW j \in Int, NEW c, Spelled(w, <<c>>, j)
    PROVE  w[j] = c
<1>1. Len(<<c>>) = 1 /\ <<c>>[1] = c /\ j + 1 - 1 = j /\ 1 \in 1 .. 1
  OBVIOUS
<1>. QED  BY <1>1 DEF Spelled

LEMMA SpelledFromOne ==
    ASSUME NEW T, NEW s \in Seq(T), NEW t \in Seq(T)
    PROVE  /\ s \o t \in Seq(T) /\ Len(s \o t) = Len(s) + Len(t)
           /\ \A w : Spelled(w, s \o t, 1) => Spelled(w, s, 1) /\ Spelled(w, t, 1 + Len(s))
<1>1. 1 \in Int
  OBVIOUS
<1>. QED  BY <1>1, SpelledAll

LEMMA HeaderLaid ==
    ASSUME NEW r \in Requests
    PROVE  /\ HeaderOf(r) \in Seq(Sendable)
           /\ Len(HeaderOf(r)) = FieldAt(r)[Len(r.fields)] + Len(r.eol)
           /\ \A w : Spelled(w, HeaderOf(r), 1) =>
                 /\ Spelled(w, r.lead, 1)
                 /\ w[Len(r.lead) + 1] = r.method /\ w[PathAt(r)] = "sp"
                 /\ Spelled(w, r.path, PathAt(r) + 1)
                 /\ r.inquery => /\ w[QueryAt(r)] = "qm"
                                 /\ Spelled(w, Joined(r.args, "amp"), QueryAt(r) + 1)
                 /\ w[HttpAt(r)] = "sp" /\ w[HttpAt(r) + 1] = "HTTP"
                 /\ w[HttpAt(r) + 2] = "slash" /\ w[HttpAt(r) + 3] = "1"
                 /\ w[HttpAt(r) + 4] = "dot" /\ w[HttpAt(r) + 5] = "1"
                 /\ Spelled(w, r.eol, HttpAt(r) + 6)
                 /\ Spelled(w, FlattenSeq(Lines(r)), FieldAt(r)[0] + 1)
                 /\ Spelled(w, r.eol, FieldAt(r)[Len(r.fields)] + 1)
<1>. DEFINE m == <<r.method, "sp">>
            joined == Joined(r.args, "amp")
            q == IF r.inquery THEN <<"qm">> \o joined ELSE <<>>
            v == <<"sp", "HTTP", "slash", "1", "dot", "1">>
            f == FlattenSeq(Lines(r))
            lead == r.lead
            path == r.path
            eol == r.eol
            h1 == lead \o m
            h2 == h1 \o path
            h3 == h2 \o q
            h4 == h3 \o v
            h5 == h4 \o eol
            h6 == h5 \o f
            h7 == h6 \o eol
            n == Len(r.fields)
            P == PathAt(r)
            Q == QueryAt(r)
            H == HttpAt(r)
            first == FieldAt(r)[0]
            last == FieldAt(r)[n]
<1>1. HeaderOf(r) = h7
  BY DEF HeaderOf, Lines
<1>2. m \in Seq(Sendable) /\ Len(m) = 2 /\ v \in Seq(Sendable) /\ Len(v) = 6
  <2>1. r.method \in Sendable /\ {"sp", "HTTP", "slash", "1", "dot"} \subseteq Sendable
    BY TokenSets, RequestTyped
  <2>2. m \in Seq(Sendable) /\ Len(m) = 2
    BY <2>1
  <2>3. v \in Seq(Sendable) /\ Len(v) = 6
    BY <2>1
  <2>. QED  BY <2>2, <2>3
<1>3. /\ lead \in Seq(Sendable) /\ path \in Seq(Sendable) /\ eol \in Seq(Sendable)
      /\ Len(lead) \in Nat /\ Len(path) \in Nat /\ Len(eol) \in Nat
  BY RequestTyped
<1>4. joined \in Seq(Sendable) /\ Len(joined) \in Nat
  BY PartsTyped, Places
<1>5. /\ q \in Seq(Sendable)
      /\ r.inquery => Len(q) = Len(joined) + 1
      /\ ~r.inquery => Len(q) = 0
      /\ \A w : \A j \in Int : Spelled(w, q, j) /\ r.inquery =>
            w[j] = "qm" /\ Spelled(w, joined, j + 1)
  <2>. DEFINE z == <<"qm">>
              zj == z \o joined
  <2>1. z \in Seq(Sendable) /\ Len(z) = 1
    BY TokenSets
  <2>2. \A w : \A j \in Int : Spelled(w, z, j) => w[j] = "qm"
    BY OneSpelled
  <2>3. q = IF r.inquery THEN zj ELSE <<>>
    OBVIOUS
  <2>. HIDE DEF z, joined
  <2>4. zj \in Seq(Sendable) /\ Len(zj) = Len(z) + Len(joined)
    BY <1>4, <2>1, ConcatProperties
  <2>5. \A w : \A j \in Int : Spelled(w, zj, j) =>
             w[j] = "qm" /\ Spelled(w, joined, j + 1)
    BY <1>4, <2>1, <2>2, SpelledAll
  <2>6. Len(zj) = Len(joined) + 1
    BY <1>4, <2>1, <2>4
  <2>. HIDE DEF q, zj
  <2>7. Len(<<>>) = 0 /\ <<>> \in Seq(Sendable)
    BY EmptySeq
  <2>8. CASE r.inquery
    BY <2>3, <2>4, <2>5, <2>6, <2>8, Zenon
  <2>9. CASE ~r.inquery
    BY <2>3, <2>7, <2>9, Zenon
  <2>. QED  BY <2>8, <2>9, Zenon
<1>6. /\ f \in Seq(Sendable) /\ Len(f) \in Nat /\ Len(q) \in Nat
      /\ last = H + 5 + Len(eol) + Len(f) /\ first = H + 5 + Len(eol)
      /\ P = Len(lead) + 2 /\ Q = P + Len(path) + 1
      /\ r.inquery => H = Q + Len(joined) + 1
      /\ ~r.inquery => H = Q
      /\ H \in Nat /\ Q \in Nat /\ P \in Nat
  <2>1. Lines(r) \in Seq(Seq(Sendable)) /\ Len(Lines(r)) = n
    BY PartsTyped
  <2>2. Flat(Lines(r))[n] = f
    BY <2>1, FlatSteps
  <2>3. n \in 0 .. n
    BY SentFields
  <2>4. f \in Seq(Sendable)
    BY <2>1, <2>2, <2>3, FlatTyped
  <2>5. last = H + 5 + Len(eol) + Len(f)
    BY <2>2, <2>3 DEF FieldAt
  <2>6. Len(f) \in Nat
    BY <2>4, LenProperties
  <2>7. Len(q) \in Nat
    BY <1>5, LenProperties
  <2>. HIDE DEF f, q
  <2>. QED  BY <2>4, <2>5, <2>6, <2>7, Places
<1>7. ASSUME NEW w, NEW j \in Int, Spelled(w, m, j)
      PROVE  w[j] = r.method /\ w[j + 1] = "sp"
  <2>1. \A i \in 1 .. 2 : w[j + i - 1] = <<r.method, "sp">>[i]
    BY <1>7 DEF Spelled
  <2>2. w[j + 1 - 1] = r.method /\ w[j + 2 - 1] = "sp" /\ j + 1 - 1 = j /\ j + 2 - 1 = j + 1
    BY <2>1
  <2>. QED  BY <2>2
<1>8. ASSUME NEW w, NEW j \in Int, Spelled(w, v, j)
      PROVE  /\ w[j] = "sp" /\ w[j + 1] = "HTTP" /\ w[j + 2] = "slash"
             /\ w[j + 3] = "1" /\ w[j + 4] = "dot" /\ w[j + 5] = "1"
  <2>1. \A i \in 1 .. 6 : w[j + i - 1] = <<"sp", "HTTP", "slash", "1", "dot", "1">>[i]
    BY <1>8 DEF Spelled
  <2>2. /\ w[j + 1 - 1] = "sp" /\ w[j + 2 - 1] = "HTTP" /\ w[j + 3 - 1] = "slash"
        /\ w[j + 4 - 1] = "1" /\ w[j + 5 - 1] = "dot" /\ w[j + 6 - 1] = "1"
    BY <2>1
  <2>3. /\ j + 1 - 1 = j /\ j + 2 - 1 = j + 1 /\ j + 3 - 1 = j + 2
        /\ j + 4 - 1 = j + 3 /\ j + 5 - 1 = j + 4 /\ j + 6 - 1 = j + 5
    OBVIOUS
  <2>. QED  BY <2>2, <2>3
<1>. HIDE DEF m, q, v, f, lead, path, eol, joined, n, P, Q, H, first, last
<1>9. /\ h1 \in Seq(Sendable) /\ Len(h1) = Len(lead) + Len(m)
      /\ \A w : Spelled(w, h1, 1) => Spelled(w, lead, 1) /\ Spelled(w, m, 1 + Len(lead))
  <2>1. lead \in Seq(Sendable) /\ m \in Seq(Sendable)
    BY <1>2, <1>3
  <2>. QED  BY <2>1, SpelledFromOne
<1>. HIDE DEF h1
<1>10. /\ h2 \in Seq(Sendable) /\ Len(h2) = Len(h1) + Len(path)
       /\ \A w : Spelled(w, h2, 1) => Spelled(w, h1, 1) /\ Spelled(w, path, 1 + Len(h1))
  <2>1. h1 \in Seq(Sendable) /\ path \in Seq(Sendable)
    BY <1>3, <1>9
  <2>. QED  BY <2>1, SpelledFromOne
<1>. HIDE DEF h2
<1>11. /\ h3 \in Seq(Sendable) /\ Len(h3) = Len(h2) + Len(q)
       /\ \A w : Spelled(w, h3, 1) => Spelled(w, h2, 1) /\ Spelled(w, q, 1 + Len(h2))
  <2>1. q \in Seq(Sendable) /\ h2 \in Seq(Sendable)
    BY <1>5, <1>10
  <2>. QED  BY <2>1, SpelledFromOne
<1>. HIDE DEF h3
<1>12. /\ h4 \in Seq(Sendable) /\ Len(h4) = Len(h3) + Len(v)
       /\ \A w : Spelled(w, h4, 1) => Spelled(w, h3, 1) /\ Spelled(w, v, 1 + Len(h3))
  <2>1. h3 \in Seq(Sendable) /\ v \in Seq(Sendable)
    BY <1>2, <1>11
  <2>. QED  BY <2>1, SpelledFromOne
<1>. HIDE DEF h4
<1>13. /\ h5 \in Seq(Sendable) /\ Len(h5) = Len(h4) + Len(eol)
       /\ \A w : Spelled(w, h5, 1) => Spelled(w, h4, 1) /\ Spelled(w, eol, 1 + Len(h4))
  <2>1. h4 \in Seq(Sendable) /\ eol \in Seq(Sendable)
    BY <1>3, <1>12
  <2>. QED  BY <2>1, SpelledFromOne
<1>. HIDE DEF h5
<1>14. /\ h6 \in Seq(Sendable) /\ Len(h6) = Len(h5) + Len(f)
       /\ \A w : Spelled(w, h6, 1) => Spelled(w, h5, 1) /\ Spelled(w, f, 1 + Len(h5))
  <2>1. f \in Seq(Sendable) /\ h5 \in Seq(Sendable)
    BY <1>6, <1>13
  <2>. QED  BY <2>1, SpelledFromOne
<1>. HIDE DEF h6
<1>15. /\ h7 \in Seq(Sendable) /\ Len(h7) = Len(h6) + Len(eol)
       /\ \A w : Spelled(w, h7, 1) => Spelled(w, h6, 1) /\ Spelled(w, eol, 1 + Len(h6))
  <2>1. h6 \in Seq(Sendable) /\ eol \in Seq(Sendable)
    BY <1>3, <1>14
  <2>. QED  BY <2>1, SpelledFromOne
<1>. HIDE DEF h7
<1>16. /\ 1 + Len(h1) = P + 1 /\ 1 + Len(lead) = Len(lead) + 1 /\ Len(lead) + 1 + 1 = P
       /\ 1 + Len(h2) = Q /\ 1 + Len(h3) = H /\ 1 + Len(h4) = H + 6
       /\ 1 + Len(h5) = first + 1 /\ 1 + Len(h6) = last + 1
       /\ Len(h7) = last + Len(eol)
       /\ Q \in Int /\ H \in Int /\ Len(lead) + 1 \in Int
  <2>. DEFINE l0 == Len(lead)
              lp == Len(path)
              le == Len(eol)
              lf == Len(f)
              lq == Len(q)
              lj == Len(joined)
              l1 == Len(h1)
              l2 == Len(h2)
              l3 == Len(h3)
              l4 == Len(h4)
              l5 == Len(h5)
              l6 == Len(h6)
              l7 == Len(h7)
  <2>1. l1 = l0 + 2 /\ l4 = l3 + 6
    BY <1>2, <1>9, <1>12
  <2>2. l2 = l1 + lp /\ l3 = l2 + lq /\ l5 = l4 + le /\ l6 = l5 + lf /\ l7 = l6 + le
    BY <1>10, <1>11, <1>13, <1>14, <1>15
  <2>3. l0 \in Nat /\ lp \in Nat /\ le \in Nat /\ lj \in Nat
    BY <1>3, <1>4
  <2>4. lf \in Nat /\ lq \in Nat /\ H \in Nat /\ Q \in Nat /\ P \in Nat
    BY <1>6
  <2>5. last = H + 5 + le + lf /\ first = H + 5 + le /\ P = l0 + 2 /\ Q = P + lp + 1
    BY <1>6
  <2>6. (lq = lj + 1 /\ H = Q + lj + 1) \/ (lq = 0 /\ H = Q)
    BY <1>5, <1>6, Zenon
  <2>. HIDE DEF l0, lp, le, lf, lq, lj, l1, l2, l3, l4, l5, l6, l7
  <2>7. H = Q + lq
    BY <2>3, <2>4, <2>6
  <2>8. /\ 1 + l1 = P + 1 /\ 1 + l0 = l0 + 1 /\ l0 + 1 + 1 = P
        /\ 1 + l2 = Q /\ 1 + l3 = H /\ 1 + l4 = H + 6
        /\ 1 + l5 = first + 1 /\ 1 + l6 = last + 1 /\ l7 = last + le
        /\ Q \in Int /\ H \in Int /\ l0 + 1 \in Int
    BY <2>1, <2>2, <2>3, <2>4, <2>5, <2>7
  <2>. QED  BY <2>8 DEF l0, le, l1, l2, l3, l4, l5, l6, l7
<1>17. ASSUME NEW w, Spelled(w, h7, 1)
       PROVE  /\ Spelled(w, lead, 1) /\ Spelled(w, m, Len(lead) + 1)
              /\ Spelled(w, path, P + 1) /\ Spelled(w, q, Q)
              /\ Spelled(w, v, H) /\ Spelled(w, eol, H + 6)
              /\ Spelled(w, f, first + 1) /\ Spelled(w, eol, last + 1)
  <2>1. Spelled(w, h6, 1) /\ Spelled(w, h5, 1) /\ Spelled(w, h4, 1)
        /\ Spelled(w, h3, 1) /\ Spelled(w, h2, 1) /\ Spelled(w, h1, 1)
    BY <1>10, <1>11, <1>12, <1>13, <1>14, <1>15, <1>17, Zenon
  <2>. QED  BY <1>9, <1>10, <1>11, <1>12, <1>13, <1>14, <1>15, <1>16, <1>17, <2>1, Zenon
<1>18. ASSUME NEW w, Spelled(w, h7, 1)
       PROVE  /\ w[Len(lead) + 1] = r.method /\ w[P] = "sp"
              /\ r.inquery => w[Q] = "qm" /\ Spelled(w, joined, Q + 1)
              /\ w[H] = "sp" /\ w[H + 1] = "HTTP" /\ w[H + 2] = "slash"
              /\ w[H + 3] = "1" /\ w[H + 4] = "dot" /\ w[H + 5] = "1"
  <2>1. w[Len(lead) + 1] = r.method /\ w[Len(lead) + 1 + 1] = "sp"
    BY <1>7, <1>16, <1>17, <1>18
  <2>2. w[P] = "sp"
    BY <1>16, <2>1, Zenon
  <2>3. r.inquery => w[Q] = "qm" /\ Spelled(w, joined, Q + 1)
    BY <1>5, <1>16, <1>17, <1>18, Zenon
  <2>4. /\ w[H] = "sp" /\ w[H + 1] = "HTTP" /\ w[H + 2] = "slash"
        /\ w[H + 3] = "1" /\ w[H + 4] = "dot" /\ w[H + 5] = "1"
    <3>1. Spelled(w, v, H) /\ H \in Int
      BY <1>16, <1>17, <1>18
    <3>. QED  BY <1>8, <3>1
  <2>. QED  BY <2>1, <2>2, <2>3, <2>4
<1>. QED  BY <1>1, <1>15, <1>16, <1>17, <1>18, Zenon
             DEF f, lead, path, eol, joined, n, P, Q, H, first, last

\* Where the next field begins, and its parts
LEMMA FieldLaid ==
    ASSUME NEW r \in Requests, NEW w, Spelled(w, HeaderOf(r), 1), NEW k \in 1 .. Len(r.fields)
    PROVE  LET f == r.fields[k]
               a == FieldAt(r)[k - 1]
           IN  /\ Spelled(w, f.name, a + 1)
               /\ w[a + Len(f.name) + 1] = "colon" /\ w[a + Len(f.name) + 2] = "sp"
               /\ Spelled(w, f.value, a + Len(f.name) + 3)
               /\ Spelled(w, r.eol, a + Len(f.name) + Len(f.value) + 3)
<1>. DEFINE n == Len(r.fields)
            name == r.fields[k].name
            value == r.fields[k].value
            eol == r.eol
            F == Flat(Lines(r))
            g == Len(F[k - 1])
            H == HttpAt(r)
            e == Len(eol)
            first == FieldAt(r)[0]
            a == FieldAt(r)[k - 1]
            x == Len(name)
            y == Len(value)
            line == Lines(r)[k]
<1>1. /\ Lines(r) \in Seq(Seq(Sendable)) /\ Len(Lines(r)) = n /\ n \in Nat /\ k - 1 \in 0 .. n
  BY PartsTyped, SentFields
<1>2. Spelled(w, FlattenSeq(Lines(r)), first + 1) /\ first + 1 \in Int
  <2>1. first \in Nat
    BY <1>1, Places
  <2>. HIDE DEF first
  <2>2. first + 1 \in Int
    BY <2>1
  <2>. QED  BY <2>2, HeaderLaid DEF first
<1>3. Spelled(w, line, first + 1 + g)
  BY <1>1, <1>2, SpelledFlat
<1>4. a = H + 5 + e + g /\ first = H + 5 + e
  BY <1>1, Places DEF FieldAt
<1>5. F[k - 1] \in Seq(Sendable)
  BY <1>1, FlatTyped
<1>6. g \in Nat
  BY <1>5, LenProperties
<1>7. H \in Nat /\ e \in Nat /\ x \in Nat /\ y \in Nat
  <2>1. name \in Seq(Sendable) /\ value \in Seq(Sendable) /\ eol \in Seq(Sendable)
    BY SentFields, RequestTyped
  <2>2. H \in Nat
    BY Places
  <2>. HIDE DEF name, value, eol, H
  <2>. QED  BY <2>1, <2>2, LenProperties
<1>8. \A j \in Int : Spelled(w, line, j) =>
                     /\ Spelled(w, name, j)
                     /\ w[j + x] = "colon" /\ w[j + x + 1] = "sp"
                     /\ Spelled(w, value, j + x + 2)
                     /\ Spelled(w, eol, j + x + 2 + y)
  BY LineLaid
<1>. HIDE DEF n, name, value, eol, F, g, H, e, first, a, x, y, line
<1>9. first + 1 + g = a + 1 /\ a + 1 \in Int
  BY <1>4, <1>6, <1>7
<1>10. /\ a + 1 + x = a + x + 1 /\ a + 1 + x + 1 = a + x + 2 /\ a + 1 + x + 2 = a + x + 3
       /\ a + 1 + x + 2 + y = a + x + y + 3
  BY <1>4, <1>6, <1>7
<1>11. Spelled(w, line, a + 1)
  BY <1>3, <1>9
<1>12. /\ Spelled(w, name, a + 1)
       /\ w[a + x + 1] = "colon" /\ w[a + x + 2] = "sp"
       /\ Spelled(w, value, a + x + 3)
       /\ Spelled(w, eol, a + x + y + 3)
  BY <1>8, <1>9, <1>10, <1>11
<1>. QED  BY <1>12 DEF name, value, eol, a, x, y

\* No argument has a space, and none begins a new one where it should not.
LEMMA JoinedPrinted ==
    ASSUME NEW r \in Requests, NEW sep \in {"amp"}
    PROVE  Joined(r.args, sep) \in Seq(Printed \ {"sp"})
<1>. DEFINE S == Printed \ {"sp"}
            ss == Parts(r.args, sep)
<1>1. /\ Len(r.args) \in Nat /\ Len(ss) = Len(r.args) /\ ss \in Seq(Seq(Sendable))
      /\ Joined(r.args, sep) = FlattenSeq(ss)
  BY PartsTyped, SentArgs
<1>2. "eq" \in S /\ "amp" \in S /\ Usual \ {"amp", "eq"} \subseteq S /\ Printed \ {"amp", "sp"} \subseteq S
  BY Apart DEF Printed, Usual, Digit
<1>3. ASSUME NEW k \in 1 .. Len(r.args) PROVE ss[k] \in Seq(S)
  <2>. DEFINE key == r.args[k].key
              value == r.args[k].value
              z == IF k = 1 THEN <<>> ELSE <<sep>>
              a == z \o key
              b == a \o <<"eq">>
              s == b \o value
  <2>1. ss[k] = s
    BY SentArgs DEF Parts
  <2>2. key \in Seq(S) /\ value \in Seq(S)
    BY <1>2, SentArgs, SeqMonotonic
  <2>3. z \in Seq(S) /\ <<"eq">> \in Seq(S)
    <3>1. <<>> \in Seq(S) /\ <<sep>> \in Seq(S) /\ <<"eq">> \in Seq(S)
      BY <1>2
    <3>. HIDE DEF S
    <3>. QED  BY <3>1, Zenon
  <2>. HIDE DEF key, value, z, S
  <2>4. a \in Seq(S)
    BY <2>2, <2>3, ConcatProperties
  <2>5. b \in Seq(S)
    BY <2>3, <2>4, ConcatProperties
  <2>6. s \in Seq(S)
    BY <2>2, <2>5, ConcatProperties
  <2>. QED  BY <2>1, <2>6
<1>4. ss \in Seq(Seq(S))
  <2>1. DOMAIN ss = 1 .. Len(r.args) /\ ss = [k \in 1 .. Len(r.args) |-> ss[k]]
    BY SentArgs DEF Parts
  <2>. HIDE DEF ss, S
  <2>. QED  BY <1>1, <1>3, <2>1, IsSeq
<1>. HIDE DEF ss, S
<1>5. Flat(ss)[Len(ss)] = FlattenSeq(ss) /\ Len(ss) \in 0 .. Len(ss)
  <2>1. Len(ss) \in Nat
    BY <1>4, LenProperties
  <2>2. Len(ss) \in 0 .. Len(ss)
    BY <2>1
  <2>. QED  BY <1>4, <2>2, FlatSteps
<1>6. Flat(ss)[Len(ss)] \in Seq(S)
  BY <1>4, <1>5, FlatTyped
<1>. QED  BY <1>1, <1>5, <1>6 DEF S

-----------------------------------------------------------------------------
(* What has been read of a request that no token of was replaced            *)

\* The states up to a part of the header, and those behind it
BeforeUri == {"start", "method", "spaces_before_uri"}
BeforeHttp == BeforeUri \cup {"uri", "params"}
BeforeFields == BeforeHttp \cup {"http", "http_major", "http_minor"}
ReadingHeader == HeaderStates \cup {"header"}
PastHeader == {"header", "done"} \cup ArgStates

\* The value of a field, as it is stored
Stored(v) == IF v = <<>> THEN <<"nul">> ELSE v

\* The first k fields are stored, the last of each name.
StoredFirst(k) ==
    /\ msg.fields = [n \in {sent.fields[l].name : l \in 1 .. k} |-> msg.fields[n]]
    /\ \A l \in 1 .. k :
          (\A m \in l + 1 .. k : sent.fields[m].name # sent.fields[l].name)
              => msg.fields[sent.fields[l].name] = Stored(sent.fields[l].value)

\* Where the line's loop stands, and what its variables hold
LinePlace ==
    LET s == rd.state IN
    /\ s = "start" => pos <= Len(sent.lead) /\ rd.buf = <<>>
    /\ s = "method" => pos = Len(sent.lead) + 1 /\ rd.buf = <<sent.method>>
    /\ s = "spaces_before_uri" => pos = PathAt(sent) /\ rd.buf = <<>>
    /\ s = "uri" => /\ pos = PathAt(sent) + Len(rd.buf) /\ Len(rd.buf) > 0
                    /\ Begins(rd.buf, sent.path)
    /\ s = "params" => /\ sent.inquery /\ pos = QueryAt(sent) + Len(rd.buf)
                       /\ Begins(rd.buf, Joined(sent.args, "amp"))
    /\ s \in BeforeHttp => rd.i = 0
    /\ s = "http" => \/ pos = HttpAt(sent) /\ rd.i = 0
                     \/ pos = HttpAt(sent) + 1 /\ rd.i = 4
    /\ s = "http_major" => \/ pos = HttpAt(sent) + 2 /\ rd.i = 0
                           \/ pos = HttpAt(sent) + 3 /\ rd.i = 1
    /\ s = "http_minor" => \/ pos = HttpAt(sent) + 4 /\ rd.i = 1
                           \/ /\ pos \in HttpAt(sent) + 5 .. HttpAt(sent) + 4 + Len(sent.eol)
                              /\ rd.i = 11

\* What the line has given
LineRead ==
    LET s == rd.state IN
    /\ s \in PastMethod => msg.method = sent.method
    /\ s \in PastTarget => msg.target = sent.path
    /\ s \in BeforeHttp => query = <<>>
    /\ s \in PastTarget \ {"params"} =>
          /\ sent.inquery => query = Append(Joined(sent.args, "amp"), "sp")
          /\ ~sent.inquery => query = <<>>
    /\ s \in BeforeFields => msg.fields = <<>>
    /\ s \in PastTarget \ BeforeFields => msg.version = 11

\* Where the loop of the fields stands: k are stored, and it reads the next
FieldPlace ==
    LET n == Len(sent.fields)
        At(k) == FieldAt(sent)[k]
        Field(k) == sent.fields[k]
        s == rd.state
    IN
    /\ s = "h_start" => \E k \in 0 .. n : StoredFirst(k) /\ pos = At(k)
    /\ s = "name" => \E k \in 1 .. n :
          /\ StoredFirst(k - 1) /\ pos = At(k - 1) + Len(rd.buf)
          /\ Len(rd.buf) > 0 /\ Begins(rd.buf, Field(k).name)
    /\ s = "spaces_before_value" => \E k \in 1 .. n :
          /\ StoredFirst(k - 1) /\ rd.buf = <<>> /\ rd.name = Field(k).name
          /\ pos \in At(k - 1) + Len(rd.name) + 1 .. At(k - 1) + Len(rd.name) + 2
    /\ s = "value" => \E k \in 1 .. n :
          /\ StoredFirst(k - 1) /\ rd.name = Field(k).name
          /\ pos = At(k - 1) + Len(rd.name) + 2 + Len(rd.buf)
          /\ Len(rd.buf) > 0 /\ Begins(rd.buf, Field(k).value)
    /\ s = "almost_done" => \E k \in 1 .. n :
          StoredFirst(k) /\ pos = At(k) - 1 /\ sent.eol = <<"cr", "lf">>
    /\ s = "h_almost_done" =>
          StoredFirst(n) /\ pos = At(n) + 1 /\ sent.eol = <<"cr", "lf">>
    /\ s = "header" => StoredFirst(n) /\ pos = At(n) + Len(sent.eol)

\* The invariant of the header: the loops are at the place in Wire(sent) that
\* their state says, and have stored what is before it.
CleanInv ==
    clean =>
        /\ rd.state \notin {"failed", "done_cr"}
        /\ rd.state \in ReadingHeader => in = Wire(sent) /\ rd.total = 0 /\ msg.args = <<>>
        /\ LinePlace /\ LineRead /\ FieldPlace

\* The place of a token
LEMMA SpelledAt ==
    ASSUME NEW w, NEW s, NEW j \in Int, Spelled(w, s, j), NEW l \in 1 .. Len(s), NEW p,
           j + l - 1 = p
    PROVE  w[p] = s[l]
BY DEF Spelled

LEMMA SentLaid ==
    ASSUME ReaderTyped, CleanInv, clean, rd.state \in ReadingHeader
    PROVE  /\ sent \in Requests /\ Spelled(in, HeaderOf(sent), 1)
           /\ rd.total = 0 /\ msg.args = <<>>
<1>1. sent \in Requests /\ in = Wire(sent) /\ rd.total = 0 /\ msg.args = <<>>
  BY DEF ReaderTyped, CleanInv
<1>. DEFINE h == HeaderOf(sent)
            b == IF sent.inquery THEN <<>> ELSE Joined(sent.args, sent.sep) \o sent.end
<1>2. Wire(sent) = h \o b
  BY DEF Wire
<1>3. h \in Seq(Sendable)
  BY <1>1, HeaderLaid
<1>4. b \in Seq(Sendable)
  <2>. DEFINE j == Joined(sent.args, sent.sep)
              e == sent.end
              z == j \o e
  <2>1. j \in Seq(Sendable) /\ e \in Seq(Sendable) /\ <<>> \in Seq(Sendable)
    BY <1>1, RequestTyped, PartsTyped, EmptySeq
  <2>2. b = IF sent.inquery THEN <<>> ELSE z
    OBVIOUS
  <2>. HIDE DEF j, e, b
  <2>3. z \in Seq(Sendable)
    BY <2>1, ConcatProperties
  <2>. HIDE DEF z
  <2>. QED  BY <2>1, <2>2, <2>3, Zenon
<1>. HIDE DEF h, b
<1>5. Spelled(h \o b, h \o b, 1)
  <2>1. h \o b \in Seq(Sendable)
    BY <1>3, <1>4, ConcatProperties
  <2>. QED  BY <2>1, SpelledSelf
<1>6. Spelled(h \o b, h, 1)
  BY <1>3, <1>4, <1>5, SpelledFromOne
<1>. QED  BY <1>1, <1>2, <1>6, Zenon DEF h

LEMMA ArgsAlone ==
    ASSUME ReaderTyped
    PROVE  /\ \A m : msg' = [msg EXCEPT !.method = m] => msg'.args = msg.args
           /\ \A t : msg' = [msg EXCEPT !.target = t] => msg'.args = msg.args
           /\ \A v : msg' = [msg EXCEPT !.version = v] => msg'.args = msg.args
           /\ \A v : Store(v) => msg'.args = msg.args
<1>1. DOMAIN msg = {"method", "target", "version", "fields", "args"}
  BY DEF ReaderTyped, NoMsg
<1>. QED  BY <1>1 DEF Store

\* A step of the line's loop
LEMMA LineKept ==
    ASSUME ReaderTyped, CleanInv, clean, NEW s \in BeforeFields, Get(s),
           rd'.state \in BeforeFields, rd'.total = rd.total, msg'.args = msg.args,
           LinePlace', LineRead'
    PROVE  CleanInv'
<1>1. /\ rd.state = s /\ in' = in /\ sent' = sent /\ s \in ReadingHeader
      /\ rd'.state \in ReadingHeader
      /\ rd'.state \notin {"failed", "done_cr", "h_start", "name", "spaces_before_value",
                           "value", "almost_done", "h_almost_done", "header"}
  BY Taken DEF BeforeFields, BeforeHttp, BeforeUri, ReadingHeader, HeaderStates
<1>2. FieldPlace'
  BY <1>1 DEF FieldPlace
<1>3. in' = Wire(sent') /\ rd'.total = 0 /\ msg'.args = <<>>
  BY <1>1 DEF CleanInv
<1>. QED  BY <1>1, <1>2, <1>3 DEF CleanInv

\* What each loop leaves to the next is in the message; a step that changes neither
\* the message nor the part of the line keeps it.
PartOfLine(s) == CASE s \in {"start", "method"} -> 1
             [] s \in {"spaces_before_uri", "uri"} -> 2
             [] s = "params" -> 3
             [] s \in {"http", "http_major", "http_minor"} -> 4
             [] OTHER -> 5

LEMMA ReadKept ==
    ASSUME LineRead, Same, sent' = sent, rd.state \in ReadingHeader,
           rd'.state \in ReadingHeader, PartOfLine(rd.state) = PartOfLine(rd'.state)
    PROVE  LineRead'
BY DEF LineRead, Same, PartOfLine, PastMethod, PastTarget, BeforeFields, BeforeHttp, BeforeUri,
       ReadingHeader, HeaderStates, ArgStates

LEMMA StartReads ==
    ASSUME ReaderTyped, CleanInv, clean, LineStart
    PROVE  CleanInv'
<1>. DEFINE lead == sent.lead
            n == Len(lead)
            m == sent.method
<1>1. /\ rd.state = "start" /\ Get("start") /\ pos' = pos + 1 /\ in' = in /\ sent' = sent
      /\ ch = in[pos + 1] /\ pos \in Nat
  BY Taken DEF LineStart, ch
<1>2. sent \in Requests /\ Spelled(in, HeaderOf(sent), 1)
  BY <1>1, SentLaid DEF ReadingHeader, HeaderStates
<1>3. /\ pos <= n /\ rd.buf = <<>> /\ rd.i = 0 /\ LineRead
  BY <1>1 DEF CleanInv, LinePlace, BeforeHttp, BeforeUri
<1>4. /\ lead \in Seq(Blank) /\ n \in Nat /\ m \in Upper
      /\ Spelled(in, lead, 1) /\ in[n + 1] = m
  BY <1>2, RequestTyped, HeaderLaid
<1>. HIDE DEF n, m
<1>5. \A s \in {"start", "method"} : s \in BeforeFields /\ s \in ReadingHeader /\ PartOfLine(s) = 1
  BY DEF BeforeFields, BeforeHttp, BeforeUri, ReadingHeader, HeaderStates, PartOfLine
<1>6. CASE pos < n
  <2>1. pos + 1 \in 1 .. n /\ 1 + (pos + 1) - 1 = pos + 1 /\ 1 \in Int
    BY <1>1, <1>4, <1>6
  <2>2. ch = lead[pos + 1] /\ lead[pos + 1] \in Blank
    BY <1>1, <1>4, <2>1, SpelledAt, ElementOfSeq DEF n
  <2>3. Stay
    BY <2>2, Apart DEF LineStart, Blank, Control
  <2>4. rd' = rd /\ Same /\ msg' = msg
    BY <2>3 DEF Stay, Same
  <2>5. pos' <= n
    BY <1>1, <1>4, <1>6
  <2>6. LinePlace'
    BY <1>1, <1>3, <2>4, <2>5 DEF LinePlace, n
  <2>7. LineRead'
    BY <1>1, <1>3, <1>5, <2>4, ReadKept
  <2>. QED  BY <1>1, <1>5, <2>4, <2>6, <2>7, LineKept
<1>7. CASE pos = n
  <2>1. ch = m /\ m \notin Blank
    BY <1>1, <1>4, <1>7, Apart DEF Blank, Control
  <2>2. Keep("method")
    BY <1>4, <2>1 DEF LineStart
  <2>3. /\ rd'.state = "method" /\ rd'.buf = Append(rd.buf, ch) /\ rd'.i = rd.i
        /\ rd'.total = rd.total /\ Same /\ msg' = msg
    BY <2>2, RdSteps DEF Keep, Same
  <2>4. rd'.buf = <<m>>
    BY <1>3, <2>1, <2>3
  <2>5. LinePlace'
    BY <1>1, <1>3, <1>7, <2>3, <2>4 DEF LinePlace, n, m
  <2>6. LineRead'
    BY <1>1, <1>3, <1>5, <2>3, ReadKept
  <2>. QED  BY <1>1, <1>5, <2>3, <2>5, <2>6, LineKept
<1>. QED  BY <1>1, <1>3, <1>4, <1>6, <1>7

LEMMA MethodReads ==
    ASSUME ReaderTyped, CleanInv, clean, LineMethod
    PROVE  CleanInv'
<1>. DEFINE n == Len(sent.lead)
            m == sent.method
<1>1. /\ rd.state = "method" /\ Get("method") /\ pos' = pos + 1 /\ in' = in /\ sent' = sent
      /\ ch = in[pos + 1] /\ pos \in Nat
  BY Taken DEF LineMethod, ch
<1>2. sent \in Requests /\ Spelled(in, HeaderOf(sent), 1)
  BY <1>1, SentLaid DEF ReadingHeader, HeaderStates
<1>3. /\ pos = n + 1 /\ rd.buf = <<m>> /\ rd.i = 0 /\ LineRead
  BY <1>1 DEF CleanInv, LinePlace, BeforeHttp, BeforeUri
<1>4. /\ m \in Methods /\ in[PathAt(sent)] = "sp" /\ PathAt(sent) = n + 2 /\ n \in Nat
  BY <1>2, RequestTyped, HeaderLaid, Places
<1>5. ch = "sp" /\ pos' = PathAt(sent)
  <2>. HIDE DEF n
  <2>1. pos + 1 = PathAt(sent)
    BY <1>3, <1>4
  <2>. QED  BY <1>1, <1>4, <2>1
<1>6. "sp" \notin Upper
  BY Apart
<1>7. Len(rd.buf) = 1 /\ Head(rd.buf) = m
  BY <1>3
<1>8. /\ msg' = [msg EXCEPT !.method = m] /\ Goto("spaces_before_uri", <<>>)
      /\ UNCHANGED query
  BY <1>4, <1>5, <1>6, <1>7 DEF LineMethod
<1>9. /\ rd'.state = "spaces_before_uri" /\ rd'.buf = <<>> /\ rd'.i = rd.i
      /\ rd'.total = rd.total /\ msg'.method = m /\ msg'.fields = msg.fields
      /\ msg'.args = msg.args
  BY <1>8, RdSteps, MsgSteps, ArgsAlone
<1>10. LinePlace'
  BY <1>1, <1>3, <1>5, <1>9 DEF LinePlace
<1>11. LineRead'
  BY <1>1, <1>3, <1>8, <1>9
     DEF LineRead, PastMethod, PastTarget, BeforeFields, BeforeHttp, BeforeUri, ArgStates
<1>. QED  BY <1>1, <1>9, <1>10, <1>11, LineKept DEF BeforeFields, BeforeHttp, BeforeUri

LEMMA SpacesRead ==
    ASSUME ReaderTyped, CleanInv, clean, LineSpaces
    PROVE  CleanInv'
<1>. DEFINE path == sent.path
            n == Len(path)
            P == PathAt(sent)
<1>1. /\ rd.state = "spaces_before_uri" /\ Get("spaces_before_uri") /\ pos' = pos + 1
      /\ in' = in /\ sent' = sent /\ ch = in[pos + 1] /\ pos \in Nat
  BY Taken DEF LineSpaces, ch
<1>2. sent \in Requests /\ Spelled(in, HeaderOf(sent), 1)
  BY <1>1, SentLaid DEF ReadingHeader, HeaderStates
<1>3. /\ pos = P /\ rd.buf = <<>> /\ rd.i = 0 /\ LineRead
  BY <1>1 DEF CleanInv, LinePlace, BeforeHttp, BeforeUri
<1>4. /\ n \in Nat \ {0} /\ path[1] = "slash" /\ Spelled(in, path, P + 1) /\ P \in Nat
  BY <1>2, RequestTyped, HeaderLaid, Places
<1>5. ch = "slash"
  <2>. HIDE DEF n, P
  <2>1. 1 \in 1 .. n /\ P + 1 + 1 - 1 = P + 1 /\ P + 1 \in Int /\ P + 1 = pos + 1
    BY <1>3, <1>4
  <2>. HIDE DEF path
  <2>. QED  BY <1>1, <1>4, <2>1, SpelledAt DEF n
<1>6. Keep("uri")
  BY <1>5 DEF LineSpaces
<1>7. /\ rd'.state = "uri" /\ rd'.buf = Append(rd.buf, ch) /\ rd'.i = rd.i
      /\ rd'.total = rd.total /\ Same /\ msg' = msg
  BY <1>6, RdSteps DEF Keep, Same
<1>8. rd'.buf = <<"slash">>
  BY <1>3, <1>5, <1>7
<1>9. Len(rd'.buf) = 1 /\ rd'.buf[1] = "slash"
  BY <1>8
<1>10. pos' = P + Len(rd'.buf) /\ Len(rd'.buf) > 0
  BY <1>1, <1>3, <1>9
<1>11. Begins(rd'.buf, path)
  BY <1>4, <1>9 DEF Begins
<1>12. LinePlace'
  BY <1>1, <1>3, <1>7, <1>10, <1>11 DEF LinePlace
<1>13. LineRead'
  BY <1>1, <1>3, <1>7, ReadKept DEF PartOfLine, ReadingHeader, HeaderStates
<1>. QED  BY <1>1, <1>7, <1>12, <1>13, LineKept DEF BeforeFields, BeforeHttp, BeforeUri

LEMMA UriReads ==
    ASSUME ReaderTyped, CleanInv, clean, LineUri
    PROVE  CleanInv'
<1>. DEFINE path == sent.path
            b == rd.buf
            n == Len(path)
            l == Len(b)
            P == PathAt(sent)
            Q == QueryAt(sent)
<1>1. /\ rd.state = "uri" /\ Get("uri") /\ pos' = pos + 1
      /\ in' = in /\ sent' = sent /\ ch = in[pos + 1] /\ pos \in Nat
      /\ b \in Seq(Token) /\ l \in Nat
  BY Taken, LenProperties DEF LineUri, ch, ReaderTyped
<1>2. sent \in Requests /\ Spelled(in, HeaderOf(sent), 1)
  BY <1>1, SentLaid DEF ReadingHeader, HeaderStates
<1>3. pos = P + l /\ l > 0 /\ Begins(b, path) /\ rd.i = 0 /\ LineRead
  BY <1>1 DEF CleanInv, LinePlace, BeforeHttp, BeforeUri
<1>4. /\ n \in Nat \ {0} /\ path \in Seq(Usual \cup {"slash", "dot"})
      /\ path \in Seq(Token) /\ Spelled(in, path, P + 1) /\ P \in Nat /\ Q = P + n + 1
      /\ sent.inquery => in[Q] = "qm"
      /\ in[HttpAt(sent)] = "sp"
      /\ ~sent.inquery => HttpAt(sent) = Q
      /\ sent.inquery \in BOOLEAN
  <2>1. Sendable \subseteq Token
    BY TokenSets
  <2>. QED  BY <1>2, <2>1, RequestTyped, HeaderLaid, Places, SeqMonotonic
<1>5. l <= n
  BY <1>3 DEF Begins
<1>6. "sp" \notin Usual /\ "qm" \notin Usual /\ "sp" \notin Control /\ "qm" \notin Control
  BY Apart DEF Usual, Digit, Control, Blank
<1>. HIDE DEF n, l, P, Q, path, b
<1>7. CASE l < n
  <2>1. l + 1 \in 1 .. n /\ P + 1 + (l + 1) - 1 = pos + 1 /\ P + 1 \in Int
    BY <1>1, <1>3, <1>4, <1>7
  <2>2. ch = path[l + 1] /\ path[l + 1] \in Usual \cup {"slash", "dot"}
    BY <1>1, <1>4, <2>1, SpelledAt, ElementOfSeq DEF n
  <2>3. Keep("uri")
    <3>1. ch \notin {"qm", "sp"} /\ ch \notin Control
      BY <2>2, <1>6, Apart DEF Usual, Digit, Control, Blank
    <3>. QED  BY <3>1 DEF LineUri
  <2>4. /\ rd'.state = "uri" /\ rd'.buf = Append(rd.buf, ch) /\ rd'.i = rd.i
        /\ rd'.total = rd.total /\ Same /\ msg' = msg
    BY <2>3, RdSteps DEF Keep, Same
  <2>5. Begins(rd'.buf, path) /\ Len(rd'.buf) = l + 1
    BY <1>1, <1>3, <1>4, <1>7, <2>2, <2>4, BeginsMore DEF l, b, n
  <2>6. pos' = P + Len(rd'.buf) /\ Len(rd'.buf) > 0
    BY <1>1, <1>3, <1>4, <2>5
  <2>7. LinePlace'
    BY <1>1, <1>3, <2>4, <2>5, <2>6 DEF LinePlace, P, path
  <2>8. LineRead'
    BY <1>1, <1>3, <2>4, ReadKept DEF PartOfLine, ReadingHeader, HeaderStates
  <2>. QED  BY <1>1, <2>4, <2>7, <2>8, LineKept DEF BeforeFields, BeforeHttp, BeforeUri
<1>8. CASE l = n
  <2>1. pos + 1 = Q /\ pos' = Q
    BY <1>1, <1>3, <1>4, <1>8
  <2>2. (sent.inquery /\ ch = "qm") \/ (~sent.inquery /\ ch = "sp" /\ HttpAt(sent) = Q)
    <3>1. CASE sent.inquery
      BY <1>1, <1>4, <2>1, <3>1, Zenon
    <3>2. CASE ~sent.inquery
      <4>1. HttpAt(sent) = Q /\ in[HttpAt(sent)] = "sp" /\ ch = in[Q]
        BY <1>1, <1>4, <2>1, <3>2
      <4>. QED  BY <3>2, <4>1
    <3>. QED  BY <3>1, <3>2
  <2>3. b = path
    BY <1>1, <1>3, <1>4, <1>8, BeginsWhole DEF l, n
  <2>4. /\ msg' = [msg EXCEPT !.target = rd.buf]
        /\ Goto(IF ch = "qm" THEN "params" ELSE "http", <<>>)
        /\ UNCHANGED query
    BY <1>6, <2>2 DEF LineUri
  <2>5. /\ rd'.buf = <<>> /\ rd'.i = rd.i /\ rd'.total = rd.total
        /\ msg'.method = msg.method /\ msg'.target = sent.path /\ msg'.fields = msg.fields
        /\ msg'.args = msg.args
        /\ rd'.state = IF ch = "qm" THEN "params" ELSE "http"
    BY <2>3, <2>4, RdSteps, MsgSteps, ArgsAlone DEF b, path
  <2>6. Len(rd'.buf) = 0 /\ Begins(rd'.buf, Joined(sent.args, "amp"))
    <3>1. Len(Joined(sent.args, "amp")) \in Nat
      BY <1>2, Places
    <3>2. Len(rd'.buf) = 0
      BY <2>5, EmptySeq
    <3>. QED  BY <3>1, <3>2 DEF Begins
  <2>7. LinePlace'
    <3>1. Q = Q + Len(rd'.buf)
      BY <1>4, <2>6
    <3>2. CASE sent.inquery
      BY <1>1, <1>3, <2>1, <2>2, <2>5, <2>6, <3>1, <3>2 DEF LinePlace, Q
    <3>3. CASE ~sent.inquery
      BY <1>1, <1>3, <2>1, <2>2, <2>5, <2>6, <3>3 DEF LinePlace, Q
    <3>. QED  BY <3>2, <3>3
  <2>8. LineRead'
    BY <1>1, <1>3, <2>2, <2>4, <2>5
       DEF LineRead, PastMethod, PastTarget, BeforeFields, BeforeHttp, BeforeUri, ArgStates
  <2>. QED  BY <1>1, <2>2, <2>5, <2>7, <2>8, LineKept DEF BeforeFields, BeforeHttp, BeforeUri
<1>. QED  BY <1>1, <1>4, <1>5, <1>7, <1>8

LEMMA ParamsRead ==
    ASSUME ReaderTyped, CleanInv, clean, LineParams
    PROVE  CleanInv'
<1>. DEFINE joined == Joined(sent.args, "amp")
            b == rd.buf
            n == Len(joined)
            l == Len(b)
            Q == QueryAt(sent)
            H == HttpAt(sent)
<1>1. /\ rd.state = "params" /\ Get("params") /\ pos' = pos + 1
      /\ in' = in /\ sent' = sent /\ ch = in[pos + 1] /\ pos \in Nat
      /\ b \in Seq(Token) /\ l \in Nat
  BY Taken, LenProperties DEF LineParams, ch, ReaderTyped
<1>2. sent \in Requests /\ Spelled(in, HeaderOf(sent), 1)
  BY <1>1, SentLaid DEF ReadingHeader, HeaderStates
<1>3. sent.inquery /\ pos = Q + l /\ Begins(b, joined) /\ rd.i = 0 /\ LineRead
  BY <1>1 DEF CleanInv, LinePlace, BeforeHttp, BeforeUri
<1>4. /\ n \in Nat /\ joined \in Seq(Printed \ {"sp"}) /\ joined \in Seq(Token)
      /\ Spelled(in, joined, Q + 1) /\ Q \in Nat /\ H = Q + n + 1 /\ in[H] = "sp"
  <2>1. Printed \ {"sp"} \subseteq Token
    BY TokenSets
  <2>2. joined \in Seq(Printed \ {"sp"}) /\ joined \in Seq(Token)
    BY <1>2, <2>1, JoinedPrinted, SeqMonotonic
  <2>3. /\ Spelled(in, joined, Q + 1) /\ Q \in Nat /\ H = Q + n + 1 /\ in[H] = "sp"
        /\ n \in Nat
    BY <1>2, <1>3, HeaderLaid, Places
  <2>. QED  BY <2>2, <2>3
<1>5. l <= n
  BY <1>3 DEF Begins
<1>. HIDE DEF n, l, Q, H, joined, b
<1>6. CASE l < n
  <2>1. l + 1 \in 1 .. n /\ Q + 1 + (l + 1) - 1 = pos + 1 /\ Q + 1 \in Int
    BY <1>1, <1>3, <1>4, <1>6
  <2>2. ch = joined[l + 1] /\ joined[l + 1] \in Printed \ {"sp"}
    BY <1>1, <1>4, <2>1, SpelledAt, ElementOfSeq DEF n
  <2>3. Keep("params")
    <3>1. ch \notin Control
      BY <2>2, Apart DEF Printed, Usual, Digit, Control, Blank
    <3>. QED  BY <2>2, <3>1 DEF LineParams, Control
  <2>4. /\ rd'.state = "params" /\ rd'.buf = Append(rd.buf, ch) /\ rd'.i = rd.i
        /\ rd'.total = rd.total /\ Same /\ msg' = msg
    BY <2>3, RdSteps DEF Keep, Same
  <2>5. Begins(rd'.buf, joined) /\ Len(rd'.buf) = l + 1
    BY <1>1, <1>3, <1>4, <1>6, <2>2, <2>4, BeginsMore DEF l, b, n
  <2>6. pos' = Q + Len(rd'.buf)
    BY <1>1, <1>3, <1>4, <2>5
  <2>7. LinePlace'
    BY <1>1, <1>3, <2>4, <2>5, <2>6 DEF LinePlace, Q, joined
  <2>8. LineRead'
    BY <1>1, <1>3, <2>4, ReadKept DEF PartOfLine, ReadingHeader, HeaderStates
  <2>. QED  BY <1>1, <2>4, <2>7, <2>8, LineKept DEF BeforeFields, BeforeHttp, BeforeUri
<1>7. CASE l = n
  <2>1. pos + 1 = H /\ pos' = H
    BY <1>1, <1>3, <1>4, <1>7
  <2>2. ch = "sp"
    BY <1>1, <1>4, <2>1, Zenon
  <2>3. b = joined
    BY <1>1, <1>3, <1>4, <1>7, BeginsWhole DEF l, n
  <2>4. query' = Append(rd.buf, ch) /\ Goto("http", <<>>) /\ UNCHANGED msg
    BY <2>2 DEF LineParams, Blank
  <2>5. /\ rd'.state = "http" /\ rd'.buf = <<>> /\ rd'.i = rd.i /\ rd'.total = rd.total
        /\ msg' = msg /\ query' = Append(joined, "sp")
    BY <2>2, <2>3, <2>4, RdSteps DEF b
  <2>6. LinePlace'
    BY <1>1, <1>3, <2>1, <2>5 DEF LinePlace, H, BeforeHttp, BeforeUri
  <2>7. LineRead'
    BY <1>1, <1>3, <2>5
       DEF LineRead, PastMethod, PastTarget, BeforeFields, BeforeHttp, BeforeUri, ArgStates, joined
  <2>. QED  BY <1>1, <2>5, <2>6, <2>7, LineKept DEF BeforeFields, BeforeHttp, BeforeUri
<1>. QED  BY <1>1, <1>4, <1>5, <1>6, <1>7

LEMMA HttpReads ==
    ASSUME ReaderTyped, CleanInv, clean, LineHttp
    PROVE  CleanInv'
<1>. DEFINE H == HttpAt(sent)
<1>1. /\ rd.state = "http" /\ Get("http") /\ pos' = pos + 1
      /\ in' = in /\ sent' = sent /\ ch = in[pos + 1] /\ pos \in Nat
  BY Taken DEF LineHttp, ch
<1>2. sent \in Requests /\ Spelled(in, HeaderOf(sent), 1)
  BY <1>1, SentLaid DEF ReadingHeader, HeaderStates
<1>3. ((pos = H /\ rd.i = 0) \/ (pos = H + 1 /\ rd.i = 4)) /\ LineRead
  BY <1>1 DEF CleanInv, LinePlace
<1>4. /\ in[H + 1] = "HTTP" /\ in[H + 2] = "slash" /\ H \in Nat
  BY <1>2, HeaderLaid, Places
<1>5. rd \in RdType(AllStates)
  BY RdSteps
<1>. HIDE DEF H
<1>6. CASE pos = H /\ rd.i = 0
  <2>1. ch = "HTTP"
    BY <1>1, <1>4, <1>6
  <2>2. /\ "HTTP" \in Usual /\ "HTTP" \in Word /\ Size["HTTP"] = 4
    BY TokenSets, RequestAssumption
  <2>3. rd' = [rd EXCEPT !.i = 4] /\ Same
    BY <1>6, <2>1, <2>2, Apart DEF LineHttp
  <2>4. /\ rd'.state = "http" /\ rd'.i = 4 /\ rd'.total = rd.total /\ msg' = msg
    BY <1>1, <1>5, <2>3 DEF RdType, Same
  <2>5. LinePlace'
    BY <1>1, <1>6, <2>4 DEF LinePlace, BeforeHttp, BeforeUri, H
  <2>6. LineRead'
    BY <1>1, <1>3, <2>3, <2>4, ReadKept DEF ReadingHeader, HeaderStates
  <2>. QED  BY <1>1, <2>4, <2>5, <2>6, LineKept DEF BeforeFields
<1>7. CASE pos = H + 1 /\ rd.i = 4
  <2>1. ch = "slash" /\ pos' = H + 2
    BY <1>1, <1>4, <1>7
  <2>2. "slash" \notin Usual
    BY Apart DEF Usual, Digit
  <2>3. rd' = [rd EXCEPT !.state = "http_major", !.i = 0] /\ Same
    BY <2>1, <2>2 DEF LineHttp
  <2>4. /\ rd'.state = "http_major" /\ rd'.i = 0 /\ rd'.total = rd.total /\ msg' = msg
    BY <1>5, <2>3 DEF RdType, Same
  <2>5. LinePlace'
    BY <1>1, <2>1, <2>4 DEF LinePlace, BeforeHttp, BeforeUri, H
  <2>6. LineRead'
    BY <1>1, <1>3, <2>3, <2>4, ReadKept DEF ReadingHeader, HeaderStates, PartOfLine
  <2>. QED  BY <1>1, <2>4, <2>5, <2>6, LineKept DEF BeforeFields
<1>. QED  BY <1>3, <1>6, <1>7

LEMMA MajorReads ==
    ASSUME ReaderTyped, CleanInv, clean, LineMajor
    PROVE  CleanInv'
<1>. DEFINE H == HttpAt(sent)
<1>1. /\ rd.state = "http_major" /\ Get("http_major") /\ pos' = pos + 1
      /\ in' = in /\ sent' = sent /\ ch = in[pos + 1] /\ pos \in Nat
  BY Taken DEF LineMajor, ch
<1>2. sent \in Requests /\ Spelled(in, HeaderOf(sent), 1)
  BY <1>1, SentLaid DEF ReadingHeader, HeaderStates
<1>3. ((pos = H + 2 /\ rd.i = 0) \/ (pos = H + 3 /\ rd.i = 1)) /\ LineRead
  BY <1>1 DEF CleanInv, LinePlace
<1>4. /\ in[H + 3] = "1" /\ in[H + 4] = "dot" /\ H \in Nat
  BY <1>2, HeaderLaid, Places
<1>5. rd \in RdType(AllStates)
  BY RdSteps
<1>. HIDE DEF H
<1>6. CASE pos = H + 2 /\ rd.i = 0
  <2>1. ch = "1" /\ pos' = H + 3
    BY <1>1, <1>4, <1>6
  <2>2. "1" \in Usual /\ "1" \in Digit /\ Value["1"] = 1
    BY TokenSets DEF Digit, Value
  <2>3. rd' = [rd EXCEPT !.i = 1] /\ Same
    BY <1>6, <2>1, <2>2 DEF LineMajor
  <2>4. /\ rd'.state = "http_major" /\ rd'.i = 1 /\ rd'.total = rd.total /\ msg' = msg
    BY <1>1, <1>5, <2>3 DEF RdType, Same
  <2>5. LinePlace'
    BY <1>1, <2>1, <2>4 DEF LinePlace, BeforeHttp, BeforeUri, H
  <2>6. LineRead'
    BY <1>1, <1>3, <2>3, <2>4, ReadKept DEF ReadingHeader, HeaderStates
  <2>. QED  BY <1>1, <2>4, <2>5, <2>6, LineKept DEF BeforeFields
<1>7. CASE pos = H + 3 /\ rd.i = 1
  <2>1. ch = "dot" /\ pos' = H + 4
    BY <1>1, <1>4, <1>7
  <2>2. "dot" \notin Usual
    BY Apart DEF Usual, Digit
  <2>3. Goto("http_minor", <<>>) /\ Same
    BY <2>1, <2>2 DEF LineMajor
  <2>4. /\ rd'.state = "http_minor" /\ rd'.i = 1 /\ rd'.total = rd.total /\ msg' = msg
    BY <1>7, <2>3, RdSteps DEF Same
  <2>5. LinePlace'
    BY <1>1, <2>1, <2>4 DEF LinePlace, BeforeHttp, BeforeUri, H
  <2>6. LineRead'
    BY <1>1, <1>3, <2>3, <2>4, ReadKept DEF ReadingHeader, HeaderStates, PartOfLine
  <2>. QED  BY <1>1, <2>4, <2>5, <2>6, LineKept DEF BeforeFields
<1>. QED  BY <1>3, <1>6, <1>7

\* The end of a line
LEMMA EolSpelled ==
    ASSUME NEW r \in Requests, NEW w, NEW j \in Int, Spelled(w, r.eol, j)
    PROVE  \/ r.eol = <<"lf">> /\ Len(r.eol) = 1 /\ w[j] = "lf"
           \/ /\ r.eol = <<"cr", "lf">> /\ Len(r.eol) = 2
              /\ w[j] = "cr" /\ w[j + 1] = "lf"
<1>. DEFINE e == r.eol
<1>1. e = <<"lf">> \/ e = <<"cr", "lf">>
  BY RequestTyped, Zenon DEF LineEnd
<1>2. Spelled(w, e, j)
  OBVIOUS
<1>. HIDE DEF e
<1>3. CASE e = <<"lf">>
  <2>1. Len(e) = 1 /\ e[1] = "lf" /\ 1 \in 1 .. 1 /\ j + 1 - 1 = j
    BY <1>3
  <2>2. w[j] = "lf"
    BY <1>2, <2>1 DEF Spelled
  <2>. QED  BY <1>3, <2>1, <2>2, Zenon DEF e
<1>4. CASE e = <<"cr", "lf">>
  <2>1. /\ Len(e) = 2 /\ e[1] = "cr" /\ e[2] = "lf" /\ 1 \in 1 .. 2 /\ 2 \in 1 .. 2
        /\ j + 1 - 1 = j /\ j + 2 - 1 = j + 1
    BY <1>4
  <2>2. w[j] = "cr" /\ w[j + 1] = "lf"
    BY <1>2, <2>1 DEF Spelled
  <2>. QED  BY <1>4, <2>1, <2>2, Zenon DEF e
<1>. QED  BY <1>1, <1>3, <1>4

\* A step that reads the header
LEMMA HeaderKept ==
    ASSUME ReaderTyped, CleanInv, clean, NEW s \in HeaderStates, Get(s),
           rd'.state \in ReadingHeader \ {"done_cr"}, rd'.total = rd.total,
           msg'.args = msg.args, LinePlace', LineRead', FieldPlace'
    PROVE  CleanInv'
<1>1. /\ rd.state = s /\ in' = in /\ sent' = sent /\ s \in ReadingHeader
      /\ rd'.state # "failed"
  BY Taken DEF ReadingHeader, HeaderStates
<1>2. in' = Wire(sent') /\ rd'.total = 0 /\ msg'.args = <<>>
  BY <1>1 DEF CleanInv
<1>. QED  BY <1>1, <1>2 DEF CleanInv

LEMMA MinorReads ==
    ASSUME ReaderTyped, CleanInv, clean, LineMinor
    PROVE  CleanInv'
<1>. DEFINE H == HttpAt(sent)
            e == Len(sent.eol)
<1>1. /\ rd.state = "http_minor" /\ Get("http_minor") /\ pos' = pos + 1
      /\ in' = in /\ sent' = sent /\ ch = in[pos + 1] /\ pos \in Nat
  BY Taken DEF LineMinor, ch
<1>2. sent \in Requests /\ Spelled(in, HeaderOf(sent), 1)
  BY <1>1, SentLaid DEF ReadingHeader, HeaderStates
<1>3. /\ (pos = H + 4 /\ rd.i = 1) \/ (pos \in H + 5 .. H + 4 + e /\ rd.i = 11)
      /\ LineRead
  BY <1>1 DEF CleanInv, LinePlace
<1>4. /\ in[H + 5] = "1" /\ Spelled(in, sent.eol, H + 6) /\ H \in Nat
      /\ FieldAt(sent)[0] = H + 5 + e
  BY <1>2, HeaderLaid, Places
<1>5. rd \in RdType(AllStates)
  BY RdSteps
<1>6. \/ e = 1 /\ in[H + 6] = "lf"
      \/ e = 2 /\ in[H + 6] = "cr" /\ in[H + 7] = "lf"
  <2>. HIDE DEF H
  <2>1. H + 6 \in Int /\ H + 6 + 1 = H + 7
    BY <1>4
  <2>. QED  BY <1>2, <1>4, <2>1, EolSpelled
<1>. HIDE DEF H, e
<1>7. CASE pos = H + 4 /\ rd.i = 1
  <2>1. ch = "1" /\ pos' = H + 5
    BY <1>1, <1>4, <1>7
  <2>2. "1" \in Usual /\ "1" \in Digit /\ Value["1"] = 1
    BY TokenSets DEF Digit, Value
  <2>3. rd' = [rd EXCEPT !.i = 11] /\ Same
    BY <1>7, <2>1, <2>2 DEF LineMinor
  <2>4. /\ rd'.state = "http_minor" /\ rd'.i = 11 /\ rd'.total = rd.total /\ msg' = msg
    BY <1>1, <1>5, <2>3 DEF RdType, Same
  <2>5. pos' \in H + 5 .. H + 4 + e
    BY <1>4, <1>6, <2>1
  <2>6. LinePlace'
    BY <1>1, <2>4, <2>5 DEF LinePlace, BeforeHttp, BeforeUri, H, e
  <2>7. LineRead'
    BY <1>1, <1>3, <2>3, <2>4, ReadKept DEF ReadingHeader, HeaderStates
  <2>. QED  BY <1>1, <2>4, <2>6, <2>7, LineKept DEF BeforeFields
<1>8. CASE pos \in H + 5 .. H + 4 + e /\ rd.i = 11
  <2>0. "lf" \notin Usual /\ "cr" \notin Usual
    BY Apart DEF Usual, Digit, Control, Blank
  <2>1. \/ ch = "lf" /\ pos' = H + 5 + e
        \/ ch = "cr" /\ pos' \in H + 5 .. H + 4 + e
    BY <1>1, <1>4, <1>6, <1>8
  <2>2. CASE ch = "cr" /\ pos' \in H + 5 .. H + 4 + e
    <3>1. Stay
      BY <2>0, <2>2 DEF LineMinor
    <3>2. rd' = rd /\ msg' = msg /\ Same
      BY <3>1 DEF Stay, Same
    <3>3. LinePlace'
      BY <1>1, <1>8, <2>2, <3>2 DEF LinePlace, BeforeHttp, BeforeUri, H, e
    <3>4. LineRead'
      BY <1>1, <1>3, <3>2, ReadKept DEF ReadingHeader, HeaderStates
    <3>. QED  BY <1>1, <3>2, <3>3, <3>4, LineKept DEF BeforeFields
  <2>3. CASE ch = "lf" /\ pos' = H + 5 + e
    <3>1. /\ msg' = [msg EXCEPT !.version = rd.i] /\ Goto("h_start", <<>>) /\ UNCHANGED query
      BY <2>0, <2>3 DEF LineMinor
    <3>2. /\ rd'.state = "h_start" /\ rd'.total = rd.total
          /\ msg'.version = 11 /\ msg'.method = msg.method /\ msg'.target = msg.target
          /\ msg'.fields = msg.fields /\ msg'.args = msg.args
      BY <1>8, <3>1, RdSteps, MsgSteps, ArgsAlone
    <3>3. LinePlace'
      BY <3>2 DEF LinePlace, BeforeHttp, BeforeUri
    <3>4. LineRead'
      BY <1>1, <1>3, <3>1, <3>2
         DEF LineRead, PastMethod, PastTarget, BeforeFields, BeforeHttp, BeforeUri, ArgStates
    <3>5. StoredFirst(0)'
      <4>1. msg'.fields = <<>>
        BY <1>1, <1>3, <3>2 DEF LineRead, BeforeFields
      <4>. QED  BY <4>1 DEF StoredFirst
    <3>6. pos' = FieldAt(sent)[0] /\ Len(sent.fields) \in Nat
      BY <1>2, <1>4, <2>3, SentFields
    <3>7. 0 \in 0 .. Len(sent.fields)
      BY <3>6
    <3>8. FieldPlace'
      BY <1>1, <3>2, <3>5, <3>6, <3>7 DEF FieldPlace
    <3>. QED  BY <1>1, <3>2, <3>3, <3>4, <3>8, HeaderKept DEF ReadingHeader, HeaderStates
  <2>. QED  BY <2>1, <2>2, <2>3
<1>. QED  BY <1>3, <1>7, <1>8

LEMMA StoredSame ==
    ASSUME NEW k, StoredFirst(k), sent' = sent, msg'.fields = msg.fields
    PROVE  StoredFirst(k)'
BY DEF StoredFirst

LEMMA StoredNext ==
    ASSUME ReaderTyped, sent \in Requests, sent' = sent,
           NEW k \in 1 .. Len(sent.fields), StoredFirst(k - 1),
           rd.name = sent.fields[k].name, Store(Stored(sent.fields[k].value))
    PROVE  StoredFirst(k)'
<1>. DEFINE f == sent.fields
            names(i) == {f[l].name : l \in 1 .. i}
            v == Stored(f[k].value)
<1>1. /\ msg'.fields = [n \in DOMAIN msg.fields \cup {rd.name} |->
                           IF n = rd.name THEN v ELSE msg.fields[n]]
  <2>1. DOMAIN msg = {"method", "target", "version", "fields", "args"}
    BY DEF ReaderTyped, NoMsg
  <2>. QED  BY <2>1 DEF Store
<1>2. /\ msg.fields = [n \in names(k - 1) |-> msg.fields[n]]
      /\ \A l \in 1 .. k - 1 :
            (\A m \in l + 1 .. k - 1 : f[m].name # f[l].name)
                => msg.fields[f[l].name] = Stored(f[l].value)
  BY DEF StoredFirst
<1>3. 1 .. k = 1 .. k - 1 \cup {k} /\ k \in Nat
  BY SentFields
<1>4. names(k - 1) \cup {f[k].name} = names(k)
  BY <1>3
<1>5. DOMAIN msg.fields = names(k - 1)
  BY <1>2
<1>6. msg'.fields = [n \in names(k) |-> IF n = rd.name THEN v ELSE msg.fields[n]]
  BY <1>1, <1>4, <1>5
<1>7. ASSUME NEW l \in 1 .. k, \A m \in l + 1 .. k : f[m].name # f[l].name
      PROVE  msg'.fields[f[l].name] = Stored(f[l].value)
  <2>1. f[l].name \in names(k)
    OBVIOUS
  <2>2. msg'.fields[f[l].name] = IF f[l].name = rd.name THEN v ELSE msg.fields[f[l].name]
    BY <1>6, <2>1
  <2>3. CASE l = k
    BY <2>2, <2>3
  <2>4. CASE l # k
    <3>1. l \in 1 .. k - 1 /\ k \in l + 1 .. k /\ l + 1 .. k - 1 \subseteq l + 1 .. k
      BY <1>3, <2>4
    <3>2. f[k].name # f[l].name
      BY <1>7, <3>1
    <3>3. msg.fields[f[l].name] = Stored(f[l].value)
      BY <1>2, <1>7, <3>1
    <3>. QED  BY <2>2, <3>2, <3>3
  <2>. QED  BY <2>3, <2>4
<1>8. msg'.fields = [n \in names(k) |-> msg'.fields[n]]
  BY <1>6
<1>. QED  BY <1>7, <1>8 DEF StoredFirst

\* A field's name and value, of lengths x and y, lie from token a + 1 to token b of
\* the stream w, and the end of its line, of length e, behind them.
FieldLies(eol, w, name, value, a, b, x, y, e) ==
    /\ name \in Seq(NameChar) /\ name \in Seq(Token) /\ x = Len(name)
    /\ value \in Seq(Printed) /\ value \in Seq(Token) /\ y = Len(value)
    /\ x \in Nat \ {0} /\ x < MaxName /\ y \in Nat
    /\ y > 0 => value[1] # "sp"
    /\ a \in Nat /\ b = a + x + 2 + y + e
    /\ \A l \in 1 .. x : w[a + l] = name[l]
    /\ w[a + x + 1] = "colon" /\ w[a + x + 2] = "sp"
    /\ \A l \in 1 .. y : w[a + x + 2 + l] = value[l]
    /\ \/ e = 1 /\ w[a + x + y + 3] = "lf"
       \/ e = 2 /\ w[a + x + y + 3] = "cr" /\ w[a + x + y + 4] = "lf"
    /\ e = 2 => eol = <<"cr", "lf">>

LEMMA FieldFacts ==
    ASSUME NEW r \in Requests, NEW w, Spelled(w, HeaderOf(r), 1), NEW k \in 1 .. Len(r.fields)
    PROVE  FieldLies(r.eol, w, r.fields[k].name, r.fields[k].value, FieldAt(r)[k - 1], FieldAt(r)[k],
                     Len(r.fields[k].name), Len(r.fields[k].value), Len(r.eol))
<1>. DEFINE n == Len(r.fields)
            eol == r.eol
            name == r.fields[k].name
            value == r.fields[k].value
            a == FieldAt(r)[k - 1]
            b == FieldAt(r)[k]
            x == Len(name)
            y == Len(value)
            e == Len(eol)
<1>1. n \in Nat /\ k \in Nat /\ k - 1 \in 0 .. n /\ k \in 0 .. n
  BY SentFields
<1>2. /\ name \in Seq(NameChar) /\ value \in Seq(Printed)
      /\ name \in Seq(Token) /\ value \in Seq(Token)
      /\ x \in 1 .. MaxName - 1 /\ y \in Nat /\ (y > 0 => value[1] # "sp")
  <2>1. NameChar \subseteq Token /\ Printed \subseteq Token
    BY TokenSets
  <2>2. name \in Seq(NameChar) /\ value \in Seq(Printed)
    BY SentFields
  <2>3. name \in Seq(Token) /\ value \in Seq(Token)
    BY <2>1, <2>2, SeqMonotonic
  <2>4. x \in 1 .. MaxName - 1 /\ y \in Nat /\ (y > 0 => value[1] # "sp")
    BY SentFields
  <2>. QED  BY <2>2, <2>3, <2>4
<1>3. a \in Nat /\ b = a + x + 2 + y + e
  BY <1>1, Places
<1>4. /\ Spelled(w, name, a + 1) /\ w[a + x + 1] = "colon" /\ w[a + x + 2] = "sp"
      /\ Spelled(w, value, a + x + 3) /\ Spelled(w, eol, a + x + y + 3)
  BY FieldLaid
<1>. HIDE DEF n, eol, name, value, a, b, x, y, e
<1>5. x \in Nat \ {0} /\ x < MaxName
  BY <1>2, ReaderAssumption
<1>6. ASSUME NEW l \in 1 .. x PROVE w[a + l] = name[l]
  <2>1. a + 1 \in Int /\ a + 1 + l - 1 = a + l
    BY <1>3
  <2>. QED  BY <1>4, <2>1, SpelledAt DEF x
<1>7. ASSUME NEW l \in 1 .. y PROVE w[a + x + 2 + l] = value[l]
  <2>1. a + x + 3 \in Int /\ a + x + 3 + l - 1 = a + x + 2 + l
    BY <1>3, <1>5
  <2>. QED  BY <1>4, <2>1, SpelledAt DEF y
<1>8. /\ \/ e = 1 /\ w[a + x + y + 3] = "lf"
         \/ e = 2 /\ w[a + x + y + 3] = "cr" /\ w[a + x + y + 4] = "lf"
      /\ e = 2 => eol = <<"cr", "lf">>
  <2>. DEFINE j == a + x + y + 3
  <2>1. j \in Int /\ j + 1 = a + x + y + 4
    BY <1>2, <1>3, <1>5
  <2>2. Spelled(w, eol, j)
    BY <1>4
  <2>. HIDE DEF j
  <2>3. \/ eol = <<"lf">> /\ e = 1 /\ w[j] = "lf"
        \/ /\ eol = <<"cr", "lf">> /\ e = 2 /\ w[j] = "cr" /\ w[j + 1] = "lf"
    BY <2>1, <2>2, EolSpelled DEF e, eol
  <2>4. 1 # 2
    OBVIOUS
  <2>. QED  BY <2>1, <2>3, <2>4, Zenon DEF j
<1>9. x = Len(name) /\ y = Len(value)
  BY DEF x, y
<1>10. FieldLies(eol, w, name, value, a, b, x, y, e)
  BY <1>2, <1>3, <1>4, <1>5, <1>6, <1>7, <1>8, <1>9, Zenon DEF FieldLies
<1>. QED  BY <1>10 DEF eol, name, value, a, b, x, y, e

\* The loop of the fields reads with what the line has given.
LEMMA FieldsKept ==
    ASSUME ReaderTyped, CleanInv, clean,
           NEW s \in {"h_start", "name", "spaces_before_value", "value", "almost_done",
                     "h_almost_done"},
           Get(s),
           rd'.state \in {"h_start", "name", "spaces_before_value", "value", "almost_done",
                         "h_almost_done", "header"},
           rd'.total = rd.total,
           Same \/ (UNCHANGED query /\ \E v : Store(v)),
           FieldPlace'
    PROVE  CleanInv'
<1>1. rd.state = s /\ sent' = sent
  BY Taken
<1>2. /\ msg'.method = msg.method /\ msg'.target = msg.target /\ msg'.version = msg.version
      /\ msg'.args = msg.args /\ query' = query
  BY MsgSteps, ArgsAlone DEF Same
<1>3. LinePlace'
  BY DEF LinePlace, BeforeHttp, BeforeUri
<1>4. LineRead
  BY DEF CleanInv
<1>5. LineRead'
  BY <1>1, <1>2, <1>4
     DEF LineRead, PastMethod, PastTarget, BeforeFields, BeforeHttp, BeforeUri
<1>. QED  BY <1>2, <1>3, <1>5, HeaderKept DEF ReadingHeader, HeaderStates

LEMMA FieldStarts ==
    ASSUME ReaderTyped, CleanInv, clean, HeaderStart
    PROVE  CleanInv'
<1>. DEFINE n == Len(sent.fields)
            f == sent.fields
            A == FieldAt(sent)
            e == Len(sent.eol)
<1>1. /\ rd.state = "h_start" /\ Get("h_start") /\ pos' = pos + 1
      /\ in' = in /\ sent' = sent /\ ch = in[pos + 1] /\ pos \in Nat
  BY Taken DEF HeaderStart, ch
<1>2. sent \in Requests /\ Spelled(in, HeaderOf(sent), 1)
  BY <1>1, SentLaid DEF ReadingHeader, HeaderStates
<1>3. PICK k \in 0 .. n : StoredFirst(k) /\ pos = A[k]
  BY <1>1 DEF CleanInv, FieldPlace
<1>4. n \in Nat /\ Same /\ msg' = msg
  BY <1>2, SentFields DEF HeaderStart, Same
<1>5. StoredFirst(k)'
  BY <1>1, <1>3, <1>4, StoredSame
<1>6. CASE k # n
  <2>. DEFINE m == k + 1
              name == f[m].name
  <2>1. m \in 1 .. n /\ m - 1 = k
    BY <1>4, <1>6
  <2>. HIDE DEF m
  <2>. DEFINE value == f[m].value
              a == A[m - 1]
              b == A[m]
              x == Len(name)
              y == Len(value)
  <2>2. FieldLies(sent.eol, in, name, value, a, b, x, y, e)
    BY <1>2, <2>1, FieldFacts
  <2>3. ch = name[1] /\ ch \in NameChar /\ x \in Nat \ {0}
    <3>1. a = pos
      BY <1>3, <2>1
    <3>. HIDE DEF value, a, b, x, y, e, name
    <3>2. /\ name \in Seq(NameChar) /\ x \in Nat \ {0} /\ x = Len(name)
          /\ \A l \in 1 .. x : in[a + l] = name[l]
      BY <2>2 DEF FieldLies
    <3>3. 1 \in 1 .. x
      BY <3>2
    <3>4. in[a + 1] = name[1] /\ name[1] \in NameChar
      BY <3>2, <3>3, ElementOfSeq
    <3>. QED  BY <1>1, <3>1, <3>2, <3>4
  <2>4. Goto("name", <<ch>>)
    BY <2>3, Apart DEF HeaderStart, NameChar, Digit, Control, Blank
  <2>5. rd'.state = "name" /\ rd'.buf = <<ch>> /\ rd'.total = rd.total
    BY <2>4, RdSteps
  <2>6. Len(rd'.buf) = 1 /\ rd'.buf[1] = ch
    BY <2>5
  <2>7. Begins(rd'.buf, name) /\ Len(rd'.buf) > 0
    <3>. HIDE DEF name
    <3>. QED  BY <2>3, <2>6 DEF Begins
  <2>8. pos' = A[m - 1] + Len(rd'.buf)
    BY <1>1, <1>3, <2>1, <2>6
  <2>9. StoredFirst(m - 1)'
    BY <1>5, <2>1
  <2>10. FieldPlace'
    BY <1>1, <2>1, <2>5, <2>7, <2>8, <2>9 DEF FieldPlace
  <2>. QED  BY <1>1, <1>4, <2>5, <2>10, FieldsKept
<1>7. CASE k = n
  <2>1. /\ Spelled(in, sent.eol, A[n] + 1) /\ A[n] \in Nat
    <3>1. n \in 0 .. n
      BY <1>4
    <3>. QED  BY <1>2, <3>1, HeaderLaid, Places
  <2>2. \/ ch = "lf" /\ e = 1
        \/ ch = "cr" /\ e = 2 /\ sent.eol = <<"cr", "lf">>
    <3>. DEFINE j == pos + 1
    <3>1. j \in Int /\ Spelled(in, sent.eol, j) /\ ch = in[j]
      BY <1>1, <1>3, <1>7, <2>1
    <3>. HIDE DEF j
    <3>. QED  BY <1>2, <3>1, EolSpelled
  <2>3. ch \notin NameChar
    BY <2>2, Apart DEF NameChar, Digit, Control, Blank
  <2>4. CASE ch = "lf" /\ e = 1
    <3>1. Goto("header", <<>>)
      BY <2>3, <2>4 DEF HeaderStart, Blank
    <3>2. rd'.state = "header" /\ rd'.total = rd.total
      BY <3>1, RdSteps
    <3>3. pos' = A[n] + e
      BY <1>1, <1>3, <1>7, <2>4
    <3>4. FieldPlace'
      BY <1>1, <1>5, <1>7, <3>2, <3>3 DEF FieldPlace
    <3>. QED  BY <1>1, <1>4, <3>2, <3>4, FieldsKept
  <2>5. CASE ch = "cr" /\ e = 2 /\ sent.eol = <<"cr", "lf">>
    <3>1. Goto("h_almost_done", <<>>)
      BY <2>3, <2>5 DEF HeaderStart, Blank
    <3>2. rd'.state = "h_almost_done" /\ rd'.total = rd.total
      BY <3>1, RdSteps
    <3>3. pos' = A[n] + 1
      BY <1>1, <1>3, <1>7
    <3>4. sent'.eol = <<"cr", "lf">>
      BY <1>1, <2>5, Zenon
    <3>5. FieldPlace'
      BY <1>1, <1>5, <1>7, <3>2, <3>3, <3>4 DEF FieldPlace
    <3>. QED  BY <1>1, <1>4, <3>2, <3>5, FieldsKept
  <2>. QED  BY <2>2, <2>4, <2>5
<1>. QED  BY <1>6, <1>7

LEMMA NameReads ==
    ASSUME ReaderTyped, CleanInv, clean, HeaderName
    PROVE  CleanInv'
<1>. DEFINE n == Len(sent.fields)
            A == FieldAt(sent)
            b == rd.buf
            l == Len(b)
<1>1. /\ rd.state = "name" /\ Get("name") /\ pos' = pos + 1
      /\ in' = in /\ sent' = sent /\ ch = in[pos + 1] /\ pos \in Nat
      /\ b \in Seq(Token) /\ l \in Nat
  BY Taken, LenProperties DEF HeaderName, ch, ReaderTyped
<1>2. sent \in Requests /\ Spelled(in, HeaderOf(sent), 1)
  BY <1>1, SentLaid DEF ReadingHeader, HeaderStates
<1>3. PICK k \in 1 .. n : /\ StoredFirst(k - 1) /\ pos = A[k - 1] + l /\ l > 0
                         /\ Begins(b, sent.fields[k].name)
  BY <1>1 DEF CleanInv, FieldPlace
<1>. DEFINE a == A[k - 1]
            b1 == A[k]
            name == sent.fields[k].name
            value == sent.fields[k].value
            x == Len(name)
            y == Len(value)
            e == Len(sent.eol)
<1>. HIDE DEF l, b
<1>4. FieldLies(sent.eol, in, name, value, a, b1, x, y, e)
  BY <1>2, FieldFacts
<1>. HIDE DEF a, b1, name, value, x, y, e
<1>5. /\ name \in Seq(NameChar) /\ name \in Seq(Token) /\ x \in Nat \ {0} /\ x < MaxName
      /\ a \in Nat /\ (\A i \in 1 .. x : in[a + i] = name[i]) /\ in[a + x + 1] = "colon"
      /\ x = Len(name)
  BY <1>4 DEF FieldLies
<1>6. l <= x /\ l < MaxName /\ MaxName \in Nat /\ pos = a + l /\ l > 0
  <2>1. l <= x /\ pos = a + l /\ l > 0
    BY <1>3 DEF Begins, x, name, l, a
  <2>. QED  BY <1>1, <1>5, <2>1, ReaderAssumption
<1>7. CASE l < x
  <2>1. l + 1 \in 1 .. x /\ a + (l + 1) = pos + 1
    BY <1>1, <1>5, <1>6, <1>7
  <2>2. ch = name[l + 1] /\ name[l + 1] \in NameChar
    BY <1>1, <1>5, <2>1, ElementOfSeq DEF x
  <2>3. Keep("name") /\ Same
    <3>1. "colon" \notin NameChar
      BY Apart DEF NameChar, Digit
    <3>. QED  BY <1>6, <2>2, <3>1 DEF HeaderName, Keep, b, l
  <2>4. rd'.state = "name" /\ rd'.buf = Append(b, ch) /\ rd'.total = rd.total /\ msg' = msg
    BY <2>3, RdSteps DEF Keep, Same, b
  <2>5. Begins(rd'.buf, name) /\ Len(rd'.buf) = l + 1
    <3>1. b \in Seq(Token) /\ name \in Seq(Token) /\ l = Len(b) /\ l < Len(name)
      BY <1>1, <1>5, <1>7 DEF l
    <3>2. Begins(b, name)
      BY <1>3 DEF name
    <3>3. ch = name[Len(b) + 1]
      BY <2>2, <3>1
    <3>4. Begins(Append(b, ch), name) /\ Len(Append(b, ch)) = Len(b) + 1
      BY ONLY <3>1, <3>2, <3>3, BeginsNext
    <3>. QED  BY <2>4, <3>1, <3>4
  <2>6. pos' = a + Len(rd'.buf) /\ Len(rd'.buf) > 0
    BY <1>1, <1>5, <1>6, <2>5
  <2>7. StoredFirst(k - 1)'
    BY <1>1, <1>3, <2>4, StoredSame
  <2>8. FieldPlace'
    BY <1>1, <2>4, <2>5, <2>6, <2>7 DEF FieldPlace, a, name
  <2>. QED  BY <1>1, <2>3, <2>4, <2>8, FieldsKept
<1>8. CASE l = x
  <2>1. a + x + 1 = pos + 1 /\ pos' = a + x + 1
    BY <1>1, <1>5, <1>6, <1>8
  <2>2. ch = "colon"
    BY <1>1, <1>5, <2>1
  <2>3. b = name
    BY <1>1, <1>3, <1>5, <1>8, BeginsWhole DEF l, x, name
  <2>4. /\ rd' = [rd EXCEPT !.state = "spaces_before_value", !.name = rd.buf, !.buf = <<>>]
        /\ Same
    <3>1. "colon" \notin NameChar
      BY Apart DEF NameChar, Digit
    <3>. QED  BY <1>6, <2>2, <3>1 DEF HeaderName, b, l
  <2>5. /\ rd'.state = "spaces_before_value" /\ rd'.name = name /\ rd'.buf = <<>>
        /\ rd'.total = rd.total /\ msg' = msg
    <3>1. rd \in RdType(AllStates)
      BY RdSteps
    <3>. QED  BY <2>3, <2>4, <3>1 DEF RdType, Same, b
  <2>6. pos' \in a + x + 1 .. a + x + 2
    BY <1>5, <2>1
  <2>7. pos' \in a + Len(rd'.name) + 1 .. a + Len(rd'.name) + 2
    BY <2>5, <2>6, Zenon DEF x
  <2>8. StoredFirst(k - 1)'
    BY <1>1, <1>3, <2>5, StoredSame
  <2>9. FieldPlace'
    BY <1>1, <2>5, <2>7, <2>8 DEF FieldPlace, a, name
  <2>. QED  BY <1>1, <2>4, <2>5, <2>9, FieldsKept
<1>. QED  BY <1>1, <1>5, <1>6, <1>7, <1>8

\* The line of a field ends with what it has stored.
LEMMA FieldEnds ==
    ASSUME ReaderTyped, CleanInv, clean, NEW s \in {"spaces_before_value", "value"}, Get(s),
           NEW k \in 1 .. Len(sent.fields), StoredFirst(k - 1), rd.name = sent.fields[k].name,
           Store(Stored(sent.fields[k].value)), UNCHANGED query,
           \/ /\ Goto("almost_done", <<>>) /\ sent.eol = <<"cr", "lf">>
              /\ pos' = FieldAt(sent)[k] - 1
           \/ Goto("h_start", <<>>) /\ pos' = FieldAt(sent)[k]
    PROVE  CleanInv'
<1>1. rd.state = s /\ sent' = sent
  BY Taken
<1>2. sent \in Requests
  BY DEF ReaderTyped
<1>3. StoredFirst(k)'
  BY <1>1, <1>2, StoredNext
<1>4. k \in 0 .. Len(sent.fields)
  BY <1>2, SentFields
<1>5. CASE /\ Goto("almost_done", <<>>) /\ sent.eol = <<"cr", "lf">>
           /\ pos' = FieldAt(sent)[k] - 1
  <2>1. rd'.state = "almost_done" /\ rd'.total = rd.total
    BY <1>5, RdSteps
  <2>2. sent'.eol = <<"cr", "lf">>
    BY <1>1, <1>5, Zenon
  <2>3. FieldPlace'
    BY <1>1, <1>3, <1>5, <2>1, <2>2 DEF FieldPlace
  <2>. QED  BY <2>1, <2>3, FieldsKept
<1>6. CASE Goto("h_start", <<>>) /\ pos' = FieldAt(sent)[k]
  <2>1. rd'.state = "h_start" /\ rd'.total = rd.total
    BY <1>6, RdSteps
  <2>2. FieldPlace'
    BY <1>1, <1>3, <1>4, <1>6, <2>1 DEF FieldPlace
  <2>. QED  BY <2>1, <2>2, FieldsKept
<1>. QED  BY <1>5, <1>6

LEMMA ValueSpacesRead ==
    ASSUME ReaderTyped, CleanInv, clean, HeaderSpaces
    PROVE  CleanInv'
<1>. DEFINE n == Len(sent.fields)
            A == FieldAt(sent)
<1>1. /\ rd.state = "spaces_before_value" /\ Get("spaces_before_value") /\ pos' = pos + 1
      /\ in' = in /\ sent' = sent /\ ch = in[pos + 1] /\ pos \in Nat
  BY Taken DEF HeaderSpaces, ch
<1>2. sent \in Requests /\ Spelled(in, HeaderOf(sent), 1)
  BY <1>1, SentLaid DEF ReadingHeader, HeaderStates
<1>3. PICK k \in 1 .. n :
         /\ StoredFirst(k - 1) /\ rd.buf = <<>> /\ rd.name = sent.fields[k].name
         /\ pos \in A[k - 1] + Len(rd.name) + 1 .. A[k - 1] + Len(rd.name) + 2
  BY <1>1 DEF CleanInv, FieldPlace
<1>. DEFINE a == A[k - 1]
            b == A[k]
            name == sent.fields[k].name
            value == sent.fields[k].value
            x == Len(name)
            y == Len(value)
            e == Len(sent.eol)
<1>4. FieldLies(sent.eol, in, name, value, a, b, x, y, e)
  BY <1>2, FieldFacts
<1>5. pos \in a + x + 1 .. a + x + 2 /\ rd.name = name
  BY <1>3
<1>. HIDE DEF a, b, name, value, x, y, e
<1>6. /\ value \in Seq(Printed) /\ value \in Seq(Token) /\ y = Len(value) /\ x = Len(name)
      /\ x \in Nat /\ y \in Nat /\ (y > 0 => value[1] # "sp") /\ a \in Nat
      /\ b = a + x + 2 + y + e
      /\ in[a + x + 2] = "sp" /\ (\A l \in 1 .. y : in[a + x + 2 + l] = value[l])
  BY <1>4 DEF FieldLies
<1>7. /\ \/ e = 1 /\ in[a + x + y + 3] = "lf"
         \/ e = 2 /\ in[a + x + y + 3] = "cr" /\ in[a + x + y + 4] = "lf"
      /\ e = 2 => sent.eol = <<"cr", "lf">>
  BY <1>4 DEF FieldLies
<1>8. CASE pos = a + x + 1
  <2>1. ch = "sp" /\ pos' = a + x + 2
    BY <1>1, <1>6, <1>8
  <2>2. Stay
    BY <2>1 DEF HeaderSpaces, Blank
  <2>3. rd' = rd /\ msg' = msg /\ Same
    BY <2>2 DEF Stay, Same
  <2>4. StoredFirst(k - 1)'
    BY <1>1, <1>3, <2>3, StoredSame
  <2>5. pos' \in a + x + 1 .. a + x + 2
    BY <1>6, <2>1
  <2>6. pos' \in a + Len(rd'.name) + 1 .. a + Len(rd'.name) + 2
    BY <1>5, <1>6, <2>3, <2>5, Zenon
  <2>7. FieldPlace'
    BY <1>1, <1>3, <2>3, <2>4, <2>6 DEF FieldPlace, a
  <2>. QED  BY <1>1, <2>3, <2>7, FieldsKept
<1>9. CASE pos = a + x + 2 /\ y > 0
  <2>1. 1 \in 1 .. y /\ a + x + 2 + 1 = pos + 1
    BY <1>1, <1>6, <1>9
  <2>2. ch = value[1] /\ ch \in Printed /\ ch # "sp"
    BY <1>1, <1>6, <1>9, <2>1, ElementOfSeq
  <2>3. Keep("value")
    <3>1. ch \notin Blank
      BY <2>2, Apart DEF Printed, Usual, Digit, Control, Blank
    <3>. QED  BY <2>2, <3>1 DEF HeaderSpaces, Blank
  <2>4. rd'.state = "value" /\ rd'.buf = <<ch>> /\ rd'.name = name /\ rd'.total = rd.total
        /\ msg' = msg /\ Same
    <3>1. Append(rd.buf, ch) = <<ch>>
      BY <1>3
    <3>. QED  BY <1>5, <2>3, <3>1, RdSteps DEF Keep, Same
  <2>5. Len(rd'.buf) = 1 /\ rd'.buf[1] = ch
    BY <2>4
  <2>6. Begins(rd'.buf, value) /\ Len(rd'.buf) > 0
    BY <1>6, <1>9, <2>2, <2>5 DEF Begins
  <2>7. pos' = a + x + 2 + Len(rd'.buf)
    BY <1>1, <1>9, <2>5
  <2>8. pos' = a + Len(rd'.name) + 2 + Len(rd'.buf)
    BY <1>6, <2>4, <2>7, Zenon
  <2>9. StoredFirst(k - 1)'
    BY <1>1, <1>3, <2>4, StoredSame
  <2>10. FieldPlace'
    BY <1>1, <2>4, <2>6, <2>8, <2>9 DEF FieldPlace, a, name, value
  <2>. QED  BY <1>1, <2>4, <2>10, FieldsKept
<1>10. CASE pos = a + x + 2 /\ y = 0
  <2>1. pos + 1 = a + x + y + 3 /\ pos' = b + 1 - e
    BY <1>1, <1>6, <1>7, <1>10
  <2>2. \/ e = 1 /\ ch = "lf"
        \/ e = 2 /\ ch = "cr" /\ sent.eol = <<"cr", "lf">>
    BY <1>1, <1>7, <2>1, Zenon
  <2>3. Stored(value) = <<"nul">>
    <3>1. value = <<>>
      BY <1>6, <1>10, EmptySeq
    <3>. QED  BY <3>1 DEF Stored
  <2>4. b \in Int
    BY <1>6, <1>7
  <2>5. \/ /\ Goto("almost_done", <<>>) /\ sent.eol = <<"cr", "lf">> /\ pos' = b - 1
        \/ Goto("h_start", <<>>) /\ pos' = b
    <3>1. CASE e = 1 /\ ch = "lf"
      <4>1. Goto("h_start", <<>>)
        BY <3>1 DEF HeaderSpaces, Blank
      <4>2. pos' = b
        BY <2>1, <2>4, <3>1
      <4>. QED  BY <4>1, <4>2
    <3>2. CASE e = 2 /\ ch = "cr" /\ sent.eol = <<"cr", "lf">>
      <4>1. Goto("almost_done", <<>>)
        BY <3>2 DEF HeaderSpaces, Blank
      <4>2. pos' = b - 1
        BY <2>1, <2>4, <3>2
      <4>. QED  BY <3>2, <4>1, <4>2, Zenon
    <3>. QED  BY <2>2, <3>1, <3>2, Zenon
  <2>6. Store(Stored(value)) /\ UNCHANGED query
    <3>1. Store(<<"nul">>) /\ UNCHANGED query
      BY <2>2 DEF HeaderSpaces, Blank
    <3>. QED  BY <2>3, <3>1, Zenon
  <2>. QED  BY <1>1, <1>3, <2>5, <2>6, FieldEnds DEF value, b
<1>. QED  BY <1>5, <1>6, <1>8, <1>9, <1>10

LEMMA ValueReads ==
    ASSUME ReaderTyped, CleanInv, clean, HeaderValue
    PROVE  CleanInv'
<1>. DEFINE n == Len(sent.fields)
            A == FieldAt(sent)
            s == rd.buf
            l == Len(s)
<1>1. /\ rd.state = "value" /\ Get("value") /\ pos' = pos + 1
      /\ in' = in /\ sent' = sent /\ ch = in[pos + 1] /\ pos \in Nat
      /\ s \in Seq(Token) /\ l \in Nat
  BY Taken, LenProperties DEF HeaderValue, ch, ReaderTyped
<1>2. sent \in Requests /\ Spelled(in, HeaderOf(sent), 1)
  BY <1>1, SentLaid DEF ReadingHeader, HeaderStates
<1>3. PICK k \in 1 .. n :
         /\ StoredFirst(k - 1) /\ rd.name = sent.fields[k].name
         /\ pos = A[k - 1] + Len(rd.name) + 2 + l /\ l > 0 /\ Begins(s, sent.fields[k].value)
  BY <1>1 DEF CleanInv, FieldPlace
<1>. DEFINE a == A[k - 1]
            b == A[k]
            name == sent.fields[k].name
            value == sent.fields[k].value
            x == Len(name)
            y == Len(value)
            e == Len(sent.eol)
<1>. HIDE DEF s, l
<1>4. FieldLies(sent.eol, in, name, value, a, b, x, y, e)
  BY <1>2, FieldFacts
<1>5. pos = a + x + 2 + l /\ rd.name = name /\ l > 0 /\ Begins(s, value)
  BY <1>3
<1>. HIDE DEF a, b, name, value, x, y, e
<1>6. /\ value \in Seq(Printed) /\ value \in Seq(Token) /\ y = Len(value) /\ x = Len(name)
      /\ x \in Nat /\ y \in Nat /\ a \in Nat /\ b = a + x + 2 + y + e
      /\ \A i \in 1 .. y : in[a + x + 2 + i] = value[i]
  BY <1>4 DEF FieldLies
<1>7. /\ \/ e = 1 /\ in[a + x + y + 3] = "lf"
         \/ e = 2 /\ in[a + x + y + 3] = "cr" /\ in[a + x + y + 4] = "lf"
      /\ e = 2 => sent.eol = <<"cr", "lf">>
  BY <1>4 DEF FieldLies
<1>8. l <= y
  BY <1>5, <1>6 DEF Begins, l
<1>9. CASE l < y
  <2>1. l + 1 \in 1 .. y /\ a + x + 2 + (l + 1) = pos + 1
    BY <1>1, <1>5, <1>6, <1>9
  <2>2. ch = value[l + 1] /\ ch \in Printed
    BY <1>1, <1>6, <2>1, ElementOfSeq
  <2>3. Keep("value")
    <3>1. ch \notin Control
      BY <2>2, Apart DEF Printed, Usual, Digit, Control, Blank
    <3>. QED  BY <3>1 DEF HeaderValue, Control, Blank
  <2>4. rd'.state = "value" /\ rd'.buf = Append(s, ch) /\ rd'.name = name /\ rd'.total = rd.total
        /\ msg' = msg /\ Same
    BY <1>5, <2>3, RdSteps DEF Keep, Same, s
  <2>5. Begins(rd'.buf, value) /\ Len(rd'.buf) = l + 1
    <3>1. /\ s \in Seq(Token) /\ value \in Seq(Token) /\ l = Len(s) /\ l < Len(value)
          /\ Begins(s, value)
      BY <1>1, <1>5, <1>6, <1>9 DEF l
    <3>2. ch = value[Len(s) + 1]
      BY <2>2, <3>1
    <3>3. Begins(Append(s, ch), value) /\ Len(Append(s, ch)) = Len(s) + 1
      BY ONLY <3>1, <3>2, BeginsNext
    <3>. QED  BY <2>4, <3>1, <3>3
  <2>6. pos' = a + x + 2 + Len(rd'.buf) /\ Len(rd'.buf) > 0
    BY <1>1, <1>5, <1>6, <2>5
  <2>7. pos' = a + Len(rd'.name) + 2 + Len(rd'.buf)
    BY <1>6, <2>4, <2>6, Zenon
  <2>8. StoredFirst(k - 1)'
    BY <1>1, <1>3, <2>4, StoredSame
  <2>9. FieldPlace'
    BY <1>1, <2>4, <2>5, <2>6, <2>7, <2>8 DEF FieldPlace, a, name, value
  <2>. QED  BY <1>1, <2>4, <2>9, FieldsKept
<1>10. CASE l = y
  <2>1. pos + 1 = a + x + y + 3 /\ pos' = b + 1 - e /\ b \in Int
    BY <1>1, <1>5, <1>6, <1>7, <1>10
  <2>2. \/ e = 1 /\ ch = "lf"
        \/ e = 2 /\ ch = "cr" /\ sent.eol = <<"cr", "lf">>
    BY <1>1, <1>7, <2>1, Zenon
  <2>3. s = value
    BY <1>1, <1>5, <1>6, <1>10, BeginsWhole DEF l
  <2>4. CString(s) = Stored(value)
    <3>1. value # <<>> /\ 1 \in 1 .. y
      BY <1>5, <1>6, <1>10, EmptySeq
    <3>2. value[1] \in Printed
      BY <1>6, <3>1, ElementOfSeq
    <3>3. Head(value) # "nul"
      BY <1>6, <3>1, <3>2, HeadTailProperties, Apart DEF Printed, Usual, Digit, Control, Blank
    <3>. QED  BY <2>3, <3>1, <3>3 DEF CString, Stored
  <2>5. \/ /\ Goto("almost_done", <<>>) /\ sent.eol = <<"cr", "lf">> /\ pos' = b - 1
        \/ Goto("h_start", <<>>) /\ pos' = b
    <3>1. CASE e = 1 /\ ch = "lf"
      <4>1. Goto("h_start", <<>>)
        BY <3>1 DEF HeaderValue, Control, Blank
      <4>2. pos' = b
        BY <2>1, <3>1
      <4>. QED  BY <4>1, <4>2
    <3>2. CASE e = 2 /\ ch = "cr" /\ sent.eol = <<"cr", "lf">>
      <4>1. Goto("almost_done", <<>>)
        BY <3>2 DEF HeaderValue, Control, Blank
      <4>2. pos' = b - 1
        BY <2>1, <3>2
      <4>. QED  BY <3>2, <4>1, <4>2, Zenon
    <3>. QED  BY <2>2, <3>1, <3>2, Zenon
  <2>6. Store(Stored(value)) /\ UNCHANGED query
    <3>1. Store(CString(s)) /\ UNCHANGED query
      BY <2>2 DEF HeaderValue, Control, Blank, s
    <3>. QED  BY <2>4, <3>1, Zenon
  <2>. QED  BY <1>1, <1>3, <2>5, <2>6, FieldEnds DEF value, b
<1>. QED  BY <1>1, <1>6, <1>8, <1>9, <1>10

LEMMA AlmostReads ==
    ASSUME ReaderTyped, CleanInv, clean, HeaderAlmost
    PROVE  CleanInv'
<1>. DEFINE n == Len(sent.fields)
            A == FieldAt(sent)
<1>1. rd.state # "done_cr"
  BY DEF CleanInv
<1>2. rd.state = "almost_done" /\ Get("almost_done")
  BY <1>1 DEF HeaderAlmost, Get
<1>3. /\ pos' = pos + 1
      /\ in' = in /\ sent' = sent /\ ch = in[pos + 1] /\ pos \in Nat
  BY <1>2, Taken DEF ch
<1>4. sent \in Requests /\ Spelled(in, HeaderOf(sent), 1)
  BY <1>2, SentLaid DEF ReadingHeader, HeaderStates
<1>5. PICK k \in 1 .. n : StoredFirst(k) /\ pos = A[k] - 1 /\ sent.eol = <<"cr", "lf">>
  BY <1>2 DEF CleanInv, FieldPlace
<1>6. Len(sent.eol) = 2
  BY <1>5
<1>. DEFINE a == A[k - 1]
            b == A[k]
            name == sent.fields[k].name
            value == sent.fields[k].value
            x == Len(name)
            y == Len(value)
            e == Len(sent.eol)
<1>7. FieldLies(sent.eol, in, name, value, a, b, x, y, e)
  BY <1>4, FieldFacts
<1>8. k \in 0 .. n
  BY <1>4, SentFields
<1>. HIDE DEF a, b, name, value, x, y, e
<1>9. ch = "lf" /\ pos' = b
  <2>1. /\ x \in Nat /\ y \in Nat /\ a \in Nat /\ b = a + x + 2 + y + e
        /\ (e = 1 \/ in[a + x + y + 4] = "lf")
    BY <1>7 DEF FieldLies
  <2>2. e = 2 /\ pos = b - 1
    BY <1>5, <1>6, Zenon DEF e, b
  <2>3. a + x + y + 4 = pos + 1 /\ pos + 1 = b /\ e # 1
    BY <2>1, <2>2
  <2>. QED  BY <1>3, <2>1, <2>3
<1>10. Goto("h_start", <<>>) /\ Same
  BY <1>2, <1>9 DEF HeaderAlmost, Get, Blank
<1>11. rd'.state = "h_start" /\ rd'.total = rd.total /\ msg' = msg
  BY <1>10, RdSteps DEF Same
<1>12. StoredFirst(k)'
  BY <1>3, <1>5, <1>11, StoredSame
<1>13. FieldPlace'
  BY <1>3, <1>8, <1>9, <1>11, <1>12 DEF FieldPlace, b
<1>. QED  BY <1>2, <1>10, <1>11, <1>13, FieldsKept

LEMMA HeaderEnds ==
    ASSUME ReaderTyped, CleanInv, clean, HeaderEnd
    PROVE  CleanInv'
<1>. DEFINE n == Len(sent.fields)
            b == FieldAt(sent)[n]
            e == Len(sent.eol)
<1>1. /\ rd.state = "h_almost_done" /\ Get("h_almost_done") /\ pos' = pos + 1
      /\ in' = in /\ sent' = sent /\ ch = in[pos + 1] /\ pos \in Nat
  BY Taken DEF HeaderEnd, ch
<1>2. sent \in Requests /\ Spelled(in, HeaderOf(sent), 1)
  BY <1>1, SentLaid DEF ReadingHeader, HeaderStates
<1>3. StoredFirst(n) /\ pos = b + 1 /\ sent.eol = <<"cr", "lf">>
  BY <1>1 DEF CleanInv, FieldPlace
<1>4. e = 2
  BY <1>3
<1>5. Spelled(in, sent.eol, b + 1) /\ b \in Nat
  <2>1. n \in 0 .. n
    BY <1>2, SentFields
  <2>. QED  BY <1>2, <2>1, HeaderLaid, Places
<1>. HIDE DEF n, b, e
<1>6. in[b + 1 + 1] = "lf"
  <2>. DEFINE j == b + 1
  <2>1. j \in Int /\ Spelled(in, sent.eol, j)
    BY <1>5
  <2>. HIDE DEF j
  <2>2. e = 1 \/ in[j + 1] = "lf"
    BY <1>2, <2>1, EolSpelled DEF e
  <2>. QED  BY <1>4, <2>2 DEF j
<1>7. ch = "lf" /\ pos' = b + e
  BY <1>1, <1>3, <1>4, <1>5, <1>6
<1>8. Goto("header", <<>>) /\ Same
  BY <1>7 DEF HeaderEnd
<1>9. rd'.state = "header" /\ rd'.total = rd.total /\ msg' = msg
  BY <1>8, RdSteps DEF Same
<1>10. StoredFirst(n)'
  BY <1>1, <1>3, <1>9 DEF StoredFirst, n
<1>11. FieldPlace'
  BY <1>1, <1>7, <1>9, <1>10 DEF FieldPlace, n, b, e
<1>. QED  BY <1>1, <1>8, <1>9, <1>11, FieldsKept

\* What is read is left as it is when the header has ended, or is given up.
LEMMA LaterKept ==
    ASSUME ReaderTyped, CleanInv, clean, sent' = sent, clean' = clean,
           rd'.state = "cut" \/ (rd.state \in PastHeader /\ rd'.state \in ArgStates \cup {"done"}),
           msg'.method = msg.method, msg'.target = msg.target, msg'.version = msg.version,
           query' = query
    PROVE  CleanInv'
<1>1. LineRead
  BY DEF CleanInv
<1>2. /\ rd'.state \notin {"failed", "done_cr"} /\ rd'.state \notin ReadingHeader
  BY DEF ReadingHeader, HeaderStates, ArgStates
<1>3. LinePlace' /\ FieldPlace'
  <2>1. rd'.state \in {"cut", "a_name", "a_value", "a_almost_done", "done"}
    BY DEF ArgStates
  <2>. QED  BY <2>1 DEF LinePlace, FieldPlace, BeforeHttp, BeforeUri
<1>4. LineRead'
  BY <1>1 DEF LineRead, PastHeader, PastMethod, PastTarget, BeforeFields, BeforeHttp,
              BeforeUri, ArgStates
<1>. QED  BY <1>2, <1>3, <1>4 DEF CleanInv

LEMMA LaterReads ==
    ASSUME ReaderTyped, CleanInv, clean,
           Eof \/ BodyBegin \/ ArgName \/ ArgValue \/ ArgAlmost \/ ArgEnd
    PROVE  CleanInv'
<1>1. CASE Eof
  <2>1. rd'.state = "cut"
    BY <1>1, RdSteps DEF Eof
  <2>. QED  BY <1>1, <2>1, LaterKept DEF Eof
<1>2. CASE BodyBegin
  <2>1. rd.state = "header" /\ rd'.state \in {"done", "a_name"}
    BY <1>2, RdSteps DEF BodyBegin
  <2>. QED  BY <1>2, <2>1, LaterKept DEF BodyBegin, PastHeader, ArgStates
<1>3. CASE ArgEnd
  <2>1. rd.state \in ArgStates /\ rd'.state = "done"
    BY <1>3, RdSteps DEF ArgEnd, ArgStates
  <2>. QED  BY <1>3, <2>1, LaterKept DEF ArgEnd, PastHeader
<1>4. CASE ArgName \/ ArgValue \/ ArgAlmost
  <2>1. \E s \in ArgStates : Get(s)
    BY <1>4 DEF ArgName, ArgValue, ArgAlmost, GetArg, ArgStates
  <2>2. rd.state \in ArgStates /\ sent' = sent /\ clean' = clean
    BY <2>1, Taken
  <2>3. rd \in RdType(AllStates)
    BY RdSteps
  <2>4. \A s, b : Arg(s, b) => rd'.state = s
    BY <2>3 DEF Arg, RdType
  <2>5. rd'.state \in ArgStates \cup {"done"}
    <3>1. CASE ArgName
      BY <2>3, <2>4, <3>1 DEF ArgName, ArgStates, RdType
    <3>2. CASE ArgValue
      BY <2>4, <3>2 DEF ArgValue, ArgStates, Printed
    <3>3. CASE ArgAlmost
      BY <2>4, <3>3 DEF ArgAlmost, ArgStates
    <3>. QED  BY <1>4, <3>1, <3>2, <3>3
  <2>6. UNCHANGED msg \/ \E k, v : Push(k, v)
    BY <1>4 DEF ArgName, ArgValue, ArgAlmost, Same
  <2>7. query' = query
    BY <1>4 DEF ArgName, ArgValue, ArgAlmost, Same
  <2>8. msg'.method = msg.method /\ msg'.target = msg.target /\ msg'.version = msg.version
    BY <2>6, MsgSteps
  <2>. QED  BY <2>2, <2>5, <2>7, <2>8, LaterKept DEF PastHeader
<1>. QED  BY <1>1, <1>2, <1>3, <1>4

LEMMA CleanStep == ReaderTyped /\ CleanInv /\ [ReaderNext]_rvars => CleanInv'
<1> SUFFICES ASSUME ReaderTyped, CleanInv, [ReaderNext]_rvars PROVE CleanInv'
  OBVIOUS
<1>1. CASE UNCHANGED rvars
  <2>1. /\ sent' = sent /\ clean' = clean /\ in' = in /\ pos' = pos /\ rd' = rd
        /\ msg' = msg /\ query' = query
    BY <1>1 DEF rvars
  <2>2. LinePlace => LinePlace'
    BY <2>1 DEF LinePlace
  <2>3. LineRead => LineRead'
    BY <2>1 DEF LineRead
  <2>4. \A k : StoredFirst(k) => StoredFirst(k)'
    BY <2>1 DEF StoredFirst
  <2>5. FieldPlace => FieldPlace'
    BY <2>1, <2>4 DEF FieldPlace
  <2>. QED  BY <2>1, <2>2, <2>3, <2>5 DEF CleanInv
<1>2. CASE ReaderNext /\ ~clean
  <2>1. clean' = clean
    BY <1>2 DEF ReaderNext, LineStart, LineMethod, LineSpaces, LineUri, LineParams, LineHttp,
         LineMajor, LineMinor, HeaderStart, HeaderName, HeaderSpaces, HeaderValue,
         HeaderAlmost, HeaderEnd, Eof, BodyBegin, ArgName, ArgValue, ArgAlmost, ArgEnd, GetArg, Get
  <2>. QED  BY <1>2, <2>1 DEF CleanInv
<1>3. CASE ReaderNext /\ clean
  BY <1>3, StartReads, MethodReads, SpacesRead, UriReads, ParamsRead, HttpReads, MajorReads,
     MinorReads, FieldStarts, NameReads, ValueSpacesRead, ValueReads, AlmostReads, HeaderEnds,
     LaterReads DEF ReaderNext
<1>. QED  BY <1>1, <1>2, <1>3

LEMMA CleanInit == ReaderInit => CleanInv
<1> SUFFICES ASSUME ReaderInit, clean PROVE CleanInv
  BY DEF CleanInv
<1>1. /\ sent \in Requests /\ in = Wire(sent) /\ pos = 0 /\ rd.state = "start"
      /\ rd.buf = <<>> /\ rd.i = 0 /\ rd.total = 0
      /\ msg.fields = <<>> /\ msg.args = <<>> /\ query = <<>>
  BY DEF ReaderInit, NoMsg
<1>2. Len(sent.lead) \in Nat
  BY <1>1, RequestTyped
<1>3. LinePlace
  BY <1>1, <1>2 DEF LinePlace
<1>4. LineRead
  BY <1>1 DEF LineRead, PastMethod, PastTarget, BeforeFields, BeforeHttp, BeforeUri, ArgStates
<1>5. FieldPlace
  BY <1>1 DEF FieldPlace
<1>. QED  BY <1>1, <1>3, <1>4, <1>5 DEF CleanInv

LEMMA LeastNat ==
    ASSUME NEW T, T \subseteq Nat, T # {}
    PROVE  \E k \in T : \A m \in T : k <= m
<1>. DEFINE R == OpToRel(<, Nat)
<1>1. IsWellFoundedOn(R, Nat)
  BY NatLessThanWellFounded
<1>2. R = {ss \in Nat \X Nat : ss[1] < ss[2]}
  BY DEF OpToRel
<1>. HIDE DEF R
<1>3. PICK k \in T : \A m \in T : ~(<<m, k>> \in R)
  BY <1>1, WFMin
<1>4. ASSUME NEW m \in T PROVE k <= m
  <2>1. m \in Nat /\ k \in Nat
    OBVIOUS
  <2>2. ASSUME m < k PROVE FALSE
    BY <1>2, <1>3, <2>1, <2>2
  <2>. QED  BY <2>1, <2>2
<1>. QED  BY <1>4

\* Among the fields of a name there is a last one.
LEMMA LastExists ==
    ASSUME NEW n \in Nat, NEW f, NEW l \in 1 .. n
    PROVE  \E k \in 1 .. n : f[k] = f[l] /\ \A m \in 1 .. n : f[m] = f[l] => m <= k
<1>. DEFINE S == {k \in 1 .. n : f[k] = f[l]}
            T == {n - k : k \in S}
<1>1. T \subseteq Nat /\ n - l \in T
  OBVIOUS
<1>. HIDE DEF T
<1>2. PICK d \in T : \A m \in T : d <= m
  BY <1>1, LeastNat
<1>3. PICK k \in S : d = n - k
  BY DEF T
<1>4. ASSUME NEW m \in 1 .. n, f[m] = f[l] PROVE m <= k
  <2>1. n - m \in T
    BY <1>4 DEF T
  <2>. QED  BY <1>2, <1>3, <2>1
<1>. QED  BY <1>3, <1>4

LEMMA AllStored ==
    ASSUME ReaderTyped, StoredFirst(Len(sent.fields))
    PROVE  msg.fields = [n \in {sent.fields[k].name : k \in DOMAIN sent.fields} |->
                            LastOf(sent.fields, n)]
<1>. DEFINE f == sent.fields
            N == Len(f)
            names == {f[k].name : k \in DOMAIN f}
<1>1. N \in Nat /\ DOMAIN f = 1 .. N
  BY SentFields DEF ReaderTyped
<1>2. /\ msg.fields = [n \in names |-> msg.fields[n]]
      /\ \A l \in 1 .. N : (\A m \in l + 1 .. N : f[m].name # f[l].name)
              => msg.fields[f[l].name] = Stored(f[l].value)
  BY <1>1 DEF StoredFirst
<1>. HIDE DEF f, N
<1>3. ASSUME NEW n \in names PROVE msg.fields[n] = LastOf(f, n)
  <2>. DEFINE P(k) == k \in DOMAIN f /\ f[k].name = n /\ \A l \in DOMAIN f : f[l].name = n => l <= k
              g == [k \in 1 .. N |-> f[k].name]
  <2>1. PICK l \in 1 .. N : f[l].name = n
    BY <1>1
  <2>. HIDE DEF g
  <2>2. \E k \in 1 .. N : g[k] = g[l] /\ \A m \in 1 .. N : g[m] = g[l] => m <= k
    <3>1. N \in Nat /\ l \in 1 .. N
      BY <1>1
    <3>. QED  BY ONLY <3>1, LastExists
  <2>3. \A m \in 1 .. N : g[m] = f[m].name
    BY DEF g
  <2>4. PICK k \in 1 .. N : /\ f[k].name = f[l].name
                           /\ \A m \in 1 .. N : f[m].name = f[l].name => m <= k
    BY <2>1, <2>2, <2>3
  <2>5. P(k)
    BY <1>1, <2>1, <2>4
  <2>6. \A i : P(i) => i = k
    <3>1. ASSUME NEW i, P(i) PROVE i = k
      <4>1. i \in 1 .. N /\ i <= k /\ k <= i
        BY <1>1, <2>5, <3>1
      <4>. QED  BY <4>1
    <3>. QED  BY <3>1
  <2>7. LastOf(f, n) = Stored(f[k].value)
    <3>. DEFINE c == CHOOSE i \in DOMAIN f :
                        f[i].name = n /\ \A m \in DOMAIN f : f[m].name = n => m <= i
    <3>1. c = CHOOSE i : P(i)
      OBVIOUS
    <3>. HIDE DEF P
    <3>2. (CHOOSE i : P(i)) = k
      BY <2>5, <2>6
    <3>3. c = k
      BY <3>1, <3>2
    <3>4. LastOf(f, n) = Stored(f[c].value)
      BY Zenon DEF LastOf, Stored
    <3>. QED  BY <3>3, <3>4, Zenon
  <2>8. \A m \in k + 1 .. N : f[m].name # f[k].name
    BY <1>1, <2>1, <2>4
  <2>9. f[k].name = n
    BY <2>5
  <2>. QED  BY <1>2, <2>7, <2>8, <2>9
<1>. QED  BY <1>2, <1>3 DEF f

LEMMA CleanIsRead == ReaderTyped /\ CleanInv => HeaderIsRead
<1> SUFFICES ASSUME ReaderTyped, CleanInv, clean PROVE HeaderIsRead
  BY DEF HeaderIsRead
<1>1. rd.state # "failed"
  BY DEF CleanInv
<1>2. ASSUME rd.state = "header"
      PROVE  /\ msg.method = sent.method /\ msg.target = sent.path /\ msg.version = 11
             /\ IF sent.inquery THEN IsPrefix(Joined(sent.args, "amp"), query) ELSE query = <<>>
             /\ msg.fields = [n \in {sent.fields[k].name : k \in DOMAIN sent.fields} |->
                                 LastOf(sent.fields, n)]
             /\ pos = Len(HeaderOf(sent))
  <2>1. sent \in Requests
    BY DEF ReaderTyped
  <2>2. /\ msg.method = sent.method /\ msg.target = sent.path /\ msg.version = 11
        /\ sent.inquery => query = Append(Joined(sent.args, "amp"), "sp")
        /\ ~sent.inquery => query = <<>>
    BY <1>2 DEF CleanInv, LineRead, PastMethod, PastTarget, BeforeFields, BeforeHttp, BeforeUri
  <2>3. /\ StoredFirst(Len(sent.fields))
        /\ pos = FieldAt(sent)[Len(sent.fields)] + Len(sent.eol)
    BY <1>2 DEF CleanInv, FieldPlace
  <2>4. IsPrefix(Joined(sent.args, "amp"), Append(Joined(sent.args, "amp"), "sp"))
    <3>. DEFINE j == Joined(sent.args, "amp")
                q == Append(j, "sp")
    <3>1. j \in Seq(Sendable) /\ "sp" \in Sendable
      BY <2>1, PartsTyped, TokenSets
    <3>. HIDE DEF j
    <3>2. /\ q \in Seq(Sendable) /\ Len(q) = Len(j) + 1 /\ Len(j) \in Nat
          /\ \A i \in 1 .. Len(j) : q[i] = j[i]
      BY <3>1, AppendProperties, LenProperties
    <3>. HIDE DEF q
    <3>3. SubSeq(j, 1, Len(j)) = SubSeq(q, 1, Len(j))
      <4>1. SubSeq(j, 1, Len(j)) = [i \in 1 .. Len(j) |-> j[i]]
        BY <3>1, <3>2
      <4>2. SubSeq(q, 1, Len(j)) = [i \in 1 .. Len(j) |-> q[i]]
        BY <3>2
      <4>. QED  BY <3>2, <4>1, <4>2
    <3>4. IsPrefix(j, q)
      BY <3>2, <3>3 DEF IsPrefix
    <3>. QED  BY <3>4 DEF j, q
  <2>5. IF sent.inquery THEN IsPrefix(Joined(sent.args, "amp"), query) ELSE query = <<>>
    BY <2>2, <2>4, Zenon
  <2>6. pos = Len(HeaderOf(sent))
    BY <2>1, <2>3, HeaderLaid
  <2>. QED  BY <2>2, <2>3, <2>5, <2>6, AllStored
<1>. QED  BY <1>1, <1>2 DEF HeaderIsRead

\* What has been stored of a header that no token of was replaced is what the
\* client said: the method, the target, the query and, once the blank line is
\* read, every field by the last value sent under its name
\* (src/src/http/parser.hpp, src/src/http/message.hpp).
THEOREM HeaderRead == ReaderSpec => []HeaderIsRead
<1>1. ReaderInit => ReaderTyped /\ CleanInv
  BY TypedInit, CleanInit
<1>2. ReaderTyped /\ CleanInv /\ [ReaderNext]_rvars => (ReaderTyped /\ CleanInv)'
  BY TypedStep, CleanStep
<1>3. ReaderTyped /\ CleanInv => HeaderIsRead
  BY CleanIsRead
<1>. QED  BY <1>1, <1>2, <1>3, PTL DEF ReaderSpec

-----------------------------------------------------------------------------
(* The arguments of a request that no token of was replaced                 *)

\* Where its arguments are read from, the token between two, how many are in the
\* first line, the tokens before argument k + 1, and those before its key
Base(r) == IF r.inquery THEN 0 ELSE Len(HeaderOf(r))
Between(r) == IF r.inquery THEN "amp" ELSE r.sep
InLine(r) == IF r.inquery \/ r.sep = "amp" \/ r.args = <<>> THEN Len(r.args) ELSE 1
ArgAt(r) == [k \in 0 .. Len(r.args) |-> Base(r) + Len(Flat(Parts(r.args, Between(r)))[k])]
KeyAt(r, k) == ArgAt(r)[k] + (IF k = 0 THEN 0 ELSE 1)

\* The methods whose arguments are read (host::isDynamic)
Read(r) == r.method \in {"GET", "POST"}

\* w is the stream of the argument reader.
Carries(r, w) == w = IF r.inquery THEN Append(Joined(r.args, "amp"), "sp") ELSE Wire(r)

Argument == [key : Seq(Token), value : Seq(Token)]

\* The invariant of the arguments: their types, the stream they are read from,
\* and how many are taken.
ArgsTyped == msg.args \in Seq(Argument)

ArgStream ==
    clean /\ rd.state \in ArgStates =>
        /\ Read(sent) /\ rd.total = pos - Base(sent) /\ pos >= Base(sent)
        /\ Carries(sent, in) /\ (sent.inquery => query # <<>>)

\* c arguments are taken, and the next is being read.
Reading(c) ==
    LET arg == sent.args[c + 1] IN
    /\ Len(msg.args) = c /\ Begins(msg.args, sent.args) /\ Cardinality(Ends) = c
    /\ rd.state # "a_almost_done"
    /\ rd.state = "a_name" => pos = KeyAt(sent, c) + Len(rd.buf) /\ Begins(rd.buf, arg.key)
    /\ rd.state = "a_value" =>
          /\ rd.name = arg.key /\ pos = KeyAt(sent, c) + Len(rd.name) + 1 + Len(rd.buf)
          /\ Begins(rd.buf, arg.value) /\ in[pos] # "cr"
    /\ rd.state = "done" => ~(sent.inquery /\ Read(sent) /\ rd.total < MaxTrunk)

\* All of the first line are taken.
LineTaken ==
    LET n == InLine(sent) IN
    /\ Len(msg.args) >= n /\ \A i \in 1 .. n : msg.args[i] = sent.args[i]
    /\ Cardinality(Ends) >= n
    /\ sent.inquery =>
          /\ Len(msg.args) = n
          /\ rd.state = "done" \/ (n = 0 /\ rd.state = "a_name" /\ pos = 0)

ArgPlace ==
    clean /\ rd.state \in ArgStates \cup {"done"} =>
        LineTaken \/ \E c \in 0 .. InLine(sent) - 1 : Reading(c)

ArgInv == ArgsTyped /\ ArgStream /\ ArgPlace

\* The next token ends an argument.
IsEnd == \/ ch \in {"amp", "sp", "cr"}
         \/ ch = "lf" /\ (rd.total = 0 \/ in[pos] # "cr")

LEMMA EndsFinite ==
    ASSUME ReaderTyped
    PROVE  IsFiniteSet(Ends) /\ Cardinality(Ends) \in Nat
<1>. DEFINE a == pos - rd.total + 1
<1>1. pos \in Int /\ rd.total \in Int
  BY DEF ReaderTyped
<1>2. a \in Int
  BY <1>1
<1>3. Ends \subseteq a .. pos
  BY DEF Ends
<1>. HIDE DEF a
<1>4. IsFiniteSet(a .. pos)
  BY <1>1, <1>2, FS_Interval
<1>5. IsFiniteSet(Ends)
  BY <1>3, <1>4, FS_Subset
<1>. QED  BY <1>5, FS_CardinalityType

LEMMA EndsNone ==
    ASSUME ReaderTyped, rd.total = 0
    PROVE  Cardinality(Ends) = 0
<1>1. pos \in Int
  BY DEF ReaderTyped
<1>2. Ends = {}
  BY <1>1 DEF Ends
<1>. QED  BY <1>2, FS_EmptySet

LEMMA EndsMore ==
    ASSUME ReaderTyped, NEW s, Get(s), rd'.total = rd.total + 1
    PROVE  /\ Cardinality(Ends) \in Nat /\ Cardinality(Ends') \in Nat
           /\ IsEnd => Cardinality(Ends') = Cardinality(Ends) + 1
           /\ ~IsEnd => Cardinality(Ends') = Cardinality(Ends)
<1>. DEFINE t == rd.total
            a == pos - t + 1
            e == Ends
            e1 == Ends'
<1>1. /\ pos \in Int /\ t \in Nat /\ pos' = pos + 1 /\ in' = in /\ ch = in[pos + 1]
      /\ rd'.total = t + 1
  BY Taken DEF ReaderTyped, ch
<1>2. e = {j \in a .. pos : \/ in[j] \in {"amp", "sp", "cr"}
                            \/ in[j] = "lf" /\ ~(j > a /\ in[j - 1] = "cr")}
  BY DEF Ends
<1>3. pos' - rd'.total + 1 = a
  <2>. HIDE DEF t
  <2>. QED  BY <1>1
<1>4. e1 = {j \in a .. pos + 1 : \/ in[j] \in {"amp", "sp", "cr"}
                                 \/ in[j] = "lf" /\ ~(j > a /\ in[j - 1] = "cr")}
  BY <1>1, <1>3 DEF Ends
<1>5. a \in Int /\ a <= pos + 1 /\ pos + 1 - 1 = pos /\ (pos + 1 > a <=> t # 0)
  <2>. HIDE DEF t
  <2>. QED  BY <1>1
<1>6. IsEnd <=> \/ in[pos + 1] \in {"amp", "sp", "cr"}
                \/ in[pos + 1] = "lf" /\ ~(pos + 1 > a /\ in[pos + 1 - 1] = "cr")
  BY <1>1, <1>5 DEF IsEnd
<1>7. IsFiniteSet(e) /\ Cardinality(e) \in Nat
  BY EndsFinite
<1>8. pos + 1 \notin e
  BY <1>1, <1>2
<1>. HIDE DEF a, t, e, e1
<1>9. CASE IsEnd
  <2>1. e1 = e \cup {pos + 1}
    BY <1>1, <1>2, <1>4, <1>5, <1>6, <1>9
  <2>2. Cardinality(e1) = Cardinality(e) + 1
    BY <1>7, <1>8, <2>1, FS_AddElement
  <2>. QED  BY <1>7, <1>9, <2>2 DEF e, e1
<1>10. CASE ~IsEnd
  <2>1. e1 = e
    BY <1>1, <1>2, <1>4, <1>5, <1>6, <1>10
  <2>. QED  BY <1>7, <1>10, <2>1 DEF e, e1
<1>. QED  BY <1>9, <1>10

\* Argument c + 1 is the tokens key, "eq" and value of w, from q + 1 to n; m is the
\* number of arguments in the first line. Behind it comes what ends it.
ArgLies(w, key, value, q, x, y, n, c, m, inquery) ==
    /\ key \in Seq(Usual \ {"amp", "eq"}) /\ key \in Seq(Token) /\ x = Len(key)
    /\ value \in Seq(Printed \ {"amp", "sp"}) /\ value \in Seq(Token) /\ y = Len(value)
    /\ x \in Nat /\ y \in Nat /\ q \in Nat /\ n = q + x + 1 + y
    /\ \A l \in 1 .. x : w[q + l] = key[l]
    /\ w[q + x + 1] = "eq"
    /\ \A l \in 1 .. y : w[q + x + 1 + l] = value[l]
    /\ inquery => n < Len(w)
    /\ n < Len(w) =>
          \/ c + 1 < m /\ w[n + 1] = "amp"
          \/ c + 1 = m /\ inquery /\ w[n + 1] = "sp" /\ Len(w) = n + 1
          \/ c + 1 = m /\ ~inquery /\ w[n + 1] \in {"lf", "cr"}

\* The stream of the arguments, up to them and behind them
LEMMA StreamLaid ==
    ASSUME NEW r \in Requests, NEW w, Carries(r, w)
    PROVE  LET j == Joined(r.args, Between(r))
               e == IF r.inquery THEN <<"sp">> ELSE r.end
           IN  /\ j \in Seq(Sendable) /\ e \in Seq(Sendable)
               /\ Between(r) \in {"amp", "lf"} /\ (r.inquery => Between(r) = "amp")
               /\ Base(r) \in Nat /\ Len(w) = Base(r) + Len(j) + Len(e)
               /\ Spelled(w, j, Base(r) + 1) /\ Spelled(w, e, Base(r) + Len(j) + 1)
<1>. DEFINE h == HeaderOf(r)
            j == Joined(r.args, Between(r))
            e == r.end
            je == j \o e
            b == Base(r)
            J == Len(j)
            E == Len(e)
<1>1. Between(r) \in {"amp", "lf"} /\ (r.inquery => Between(r) = "amp")
  BY RequestTyped DEF Between
<1>2. j \in Seq(Sendable) /\ e \in Seq(Sendable) /\ h \in Seq(Sendable)
  BY <1>1, PartsTyped, RequestTyped, HeaderLaid
<1>3. J \in Nat /\ E \in Nat /\ Len(h) \in Nat
  <2>. HIDE DEF j, e, h
  <2>. QED  BY <1>2, LenProperties
<1>4. r.inquery => b = 0
  BY DEF Base
<1>5. ~r.inquery => b = Len(h)
  BY DEF Base
<1>6. b \in Nat
  BY <1>3, <1>4, <1>5
<1>7. CASE r.inquery
  <2>. DEFINE z == <<"sp">>
              jz == j \o z
  <2>1. z \in Seq(Sendable) /\ Len(z) = 1
    BY TokenSets
  <2>2. w = Append(j, "sp")
    BY <1>1, <1>7 DEF Carries
  <2>. HIDE DEF j, b, J
  <2>3. Append(j, "sp") = jz
    <3>1. "sp" \in Sendable
      BY TokenSets
    <3>. QED  BY <1>2, <3>1, AppendIsConcat
  <2>. HIDE DEF z
  <2>4. Len(jz) = Len(j) + Len(z) /\ jz \in Seq(Sendable)
    BY <1>2, <2>1, ConcatProperties
  <2>5. Spelled(jz, jz, 1)
    BY <2>4, SpelledSelf
  <2>6. Spelled(jz, j, 1) /\ Spelled(jz, z, 1 + Len(j))
    BY <1>2, <2>1, <2>5, SpelledFromOne
  <2>. HIDE DEF jz
  <2>7. b + 1 = 1 /\ 1 + Len(j) = b + Len(j) + 1 /\ Len(w) = b + Len(j) + Len(z)
    BY <1>3, <1>4, <1>7, <2>2, <2>3, <2>4 DEF J
  <2>8. Spelled(w, j, b + 1) /\ Spelled(w, z, b + Len(j) + 1)
    BY <2>2, <2>3, <2>6, <2>7
  <2>9. (IF r.inquery THEN z ELSE e) = z
    BY <1>7
  <2>. QED  BY <1>1, <1>2, <1>6, <2>1, <2>7, <2>8, <2>9, Zenon DEF j, b, z
<1>8. CASE ~r.inquery
  <2>1. w = h \o je
    BY <1>8 DEF Carries, Wire, Between
  <2>. DEFINE hje == h \o je
  <2>. HIDE DEF j, b, J, h, e, E
  <2>2. je \in Seq(Sendable) /\ Len(je) = Len(j) + Len(e)
    BY <1>2, ConcatProperties
  <2>. HIDE DEF je
  <2>3. hje \in Seq(Sendable) /\ Len(hje) = Len(h) + Len(je)
    BY <1>2, <2>2, ConcatProperties
  <2>4. Spelled(hje, hje, 1)
    BY <2>3, SpelledSelf
  <2>5. Spelled(hje, je, 1 + Len(h))
    BY <1>2, <2>2, <2>4, SpelledFromOne
  <2>6. 1 + Len(h) \in Int
    BY <1>3
  <2>7. Spelled(hje, j, 1 + Len(h)) /\ Spelled(hje, e, 1 + Len(h) + Len(j))
    BY <1>2, <2>5, <2>6, SpelledAll DEF je
  <2>. HIDE DEF hje
  <2>8. /\ 1 + Len(h) = b + 1 /\ 1 + Len(h) + Len(j) = b + Len(j) + 1
        /\ Len(w) = b + Len(j) + Len(e)
    <3>1. Len(w) = Len(h) + Len(je)
      BY <2>1, <2>3, Zenon DEF hje
    <3>. DEFINE lh == Len(h)
                lj == Len(j)
                le == Len(e)
                lw == Len(w)
                lje == Len(je)
    <3>2. lh \in Nat /\ lj \in Nat /\ le \in Nat /\ b = lh /\ lw = lh + lje /\ lje = lj + le
      BY <1>3, <1>5, <1>8, <2>2, <3>1 DEF J, E
    <3>. HIDE DEF lh, lj, le, lw, lje
    <3>3. 1 + lh = b + 1 /\ 1 + lh + lj = b + lj + 1 /\ lw = b + lj + le
      BY <3>2
    <3>. QED  BY <3>3 DEF lh, lj, le, lw
  <2>9. Spelled(w, j, b + 1) /\ Spelled(w, e, b + Len(j) + 1)
    BY <2>1, <2>7, <2>8 DEF hje
  <2>10. (IF r.inquery THEN <<"sp">> ELSE e) = e
    BY <1>8
  <2>. QED  BY <1>1, <1>2, <1>6, <2>8, <2>9, <2>10, Zenon DEF j, b, e
<1>. QED  BY <1>7, <1>8

\* Argument c + 1 in the stream, and where the next begins
LEMMA ArgLaid ==
    ASSUME NEW r \in Requests, NEW w, Carries(r, w), NEW c \in 0 .. Len(r.args) - 1
    PROVE  LET arg == r.args[c + 1]
               q == KeyAt(r, c)
           IN  /\ q \in Nat /\ ArgAt(r)[c + 1] = q + Len(arg.key) + 1 + Len(arg.value)
               /\ c # 0 => w[ArgAt(r)[c] + 1] = Between(r) /\ q = ArgAt(r)[c] + 1
               /\ c = 0 => q = Base(r)
               /\ Spelled(w, arg.key, q + 1) /\ w[q + Len(arg.key) + 1] = "eq"
               /\ Spelled(w, arg.value, q + Len(arg.key) + 2)
<1>. DEFINE N == Len(r.args)
            k == c + 1
            key == r.args[k].key
            value == r.args[k].value
            sep == Between(r)
            ss == Parts(r.args, sep)
            F == Flat(ss)
            g == F[c]
            G == F[k]
            s == ss[k]
            at == ArgAt(r)[c]
            next == ArgAt(r)[k]
            q == KeyAt(r, c)
            b == Base(r)
            x == Len(key)
            y == Len(value)
            gl == Len(g)
            Gl == Len(G)
            sl == Len(s)
            p == IF c = 0 THEN 0 ELSE 1
            p1 == IF k = 1 THEN 0 ELSE 1
<1>1. N \in Nat /\ k \in 1 .. N /\ k \in 0 .. N /\ c \in 0 .. N /\ k - 1 = c /\ c \in Nat
  <2>1. N \in Nat
    BY SentArgs
  <2>. HIDE DEF N
  <2>2. c \in 0 .. N - 1
    BY DEF N
  <2>. QED  BY <2>1, <2>2
<1>2. /\ sep \in {"amp", "lf"} /\ b \in Nat /\ Spelled(w, Joined(r.args, sep), b + 1)
  BY StreamLaid
<1>3. /\ ss \in Seq(Seq(Sendable)) /\ Len(ss) = N
      /\ Joined(r.args, sep) = FlattenSeq(ss)
  BY <1>2, PartsTyped
<1>4. g \in Seq(Sendable) /\ s \in Seq(Sendable) /\ G = g \o s /\ F[0] = <<>>
  <2>1. G = F[k - 1] \o s /\ F[0] = <<>>
    BY <1>1, <1>3, FlatSteps
  <2>2. s \in Seq(Sendable)
    BY <1>1, <1>3, ElementOfSeq
  <2>3. g \in Seq(Sendable)
    BY <1>1, <1>3, FlatTyped
  <2>. QED  BY <1>1, <2>1, <2>2, <2>3
<1>5. /\ sl = p1 + x + 1 + y
      /\ \A j \in Int : Spelled(w, s, j) =>
            /\ k # 1 => w[j] = sep
            /\ Spelled(w, key, j + p1) /\ w[j + p1 + x] = "eq"
            /\ Spelled(w, value, j + p1 + x + 1)
  <2>. HIDE DEF k, sep
  <2>1. k \in 1 .. Len(r.args) /\ sep \in {"amp", "lf"}
    BY <1>1, <1>2
  <2>2. PartIs(k, sep, key, value, p1, s)
    BY <2>1, PartLaid
  <2>3. sl = Len(s) /\ x = Len(key) /\ y = Len(value)
    OBVIOUS
  <2>. HIDE DEF N, key, value, p1, s, ss, sl, x, y
  <2>. QED  BY <2>2, <2>3 DEF PartIs
<1>6. p1 = p
  BY <1>1
<1>7. x \in Nat /\ y \in Nat
  <2>1. key \in Seq(Sendable) /\ value \in Seq(Sendable)
    BY <1>1, SentArgs
  <2>. HIDE DEF key, value
  <2>. QED  BY <2>1, LenProperties
<1>8. at = b + gl /\ next = b + Gl /\ q = at + p
  BY <1>1 DEF ArgAt, KeyAt
<1>9. gl \in Nat /\ Gl = gl + sl /\ (c = 0 => gl = 0)
  <2>1. c = 0 => g = <<>>
    BY <1>4
  <2>. HIDE DEF g, G, s
  <2>2. gl \in Nat /\ Gl = gl + sl
    BY <1>4, LenProperties, ConcatProperties
  <2>3. c = 0 => gl = 0
    BY <2>1, EmptySeq, Zenon
  <2>. QED  BY <2>2, <2>3
<1>10. Spelled(w, s, b + 1 + gl)
  <2>1. Spelled(w, FlattenSeq(ss), b + 1) /\ b + 1 \in Int
    <3>. HIDE DEF b
    <3>1. b + 1 \in Int
      BY <1>2
    <3>. QED  BY <1>2, <1>3, <3>1
  <2>. HIDE DEF ss, b
  <2>2. \A l \in 1 .. Len(ss) : Spelled(w, ss[l], b + 1 + Len(Flat(ss)[l - 1]))
    BY <1>3, <2>1, SpelledFlat
  <2>3. Spelled(w, ss[k], b + 1 + Len(Flat(ss)[k - 1]))
    BY <1>1, <1>3, <2>2
  <2>. QED  BY <1>1, <2>3
<1>11. p \in {0, 1} /\ (c = 0 => p = 0) /\ (c # 0 => p = 1 /\ k # 1)
  BY <1>1
<1>. HIDE DEF N, k, key, value, sep, ss, F, g, G, s, at, next, q, b, x, y, gl, Gl, sl, p, p1
<1>12. /\ next = q + x + 1 + y /\ q \in Nat /\ (c # 0 => q = at + 1) /\ (c = 0 => q = b)
       /\ b + 1 + gl = at + 1 /\ at + 1 \in Int /\ at + 1 + p = q + 1
       /\ at + 1 + p + x = q + x + 1 /\ at + 1 + p + x + 1 = q + x + 2
  BY <1>2, <1>5, <1>6, <1>7, <1>8, <1>9, <1>11
<1>13. Spelled(w, s, at + 1)
  BY <1>10, <1>12
<1>14. /\ c # 0 => w[at + 1] = sep
       /\ Spelled(w, key, at + 1 + p) /\ w[at + 1 + p + x] = "eq"
       /\ Spelled(w, value, at + 1 + p + x + 1)
  BY <1>5, <1>6, <1>11, <1>12, <1>13
<1>15. /\ Spelled(w, key, q + 1) /\ w[q + x + 1] = "eq" /\ Spelled(w, value, q + x + 2)
  BY <1>12, <1>14
<1>. QED  BY <1>12, <1>14, <1>15 DEF k, key, value, sep, at, next, q, b, x, y

LEMMA LinesArgs ==
    ASSUME NEW r \in Requests
    PROVE  /\ InLine(r) \in 0 .. Len(r.args) /\ Len(r.args) \in Nat
           /\ InLine(r) > 1 \/ r.inquery => Between(r) = "amp"
           /\ InLine(r) < Len(r.args) => InLine(r) = 1 /\ Between(r) = "lf" /\ ~r.inquery
<1>. DEFINE N == Len(r.args)
<1>1. N \in Nat /\ (r.args = <<>> => N = 0) /\ (N = 0 => r.args = <<>>)
  BY SentArgs, EmptySeq
<1>2. r.sep \in {"amp", "lf"} /\ r.inquery \in BOOLEAN
  BY RequestTyped
<1>. HIDE DEF N
<1>. QED  BY <1>1, <1>2 DEF InLine, Between, N

LEMMA ArgsInStream ==
    ASSUME NEW r \in Requests, NEW w, Carries(r, w)
    PROVE  \A k \in 0 .. Len(r.args) :
              ArgAt(r)[k] <= Base(r) + Len(Joined(r.args, Between(r)))
<1>. DEFINE N == Len(r.args)
            top == Base(r) + Len(Joined(r.args, Between(r)))
            at(k) == ArgAt(r)[k]
            S == {k \in 0 .. N : at(N - k) <= top}
            sep == Between(r)
            J == Joined(r.args, sep)
<1>1. N \in Nat
  BY SentArgs
<1>2. at(N) = top /\ top \in Nat
  <2>1. sep \in {"amp", "lf"} /\ Base(r) \in Nat /\ J \in Seq(Sendable)
    BY StreamLaid
  <2>2. /\ Parts(r.args, sep) \in Seq(Seq(Sendable)) /\ Len(Parts(r.args, sep)) = N
        /\ J = FlattenSeq(Parts(r.args, sep))
    BY <2>1, PartsTyped
  <2>3. Flat(Parts(r.args, sep))[N] = J
    BY <2>2, FlatSteps
  <2>4. N \in 0 .. N
    BY <1>1
  <2>5. at(N) = top
    BY <2>3, <2>4 DEF ArgAt
  <2>. HIDE DEF J
  <2>6. Len(J) \in Nat
    BY <2>1, LenProperties
  <2>. QED  BY <2>1, <2>5, <2>6 DEF J
<1>4. \A k \in 0 .. N : at(k) \in Nat
  <2>. DEFINE F == Flat(Parts(r.args, sep))
  <2>1. sep \in {"amp", "lf"} /\ Base(r) \in Nat
    BY StreamLaid
  <2>2. Parts(r.args, sep) \in Seq(Seq(Sendable)) /\ Len(Parts(r.args, sep)) = N
    BY <2>1, PartsTyped
  <2>. HIDE DEF N
  <2>3. ASSUME NEW k \in 0 .. N PROVE at(k) \in Nat
    <3>1. F[k] \in Seq(Sendable)
      BY <2>2, FlatTyped
    <3>2. at(k) = Base(r) + Len(F[k])
      BY DEF ArgAt, N
    <3>. HIDE DEF F
    <3>3. Len(F[k]) \in Nat
      BY <3>1, LenProperties
    <3>. DEFINE l == Len(F[k])
    <3>. HIDE DEF l
    <3>4. Base(r) + l \in Nat
      BY <2>1, <3>3 DEF l
    <3>. QED  BY <3>2, <3>4 DEF l
  <2>. QED  BY <2>3
<1>3. ASSUME NEW k \in 0 .. N, k + 1 \in 0 .. N, k \in S PROVE k + 1 \in S
  <2>. DEFINE c == N - (k + 1)
              q == KeyAt(r, c)
              x == Len(r.args[c + 1].key)
              y == Len(r.args[c + 1].value)
              here == at(c)
              next == at(c + 1)
  <2>. HIDE DEF N
  <2>1. c \in 0 .. N - 1 /\ c + 1 = N - k /\ c + 1 \in 1 .. N /\ c \in 0 .. N
    BY <1>1, <1>3
  <2>2. next <= top
    BY <1>3, <2>1
  <2>. HIDE DEF c
  <2>3. q \in Nat /\ next = q + x + 1 + y
    BY <2>1, ArgLaid DEF N
  <2>4. c # 0 => q = here + 1
    BY <2>1, ArgLaid DEF N
  <2>5. c = 0 => q = here + 0
    BY DEF KeyAt
  <2>6. x \in Nat /\ y \in Nat
    <3>1. r.args[c + 1].key \in Seq(Sendable) /\ r.args[c + 1].value \in Seq(Sendable)
      BY <2>1, SentArgs DEF N
    <3>. QED  BY <3>1, LenProperties
  <2>7. c \in Int
    BY <2>1
  <2>8. here \in Nat
    BY <1>4, <2>1
  <2>. HIDE DEF q, x, y, here, next, top
  <2>9. q = here \/ q = here + 1
    BY <2>4, <2>5, <2>8
  <2>10. here <= top
    BY <1>2, <2>2, <2>3, <2>6, <2>8, <2>9
  <2>. QED  BY <1>3, <2>10 DEF here, c, top
<1>5. 0 \in S
  BY <1>1, <1>2
<1>. HIDE DEF S, N
<1>6. 0 .. N \subseteq S
  BY <1>1, <1>3, <1>5, UpFromZero
<1>7. ASSUME NEW k \in 0 .. N PROVE at(k) <= top
  <2>1. N - k \in 0 .. N /\ N - (N - k) = k
    BY <1>1
  <2>. QED  BY <1>6, <2>1 DEF S
<1>. QED  BY <1>7 DEF N

LEMMA ArgFacts ==
    ASSUME NEW r \in Requests, NEW w, Carries(r, w), NEW c \in 0 .. InLine(r) - 1
    PROVE  /\ ArgLies(w, r.args[c + 1].key, r.args[c + 1].value, KeyAt(r, c),
                      Len(r.args[c + 1].key), Len(r.args[c + 1].value), ArgAt(r)[c + 1],
                      c, InLine(r), r.inquery)
           /\ c + 1 < InLine(r) => KeyAt(r, c + 1) = ArgAt(r)[c + 1] + 1
<1>. DEFINE N == Len(r.args)
            m == InLine(r)
            k == c + 1
            key == r.args[k].key
            value == r.args[k].value
            sep == Between(r)
            n == ArgAt(r)[k]
            q == KeyAt(r, c)
            x == Len(key)
            y == Len(value)
            joined == Joined(r.args, sep)
            end == IF r.inquery THEN <<"sp">> ELSE r.end
            inquery == r.inquery
<1>1. /\ m \in 0 .. N /\ N \in Nat /\ (m > 1 \/ inquery => sep = "amp")
      /\ m < N => m = 1 /\ sep = "lf" /\ ~inquery
  BY LinesArgs
<1>2. /\ c \in Nat /\ c + 1 <= m /\ c \in 0 .. N - 1 /\ k \in 1 .. N /\ k = c + 1
  <2>. HIDE DEF m, N
  <2>1. c \in 0 .. m - 1
    BY DEF m
  <2>. QED  BY <1>1, <2>1
<1>3. /\ key \in Seq(Usual \ {"amp", "eq"}) /\ value \in Seq(Printed \ {"amp", "sp"})
      /\ key \in Seq(Token) /\ value \in Seq(Token) /\ x \in Nat /\ y \in Nat
  <2>1. key \in Seq(Usual \ {"amp", "eq"}) /\ value \in Seq(Printed \ {"amp", "sp"})
    BY <1>2, SentArgs
  <2>2. Usual \ {"amp", "eq"} \subseteq Token /\ Printed \ {"amp", "sp"} \subseteq Token
    BY TokenSets
  <2>. HIDE DEF key, value
  <2>3. key \in Seq(Token) /\ value \in Seq(Token)
    BY <2>1, <2>2, SeqMonotonic
  <2>. QED  BY <2>1, <2>3, LenProperties
<1>4. /\ q \in Nat /\ n = q + x + 1 + y
      /\ Spelled(w, key, q + 1) /\ w[q + x + 1] = "eq" /\ Spelled(w, value, q + x + 2)
  <2>. HIDE DEF k
  <2>1. /\ k = c + 1
    BY DEF k
  <2>. QED  BY <1>2, <2>1, ArgLaid
<1>5. k < N => w[n + 1] = sep /\ KeyAt(r, k) = n + 1
  <2>1. k < N => k \in 0 .. N - 1 /\ k # 0
    BY <1>1, <1>2
  <2>. QED  BY <2>1, ArgLaid
<1>6. /\ Len(w) = Base(r) + Len(joined) + Len(end) /\ Base(r) \in Nat
      /\ Spelled(w, end, Base(r) + Len(joined) + 1)
  BY StreamLaid
<1>7. k = N => n = Base(r) + Len(joined)
  <2>1. sep \in {"amp", "lf"}
    BY StreamLaid
  <2>2. /\ Parts(r.args, sep) \in Seq(Seq(Sendable)) /\ Len(Parts(r.args, sep)) = N
        /\ joined = FlattenSeq(Parts(r.args, sep))
    BY <2>1, PartsTyped
  <2>3. Flat(Parts(r.args, sep))[N] = joined
    BY <2>2, FlatSteps
  <2>4. k \in 0 .. N
    BY <1>1, <1>2
  <2>. QED  BY <2>3, <2>4 DEF ArgAt
<1>8. n <= Base(r) + Len(joined)
  <2>1. k \in 0 .. N
    BY <1>1, <1>2
  <2>. QED  BY <2>1, ArgsInStream
<1>9. /\ inquery => Len(end) = 1 /\ end[1] = "sp"
      /\ ~inquery => Len(end) = 0 \/ (Len(end) \in Nat \ {0} /\ end[1] \in {"lf", "cr"})
  <2>1. CASE inquery
    <3>1. end = <<"sp">>
      BY <2>1
    <3>. HIDE DEF end
    <3>. QED  BY <2>1, <3>1
  <2>2. CASE ~inquery
    <3>1. end = r.end
      BY <2>2
    <3>2. r.end \in LineEnd \cup {<<>>}
      BY RequestTyped
    <3>3. end = <<>> \/ end = <<"lf">> \/ end = <<"cr", "lf">>
      BY <3>1, <3>2 DEF LineEnd
    <3>. HIDE DEF end
    <3>. QED  BY <2>2, <3>3
  <2>. QED  BY <2>1, <2>2
<1>10. Len(joined) \in Nat
  <2>1. joined \in Seq(Sendable)
    BY StreamLaid
  <2>. HIDE DEF joined
  <2>. QED  BY <2>1, LenProperties
<1>11. q + 1 \in Int /\ q + x + 2 \in Int
  <2>. HIDE DEF q, x
  <2>. QED  BY <1>3, <1>4
<1>. DEFINE j == Len(joined)
            e == Len(end)
            b == Base(r)
            l == Len(w)
<1>12. b \in Nat /\ j \in Nat /\ l = b + j + e /\ n <= b + j /\ (k = N => n = b + j)
  BY <1>6, <1>7, <1>8, <1>10
<1>. HIDE DEF N, m, k, key, value, sep, n, q, x, y, joined, end, inquery
<1>13. ASSUME NEW i \in 1 .. x PROVE w[q + i] = key[i]
  <2>1. q + 1 + i - 1 = q + i
    BY <1>4
  <2>. QED  BY <1>4, <1>11, <2>1, SpelledAt DEF x
<1>14. ASSUME NEW i \in 1 .. y PROVE w[q + x + 1 + i] = value[i]
  <2>1. q + x + 2 + i - 1 = q + x + 1 + i
    BY <1>3, <1>4
  <2>. QED  BY <1>4, <1>11, <2>1, SpelledAt DEF y
<1>15. e \in Nat /\ (inquery => e = 1) /\ (~inquery => e = 0 \/ end[1] \in {"lf", "cr"})
       /\ (inquery => end[1] = "sp")
  BY <1>9
<1>16. e > 0 => w[b + j + 1] = end[1]
  <2>. DEFINE a == b + j + 1
  <2>1. a \in Int /\ a + 1 - 1 = a
    BY <1>12
  <2>2. e > 0 => 1 \in 1 .. e
    BY <1>15
  <2>3. Spelled(w, end, a)
    BY <1>6 DEF b, j
  <2>. HIDE DEF a
  <2>4. e > 0 => w[a] = end[1]
    BY <2>1, <2>2, <2>3, SpelledAt DEF e
  <2>. QED  BY <2>4 DEF a
<1>. HIDE DEF j, e, b, l
<1>17. inquery => n < l
  BY <1>4, <1>12, <1>15, <1>3
<1>18. n < l => \/ c + 1 < m /\ w[n + 1] = "amp"
                \/ c + 1 = m /\ inquery /\ w[n + 1] = "sp" /\ l = n + 1
                \/ c + 1 = m /\ ~inquery /\ w[n + 1] \in {"lf", "cr"}
  <2>0. m \in Nat /\ N \in Nat /\ c \in Nat /\ k = c + 1 /\ k <= m /\ m <= N
    BY <1>1, <1>2
  <2>1. CASE k < m
    <3>1. k < N /\ m > 1
      BY <2>0, <2>1
    <3>. QED  BY <1>1, <1>5, <2>0, <2>1, <3>1
  <2>2. CASE k = m /\ m < N
    BY <1>1, <1>5, <2>0, <2>2
  <2>3. CASE k = m /\ m = N
    <3>1. n = b + j /\ n + 1 = b + j + 1
      BY <1>12, <2>3
    <3>2. l = n + e
      BY <1>12, <3>1
    <3>3. CASE inquery
      BY <1>15, <1>16, <2>0, <2>3, <3>1, <3>2, <3>3
    <3>4. CASE ~inquery
      <4>1. n < l => e > 0
        BY <1>15, <1>12, <3>1, <3>2
      <4>. QED  BY <1>15, <1>16, <2>0, <2>3, <3>1, <3>2, <3>4, <4>1
    <3>. QED  BY <3>3, <3>4
  <2>. QED  BY <2>0, <2>1, <2>2, <2>3
<1>19. x = Len(key) /\ y = Len(value) /\ l = Len(w)
  BY DEF x, y, l
<1>20. ArgLies(w, key, value, q, x, y, n, c, m, inquery)
  BY <1>3, <1>4, <1>13, <1>14, <1>17, <1>18, <1>19, Zenon DEF ArgLies
<1>21. k < m => KeyAt(r, k) = n + 1
  <2>1. k < m => k < N
    BY <1>1, <1>2
  <2>. QED  BY <1>5, <2>1
<1>. QED  BY <1>20, <1>21 DEF m, k, key, value, n, q, x, y, inquery

LEMMA SentArguments ==
    ASSUME NEW r \in Requests
    PROVE  r.args \in Seq(Argument)
<1>. DEFINE T == [key : Seq(Usual \ {"amp", "eq"}), value : Seq(Printed \ {"amp", "sp"})]
<1>1. Usual \ {"amp", "eq"} \subseteq Token /\ Printed \ {"amp", "sp"} \subseteq Token
  BY TokenSets
<1>2. Seq(Usual \ {"amp", "eq"}) \subseteq Seq(Token)
      /\ Seq(Printed \ {"amp", "sp"}) \subseteq Seq(Token)
  BY <1>1, SeqMonotonic
<1>3. T \subseteq Argument
  BY <1>2 DEF Argument
<1>4. r.args \in Seq(T)
  BY SentArgs
<1>. HIDE DEF T
<1>. QED  BY <1>3, <1>4, SeqMonotonic

\* What a step of the argument reader makes of the variables
LEMMA ArgSteps ==
    ASSUME ReaderTyped
    PROVE  /\ \A s, b : Arg(s, b) =>
                 /\ rd'.state = s /\ rd'.buf = b /\ rd'.name = rd.name
                 /\ rd'.total = rd.total + 1
           /\ rd' = [rd EXCEPT !.state = "a_value", !.name = rd.buf, !.buf = <<>>,
                               !.total = @ + 1] =>
                 /\ rd'.state = "a_value" /\ rd'.buf = <<>> /\ rd'.name = rd.buf
                 /\ rd'.total = rd.total + 1
           /\ \A k, v : Push(k, v) => msg'.args = Append(msg.args, [key |-> k, value |-> v])
<1>1. DOMAIN msg = {"method", "target", "version", "fields", "args"}
  BY DEF ReaderTyped, NoMsg
<1>2. DOMAIN rd = {"state", "buf", "i", "name", "total"}
  BY DEF ReaderTyped
<1>. QED  BY <1>1, <1>2 DEF Arg, Push

LEMMA NotEnds ==
    ASSUME ch \in Printed \ {"amp", "sp"}
    PROVE  ~IsEnd /\ ch \notin {"cr", "lf", "nul", "amp", "sp"}
BY Apart DEF IsEnd, Printed, Usual, Digit, Control, Blank

LEMMA NameTaken ==
    ASSUME ReaderTyped, clean, ArgStream, NEW c \in 0 .. InLine(sent) - 1, Reading(c), ArgName
    PROVE  Reading(c)'
<1>. DEFINE k == c + 1
            key == sent.args[k].key
            value == sent.args[k].value
            q == KeyAt(sent, c)
            n == ArgAt(sent)[k]
            x == Len(key)
            y == Len(value)
            b == rd.buf
            l == Len(b)
            m == InLine(sent)
            inquery == sent.inquery
<1>1. /\ rd.state = "a_name" /\ Get("a_name") /\ pos' = pos + 1 /\ in' = in /\ sent' = sent
      /\ ch = in[pos + 1] /\ pos \in Nat /\ b \in Seq(Token) /\ sent \in Requests
  BY Taken DEF ArgName, GetArg, ReaderTyped, ch
<1>2. Carries(sent, in)
  BY <1>1 DEF ArgStream, ArgStates
<1>3. ArgLies(in, key, value, q, x, y, n, c, m, inquery)
  BY <1>1, <1>2, ArgFacts
<1>4. /\ Len(msg.args) = c /\ Begins(msg.args, sent.args) /\ Cardinality(Ends) = c
      /\ pos = q + l /\ Begins(b, key)
  BY <1>1 DEF Reading
<1>. HIDE DEF k, key, value, q, n, x, y, b, l, m, inquery
<1>5. /\ key \in Seq(Usual \ {"amp", "eq"}) /\ key \in Seq(Token) /\ x = Len(key)
      /\ x \in Nat /\ q \in Nat /\ in[q + x + 1] = "eq"
      /\ \A i \in 1 .. x : in[q + i] = key[i]
  BY <1>3 DEF ArgLies
<1>6. l \in Nat /\ l <= x
  BY <1>1, <1>4, <1>5, LenProperties DEF Begins, l
<1>7. CASE l < x
  <2>1. l + 1 \in 1 .. x /\ q + (l + 1) = pos + 1
    BY <1>4, <1>5, <1>6, <1>7
  <2>2. ch = key[l + 1] /\ ch \in Usual \ {"amp", "eq"}
    BY <1>1, <1>5, <2>1, ElementOfSeq
  <2>3. Arg("a_name", Append(b, ch)) /\ UNCHANGED msg
    BY <2>2 DEF ArgName, b
  <2>4. /\ rd'.state = "a_name" /\ rd'.buf = Append(b, ch) /\ rd'.total = rd.total + 1
        /\ msg'.args = msg.args
    BY <2>3, ArgSteps
  <2>5. "sp" \notin Usual
    BY Apart DEF Usual, Digit
  <2>6. ~IsEnd
    BY <2>2, <2>5, NotEnds, TokenSets
  <2>7. Cardinality(Ends') = c
    BY <1>1, <1>4, <2>4, <2>6, EndsMore
  <2>8. Begins(rd'.buf, key) /\ Len(rd'.buf) = l + 1
    BY <1>1, <1>4, <1>5, <1>7, <2>2, <2>4, BeginsMore DEF l
  <2>9. pos' = q + Len(rd'.buf)
    BY <1>1, <1>4, <1>5, <1>6, <2>8
  <2>. QED  BY <1>1, <1>4, <2>4, <2>7, <2>8, <2>9 DEF Reading, key, k, q
<1>8. CASE l = x
  <2>1. ch = "eq" /\ b = key
    <3>1. pos + 1 = q + x + 1
      BY <1>4, <1>5, <1>8
    <3>2. b = key
      BY <1>1, <1>4, <1>5, <1>8, BeginsWhole DEF l
    <3>. QED  BY <1>1, <1>5, <3>1, <3>2
  <2>2. "eq" \in Usual
    BY DEF Usual
  <2>3. /\ rd' = [rd EXCEPT !.state = "a_value", !.name = rd.buf, !.buf = <<>>, !.total = @ + 1]
        /\ UNCHANGED msg
    BY <2>1, <2>2 DEF ArgName
  <2>4. /\ rd'.state = "a_value" /\ rd'.buf = <<>> /\ rd'.name = key
        /\ rd'.total = rd.total + 1 /\ msg'.args = msg.args
    BY <2>1, <2>3, ArgSteps DEF b
  <2>5. ~IsEnd
    BY <2>1 DEF IsEnd
  <2>6. Cardinality(Ends') = c
    BY <1>1, <1>4, <2>4, <2>5, EndsMore
  <2>7. Len(rd'.buf) = 0 /\ Begins(rd'.buf, value)
    <3>1. Len(rd'.buf) = 0
      BY <2>4
    <3>2. Len(value) \in Nat
      BY <1>3 DEF ArgLies
    <3>. QED  BY <3>1, <3>2 DEF Begins
  <2>8. pos' = q + Len(rd'.name) + 1 + Len(rd'.buf)
    <3>1. pos' = q + x + 1 + 0
      BY <1>1, <1>4, <1>5, <1>8
    <3>. QED  BY <1>5, <2>4, <2>7, <3>1, Zenon
  <2>9. in'[pos'] # "cr"
    BY <1>1, <2>1
  <2>. QED  BY <1>1, <1>4, <2>4, <2>6, <2>7, <2>8, <2>9 DEF Reading, key, value, k, q
<1>. QED  BY <1>5, <1>6, <1>7, <1>8

LEMMA ValueTaken ==
    ASSUME ReaderTyped, ArgsTyped, clean, ArgStream, NEW c \in 0 .. InLine(sent) - 1,
           Reading(c), ArgValue
    PROVE  Reading(c)' \/ (c + 1 < InLine(sent) /\ Reading(c + 1)') \/ LineTaken'
<1>. DEFINE k == c + 1
            arg == sent.args[k]
            key == sent.args[k].key
            value == sent.args[k].value
            q == KeyAt(sent, c)
            n == ArgAt(sent)[k]
            x == Len(key)
            y == Len(value)
            b == rd.buf
            l == Len(b)
            m == InLine(sent)
            inquery == sent.inquery
            args == msg.args
            all == sent.args
<1>1. /\ rd.state = "a_value" /\ Get("a_value") /\ pos' = pos + 1 /\ in' = in /\ sent' = sent
      /\ ch = in[pos + 1] /\ pos \in Nat /\ b \in Seq(Token) /\ sent \in Requests
      /\ pos + 1 \in 1 .. Len(in)
  BY Taken DEF ArgValue, GetArg, ReaderTyped, ch
<1>2. Carries(sent, in)
  BY <1>1 DEF ArgStream, ArgStates
<1>3. /\ ArgLies(in, key, value, q, x, y, n, c, m, inquery)
      /\ k < m => KeyAt(sent, k) = n + 1
  BY <1>1, <1>2, ArgFacts
<1>4. /\ Len(args) = c /\ Begins(args, all) /\ Cardinality(Ends) = c
      /\ rd.name = key /\ pos = q + Len(rd.name) + 1 + l /\ Begins(b, value)
      /\ in[pos] # "cr"
  BY <1>1 DEF Reading
<1>5. /\ args \in Seq(Argument) /\ all \in Seq(Argument) /\ m \in 0 .. Len(all) /\ Len(all) \in Nat
      /\ k \in 1 .. Len(all) /\ c \in Nat /\ k <= m /\ m \in Nat
      /\ arg = [key |-> key, value |-> value]
  <2>1. m \in 0 .. Len(all) /\ Len(all) \in Nat
    BY <1>1, LinesArgs
  <2>2. c \in 0 .. m - 1
    OBVIOUS
  <2>3. all \in Seq(Argument)
    BY <1>1, SentArguments
  <2>4. args \in Seq(Argument)
    BY DEF ArgsTyped
  <2>. HIDE DEF m, all, args
  <2>5. c \in Nat /\ k <= m /\ m \in Nat /\ k \in 1 .. Len(all)
    BY <2>1, <2>2
  <2>6. arg = [key |-> key, value |-> value]
    BY <1>1, <2>5, SentArgs DEF all
  <2>. QED  BY <2>1, <2>3, <2>4, <2>5, <2>6
<1>. HIDE DEF arg, k, key, value, q, n, x, y, b, l, m, inquery, args, all
<1>6. /\ value \in Seq(Printed \ {"amp", "sp"}) /\ value \in Seq(Token) /\ y = Len(value)
      /\ x = Len(key) /\ x \in Nat /\ y \in Nat /\ q \in Nat /\ n = q + x + 1 + y
      /\ \A i \in 1 .. y : in[q + x + 1 + i] = value[i]
      /\ n < Len(in) =>
          \/ c + 1 < m /\ in[n + 1] = "amp"
          \/ c + 1 = m /\ inquery /\ in[n + 1] = "sp" /\ Len(in) = n + 1
          \/ c + 1 = m /\ ~inquery /\ in[n + 1] \in {"lf", "cr"}
  BY <1>3 DEF ArgLies
<1>7. l \in Nat /\ l <= y /\ pos = q + x + 1 + l
  BY <1>1, <1>4, <1>6, LenProperties DEF Begins, l
<1>8. CASE l < y
  <2>1. l + 1 \in 1 .. y /\ q + x + 1 + (l + 1) = pos + 1
    BY <1>6, <1>7, <1>8
  <2>2. ch = value[l + 1] /\ ch \in Printed \ {"amp", "sp"}
    BY <1>1, <1>6, <2>1, ElementOfSeq
  <2>3. Arg("a_value", Append(b, ch)) /\ UNCHANGED msg
    BY <2>2, NotEnds DEF ArgValue, b
  <2>4. /\ rd'.state = "a_value" /\ rd'.buf = Append(b, ch) /\ rd'.total = rd.total + 1
        /\ rd'.name = rd.name /\ msg'.args = msg.args
    BY <2>3, ArgSteps
  <2>5. ~IsEnd /\ in'[pos'] # "cr"
    BY <1>1, <2>2, NotEnds
  <2>6. Cardinality(Ends') = c
    BY <1>1, <1>4, <2>4, <2>5, EndsMore
  <2>7. Begins(rd'.buf, value) /\ Len(rd'.buf) = l + 1
    <3>1. b \in Seq(Token) /\ value \in Seq(Token) /\ Begins(b, value) /\ l < Len(value)
      BY <1>1, <1>4, <1>6, <1>8
    <3>2. l = Len(b)
      BY DEF l
    <3>3. ch = value[Len(b) + 1]
      BY <2>2, <3>2
    <3>4. Begins(Append(b, ch), value) /\ Len(Append(b, ch)) = Len(b) + 1
      BY ONLY <3>1, <3>2, <3>3, BeginsNext
    <3>. QED  BY <2>4, <3>2, <3>4
  <2>8. pos' = q + x + 1 + Len(rd'.buf) /\ Len(rd'.name) = x
    <3>1. rd'.name = key
      BY <1>4, <2>4
    <3>. QED  BY ONLY <1>1, <1>6, <1>7, <2>7, <3>1
  <2>9. pos' = q + Len(rd'.name) + 1 + Len(rd'.buf)
    BY <2>8, Zenon
  <2>10. Reading(c)'
    BY <1>1, <1>4, <2>4, <2>5, <2>6, <2>7, <2>9
       DEF Reading, key, value, k, q, args, all
  <2>. QED  BY <2>10
<1>9. CASE l = y
  <2>1. pos = n /\ n < Len(in) /\ ch = in[n + 1] /\ b = value
    <3>1. pos = n
      BY <1>6, <1>7, <1>9
    <3>2. b = value
      BY <1>1, <1>4, <1>6, <1>9, BeginsWhole DEF l
    <3>3. pos + 1 \in 1 .. Len(in) /\ pos \in Nat /\ Len(in) \in Nat
      BY <1>1, Taken
    <3>. QED  BY <1>1, <3>1, <3>2, <3>3
  <2>2. ch \in {"amp", "sp", "lf", "cr"} /\ IsEnd
    <3>1. ch \in {"amp", "sp", "lf", "cr"}
      BY <1>6, <2>1
    <3>. QED  BY <1>4, <3>1 DEF IsEnd
  <2>3. /\ Push(rd.name, rd.buf)
        /\ \/ ch = "amp" /\ Arg("a_name", <<>>)
           \/ ch = "sp" /\ Arg("done", <<>>)
           \/ ch = "lf" /\ Arg("a_name", Kept(rd.buf))
           \/ ch = "cr" /\ Arg("a_almost_done", rd.buf)
    <3>1. "lf" \notin Printed /\ "cr" \notin Printed
      BY Apart DEF Printed, Usual, Digit, Control, Blank
    <3>2. ch \notin Printed \ {"amp", "sp"} /\ ch # "nul"
      BY <2>2, <3>1
    <3>. QED  BY <2>2, <3>2 DEF ArgValue
  <2>4. msg'.args = Append(args, arg) /\ rd'.total = rd.total + 1
    <3>1. msg'.args = Append(args, [key |-> rd.name, value |-> rd.buf])
      BY <2>3, ArgSteps DEF args
    <3>2. rd'.total = rd.total + 1
      BY <2>3, ArgSteps
    <3>. QED  BY <1>4, <1>5, <2>1, <3>1, <3>2 DEF b
  <2>5. Cardinality(Ends') = c + 1
    BY <1>1, <1>4, <2>2, <2>4, EndsMore
  <2>6. Begins(msg'.args, all) /\ Len(msg'.args) = c + 1
    <3>1. Len(args) < Len(all) /\ all[Len(args) + 1] = arg
      BY <1>4, <1>5 DEF arg, all, k
    <3>. QED  BY <1>4, <1>5, <2>4, <3>1, BeginsMore
  <2>7. CASE c + 1 < m /\ ch = "amp"
    <3>1. rd'.state = "a_name" /\ rd'.buf = <<>>
      BY <2>3, <2>7, ArgSteps
    <3>2. Len(rd'.buf) = 0 /\ Begins(rd'.buf, sent.args[c + 1 + 1].key)
      <4>1. Len(rd'.buf) = 0
        BY <3>1
      <4>2. c + 1 + 1 \in 1 .. Len(all)
        BY <1>5, <2>7
      <4>3. sent.args[c + 1 + 1].key \in Seq(Sendable)
        BY <1>1, <4>2, SentArgs DEF all
      <4>4. Len(sent.args[c + 1 + 1].key) \in Nat
        BY <4>3, LenProperties
      <4>. QED  BY <4>1, <4>4 DEF Begins
    <3>3. pos' = KeyAt(sent, c + 1) + Len(rd'.buf)
      <4>1. KeyAt(sent, c + 1) = n + 1
        BY <1>3, <2>7 DEF k
      <4>2. pos' = n + 1 + 0
        BY <1>1, <2>1
      <4>. QED  BY <3>2, <4>1, <4>2, Zenon
    <3>4. Reading(c + 1)'
      BY <1>1, <2>5, <2>6, <3>1, <3>2, <3>3 DEF Reading, all
    <3>. QED  BY <2>7, <3>4 DEF m
  <2>8. CASE c + 1 = m /\ (inquery => ch = "sp")
    <3>1. Len(msg'.args) = m /\ Len(msg'.args) >= m /\ Cardinality(Ends') >= m
      BY <1>5, <2>5, <2>6, <2>8
    <3>2. \A i \in 1 .. m : msg'.args[i] = all[i]
      BY <2>6, <2>8 DEF Begins
    <3>3. inquery => rd'.state = "done"
      BY <2>3, <2>8, ArgSteps
    <3>4. LineTaken'
      BY <1>1, <3>1, <3>2, <3>3 DEF LineTaken, m, inquery, all
    <3>. QED  BY <3>4
  <2>. QED  BY <1>6, <2>1, <2>7, <2>8
<1>. QED  BY <1>6, <1>7, <1>8, <1>9

LEMMA HeaderOnly ==
    ASSUME ReaderTyped,
           \/ LineStart \/ LineMethod \/ LineSpaces \/ LineUri \/ LineParams
           \/ LineHttp \/ LineMajor \/ LineMinor
           \/ HeaderStart \/ HeaderName \/ HeaderSpaces \/ HeaderValue \/ HeaderAlmost
           \/ HeaderEnd \/ Eof
    PROVE  rd'.state \notin ArgStates \cup {"done"} /\ msg'.args = msg.args
<1>. DEFINE S == HeaderStates \cup {"header", "failed", "cut"}
<1>1. \A s \in S : s \notin ArgStates \cup {"done"}
  BY DEF HeaderStates, ArgStates
<1>2. \A s : rd' = [rd EXCEPT !.state = s] => rd'.state = s
  BY DEF ReaderTyped
<1>3. \A k : rd' = [rd EXCEPT !.i = k] => rd'.state = rd.state
  BY DEF ReaderTyped
<1>4. \A s, k : rd' = [rd EXCEPT !.state = s, !.i = k] => rd'.state = s
  BY DEF ReaderTyped
<1>5. \A s, b : Goto(s, b) => rd'.state = s
  BY RdSteps
<1>6. /\ Stay => rd' = rd /\ msg' = msg
      /\ Same => msg' = msg
      /\ Fail => rd'.state = "failed" /\ msg' = msg
      /\ \A s : Keep(s) => rd'.state = s /\ msg' = msg
  BY <1>5 DEF Stay, Same, Fail, Keep
<1>7. CASE LineStart
  <2>1. "start" \in S /\ "method" \in S /\ "failed" \in S
    BY DEF HeaderStates
  <2>. HIDE DEF S
  <2>. QED  BY <1>1, <1>6, <1>7, <2>1 DEF LineStart, Get
<1>8. CASE LineMethod
  BY <1>1, <1>5, <1>6, <1>8, ArgsAlone DEF LineMethod, Get, HeaderStates
<1>9. CASE LineSpaces
  BY <1>1, <1>6, <1>9 DEF LineSpaces, Get, HeaderStates
<1>10. CASE LineUri
  BY <1>1, <1>5, <1>6, <1>10, ArgsAlone DEF LineUri, Get, HeaderStates
<1>11. CASE LineParams
  BY <1>1, <1>5, <1>6, <1>11 DEF LineParams, Get, HeaderStates
<1>12. CASE LineHttp
  BY <1>1, <1>3, <1>4, <1>6, <1>12 DEF LineHttp, Get, HeaderStates
<1>13. CASE LineMajor
  BY <1>1, <1>3, <1>5, <1>6, <1>13 DEF LineMajor, Get, HeaderStates
<1>14. CASE LineMinor
  BY <1>1, <1>3, <1>5, <1>6, <1>14, ArgsAlone DEF LineMinor, Get, HeaderStates
<1>15. CASE HeaderStart
  BY <1>1, <1>5, <1>6, <1>15 DEF HeaderStart, Get, HeaderStates
<1>16. CASE HeaderName
  <2>1. rd'.state = "spaces_before_value" \/ rd'.state = "name" \/ rd'.state = "failed"
    BY <1>5, <1>6, <1>16 DEF HeaderName, ReaderTyped
  <2>2. msg' = msg
    BY <1>6, <1>16 DEF HeaderName
  <2>. QED  BY <2>1, <2>2 DEF ArgStates
<1>17. CASE HeaderSpaces
  BY <1>1, <1>5, <1>6, <1>17, ArgsAlone DEF HeaderSpaces, Get, HeaderStates
<1>18. CASE HeaderValue
  BY <1>1, <1>5, <1>6, <1>18, ArgsAlone DEF HeaderValue, Get, HeaderStates
<1>19. CASE HeaderAlmost
  BY <1>1, <1>5, <1>6, <1>19 DEF HeaderAlmost, Get, HeaderStates
<1>20. CASE HeaderEnd
  BY <1>1, <1>5, <1>6, <1>20 DEF HeaderEnd, HeaderStates
<1>21. CASE Eof
  BY <1>1, <1>5, <1>21 DEF Eof, HeaderStates
<1>. QED  BY <1>7, <1>8, <1>9, <1>10, <1>11, <1>12, <1>13, <1>14, <1>15, <1>16, <1>17,
             <1>18, <1>19, <1>20, <1>21

\* A step of the argument reader that takes a token
LEMMA ArgTakes ==
    ASSUME ReaderTyped, ArgName \/ ArgValue \/ ArgAlmost
    PROVE  /\ \E s \in ArgStates : Get(s) /\ rd'.state \in ArgStates \cup {"done"}
           /\ rd'.total = rd.total + 1 /\ query' = query
           /\ \/ msg' = msg
              \/ \E k, v \in Seq(Token) : msg'.args = Append(msg.args, [key |-> k, value |-> v])
<1>1. rd.name \in Seq(Token) /\ rd.buf \in Seq(Token) /\ <<>> \in Seq(Token)
  BY DEF ReaderTyped
<1>2. \A k, v \in Seq(Token) : Push(k, v) =>
          \E z, y \in Seq(Token) : msg'.args = Append(msg.args, [key |-> z, value |-> y])
  BY ArgSteps
<1>3. \A s, b : Arg(s, b) => rd'.state = s /\ rd'.total = rd.total + 1
  BY ArgSteps
<1>4. {"a_name", "a_value", "a_almost_done"} = ArgStates
  BY DEF ArgStates
<1>5. CASE ArgName
  <2>1. Get("a_name") /\ query' = query
    BY <1>5 DEF ArgName, GetArg
  <2>2. rd'.total = rd.total + 1 /\ rd'.state \in {"a_name", "a_value", "done"}
    BY <1>3, <1>5, ArgSteps DEF ArgName
  <2>3. msg' = msg \/ Push(rd.buf, <<>>)
    BY <1>5 DEF ArgName
  <2>. QED  BY <1>1, <1>2, <1>4, <2>1, <2>2, <2>3
<1>6. CASE ArgValue
  <2>1. Get("a_value") /\ query' = query
    BY <1>6 DEF ArgValue, GetArg
  <2>2. rd'.total = rd.total + 1 /\ rd'.state \in {"a_name", "a_value", "a_almost_done", "done"}
    BY <1>3, <1>6 DEF ArgValue
  <2>3. msg' = msg \/ Push(rd.name, rd.buf)
    BY <1>6 DEF ArgValue
  <2>. QED  BY <1>1, <1>2, <1>4, <2>1, <2>2, <2>3
<1>7. CASE ArgAlmost
  <2>1. Get("a_almost_done") /\ query' = query /\ msg' = msg
    BY <1>7 DEF ArgAlmost, GetArg, Same
  <2>2. rd'.total = rd.total + 1 /\ rd'.state \in {"a_name", "a_almost_done"}
    BY <1>3, <1>7 DEF ArgAlmost
  <2>. QED  BY <1>4, <2>1, <2>2
<1>. QED  BY <1>5, <1>6, <1>7

LEMMA ArgsTypedStep ==
    ASSUME ReaderTyped, ArgsTyped, ReaderNext
    PROVE  ArgsTyped'
<1>1. msg'.args = msg.args
      \/ \E k, v \in Seq(Token) : msg'.args = Append(msg.args, [key |-> k, value |-> v])
  <2>1. CASE ArgName \/ ArgValue \/ ArgAlmost
    <3>1. msg' = msg
          \/ \E k, v \in Seq(Token) : msg'.args = Append(msg.args, [key |-> k, value |-> v])
      BY <2>1, ArgTakes
    <3>. QED  BY <3>1
  <2>2. CASE BodyBegin \/ ArgEnd
    BY <2>2 DEF BodyBegin, ArgEnd
  <2>3. CASE ~(ArgName \/ ArgValue \/ ArgAlmost \/ BodyBegin \/ ArgEnd)
    BY <2>3, HeaderOnly DEF ReaderNext
  <2>. QED  BY <2>1, <2>2, <2>3
<1>2. \A k, v \in Seq(Token) : [key |-> k, value |-> v] \in Argument
  BY DEF Argument
<1>3. \A e \in Argument : Append(msg.args, e) \in Seq(Argument)
  BY AppendProperties DEF ArgsTyped
<1>. QED  BY <1>1, <1>2, <1>3 DEF ArgsTyped

\* Where the header ends, the arguments are about to be read.
LEMMA BodyStarts ==
    ASSUME ReaderTyped, CleanInv, clean, BodyBegin
    PROVE  /\ ArgStream' /\ sent' = sent /\ clean' = clean
           /\ msg'.args = <<>> /\ rd'.total = 0 /\ rd'.state \in {"a_name", "done"}
           /\ rd'.state = "a_name" => rd'.buf = <<>> /\ pos' = Base(sent)
           /\ rd'.state = "done" => ~(sent.inquery /\ Read(sent))
<1>. DEFINE h == HeaderOf(sent)
            J == Joined(sent.args, "amp")
<1>1. rd.state = "header" /\ sent' = sent /\ clean' = clean /\ msg' = msg /\ query' = query
  BY DEF BodyBegin
<1>2. /\ sent \in Requests /\ in = Wire(sent) /\ rd.total = 0 /\ msg.args = <<>>
      /\ pos = FieldAt(sent)[Len(sent.fields)] + Len(sent.eol)
      /\ msg.method = sent.method
      /\ sent.inquery => query = Append(J, "sp")
      /\ ~sent.inquery => query = <<>>
  BY <1>1 DEF ReaderTyped, CleanInv, ReadingHeader, FieldPlace, LineRead, PastMethod, PastTarget,
              BeforeFields, BeforeHttp, BeforeUri
<1>3. pos = Len(h) /\ pos \in Nat
  BY <1>2, HeaderLaid DEF ReaderTyped
<1>4. sent.inquery => query # <<>>
  <2>1. J \in Seq(Sendable) /\ "sp" \in Sendable
    BY <1>2, PartsTyped, TokenSets
  <2>. HIDE DEF J
  <2>2. Append(J, "sp") # <<>>
    BY <2>1, AppendProperties, EmptySeq
  <2>. QED  BY <1>2, <2>2
<1>5. sent.inquery \in BOOLEAN
  BY <1>2, RequestTyped
<1>6. Dynamic => Read(sent)
  BY <1>2 DEF Dynamic, Read
<1>7. ~Dynamic => ~(sent.inquery /\ Read(sent))
  BY <1>2, <1>4 DEF Dynamic, Read
<1>. HIDE DEF J, h
<1>8. CASE ~Dynamic
  <2>1. Goto("done", <<>>)
    BY <1>8 DEF BodyBegin
  <2>2. rd'.state = "done" /\ rd'.total = 0
    BY <1>2, <2>1, RdSteps
  <2>3. ArgStream'
    BY <2>2 DEF ArgStream, ArgStates
  <2>. QED  BY <1>1, <1>2, <1>7, <1>8, <2>2, <2>3
<1>9. CASE Dynamic
  <2>1. /\ Goto("a_name", <<>>)
        /\ query # <<>> => in' = query /\ pos' = 0
        /\ query = <<>> => in' = in /\ pos' = pos
    BY <1>9 DEF BodyBegin
  <2>2. rd'.state = "a_name" /\ rd'.total = 0 /\ rd'.buf = <<>>
    BY <1>2, <2>1, RdSteps
  <2>3. Carries(sent, in') /\ pos' = Base(sent) /\ pos' \in Nat
    <3>1. CASE sent.inquery
      <4>1. in' = Append(J, "sp") /\ pos' = 0
        BY <1>2, <1>4, <2>1, <3>1
      <4>. QED  BY <3>1, <4>1 DEF Carries, Base, J
    <3>2. CASE ~sent.inquery
      <4>1. in' = Wire(sent) /\ pos' = pos
        BY <1>2, <2>1, <3>2
      <4>. QED  BY <1>3, <3>2, <4>1 DEF Carries, Base, h
    <3>. QED  BY <3>1, <3>2
  <2>4. rd'.total = pos' - Base(sent) /\ pos' >= Base(sent)
    BY <2>2, <2>3
  <2>5. ArgStream'
    BY <1>1, <1>4, <1>6, <1>9, <2>3, <2>4 DEF ArgStream
  <2>. QED  BY <1>1, <1>2, <1>9, <2>2, <2>3, <2>5
<1>. QED  BY <1>8, <1>9

LEMMA StreamKept ==
    ASSUME ReaderTyped, CleanInv, ArgStream, ReaderNext
    PROVE  ArgStream'
<1>1. CASE ~clean'
  BY <1>1 DEF ArgStream
<1>2. CASE clean' /\ BodyBegin
  <2>1. clean
    BY <1>2 DEF BodyBegin
  <2>. QED  BY <1>2, <2>1, BodyStarts
<1>3. CASE clean' /\ (ArgName \/ ArgValue \/ ArgAlmost)
  <2>1. PICK s \in ArgStates : Get(s)
    BY <1>3, ArgTakes
  <2>2. /\ rd.state \in ArgStates /\ pos' = pos + 1 /\ in' = in /\ sent' = sent /\ clean' = clean
        /\ pos \in Nat /\ rd'.total = rd.total + 1 /\ query' = query /\ sent \in Requests
    BY <1>3, <2>1, Taken, ArgTakes DEF ReaderTyped
  <2>3. Carries(sent, in) /\ rd.total = pos - Base(sent) /\ pos >= Base(sent)
    BY <1>3, <2>2 DEF ArgStream
  <2>4. Base(sent) \in Nat
    BY <2>2, <2>3, StreamLaid
  <2>. DEFINE b == Base(sent)
  <2>. HIDE DEF b
  <2>5. rd'.total = pos' - b /\ pos' >= b
    BY <2>2, <2>3, <2>4 DEF b
  <2>. QED  BY <1>3, <2>2, <2>5 DEF ArgStream, b
<1>4. CASE ArgEnd
  <2>1. rd'.state = "done"
    BY <1>4, RdSteps DEF ArgEnd
  <2>. QED  BY <2>1 DEF ArgStream, ArgStates
<1>5. CASE ~(ArgName \/ ArgValue \/ ArgAlmost \/ BodyBegin \/ ArgEnd)
  <2>1. rd'.state \notin ArgStates
    BY <1>5, HeaderOnly DEF ReaderNext
  <2>. QED  BY <2>1 DEF ArgStream
<1>. QED  BY <1>1, <1>2, <1>3, <1>4, <1>5

\* At the end of the stream, or at MAXTRUNK, what is taken stays.
LEMMA EndKeeps ==
    ASSUME ReaderTyped, ArgsTyped, clean, ArgStream, ArgEnd
    PROVE  /\ LineTaken => LineTaken'
           /\ \A c \in 0 .. InLine(sent) - 1 : Reading(c) => Reading(c)'
<1>1. /\ rd.state \in ArgStates /\ sent' = sent /\ clean' = clean /\ in' = in /\ pos' = pos
      /\ msg' = msg /\ query' = query /\ rd'.state = "done" /\ rd'.total = rd.total
      /\ rd.state \in {"a_name", "a_value", "a_almost_done"}
  BY RdSteps DEF ArgEnd, ArgStates
<1>2. Ends' = Ends
  BY <1>1 DEF Ends
<1>3. LineTaken => LineTaken'
  BY <1>1, <1>2 DEF LineTaken
<1>4. ASSUME NEW c \in 0 .. InLine(sent) - 1, Reading(c)
      PROVE  ~(sent.inquery /\ rd.total < MaxTrunk)
  <2>. DEFINE key == sent.args[c + 1].key
              value == sent.args[c + 1].value
              q == KeyAt(sent, c)
              n == ArgAt(sent)[c + 1]
              x == Len(key)
              y == Len(value)
              l == Len(rd.buf)
              w == Len(in)
  <2>1. sent \in Requests /\ Carries(sent, in) /\ rd.buf \in Seq(Token)
        /\ rd.total \in Nat /\ MaxTrunk \in Nat
    BY <1>1, ReaderAssumption DEF ArgStream, ReaderTyped
  <2>2. ArgLies(in, key, value, q, x, y, n, c, InLine(sent), sent.inquery)
    BY <2>1, ArgFacts
  <2>3. \/ pos = q + l /\ Begins(rd.buf, key)
        \/ rd.name = key /\ pos = q + Len(rd.name) + 1 + l /\ Begins(rd.buf, value)
    BY <1>1, <1>4 DEF Reading
  <2>4. l \in Nat
    BY <2>1, LenProperties
  <2>. HIDE DEF key, value, q, n, x, y
  <2>5. x \in Nat /\ y \in Nat /\ q \in Nat /\ n = q + x + 1 + y /\ (sent.inquery => n < w)
        /\ x = Len(key) /\ y = Len(value)
    BY <2>2 DEF ArgLies
  <2>6. \/ pos = q + l /\ l <= x
        \/ pos = q + x + 1 + l /\ l <= y
    BY <2>3, <2>5 DEF Begins
  <2>. HIDE DEF l, w
  <2>7. pos <= n
    BY <2>4, <2>5, <2>6
  <2>8. w \in Nat /\ pos \in Nat
    BY LenProperties DEF ReaderTyped, w
  <2>9. sent.inquery => pos # w /\ query # <<>>
    <3>1. sent.inquery => query # <<>>
      BY <1>1 DEF ArgStream
    <3>2. n \in Nat
      BY <2>5
    <3>. QED  BY <2>5, <2>7, <2>8, <3>1, <3>2
  <2>10. rd.total >= MaxTrunk \/ query = <<>> \/ pos = w
    BY DEF ArgEnd, w
  <2>. QED  BY <2>1, <2>9, <2>10
<1>5. ASSUME NEW c \in 0 .. InLine(sent) - 1, Reading(c) PROVE Reading(c)'
  <2>1. ~(sent.inquery /\ rd.total < MaxTrunk)
    BY <1>4, <1>5
  <2>. QED  BY <1>1, <1>2, <1>5, <2>1 DEF Reading
<1>. QED  BY <1>3, <1>5

LEMMA TakenStays ==
    ASSUME ReaderTyped, ArgsTyped, clean, ArgStream, LineTaken, ArgName \/ ArgValue \/ ArgAlmost
    PROVE  LineTaken'
<1>. DEFINE n == InLine(sent)
            args == msg.args
<1>1. PICK s \in ArgStates : Get(s)
  BY ArgTakes
<1>2. /\ rd.state \in ArgStates /\ pos' = pos + 1 /\ in' = in /\ sent' = sent
      /\ ch = in[pos + 1] /\ rd'.total = rd.total + 1 /\ sent \in Requests
      /\ rd.state # "done"
  BY <1>1, Taken, ArgTakes DEF ReaderTyped, ArgStates, ch
<1>3. /\ Len(args) >= n /\ \A i \in 1 .. n : args[i] = sent.args[i]
      /\ Cardinality(Ends) >= n
      /\ sent.inquery => n = 0 /\ rd.state = "a_name" /\ pos = 0 /\ Len(args) = n
  BY <1>2 DEF LineTaken
<1>4. Carries(sent, in)
  BY <1>2 DEF ArgStream
<1>5. n \in Nat
  <2>1. InLine(sent) \in 0 .. Len(sent.args) /\ Len(sent.args) \in Nat
    BY <1>2, LinesArgs
  <2>. QED  BY <2>1
<1>6. /\ args \in Seq(Argument)
      /\ msg' = msg \/ \E k, v \in Seq(Token) : msg'.args = Append(args, [key |-> k, value |-> v])
  BY ArgTakes DEF ArgsTyped
<1>7. CASE sent.inquery
  <2>1. ch = "sp"
    <3>. DEFINE J == Joined(sent.args, "amp")
    <3>1. sent.args = <<>>
      BY <1>2, <1>3, <1>7, SentArgs, EmptySeq DEF InLine
    <3>2. J = <<>>
      BY <3>1 DEF Joined, FlattenSeq
    <3>3. in = <<"sp">>
      <4>1. in = Append(J, "sp")
        BY <1>4, <1>7 DEF Carries
      <4>. HIDE DEF J
      <4>2. Append(J, "sp") = <<"sp">>
        BY <3>2
      <4>. QED  BY <4>1, <4>2
    <3>4. in[1] = "sp" /\ pos + 1 = 1
      BY <1>3, <1>7, <3>3
    <3>. QED  BY <1>2, <3>4
  <2>2. "sp" \notin Usual
    BY Apart DEF Usual, Digit
  <2>3. ArgName
    BY <1>3, <1>7 DEF ArgName, ArgValue, ArgAlmost, GetArg, Get
  <2>4. Arg("done", <<>>) /\ msg' = msg
    BY <2>1, <2>2, <2>3 DEF ArgName, Usual
  <2>5. rd'.state = "done"
    BY <2>4, ArgSteps
  <2>6. Cardinality(Ends') >= n
    <3>1. Cardinality(Ends') \in Nat
      BY <1>1, <1>2, EndsMore
    <3>2. n = 0
      BY <1>3, <1>7
    <3>. QED  BY <3>1, <3>2
  <2>. QED  BY <1>2, <1>3, <1>7, <2>4, <2>5, <2>6 DEF LineTaken
<1>8. CASE ~sent.inquery
  <2>1. Cardinality(Ends') >= n
    <3>1. /\ Cardinality(Ends) \in Nat /\ Cardinality(Ends') \in Nat
          /\ Cardinality(Ends') = Cardinality(Ends) + 1 \/ Cardinality(Ends') = Cardinality(Ends)
      BY <1>1, <1>2, EndsMore
    <3>. DEFINE z == Cardinality(Ends)
                z1 == Cardinality(Ends')
    <3>. HIDE DEF z, z1, n
    <3>2. z \in Nat /\ (z1 = z + 1 \/ z1 = z) /\ z >= n
      BY <1>3, <3>1 DEF z, z1
    <3>. QED  BY <1>5, <3>2 DEF z1
  <2>. HIDE DEF args
  <2>2. ASSUME NEW e \in Argument, msg'.args = Append(args, e)
        PROVE  Len(msg'.args) >= n /\ \A i \in 1 .. n : msg'.args[i] = args[i]
    <3>1. /\ Len(Append(args, e)) = Len(args) + 1 /\ Len(args) \in Nat
          /\ \A i \in 1 .. Len(args) : Append(args, e)[i] = args[i]
      BY <1>6, LenProperties, AppendProperties
    <3>. DEFINE z == Len(args)
                z1 == Len(Append(args, e))
    <3>. HIDE DEF z, z1, n
    <3>2. z \in Nat /\ z1 = z + 1 /\ z >= n /\ \A i \in 1 .. z : Append(args, e)[i] = args[i]
      BY <1>3, <3>1 DEF z, z1
    <3>3. z1 >= n /\ \A i \in 1 .. n : i \in 1 .. z
      BY <1>5, <3>2
    <3>. QED  BY <2>2, <3>2, <3>3 DEF z1
  <2>3. Len(msg'.args) >= n /\ \A i \in 1 .. n : msg'.args[i] = args[i]
    <3>1. CASE msg' = msg
      BY <1>3, <3>1 DEF args
    <3>2. CASE \E k, v \in Seq(Token) : msg'.args = Append(args, [key |-> k, value |-> v])
      <4>1. \A k, v \in Seq(Token) : [key |-> k, value |-> v] \in Argument
        BY DEF Argument
      <4>. QED  BY <2>2, <3>2, <4>1
    <3>. QED  BY <1>6, <3>1, <3>2
  <2>4. \A i \in 1 .. n : msg'.args[i] = sent.args[i]
    BY <1>3, <2>3
  <2>. QED  BY <1>2, <1>8, <2>1, <2>3, <2>4 DEF LineTaken
<1>. QED  BY <1>7, <1>8

LEMMA PlaceKept ==
    ASSUME ReaderTyped, CleanInv, ArgInv, ReaderNext
    PROVE  ArgPlace'
<1>1. CASE ~clean'
  BY <1>1 DEF ArgPlace
<1>2. CASE clean' /\ BodyBegin
  <2>1. clean
    BY <1>2 DEF BodyBegin
  <2>. DEFINE n == InLine(sent)
              all == sent.args
  <2>2. /\ sent' = sent /\ msg'.args = <<>> /\ rd'.total = 0 /\ rd'.state \in {"a_name", "done"}
        /\ rd'.state = "a_name" => rd'.buf = <<>> /\ pos' = Base(sent)
        /\ rd'.state = "done" => ~(sent.inquery /\ Read(sent))
        /\ ArgStream'
    BY <1>2, <2>1, BodyStarts
  <2>3. Cardinality(Ends') = 0
    <3>1. ReaderTyped'
      BY TypedStep
    <3>2. pos' \in Int
      BY <3>1 DEF ReaderTyped
    <3>3. Ends' = {}
      BY <2>2, <3>2 DEF Ends
    <3>. QED  BY <3>3, FS_EmptySet
  <2>4. sent \in Requests /\ Len(msg'.args) = 0
    BY <2>2, EmptySeq DEF ReaderTyped
  <2>5. /\ n \in Nat /\ Len(all) \in Nat /\ n <= Len(all)
    <3>1. n \in 0 .. Len(all) /\ Len(all) \in Nat
      BY <2>4, LinesArgs
    <3>. HIDE DEF n, all
    <3>. QED  BY <3>1
  <2>6. CASE n = 0
    <3>1. sent.inquery /\ rd'.state = "a_name" => pos' = 0
      BY <2>2 DEF Base
    <3>2. LineTaken'
      BY <2>2, <2>3, <2>4, <2>6, <3>1 DEF LineTaken
    <3>. QED  BY <3>2 DEF ArgPlace
  <2>7. CASE n # 0
    <3>1. 0 \in 0 .. n - 1 /\ 0 + 1 \in 1 .. Len(all) /\ 0 \in 0 .. Len(all) - 1
      BY <2>5, <2>7
    <3>2. Begins(msg'.args, all)
      BY <2>4, <2>5 DEF Begins
    <3>3. rd'.state = "a_name" => /\ pos' = KeyAt(sent, 0) + Len(rd'.buf)
                                  /\ Begins(rd'.buf, sent.args[0 + 1].key)
      <4>1. ASSUME rd'.state = "a_name"
            PROVE  /\ pos' = KeyAt(sent, 0) + Len(rd'.buf)
                   /\ Begins(rd'.buf, sent.args[0 + 1].key)
        <5>1. Carries(sent, in')
          BY <2>2, <4>1, <1>2 DEF ArgStream, ArgStates
        <5>2. KeyAt(sent, 0) = Base(sent) /\ KeyAt(sent, 0) \in Nat
          BY <2>4, <3>1, <5>1, ArgLaid
        <5>3. Len(rd'.buf) = 0
          BY <2>2, <4>1, EmptySeq
        <5>4. pos' = KeyAt(sent, 0) + Len(rd'.buf)
          <6>1. pos' = KeyAt(sent, 0) + 0
            BY <2>2, <4>1, <5>2
          <6>. QED  BY <5>3, <6>1, Zenon
        <5>5. sent.args[0 + 1].key \in Seq(Sendable)
          BY <2>4, <3>1, SentArgs
        <5>6. Len(sent.args[0 + 1].key) \in Nat
          BY <5>5, LenProperties
        <5>7. Begins(rd'.buf, sent.args[0 + 1].key)
          BY <5>3, <5>6 DEF Begins
        <5>. QED  BY <5>4, <5>7
      <4>. QED  BY <4>1
    <3>4. Reading(0)'
      BY <2>2, <2>3, <2>4, <3>2, <3>3 DEF Reading
    <3>. QED  BY <2>2, <3>1, <3>4 DEF ArgPlace
  <2>. QED  BY <2>6, <2>7
<1>3. CASE clean' /\ (ArgName \/ ArgValue \/ ArgAlmost)
  <2>1. PICK s \in ArgStates : Get(s)
    BY <1>3, ArgTakes
  <2>2. clean /\ sent' = sent /\ rd.state \in ArgStates /\ sent \in Requests
    BY <1>3, <2>1, Taken DEF ReaderTyped
  <2>3. ArgsTyped /\ ArgStream /\ (LineTaken \/ \E c \in 0 .. InLine(sent) - 1 : Reading(c))
    BY <2>2 DEF ArgInv, ArgPlace
  <2>4. CASE LineTaken
    <3>1. LineTaken'
      BY <1>3, <2>2, <2>3, <2>4, TakenStays
    <3>. QED  BY <3>1 DEF ArgPlace
  <2>5. CASE \E c \in 0 .. InLine(sent) - 1 : Reading(c)
    <3>1. PICK c \in 0 .. InLine(sent) - 1 : Reading(c)
      BY <2>5
    <3>2. Reading(c)' \/ (c + 1 < InLine(sent) /\ Reading(c + 1)') \/ LineTaken'
      <4>1. CASE ArgName
        BY <2>2, <2>3, <3>1, <4>1, NameTaken
      <4>2. CASE ArgValue
        BY <2>2, <2>3, <3>1, <4>2, ValueTaken
      <4>3. CASE ArgAlmost
        BY <3>1, <4>3 DEF ArgAlmost, GetArg, Get, Reading
      <4>. QED  BY <1>3, <4>1, <4>2, <4>3
    <3>. DEFINE n == InLine(sent)
    <3>3. n \in Nat
      <4>1. InLine(sent) \in 0 .. Len(sent.args) /\ Len(sent.args) \in Nat
        BY <2>2, LinesArgs
      <4>. QED  BY <4>1
    <3>4. c + 1 < n => c + 1 \in 0 .. n - 1
      <4>1. c \in 0 .. n - 1
        OBVIOUS
      <4>. HIDE DEF n
      <4>. QED  BY <3>3, <4>1
    <3>. QED  BY <2>2, <3>2, <3>4 DEF ArgPlace
  <2>. QED  BY <2>3, <2>4, <2>5
<1>4. CASE clean' /\ ArgEnd
  <2>1. clean /\ sent' = sent /\ rd.state \in ArgStates
    BY <1>4 DEF ArgEnd, ArgStates
  <2>2. ArgsTyped /\ ArgStream /\ (LineTaken \/ \E c \in 0 .. InLine(sent) - 1 : Reading(c))
    BY <2>1 DEF ArgInv, ArgPlace
  <2>3. LineTaken' \/ \E c \in 0 .. InLine(sent) - 1 : Reading(c)'
    BY <1>4, <2>1, <2>2, EndKeeps
  <2>. QED  BY <2>1, <2>3 DEF ArgPlace
<1>5. CASE ~(ArgName \/ ArgValue \/ ArgAlmost \/ BodyBegin \/ ArgEnd)
  <2>1. rd'.state \notin ArgStates \cup {"done"}
    BY <1>5, HeaderOnly DEF ReaderNext
  <2>. QED  BY <2>1 DEF ArgPlace
<1>. QED  BY <1>1, <1>2, <1>3, <1>4, <1>5

LEMMA UpToIs ==
    ASSUME NEW T, NEW s \in Seq(T), NEW n \in Nat
    PROVE  /\ UpTo(n, s) \in Seq(T)
           /\ Len(UpTo(n, s)) = IF n < Len(s) THEN n ELSE Len(s)
           /\ \A i \in 1 .. Len(UpTo(n, s)) : UpTo(n, s)[i] = s[i]
<1>. DEFINE k == IF n < Len(s) THEN n ELSE Len(s)
            u == SubSeq(s, 1, k)
<1>1. Len(s) \in Nat
  BY LenProperties
<1>2. k \in 0 .. Len(s)
  BY <1>1
<1>3. UpTo(n, s) = u
  BY DEF UpTo
<1>. HIDE DEF k
<1>4. u \in Seq(T) /\ Len(u) = k /\ \A i \in 1 .. k : u[i] = s[i]
  <2>1. 1 \in 1 .. Len(s) + 1 /\ k \in 1 - 1 .. Len(s) /\ k - 1 + 1 = k
    BY <1>1, <1>2
  <2>2. /\ u \in Seq(T) /\ Len(u) = (IF 1 <= k THEN k - 1 + 1 ELSE 0)
        /\ \A i \in 1 .. k - 1 + 1 : u[i] = s[1 + i - 1]
    BY <2>1, SubSeqProperties
  <2>3. Len(u) = k /\ \A i \in 1 .. k : 1 + i - 1 = i
    BY <1>1, <1>2, <2>1, <2>2
  <2>. QED  BY <2>1, <2>2, <2>3
<1>. QED  BY <1>3, <1>4 DEF k

LEMMA FirstLineIs ==
    ASSUME NEW T, sent \in Requests, sent.args \in Seq(T)
    PROVE  /\ FirstLine \in Seq(T) /\ Len(FirstLine) = InLine(sent)
           /\ \A i \in 1 .. InLine(sent) : FirstLine[i] = sent.args[i]
<1>. DEFINE N == Len(sent.args)
<1>1. N \in Nat /\ (N = 0 <=> sent.args = <<>>)
  BY EmptySeq, LenProperties
<1>2. CASE sent.inquery \/ sent.sep = "amp"
  BY <1>2 DEF FirstLine, InLine
<1>3. CASE ~(sent.inquery \/ sent.sep = "amp")
  <2>1. FirstLine = UpTo(1, sent.args) /\ 1 \in Nat
    BY <1>3 DEF FirstLine
  <2>2. /\ FirstLine \in Seq(T) /\ Len(FirstLine) = (IF 1 < N THEN 1 ELSE N)
        /\ \A i \in 1 .. Len(FirstLine) : FirstLine[i] = sent.args[i]
    BY <2>1, UpToIs
  <2>3. InLine(sent) = IF N = 0 THEN N ELSE 1
    BY <1>1, <1>3 DEF InLine
  <2>. HIDE DEF N
  <2>4. Len(FirstLine) = InLine(sent)
    BY <1>1, <2>2, <2>3
  <2>. QED  BY <2>2, <2>4
<1>. QED  BY <1>2, <1>3

LEMMA PlaceIsSent == ReaderTyped /\ ArgInv => ArgsAreSent
<1>. SUFFICES ASSUME ReaderTyped, ArgInv, clean, rd.state \in ArgStates \cup {"done"}
              PROVE  /\ UpTo(Len(FirstLine), msg.args) = UpTo(Cardinality(Ends), FirstLine)
                     /\ rd.state = "done" /\ sent.inquery /\ sent.method \in {"GET", "POST"}
                        /\ rd.total < MaxTrunk => msg.args = sent.args
  BY DEF ArgsAreSent
<1>. DEFINE m == InLine(sent)
            args == msg.args
            all == sent.args
            z == Cardinality(Ends)
            F == FirstLine
            L == UpTo(m, args)
            R == UpTo(z, F)
<1>1. sent \in Requests /\ args \in Seq(Argument) /\ z \in Nat
  BY EndsFinite DEF ReaderTyped, ArgInv, ArgsTyped
<1>2. all \in Seq(Argument)
  BY <1>1, SentArguments
<1>3. m \in Nat /\ m <= Len(all) /\ Len(all) \in Nat /\ (sent.inquery => m = Len(all))
  <2>1. m \in 0 .. Len(all) /\ Len(all) \in Nat
    BY <1>1, LinesArgs
  <2>2. sent.inquery => m = Len(all)
    BY DEF InLine
  <2>. HIDE DEF m, all
  <2>. QED  BY <2>1, <2>2
<1>4. F \in Seq(Argument) /\ Len(F) = m /\ \A i \in 1 .. m : F[i] = all[i]
  BY <1>1, <1>2, FirstLineIs
<1>. HIDE DEF m, args, all, z, F
<1>5. /\ L \in Seq(Argument) /\ Len(L) = (IF m < Len(args) THEN m ELSE Len(args))
      /\ \A i \in 1 .. Len(L) : L[i] = args[i]
  BY <1>1, <1>3, UpToIs
<1>6. /\ R \in Seq(Argument) /\ Len(R) = (IF z < m THEN z ELSE m)
      /\ \A i \in 1 .. Len(R) : R[i] = F[i]
  BY <1>1, <1>4, UpToIs
<1>. HIDE DEF L, R
<1>7. LineTaken \/ \E c \in 0 .. m - 1 : Reading(c)
  BY DEF ArgInv, ArgPlace, m
<1>8. Len(args) \in Nat
  BY <1>1, LenProperties
<1>9. CASE LineTaken
  <2>1. /\ Len(args) >= m /\ (\A i \in 1 .. m : args[i] = all[i]) /\ z >= m
        /\ sent.inquery => Len(args) = m
    BY <1>9 DEF LineTaken, m, args, all, z
  <2>2. Len(L) = m /\ Len(R) = m
    BY <1>1, <1>3, <1>5, <1>6, <1>8, <2>1
  <2>3. \A i \in 1 .. m : L[i] = R[i]
    BY <1>4, <1>5, <1>6, <2>1, <2>2
  <2>4. L = R
    BY <1>5, <1>6, <2>2, <2>3, SeqEqual
  <2>5. sent.inquery => args = all
    BY <1>1, <1>2, <1>3, <2>1, SeqEqual
  <2>. QED  BY <1>4, <2>4, <2>5 DEF L, R, m, args, all, z, F
<1>10. CASE \E c \in 0 .. m - 1 : Reading(c)
  <2>1. PICK c \in 0 .. m - 1 : Reading(c)
    BY <1>10
  <2>2. /\ Len(args) = c /\ Begins(args, all) /\ z = c
        /\ rd.state = "done" => ~(sent.inquery /\ Read(sent) /\ rd.total < MaxTrunk)
    BY <2>1 DEF Reading, args, all, z
  <2>3. c \in Nat /\ c < m
    BY <1>3
  <2>4. Len(L) = c /\ Len(R) = c
    BY <1>3, <1>5, <1>6, <2>2, <2>3
  <2>5. \A i \in 1 .. c : i \in 1 .. m
    BY <1>3, <2>3
  <2>6. \A i \in 1 .. c : L[i] = R[i]
    BY <1>4, <1>5, <1>6, <2>2, <2>4, <2>5 DEF Begins
  <2>7. L = R
    BY <1>5, <1>6, <2>4, <2>6, SeqEqual
  <2>. QED  BY <1>4, <2>2, <2>7 DEF L, R, m, args, all, z, F, Read
<1>. QED  BY <1>7, <1>9, <1>10

\* The arguments taken from such a request are, in their order and as they were
\* written, those the client sent, and of a query within MAXTRUNK none is missing
\* (src/src/http/vector_body.cpp).
THEOREM ArgsSent == ReaderSpec => []ArgsAreSent
<1>1. ReaderInit => ArgInv
  <2>. SUFFICES ASSUME ReaderInit PROVE ArgInv
    OBVIOUS
  <2>1. rd.state = "start" /\ msg.args = <<>>
    BY DEF ReaderInit, NoMsg
  <2>2. <<>> \in Seq(Argument)
    BY EmptySeq
  <2>. QED  BY <2>1, <2>2 DEF ArgInv, ArgsTyped, ArgStream, ArgPlace, ArgStates
<1>2. ReaderTyped /\ CleanInv /\ ArgInv /\ [ReaderNext]_rvars => ArgInv'
  <2>. SUFFICES ASSUME ReaderTyped, CleanInv, ArgInv, [ReaderNext]_rvars PROVE ArgInv'
    OBVIOUS
  <2>1. CASE ReaderNext
    BY <2>1, ArgsTypedStep, StreamKept, PlaceKept DEF ArgInv
  <2>2. CASE UNCHANGED rvars
    <3>1. ArgsTyped' /\ ArgStream'
      BY <2>2 DEF ArgInv, ArgsTyped, ArgStream, rvars
    <3>2. Ends' = Ends
      BY <2>2 DEF Ends, rvars
    <3>3. /\ LineTaken => LineTaken'
          /\ \A c \in 0 .. InLine(sent) - 1 : Reading(c) => Reading(c)'
      BY <2>2, <3>2 DEF LineTaken, Reading, rvars
    <3>4. ArgPlace'
      BY <2>2, <3>3 DEF ArgInv, ArgPlace, rvars
    <3>. QED  BY <3>1, <3>4 DEF ArgInv
  <2>. QED  BY <2>1, <2>2
<1>. QED  BY <1>1, <1>2, TypedInit, TypedStep, CleanInit, CleanStep, PlaceIsSent, PTL DEF ReaderSpec

=============================================================================
