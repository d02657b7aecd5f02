----------------------------- MODULE SiteProofs -----------------------------
(***************************************************************************)
(* Proofs about Conf and Site for any lines, numbers and paths, and files  *)
(* of any length: what the reader makes of a file, line by line, is what   *)
(* the file says as a whole, and requests are answered by it.              *)
(***************************************************************************)
EXTENDS Site, SequenceTheorems, WellFoundedInduction, TLAPS

\* The lines read so far, and the file and what is left of it
At == Len(text) - Len(conf_istrm)

StreamInv ==
    /\ text \in Seq(Lines) /\ conf_istrm \in Seq(Lines)
    /\ Len(conf_istrm) <= Len(text)
    /\ \A i \in 1 .. Len(conf_istrm) : conf_istrm[i] = text[At + i]

\* Line i begins the section of this name that the reader is in.
In(name, i) ==
    /\ i \in Sections(name) /\ i <= At
    /\ \A k \in i + 1 .. At : k \notin Headings

\* The parser of a section runs exactly where the file has such a section; read's
\* own loop sees a line only if it belongs to none.
SectionInv ==
    outcome = "reading" =>
        /\ section # "none" => \E i \in DOMAIN text : In(section, i)
        /\ section = "none" /\ LineAhead =>
              \A i \in DOMAIN text : ~In("global", i) /\ ~In("host", i)

\* No line was passed that should end the reading, and it ended at one.
Bad == Failing \cup Throwing

CauseInv ==
    /\ outcome \in {"reading", "read"} => \A j \in 1 .. At : j \notin Bad
    /\ outcome = "read" => At = Len(text)
    /\ outcome \in {"failed", "thrown"} =>
          /\ At \in IF outcome = "failed" THEN Failing ELSE Throwing
          /\ \A j \in 1 .. At - 1 : j \notin Bad

\* The pairs that set a key, and what those among the first n lines make of it
Setting(key) ==
    {j \in With(key, GlobalPairs) : key = "loglevel" => text[j].value \in Levels}

WrittenBy(key, n) ==
    LET pairs == {j \in Setting(key) : j <= n}
        value == text[Max(pairs)].value
    IN  IF pairs = {} THEN Defaults[key]
        ELSE IF key \in NumberKeys THEN Number[value] ELSE value

SettingsInv ==
    /\ DOMAIN conf = DOMAIN Defaults
    /\ outcome \in {"reading", "read"} =>
          \A key \in DOMAIN Defaults : conf[key] = WrittenBy(key, At)

ConfInv == ConfTypeOK /\ StreamInv /\ SectionInv /\ CauseInv /\ SettingsInv

\* What the first n lines say of the host whose section begins with line i: its
\* docroot is that of the last pair if this is one, and "." if it is another.
NameBy(i, n) ==
    LET pairs == {j \in With("servername", PairsOf(i)) : j <= n}
    IN  IF pairs = {} THEN "" ELSE text[Max(pairs)].value

RootBy(i, n) ==
    LET pairs == {j \in PairsOf(i) : j <= n}
        last  == text[Max(pairs)]
    IN  IF pairs = {} THEN ""
        ELSE IF last.key = "docroot" THEN last.value ELSE "."

HostBy(i, n) == [servername |-> NameBy(i, n), docroot |-> RootBy(i, n)]

\* The sections of hosts that are behind the reader
Passed == {i \in Sections("host") : i <= At /\ ~(section = "host" /\ In("host", i))}

\* The hosts are those of these sections, in the order of the file.
HostsInv ==
    outcome \in {"reading", "read"} =>
        /\ hosts \in Seq({HostBy(i, Len(text)) : i \in Sections("host")})
        /\ section = "host" => \A i \in DOMAIN text : In("host", i) => host = HostBy(i, At)
        /\ \E s \in [1 .. Len(hosts) -> Passed] :
              /\ \A k, m \in 1 .. Len(hosts) : k < m => s[k] < s[m]
              /\ \A i \in Passed : \E k \in 1 .. Len(hosts) : s[k] = i
              /\ \A k \in 1 .. Len(hosts) : hosts[k] = HostBy(s[k], Len(text))
        /\ outcome = "read" => section = "none"

\* The gateway has the hosts of the file, and answers by them.
ServingInv ==
    /\ phase = "conf" => request = NoHeader
    /\ phase = "serving" => outcome = "read" /\ Hosts = Inserted
    /\ phase = "serving" /\ request # NoHeader =>
          root = IF HostOf(request) = conf.defaulthost THEN conf.docroot
                 ELSE IF HostOf(request) \in DOMAIN Hosts THEN Hosts[HostOf(request)]
                 ELSE NoHeader

SiteInv == ConfInv /\ HostsInv /\ ServingInv

-----------------------------------------------------------------------------
(* Numbers                                                                  *)

LEMMA Least ==
    ASSUME NEW S, S \subseteq Nat, S # {}
    PROVE  \E n \in S : \A m \in S : n <= m
<1>. DEFINE R == OpToRel(<, Nat)
<1>1. IsWellFoundedOn(R, Nat)
  BY NatLessThanWellFounded
<1>2. R = {ss \in Nat \X Nat : ss[1] < ss[2]}
  BY DEF OpToRel
<1>. HIDE DEF R
<1>3. PICK n \in S : \A m \in S : ~(<<m, n>> \in R)
  BY <1>1, WFMin
<1>4. \A m \in S : <<m, n>> \notin R => n <= m
  BY <1>2
<1>. QED  BY <1>3, <1>4

LEMMA MinIsLeast ==
    ASSUME NEW S, S \subseteq Nat, S # {}
    PROVE  Min(S) \in S /\ \A m \in S : Min(S) <= m
<1>1. PICK n \in S : \A m \in S : n <= m
  BY Least
<1>. QED  BY <1>1 DEF Min

\* What is below all others, or above them, is what Min and Max choose.
LEMMA MinIs ==
    ASSUME NEW S, S \subseteq Int, NEW n \in S, \A m \in S : n <= m
    PROVE  Min(S) = n
<1>1. \A x \in S : (\A m \in S : x <= m) => x = n
  <2>1. \A a, b \in Int : a <= b /\ b <= a => a = b
    OBVIOUS
  <2>. QED  BY <2>1
<1>. QED  BY <1>1 DEF Min

LEMMA MaxIs ==
    ASSUME NEW S, S \subseteq Int, NEW n \in S, \A m \in S : n >= m
    PROVE  Max(S) = n
<1>1. \A x \in S : (\A m \in S : x >= m) => x = n
  <2>1. \A a, b \in Int : a >= b /\ b >= a => a = b
    OBVIOUS
  <2>. QED  BY <2>1
<1>. QED  BY <1>1 DEF Max

LEMMA MaxIsGreatest ==
    ASSUME NEW k \in Nat, NEW S, S \subseteq 1 .. k, S # {}
    PROVE  Max(S) \in S /\ \A m \in S : Max(S) >= m
<1>. DEFINE T == {k - n : n \in S}
<1>1. \A n \in S : n \in Int /\ k - n \in Nat
  <2>1. \A n \in 1 .. k : n \in Int /\ k - n \in Nat
    OBVIOUS
  <2>. QED  BY <2>1
<1>2. T \subseteq Nat /\ T # {}
  <2>1. PICK x \in S : TRUE
    OBVIOUS
  <2>2. k - x \in T
    BY <2>1
  <2>. QED  BY <1>1, <2>2
<1>3. PICK t \in T : \A u \in T : t <= u
  <2>. HIDE DEF T
  <2>. QED  BY <1>2, Least
<1>4. PICK n \in S : t = k - n
  BY <1>3
<1>5. \A m \in S : k - n <= k - m
  BY <1>3, <1>4
<1>6. \A m \in S : n >= m
  BY <1>1, <1>5
<1>. QED  BY <1>6 DEF Max

-----------------------------------------------------------------------------
(* The file                                                                 *)

\* One line is read: the next of the file.
LEMMA LineRead ==
    ASSUME StreamInv, conf_istrm # <<>>, conf_istrm' = Tail(conf_istrm), text' = text
    PROVE  /\ StreamInv' /\ At' = At + 1 /\ At \in Nat
           /\ At + 1 \in DOMAIN text /\ line1 = text[At + 1] /\ line1 \in Lines
<1>. DEFINE N == Len(text)  M == Len(conf_istrm)
<1>1. N \in Nat /\ M \in Nat /\ M >= 1 /\ DOMAIN text = 1 .. N /\ M <= N
  BY LenProperties DEF StreamInv
<1>2. /\ conf_istrm' \in Seq(Lines) /\ Len(conf_istrm') = M - 1
      /\ \A i \in 1 .. M - 1 : conf_istrm'[i] = conf_istrm[i + 1]
  BY HeadTailProperties DEF StreamInv
<1>3. At' = N - (M - 1) /\ At = N - M
  BY <1>2 DEF At
<1>4. line1 = conf_istrm[1] /\ conf_istrm[1] = text[At + 1]
  BY <1>1 DEF line1, StreamInv
<1>. HIDE DEF N, M
<1>5. At' = At + 1 /\ At \in Nat /\ At + 1 \in 1 .. N
  BY <1>1, <1>3
<1>6. line1 \in Lines
  BY <1>1, <1>4, <1>5 DEF StreamInv
<1>7. \A i \in 1 .. M - 1 : conf_istrm'[i] = text[At' + i]
  <2>1. \A i \in 1 .. M - 1 : i + 1 \in 1 .. M /\ At + (i + 1) = At' + i
    BY <1>1, <1>5
  <2>2. \A i \in 1 .. M : conf_istrm[i] = text[At + i]
    BY DEF M, StreamInv
  <2>. QED  BY <1>2, <2>1, <2>2
<1>8. StreamInv'
  <2>1. Len(conf_istrm') = M - 1 /\ M - 1 <= N
    BY <1>1, <1>2
  <2>. QED  BY <1>2, <1>7, <2>1 DEF StreamInv, N
<1>. QED  BY <1>1, <1>4, <1>5, <1>6, <1>8

LEMMA NothingRead ==
    ASSUME UNCHANGED <<conf_istrm, text>>
    PROVE  At' = At /\ (StreamInv => StreamInv')
BY DEF At, StreamInv

LEMMA AtInFile ==
    ASSUME StreamInv
    PROVE  /\ At \in Nat /\ Len(text) \in Nat /\ At <= Len(text)
           /\ DOMAIN text = 1 .. Len(text)
           /\ conf_istrm = <<>> => At = Len(text)
           /\ conf_istrm # <<>> => At + 1 \in DOMAIN text /\ line1 = text[At + 1]
<1>. DEFINE N == Len(text)  M == Len(conf_istrm)
<1>1. N \in Nat /\ M \in Nat /\ DOMAIN text = 1 .. N /\ M <= N /\ At = N - M
  BY LenProperties DEF StreamInv, At
<1>2. conf_istrm = <<>> => M = 0
  BY DEF M
<1>3. conf_istrm # <<>> => M >= 1 /\ line1 = conf_istrm[1]
  BY LenProperties DEF StreamInv, line1
<1>4. conf_istrm # <<>> => conf_istrm[1] = text[At + 1]
  <2>1. \A i \in 1 .. M : conf_istrm[i] = text[At + i]
    BY DEF StreamInv
  <2>. QED  BY <1>1, <1>3, <2>1
<1>. HIDE DEF N, M
<1>5. At \in Nat /\ At <= N /\ (conf_istrm # <<>> => At + 1 \in 1 .. N)
  BY <1>1, <1>3
<1>6. conf_istrm = <<>> => At = N
  BY <1>1, <1>2
<1>. QED  BY <1>1, <1>3, <1>4, <1>5, <1>6 DEF N

\* What the file says does not change.
LEMMA SameFile ==
    ASSUME text' = text
    PROVE  /\ Headings' = Headings /\ GlobalPairs' = GlobalPairs
           /\ Failing' = Failing /\ Throwing' = Throwing /\ Bad' = Bad
           /\ \A name : Sections(name)' = Sections(name)
           /\ \A i : LinesOf(i)' = LinesOf(i) /\ PairsOf(i)' = PairsOf(i)
           /\ \A key : Setting(key)' = Setting(key)
           /\ \A key, n : WrittenBy(key, n)' = WrittenBy(key, n)
           /\ \A i, n : HostBy(i, n)' = HostBy(i, n)
<1>1. Headings' = Headings
  BY DEF Headings
<1>2. \A name : Sections(name)' = Sections(name)
  BY <1>1 DEF Sections
<1>3. \A i : LinesOf(i)' = LinesOf(i)
  BY <1>1 DEF LinesOf
<1>4. \A i : PairsOf(i)' = PairsOf(i)
  BY <1>3 DEF PairsOf
<1>5. GlobalPairs' = GlobalPairs
  BY <1>2, <1>4 DEF GlobalPairs
<1>6. Misplaced' = Misplaced
  BY <1>1, <1>2, <1>3 DEF Misplaced
<1>7. Failing' = Failing /\ Throwing' = Throwing /\ Bad' = Bad
  BY <1>5, <1>6 DEF Failing, Throwing, Bad
<1>8. \A key : Setting(key)' = Setting(key)
  BY <1>5 DEF Setting, With
<1>9. \A key, n : WrittenBy(key, n)' = WrittenBy(key, n)
  BY <1>8 DEF WrittenBy
<1>10. \A i, n : HostBy(i, n)' = HostBy(i, n)
  BY <1>4 DEF HostBy, NameBy, RootBy, With
<1>. QED  BY <1>1, <1>2, <1>3, <1>4, <1>5, <1>7, <1>8, <1>9, <1>10

\* A line belongs to one section.
LEMMA SectionsApart ==
    ASSUME DOMAIN text \subseteq Int,
           NEW i \in Headings, NEW g \in Headings, NEW j \in LinesOf(i), j \in LinesOf(g)
    PROVE  i = g
<1>1. /\ i \in Int /\ g \in Int /\ j \in Int /\ j > i /\ j > g
      /\ \A k \in i + 1 .. j : k # g
      /\ \A k \in g + 1 .. j : k # i
  BY DEF LinesOf, Headings
<1>2. ~(i < g) /\ ~(g < i)
  BY <1>1
<1>. QED  BY <1>1, <1>2

-----------------------------------------------------------------------------
(* The section the reader is in                                             *)

LEMMA LineIn ==
    ASSUME StreamInv, NEW name, NEW i \in DOMAIN text, In(name, i), LineAhead
    PROVE  i \in Headings /\ At + 1 \in LinesOf(i) /\ At + 1 \notin Headings
<1>1. /\ At \in Nat /\ At + 1 \in DOMAIN text /\ At + 1 \notin Headings
      /\ DOMAIN text = 1 .. Len(text)
  BY AtInFile DEF LineAhead, Headings
<1>2. i \in Headings /\ i \in Int /\ i <= At /\ \A k \in i + 1 .. At : k \notin Headings
  BY <1>1 DEF In, Sections
<1>3. \A k \in i + 1 .. At + 1 : k \in i + 1 .. At \/ k = At + 1
  BY <1>1, <1>2
<1>4. \A k \in i + 1 .. At + 1 : k \notin Headings
  BY <1>1, <1>2, <1>3
<1>5. At + 1 > i
  BY <1>1, <1>2
<1>. QED  BY <1>1, <1>2, <1>4, <1>5 DEF LinesOf

\* The reader stays in its section with a line, and a heading begins another.
LEMMA StaysIn ==
    ASSUME StreamInv, text' = text, At' = At + 1, At + 1 \notin Headings,
           NEW name, NEW i \in DOMAIN text
    PROVE  In(name, i)' <=> In(name, i)
<1>1. At \in Nat /\ i \in Int /\ Headings' = Headings /\ Sections(name)' = Sections(name)
  BY AtInFile, SameFile
<1>2. i \in Sections(name) => i # At + 1
  BY DEF Sections
<1>3. /\ i # At + 1 => (i <= At <=> i <= At + 1)
      /\ \A k \in i + 1 .. At + 1 : k \in i + 1 .. At \/ k = At + 1
      /\ \A k \in i + 1 .. At : k \in i + 1 .. At + 1
  BY <1>1
<1>4. (\A k \in i + 1 .. At + 1 : k \notin Headings)
          <=> (\A k \in i + 1 .. At : k \notin Headings)
  BY <1>3
<1>. QED  BY <1>1, <1>2, <1>3, <1>4 DEF In

LEMMA BeginsAt ==
    ASSUME StreamInv, text' = text, At' = At + 1, At + 1 \in Headings,
           NEW name, NEW i \in DOMAIN text
    PROVE  In(name, i)' <=> (i = At + 1 /\ i \in Sections(name))
<1>1. At \in Nat /\ i \in Int /\ Headings' = Headings /\ Sections(name)' = Sections(name)
  BY AtInFile, SameFile
<1>2. /\ i <= At => At + 1 \in i + 1 .. At + 1
      /\ i <= At + 1 => i <= At \/ i = At + 1
      /\ \A k \in (At + 1) + 1 .. At + 1 : FALSE
  BY <1>1
<1>3. i <= At => ~In(name, i)'
  BY <1>1, <1>2 DEF In
<1>4. i = At + 1 /\ i \in Sections(name) => In(name, i)'
  BY <1>1, <1>2 DEF In
<1>5. In(name, i)' => i \in Sections(name) /\ i <= At + 1
  BY <1>1 DEF In
<1>. QED  BY <1>2, <1>3, <1>4, <1>5

\* What a line ahead is to the file, by the section that the reader is in
LEMMA GlobalAhead ==
    ASSUME StreamInv, NEW i \in DOMAIN text, In("global", i), LineAhead
    PROVE  /\ At + 1 \in GlobalPairs <=> line1.is = "pair"
           /\ At + 1 \in Failing <=> /\ line1.is = "pair" /\ line1.key \in PathKeys
                                     /\ line1.value \notin Accessible
           /\ At + 1 \in Throwing <=> /\ line1.is = "pair" /\ line1.key \in NumberKeys
                                      /\ line1.value \notin DOMAIN Number
<1>1. /\ i \in Sections("global") /\ At + 1 \in LinesOf(i)
      /\ line1 = text[At + 1]
  BY LineIn, AtInFile DEF In, LineAhead
<1>2. At + 1 \notin Misplaced
  BY <1>1 DEF Misplaced
<1>3. At + 1 \in GlobalPairs <=> line1.is = "pair"
  BY <1>1 DEF GlobalPairs, PairsOf
<1>. QED  BY <1>1, <1>2, <1>3 DEF Failing, Throwing

LEMMA HostAhead ==
    ASSUME StreamInv, NEW i \in DOMAIN text, In("host", i), LineAhead
    PROVE  At + 1 \notin GlobalPairs /\ At + 1 \notin Bad
<1>1. /\ i \in Sections("host") /\ i \in Headings /\ At + 1 \in LinesOf(i)
      /\ DOMAIN text \subseteq Int
  BY LineIn, AtInFile DEF In, LineAhead
<1>2. At + 1 \notin Misplaced
  BY <1>1 DEF Misplaced
<1>3. \A g \in Sections("global") : At + 1 \notin LinesOf(g)
  <2>1. \A g \in Sections("global") : g \in Headings /\ g # i
    BY <1>1 DEF Sections
  <2>. QED  BY <1>1, <2>1, SectionsApart
<1>4. At + 1 \notin GlobalPairs
  BY <1>3 DEF GlobalPairs, PairsOf
<1>. QED  BY <1>2, <1>4 DEF Bad, Failing, Throwing

LEMMA HeadingIsNoLine ==
    ASSUME DOMAIN text \subseteq Int, NEW j \in Headings
    PROVE  j \notin GlobalPairs /\ j \notin Bad
<1>1. \A g \in DOMAIN text : j \notin LinesOf(g)
  <2>1. \A g \in Int, m \in Int : m > g => m \in g + 1 .. m
    OBVIOUS
  <2>. QED  BY <2>1 DEF LinesOf, Headings
<1>2. j \notin GlobalPairs
  BY <1>1 DEF GlobalPairs, PairsOf, Sections, Headings
<1>. QED  BY <1>2 DEF Bad, Failing, Throwing, Misplaced

LEMMA NobodysLine ==
    ASSUME StreamInv, LineAhead,
           \A i \in DOMAIN text : ~In("global", i) /\ ~In("host", i)
    PROVE  At + 1 \in Failing
<1>1. /\ At \in Nat /\ At + 1 \in DOMAIN text \ Headings /\ DOMAIN text \subseteq Int
  BY AtInFile DEF LineAhead, Headings
<1>2. ASSUME NEW name \in {"global", "host"}, NEW i \in Sections(name)
      PROVE  At + 1 \notin LinesOf(i)
  <2>1. i \in DOMAIN text /\ i \in Int /\ ~In(name, i)
    BY <1>1, <1>2 DEF Sections, Headings
  <2>2. i <= At => \E k \in i + 1 .. At : k \in Headings
    BY <1>2, <2>1 DEF In
  <2>3. \A k \in i + 1 .. At : k \in i + 1 .. At + 1
    BY <1>1, <2>1
  <2>4. At + 1 > i => i <= At
    BY <1>1, <2>1
  <2>. QED  BY <2>2, <2>3, <2>4 DEF LinesOf
<1>. QED  BY <1>1, <1>2 DEF Failing, Misplaced

-----------------------------------------------------------------------------
(* The settings                                                             *)

LEMMA PairsInFile ==
    ASSUME StreamInv
    PROVE  /\ GlobalPairs \subseteq DOMAIN text /\ DOMAIN text \subseteq Int
           /\ \A key : Setting(key) \subseteq GlobalPairs
           /\ \A i : PairsOf(i) \subseteq DOMAIN text
           /\ Failing \subseteq DOMAIN text /\ Throwing \subseteq DOMAIN text
<1>1. DOMAIN text \subseteq Int /\ \A i : PairsOf(i) \subseteq DOMAIN text
  BY AtInFile DEF PairsOf, LinesOf
<1>2. GlobalPairs \subseteq DOMAIN text
  BY <1>1 DEF GlobalPairs
<1>. QED  BY <1>1, <1>2 DEF Setting, With, Failing, Throwing, Misplaced

LEMMA WrittenMore ==
    ASSUME StreamInv, NEW n \in Nat, NEW key
    PROVE  /\ n + 1 \notin Setting(key) => WrittenBy(key, n + 1) = WrittenBy(key, n)
           /\ n + 1 \in Setting(key) =>
                 WrittenBy(key, n + 1) = IF key \in NumberKeys
                                         THEN Number[text[n + 1].value]
                                         ELSE text[n + 1].value
<1>. DEFINE P(m) == {j \in Setting(key) : j <= m}
<1>1. Setting(key) \subseteq Int
  BY PairsInFile
<1>2. n + 1 \notin Setting(key) => P(n + 1) = P(n)
  <2>1. \A j \in Int : j <= n + 1 <=> j <= n \/ j = n + 1
    OBVIOUS
  <2>. QED  BY <1>1, <2>1
<1>3. n + 1 \in Setting(key) => Max(P(n + 1)) = n + 1 /\ P(n + 1) # {}
  <2>1. ASSUME n + 1 \in Setting(key)
        PROVE  n + 1 \in P(n + 1) /\ P(n + 1) \subseteq Int /\ \A j \in P(n + 1) : n + 1 >= j
    BY <1>1, <2>1
  <2>. HIDE DEF P
  <2>. QED  BY <2>1, MaxIs
<1>4. WrittenBy(key, n + 1) = IF P(n + 1) = {} THEN Defaults[key]
                              ELSE IF key \in NumberKeys THEN Number[text[Max(P(n + 1))].value]
                              ELSE text[Max(P(n + 1))].value
  BY DEF WrittenBy
<1>5. WrittenBy(key, n) = IF P(n) = {} THEN Defaults[key]
                          ELSE IF key \in NumberKeys THEN Number[text[Max(P(n))].value]
                          ELSE text[Max(P(n))].value
  BY DEF WrittenBy
<1>. HIDE DEF P
<1>. QED  BY <1>2, <1>3, <1>4, <1>5

\* In the end it is what the whole file says.
LEMMA WrittenInAll ==
    ASSUME StreamInv, NEW key
    PROVE  WrittenBy(key, Len(text)) = Written(key)
<1>1. \A j \in Setting(key) : j <= Len(text)
  <2>1. Setting(key) \subseteq 1 .. Len(text)
    BY PairsInFile, AtInFile
  <2>. QED  BY <2>1
<1>2. {j \in Setting(key) : j <= Len(text)} = Setting(key)
  BY <1>1
<1>. QED  BY <1>2 DEF WrittenBy, Written, Setting

\* The reader passes a line, and sets what it says.
LEMMA Passes ==
    ASSUME StreamInv, CauseInv, SettingsInv, outcome = "reading", outcome' = "reading",
           text' = text, At' = At + 1, At + 1 \notin Bad,
           DOMAIN conf' = DOMAIN conf,
           \A key \in DOMAIN Defaults :
               \/ At + 1 \notin Setting(key) /\ conf'[key] = conf[key]
               \/ /\ At + 1 \in Setting(key)
                  /\ conf'[key] = IF key \in NumberKeys THEN Number[text[At + 1].value]
                                  ELSE text[At + 1].value
    PROVE  CauseInv' /\ SettingsInv'
<1>1. /\ At \in Nat /\ Bad' = Bad
      /\ \A key, n : WrittenBy(key, n)' = WrittenBy(key, n)
  BY AtInFile, SameFile
<1>2. CauseInv'
  <2>1. \A j \in 1 .. At' : j \in 1 .. At \/ j = At + 1
    BY <1>1
  <2>2. \A j \in 1 .. At' : j \notin Bad
    BY <2>1 DEF CauseInv
  <2>. QED  BY <1>1, <2>2 DEF CauseInv
<1>3. \A key \in DOMAIN Defaults : conf'[key] = WrittenBy(key, At + 1)
  <2>1. \A key \in DOMAIN Defaults : conf[key] = WrittenBy(key, At)
    BY DEF SettingsInv
  <2>. QED  BY <1>1, <2>1, WrittenMore
<1>4. SettingsInv'
  BY <1>1, <1>3 DEF SettingsInv
<1>. QED  BY <1>2, <1>4

\* It ends with a line, because of it.
LEMMA EndsAtLine ==
    ASSUME StreamInv, CauseInv, SettingsInv, outcome = "reading",
           outcome' \in {"failed", "thrown"}, text' = text, At' = At + 1, conf' = conf,
           At + 1 \in IF outcome' = "failed" THEN Failing ELSE Throwing
    PROVE  CauseInv' /\ SettingsInv' /\ SectionInv'
<1>1. At \in Nat /\ Bad' = Bad /\ Failing' = Failing /\ Throwing' = Throwing
  BY AtInFile, SameFile
<1>2. At' - 1 = At /\ \A j \in 1 .. At : j \notin Bad
  BY <1>1 DEF CauseInv
<1>. QED  BY <1>1, <1>2 DEF CauseInv, SettingsInv, SectionInv

-----------------------------------------------------------------------------
(* The steps of the reader                                                  *)

LEMMA ConfInitInv == ConfInit => ConfInv
<1> SUFFICES ASSUME ConfInit PROVE ConfInv
  OBVIOUS
<1>1. text \in Seq(Lines) /\ Len(text) \in Nat /\ conf_istrm = text /\ section = "none"
  <2>1. PICK n \in 0 .. MaxLines : text \in [1 .. n -> Lines]
    BY DEF ConfInit
  <2>2. n \in Nat
    BY ConfAssumption
  <2>3. text \in Seq(Lines)
    BY <2>1, <2>2, SeqDef
  <2>. QED  BY <2>3, LenProperties DEF ConfInit
<1>2. At = 0 /\ StreamInv
  <2>1. At = Len(text) - Len(text) /\ \A n \in Nat : n - n = 0 /\ n <= n
    BY <1>1 DEF At
  <2>2. At = 0 /\ Len(conf_istrm) <= Len(text)
    BY <1>1, <2>1
  <2>3. \A i \in 1 .. Len(conf_istrm) : At + i = i
    BY <1>1, <2>2
  <2>. QED  BY <1>1, <2>2, <2>3 DEF StreamInv
<1>3. ConfTypeOK
  <2>1. conf_istrm \in Seq(Lines) /\ section \in {"none", "global", "host"}
    BY <1>1
  <2>2. host.servername = "" /\ host.docroot = ""
    BY DEF ConfInit
  <2>3. outcome \in {"reading", "read"}
    BY DEF ConfInit
  <2>4. /\ conf.port = 8080 /\ conf.threadcnt = 4 /\ conf.cachesnum = 32
        /\ conf.loglevel = "info"
    <3>1. conf = Defaults
      BY DEF ConfInit
    <3>2. Defaults.port = 8080
      BY ONLY SMTT(30) DEF Defaults
    <3>3. Defaults.threadcnt = 4
      BY ONLY SMTT(30) DEF Defaults
    <3>4. Defaults.cachesnum = 32
      BY ONLY SMTT(30) DEF Defaults
    <3>5. Defaults.loglevel = "info"
      BY ONLY SMTT(30) DEF Defaults
    <3>. QED  BY ONLY <3>1, <3>2, <3>3, <3>4, <3>5
  <2>5. \A key \in NumberKeys : conf[key] \in Int
    BY <2>4 DEF NumberKeys
  <2>6. host.servername \in Values \cup {""} /\ host.docroot \in Values \cup {"", "."}
    BY <2>2
  <2>7. conf.loglevel \in Levels
    BY <2>4 DEF Levels
  <2>8. outcome \in {"reading", "read", "failed", "thrown"}
    BY <2>3
  <2>. QED  BY <2>1, <2>5, <2>6, <2>7, <2>8 DEF ConfTypeOK
<1>4. \A i \in DOMAIN text : \A name : ~In(name, i)
  BY <1>1, <1>2 DEF In
<1>5. SectionInv
  BY <1>1, <1>4 DEF SectionInv
<1>6. CauseInv
  <2>1. outcome = "read" => Len(text) = 0
    <3>1. outcome = "read" => text = <<>>
      BY DEF ConfInit
    <3>2. Len(<<>>) = 0
      OBVIOUS
    <3>. QED  BY <3>1, <3>2
  <2>2. outcome \in {"reading", "read"}
    BY DEF ConfInit
  <2>3. \A j \in 1 .. At : FALSE
    BY <1>2
  <2>. QED  BY <1>2, <2>1, <2>2, <2>3 DEF CauseInv
<1>7. SettingsInv
  <2>1. \A key : \A j \in Setting(key) : ~(j <= 0)
    BY <1>2, PairsInFile, AtInFile
  <2>2. \A key : WrittenBy(key, 0) = Defaults[key]
    BY <2>1 DEF WrittenBy
  <2>. QED  BY <1>2, <2>2 DEF SettingsInv, ConfInit
<1>. QED  BY <1>2, <1>3, <1>5, <1>6, <1>7 DEF ConfInv

LEMMA HeadingStep ==
    ASSUME ConfInv, Heading
    PROVE  ConfInv'
<1>. USE DEF ConfInv
<1>1. /\ outcome = "reading" /\ HeadingAhead
      /\ section' = IF line1.key \in {"global", "host"} THEN line1.key ELSE "none"
      /\ host' = [servername |-> "", docroot |-> ""]
      /\ conf_istrm' = Tail(conf_istrm)
      /\ UNCHANGED <<conf, hosts, outcome, text>>
  BY DEF Heading
<1>2. /\ StreamInv' /\ At' = At + 1 /\ At \in Nat /\ At + 1 \in DOMAIN text
      /\ line1 = text[At + 1] /\ At + 1 \in Headings
  BY <1>1, LineRead DEF HeadingAhead, Headings
<1>3. ConfTypeOK'
  BY <1>1, <1>2 DEF ConfTypeOK, StreamInv
<1>4. At + 1 \notin GlobalPairs /\ At + 1 \notin Bad
  BY <1>2, HeadingIsNoLine, PairsInFile
<1>5. CauseInv' /\ SettingsInv'
  <2>1. \A key : At + 1 \notin Setting(key)
    BY <1>4, PairsInFile
  <2>. QED  BY <1>1, <1>2, <1>4, <2>1, Passes
<1>6. SectionInv'
  <2>1. \A name : \A i \in DOMAIN text : In(name, i)' <=> i = At + 1 /\ i \in Sections(name)
    BY <1>1, <1>2, BeginsAt
  <2>2. At + 1 \in Sections(line1.key) /\ \A name : name # line1.key => At + 1 \notin Sections(name)
    BY <1>2 DEF Sections
  <2>3. section' # "none" => \E i \in DOMAIN text' : In(section, i)'
    <3>1. ASSUME section' # "none"
          PROVE  /\ At + 1 \in Sections(section') /\ At + 1 <= At'
                 /\ \A k \in (At + 1) + 1 .. At' : k \notin Headings
      <4>1. section' = line1.key
        BY <1>1, <3>1
      <4>2. \A k \in (At + 1) + 1 .. At + 1 : FALSE
        BY <1>2
      <4>. QED  BY <1>2, <2>2, <4>1, <4>2
    <3>2. Headings' = Headings /\ text' = text
      BY <1>1, SameFile
    <3>. QED  BY <1>2, <3>1, <3>2 DEF In, Sections
  <2>4. section' = "none" => line1.key # "global" /\ line1.key # "host"
    BY <1>1
  <2>5. section' = "none" => \A i \in DOMAIN text : ~In("global", i)' /\ ~In("host", i)'
    BY <2>1, <2>2, <2>4
  <2>. QED  BY <1>1, <1>2, <2>3, <2>5 DEF SectionInv
<1>. QED  BY <1>2, <1>3, <1>5, <1>6

LEMMA NoHeadingStep ==
    ASSUME ConfInv, NoHeading
    PROVE  ConfInv'
<1>. USE DEF ConfInv
<1>1. /\ outcome = "reading" /\ section = "none" /\ LineAhead /\ outcome' = "failed"
      /\ conf_istrm' = Tail(conf_istrm) /\ UNCHANGED <<section, host, conf, hosts, text>>
  BY DEF NoHeading
<1>2. StreamInv' /\ At' = At + 1
  BY <1>1, LineRead DEF LineAhead
<1>3. ConfTypeOK'
  BY <1>1, <1>2 DEF ConfTypeOK, StreamInv
<1>4. At + 1 \in Failing
  BY <1>1, NobodysLine DEF SectionInv
<1>5. CauseInv' /\ SettingsInv' /\ SectionInv'
  BY <1>1, <1>2, <1>4, EndsAtLine
<1>. QED  BY <1>2, <1>3, <1>5

LEMMA EndOfFileStep ==
    ASSUME ConfInv, EndOfFile
    PROVE  ConfInv'
<1>. USE DEF ConfInv
<1>1. /\ outcome = "reading" /\ conf_istrm = <<>> /\ outcome' = "read"
      /\ UNCHANGED <<conf_istrm, section, host, conf, hosts, text>>
  BY DEF EndOfFile
<1>2. At' = At /\ StreamInv' /\ At = Len(text) /\ Bad' = Bad
      /\ \A key, n : WrittenBy(key, n)' = WrittenBy(key, n)
  BY <1>1, NothingRead, AtInFile, SameFile
<1>3. ConfTypeOK' /\ SectionInv'
  BY <1>1 DEF ConfTypeOK, SectionInv
<1>4. CauseInv' /\ SettingsInv'
  BY <1>1, <1>2 DEF CauseInv, SettingsInv
<1>. QED  BY <1>2, <1>3, <1>4

\* A line of a global section: text, or a pair that sets, ends or means nothing
LEMMA GlobalLineStep ==
    ASSUME ConfInv, GlobalLine
    PROVE  ConfInv'
<1>. USE DEF ConfInv
<1>1. /\ outcome = "reading" /\ section = "global" /\ LineAhead
      /\ conf_istrm' = Tail(conf_istrm) /\ UNCHANGED <<section, host, hosts, text>>
  BY DEF GlobalLine
<1>2. /\ StreamInv' /\ At' = At + 1 /\ At \in Nat /\ line1 = text[At + 1] /\ line1 \in Lines
  BY <1>1, LineRead DEF LineAhead
<1>3. PICK i \in DOMAIN text : In("global", i)
  BY <1>1 DEF SectionInv
<1>4. /\ At + 1 \in GlobalPairs <=> line1.is = "pair"
      /\ At + 1 \in Failing <=> /\ line1.is = "pair" /\ line1.key \in PathKeys
                                /\ line1.value \notin Accessible
      /\ At + 1 \in Throwing <=> /\ line1.is = "pair" /\ line1.key \in NumberKeys
                                 /\ line1.value \notin DOMAIN Number
  BY <1>1, <1>3, GlobalAhead
<1>5. \A key : At + 1 \in Setting(key) <=> /\ line1.is = "pair" /\ line1.key = key
                                           /\ key = "loglevel" => line1.value \in Levels
  BY <1>2, <1>4 DEF Setting, With
<1>6. At + 1 \notin Headings
  BY <1>1, <1>3, LineIn
<1>7. outcome' = "reading" => SectionInv'
  <2>1. In("global", i)'
    BY <1>1, <1>2, <1>3, <1>6, StaysIn
  <2>. QED  BY <1>1, <2>1 DEF SectionInv
<1>8. CASE UNCHANGED <<conf, outcome>> /\ At + 1 \notin Bad
           /\ \A key \in DOMAIN Defaults : At + 1 \notin Setting(key)
  <2>1. CauseInv' /\ SettingsInv'
    BY <1>1, <1>2, <1>8, Passes
  <2>2. ConfTypeOK'
    BY <1>1, <1>2, <1>8 DEF ConfTypeOK, StreamInv
  <2>. QED  BY <1>1, <1>2, <1>7, <1>8, <2>1, <2>2
<1>9. CASE /\ conf' = conf /\ outcome' \in {"failed", "thrown"}
           /\ At + 1 \in IF outcome' = "failed" THEN Failing ELSE Throwing
  <2>1. CauseInv' /\ SettingsInv' /\ SectionInv'
    BY <1>1, <1>2, <1>9, EndsAtLine
  <2>2. ConfTypeOK'
    BY <1>1, <1>2, <1>9 DEF ConfTypeOK, StreamInv
  <2>. QED  BY <1>2, <2>1, <2>2
<1>10. ASSUME NEW k \in DOMAIN Defaults, NEW v,
              Put(k, v), At + 1 \notin Bad, line1.is = "pair", line1.key = k,
              k = "loglevel" => line1.value \in Levels,
              k \in NumberKeys => v = Number[line1.value] /\ v \in Int,
              k \notin NumberKeys => v = line1.value
       PROVE  ConfInv'
  <2>1. /\ outcome' = outcome /\ DOMAIN conf' = DOMAIN conf
        /\ \A key \in DOMAIN Defaults : conf'[key] = IF key = k THEN v ELSE conf[key]
    BY <1>10 DEF Put, SettingsInv
  <2>2. \A key : At + 1 \in Setting(key) <=> key = k
    BY <1>5, <1>10, SMTT(30)
  <2>3. CauseInv' /\ SettingsInv'
    BY <1>1, <1>2, <1>10, <2>1, <2>2, Passes
  <2>4. ConfTypeOK'
    <3>1. \A key \in NumberKeys : conf'[key] \in Int
      <4>1. \A key \in NumberKeys : key \in DOMAIN Defaults /\ conf[key] \in Int
        <5>1. \A key \in NumberKeys : conf[key] \in Int
          BY DEF ConfTypeOK
        <5>2. NumberKeys \subseteq DOMAIN Defaults
          BY ONLY DEF NumberKeys, Defaults
        <5>. QED  BY ONLY <5>1, <5>2
      <4>2. \A key \in NumberKeys : conf'[key] = IF key = k THEN v ELSE conf[key]
        BY ONLY <2>1, <4>1
      <4>. QED  BY ONLY <1>10, <4>1, <4>2
    <3>2. "loglevel" \in DOMAIN Defaults /\ "loglevel" \notin NumberKeys
      BY DEF Defaults, NumberKeys
    <3>3. conf'.loglevel \in Levels
      BY <1>10, <2>1, <3>2 DEF ConfTypeOK
    <3>. QED  BY <1>1, <1>2, <2>1, <3>1, <3>3 DEF ConfTypeOK, StreamInv
  <2>. QED  BY <1>1, <1>2, <1>7, <2>1, <2>3, <2>4
<1>11. CASE line1.is = "text" /\ UNCHANGED <<conf, outcome>>
  <2>1. At + 1 \notin Bad /\ \A key \in DOMAIN Defaults : At + 1 \notin Setting(key)
    <3>1. At + 1 \notin Bad
      BY ONLY <1>4, <1>11 DEF Bad
    <3>2. \A key : At + 1 \notin Setting(key)
      BY ONLY <1>5, <1>11
    <3>. QED  BY <3>1, <3>2
  <2>. QED  BY <1>8, <1>11, <2>1
<1>12. CASE line1.is = "pair" /\ SetNumber(line1.key, line1.value)
  <2>1. line1.key \in NumberKeys /\ line1.key \in DOMAIN Defaults
        /\ line1.key \notin PathKeys /\ line1.key # "loglevel"
    BY <1>12 DEF SetNumber, NumberKeys, PathKeys, Defaults
  <2>2. CASE line1.value \in DOMAIN Number
    <3>1. Put(line1.key, Number[line1.value]) /\ Number[line1.value] \in Int
      BY <1>12, <2>2, ConfAssumption DEF SetNumber
    <3>. QED  BY <1>4, <1>10, <1>12, <2>1, <2>2, <3>1 DEF Bad
  <2>3. CASE line1.value \notin DOMAIN Number
    <3>1. outcome' = "thrown" /\ conf' = conf
      BY <1>12, <2>3 DEF SetNumber, Stop
    <3>. QED  BY <1>4, <1>9, <1>12, <2>1, <2>3, <3>1
  <2>. QED  BY <2>2, <2>3
<1>13. CASE line1.is = "pair" /\ SetPath(line1.key, line1.value)
  <2>1. line1.key \in PathKeys /\ line1.key \in DOMAIN Defaults
        /\ line1.key \notin NumberKeys /\ line1.key # "loglevel"
    BY <1>13 DEF SetPath, NumberKeys, PathKeys, Defaults
  <2>2. CASE line1.value \in Accessible
    <3>1. Put(line1.key, line1.value)
      BY <1>13, <2>2 DEF SetPath
    <3>. QED  BY <1>4, <1>10, <1>13, <2>1, <2>2, <3>1 DEF Bad
  <2>3. CASE line1.value \notin Accessible
    <3>1. outcome' = "failed" /\ conf' = conf
      BY <1>13, <2>3 DEF SetPath, Stop
    <3>. QED  BY <1>4, <1>9, <1>13, <2>1, <2>3, <3>1
  <2>. QED  BY <2>2, <2>3
<1>14. CASE line1.is = "pair" /\ SetText(line1.key, line1.value)
  <2>1. /\ line1.key \in DOMAIN Defaults /\ line1.key \notin NumberKeys \cup PathKeys
        /\ line1.key = "loglevel" => line1.value \in Levels
        /\ Put(line1.key, line1.value)
    BY <1>14 DEF SetText, NumberKeys, PathKeys, TextKeys, Defaults
  <2>. QED  BY <1>4, <1>10, <1>14, <2>1 DEF Bad
<1>15. CASE line1.is = "pair" /\ Ignore(line1.key, line1.value)
  <2>1. /\ line1.key \notin NumberKeys \cup PathKeys
        /\ line1.key \in DOMAIN Defaults =>
              line1.key = "loglevel" /\ line1.value \notin Levels
        /\ UNCHANGED <<conf, outcome>>
    BY <1>15 DEF Ignore, NumberKeys, PathKeys, TextKeys, Defaults
  <2>2. At + 1 \notin Bad /\ \A key \in DOMAIN Defaults : At + 1 \notin Setting(key)
    <3>1. At + 1 \notin Bad
      BY ONLY <1>4, <2>1 DEF Bad
    <3>2. \A key \in DOMAIN Defaults : At + 1 \notin Setting(key)
      BY ONLY <1>5, <2>1
    <3>. QED  BY <3>1, <3>2
  <2>. QED  BY <1>8, <2>1, <2>2
<1>. QED  BY <1>11, <1>12, <1>13, <1>14, <1>15 DEF GlobalLine

LEMMA HostLineStep ==
    ASSUME ConfInv, HostLine
    PROVE  ConfInv'
<1>. USE DEF ConfInv
<1>1. /\ outcome = "reading" /\ section = "host" /\ LineAhead
      /\ host' = IF line1.is = "text" THEN host ELSE
                   [servername |-> IF line1.key = "servername" THEN line1.value
                                                               ELSE host.servername,
                    docroot |-> IF line1.key = "docroot" THEN line1.value ELSE "."]
      /\ conf_istrm' = Tail(conf_istrm)
      /\ UNCHANGED <<section, conf, hosts, outcome, text>>
  BY DEF HostLine
<1>2. /\ StreamInv' /\ At' = At + 1 /\ line1 \in Lines
  BY <1>1, LineRead DEF LineAhead
<1>3. ConfTypeOK'
  <2>1. line1.value \in Values
    BY <1>2 DEF Values
  <2>. QED  BY <1>1, <1>2, <2>1 DEF ConfTypeOK, StreamInv
<1>4. PICK i \in DOMAIN text : In("host", i)
  BY <1>1 DEF SectionInv
<1>5. At + 1 \notin GlobalPairs /\ At + 1 \notin Bad /\ At + 1 \notin Headings
  BY <1>1, <1>4, HostAhead, LineIn
<1>6. CauseInv' /\ SettingsInv'
  <2>1. \A key : At + 1 \notin Setting(key)
    BY <1>5, PairsInFile
  <2>. QED  BY <1>1, <1>2, <1>5, <2>1, Passes
<1>7. SectionInv'
  <2>1. In("host", i)'
    BY <1>1, <1>2, <1>4, <1>5, StaysIn
  <2>. QED  BY <1>1, <2>1 DEF SectionInv
<1>. QED  BY <1>2, <1>3, <1>6, <1>7

LEMMA EndSectionStep ==
    ASSUME ConfInv, EndSection
    PROVE  ConfInv'
<1>. USE DEF ConfInv
<1>1. /\ outcome = "reading" /\ ~LineAhead /\ section' = "none"
      /\ UNCHANGED <<conf_istrm, host, conf, outcome, text>>
  BY DEF EndSection
<1>2. At' = At /\ StreamInv' /\ Bad' = Bad
      /\ \A key, n : WrittenBy(key, n)' = WrittenBy(key, n)
  BY <1>1, NothingRead, SameFile
<1>3. ConfTypeOK'
  BY <1>1 DEF ConfTypeOK
<1>4. CauseInv' /\ SettingsInv'
  BY <1>1, <1>2 DEF CauseInv, SettingsInv
<1>5. SectionInv'
  BY <1>1 DEF SectionInv, LineAhead, line1
<1>. QED  BY <1>2, <1>3, <1>4, <1>5

LEMMA ConfStill ==
    ASSUME ConfInv, UNCHANGED pvars
    PROVE  ConfInv'
<1>. USE DEF ConfInv, pvars
<1>1. /\ At' = At /\ StreamInv' /\ Bad' = Bad /\ Failing' = Failing /\ Throwing' = Throwing
      /\ Headings' = Headings /\ \A name : Sections(name)' = Sections(name)
      /\ \A key, n : WrittenBy(key, n)' = WrittenBy(key, n)
  BY NothingRead, SameFile
<1>2. ConfTypeOK'
  BY DEF ConfTypeOK
<1>3. SectionInv'
  BY <1>1 DEF SectionInv, In, LineAhead, line1
<1>4. CauseInv' /\ SettingsInv'
  BY <1>1 DEF CauseInv, SettingsInv
<1>. QED  BY <1>1, <1>2, <1>3, <1>4

\* The invariant of the reader: every line that it passed is one it can take, and
\* the settings are those of the lines passed (Conf.cpp:21-170).
THEOREM ConfInvariant == ConfSpec => []ConfInv
<1>1. ConfInv /\ [ConfNext]_pvars => ConfInv'
  BY HeadingStep, NoHeadingStep, EndOfFileStep, GlobalLineStep, HostLineStep,
     EndSectionStep, ConfStill DEF ConfNext
<1>. QED  BY ConfInitInv, <1>1, PTL DEF ConfSpec

\* The members of Conf keep their types, whatever the file has (Conf.cpp:36-153).
THEOREM ConfTypeCorrect == ConfSpec => []ConfTypeOK
<1>1. ConfInv => ConfTypeOK
  BY DEF ConfInv
<1>. QED  BY <1>1, ConfInvariant, PTL

LEMMA InvSettings == ConfInv => SettingsAsWritten
<1> SUFFICES ASSUME ConfInv, outcome = "read", NEW key \in DOMAIN Defaults
             PROVE  conf[key] = Written(key)
  BY DEF SettingsAsWritten
<1>1. conf[key] = WrittenBy(key, At) /\ At = Len(text)
  BY DEF ConfInv, SettingsInv, CauseInv
<1>. QED  BY <1>1, WrittenInAll DEF ConfInv

\* Every setting is what the last pair of its key in the whole file says, or its
\* default, however the global sections are divided (Conf.cpp:36-116).
THEOREM SettingsAreWritten == ConfSpec => []SettingsAsWritten
BY InvSettings, ConfInvariant, PTL

LEMMA InvCause == ConfInv => EndsForCause
<1> SUFFICES ASSUME ConfInv PROVE EndsForCause
  OBVIOUS
<1>0. At \in Nat /\ Bad \subseteq DOMAIN text /\ DOMAIN text = 1 .. Len(text)
      /\ DOMAIN text \subseteq Int
  BY AtInFile, PairsInFile DEF ConfInv, Bad
<1>1. outcome = "read" => Bad = {}
  BY <1>0 DEF ConfInv, CauseInv
<1>2. ASSUME outcome \in {"failed", "thrown"}
      PROVE  /\ Bad # {} /\ Min(Bad) = At
             /\ At \in IF outcome = "failed" THEN Failing ELSE Throwing
  <2>1. /\ At \in IF outcome = "failed" THEN Failing ELSE Throwing
        /\ \A j \in 1 .. At - 1 : j \notin Bad
    BY <1>2 DEF ConfInv, CauseInv
  <2>2. At \in Bad
    BY <1>2, <2>1 DEF Bad
  <2>3. \A j \in Bad : j \in Int /\ j >= 1
    BY <1>0
  <2>4. \A j \in Bad : At <= j
    BY <1>0, <2>1, <2>3
  <2>5. Bad \subseteq Int
    BY <2>3
  <2>6. Min(Bad) = At
    BY <2>2, <2>4, <2>5, MinIs
  <2>. QED  BY <2>1, <2>2, <2>6
<1>. QED  BY <1>1, <1>2 DEF EndsForCause, Bad

\* The reader gives up at the first line that it cannot take, in the way that this
\* line asks for, and reads to the end if there is none (Conf.cpp:79-93, 98, 166-170).
THEOREM CauseFound == ConfSpec => []EndsForCause
BY InvCause, ConfInvariant, PTL

-----------------------------------------------------------------------------
(* The hosts                                                                *)

LEMMA HostMore ==
    ASSUME StreamInv, NEW i, NEW n \in Nat
    PROVE  /\ n + 1 \notin PairsOf(i) => HostBy(i, n + 1) = HostBy(i, n)
           /\ n + 1 \in PairsOf(i) =>
                 HostBy(i, n + 1) =
                     [servername |-> IF text[n + 1].key = "servername"
                                     THEN text[n + 1].value ELSE NameBy(i, n),
                      docroot |-> IF text[n + 1].key = "docroot"
                                  THEN text[n + 1].value ELSE "."]
<1>. DEFINE P(m) == {j \in PairsOf(i) : j <= m}
            Q(m) == {j \in With("servername", PairsOf(i)) : j <= m}
<1>1. /\ PairsOf(i) \subseteq Int /\ With("servername", PairsOf(i)) \subseteq Int
      /\ \A j \in Int : j <= n + 1 <=> j <= n \/ j = n + 1
  BY PairsInFile DEF With
<1>2. /\ n + 1 \notin PairsOf(i) => P(n + 1) = P(n) /\ Q(n + 1) = Q(n)
      /\ n + 1 \notin With("servername", PairsOf(i)) => Q(n + 1) = Q(n)
  BY <1>1 DEF With
<1>3. n + 1 \in PairsOf(i) => Max(P(n + 1)) = n + 1 /\ P(n + 1) # {}
  <2>1. ASSUME n + 1 \in PairsOf(i)
        PROVE  n + 1 \in P(n + 1) /\ P(n + 1) \subseteq Int /\ \A j \in P(n + 1) : n + 1 >= j
    BY <1>1, <2>1
  <2>. HIDE DEF P
  <2>. QED  BY <2>1, MaxIs
<1>4. n + 1 \in With("servername", PairsOf(i)) => Max(Q(n + 1)) = n + 1 /\ Q(n + 1) # {}
  <2>1. ASSUME n + 1 \in With("servername", PairsOf(i))
        PROVE  n + 1 \in Q(n + 1) /\ Q(n + 1) \subseteq Int /\ \A j \in Q(n + 1) : n + 1 >= j
    BY <1>1, <2>1
  <2>. HIDE DEF Q
  <2>. QED  BY <2>1, MaxIs
<1>5. \A m : NameBy(i, m) = IF Q(m) = {} THEN "" ELSE text[Max(Q(m))].value
  BY DEF NameBy
<1>6. \A m : RootBy(i, m) = IF P(m) = {} THEN ""
                            ELSE IF text[Max(P(m))].key = "docroot"
                            THEN text[Max(P(m))].value ELSE "."
  BY DEF RootBy
<1>7. n + 1 \in PairsOf(i) =>
          (n + 1 \in With("servername", PairsOf(i)) <=> text[n + 1].key = "servername")
  BY DEF With
<1>. HIDE DEF P, Q
<1>8. n + 1 \notin PairsOf(i) =>
          NameBy(i, n + 1) = NameBy(i, n) /\ RootBy(i, n + 1) = RootBy(i, n)
  BY <1>2, <1>5, <1>6
<1>9. ASSUME n + 1 \in PairsOf(i)
      PROVE  /\ NameBy(i, n + 1) = IF text[n + 1].key = "servername"
                                   THEN text[n + 1].value ELSE NameBy(i, n)
             /\ RootBy(i, n + 1) = IF text[n + 1].key = "docroot"
                                   THEN text[n + 1].value ELSE "."
  <2>1. CASE text[n + 1].key = "servername"
    BY <1>3, <1>4, <1>5, <1>6, <1>7, <1>9, <2>1
  <2>2. CASE text[n + 1].key # "servername"
    BY <1>2, <1>3, <1>5, <1>6, <1>7, <1>9, <2>2
  <2>. QED  BY <2>1, <2>2
<1>. QED  BY <1>8, <1>9 DEF HostBy

\* A section has nothing to say at its heading.
LEMMA HostBegins ==
    ASSUME StreamInv, NEW i \in DOMAIN text
    PROVE  HostBy(i, i) = [servername |-> "", docroot |-> ""]
<1>1. \A j \in PairsOf(i) : ~(j <= i)
  <2>1. \A j \in PairsOf(i) : j > i /\ j \in Int /\ i \in Int
    BY AtInFile DEF PairsOf, LinesOf
  <2>. QED  BY <2>1
<1>2. NameBy(i, i) = "" /\ RootBy(i, i) = ""
  BY <1>1 DEF NameBy, RootBy, With
<1>. QED  BY <1>2 DEF HostBy

\* It has said all it says when the next line is another heading.
LEMMA HostEnds ==
    ASSUME StreamInv, NEW i \in DOMAIN text, In("host", i), ~LineAhead
    PROVE  HostBy(i, At) = HostBy(i, Len(text))
<1>1. /\ At \in Nat /\ Len(text) \in Nat /\ At <= Len(text)
      /\ DOMAIN text = 1 .. Len(text)
      /\ i \in Int /\ i <= At
  BY AtInFile DEF In
<1>2. At = Len(text) \/ At + 1 \in Headings
  BY AtInFile DEF LineAhead, Headings
<1>3. \A j \in PairsOf(i) : j <= At /\ j <= Len(text)
  <2>1. ASSUME NEW j \in PairsOf(i)
        PROVE  j <= At /\ j <= Len(text)
    <3>1. j \in 1 .. Len(text) /\ \A k \in i + 1 .. j : k \notin Headings
      BY <1>1 DEF PairsOf, LinesOf
    <3>2. At + 1 \in Headings => At + 1 \notin i + 1 .. j
      BY <3>1
    <3>3. j \in Int /\ j <= Len(text)
      BY <1>1, <3>1
    <3>4. At + 1 \in Headings => j <= At
      BY <1>1, <3>2, <3>3
    <3>. QED  BY <1>2, <3>3, <3>4
  <2>. QED  BY <2>1
<1>4. /\ {j \in PairsOf(i) : j <= At} = {j \in PairsOf(i) : j <= Len(text)}
      /\ {j \in With("servername", PairsOf(i)) : j <= At}
             = {j \in With("servername", PairsOf(i)) : j <= Len(text)}
  BY <1>3 DEF With
<1>. QED  BY <1>4 DEF HostBy, NameBy, RootBy

\* The reader is in one section, the last that began.
LEMMA OneSection ==
    ASSUME StreamInv, NEW name, NEW i \in DOMAIN text, In(name, i), NEW g \in Headings, g <= At
    PROVE  g <= i
<1>1. i \in Int /\ g \in Int /\ At \in Nat /\ i <= At
  BY AtInFile DEF In, Headings
<1>2. g \notin i + 1 .. At
  BY DEF In
<1>. QED  BY <1>1, <1>2

\* A step that passes no section of a host and adds none keeps the hosts.
LEMMA HostsKept ==
    ASSUME HostsInv, UNCHANGED <<text, hosts>>,
           outcome \in {"reading", "read"}, Passed' = Passed,
           section' = "host" => \A i \in DOMAIN text : In("host", i)' => host' = HostBy(i, At'),
           outcome' = "read" => section' = "none"
    PROVE  HostsInv'
<1>1. /\ \A i, n : HostBy(i, n)' = HostBy(i, n)
      /\ Sections("host")' = Sections("host")
  BY SameFile
<1>2. {HostBy(i, Len(text)) : i \in Sections("host")}'
          = {HostBy(i, Len(text)) : i \in Sections("host")}
  BY <1>1
<1>3. (hosts \in Seq({HostBy(i, Len(text)) : i \in Sections("host")}))'
  BY <1>2 DEF HostsInv
<1>4. (section = "host" => \A i \in DOMAIN text : In("host", i) => host = HostBy(i, At))'
  BY <1>1
<1>5. (\E s \in [1 .. Len(hosts) -> Passed] :
          /\ \A k, m \in 1 .. Len(hosts) : k < m => s[k] < s[m]
          /\ \A i \in Passed : \E k \in 1 .. Len(hosts) : s[k] = i
          /\ \A k \in 1 .. Len(hosts) : hosts[k] = HostBy(s[k], Len(text)))'
  BY <1>1 DEF HostsInv
<1>. QED  BY <1>3, <1>4, <1>5 DEF HostsInv

LEMMA HostsInit == ConfInit => HostsInv
<1> SUFFICES ASSUME ConfInit PROVE HostsInv
  OBVIOUS
<1>1. StreamInv /\ At = 0
  <2>1. StreamInv /\ conf_istrm = text
    BY ConfInitInv DEF ConfInit, ConfInv
  <2>2. Len(text) \in Nat /\ \A n \in Nat : n - n = 0
    BY <2>1, AtInFile
  <2>. QED  BY <2>1, <2>2 DEF At
<1>2. hosts = <<>> /\ Len(hosts) = 0 /\ section = "none" /\ 1 .. Len(hosts) = {}
  <2>1. hosts = <<>> /\ section = "none"
    BY DEF ConfInit
  <2>2. Len(<<>>) = 0 /\ 1 .. 0 = {}
    OBVIOUS
  <2>. QED  BY <2>1, <2>2
<1>3. \A S : hosts \in Seq(S)
  BY <1>2
<1>4. Passed = {}
  <2>1. \A i \in DOMAIN text : ~(i <= 0)
    BY <1>1, AtInFile
  <2>. QED  BY <1>1, <2>1 DEF Passed, Sections, Headings
<1>5. \E s \in [1 .. Len(hosts) -> Passed] : TRUE
  <2>1. [k \in {} |-> 0] \in [1 .. Len(hosts) -> Passed]
    BY <1>2
  <2>. QED  BY <2>1
<1>. QED  BY <1>2, <1>3, <1>4, <1>5 DEF HostsInv

LEMMA HeadingHosts ==
    ASSUME ConfInv, HostsInv, Heading
    PROVE  HostsInv'
<1>. USE DEF ConfInv
<1>1. /\ outcome = "reading" /\ section = "none" /\ HeadingAhead
      /\ section' = IF line1.key \in {"global", "host"} THEN line1.key ELSE "none"
      /\ host' = [servername |-> "", docroot |-> ""]
      /\ conf_istrm' = Tail(conf_istrm)
      /\ UNCHANGED <<conf, hosts, outcome, text>>
  BY DEF Heading
<1>2. /\ At' = At + 1 /\ At \in Nat /\ At + 1 \in DOMAIN text
      /\ line1 = text[At + 1] /\ At + 1 \in Headings /\ Headings' = Headings
      /\ Sections("host")' = Sections("host")
  BY <1>1, LineRead, SameFile DEF HeadingAhead, Headings
<1>3. \A i \in DOMAIN text : In("host", i)' <=> i = At + 1 /\ i \in Sections("host")
  BY <1>1, <1>2, BeginsAt
<1>4. At + 1 \in Sections("host") => section' = "host"
  BY <1>1, <1>2 DEF Sections
<1>5. /\ Sections("host") \subseteq DOMAIN text
      /\ \A i \in Sections("host") : i <= At + 1 <=> i <= At \/ i = At + 1
      /\ ~(At + 1 <= At)
  <2>1. Sections("host") \subseteq DOMAIN text /\ DOMAIN text \subseteq Int
    BY AtInFile DEF Sections, Headings
  <2>2. \A i \in Int : i <= At + 1 <=> i <= At \/ i = At + 1
    BY <1>2
  <2>. QED  BY <1>2, <2>1, <2>2
<1>6. Passed' = Passed
  <2>1. Passed = {i \in Sections("host") : i <= At}
    BY <1>1 DEF Passed
  <2>2. Passed' = {i \in Sections("host") : i <= At + 1 /\ ~(section' = "host" /\ In("host", i)')}
    BY <1>2 DEF Passed
  <2>3. \A i \in Sections("host") :
            i <= At + 1 /\ ~(section' = "host" /\ In("host", i)') <=> i <= At
    BY <1>3, <1>4, <1>5
  <2>. QED  BY <2>1, <2>2, <2>3
<1>7. \A i \in DOMAIN text : In("host", i)' => host' = HostBy(i, At')
  BY <1>1, <1>2, <1>3, HostBegins
<1>. QED  BY <1>1, <1>6, <1>7, HostsKept

\* The lines of a section, and what the loop of read does without a heading
LEMMA PassedKept ==
    ASSUME StreamInv, text' = text, section' = section, At' = At + 1, At + 1 \notin Headings
    PROVE  Passed' = Passed
<1>1. /\ Sections("host")' = Sections("host") /\ At \in Nat
      /\ Sections("host") \subseteq DOMAIN text /\ DOMAIN text \subseteq Int
      /\ At + 1 \notin Sections("host")
  BY SameFile, AtInFile DEF Sections, Headings
<1>2. \A i \in Sections("host") : In("host", i)' <=> In("host", i)
  BY <1>1, StaysIn
<1>3. \A i \in Sections("host") : i <= At + 1 <=> i <= At
  BY <1>1
<1>. QED  BY <1>1, <1>2, <1>3 DEF Passed

LEMMA GlobalLineHosts ==
    ASSUME ConfInv, HostsInv, GlobalLine
    PROVE  HostsInv'
<1>. USE DEF ConfInv
<1>1. /\ outcome = "reading" /\ section = "global" /\ LineAhead
      /\ conf_istrm' = Tail(conf_istrm) /\ UNCHANGED <<section, host, hosts, text>>
  BY DEF GlobalLine
<1>2. At' = At + 1 /\ At + 1 \notin Headings
  <2>1. PICK i \in DOMAIN text : In("global", i)
    BY <1>1 DEF SectionInv
  <2>. QED  BY <1>1, <2>1, LineRead, LineIn DEF LineAhead
<1>3. outcome' \in {"reading", "failed", "thrown"}
  BY <1>1 DEF GlobalLine, SetNumber, SetPath, SetText, Ignore, Put, Stop
<1>4. CASE outcome' = "reading"
  BY <1>1, <1>2, <1>4, PassedKept, HostsKept
<1>5. CASE outcome' # "reading"
  BY <1>3, <1>5 DEF HostsInv
<1>. QED  BY <1>4, <1>5

LEMMA HostLineHosts ==
    ASSUME ConfInv, HostsInv, HostLine
    PROVE  HostsInv'
<1>. USE DEF ConfInv
<1>1. /\ outcome = "reading" /\ section = "host" /\ LineAhead
      /\ host' = IF line1.is = "text" THEN host ELSE
                   [servername |-> IF line1.key = "servername" THEN line1.value
                                                               ELSE host.servername,
                    docroot |-> IF line1.key = "docroot" THEN line1.value ELSE "."]
      /\ conf_istrm' = Tail(conf_istrm)
      /\ UNCHANGED <<section, conf, hosts, outcome, text>>
  BY DEF HostLine
<1>2. At' = At + 1 /\ At \in Nat /\ line1 = text[At + 1] /\ line1 \in Lines
  BY <1>1, LineRead DEF LineAhead
<1>3. PICK g \in DOMAIN text : In("host", g)
  BY <1>1 DEF SectionInv
<1>4. At + 1 \notin Headings
  BY <1>1, <1>3, LineIn
<1>5. Passed' = Passed
  BY <1>1, <1>2, <1>4, PassedKept
<1>6. ASSUME NEW i \in DOMAIN text, In("host", i)'
      PROVE  host' = HostBy(i, At')
  <2>1. In("host", i)
    BY <1>1, <1>2, <1>4, <1>6, StaysIn
  <2>2. host = HostBy(i, At) /\ At + 1 \in LinesOf(i)
    BY <1>1, <2>1, LineIn DEF HostsInv
  <2>3. host.servername = NameBy(i, At)
    BY <2>2 DEF HostBy
  <2>4. At + 1 \in PairsOf(i) <=> line1.is = "pair"
    BY <1>2, <2>2 DEF PairsOf
  <2>5. line1.is \in {"heading", "pair", "text"} /\ line1.is # "heading"
    BY <1>1, <1>2, ConfAssumption DEF LineAhead
  <2>6. CASE line1.is = "text"
    BY <1>1, <1>2, <2>2, <2>4, <2>6, HostMore
  <2>7. CASE line1.is = "pair"
    BY <1>1, <1>2, <2>3, <2>4, <2>7, HostMore
  <2>. QED  BY <2>5, <2>6, <2>7
<1>. QED  BY <1>1, <1>5, <1>6, HostsKept

\* The end of a section of a host, whose host is the next in the list
LEMMA EndSectionHosts ==
    ASSUME ConfInv, HostsInv, EndSection
    PROVE  HostsInv'
<1>. USE DEF ConfInv
<1>1. /\ outcome = "reading" /\ section # "none" /\ ~LineAhead /\ section' = "none"
      /\ hosts' = IF section = "host" THEN Append(hosts, host) ELSE hosts
      /\ UNCHANGED <<conf_istrm, host, conf, outcome, text>>
  BY DEF EndSection
<1>2. /\ At' = At /\ Sections("host")' = Sections("host") /\ At \in Nat
      /\ Sections("host") \subseteq DOMAIN text /\ DOMAIN text \subseteq Int
      /\ \A i, n : HostBy(i, n)' = HostBy(i, n)
  BY <1>1, NothingRead, SameFile, AtInFile DEF Sections, Headings
<1>3. Passed' = {i \in Sections("host") : i <= At}
  BY <1>1, <1>2 DEF Passed
<1>4. CASE section # "host"
  <2>1. Passed' = Passed
    BY <1>3, <1>4 DEF Passed
  <2>. QED  BY <1>1, <1>4, <2>1, HostsKept
<1>5. CASE section = "host"
  <2>. DEFINE L == Len(hosts)
              S == {HostBy(i, Len(text)) : i \in Sections("host")}
  <2>1. PICK g \in DOMAIN text : In("host", g)
    BY <1>1, <1>5 DEF SectionInv
  <2>2. /\ g \in Sections("host") /\ g <= At /\ g \in Int
        /\ host = HostBy(g, Len(text))
    BY <1>1, <1>2, <1>5, <2>1, HostEnds DEF In, HostsInv
  <2>3. \A i \in Sections("host") : i <= At => i <= g
    BY <2>1, OneSection DEF Sections
  <2>4. \A i \in Sections("host") : i <= At /\ i # g => ~In("host", i)
    <3>1. \A i \in Sections("host") : In("host", i) => g <= i
      BY <1>2, <2>1, <2>2, OneSection DEF Sections
    <3>2. \A i \in Sections("host") : i <= g /\ g <= i => i = g
      BY <1>2, <2>2
    <3>. QED  BY <2>3, <3>1, <3>2
  <2>5. Passed' = Passed \cup {g} /\ g \notin Passed /\ \A i \in Passed : i < g
    <3>1. g \notin Passed
      BY <1>5, <2>1 DEF Passed
    <3>2. Passed = {i \in Sections("host") : i <= At /\ i # g}
      BY <1>5, <2>1, <2>4 DEF Passed
    <3>3. \A i \in Passed : i \in Int /\ i # g /\ i <= g
      BY <1>2, <2>3, <3>2
    <3>4. \A i \in Passed : i < g
      BY <2>2, <3>3
    <3>5. Passed' = Passed \cup {g}
      BY <1>3, <2>2, <3>2
    <3>. QED  BY <3>1, <3>4, <3>5
  <2>6. PICK s \in [1 .. L -> Passed] :
            /\ \A k, m \in 1 .. L : k < m => s[k] < s[m]
            /\ \A i \in Passed : \E k \in 1 .. L : s[k] = i
            /\ \A k \in 1 .. L : hosts[k] = HostBy(s[k], Len(text))
    BY <1>1 DEF HostsInv
  <2>7. /\ hosts \in Seq(S) /\ host \in S /\ L \in Nat /\ S' = S
    BY <1>1, <1>2, <2>2, LenProperties DEF HostsInv
  <2>. HIDE DEF S, L
  <2>8. /\ hosts' \in Seq(S) /\ Len(hosts') = L + 1
        /\ \A k \in 1 .. L : hosts'[k] = hosts[k]
        /\ hosts'[L + 1] = host
    BY <1>1, <1>5, <2>7, AppendProperties DEF L
  <2>. DEFINE t == [k \in 1 .. L + 1 |-> IF k = L + 1 THEN g ELSE s[k]]
  <2>9. \A k \in 1 .. L + 1 : k = L + 1 \/ k \in 1 .. L
    BY <2>7
  <2>10. \A k \in 1 .. L : k \in 1 .. L + 1 /\ k # L + 1
    BY <2>7
  <2>11. /\ t \in [1 .. L + 1 -> Passed'] /\ L + 1 \in 1 .. L + 1
         /\ t[L + 1] = g /\ \A k \in 1 .. L : t[k] = s[k]
    BY <2>5, <2>6, <2>7, <2>9, <2>10
  <2>. HIDE DEF t
  <2>12. \A k, m \in 1 .. L + 1 : k < m => t[k] < t[m]
    <3>1. \A k, m \in 1 .. L + 1 : k < m => k \in 1 .. L
      BY <2>7
    <3>2. \A k, m \in 1 .. L : k < m => t[k] < t[m]
      BY <2>6, <2>11
    <3>3. \A k \in 1 .. L : t[k] < g
      BY <2>5, <2>6, <2>11
    <3>. QED  BY <2>9, <2>11, <3>1, <3>2, <3>3
  <2>13. \A i \in Passed' : \E k \in 1 .. L + 1 : t[k] = i
    BY <2>5, <2>6, <2>10, <2>11
  <2>14. \A k \in 1 .. L + 1 : hosts'[k] = HostBy(t[k], Len(text))
    BY <2>2, <2>6, <2>8, <2>9, <2>11
  <2>15. (\E u \in [1 .. Len(hosts) -> Passed] :
             /\ \A k, m \in 1 .. Len(hosts) : k < m => u[k] < u[m]
             /\ \A i \in Passed : \E k \in 1 .. Len(hosts) : u[k] = i
             /\ \A k \in 1 .. Len(hosts) : hosts[k] = HostBy(u[k], Len(text)))'
    BY <1>1, <1>2, <2>8, <2>11, <2>12, <2>13, <2>14
  <2>16. (hosts \in Seq({HostBy(i, Len(text)) : i \in Sections("host")}))'
    BY <2>7, <2>8 DEF S
  <2>. QED  BY <1>1, <2>15, <2>16 DEF HostsInv
<1>. QED  BY <1>4, <1>5

LEMMA ConfHostsStep ==
    ASSUME ConfInv, HostsInv, ConfNext
    PROVE  ConfInv' /\ HostsInv'
<1>1. ConfInv'
  BY HeadingStep, NoHeadingStep, EndOfFileStep, GlobalLineStep, HostLineStep,
     EndSectionStep DEF ConfNext
<1>2. CASE NoHeading
  <2>1. outcome' = "failed"
    BY <1>2 DEF NoHeading
  <2>2. HostsInv'
    BY <2>1 DEF HostsInv
  <2>. QED  BY <1>1, <2>2
<1>3. CASE EndOfFile
  <2>1. /\ outcome = "reading" /\ section = "none" /\ section' = "none"
        /\ UNCHANGED <<conf_istrm, section, host, conf, hosts, text>>
    BY <1>3 DEF EndOfFile
  <2>2. Passed' = Passed
    BY <2>1, NothingRead, SameFile DEF Passed
  <2>. QED  BY <1>1, <2>1, <2>2, HostsKept
<1>. QED  BY <1>1, <1>2, <1>3, HeadingHosts, GlobalLineHosts, HostLineHosts,
             EndSectionHosts DEF ConfNext

LEMMA HostsStill ==
    ASSUME HostsInv, UNCHANGED pvars
    PROVE  HostsInv'
<1>1. /\ \A i, n : HostBy(i, n)' = HostBy(i, n)
      /\ Sections("host")' = Sections("host") /\ Headings' = Headings /\ At' = At
  BY SameFile, NothingRead DEF pvars
<1>2. Passed' = Passed /\ \A i : In("host", i)' <=> In("host", i)
  BY <1>1 DEF Passed, In, pvars
<1>3. CASE outcome \notin {"reading", "read"}
  BY <1>3 DEF HostsInv, pvars
<1>4. CASE outcome \in {"reading", "read"}
  <2>1. section' = "host" => outcome = "reading" \/ outcome = "read"
    BY <1>4
  <2>2. section' = "host" => \A i \in DOMAIN text : In("host", i)' => host' = HostBy(i, At')
    BY <1>1, <1>2, <1>4 DEF HostsInv, pvars
  <2>3. outcome' = "read" => section' = "none"
    BY <1>4 DEF HostsInv, pvars
  <2>. QED  BY <1>2, <1>4, <2>2, <2>3, HostsKept DEF pvars
<1>. QED  BY <1>3, <1>4

-----------------------------------------------------------------------------
(* The site                                                                 *)

LEMMA SiteStep ==
    ASSUME SiteInv, SiteNext \/ UNCHANGED sitevars
    PROVE  SiteInv'
<1>. USE DEF SiteInv
<1>1. ASSUME UNCHANGED pvars PROVE ConfInv' /\ HostsInv' /\ Inserted' = Inserted
  <2>1. Inserted' = Inserted
    BY <1>1 DEF pvars, Inserted, Named
  <2>. QED  BY <1>1, <2>1, ConfStill, HostsStill
<1>2. CASE Configure
  <2>1. phase = "conf" /\ phase' = "conf" /\ request' = request /\ ConfNext
    BY <1>2 DEF Configure
  <2>2. ConfInv' /\ HostsInv'
    BY <2>1, ConfHostsStep
  <2>3. ServingInv'
    BY <2>1 DEF ServingInv
  <2>. QED  BY <2>2, <2>3
<1>3. CASE GiveUp \/ StartFails \/ DivideByZero
  <2>1. UNCHANGED pvars /\ phase' \in {"exit", "terminate", "killed"}
    BY <1>3 DEF GiveUp, StartFails, DivideByZero
  <2>2. ServingInv'
    BY <2>1 DEF ServingInv
  <2>. QED  BY <1>1, <2>1, <2>2
<1>4. CASE Start
  <2>1. /\ UNCHANGED pvars /\ phase = "conf" /\ phase' = "serving" /\ request' = request
        /\ outcome = "read" /\ Hosts' = Inserted
    BY <1>4 DEF Start
  <2>2. ServingInv'
    BY <1>1, <2>1 DEF ServingInv, pvars
  <2>. QED  BY <1>1, <2>1, <2>2
<1>5. ASSUME NEW r \in Requests, Serve(r)
      PROVE  SiteInv'
  <2>1. /\ UNCHANGED pvars /\ phase = "serving" /\ phase' = phase /\ Hosts' = Hosts
        /\ request' = r
        /\ root' = IF HostOf(r) = conf.defaulthost THEN conf.docroot
                   ELSE IF HostOf(r) \in DOMAIN Hosts THEN Hosts[HostOf(r)] ELSE NoHeader
    BY <1>5 DEF Serve
  <2>2. HostOf(request)' = HostOf(r) /\ outcome' = outcome /\ conf' = conf
    BY <2>1 DEF HostOf, pvars
  <2>3. ServingInv'
    BY <1>1, <2>1, <2>2 DEF ServingInv
  <2>. QED  BY <1>1, <2>1, <2>3
<1>6. CASE UNCHANGED sitevars
  <2>1. UNCHANGED pvars /\ UNCHANGED <<phase, Hosts, request, root, outcome, conf>>
    BY <1>6 DEF sitevars, pvars
  <2>2. HostOf(request)' = HostOf(request)
    BY <2>1 DEF HostOf
  <2>3. ServingInv'
    BY <1>1, <2>1, <2>2 DEF ServingInv
  <2>. QED  BY <1>1, <2>1, <2>3
<1>. QED  BY <1>2, <1>3, <1>4, <1>5, <1>6 DEF SiteNext

\* The invariant of the site: the reader's, that the hosts are those of the sections
\* passed, in their order, and that requests are answered by what it has made of them
\* (Conf.cpp:117-153, Gateway.cpp:192-232).
THEOREM SiteInvariant == SiteSpec => []SiteInv
<1>1. SiteInit => SiteInv
  <2> SUFFICES ASSUME SiteInit PROVE SiteInv
    OBVIOUS
  <2>1. ConfInv /\ HostsInv
    BY ConfInitInv, HostsInit DEF SiteInit
  <2>2. ServingInv
    BY DEF SiteInit, ServingInv
  <2>. QED  BY <2>1, <2>2 DEF SiteInv
<1>2. SiteInv /\ [SiteNext]_sitevars => SiteInv'
  BY SiteStep
<1>. QED  BY <1>1, <1>2, PTL DEF SiteSpec

-----------------------------------------------------------------------------
(* Which directory a request is served from                                 *)

\* The whole file names the host of a section as the reader does,
LEMMA NameInAll ==
    ASSUME StreamInv, NEW i
    PROVE  NameBy(i, Len(text)) = LastOf("servername", i, "")
<1>1. \A j \in With("servername", PairsOf(i)) : j <= Len(text)
  <2>1. \A j \in PairsOf(i) : j \in 1 .. Len(text)
    BY PairsInFile, AtInFile
  <2>. QED  BY <2>1 DEF With
<1>2. {j \in With("servername", PairsOf(i)) : j <= Len(text)}
          = With("servername", PairsOf(i))
  BY <1>1
<1>. QED  BY <1>2 DEF NameBy, LastOf

\* and its docroot, if that is the last pair of the section or not there.
LEMMA RootInAll ==
    ASSUME StreamInv, NEW i, DocrootLast(i)
    PROVE  RootBy(i, Len(text)) = LastOf("docroot", i, ".")
<1>. DEFINE P == PairsOf(i)  D == With("docroot", PairsOf(i))
<1>1. Len(text) \in Nat /\ P \subseteq 1 .. Len(text) /\ D = {j \in P : text[j].key = "docroot"}
  BY PairsInFile, AtInFile DEF With
<1>2. P # {} /\ \A j \in D : j = Max(P)
  BY DEF DocrootLast
<1>3. {j \in P : j <= Len(text)} = P
  BY <1>1
<1>4. RootBy(i, Len(text)) = IF text[Max(P)].key = "docroot" THEN text[Max(P)].value ELSE "."
  BY <1>2, <1>3 DEF RootBy
<1>5. LastOf("docroot", i, ".") = IF D = {} THEN "." ELSE text[Max(D)].value
  BY DEF LastOf
<1>. HIDE DEF P, D
<1>6. Max(P) \in P
  BY <1>1, <1>2, MaxIsGreatest
<1>7. CASE text[Max(P)].key = "docroot"
  <2>1. D = {Max(P)}
    BY <1>1, <1>2, <1>6, <1>7
  <2>2. D # {} /\ Max(D) = Max(P)
    <3>1. PICK x \in P : x = Max(P)
      BY <1>6
    <3>2. x \in D /\ D \subseteq Int /\ D = {x}
      BY <1>1, <2>1, <3>1
    <3>3. \A m \in D : x >= m
      BY <3>2
    <3>4. Max(D) = x
      BY <3>2, <3>3, MaxIs
    <3>. QED  BY <3>1, <3>2, <3>4
  <2>. QED  BY <1>4, <1>5, <1>7, <2>2
<1>8. CASE text[Max(P)].key # "docroot"
  <2>1. D = {}
    BY <1>1, <1>2, <1>8
  <2>. QED  BY <1>4, <1>5, <1>8, <2>1
<1>. QED  BY <1>7, <1>8

\* When the file is read, the hosts are those of all its sections.
LEMMA HostsOfFile ==
    ASSUME ConfInv, HostsInv, outcome = "read"
    PROVE  /\ Len(hosts) \in Nat /\ DOMAIN hosts = 1 .. Len(hosts)
           /\ \E s \in [1 .. Len(hosts) -> Sections("host")] :
                 /\ \A k, m \in 1 .. Len(hosts) : k < m => s[k] < s[m]
                 /\ \A i \in Sections("host") : \E k \in 1 .. Len(hosts) : s[k] = i
                 /\ \A k \in 1 .. Len(hosts) :
                       /\ hosts[k].servername = LastOf("servername", s[k], "")
                       /\ hosts[k].docroot = RootBy(s[k], Len(text))
<1>1. Len(hosts) \in Nat /\ DOMAIN hosts = 1 .. Len(hosts)
  BY LenProperties DEF HostsInv
<1>2. Passed = Sections("host")
  <2>1. section = "none" /\ At = Len(text)
    BY DEF ConfInv, CauseInv, HostsInv
  <2>2. \A i \in Sections("host") : i <= Len(text)
    <3>1. Sections("host") \subseteq 1 .. Len(text)
      BY AtInFile DEF ConfInv, Sections, Headings
    <3>. QED  BY <3>1
  <2>. QED  BY <2>1, <2>2 DEF Passed
<1>3. PICK s \in [1 .. Len(hosts) -> Sections("host")] :
          /\ \A k, m \in 1 .. Len(hosts) : k < m => s[k] < s[m]
          /\ \A i \in Sections("host") : \E k \in 1 .. Len(hosts) : s[k] = i
          /\ \A k \in 1 .. Len(hosts) : hosts[k] = HostBy(s[k], Len(text))
  BY <1>2 DEF HostsInv
<1>4. \A k \in 1 .. Len(hosts) :
          /\ hosts[k].servername = LastOf("servername", s[k], "")
          /\ hosts[k].docroot = RootBy(s[k], Len(text))
  <2>1. \A i : NameBy(i, Len(text)) = LastOf("servername", i, "")
    BY NameInAll DEF ConfInv
  <2>2. \A i, n : HostBy(i, n).servername = NameBy(i, n) /\ HostBy(i, n).docroot = RootBy(i, n)
    BY DEF HostBy
  <2>. QED  BY <1>3, <2>1, <2>2
<1>. QED  BY <1>1, <1>3, <1>4

\* The first host of a name is that of the first section with the name.
LEMMA InsertedIs ==
    ASSUME ConfInv, HostsInv, outcome = "read", NEW name
    PROVE  /\ name \in DOMAIN Inserted <=> HostSections(name) # {}
           /\ HostSections(name) # {} =>
                 Inserted[name] = RootBy(Min(HostSections(name)), Len(text))
<1>1. Len(hosts) \in Nat /\ DOMAIN hosts = 1 .. Len(hosts)
  BY HostsOfFile
<1>2. PICK s \in [1 .. Len(hosts) -> Sections("host")] :
          /\ \A k, m \in 1 .. Len(hosts) : k < m => s[k] < s[m]
          /\ \A i \in Sections("host") : \E k \in 1 .. Len(hosts) : s[k] = i
          /\ \A k \in 1 .. Len(hosts) :
                /\ hosts[k].servername = LastOf("servername", s[k], "")
                /\ hosts[k].docroot = RootBy(s[k], Len(text))
  BY HostsOfFile
<1>3. /\ \A k \in 1 .. Len(hosts) : k \in Named(name) <=> s[k] \in HostSections(name)
      /\ Named(name) \subseteq 1 .. Len(hosts)
      /\ HostSections(name) \subseteq Sections("host")
  BY <1>1, <1>2 DEF Named, HostSections
<1>4. Named(name) # {} <=> HostSections(name) # {}
  BY <1>2, <1>3
<1>5. name \in DOMAIN Inserted <=> Named(name) # {}
  BY DEF Inserted, Named
<1>6. ASSUME HostSections(name) # {}
      PROVE  Inserted[name] = RootBy(Min(HostSections(name)), Len(text))
  <2>. DEFINE k == Min(Named(name))
  <2>1. k \in Named(name) /\ \A m \in Named(name) : k <= m
    <3>1. Named(name) \subseteq Nat
      BY <1>3
    <3>. QED  BY <1>4, <1>6, <3>1, MinIsLeast
  <2>2. Inserted[name] = hosts[k].docroot
    BY <1>4, <1>5, <1>6 DEF Inserted
  <2>. HIDE DEF k
  <2>3. k \in 1 .. Len(hosts) /\ s[k] \in HostSections(name)
    BY <1>3, <2>1
  <2>4. Sections("host") \subseteq Int
    BY AtInFile DEF ConfInv, Sections, Headings
  <2>5. \A i \in HostSections(name) : s[k] <= i
    <3>1. ASSUME NEW i \in HostSections(name)
          PROVE  s[k] <= i
      <4>1. PICK m \in 1 .. Len(hosts) : s[m] = i
        BY <1>2, <1>3
      <4>2. k <= m
        BY <1>3, <2>1, <4>1
      <4>3. k = m \/ k < m
        BY <1>1, <2>3, <4>2
      <4>4. s[k] = s[m] \/ s[k] < s[m]
        BY <1>2, <2>3, <4>3
      <4>5. s[k] \in Int /\ s[m] \in Int
        BY <1>2, <2>3, <2>4
      <4>. QED  BY <4>1, <4>4, <4>5
    <3>. QED  BY <3>1
  <2>6. Min(HostSections(name)) = s[k]
    <3>1. HostSections(name) \subseteq Int
      BY <1>3, <2>4
    <3>. QED  BY <2>3, <2>5, <3>1, MinIs
  <2>. QED  BY <1>2, <2>2, <2>3, <2>6
<1>. QED  BY <1>4, <1>5, <1>6

LEMMA InvServed == SiteInv => ServedAsWritten
<1>. DEFINE name == HostOf(request)
<1> SUFFICES ASSUME SiteInv, phase = "serving", request # NoHeader,
                    \A i \in Sections("host") : DocrootLast(i)
             PROVE  root = IF name = Written("defaulthost") THEN Written("docroot")
                           ELSE IF HostSections(name) = {} THEN NoHeader
                           ELSE LastOf("docroot", Min(HostSections(name)), ".")
  BY DEF ServedAsWritten
<1>1. /\ ConfInv /\ HostsInv /\ StreamInv /\ outcome = "read" /\ Hosts = Inserted
      /\ root = IF name = conf.defaulthost THEN conf.docroot
                ELSE IF name \in DOMAIN Hosts THEN Hosts[name] ELSE NoHeader
  BY DEF SiteInv, ServingInv, ConfInv
<1>2. conf.defaulthost = Written("defaulthost") /\ conf.docroot = Written("docroot")
  <2>1. SettingsAsWritten
    BY <1>1, InvSettings
  <2>2. "defaulthost" \in DOMAIN Defaults /\ "docroot" \in DOMAIN Defaults
    BY DEF Defaults
  <2>. QED  BY <1>1, <2>1, <2>2 DEF SettingsAsWritten
<1>. HIDE DEF name
<1>3. /\ name \in DOMAIN Inserted <=> HostSections(name) # {}
      /\ HostSections(name) # {} =>
            Inserted[name] = RootBy(Min(HostSections(name)), Len(text))
  BY <1>1, InsertedIs
<1>4. ASSUME HostSections(name) # {}
      PROVE  RootBy(Min(HostSections(name)), Len(text))
                 = LastOf("docroot", Min(HostSections(name)), ".")
  <2>1. HostSections(name) \subseteq Nat
    <3>1. /\ HostSections(name) \subseteq Sections("host")
          /\ Sections("host") \subseteq 1 .. Len(text)
      BY <1>1, AtInFile DEF HostSections, Sections, Headings
    <3>. QED  BY <3>1
  <2>2. Min(HostSections(name)) \in Sections("host")
    BY <1>4, <2>1, MinIsLeast DEF HostSections
  <2>. QED  BY <1>1, <2>2, RootInAll
<1>. QED  BY <1>1, <1>2, <1>3, <1>4

\* For any file whose host sections end with their docroot, a request is served from
\* the directory that the file as a whole gives the host it names: the default host
\* first, then the first section of that name (Conf.cpp:128, Gateway.cpp:195-232).
THEOREM RequestServedAsWritten == SiteSpec => []ServedAsWritten
BY InvServed, SiteInvariant, PTL

\* What holds of the reader alone holds of the one that the program calls before it
\* serves, and of what is left of it afterwards (SimpleWeb.cpp:34-55).
THEOREM SiteReads == SiteSpec => [](ConfTypeOK /\ SettingsAsWritten /\ EndsForCause)
<1>1. SiteInv => ConfTypeOK /\ SettingsAsWritten /\ EndsForCause
  <2>1. SiteInv => ConfInv /\ ConfTypeOK
    BY DEF SiteInv, ConfInv
  <2>. QED  BY <2>1, InvSettings, InvCause
<1>. QED  BY <1>1, SiteInvariant, PTL
=============================================================================
