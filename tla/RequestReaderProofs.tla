------------------------- MODULE RequestReaderProofs ------------------------
(***************************************************************************)
(* Proofs about RequestReader for any requests, any one token replaced and *)
(* any limits.                                                             *)
(***************************************************************************)
EXTENDS RequestReader, SequenceTheorems, TLAPS

\* Types, with the shapes of the records
ReaderTyped ==
    /\ sent \in Requests /\ clean \in BOOLEAN
    /\ in \in Seq(Token) /\ pos \in 0 .. Len(in)
    /\ rd \in [state : HeaderStates \cup ArgStates \cup {"header", "failed", "cut", "done"},
               buf : Seq(Token), i : Nat, name : Seq(Token), total : 0 .. MaxTrunk]
    /\ DOMAIN msg = DOMAIN NoMsg
    /\ msg.target \in Seq(Token) /\ query \in Seq(Token)
    /\ \A n \in DOMAIN msg.fields : n \in Seq(Token) /\ msg.fields[n] \in Seq(Token)

\* The states behind each part of the request line
PastTarget == {"params", "http", "http_major", "http_minor", "h_start", "name",
               "spaces_before_value", "value", "almost_done", "done_cr", "h_almost_done",
               "header", "done"} \cup ArgStates
PastMethod == PastTarget \cup {"spaces_before_uri", "uri"}

IsPath(s) ==
    /\ s # <<>> /\ s[1] = "slash"
    /\ \A k \in DOMAIN s : s[k] \in Usual \cup {"slash", "dot"}

\* What is read of the line is sane: the path while it is in the array, and the
\* version while it is in http_version.
LineInv ==
    /\ rd.state \in PastMethod => msg.method \in Methods
    /\ rd.state = "spaces_before_uri" => rd.buf = <<>>
    /\ rd.state = "uri" => IsPath(rd.buf)
    /\ rd.state \in PastTarget => IsPath(msg.target)
    /\ rd.state = "http_major" => rd.i <= 1
    /\ rd.state = "http_minor" => rd.i <= 11
    /\ msg.version \in 0 .. 11

\* The sequence s stands in the stream w from token j on.
Spelled(w, s, j) == \A l \in 1 .. Len(s) : w[j + l - 1] = s[l]

\* A line with the name n begins at token j, and only spaces are between its colon
\* and token k.
Begun(w, n, j, k) ==
    /\ Spelled(w, n, j) /\ w[j + Len(n)] = "colon"
    /\ j + Len(n) < k /\ \A l \in j + Len(n) + 1 .. k - 1 : w[l] = "sp"

\* The value v begins at token k, and the end of its line is among the first p.
Ended(w, v, k, p) ==
    \/ v # <<>> /\ Spelled(w, v, k) /\ k + Len(v) <= p /\ w[k + Len(v)] \in Blank
    \/ v = <<>> /\ w[k] = "nul"
    \/ v = <<"nul">> /\ w[k] \in Blank

\* Where the array's first token stands in the stream
First == pos - Len(rd.buf) + 1

\* The array holds the last tokens, and fieldname the name of the line they are of;
\* a field that is stored is one line.
NameInv == rd.state = "name" => rd.buf # <<>> /\ First >= 1 /\ Spelled(in, rd.buf, First)

ValueInv ==
    /\ rd.state = "spaces_before_value" =>
          rd.buf = <<>> /\ \E j \in 1 .. pos : Begun(in, rd.name, j, pos + 1)
    /\ rd.state = "value" =>
          /\ rd.buf # <<>> /\ First >= 1 /\ Spelled(in, rd.buf, First)
          /\ \E j \in 1 .. pos : Begun(in, rd.name, j, First)

StoredInv ==
    rd.state \in HeaderStates \cup {"header"} =>
        \A n \in DOMAIN msg.fields :
            \E j, k \in 1 .. pos : Begun(in, n, j, k) /\ Ended(in, msg.fields[n], k, pos)

HeaderInv == NameInv /\ ValueInv /\ StoredInv

\* All of it is kept together.
ReaderInv == ReaderTyped /\ LineInv /\ HeaderInv

-----------------------------------------------------------------------------
(* Types                                                                    *)

LEMMA TypedInit == ReaderInit => ReaderTyped
<1> SUFFICES ASSUME ReaderInit PROVE ReaderTyped
  OBVIOUS
<1>1. in \in Seq(Token)
  <2>1. Printed \cup Control \subseteq Token
    BY DEF Token
  <2>2. sent \in Requests
    BY DEF ReaderInit
  <2>3. Wire(sent) \in Seq(Printed \cup Control)
    BY <2>2, WireAssumption
  <2>4. \A k \in DOMAIN Wire(sent), t \in Noise :
            [Wire(sent) EXCEPT ![k] = t] \in Seq(Printed \cup Control)
    BY <2>3, WireAssumption, ExceptSeq
  <2>5. in \in Seq(Printed \cup Control)
    BY <2>3, <2>4 DEF ReaderInit
  <2>. QED  BY <2>1, <2>5
<1>2. <<>> \in Seq(Token)
  OBVIOUS
<1>3. 0 \in 0 .. MaxTrunk
  BY ReaderAssumption
<1>4. rd \in [state : {"start"}, buf : Seq(Token), i : Nat, name : Seq(Token), total : 0 .. MaxTrunk]
  BY <1>2, <1>3 DEF ReaderInit
<1>5. msg.target = <<>> /\ msg.fields = <<>> /\ DOMAIN msg = DOMAIN NoMsg
  BY DEF ReaderInit, NoMsg
<1>6. pos \in 0 .. Len(in)
  BY <1>1, LenProperties DEF ReaderInit
<1>7. \A n \in DOMAIN msg.fields : n \in Seq(Token) /\ msg.fields[n] \in Seq(Token)
  <2>1. DOMAIN msg.fields = {}
    BY <1>5
  <2>. QED  BY <2>1
<1>8. sent \in Requests /\ clean \in BOOLEAN /\ query = <<>>
  BY DEF ReaderInit
<1>9. msg.target \in Seq(Token) /\ query \in Seq(Token)
  BY <1>2, <1>5, <1>8
<1>10. rd \in [state : HeaderStates \cup ArgStates \cup {"header", "failed", "cut", "done"},
               buf : Seq(Token), i : Nat, name : Seq(Token), total : 0 .. MaxTrunk]
  BY <1>4 DEF HeaderStates
<1>. QED  BY <1>1, <1>5, <1>6, <1>7, <1>8, <1>9, <1>10 DEF ReaderTyped

\* is.get takes the next token
LEMMA Taken ==
    ASSUME ReaderTyped, NEW s, Get(s)
    PROVE  /\ rd.state = s /\ ch \in Token
           /\ pos \in Nat /\ Len(in) \in Nat /\ pos + 1 \in 1 .. Len(in)
           /\ pos' = pos + 1 /\ in' = in /\ sent' = sent /\ clean' = clean
           /\ pos' \in 0 .. Len(in')
<1>1. in \in Seq(Token) /\ pos \in 0 .. Len(in) /\ Len(in) \in Nat
  BY LenProperties DEF ReaderTyped
<1>2. pos + 1 \in 1 .. Len(in)
  BY <1>1 DEF Get
<1>3. in[pos + 1] \in Token
  BY <1>1, <1>2, ElementOfSeq
<1>. QED  BY <1>1, <1>2, <1>3 DEF Get, ch

RdType(states) ==
    [state : states, buf : Seq(Token), i : Nat, name : Seq(Token), total : 0 .. MaxTrunk]

AllStates == HeaderStates \cup ArgStates \cup {"header", "failed", "cut", "done"}

\* What a step makes of the local variables
LEMMA RdSteps ==
    ASSUME ReaderTyped
    PROVE  /\ rd \in RdType(AllStates)
           /\ \A s, b : Goto(s, b) =>
                 /\ rd'.state = s /\ rd'.buf = b
                 /\ rd'.i = rd.i /\ rd'.name = rd.name /\ rd'.total = rd.total
           /\ \A s \in AllStates, b \in Seq(Token) : Goto(s, b) => rd' \in RdType(AllStates)
<1>1. rd \in RdType(AllStates)
  BY DEF ReaderTyped, RdType, AllStates
<1>2. \A s, b : Goto(s, b) =>
                 /\ rd'.state = s /\ rd'.buf = b
                 /\ rd'.i = rd.i /\ rd'.name = rd.name /\ rd'.total = rd.total
  BY <1>1 DEF Goto, RdType
<1>3. \A s \in AllStates, b \in Seq(Token) : Goto(s, b) => rd' \in RdType(AllStates)
  BY <1>1 DEF Goto, RdType
<1>. QED  BY <1>1, <1>2, <1>3

LEMMA KeptTyped ==
    ASSUME ReaderTyped, ch \in Token
    PROVE  Append(rd.buf, ch) \in Seq(Token) /\ <<ch>> \in Seq(Token) /\ <<>> \in Seq(Token)
BY DEF ReaderTyped

\* What a step makes of the message
LEMMA MsgSteps ==
    ASSUME ReaderTyped
    PROVE  /\ \A m : msg' = [msg EXCEPT !.method = m] =>
                 /\ DOMAIN msg' = DOMAIN NoMsg /\ msg'.method = m
                 /\ msg'.target = msg.target /\ msg'.version = msg.version
                 /\ msg'.fields = msg.fields
           /\ \A t : msg' = [msg EXCEPT !.target = t] =>
                 /\ DOMAIN msg' = DOMAIN NoMsg /\ msg'.target = t
                 /\ msg'.method = msg.method /\ msg'.version = msg.version
                 /\ msg'.fields = msg.fields
           /\ \A v : msg' = [msg EXCEPT !.version = v] =>
                 /\ DOMAIN msg' = DOMAIN NoMsg /\ msg'.version = v
                 /\ msg'.method = msg.method /\ msg'.target = msg.target
                 /\ msg'.fields = msg.fields
           /\ \A k, v : Push(k, v) =>
                 /\ DOMAIN msg' = DOMAIN NoMsg /\ msg'.version = msg.version
                 /\ msg'.method = msg.method /\ msg'.target = msg.target
                 /\ msg'.fields = msg.fields
           /\ \A v : Store(v) =>
                 /\ DOMAIN msg' = DOMAIN NoMsg /\ msg'.version = msg.version
                 /\ msg'.method = msg.method /\ msg'.target = msg.target
                 /\ DOMAIN msg'.fields = DOMAIN msg.fields \cup {rd.name}
                 /\ \A n \in DOMAIN msg'.fields :
                       msg'.fields[n] = IF n = rd.name THEN v ELSE msg.fields[n]
<1>1. DOMAIN msg = {"method", "target", "version", "fields", "args"}
  BY DEF ReaderTyped, NoMsg
<1>2. DOMAIN NoMsg = {"method", "target", "version", "fields", "args"}
  BY DEF NoMsg
<1>. QED  BY <1>1, <1>2 DEF Push, Store

\* A step keeps the types if it keeps those of what it changes.
LEMMA TypesKept ==
    ASSUME ReaderTyped, sent' = sent, clean' = clean,
           in' \in Seq(Token), pos' \in 0 .. Len(in'),
           rd' \in RdType(AllStates), query' \in Seq(Token),
           DOMAIN msg' = DOMAIN NoMsg, msg'.target \in Seq(Token),
           \A n \in DOMAIN msg'.fields : n \in Seq(Token) /\ msg'.fields[n] \in Seq(Token)
    PROVE  ReaderTyped'
BY DEF ReaderTyped, RdType, AllStates

\* A step of a loop takes a token, and changes the loop's variables, and perhaps
\* the message.
LEMMA LoopTyped ==
    ASSUME ReaderTyped, NEW s, Get(s), rd' \in RdType(AllStates),
           query' \in Seq(Token), DOMAIN msg' = DOMAIN NoMsg, msg'.target \in Seq(Token),
           \A n \in DOMAIN msg'.fields : n \in Seq(Token) /\ msg'.fields[n] \in Seq(Token)
    PROVE  ReaderTyped'
<1>1. in' = in /\ sent' = sent /\ clean' = clean /\ pos' \in 0 .. Len(in')
  BY Taken
<1>. QED  BY <1>1, TypesKept DEF ReaderTyped

LEMMA SameTyped ==
    ASSUME ReaderTyped, NEW s, Get(s), rd' \in RdType(AllStates), Same
    PROVE  ReaderTyped'
BY LoopTyped DEF Same, ReaderTyped

LEMMA LineTyped ==
    ASSUME ReaderTyped,
           \/ LineStart \/ LineMethod \/ LineSpaces \/ LineUri \/ LineParams
           \/ LineHttp \/ LineMajor \/ LineMinor
    PROVE  ReaderTyped'
<1>. DEFINE States == {"start", "method", "spaces_before_uri", "uri", "params", "http",
                       "http_major", "http_minor"}
<1>0. \E s \in States : Get(s)
  BY DEF LineStart, LineMethod, LineSpaces, LineUri, LineParams, LineHttp, LineMajor,
         LineMinor
<1>1. /\ ch \in Token /\ rd \in RdType(AllStates)
      /\ Append(rd.buf, ch) \in Seq(Token) /\ <<>> \in Seq(Token) /\ rd.buf \in Seq(Token)
  BY <1>0, Taken, RdSteps, KeptTyped DEF ReaderTyped
<1>2. \A s \in States : Get(s) => s \in AllStates
  BY DEF AllStates, HeaderStates
<1>3. {"failed", "h_start"} \cup States \subseteq AllStates
  BY DEF AllStates, HeaderStates
<1>4. \A s \in States : Keep(s) => rd' \in RdType(AllStates) /\ Same
  BY <1>1, <1>3, RdSteps DEF Keep
<1>5. Fail => rd' \in RdType(AllStates) /\ Same
  BY <1>1, <1>3, RdSteps DEF Fail
<1>6. Stay => rd' \in RdType(AllStates) /\ Same
  BY <1>1 DEF Stay, Same
<1>7. \A n \in Nat : rd' = [rd EXCEPT !.i = n] => rd' \in RdType(AllStates)
  BY <1>1 DEF RdType
<1>8. ASSUME rd' \in RdType(AllStates), Same PROVE ReaderTyped'
  BY <1>0, <1>8, SameTyped
<1>. HIDE DEF States
<1>9. CASE LineStart
  BY <1>4, <1>5, <1>6, <1>8, <1>9 DEF LineStart, States
<1>10. CASE LineMethod
  <2>1. CASE Keep("method") \/ Fail
    BY <1>4, <1>5, <1>8, <2>1 DEF States
  <2>2. CASE /\ msg' = [msg EXCEPT !.method = Head(rd.buf)]
             /\ Goto("spaces_before_uri", <<>>) /\ UNCHANGED query
    <3>1. rd' \in RdType(AllStates)
      BY <1>1, <1>3, <2>2, RdSteps DEF States
    <3>2. DOMAIN msg' = DOMAIN NoMsg /\ msg'.target = msg.target /\ msg'.fields = msg.fields
      BY <2>2, MsgSteps
    <3>. QED  BY <1>0, <2>2, <3>1, <3>2, LoopTyped DEF ReaderTyped
  <2>. QED  BY <1>10, <2>1, <2>2 DEF LineMethod
<1>11. CASE LineSpaces
  BY <1>4, <1>5, <1>6, <1>8, <1>11 DEF LineSpaces, States
<1>12. CASE LineUri
  <2>1. CASE Keep("uri") \/ Fail
    BY <1>4, <1>5, <1>8, <2>1 DEF States
  <2>2. CASE /\ msg' = [msg EXCEPT !.target = rd.buf]
             /\ Goto(IF ch = "qm" THEN "params" ELSE "http", <<>>) /\ UNCHANGED query
    <3>1. rd' \in RdType(AllStates)
      BY <1>1, <1>3, <2>2, RdSteps DEF States
    <3>2. DOMAIN msg' = DOMAIN NoMsg /\ msg'.target = rd.buf /\ msg'.fields = msg.fields
      BY <2>2, MsgSteps
    <3>. QED  BY <1>0, <1>1, <2>2, <3>1, <3>2, LoopTyped DEF ReaderTyped
  <2>. QED  BY <1>12, <2>1, <2>2 DEF LineUri
<1>13. CASE LineParams
  <2>1. CASE Keep("params") \/ Stay \/ Fail
    BY <1>4, <1>5, <1>6, <1>8, <2>1 DEF States
  <2>2. CASE query' = Append(rd.buf, ch) /\ Goto("http", <<>>) /\ UNCHANGED msg
    <3>1. rd' \in RdType(AllStates)
      BY <1>1, <1>3, <2>2, RdSteps DEF States
    <3>. QED  BY <1>0, <1>1, <2>2, <3>1, LoopTyped DEF ReaderTyped
  <2>. QED  BY <1>13, <2>1, <2>2 DEF LineParams
<1>14. CASE LineHttp
  <2>. DEFINE n == rd.i + (IF ch \in Word THEN Size[ch] ELSE 1)
  <2>1. n \in Nat
    BY <1>1, ReaderAssumption DEF RdType, Word
  <2>. HIDE DEF n
  <2>2. \/ rd' = [rd EXCEPT !.i = n] /\ Same
        \/ Fail \/ Stay
        \/ rd' = [rd EXCEPT !.state = "http_major", !.i = 0] /\ Same
    BY <1>14 DEF LineHttp, n
  <2>3. rd' = [rd EXCEPT !.state = "http_major", !.i = 0] => rd' \in RdType(AllStates)
    <3>1. "http_major" \in AllStates
      BY <1>3 DEF States
    <3>2. rd \in RdType(AllStates) /\ 0 \in Nat
      BY <1>1
    <3>. QED  BY ONLY <3>1, <3>2 DEF RdType
  <2>. QED  BY <1>5, <1>6, <1>7, <1>8, <2>1, <2>2, <2>3
<1>15. CASE LineMajor \/ LineMinor
  <2>. DEFINE v == IF ch \in Digit THEN rd.i * 10 + Value[ch] ELSE rd.i
  <2>1. v \in Nat
    <3>1. rd.i \in Nat
      BY <1>1 DEF RdType
    <3>2. ch \in Digit => Value[ch] \in Nat
      BY DEF Digit, Value
    <3>. QED  BY <3>1, <3>2
  <2>. HIDE DEF v
  <2>2. \/ rd' = [rd EXCEPT !.i = v] /\ Same
        \/ Fail \/ Stay
        \/ Goto("http_minor", <<>>) /\ Same
        \/ msg' = [msg EXCEPT !.version = rd.i] /\ Goto("h_start", <<>>) /\ UNCHANGED query
    BY <1>15 DEF LineMajor, LineMinor, v
  <2>3. Goto("http_minor", <<>>) \/ Goto("h_start", <<>>) => rd' \in RdType(AllStates)
    BY <1>1, <1>3, RdSteps DEF States
  <2>4. CASE msg' = [msg EXCEPT !.version = rd.i] /\ Goto("h_start", <<>>) /\ UNCHANGED query
    <3>1. DOMAIN msg' = DOMAIN NoMsg /\ msg'.target = msg.target /\ msg'.fields = msg.fields
      BY <2>4, MsgSteps
    <3>. QED  BY <1>0, <2>3, <2>4, <3>1, LoopTyped DEF ReaderTyped
  <2>. QED  BY <1>5, <1>6, <1>7, <1>8, <2>1, <2>2, <2>3, <2>4
<1>. QED  BY <1>9, <1>10, <1>11, <1>12, <1>13, <1>14, <1>15

LEMMA HeaderTyped ==
    ASSUME ReaderTyped,
           \/ HeaderStart \/ HeaderName \/ HeaderSpaces \/ HeaderValue \/ HeaderAlmost
           \/ HeaderEnd
    PROVE  ReaderTyped'
<1>. DEFINE States == {"h_start", "name", "spaces_before_value", "value", "almost_done",
                       "done_cr", "h_almost_done"}
<1>0. \E s \in States : Get(s)
  BY DEF HeaderStart, HeaderName, HeaderSpaces, HeaderValue, HeaderAlmost, HeaderEnd
<1>1. /\ ch \in Token /\ rd \in RdType(AllStates)
      /\ Append(rd.buf, ch) \in Seq(Token) /\ <<ch>> \in Seq(Token) /\ <<>> \in Seq(Token)
      /\ rd.buf \in Seq(Token) /\ rd.name \in Seq(Token)
  BY <1>0, Taken, RdSteps, KeptTyped DEF ReaderTyped
<1>2. {"failed", "header"} \cup States \subseteq AllStates
  BY DEF AllStates, HeaderStates
<1>3. \A s \in {"failed", "header"} \cup States :
          Goto(s, <<>>) \/ Goto(s, <<ch>>) \/ Goto(s, Append(rd.buf, ch))
              => rd' \in RdType(AllStates)
  BY <1>1, <1>2, RdSteps
<1>4. UNCHANGED rd => rd' \in RdType(AllStates)
  BY <1>1
<1>5. ASSUME rd' \in RdType(AllStates), Same PROVE ReaderTyped'
  BY <1>0, <1>5, SameTyped
<1>6. ASSUME NEW v \in Seq(Token), Store(v), rd' \in RdType(AllStates), UNCHANGED query
      PROVE  ReaderTyped'
  <2>1. /\ DOMAIN msg' = DOMAIN NoMsg /\ msg'.target = msg.target
        /\ DOMAIN msg'.fields = DOMAIN msg.fields \cup {rd.name}
        /\ \A n \in DOMAIN msg'.fields :
              msg'.fields[n] = IF n = rd.name THEN v ELSE msg.fields[n]
    BY <1>6, MsgSteps
  <2>2. \A n \in DOMAIN msg'.fields : n \in Seq(Token) /\ msg'.fields[n] \in Seq(Token)
    BY <1>1, <1>6, <2>1 DEF ReaderTyped
  <2>. QED  BY <1>0, <1>6, <2>1, <2>2, LoopTyped DEF ReaderTyped
<1>. HIDE DEF States
<1>7. CASE HeaderStart
  BY <1>3, <1>4, <1>5, <1>7 DEF HeaderStart, States
<1>8. CASE HeaderName
  <2>1. CASE Keep("name") \/ Fail
    BY <1>3, <1>5, <2>1 DEF Keep, Fail, States
  <2>2. CASE /\ rd' = [rd EXCEPT !.state = "spaces_before_value", !.name = rd.buf, !.buf = <<>>]
             /\ Same
    <3>1. "spaces_before_value" \in AllStates
      BY <1>2 DEF States
    <3>2. rd' \in RdType(AllStates)
      BY <1>1, <2>2, <3>1 DEF RdType
    <3>. QED  BY <1>5, <2>2, <3>2
  <2>. QED  BY <1>8, <2>1, <2>2 DEF HeaderName
<1>9. CASE HeaderSpaces
  <2>1. CASE Stay
    BY <1>4, <1>5, <2>1 DEF Stay, Same
  <2>2. CASE Keep("value")
    BY <1>3, <1>5, <2>2 DEF Keep, States
  <2>3. CASE Store(<<"nul">>) /\ UNCHANGED query
             /\ (Goto("almost_done", <<>>) \/ Goto("h_start", <<>>))
    <3>1. <<"nul">> \in Seq(Token)
      BY DEF Token, Control
    <3>. QED  BY <1>3, <1>6, <2>3, <3>1 DEF States
  <2>. QED  BY <1>9, <2>1, <2>2, <2>3 DEF HeaderSpaces
<1>10. CASE HeaderValue
  <2>1. CASE Keep("value") \/ Fail
    BY <1>3, <1>5, <2>1 DEF Keep, Fail, States
  <2>2. CASE Store(CString(rd.buf)) /\ UNCHANGED query
             /\ (Goto("almost_done", <<>>) \/ Goto("h_start", <<>>))
    <3>1. CString(rd.buf) \in Seq(Token)
      BY <1>1 DEF CString
    <3>. QED  BY <1>3, <1>6, <2>2, <3>1 DEF States
  <2>. QED  BY <1>10, <2>1, <2>2 DEF HeaderValue
<1>11. CASE HeaderAlmost
  BY <1>3, <1>4, <1>5, <1>11 DEF HeaderAlmost, States
<1>12. CASE HeaderEnd
  BY <1>3, <1>5, <1>12 DEF HeaderEnd, States
<1>. QED  BY <1>7, <1>8, <1>9, <1>10, <1>11, <1>12

\* The steps that take no token
LEMMA OtherTyped ==
    ASSUME ReaderTyped, Eof \/ BodyBegin \/ ArgEnd
    PROVE  ReaderTyped'
<1>1. <<>> \in Seq(Token) /\ {"cut", "done", "a_name"} \subseteq AllStates
  BY DEF AllStates, ArgStates
<1>2. rd' \in RdType(AllStates)
  BY <1>1, RdSteps DEF Eof, BodyBegin, ArgEnd
<1>3. msg' = msg /\ query' = query /\ sent' = sent /\ clean' = clean
  BY DEF Eof, BodyBegin, ArgEnd
<1>4. (in' = in /\ pos' = pos) \/ (in' = query /\ pos' = 0)
  BY DEF Eof, BodyBegin, ArgEnd
<1>5. in' \in Seq(Token) /\ pos' \in 0 .. Len(in')
  BY <1>4, LenProperties DEF ReaderTyped
<1>. QED  BY <1>2, <1>3, <1>5, TypesKept DEF ReaderTyped

LEMMA ArgTyped ==
    ASSUME ReaderTyped, ArgName \/ ArgValue \/ ArgAlmost
    PROVE  ReaderTyped'
<1>0. \E s \in ArgStates : Get(s) /\ rd.total < MaxTrunk
  BY DEF ArgName, ArgValue, ArgAlmost, GetArg, ArgStates
<1>1. /\ ch \in Token /\ rd \in RdType(AllStates)
      /\ Append(rd.buf, ch) \in Seq(Token) /\ <<>> \in Seq(Token)
      /\ rd.buf \in Seq(Token) /\ rd.name \in Seq(Token)
  BY <1>0, Taken, RdSteps, KeptTyped DEF ReaderTyped
<1>2. Kept(rd.buf) \in Seq(Token)
  <2>1. <<"stale">> \in Seq(Token)
    BY DEF Token
  <2>. QED  BY <1>1, <2>1 DEF Kept
<1>3. rd.total + 1 \in 0 .. MaxTrunk
  BY <1>0, <1>1, ReaderAssumption DEF RdType
<1>4. \A s \in AllStates, b \in Seq(Token) : Arg(s, b) => rd' \in RdType(AllStates)
  BY <1>1, <1>3 DEF Arg, RdType
<1>5. {"a_name", "a_value", "a_almost_done", "done"} \subseteq AllStates
  BY DEF AllStates, ArgStates
<1>6. rd' \in RdType(AllStates)
  <2>1. rd' = [rd EXCEPT !.state = "a_value", !.name = rd.buf, !.buf = <<>>, !.total = @ + 1]
            => rd' \in RdType(AllStates)
    BY <1>1, <1>3, <1>5 DEF RdType
  <2>2. CASE ArgName
    BY <1>1, <1>4, <1>5, <2>1, <2>2 DEF ArgName
  <2>3. CASE ArgValue
    BY <1>1, <1>2, <1>4, <1>5, <2>3 DEF ArgValue
  <2>4. CASE ArgAlmost
    BY <1>1, <1>2, <1>4, <1>5, <2>4 DEF ArgAlmost
  <2>. QED  BY <2>2, <2>3, <2>4
<1>7. query' = query /\ (msg' = msg \/ \E k, v : Push(k, v))
  BY DEF ArgName, ArgValue, ArgAlmost, Same
<1>8. DOMAIN msg' = DOMAIN NoMsg /\ msg'.target = msg.target /\ msg'.fields = msg.fields
  <2>1. CASE msg' = msg
    BY <2>1 DEF ReaderTyped
  <2>2. CASE \E k, v : Push(k, v)
    BY <2>2, MsgSteps
  <2>. QED  BY <1>7, <2>1, <2>2
<1>. QED  BY <1>0, <1>6, <1>7, <1>8, LoopTyped DEF ReaderTyped

LEMMA TypedStep == ReaderTyped /\ [ReaderNext]_rvars => ReaderTyped'
<1>1. ASSUME ReaderTyped, UNCHANGED rvars PROVE ReaderTyped'
  BY <1>1 DEF ReaderTyped, rvars
<1>. QED  BY <1>1, LineTyped, HeaderTyped, OtherTyped, ArgTyped DEF ReaderNext

-----------------------------------------------------------------------------
(* The request line                                                         *)

LEMMA PathGrows ==
    ASSUME NEW s \in Seq(Token), IsPath(s), NEW c \in Usual \cup {"slash", "dot"}
    PROVE  IsPath(Append(s, c))
<1>1. Len(s) \in Nat /\ DOMAIN s = 1 .. Len(s) /\ Len(s) # 0
  BY LenProperties DEF IsPath
<1>2. /\ DOMAIN Append(s, c) = 1 .. Len(s) + 1
      /\ \A k \in 1 .. Len(s) + 1 : Append(s, c)[k] = IF k = Len(s) + 1 THEN c ELSE s[k]
  BY <1>1
<1>3. 1 \in 1 .. Len(s) /\ 1 # Len(s) + 1
  BY <1>1
<1>4. Append(s, c)[1] = "slash" /\ Append(s, c) # <<>>
  BY <1>1, <1>2, <1>3 DEF IsPath
<1>5. \A k \in 1 .. Len(s) + 1 : k = Len(s) + 1 \/ k \in DOMAIN s
  BY <1>1
<1>. QED  BY <1>2, <1>4, <1>5 DEF IsPath

\* A step beyond the target leaves the line as it is.
LEMMA LineStays ==
    ASSUME LineInv, rd.state \in PastTarget, rd'.state \in PastTarget \cup {"failed", "cut"},
           rd'.state \notin {"http_major", "http_minor"},
           msg'.method = msg.method, msg'.target = msg.target, msg'.version = msg.version
    PROVE  LineInv'
<1>1. rd'.state \notin {"uri", "spaces_before_uri"} /\ rd.state \in PastMethod
  BY DEF PastTarget, PastMethod, ArgStates
<1>2. rd'.state \in PastMethod => rd'.state \in PastTarget \/ rd'.state \in {"failed", "cut"}
  OBVIOUS
<1>. QED  BY <1>1, <1>2 DEF LineInv

\* and so does one that is given up.
LEMMA LineLeft ==
    ASSUME LineInv, rd'.state \in {"failed", "cut"}, msg' = msg
    PROVE  LineInv'
<1>1. rd'.state \notin PastMethod \cup PastTarget \cup {"spaces_before_uri", "uri", "http_major", "http_minor"}
  BY DEF PastTarget, PastMethod, ArgStates
<1>. QED  BY <1>1 DEF LineInv

LEMMA LineSteps ==
    ASSUME ReaderTyped, LineInv,
           \/ LineStart \/ LineMethod \/ LineSpaces \/ LineUri \/ LineParams
           \/ LineHttp \/ LineMajor \/ LineMinor
    PROVE  LineInv'
<1>0. \E s : Get(s)
  BY DEF LineStart, LineMethod, LineSpaces, LineUri, LineParams, LineHttp, LineMajor,
         LineMinor
<1>1. /\ ch \in Token /\ rd.buf \in Seq(Token) /\ rd.i \in Nat
      /\ \A s, b : Goto(s, b) => rd'.state = s /\ rd'.buf = b /\ rd'.i = rd.i
  BY <1>0, Taken, RdSteps DEF ReaderTyped
<1>2. \A s : Keep(s) => rd'.state = s /\ rd'.buf = Append(rd.buf, ch) /\ msg' = msg
  BY <1>1 DEF Keep, Same
<1>3. Fail => LineInv'
  BY <1>1, LineLeft DEF Fail, Same
<1>4. Stay => LineInv'
  BY DEF Stay, LineInv
<1>5. CASE LineStart
  <2>1. CASE Keep("method")
    <3>1. "method" \notin PastMethod \cup PastTarget
      BY DEF PastMethod, PastTarget, ArgStates
    <3>. QED  BY <1>2, <2>1, <3>1 DEF LineInv
  <2>. QED  BY <1>3, <1>4, <1>5, <2>1 DEF LineStart
<1>6. CASE LineMethod
  <2>1. CASE Keep("method")
    <3>1. "method" \notin PastMethod \cup PastTarget
      BY DEF PastMethod, PastTarget, ArgStates
    <3>. QED  BY <1>2, <2>1, <3>1 DEF LineInv
  <2>2. CASE /\ Head(rd.buf) \in Methods
             /\ msg' = [msg EXCEPT !.method = Head(rd.buf)]
             /\ Goto("spaces_before_uri", <<>>)
    <3>0. rd'.buf = <<>>
      BY <1>1, <2>2
    <3>1. msg'.method \in Methods /\ msg'.version = msg.version
      BY <2>2, MsgSteps
    <3>2. "spaces_before_uri" \notin PastTarget
      BY DEF PastTarget, ArgStates
    <3>3. rd'.state = "spaces_before_uri"
      BY <1>1, <2>2
    <3>. QED  BY <3>0, <3>1, <3>2, <3>3 DEF LineInv
  <2>. QED  BY <1>3, <1>6, <2>1, <2>2 DEF LineMethod
<1>7. CASE LineSpaces
  <2>1. CASE Keep("uri") /\ ch = "slash" /\ rd.state = "spaces_before_uri"
    <3>1. "uri" \notin PastTarget /\ {"uri", "spaces_before_uri"} \subseteq PastMethod
      BY DEF PastTarget, PastMethod, ArgStates
    <3>2. rd'.buf = <<"slash">>
      BY <1>2, <2>1 DEF LineInv
    <3>3. IsPath(<<"slash">>)
      BY DEF IsPath
    <3>. QED  BY <1>2, <2>1, <3>1, <3>2, <3>3 DEF LineInv
  <2>. QED  BY <1>3, <1>4, <1>7, <2>1, Taken DEF LineSpaces
<1>8. CASE LineUri
  <2>. rd.state = "uri"
    BY <1>8, Taken DEF LineUri
  <2>1. IsPath(rd.buf) /\ "uri" \in PastMethod \ PastTarget
    BY DEF LineInv, PastMethod, PastTarget, ArgStates
  <2>2. CASE ch \in Usual \cup {"slash", "dot"} /\ Keep("uri")
    <3>1. IsPath(Append(rd.buf, ch))
      BY <1>1, <2>1, <2>2, PathGrows
    <3>. QED  BY <1>2, <2>1, <2>2, <3>1 DEF LineInv
  <2>3. CASE /\ msg' = [msg EXCEPT !.target = rd.buf]
             /\ Goto(IF ch = "qm" THEN "params" ELSE "http", <<>>)
    <3>1. /\ msg'.target = rd.buf /\ msg'.method = msg.method /\ msg'.version = msg.version
          /\ rd'.state \in {"params", "http"}
      BY <1>1, <2>3, MsgSteps
    <3>. QED  BY <2>1, <3>1 DEF LineInv
  <2>. QED  BY <1>3, <1>8, <2>2, <2>3 DEF LineUri
<1>9. CASE LineParams
  <2>1. rd.state = "params" /\ {"params", "http"} \subseteq PastTarget
    BY <1>9, Taken DEF LineParams, PastTarget
  <2>2. CASE (Keep("params") \/ Goto("http", <<>>)) /\ msg' = msg
    BY <1>1, <1>2, <2>1, <2>2, LineStays
  <2>. QED  BY <1>2, <1>3, <1>4, <1>9, <2>2 DEF LineParams
<1>10. CASE LineHttp
  <2>1. rd.state = "http" /\ {"http", "http_major"} \subseteq PastTarget
    BY <1>10, Taken DEF LineHttp, PastTarget
  <2>2. CASE \E n : rd' = [rd EXCEPT !.i = n] /\ Same
    <3>1. rd'.state = "http" /\ msg' = msg
      BY <2>1, <2>2 DEF ReaderTyped, Same
    <3>. QED  BY <2>1, <3>1, LineStays
  <2>3. CASE rd' = [rd EXCEPT !.state = "http_major", !.i = 0] /\ Same
    <3>1. rd'.state = "http_major" /\ rd'.i = 0 /\ msg' = msg
      BY <2>3 DEF ReaderTyped, Same
    <3>2. "http" \in PastMethod
      BY DEF PastMethod, PastTarget
    <3>. QED  BY <2>1, <3>1, <3>2 DEF LineInv
  <2>. QED  BY <1>3, <1>4, <1>10, <2>2, <2>3 DEF LineHttp
<1>11. CASE LineMajor
  <2>1. /\ rd.state = "http_major" /\ {"http_major", "http_minor"} \subseteq PastTarget
        /\ rd.state \in PastMethod
    BY <1>11, Taken DEF LineMajor, PastTarget, PastMethod
  <2>2. CASE \E v : v <= 1 /\ rd' = [rd EXCEPT !.i = v] /\ Same
    <3>1. rd'.state = "http_major" /\ rd'.i <= 1 /\ msg' = msg
      BY <2>1, <2>2 DEF ReaderTyped, Same
    <3>. QED  BY <2>1, <3>1 DEF LineInv
  <2>3. CASE Goto("http_minor", <<>>) /\ Same
    <3>1. rd'.state = "http_minor" /\ rd'.i = rd.i /\ msg' = msg
      BY <1>1, <2>3 DEF Same
    <3>2. rd.i <= 1 => rd.i <= 11
      BY <1>1
    <3>. QED  BY <2>1, <3>1, <3>2 DEF LineInv
  <2>. QED  BY <1>3, <1>4, <1>11, <2>2, <2>3 DEF LineMajor
<1>12. CASE LineMinor
  <2>1. /\ rd.state = "http_minor" /\ {"http_minor", "h_start"} \subseteq PastTarget
        /\ rd.state \in PastMethod
    BY <1>12, Taken DEF LineMinor, PastTarget, PastMethod
  <2>2. CASE \E v : v <= 11 /\ rd' = [rd EXCEPT !.i = v] /\ Same
    <3>1. rd'.state = "http_minor" /\ rd'.i <= 11 /\ msg' = msg
      BY <2>1, <2>2 DEF ReaderTyped, Same
    <3>. QED  BY <2>1, <3>1 DEF LineInv
  <2>3. CASE msg' = [msg EXCEPT !.version = rd.i] /\ Goto("h_start", <<>>)
    <3>1. /\ msg'.target = msg.target /\ msg'.method = msg.method /\ msg'.version = rd.i
          /\ rd'.state = "h_start"
      BY <1>1, <2>3, MsgSteps
    <3>2. rd.i \in 0 .. 11
      BY <1>1, <2>1 DEF LineInv
    <3>. QED  BY <2>1, <3>1, <3>2 DEF LineInv
  <2>. QED  BY <1>3, <1>4, <1>12, <2>2, <2>3 DEF LineMinor
<1>. QED  BY <1>5, <1>6, <1>7, <1>8, <1>9, <1>10, <1>11, <1>12

LEMMA LaterSteps ==
    ASSUME ReaderTyped, LineInv,
           \/ HeaderStart \/ HeaderName \/ HeaderSpaces \/ HeaderValue \/ HeaderAlmost
           \/ HeaderEnd \/ BodyBegin \/ ArgName \/ ArgValue \/ ArgAlmost \/ ArgEnd
    PROVE  LineInv'
<1>. DEFINE Later == {"h_start", "name", "spaces_before_value", "value", "almost_done",
                      "done_cr", "h_almost_done", "header", "done"} \cup ArgStates
            Kept3 == /\ msg'.method = msg.method /\ msg'.target = msg.target
                     /\ msg'.version = msg.version
<1>1. \A s, b : Goto(s, b) => rd'.state = s
  BY RdSteps
<1>2. /\ \A k, v : Push(k, v) => Kept3
      /\ \A v : Store(v) => Kept3
      /\ Same => Kept3
  <2>1. /\ \A k, v : Push(k, v) => Kept3
        /\ \A v : Store(v) => Kept3
    BY MsgSteps
  <2>. QED  BY <2>1 DEF Same
<1>3. \A s, b : Arg(s, b) => rd'.state = s
  BY DEF Arg, ReaderTyped
<1>4. \A s : rd' = [rd EXCEPT !.state = s, !.name = rd.buf, !.buf = <<>>] => rd'.state = s
  BY DEF ReaderTyped
<1>5. \A s : rd' = [rd EXCEPT !.state = s, !.name = rd.buf, !.buf = <<>>, !.total = @ + 1]
          => rd'.state = s
  BY DEF ReaderTyped
<1>6. \A s : Get(s) => rd.state = s
  BY DEF Get
<1>. HIDE DEF Kept3
<1>7. rd.state \in Later /\ rd'.state \in Later \cup {"failed"} /\ Kept3
  <2>1. CASE HeaderStart
    BY <1>1, <1>2, <1>6, <2>1 DEF HeaderStart
  <2>2. CASE HeaderName
    BY <1>1, <1>2, <1>4, <1>6, <2>2 DEF HeaderName, Keep, Fail
  <2>3. CASE HeaderSpaces
    BY <1>1, <1>2, <1>6, <2>3 DEF HeaderSpaces, Keep, Stay, Same
  <2>4. CASE HeaderValue
    BY <1>1, <1>2, <1>6, <2>4 DEF HeaderValue, Keep, Fail
  <2>5. CASE HeaderAlmost
    BY <1>1, <1>2, <1>6, <2>5 DEF HeaderAlmost
  <2>6. CASE HeaderEnd
    BY <1>1, <1>2, <1>6, <2>6 DEF HeaderEnd
  <2>7. CASE BodyBegin \/ ArgEnd
    BY <1>1, <1>2, <2>7 DEF BodyBegin, ArgEnd, ArgStates, Same
  <2>8. CASE ArgName
    BY <1>1, <1>2, <1>3, <1>5, <1>6, <2>8 DEF ArgName, GetArg, ArgStates, Same
  <2>9. CASE ArgValue
    BY <1>2, <1>3, <1>6, <2>9 DEF ArgValue, GetArg, ArgStates, Same
  <2>10. CASE ArgAlmost
    BY <1>2, <1>3, <1>6, <2>10 DEF ArgAlmost, GetArg, ArgStates
  <2>. QED  BY <2>1, <2>2, <2>3, <2>4, <2>5, <2>6, <2>7, <2>8, <2>9, <2>10
<1>8. Later \subseteq PastTarget /\ Later \cap {"http_major", "http_minor"} = {}
  BY DEF PastTarget, ArgStates
<1>. QED  BY <1>7, <1>8, LineStays DEF Kept3

LEMMA LineStep == ReaderTyped /\ LineInv /\ [ReaderNext]_rvars => LineInv'
<1>1. ASSUME ReaderTyped, Eof, LineInv PROVE LineInv'
  BY <1>1, RdSteps, LineLeft DEF Eof
<1>2. ASSUME UNCHANGED rvars, LineInv PROVE LineInv'
  BY <1>2 DEF LineInv, rvars
<1>. QED  BY <1>1, <1>2, LineSteps, LaterSteps DEF ReaderNext

LEMMA LineInit == ReaderInit => LineInv
<1>1. "start" \notin PastMethod \cup PastTarget
  BY DEF PastMethod, PastTarget, ArgStates
<1>2. ReaderInit => rd.state = "start" /\ msg.version = 0
  BY DEF ReaderInit, NoMsg
<1>. QED  BY <1>1, <1>2 DEF LineInv

\* The line read so far, with the types: the part of the invariant that does not look at
\* the stream (read.hpp:24-229)
THEOREM LineInvariant == ReaderSpec => [](ReaderTyped /\ LineInv)
<1>1. ReaderInit => ReaderTyped /\ LineInv
  BY TypedInit, LineInit
<1>2. ReaderTyped /\ LineInv /\ [ReaderNext]_rvars => (ReaderTyped /\ LineInv)'
  BY TypedStep, LineStep
<1>. QED  BY <1>1, <1>2, PTL DEF ReaderSpec

\* The variables keep their types, for any requests and limits: the array and what is
\* kept of it hold tokens, and no more than MAXTRUNK is counted (read.hpp, vector_body.cpp).
THEOREM ReaderTypeCorrect == ReaderSpec => []ReaderTypeOK
<1>1. ReaderTyped => ReaderTypeOK
  <2> SUFFICES ASSUME ReaderTyped PROVE ReaderTypeOK
    OBVIOUS
  <2>1. \A s \in {in, rd.buf, rd.name, query, msg.target} : s \in Seq(Token)
    BY DEF ReaderTyped
  <2>2. \A s \in Seq(Token) : \A k \in DOMAIN s : s[k] \in Token
    OBVIOUS
  <2>. QED  BY <2>1, <2>2 DEF ReaderTyped, ReaderTypeOK
<1>. QED  BY <1>1, LineInvariant, PTL

\* Whatever a client sends: what host::serve appends to its directory is a path that
\* begins with a slash and has no space or line break, the method is one of the five and
\* the version is at most 1.1 (read.hpp:57-218, Gateway.cpp:50-60).
THEOREM SaneLine == ReaderSpec => []LineIsSane
<1>1. ReaderTyped /\ LineInv => LineIsSane
  <2> SUFFICES ASSUME ReaderTyped, LineInv, rd.state \in {"header", "done"}
               PROVE  /\ msg.method \in Methods
                      /\ msg.target # <<>> /\ Head(msg.target) = "slash"
                      /\ \A k \in DOMAIN msg.target : msg.target[k] \in Usual \cup {"slash", "dot"}
                      /\ msg.version \in 0 .. 11
    BY DEF LineIsSane
  <2>1. rd.state \in PastTarget /\ rd.state \in PastMethod
    BY DEF PastTarget, PastMethod
  <2>2. msg.target \in Seq(Token) /\ IsPath(msg.target)
    BY <2>1 DEF ReaderTyped, LineInv
  <2>3. msg.target # <<>> /\ Head(msg.target) = msg.target[1]
    BY <2>2, HeadTailProperties DEF IsPath
  <2>. QED  BY <2>1, <2>2, <2>3 DEF LineInv, IsPath
<1>. QED  BY <1>1, LineInvariant, PTL

-----------------------------------------------------------------------------
(* The header                                                               *)

\* One more token read is one more token spelled.
LEMMA SpelledMore ==
    ASSUME NEW w, NEW s \in Seq(Token), NEW c \in Token, NEW j \in Int,
           Spelled(w, s, j), w[j + Len(s)] = c
    PROVE  Spelled(w, Append(s, c), j)
<1>1. /\ Len(s) \in Nat /\ Len(Append(s, c)) = Len(s) + 1
      /\ \A l \in 1 .. Len(s) + 1 : Append(s, c)[l] = IF l = Len(s) + 1 THEN c ELSE s[l]
  BY LenProperties, AppendProperties
<1>2. ASSUME NEW l \in 1 .. Len(s) + 1
      PROVE  w[j + l - 1] = Append(s, c)[l]
  <2>1. CASE l = Len(s) + 1
    <3>1. j + l - 1 = j + Len(s)
      BY <1>1, <2>1
    <3>. QED  BY <1>1, <2>1, <3>1
  <2>2. CASE l # Len(s) + 1
    <3>1. l \in 1 .. Len(s)
      BY <1>1, <2>2
    <3>. QED  BY <1>1, <2>2, <3>1 DEF Spelled
  <2>. QED  BY <2>1, <2>2
<1>. QED  BY <1>1, <1>2 DEF Spelled

LEMMA SpelledOne ==
    ASSUME NEW w, NEW j \in Int, NEW c, w[j] = c
    PROVE  Spelled(w, <<c>>, j)
<1>1. Len(<<c>>) = 1 /\ <<c>>[1] = c
  OBVIOUS
<1>2. \A l \in 1 .. 1 : l = 1 /\ j + l - 1 = j
  OBVIOUS
<1>. QED  BY <1>1, <1>2 DEF Spelled

\* Fields that are stored stay lines while more is read.
LEMMA StoredStays ==
    ASSUME ReaderTyped, StoredInv, rd.state \in HeaderStates,
           in' = in, pos' \in Nat, pos <= pos', msg'.fields = msg.fields
    PROVE  StoredInv'
<1>1. pos \in Nat /\ \A j \in 1 .. pos : j \in 1 .. pos'
  BY LenProperties DEF ReaderTyped
<1>2. \A v \in Seq(Token), k \in 1 .. pos : Ended(in, v, k, pos) => Ended(in, v, k, pos')
  <2>1. \A v \in Seq(Token) : Len(v) \in Nat
    BY LenProperties
  <2>. QED  BY <1>1, <2>1 DEF Ended
<1>3. ASSUME NEW n \in DOMAIN msg.fields
      PROVE  \E j, k \in 1 .. pos' : Begun(in, n, j, k) /\ Ended(in, msg.fields[n], k, pos')
  <2>1. PICK j \in 1 .. pos, k \in 1 .. pos : Begun(in, n, j, k) /\ Ended(in, msg.fields[n], k, pos)
    BY <1>3 DEF StoredInv
  <2>2. msg.fields[n] \in Seq(Token)
    BY <1>3 DEF ReaderTyped
  <2>. QED  BY <1>1, <1>2, <2>1, <2>2
<1>. QED  BY <1>3 DEF StoredInv

\* A field that is stored is one line if the name, the value and the line's end are.
LEMMA StoredMore ==
    ASSUME ReaderTyped, StoredInv, rd.state \in HeaderStates,
           in' = in, pos' = pos + 1, NEW v \in Seq(Token), Store(v),
           NEW j \in 1 .. pos', NEW k \in 1 .. pos',
           Begun(in, rd.name, j, k), Ended(in, v, k, pos')
    PROVE  StoredInv'
<1>1. pos \in Nat /\ pos' \in Nat /\ \A i \in 1 .. pos : i \in 1 .. pos'
  BY LenProperties DEF ReaderTyped
<1>2. \A u \in Seq(Token), i \in 1 .. pos : Ended(in, u, i, pos) => Ended(in, u, i, pos')
  <2>1. \A u \in Seq(Token) : Len(u) \in Nat
    BY LenProperties
  <2>. QED  BY <1>1, <2>1 DEF Ended
<1>3. /\ DOMAIN msg'.fields = DOMAIN msg.fields \cup {rd.name}
      /\ \A n \in DOMAIN msg'.fields : msg'.fields[n] = IF n = rd.name THEN v ELSE msg.fields[n]
  BY MsgSteps
<1>4. ASSUME NEW n \in DOMAIN msg'.fields
      PROVE  \E i, m \in 1 .. pos' : Begun(in, n, i, m) /\ Ended(in, msg'.fields[n], m, pos')
  <2>1. CASE n = rd.name
    BY <1>3, <1>4, <2>1
  <2>2. CASE n # rd.name
    <3>1. n \in DOMAIN msg.fields /\ msg'.fields[n] = msg.fields[n]
      BY <1>3, <1>4, <2>2
    <3>2. PICK i \in 1 .. pos, m \in 1 .. pos :
              Begun(in, n, i, m) /\ Ended(in, msg.fields[n], m, pos)
      BY <3>1 DEF StoredInv
    <3>3. msg.fields[n] \in Seq(Token)
      BY <3>1 DEF ReaderTyped
    <3>. QED  BY <1>1, <1>2, <3>1, <3>2, <3>3
  <2>. QED  BY <2>1, <2>2
<1>. QED  BY <1>4 DEF StoredInv

\* A step of the header that leaves the fields and does not go on with a name or value
LEMMA HeaderQuiet ==
    ASSUME ReaderTyped, HeaderInv, rd.state \in HeaderStates,
           in' = in, pos' \in Nat, pos <= pos', msg'.fields = msg.fields,
           rd'.state \notin {"name", "spaces_before_value", "value"}
    PROVE  HeaderInv'
<1>1. StoredInv'
  BY StoredStays DEF HeaderInv
<1>. QED  BY <1>1 DEF HeaderInv, NameInv, ValueInv

LEMMA LineLines ==
    ASSUME ReaderTyped, HeaderInv,
           \/ LineStart \/ LineMethod \/ LineSpaces \/ LineUri \/ LineParams
           \/ LineHttp \/ LineMajor \/ LineMinor
    PROVE  HeaderInv'
<1>. DEFINE States == {"start", "method", "spaces_before_uri", "uri", "params", "http",
                       "http_major", "http_minor"}
<1>1. \E s \in States : Get(s)
  BY DEF LineStart, LineMethod, LineSpaces, LineUri, LineParams, LineHttp, LineMajor,
         LineMinor
<1>2. rd.state \in States /\ pos \in Nat /\ pos' = pos + 1 /\ in' = in
  BY <1>1, Taken
<1>3. /\ \A s, b : Goto(s, b) => rd'.state = s
      /\ \A n : rd' = [rd EXCEPT !.i = n] => rd'.state = rd.state
      /\ \A s, n : rd' = [rd EXCEPT !.state = s, !.i = n] => rd'.state = s
  BY RdSteps DEF ReaderTyped
<1>4. rd'.state \in States \cup {"failed", "h_start"}
  <2>1. /\ \A s : Keep(s) => rd'.state = s
        /\ Fail => rd'.state = "failed"
        /\ Stay => rd'.state = rd.state
    BY <1>3 DEF Keep, Fail, Stay
  <2>2. CASE LineStart \/ LineMethod \/ LineSpaces
    BY <1>2, <1>3, <2>1, <2>2 DEF LineStart, LineMethod, LineSpaces
  <2>3. CASE LineUri \/ LineParams
    BY <1>2, <1>3, <2>1, <2>3 DEF LineUri, LineParams
  <2>4. CASE LineHttp
    BY <1>2, <1>3, <2>1, <2>4 DEF LineHttp
  <2>5. CASE LineMajor \/ LineMinor
    BY <1>2, <1>3, <2>1, <2>5 DEF LineMajor, LineMinor
  <2>. QED  BY <2>2, <2>3, <2>4, <2>5
<1>5. msg'.fields = msg.fields
  <2>1. \/ msg' = msg
        \/ \E m : msg' = [msg EXCEPT !.method = m]
        \/ \E t : msg' = [msg EXCEPT !.target = t]
        \/ \E v : msg' = [msg EXCEPT !.version = v]
    BY DEF LineStart, LineMethod, LineSpaces, LineUri, LineParams, LineHttp, LineMajor,
           LineMinor, Keep, Fail, Stay, Same
  <2>. QED  BY <2>1, MsgSteps
<1>6. rd.state \in HeaderStates /\ rd'.state \notin {"name", "spaces_before_value", "value"}
  BY <1>2, <1>4 DEF HeaderStates
<1>7. pos' \in Nat /\ pos <= pos'
  BY <1>2
<1>. QED  BY <1>2, <1>5, <1>6, <1>7, HeaderQuiet

\* A token that is added to the array
LEMMA ArrayGrows ==
    ASSUME ReaderTyped, NEW s, Get(s), Keep(s), First >= 1, Spelled(in, rd.buf, First)
    PROVE  /\ rd'.buf # <<>> /\ First' = First /\ Spelled(in, rd'.buf, First)
           /\ rd'.name = rd.name /\ rd'.state = s
<1>1. /\ ch \in Token /\ rd.buf \in Seq(Token) /\ pos \in Nat /\ pos' = pos + 1
      /\ rd'.buf = Append(rd.buf, ch) /\ rd'.name = rd.name /\ rd'.state = s
  BY Taken, RdSteps DEF Keep, ReaderTyped
<1>2. Len(rd.buf) \in Nat /\ Len(rd'.buf) = Len(rd.buf) + 1 /\ rd'.buf # <<>>
  BY <1>1, LenProperties, AppendProperties
<1>3. First' = First /\ First \in Int /\ First + Len(rd.buf) = pos + 1
  BY <1>1, <1>2 DEF First
<1>4. in[First + Len(rd.buf)] = ch
  BY <1>3 DEF ch
<1>5. Spelled(in, Append(rd.buf, ch), First)
  BY <1>1, <1>3, <1>4, SpelledMore
<1>. QED  BY <1>1, <1>2, <1>3, <1>5

LEMMA ArrayIsLast ==
    ASSUME ReaderTyped, NEW s, Get(s), First >= 1, rd.buf # <<>>
    PROVE  First + Len(rd.buf) = pos' /\ First \in 1 .. pos' /\ Len(rd.buf) # 0
<1>1. pos \in Nat /\ pos' = pos + 1 /\ Len(rd.buf) \in Nat /\ Len(rd.buf) # 0
  BY Taken, LenProperties, EmptySeq DEF ReaderTyped
<1>2. \A p \in Nat, n \in Nat :
          n # 0 /\ p - n + 1 >= 1 => (p - n + 1) + n = p + 1 /\ p - n + 1 \in 1 .. p + 1
  OBVIOUS
<1>3. pos - Len(rd.buf) + 1 >= 1
  BY DEF First
<1>4. (pos - Len(rd.buf) + 1) + Len(rd.buf) = pos + 1 /\ pos - Len(rd.buf) + 1 \in 1 .. pos + 1
  BY ONLY <1>1, <1>2, <1>3
<1>. QED  BY <1>1, <1>4 DEF First

LEMMA HeaderLines ==
    ASSUME ReaderTyped, HeaderInv,
           \/ HeaderStart \/ HeaderName \/ HeaderSpaces \/ HeaderValue \/ HeaderAlmost
           \/ HeaderEnd
    PROVE  HeaderInv'
<1>. DEFINE States == {"h_start", "name", "spaces_before_value", "value", "almost_done",
                       "done_cr", "h_almost_done"}
<1>1. \E s \in States : Get(s)
  BY DEF HeaderStart, HeaderName, HeaderSpaces, HeaderValue, HeaderAlmost, HeaderEnd
<1>2. /\ rd.state \in States /\ pos \in Nat /\ pos' = pos + 1 /\ in' = in /\ ch \in Token
      /\ pos' \in Nat /\ pos <= pos' /\ pos' \in 1 .. pos' /\ rd.buf \in Seq(Token)
      /\ Len(rd.buf) \in Nat /\ in[pos'] = ch /\ rd.name \in Seq(Token)
  BY <1>1, Taken, LenProperties DEF ReaderTyped, ch
<1>3. rd.state \in HeaderStates
  BY <1>2 DEF HeaderStates
<1>4. \A s, b : Goto(s, b) => rd'.state = s /\ rd'.buf = b /\ rd'.name = rd.name
  BY RdSteps
<1>5. ASSUME Same PROVE StoredInv' /\ msg'.fields = msg.fields
  BY <1>2, <1>3, <1>5, StoredStays DEF HeaderInv, Same
<1>6. ASSUME Same, rd'.state \notin {"name", "spaces_before_value", "value"}
      PROVE  HeaderInv'
  BY <1>2, <1>3, <1>5, <1>6, HeaderQuiet
<1>7. ASSUME NEW v \in Seq(Token), Store(v), NEW j \in 1 .. pos', NEW k \in 1 .. pos',
             Begun(in, rd.name, j, k), Ended(in, v, k, pos'),
             Goto("almost_done", <<>>) \/ Goto("h_start", <<>>)
      PROVE  HeaderInv'
  <2>1. StoredInv'
    BY <1>2, <1>3, <1>7, StoredMore DEF HeaderInv
  <2>2. rd'.state \notin {"name", "spaces_before_value", "value"}
    BY <1>4, <1>7
  <2>. QED  BY <2>1, <2>2 DEF HeaderInv, NameInv, ValueInv
<1>. HIDE DEF States
<1>8. CASE HeaderStart
  <2>. rd.state = "h_start" /\ Same
    BY <1>8, Taken DEF HeaderStart
  <2>1. CASE Goto("name", <<ch>>)
    <3>1. rd'.state = "name" /\ rd'.buf = <<ch>>
      BY <1>4, <2>1
    <3>2. Len(rd'.buf) = 1 /\ First' = pos' /\ rd'.buf # <<>>
      BY <1>2, <3>1 DEF First
    <3>3. Spelled(in', rd'.buf, First')
      BY <1>2, <3>1, <3>2, SpelledOne
    <3>4. First' >= 1
      BY <1>2, <3>2
    <3>. QED  BY <1>5, <3>1, <3>2, <3>3, <3>4 DEF HeaderInv, NameInv, ValueInv
  <2>2. CASE Goto("h_almost_done", <<>>) \/ Goto("header", <<>>) \/ UNCHANGED rd
    BY <1>4, <1>6, <2>2
  <2>. QED  BY <1>8, <2>1, <2>2 DEF HeaderStart
<1>9. CASE HeaderName
  <2>. rd.state = "name" /\ Get("name")
    BY <1>9, Taken DEF HeaderName
  <2>1. First >= 1 /\ Spelled(in, rd.buf, First) /\ rd.buf # <<>>
    BY DEF HeaderInv, NameInv
  <2>2. CASE Keep("name")
    <3>1. /\ rd'.buf # <<>> /\ First' = First /\ Spelled(in, rd'.buf, First)
          /\ rd'.state = "name"
      BY <2>1, <2>2, ArrayGrows
    <3>2. Same
      BY <2>2 DEF Keep
    <3>. QED  BY <1>2, <1>5, <2>1, <3>1, <3>2 DEF HeaderInv, NameInv, ValueInv
  <2>3. CASE /\ ch = "colon" /\ Same
             /\ rd' = [rd EXCEPT !.state = "spaces_before_value", !.name = rd.buf, !.buf = <<>>]
    <3>1. rd'.state = "spaces_before_value" /\ rd'.name = rd.buf /\ rd'.buf = <<>>
      BY <2>3 DEF ReaderTyped
    <3>2. First + Len(rd.buf) = pos' /\ First \in 1 .. pos'
      BY <2>1, ArrayIsLast
    <3>3. \A l \in First + Len(rd.buf) + 1 .. (pos' + 1) - 1 : in[l] = "sp"
      BY <1>2, <3>2
    <3>4. Begun(in, rd.buf, First, pos' + 1)
      BY <1>2, <2>1, <2>3, <3>2, <3>3 DEF Begun
    <3>. QED  BY <1>2, <1>5, <2>3, <3>1, <3>2, <3>4 DEF HeaderInv, NameInv, ValueInv
  <2>4. CASE Fail
    BY <1>4, <1>6, <2>4 DEF Fail
  <2>. QED  BY <1>9, <2>2, <2>3, <2>4 DEF HeaderName
<1>10. CASE HeaderSpaces
  <2>. rd.state = "spaces_before_value" /\ Get("spaces_before_value")
    BY <1>10, Taken DEF HeaderSpaces
  <2>1. PICK j \in 1 .. pos : Begun(in, rd.name, j, pos')
    BY <1>2 DEF HeaderInv, ValueInv
  <2>2. rd.buf = <<>> /\ j \in 1 .. pos' /\ j \in Nat /\ Len(rd.name) \in Nat
    BY <1>2, <2>1, LenProperties DEF HeaderInv, ValueInv
  <2>3. CASE ch = "sp" /\ Stay
    <3>1. Begun(in, rd.name, j, pos' + 1)
      <4>1. \A l \in j + Len(rd.name) + 1 .. (pos' + 1) - 1 :
                l = pos' \/ l \in j + Len(rd.name) + 1 .. pos' - 1
        BY <1>2, <2>2
      <4>2. j + Len(rd.name) < pos' => j + Len(rd.name) < pos' + 1
        BY <1>2, <2>2
      <4>. QED  BY <1>2, <2>1, <2>3, <4>1, <4>2 DEF Begun
    <3>2. rd' = rd /\ Same
      BY <2>3 DEF Stay, Same
    <3>. QED  BY <1>2, <1>5, <2>2, <3>1, <3>2 DEF HeaderInv, NameInv, ValueInv
  <2>4. CASE Keep("value")
    <3>1. rd'.state = "value" /\ rd'.buf = <<ch>> /\ rd'.name = rd.name /\ Same
      BY <1>2, <1>4, <2>2, <2>4 DEF Keep
    <3>2. Len(rd'.buf) = 1 /\ First' = pos' /\ rd'.buf # <<>>
      BY <1>2, <3>1 DEF First
    <3>3. Spelled(in', rd'.buf, First')
      BY <1>2, <3>1, <3>2, SpelledOne
    <3>4. First' >= 1
      BY <1>2, <3>2
    <3>. QED  BY <1>2, <1>5, <2>1, <2>2, <3>1, <3>2, <3>3, <3>4
              DEF HeaderInv, NameInv, ValueInv
  <2>5. CASE /\ ch \in Blank /\ Store(<<"nul">>)
             /\ Goto("almost_done", <<>>) \/ Goto("h_start", <<>>)
    <3>1. <<"nul">> \in Seq(Token)
      BY DEF Token, Control
    <3>2. Ended(in, <<"nul">>, pos', pos')
      BY <1>2, <2>5 DEF Ended
    <3>. QED  BY <1>2, <1>7, <2>1, <2>2, <2>5, <3>1, <3>2
  <2>. QED  BY <1>10, <2>3, <2>4, <2>5 DEF HeaderSpaces, Blank
<1>11. CASE HeaderValue
  <2>. rd.state = "value" /\ Get("value")
    BY <1>11, Taken DEF HeaderValue
  <2>1. First >= 1 /\ Spelled(in, rd.buf, First) /\ rd.buf # <<>>
    BY DEF HeaderInv, ValueInv
  <2>2. PICK j \in 1 .. pos : Begun(in, rd.name, j, First)
    BY DEF HeaderInv, ValueInv
  <2>3. j \in 1 .. pos' /\ First + Len(rd.buf) = pos' /\ First \in 1 .. pos' /\ Len(rd.buf) # 0
    <3>1. j \in 1 .. pos'
      BY <1>2, <2>2
    <3>. QED  BY <2>1, <3>1, ArrayIsLast
  <2>4. CASE Keep("value")
    <3>1. /\ rd'.buf # <<>> /\ First' = First /\ Spelled(in, rd'.buf, First)
          /\ rd'.state = "value" /\ rd'.name = rd.name
      BY <2>1, <2>4, ArrayGrows
    <3>2. Same
      BY <2>4 DEF Keep
    <3>. QED  BY <1>2, <1>5, <2>1, <2>2, <2>3, <3>1, <3>2 DEF HeaderInv, NameInv, ValueInv
  <2>5. CASE Fail
    BY <1>4, <1>6, <2>5 DEF Fail
  <2>6. CASE /\ ch \in Blank /\ Store(CString(rd.buf))
             /\ Goto("almost_done", <<>>) \/ Goto("h_start", <<>>)
    <3>1. CString(rd.buf) \in Seq(Token)
      BY <1>2 DEF CString
    <3>2. in[First] = Head(rd.buf)
      <4>1. Head(rd.buf) = rd.buf[1] /\ 1 \in 1 .. Len(rd.buf) /\ First + 1 - 1 = First
        BY <1>2, <2>1, <2>3, HeadTailProperties
      <4>. QED  BY <2>1, <4>1 DEF Spelled
    <3>3. Ended(in, CString(rd.buf), First, pos')
      BY <1>2, <2>1, <2>3, <2>6, <3>2 DEF Ended, CString
    <3>. QED  BY <1>7, <2>2, <2>3, <2>6, <3>1, <3>3
  <2>. QED  BY <1>11, <2>4, <2>5, <2>6 DEF HeaderValue, Blank
<1>12. CASE HeaderAlmost
  <2>1. Same /\ rd.state \in {"almost_done", "done_cr"}
    BY <1>12, Taken DEF HeaderAlmost
  <2>2. rd'.state \in {"almost_done", "done_cr", "h_start"}
    BY <1>4, <1>12, <2>1 DEF HeaderAlmost
  <2>. QED  BY <1>6, <2>1, <2>2
<1>13. CASE HeaderEnd
  BY <1>4, <1>6, <1>13 DEF HeaderEnd
<1>. QED  BY <1>8, <1>9, <1>10, <1>11, <1>12, <1>13

LEMMA HeaderStep == ReaderTyped /\ HeaderInv /\ [ReaderNext]_rvars => HeaderInv'
<1> SUFFICES ASSUME ReaderTyped, HeaderInv, [ReaderNext]_rvars PROVE HeaderInv'
  OBVIOUS
<1>1. CASE Eof
  <2>1. rd'.state = "cut"
    BY <1>1, RdSteps DEF Eof
  <2>. QED  BY <2>1 DEF HeaderInv, NameInv, ValueInv, StoredInv, HeaderStates
<1>2. CASE BodyBegin \/ ArgName \/ ArgValue \/ ArgAlmost \/ ArgEnd
  <2>1. \A s, b : Goto(s, b) \/ Arg(s, b) => rd'.state = s
    BY DEF Goto, Arg, ReaderTyped
  <2>2. \A s : rd' = [rd EXCEPT !.state = s, !.name = rd.buf, !.buf = <<>>, !.total = @ + 1]
            => rd'.state = s
    BY DEF ReaderTyped
  <2>3. rd'.state \in {"a_name", "a_value", "a_almost_done", "done"}
    <3>1. CASE BodyBegin \/ ArgEnd
      BY <2>1, <3>1 DEF BodyBegin, ArgEnd
    <3>2. CASE ArgName
      BY <2>1, <2>2, <3>2 DEF ArgName
    <3>3. CASE ArgValue
      BY <2>1, <3>3 DEF ArgValue
    <3>4. CASE ArgAlmost
      BY <2>1, <3>4 DEF ArgAlmost
    <3>. QED  BY <1>2, <3>1, <3>2, <3>3, <3>4
  <2>. QED  BY <2>3 DEF HeaderInv, NameInv, ValueInv, StoredInv, HeaderStates
<1>3. CASE UNCHANGED rvars
  <2>1. rd' = rd /\ in' = in /\ pos' = pos /\ msg' = msg
    BY <1>3 DEF rvars
  <2>2. First' = First
    BY <2>1 DEF First
  <2>. QED  BY <2>1, <2>2 DEF HeaderInv, NameInv, ValueInv, StoredInv
<1>. QED  BY <1>1, <1>2, <1>3, LineLines, HeaderLines DEF ReaderNext

\* A line spelled token by token is the property's.
LEMMA SpelledSubSeq ==
    ASSUME NEW w \in Seq(Token), NEW s \in Seq(Token), NEW j \in Nat \ {0},
           j + Len(s) - 1 <= Len(w), Spelled(w, s, j)
    PROVE  SubSeq(w, j, j + Len(s) - 1) = s
<1>1. Len(s) \in Nat /\ Len(w) \in Nat /\ DOMAIN s = 1 .. Len(s)
  BY LenProperties
<1>. DEFINE t == SubSeq(w, j, j + Len(s) - 1)
<1>2. \A l \in 1 .. Len(s) : j + l - 1 \in 1 .. Len(w)
  BY <1>1
<1>3. t \in Seq(Token) /\ Len(t) = Len(s) /\ \A l \in 1 .. Len(s) : t[l] = w[j + l - 1]
  BY <1>1, <1>2
<1>. HIDE DEF t
<1>4. \A l \in 1 .. Len(s) : t[l] = s[l]
  BY <1>3 DEF Spelled
<1>5. t = s
  BY <1>3, <1>4, SeqEqual
<1>. QED  BY <1>5 DEF t

LEMMA StoredAreLines == ReaderTyped /\ StoredInv => FieldsAreLines
<1> SUFFICES ASSUME ReaderTyped, StoredInv, rd.state \in HeaderStates \cup {"header"},
                    NEW n \in DOMAIN msg.fields
             PROVE  \E j \in 1 .. pos :
                LET v == msg.fields[n]
                    value == {k \in j + Len(n) + 1 .. pos :
                                \A l \in j + Len(n) + 1 .. k - 1 : in[l] = "sp"}
                IN  /\ SubSeq(in, j, j + Len(n)) = Append(n, "colon")
                    /\ \E k \in value :
                          \/ /\ k + Len(v) <= pos
                             /\ SubSeq(in, k, k + Len(v) - 1) = v
                             /\ in[k + Len(v)] \in Blank
                          \/ v = <<>> /\ in[k] = "nul"
                          \/ v = <<"nul">> /\ in[k] \in Blank
  BY DEF FieldsAreLines
<1>. DEFINE v == msg.fields[n]
<1>1. PICK j \in 1 .. pos, k \in 1 .. pos : Begun(in, n, j, k) /\ Ended(in, v, k, pos)
  BY DEF StoredInv
<1>2. /\ n \in Seq(Token) /\ v \in Seq(Token) /\ in \in Seq(Token)
      /\ Len(n) \in Nat /\ Len(v) \in Nat /\ Len(in) \in Nat /\ pos \in 0 .. Len(in)
  BY LenProperties DEF ReaderTyped
<1>. HIDE DEF v
<1>3. /\ j \in Nat \ {0} /\ k \in Nat \ {0} /\ k <= pos /\ pos <= Len(in)
      /\ j + Len(n) < k /\ in[j + Len(n)] = "colon" /\ Spelled(in, n, j)
      /\ \A l \in j + Len(n) + 1 .. k - 1 : in[l] = "sp"
  BY <1>1, <1>2 DEF Begun
<1>4. SubSeq(in, j, j + Len(n)) = Append(n, "colon")
  <2>1. "colon" \in Token
    BY DEF Token, Printed, Usual
  <2>2. Spelled(in, Append(n, "colon"), j)
    BY <1>2, <1>3, <2>1, SpelledMore
  <2>3. Len(Append(n, "colon")) = Len(n) + 1 /\ Append(n, "colon") \in Seq(Token)
    BY <1>2, <2>1, AppendProperties
  <2>4. j + (Len(n) + 1) - 1 = j + Len(n) /\ j + Len(n) <= Len(in)
    BY <1>2, <1>3
  <2>. QED  BY <1>2, <1>3, <2>2, <2>3, <2>4, SpelledSubSeq
<1>5. k \in j + Len(n) + 1 .. pos
  BY <1>2, <1>3
<1>6. \/ /\ k + Len(v) <= pos
         /\ SubSeq(in, k, k + Len(v) - 1) = v
         /\ in[k + Len(v)] \in Blank
      \/ v = <<>> /\ in[k] = "nul"
      \/ v = <<"nul">> /\ in[k] \in Blank
  <2>1. CASE Spelled(in, v, k) /\ k + Len(v) <= pos /\ in[k + Len(v)] \in Blank
    <3>1. k + Len(v) - 1 <= Len(in)
      BY <1>2, <1>3, <2>1
    <3>2. SubSeq(in, k, k + Len(v) - 1) = v
      BY <1>2, <1>3, <2>1, <3>1, SpelledSubSeq
    <3>. QED  BY <2>1, <3>2
  <2>. QED  BY <1>1, <2>1 DEF Ended
<1>. QED  BY <1>1, <1>3, <1>4, <1>5, <1>6 DEF v

\* The inductive invariant: what the reader holds while it is in the line or the header
THEOREM ReaderInvariant == ReaderSpec => []ReaderInv
<1>1. ReaderInit => HeaderInv
  <2> SUFFICES ASSUME ReaderInit PROVE HeaderInv
    OBVIOUS
  <2>1. rd.state = "start" /\ msg.fields = <<>>
    BY DEF ReaderInit, NoMsg
  <2>2. DOMAIN msg.fields = {}
    BY <2>1
  <2>. QED  BY <2>1, <2>2 DEF HeaderInv, NameInv, ValueInv, StoredInv
<1>2. ReaderInit => ReaderInv
  BY <1>1, TypedInit, LineInit DEF ReaderInv
<1>3. ReaderInv /\ [ReaderNext]_rvars => ReaderInv'
  BY TypedStep, LineStep, HeaderStep DEF ReaderInv
<1>. QED  BY <1>2, <1>3, PTL DEF ReaderSpec

\* Whatever a client sends: a field that is stored is one line of the header, its name
\* up to the colon and its value up to the end of the line; no path through the states
\* joins the name of one line to the value of another (read.hpp:246-346).
THEOREM StoredFieldsAreLines == ReaderSpec => []FieldsAreLines
<1>1. ReaderInv => FieldsAreLines
  BY StoredAreLines DEF ReaderInv, HeaderInv
<1>. QED  BY <1>1, ReaderInvariant, PTL
=============================================================================
