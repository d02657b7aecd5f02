--------------------------- MODULE RequestReader ---------------------------
(***************************************************************************)
(* A request from the wire to its message: http::read_header_line,         *)
(* read_header and read_body (src/src/http/read.hpp) and                   *)
(* vector_body<reqargs>::read (src/src/http/vector_body.cpp), in the order *)
(* in which the RW handler and host::serve (src/src/Gateway.cpp) use them. *)
(*                                                                         *)
(* The stream is a sequence of tokens: a word (a run of letters), a digit, *)
(* or one of the other characters the readers tell apart.  rd.state says   *)
(* which loop is running and the value of its state variable; rd.buf is    *)
(* the array the loop fills up to i.  The client may stop sending anywhere *)
(* (Eof).  The capacity of the arrays is not modelled, except the length   *)
(* that read_header itself tests.                                          *)
(***************************************************************************)
EXTENDS Integers, SequencesExt

CONSTANTS Requests, \* what clients mean to say, see Wire
          Size,     \* the words, each with its number of letters
          Upper,    \* those all in capitals
          Noise,    \* tokens that may stand in the place of another
          MaxName,  \* MAXFIELDNAME, in tokens
          MaxTrunk  \* MAXTRUNK, in tokens

ASSUME ReaderAssumption ==
    /\ Upper \subseteq DOMAIN Size
    /\ \A w \in DOMAIN Size : Size[w] \in Nat \ {0}
    /\ MaxName \in Nat \ {0} /\ MaxTrunk \in Nat

VARIABLES
    sent,   \* history: the request the client sends
    clean,  \* history: no token of it was replaced
    in,     \* the stream that is read: the connection, later perhaps the query
    pos,    \* tokens taken from it
    rd,     \* the local variables of the running loop: state, buf, i, name, total
    msg,    \* the message: method, target, version, fields; and the arguments
    query   \* *querystr_ptr, <<>> for none

rvars == <<sent, clean, in, pos, rd, msg, query>>

-----------------------------------------------------------------------------
(* Tokens and what the tables of utils.hpp say of them                      *)

Word == DOMAIN Size
Digit == {"0", "1", "2"}
Value == [d \in Digit |-> CASE d = "0" -> 0 [] d = "1" -> 1 [] d = "2" -> 2]
Blank == {"cr", "lf"}
Control == Blank \cup {"nul"}
Usual == Word \cup Digit \cup {"eq", "amp", "colon"}   \* usual[]
Printed == Usual \cup {"sp", "slash", "dot", "qm"}     \* isprint
NameChar == Word \cup Digit                            \* lowcase[]
Methods == {"GET", "PUT", "HEAD", "POST", "DELETE"}
LineEnd == {<<"lf">>, <<"cr", "lf">>}

\* What a std::string made from the array holds
CString(buf) == IF buf # <<>> /\ Head(buf) = "nul" THEN <<>> ELSE buf

-----------------------------------------------------------------------------
(* The client                                                               *)

\* arguments with the token between two of them
Joined(args, sep) ==
    FlattenSeq([k \in DOMAIN args |->
        (IF k = 1 THEN <<>> ELSE <<sep>>) \o args[k].key \o <<"eq">> \o args[k].value])

HeaderOf(r) ==
    r.lead \o <<r.method, "sp">> \o r.path
    \o (IF r.inquery THEN <<"qm">> \o Joined(r.args, "amp") ELSE <<>>)
    \o <<"sp", "HTTP", "slash", "1", "dot", "1">> \o r.eol
    \o FlattenSeq([k \in DOMAIN r.fields |->
                 r.fields[k].name \o <<"colon", "sp">> \o r.fields[k].value \o r.eol])
    \o r.eol

\* A request as a client puts it on the wire
Wire(r) == HeaderOf(r) \o (IF r.inquery THEN <<>> ELSE Joined(r.args, r.sep) \o r.end)

\* What clients mean to say: the method and the path are ones the readers take,
\* a name is shorter than MAXFIELDNAME, a value does not begin with a space, and
\* keys and values hold no delimiter of their own.
WellFormed(r) ==
    /\ r.lead \in Seq(Blank) /\ r.method \in Methods \cap Upper
    /\ r.path \in Seq(Usual \cup {"slash", "dot"}) /\ r.path # <<>> /\ Head(r.path) = "slash"
    /\ r.inquery \in BOOLEAN /\ r.sep \in {"amp", "lf"}
    /\ r.args \in Seq([key : Seq(Usual \ {"amp", "eq"}), value : Seq(Printed \ {"amp", "sp"})])
    /\ r.fields \in Seq([name : Seq(NameChar), value : Seq(Printed)])
    /\ \A k \in DOMAIN r.fields :
          /\ Len(r.fields[k].name) \in 1 .. MaxName - 1
          /\ r.fields[k].value # <<>> => Head(r.fields[k].value) # "sp"
    /\ r.eol \in LineEnd /\ r.end \in LineEnd \cup {<<>>}

ASSUME RequestAssumption ==
    /\ \A r \in Requests : WellFormed(r)
    /\ "HTTP" \in Word /\ Size["HTTP"] = 4
    /\ Word \cap (Digit \cup Control
                 \cup {"eq", "amp", "colon", "sp", "slash", "dot", "qm"}) = {}

\* What is sent are tokens.
ASSUME WireAssumption ==
    /\ \A r \in Requests : Wire(r) \in Seq(Printed \cup Control)
    /\ Noise \subseteq Printed \cup Control

-----------------------------------------------------------------------------
(* Steps of a loop                                                          *)

NoMsg == [method |-> "none", target |-> <<>>, version |-> 0, fields |-> <<>>, args |-> <<>>]

ReaderInit ==
    /\ sent \in Requests
    /\ \/ clean = TRUE /\ in = Wire(sent)
       \/ /\ clean = FALSE
          /\ \E k \in DOMAIN Wire(sent), t \in Noise :
                t # Wire(sent)[k] /\ in = [Wire(sent) EXCEPT ![k] = t]
    /\ pos = 0
    /\ rd = [state |-> "start", buf |-> <<>>, i |-> 0, name |-> <<>>, total |-> 0]
    /\ msg = NoMsg
    /\ query = <<>>

ch == in[pos + 1]

\* is.get in state s
Get(s) ==
    /\ rd.state = s
    /\ pos < Len(in)
    /\ pos' = pos + 1
    /\ UNCHANGED <<sent, clean, in>>

Goto(s, b) == rd' = [rd EXCEPT !.state = s, !.buf = b]
Stay == UNCHANGED <<rd, msg, query>>
Same == UNCHANGED <<msg, query>>
Keep(s) == Goto(s, Append(rd.buf, ch)) /\ Same
Fail == Goto("failed", <<>>) /\ Same

-----------------------------------------------------------------------------
(* read_header_line                                                         *)

LineStart ==
    /\ Get("start")
    /\ \/ ch \in Blank /\ Stay
       \/ ch \in Upper /\ Keep("method")
       \/ ch \notin Blank \cup Upper /\ Fail

LineMethod ==
    /\ Get("method")
    /\ \/ ch \in Upper /\ Keep("method")
       \/ /\ ch = "sp" /\ Len(rd.buf) = 1 /\ Head(rd.buf) \in Methods
          /\ msg' = [msg EXCEPT !.method = Head(rd.buf)]
          /\ Goto("spaces_before_uri", <<>>)
          /\ UNCHANGED query
       \/ /\ \/ ch \notin Upper \cup {"sp"}
             \/ ch = "sp" /\ ~(Len(rd.buf) = 1 /\ Head(rd.buf) \in Methods)
          /\ Fail

\* Mutant of LineSpaces: a target need not begin with a slash
LineSpacesAny ==
    /\ Get("spaces_before_uri")
    /\ \/ ch = "sp" /\ Stay
       \/ ch # "sp" /\ Keep("uri")

LineSpaces ==
    /\ Get("spaces_before_uri")
    /\ \/ ch = "slash" /\ Keep("uri")
       \/ ch = "sp" /\ Stay
       \/ ch \notin {"slash", "sp"} /\ Fail

LineUri ==
    /\ Get("uri")
    /\ \/ ch \in Usual \cup {"slash", "dot"} /\ Keep("uri")
       \/ /\ ch \in {"qm", "sp"}
          /\ msg' = [msg EXCEPT !.target = rd.buf]
          /\ Goto(IF ch = "qm" THEN "params" ELSE "http", <<>>)
          /\ UNCHANGED query
       \/ ch \in Control /\ Fail

\* Mutant of LineParams: the space is not kept
LineParamsTrims ==
    /\ Get("params")
    /\ \/ ch \in Printed \ {"sp"} /\ Keep("params")
       \/ ch \in Blank /\ Stay
       \/ ch = "sp" /\ query' = rd.buf /\ Goto("http", <<>>) /\ UNCHANGED msg
       \/ ch = "nul" /\ Fail

\* the space that ends the query belongs to it
LineParams ==
    /\ Get("params")
    /\ \/ ch \in Printed \ {"sp"} /\ Keep("params")
       \/ ch \in Blank /\ Stay
       \/ ch = "sp" /\ query' = Append(rd.buf, ch) /\ Goto("http", <<>>) /\ UNCHANGED msg
       \/ ch = "nul" /\ Fail

\* the array is compared when, and only if, it holds four characters
LineHttp ==
    LET n == rd.i + (IF ch \in Word THEN Size[ch] ELSE 1)
        wrong == rd.i < 4 /\ n >= 4 /\ ~(rd.i = 0 /\ ch = "HTTP")
    IN  /\ Get("http")
        /\ \/ ch \in Usual /\ ~wrong /\ rd' = [rd EXCEPT !.i = n] /\ Same
           \/ ch \in Usual /\ wrong /\ Fail
           \/ ch = "slash" /\ rd' = [rd EXCEPT !.state = "http_major", !.i = 0] /\ Same
           \/ ch \notin Usual \cup {"slash"} /\ Stay

\* http_version is kept in rd.i; what is usual and no digit is passed over
LineMajor ==
    LET v == IF ch \in Digit THEN rd.i * 10 + Value[ch] ELSE rd.i
    IN  /\ Get("http_major")
        /\ \/ ch \in Usual /\ v <= 1 /\ rd' = [rd EXCEPT !.i = v] /\ Same
           \/ ch = "dot" /\ Goto("http_minor", <<>>) /\ Same
           \/ ch = "sp" /\ Stay
           \/ ch \in Usual /\ v > 1 /\ Fail
           \/ ch \notin Usual \cup {"dot", "sp"} /\ Fail

\* the break after the test for LF ends every other case
LineMinor ==
    LET v == IF ch \in Digit THEN rd.i * 10 + Value[ch] ELSE rd.i
    IN  /\ Get("http_minor")
        /\ \/ ch \in Usual /\ v <= 11 /\ rd' = [rd EXCEPT !.i = v] /\ Same
           \/ ch \in Usual /\ v > 11 /\ Fail
           \/ /\ ch = "lf"
              /\ msg' = [msg EXCEPT !.version = rd.i]
              /\ Goto("h_start", <<>>)
              /\ UNCHANGED query
           \/ ch \notin Usual \cup {"lf"} /\ Stay

-----------------------------------------------------------------------------
(* read_header                                                              *)

\* par.message_[fieldname] = v
Store(v) ==
    LET stored == [n \in DOMAIN msg.fields \cup {rd.name} |->
                      IF n = rd.name THEN v ELSE msg.fields[n]]
    IN  msg' = [msg EXCEPT !.fields = stored]

\* Mutant of HeaderStart: a line that begins otherwise continues the field before
HeaderStartFolds ==
    /\ Get("h_start")
    /\ \/ ch = "cr" /\ Goto("h_almost_done", <<>>)
       \/ ch = "lf" /\ Goto("header", <<>>)
       \/ ch \in NameChar /\ Goto("name", <<ch>>)
       \/ ch \notin Blank \cup NameChar /\ Goto("spaces_before_value", <<>>)
    /\ Same

HeaderStart ==
    /\ Get("h_start")
    /\ \/ ch = "cr" /\ Goto("h_almost_done", <<>>)
       \/ ch = "lf" /\ Goto("header", <<>>)
       \/ ch \in NameChar /\ Goto("name", <<ch>>)
       \/ ch \notin Blank \cup NameChar /\ UNCHANGED rd
    /\ Same

HeaderName ==
    /\ Get("name")
    /\ \/ ch \in NameChar /\ Len(rd.buf) < MaxName /\ Keep("name")
       \/ /\ ch = "colon" /\ Len(rd.buf) < MaxName
          /\ rd' = [rd EXCEPT !.state = "spaces_before_value", !.name = rd.buf, !.buf = <<>>]
          /\ Same
       \/ ch \notin NameChar \cup {"colon"} /\ Fail
       \/ Len(rd.buf) >= MaxName /\ Fail

\* an empty value is stored as a NUL
HeaderSpaces ==
    /\ Get("spaces_before_value")
    /\ \/ ch = "sp" /\ Stay
       \/ ch = "cr" /\ Store(<<"nul">>) /\ Goto("almost_done", <<>>) /\ UNCHANGED query
       \/ ch = "lf" /\ Store(<<"nul">>) /\ Goto("h_start", <<>>) /\ UNCHANGED query
       \/ ch \notin Blank \cup {"sp"} /\ Keep("value")

HeaderValue ==
    /\ Get("value")
    /\ \/ ch = "cr" /\ Store(CString(rd.buf)) /\ Goto("almost_done", <<>>) /\ UNCHANGED query
       \/ ch = "lf" /\ Store(CString(rd.buf)) /\ Goto("h_start", <<>>) /\ UNCHANGED query
       \/ ch = "nul" /\ Fail
       \/ ch \notin Control /\ Keep("value")

\* after the CR of a field's line, and after a second one
HeaderAlmost ==
    /\ \/ Get("almost_done") /\ ch = "cr" /\ Goto("done_cr", <<>>)
       \/ Get("almost_done") /\ ch \notin Blank /\ UNCHANGED rd
       \/ Get("done_cr") /\ ch # "lf" /\ UNCHANGED rd
       \/ \E s \in {"almost_done", "done_cr"} : Get(s) /\ ch = "lf" /\ Goto("h_start", <<>>)
    /\ Same

\* Mutant of HeaderEnd: the LF after the CR is left for the body
HeaderEndEarly ==
    /\ rd.state = "h_almost_done" /\ pos < Len(in)
    /\ IF ch = "lf" THEN Goto("header", <<>>) ELSE Goto("failed", <<>>)
    /\ Same /\ UNCHANGED <<sent, clean, in, pos>>

\* the CR of the empty line was read
HeaderEnd ==
    /\ Get("h_almost_done")
    /\ \/ ch = "lf" /\ Goto("header", <<>>)
       \/ ch # "lf" /\ Goto("failed", <<>>)
    /\ Same

\* is.get fails: either loop of the header ends with parser_ec::ok, and
\* header_done is what tells the handler
HeaderStates == {"start", "method", "spaces_before_uri", "uri", "params", "http",
                 "http_major", "http_minor", "h_start", "name", "spaces_before_value",
                 "value", "almost_done", "done_cr", "h_almost_done"}
Eof ==
    /\ rd.state \in HeaderStates
    /\ Goto("cut", <<>>)
    /\ UNCHANGED <<sent, clean, in, pos, msg, query>>

-----------------------------------------------------------------------------
(* host::serve reads the arguments of a dynamic request                     *)

Dynamic == msg.method = "POST" \/ (msg.method = "GET" /\ query # <<>>)

\* from the query if there is one, and else from the connection
BodyBegin ==
    /\ rd.state = "header"
    /\ \/ ~Dynamic /\ Goto("done", <<>>) /\ UNCHANGED <<in, pos>>
       \/ Dynamic /\ query # <<>> /\ in' = query /\ pos' = 0 /\ Goto("a_name", <<>>)
       \/ Dynamic /\ query = <<>> /\ Goto("a_name", <<>>) /\ UNCHANGED <<in, pos>>
    /\ UNCHANGED <<sent, clean, msg, query>>

\* Mutant of GetArg: MAXTRUNK is not tested
GetArgMore(s) == Get(s)

GetArg(s) == Get(s) /\ rd.total < MaxTrunk

\* one more character counted, state s, the array b
Arg(s, b) == rd' = [rd EXCEPT !.state = s, !.buf = b, !.total = @ + 1]

Push(k, v) == msg' = [msg EXCEPT !.args = Append(@, [key |-> k, value |-> v])]

ArgName ==
    /\ GetArg("a_name")
    /\ \/ ch \in Usual \ {"amp", "eq"} /\ Arg("a_name", Append(rd.buf, ch)) /\ UNCHANGED msg
       \/ /\ ch = "eq"
          /\ rd' = [rd EXCEPT !.state = "a_value", !.name = rd.buf, !.buf = <<>>, !.total = @ + 1]
          /\ UNCHANGED msg
       \/ ch = "amp" /\ Push(rd.buf, <<>>) /\ Arg("a_name", <<>>)
       \/ ch \notin Usual /\ Arg("done", <<>>) /\ UNCHANGED msg
    /\ UNCHANGED query

\* After a line feed i stays where the value ended, and the next name is
\* written behind what the array holds there
Kept(buf) == IF buf = <<>> THEN <<>> ELSE <<"stale">>

ArgValue ==
    /\ GetArg("a_value")
    /\ \/ ch \in Printed \ {"amp", "sp"} /\ Arg("a_value", Append(rd.buf, ch)) /\ UNCHANGED msg
       \/ ch = "amp" /\ Push(rd.name, rd.buf) /\ Arg("a_name", <<>>)
       \/ ch = "sp" /\ Push(rd.name, rd.buf) /\ Arg("done", <<>>)
       \/ ch = "cr" /\ Push(rd.name, rd.buf) /\ Arg("a_almost_done", rd.buf)
       \/ ch = "lf" /\ Push(rd.name, rd.buf) /\ Arg("a_name", Kept(rd.buf))
       \/ ch = "nul" /\ Arg("done", <<>>) /\ UNCHANGED msg
    /\ UNCHANGED query

ArgAlmost ==
    /\ GetArg("a_almost_done")
    /\ \/ ch = "lf" /\ Arg("a_name", Kept(rd.buf))
       \/ ch # "lf" /\ Arg("a_almost_done", rd.buf)
    /\ Same

\* the stream ends, or MAXTRUNK is reached: what is in the array is dropped
ArgEnd ==
    /\ rd.state \in {"a_name", "a_value", "a_almost_done"}
    /\ (rd.total >= MaxTrunk \/ query = <<>> \/ pos = Len(in))
    /\ Goto("done", <<>>)
    /\ UNCHANGED <<sent, clean, in, pos, msg, query>>

ReaderNext ==
    \/ LineStart \/ LineMethod \/ LineSpaces \/ LineUri \/ LineParams
    \/ LineHttp \/ LineMajor \/ LineMinor
    \/ HeaderStart \/ HeaderName \/ HeaderSpaces \/ HeaderValue \/ HeaderAlmost
    \/ HeaderEnd \/ Eof
    \/ BodyBegin \/ ArgName \/ ArgValue \/ ArgAlmost \/ ArgEnd

ReaderSpec == ReaderInit /\ [][ReaderNext]_rvars

-----------------------------------------------------------------------------
(* What is promised                                                         *)

ArgStates == {"a_name", "a_value", "a_almost_done"}
Token == Printed \cup Control \cup {"stale"}

ReaderTypeOK ==
    /\ sent \in Requests /\ clean \in BOOLEAN
    /\ pos \in 0 .. Len(in)
    /\ rd.state \in HeaderStates \cup ArgStates \cup {"header", "failed", "cut", "done"}
    /\ rd.total \in 0 .. MaxTrunk /\ rd.i \in Nat
    /\ \A s \in {in, rd.buf, rd.name, query, msg.target} : \A k \in DOMAIN s : s[k] \in Token

\* the value of the last field of that name
LastOf(fields, n) ==
    LET k == CHOOSE k \in DOMAIN fields :
                 /\ fields[k].name = n
                 /\ \A l \in DOMAIN fields : fields[l].name = n => l <= k
    IN  IF fields[k].value = <<>> THEN <<"nul">> ELSE fields[k].value

\* A well-formed header is read to its message, with LF or CRLF at the end of
\* its lines and with a query or without; the empty line is the last that is read, and
\* what follows it is left for the body.
HeaderIsRead ==
    clean =>
        /\ rd.state # "failed"
        /\ rd.state = "header" =>
              /\ msg.method = sent.method /\ msg.target = sent.path /\ msg.version = 11
              /\ IF sent.inquery THEN IsPrefix(Joined(sent.args, "amp"), query) ELSE query = <<>>
              /\ msg.fields = [n \in {sent.fields[k].name : k \in DOMAIN sent.fields} |->
                                  LastOf(sent.fields, n)]
              /\ pos = Len(HeaderOf(sent))

\* The ends of arguments among the tokens that the argument reader has taken
Ends ==
    LET first == pos - rd.total + 1
    IN  {j \in first .. pos :
            \/ in[j] \in {"amp", "sp", "cr"}
            \/ in[j] = "lf" /\ ~(j > first /\ in[j - 1] = "cr")}

UpTo(n, s) == SubSeq(s, 1, IF n < Len(s) THEN n ELSE Len(s))

FirstLine == IF sent.inquery \/ sent.sep = "amp" THEN sent.args ELSE UpTo(1, sent.args)

\* The arguments of a query, or of the first line of a body, are those the
\* client sent, in order, up to the last that was ended by a delimiter; an
\* argument that the end of the stream or MAXTRUNK cuts off is dropped whole.
\* A query within MAXTRUNK gives all of them, with the methods that take arguments.
ArgsAreSent ==
    clean /\ rd.state \in ArgStates \cup {"done"} =>
        /\ UpTo(Len(FirstLine), msg.args) = UpTo(Cardinality(Ends), FirstLine)
        /\ rd.state = "done" /\ sent.inquery /\ sent.method \in {"GET", "POST"}
           /\ rd.total < MaxTrunk => msg.args = sent.args

\* Whatever a client sends: a field that was stored is one line of the header,
\* its name up to the colon and its value up to the line's end, and never the
\* name of one line with the value of another.
FieldsAreLines ==
    rd.state \in HeaderStates \cup {"header"} =>
        \A n \in DOMAIN msg.fields :
            \E j \in 1 .. pos :
                LET v == msg.fields[n]
                    value == {k \in j + Len(n) + 1 .. pos :
                                \A l \in j + Len(n) + 1 .. k - 1 : in[l] = "sp"}
                IN  /\ SubSeq(in, j, j + Len(n)) = Append(n, "colon")
                    /\ \E k \in value :
                          \/ /\ k + Len(v) <= pos
                             /\ SubSeq(in, k, k + Len(v) - 1) = v
                             /\ in[k + Len(v)] \in Blank
                          \/ v = <<>> /\ in[k] = "nul"
                          \/ v = <<"nul">> /\ in[k] \in Blank

\* Whatever a client sends: host::serve is given one of the five methods, a
\* path that begins with a slash and has neither spaces nor line breaks (it is
\* appended to the host's directory), and a version up to 1.1.
LineIsSane ==
    rd.state \in {"header", "done"} =>
        /\ msg.method \in Methods
        /\ msg.target # <<>> /\ Head(msg.target) = "slash"
        /\ \A k \in DOMAIN msg.target : msg.target[k] \in Usual \cup {"slash", "dot"}
        /\ msg.version \in 0 .. 11
=============================================================================
