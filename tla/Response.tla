------------------------------ MODULE Response ------------------------------
(***************************************************************************)
(* One response as it goes to the client's socket: http::write and         *)
(* write_header (src/src/http/write.hpp) insert its parts one by one into  *)
(* the fdstream of the connection (src/src/fdstream.hpp), where each       *)
(* insertion is one write(2) that may take a part of it or fail; then the  *)
(* body follows, a string as one more insertion, a file by the loop of     *)
(* module FileBody.                                                        *)
(*                                                                         *)
(* The stream's state decides what an insertion does.  It is that of the   *)
(* fdstream, which the request was read from: istream and ostream share    *)
(* one ios.  The loop of FileBody goes to rdbuf() and never looks at it.   *)
(***************************************************************************)
EXTENDS FileBody, Sequences

CONSTANT Parts  \* insertions of write_header: status line, fields, end of header

ASSUME ResponseAssumption == Parts \in Nat \ {0}

VARIABLES
    body,   \* "string" or "file"
    good,   \* the stream's state, as good() tells it
    next,   \* the insertion that comes next
    wire    \* insertions that reached the socket, in order; Piece: a part of one

rvars == <<bvars, body, good, next, wire>>

Piece == 0
Insertions == IF body = "string" THEN Parts + 1 ELSE Parts

ResponseTypeOK ==
    /\ BodyTypeOK
    /\ body \in {"string", "file"} /\ good \in BOOLEAN
    /\ next \in 1 .. Insertions + 1
    /\ wire \in Seq(0 .. Insertions)

\* A request whose arguments were read up to the end of the stream leaves it
\* with eofbit; only a service has arguments, and its response is a string.
ResponseInit ==
    /\ BodyInit
    /\ body \in {"string", "file"}
    /\ good \in IF body = "string" THEN BOOLEAN ELSE {TRUE}
    /\ next = 1
    /\ wire = <<>>

Insert ==
    /\ next <= Insertions
    /\ next' = next + 1
    /\ UNCHANGED <<bvars, body>>

\* write(2) takes the whole part
InsertWhole ==
    /\ good /\ Insert
    /\ wire' = Append(wire, next)
    /\ UNCHANGED good

\* Mutant of InsertCut: the count that xsputn returns is not looked at
InsertCutUnseen ==
    /\ good /\ Insert
    /\ wire' \in {Append(wire, Piece), wire}
    /\ UNCHANGED good

\* write(2) takes less, or fails: the stream sets badbit
InsertCut ==
    /\ good /\ Insert
    /\ wire' \in {Append(wire, Piece), wire}
    /\ good' = FALSE

\* On a stream that is not good an insertion does nothing.
InsertNothing ==
    /\ ~good /\ Insert
    /\ UNCHANGED <<good, wire>>

FileLoop ==
    /\ body = "file" /\ next > Insertions
    /\ BodyNext
    /\ UNCHANGED <<body, good, next, wire>>

ResponseNext == InsertWhole \/ InsertCut \/ InsertNothing \/ FileLoop

ResponseSpec == ResponseInit /\ [][ResponseNext]_rvars

-----------------------------------------------------------------------------
\* Whatever write(2) does, what the client gets of the insertions is the
\* beginning of the message without a gap, all of it if the stream is still good
\* at the end (write.hpp:28-50, fdstream.hpp:97-102).
SentIsPrefix ==
    /\ \A i \in DOMAIN wire : wire[i] = i \/ (wire[i] = Piece /\ i = Len(wire))
    /\ good /\ next > Insertions => Len(wire) = Insertions
=============================================================================
