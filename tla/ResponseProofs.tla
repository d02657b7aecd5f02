--------------------------- MODULE ResponseProofs ---------------------------
(***************************************************************************)
(* Proofs about modules Response and FileBody, for any sizes of files, any *)
(* width of an int and any number of insertions: what the client gets of   *)
(* one response.                                                           *)
(***************************************************************************)
EXTENDS Response, TLAPS

USE DEF Piece

\* The size fits an int.
Fits == fsize < IntMod \div 2

\* While every write(2) took all it was asked to, a file that fits is not begun
\* or sent; that is why the loop stops in time although nums doubles.
LoopInv ==
    /\ whole /\ Fits => totalwrited = fsize \/ (totalwrited = 0 /\ nums = fsize)
    /\ pc = "done" => totalwrited >= fsize
    /\ FaultHasACause

\* While the stream is good, the insertions made are those on the wire.
WireInv ==
    /\ \A i \in DOMAIN wire : wire[i] = i \/ (wire[i] = Piece /\ i = Len(wire))
    /\ good => Len(wire) = next - 1 /\ \A i \in DOMAIN wire : wire[i] = i

ResponseInv == ResponseTypeOK /\ LoopInv /\ WireInv

-----------------------------------------------------------------------------
\* AsInt gives a value of an int, and is the identity on those (file_body.cpp,
\* where size() is assigned to the int nums).
LEMMA AsIntFits ==
    ASSUME NEW x \in Int
    PROVE  /\ AsInt(x) \in - (IntMod \div 2) .. IntMod \div 2 - 1
           /\ x \in 0 .. IntMod \div 2 - 1 => AsInt(x) = x
<1>1. x % IntMod \in 0 .. IntMod - 1
  BY BodyAssumption
<1>2. IntMod = 2 * (IntMod \div 2) /\ IntMod \div 2 \in Nat
  BY BodyAssumption
<1>3. x \in 0 .. IntMod \div 2 - 1 => x % IntMod = x
  BY <1>2, BodyAssumption
<1>. QED  BY <1>1, <1>2, <1>3, BodyAssumption DEF AsInt

\* A fresh response satisfies the invariant (Gateway.cpp, write.hpp:28).
LEMMA InitInv == ResponseInit => ResponseInv
<1>. SUFFICES ASSUME ResponseInit PROVE ResponseInv
  OBVIOUS
<1>. USE DEF ResponseInit, BodyInit
<1>1. fsize \in Nat /\ nums = AsInt(fsize)
  BY BodyAssumption
<1>2. BodyTypeOK
  BY <1>1, AsIntFits, BodyAssumption DEF BodyTypeOK
<1>3. ResponseTypeOK
  <2>1. Insertions \in Nat /\ next \in 1 .. Insertions + 1
    BY ResponseAssumption DEF Insertions
  <2>2. wire \in Seq(0 .. Insertions)
    OBVIOUS
  <2>3. good \in BOOLEAN
    BY Zenon
  <2>. QED  BY <1>2, <2>1, <2>2, <2>3 DEF ResponseTypeOK
<1>4. LoopInv
  BY <1>1, AsIntFits, BodyAssumption DEF LoopInv, Fits, FaultHasACause
<1>5. WireInv
  BY DEF WireInv
<1>. QED  BY <1>3, <1>4, <1>5 DEF ResponseInv

\* The file loop keeps its type: nums stays an int although it doubles, and no
\* byte past the readable memory is sent.
LEMMA BodyTypeStep == BodyTypeOK /\ BodyNext => BodyTypeOK'
<1>. SUFFICES ASSUME BodyTypeOK, BodyNext PROVE BodyTypeOK'
  OBVIOUS
<1>. USE DEF BodyTypeOK
<1>0. fsize \in Nat /\ nums \in Int /\ totalwrited \in Nat
  BY BodyAssumption
<1>1. ASSUME NEW n \in 0 .. fsize + Slack, Sent(n) PROVE BodyTypeOK'
  <2>1. nums' \in - (IntMod \div 2) .. IntMod \div 2 - 1
    BY <1>0, <1>1, AsIntFits DEF Sent
  <2>2. totalwrited' \in 0 .. fsize + Slack
    BY <1>0, <1>1, BodyAssumption DEF Sent, Readable
  <2>3. whole' \in BOOLEAN
    BY <1>1 DEF Sent
  <2>. QED  BY <1>1, <2>1, <2>2, <2>3 DEF Sent
<1>2. CASE Fault
  BY <1>2 DEF Fault, Looping
<1>3. CASE Retry
  <2>1. nums' \in - (IntMod \div 2) .. IntMod \div 2 - 1
    BY <1>0, <1>3, BodyAssumption DEF Retry
  <2>. QED  BY <1>3, <2>1 DEF Retry, Looping
<1>4. CASE Leave
  BY <1>4 DEF Leave
<1>. QED  BY <1>1, <1>2, <1>3, <1>4 DEF BodyNext

\* The file loop keeps LoopInv (file_body.cpp, the loop of write).
LEMMA BodyLoopStep == BodyTypeOK /\ LoopInv /\ BodyNext => LoopInv'
<1>. SUFFICES ASSUME BodyTypeOK, LoopInv, BodyNext PROVE LoopInv'
  OBVIOUS
<1>. USE DEF BodyTypeOK, LoopInv, FaultHasACause, Fits
<1>0. fsize \in Nat /\ nums \in Int /\ totalwrited \in Nat /\ IntMod \div 2 \in Int
  BY BodyAssumption
<1>1. ASSUME NEW n \in 0 .. fsize + Slack, Sent(n) PROVE LoopInv'
  <2>1. pc = "loop" /\ pc' = "loop" /\ fsize' = fsize /\ totalwrited < fsize
    BY <1>1 DEF Sent, Looping
  <2>2. totalwrited' = totalwrited + n /\ (whole' => whole /\ n = nums)
    BY <1>1 DEF Sent
  <2>3. whole' /\ Fits' => totalwrited' = fsize'
    BY <1>0, <2>1, <2>2
  <2>. QED  BY <2>1, <2>3
<1>2. CASE Fault
  <2>1. ~mapped \/ ~whole \/ ~Fits
    BY <1>0, <1>2, BodyAssumption DEF Fault, Looping, Readable
  <2>. QED  BY <1>0, <1>2, <2>1 DEF Fault, Looping
<1>3. CASE Retry
  BY <1>0, <1>3 DEF Retry, Looping
<1>4. CASE Leave
  BY <1>0, <1>4 DEF Leave
<1>. QED  BY <1>1, <1>2, <1>3, <1>4 DEF BodyNext

\* An insertion whose length the stream reports, or any other, leaves the wire a
\* beginning of the message (fdstream.hpp:97-102).
LEMMA InsertStep ==
    ASSUME ResponseInv, InsertWhole \/ InsertCut \/ InsertNothing
    PROVE  ResponseInv'
<1>. USE DEF ResponseInv, ResponseTypeOK
<1>0. /\ next \in 1 .. Insertions /\ next' = next + 1 /\ UNCHANGED <<bvars, body>>
      /\ Insertions \in Nat /\ wire \in Seq(0 .. Insertions) /\ next \in Int
  BY ResponseAssumption DEF InsertWhole, InsertCut, InsertNothing, Insert, Insertions
<1>1. BodyTypeOK' /\ LoopInv' /\ Insertions' = Insertions
  BY <1>0 DEF BodyTypeOK, LoopInv, FaultHasACause, Fits, bvars, Insertions
<1>2. CASE InsertWhole
  <2>1. good /\ good' = good /\ wire' = Append(wire, next) /\ Len(wire) = next - 1
    BY <1>2 DEF InsertWhole, WireInv
  <2>2. wire' \in Seq(0 .. Insertions)
    BY <1>0, <2>1
  <2>3. WireInv'
    BY <1>0, <2>1 DEF WireInv
  <2>4. body' \in {"string", "file"} /\ next' \in 1 .. Insertions' + 1
    BY <1>0, <1>1
  <2>. QED  BY <1>1, <2>1, <2>2, <2>3, <2>4
<1>3. CASE InsertCut
  <2>1. good /\ good' = FALSE /\ wire' \in {Append(wire, Piece), wire}
    BY <1>3 DEF InsertCut
  <2>2. wire' \in Seq(0 .. Insertions)
    BY <1>0, <2>1, SMTT(30)
  <2>3. WireInv'
    BY <1>0, <2>1 DEF WireInv
  <2>4. body' \in {"string", "file"} /\ next' \in 1 .. Insertions' + 1
    BY <1>0, <1>1
  <2>. QED  BY <1>1, <2>1, <2>2, <2>3, <2>4
<1>4. CASE InsertNothing
  BY <1>0, <1>1, <1>4 DEF InsertNothing, WireInv
<1>. QED  BY <1>2, <1>3, <1>4

\* Every step of a response keeps the invariant.
LEMMA StepInv == ResponseInv /\ [ResponseNext]_rvars => ResponseInv'
<1>. SUFFICES ASSUME ResponseInv, [ResponseNext]_rvars PROVE ResponseInv'
  OBVIOUS
<1>1. CASE InsertWhole \/ InsertCut \/ InsertNothing
  BY <1>1, InsertStep
<1>2. CASE FileLoop
  <2>1. BodyTypeOK' /\ LoopInv'
    BY <1>2, BodyTypeStep, BodyLoopStep DEF FileLoop, ResponseInv, ResponseTypeOK
  <2>. QED
    BY <1>2, <2>1 DEF FileLoop, ResponseInv, ResponseTypeOK, WireInv, Insertions
<1>3. CASE UNCHANGED rvars
  BY <1>3 DEF rvars, bvars, ResponseInv, ResponseTypeOK, BodyTypeOK, LoopInv,
              FaultHasACause, Fits, WireInv, Insertions
<1>. QED  BY <1>1, <1>2, <1>3 DEF ResponseNext

\* The inductive invariant holds throughout (write.hpp, file_body.cpp).
THEOREM ResponseInvariant == ResponseSpec => []ResponseInv
BY InitInv, StepInv, PTL DEF ResponseSpec

-----------------------------------------------------------------------------
\* The variables keep their types; nums never leaves the range of an int and
\* nothing is read beyond the readable memory.
THEOREM ResponseTypeCorrect == ResponseSpec => []ResponseTypeOK
<1>1. ResponseInv => ResponseTypeOK
  BY DEF ResponseInv
<1>. QED  BY <1>1, ResponseInvariant, PTL

\* What the client gets of the insertions is the beginning of the message
\* (write.hpp:28-50, fdstream.hpp:97-102).
THEOREM SentInOrder == ResponseSpec => []SentIsPrefix
<1>1. ResponseInv => SentIsPrefix
  <2>. SUFFICES ASSUME ResponseInv PROVE SentIsPrefix
    OBVIOUS
  <2>1. Insertions \in Nat /\ next \in 1 .. Insertions + 1
    BY ResponseAssumption DEF ResponseInv, ResponseTypeOK, Insertions
  <2>. QED  BY <2>1 DEF ResponseInv, WireInv, SentIsPrefix
<1>. QED  BY <1>1, ResponseInvariant, PTL

\* A file that fits an int is sent exactly while every write(2) is whole
\* (file_body.cpp, the loop of write).
THEOREM WholeIsExact == ResponseSpec => []ExactWhenWhole
<1>1. ResponseInv => ExactWhenWhole
  <2>. SUFFICES ASSUME ResponseInv, pc = "done", whole, fsize < IntMod \div 2
                PROVE  totalwrited = fsize
    BY DEF ExactWhenWhole
  <2>1. fsize \in Nat /\ totalwrited \in Nat
    BY BodyAssumption DEF ResponseInv, ResponseTypeOK, BodyTypeOK
  <2>. QED  BY <2>1 DEF ResponseInv, LoopInv, Fits
<1>. QED  BY <1>1, ResponseInvariant, PTL

\* The loop gives up early only for one of three causes (file_body.cpp, the
\* test of EFAULT).
THEOREM FaultExplained == ResponseSpec => []FaultHasACause
<1>1. ResponseInv => FaultHasACause
  BY DEF ResponseInv, LoopInv
<1>. QED  BY <1>1, ResponseInvariant, PTL
=============================================================================
