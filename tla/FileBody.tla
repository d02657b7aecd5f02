------------------------------ MODULE FileBody ------------------------------
(***************************************************************************)
(* http::file_body::write (src/src/http/file_body.cpp): the loop that      *)
(* sends a mapped file to the client's socket, for one response.  Bytes    *)
(* always leave in the order they lie in memory from fileaddr on, so what  *)
(* was sent is the number of them, totalwrited.                            *)
(*                                                                         *)
(* nums is an int: it is cut to IntMod (2^32 in the program) and read as   *)
(* signed; the file's size and totalwrited are 64 bits wide and are not.   *)
(* write(2) on the blocking socket is external: it takes the whole count   *)
(* or a part of it, or fails.  A file that could not be mapped (file.cpp   *)
(* goes on with MAP_FAILED) fails with EFAULT at the first byte.           *)
(***************************************************************************)
EXTENDS Integers

CONSTANTS Sizes,       \* sizes of files
          IntMod,      \* values of an int
          ShrinkAbove, \* 4096: nums is halved while it is larger
          Slack        \* readable bytes that follow the last byte of the file

ASSUME BodyAssumption ==
    /\ Sizes \subseteq Nat
    /\ IntMod \in Nat \ {0} /\ IntMod % 2 = 0
    /\ ShrinkAbove \in Nat /\ Slack \in Nat

VARIABLES
    fsize,        \* f.size(), also sent as Content-Length
    mapped,       \* mmap succeeded
    totalwrited,
    nums,
    pc,           \* "loop", or how the loop ended: "done", "fault"
    whole         \* history: every write(2) so far took all it was asked to

bvars == <<fsize, mapped, totalwrited, nums, pc, whole>>

\* Mutant of AsInt: no truncation
AsWide(x) == x

AsInt(x) == LET r == x % IntMod IN IF r >= IntMod \div 2 THEN r - IntMod ELSE r

Readable == fsize + Slack - totalwrited

BodyTypeOK ==
    /\ fsize \in Sizes
    /\ totalwrited \in 0 .. fsize + Slack
    /\ nums \in - (IntMod \div 2) .. IntMod \div 2 - 1
    /\ pc \in {"loop", "done", "fault"}
    /\ mapped \in BOOLEAN /\ whole \in BOOLEAN

BodyInit ==
    /\ fsize \in Sizes
    /\ mapped \in BOOLEAN
    /\ totalwrited = 0
    /\ nums = AsInt(fsize)
    /\ pc = "loop"
    /\ whole = TRUE

\* Mutant of Looping: <= for <
LoopingToo == pc = "loop" /\ totalwrited <= fsize

Looping == pc = "loop" /\ totalwrited < fsize

-----------------------------------------------------------------------------
\* Mutant of Sent: the bytes are not counted
SentUncounted(n) ==
    /\ Looping /\ mapped
    /\ n <= nums /\ n <= Readable
    /\ n = 0 => nums = 0
    /\ nums' = AsInt(2 * nums)
    /\ whole' = (whole /\ n = nums)
    /\ UNCHANGED <<fsize, mapped, totalwrited, pc>>

\* sputn returns n bytes: the loop asks for twice as much the next time
Sent(n) ==
    /\ Looping /\ mapped
    /\ n <= nums /\ n <= Readable
    /\ n = 0 => nums = 0
    /\ totalwrited' = totalwrited + n
    /\ nums' = AsInt(2 * nums)
    /\ whole' = (whole /\ n = nums)
    /\ UNCHANGED <<fsize, mapped, pc>>

\* sputn fails with EFAULT: the memory from totalwrited on is not readable, or
\* the count is negative
Fault ==
    /\ Looping
    /\ ~mapped \/ Readable = 0 \/ nums < 0
    /\ pc' = "fault"
    /\ UNCHANGED <<fsize, mapped, totalwrited, nums, whole>>

\* Any other error: the same bytes are tried again, half as many at a time
Retry ==
    /\ Looping
    /\ nums' = IF nums > ShrinkAbove THEN nums \div 2 ELSE nums
    /\ whole' = FALSE
    /\ UNCHANGED <<fsize, mapped, totalwrited, pc>>

Leave ==
    /\ pc = "loop" /\ ~(totalwrited < fsize)
    /\ pc' = "done"
    /\ UNCHANGED <<fsize, mapped, totalwrited, nums, whole>>

BodyNext == (\E n \in 0 .. fsize + Slack : Sent(n)) \/ Fault \/ Retry \/ Leave

BodySpec == BodyInit /\ [][BodyNext]_bvars

-----------------------------------------------------------------------------
\* A file whose size fits an int is sent exactly, neither short nor long, if
\* every write(2) takes all it is asked to.
ExactWhenWhole ==
    pc = "done" /\ whole /\ fsize < IntMod \div 2 => totalwrited = fsize

\* The loop gives up early only on a file that is not mapped, or after a write
\* that was cut short or failed, or on a file whose size does not fit an int.
FaultHasACause ==
    pc = "fault" => ~mapped \/ ~whole \/ fsize >= IntMod \div 2
=============================================================================
