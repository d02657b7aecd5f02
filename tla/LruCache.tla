------------------------------ MODULE LruCache ------------------------------
(***************************************************************************)
(* What a host expects of its file cache: a bounded list of files, the     *)
(* most recently requested first; a request for a file is answered with    *)
(* that file, and makes it the first of the list.                          *)
(***************************************************************************)
EXTENDS Naturals, SequencesExt

CONSTANTS Handlers,  \* threads that serve requests
          Files,
          NoFile     \* no file

VARIABLES limit,   \* the most files the list may hold
          order,   \* cached files, most recent first
          wants,   \* the file a handler's request names, or NoFile
          handed   \* the file the cache gave the handler, or NoFile

lvars == <<limit, order, wants, handed>>

Init ==
    /\ limit \in Nat \ {0}
    /\ order = <<>>
    /\ wants = [h \in Handlers |-> NoFile]
    /\ handed = [h \in Handlers |-> NoFile]

\* f becomes the first of the list, and the last falls off a list too long.
Used(f) ==
    LET rest  == IF f \in ToSet(order)
                 THEN RemoveAt(order, CHOOSE i \in DOMAIN order : order[i] = f)
                 ELSE order
        moved == Cons(f, rest)
    IN  SubSeq(moved, 1, IF Len(moved) > limit THEN limit ELSE Len(moved))

Ask(h, f) ==
    /\ wants[h] = NoFile
    /\ wants' = [wants EXCEPT ![h] = f]
    /\ UNCHANGED <<limit, order, handed>>

\* A cached file may be touched before it is handed out.
Touch(h) ==
    /\ wants[h] # NoFile /\ handed[h] = NoFile
    /\ wants[h] \in ToSet(order)
    /\ order' = Used(wants[h])
    /\ UNCHANGED <<limit, wants, handed>>

Hand(h) ==
    /\ wants[h] # NoFile /\ handed[h] = NoFile
    /\ order' = Used(wants[h])
    /\ handed' = [handed EXCEPT ![h] = wants[h]]
    /\ UNCHANGED <<limit, wants>>

Answer(h) ==
    /\ handed[h] # NoFile
    /\ wants' = [wants EXCEPT ![h] = NoFile]
    /\ handed' = [handed EXCEPT ![h] = NoFile]
    /\ UNCHANGED <<limit, order>>

Next == \E h \in Handlers :
            Touch(h) \/ Hand(h) \/ Answer(h) \/ \E f \in Files : Ask(h, f)

Spec == Init /\ [][Next]_lvars
=============================================================================
