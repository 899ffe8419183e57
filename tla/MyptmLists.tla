------------------------------ MODULE MyptmLists ------------------------------
(***************************************************************************)
(* The doubly linked rings of src/include/myptm/myptm_queue.h as sequences *)
(* of the objects whose nodes they link, from the head's next to its prev. *)
(* Inserting at the tail is Append, the first element is Head, and moving  *)
(* a ring to an empty head is an assignment; only removal needs a name.    *)
(***************************************************************************)
EXTENDS Integers, Sequences, SequencesExt

\* myptm_queue_remove: a node is in a ring at most once, and a node in none is
\* linked to itself, so removing it changes nothing.
Unlink(s, x) ==
    IF x \in Range(s) THEN RemoveAt(s, CHOOSE i \in DOMAIN s : s[i] = x) ELSE s

\* The sum of the first n numbers of s.
SumTo(s, n) ==
    LET sum[i \in 0 .. Len(s)] == IF i = 0 THEN 0 ELSE sum[i - 1] + s[i]
    IN  sum[n]
=============================================================================
