------------------------- MODULE MCMyptmMessageQueue -------------------------
(***************************************************************************)
(* MyptmMessageQueue for TLC.                                              *)
(***************************************************************************)
EXTENDS MyptmMessageQueue

CONSTANTS t1, t2, t3, sEmpty, sRead, m1, m2

ThreeThreads == {t1, t2, t3}
TwoSems == {sEmpty, sRead}
TwoMessages == {m1, m2}

Symmetry == Permutations(Thread) \cup Permutations(Msg)

\* The queue tells EOK from the other codes, of which one is enough.
AnyCode == {"EOK", "ETIMEOUT"}
=============================================================================
