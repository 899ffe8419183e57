------------------------------ MODULE SimpleClock ------------------------------
(***************************************************************************)
(* The millisecond clock of the programs in src/simple, an int32_t that    *)
(* starts anywhere and overflows.  Words stand for its values; Half is the *)
(* first word that is a negative int.                                      *)
(***************************************************************************)
EXTENDS Integers

CONSTANTS
    Modulus,     \* 2^32
    Build        \* what the compiler makes of a signed difference that overflows

(***************************************************************************)
(* The overflow of a signed difference is undefined.  A build that "wraps" *)
(* subtracts words; one that "compares" tests a >= b in place of a - b >= 0,*)
(* which is the same when nothing overflows.                               *)
(***************************************************************************)
Half == Modulus \div 2
Word == 0 .. Modulus - 1

ASSUME ClockAssumption ==
    /\ Half \in Nat \ {0} /\ Modulus = 2 * Half
    /\ Build \in {"wraps", "compares"}

AsInt(word) == IF word >= Half THEN word - Modulus ELSE word

\* a - b, as far as its sign is looked at
Difference(a, b) ==
    IF Build = "wraps" THEN AsInt((a - b) % Modulus) ELSE AsInt(a) - AsInt(b)

Plus(a, n) == (a + n) % Modulus
=============================================================================
