----------------------------- MODULE MCMyptmSystem -----------------------------
(***************************************************************************)
(* MyptmSystem for TLC.                                                    *)
(***************************************************************************)
EXTENDS MyptmSystem

CONSTANTS t1, t2, x1

TwoThreads == {t1, t2}
AllTimers == {t1, t2, x1}
ShortOrLong == {1, 3}
Words == 1 .. Modulus - 1
=============================================================================
