------------------------------ MODULE RingBuffer ------------------------------
(***************************************************************************)
(* The byte ring of src/example/simple_cmdline/ringbuffer.c between two    *)
(* threads, the one that plays the interrupt handler and main, assignment  *)
(* by assignment.  g_lock, which plays the disabling of interrupts, is     *)
(* held by each of them during a call.                                     *)
(***************************************************************************)
EXTENDS Naturals, Sequences

CONSTANTS
    Byte, None,
    Size,        \* RING_BUFFER_SIZE
    MaxBatch     \* bound: the bytes of one ring_buffer_queue_arr or _dequeue_arr

ASSUME RingBufferAssumption ==
    Size \in Nat \ {0, 1} /\ None \notin Byte /\ MaxBatch \in Nat \ {0}

VARIABLES
    buffer, head_index, tail_index,
    lock,        \* who holds g_lock: free, isr or main
    isr,         \* where the producer is, and the bytes it has yet to put
    main,        \* where the consumer is, and how many bytes it still wants
    chr,         \* what ring_buffer_dequeue has read
    delivered    \* what it has returned last

ring == <<buffer, head_index, tail_index>>
byteVars == <<ring, lock, isr, main, chr, delivered>>

\* RING_BUFFER_MASK
Index(i) == i % Size

num_items == Index(head_index + Size - tail_index)
is_empty == head_index = tail_index

is_full == num_items = Size - 1

BytesInit ==
    /\ buffer \in [0 .. Size - 1 -> {None}]
    /\ head_index = 0 /\ tail_index = 0
    /\ lock = "free"
    /\ isr = [pc |-> "idle", data |-> <<>>]
    /\ main = [pc |-> "idle", len |-> 0]
    /\ chr = None /\ delivered = None

-----------------------------------------------------------------------------
\* ring_buffer_queue of each byte of data, under the lock.

\* Mutant: interrupts are not disabled.
IsrUnlocked(data) ==
    /\ isr.pc = "idle"
    /\ isr' = [pc |-> "check", data |-> data]
    /\ UNCHANGED <<ring, lock, main, chr, delivered>>

IsrEnters(data) ==
    /\ isr.pc = "idle" /\ lock = "free"
    /\ lock' = "isr"
    /\ isr' = [pc |-> "check", data |-> data]
    /\ UNCHANGED <<ring, main, chr, delivered>>

\* A full buffer loses its oldest byte.
IsrChecks ==
    /\ isr.pc = "check"
    /\ isr' = [isr EXCEPT !.pc = "place"]
    /\ tail_index' = IF is_full THEN Index(tail_index + 1) ELSE tail_index
    /\ UNCHANGED <<buffer, head_index, lock, main, chr, delivered>>

IsrPlaces ==
    /\ isr.pc = "place"
    /\ isr' = [isr EXCEPT !.pc = "advance"]
    /\ buffer' = [buffer EXCEPT ![head_index] = Head(isr.data)]
    /\ UNCHANGED <<head_index, tail_index, lock, main, chr, delivered>>

IsrAdvances ==
    /\ isr.pc = "advance"
    /\ head_index' = Index(head_index + 1)
    /\ isr' = [pc |-> IF Len(isr.data) > 1 THEN "check" ELSE "leave", data |-> Tail(isr.data)]
    /\ UNCHANGED <<buffer, tail_index, lock, main, chr, delivered>>

IsrLeaves ==
    /\ isr.pc = "leave"
    /\ lock' = "free"
    /\ isr' = [isr EXCEPT !.pc = "idle"]
    /\ UNCHANGED <<ring, main, chr, delivered>>

-----------------------------------------------------------------------------
\* ring_buffer_dequeue, len times or until the buffer is empty, under the lock.
MainEnters(len) ==
    /\ main.pc = "idle" /\ lock = "free"
    /\ lock' = "main"
    /\ main' = [pc |-> "check", len |-> len]
    /\ UNCHANGED <<ring, isr, chr, delivered>>

MainChecks ==
    /\ main.pc = "check"
    /\ IF is_empty \/ main.len = 0
       THEN main' = [main EXCEPT !.pc = "leave"] /\ UNCHANGED chr
       ELSE main' = [main EXCEPT !.pc = "advance"] /\ chr' = buffer[tail_index]
    /\ UNCHANGED <<ring, lock, isr, delivered>>

MainAdvances ==
    /\ main.pc = "advance"
    /\ tail_index' = Index(tail_index + 1)
    /\ delivered' = chr
    /\ main' = [pc |-> "check", len |-> main.len - 1]
    /\ UNCHANGED <<buffer, head_index, lock, isr, chr>>

MainLeaves ==
    /\ main.pc = "leave"
    /\ lock' = "free"
    /\ main' = [main EXCEPT !.pc = "idle"]
    /\ UNCHANGED <<ring, isr, chr, delivered>>

\* ring_buffer_init empties the buffer, when nobody is in a call.
Reset ==
    /\ lock = "free"
    /\ head_index' = 0 /\ tail_index' = 0
    /\ UNCHANGED <<buffer, lock, isr, main, chr, delivered>>

-----------------------------------------------------------------------------
Batches == UNION {[1 .. k -> Byte] : k \in 1 .. MaxBatch}

BytesNext ==
    \/ \E data \in Batches : IsrEnters(data)
    \/ IsrChecks \/ IsrPlaces \/ IsrAdvances \/ IsrLeaves
    \/ \E len \in 1 .. MaxBatch : MainEnters(len)
    \/ MainChecks \/ MainAdvances \/ MainLeaves
    \/ Reset

BytesSpec == BytesInit /\ [][BytesNext]_byteVars

-----------------------------------------------------------------------------
(***************************************************************************)
(* Properties.                                                             *)
(***************************************************************************)

\* What ring_buffer_peek returns for an index below num_items.
Peek(index) == buffer[Index(tail_index + index)]

\* The ring implements a lossy FIFO, with the bytes that can be peeked as contents:
\* a byte is overwritten only when Size - 1 are waiting, and then it is the oldest.
Fifo == INSTANCE LossyFifo WITH
    contents <- [i \in 1 .. num_items |-> Peek(i - 1)], Capacity <- Size - 1

ImplementsFifo == Fifo!Spec
=============================================================================
