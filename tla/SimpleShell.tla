------------------------------ MODULE SimpleShell ------------------------------
(***************************************************************************)
(* src/example/simple_cmdline/simple_shell.cpp as a whole: a thread plays   *)
(* the interrupt handler of a UART, which sends the same lines over and    *)
(* over, and main reads the bytes and parses them.  Between them is the    *)
(* ring buffer, which RingBuffer shows to be a fifo that loses its oldest  *)
(* byte when it is full.                                                   *)
(***************************************************************************)
EXTENDS CommandLine

CONSTANTS
    Lines,       \* g_cmds, without their newlines
    Capacity,    \* the bytes the ring buffer holds
    KeepsUp      \* main reads each byte in time, as its shorter sleep suggests

SimpleShellAssumption ==
    /\ Lines \in Seq(Seq(Letter \cup {Space})) /\ Lines # <<>>
    /\ Capacity \in Nat \ {0}
    /\ KeepsUp \in BOOLEAN

VARIABLES
    fifo,        \* g_ringbuffer
    sent,        \* the line that is sent, and how much of it: i and j of the handler
    turn         \* the line whose command is executed next, if no byte is lost

shellVars == <<vars, fifo, sent, turn>>

\* The for loop over g_cmds, in the while loop around it
Following(i) == (i % Len(Lines)) + 1

Char(i, j) == IF j > Len(Lines[i]) THEN Newline ELSE Lines[i][j]

ShellInit ==
    /\ Init
    /\ fifo = <<>>
    /\ sent = [line |-> 1, at |-> 1]
    /\ turn = 1

\* ring_buffer_queue
Queued(ch) == Append(IF Len(fifo) = Capacity THEN Tail(fifo) ELSE fifo, ch)

\* One round of the inner loop of uart_interrupt_handler
Interrupt ==
    /\ KeepsUp => Len(fifo) < Capacity
    /\ fifo' = Queued(Char(sent.line, sent.at))
    /\ sent' = IF sent.at > Len(Lines[sent.line])
               THEN [line |-> Following(sent.line), at |-> 1]
               ELSE [sent EXCEPT !.at = @ + 1]
    /\ UNCHANGED <<vars, turn>>

\* One round of main's loop that finds a byte
MainReads ==
    /\ fifo # <<>>
    /\ fifo' = Tail(fifo)
    /\ cmd_line_input(Head(fifo))
    /\ turn' = IF Head(fifo) = Newline THEN Following(turn) ELSE turn
    /\ UNCHANGED sent

ShellNext == Interrupt \/ MainReads

-----------------------------------------------------------------------------
\* Every command is executed in its turn, with the words of its line, and none
\* twice or not at all: the bytes of two lines are never mixed.
CommandsInTurn ==
    [][turn' # turn => line = Lines[turn] /\ command' = Split(Lines[turn])]_shellVars

\* Main never stops executing: the same line comes round again.
ComesRound == \A i \in DOMAIN Lines : []<>(turn = i)
=============================================================================
