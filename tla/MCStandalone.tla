----------------------------- MODULE MCStandalone -----------------------------
(***************************************************************************)
(* The parts that do not need the scheduler, side by side for TLC: each    *)
(* behaviour is one of them, as `part' says.  MyptmQueue, Protothread,     *)
(* SimpleTimer and RingBuffer are here under their own names.              *)
(***************************************************************************)
EXTENDS MyptmQueue, Protothread, SimpleTimer, RingBuffer, TLC

CONSTANTS
    h1, h2, e1, e2, e3,    \* nodes of the rings
    a1, b1, b1a1,          \* threads of src/simple
    x, y,                  \* bytes
    w, r, p, a, b,         \* letters
    Space, Newline

VARIABLES
    part,
    clock, delay, tick, since, called, pause,
    tokens, line, command, fifo, sent, turn

threadVars == <<clock, delay, tick, since, called, pause>>
lineVars == <<tokens, line, command>>
inputVars == <<fifo, sent, turn>>
allVars == <<part, vars, bodyVars, timerVars, threadVars, byteVars, lineVars, inputVars>>

\* test_timer with 1000 ms scaled down to 1: 1000, INT_MAX - 3000, UINT_MAX - 3000.
ThreeOffsets == <<1, 7 - 3, 15 - 3>>

TwoHeads == {h1, h2}
ThreeElems == {e1, e2, e3}

\* A body with every statement, twice where the order of two statements matters.
Everything ==
    <<"work", "take", "wait", "yield", "yield_until", "delay", "take", "yield",
      "wait", "restart", "yield_until", "exit", "delay", "loop">>

-----------------------------------------------------------------------------
\* The delays of test_thread.c, scaled down: 1000, ten times 50, and 5000 ms.
Threads == INSTANCE SimpleThreads WITH
    Modulus <- 16, Build <- "wraps", Thread <- {a1, b1, b1a1}, Main <- <<a1, b1>>,
    Children <- [t \in {a1, b1, b1a1} |-> IF t = b1 THEN {b1a1} ELSE {}],
    Delays <- [t \in {a1, b1, b1a1} |-> IF t = b1 THEN <<1, 1, 4>> ELSE <<2>>],
    MaxPause <- 1, now <- clock, lc <- delay, turn <- called

\* Every line of up to five characters.
Typed == INSTANCE CommandLine WITH
    Letter <- {a, b}, MaxTokens <- 2, MaxLength <- 2, MaxLine <- 5

\* The six lines of g_cmds; their numbers have one to three digits here.
Commands == <<
    <<w, Space, a, b, Space, b, b, Space, a, a, Space, a, Space, b>>,
    <<r, Space, Space, a, b, Space, b, b, Space, a, a, Space, a, Space, b>>,
    <<r, Space, Space, a, b, Space, b, b, b, Space, a, a, Space, a, Space, b>>,
    <<p, Space, Space, Space, Space, a, b, a, Space, b, a, Space, a, b, Space, a, Space, b>>,
    <<>>,
    <<Space, Space, Space, Space, Space, Space, Space>>
    >>

Shell == INSTANCE SimpleShell WITH
    Letter <- {w, r, p, a, b}, MaxTokens <- 6, MaxLength <- 2, MaxLine <- 0,
    Lines <- Commands, Capacity <- 3, KeepsUp <- TRUE

ASSUME StandaloneAssumption ==
    /\ Threads!ClockAssumption /\ Threads!SimpleThreadsAssumption
    /\ Typed!CommandLineAssumption
    /\ Shell!CommandLineAssumption /\ Shell!SimpleShellAssumption

MCInit ==
    /\ part \in {"rings", "body", "timers", "overflow", "threads", "bytes", "typed", "shell"}
    /\ Init /\ BodyInit
    /\ IF part = "overflow" THEN TestInit ELSE TimersInit
    /\ part # "timers" => now = 0
    /\ Threads!Init /\ (part # "threads" => clock = 0)
    /\ BytesInit
    /\ Shell!ShellInit

Is(name, others) == part = name /\ UNCHANGED <<part, others>>

InRings == Is("rings", <<bodyVars, timerVars, threadVars, byteVars, lineVars, inputVars>>)
InBody == Is("body", <<vars, timerVars, threadVars, byteVars, lineVars, inputVars>>)
InTimers(name) == Is(name, <<vars, bodyVars, threadVars, byteVars, lineVars, inputVars>>)
InThreads == Is("threads", <<vars, bodyVars, timerVars, byteVars, lineVars, inputVars>>)
InBytes == Is("bytes", <<vars, bodyVars, timerVars, threadVars, lineVars, inputVars>>)
InTyped == Is("typed", <<vars, bodyVars, timerVars, threadVars, byteVars, inputVars>>)
InShell == Is("shell", <<vars, bodyVars, timerVars, threadVars, byteVars>>)

\* The overflow test has done its three rounds.
TestEnded == part = "overflow" /\ pc = "start" /\ round > 3 /\ UNCHANGED allVars

MCNext ==
    \/ InRings /\ Next
    \/ InBody /\ BodyNext
    \/ InTimers("timers") /\ TimersNext
    \/ InTimers("overflow") /\ TestNext
    \/ InThreads /\ Threads!Next
    \/ InBytes /\ BytesNext
    \/ InTyped /\ Typed!Next
    \/ InShell /\ Shell!ShellNext
    \/ TestEnded

\* The body of a loop over a list comes to its end; main is called again, and the
\* clock goes on; both threads of the command line demo do.
MCFairness ==
    /\ WF_allVars(InRings /\ (WalkStep \/ WalkEnd))
    /\ WF_allVars(InThreads /\ Threads!Step) /\ WF_allVars(InThreads /\ Threads!Pass)
    /\ WF_allVars(InShell /\ Shell!Interrupt) /\ WF_allVars(InShell /\ Shell!MainReads)

MCSpec == MCInit /\ [][MCNext]_allVars /\ MCFairness

-----------------------------------------------------------------------------
(***************************************************************************)
(* Properties.                                                             *)
(***************************************************************************)

\* A loop that is safe stays in its list, although its body removes objects from it,
\* and ends.
SafeLoop == [][WalkStays']_allVars /\ WalkEnds

\* A delay of src/simple is over when its milliseconds have passed and not before, and is
\* noticed within a round of its caller: no thread waits for the clock to come round
\* again, although it is called seldom, and each goes on for ever.
DelaysEndInTime ==
    /\ [][part = "threads" => Threads!OnTime']_allVars
    /\ Threads!NeverEarly
    /\ part = "threads" => Threads!KeepsGoing

\* After each character the tokens are the words of the line, however many words,
\* separators in a row and characters there are, and whatever was typed before it.
TokensAreWords == part = "typed" => Typed!TokensAreWords

\* The lines the interrupt sends are executed in their turn, each with its own words and
\* never mixed, and for ever.
CommandsInTurn == Shell!CommandsInTurn /\ (part = "shell" => Shell!ComesRound)
=============================================================================
