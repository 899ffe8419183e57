------------------------------ MODULE CommandLine ------------------------------
(***************************************************************************)
(* The line parser of src/example/simple_cmdline/simple_shell.cpp: it      *)
(* takes a line apart character by character, and executes it at its end.  *)
(* tokens[0 .. n - 1] is a sequence, so n is its length.  How an argument   *)
(* is read as a number, and what is printed, is left out.                  *)
(***************************************************************************)
EXTENDS SequencesExt, FiniteSetsExt, Naturals

CONSTANTS
    Letter,      \* the characters of names and numbers
    Space,       \* is_token_seperator: a blank, a tab or a carriage return
    Newline,
    MaxTokens,   \* array_size(tokens)
    MaxLength,   \* sizeof(tk) - 1: the last byte of a token is 0
    MaxLine      \* bound: the characters typed in one line

CommandLineAssumption ==
    /\ Space \notin Letter /\ Newline \notin Letter /\ Space # Newline
    /\ MaxTokens \in Nat \ {0} /\ MaxLength \in Nat /\ MaxLine \in Nat

VARIABLES
    tokens,      \* what has been read of a line, taken apart
    line,        \* the same as it was typed
    command      \* the command executed last: its name and its arguments

vars == <<tokens, line, command>>

\* Mutant: the end of the token is not looked at.
token_input_unbounded(tk, ch) == Append(tk, ch)

token_input(tk, ch) == IF Len(tk) < MaxLength THEN Append(tk, ch) ELSE tk

\* A separator opens the next token, if there is one and the last is not empty.
NextToken(ts) == IF Last(ts) # <<>> /\ Len(ts) < MaxTokens THEN Append(ts, <<>>) ELSE ts

Init == tokens = <<>> /\ line = <<>> /\ command = <<>>

\* Mutant: the tokens are not cleared after a command.
ClearedNot(ts) == ts

\* cmd_line_init, after a command
Cleared(ts) == <<>>

\* The first character of a line opens the first token, also when it ends the line.
cmd_line_input(ch) ==
    LET ts == IF tokens = <<>> THEN <<(<<>>)>> ELSE tokens
    IN  CASE ch = Space   -> /\ tokens' = NextToken(ts)
                             /\ line' = Append(line, ch)
                             /\ UNCHANGED command
          [] ch = Newline -> /\ tokens' = Cleared(ts)
                             /\ line' = <<>>
                             /\ command' = ts
          [] OTHER        -> /\ tokens' = [ts EXCEPT ![Len(ts)] = token_input(@, ch)]
                             /\ line' = Append(line, ch)
                             /\ UNCHANGED command

Next ==
    \E ch \in Letter \cup {Space, Newline} :
        /\ Len(line) < MaxLine \/ ch = Newline
        /\ cmd_line_input(ch)

Spec == Init /\ [][Next]_vars

-----------------------------------------------------------------------------
(***************************************************************************)
(* What a line means, without reading it character by character.           *)
(***************************************************************************)

\* Where the words of a line begin, in order.
Starts(l) ==
    SetToSortSeq({i \in DOMAIN l : l[i] # Space /\ (i > 1 => l[i - 1] = Space)}, <)

\* The k-th token is the k-th word; the last one gets all the words that are left,
\* without the separators between them.  What is too long is cut off.
Token(l, k) ==
    LET starts == Starts(l)
        last   == IF k = MaxTokens \/ k = Len(starts) THEN Len(l) ELSE starts[k + 1] - 1
        word   == IF k > Len(starts) THEN <<>>
                  ELSE SelectSeq(SubSeq(l, starts[k], last), LAMBDA ch : ch # Space)
    IN  SubSeq(word, 1, Min({MaxLength, Len(word)}))

\* A line without words is one empty token, and so is what follows a separator at
\* the end of a line.
Split(l) ==
    LET words == Len(Starts(l))
        open  == IF words = 0 \/ l[Len(l)] = Space THEN 1 ELSE 0
    IN  [k \in 1 .. Min({MaxTokens, words + open}) |-> Token(l, k)]

\* After each character the tokens are the words of the line, however many words,
\* separators in a row and characters there are.
TokensAreWords == tokens = IF line = <<>> THEN <<>> ELSE Split(line)
=============================================================================
