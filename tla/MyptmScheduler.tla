---------------------------- MODULE MyptmScheduler ----------------------------
(***************************************************************************)
(* What src/src/myptm_core.c promises to the authors of threads: when an   *)
(* entry function is called, how a wait ends, and who gets a token.  Run   *)
(* lists, the clip, polls and their nesting, the ticker and ref are hidden;*)
(* MyptmCore is shown to implement this module.                            *)
(***************************************************************************)
EXTENDS MyptmLists

CONSTANTS Thread, Sem, NoSem, MaxCount, Codes

VARIABLES
    mode,        \* idle, new, blocked, ready or dead; new is idle in a loop
    waiters,     \* the threads blocked in a take of each semaphore, in order
    tokens,      \* the tokens of each semaphore
    timed,       \* the blocked threads whose wait has a limit
    outcome,     \* how the last wait of each thread ended
    executing    \* the threads whose entry function has been called

vars == <<mode, waiters, tokens, timed, outcome, executing>>

InLoop(t) == mode[t] \in {"new", "blocked", "ready"}

Init ==
    /\ mode = [t \in Thread |-> "idle"]
    /\ waiters = [s \in Sem |-> <<>>]
    /\ tokens \in [Sem -> 0 .. MaxCount]
    /\ timed = {}
    /\ outcome = [t \in Thread |-> "EOK"]
    /\ executing = {}

-----------------------------------------------------------------------------
\* A dead thread is initialised again, but not from within its own entry.
Renew(t) ==
    /\ mode[t] = "dead" /\ t \notin executing
    /\ mode' = [mode EXCEPT ![t] = "idle"]
    /\ outcome' = [outcome EXCEPT ![t] = "EOK"]
    /\ UNCHANGED <<waiters, tokens, timed, executing>>

Admit(t) ==
    /\ mode[t] = "idle"
    /\ mode' = [mode EXCEPT ![t] = "new"]
    /\ UNCHANGED <<waiters, tokens, timed, outcome, executing>>

Start(t) ==
    /\ mode[t] = "new"
    /\ mode' = [mode EXCEPT ![t] = "ready"]
    /\ UNCHANGED <<waiters, tokens, timed, outcome, executing>>

\* t stops waiting and becomes ready, with an outcome.
EndWait(t, code) ==
    /\ mode' = [mode EXCEPT ![t] = "ready"]
    /\ waiters' = [s \in Sem |-> Unlink(waiters[s], t)]
    /\ timed' = timed \ {t}
    /\ outcome' = [outcome EXCEPT ![t] = code]
    /\ UNCHANGED <<tokens, executing>>

Resume(t, code) ==
    \/ mode[t] \in {"new", "blocked"} /\ EndWait(t, code)
    \/ /\ ~InLoop(t)
       /\ outcome' = [outcome EXCEPT ![t] = code]
       /\ UNCHANGED <<mode, waiters, tokens, timed, executing>>

Timeout(t) == t \in timed /\ EndWait(t, "ETIMEOUT")

\* What is stopped leaves the loop for good, its entry executing or not.
Stopped(S) ==
    /\ mode' = [t \in Thread |-> IF t \in S THEN "dead" ELSE mode[t]]
    /\ timed' = timed \ S

Stop(t) ==
    /\ InLoop(t)
    /\ Stopped({t})
    /\ waiters' = [s \in Sem |-> Unlink(waiters[s], t)]
    /\ UNCHANGED <<tokens, outcome, executing>>

StopAll ==
    /\ Stopped({t \in Thread : InLoop(t)})
    /\ waiters' = [s \in Sem |-> <<>>]
    /\ UNCHANGED <<tokens, outcome, executing>>

-----------------------------------------------------------------------------
\* The waits of the k oldest waiters of s end.
EndWaits(s, k, code) ==
    LET Woken == Range(SubSeq(waiters[s], 1, k))
    IN  /\ mode' = [t \in Thread |-> IF t \in Woken THEN "ready" ELSE mode[t]]
        /\ waiters' = [waiters EXCEPT ![s] = SubSeq(@, k + 1, Len(@))]
        /\ timed' = timed \ Woken
        /\ outcome' = [t \in Thread |-> IF t \in Woken THEN code ELSE outcome[t]]

\* n tokens go to the oldest waiters first, one each; only what they leave over
\* is kept.
Give(s, n) ==
    \E k \in 0 .. n :
        /\ k = n \/ k = Len(waiters[s])
        /\ k <= Len(waiters[s])
        /\ EndWaits(s, k, "EOK")
        /\ tokens' = [tokens EXCEPT ![s] = @ + (n - k)]
        /\ UNCHANGED executing

WakeAll(s, code) ==
    /\ EndWaits(s, Len(waiters[s]), code)
    /\ UNCHANGED <<tokens, executing>>

Reset(s) ==
    /\ tokens' = [tokens EXCEPT ![s] = 0]
    /\ UNCHANGED <<mode, waiters, timed, outcome, executing>>

-----------------------------------------------------------------------------
\* The entry of a ready thread is called, and not again before it returns.
Call(t) ==
    /\ mode[t] = "ready" /\ t \notin executing
    /\ executing' = executing \cup {t}
    /\ UNCHANGED <<mode, waiters, tokens, timed, outcome>>

Take(t, s) ==
    /\ t \in executing
    /\ tokens[s] > 0
    /\ tokens' = [tokens EXCEPT ![s] = @ - 1]
    /\ outcome' = [outcome EXCEPT ![t] = "EOK"]
    /\ UNCHANGED <<mode, waiters, timed, executing>>

Return(t) == t \in executing /\ executing' = executing \ {t}

\* The entry returns: ready, for good, or in a wait for s with or without limit.
Yield(t) ==
    /\ Return(t)
    /\ UNCHANGED <<mode, waiters, tokens, timed, outcome>>

End(t) ==
    /\ Return(t)
    /\ Stopped({t} \cap {u \in Thread : InLoop(u)})
    /\ waiters' = [s \in Sem |-> Unlink(waiters[s], t)]
    /\ UNCHANGED <<tokens, outcome>>

Block(t, s, limited) ==
    /\ Return(t)
    /\ mode[t] = "ready"
    /\ s # NoSem => tokens[s] = 0
    /\ mode' = [mode EXCEPT ![t] = "blocked"]
    /\ waiters' = [q \in Sem |-> IF q = s THEN Append(waiters[q], t) ELSE waiters[q]]
    /\ timed' = IF limited THEN timed \cup {t} ELSE timed
    /\ outcome' = [outcome EXCEPT ![t] = "EOK"]
    /\ UNCHANGED tokens

-----------------------------------------------------------------------------
Next ==
    \/ \E t \in Thread :
          \/ Renew(t) \/ Admit(t) \/ Start(t) \/ Timeout(t) \/ Stop(t)
          \/ Call(t) \/ Yield(t) \/ End(t)
          \/ \E code \in Codes : Resume(t, code)
          \/ \E s \in Sem : Take(t, s)
          \/ \E s \in Sem \cup {NoSem}, limited \in BOOLEAN : Block(t, s, limited)
    \/ \E s \in Sem :
          \/ \E n \in 1 .. MaxCount : Give(s, n)
          \/ \E code \in {"EOK", "ETERMINATED"} : WakeAll(s, code)
          \/ Reset(s)
    \/ StopAll

Spec == Init /\ [][Next]_vars

\* A thread that stays ready is called.
FairSpec == Spec /\ \A t \in Thread : WF_vars(Call(t))
=============================================================================
