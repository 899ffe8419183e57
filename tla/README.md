# Verification of mypt

TLA+ models of the protothread library in this repository, of the programs that come
with it, the TLC runs that check them on small instances, and proofs, checked by TLAPS,
for every instance.

## The system

The library runs many cooperative threads, written as protothreads, on one C
stack. An application initialises threads, adds them to a loop, starts them, and
then calls `myptm_loop_poll` again and again, sleeping for what it returns.
Entry functions and timer callbacks may call every function of the library,
`myptm_loop_poll` and `myptm_thread_join` included, so polls nest.

| component | source | state | operations | correct when |
|---|---|---|---|---|
| loop and threads | `src/src/myptm_core.c`, `src/include/myptm/myptm_core.h` | lists pending, running, clip; per thread state, p_owner, err, ref, lc; p_thread_current | init, add, startup, resume, stop, suspend, delay, poll, join, destroy | a thread is in the one list its state names; an entry is called only when ready and never re-entered; no ready thread starves; -1 is returned only when nothing can run |
| semaphores, condition variables | same files | count, head_pendings | take, give, give_all, reset, destroy | the oldest waiter gets the token, once; no token is kept from a waiter; a wait has one result |
| protothread macros | `src/include/myptm/myptm_core.h`, `src/simple/mypt.h` | lc, the yield flag | wait, yield, delay, take, loop, restart, exit | a body goes on after the statement it gave up control in, and prepares a wait once |
| ticker and timers | `src/src/myptm_timer.c` | ring of differences; tick_origin, p_ticker; the local `tick` of each active increase | init, add, remove, restart, destroy, increase, next | a timer's time is changed by nothing that happens to another; each tick is charged once; a due timer fires within its tick |
| driver loop and clock | the `main` of `src/example/examples/*.cpp`, `myptm_loop_poll` | systick, the last answer | poll, sleep, empty | main never sleeps over what is due, and ends only when nothing is left |
| intrusive ring | `src/include/myptm/myptm_queue.h` | prev, next | init, insert, remove, move, split, add, two loops | a node is in one ring at most; no ring is cut or crossed |
| message queue | `src/src/myptm_message_queue.c`, `src/include/myptm/myptm_message_queue.h` | free list, list of messages, two semaphores | init, send, recv | free slots and tokens agree; FIFO order; nothing is lost, doubled or made up |
| C++ wrapper | `src/include/myptm/myptm.hpp` | objects, owners, callbacks | constructors, destructors, forwarding, one-shot timers | nothing linked outlives its object, and nothing is leaked |
| examples, manual test | `src/example/` | a few threads each | a program each | none faults, every wait that should end does, nothing is lost |
| command line demo | `src/example/simple_cmdline/` | byte ring, tokens | queue, dequeue, input, execute | bytes in order, the oldest lost when full; tokens are words of the line; a command a line |
| simple protothreads | `src/simple/` | 32-bit deadlines | start, stop, timeout, delay | deadlines survive the overflow of the clock |
| single header | `src/bash/oneheaderfile.sh` and its output | | generated | |

How they interact: the poll fills the clip from the running list, calls
`myptm_tick_increase` with the time since the last poll, whose callbacks make
threads ready (`myptm_timeout_cb__`) or run application code, and then calls the
entry of each thread of the clip. Blocking macros move the thread to the pending
list, link it in a semaphore's queue, arm its timer and return from the entry.
Gives, timeouts, resumes and stops undo that from outside. A message queue takes a
token of one semaphore, moves a slot between two lists and gives a token of the
other. Everything is shared state; there are no locks, because there is one flow of
control; only the command line demo has a second thread, and a lock.

What is hard: the lists change while they are walked; a timeout and a give reach
the same thread in the same poll; polls nest in entries and callbacks, so one
poll's clip, current thread and unspent ticks are met by another; a thread is
stopped, or the whole loop destroyed, while entries are executing; a call that
blocks goes on in another activation of its function; times are words that
overflow. PROJECT.json lists these hazards line by line.

## Modules

| module | what it is |
|---|---|
| `MyptmLists` | rings as sequences; `Unlink` is `myptm_queue_remove` |
| `MyptmScheduler` | abstract: what the loop promises to the authors of threads |
| `MyptmCore` | the loop, threads and semaphores; implements `MyptmScheduler` |
| `MyptmAlarm` | abstract: every timer has a time of its own |
| `MyptmTimer` | the ticker; implements `MyptmAlarm` |
| `MyptmSystem` | the ticker in a loop, a main that polls and sleeps, and a clock that goes on |
| `MyptmMailbox` | abstract: a box of bounded size |
| `MyptmMessageQueue` | the message queue on `MyptmScheduler`; implements `MyptmMailbox` |
| `MyptmRings` | abstract: lists of elements |
| `MyptmQueue` | the macros of the ring, pointer by pointer; implements `MyptmRings` |
| `Coroutine` | abstract: a body that gives up control and goes on |
| `Protothread` | the macros, with lc and the flag; implements `Coroutine` |
| `MyptmObjects` | the classes of `myptm.hpp` on `MyptmCore` |
| `ExampleMessages`, `TestProgram` | example1 and example2, and the manual test's threads, on `MyptmCore` |
| `ExampleSemaphore`, `ExampleDriver` | example3 and example4, and the driver example, on `MyptmCore` |
| `SimpleClock`, `SimpleTimer`, `SimpleThreads` | `src/simple/`: the clock, the timers and their test, the threads |
| `LossyFifo`, `RingBuffer` | abstract and detailed: the byte ring between two threads |
| `CommandLine`, `SimpleShell` | the line parser, and the demo around it |
| `MyptmListsProofs` | lemmas about sequences and numbers that the proofs share |
| `MyptmCoreProofs` | proofs about the loop |
| `MyptmSystemProofs` | proofs about the ticker and about the program in time |
| `MyptmMessageQueueProofs` | proofs about the message queue |
| `MyptmObjectsProofs` | proofs about the C++ objects |
| `StandaloneProofs` | proofs about the macros of the ring and of threads, the byte ring and the timers of `src/simple` |
| `ExampleMessagesProofs`, `ExampleSemaphoreProofs` | proofs about the programs of `src/example/` |
| `MCMyptmCore`, `MCMyptmTimer`, `MCMyptmSystem`, `MCMyptmMessageQueue`, `MCMyptmObjects` | instances for TLC |
| `MCExampleMessages`, `MCTestProgram` | instances of the message programs |
| `MCExampleDriver` | the two semaphore programs side by side for TLC |
| `MCStandalone` | eight parts side by side for TLC |

Rules. What the library expects of its caller without checking it is listed in a
constant of the module (`Rules`, `LifeRules`, or a Boolean for a program). Each is a
guard that the constant switches on, so that dropping one shows what it protects from.

### MyptmCore

State corresponds to the code one to one: `pending`, `running`, `clip` are the
three heads, `waitq` the `head_pendings` of each semaphore, `state`, `err`,
`ref` the fields of a thread, `owner` whether `p_owner` is set (there is one
loop), `armed` the timers in the ticker, `stale` those that point to its head although it
does not point to them, `current` is `p_thread_current`. `lc`
keeps, of the resumption point, the semaphore of the take the thread is in. The
order of the pending list is never observed, so it is a set.

`stack` is the C stack: one frame per active poll, with the place it has reached
(in the ticker, in a callback, in the while loop, in an entry), its
`ptr_thread_old`, and the thread a join waits for. Application code runs when the
stack is empty, or its top frame is in a callback or an entry; then any library
call is possible. Each call is one action, with every change it makes; a blocking
call includes the return from the entry, since the macros return at once. A poll
is several actions, cut where application code gets to run.

Times are left out here: a tick may fire any armed timer (`MyptmTimer` and
`MyptmSystem` have the times). A delay is -1 (no timer) or 0, which stands for all others.

| rule | without it |
|---|---|
| `AddFresh` | a dead thread added again stays DEAD, and joining it fails the assertion at core.c:84 |
| `BlockOwned` | an entry that blocks after its thread was stopped follows a NULL `p_owner` (core.c:190) |
| `JoinOwned` | a join of a thread that was never added polls a NULL loop (core.c:86) |
| `InitUnjoined` | a thread initialised again while it is joined leaves the join without a loop |
| `ResumeBlocked` | a resume of a ready thread delays it, over and over: no `ImplementsFairScheduler` |
| `StartIdle` | starting a running timer fails the list's assertion |
| `OneLeft` | `myptm_loop_destroy` never returns when two timers of the application run |
| `LeftAlone` | a timer that ran when the loop was destroyed fails the list's assertion when it is started (run `LoopDestroyed`), and empties the ticker when it is removed |

`ThreadInit` re-initialises only objects that are in no list and not executing:
anything else overwrites linked nodes, which is undefined. An abandoned stack
(`fault`) stops the program: nothing happens after a failed assertion, a NULL pointer, in
the endless loop of `myptm_tick_destroy` or with timers cut off from the ticker.

The last two rules come from one line, `myptm_queue_remove( p_this->head.next )` in
`myptm_tick_destroy` (timer.c:94). The macro evaluates its argument again after it has
moved `head.next` (queue.h:93-101), so the timer it removes is not initialised: the next
one is, or the head when there is no other. `TickDestroy` therefore leaves the one timer
of the application in `stale`, and is a fault with two. For the code a stale timer is
linked: its start asserts, and `StaleRemove`, any other call on it, links the head to
itself, which is harmless when nothing runs and loses all running timers otherwise.
`TimerInit` makes it usable again. `StandaloneProofs` proves these facts of the pointers.
Threads' timers are removed one by one with their threads and are not affected. The check
of a NULL entry (core.c:139) is left out, as `myptm_thread_init` is given the entry.

The refinement mapping to `MyptmScheduler` is `Modes` (a thread's state and whether it
has an owner), `Limited` (its timer is in the ticker) and `Executing` (`ref`). That an
entry is called only when its thread is ready, that the result of a wait is final and
that tokens go to the oldest waiters are the scheduler's actions, so `ImplementsScheduler`
says all of this.

### MyptmTimer and MyptmSystem

`ring` holds the timers with their differences, `calls` the local `tick` of each
active `myptm_tick_increase` and where it is. A callback may do anything to any
timer, and may enter the ticker again. Words are taken modulo `Modulus`: -1 is
the largest word, as a delay and as the difference a clock that goes backwards
yields. The refinement mapping gives a timer the sum of the ticks up to its own,
(`Times`), and calls the unspent ticks of all active calls the time owed (`Owed`): the
ticker charges exactly that time to every timer, and no operation on one timer touches
another. It has `stale` and the rules `OneLeft` and `LeftAlone` as the core has;
where one is broken the innermost call enters the phase `stopped`, in which no step
follows: a deadlock in the run. With `LeftAlone` a stale timer may still be removed,
restarted or destroyed when nothing runs, and be initialised at any time.

`MyptmSystem` extends it with what lies around: `lag` is the clock minus `systick`,
which a poll takes (as a word) and charges; threads are as simple as time allows, with a
timer each; `main` calls the poll, sleeps for its answer (`myptm_tick_next`, read as an
int), and leaves when `myptm_loop_empty`. The history variables `due` and `slack` say
when each timer is really due, and how much of its delay had passed unnoticed when it
was started, since a delay counts from the last poll and not from now.
`TimesAgree` ties the ring's sums to these; `NothingMissed` says that main, asleep,
sleeps over nothing and, gone, leaves nothing; `Punctual` bounds early and late firing.

### MyptmMessageQueue

It uses the actions of `MyptmScheduler` for waiting and waking, and has the pool as it
is: `next` pointers, `head`, `tail`, `free`, `entry`. `call` is the queue operation a
thread is in, `buffer` what it sends or has received. A thread that was stopped takes
the token it was given with it; `lost` counts these, and `NoSlotLost` says that nothing
else makes the semaphores disagree with the lists. `Free` and `Queued` are the lists that
the pointers make, `Box` the contents of the second and `Offers` what the threads in a
send have to give: these are the mailbox of `MyptmMailbox`.

| rule | without it |
|---|---|
| `BufferKept` | a send reads the buffer again after its wait (message_queue.h:95); a local variable then holds garbage: no `ImplementsMailbox` |
| `ResumeNotOK` | a waiter resumed with EOK has no token and uses a slot all the same: no `NoSlotLost` |

### MyptmQueue, Protothread

`MyptmQueue` has two pointers for each node and each macro as an operator on them, in
the order of its assignments. `walk` is a loop over a list with a body that unlinks the
current object. Its operators are the macros with arguments that the macro does not
change; `RemovedFirst` is the one use in the sources that is otherwise, timer.c:94.
`Protothread` runs any body, a sequence of statements, with lc, the flag
and the return of each macro; the timers and semaphores behind it are its environment.

### MyptmObjects

Constructors and destructors tie objects to the calls they make. `NoDangling` looks from
every list, timer, frame and join to the objects.

| rule | without it |
|---|---|
| `DestroyAdded` | ~thread of a thread that was never added joins it: a NULL loop |
| `DestroyIdle` | ~thread while run() is below on the stack: the poll writes `ref` of freed memory (core.c:143) |
| `DestroyUnjoined` | the join reads the state of freed memory |
| `LoopIdle` | the poll goes on with a loop that is gone |
| `ShotsFired` | a one-shot timer that never fires holds itself for ever: no `NoneLeaked` |
| `TimersStopped` | a timer that runs when ~loop comes, or ran when the loop was stopped, still points into the loop, and ~timer writes there |

The rules of the core hold here too: with `OneLeft` dropped a loop is stopped for ever,
with `LeftAlone` dropped ~timer of a timer that ran at an earlier stop empties the ticker.
example4.cpp breaks `TimersStopped`: its loop is declared last, so destroyed first, while
the timer of half a second is still linked to it.

### The programs

The four modules of `src/example/` write each program's threads, callbacks and main loop
as steps that conjoin a library call of `MyptmCore` with the program's own state: `pc`, the
place each thread's code has reached, what the callback does next, and what the program
has in its hands. No rule of use is assumed: `Rules` is empty, so what the programs do must
keep to the rules by itself, and `NoFault` says that it does. `Left` is main after its
loop. What follows is left out: no thread is in the loop and no timer in the ticker then,
but the periodic timer, which ran when the loop was destroyed, may be linked to it
(`stale`). example3 does nothing more with it, example_driver destroys it while the ticker
is empty, and in example4 ~timer comes after ~loop (see Findings).

`TestProgram` is `ExampleMessages` with a receiver that adds, starts and stops the senders.
`ExampleDriver` is `ExampleSemaphore` with two threads of another code: the driver's thread
takes the semaphore, the periodic timer is its interrupt, and the application's thread
polls while it has nothing to read, so all of this goes on in a poll inside an entry. One
case is excluded by `StopsBetweenReads`: if the first read waits for all of 15 seconds, the
loop is destroyed by a timer in the poll inside that read, and the delay after it
(example_driver.cpp:141) follows a NULL `p_owner`; with it FALSE, `NoFault` fails.

`SimpleTimer` compares deadlines as the code does, by the sign of a difference; `Build`
says whether signed overflow wraps, as it does with the usual compilers' code for it, or
whether the comparison is done as of numbers, which undefined behaviour allows: then
`DueInTime` fails. `SimpleShell` assumes that main keeps up with the bytes (`KeepsUp`),
as its shorter sleep suggests; without it bytes are lost, and commands with them.

## Runs

| run | instance | result |
|---|---|---|
| `CoreSafety` | 2 threads, 1 semaphore, 1 timer, polls 3 deep, counts to 2 | 8 properties hold, 1.49 million states |
| `CoreScheduler` | 2 threads, 1 semaphore, 1 timer, polls 2 deep, counts to 1, resumes with ETERMINATED | implements `MyptmScheduler`, and the fair one: no ready thread starves; 0.37 million states |
| `LoopDestroyed` | without `LeftAlone` | violated: assertion at queue.h:74, for a timer that ran when the loop was destroyed |
| `Ticker` | 3 timers, delays -1, 0, 2, differences -1, 1, words of 2 bits, 2 deep | 3 properties hold, 0.44 million states |
| `TimerDestroyed` | without `DestroyIdle` | violated: `myptm_timer_destroy` keeps the ticks |
| `System` | 2 threads, 1 timer, delays 1, 3, words of 3 bits, rounds of up to 2 ticks | 4 properties hold, 0.27 million states |
| `MessageQueue` | 3 threads, 2 slots, 2 messages | 2 properties hold, 0.3 million states |
| `Objects` | 2 threads, 2 timers, 1 one-shot timer, 1 semaphore, polls 2 deep | 2 properties hold, 1.14 million states |
| `Messages` | 2 senders, 2 slots, receives with a limit | 6 properties hold, 1,463 states |
| `Semaphores` | 2 threads, up to 3 tokens or bytes, polls 2 deep | 3 properties hold, 1,329 states |
| `ManualTest` | the parent and 2 children, 3 slots | 2 properties hold, 6,907 states |
| `Standalone` | eight parts | 8 properties hold, 71,907 states |

`MCStandalone` is a sum: the first state picks one part, and the others' variables never
change, so each behaviour is one of one part, a property about a part is trivially true in
the others, and the states add up. They are: rings 3,097, a body 148, timers 496, the
overflow test 25, threads 15,232, bytes 34,345, typed lines 18,200, the shell 364.
`MCExampleDriver` is one of two programs: 667 states are of example3, where the buffer
stays empty and `BytesKept` says the same as `TokensKept`, and 662 of the driver.

A few invariants that are proved for all instances are named in no configuration, as the
properties checked there rest on them: `ArmedIsBlocked`, `ExecutingNotBlocked`, `NoneLeftDue`,
`ListsPartition`, `RingsOK`, `PreparedOnce`, and `NoFault` of the programs in `Semaphores`
and `ManualTest`. There a fault leaves nothing to do, and shows as a deadlock.

Bounds of the core. Two threads show every relation of a pair (one executing, one in the
clip; one giving, one waiting), and the order of two waiters when a callback or main gives.
A clip with more of them, which outlives nested polls, is left to the theorem
`LoopImplements`, which covers any number of threads. Polls three
deep let a nested poll meet two executing entries and a callback. A count of 2
lets one give serve a waiter and leave a token over. In `CoreScheduler` the application
resumes threads with ETERMINATED only (`Codes`): if it could resume any waiter with EOK,
the abstract scheduler would take a token handed to the wrong waiter for such a resume.
One timer of the application is enough to be left linked and to meet the timers of threads;
`OneLeft` matters with two, which `Objects` has besides its one-shot, and `Ticker` has three.
`Len(stack) < MaxDepth` and the guards with `MaxCount` are the only bounds.

Of the ticker. Three timers give a predecessor, a middle one and a successor. Words of
two bits are enough for a difference that skips two timers at once and for -1 to be the
largest delay; the system has three bits, so that a delay, the work before it and the
oversleeping fit into half a range, as `SystemAssumption` says. `MaxWork` bounds how long
main takes for a round without its sleep; the clock has words for more. Its delays stay
below half a range: `myptm_tick_next` returns a word as an int, and a longer one would
read as `no timer`.

Of the others. With two slots and three threads a send and a receive wait at once and a
third thread gets ahead; two messages tell apart order and contents. Two heads and three
objects are enough for every pair of neighbours, an empty ring and a ring of one, for
split and add. The body in `Everything` has each statement, and two in both orders. The
byte ring has four places, so three bytes; batches of two overtake the reader. Typed
lines have up to five characters, words of up to two and one more token than fits. The
clocks of `src/simple` have 16 values, with 1000 ms scaled to one, and one timer, as timers
have nothing in common.
The manual test starts two children and stops one after every second message; its children
go on sending while the parent is in its long delay, so that the three slots run out. In
`Messages` there is a slot for each of the two senders, as ten are enough for the senders of
examples 1 and 2 (`SendersNeverWait`); a receive with a limit whose timer may be arbitrarily
late includes one that waits for ever, and the theorems are for any limit. The programs need
few states because nothing in them is free but when timers fire: their threads are the two
or three that they have, their slots and tokens fewer than those of the code.

Symmetry of threads, timers or messages is used only in runs without liveness. No run
switches off the deadlock check: an application can always poll again, and a program that
has ended says so by a step that changes nothing (`Left`).

## Fairness

There is one flow of control, so a step the library is in the middle of is taken
(`WF` of the loop's own steps). Of the application it is assumed that it polls
whenever no poll is active and that its code comes to an end, returns, blocks or
polls. An application that stays in a nested poll for ever is allowed, and
`ImplementsFairScheduler` holds there: each poll takes up the clip the one below it
left. `SF` of `TickDone` says that the ticker comes to an end although callbacks start
timers again. `TickEnds` of the run `Ticker` is this, from the fairness of the ticker's own
steps and of callbacks that return, for behaviours in which from some time on every timer
that has been started has a positive delay; a callback that starts a timer with a delay of 0 each
time keeps the ticker busy for ever, and hangs the program.

`System`: main, the library and each entry that has been called go on, and so does the
clock. The programs: each goes on (`WF` of its next-state relation); a delay, a limit and
the half second of the periodic timer end some time, and the ticker ends (`SF`, what
`System` and `Ticker` show). Nothing is assumed of the 15 seconds: `StopEnds` says
what follows once they are over. `Standalone`: a loop over
a list, the main and the clock of `src/simple`, and the two threads of the demo go on;
each condition names its part.

## Proofs

Each is for any sets of threads, semaphores, timers or nodes, any bounds, any width of
the words and any body. The constants are assumed to be what the assumptions of their
modules say; which rules of use a proof assumes is said with it.

The proofs about the loop assume `Rules = AllRules`, those about the programs no rule.
`MyptmCoreProofs` proves that every state of `Spec` satisfies `TypeOK`, `Placement`,
`WaitersBlocked`, `ArmedIsBlocked`, `NoLostWakeup`, `NoReentrance`, `ExecutingNotBlocked`
and `NoFault`. The inductive invariant is `IInv`, the conjunction of these eight, with
`JoinedHasLoop`: the thread a join waits for is in the loop or dead. None is
inductive alone. `NoFault` rests on the rules `OneLeft` and `LeftAlone` for the application's timers
and needs `WaitersBlocked` and `ArmedIsBlocked`, because
the insertions of a blocking call assert that the nodes are free, and
`JoinedHasLoop`, because a join reads p_owner before every poll.
`WaitersBlocked` needs `ExecutingNotBlocked`, because the thread that blocks must
not be in a queue already; that needs `NoReentrance` (the frame that blocks is
the thread's only one) and `Placement` (what is dispatched is ready).
`NoLostWakeup` needs `WaitersBlocked` for the thread that enters a queue.
The argument is by action. The moves of threads between lists are lemmas
(`MakeReadyStep`, `DetachStep`, `WakeStep`, `BlockStep`, `RefillStep`,
`DispatchLists`), and so are those of the stack (`PushStep`, `PopStep`,
`PhaseStep`, `EnterStep`, `LeaveStep`); one lemma per group of actions puts them
together. They rest on the facts of `MyptmListsProofs` about sequences without
repetitions.

`MyptmCoreProofs` also proves `CurrentIsExecuting`. It is not inductive: in the while loop
p_thread_current is whatever ran last. The invariant `CInv` says what is kept: the
`ptr_thread_old` of every poll that has read it is the thread of the innermost entry
below that poll, p_thread_current is the innermost of all unless the innermost poll is in
its while loop, and only callbacks and entries are below another frame. The action
property `IdleMeansBlocked` follows from `Placement`.

The same module proves `Spec => ImplementsScheduler`: the initial states map to
initial states, and every step is a step of the scheduler or a stutter. One lemma per
scheduler action reads it through the mapping (`RenewView` to `BlockView`), one per action
of the loop finds the action it is (`ThreadInitSimulated` to `PollsSimulated`). `IInv` is
needed where the loop trusts its lists: that what is in the clip is ready makes
`Dispatch` a call, that a running timer's thread is suspended makes `Timeout` the end of
a wait, that an executing thread is ready or dead makes the end of an entry one.

`MyptmSystemProofs` proves of the ticker, with `Rules = AllRules` and `TimerAssumption`
alone, that the times of all timers fit in
a word (`TypeOK`), that no call of the ticker leaves a due timer (`NoneLeftDue`) and
`Spec => ImplementsAlarm`: whatever is started, removed and restarted, in callbacks of
nested calls too, a timer's time changes only by what is charged. `TickerGoesOn` says that
with the rules no call stops for good, so that none of this is empty. The time of a timer is a
sum over the ring, a recursive function. `SummedIs` says that any function which satisfies
the recursion is that sum, and `SumsExist` that there is one; both are by induction, the
first over the least place where the two differ. So what an operation does to the sums is
proved by writing down the sums afterwards: `RemovedTimes`, `FiredTimes`, `InsertedTimes`
and `ChargedTimes`, one for each operation of the list; `PlaceFound` shows that the place
which `myptm_tick_add_timer` stops at is between an earlier and a later timer. The
inductive invariant is `IInv`, `TypeOK` with `CallersInCallbacks` (below the innermost
call all are in callbacks) and `Settled` (a call at the head of its outer loop leaves no
timer that is due). `TypeOK` needs the sums: that a difference does not wrap follows from
the bound of the sum after it. `Settled` is what the return of a call shows.

It proves the three safety properties of the system in time, `TimesAgree`,
`NothingMissed` and `Punctual`, with `Rules = AllRules` and `SystemAssumption`. The lemmas
about the ticker say which step of `MyptmAlarm` each of its steps is, so the argument is
about one timer: `InTime` relates the time it has left to its real time, to the time since
the poll and to the time main goes on at, and there is a lemma for each thing that may
happen to it (`StartedInTime` to `SleptInTime`). The invariant also needs the bounds that
the words are wide enough for: what has passed since a poll is less than a word
(`ClockBounded`), or a poll would charge too little; and every time left is less than half
a word, with a round of main to spare (`Short`), or `myptm_tick_next` would return a
negative int. `NothingMissed` rests on `NextTickIs`, that the first timer of the ring is
the first to be due, and `Punctual` on both bounds of `InTime`.

`MyptmMessageQueueProofs` proves three things. `ListsPartition` needs no rule: the next
pointers of the pool always make two lists that share the slots (`ListsInv`; `ChainIsList`
says that following the pointers gives the list they link). `NoSlotLost` assumes
`ResumeNotOK`. Its invariant `TokenInv` is, for each operation, `Balanced`: the tokens,
those granted to threads that have yet to use them and those lost to stops add up to the
slots of its list; and `Waiting`, which says that the waiters of a semaphore are blocked,
each once, in a call of its operation, and that no executing thread is. A take, a grant,
a wait that fails and a stop each keep the balance of both semaphores (`EnterTakes` to `StopKeeps`), and a call
that ends takes a slot from the one and gives a token to the other (`Exchanges`).
`ImplementsMailbox` assumes `BufferKept`: with it what a thread sends after a wait is what
it offered (`BuffersHold`).

`MyptmObjectsProofs` proves `NoDangling` and `NoneLeaked`, with all rules of both modules.
Each step of an object is a step of the loop (`ObjectsStep`), so
`CoreInv`, the loop's own invariants, hold. `LifeInv` adds that owned threads, running
timers and whatever an active poll names exist, and that nothing is left of a loop that is
gone. `NoDangling` follows from both: the lists hold threads that are owned. A destructor
stops its thread, which leaves all lists, but it does not look at the active polls; that
these do not name it follows from `CInv` and from the rules (`IdleUnnamed`).

`StandaloneProofs` proves `RingsOK`: for any number of heads and objects, whatever macros
follow one another, next and prev are inverse to each other (one `PointBack` lemma per
macro), and the assertion of `myptm_queue_insert_tail` holds for exactly the free nodes.
It also proves that the macros implement lists (`ImplementsRings`), which all other
modules build on. The mapping follows the next pointers, a recursive function, so the
invariant is `AreRings` of the lists it finds: `IsRing` says that a list is linked from
its head on, and two lists share nothing. `AfterIsRing` shows by induction that following
the pointers finds the only list with `IsRing`; so it is enough to write down, for each
macro, the lists afterwards and to show that they are rings (`AppendRing` to
`ConcatRing`), while the other rings do not change (`OneChanges`, `TwoChange`,
`TwoJoin`). Here `PointBack` is what makes a macro that writes to m[h].prev write to the
last object of the list. `WalkStays`, that a safe loop stays in its list, needs `WalkInv`:
the object that the body may remove is never the next one. The number of objects is
assumed to be finite (`QueueAssumption`), as the nodes of a memory are. Of
`myptm_tick_destroy` it proves, for any ring, that one round leaves the last timer linked
to the head (`LastStaysLinked`), that the loop never ends with two or more
(`DestroyNeverEnds`), and that removing a timer left linked links the head to itself,
whatever it was linked to (`StaleEmptiesRing`).

The same module proves for every body of a thread that lc is a label of it
(`LabelsOK`), that a wait is prepared once (`PreparedOnce`), and that the macros implement
`Coroutine`. It proves that the byte ring implements `LossyFifo` for every size:
`BytesInv` says that who is in a call has the lock, and that what it has looked at, room
for the byte or the byte at the tail, still holds when it acts on it; `HeldGrows` and
`HeldShrinks` say what moving an index does to the bytes between the two. And it proves
`DueInTime` of the timers of `src/simple`, in any use of them and in the overflow test,
for words of any width and a build that wraps: the invariant `TimersInv` is that a
deadline is the clock plus what is left, as a word, and `DueIs` that the sign of the
difference then tells whether it has passed.

The programs assume no rule, so their proofs cannot cite that `IInv` holds: they cite the
step lemmas of `MyptmCoreProofs`, those that need no rule and those that need one with
what the program does in its place. `EntriesOwned` gives what a rule would: nobody joins,
and the thread of an executing entry is in the loop, so that it may block (`BlockOwned`)
and delay. `EntriesMove` to `StopSeen`, one lemma for each call a program makes, say what
it does to the state and that it keeps `IInv` and `EntriesOwned`.

`ExampleMessagesProofs` proves `NoFault`, `NoBug` and `NoneWaitsInVain` of example1 and
example2, and `NoFault` and `StopLosesOne` of the manual test. The invariant is `Machine`,
the loop's own, with `Books`: `MessagesKept`, that every message in the queue has a token
of `SemRead`, counted or in the receiver's hands; `SlotsKept`, that the slots are in the
queue, counted in `SemEmpty` or in a sender's hands, but for one at most for each sender
that was stopped; and `WaitPlaces`, that who waits for a token is at the code that looks
at the result. That is why a grant that races with a limit is never lost or used twice,
and `NoBug` follows: a receive that ends with EOK holds a token of a message.
`NoneWaitsInVain` follows with `AllInLoop`, that the receiver waits for nothing else,
and `IInv`'s `NoLostWakeup`. `Family` says which children the parent has still to add, by
the place it is at: from it follow the rules for adding and starting.

`SendersNeverWait` assumes a slot for each sender, `Cardinality(Sender) <= MaxMsgs`, as
example1 has, and needs an argument about turns (`Turns`). A sender that has sent delays,
and a delay ends in a tick, when the receiver is in the clip if there are messages
(`ReceiverInClip`): so the receiver runs before that sender does (`ReceiverFirst`) and
takes them all, and no sender has two messages in the queue (`OneEach`).

`ExampleSemaphoreProofs` proves `NoFault` and `TokensKept` of example3 and example4, for
any number of threads, and `NoFault` and `BytesKept` of the driver, for its two threads
(`Len(Started) = 2`) and with `StopsBetweenReads`. What both keep to is `Known`: the loop's
invariant with the places of the code and of the callback (`CallbackPlaces`): a callback
that has calls to make is at the top of the stack, the periodic timer is not in the ticker
nor left linked to it until it is started again, which is what `StartIdle` and `LeftAlone`
ask, and the loop is destroyed in a poll that no entry makes, by a timer that has left the
ticker, so that at most the periodic one is left there (`OneLeft`). `StaleIdle` is that no
timer left linked is in the ticker (`TimersStay`). `Owed`, the tokens that are counted or handed to a thread,
is then kept equal to what the program has not claimed by each call (`TakesSteps` to
`StopsSteps`), whichever poll it is made in.

Only model-checked: the delays of `src/simple`, the command line (`TokensAreWords`,
`CommandsInTurn`), where what a line means is defined by sorting and selecting its
characters, which is induction over data; the second half of `SafeLoop`; and all liveness,
which with ENABLED is beyond the prover.

## Findings

1. `myptm_tick_destroy` (timer.c:94) gives a macro an argument that it evaluates twice. A
   timer that runs when the loop is destroyed stays linked to the ticker: starting it
   again fails the assertion of the insertion (`LoopDestroyed`), removing or destroying it
   empties the ticker, timers of threads included, and after ~loop ~timer writes into the
   loop that is gone, as at the end of example4.cpp. With two timers running
   `myptm_loop_destroy` never returns (`DestroyNeverEnds`).
2. `myptm_timer_destroy` on a running timer loses its ticks, and later timers
   fire early (`TimerDestroyed`).

Seen while modelling, without a run of its own:

- `myptm_loop_add` does not reset the state of a dead thread (core.c:164-177), so joining
  one that was added again fails the assertion at core.c:84: drop `AddFresh`, and `NoFault`
  fails.
- `delay_tick: 0 forevery` (core.c:235, core.h:227): 0 times out at the next tick, -1
  waits for ever.
- A send from a local variable, as the repository's README.md:60-66 and testmyptm.c:54-58
  show it, sends garbage when it has to wait (message_queue.h:95): drop `BufferKept`.
- The comparison at test_32bit_timer_overflow.c:55 relies on signed overflow: set `Build`
  to "compares".
- example_driver.cpp:141, after a read of 15 seconds: set `StopsBetweenReads` to FALSE.
- The transcript printed at simple_shell.cpp:213 joins all arguments, where the parser
  keeps the command and five apart.

## Plan

Done: the core and the scheduler, the ticker, the system in time, the message queue, the
ring, the macros, objects, the programs; the proofs above. What is left:

1. The delays of `src/simple`: `NeverEarly` and `OnTime` from the lemmas about words.
2. `MyptmObjects` with exceptions thrown by run() and by callbacks.

## Not modelled

Printing, the reading of numbers, and the clock functions that applications supply. The
`main` and the callback of `src/example/testmyptm.c`, which are written for functions and
fields the library no longer has. The C++ exception handlers. Message sizes: all messages
have the size of the queue, and the error -3 of a pool of 65535 entries cannot occur, as
`max_msgs` is a `uint16_t`. Several loops in one program (threads and timers of different
loops share nothing but semaphores, whose waiters are then woken into their own loop).
Running out of stack. The single header: the same code, concatenated by a script.
