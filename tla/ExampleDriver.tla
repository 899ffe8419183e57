----------------------------- MODULE ExampleDriver -----------------------------
(***************************************************************************)
(* src/example/examples/example_driver.cpp, which has the semaphore and    *)
(* the timers of ExampleSemaphore: a timer plays the interrupt of a        *)
(* device, the driver's thread collects a byte for each interrupt, and the *)
(* application's thread reads.  When there is nothing to read it polls the *)
(* loop it is running in until there is, so driver, interrupt and timers   *)
(* go on in a poll inside the entry function of the application.           *)
(***************************************************************************)
EXTENDS ExampleSemaphore

CONSTANT StopsBetweenReads

(***************************************************************************)
(* StopsBetweenReads: the loop is not destroyed while the application polls *)
(* inside a read.  The program relies on it: after 15 seconds a read finds *)
(* the bytes of the last one, and only the first read has to wait for the   *)
(* first interrupt.                                                        *)
(***************************************************************************)
ASSUME ExampleDriverAssumption == StopsBetweenReads \in BOOLEAN

\* The threads of the driver and of the application.  The token is sem_interrupted, the
\* periodic timer is timer_50ms, the other one timer_15seconds, and unclaimed are the
\* interrupts whose bytes have not been read.
Driver == Started[1]
App    == Started[2]

VARIABLE buffer  \* the number of bytes in the driver's buffer

driverVars == <<exVars, buffer>>

\* main up to its loop, with the constructors of driver and app
DriverInit ==
    /\ Opens(0)
    /\ pc = [t \in Thread |-> IF t = Driver THEN "take" ELSE "read"]
    /\ buffer = 0

-----------------------------------------------------------------------------
\* __recv_data_thread
DriverEntry ==
    \/ Takes(Driver, -1) /\ UNCHANGED buffer
    \/ /\ Looks(Driver)
       /\ buffer' = IF Got(Driver) THEN buffer + 1 ELSE buffer
       /\ UNCHANGED unclaimed

AppGoes(from, to) == Goes(App, from, to) /\ UNCHANGED callback

\* driver::read
Read(from) ==
    /\ AppGoes(from, "delay")
    /\ buffer' = 0
    /\ unclaimed' = unclaimed - buffer
    /\ UNCHANGED vars

\* Mutant: the loop is not polled when there is nothing to read.
WaitsForByteIdly == AppGoes("read", "test") /\ buffer = 0 /\ UNCHANGED vars

\* main_loop_poll, called by driver::read_block
WaitsForByte == AppGoes("read", "test") /\ buffer = 0 /\ Poll

\* _app_thread: read_block, which polls as long as there is no byte and the loop is
\* not empty, and then a second's delay
AppEntry ==
    \/ WaitsForByte /\ UNCHANGED <<buffer, unclaimed>>
    \/ ~LoopEmpty /\ AppGoes("test", "read") /\ UNCHANGED <<vars, buffer, unclaimed>>
    \/ LoopEmpty /\ Read("test")
    \/ buffer > 0 /\ Read("read")
    \/ AppGoes("delay", "read") /\ Delay(App, 0) /\ UNCHANGED <<buffer, unclaimed>>

\* __timer_callback_50ms and interrupt_service
Interrupts == PeriodCallback /\ UNCHANGED buffer

\* __timer_callback_15seconds
StopCallback ==
    /\ \/ (StopsBetweenReads => Len(stack) = 1) /\ StopFires
       \/ Stops
    /\ UNCHANGED buffer

DriverNext ==
    \/ DriverEntry \/ AppEntry
    \/ Interrupts \/ StopCallback
    \/ Returns /\ UNCHANGED buffer
    \/ LoopSteps /\ UNCHANGED <<program, buffer>>
    \/ Left /\ UNCHANGED driverVars

DriverSpec == DriverInit /\ [][DriverNext]_driverVars

(***************************************************************************)
(* The program goes on by itself; a delay, a tick and the time to the next *)
(* interrupt end.  Nothing is assumed of the 15 seconds.                   *)
(***************************************************************************)
DriverFairSpec ==
    /\ DriverSpec /\ WF_driverVars(DriverNext)
    /\ \A t \in Thread : SF_driverVars(Due(t) /\ UNCHANGED buffer)
    /\ SF_driverVars(TickEnds /\ UNCHANGED buffer) /\ SF_driverVars(Interrupts)

-----------------------------------------------------------------------------
(***************************************************************************)
(* Properties.                                                             *)
(***************************************************************************)

\* Every interrupt ends as one byte, in whichever poll the driver's thread and the
\* interrupt run, the one of main or the one inside a read.
BytesKept ==
    owner[Driver] => unclaimed = count[TheSem] + Cardinality(Handed) + buffer

\* A read has begun and not ended.
Reading == pc[App] \in {"read", "test"} /\ owner[App]

\* A read that polls its own loop gets its byte.
ReadsEnd == Reading ~> ~Reading
=============================================================================
