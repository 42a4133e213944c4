------------------------------- MODULE RWLock -------------------------------
(***************************************************************************)
(* The readers/writer lock of src/source/mutex.c, one of which guards the  *)
(* table and another the statistics.  A struct mutex_locks holds three     *)
(* counters, a pthread mutex m and a condition variable c.  The model has  *)
(* one step per access to the struct, so that the mutex, and not the       *)
(* grain of the model, is what makes the counters consistent.              *)
(*                                                                         *)
(* pthread_cond_wait releases m and sleeps in one step, and sleeps until a *)
(* broadcast or a spurious wakeup, after which it locks m again: a         *)
(* sleeping thread is one whose pc is in Sleeping.                         *)
(*                                                                         *)
(* writers_waiting is decremented by every enter_write and incremented     *)
(* nowhere.  It is an int of the build, so it wraps at INT_MIN.            *)
(***************************************************************************)
EXTENDS Integers, FiniteSets

CONSTANTS Threads,       \* the threads that share one lock
          NoThread,      \* holder of a free mutex
          INT_MIN,       \* least value of an int
          INT_MAX,       \* greatest value of an int
          MaxCalls       \* bound: enter calls each thread makes

ASSUME ThreadsAssumption == IsFiniteSet(Threads) /\ NoThread \notin Threads
ASSUME IntAssumption == /\ INT_MIN \in Int
                        /\ INT_MAX \in Nat
                        /\ INT_MIN =< 0
ASSUME MaxCallsAssumption == MaxCalls \in Nat

VARIABLES writers_waiting, readers_reading, writer_active,
          m,             \* the thread that holds the pthread mutex, or NoThread
          pc,            \* where each thread is in the four functions
          calls          \* enter calls each thread has made

vars == <<writers_waiting, readers_reading, writer_active, m, pc, calls>>

\* Where pthread_mutex_lock is pending, and where it leads.
Locking == {"r_lock", "w_lock", "xr_lock", "xw_lock"}
Locked == [l \in Locking |-> CASE l = "r_lock"  -> "r_test"
                               [] l = "w_lock"  -> "w_test"
                               [] l = "xr_lock" -> "xr_dec"
                               [] l = "xw_lock" -> "xw_clear"]

\* Where a thread holds m.
Holding == {"r_test", "r_count", "xr_dec", "xr_signal",
            "w_test", "w_set", "xw_clear", "xw_signal"}

\* Where pthread_cond_wait sleeps, and where a wakeup leads.
Sleeping == {"r_wait", "w_wait"}
Woken(l) == CASE l = "r_wait" -> "r_lock"
              [] l = "w_wait" -> "w_lock"
              [] OTHER -> l

PCs == {"idle", "reading", "writing"} \union Locking \union Holding \union Sleeping

TypeOK ==
    /\ writers_waiting \in INT_MIN..INT_MAX
    /\ readers_reading \in Nat
    /\ writer_active \in BOOLEAN
    /\ m \in Threads \union {NoThread}
    /\ pc \in [Threads -> PCs]
    /\ calls \in [Threads -> 0..MaxCalls]

Init ==
    /\ writers_waiting = 0
    /\ readers_reading = 0
    /\ writer_active = FALSE
    /\ m = NoThread
    /\ pc = [t \in Threads |-> "idle"]
    /\ calls = [t \in Threads |-> 0]

Goto(t, l) == pc' = [pc EXCEPT ![t] = l]

\* x-- on an int.
Decrement(x) == IF x = INT_MIN THEN INT_MAX ELSE x - 1

-----------------------------------------------------------------------------
\* Mutants: a loop condition without one of its disjuncts.
ReaderIgnoresWriter == writers_waiting > 0
WriterIgnoresReaders == writer_active

\* The loop conditions of enter_read and enter_write.
ReaderMustWait == writers_waiting > 0 \/ writer_active
WriterMustWait == readers_reading > 0 \/ writer_active

\* pthread_mutex_lock, at the head of a function or inside cond_wait.
Lock(t) ==
    /\ pc[t] \in Locking
    /\ m = NoThread
    /\ m' = t
    /\ Goto(t, Locked[pc[t]])
    /\ UNCHANGED <<writers_waiting, readers_reading, writer_active, calls>>

\* Mutant: pthread_cond_signal in its place.
SignalAndUnlock(t) ==
    /\ \E w \in Threads :
          /\ pc[w] \in Sleeping \/ \A u \in Threads : pc[u] \notin Sleeping
          /\ pc' = [u \in Threads |-> IF u = t THEN "idle"
                                     ELSE IF u = w THEN Woken(pc[u]) ELSE pc[u]]
    /\ m' = NoThread

\* pthread_cond_broadcast followed by pthread_mutex_unlock, by thread t.
BroadcastAndUnlock(t) ==
    /\ pc' = [u \in Threads |-> IF u = t THEN "idle" ELSE Woken(pc[u])]
    /\ m' = NoThread

\* pthread_cond_wait may return without a broadcast.
SpuriousWakeup(t) ==
    /\ pc[t] \in Sleeping
    /\ Goto(t, Woken(pc[t]))
    /\ UNCHANGED <<writers_waiting, readers_reading, writer_active, m, calls>>

-----------------------------------------------------------------------------
\* enter_read
CallRead(t) ==
    /\ pc[t] = "idle"
    /\ calls[t] < MaxCalls
    /\ calls' = [calls EXCEPT ![t] = @ + 1]
    /\ Goto(t, "r_lock")
    /\ UNCHANGED <<writers_waiting, readers_reading, writer_active, m>>

ReadSleep(t) ==
    /\ pc[t] = "r_test"
    /\ ReaderMustWait
    /\ m' = NoThread
    /\ Goto(t, "r_wait")
    /\ UNCHANGED <<writers_waiting, readers_reading, writer_active, calls>>

ReadPass(t) ==
    /\ pc[t] = "r_test"
    /\ ~ReaderMustWait
    /\ Goto(t, "r_count")
    /\ UNCHANGED <<writers_waiting, readers_reading, writer_active, m, calls>>

\* Mutants: the reader is not counted; only one reader is counted.
ReadUncounted(t) ==
    /\ pc[t] = "r_count"
    /\ m' = NoThread
    /\ Goto(t, "reading")
    /\ UNCHANGED <<writers_waiting, readers_reading, writer_active, calls>>

ReadMarks(t) ==
    /\ pc[t] = "r_count"
    /\ readers_reading' = 1
    /\ m' = NoThread
    /\ Goto(t, "reading")
    /\ UNCHANGED <<writers_waiting, writer_active, calls>>

ReadCount(t) ==
    /\ pc[t] = "r_count"
    /\ readers_reading' = readers_reading + 1
    /\ m' = NoThread
    /\ Goto(t, "reading")
    /\ UNCHANGED <<writers_waiting, writer_active, calls>>

\* exit_read
LeaveRead(t) ==
    /\ pc[t] = "reading"
    /\ Goto(t, "xr_lock")
    /\ UNCHANGED <<writers_waiting, readers_reading, writer_active, m, calls>>

ReadUncount(t) ==
    /\ pc[t] = "xr_dec"
    /\ readers_reading' = readers_reading - 1
    /\ Goto(t, "xr_signal")
    /\ UNCHANGED <<writers_waiting, writer_active, m, calls>>

\* Mutant: the last reader does not broadcast.
LastReaderSilent(t) ==
    /\ pc[t] = "xr_signal"
    /\ readers_reading = 0
    /\ m' = NoThread
    /\ Goto(t, "idle")
    /\ UNCHANGED <<writers_waiting, readers_reading, writer_active, calls>>

LastReaderSignals(t) ==
    /\ pc[t] = "xr_signal"
    /\ readers_reading = 0
    /\ BroadcastAndUnlock(t)
    /\ UNCHANGED <<writers_waiting, readers_reading, writer_active, calls>>

OtherReaderUnlocks(t) ==
    /\ pc[t] = "xr_signal"
    /\ readers_reading # 0
    /\ m' = NoThread
    /\ Goto(t, "idle")
    /\ UNCHANGED <<writers_waiting, readers_reading, writer_active, calls>>

-----------------------------------------------------------------------------
\* enter_write
CallWrite(t) ==
    /\ pc[t] = "idle"
    /\ calls[t] < MaxCalls
    /\ calls' = [calls EXCEPT ![t] = @ + 1]
    /\ Goto(t, "w_lock")
    /\ UNCHANGED <<writers_waiting, readers_reading, writer_active, m>>

WriteSleep(t) ==
    /\ pc[t] = "w_test"
    /\ WriterMustWait
    /\ m' = NoThread
    /\ Goto(t, "w_wait")
    /\ UNCHANGED <<writers_waiting, readers_reading, writer_active, calls>>

WritePass(t) ==
    /\ pc[t] = "w_test"
    /\ ~WriterMustWait
    /\ Goto(t, "w_set")
    /\ UNCHANGED <<writers_waiting, readers_reading, writer_active, m, calls>>

WriteSet(t) ==
    /\ pc[t] = "w_set"
    /\ writer_active' = TRUE
    /\ writers_waiting' = Decrement(writers_waiting)
    /\ m' = NoThread
    /\ Goto(t, "writing")
    /\ UNCHANGED <<readers_reading, calls>>

\* exit_write
LeaveWrite(t) ==
    /\ pc[t] = "writing"
    /\ Goto(t, "xw_lock")
    /\ UNCHANGED <<writers_waiting, readers_reading, writer_active, m, calls>>

WriteClear(t) ==
    /\ pc[t] = "xw_clear"
    /\ writer_active' = FALSE
    /\ Goto(t, "xw_signal")
    /\ UNCHANGED <<writers_waiting, readers_reading, m, calls>>

WriterSignals(t) ==
    /\ pc[t] = "xw_signal"
    /\ BroadcastAndUnlock(t)
    /\ UNCHANGED <<writers_waiting, readers_reading, writer_active, calls>>

-----------------------------------------------------------------------------
Call(t) == CallRead(t) \/ CallWrite(t)
EnterRead(t) == ReadSleep(t) \/ ReadPass(t) \/ ReadCount(t)
ExitRead(t) == LeaveRead(t) \/ ReadUncount(t) \/ LastReaderSignals(t) \/ OtherReaderUnlocks(t)
EnterWrite(t) == WriteSleep(t) \/ WritePass(t) \/ WriteSet(t)
ExitWrite(t) == LeaveWrite(t) \/ WriteClear(t) \/ WriterSignals(t)

\* What the code itself does once a call is made.
Run(t) == EnterRead(t) \/ ExitRead(t) \/ EnterWrite(t) \/ ExitWrite(t)

\* All the calls of the bound are made and have returned.
Done ==
    /\ \A t \in Threads : pc[t] = "idle" /\ calls[t] = MaxCalls
    /\ UNCHANGED vars

Next == \/ \E t \in Threads : \/ Call(t)
                              \/ Lock(t)
                              \/ Run(t)
                              \/ SpuriousWakeup(t)
        \/ Done

Spec == Init /\ [][Next]_vars

\* The scheduler runs every thread that can run, and a mutex that is free
\* again and again is eventually given to a thread that waits for it.
\* Nothing obliges a thread to call, or the library to wake one spuriously.
Fairness == \A t \in Threads : WF_vars(Run(t)) /\ SF_vars(Lock(t))

FairSpec == Spec /\ Fairness
-----------------------------------------------------------------------------
\* Who is inside, for the callers: enter has returned and exit is not called.
Readers == {t \in Threads : pc[t] = "reading"}
Writers == {t \in Threads : pc[t] = "writing"}

\* Who the counters count.
CountedReaders == {t \in Threads : pc[t] \in {"reading", "xr_lock", "xr_dec"}}
ActiveWriters  == {t \in Threads : pc[t] \in {"writing", "xw_lock", "xw_clear"}}

\* A writer is inside alone, from the return of enter_write to the call of
\* exit_write: the promise the table and the statistics rest on.
MutualExclusion == /\ \A t, u \in Writers : t = u
                   /\ Writers # {} => Readers = {}

\* readers_reading and writer_active describe exactly the threads inside,
\* although each of them is read and written in different steps.
CountersExact == /\ readers_reading = Cardinality(CountedReaders)
                 /\ writer_active <=> ActiveWriters # {}

\* A broadcast the holder of m is about to make.
BroadcastPending == \E t \in Threads : \/ pc[t] = "xw_signal"
                                       \/ pc[t] = "xr_signal" /\ readers_reading = 0

\* No wakeup is lost: when a thread sleeps in pthread_cond_wait, the condition
\* of its loop still holds or a broadcast that will wake it is under way.
NoLostWakeup ==
    \A t \in Threads :
        /\ pc[t] = "r_wait" => ReaderMustWait \/ BroadcastPending
        /\ pc[t] = "w_wait" => WriterMustWait \/ BroadcastPending

Abstract == INSTANCE RWExclusion WITH readers <- Readers, writers <- Writers

\* The lock implements readers/writer exclusion.
Exclusion == Abstract!Spec

\* As long as the callers leave again (and, within the bound, stop calling),
\* every enter and exit returns: no deadlock and no thread asleep for ever.
EveryCallReturns ==
    \A t \in Threads : pc[t] \notin {"idle", "reading", "writing"}
                         ~> pc[t] \in {"idle", "reading", "writing"}
=============================================================================
