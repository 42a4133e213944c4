---------------------------- MODULE RWLock_proof ----------------------------
(***************************************************************************)
(* Proofs about RWLock, for any finite set of threads, any width of int    *)
(* and any bound on the calls.  The inductive invariant IInv adds to the   *)
(* properties who holds the mutex (MutexInv) and what a thread that has    *)
(* passed its test still relies on when it counts itself in (TestedInv).   *)
(***************************************************************************)
EXTENDS RWLock, FiniteSetTheorems, TLAPS

\* The thread in a critical section of mutex.c, and no other, holds m.
MutexInv == \A t \in Threads : pc[t] \in Holding <=> m = t

\* What enter_read and enter_write tested holds until they act on it.
TestedInv == \A t \in Threads :
    /\ pc[t] = "r_count" => ActiveWriters = {}
    /\ pc[t] = "w_set"   => ActiveWriters = {} /\ CountedReaders = {}

\* The threads the counters count exclude each other.
CountedInv == /\ \A t, u \in ActiveWriters : t = u
              /\ ActiveWriters # {} => CountedReaders = {}

IInv == TypeOK /\ MutexInv /\ TestedInv /\ CountedInv /\ CountersExact /\ NoLostWakeup

-----------------------------------------------------------------------------
\* Where a thread that gets the mutex continues.
LEMMA LockedValues ==
    /\ Locked["r_lock"] = "r_test"
    /\ Locked["w_lock"] = "w_test"
    /\ Locked["xr_lock"] = "xr_dec"
    /\ Locked["xw_lock"] = "xw_clear"
BY DEF Locked, Locking

\* A broadcast moves the sleeping threads, to wait for the mutex, and no other.
LEMMA WokenValues ==
    /\ Woken("r_wait") = "r_lock"
    /\ Woken("w_wait") = "w_lock"
    /\ \A l \in PCs \ Sleeping : Woken(l) = l
BY DEF Woken, Sleeping

\* readers_reading is zero exactly when no reader is counted.
LEMMA ReadersCounted ==
    ASSUME CountersExact
    PROVE  /\ readers_reading \in Nat
           /\ readers_reading = 0 <=> CountedReaders = {}
           /\ IsFiniteSet(CountedReaders)
<1>1. IsFiniteSet(CountedReaders)
    BY ThreadsAssumption, FS_Subset DEF ThreadsAssumption, CountedReaders
<1> QED
    BY <1>1, FS_CardinalityType, FS_EmptySet DEF CountersExact

\* Every thread is at a location of mutex.c or of its caller, and the counters
\* keep their types.
LEMMA TypeStep == TypeOK /\ CountersExact /\ [Next]_vars => TypeOK'
<1> SUFFICES ASSUME TypeOK, CountersExact, [Next]_vars PROVE TypeOK'
    OBVIOUS
<1> USE ThreadsAssumption, IntAssumption, MaxCallsAssumption
      DEF ThreadsAssumption, IntAssumption, MaxCallsAssumption
<1>1. ASSUME NEW t \in Threads, Call(t) PROVE TypeOK'
    BY <1>1 DEF Call, CallRead, CallWrite, Goto, TypeOK, PCs, Locking
<1>2. ASSUME NEW t \in Threads, Lock(t) PROVE TypeOK'
    BY <1>2, LockedValues DEF Lock, Goto, TypeOK, PCs, Holding, Locking
<1>3. ASSUME NEW t \in Threads, EnterRead(t) PROVE TypeOK'
    BY <1>3 DEF EnterRead, ReadSleep, ReadPass, ReadCount, Goto, TypeOK, PCs, Holding, Sleeping
<1>4. ASSUME NEW t \in Threads, EnterWrite(t) PROVE TypeOK'
    <2>1. Decrement(writers_waiting) \in INT_MIN..INT_MAX
        BY DEF Decrement, TypeOK
    <2> QED
        BY <1>4, <2>1 DEF EnterWrite, WriteSleep, WritePass, WriteSet, Goto, TypeOK, PCs, Holding, Sleeping
<1>5. ASSUME NEW t \in Threads, BroadcastAndUnlock(t)
      PROVE m' \in Threads \union {NoThread} /\ pc' \in [Threads -> PCs]
    <2>1. \A u \in Threads : Woken(pc[u]) \in PCs
        BY WokenValues DEF TypeOK, PCs, Sleeping, Locking
    <2> QED
        BY <1>5, <2>1 DEF BroadcastAndUnlock, PCs
<1>6. ASSUME NEW t \in Threads, ExitRead(t) PROVE TypeOK'
    <2>1. CASE LastReaderSignals(t)
        BY <1>5, <2>1 DEF LastReaderSignals, TypeOK
    <2>2. CASE ReadUncount(t)
        <3>1. t \in CountedReaders
            BY <2>2 DEF ReadUncount, CountedReaders
        <3>2. readers_reading \in Nat \ {0}
            BY <3>1, ReadersCounted
        <3> QED
            BY <2>2, <3>2 DEF ReadUncount, Goto, TypeOK, PCs, Holding
    <2> QED
        BY <1>6, <2>1, <2>2 DEF ExitRead, LeaveRead, OtherReaderUnlocks, Goto, TypeOK, PCs, Holding, Locking
<1>7. ASSUME NEW t \in Threads, ExitWrite(t) PROVE TypeOK'
    <2>1. CASE WriterSignals(t)
        BY <1>5, <2>1 DEF WriterSignals, TypeOK
    <2> QED
        BY <1>7, <2>1 DEF ExitWrite, LeaveWrite, WriteClear, Goto, TypeOK, PCs, Holding, Locking
<1>8. ASSUME NEW t \in Threads, SpuriousWakeup(t) PROVE TypeOK'
    BY <1>8, WokenValues DEF SpuriousWakeup, Goto, TypeOK, PCs, Sleeping, Locking
<1>9. CASE UNCHANGED vars
    BY <1>9 DEF vars, TypeOK
<1> QED
    BY <1>1, <1>2, <1>3, <1>4, <1>6, <1>7, <1>8, <1>9 DEF Next, Run, Done

-----------------------------------------------------------------------------
\* m is held by exactly the thread that is in a critical section of mutex.c.
LEMMA MutexStep == TypeOK /\ MutexInv /\ [Next]_vars => MutexInv'
<1> SUFFICES ASSUME TypeOK, MutexInv, [Next]_vars PROVE MutexInv'
    OBVIOUS
<1> USE ThreadsAssumption DEF ThreadsAssumption
<1>1. ASSUME NEW t \in Threads, Call(t) \/ SpuriousWakeup(t) PROVE MutexInv'
    BY <1>1, WokenValues
    DEF Call, CallRead, CallWrite, SpuriousWakeup, Goto, TypeOK, MutexInv, Holding, Sleeping
<1>2. ASSUME NEW t \in Threads, Lock(t) PROVE MutexInv'
    BY <1>2, LockedValues DEF Lock, Goto, TypeOK, MutexInv, Holding, Locking
<1>3. ASSUME NEW t \in Threads, EnterRead(t) PROVE MutexInv'
    BY <1>3 DEF EnterRead, ReadSleep, ReadPass, ReadCount, Goto, TypeOK, MutexInv, Holding
<1>4. ASSUME NEW t \in Threads, EnterWrite(t) PROVE MutexInv'
    BY <1>4 DEF EnterWrite, WriteSleep, WritePass, WriteSet, Goto, TypeOK, MutexInv, Holding
<1>5. ASSUME NEW t \in Threads, pc[t] \in Holding, BroadcastAndUnlock(t)
      PROVE MutexInv'
    <2>1. \A u \in Threads : Woken(pc[u]) \in Holding <=> pc[u] \in Holding
        BY WokenValues DEF TypeOK, PCs, Sleeping, Holding
    <2>2. m = t /\ m' = NoThread
        BY <1>5 DEF MutexInv, BroadcastAndUnlock
    <2>3. ASSUME NEW u \in Threads PROVE pc'[u] \notin Holding
        BY <1>5, <2>1, <2>2 DEF BroadcastAndUnlock, MutexInv, Holding
    <2> QED
        BY <2>2, <2>3 DEF MutexInv
<1>6. ASSUME NEW t \in Threads, ExitRead(t) PROVE MutexInv'
    <2>1. CASE LastReaderSignals(t)
        BY <1>5, <2>1 DEF LastReaderSignals, Holding
    <2> QED
        BY <1>6, <2>1
        DEF ExitRead, LeaveRead, ReadUncount, OtherReaderUnlocks, Goto, TypeOK, MutexInv, Holding
<1>7. ASSUME NEW t \in Threads, ExitWrite(t) PROVE MutexInv'
    <2>1. CASE WriterSignals(t)
        BY <1>5, <2>1 DEF WriterSignals, Holding
    <2> QED
        BY <1>7, <2>1
        DEF ExitWrite, LeaveWrite, WriteClear, Goto, TypeOK, MutexInv, Holding
<1>8. CASE UNCHANGED vars
    BY <1>8 DEF vars, MutexInv
<1> QED
    BY <1>1, <1>2, <1>3, <1>4, <1>6, <1>7, <1>8 DEF Next, Run, Done

-----------------------------------------------------------------------------
\* A step that moves no thread in or out of a count, and leaves the counters
\* alone, leaves what the counters say alone.
LEMMA SameCounts ==
    ASSUME CountedInv, CountersExact,
           CountedReaders' = CountedReaders, ActiveWriters' = ActiveWriters,
           UNCHANGED <<readers_reading, writer_active>>
    PROVE  CountedInv' /\ CountersExact'
BY DEF CountedInv, CountersExact

\* The four steps of mutex.c that change a counter count the thread that
\* takes them in or out, and no other step moves a thread in or out.
LEMMA CountStep ==
    TypeOK /\ MutexInv /\ TestedInv /\ CountedInv /\ CountersExact /\ [Next]_vars
        => CountedInv' /\ CountersExact'
<1> SUFFICES ASSUME TypeOK, MutexInv, TestedInv, CountedInv, CountersExact, [Next]_vars
             PROVE  CountedInv' /\ CountersExact'
    OBVIOUS
<1>1. ASSUME NEW t \in Threads, ReadCount(t) PROVE CountedInv' /\ CountersExact'
    <2>1. CountedReaders' = CountedReaders \union {t} /\ t \notin CountedReaders
        BY <1>1 DEF ReadCount, Goto, TypeOK, CountedReaders
    <2>2. ActiveWriters' = ActiveWriters /\ ActiveWriters = {}
        BY <1>1 DEF ReadCount, Goto, TypeOK, ActiveWriters, TestedInv
    <2>3. Cardinality(CountedReaders') = Cardinality(CountedReaders) + 1
        BY <2>1, ReadersCounted, FS_AddElement
    <2> QED
        BY <1>1, <2>2, <2>3 DEF ReadCount, CountedInv, CountersExact
<1>2. ASSUME NEW t \in Threads, ReadUncount(t) PROVE CountedInv' /\ CountersExact'
    <2>1. CountedReaders' = CountedReaders \ {t} /\ t \in CountedReaders
        BY <1>2 DEF ReadUncount, Goto, TypeOK, CountedReaders
    <2>2. ActiveWriters' = ActiveWriters
        BY <1>2 DEF ReadUncount, Goto, TypeOK, ActiveWriters
    <2>3. Cardinality(CountedReaders') = Cardinality(CountedReaders) - 1
        BY <2>1, ReadersCounted, FS_RemoveElement
    <2> QED
        BY <1>2, <2>1, <2>2, <2>3 DEF ReadUncount, CountedInv, CountersExact
<1>3. ASSUME NEW t \in Threads, WriteSet(t) PROVE CountedInv' /\ CountersExact'
    <2>1. ActiveWriters' = {t}
        BY <1>3 DEF WriteSet, Goto, TypeOK, ActiveWriters, TestedInv
    <2>2. CountedReaders' = CountedReaders /\ CountedReaders = {}
        BY <1>3 DEF WriteSet, Goto, TypeOK, CountedReaders, TestedInv
    <2> QED
        BY <1>3, <2>1, <2>2 DEF WriteSet, CountedInv, CountersExact
<1>4. ASSUME NEW t \in Threads, WriteClear(t) PROVE CountedInv' /\ CountersExact'
    <2>1. ActiveWriters' = {}
        BY <1>4 DEF WriteClear, Goto, TypeOK, ActiveWriters, CountedInv
    <2>2. CountedReaders' = CountedReaders
        BY <1>4 DEF WriteClear, Goto, TypeOK, CountedReaders
    <2> QED
        BY <1>4, <2>1, <2>2 DEF WriteClear, CountedInv, CountersExact
<1>5. ASSUME NEW t \in Threads, BroadcastAndUnlock(t), pc[t] \in {"xr_signal", "xw_signal"}
      PROVE CountedReaders' = CountedReaders /\ ActiveWriters' = ActiveWriters
    <2>1. \A u \in Threads : pc[u] \in Sleeping => Woken(pc[u]) \in {"r_lock", "w_lock"}
        BY WokenValues DEF Sleeping
    <2>2. \A u \in Threads : pc[u] \notin Sleeping => Woken(pc[u]) = pc[u]
        BY WokenValues DEF TypeOK
    <2> QED
        BY <1>5, <2>1, <2>2 DEF BroadcastAndUnlock, CountedReaders, ActiveWriters, Sleeping
<1>6. ASSUME NEW t \in Threads, LastReaderSignals(t) \/ WriterSignals(t)
      PROVE CountedInv' /\ CountersExact'
    BY <1>5, <1>6, SameCounts DEF LastReaderSignals, WriterSignals
<1>7. ASSUME NEW t \in Threads, Lock(t) PROVE CountedInv' /\ CountersExact'
    <2>1. CountedReaders' = CountedReaders /\ ActiveWriters' = ActiveWriters
        BY <1>7, LockedValues DEF Lock, Goto, TypeOK, CountedReaders, ActiveWriters, Locking
    <2> QED
        BY <1>7, <2>1, SameCounts DEF Lock
<1>8. ASSUME NEW t \in Threads, SpuriousWakeup(t) PROVE CountedInv' /\ CountersExact'
    <2>1. CountedReaders' = CountedReaders /\ ActiveWriters' = ActiveWriters
        BY <1>8, WokenValues DEF SpuriousWakeup, Goto, TypeOK, CountedReaders, ActiveWriters, Sleeping
    <2> QED
        BY <1>8, <2>1, SameCounts DEF SpuriousWakeup
<1>9. ASSUME NEW t \in Threads,
             CallRead(t) \/ ReadSleep(t) \/ ReadPass(t) \/ LeaveRead(t) \/ OtherReaderUnlocks(t)
      PROVE CountedInv' /\ CountersExact'
    <2>1. CountedReaders' = CountedReaders /\ ActiveWriters' = ActiveWriters
        BY <1>9 DEF CallRead, ReadSleep, ReadPass, LeaveRead, OtherReaderUnlocks,
                    Goto, TypeOK, CountedReaders, ActiveWriters
    <2> QED
        BY <1>9, <2>1, SameCounts DEF CallRead, ReadSleep, ReadPass, LeaveRead, OtherReaderUnlocks
<1>10. ASSUME NEW t \in Threads,
              CallWrite(t) \/ WriteSleep(t) \/ WritePass(t) \/ LeaveWrite(t)
      PROVE CountedInv' /\ CountersExact'
    <2>1. CountedReaders' = CountedReaders /\ ActiveWriters' = ActiveWriters
        BY <1>10 DEF CallWrite, WriteSleep, WritePass, LeaveWrite,
                     Goto, TypeOK, CountedReaders, ActiveWriters
    <2> QED
        BY <1>10, <2>1, SameCounts DEF CallWrite, WriteSleep, WritePass, LeaveWrite
<1>11. CASE UNCHANGED vars
    BY <1>11, SameCounts DEF vars, CountedReaders, ActiveWriters
<1> QED
    BY <1>1, <1>2, <1>3, <1>4, <1>6, <1>7, <1>8, <1>9, <1>10, <1>11
    DEF Next, Call, Run, EnterRead, ExitRead, EnterWrite, ExitWrite, Done

-----------------------------------------------------------------------------
\* Two threads are never in critical sections of mutex.c together.
LEMMA OneHolder ==
    ASSUME MutexInv, NEW t \in Threads, NEW u \in Threads,
           pc[t] \in Holding, pc[u] \in Holding
    PROVE  t = u
BY DEF MutexInv

\* Only ReadCount counts a reader in and only WriteSet a writer.
LEMMA CountsGrow ==
    ASSUME TypeOK, NEW t \in Threads,
           Call(t) \/ Lock(t) \/ SpuriousWakeup(t) \/ Run(t)
    PROVE  /\ ~ReadCount(t) => CountedReaders' \subseteq CountedReaders
           /\ ~WriteSet(t)  => ActiveWriters' \subseteq ActiveWriters
<1>1. CASE Call(t)
    BY <1>1 DEF Call, CallRead, CallWrite, Goto, TypeOK, CountedReaders, ActiveWriters
<1>2. CASE Lock(t)
    BY <1>2, LockedValues DEF Lock, Goto, TypeOK, Locking, CountedReaders, ActiveWriters
<1>3. CASE SpuriousWakeup(t)
    BY <1>3, WokenValues DEF SpuriousWakeup, Goto, TypeOK, Sleeping, CountedReaders, ActiveWriters
<1>4. ASSUME BroadcastAndUnlock(t)
      PROVE CountedReaders' \subseteq CountedReaders /\ ActiveWriters' \subseteq ActiveWriters
    <2>1. \A u \in Threads : pc[u] \in Sleeping => Woken(pc[u]) \in {"r_lock", "w_lock"}
        BY WokenValues DEF Sleeping
    <2>2. \A u \in Threads : pc[u] \notin Sleeping => Woken(pc[u]) = pc[u]
        BY WokenValues DEF TypeOK
    <2> QED
        BY <1>4, <2>1, <2>2 DEF BroadcastAndUnlock, CountedReaders, ActiveWriters
<1>5. CASE EnterRead(t) \/ ExitRead(t)
    BY <1>4, <1>5 DEF EnterRead, ExitRead, ReadSleep, ReadPass, ReadCount, LeaveRead, ReadUncount,
                      LastReaderSignals, OtherReaderUnlocks, Goto, TypeOK,
                      CountedReaders, ActiveWriters
<1>6. CASE EnterWrite(t) \/ ExitWrite(t)
    BY <1>4, <1>6 DEF EnterWrite, ExitWrite, WriteSleep, WritePass, WriteSet, LeaveWrite,
                      WriteClear, WriterSignals, Goto, TypeOK, CountedReaders, ActiveWriters
<1> QED
    BY <1>1, <1>2, <1>3, <1>5, <1>6 DEF Run

\* Only the tests of the two loops take a thread to r_count or to w_set.
LEMMA TestedBy ==
    ASSUME TypeOK, NEW t \in Threads, NEW u \in Threads,
           Call(t) \/ Lock(t) \/ SpuriousWakeup(t) \/ Run(t)
    PROVE  /\ pc'[u] = "r_count" => pc[u] = "r_count" \/ (u = t /\ ReadPass(t))
           /\ pc'[u] = "w_set"   => pc[u] = "w_set" \/ (u = t /\ WritePass(t))
           /\ pc'[u] \in {"r_count", "w_set"} => (~ReadCount(t) /\ ~WriteSet(t)) \/ u # t
<1>1. CASE Call(t)
    BY <1>1 DEF Call, CallRead, CallWrite, Goto, TypeOK, ReadCount, WriteSet
<1>2. CASE Lock(t)
    BY <1>2, LockedValues DEF Lock, Goto, TypeOK, Locking, ReadCount, WriteSet
<1>3. CASE SpuriousWakeup(t)
    BY <1>3, WokenValues DEF SpuriousWakeup, Goto, TypeOK, Sleeping, ReadCount, WriteSet
<1>4. ASSUME BroadcastAndUnlock(t), pc'[u] \in {"r_count", "w_set"} PROVE u # t /\ pc'[u] = pc[u]
    <2>1. u # t /\ pc'[u] = Woken(pc[u])
        BY <1>4 DEF BroadcastAndUnlock
    <2> QED
        BY <1>4, <2>1, WokenValues DEF TypeOK, Sleeping
<1>5. CASE EnterRead(t) \/ ExitRead(t)
    BY <1>4, <1>5 DEF EnterRead, ExitRead, ReadSleep, ReadPass, ReadCount, LeaveRead, ReadUncount,
                      LastReaderSignals, OtherReaderUnlocks, Goto, TypeOK, WriteSet
<1>6. CASE EnterWrite(t) \/ ExitWrite(t)
    BY <1>4, <1>6 DEF EnterWrite, ExitWrite, WriteSleep, WritePass, WriteSet, LeaveWrite,
                      WriteClear, WriterSignals, Goto, TypeOK, ReadCount
<1> QED
    BY <1>1, <1>2, <1>3, <1>5, <1>6 DEF Run

\* What a loop tested stays true until its thread acts on it, because the
\* thread holds m and every step that counts a thread in needs m.
LEMMA TestedStep ==
    TypeOK /\ MutexInv /\ TestedInv /\ CountersExact /\ [Next]_vars => TestedInv'
<1> SUFFICES ASSUME TypeOK, MutexInv, TestedInv, CountersExact, [Next]_vars PROVE TestedInv'
    OBVIOUS
<1>1. ASSUME NEW t \in Threads, Call(t) \/ Lock(t) \/ SpuriousWakeup(t) \/ Run(t),
             NEW u \in Threads
      PROVE /\ pc'[u] = "r_count" => ActiveWriters' = {}
            /\ pc'[u] = "w_set"   => ActiveWriters' = {} /\ CountedReaders' = {}
    <2>1. ASSUME pc'[u] \in {"r_count", "w_set"} PROVE ~ReadCount(t) /\ ~WriteSet(t)
        <3>1. ASSUME pc[t] \in Holding, u # t, pc[u] \in Holding PROVE FALSE
            BY <3>1, OneHolder
        <3> QED
            BY <1>1, <2>1, <3>1, TestedBy DEF ReadCount, WriteSet, Holding
    <2>2. ASSUME ReadPass(t) PROVE ActiveWriters = {}
        BY <2>2 DEF ReadPass, ReaderMustWait, CountersExact
    <2>3. ASSUME WritePass(t) PROVE ActiveWriters = {} /\ CountedReaders = {}
        <3>1. readers_reading = 0
            BY <2>3, ReadersCounted DEF WritePass, WriterMustWait
        <3> QED
            BY <2>3, <3>1, ReadersCounted DEF WritePass, WriterMustWait, CountersExact
    <2>4. ASSUME pc'[u] = "r_count" PROVE ActiveWriters' = {}
        BY <1>1, <2>1, <2>2, <2>4, TestedBy, CountsGrow DEF TestedInv
    <2>5. ASSUME pc'[u] = "w_set" PROVE ActiveWriters' = {} /\ CountedReaders' = {}
        BY <1>1, <2>1, <2>3, <2>5, TestedBy, CountsGrow DEF TestedInv
    <2> QED
        BY <2>4, <2>5
<1>2. CASE UNCHANGED vars
    BY <1>2 DEF vars, TestedInv, ActiveWriters, CountedReaders
<1> QED
    BY <1>1, <1>2 DEF Next, Done, TestedInv

-----------------------------------------------------------------------------
\* A thread goes to sleep only when its loop makes it wait.
LEMMA SleepsWhenTested ==
    ASSUME TypeOK, NEW t \in Threads, NEW u \in Threads,
           Call(t) \/ Lock(t) \/ SpuriousWakeup(t) \/ EnterRead(t) \/ EnterWrite(t)
    PROVE  /\ pc'[u] = "r_wait" => pc[u] = "r_wait" \/ ReadSleep(t)
           /\ pc'[u] = "w_wait" => pc[u] = "w_wait" \/ WriteSleep(t)
<1>1. CASE Call(t)
    BY <1>1 DEF Call, CallRead, CallWrite, Goto, TypeOK
<1>2. CASE Lock(t)
    BY <1>2, LockedValues DEF Lock, Goto, TypeOK, Locking
<1>3. CASE SpuriousWakeup(t)
    BY <1>3, WokenValues DEF SpuriousWakeup, Goto, TypeOK, Sleeping
<1>4. CASE EnterRead(t)
    BY <1>4 DEF EnterRead, ReadSleep, ReadPass, ReadCount, Goto, TypeOK
<1>5. CASE EnterWrite(t)
    BY <1>5 DEF EnterWrite, WriteSleep, WritePass, WriteSet, Goto, TypeOK
<1> QED
    BY <1>1, <1>2, <1>3, <1>4, <1>5

\* The thread that makes a waiting condition false is the one that broadcasts,
\* and it still holds m when it does.
LEMMA WakeupStep ==
    TypeOK /\ MutexInv /\ CountersExact /\ CountersExact' /\ NoLostWakeup /\ [Next]_vars
        => NoLostWakeup'
<1> SUFFICES ASSUME TypeOK, MutexInv, CountersExact, CountersExact', NoLostWakeup, [Next]_vars
             PROVE  NoLostWakeup'
    OBVIOUS
<1>1. ASSUME NEW t \in Threads,
             Call(t) \/ Lock(t) \/ SpuriousWakeup(t) \/ EnterRead(t) \/ EnterWrite(t)
      PROVE  NoLostWakeup'
    <2>1. BroadcastPending => BroadcastPending'
        <3>1. ASSUME NEW u \in Threads,
                     pc[u] = "xw_signal" \/ (pc[u] = "xr_signal" /\ readers_reading = 0)
              PROVE  pc'[u] = pc[u] /\ readers_reading' = readers_reading
            <4>1. pc[u] \in Holding /\ m = u
                BY <3>1 DEF Holding, MutexInv
            <4>2. CASE pc[t] \in Holding
                BY <1>1, <3>1, <4>1, <4>2, OneHolder
                DEF Call, CallRead, CallWrite, Lock, SpuriousWakeup, EnterRead, EnterWrite,
                    ReadSleep, ReadPass, ReadCount, WriteSleep, WritePass, WriteSet,
                    Locking, Sleeping, Holding
            <4>3. CASE pc[t] \notin Holding
                BY <1>1, <3>1, <4>1, <4>3, ThreadsAssumption
                DEF Call, CallRead, CallWrite, Lock, SpuriousWakeup, EnterRead, EnterWrite,
                    ReadSleep, ReadPass, ReadCount, WriteSleep, WritePass, WriteSet,
                    Goto, TypeOK, Holding, ThreadsAssumption
            <4> QED
                BY <4>2, <4>3
        <3>2. ASSUME BroadcastPending PROVE BroadcastPending'
            <4>1. PICK u \in Threads : pc[u] = "xw_signal" \/ (pc[u] = "xr_signal" /\ readers_reading = 0)
                BY <3>2 DEF BroadcastPending
            <4> QED
                BY <3>1, <4>1 DEF BroadcastPending
        <3> QED
            BY <3>2
    <2>2. ReaderMustWait => ReaderMustWait'
        BY <1>1 DEF ReaderMustWait, Call, CallRead, CallWrite, Lock, SpuriousWakeup,
                    EnterRead, EnterWrite, ReadSleep, ReadPass, ReadCount,
                    WriteSleep, WritePass, WriteSet
    <2>3. WriterMustWait => WriterMustWait'
        BY <1>1, ReadersCounted
        DEF WriterMustWait, Call, CallRead, CallWrite, Lock, SpuriousWakeup,
            EnterRead, EnterWrite, ReadSleep, ReadPass, ReadCount,
            WriteSleep, WritePass, WriteSet
    <2>4. ASSUME NEW u \in Threads, pc'[u] = "r_wait"
          PROVE  ReaderMustWait' \/ BroadcastPending'
        <3>1. ReadSleep(t) => ReaderMustWait'
            BY <2>2 DEF ReadSleep
        <3> QED
            BY <1>1, <2>1, <2>2, <2>4, <3>1, SleepsWhenTested DEF NoLostWakeup
    <2>5. ASSUME NEW u \in Threads, pc'[u] = "w_wait"
          PROVE  WriterMustWait' \/ BroadcastPending'
        <3>1. WriteSleep(t) => WriterMustWait'
            BY <2>3 DEF WriteSleep
        <3> QED
            BY <1>1, <2>1, <2>3, <2>5, <3>1, SleepsWhenTested DEF NoLostWakeup
    <2> QED
        BY <2>4, <2>5 DEF NoLostWakeup
<1>2. ASSUME NEW t \in Threads, BroadcastAndUnlock(t)
      PROVE  NoLostWakeup'
    <2>1. \A u \in Threads : Woken(pc[u]) \notin Sleeping
        BY WokenValues DEF TypeOK, Sleeping
    <2> QED
        BY <1>2, <2>1 DEF BroadcastAndUnlock, NoLostWakeup, Sleeping
<1>3. ASSUME NEW t \in Threads, LeaveRead(t) \/ LeaveWrite(t)
      PROVE  NoLostWakeup'
    <2>1. \A u \in Threads : u # t => pc'[u] = pc[u]
        BY <1>3 DEF LeaveRead, LeaveWrite, Goto, TypeOK
    <2>2. pc[t] \notin {"xr_signal", "xw_signal"} /\ pc'[t] \notin Sleeping
        BY <1>3 DEF LeaveRead, LeaveWrite, Goto, TypeOK, Sleeping
    <2>3. UNCHANGED <<writers_waiting, readers_reading, writer_active>>
        BY <1>3 DEF LeaveRead, LeaveWrite
    <2>4. BroadcastPending => BroadcastPending'
        BY <2>1, <2>2, <2>3 DEF BroadcastPending
    <2> QED
        BY <2>1, <2>2, <2>3, <2>4
        DEF NoLostWakeup, ReaderMustWait, WriterMustWait, Sleeping
<1>4. ASSUME NEW t \in Threads, ReadUncount(t)
      PROVE  NoLostWakeup'
    <2>1. \A u \in Threads : pc'[u] \in Sleeping => pc'[u] = pc[u]
        BY <1>4 DEF ReadUncount, Goto, TypeOK, Sleeping
    <2>2. pc[t] \in Holding /\ pc'[t] = "xr_signal"
        BY <1>4 DEF ReadUncount, Goto, TypeOK, Holding
    <2>3. ~BroadcastPending
        BY <1>4, <2>2, OneHolder DEF BroadcastPending, ReadUncount, Holding
    <2>4. readers_reading' \in Nat
        <3>1. readers_reading \in Nat /\ (readers_reading = 0 <=> CountedReaders = {})
            BY ReadersCounted
        <3>2. t \in CountedReaders
            BY <1>4 DEF ReadUncount, CountedReaders
        <3> QED
            BY <1>4, <3>1, <3>2 DEF ReadUncount
    <2>5. readers_reading' > 0 \/ BroadcastPending'
        BY <2>2, <2>4 DEF BroadcastPending
    <2>6. ASSUME NEW u \in Threads, pc'[u] = "r_wait"
          PROVE  ReaderMustWait'
        BY <1>4, <2>1, <2>3, <2>6 DEF NoLostWakeup, ReadUncount, ReaderMustWait, Sleeping
    <2>7. \A u \in Threads : pc'[u] = "w_wait" => WriterMustWait' \/ BroadcastPending'
        BY <2>5 DEF WriterMustWait
    <2> QED
        BY <2>6, <2>7 DEF NoLostWakeup
<1>5. ASSUME NEW t \in Threads, OtherReaderUnlocks(t)
      PROVE  NoLostWakeup'
    <2>1. \A u \in Threads : u # t => pc'[u] = pc[u]
        BY <1>5 DEF OtherReaderUnlocks, Goto, TypeOK
    <2>2. pc'[t] = "idle"
        BY <1>5 DEF OtherReaderUnlocks, Goto, TypeOK
    <2>3. ~BroadcastPending
        BY <1>5, OneHolder DEF BroadcastPending, OtherReaderUnlocks, Holding
    <2> QED
        BY <1>5, <2>1, <2>2, <2>3
        DEF NoLostWakeup, OtherReaderUnlocks, ReaderMustWait, WriterMustWait
<1>6. ASSUME NEW t \in Threads, WriteClear(t)
      PROVE  NoLostWakeup'
    <2>1. pc'[t] = "xw_signal"
        BY <1>6 DEF WriteClear, Goto, TypeOK
    <2> QED
        BY <2>1 DEF NoLostWakeup, BroadcastPending
<1>7. CASE UNCHANGED vars
    BY <1>7 DEF vars, NoLostWakeup, ReaderMustWait, WriterMustWait, BroadcastPending
<1> QED
    BY <1>1, <1>2, <1>3, <1>4, <1>5, <1>6, <1>7
    DEF Next, Run, ExitRead, ExitWrite, LastReaderSignals, WriterSignals, Done

-----------------------------------------------------------------------------
\* The initial state satisfies IInv.
LEMMA Initially == Init => IInv
<1> SUFFICES ASSUME Init PROVE IInv
    OBVIOUS
<1>1. TypeOK
    <2>1. writers_waiting \in INT_MIN..INT_MAX /\ calls \in [Threads -> 0..MaxCalls]
        BY IntAssumption, MaxCallsAssumption DEF IntAssumption, MaxCallsAssumption, Init
    <2>2. readers_reading \in Nat
        BY DEF Init
    <2>3. writer_active \in BOOLEAN
        BY DEF Init
    <2>4. m \in Threads \union {NoThread}
        BY DEF Init
    <2>5. pc \in [Threads -> PCs]
        BY DEF Init, PCs
    <2> QED
        BY <2>1, <2>2, <2>3, <2>4, <2>5 DEF TypeOK
<1>2. CountedReaders = {} /\ ActiveWriters = {}
    BY DEF Init, CountedReaders, ActiveWriters
<1>3. CountersExact /\ CountedInv
    BY <1>2, FS_EmptySet DEF Init, CountersExact, CountedInv
<1>4. MutexInv /\ TestedInv /\ NoLostWakeup
    BY ThreadsAssumption
    DEF Init, MutexInv, TestedInv, NoLostWakeup, Holding, ThreadsAssumption
<1> QED
    BY <1>1, <1>3, <1>4 DEF IInv

\* IInv holds in every reachable state.
THEOREM Inductive == Spec => []IInv
<1>1. IInv /\ [Next]_vars => IInv'
    BY TypeStep, MutexStep, TestedStep, CountStep, WakeupStep DEF IInv
<1> QED
    BY Initially, <1>1, PTL DEF Spec

\* TypeOK holds in every reachable state.
THEOREM TypeCorrect == Spec => []TypeOK
<1>1. IInv => TypeOK
    BY DEF IInv
<1> QED
    BY Inductive, <1>1, PTL

\* A writer inside is alone, and readers are inside only without a writer.
THEOREM Exclusive == Spec => []MutualExclusion
<1>1. IInv => MutualExclusion
    BY DEF IInv, CountedInv, MutualExclusion, Readers, Writers, CountedReaders, ActiveWriters
<1> QED
    BY Inductive, <1>1, PTL

\* The counters of the struct say who is inside.
THEOREM CountersCorrect == Spec => []CountersExact
<1>1. IInv => CountersExact
    BY DEF IInv
<1> QED
    BY Inductive, <1>1, PTL

\* No thread sleeps in pthread_cond_wait with its condition false and no
\* broadcast under way.
THEOREM WakeupsArrive == Spec => []NoLostWakeup
<1>1. IInv => NoLostWakeup
    BY DEF IInv
<1> QED
    BY Inductive, <1>1, PTL

-----------------------------------------------------------------------------
\* Readers and Writers change only where enter returns and exit is called.
LEMMA InsideUnchanged ==
    ASSUME TypeOK, NEW t \in Threads,
           Call(t) \/ Lock(t) \/ SpuriousWakeup(t) \/ Run(t),
           ~ReadCount(t), ~WriteSet(t), ~LeaveRead(t), ~LeaveWrite(t)
    PROVE  Readers' = Readers /\ Writers' = Writers
<1>1. CASE Call(t)
    BY <1>1 DEF Call, CallRead, CallWrite, Goto, TypeOK, Readers, Writers
<1>2. CASE Lock(t)
    BY <1>2, LockedValues DEF Lock, Goto, TypeOK, Locking, Readers, Writers
<1>3. CASE SpuriousWakeup(t)
    BY <1>3, WokenValues DEF SpuriousWakeup, Goto, TypeOK, Sleeping, Readers, Writers
<1>4. ASSUME BroadcastAndUnlock(t), pc[t] \notin {"reading", "writing"}
      PROVE  Readers' = Readers /\ Writers' = Writers
    <2>1. \A u \in Threads : pc[u] \in Sleeping => Woken(pc[u]) \in {"r_lock", "w_lock"}
        BY WokenValues DEF Sleeping
    <2>2. \A u \in Threads : pc[u] \notin Sleeping => Woken(pc[u]) = pc[u]
        BY WokenValues DEF TypeOK
    <2> QED
        BY <1>4, <2>1, <2>2 DEF BroadcastAndUnlock, Readers, Writers, Sleeping
<1>5. CASE EnterRead(t) \/ ExitRead(t)
    BY <1>4, <1>5 DEF EnterRead, ExitRead, ReadSleep, ReadPass, ReadUncount,
                      LastReaderSignals, OtherReaderUnlocks, Goto, TypeOK, Readers, Writers
<1>6. CASE EnterWrite(t) \/ ExitWrite(t)
    BY <1>4, <1>6 DEF EnterWrite, ExitWrite, WriteSleep, WritePass, WriteClear,
                      WriterSignals, Goto, TypeOK, Readers, Writers
<1> QED
    BY <1>1, <1>2, <1>3, <1>5, <1>6 DEF Run

\* A step of the lock is a step of readers/writer exclusion or no step of it.
LEMMA StepSimulation == IInv /\ [Next]_vars => [Abstract!Next]_(Abstract!vars)
<1> SUFFICES ASSUME IInv, [Next]_vars PROVE [Abstract!Next]_(Abstract!vars)
    OBVIOUS
<1>1. ASSUME NEW t \in Threads, ReadCount(t) PROVE Abstract!BeginRead(t)
    <2>1. Writers = {}
        BY <1>1 DEF IInv, TestedInv, ReadCount, Writers, ActiveWriters
    <2>2. Readers' = Readers \union {t} /\ t \notin Readers /\ Writers' = Writers
        BY <1>1 DEF IInv, TypeOK, ReadCount, Goto, Readers, Writers
    <2> QED
        BY <2>1, <2>2 DEF Abstract!BeginRead
<1>2. ASSUME NEW t \in Threads, LeaveRead(t) PROVE Abstract!EndRead(t)
    <2>1. Readers' = Readers \ {t} /\ t \in Readers /\ Writers' = Writers
        BY <1>2 DEF IInv, TypeOK, LeaveRead, Goto, Readers, Writers
    <2> QED
        BY <2>1 DEF Abstract!EndRead
<1>3. ASSUME NEW t \in Threads, WriteSet(t) PROVE Abstract!BeginWrite(t)
    <2>1. Readers = {} /\ Writers = {}
        BY <1>3 DEF IInv, TestedInv, WriteSet, Readers, Writers, CountedReaders, ActiveWriters
    <2>2. Writers' = Writers \union {t} /\ Readers' = Readers
        BY <1>3 DEF IInv, TypeOK, WriteSet, Goto, Readers, Writers
    <2> QED
        BY <2>1, <2>2 DEF Abstract!BeginWrite
<1>4. ASSUME NEW t \in Threads, LeaveWrite(t) PROVE Abstract!EndWrite(t)
    <2>1. Writers' = Writers \ {t} /\ t \in Writers /\ Readers' = Readers
        BY <1>4 DEF IInv, TypeOK, LeaveWrite, Goto, Readers, Writers
    <2> QED
        BY <2>1 DEF Abstract!EndWrite
<1>5. ASSUME NEW t \in Threads, Call(t) \/ Lock(t) \/ SpuriousWakeup(t) \/ Run(t)
      PROVE  [Abstract!Next]_(Abstract!vars)
    BY <1>1, <1>2, <1>3, <1>4, <1>5, InsideUnchanged DEF IInv, Abstract!Next, Abstract!vars
<1>6. CASE UNCHANGED vars
    BY <1>6 DEF vars, Readers, Writers, Abstract!vars
<1> QED
    BY <1>5, <1>6 DEF Next, Done

\* The lock of mutex.c implements readers/writer exclusion: the modules that
\* use a lock may use RWExclusion for it.
THEOREM Implements == Spec => Exclusion
<1>1. Init => Abstract!Init
    BY DEF Init, Abstract!Init, Readers, Writers
<1> QED
    BY <1>1, StepSimulation, Inductive, PTL DEF Spec, Exclusion, Abstract!Spec
=============================================================================
