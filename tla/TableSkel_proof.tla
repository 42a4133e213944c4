-------------------------- MODULE TableSkel_proof --------------------------
(***************************************************************************)
(* Proofs about TableSkel, for any finite set of connections, any keys and *)
(* values and any requests: the statistics never lose an update, n_clientes *)
(* is the number of clients served, and an operation that keeps to the read *)
(* or write section it entered never reads freed memory.                   *)
(***************************************************************************)
EXTENDS TableSkel, FiniteSetTheorems, TLAPS

\* The calls of stats.c that the server makes, and where each returns.
StatsCalls ==
    {[field |-> "n_clientes", by |-> 1, then |-> "recv"],
     [field |-> "n_clientes", by |-> -1, then |-> "free"],
     [field |-> "n_operacoes", by |-> 1, then |-> "access"]}
      \union {[field |-> "total_time", by |-> d, then |-> "table_exit"] :
                 d \in ElapsedTimes \union RacedTimes}

\* The types the arguments below need.
BaseOK ==
    /\ pc \in [Threads -> PCs]
    /\ stats \in [Fields -> Int]
    /\ due \in [Fields -> Int]
    /\ upd \in [Threads -> [field : Fields, by : Int, then : PCs]]
    /\ current \in [Threads -> Int]
    /\ \A t \in Threads : pc[t] \in Updating => upd[t] \in StatsCalls

\* Where a thread is in a write, or a read, section of stats_locks.
WritingStats == {"upd_load", "upd_store", "upd_exit"}
ReadingStats == Copying \union {"stats_exit"}

StatsLockInv ==
    /\ \A t \in Threads : pc[t] \in WritingStats => t \in sWriters
    /\ \A t \in Threads : pc[t] \in ReadingStats => t \in sReaders
    /\ StatsLock!Exclusive

\* What an update loaded is still the value of the field when it stores.
LoadedInv == \A t \in Threads : pc[t] = "upd_store" => current[t] = stats[upd[t].field]

StatsInv == BaseOK /\ StatsLockInv /\ LoadedInv /\ UpdatesKept

-----------------------------------------------------------------------------
\* The actions of a thread, by what they do to the statistics.

\* It neither enters, leaves nor is in a section of stats_locks.
Quiet(t) ==
    /\ UNCHANGED <<stats, stats_locks, upd, due>>
    /\ pc[t] \in PCs \ (Updating \union ReadingStats \union {"free", "dead"})
    /\ \E l \in PCs \ (Updating \union ReadingStats \union {"free", "dead"}) : Goto(t, l)
    /\ \E v \in Int : current' = [current EXCEPT ![t] = v]

\* It calls a function of stats.c.
Calls(t) ==
    /\ UNCHANGED <<stats, stats_locks, current, due>>
    /\ pc[t] \in PCs \ (Updating \union ReadingStats \union {"dead"})
    /\ Goto(t, "upd_enter")
    /\ \E c \in StatsCalls :
         /\ upd' = [upd EXCEPT ![t] = c]
         /\ pc[t] = "free" <=> (c.field = "n_clientes" /\ c.by = 1)

\* It ends the process.
Dies == Die /\ UNCHANGED <<stats, stats_locks, upd, current, due>>

Quietly(t) == \/ Receive(t) \/ Hangup(t) \/ Send(t) \/ Refuse(t) \/ BeginChange(t)
              \/ ExitTable(t) \/ CountKeys(t) \/ CountEntries(t) \/ ScanEntries(t)

Calling(t) == Connect(t) \/ Close(t) \/ EnterTable(t) \/ EndChange(t) \/ ReadTable(t)

Dying(t) == ScanOutOfBounds(t) \/ DanglingRead(t)

\* The table has a size, whatever change of it is under way.
LEMMA SizeIsInt ==
    ASSUME NEW tab PROVE Cardinality(Stored(tab)) \in Int
<1>1. IsFiniteSet(Stored(tab))
    BY TableSkelAssumption, FS_Subset DEF TableSkelAssumption, Stored
<1> QED
    BY <1>1, FS_CardinalityType

LEMMA QuietActions == ASSUME BaseOK, NEW t \in Threads, Quietly(t) PROVE Quiet(t)
<1> USE DEF Goto, PCs, Updating, UpdateUnstored, ReadingStats, Copying, locals
<1>1. ASSUME UNCHANGED current PROVE \E v \in Int : current' = [current EXCEPT ![t] = v]
    <2>1. current' = [current EXCEPT ![t] = current[t]] /\ current[t] \in Int
        BY <1>1 DEF BaseOK
    <2> QED
        BY <2>1
<1>2. CASE Receive(t) \/ Hangup(t) \/ Send(t) \/ Refuse(t) \/ BeginChange(t)
    BY <1>1, <1>2 DEF Receive, Hangup, Send, Refuse, BeginChange, Quiet
<1>3. CASE ExitTable(t) \/ CountKeys(t)
    BY <1>1, <1>3 DEF ExitTable, CountKeys, Quiet
<1>4. CASE CountEntries(t)
    BY <1>4, SizeIsInt DEF CountEntries, Quiet
<1>5. CASE ScanEntries(t)
    <2>1. current' = [current EXCEPT ![t] = 0] /\ 0 \in Int
        BY <1>5 DEF ScanEntries
    <2>2. \E v \in Int : current' = [current EXCEPT ![t] = v]
        BY <2>1
    <2> QED
        BY <1>5, <2>2 DEF ScanEntries, Quiet
<1> QED
    BY <1>2, <1>3, <1>4, <1>5 DEF Quietly

\* A call of a function of stats.c that is one of StatsCalls.
LEMMA OneCall ==
    ASSUME NEW t \in Threads, NEW f, NEW d, NEW l, CallUpdate(t, f, d, l),
           [field |-> f, by |-> d, then |-> l] \in StatsCalls,
           UNCHANGED <<stats, stats_locks, current, due>>,
           pc[t] \in PCs \ (Updating \union ReadingStats \union {"dead"}),
           pc[t] = "free" <=> (f = "n_clientes" /\ d = 1)
    PROVE  Calls(t)
<1> DEFINE c == [field |-> f, by |-> d, then |-> l]
<1>1. c.field = f /\ c.by = d
    OBVIOUS
<1>2. upd' = [upd EXCEPT ![t] = c] /\ Goto(t, "upd_enter")
    BY DEF CallUpdate
<1> QED
    BY <1>1, <1>2 DEF Calls

LEMMA CallingActions == ASSUME BaseOK, NEW t \in Threads, Calling(t) PROVE Calls(t)
<1> USE DEF PCs, Updating, UpdateUnstored, ReadingStats, Copying
<1>1. CASE Connect(t)
    <2>1. [field |-> "n_clientes", by |-> 1, then |-> "recv"] \in StatsCalls
        BY DEF StatsCalls
    <2> QED
        BY <1>1, <2>1, OneCall DEF Connect
<1>2. CASE Close(t)
    <2>1. [field |-> "n_clientes", by |-> -1, then |-> "free"] \in StatsCalls
        BY DEF StatsCalls
    <2>2. pc[t] = "close" /\ CallUpdate(t, "n_clientes", -1, "free")
          /\ UNCHANGED <<stats, stats_locks, current, due>>
        BY <1>2 DEF Close
    <2>3. pc[t] = "free" <=> ("n_clientes" = "n_clientes" /\ -1 = 1)
        BY <2>2
    <2> QED
        BY <2>1, <2>2, <2>3, OneCall
<1>3. CASE EnterTable(t)
    <2>1. [field |-> "n_operacoes", by |-> 1, then |-> "access"] \in StatsCalls
        BY DEF StatsCalls
    <2> QED
        BY <1>3, <2>1, OneCall DEF EnterTable
<1>4. CASE EndChange(t) \/ ReadTable(t)
    <2>1. PICK d \in ElapsedTimes \union RacedTimes : CallUpdate(t, "total_time", d, "table_exit")
        BY <1>4 DEF EndChange, ReadTable, CallIncreaseTime
    <2>2. [field |-> "total_time", by |-> d, then |-> "table_exit"] \in StatsCalls
        BY DEF StatsCalls
    <2> QED
        BY <1>4, <2>1, <2>2, OneCall DEF EndChange, ReadTable
<1> QED
    BY <1>1, <1>2, <1>3, <1>4 DEF Calling

LEMMA DyingActions == ASSUME NEW t \in Threads, Dying(t) PROVE Dies
BY DEF Dying, ScanOutOfBounds, DanglingRead, Dies, locals

-----------------------------------------------------------------------------
\* The steps that keep to themselves, seen from the statistics: every other
\* thread stays where it is and t is not in a section of stats_locks.
LEMMA QuietStep == ASSUME StatsInv, NEW t \in Threads, Quiet(t) PROVE StatsInv'
<1> USE DEF StatsInv, Quiet, Goto
<1>1. BaseOK'
    BY DEF BaseOK
<1>2. StatsLockInv'
    BY DEF StatsLockInv, WritingStats, Updating, UpdateUnstored, BaseOK, stats_locks, StatsLock!Exclusive
<1>3. LoadedInv'
    BY DEF LoadedInv, BaseOK, Updating, UpdateUnstored
<1> QED
    BY <1>1, <1>2, <1>3 DEF UpdatesKept

LEMMA CallsStep == ASSUME StatsInv, NEW t \in Threads, Calls(t) PROVE StatsInv'
<1> USE DEF StatsInv, Calls, Goto
<1>1. StatsCalls \subseteq [field : Fields, by : Int, then : PCs]
    BY TableSkelAssumption DEF TableSkelAssumption, StatsCalls, Fields, PCs
<1>2. BaseOK'
    BY <1>1 DEF BaseOK, PCs, Updating, UpdateUnstored
<1>3. StatsLockInv'
    BY DEF StatsLockInv, WritingStats, ReadingStats, Copying, Updating, UpdateUnstored, BaseOK, stats_locks, StatsLock!Exclusive
<1>4. LoadedInv'
    BY DEF LoadedInv, BaseOK
<1> QED
    BY <1>2, <1>3, <1>4 DEF UpdatesKept

LEMMA DiesStep == ASSUME StatsInv, Dies PROVE StatsInv'
BY DEF StatsInv, Dies, Die, BaseOK, PCs, StatsLockInv, LoadedInv, UpdatesKept, WritingStats,
       ReadingStats, Copying, Updating, UpdateUnstored, stats_locks, StatsLock!Exclusive

\* A thread in an update is at one of StatsCalls, which returns outside the
\* sections of stats_locks.
LEMMA CallFacts ==
    ASSUME BaseOK, NEW t \in Threads, pc[t] \in Updating
    PROVE  /\ upd[t].field \in Fields /\ upd[t].by \in Int
           /\ upd[t].then \in {"recv", "free", "access", "table_exit"}
           /\ upd[t].field = "n_clientes" =>
                 \/ upd[t].by = 1 /\ upd[t].then = "recv"
                 \/ upd[t].by = -1 /\ upd[t].then = "free"
           /\ upd[t].then = "free" => upd[t].field = "n_clientes" /\ upd[t].by = -1
<1>1. upd[t] \in StatsCalls
    BY DEF BaseOK
<1> QED
    BY <1>1, TableSkelAssumption DEF TableSkelAssumption, StatsCalls, Fields

LEMMA UpdateStep == ASSUME StatsInv, NEW t \in Threads, Update(t) PROVE StatsInv'
<1> USE DEF StatsInv, Goto
<1>1. CASE UpdateEnter(t)
    <2>1. BaseOK'
        BY <1>1 DEF UpdateEnter, BaseOK, PCs, Updating, UpdateUnstored, locals
    <2>2. StatsLockInv'
        BY <1>1 DEF UpdateEnter, StatsLockInv, BaseOK, WritingStats, ReadingStats, Copying,
                    StatsLock!BeginWrite, StatsLock!Exclusive
    <2>3. LoadedInv' /\ UpdatesKept'
        BY <1>1 DEF UpdateEnter, LoadedInv, UpdatesKept, BaseOK, locals
    <2> QED
        BY <2>1, <2>2, <2>3
<1>2. CASE UpdateLoad(t)
    <2>1. upd[t].field \in Fields
        BY <1>2, CallFacts DEF UpdateLoad, Updating, UpdateUnstored
    <2>2. BaseOK'
        BY <1>2, <2>1 DEF UpdateLoad, BaseOK, PCs, Updating, UpdateUnstored
    <2>3. StatsLockInv'
        BY <1>2 DEF UpdateLoad, StatsLockInv, BaseOK, WritingStats, ReadingStats, Copying,
                    stats_locks, StatsLock!Exclusive
    <2>4. LoadedInv' /\ UpdatesKept'
        BY <1>2 DEF UpdateLoad, LoadedInv, UpdatesKept, BaseOK
    <2> QED
        BY <2>2, <2>3, <2>4
<1>3. CASE UpdateStore(t)
    <2>1. upd[t].field \in Fields /\ upd[t].by \in Int
        BY <1>3, CallFacts DEF UpdateStore, Updating, UpdateUnstored
    <2>2. BaseOK'
        BY <1>3, <2>1 DEF UpdateStore, BaseOK, PCs, Updating, UpdateUnstored
    <2>3. StatsLockInv'
        BY <1>3 DEF UpdateStore, StatsLockInv, BaseOK, WritingStats, ReadingStats, Copying,
                    stats_locks, StatsLock!Exclusive
    <2>4. \A u \in Threads : pc[u] = "upd_store" => u = t
        BY <1>3 DEF UpdateStore, StatsLockInv, WritingStats, StatsLock!Exclusive
    <2>5. LoadedInv'
        BY <1>3, <2>4 DEF UpdateStore, LoadedInv, BaseOK
    <2>6. current[t] = stats[upd[t].field]
        BY <1>3 DEF UpdateStore, LoadedInv
    <2>7. UpdatesKept'
        BY <1>3, <2>6 DEF UpdateStore, UpdatesKept
    <2> QED
        BY <2>2, <2>3, <2>5, <2>7
<1>4. CASE UpdateExit(t)
    <2>1. upd[t].then \in {"recv", "free", "access", "table_exit"}
        BY <1>4, CallFacts DEF UpdateExit, Updating
    <2>2. BaseOK'
        BY <1>4, <2>1 DEF UpdateExit, BaseOK, PCs, Updating, UpdateUnstored, NoUpdate, Fields
    <2>3. StatsLockInv'
        BY <1>4, <2>1 DEF UpdateExit, StatsLockInv, BaseOK, WritingStats, ReadingStats, Copying,
                    StatsLock!EndWrite, StatsLock!Exclusive
    <2>4. LoadedInv' /\ UpdatesKept'
        BY <1>4, <2>1 DEF UpdateExit, LoadedInv, UpdatesKept, BaseOK
    <2> QED
        BY <2>2, <2>3, <2>4
<1> QED
    BY <1>1, <1>2, <1>3, <1>4 DEF Update

\* STATS: a read section of stats_locks.
Stats(t) == StatsEnter(t) \/ CopyStats(t) \/ StatsExit(t)

LEMMA StatsStep == ASSUME StatsInv, NEW t \in Threads, Stats(t) PROVE StatsInv'
<1> USE DEF StatsInv, Goto
<1>1. CASE StatsEnter(t)
    <2>1. BaseOK' /\ LoadedInv' /\ UpdatesKept'
        BY <1>1 DEF StatsEnter, BaseOK, PCs, Copying, Updating, UpdateUnstored, LoadedInv, UpdatesKept
    <2>2. StatsLockInv'
        BY <1>1 DEF StatsEnter, StatsLockInv, BaseOK, WritingStats, ReadingStats, Copying,
                    StatsLock!BeginRead, StatsLock!Exclusive
    <2> QED
        BY <2>1, <2>2
<1>2. CASE CopyStats(t)
    <2>1. PICK at \in Copying, next \in ReadingStats :
              pc[t] = at /\ Goto(t, next) /\ UNCHANGED <<stats, stats_locks, upd, current, due>>
        BY <1>2 DEF CopyStats, CopyField, Copying, ReadingStats
    <2>2. BaseOK' /\ LoadedInv' /\ UpdatesKept'
        BY <2>1 DEF BaseOK, PCs, Copying, ReadingStats, Updating, UpdateUnstored, LoadedInv, UpdatesKept
    <2>3. StatsLockInv'
        BY <2>1 DEF StatsLockInv, BaseOK, WritingStats, ReadingStats, Copying, stats_locks, StatsLock!Exclusive
    <2> QED
        BY <2>2, <2>3
<1>3. CASE StatsExit(t)
    <2>1. BaseOK' /\ LoadedInv' /\ UpdatesKept'
        BY <1>3 DEF StatsExit, BaseOK, PCs, Updating, UpdateUnstored, LoadedInv, UpdatesKept, locals
    <2>2. StatsLockInv'
        BY <1>3 DEF StatsExit, StatsLockInv, BaseOK, WritingStats, ReadingStats, Copying,
                    StatsLock!EndRead, StatsLock!Exclusive
    <2> QED
        BY <2>1, <2>2
<1> QED
    BY <1>1, <1>2, <1>3 DEF Stats

\* Every step of a connection is one of these.
LEMMA StepKinds ==
    ASSUME BaseOK, NEW t \in Threads, Client(t) \/ Run(t)
    PROVE  Quiet(t) \/ Calls(t) \/ Dies \/ Update(t) \/ Stats(t)
BY QuietActions, CallingActions, DyingActions
   DEF Client, Run, Invoke, Quietly, Calling, Dying, Stats

LEMMA StatsInductive == StatsInv /\ [Next]_vars => StatsInv'
<1> SUFFICES ASSUME StatsInv, [Next]_vars PROVE StatsInv'
    OBVIOUS
<1>1. CASE UNCHANGED vars
    BY <1>1 DEF StatsInv, BaseOK, StatsLockInv, LoadedInv, UpdatesKept, vars, stats_locks, locals,
                StatsLock!Exclusive
<1>2. ASSUME NEW t \in Threads, Client(t) \/ Run(t) PROVE StatsInv'
    BY <1>2, StepKinds, QuietStep, CallsStep, DiesStep, UpdateStep, StatsStep DEF StatsInv
<1> QED
    BY <1>1, <1>2 DEF Next, Done

LEMMA StatsInitial == Init => StatsInv
<1> SUFFICES ASSUME Init PROVE StatsInv
    OBVIOUS
<1>1. BaseOK
    BY DEF Init, BaseOK, PCs, Updating, UpdateUnstored, NoUpdate, Fields
<1>2. StatsLockInv
    BY DEF Init, StatsLockInv, WritingStats, ReadingStats, Copying, StatsLock!Init, StatsLock!Exclusive
<1>3. LoadedInv /\ UpdatesKept
    BY DEF Init, LoadedInv, UpdatesKept
<1> QED
    BY <1>1, <1>2, <1>3 DEF StatsInv

\* No update of the statistics is lost: each is a load and a store of stats.c,
\* and the write section of stats_locks keeps the others out in between.
THEOREM NoUpdateLost == Spec => []UpdatesKept
<1>1. Spec => []StatsInv
    BY StatsInitial, StatsInductive, PTL DEF Spec
<1>2. StatsInv => UpdatesKept
    BY DEF StatsInv
<1> QED
    BY <1>1, <1>2, PTL

-----------------------------------------------------------------------------
(* n_clientes.  Only the store of an update changes the set Counted.       *)

Counted == {t \in Threads : CountsItsClient(t)}

ClientsInv == StatsInv /\ ClientsCounted

\* A step that moves t alone and leaves it counted, or not, as it was.
LEMMA SameCount ==
    ASSUME ClientsInv, StatsInv', NEW t \in Threads,
           stats'["n_clientes"] = stats["n_clientes"],
           \A u \in Threads \ {t} : pc'[u] = pc[u] /\ upd'[u] = upd[u],
           pc[t] # "dead",
           CountsItsClient(t)' <=> CountsItsClient(t)
    PROVE  ClientsCounted'
<1>1. \A u \in Threads \ {t} : CountsItsClient(u)' <=> CountsItsClient(u)
    BY DEF CountsItsClient
<1>2. Counted' = Counted
    BY <1>1 DEF Counted
<1>3. CASE \A u \in Threads : pc[u] # "dead"
    BY <1>2, <1>3 DEF ClientsInv, ClientsCounted, Counted
<1>4. ASSUME NEW u \in Threads, pc[u] = "dead" PROVE ClientsCounted'
    BY <1>4 DEF ClientsCounted
<1> QED
    BY <1>3, <1>4

LEMMA ClientsOthers ==
    ASSUME ClientsInv, StatsInv', NEW t \in Threads, Quiet(t) \/ Stats(t) \/ UpdateEnter(t) \/ UpdateLoad(t)
    PROVE  ClientsCounted'
<1> USE DEF ClientsInv, StatsInv
<1>1. CASE Quiet(t) \/ Stats(t)
    <2>1. /\ pc[t] \notin Updating \union {"free", "dead"}
          /\ pc'[t] \notin Updating \union {"free", "dead"}
          /\ UNCHANGED <<stats, upd>>
          /\ \A u \in Threads \ {t} : pc'[u] = pc[u]
        BY <1>1 DEF BaseOK, Quiet, Stats, StatsEnter, CopyStats, CopyField, StatsExit, Goto, locals,
                    PCs, Updating, UpdateUnstored
    <2>2. CountsItsClient(t) /\ CountsItsClient(t)'
        BY <2>1 DEF CountsItsClient, Updating, UpdateUnstored
    <2> QED
        BY <2>1, <2>2, SameCount
<1>2. CASE UpdateEnter(t) \/ UpdateLoad(t)
    <2>1. /\ pc[t] \in UpdateUnstored /\ pc'[t] \in UpdateUnstored
          /\ UNCHANGED <<stats, upd>>
          /\ \A u \in Threads \ {t} : pc'[u] = pc[u]
        BY <1>2 DEF BaseOK, UpdateEnter, UpdateLoad, Goto, locals, UpdateUnstored
    <2>2. CountsItsClient(t) <=> CountsItsClient(t)'
        BY <2>1 DEF CountsItsClient, UpdateUnstored
    <2>3. pc[t] # "dead"
        BY <2>1 DEF UpdateUnstored
    <2> QED
        BY <2>1, <2>2, <2>3, SameCount
<1> QED
    BY <1>1, <1>2

LEMMA ClientsCalls == ASSUME ClientsInv, StatsInv', NEW t \in Threads, Calls(t) PROVE ClientsCounted'
<1> USE DEF ClientsInv, StatsInv
<1>1. PICK c \in StatsCalls :
          upd' = [upd EXCEPT ![t] = c] /\ (pc[t] = "free" <=> (c.field = "n_clientes" /\ c.by = 1))
    BY DEF Calls
<1>2. /\ pc[t] \notin Updating \union {"dead"} /\ pc'[t] = "upd_enter" /\ upd'[t] = c
      /\ UNCHANGED stats
      /\ \A u \in Threads \ {t} : pc'[u] = pc[u] /\ upd'[u] = upd[u]
    BY <1>1 DEF Calls, Goto, BaseOK
<1>3. c.field = "n_clientes" => c.by = 1 \/ c.by = -1
    BY DEF StatsCalls
<1>4. CountsItsClient(t) <=> pc[t] # "free"
    BY <1>2 DEF CountsItsClient, Updating, UpdateUnstored
<1>5. CountsItsClient(t)' <=> (c.field # "n_clientes" \/ c.by = -1)
    BY <1>2 DEF CountsItsClient, UpdateUnstored
<1>6. CountsItsClient(t)' <=> CountsItsClient(t)
    BY <1>1, <1>3, <1>4, <1>5
<1> QED
    BY <1>2, <1>6, SameCount

LEMMA ClientsExit == ASSUME ClientsInv, StatsInv', NEW t \in Threads, UpdateExit(t) PROVE ClientsCounted'
<1> USE DEF ClientsInv, StatsInv
<1>1. /\ pc[t] = "upd_exit" /\ pc'[t] = upd[t].then
      /\ UNCHANGED stats
      /\ \A u \in Threads \ {t} : pc'[u] = pc[u] /\ upd'[u] = upd[u]
    BY DEF UpdateExit, Goto, BaseOK
<1>2. /\ upd[t].then \in {"recv", "free", "access", "table_exit"}
      /\ upd[t].field = "n_clientes" =>
           \/ upd[t].by = 1 /\ upd[t].then = "recv"
           \/ upd[t].by = -1 /\ upd[t].then = "free"
      /\ upd[t].then = "free" => upd[t].field = "n_clientes" /\ upd[t].by = -1
    BY <1>1, CallFacts DEF Updating
<1>3. CountsItsClient(t) <=> (upd[t].field # "n_clientes" \/ upd[t].by = 1)
    BY <1>1 DEF CountsItsClient, UpdateUnstored
<1>4. CountsItsClient(t)' <=> upd[t].then # "free"
    BY <1>1, <1>2 DEF CountsItsClient, UpdateUnstored
<1>5. CountsItsClient(t)' <=> CountsItsClient(t)
    BY <1>2, <1>3, <1>4
<1> QED
    BY <1>1, <1>5, SameCount

\* The store counts the thread's client in, or out, or is of another field.
LEMMA ClientsStore == ASSUME ClientsInv, StatsInv', NEW t \in Threads, UpdateStore(t) PROVE ClientsCounted'
<1> USE DEF ClientsInv, StatsInv
<1> DEFINE f == upd[t].field
           d == upd[t].by
<1>1. /\ pc[t] = "upd_store" /\ pc'[t] = "upd_exit" /\ UNCHANGED upd
      /\ \A u \in Threads \ {t} : pc'[u] = pc[u]
    BY DEF UpdateStore, Goto, BaseOK
<1>2. /\ f \in Fields /\ d \in Int
      /\ f = "n_clientes" => d = 1 \/ d = -1
    BY <1>1, CallFacts DEF Updating, UpdateUnstored
<1>3. stats' = [stats EXCEPT ![f] = @ + d]
    BY <1>1 DEF UpdateStore, LoadedInv
<1>4. CountsItsClient(t) <=> (f # "n_clientes" \/ d = -1)
    BY <1>1 DEF CountsItsClient, UpdateUnstored
<1>5. CountsItsClient(t)' <=> (f # "n_clientes" \/ d = 1)
    BY <1>1 DEF CountsItsClient, UpdateUnstored
<1>6. CASE f # "n_clientes"
    BY <1>1, <1>2, <1>3, <1>4, <1>5, <1>6, SameCount DEF BaseOK
<1>7. CASE f = "n_clientes"
    <2>1. SUFFICES ASSUME \A u \in Threads : pc'[u] # "dead"
                   PROVE  stats'["n_clientes"] = Cardinality(Counted')
        BY DEF ClientsCounted, Counted
    <2>2. \A u \in Threads : pc[u] # "dead"
        BY <1>1, <2>1
    <2>3. stats["n_clientes"] = Cardinality(Counted) /\ stats["n_clientes"] \in Int
        BY <2>2 DEF ClientsCounted, Counted, BaseOK, Fields
    <2>4. stats'["n_clientes"] = stats["n_clientes"] + d
        BY <1>3, <1>7 DEF BaseOK, Fields
    <2>5. \A u \in Threads \ {t} : CountsItsClient(u)' <=> CountsItsClient(u)
        BY <1>1 DEF CountsItsClient
    <2>6. IsFiniteSet(Counted)
        BY TableSkelAssumption, FS_Subset DEF TableSkelAssumption, Counted
    <2>7. CASE d = 1
        <3>1. t \notin Counted /\ Counted' = Counted \union {t}
            BY <1>4, <1>5, <1>7, <2>5, <2>7 DEF Counted
        <3>2. Cardinality(Counted \union {t}) = Cardinality(Counted) + 1
            BY <2>6, <3>1, FS_AddElement
        <3> QED
            BY <2>3, <2>4, <2>7, <3>1, <3>2
    <2>8. CASE d = -1
        <3>1. t \in Counted /\ Counted' = Counted \ {t}
            BY <1>4, <1>5, <1>7, <2>5, <2>8 DEF Counted
        <3>2. Cardinality(Counted \ {t}) = Cardinality(Counted) - 1
            BY <2>6, <3>1, FS_RemoveElement
        <3> QED
            BY <2>3, <2>4, <2>8, <3>1, <3>2
    <2> QED
        BY <1>2, <1>7, <2>7, <2>8
<1> QED
    BY <1>6, <1>7

LEMMA ClientsInductive == ClientsInv /\ [Next]_vars => ClientsInv'
<1> SUFFICES ASSUME ClientsInv, [Next]_vars PROVE ClientsCounted'
    BY StatsInductive DEF ClientsInv
<1>0. StatsInv'
    BY StatsInductive DEF ClientsInv
<1>1. CASE UNCHANGED vars
    BY <1>1 DEF ClientsInv, ClientsCounted, CountsItsClient, vars, locals
<1>2. ASSUME NEW t \in Threads, Client(t) \/ Run(t) PROVE ClientsCounted'
    <2>1. CASE Dies
        BY <1>2, <2>1 DEF Dies, Die, ClientsCounted
    <2> QED
        BY <1>0, <1>2, <2>1, StepKinds, ClientsOthers, ClientsCalls, ClientsExit, ClientsStore
           DEF ClientsInv, StatsInv, Update
<1> QED
    BY <1>1, <1>2 DEF Next, Done

LEMMA ClientsInitial == Init => ClientsInv
<1> SUFFICES ASSUME Init PROVE ClientsCounted
    BY StatsInitial DEF ClientsInv
<1>1. {t \in Threads : CountsItsClient(t)} = {}
    BY DEF Init, CountsItsClient
<1> QED
    BY <1>1, FS_EmptySet DEF Init, ClientsCounted, Fields

\* n_clientes is the number of connections being served (stats.c:14-16),
\* whatever way each of them ends.
THEOREM ClientsAreCounted == Spec => []ClientsCounted
<1>2. ClientsInv => ClientsCounted
    BY DEF ClientsInv
<1> QED
    BY <1>2, ClientsInitial, ClientsInductive, PTL DEF Spec

-----------------------------------------------------------------------------
(* The table.  Every access but those of GETKEYS and GETTABLE after        *)
(* exit_read is inside a section of table_locks.                           *)

Late == {"GETKEYS", "GETTABLE"}

\* Where a thread is in a section of table_locks: that of the request it serves.
InTable(t) == \/ pc[t] \in {"access", "update_end", "table_exit"}
              \/ pc[t] \in Updating /\ upd[t].then \in {"access", "table_exit"}

MsgOK(t) == msg[t] = {} \/ \E r \in Inputs : msg[t] = {r}

TableInv ==
    /\ msg \in [Threads -> SUBSET Inputs]
    /\ \A t \in Threads : MsgOK(t)
    /\ \A t \in Threads : pc[t] = "update_end" => Serves(t, Writing)
    /\ \A t \in Threads : InTable(t) => Serves(t, Writing) \/ Serves(t, Reading)
    /\ \A t \in Threads : InTable(t) /\ Serves(t, Writing) => t \in tWriters
    /\ \A t \in Threads : InTable(t) /\ Serves(t, Reading) => t \in tReaders
    /\ TableLock!Exclusive

\* A step of t that takes and gives back no lock on the table, and is in a
\* section afterwards only if it was before, for the same request.
LEMMA TableKept ==
    ASSUME TableInv, NEW t \in Threads,
           UNCHANGED table_locks,
           \A u \in Threads \ {t} : pc'[u] = pc[u] /\ upd'[u] = upd[u] /\ msg'[u] = msg[u],
           msg' \in [Threads -> SUBSET Inputs], MsgOK(t)',
           pc'[t] = "update_end" => Serves(t, Writing)',
           InTable(t)' => InTable(t) /\ msg'[t] = msg[t]
    PROVE  TableInv'
<1>1. \A u \in Threads \ {t} : /\ InTable(u)' <=> InTable(u)
                               /\ \A ops : Serves(u, ops)' <=> Serves(u, ops)
                               /\ MsgOK(u)'
    BY DEF InTable, Serves, MsgOK, TableInv
<1>2. InTable(t)' => InTable(t) /\ \A ops : Serves(t, ops)' <=> Serves(t, ops)
    BY DEF Serves
<1>3. TableLock!Exclusive'
    BY DEF TableInv, TableLock!Exclusive, table_locks
<1>4. \A u \in Threads : InTable(u)' /\ Serves(u, Writing)' => u \in tWriters'
    BY <1>1, <1>2 DEF TableInv, table_locks
<1>5. \A u \in Threads : InTable(u)' /\ Serves(u, Reading)' => u \in tReaders'
    BY <1>1, <1>2 DEF TableInv, table_locks
<1>6. \A u \in Threads : pc'[u] = "update_end" => Serves(u, Writing)'
    BY <1>1 DEF TableInv
<1>7. \A u \in Threads : InTable(u)' => Serves(u, Writing)' \/ Serves(u, Reading)'
    BY <1>1, <1>2 DEF TableInv
<1> QED
    BY <1>1, <1>3, <1>4, <1>5, <1>6, <1>7 DEF TableInv

\* Writing and Reading have no request in common, and a thread serves one.
LEMMA OneKind == ASSUME TableInv, NEW t \in Threads PROVE ~(Serves(t, Writing) /\ Serves(t, Reading))
BY DEF TableInv, MsgOK, Serves, Writing, Reading

LEMMA TableEnter == ASSUME BaseOK, TableInv, NEW t \in Threads, EnterTable(t) PROVE TableInv'
<1>1. /\ UNCHANGED msg
      /\ pc' = [pc EXCEPT ![t] = "upd_enter"]
      /\ \A u \in Threads \ {t} : upd'[u] = upd[u]
      /\ pc[t] = "dispatch"
    BY DEF EnterTable, CallUpdate, Goto, BaseOK
<1>2. \A u \in Threads \ {t} : InTable(u)' <=> InTable(u)
    BY <1>1 DEF InTable
<1>3. \A u \in Threads : \A ops : Serves(u, ops)' <=> Serves(u, ops)
    BY <1>1 DEF Serves
<1>4. /\ \A u \in Threads : MsgOK(u)'
      /\ msg' \in [Threads -> SUBSET Inputs]
      /\ \A u \in Threads : pc'[u] = "update_end" => Serves(u, Writing)'
    BY <1>1, <1>3 DEF TableInv, MsgOK, BaseOK
<1>5. CASE Serves(t, Writing) /\ TableLock!BeginWrite(t)
    BY <1>2, <1>3, <1>4, <1>5, OneKind DEF TableInv, TableLock!BeginWrite, TableLock!Exclusive
<1>6. CASE Serves(t, Reading) /\ TableLock!BeginRead(t)
    BY <1>2, <1>3, <1>4, <1>6, OneKind DEF TableInv, TableLock!BeginRead, TableLock!Exclusive
<1> QED
    BY <1>5, <1>6 DEF EnterTable

LEMMA TableLeave ==
    ASSUME BaseOK, TableInv, NEW t \in Threads, ExitTable(t)
    PROVE  TableInv'
<1>1. /\ UNCHANGED <<msg, upd>>
      /\ pc[t] = "table_exit"
    BY DEF ExitTable, locals
<1>2. PICK l \in {"send", "count_entries"} : pc' = [pc EXCEPT ![t] = l]
    BY DEF ExitTable, Goto
<1>3. ~InTable(t)' /\ \A u \in Threads \ {t} : InTable(u)' <=> InTable(u)
    BY <1>1, <1>2 DEF InTable, BaseOK, Updating, UpdateUnstored
<1>4. \A u \in Threads : \A ops : Serves(u, ops)' <=> Serves(u, ops)
    BY <1>1 DEF Serves
<1>5. /\ \A u \in Threads : MsgOK(u)'
      /\ msg' \in [Threads -> SUBSET Inputs]
      /\ \A u \in Threads : pc'[u] = "update_end" => Serves(u, Writing)'
    BY <1>1, <1>2, <1>4 DEF TableInv, MsgOK, BaseOK
<1>6. /\ \/ tWriters' = tWriters \ {t} /\ UNCHANGED tReaders
         \/ tReaders' = tReaders \ {t} /\ UNCHANGED tWriters
    BY DEF ExitTable, TableLock!EndWrite, TableLock!EndRead
<1>7. TableLock!Exclusive'
    BY <1>6 DEF TableInv, TableLock!Exclusive
<1> QED
    BY <1>3, <1>4, <1>5, <1>6, <1>7 DEF TableInv

\* The sections of two operations of which one writes are not entered together.
LEMMA Alone == TableInv => ChangesAlone
<1> SUFFICES ASSUME TableInv, NEW t \in Threads, NEW u \in Threads,
                    pc[u] = "update_end", pc[t] \in {"access", "update_end"}
             PROVE  t = u
    BY DEF ChangesAlone
<1>1. InTable(t) /\ InTable(u) /\ Serves(u, Writing)
    BY DEF TableInv, InTable
<1>2. u \in tWriters /\ (t \in tWriters \/ t \in tReaders)
    BY <1>1 DEF TableInv
<1> QED
    BY <1>2 DEF TableInv, TableLock!Exclusive

\* Where no thread is after exit_read of the table, no access uses what another
\* thread frees.
NoneLate == \A t \in Threads : pc[t] \notin {"count_entries", "scan_entries", "dead"}

LEMMA NoneDies == ASSUME TableInv, NoneLate, NEW t \in Threads PROVE ~Dying(t)
<1>1. ~ScanOutOfBounds(t)
    BY DEF ScanOutOfBounds, NoneLate
<1>2. ASSUME DanglingRead(t) PROVE FALSE
    <2>1. pc[t] = "access" /\ Serves(t, Reading)
        BY <1>2 DEF DanglingRead, NoneLate
    <2>2. PICK r \in Changing : TRUE
        BY <1>2 DEF DanglingRead, Freeing
    <2>3. PICK u \in Threads : pc[u] = "update_end"
        BY <2>2 DEF Changing
    <2>4. t = u
        BY <2>1, <2>3, Alone DEF ChangesAlone
    <2> QED
        BY <2>1, <2>3, <2>4
<1> QED
    BY <1>1, <1>2 DEF Dying

\* Only ExitTable, CountEntries and a dying thread go to a late place, the first
\* for a request of Late, the second from such a place.
LEMMA StillNoneLate ==
    ASSUME BaseOK, TableInv, NoneLate, \A r \in Inputs : r[1] \notin Late,
           NEW t \in Threads, Client(t) \/ Run(t)
    PROVE  NoneLate'
<1>1. ~Dying(t) /\ ~CountKeys(t) /\ ~CountEntries(t) /\ ~ScanEntries(t)
    BY NoneDies DEF NoneLate, CountKeys, CountEntries, ScanEntries
<1>2. CASE ExitTable(t)
    <2>1. ~Serves(t, {"GETKEYS", "GETTABLE"})
        BY DEF Serves, Late, TableInv
    <2> QED
        BY <1>2, <2>1 DEF ExitTable, Goto, NoneLate, BaseOK
<1>3. CASE Update(t)
    <2>1. pc[t] = "upd_exit" => upd[t].then \in {"recv", "free", "access", "table_exit"}
        BY CallFacts DEF Updating
    <2> QED
        BY <1>3, <2>1 DEF Update, UpdateEnter, UpdateLoad, UpdateStore, UpdateExit, Goto, NoneLate, BaseOK
<1>4. CASE Client(t) \/ Send(t) \/ Close(t) \/ Refuse(t) \/ Stats(t)
    BY <1>4 DEF Client, Connect, Receive, Hangup, Send, Close, Refuse, Stats, StatsEnter, CopyStats,
                CopyField, StatsExit, CallUpdate, Goto, NoneLate, BaseOK
<1>5. CASE EnterTable(t) \/ BeginChange(t) \/ EndChange(t) \/ ReadTable(t)
    BY <1>5 DEF EnterTable, BeginChange, EndChange, ReadTable, CallIncreaseTime, CallUpdate, Goto,
                NoneLate, BaseOK
<1> QED
    BY <1>1, <1>2, <1>3, <1>4, <1>5 DEF Client, Run, Invoke, Stats, Dying

LEMMA TableUpdates == ASSUME BaseOK, TableInv, NEW t \in Threads, Update(t) PROVE TableInv'
<1>1. /\ UNCHANGED <<msg, table_locks>>
      /\ \A u \in Threads \ {t} : pc'[u] = pc[u] /\ upd'[u] = upd[u]
    BY DEF Update, UpdateEnter, UpdateLoad, UpdateStore, UpdateExit, Goto, locals, BaseOK
<1>2. msg' \in [Threads -> SUBSET Inputs] /\ MsgOK(t)'
    BY <1>1 DEF TableInv, MsgOK
<1>3. CASE UpdateExit(t)
    <2>1. pc[t] = "upd_exit" /\ pc'[t] = upd[t].then
        BY <1>3 DEF UpdateExit, Goto, BaseOK
    <2>2. upd[t].then \in {"recv", "free", "access", "table_exit"}
        BY <2>1, CallFacts DEF Updating
    <2>3. InTable(t)' => InTable(t)
        BY <2>1, <2>2 DEF InTable, Updating, UpdateUnstored
    <2> QED
        BY <1>1, <1>2, <2>1, <2>2, <2>3, TableKept
<1>4. CASE UpdateEnter(t) \/ UpdateLoad(t) \/ UpdateStore(t)
    <2>1. pc[t] \in Updating /\ pc'[t] \in Updating /\ upd'[t] = upd[t]
        BY <1>4 DEF UpdateEnter, UpdateLoad, UpdateStore, Goto, locals, BaseOK, Updating, UpdateUnstored
    <2>2. /\ InTable(t)' => InTable(t)
          /\ pc'[t] # "update_end"
        BY <2>1 DEF InTable, Updating, UpdateUnstored
    <2> QED
        BY <1>1, <1>2, <2>2, TableKept
<1> QED
    BY <1>3, <1>4 DEF Update

\* The steps outside the sections: none of them enters one.
Outside(t) == \/ Client(t) \/ Send(t) \/ Close(t) \/ Refuse(t)
              \/ Stats(t) \/ CountKeys(t) \/ CountEntries(t) \/ ScanEntries(t)

LEMMA TableOutside == ASSUME BaseOK, TableInv, NEW t \in Threads, Outside(t) PROVE TableInv'
<1>1. /\ UNCHANGED table_locks
      /\ \A u \in Threads \ {t} : pc'[u] = pc[u] /\ upd'[u] = upd[u] /\ msg'[u] = msg[u]
    BY DEF Outside, Client, Connect, Receive, Hangup, Send, Close, Refuse, Stats, StatsEnter, CopyStats,
           CopyField, StatsExit, CountKeys, CountEntries, ScanEntries, CallUpdate, Goto, locals, BaseOK, TableInv
<1>2. msg' \in [Threads -> SUBSET Inputs] /\ MsgOK(t)'
    <2>1. CASE UNCHANGED msg
        BY <2>1 DEF TableInv, MsgOK
    <2>2. CASE Receive(t)
        <3>1. PICK r \in Inputs : msg' = [msg EXCEPT ![t] = {r}]
            BY <2>2 DEF Receive
        <3> QED
            BY <3>1 DEF TableInv, MsgOK
    <2>3. CASE msg' = [msg EXCEPT ![t] = {}]
        BY <2>3 DEF TableInv, MsgOK
    <2> QED
        BY <2>1, <2>2, <2>3
           DEF Outside, Client, Connect, Hangup, Send, Close, Refuse, Stats, StatsEnter, CopyStats,
               CopyField, StatsExit, CountKeys, CountEntries, ScanEntries, locals
<1>3. ~InTable(t)' /\ pc'[t] # "update_end"
    <2>1. CASE Connect(t) \/ Close(t)
        BY <2>1 DEF Connect, Close, CallUpdate, Goto, BaseOK, InTable
    <2>2. CASE Receive(t) \/ Hangup(t) \/ Send(t) \/ Refuse(t) \/ Stats(t)
        BY <2>2 DEF Receive, Hangup, Send, Refuse, Stats, StatsEnter, CopyStats, CopyField, StatsExit,
                    Goto, BaseOK, InTable, Updating, UpdateUnstored
    <2>3. CASE CountKeys(t) \/ CountEntries(t) \/ ScanEntries(t)
        BY <2>3 DEF CountKeys, CountEntries, ScanEntries, Goto, BaseOK, InTable, Updating, UpdateUnstored
    <2> QED
        BY <2>1, <2>2, <2>3 DEF Outside, Client
<1> QED
    BY <1>1, <1>2, <1>3, TableKept

LEMMA TableAccess ==
    ASSUME BaseOK, TableInv, NEW t \in Threads, BeginChange(t) \/ EndChange(t) \/ ReadTable(t)
    PROVE  TableInv'
<1>1. /\ UNCHANGED <<msg, table_locks>>
      /\ \A u \in Threads \ {t} : pc'[u] = pc[u] /\ upd'[u] = upd[u]
      /\ InTable(t)
      /\ pc'[t] \in {"update_end", "upd_enter"}
    BY DEF BeginChange, EndChange, ReadTable, CallIncreaseTime, CallUpdate, Goto, locals, BaseOK, InTable
<1>2. msg' \in [Threads -> SUBSET Inputs] /\ MsgOK(t)'
    BY <1>1 DEF TableInv, MsgOK
<1>3. pc'[t] = "update_end" => Serves(t, Writing)'
    BY <1>1 DEF BeginChange, EndChange, ReadTable, CallIncreaseTime, CallUpdate, Goto, BaseOK, Serves
<1> QED
    BY <1>1, <1>2, <1>3, TableKept

LEMMA TableDies == ASSUME TableInv, NEW t \in Threads, Dying(t) PROVE TableInv'
<1>1. UNCHANGED <<msg, table_locks>> /\ pc' = [u \in Threads |-> "dead"]
    BY DEF Dying, ScanOutOfBounds, DanglingRead, Die, locals
<1> QED
    BY <1>1 DEF TableInv, MsgOK, InTable, Updating, UpdateUnstored, TableLock!Exclusive, table_locks

LEMMA TableInitial == Init => TableInv
BY DEF Init, TableInv, MsgOK, InTable, Updating, UpdateUnstored, TableLock!Init, TableLock!Exclusive

LEMMA TableInductive == BaseOK /\ TableInv /\ [Next]_vars => TableInv'
<1> SUFFICES ASSUME BaseOK, TableInv, [Next]_vars PROVE TableInv'
    OBVIOUS
<1>1. CASE UNCHANGED vars
    BY <1>1 DEF TableInv, MsgOK, InTable, Serves, TableLock!Exclusive, vars, locals, table_locks
<1>2. ASSUME NEW t \in Threads, Client(t) \/ Run(t) PROVE TableInv'
    BY <1>2, TableEnter, TableLeave, TableDies, TableUpdates, TableOutside, TableAccess
       DEF Client, Run, Invoke, Outside, Stats, Dying
<1> QED
    BY <1>1, <1>2 DEF Next, Done

LEMMA TableInvariant == Spec => [](BaseOK /\ TableInv)
<1>1. Spec => []StatsInv
    BY StatsInitial, StatsInductive, PTL DEF Spec
<1>2. StatsInv => BaseOK
    BY DEF StatsInv
<1> QED
    BY <1>1, <1>2, TableInitial, TableInductive, PTL DEF Spec

\* PUT and DEL change the lists alone, whatever requests the connections serve:
\* every operation keeps to the section of table_locks it enters.
THEOREM WritersAreAlone == Spec => []ChangesAlone
BY TableInvariant, Alone, PTL

\* An operation that reads the table only in the section it entered never finds
\* a list node or an entry that another connection has freed: PUT, GET, DEL,
\* SIZE and STATS are safe in any number of connections.
THEOREM ReadsAreValid ==
    ASSUME \A r \in Inputs : r[1] \notin Late
    PROVE  Spec => []NoInvalidRead
<1>1. Init => NoneLate
    BY DEF Init, NoneLate
<1>2. BaseOK /\ TableInv /\ NoneLate /\ [Next]_vars => NoneLate'
    <2> SUFFICES ASSUME BaseOK, TableInv, NoneLate, [Next]_vars PROVE NoneLate'
        OBVIOUS
    <2>1. CASE UNCHANGED vars
        BY <2>1 DEF NoneLate, vars
    <2> QED
        BY <2>1, StillNoneLate DEF Next, Done
<1>3. NoneLate => NoInvalidRead
    BY DEF NoneLate, NoInvalidRead
<1> QED
    BY <1>1, <1>2, <1>3, TableInvariant, PTL DEF Spec
-----------------------------------------------------------------------------
(* STATS.  The fields change only in a write section of stats_locks, and a *)
(* thread copies them in a read section.                                   *)

\* What a thread has copied so far is what the statistics are.
Copied(t) ==
    /\ pc[t] \in Copying => \E s \in [Fields -> Int] :
          /\ reply[t] = {<<"STATS", s>>}
          /\ pc[t] \in {"copy_n_operacoes", "copy_total_time"} => s["n_clientes"] = stats["n_clientes"]
          /\ pc[t] = "copy_total_time" => s["n_operacoes"] = stats["n_operacoes"]
    /\ pc[t] = "stats_exit" => reply[t] = {<<"STATS", stats>>}

CopiesInv == reply = [t \in Threads |-> reply[t]] /\ \A t \in Threads : Copied(t)

\* A step that changes no statistic, and is not one of STATS.
LEMMA CopiesKept ==
    ASSUME CopiesInv, NEW t \in Threads, UNCHANGED stats, reply' = [u \in Threads |-> reply'[u]],
           \A u \in Threads \ {t} : pc'[u] = pc[u] /\ reply'[u] = reply[u],
           pc'[t] \notin ReadingStats
    PROVE  CopiesInv'
BY DEF CopiesInv, Copied, ReadingStats

LEMMA CopiesStats ==
    ASSUME BaseOK, CopiesInv, NEW t \in Threads, Stats(t) PROVE CopiesInv'
<1>1. /\ UNCHANGED stats
      /\ \A u \in Threads \ {t} : pc'[u] = pc[u] /\ reply'[u] = reply[u]
      /\ reply' = [u \in Threads |-> reply'[u]]
    BY DEF Stats, StatsEnter, CopyStats, CopyField, StatsExit, Answer, Goto, BaseOK, CopiesInv, locals
<1>2. \A u \in Threads \ {t} : Copied(u)'
    BY <1>1 DEF CopiesInv, Copied
<1>3. Copied(t)'
    <2>1. CASE StatsEnter(t)
        <3>1. /\ pc'[t] = "copy_n_clientes"
              /\ reply'[t] = {<<"STATS", [f \in Fields |-> 0]>>}
            BY <2>1 DEF StatsEnter, Answer, Goto, BaseOK, CopiesInv
        <3>2. [f \in Fields |-> 0] \in [Fields -> Int]
            OBVIOUS
        <3> QED
            BY <3>1, <3>2 DEF Copied
    <2>2. ASSUME NEW at \in Copying, NEW f \in Fields, NEW next, CopyField(t, at, f, next)
          PROVE  \E s, r \in [Fields -> Int] :
                    /\ reply[t] = {<<"STATS", s>>} /\ r = [s EXCEPT ![f] = stats[f]]
                    /\ pc[t] \in {"copy_n_operacoes", "copy_total_time"} => s["n_clientes"] = stats["n_clientes"]
                    /\ pc[t] = "copy_total_time" => s["n_operacoes"] = stats["n_operacoes"]
                    /\ reply'[t] = {<<"STATS", r>>} /\ pc'[t] = next /\ pc[t] = at
        <3>1. pc[t] = at /\ pc'[t] = next
            BY <2>2 DEF CopyField, Goto, BaseOK
        <3>2. PICK s \in [Fields -> Int] :
                 /\ reply[t] = {<<"STATS", s>>}
                 /\ pc[t] \in {"copy_n_operacoes", "copy_total_time"} => s["n_clientes"] = stats["n_clientes"]
                 /\ pc[t] = "copy_total_time" => s["n_operacoes"] = stats["n_operacoes"]
            BY <3>1 DEF CopiesInv, Copied
        <3>3. reply'[t] = {<<"STATS", [s EXCEPT ![f] = stats[f]]>>}
            BY <2>2, <3>2 DEF CopyField, Answer, CopiesInv
        <3>4. [s EXCEPT ![f] = stats[f]] \in [Fields -> Int]
            BY DEF BaseOK
        <3> QED
            BY <3>1, <3>2, <3>3, <3>4
    <2>3. CASE CopyField(t, "copy_n_clientes", "n_clientes", "copy_n_operacoes")
        BY <1>1, <2>2, <2>3 DEF Copied, Copying, Fields
    <2>4. CASE CopyField(t, "copy_n_operacoes", "n_operacoes", "copy_total_time")
        BY <1>1, <2>2, <2>4 DEF Copied, Copying, Fields
    <2>5. CASE CopyField(t, "copy_total_time", "total_time", "stats_exit")
        <3>1. PICK s \in [Fields -> Int], r \in [Fields -> Int] :
                  /\ r = [s EXCEPT !["total_time"] = stats["total_time"]]
                  /\ s["n_clientes"] = stats["n_clientes"] /\ s["n_operacoes"] = stats["n_operacoes"]
                  /\ reply'[t] = {<<"STATS", r>>} /\ pc'[t] = "stats_exit"
            BY <2>2, <2>5 DEF Copying, Fields
        <3>2. r = stats
            BY <3>1 DEF BaseOK, Fields
        <3> QED
            BY <1>1, <3>1, <3>2 DEF Copied, Copying
    <2>6. CASE StatsExit(t)
        BY <2>6 DEF StatsExit, Goto, BaseOK, Copied, Copying
    <2> QED
        BY <2>1, <2>3, <2>4, <2>5, <2>6 DEF Stats, CopyStats
<1> QED
    BY <1>1, <1>2, <1>3 DEF CopiesInv

\* The store of an update: nobody is copying.
LEMMA CopiesStore ==
    ASSUME StatsInv, CopiesInv, NEW t \in Threads, UpdateStore(t) PROVE CopiesInv'
<1>1. t \in sWriters /\ pc' = [pc EXCEPT ![t] = "upd_exit"] /\ UNCHANGED reply
    BY DEF UpdateStore, Goto, StatsInv, StatsLockInv, WritingStats
<1>2. \A u \in Threads : pc[u] \notin ReadingStats
    BY <1>1 DEF StatsInv, StatsLockInv, StatsLock!Exclusive
<1>3. \A u \in Threads : pc'[u] \notin ReadingStats
    BY <1>1, <1>2 DEF StatsInv, BaseOK, ReadingStats, Copying
<1>4. \A u \in Threads : Copied(u)'
    BY <1>3 DEF Copied, ReadingStats
<1> QED
    BY <1>1, <1>4 DEF CopiesInv

LEMMA CopiesOthers ==
    ASSUME StatsInv, CopiesInv, NEW t \in Threads, Client(t) \/ Run(t),
           ~Stats(t), ~UpdateStore(t), ~Dying(t)
    PROVE  CopiesInv'
<1>1. /\ UNCHANGED stats
      /\ \A u \in Threads \ {t} : pc'[u] = pc[u]
      /\ pc'[t] \notin ReadingStats
    <2>1. CASE Quiet(t) \/ Calls(t)
        BY <2>1 DEF Quiet, Calls, Goto, StatsInv, BaseOK, ReadingStats, Copying
    <2>2. CASE Update(t)
        <3>1. pc[t] = "upd_exit" => upd[t].then \in {"recv", "free", "access", "table_exit"}
            BY CallFacts DEF Updating, StatsInv
        <3> QED
            BY <2>2, <3>1 DEF Update, UpdateEnter, UpdateLoad, UpdateExit, Goto, StatsInv, BaseOK,
                              ReadingStats, Copying
    <2> QED
        BY <2>1, <2>2, QuietActions, CallingActions
           DEF Client, Run, Invoke, Quietly, Calling, Dying, Stats, StatsInv
<1>2. UNCHANGED reply \/ \E a : reply' = [reply EXCEPT ![t] = a]
    BY DEF Client, Run, Invoke, Stats, Dying, Connect, Receive, Hangup, Send, Close, Refuse, EnterTable,
           BeginChange, EndChange, ReadTable, ExitTable, CountKeys, CountEntries, ScanEntries, Answer,
           Update, UpdateEnter, UpdateLoad, UpdateExit, locals
<1>3. /\ reply' = [u \in Threads |-> reply'[u]]
      /\ \A u \in Threads \ {t} : reply'[u] = reply[u]
    BY <1>2 DEF CopiesInv
<1> QED
    BY <1>1, <1>3, CopiesKept

\* The fields of a STATS reply are values that the statistics had together
\* (table_skel.c:259-263): no update comes between two copies.
THEOREM StatsAreSnapshots == Spec => []StatsSnapshot
<1>1. Init => CopiesInv
    BY DEF Init, CopiesInv, Copied, Copying
<1>2. StatsInv /\ CopiesInv /\ [Next]_vars => CopiesInv'
    <2> SUFFICES ASSUME StatsInv, CopiesInv, [Next]_vars PROVE CopiesInv'
        OBVIOUS
    <2>1. CASE UNCHANGED vars
        BY <2>1 DEF CopiesInv, Copied, vars, locals
    <2>2. ASSUME NEW t \in Threads, Client(t) \/ Run(t) PROVE CopiesInv'
        <3>1. CASE Dying(t)
            <4>1. UNCHANGED reply /\ \A u \in Threads : pc'[u] = "dead"
                BY <3>1 DEF Dying, ScanOutOfBounds, DanglingRead, Die, locals
            <4> QED
                BY <4>1 DEF CopiesInv, Copied, Copying
        <3> QED
            BY <2>2, <3>1, CopiesStats, CopiesStore, CopiesOthers DEF StatsInv
    <2> QED
        BY <2>1, <2>2 DEF Next, Done
<1>3. CopiesInv => StatsSnapshot
    BY DEF CopiesInv, Copied, StatsSnapshot
<1> QED
    BY <1>1, <1>2, <1>3, StatsInitial, StatsInductive, PTL DEF Spec
-----------------------------------------------------------------------------
(* total_time.  PUT and DEL measure it alone in their section.             *)

\* A step that leaves the request of t alone, and any call it was making.
LEMMA TimesKept ==
    ASSUME WritesTimed, NEW t \in Threads,
           \A u \in Threads \ {t} : pc'[u] = pc[u] /\ upd'[u] = upd[u] /\ msg'[u] = msg[u],
           pc'[t] \in Updating =>
               \/ upd'[t].field # "total_time"
               \/ pc[t] \in Updating /\ upd'[t] = upd[t] /\ msg'[t] = msg[t]
    PROVE  WritesTimed'
BY DEF WritesTimed, Serves

LEMMA TimesMeasured ==
    ASSUME BaseOK, TableInv, WritesTimed, NEW t \in Threads, EndChange(t) \/ ReadTable(t)
    PROVE  WritesTimed'
<1>1. PICK d \in ElapsedTimes \union (IF tReaders \subseteq {t} THEN {} ELSE RacedTimes) :
          CallUpdate(t, "total_time", d, "table_exit")
    BY DEF EndChange, ReadTable, CallIncreaseTime
<1>2. /\ UNCHANGED msg
      /\ upd' = [upd EXCEPT ![t] = [field |-> "total_time", by |-> d, then |-> "table_exit"]]
      /\ pc' = [pc EXCEPT ![t] = "upd_enter"]
      /\ InTable(t)
    BY <1>1 DEF EndChange, ReadTable, CallUpdate, Goto, InTable
<1>3. Serves(t, Writing) => d \in ElapsedTimes
    <2> SUFFICES ASSUME Serves(t, Writing) PROVE d \in ElapsedTimes
        OBVIOUS
    <2>1. t \in tWriters
        BY <1>2 DEF TableInv
    <2>2. tReaders = {}
        BY <2>1 DEF TableInv, TableLock!Exclusive
    <2> QED
        BY <2>2
<1>4. upd'[t].by = d /\ \A u \in Threads \ {t} : upd'[u] = upd[u] /\ pc'[u] = pc[u]
    BY <1>2 DEF BaseOK
<1> QED
    BY <1>2, <1>3, <1>4 DEF WritesTimed, Serves

LEMMA TimesInductive == BaseOK /\ TableInv /\ WritesTimed /\ [Next]_vars => WritesTimed'
<1> SUFFICES ASSUME BaseOK, TableInv, WritesTimed, [Next]_vars PROVE WritesTimed'
    OBVIOUS
<1>1. CASE UNCHANGED vars
    BY <1>1 DEF WritesTimed, Serves, vars, locals
<1>2. ASSUME NEW t \in Threads, Client(t) \/ Run(t) PROVE WritesTimed'
    <2>1. CASE EndChange(t) \/ ReadTable(t)
        BY <2>1, TimesMeasured
    <2>2. CASE Dying(t)
        BY <2>2 DEF Dying, ScanOutOfBounds, DanglingRead, Die, WritesTimed, Updating, UpdateUnstored
    <2>3. CASE Update(t)
        <3>1. /\ UNCHANGED msg
              /\ \A u \in Threads \ {t} : pc'[u] = pc[u] /\ upd'[u] = upd[u]
              /\ pc[t] \in Updating
            BY <2>3 DEF Update, UpdateEnter, UpdateLoad, UpdateStore, UpdateExit, Goto, locals, BaseOK,
                        Updating, UpdateUnstored
        <3>2. CASE UpdateExit(t)
            <4>1. upd[t].then \in {"recv", "free", "access", "table_exit"}
                BY <3>1, CallFacts
            <4> QED
                BY <3>1, <3>2, <4>1, TimesKept DEF UpdateExit, Goto, BaseOK, Updating, UpdateUnstored
        <3>3. CASE ~UpdateExit(t)
            BY <2>3, <3>1, <3>3, TimesKept DEF Update, UpdateEnter, UpdateLoad, UpdateStore, locals
        <3> QED
            BY <3>2, <3>3
    <2>4. CASE Connect(t) \/ Close(t) \/ EnterTable(t)
        <3>1. UNCHANGED msg /\ \A u \in Threads \ {t} : pc'[u] = pc[u] /\ upd'[u] = upd[u]
            BY <2>4 DEF Connect, Close, EnterTable, CallUpdate, Goto, BaseOK
        <3>2. upd'[t].field # "total_time"
            BY <2>4 DEF Connect, Close, EnterTable, CallUpdate, BaseOK
        <3> QED
            BY <3>1, <3>2, TimesKept
    <2>5. CASE Quietly(t) \/ Stats(t)
        <3>1. /\ \A u \in Threads \ {t} : pc'[u] = pc[u] /\ upd'[u] = upd[u]
              /\ pc'[t] \notin Updating
            <4>1. CASE Quietly(t)
                BY <4>1, QuietActions DEF Quiet, Goto, BaseOK
            <4>2. CASE Stats(t)
                BY <4>2 DEF Stats, StatsEnter, CopyStats, CopyField, StatsExit, Goto, locals, BaseOK,
                            Updating, UpdateUnstored
            <4> QED
                BY <2>5, <4>1, <4>2
        <3>2. \A u \in Threads \ {t} : msg'[u] = msg[u]
            BY <2>5 DEF Quietly, Receive, Hangup, Send, Refuse, BeginChange, ExitTable, CountKeys,
                        CountEntries, ScanEntries, Stats, StatsEnter, CopyStats, CopyField, StatsExit,
                        locals, TableInv
        <3> QED
            BY <3>1, <3>2, TimesKept
    <2> QED
        BY <1>2, <2>1, <2>2, <2>3, <2>4, <2>5 DEF Client, Run, Invoke, Quietly, Stats, Dying
<1> QED
    BY <1>1, <1>2 DEF Next, Done

\* PUT and DEL add to total_time what they took: while they hold the write
\* section no other operation writes the global tv (table_skel.c:35).
THEOREM WriteTimesKept == Spec => []WritesTimed
<1>1. Init => WritesTimed
    BY DEF Init, WritesTimed, Updating, UpdateUnstored
<1> QED
    BY <1>1, TableInvariant, TimesInductive, PTL DEF Spec
-----------------------------------------------------------------------------
(* Type correctness.                                                       *)

\* What BaseOK and TableInv do not say of the types; a thread that dies takes all
\* of them with it.
RestOK ==
    /\ table \in [Keys -> Values \union {Absent}]
    /\ TableLock!TypeOK /\ StatsLock!TypeOK
    /\ events \in [Threads -> 0..MaxEvents]
    /\ stats["n_clientes"] >= 0 /\ stats["n_operacoes"] >= 0
    /\ (\E t \in Threads : pc[t] = "dead") => \A t \in Threads : pc[t] = "dead"

LEMMA TableTyped ==
    ASSUME TableInv, RestOK, NEW t \in Threads, EndChange(t)
    PROVE  table' \in [Keys -> Values \union {Absent}]
<1>1. PICK r \in msg[t] : table' = Changed(r)
    BY DEF EndChange
<1>2. r \in AllRequests /\ r[1] \in Writing
    BY <1>1, TableSkelAssumption DEF TableSkelAssumption, EndChange, Serves, TableInv, MsgOK
<1>3. CASE r[1] = "PUT"
    <2>1. r \in {"PUT"} \X Keys \X Values
        BY <1>2, <1>3 DEF AllRequests
    <2>2. r[3] \in Values
        BY <2>1
    <2> QED
        BY <1>1, <1>3, <2>2 DEF Changed, RestOK
<1>4. CASE r[1] # "PUT"
    BY <1>1, <1>4 DEF Changed, RestOK
<1> QED
    BY <1>3, <1>4

LEMMA RestKept ==
    ASSUME StatsInv, TableInv, ClientsInv, ClientsInv', RestOK, NEW t \in Threads, Client(t) \/ Run(t)
    PROVE  RestOK'
<1> USE DEF RestOK
<1>1. table' \in [Keys -> Values \union {Absent}]
    <2>1. CASE EndChange(t)
        BY <2>1, TableTyped
    <2>2. CASE UNCHANGED table
        BY <2>2
    <2> QED
        BY <2>1, <2>2
           DEF Client, Connect, Receive, Hangup, Run, Invoke, Refuse, EnterTable, BeginChange, ReadTable,
               ExitTable, CountKeys, CountEntries, ScanEntries, ScanOutOfBounds, DanglingRead, StatsEnter,
               CopyStats, CopyField, StatsExit, Update, UpdateEnter, UpdateLoad, UpdateStore, UpdateExit,
               Send, Close
<1>2. TableLock!TypeOK'
    <2>1. CASE EnterTable(t) \/ ExitTable(t)
        BY <2>1 DEF EnterTable, ExitTable, TableLock!BeginRead, TableLock!BeginWrite, TableLock!EndRead,
                    TableLock!EndWrite, TableLock!TypeOK
    <2>2. CASE UNCHANGED table_locks
        BY <2>2 DEF table_locks, TableLock!TypeOK
    <2> QED
        BY <2>1, <2>2
           DEF Client, Connect, Receive, Hangup, Run, Invoke, Refuse, BeginChange, EndChange, ReadTable,
               CountKeys, CountEntries, ScanEntries, ScanOutOfBounds, DanglingRead, StatsEnter,
               CopyStats, CopyField, StatsExit, Update, UpdateEnter, UpdateLoad, UpdateStore, UpdateExit,
               Send, Close
<1>3. StatsLock!TypeOK'
    <2>1. CASE UpdateEnter(t) \/ UpdateExit(t) \/ StatsEnter(t) \/ StatsExit(t)
        BY <2>1 DEF UpdateEnter, UpdateExit, StatsEnter, StatsExit, StatsLock!BeginRead,
                    StatsLock!BeginWrite, StatsLock!EndRead, StatsLock!EndWrite, StatsLock!TypeOK
    <2>2. CASE UNCHANGED stats_locks
        BY <2>2 DEF stats_locks, StatsLock!TypeOK
    <2> QED
        BY <2>1, <2>2
           DEF Client, Connect, Receive, Hangup, Run, Invoke, Refuse, EnterTable, BeginChange, EndChange,
               ReadTable, ExitTable, CountKeys, CountEntries, ScanEntries, ScanOutOfBounds, DanglingRead,
               CopyStats, CopyField, Update, UpdateLoad, UpdateStore, Send, Close
<1>4. events' \in [Threads -> 0..MaxEvents]
    <2>1. CASE Connect(t) \/ Receive(t)
        BY <2>1, TableSkelAssumption DEF TableSkelAssumption, Connect, Receive
    <2>2. CASE UNCHANGED events
        BY <2>2
    <2> QED
        BY <2>1, <2>2
           DEF Client, Hangup, Run, Invoke, Refuse, EnterTable, BeginChange, EndChange, ReadTable,
               ExitTable, CountKeys, CountEntries, ScanEntries, ScanOutOfBounds, DanglingRead, StatsEnter,
               CopyStats, CopyField, StatsExit, Update, UpdateEnter, UpdateLoad, UpdateStore, UpdateExit,
               Send, Close
<1>5. (\E u \in Threads : pc'[u] = "dead") => \A u \in Threads : pc'[u] = "dead"
    <2>1. CASE Dying(t)
        BY <2>1 DEF Dying, ScanOutOfBounds, DanglingRead, Die
    <2>2. CASE ~Dying(t)
        <3>1. pc[t] # "dead" /\ pc'[t] # "dead" /\ \A u \in Threads \ {t} : pc'[u] = pc[u]
            <4>1. CASE Quiet(t) \/ Calls(t)
                BY <4>1 DEF Quiet, Calls, Goto, StatsInv, BaseOK
            <4>2. CASE Update(t)
                <5>1. pc[t] = "upd_exit" => upd[t].then \in {"recv", "free", "access", "table_exit"}
                    BY CallFacts DEF Updating, StatsInv
                <5> QED
                    BY <4>2, <5>1 DEF Update, UpdateEnter, UpdateLoad, UpdateStore, UpdateExit, Goto,
                                      StatsInv, BaseOK
            <4>3. CASE Stats(t)
                BY <4>3 DEF Stats, StatsEnter, CopyStats, CopyField, StatsExit, Goto, StatsInv, BaseOK
            <4> QED
                BY <2>2, <4>1, <4>2, <4>3, QuietActions, CallingActions
                   DEF Client, Run, Invoke, Quietly, Calling, Dying, Stats, StatsInv
        <3> QED
            BY <3>1
    <2> QED
        BY <2>1, <2>2
<1>6. stats'["n_clientes"] >= 0 /\ stats'["n_operacoes"] >= 0
    <2>1. CASE UpdateStore(t)
        <3>1. /\ pc'[t] # "dead"
              /\ stats' = [stats EXCEPT ![upd[t].field] = current[t] + upd[t].by]
              /\ current[t] = stats[upd[t].field]
            BY <2>1 DEF UpdateStore, Goto, StatsInv, BaseOK, LoadedInv
        <3>2. \A u \in Threads : pc'[u] # "dead"
            BY <1>5, <3>1
        <3>3. IsFiniteSet({u \in Threads : CountsItsClient(u)'})
            BY TableSkelAssumption, FS_Subset DEF TableSkelAssumption
        <3>4. stats'["n_clientes"] >= 0
            BY <3>2, <3>3, FS_CardinalityType DEF ClientsInv, ClientsCounted
        <3>5. upd[t].field = "n_operacoes" => upd[t].by = 1
            BY <2>1, TableSkelAssumption
               DEF TableSkelAssumption, UpdateStore, StatsInv, BaseOK, StatsCalls, Updating, UpdateUnstored
        <3> QED
            BY <3>1, <3>4, <3>5 DEF StatsInv, BaseOK, Fields
    <2>2. CASE UNCHANGED stats
        BY <2>2
    <2> QED
        BY <2>1, <2>2
           DEF Client, Connect, Receive, Hangup, Run, Invoke, Refuse, EnterTable, BeginChange, EndChange,
               ReadTable, ExitTable, CountKeys, CountEntries, ScanEntries, ScanOutOfBounds, DanglingRead,
               StatsEnter, CopyStats, CopyField, StatsExit, Update, UpdateEnter, UpdateLoad, UpdateExit,
               Send, Close
<1> QED
    BY <1>1, <1>2, <1>3, <1>4, <1>5, <1>6

\* Every reachable state is type correct; n_clientes and n_operacoes are never
\* negative, whatever way connections end (stats.c:14).
THEOREM SkeletonTyped == Spec => []TypeOK
<1>1. Init => RestOK
    BY TableSkelAssumption DEF TableSkelAssumption, Init, RestOK, TableLock!Init, TableLock!TypeOK,
       StatsLock!Init, StatsLock!TypeOK, Fields
<1>2. StatsInv /\ TableInv /\ ClientsInv /\ ClientsInv' /\ RestOK /\ [Next]_vars => RestOK'
    <2> SUFFICES ASSUME StatsInv, TableInv, ClientsInv, ClientsInv', RestOK, [Next]_vars PROVE RestOK'
        OBVIOUS
    <2>1. CASE UNCHANGED vars
        BY <2>1 DEF RestOK, vars, table_locks, stats_locks, TableLock!TypeOK, StatsLock!TypeOK
    <2> QED
        BY <2>1, RestKept DEF Next, Done
<1>3. Spec => [](StatsInv /\ ClientsInv /\ TableInv)
    <2>1. Spec => []ClientsInv
        BY ClientsInitial, ClientsInductive, PTL DEF Spec
    <2>2. ClientsInv => StatsInv
        BY DEF ClientsInv
    <2> QED
        BY <2>1, <2>2, TableInvariant, PTL
<1>4. BaseOK /\ TableInv /\ RestOK => TypeOK
    BY DEF BaseOK, TableInv, RestOK, TypeOK, MsgOK
<1>5. StatsInv => BaseOK
    BY DEF StatsInv
<1> QED
    BY <1>1, <1>2, <1>3, <1>4, <1>5, PTL DEF Spec

-----------------------------------------------------------------------------
(***************************************************************************)
(* TableSkel implements KVStore for any connections, keys, values and      *)
(* requests.  A request takes effect where the operation reads the table   *)
(* or ends its change of it; each other step of the server is the arrival  *)
(* of a request, its end, or no step of the store.                         *)
(***************************************************************************)

\* Where a thread is, or returns to from a function of stats.c.
Where(t) == IF pc[t] \in Updating THEN upd[t].then ELSE pc[t]

\* A request has an answer from the access to the table, or from StatsEnter,
\* until it is sent, and the answer is to that request.
ServedOK(t) ==
    /\ Where(t) \in {"free", "recv", "close"} => msg[t] = {} /\ reply[t] = {}
    /\ Where(t) \in {"dispatch", "access", "update_end"} => msg[t] # {} /\ reply[t] = {}
    /\ Where(t) \in {"table_exit", "count_entries", "scan_entries", "send"} \union ReadingStats =>
          \E r, a : r \in Inputs /\ msg[t] = {r} /\ reply[t] = {a} /\ a[1] = r[1] /\ r[1] # "BAD"
    /\ Where(t) \in ReadingStats => Serves(t, {"STATS"})
    /\ Where(t) = "scan_entries" => Serves(t, {"GETTABLE"})

ServedInv == reply = [t \in Threads |-> reply[t]] /\ \A t \in Threads : ServedOK(t)

\* What every step of a thread leaves of the others.
LEMMA OthersKept ==
    ASSUME BaseOK, TableInv, ServedInv, NEW t \in Threads, Client(t) \/ Run(t), ~Dying(t)
    PROVE  /\ \A u \in Threads \ {t} :
                  pc'[u] = pc[u] /\ upd'[u] = upd[u] /\ msg'[u] = msg[u] /\ reply'[u] = reply[u]
           /\ reply' = [u \in Threads |-> reply'[u]]
<1> USE DEF Goto, CallUpdate, Answer, locals, BaseOK, TableInv, ServedInv
<1>1. CASE Client(t) \/ Send(t) \/ Close(t) \/ Update(t)
    BY <1>1 DEF Client, Connect, Receive, Hangup, Send, Close, Update, UpdateEnter, UpdateLoad,
                UpdateStore, UpdateExit
<1>2. CASE Refuse(t) \/ EnterTable(t) \/ BeginChange(t) \/ ExitTable(t) \/ Stats(t)
    BY <1>2 DEF Refuse, EnterTable, BeginChange, ExitTable, Stats, StatsEnter, CopyStats, CopyField,
                StatsExit
<1>3. CASE EndChange(t) \/ ReadTable(t)
    <2>1. \E a : Answer(t, a)
        BY <1>3 DEF EndChange, ReadTable
    <2> QED
        BY <1>3, <2>1 DEF EndChange, ReadTable, CallIncreaseTime
<1>4. CASE CountKeys(t) \/ CountEntries(t) \/ ScanEntries(t)
    BY <1>4 DEF CountKeys, CountEntries, ScanEntries
<1> QED
    BY <1>1, <1>2, <1>3, <1>4 DEF Run, Invoke, Stats, Dying

\* ... so that only the thread that takes the step has to be looked at.
LEMMA ServedKept ==
    ASSUME BaseOK, TableInv, ServedInv, NEW t \in Threads, Client(t) \/ Run(t), ~Dying(t), ServedOK(t)'
    PROVE  ServedInv'
<1>1. ASSUME NEW u \in Threads \ {t} PROVE ServedOK(u)'
    <2>1. Where(u)' = Where(u) /\ \A ops : Serves(u, ops)' <=> Serves(u, ops)
        BY OthersKept DEF Where, Serves
    <2> QED
        BY <2>1, OthersKept DEF ServedOK, ServedInv
<1> QED
    BY <1>1, OthersKept DEF ServedInv

\* A function of stats.c leaves a thread where it was called.
LEMMA WhereUpdating ==
    ASSUME BaseOK, TableInv, ServedInv, NEW t \in Threads, Update(t)
    PROVE  ServedOK(t)'
<1>1. Where(t)' = Where(t) /\ msg'[t] = msg[t] /\ reply'[t] = reply[t]
    <2>1. upd[t].then \notin Updating
        BY CallFacts DEF Update, UpdateEnter, UpdateLoad, UpdateStore, UpdateExit, Updating, UpdateUnstored
    <2> QED
        BY <2>1 DEF Update, UpdateEnter, UpdateLoad, UpdateStore, UpdateExit, Goto, locals, BaseOK,
                    Updating, UpdateUnstored, Where
<1> QED
    BY <1>1 DEF ServedInv, ServedOK, Serves

LEMMA ServedOutside ==
    ASSUME BaseOK, TableInv, ServedInv, NEW t \in Threads,
           Client(t) \/ Send(t) \/ Close(t) \/ Refuse(t) \/ EnterTable(t) \/ BeginChange(t) \/ ExitTable(t)
    PROVE  ServedOK(t)'
<1> USE DEF BaseOK, TableInv, ServedInv, ServedOK, Where, Goto, CallUpdate, locals, Serves, ReadingStats,
            Copying, Updating, UpdateUnstored
<1>1. CASE Connect(t) \/ Close(t) \/ Hangup(t)
    BY <1>1 DEF Connect, Close, Hangup
<1>2. CASE Receive(t)
    BY <1>2 DEF Receive
<1>3. CASE Send(t) \/ Refuse(t)
    BY <1>3 DEF Send, Refuse
<1>4. CASE EnterTable(t) \/ BeginChange(t)
    BY <1>4 DEF EnterTable, BeginChange
<1>5. CASE ExitTable(t)
    BY <1>5 DEF ExitTable
<1> QED
    BY <1>1, <1>2, <1>3, <1>4, <1>5 DEF Client

\* An operation leaves an answer to the request it serves.
LEMMA Answered ==
    ASSUME BaseOK, TableInv, ServedInv, NEW t \in Threads,
           EndChange(t) \/ ReadTable(t) \/ CountKeys(t) \/ ScanEntries(t) \/ StatsEnter(t) \/ CopyStats(t)
    PROVE  \E r, a : /\ r \in Inputs /\ msg[t] = {r} /\ UNCHANGED msg
                     /\ reply' = [reply EXCEPT ![t] = {a}]
                     /\ a[1] = r[1] /\ r[1] # "BAD"
<1>1. UNCHANGED msg
    BY DEF EndChange, ReadTable, CountKeys, ScanEntries, StatsEnter, CopyStats, CopyField
<1>2. PICK r \in Inputs : msg[t] = {r}
    BY DEF EndChange, ReadTable, CountKeys, ScanEntries, StatsEnter, CopyStats, CopyField, Serves,
           ServedInv, ServedOK, Where, Updating, UpdateUnstored, ReadingStats, Copying, TableInv, MsgOK
<1>3. CASE EndChange(t)
    <2>1. r[1] \in Writing
        BY <1>2, <1>3 DEF EndChange, TableInv, Serves
    <2>2. Answer(t, IF r[1] = "PUT" THEN <<"PUT">> ELSE <<"DEL", table[r[2]] # Absent>>)
        BY <1>2, <1>3 DEF EndChange
    <2>3. (IF r[1] = "PUT" THEN <<"PUT">> ELSE <<"DEL", table[r[2]] # Absent>>)[1] = r[1]
        BY <2>1 DEF Writing
    <2> QED
        BY <1>1, <1>2, <2>1, <2>2, <2>3 DEF Answer, Writing
<1>4. CASE ReadTable(t)
    <2>1. PICK tab \in Glimpses :
             \/ r[1] = "GET"      /\ Answer(t, <<"GET", tab[r[2]]>>)
             \/ r[1] = "SIZE"     /\ Answer(t, <<"SIZE", Cardinality(Stored(tab))>>)
             \/ r[1] = "GETKEYS"  /\ Answer(t, <<"GETKEYS", Stored(tab), 0>>)
             \/ r[1] = "GETTABLE" /\ Answer(t, <<"GETTABLE", {}, Cardinality(Stored(tab))>>)
        BY <1>2, <1>4 DEF ReadTable
    <2> QED
        BY <1>1, <1>2, <2>1 DEF Answer
<1>5. CASE CountKeys(t) \/ ScanEntries(t)
    <2>1. CASE CountKeys(t)
        BY <1>1, <1>2, <2>1 DEF CountKeys, Serves, Answer
    <2>2. CASE ScanEntries(t)
        <3>1. PICK used, n : Answer(t, <<"GETTABLE", used, n>>)
            BY <2>2 DEF ScanEntries
        <3>2. r[1] = "GETTABLE"
            BY <1>2, <2>2 DEF ScanEntries, Serves, ServedInv, ServedOK, Where, Updating, UpdateUnstored
        <3> QED
            BY <1>1, <1>2, <3>1, <3>2 DEF Answer
    <2> QED
        BY <1>5, <2>1, <2>2
<1>6. CASE StatsEnter(t) \/ CopyStats(t)
    <2>1. r[1] = "STATS"
        BY <1>2, <1>6 DEF StatsEnter, CopyStats, CopyField, Serves, ServedInv, ServedOK, Where, Updating,
                          UpdateUnstored, ReadingStats, Copying
    <2>2. PICK s : Answer(t, <<"STATS", s>>)
        BY <1>6 DEF StatsEnter, CopyStats, CopyField
    <2> QED
        BY <1>1, <1>2, <2>1, <2>2 DEF Answer
<1> QED
    BY <1>3, <1>4, <1>5, <1>6

LEMMA ServedInside ==
    ASSUME BaseOK, TableInv, ServedInv, NEW t \in Threads,
           EndChange(t) \/ ReadTable(t) \/ CountKeys(t) \/ CountEntries(t) \/ ScanEntries(t) \/ Stats(t)
    PROVE  ServedOK(t)'
<1> USE DEF Updating, UpdateUnstored, ReadingStats, Copying
<1>1. CASE EndChange(t) \/ ReadTable(t)
    <2>1. Where(t)' = "table_exit"
        BY <1>1 DEF EndChange, ReadTable, CallIncreaseTime, CallUpdate, Goto, BaseOK, Where
    <2> QED
        BY <1>1, <2>1, Answered DEF ServedOK, ServedInv
<1>2. CASE CountKeys(t) \/ ScanEntries(t)
    <2>1. Where(t)' = "send"
        BY <1>2 DEF CountKeys, ScanEntries, Goto, BaseOK, Where
    <2> QED
        BY <1>2, <2>1, Answered DEF ServedOK, ServedInv
<1>3. CASE CountEntries(t)
    <2>1. Where(t) = "count_entries" /\ Where(t)' = "scan_entries" /\ UNCHANGED <<msg, reply>>
        BY <1>3 DEF CountEntries, Goto, BaseOK, Where
    <2> QED
        BY <1>3, <2>1 DEF CountEntries, ServedOK, ServedInv, Serves
<1>4. CASE StatsEnter(t) \/ CopyStats(t)
    <2>1. Where(t)' \in ReadingStats
        BY <1>4 DEF StatsEnter, CopyStats, CopyField, Goto, BaseOK, Where
    <2>2. Serves(t, {"STATS"}) /\ UNCHANGED msg
        BY <1>4 DEF StatsEnter, CopyStats, CopyField, ServedInv, ServedOK, Where
    <2> QED
        BY <1>4, <2>1, <2>2, Answered DEF ServedOK, ServedInv, Serves
<1>5. CASE StatsExit(t)
    <2>1. Where(t) = "stats_exit" /\ Where(t)' = "send" /\ UNCHANGED <<msg, reply>>
        BY <1>5 DEF StatsExit, Goto, BaseOK, Where, locals
    <2> QED
        BY <2>1 DEF ServedOK, ServedInv, Serves
<1> QED
    BY <1>1, <1>2, <1>3, <1>4, <1>5 DEF Stats

LEMMA ServedInductive == BaseOK /\ TableInv /\ ServedInv /\ [Next]_vars => ServedInv'
<1> SUFFICES ASSUME BaseOK, TableInv, ServedInv, [Next]_vars PROVE ServedInv'
    OBVIOUS
<1>1. CASE UNCHANGED vars
    BY <1>1 DEF ServedInv, ServedOK, Where, Serves, vars, locals
<1>2. ASSUME NEW t \in Threads, Client(t) \/ Run(t) PROVE ServedInv'
    <2>1. CASE Dying(t)
        <3>1. UNCHANGED reply /\ \A u \in Threads : Where(u)' = "dead"
            BY <2>1 DEF Dying, ScanOutOfBounds, DanglingRead, Die, locals, Where, Updating, UpdateUnstored
        <3> QED
            BY <3>1 DEF ServedInv, ServedOK, ReadingStats, Copying
    <2>2. CASE ~Dying(t)
        <3>1. ServedOK(t)'
            BY <1>2, <2>2, WhereUpdating, ServedOutside, ServedInside
               DEF Run, Invoke, Stats, Dying
        <3> QED
            BY <1>2, <2>2, <3>1, ServedKept
    <2> QED
        BY <2>1, <2>2
<1> QED
    BY <1>1, <1>2 DEF Next, Done

-----------------------------------------------------------------------------
(* The step simulation.                                                    *)

\* What the store knows of the request and of the answer of a connection.
Request(m) == {KVRequest(r) : r \in {q \in m : q[1] \in KVOps}}
KVAnswer(p) == {a \in p : a[1] \in KVOps}

LEMMA RequestOf ==
    ASSUME NEW r
    PROVE  /\ r[1] \in KVOps => Request({r}) = {KVRequest(r)}
           /\ r[1] \notin KVOps => Request({r}) = {}
           /\ r[1] \in KVOps => KVAnswer({r}) = {r}
           /\ r[1] \notin KVOps => KVAnswer({r}) = {}
           /\ Request({}) = {} /\ KVAnswer({}) = {}
BY DEF Request, KVAnswer

LEMMA RequestTyped ==
    ASSUME NEW r \in Inputs, r[1] \in KVOps
    PROVE  KVRequest(r) \in KV!Requests /\ KVRequest(r)[1] = r[1]
<1>1. r \in AllRequests
    BY TableSkelAssumption DEF TableSkelAssumption
<1>2. CASE r[1] \in {"SIZE", "BAD"}
    BY <1>2 DEF KVRequest, KV!Requests
<1>3. CASE r[1] \in {"PUT", "GET", "DEL"}
    <2>1. r \in ({"PUT"} \X Keys \X Values) \union ({"GET", "DEL"} \X Keys)
        BY <1>1, <1>3 DEF AllRequests
    <2> QED
        BY <1>3, <2>1 DEF KVRequest, KV!Requests
<1> QED
    BY <1>2, <1>3 DEF KVOps

\* A step that changes nothing the store knows is no step of it.
LEMMA NoStep ==
    ASSUME UNCHANGED table,
           \A t \in Threads : /\ Request(msg'[t]) = Request(msg[t])
                              /\ KVAnswer(reply'[t]) = KVAnswer(reply[t])
    PROVE  UNCHANGED KV!vars
BY DEF KV!vars, Request, KVAnswer

\* What the store sees of the other connections does not change.
Others(t) == \A u \in Threads \ {t} : /\ Request(msg'[u]) = Request(msg[u])
                                      /\ KVAnswer(reply'[u]) = KVAnswer(reply[u])

LEMMA ArriveStep ==
    ASSUME BaseOK, TableInv, ServedInv, NEW t \in Threads, Receive(t)
    PROVE  KV!Arrive(t) \/ UNCHANGED KV!vars
<1>1. PICK r \in Inputs : msg' = [msg EXCEPT ![t] = {r}]
    BY DEF Receive
<1>2. msg[t] = {} /\ reply[t] = {} /\ UNCHANGED <<table, reply>>
    BY DEF Receive, ServedInv, ServedOK, Where, Updating, UpdateUnstored
<1>3. msg'[t] = {r} /\ \A u \in Threads \ {t} : msg'[u] = msg[u]
    BY <1>1 DEF TableInv
<1>4. CASE r[1] \in KVOps
    <2>1. Request(msg[t]) = {} /\ Request(msg'[t]) = {KVRequest(r)} /\ KVRequest(r) \in KV!Requests
        BY <1>2, <1>3, <1>4, RequestOf, RequestTyped
    <2>2. KV!Arrive(t)
        BY <1>2, <1>3, <2>1 DEF KV!Arrive, Request, KVAnswer
    <2> QED
        BY <2>2
<1>5. CASE r[1] \notin KVOps
    <2>1. Request(msg[t]) = {} /\ Request(msg'[t]) = {}
        BY <1>2, <1>3, <1>5, RequestOf
    <2> QED
        BY <1>2, <1>3, <2>1, NoStep
<1> QED
    BY <1>4, <1>5

LEMMA FinishStep ==
    ASSUME BaseOK, TableInv, ServedInv, NEW t \in Threads, Send(t) \/ Refuse(t)
    PROVE  KV!Finish(t) \/ UNCHANGED KV!vars
<1>1. PICK r \in Inputs : msg[t] = {r}
    BY DEF Send, Refuse, Serves, ServedInv, ServedOK, Where, Updating, UpdateUnstored, TableInv, MsgOK
<1>2. /\ UNCHANGED table
      /\ msg'[t] = {} /\ reply'[t] = {}
      /\ \A u \in Threads \ {t} : msg'[u] = msg[u] /\ reply'[u] = reply[u]
    BY DEF Send, Refuse, TableInv, ServedInv, ServedOK, Where, Updating, UpdateUnstored
<1>3. Request(msg'[t]) = {} /\ KVAnswer(reply'[t]) = {}
    BY <1>2, RequestOf
<1>4. CASE r[1] \notin KVOps
    <2>1. Request(msg[t]) = {} /\ KVAnswer(reply[t]) = {}
        BY <1>1, <1>4, RequestOf
           DEF Send, Refuse, ServedInv, ServedOK, Where, Updating, UpdateUnstored, KVOps, Serves
    <2> QED
        BY <1>2, <1>3, <2>1, NoStep
<1>5. CASE r[1] \in KVOps
    <2>1. KVAnswer(reply[t]) # {} \/ <<"BAD">> \in Request(msg[t])
        <3>1. CASE Send(t)
            <4>1. PICK a : reply[t] = {a} /\ a[1] = r[1]
                BY <1>1, <3>1 DEF Send, ServedInv, ServedOK, Where, Updating, UpdateUnstored
            <4> QED
                BY <1>5, <4>1, RequestOf
        <3>2. CASE Refuse(t)
            <4>1. r[1] = "BAD"
                BY <1>1, <3>2 DEF Refuse, Serves
            <4> QED
                BY <1>1, <1>5, <4>1, RequestOf DEF KVRequest
        <3> QED
            BY <3>1, <3>2
    <2>2. KV!Finish(t)
        BY <1>2, <1>3, <2>1 DEF KV!Finish, Request, KVAnswer
    <2> QED
        BY <2>2
<1> QED
    BY <1>4, <1>5

\* A reader in its section finds the table as it is.
LEMMA NoGlimpse ==
    ASSUME TableInv, NEW t \in Threads, ReadTable(t)
    PROVE  Glimpses = {table}
<1>1. pc[t] = "access"
    BY DEF ReadTable
<1>2. \A u \in Threads : pc[u] # "update_end"
    BY <1>1, Alone DEF ChangesAlone
<1>3. Changing = {}
    BY <1>2 DEF Changing
<1> QED
    BY <1>3 DEF Glimpses

LEMMA EffectStep ==
    ASSUME BaseOK, TableInv, ServedInv, NEW t \in Threads, EndChange(t) \/ ReadTable(t)
    PROVE  KV!TakeEffect(t) \/ UNCHANGED KV!vars
<1>1. PICK r, a : /\ r \in Inputs /\ msg[t] = {r} /\ UNCHANGED msg
                 /\ reply' = [reply EXCEPT ![t] = {a}]
                 /\ a[1] = r[1] /\ r[1] # "BAD"
    BY Answered
<1>2. reply[t] = {} /\ reply'[t] = {a} /\ \A u \in Threads \ {t} : reply'[u] = reply[u]
    BY <1>1 DEF EndChange, ReadTable, ServedInv, ServedOK, Where, Updating, UpdateUnstored
<1>3. r \in AllRequests
    BY <1>1, TableSkelAssumption DEF TableSkelAssumption
<1>4. CASE r[1] \notin KVOps
    <2>1. UNCHANGED table
        BY <1>1, <1>4 DEF EndChange, ReadTable, TableInv, Serves, Writing, KVOps
    <2>2. KVAnswer(reply[t]) = {} /\ KVAnswer(reply'[t]) = {}
        BY <1>1, <1>2, <1>4, RequestOf
    <2> QED
        BY <1>1, <1>2, <2>1, <2>2, NoStep
<1>5. CASE r[1] \in KVOps
    <2> DEFINE q == KVRequest(r)
    <2>1. table' = KV!Effect(table, q) /\ a = KV!Result(table, q)
        <3>1. CASE EndChange(t)
            <4>1. /\ table' = Changed(r)
                  /\ Answer(t, IF r[1] = "PUT" THEN <<"PUT">> ELSE <<"DEL", table[r[2]] # Absent>>)
                  /\ r[1] \in Writing
                BY <1>1, <3>1 DEF EndChange, TableInv, Serves
            <4>2. a = IF r[1] = "PUT" THEN <<"PUT">> ELSE <<"DEL", table[r[2]] # Absent>>
                BY <1>2, <4>1 DEF Answer, ServedInv
            <4>3. q = r /\ r[2] \in Keys
                BY <1>3, <4>1 DEF KVRequest, Writing, AllRequests
            <4>4. (r[2] \in KV!Stored(table)) = (table[r[2]] # Absent)
                BY <4>3 DEF KV!Stored
            <4>5. CASE r[1] = "PUT"
                BY <4>1, <4>2, <4>3, <4>5 DEF Changed, KV!Effect, KV!Result
            <4>6. CASE r[1] = "DEL"
                BY <4>1, <4>2, <4>3, <4>4, <4>6 DEF Changed, KV!Effect, KV!Result
            <4> QED
                BY <4>1, <4>5, <4>6 DEF Writing
        <3>2. CASE ReadTable(t)
            <4>1. /\ UNCHANGED table
                  /\ \/ r[1] = "GET"      /\ Answer(t, <<"GET", table[r[2]]>>)
                     \/ r[1] = "SIZE"     /\ Answer(t, <<"SIZE", Cardinality(Stored(table))>>)
                BY <1>1, <1>5, <3>2, NoGlimpse DEF ReadTable, KVOps
            <4>2. \/ r[1] = "GET"  /\ a = <<"GET", table[r[2]]>>
                  \/ r[1] = "SIZE" /\ a = <<"SIZE", Cardinality(Stored(table))>>
                BY <1>2, <4>1 DEF Answer, ServedInv
            <4>3. q[1] = r[1] /\ (r[1] = "GET" => q = r)
                BY <1>5, RequestTyped DEF KVRequest
            <4>4. KV!Stored(table) = Stored(table)
                BY DEF KV!Stored, Stored
            <4>5. KV!Cardinality(Stored(table)) = Cardinality(Stored(table))
                BY DEF KV!Cardinality, Cardinality
            <4>6. KV!Result(table, q) = IF q[1] = "GET" THEN <<"GET", table[q[2]]>>
                                        ELSE <<"SIZE", Cardinality(Stored(table))>>
                <5>1. CASE q[1] = "GET"
                    BY <5>1 DEF KV!Result
                <5>2. CASE q[1] = "SIZE"
                    BY <4>4, <4>5, <5>2 DEF KV!Result
                <5> QED
                    BY <4>2, <4>3, <5>1, <5>2
            <4>7. KV!Effect(table, q) = table
                BY <4>2, <4>3 DEF KV!Effect
            <4> QED
                BY <4>1, <4>2, <4>3, <4>6, <4>7
        <3> QED
            BY <3>1, <3>2
    <2>2. /\ Request(msg[t]) = {q} /\ KVAnswer(reply[t]) = {} /\ KVAnswer(reply'[t]) = {a}
          /\ q[1] # "BAD"
        BY <1>1, <1>2, <1>5, RequestOf, RequestTyped
    <2>3. KV!TakeEffect(t)
        <3> DEFINE Asked == [u \in Threads |-> Request(msg[u])]
                   Told == [u \in Threads |-> KVAnswer(reply[u])]
        <3>1. Asked[t] = {q} /\ Told[t] = {} /\ UNCHANGED Asked
            BY <1>1, <2>2
        <3>2. Told' = [Told EXCEPT ![t] = {KV!Result(table, q)}]
            BY <1>2, <2>1, <2>2
        <3> QED
            BY <2>1, <2>2, <3>1, <3>2 DEF KV!TakeEffect, Request, KVAnswer
    <2> QED
        BY <2>3
<1> QED
    BY <1>4, <1>5

\* The other operations leave an answer that the store does not know.
LEMMA OtherStep ==
    ASSUME BaseOK, TableInv, ServedInv, NEW t \in Threads, CountKeys(t) \/ ScanEntries(t) \/ Stats(t)
    PROVE  UNCHANGED KV!vars
<1>1. UNCHANGED <<table, msg>>
    BY DEF CountKeys, ScanEntries, Stats, StatsEnter, CopyStats, CopyField, StatsExit, locals
<1>2. CASE StatsExit(t)
    BY <1>1, <1>2, NoStep DEF StatsExit, locals
<1>3. CASE ~StatsExit(t)
    <2>1. PICK r, a : /\ r \in Inputs /\ msg[t] = {r}
                     /\ reply' = [reply EXCEPT ![t] = {a}]
                     /\ a[1] = r[1]
        BY <1>3, Answered DEF Stats
    <2>2. r[1] \in {"GETKEYS", "GETTABLE", "STATS"}
        <3> USE DEF ServedInv, ServedOK, Where, Updating, UpdateUnstored, ReadingStats, Copying
        <3>1. CASE CountKeys(t)
            BY <2>1, <3>1 DEF CountKeys, Serves
        <3>2. CASE ScanEntries(t)
            BY <2>1, <3>2 DEF ScanEntries, Serves
        <3>3. CASE StatsEnter(t) \/ CopyStats(t)
            BY <2>1, <3>3 DEF StatsEnter, CopyStats, CopyField, Serves
        <3> QED
            BY <1>3, <3>1, <3>2, <3>3 DEF Stats
    <2>3. KVAnswer(reply[t]) = {}
        <3> USE DEF ServedInv, ServedOK, Where, Updating, UpdateUnstored, ReadingStats, Copying
        <3>1. CASE StatsEnter(t)
            BY <3>1, RequestOf DEF StatsEnter
        <3>2. CASE CountKeys(t) \/ ScanEntries(t) \/ CopyStats(t)
            <4>1. PICK b : reply[t] = {b} /\ b[1] = r[1]
                BY <2>1, <3>2 DEF CountKeys, ScanEntries, CopyStats, CopyField
            <4> QED
                BY <2>2, <4>1, RequestOf DEF KVOps
        <3> QED
            BY <1>3, <3>1, <3>2 DEF Stats
    <2>4. KVAnswer(reply'[t]) = {} /\ \A u \in Threads \ {t} : reply'[u] = reply[u]
        BY <2>1, <2>2, RequestOf DEF ServedInv, KVOps
    <2> QED
        BY <1>1, <2>3, <2>4, NoStep
<1> QED
    BY <1>2, <1>3

LEMMA StepSimulation ==
    BaseOK /\ TableInv /\ ServedInv /\ [Next]_vars => [KV!Next]_(KV!vars)
<1> SUFFICES ASSUME BaseOK, TableInv, ServedInv, [Next]_vars PROVE [KV!Next]_(KV!vars)
    OBVIOUS
<1>1. ASSUME UNCHANGED <<table, msg, reply>> PROVE UNCHANGED KV!vars
    BY <1>1, NoStep
<1>2. ASSUME NEW t \in Threads, Client(t) \/ Run(t)
      PROVE  KV!Arrive(t) \/ KV!TakeEffect(t) \/ KV!Finish(t) \/ UNCHANGED KV!vars
    <2>1. CASE Receive(t)
        BY <2>1, ArriveStep
    <2>2. CASE Send(t) \/ Refuse(t)
        BY <2>2, FinishStep
    <2>3. CASE EndChange(t) \/ ReadTable(t)
        BY <2>3, EffectStep
    <2>4. CASE CountKeys(t) \/ ScanEntries(t) \/ Stats(t)
        BY <2>4, OtherStep
    <2>5. CASE Connect(t) \/ Hangup(t) \/ Close(t) \/ EnterTable(t) \/ BeginChange(t) \/ ExitTable(t)
                 \/ CountEntries(t) \/ Dying(t) \/ Update(t)
        BY <1>1, <2>5 DEF Connect, Hangup, Close, EnterTable, BeginChange, ExitTable, CountEntries, Dying,
                          ScanOutOfBounds, DanglingRead, Update, UpdateEnter, UpdateLoad, UpdateStore,
                          UpdateExit, locals
    <2> QED
        BY <1>2, <2>1, <2>2, <2>3, <2>4, <2>5 DEF Client, Run, Invoke, Stats, Dying
<1>3. CASE UNCHANGED vars
    BY <1>1, <1>3 DEF vars, locals
<1> QED
    BY <1>2, <1>3 DEF Next, Done, KV!Next

\* PUT, GET, DEL and SIZE are linearizable in any number of connections, with
\* requests of any other kind beside them (the operations of invoke,
\* table_skel.c:44): a server is the map that KVStore specifies.
THEOREM ServerLinearizable == Spec => Linearizable
<1>1. Init => ServedInv
    BY DEF Init, ServedInv, ServedOK, Where, Updating, UpdateUnstored, ReadingStats, Copying
<1>2. Init => KV!Init
    BY DEF Init, KV!Init
<1> QED
    BY <1>1, <1>2, ServedInductive, StepSimulation, TableInvariant, PTL DEF Spec, Linearizable, KV!Spec
=============================================================================
