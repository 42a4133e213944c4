----------------------------- MODULE TableSkel -----------------------------
(***************************************************************************)
(* One table server: the thread of each connection (serve_conn of          *)
(* server_thread.c), the operations it invokes (table_skel.c) and the      *)
(* statistics it keeps (stats.c), over the two locks of the server.  The   *)
(* locks are instances of RWExclusion, which RWLock implements.            *)
(*                                                                         *)
(* A connection thread is in one of the main loop's slots.  Its client may *)
(* connect, send a request, or go away at any time it is not being served. *)
(* table_put and table_remove take two steps, so that a reader that is not *)
(* kept out can see a table that is being changed.  This server is the     *)
(* tail of its chain: it forwards nothing (Chain models forwarding).       *)
(***************************************************************************)
EXTENDS Integers, FiniteSets

CONSTANTS Threads,        \* the slots of the main loop, one thread each
          Keys, Values,
          Absent,         \* what a key without an entry is mapped to
          Inputs,         \* the requests clients send: a subset of AllRequests
          ElapsedTimes,   \* what timeend-timestart may be
          RacedTimes,     \* ... and when another thread writes tv meanwhile
          MaxEvents       \* bound: connections and requests of each slot's clients

AllRequests == ({"PUT"} \X Keys \X Values) \union ({"GET", "DEL"} \X Keys)
                 \union ({"SIZE", "GETKEYS", "GETTABLE", "STATS", "BAD"} \X {"-"})

ASSUME TableSkelAssumption == /\ IsFiniteSet(Threads)
                              /\ IsFiniteSet(Keys)
                              /\ Absent \notin Values
                              /\ Inputs \subseteq AllRequests
                              /\ ElapsedTimes \subseteq Nat
                              /\ RacedTimes \subseteq Int
                              /\ MaxEvents \in Nat

VARIABLES table,                \* the entry of each key
          stats,                \* the struct statistics_t
          tReaders, tWriters,   \* resources.table_locks
          sReaders, sWriters,   \* resources.stats_locks
          pc,                   \* where each thread is
          msg,                  \* {r}: the request r a thread serves, or {}
          reply,                \* {a}: the answer a it has prepared, or {}
          upd,                  \* the call of a stats.c function it is in
          current,              \* the local variables of stats.c and invoke
          events,               \* connections and requests of each slot so far
          due                   \* history: what the updates of stats were to add

table_locks == <<tReaders, tWriters>>
stats_locks == <<sReaders, sWriters>>
locals == <<msg, reply, upd, current>>
vars == <<table, stats, table_locks, stats_locks, pc, locals, events, due>>

TableLock == INSTANCE RWExclusion WITH readers <- tReaders, writers <- tWriters
StatsLock == INSTANCE RWExclusion WITH readers <- sReaders, writers <- sWriters

Fields == {"n_clientes", "n_operacoes", "total_time"}

\* Where a thread is inside increase_operations, increase_time or
\* change_client_num, before and after it stores the new value.
UpdateUnstored == {"upd_enter", "upd_load", "upd_store"}
Updating == UpdateUnstored \union {"upd_exit"}

Copying == {"copy_n_clientes", "copy_n_operacoes", "copy_total_time"}

PCs == {"free", "recv", "dispatch", "table_enter", "access", "update_end",
        "table_exit", "count_entries", "scan_entries", "stats_enter",
        "stats_exit", "send", "close", "dead"} \union Updating \union Copying

NoUpdate == [field |-> "n_clientes", by |-> 0, then |-> "free"]

Stored(tab) == {k \in Keys : tab[k] # Absent}

Init ==
    /\ table = [k \in Keys |-> Absent]
    /\ stats = [f \in Fields |-> 0]
    /\ TableLock!Init
    /\ StatsLock!Init
    /\ pc = [t \in Threads |-> "free"]
    /\ msg = [t \in Threads |-> {}]
    /\ reply = [t \in Threads |-> {}]
    /\ upd = [t \in Threads |-> NoUpdate]
    /\ current = [t \in Threads |-> 0]
    /\ events = [t \in Threads |-> 0]
    /\ due = [f \in Fields |-> 0]

Goto(t, l) == pc' = [pc EXCEPT ![t] = l]
Serves(t, ops) == \E r \in msg[t] : r[1] \in ops
Answer(t, a) == reply' = [reply EXCEPT ![t] = {a}]

-----------------------------------------------------------------------------
(* stats.c: every update is enter_write, load, store, exit_write.          *)

\* A call that adds d to field f and returns to l.
CallUpdate(t, f, d, l) ==
    /\ upd' = [upd EXCEPT ![t] = [field |-> f, by |-> d, then |-> l]]
    /\ Goto(t, "upd_enter")

\* Mutant: a statistic is updated without enter_write.
UpdateUnlocked(t) ==
    /\ pc[t] = "upd_enter"
    /\ Goto(t, "upd_load")
    /\ UNCHANGED <<table, stats, table_locks, stats_locks, locals, events, due>>

UpdateEnter(t) ==
    /\ pc[t] = "upd_enter"
    /\ StatsLock!BeginWrite(t)
    /\ Goto(t, "upd_load")
    /\ UNCHANGED <<table, stats, table_locks, locals, events, due>>

UpdateLoad(t) ==
    /\ pc[t] = "upd_load"
    /\ current' = [current EXCEPT ![t] = stats[upd[t].field]]
    /\ Goto(t, "upd_store")
    /\ UNCHANGED <<table, stats, table_locks, stats_locks, msg, reply, upd,
                   events, due>>

UpdateStore(t) ==
    /\ pc[t] = "upd_store"
    /\ stats' = [stats EXCEPT ![upd[t].field] = current[t] + upd[t].by]
    /\ due' = [due EXCEPT ![upd[t].field] = @ + upd[t].by]
    /\ current' = [current EXCEPT ![t] = 0]
    /\ Goto(t, "upd_exit")
    /\ UNCHANGED <<table, table_locks, stats_locks, msg, reply, upd, events>>

UpdateExit(t) ==
    /\ pc[t] = "upd_exit"
    /\ StatsLock!EndWrite(t)
    /\ Goto(t, upd[t].then)
    /\ upd' = [upd EXCEPT ![t] = NoUpdate]
    /\ UNCHANGED <<table, stats, table_locks, msg, reply, current, events, due>>

Update(t) == UpdateEnter(t) \/ UpdateLoad(t) \/ UpdateStore(t) \/ UpdateExit(t)

-----------------------------------------------------------------------------
(* serve_conn: the loop of a connection, and what its client does.         *)

\* Mutant: a new client is not counted in.
ConnectUncounted(t) ==
    /\ pc[t] = "free"
    /\ events[t] < MaxEvents
    /\ events' = [events EXCEPT ![t] = @ + 1]
    /\ Goto(t, "recv")
    /\ UNCHANGED <<table, stats, table_locks, stats_locks, locals, due>>

\* A client connects and the main loop starts a thread for it.
Connect(t) ==
    /\ pc[t] = "free"
    /\ events[t] < MaxEvents
    /\ events' = [events EXCEPT ![t] = @ + 1]
    /\ CallUpdate(t, "n_clientes", 1, "recv")
    /\ UNCHANGED <<table, stats, table_locks, stats_locks, msg, reply, current,
                   due>>

\* network_receive returns the client's next request.
Receive(t) ==
    /\ pc[t] = "recv"
    /\ events[t] < MaxEvents
    /\ events' = [events EXCEPT ![t] = @ + 1]
    /\ \E r \in Inputs : msg' = [msg EXCEPT ![t] = {r}]
    /\ Goto(t, "dispatch")
    /\ UNCHANGED <<table, stats, table_locks, stats_locks, reply, upd, current,
                   due>>

\* network_receive returns NULL: the client is gone.
Hangup(t) ==
    /\ pc[t] = "recv"
    /\ Goto(t, "close")
    /\ UNCHANGED <<table, stats, table_locks, stats_locks, locals, events, due>>

\* network_send writes the reply, or fails because the client is gone.
Send(t) ==
    /\ pc[t] = "send"
    /\ Goto(t, "recv") \/ Goto(t, "close")
    /\ msg' = [msg EXCEPT ![t] = {}]
    /\ reply' = [reply EXCEPT ![t] = {}]
    /\ UNCHANGED <<table, stats, table_locks, stats_locks, upd, current,
                   events, due>>

\* The loop ends on an error; the thread counts its client out and returns.
Close(t) ==
    /\ pc[t] = "close"
    /\ CallUpdate(t, "n_clientes", -1, "free")
    /\ UNCHANGED <<table, stats, table_locks, stats_locks, msg, reply, current,
                   events, due>>

-----------------------------------------------------------------------------
(* invoke: the operations on the table.                                    *)

Writing == {"PUT", "DEL"}
Reading == {"GET", "SIZE", "GETKEYS", "GETTABLE"}

\* Mutant: a refused client's thread returns at once, and does not count it out.
RefuseAndReturn(t) ==
    /\ pc[t] = "dispatch"
    /\ Serves(t, {"BAD"})
    /\ Goto(t, "free")
    /\ msg' = [msg EXCEPT ![t] = {}]
    /\ UNCHANGED <<table, stats, table_locks, stats_locks, reply, upd, current,
                   events, due>>

\* An empty value or an unknown opcode: invoke returns -1 before it takes a
\* lock, and serve_conn closes the connection without sending the reply.
Refuse(t) ==
    /\ pc[t] = "dispatch"
    /\ Serves(t, {"BAD"})
    /\ Goto(t, "close")
    /\ msg' = [msg EXCEPT ![t] = {}]
    /\ UNCHANGED <<table, stats, table_locks, stats_locks, reply, upd, current,
                   events, due>>

\* Mutants: DEL, or PUT, enters as a reader.
EnterTableSharedBy(t, op) ==
    /\ pc[t] = "dispatch"
    /\ \/ Serves(t, Writing \ {op}) /\ TableLock!BeginWrite(t)
       \/ Serves(t, Reading \union {op}) /\ TableLock!BeginRead(t)
    /\ CallUpdate(t, "n_operacoes", 1, "access")
    /\ UNCHANGED <<table, stats, stats_locks, msg, reply, current, events, due>>
DelEntersShared(t) == EnterTableSharedBy(t, "DEL")
PutEntersShared(t) == EnterTableSharedBy(t, "PUT")

\* enter_read or enter_write on the table, then increase_operations.
EnterTable(t) ==
    /\ pc[t] = "dispatch"
    /\ \/ Serves(t, Writing) /\ TableLock!BeginWrite(t)
       \/ Serves(t, Reading) /\ TableLock!BeginRead(t)
    /\ CallUpdate(t, "n_operacoes", 1, "access")
    /\ UNCHANGED <<table, stats, stats_locks, msg, reply, current, events, due>>

\* The table once request r has changed it.
Changed(r) == [table EXCEPT ![r[2]] = IF r[1] = "PUT" THEN r[3] ELSE Absent]

\* table_put or table_remove starts to change its list.
BeginChange(t) ==
    /\ pc[t] = "access"
    /\ Serves(t, Writing)
    /\ Goto(t, "update_end")
    /\ UNCHANGED <<table, stats, table_locks, stats_locks, locals, events, due>>

\* increase_time with what return_time returned after and before the operation.
\* Both calls go through the global tv, which the readers of the table share.
CallIncreaseTime(t) ==
    \E d \in ElapsedTimes \union (IF tReaders \subseteq {t} THEN {} ELSE RacedTimes) :
        CallUpdate(t, "total_time", d, "table_exit")

EndChange(t) ==
    /\ pc[t] = "update_end"
    /\ \E r \in msg[t] :
          /\ table' = Changed(r)
          /\ Answer(t, IF r[1] = "PUT" THEN <<"PUT">> ELSE <<"DEL", table[r[2]] # Absent>>)
    /\ CallIncreaseTime(t)
    /\ UNCHANGED <<stats, table_locks, stats_locks, msg, current, events, due>>

\* The requests whose change of the table is under way, and what a reader that
\* no lock keeps out may then find.
Changing == UNION {msg[u] : u \in {v \in Threads : pc[v] = "update_end"}}
Glimpses == {table} \union {Changed(r) : r \in Changing}

\* table_get, table_size and table_get_keys, in the read section.  GETKEYS
\* leaves n_keys, and GETTABLE the entries, for later.
ReadTable(t) ==
    /\ pc[t] = "access"
    /\ \E r \in msg[t], tab \in Glimpses :
         \/ r[1] = "GET"      /\ Answer(t, <<"GET", tab[r[2]]>>)
         \/ r[1] = "SIZE"     /\ Answer(t, <<"SIZE", Cardinality(Stored(tab))>>)
         \/ r[1] = "GETKEYS"  /\ Answer(t, <<"GETKEYS", Stored(tab), 0>>)
         \/ r[1] = "GETTABLE" /\ Answer(t, <<"GETTABLE", {}, Cardinality(Stored(tab))>>)
    /\ CallIncreaseTime(t)
    /\ UNCHANGED <<table, stats, table_locks, stats_locks, msg, current, events, due>>

\* Mutant: SIZE does not call exit_read.
ExitTableExceptSize(t) ==
    /\ pc[t] = "table_exit"
    /\ \/ Serves(t, Writing) /\ TableLock!EndWrite(t)
       \/ Serves(t, Reading \ {"SIZE"}) /\ TableLock!EndRead(t)
       \/ Serves(t, {"SIZE"}) /\ UNCHANGED table_locks
    /\ Goto(t, IF Serves(t, {"GETKEYS", "GETTABLE"}) THEN "count_entries" ELSE "send")
    /\ UNCHANGED <<table, stats, stats_locks, locals, events, due>>

\* exit_read or exit_write.
ExitTable(t) ==
    /\ pc[t] = "table_exit"
    /\ \/ Serves(t, Writing) /\ TableLock!EndWrite(t)
       \/ Serves(t, Reading) /\ TableLock!EndRead(t)
    /\ Goto(t, IF Serves(t, {"GETKEYS", "GETTABLE"}) THEN "count_entries" ELSE "send")
    /\ UNCHANGED <<table, stats, stats_locks, locals, events, due>>

\* After exit_read: n_keys = table_size(table), table_skel.c:190.
CountKeys(t) ==
    /\ pc[t] = "count_entries"
    /\ Serves(t, {"GETKEYS"})
    /\ \E a \in reply[t], tab \in Glimpses :
          Answer(t, <<"GETKEYS", a[2], Cardinality(Stored(tab))>>)
    /\ Goto(t, "send")
    /\ UNCHANGED <<table, stats, table_locks, stats_locks, msg, upd, current,
                   events, due>>

\* After exit_read: table_get_entries allocates room for one entry more than
\* there are now, table.c:176 ...
CountEntries(t) ==
    /\ pc[t] = "count_entries"
    /\ Serves(t, {"GETTABLE"})
    /\ \E tab \in Glimpses :
          current' = [current EXCEPT ![t] = Cardinality(Stored(tab))]
    /\ Goto(t, "scan_entries")
    /\ UNCHANGED <<table, stats, table_locks, stats_locks, msg, reply, upd,
                   events, due>>

\* ... and copies those it then finds.  invoke uses as many of them as it
\* counted in the read section, and drops the others, according to the order
\* of the lists.
ScanEntries(t) ==
    /\ pc[t] = "scan_entries"
    /\ \E a \in reply[t], tab \in Glimpses :
         \E used \in SUBSET {<<k, tab[k]>> : k \in Stored(tab)} :
            /\ Cardinality(used) = a[3]
            /\ Answer(t, <<"GETTABLE", used, a[3]>>)
    /\ current' = [current EXCEPT ![t] = 0]
    /\ Goto(t, "send")
    /\ UNCHANGED <<table, stats, table_locks, stats_locks, msg, upd, events, due>>

\* An invalid access ends the process, with all its threads.
Die == pc' = [u \in Threads |-> "dead"]

\* The scan finds fewer entries than were counted, so that invoke dereferences
\* a null entry, or more than there is room for.
ScanOutOfBounds(t) ==
    /\ pc[t] = "scan_entries"
    /\ \E a \in reply[t], tab \in Glimpses :
          Cardinality(Stored(tab)) \notin a[3]..(current[t] + 1)
    /\ Die
    /\ UNCHANGED <<table, stats, table_locks, stats_locks, locals, events, due>>

\* A read of the lists while another thread removes a node, or replaces an
\* entry, may use what that thread has freed.
Freeing(ops) == \E r \in Changing : r[1] \in ops /\ r[2] \in Stored(table)

DanglingRead(t) ==
    /\ Serves(t, Reading)
    /\ \/ pc[t] \in {"access", "scan_entries"} /\ Freeing({"PUT", "DEL"})
       \/ pc[t] = "count_entries" /\ Freeing({"DEL"})
    /\ Die
    /\ UNCHANGED <<table, stats, table_locks, stats_locks, locals, events, due>>

-----------------------------------------------------------------------------
(* invoke: STATS reads the three fields in a read section of stats_locks.  *)

\* Mutant: the fields are read without enter_read.
StatsUnlocked(t) ==
    /\ pc[t] = "dispatch"
    /\ Serves(t, {"STATS"})
    /\ Answer(t, <<"STATS", [f \in Fields |-> 0]>>)
    /\ Goto(t, "copy_n_clientes")
    /\ UNCHANGED <<table, stats, table_locks, stats_locks, msg, upd, current,
                   events, due>>

StatsEnter(t) ==
    /\ pc[t] = "dispatch"
    /\ Serves(t, {"STATS"})
    /\ StatsLock!BeginRead(t)
    /\ Answer(t, <<"STATS", [f \in Fields |-> 0]>>)
    /\ Goto(t, "copy_n_clientes")
    /\ UNCHANGED <<table, stats, table_locks, msg, upd, current, events, due>>

CopyField(t, at, f, next) ==
    /\ pc[t] = at
    /\ \E a \in reply[t] : Answer(t, <<"STATS", [a[2] EXCEPT ![f] = stats[f]]>>)
    /\ Goto(t, next)
    /\ UNCHANGED <<table, stats, table_locks, stats_locks, msg, upd, current,
                   events, due>>

CopyStats(t) == \/ CopyField(t, "copy_n_clientes", "n_clientes", "copy_n_operacoes")
                \/ CopyField(t, "copy_n_operacoes", "n_operacoes", "copy_total_time")
                \/ CopyField(t, "copy_total_time", "total_time", "stats_exit")

StatsExit(t) ==
    /\ pc[t] = "stats_exit"
    /\ StatsLock!EndRead(t)
    /\ Goto(t, "send")
    /\ UNCHANGED <<table, stats, table_locks, locals, events, due>>

-----------------------------------------------------------------------------
Client(t) == Connect(t) \/ Receive(t) \/ Hangup(t)

Invoke(t) == \/ Refuse(t)
             \/ EnterTable(t) \/ BeginChange(t) \/ EndChange(t) \/ ReadTable(t) \/ ExitTable(t)
             \/ CountKeys(t) \/ CountEntries(t) \/ ScanEntries(t) \/ ScanOutOfBounds(t)
             \/ DanglingRead(t)
             \/ StatsEnter(t) \/ CopyStats(t) \/ StatsExit(t)

\* What the thread of a connection does on its own.
Run(t) == Invoke(t) \/ Update(t) \/ Send(t) \/ Close(t)

\* Every client has done what the bound allows, or the process is dead.
Done ==
    /\ \A t \in Threads : \/ pc[t] = "dead"
                          \/ pc[t] \in {"free", "recv"} /\ events[t] = MaxEvents
    /\ UNCHANGED vars

Next == \/ \E t \in Threads : Client(t) \/ Run(t)
        \/ Done

Spec == Init /\ [][Next]_vars

\* Every thread that can run does run.  Clients need not do anything.
Fairness == \A t \in Threads : WF_vars(Run(t))

FairSpec == Spec /\ Fairness

-----------------------------------------------------------------------------
TypeOK ==
    /\ table \in [Keys -> Values \union {Absent}]
    /\ stats \in [Fields -> Int]
    /\ stats["n_clientes"] >= 0 /\ stats["n_operacoes"] >= 0
    /\ due \in [Fields -> Int]
    /\ TableLock!TypeOK
    /\ StatsLock!TypeOK
    /\ pc \in [Threads -> PCs]
    /\ upd \in [Threads -> [field : Fields, by : Int, then : PCs]]
    /\ current \in [Threads -> Int]
    /\ events \in [Threads -> 0..MaxEvents]
    /\ \A t \in Threads : msg[t] = {} \/ \E r \in Inputs : msg[t] = {r}

\* No update of the statistics is lost, although each of them is a separate
\* load and store and every operation of every connection makes several.
UpdatesKept == stats = due

\* The thread has added its client to n_clientes and not taken it out again.
CountsItsClient(t) ==
    /\ pc[t] # "free"
    /\ pc[t] \in UpdateUnstored /\ upd[t].field = "n_clientes" => upd[t].by = -1
    /\ pc[t] = "upd_exit" /\ upd[t].field = "n_clientes" => upd[t].by = 1

\* n_clientes is the number of clients being served, whatever way their
\* connections end (stats.c:14-16).
ClientsCounted ==
    (\A t \in Threads : pc[t] # "dead") =>
        stats["n_clientes"] = Cardinality({t \in Threads : CountsItsClient(t)})

\* A PUT or DEL adds the time it took to total_time ("o tempo total a servir essas
\* operações", README.md:97): no other operation uses tv while it is measured.
WritesTimed ==
    \A t \in Threads :
        pc[t] \in Updating /\ upd[t].field = "total_time" /\ Serves(t, Writing) =>
            upd[t].by \in ElapsedTimes

\* The three fields of a STATS reply are values the statistics had together.
StatsSnapshot ==
    \A t \in Threads : pc[t] = "stats_exit" => reply[t] = {<<"STATS", stats>>}

\* An operation that changes the lists of the table is alone with them: no other
\* one reads or changes them in the section it entered.
ChangesAlone ==
    \A t, u \in Threads :
        pc[u] = "update_end" /\ pc[t] \in {"access", "update_end"} => t = u

\* No operation ends the process: none reads the lists of the table while
\* another changes them into memory that has been freed, or finds fewer entries
\* than it has counted ("os acessos a estes recursos", README.md:71-73).
NoInvalidRead == \A t \in Threads : pc[t] # "dead"

\* The requests the abstract store knows, as it writes them.
KVOps == {"PUT", "GET", "DEL", "SIZE", "BAD"}
KVRequest(r) == IF r[1] \in {"SIZE", "BAD"} THEN <<r[1]>> ELSE r

KV == INSTANCE KVStore WITH
          store   <- table,
          request <- [t \in Threads |-> {KVRequest(r) : r \in {q \in msg[t] : q[1] \in KVOps}}],
          answer  <- [t \in Threads |-> {a \in reply[t] : a[1] \in KVOps}]

\* PUT, GET, DEL and SIZE take effect at one instant each, between the arrival
\* of the request and the sending of its answer.
Linearizable == KV!Spec

\* The thread of a connection always comes back to its client or ends: no
\* deadlock between the two locks, and none left held by an early return.
EveryRequestFinishes ==
    \A t \in Threads : pc[t] \notin {"free", "recv", "dead"}
                         ~> pc[t] \in {"free", "recv", "dead"}
=============================================================================
