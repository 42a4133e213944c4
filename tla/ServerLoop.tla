----------------------------- MODULE ServerLoop -----------------------------
(***************************************************************************)
(* The main loop of a server (network_main_loop, network_server.c) and the *)
(* life of the thread it starts for each connection (serve_conn,           *)
(* server_thread.c): the slots of the threads array, the descriptors of    *)
(* the connections, and the shutdown by SIGINT.                            *)
(*                                                                         *)
(* What a request does is left to TableSkel; here it is answered, or       *)
(* refused.  The kernel and the pthread library are external: accept gives *)
(* the lowest free descriptor, and a descriptor that is closed may be      *)
(* given to another connection while a thread still uses its number.       *)
(***************************************************************************)
EXTENDS Integers, FiniteSets

CONSTANTS NThreads,      \* slots of the threads array (5000 in the code)
          NConns,        \* bound: connections that clients make
          MaxRequests,   \* bound: requests that the clients send, together
          MaxFailures    \* bound: calls of pthread_create that fail

ASSUME ServerLoopAssumption ==
    /\ NThreads \in Nat \ {0}
    /\ {NConns, MaxRequests, MaxFailures} \subseteq Nat

Slots == 1..NThreads
Conns == 1..NConns        \* a connection, and the thread that serves it
Nobody == 0

VARIABLES loop,       \* where the main thread is
          i,          \* the slot it looks at, or the vacant slot it found
          accepted,   \* the connection it has just accepted
          active,     \* active_threads
          threads,    \* the thread an active slot's pthread_t names, Nobody if none
          server_error,
          terminated,
          client,     \* what each client has done
          asked,      \* how many requests they have sent, together
          thr,        \* where the thread of each connection is
          fd,         \* the descriptor it was given
          reading,    \* the connection its read is blocked on, or its request is from
          owner,      \* the connection each descriptor refers to
          failures    \* how many calls of pthread_create have failed

main == <<loop, i, accepted, active, threads, server_error>>
clients == <<client, asked>>
serving == <<thr, fd, reading>>
vars == <<main, terminated, clients, serving, owner, failures>>

Fds == Conns
Open == {c \in Conns : client[c] = "open"}
Free == {f \in Fds : owner[f] = Nobody}
\* The process has neither left the main loop nor died.
Running == loop \notin {"stopped", "dead"}

IsLeast(n, S) == n \in S /\ \A m \in S : n <= m

Init ==
    /\ loop = "test"
    /\ i = 1
    /\ accepted = Nobody
    /\ active = [s \in Slots |-> FALSE]
    /\ threads = [s \in Slots |-> Nobody]
    /\ server_error = FALSE
    /\ terminated = FALSE
    /\ client = [c \in Conns |-> "none"]
    /\ asked = 0
    /\ thr = [c \in Conns |-> "none"]
    /\ fd = [c \in Conns |-> Nobody]
    /\ reading = [c \in Conns |-> Nobody]
    /\ owner = [f \in Fds |-> Nobody]
    /\ failures = 0

-----------------------------------------------------------------------------
(* The clients.  When the process ends the kernel ends its connections.    *)

\* A client connects: the connection waits to be accepted.
Arrive(c) ==
    /\ Running /\ client[c] = "none"
    /\ \A d \in Conns : d < c => client[d] # "none"
    /\ client' = [client EXCEPT ![c] = "waiting"]
    /\ UNCHANGED <<main, terminated, asked, serving, owner, failures>>

Leave(c) ==
    /\ Running /\ client[c] = "open"
    /\ client' = [client EXCEPT ![c] = "gone"]
    /\ UNCHANGED <<main, terminated, asked, serving, owner, failures>>

-----------------------------------------------------------------------------
(* serve_conn.                                                             *)

Goto(c, l) == thr' = [thr EXCEPT ![c] = l]
At(c, l) == Running /\ thr[c] = l

\* The loop condition: !processing_error && !terminated.
Test(c) ==
    /\ At(c, "test")
    /\ Goto(c, IF terminated THEN "close_again" ELSE "call_read")
    /\ UNCHANGED <<main, terminated, clients, fd, reading, owner, failures>>

\* read is called, and blocks, unless the descriptor has been closed.
CallRead(c) ==
    /\ At(c, "call_read")
    /\ IF owner[fd[c]] = Nobody
         THEN Goto(c, "close") /\ UNCHANGED reading
         ELSE /\ Goto(c, "read")
              /\ reading' = [reading EXCEPT ![c] = owner[fd[c]]]
    /\ UNCHANGED <<main, terminated, clients, fd, owner, failures>>

\* A request arrives (one that a client sent before it went, too), or the client
\* has gone.
ReadReturns(c) ==
    /\ At(c, "read")
    /\ \/ /\ asked < MaxRequests
          /\ asked' = asked + 1
          /\ Goto(c, "invoke")
          /\ UNCHANGED reading
       \/ /\ client[reading[c]] = "gone"
          /\ Goto(c, "close")
          /\ reading' = [reading EXCEPT ![c] = Nobody]
          /\ UNCHANGED asked
    /\ UNCHANGED <<main, terminated, client, fd, owner, failures>>

\* invoke, and network_send: to whatever the descriptor refers to by now.
Reply(c) ==
    /\ At(c, "invoke")
    /\ \/ owner[fd[c]] # Nobody /\ client[owner[fd[c]]] = "open" /\ Goto(c, "test")
       \/ Goto(c, "close")
    /\ reading' = [reading EXCEPT ![c] = Nobody]
    /\ UNCHANGED <<main, terminated, clients, fd, owner, failures>>

\* close(connsockfd).  A connection that is closed under its client ends.
CloseFd(c, next) ==
    /\ owner' = [owner EXCEPT ![fd[c]] = Nobody]
    /\ client' = IF owner[fd[c]] = Nobody THEN client ELSE [client EXCEPT ![owner[fd[c]]] = "gone"]
    /\ Goto(c, next)

\* The error paths of the loop close the descriptor ...
Close(c) ==
    /\ At(c, "close")
    /\ CloseFd(c, "close_again")
    /\ UNCHANGED <<main, terminated, asked, fd, reading, failures>>

\* Mutant: the end of the function relies on the closes of the error paths.
EndUnclosed(c) ==
    /\ At(c, "close_again")
    /\ Goto(c, "exited")
    /\ fd' = [fd EXCEPT ![c] = Nobody]
    /\ UNCHANGED <<main, terminated, clients, reading, owner, failures>>

\* ... and so does the end of the function, which frees its copy of the number.
CloseAgain(c) ==
    /\ At(c, "close_again")
    /\ CloseFd(c, "exited")
    /\ fd' = [fd EXCEPT ![c] = Nobody]
    /\ UNCHANGED <<main, terminated, asked, reading, failures>>

Serve(c) == Test(c) \/ CallRead(c) \/ ReadReturns(c) \/ Reply(c) \/ Close(c) \/ CloseAgain(c)

-----------------------------------------------------------------------------
(* network_main_loop.                                                      *)

\* Mutant: the loop does not look at terminated.
LoopTestNoSignal ==
    /\ loop = "test"
    /\ loop' = IF server_error THEN "kill" ELSE "reap"
    /\ i' = 1
    /\ UNCHANGED <<accepted, active, threads, server_error, terminated, clients,
                   serving, owner, failures>>

\* The loop condition: !terminated && !server_error.
LoopTest ==
    /\ loop = "test"
    /\ loop' = IF terminated \/ server_error THEN "kill" ELSE "reap"
    /\ i' = 1
    /\ UNCHANGED <<accepted, active, threads, server_error, terminated, clients,
                   serving, owner, failures>>

NextSlot == /\ i' = IF i < NThreads THEN i + 1 ELSE 1
            /\ loop' = IF i < NThreads THEN "reap" ELSE "find"

\* Mutant: a slot is taken for vacant while its thread is still busy.
ReapBusy ==
    /\ loop = "reap"
    /\ active[i] => threads[i] # Nobody
    /\ active' = [active EXCEPT ![i] = FALSE]
    /\ thr' = IF active[i] /\ thr[threads[i]] = "exited"
                THEN [thr EXCEPT ![threads[i]] = "joined"] ELSE thr
    /\ NextSlot
    /\ UNCHANGED <<accepted, threads, server_error, terminated, clients, fd, reading,
                   owner, failures>>

\* Mutant: a thread that has ended is joined, but its slot stays taken.
ReapKeepsSlot ==
    /\ loop = "reap"
    /\ active[i] => threads[i] # Nobody
    /\ IF active[i] /\ thr[threads[i]] = "exited"
         THEN thr' = [thr EXCEPT ![threads[i]] = "joined"]
         ELSE UNCHANGED thr
    /\ NextSlot
    /\ UNCHANGED <<accepted, active, threads, server_error, terminated, clients, fd,
                   reading, owner, failures>>

\* pthread_tryjoin_np of an active slot: the thread has ended, or is busy.
Reap ==
    /\ loop = "reap"
    /\ active[i] => threads[i] # Nobody
    /\ IF active[i] /\ thr[threads[i]] = "exited"
         THEN /\ active' = [active EXCEPT ![i] = FALSE]
              /\ threads' = [threads EXCEPT ![i] = Nobody]
              /\ thr' = [thr EXCEPT ![threads[i]] = "joined"]
         ELSE UNCHANGED <<active, threads, thr>>
    /\ NextSlot
    /\ UNCHANGED <<accepted, server_error, terminated, clients, fd, reading,
                   owner, failures>>

\* The pthread_t of the slot was never set, or is left from a thread that has
\* been joined: the call says that it is busy, that it is joined or that it is
\* no thread, which ends the loop, or it uses memory that is not a thread's.
ReapNone ==
    /\ loop = "reap"
    /\ active[i] /\ threads[i] = Nobody
    /\ \/ NextSlot /\ UNCHANGED <<active, server_error>>
       \/ NextSlot /\ active' = [active EXCEPT ![i] = FALSE] /\ UNCHANGED server_error
       \/ loop' = "test" /\ server_error' = TRUE /\ UNCHANGED <<i, active>>
       \/ loop' = "dead" /\ UNCHANGED <<i, active, server_error>>
    /\ UNCHANGED <<accepted, threads, terminated, clients, serving, owner, failures>>

Vacant == {s \in Slots : ~active[s]}

\* Mutant: the case of no vacant slot is not handled.
AcceptUnchecked ==
    /\ loop = "find"
    /\ \E s \in 0..NThreads : (IsLeast(s, Vacant) \/ (Vacant = {} /\ s = 0)) /\ i' = s
    /\ \E c \in Conns :
          /\ client[c] = "waiting"
          /\ client' = [client EXCEPT ![c] = "open"]
          /\ \E f \in Fds : /\ IsLeast(f, Free)
                          /\ owner' = [owner EXCEPT ![f] = c]
                          /\ fd' = [fd EXCEPT ![c] = f]
          /\ accepted' = c
    /\ loop' = "create"
    /\ UNCHANGED <<active, threads, server_error, terminated, asked, thr,
                   reading, failures>>

\* The first vacant slot, and accept, which does not block.
Accept ==
    /\ loop = "find"
    /\ \E s \in Slots : IsLeast(s, Vacant) /\ i' = s
    /\ \E c \in Conns :
          /\ client[c] = "waiting"
          /\ client' = [client EXCEPT ![c] = "open"]
          /\ \E f \in Fds : /\ IsLeast(f, Free)
                          /\ owner' = [owner EXCEPT ![f] = c]
                          /\ fd' = [fd EXCEPT ![c] = f]
          /\ accepted' = c
    /\ loop' = "create"
    /\ UNCHANGED <<active, threads, server_error, terminated, asked, thr,
                   reading, failures>>

\* No slot is vacant, or no client waits: the loop sleeps and tries again.
NotNow ==
    /\ loop = "find"
    /\ Vacant = {} \/ \A c \in Conns : client[c] # "waiting"
    /\ loop' = "test"
    /\ UNCHANGED <<i, accepted, active, threads, server_error, terminated, clients,
                   serving, owner, failures>>

\* active_threads[vacant_thread] = 1, then pthread_create.
Create ==
    /\ loop = "create"
    /\ active' = [active EXCEPT ![i] = TRUE]
    /\ threads' = [threads EXCEPT ![i] = accepted]
    /\ Goto(accepted, "test")
    /\ accepted' = Nobody
    /\ loop' = "test"
    /\ UNCHANGED <<i, server_error, terminated, clients, fd, reading, owner, failures>>

\* pthread_create fails: the connection is closed and the slot stays active.
CreateFails ==
    /\ loop = "create"
    /\ failures < MaxFailures
    /\ failures' = failures + 1
    /\ active' = [active EXCEPT ![i] = TRUE]
    /\ threads' = [threads EXCEPT ![i] = Nobody]
    /\ owner' = [owner EXCEPT ![fd[accepted]] = Nobody]
    /\ client' = [client EXCEPT ![accepted] = "gone"]
    /\ accepted' = Nobody
    /\ loop' = "test"
    /\ UNCHANGED <<i, server_error, terminated, asked, serving>>

\* pthread_kill: sigint_handler runs in the thread, and a read it is blocked in
\* returns with EINTR.
Interrupt(c) ==
    /\ terminated' = TRUE
    /\ IF thr[c] = "read"
         THEN Goto(c, "close") /\ reading' = [reading EXCEPT ![c] = Nobody]
         ELSE UNCHANGED <<thr, reading>>

\* Mutant: the threads are not waited for.
KillOnly ==
    /\ loop = "kill"
    /\ active[i] /\ threads[i] # Nobody
    /\ Interrupt(threads[i])
    /\ loop' = IF i < NThreads THEN "kill" ELSE "stopped"
    /\ i' = IF i < NThreads THEN i + 1 ELSE 1
    /\ UNCHANGED <<accepted, active, threads, server_error, clients, fd, owner,
                   failures>>

Kill ==
    /\ loop = "kill"
    /\ active[i] /\ threads[i] # Nobody
    /\ Interrupt(threads[i])
    /\ loop' = "join"
    /\ UNCHANGED <<i, accepted, active, threads, server_error, clients, fd, owner,
                   failures>>

KillNext == /\ i' = IF i < NThreads THEN i + 1 ELSE 1
            /\ loop' = IF i < NThreads THEN "kill" ELSE "stopped"

\* pthread_join waits for the thread to end.
Join ==
    /\ loop = "join"
    /\ thr[threads[i]] = "exited"
    /\ thr' = [thr EXCEPT ![threads[i]] = "joined"]
    /\ KillNext
    /\ UNCHANGED <<accepted, active, threads, server_error, terminated, clients, fd,
                   reading, owner, failures>>

\* A slot that is not active, or whose pthread_t names no thread: then the calls
\* fail, or use memory that is not a thread's.
KillNone ==
    /\ loop = "kill"
    /\ active[i] => threads[i] = Nobody
    /\ \/ KillNext
       \/ active[i] /\ loop' = "dead" /\ UNCHANGED i
    /\ UNCHANGED <<accepted, active, threads, server_error, terminated, clients,
                   serving, owner, failures>>

Main == \/ LoopTest \/ Reap \/ ReapNone \/ Accept \/ NotNow
        \/ Create \/ CreateFails \/ Kill \/ Join \/ KillNone

-----------------------------------------------------------------------------
\* SIGINT reaches the process; the kernel may deliver it to any thread.
Sigint ==
    /\ Running
    /\ ~terminated
    /\ \/ \E c \in Conns : thr[c] \notin {"none", "exited", "joined"} /\ Interrupt(c)
       \/ terminated' = TRUE /\ UNCHANGED <<thr, reading>>
    /\ UNCHANGED <<main, clients, fd, owner, failures>>

\* The process has ended.
Done == ~Running /\ UNCHANGED vars

Next == \/ Main
        \/ \E c \in Conns : Serve(c) \/ Arrive(c) \/ Leave(c)
        \/ Sigint
        \/ Done

Spec == Init /\ [][Next]_vars

\* The threads run; no client stays for ever, and none need arrive or ask.
Fairness == /\ WF_vars(Main)
            /\ \A c \in Conns : WF_vars(Serve(c)) /\ WF_vars(Leave(c))

FairSpec == Spec /\ Fairness

-----------------------------------------------------------------------------
Started == {c \in Conns : thr[c] \notin {"none", "joined"}}
SlotsOf(c) == {s \in Slots : active[s] /\ threads[s] = c}

TypeOK ==
    /\ loop \in {"test", "reap", "find", "create", "kill", "join", "stopped", "dead"}
    /\ i \in Slots
    /\ accepted \in Conns \union {Nobody}
    /\ active \in [Slots -> BOOLEAN]
    /\ threads \in [Slots -> Conns \union {Nobody}]
    /\ server_error \in BOOLEAN /\ terminated \in BOOLEAN
    /\ client \in [Conns -> {"none", "waiting", "open", "gone"}]
    /\ asked \in 0..MaxRequests
    /\ thr \in [Conns -> {"none", "test", "call_read", "read", "invoke", "close", "close_again",
                          "exited", "joined"}]
    /\ fd \in [Conns -> Fds \union {Nobody}]
    /\ reading \in [Conns -> Conns \union {Nobody}]
    /\ owner \in [Fds -> Conns \union {Nobody}]
    /\ failures \in 0..MaxFailures

\* While the loop runs every thread that has not been joined has one slot, so
\* that none is forgotten when its slot is used again.
OneSlotPerThread ==
    loop \notin {"kill", "join", "stopped", "dead"} =>
        \A c \in Started : Cardinality(SlotsOf(c)) = 1

\* When network_main_loop returns, and main frees the table and the locks, no
\* thread is left that could use them.
NoThreadOutlivesTable == loop = "stopped" => Started = {}

\* A client that connects is served in the end, or the server stops: the slots
\* of clients that have gone are used again.  (A call of pthread_create that
\* fails may take its slot for ever: there are more slots than such calls.)
EveryClientAccepted ==
    \A c \in Conns : client[c] = "waiting" ~>
                        client[c] # "waiting" \/ terminated \/ server_error \/ ~Running

\* After SIGINT the server stops, once its clients have gone.
ShutdownCompletes == terminated ~> ~Running

\* Every descriptor is given back: one that is open is that of a connection whose
\* thread is still to close it for the last time, or is not started yet.
DescriptorsGivenBack ==
    \A f \in Fds : owner[f] # Nobody =>
        owner[f] = accepted \/ thr[owner[f]] \notin {"none", "exited", "joined"}

\* The answer to a request is sent to the client that made it ("Enviar a resposta
\* ao cliente", network_server.c:86).
AnswersOwnClient ==
    [][\A c \in Conns : thr[c] = "invoke" /\ thr'[c] = "test" => owner[fd[c]] = reading[c]]_vars
=============================================================================
