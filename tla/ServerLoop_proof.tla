-------------------------- MODULE ServerLoop_proof --------------------------
(***************************************************************************)
(* Proofs about ServerLoop, for any number of slots, connections and calls *)
(* of pthread_create that fail: every thread has one slot until it is      *)
(* joined, none outlives the main loop, and every descriptor is given back *)
(* although a thread closes its own twice, and the number may by then be   *)
(* that of another connection.                                             *)
(***************************************************************************)
EXTENDS ServerLoop, FiniteSetTheorems, TLAPS

\* Where a thread is that runs no line of serve_conn.
Idle == {"none", "exited", "joined"}

\* Between accept and pthread_create the main thread holds the connection; one
\* that it waits for is that of an active slot.
MainInv ==
    /\ accepted # Nobody => loop = "create"
    /\ loop = "create" => accepted \in Conns /\ thr[accepted] = "none" /\ ~active[i]
    /\ loop = "join" => threads[i] # Nobody

\* The slots that the main thread will still look at.
Remaining == IF loop \in {"kill", "join"} THEN i..NThreads
             ELSE IF loop = "stopped" THEN {} ELSE Slots

\* A slot names a thread that was started, if any, and no other slot names it.
SlotsInv ==
    /\ \A s \in Slots : threads[s] # Nobody => active[s] /\ thr[threads[s]] # "none"
    /\ \A s, t \in Slots : threads[s] = threads[t] /\ threads[s] # Nobody => s = t
    /\ loop # "dead" => \A c \in Started : \E s \in Remaining : threads[s] = c

\* A descriptor is open on the connection of the thread that was given it ...
OwnerInv == \A f \in Fds : owner[f] # Nobody =>
    /\ fd[owner[f]] = f
    /\ owner[f] = accepted \/ thr[owner[f]] \notin Idle

\* ... and a thread that runs was given one.
FdInv == \A c \in Conns : c = accepted \/ thr[c] \notin Idle => fd[c] \in Fds

\* A client that has not been accepted has no thread.
ClientsInv == \A c \in Conns : client[c] \in {"none", "waiting"} => c # accepted /\ thr[c] = "none"

LoopInv == TypeOK /\ MainInv /\ SlotsInv /\ OwnerInv /\ FdInv /\ ClientsInv

LEMMA Numbers == /\ Slots \subseteq Nat /\ Conns \subseteq Nat /\ Nobody \notin Conns
                 /\ NThreads \in Nat /\ NThreads \in Slots /\ 1 \in Slots /\ Fds = Conns
                 /\ MaxFailures \in Nat /\ MaxRequests \in Nat
BY ServerLoopAssumption DEF ServerLoopAssumption, Slots, Conns, Nobody, Fds

LEMMA Initially == Init => LoopInv
<1> SUFFICES ASSUME Init PROVE LoopInv
    OBVIOUS
<1>1. TypeOK
    <2>1. 0 \in 0..MaxRequests /\ 0 \in 0..MaxFailures /\ 1 \in Slots
        BY Numbers
    <2>2. QED
        BY <2>1 DEF Init, TypeOK
<1>2. MainInv /\ SlotsInv
    BY DEF Init, MainInv, SlotsInv, Started
<1>3. OwnerInv /\ FdInv /\ ClientsInv
    BY Numbers DEF Init, OwnerInv, FdInv, ClientsInv, Idle
<1>4. QED
    BY <1>1, <1>2, <1>3 DEF LoopInv

-----------------------------------------------------------------------------
\* A thread that runs, and goes on running, changes nothing that matters to the
\* main thread.
LEMMA Walks ==
    ASSUME LoopInv, TypeOK', UNCHANGED <<accepted, active, threads, client, fd, owner>>,
           \A c \in Conns : thr'[c] = thr[c] \/ (thr[c] \notin Idle /\ thr'[c] \notin Idle),
           \/ UNCHANGED <<loop, i>>
           \/ loop = "kill" /\ loop' = "join" /\ threads[i] # Nobody /\ UNCHANGED i
    PROVE  LoopInv'
<1> USE DEF LoopInv, Idle
<1>1. MainInv'
    BY DEF MainInv, TypeOK
<1>2. SlotsInv'
    <2>1. Remaining' = Remaining /\ Started' \subseteq Started
        BY DEF Remaining, Started
    <2>2. \A s \in Slots : threads[s] # Nobody => threads[s] \in Conns
        BY DEF TypeOK
    <2>3. QED
        BY <2>1, <2>2 DEF SlotsInv
<1>3. OwnerInv'
    BY DEF OwnerInv, TypeOK
<1>4. FdInv' /\ ClientsInv'
    BY DEF FdInv, ClientsInv
<1>5. QED
    BY <1>1, <1>2, <1>3, <1>4

\* A step of the main thread that touches no thread.
LEMMA Looks ==
    ASSUME LoopInv, TypeOK', UNCHANGED <<accepted, threads, thr, client, fd, owner>>,
           \A s \in Slots : threads[s] # Nobody => active'[s] = active[s],
           loop \notin {"create", "dead"}, loop' \notin {"create", "join"},
           \A s \in Remaining : threads[s] # Nobody => s \in Remaining' \/ loop' = "dead"
    PROVE  LoopInv'
<1> USE DEF LoopInv
<1>1. MainInv'
    BY DEF MainInv
<1>2. SlotsInv'
    <2>1. loop' # "dead" => \A c \in Started' : \E s \in Remaining' : threads'[s] = c
        <3> SUFFICES ASSUME loop' # "dead", NEW c \in Started'
                     PROVE  \E s \in Remaining' : threads'[s] = c
            OBVIOUS
        <3>1. c \in Started /\ c # Nobody
            BY Numbers DEF Started
        <3>2. QED
            BY <3>1 DEF SlotsInv
    <2>2. QED
        BY <2>1 DEF SlotsInv
<1>3. OwnerInv' /\ FdInv' /\ ClientsInv'
    BY DEF OwnerInv, FdInv, ClientsInv
<1>4. QED
    BY <1>1, <1>2, <1>3
-----------------------------------------------------------------------------
\* A thread closes its descriptor, which may be that of another by now.
LEMMA ClosesOwn ==
    ASSUME LoopInv, TypeOK', NEW c \in Conns, UNCHANGED <<main, fd>>,
           thr[c] \notin Idle, thr'[c] \notin Idle,
           thr' = [thr EXCEPT ![c] = thr'[c]],
           owner' = [owner EXCEPT ![fd[c]] = Nobody],
           \A d \in Conns : client'[d] = client[d] \/ client'[d] = "gone"
    PROVE  LoopInv'
<1> USE Numbers DEF LoopInv, Idle, main
<1>1. MainInv'
    BY DEF MainInv, TypeOK
<1>2. SlotsInv'
    <2>1. Remaining' = Remaining /\ Started' = Started
        <3>1. Remaining' = Remaining
            BY DEF Remaining
        <3>2. \A d \in Conns : thr'[d] \in {"none", "joined"} <=> thr[d] \in {"none", "joined"}
            <4>1. \A d \in Conns : d # c => thr'[d] = thr[d]
                BY DEF TypeOK
            <4> QED
                BY <4>1
        <3> QED
            BY <3>1, <3>2 DEF Started
    <2>2. \A s \in Slots : threads[s] # Nobody => threads[s] \in Conns
        BY DEF TypeOK
    <2>3. \A d \in Conns : thr[d] # "none" => thr'[d] # "none"
        BY DEF TypeOK
    <2>4. QED
        BY <2>1, <2>2, <2>3 DEF SlotsInv
<1>3. OwnerInv'
    <2>1. \A f \in Fds : owner'[f] # Nobody => owner'[f] = owner[f] /\ owner[f] \in Conns
        BY DEF TypeOK
    <2>2. \A d \in Conns : thr[d] \notin Idle => thr'[d] \notin Idle
        BY DEF TypeOK
    <2>3. QED
        <3>1. ASSUME NEW f \in Fds, owner'[f] # Nobody
              PROVE  /\ fd'[owner'[f]] = f
                     /\ owner'[f] = accepted' \/ thr'[owner'[f]] \notin Idle
            <4>1. owner'[f] = owner[f] /\ owner[f] \in Conns /\ owner[f] # Nobody
                BY <2>1, <3>1
            <4>2. fd[owner[f]] = f /\ (owner[f] = accepted \/ thr[owner[f]] \notin Idle)
                BY <4>1 DEF OwnerInv
            <4> QED
                BY <2>2, <4>1, <4>2
        <3> QED
            BY <3>1 DEF OwnerInv
<1>4. FdInv' /\ ClientsInv'
    BY DEF FdInv, ClientsInv, TypeOK
<1>5. QED
    BY <1>1, <1>2, <1>3, <1>4

\* ... for the last time.
LEMMA ClosesLast ==
    ASSUME LoopInv, TypeOK', NEW c \in Conns, UNCHANGED main,
           thr[c] = "close_again", thr' = [thr EXCEPT ![c] = "exited"],
           owner' = [owner EXCEPT ![fd[c]] = Nobody],
           fd' = [fd EXCEPT ![c] = Nobody],
           \A d \in Conns : client'[d] = client[d] \/ client'[d] = "gone"
    PROVE  LoopInv'
<1> USE Numbers DEF LoopInv, Idle, main
<1>1. MainInv'
    BY DEF MainInv, TypeOK
<1>2. SlotsInv'
    <2>1. Remaining' = Remaining /\ Started' = Started
        BY DEF Remaining, Started, TypeOK
    <2>2. \A s \in Slots : threads[s] # Nobody => threads[s] \in Conns
        BY DEF TypeOK
    <2>3. \A d \in Conns : thr[d] # "none" => thr'[d] # "none"
        BY DEF TypeOK
    <2>4. QED
        BY <2>1, <2>2, <2>3 DEF SlotsInv
<1>3. OwnerInv'
    <2>1. \A f \in Fds : owner'[f] # Nobody => owner'[f] = owner[f] /\ owner[f] \in Conns
        BY DEF TypeOK
    <2>2. \A f \in Fds : owner'[f] # c
        BY <2>1 DEF OwnerInv, TypeOK
    <2>3. \A d \in Conns : d # c => thr'[d] = thr[d] /\ fd'[d] = fd[d]
        BY DEF TypeOK
    <2>4. QED
        BY <2>1, <2>2, <2>3 DEF OwnerInv
<1>4. FdInv' /\ ClientsInv'
    BY DEF FdInv, ClientsInv, MainInv, TypeOK
<1>5. QED
    BY <1>1, <1>2, <1>3, <1>4

-----------------------------------------------------------------------------
\* serve_conn.
LEMMA ServeKeeps == ASSUME LoopInv, NEW c \in Conns, Serve(c) PROVE LoopInv'
<1> USE Numbers DEF Goto, At, main, clients
<1>1. CASE Test(c)
    <2>1. TypeOK'
        BY <1>1 DEF LoopInv, TypeOK, Test
    <2>2. QED
        BY <1>1, <2>1, Walks DEF Test, LoopInv, TypeOK, Idle
<1>2. CASE CallRead(c)
    <2>1. TypeOK'
        BY <1>2 DEF LoopInv, TypeOK, CallRead, FdInv, Idle
    <2>2. QED
        BY <1>2, <2>1, Walks DEF CallRead, LoopInv, TypeOK, Idle
<1>3. CASE ReadReturns(c)
    <2>1. TypeOK'
        BY <1>3 DEF LoopInv, TypeOK, ReadReturns
    <2>2. CASE loop' = loop /\ UNCHANGED client
        BY <1>3, <2>1, <2>2, Walks DEF ReadReturns, LoopInv, TypeOK, Idle
    <2>3. QED
        BY <1>3, <2>2 DEF ReadReturns
<1>4. CASE Reply(c)
    <2>1. TypeOK'
        BY <1>4 DEF LoopInv, TypeOK, Reply
    <2>2. QED
        BY <1>4, <2>1, Walks DEF Reply, LoopInv, TypeOK, Idle
<1>5. CASE Close(c)
    <2>0. /\ c \in Conns /\ thr[c] = "close" /\ thr' = [thr EXCEPT ![c] = "close_again"]
          /\ owner' = [owner EXCEPT ![fd[c]] = Nobody]
          /\ UNCHANGED <<main, fd>>
          /\ \A d \in Conns : client'[d] = client[d] \/ client'[d] = "gone"
        BY <1>5 DEF Close, CloseFd, LoopInv, TypeOK
    <2>1. TypeOK'
        BY <1>5 DEF LoopInv, TypeOK, Close, CloseFd
    <2>2. QED
        BY <2>0, <2>1, ClosesOwn DEF Idle, LoopInv, TypeOK
<1>6. CASE CloseAgain(c)
    <2>0. /\ thr[c] = "close_again" /\ thr' = [thr EXCEPT ![c] = "exited"]
          /\ owner' = [owner EXCEPT ![fd[c]] = Nobody]
          /\ UNCHANGED main /\ fd' = [fd EXCEPT ![c] = Nobody]
          /\ \A d \in Conns : client'[d] = client[d] \/ client'[d] = "gone"
        BY <1>6 DEF CloseAgain, CloseFd, LoopInv, TypeOK
    <2>1. TypeOK'
        BY <1>6 DEF LoopInv, TypeOK, CloseAgain, CloseFd
    <2>2. QED
        BY <2>0, <2>1, ClosesLast
<1>7. QED
    BY <1>1, <1>2, <1>3, <1>4, <1>5, <1>6 DEF Serve
-----------------------------------------------------------------------------
\* network_main_loop.
LEMMA MainKeeps == ASSUME LoopInv, Main PROVE LoopInv'
<1> USE Numbers DEF Goto, main, clients, serving
<1>n. \A s \in Slots : s < NThreads => s + 1 \in Slots /\ \A t \in s..NThreads : t = s \/ t \in (s + 1)..NThreads
    BY DEF Slots
<1>1. CASE LoopTest
    <2>1. TypeOK'
        BY <1>1 DEF LoopInv, TypeOK, LoopTest
    <2>2. Slots = 1..NThreads /\ Remaining = Slots /\ Remaining' = Slots
        BY <1>1 DEF LoopTest, Remaining, Slots
    <2>3. QED
        BY <1>1, <2>1, <2>2, Looks DEF LoopTest
<1>2. CASE Reap
    <2>1. TypeOK'
        BY <1>2, <1>n DEF LoopInv, TypeOK, Reap, NextSlot
    <2>2. CASE active[i] /\ thr[threads[i]] = "exited"
        <3>1. PICK c \in Conns : c = threads[i] /\ thr[c] = "exited"
            BY <1>2, <2>2 DEF Reap, LoopInv, TypeOK
        <3>2. /\ threads' = [threads EXCEPT ![i] = Nobody] /\ active' = [active EXCEPT ![i] = FALSE]
              /\ thr' = [thr EXCEPT ![c] = "joined"]
              /\ UNCHANGED <<accepted, client, fd, owner>>
              /\ loop = "reap" /\ loop' \in {"reap", "find"} /\ i \in Slots
            BY <1>2, <2>2, <3>1 DEF Reap, NextSlot, LoopInv, TypeOK
        <3>3. MainInv'
            BY <3>2 DEF LoopInv, MainInv
        <3>4. SlotsInv'
            <4>1. Remaining' = Slots /\ Remaining = Slots
                BY <3>2 DEF Remaining
            <4>2. \A d \in Started' : d \in Started /\ d # c
                BY <3>2 DEF Started, LoopInv, TypeOK
            <4>3. \A s \in Slots : s # i => threads'[s] = threads[s] /\ active'[s] = active[s]
                BY <3>2 DEF LoopInv, TypeOK
            <4>4. threads'[i] = Nobody
                BY <3>2 DEF LoopInv, TypeOK
            <4>5. \A d \in Conns : thr[d] # "none" => thr'[d] # "none"
                BY <3>2 DEF LoopInv, TypeOK
            <4>6. \A s \in Slots : threads[s] # Nobody => threads[s] \in Conns
                BY DEF LoopInv, TypeOK
            <4>7. QED
                BY <3>1, <3>2, <4>1, <4>2, <4>3, <4>4, <4>5, <4>6 DEF LoopInv, SlotsInv
        <3>5. OwnerInv' /\ FdInv' /\ ClientsInv'
            BY <3>1, <3>2 DEF LoopInv, TypeOK, OwnerInv, FdInv, ClientsInv, Idle
        <3>6. QED
            BY <2>1, <3>3, <3>4, <3>5 DEF LoopInv
    <2>3. CASE ~(active[i] /\ thr[threads[i]] = "exited")
        BY <1>2, <2>1, <2>3, Looks DEF Reap, NextSlot, Remaining
    <2>4. QED
        BY <2>2, <2>3
<1>3. CASE ReapNone
    <2>1. TypeOK'
        BY <1>3, <1>n DEF LoopInv, TypeOK, ReapNone, NextSlot
    <2>2. /\ loop = "reap" /\ loop' \in {"reap", "find", "test", "dead"}
          /\ threads[i] = Nobody
          /\ \A s \in Slots : s # i => active'[s] = active[s]
          /\ UNCHANGED <<accepted, threads, thr, client, fd, owner>>
        BY <1>3 DEF ReapNone, NextSlot, LoopInv, TypeOK
    <2>3. QED
        BY <2>1, <2>2, Looks DEF Remaining
<1>4. CASE Accept
    <2>1. PICK c \in Conns, f \in Fds :
              /\ client[c] = "waiting" /\ client' = [client EXCEPT ![c] = "open"]
              /\ owner[f] = Nobody /\ owner' = [owner EXCEPT ![f] = c]
              /\ fd' = [fd EXCEPT ![c] = f] /\ accepted' = c
        BY <1>4 DEF Accept, IsLeast, Free
    <2>2. /\ loop = "find" /\ loop' = "create" /\ i' \in Slots /\ ~active[i']
          /\ UNCHANGED <<active, threads, thr, server_error, terminated, asked, reading, failures>>
        BY <1>4 DEF Accept, IsLeast, Vacant
    <2>3. TypeOK'
        BY <2>1, <2>2 DEF LoopInv, TypeOK
    <2>4. thr[c] = "none" /\ accepted = Nobody
        BY <2>1, <2>2 DEF LoopInv, ClientsInv, MainInv
    <2>5. MainInv'
        BY <2>1, <2>2, <2>4 DEF MainInv
    <2>6. SlotsInv'
        BY <2>1, <2>2 DEF LoopInv, SlotsInv, Started, Remaining
    <2>7. OwnerInv'
        <3>1. \A g \in Fds : owner[g] # Nobody => owner[g] \in Conns /\ owner[g] # c
            BY <2>4 DEF LoopInv, OwnerInv, TypeOK, Idle
        <3>2. \A g \in Fds : g # f => owner'[g] = owner[g]
            BY <2>1 DEF LoopInv, TypeOK
        <3>3. owner'[f] = c /\ fd'[c] = f /\ \A d \in Conns : d # c => fd'[d] = fd[d]
            BY <2>1 DEF LoopInv, TypeOK
        <3>4. QED
            BY <2>1, <2>2, <2>4, <3>1, <3>2, <3>3 DEF LoopInv, OwnerInv, Idle
    <2>8. FdInv' /\ ClientsInv'
        BY <2>1, <2>2, <2>4 DEF LoopInv, TypeOK, FdInv, ClientsInv
    <2>9. QED
        BY <2>3, <2>5, <2>6, <2>7, <2>8 DEF LoopInv
<1>5. CASE NotNow
    <2>1. TypeOK'
        BY <1>5 DEF LoopInv, TypeOK, NotNow
    <2>2. QED
        BY <1>5, <2>1, Looks DEF NotNow, Remaining
<1>6. CASE Create
    <2>1. PICK c \in Conns : c = accepted /\ thr[c] = "none"
        BY <1>6 DEF Create, LoopInv, MainInv
    <2>2. /\ loop = "create" /\ loop' = "test" /\ accepted' = Nobody /\ i \in Slots
          /\ threads' = [threads EXCEPT ![i] = c] /\ active' = [active EXCEPT ![i] = TRUE]
          /\ thr' = [thr EXCEPT ![c] = "test"]
          /\ UNCHANGED <<client, fd, owner>>
        BY <1>6, <2>1 DEF Create, LoopInv, TypeOK
    <2>3. TypeOK'
        BY <1>6, <2>1 DEF Create, LoopInv, TypeOK
    <2>4. MainInv'
        BY <2>2 DEF MainInv
    <2>5. SlotsInv'
        <3>1. Remaining' = Slots /\ Remaining = Slots
            BY <2>2 DEF Remaining
        <3>2. threads[i] = Nobody /\ \A s \in Slots : threads[s] # c
            BY <2>1, <2>2 DEF LoopInv, MainInv, SlotsInv
        <3>3. threads'[i] = c /\ active'[i] /\ \A s \in Slots : s # i => threads'[s] = threads[s] /\ active'[s] = active[s]
            BY <2>2 DEF LoopInv, TypeOK
        <3>4. thr'[c] = "test" /\ \A d \in Conns : d # c => thr'[d] = thr[d]
            BY <2>2 DEF LoopInv, TypeOK
        <3>5. \A s \in Slots : threads[s] # Nobody => threads[s] \in Conns
            BY DEF LoopInv, TypeOK
        <3>6. \A d \in Started' : d = c \/ d \in Started
            BY <3>4 DEF Started
        <3>7. QED
            <4>1. \A s \in Slots : threads'[s] # Nobody => active'[s] /\ thr'[threads'[s]] # "none"
                <5>1. \A s \in Slots : threads[s] # Nobody =>
                          active[s] /\ thr[threads[s]] # "none" /\ threads[s] \in Conns /\ threads[s] # c
                    BY <3>2, <3>5 DEF LoopInv, SlotsInv
                <5>2. QED
                    BY <2>2, <3>3, <3>4, <5>1
            <4>2. \A s, t \in Slots : threads'[s] = threads'[t] /\ threads'[s] # Nobody => s = t
                BY <2>2, <3>2, <3>3 DEF LoopInv, SlotsInv
            <4>3. \A d \in Started' : \E s \in Slots : threads'[s] = d
                <5>1. \A d \in Started : \E s \in Slots : threads[s] = d /\ s # i
                    BY <2>2, <3>1, <3>2, Numbers DEF LoopInv, SlotsInv, Started
                <5>2. QED
                    BY <2>2, <3>3, <3>6, <5>1
            <4>4. QED
                BY <3>1, <4>1, <4>2, <4>3 DEF SlotsInv
    <2>6. OwnerInv' /\ FdInv' /\ ClientsInv'
        BY <2>1, <2>2 DEF LoopInv, TypeOK, OwnerInv, FdInv, ClientsInv, Idle
    <2>7. QED
        BY <2>3, <2>4, <2>5, <2>6 DEF LoopInv
<1>7. CASE CreateFails
    <2>1. PICK c \in Conns : c = accepted /\ thr[c] = "none"
        BY <1>7 DEF CreateFails, LoopInv, MainInv
    <2>2. /\ loop = "create" /\ loop' = "test" /\ accepted' = Nobody /\ i \in Slots
          /\ threads' = [threads EXCEPT ![i] = Nobody] /\ active' = [active EXCEPT ![i] = TRUE]
          /\ owner' = [owner EXCEPT ![fd[c]] = Nobody]
          /\ client' = [client EXCEPT ![c] = "gone"]
          /\ UNCHANGED <<thr, fd>>
        BY <1>7, <2>1 DEF CreateFails, LoopInv, TypeOK
    <2>3. TypeOK'
        <3>1. failures' \in 0..MaxFailures
            BY <1>7 DEF CreateFails, LoopInv, TypeOK
        <3>2. UNCHANGED <<i, server_error, terminated, asked, reading>>
            BY <1>7 DEF CreateFails
        <3>3. QED
            BY <2>1, <2>2, <3>1, <3>2 DEF LoopInv, TypeOK
    <2>4. MainInv'
        BY <2>2 DEF MainInv
    <2>5. SlotsInv'
        <3>1. threads[i] = Nobody
            BY <2>2 DEF LoopInv, MainInv, SlotsInv
        <3>2. threads' = threads /\ \A s \in Slots : active[s] => active'[s]
            BY <2>2, <3>1 DEF LoopInv, TypeOK
        <3>3. QED
            BY <2>2, <3>2 DEF LoopInv, SlotsInv, Started, Remaining
    <2>6. OwnerInv'
        <3>1. \A f \in Fds : owner'[f] # Nobody => owner'[f] = owner[f] /\ owner[f] # c
            BY <2>1, <2>2 DEF LoopInv, TypeOK, OwnerInv
        <3>2. QED
            BY <2>1, <2>2, <3>1 DEF LoopInv, OwnerInv
    <2>7. FdInv' /\ ClientsInv'
        BY <2>1, <2>2 DEF LoopInv, TypeOK, FdInv, ClientsInv
    <2>8. QED
        BY <2>3, <2>4, <2>5, <2>6, <2>7 DEF LoopInv
<1>8. CASE Kill
    <2>1. TypeOK'
        BY <1>8 DEF LoopInv, TypeOK, Kill, Interrupt
    <2>2. QED
        BY <1>8, <2>1, Walks DEF LoopInv, TypeOK, Kill, Interrupt, Idle
<1>9. CASE Join
    <2>1. PICK c \in Conns : c = threads[i] /\ thr[c] = "exited"
        BY <1>9 DEF Join, LoopInv, MainInv, TypeOK
    <2>2. /\ loop = "join" /\ loop' \in {"kill", "stopped"} /\ thr' = [thr EXCEPT ![c] = "joined"]
          /\ i \in Slots
          /\ UNCHANGED <<accepted, threads, active, client, fd, owner>>
        BY <1>9, <2>1 DEF Join, KillNext, LoopInv, TypeOK
    <2>3. TypeOK'
        BY <1>9, <1>n DEF Join, KillNext, LoopInv, TypeOK
    <2>4. MainInv'
        BY <2>2 DEF LoopInv, MainInv
    <2>5. SlotsInv'
        <3>1. \A s \in Remaining : s = i \/ s \in Remaining'
            BY <1>9, <1>n, <2>2 DEF Join, KillNext, Remaining, Slots
        <3>2. \A d \in Started' : d \in Started /\ d # c
            BY <2>2 DEF Started, LoopInv, TypeOK
        <3>3. \A d \in Conns : thr[d] # "none" => thr'[d] # "none"
            BY <2>2 DEF LoopInv, TypeOK
        <3>4. \A s \in Slots : threads[s] # Nobody => threads[s] \in Conns
            BY DEF LoopInv, TypeOK
        <3>5. QED
            BY <2>1, <2>2, <3>1, <3>2, <3>3, <3>4 DEF LoopInv, SlotsInv
    <2>6. OwnerInv' /\ FdInv' /\ ClientsInv'
        BY <2>1, <2>2 DEF LoopInv, TypeOK, OwnerInv, FdInv, ClientsInv, Idle
    <2>7. QED
        BY <2>3, <2>4, <2>5, <2>6 DEF LoopInv
<1>10. CASE KillNone
    <2>1. TypeOK'
        BY <1>10, <1>n DEF KillNone, KillNext, LoopInv, TypeOK
    <2>2. threads[i] = Nobody /\ i \in Slots
        BY <1>10 DEF KillNone, LoopInv, SlotsInv, TypeOK
    <2>3. \A s \in Remaining : s = i \/ s \in Remaining' \/ loop' = "dead"
        BY <1>10, <1>n, <2>2 DEF KillNone, KillNext, Remaining, Slots
    <2>4. QED
        BY <1>10, <2>1, <2>2, <2>3, Looks DEF KillNone, KillNext
<1>11. QED
    BY <1>1, <1>2, <1>3, <1>4, <1>5, <1>6, <1>7, <1>8, <1>9, <1>10 DEF Main

-----------------------------------------------------------------------------
LEMMA Inductive == LoopInv /\ [Next]_vars => LoopInv'
<1> SUFFICES ASSUME LoopInv, [Next]_vars PROVE LoopInv'
    OBVIOUS
<1> USE DEF main, clients, serving
<1>1. CASE Main
    BY <1>1, MainKeeps
<1>2. CASE \E c \in Conns : Serve(c)
    BY <1>2, ServeKeeps
<1>3. ASSUME NEW c \in Conns, Arrive(c) \/ Leave(c) PROVE LoopInv'
    <2>1. /\ UNCHANGED <<main, thr, fd, owner>>
          /\ \A d \in Conns : client'[d] \in {"none", "waiting"} => client[d] \in {"none", "waiting"}
        BY <1>3 DEF Arrive, Leave, LoopInv, TypeOK
    <2>2. TypeOK'
        BY <1>3 DEF Arrive, Leave, LoopInv, TypeOK
    <2>3. MainInv' /\ SlotsInv' /\ OwnerInv' /\ FdInv' /\ ClientsInv'
        BY <2>1 DEF LoopInv, MainInv, SlotsInv, OwnerInv, FdInv, ClientsInv, Remaining, Started
    <2>4. QED
        BY <2>2, <2>3 DEF LoopInv
<1>4. CASE Sigint
    <2>1. TypeOK'
        BY <1>4 DEF Sigint, Interrupt, Goto, LoopInv, TypeOK
    <2>2. QED
        BY <1>4, <2>1, Walks DEF Sigint, Interrupt, Goto, LoopInv, TypeOK, Idle
<1>5. CASE Done \/ UNCHANGED vars
    BY <1>5 DEF Done, vars, LoopInv, TypeOK, MainInv, SlotsInv, OwnerInv, FdInv, ClientsInv, Remaining, Started
<1>6. QED
    BY <1>1, <1>2, <1>3, <1>4, <1>5 DEF Next

LEMMA Invariant == Spec => []LoopInv
BY Initially, Inductive, PTL DEF Spec

\* Every reachable state of the main loop is type correct.
THEOREM LoopTyped == Spec => []TypeOK
<1>1. LoopInv => TypeOK
    BY DEF LoopInv
<1>2. QED
    BY <1>1, Invariant, PTL

\* While the main loop runs, every thread that has not been joined has one slot:
\* a slot that is used again never belonged to a thread that still runs
\* (network_server.c:105, :145).
THEOREM ThreadsKept == Spec => []OneSlotPerThread
<1>1. LoopInv => OneSlotPerThread
    <2> SUFFICES ASSUME LoopInv, loop \notin {"kill", "join", "stopped", "dead"}, NEW c \in Started
                 PROVE  Cardinality(SlotsOf(c)) = 1
        BY DEF OneSlotPerThread
    <2>1. PICK s \in Slots : threads[s] = c
        BY DEF LoopInv, SlotsInv, Remaining
    <2>2. SlotsOf(c) = {s}
        BY <2>1, Numbers DEF SlotsOf, LoopInv, SlotsInv, Started
    <2>3. QED
        BY <2>2, FS_Singleton
<1>2. QED
    BY <1>1, Invariant, PTL

\* network_main_loop returns only when every thread has been joined: main may
\* free the table and the locks (network_server.c:168, table_server.c).
THEOREM NoneOutlives == Spec => []NoThreadOutlivesTable
<1>1. LoopInv => NoThreadOutlivesTable
    BY DEF LoopInv, SlotsInv, Remaining, NoThreadOutlivesTable
<1>2. QED
    BY <1>1, Invariant, PTL

\* No descriptor leaks: one that is open is that of a connection that has just
\* been accepted or of a thread that still runs (server_thread.c:52).
THEOREM NoDescriptorLeaks == Spec => []DescriptorsGivenBack
<1>1. LoopInv => DescriptorsGivenBack
    BY DEF LoopInv, OwnerInv, DescriptorsGivenBack, Idle
<1>2. QED
    BY <1>1, Invariant, PTL
=============================================================================
