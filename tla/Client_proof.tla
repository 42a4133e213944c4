---------------------------- MODULE Client_proof ----------------------------
(***************************************************************************)
(* Proofs about Client, for any number of servers, faults and descriptors: *)
(* types; main never uses a table that is not its own, and no descriptor   *)
(* that is open on a server is forgotten; and the client reads what it     *)
(* wrote.                                                                  *)
(*                                                                         *)
(* The second rests on these facts: main sets its tables once, when they   *)
(* are NULL, and gives them up only when it ends, and the callback         *)
(* replaces a table that it has just freed.                                *)
(*                                                                         *)
(* The third is about the time in which no server dies.  Then a link,      *)
(* once it is set, stays: servers come up in the order of their nodes, so  *)
(* that the successor of a server is the next one for good (Growing).      *)
(* And no connection fails, so that every descriptor in a table is open on *)
(* a server and in no other table (Separate): whatever the callback        *)
(* closes is its own.  main therefore keeps its two connections, and what  *)
(* is written at one of them is there at the other (Consistent).           *)
(***************************************************************************)
EXTENDS Client, TLAPS, FiniteSetTheorems, WellFoundedInduction

-----------------------------------------------------------------------------
(* Types.                                                                  *)

\* A set of servers that is not empty has a least and a greatest member.
LEMMA LeastServer ==
    ASSUME NEW S \in SUBSET Servers, S # {}
    PROVE  Min(S) \in S /\ \A s \in S : Min(S) <= s
<1>0. S \subseteq Nat
    BY ClientAssumption DEF Servers, ClientAssumption
<1>1. PICK n \in S : \A m \in S : ~(<<m, n>> \in OpToRel(<, Nat))
    BY <1>0, NatLessThanWellFounded, WFMin
<1>2. \A m \in S : n <= m
    <2> TAKE m \in S
    <2>1. <<m, n>> \in Nat \X Nat /\ ~(m < n)
        BY <1>0, <1>1 DEF OpToRel
    <2> QED
        BY <2>1
<1>3. QED
    BY <1>2 DEF Min

LEMMA GreatestServer ==
    ASSUME NEW S \in SUBSET Servers, S # {}
    PROVE  Max(S) \in S /\ \A s \in S : Max(S) >= s
<1> DEFINE B == {b \in Servers : \A s \in S : s <= b}
<1>0. S \subseteq Nat /\ N \in Nat
    BY ClientAssumption DEF Servers, ClientAssumption
<1>1. N \in B
    <2>1. PICK s \in S : s \in 1..N
        BY DEF Servers
    <2>2. \A u \in S : u <= N
        BY DEF Servers
    <2>3. QED
        BY <1>0, <2>1, <2>2 DEF Servers
<1>2. B \in SUBSET Servers
    OBVIOUS
<1> DEFINE b == Min(B)
<1>3. b \in B /\ \A c \in B : b <= c
    BY <1>1, <1>2, LeastServer
<1> HIDE DEF b
<1>4. b \in S
    <2> SUFFICES ASSUME b \notin S PROVE FALSE
        OBVIOUS
    <2>1. PICK s \in S : TRUE
        OBVIOUS
    <2>2. \A u \in S : u <= b - 1 /\ 1 <= u
        BY <1>0, <1>3 DEF Servers
    <2>3. b - 1 \in B
        BY <1>0, <1>3, <2>1, <2>2 DEF Servers
    <2>4. QED
        BY <1>0, <1>3, <2>3 DEF Servers
<1>5. QED
    BY <1>3, <1>4 DEF Max

ChainTypes ==
    /\ stage \in [Servers -> {"down", "copied", "up", "dead"}]
    /\ registered \in SUBSET Servers
    /\ value \in [Servers -> 0..MaxWrites]
    /\ next \in [Servers -> {None} \union Servers]

ZooKeeperTypes ==
    /\ session \in BOOLEAN /\ losses \in 0..MaxFaults
    /\ events \in Seq({"connected", "lost", "children"})
    /\ watch \in (SUBSET Servers) \union {NoWatch}
    /\ client_connected_to_zk \in BOOLEAN

StartTypes ==
    /\ pc \in Pcs
    /\ listed \in [Ends -> SUBSET Servers]
    /\ address \in [Ends -> {None, Nowhere} \union Servers]
    /\ local \in [Ends -> {Null, Freed} \union Fds]
    /\ whole \in BOOLEAN

CommandTypes ==
    /\ op \in Commands \union {"QUIT", "INVALID"}
    /\ asked \in {None} \union Servers
    /\ result \in [ok : BOOLEAN, value : 0..MaxWrites]
    /\ written \in 0..MaxWrites /\ puts \in 0..MaxWrites

CallbackTypes ==
    /\ cb \in {"idle", "compare", "zoo_get", "disconnect", "connect"}
    /\ new \in [Ends -> {None} \union Servers]
    /\ has \in SUBSET Ends
    /\ addr \in {None} \union Servers
    /\ global \in [Ends -> {Null, Freed} \union Fds]

SharedTypes ==
    /\ path \in [Ends -> {Null, None} \union Servers]
    /\ connected \in [Ends -> BOOLEAN]
    /\ fds \in [Fds -> {Closed, Stdin, Unconnected} \union Servers]

\* What a command is while it is served.
CommandInv ==
    /\ pc \in {"send", "receive"} => op \in Commands
    /\ pc = "send" /\ op = "PUT" => puts < MaxWrites
    /\ pc = "receive" => asked \in Servers

TypeInv == /\ ChainTypes /\ ZooKeeperTypes /\ StartTypes /\ CommandTypes
           /\ CallbackTypes /\ SharedTypes /\ CommandInv

LEMMA TypesAre ==
    TypeOK <=> /\ ChainTypes /\ ZooKeeperTypes /\ StartTypes /\ CommandTypes
               /\ CallbackTypes /\ SharedTypes
BY Zenon DEF TypeOK, ChainTypes, ZooKeeperTypes, StartTypes, CommandTypes, CallbackTypes, SharedTypes

LEMMA TypesInitially == Init => TypeInv
<1> SUFFICES ASSUME Init PROVE TypeInv
    OBVIOUS
<1> USE ClientAssumption DEF ClientAssumption, Init
<1>1. ChainTypes
    BY DEF ChainTypes, Servers, None, Absent
<1>2. ZooKeeperTypes
    <2>1. <<>> \in Seq({"connected", "lost", "children"})
        OBVIOUS
    <2>2. losses \in 0..MaxFaults
        OBVIOUS
    <2>3. QED
        BY <2>1, <2>2 DEF ZooKeeperTypes
<1>3. StartTypes
    BY DEF StartTypes, Pcs
<1>4. CommandTypes /\ CommandInv
    BY DEF CommandTypes, CommandInv, Absent, Commands
<1>5. CallbackTypes
    BY DEF CallbackTypes, None, Null, Freed
<1>6. SharedTypes
    BY DEF SharedTypes, Ends
<1>7. QED
    BY <1>1, <1>2, <1>3, <1>4, <1>5, <1>6 DEF TypeInv

LEMMA AddressTypes == ASSUME TypeInv, NEW n PROVE zoo_get(n) \in {None} \union Servers
BY DEF zoo_get, TypeInv, ChainTypes

\* network_close and rtable_connect keep the types of what they change.
LEMMA CloseTypes ==
    ASSUME TypeInv, NEW e \in Ends, NEW d, network_close(e, d), UNCHANGED path
    PROVE  SharedTypes'
BY DEF network_close, TypeInv, SharedTypes

LEMMA ConnectTypes ==
    ASSUME TypeInv, NEW e \in Ends, NEW a,
           \/ \E d \in Fds : rtable_connect(e, a, d)
           \/ SocketFails(a)
           \/ ConnectFails(e, a)
    PROVE  /\ connected' \in [Ends -> BOOLEAN]
           /\ fds' \in [Fds -> {Closed, Stdin, Unconnected} \union Servers]
<1>1. CASE \E d \in Fds : rtable_connect(e, a, d)
    BY <1>1 DEF rtable_connect, TypeInv, SharedTypes
<1>2. CASE SocketFails(a)
    BY <1>2 DEF SocketFails, TypeInv, SharedTypes
<1>3. CASE ConnectFails(e, a)
    BY <1>3 DEF ConnectFails, TypeInv, SharedTypes
<1>4. QED
    BY <1>1, <1>2, <1>3

\* The steps of the chain and of ZooKeeper.
LEMMA ChainStepTypes == TypeInv /\ ChainStep => TypeInv'
<1> SUFFICES ASSUME TypeInv, ChainStep PROVE TypeInv'
    OBVIOUS
<1> USE DEF TypeInv
<1>1. ChainTypes' /\ whole' \in BOOLEAN
    <2>0. registered \in SUBSET Servers /\ whole \in BOOLEAN
        BY DEF ChainTypes, StartTypes
    <2>1. ASSUME NEW s \in Servers, Copy(s) PROVE ChainTypes'
        <3> DEFINE live == {t \in registered : stage[t] = "up"}
        <3>1. live # {} => Max(live) \in Servers
            BY <2>0, GreatestServer
        <3>2. value' = [value EXCEPT ![s] = IF live = {} THEN Absent ELSE value[Max(live)]]
            BY <2>1 DEF Copy
        <3>3. value' \in [Servers -> 0..MaxWrites]
            <4> HIDE DEF live
            <4> QED
                BY <3>1, <3>2, ClientAssumption DEF ChainTypes, Absent, ClientAssumption
        <3>4. QED
            BY <2>1, <3>3 DEF Copy, ChainTypes
    <2>2. ASSUME NEW s \in Servers, Register(s) PROVE ChainTypes'
        BY <2>2 DEF Register, ChainTypes
    <2>3. ASSUME NEW s \in Servers, Link(s) PROVE ChainTypes'
        <3>1. Successor(s) \in {None} \union Servers
            <4> DEFINE later == {t \in registered : t > s}
            <4>1. later # {} => Min(later) \in later
                BY <2>0, LeastServer
            <4>2. QED
                BY <2>0, <4>1 DEF Successor
        <3>2. QED
            BY <2>3, <3>1 DEF Link, ChainTypes
    <2>4. ASSUME NEW s \in Servers, Die(s) \/ Expire(s) PROVE ChainTypes'
        BY <2>4 DEF Die, Expire, ChainTypes
    <2>5. QED
        BY <2>0, <2>1, <2>2, <2>3, <2>4 DEF ChainStep
<1>2. StartTypes'
    BY <1>1 DEF ChainStep, startup, StartTypes
<1>3. ZooKeeperTypes' /\ CommandTypes' /\ CallbackTypes' /\ SharedTypes' /\ CommandInv'
    BY DEF ChainStep, zookeeper, command, callback, shared, ZooKeeperTypes, CommandTypes, CallbackTypes,
       SharedTypes, CommandInv
<1>4. QED
    BY <1>1, <1>2, <1>3

LEMMA ZooKeeperStepTypes == TypeInv /\ ZooKeeperStep => TypeInv'
<1> SUFFICES ASSUME TypeInv, ZooKeeperStep PROVE TypeInv'
    OBVIOUS
<1> USE DEF TypeInv
<1>1. losses' \in 0..MaxFaults
    <2>1. CASE Lost
        <3> DEFINE Dead == {s \in Servers : stage[s] = "dead"}
        <3>1. Cardinality(Dead) \in Nat
            <4>1. IsFiniteSet(Servers)
                BY FS_Interval, ClientAssumption DEF Servers, ClientAssumption
            <4>2. QED
                BY <4>1, FS_Subset, FS_CardinalityType
        <3>2. losses' = losses + 1 /\ losses + Cardinality(Dead) < MaxFaults
            BY <2>1 DEF Lost, Faults
        <3>3. QED
            BY <3>1, <3>2, ClientAssumption DEF ZooKeeperTypes, ClientAssumption
    <2>2. QED
        BY <2>1 DEF ZooKeeperStep, Connected, Notify, ZooKeeperTypes
<1>2. ZooKeeperTypes'
    <2>1. session' \in BOOLEAN /\ client_connected_to_zk' \in BOOLEAN
        BY DEF ZooKeeperStep, Connected, Lost, Notify, ZooKeeperTypes
    <2>2. events' \in Seq({"connected", "lost", "children"})
        BY DEF ZooKeeperStep, Connected, Lost, Notify, ZooKeeperTypes
    <2>3. watch' \in {watch, NoWatch}
        BY DEF ZooKeeperStep, Connected, Lost, Notify
    <2>4. QED
        BY <1>1, <2>1, <2>2, <2>3 DEF ZooKeeperTypes
<1>3. ChainTypes' /\ StartTypes' /\ CommandTypes' /\ CallbackTypes' /\ SharedTypes' /\ CommandInv'
    BY DEF ZooKeeperStep, chain, startup, command, callback, shared, ChainTypes, StartTypes, CommandTypes,
       CallbackTypes, SharedTypes, CommandInv
<1>4. QED
    BY <1>2, <1>3
\* The steps of main before the command loop.
LEMMA StartStepTypes == TypeInv /\ Start => TypeInv'
<1> SUFFICES ASSUME TypeInv, Start PROVE TypeInv'
    OBVIOUS
<1> USE DEF TypeInv, Goto
<1>1. ASSUME CommandTypes', StartTypes', pc' \notin {"send", "receive"},
             UNCHANGED <<stage, registered, value, next, cb, new, has, addr, global,
                         session, losses, events, client_connected_to_zk>>,
             watch' \in (SUBSET Servers) \union {NoWatch}, SharedTypes'
      PROVE  TypeInv'
    BY <1>1 DEF ChainTypes, ZooKeeperTypes, CallbackTypes, CommandInv
<1>2. CASE WaitForZooKeeper
    BY <1>1, <1>2 DEF WaitForZooKeeper, MainOnly, chain, zookeeper, callback, startup, command, shared,
       CommandTypes, StartTypes, Pcs, SharedTypes, ZooKeeperTypes
<1>3. CASE ListChildren
    BY <1>1, <1>3 DEF ListChildren, chain, callback, command, shared,
       CommandTypes, StartTypes, Pcs, SharedTypes, ZooKeeperTypes, ChainTypes
<1>4. CASE CallocPaths
    BY <1>1, <1>4 DEF CallocPaths, MainOnly, chain, zookeeper, callback, startup, command,
       CommandTypes, StartTypes, Pcs, SharedTypes, ZooKeeperTypes
<1>5. ASSUME NEW e \in Ends, NEW here, NEW there \in Pcs \ {"send", "receive"}, FindEnd(e, here, there),
             here \notin {"send", "receive"}
      PROVE  TypeInv'
    <2>1. StartTypes' /\ path' \in [Ends -> {Null, None} \union Servers]
        <3>1. CASE listed[e] = {}
            BY <1>5, <3>1 DEF FindEnd, StartTypes, SharedTypes
        <3>2. CASE listed[e] # {}
            <4>1. PICK n \in listed[e] :
                     /\ listed' = [listed EXCEPT ![e] = @ \ {n}]
                     /\ path' = [path EXCEPT ![e] = IF @ = None \/ Beyond(e, n, @) THEN n ELSE @]
                BY <1>5, <3>2 DEF FindEnd
            <4>2. n \in Servers
                BY DEF StartTypes
            <4>3. QED
                BY <1>5, <3>2, <4>1, <4>2 DEF FindEnd, StartTypes, SharedTypes
        <3>3. QED
            BY <3>1, <3>2
    <2>2. QED
        BY <1>1, <1>5, <2>1 DEF FindEnd, MainOnly, chain, zookeeper, callback, command,
           CommandTypes, SharedTypes, ZooKeeperTypes
<1>6. ASSUME NEW e \in Ends, NEW here, NEW there \in Pcs \ {"send", "receive"}, Locate(e, here, there)
      PROVE  TypeInv'
    <2>1. StartTypes'
        <3>1. PICK a \in {zoo_get(path[e]), Nowhere} :
                 address' = [address EXCEPT ![e] = IF zoo_get(path[e]) = None THEN None ELSE a]
            BY <1>6 DEF Locate
        <3>2. a \in {None, Nowhere} \union Servers
            BY <3>1, AddressTypes
        <3>3. QED
            BY <1>6, <3>1, <3>2 DEF Locate, StartTypes
    <2>2. QED
        BY <1>1, <1>6, <2>1 DEF Locate, MainOnly, chain, zookeeper, callback, command, shared,
           CommandTypes, SharedTypes, ZooKeeperTypes
<1>7. ASSUME NEW e \in Ends, NEW here, NEW there \in Pcs \ {"send", "receive"}, Connect(e, here, there)
      PROVE  TypeInv'
    <2>1. whole' \in BOOLEAN /\ pc' \in Pcs \ {"send", "receive"}
        BY <1>7 DEF Connect, Crash, Pcs
    <2>2. address' \in [Ends -> {None, Nowhere} \union Servers]
        BY <1>7 DEF Connect, StartTypes
    <2>3. local' \in [Ends -> {Null, Freed} \union Fds]
        BY <1>7 DEF Connect, Crash, StartTypes
    <2>4. UNCHANGED <<fds, connected>> \/ (\E d \in Fds : rtable_connect(e, address[e], d))
             \/ SocketFails(address[e]) \/ ConnectFails(e, address[e])
        BY <1>7 DEF Connect, Crash
    <2>5. SharedTypes'
        BY <1>7, <2>4, ConnectTypes DEF Connect, SharedTypes
    <2>6. StartTypes'
        BY <1>7, <2>1, <2>2, <2>3 DEF Connect, StartTypes
    <2>7. QED
        BY <1>1, <1>7, <2>1, <2>5, <2>6 DEF Connect, MainOnly, chain, zookeeper, callback, command,
           CommandTypes, ZooKeeperTypes
<1>8. QED
    BY <1>2, <1>3, <1>4, <1>5, <1>6, <1>7 DEF Start, FindHead, FindTail, Ends, Pcs

\* What a server answers, as the client returns it.
LEMMA ReturnedTypes ==
    ASSUME NEW o \in Commands, NEW v \in 0..MaxWrites
    PROVE  Returned(o, Reply(o, v)) \in [ok : BOOLEAN, value : 0..MaxWrites]
BY ClientAssumption DEF Returned, Reply, rtable_put, rtable_del, rtable_get, rtable_size, rtable_get_keys,
   rtable_get_table, rtable_stats, Ok, Error, Commands, Absent, ClientAssumption

\* The steps of the command loop.
LEMMA LoopStepTypes == TypeInv /\ (Loop \/ Input) => TypeInv'
<1> SUFFICES ASSUME TypeInv, Loop \/ Input PROVE TypeInv'
    OBVIOUS
<1> USE DEF TypeInv, Goto
<1>0. Error \in [ok : BOOLEAN, value : 0..MaxWrites]
    BY ClientAssumption DEF Error, ClientAssumption
<1>1. ASSUME ChainTypes', CommandTypes', StartTypes', CommandInv', SharedTypes',
             UNCHANGED <<cb, new, has, addr, global, session, losses, events, watch, client_connected_to_zk>>
      PROVE  TypeInv'
    BY <1>1 DEF ZooKeeperTypes, CallbackTypes
<1>2. CASE Check
    <2>1. CommandTypes' /\ StartTypes' /\ CommandInv'
        BY <1>0, <1>2 DEF Check, startup, CommandTypes, StartTypes, CommandInv, Pcs
    <2>2. QED
        BY <1>1, <1>2, <2>1 DEF Check, MainOnly, chain, zookeeper, callback, shared, ChainTypes, SharedTypes
<1>3. ASSUME NEW o \in Commands \union {"QUIT", "INVALID"}, Command(o) PROVE TypeInv'
    <2>1. pc' \in {"send", "leave_head", "check"} /\ (pc' = "send" => o \in Commands)
        BY <1>3 DEF Command, Commands
    <2>2. CommandTypes' /\ StartTypes'
        BY <1>3, <2>1 DEF Command, startup, CommandTypes, StartTypes, Pcs
    <2>3. CommandInv'
        BY <1>3, <2>1 DEF Command, CommandInv
    <2>4. QED
        BY <1>1, <1>3, <2>2, <2>3 DEF Command, MainOnly, chain, zookeeper, callback, shared, ChainTypes, SharedTypes
<1>4. ASSUME NEW e \in Ends, NEW d, network_close(e, d) \/ UNCHANGED <<fds, connected>>, UNCHANGED path
      PROVE  SharedTypes'
    BY <1>4, CloseTypes DEF SharedTypes
<1>5. CASE Send
    <2>1. End(op) \in Ends /\ pc' \in {"receive", "check", "ended"} /\ (pc' = "receive" => asked' \in Servers)
        BY <1>5 DEF Send, End, Ends
    <2>2. SharedTypes'
        BY <1>4, <1>5, <2>1 DEF Send, shared
    <2>3. puts' \in 0..MaxWrites
        BY <1>5, ClientAssumption DEF Send, CommandInv, CommandTypes, ClientAssumption
    <2>4. CommandTypes'
        BY <1>0, <1>5, <2>3 DEF Send, CommandTypes
    <2>5. StartTypes' /\ CommandInv'
        BY <1>5, <2>1 DEF Send, startup, StartTypes, CommandInv, Pcs
    <2>6. QED
        BY <1>1, <1>5, <2>2, <2>4, <2>5 DEF Send, MainOnly, chain, zookeeper, callback, ChainTypes
<1>6. CASE Receive
    <2>1. asked \in Servers /\ op \in Commands /\ value[asked] \in 0..MaxWrites
        BY <1>6 DEF Receive, CommandInv, ChainTypes
    <2>2. value' \in [Servers -> 0..MaxWrites]
        BY <1>6, ClientAssumption DEF Receive, ChainTypes, CommandTypes, Absent, ClientAssumption
    <2>3. result' \in [ok : BOOLEAN, value : 0..MaxWrites]
        BY <1>6, <2>1, ReturnedTypes DEF Receive
    <2>4. ChainTypes' /\ CommandTypes'
        BY <1>6, <2>1, <2>2, <2>3 DEF Receive, ChainTypes, CommandTypes
    <2>5. StartTypes' /\ CommandInv' /\ SharedTypes'
        BY <1>6 DEF Receive, startup, shared, StartTypes, CommandInv, SharedTypes, Pcs
    <2>6. QED
        BY <1>1, <1>6, <2>4, <2>5 DEF Receive, zookeeper, callback
<1>7. CASE ReceiveFails
    <2>1. SharedTypes'
        BY <1>4, <1>7 DEF ReceiveFails, End, Ends
    <2>2. CommandTypes' /\ StartTypes' /\ CommandInv'
        BY <1>0, <1>7 DEF ReceiveFails, startup, CommandTypes, StartTypes, CommandInv, Pcs
    <2>3. QED
        BY <1>1, <1>7, <2>1, <2>2 DEF ReceiveFails, MainOnly, chain, zookeeper, callback, ChainTypes
<1>8. ASSUME NEW e \in Ends, NEW here, NEW there \in Pcs \ {"send", "receive"}, Leave(e, here, there)
      PROVE  TypeInv'
    <2>1. SharedTypes'
        BY <1>4, <1>8 DEF Leave
    <2>2. CommandTypes' /\ StartTypes' /\ CommandInv'
        BY <1>8 DEF Leave, startup, command, CommandTypes, StartTypes, CommandInv, Pcs
    <2>3. QED
        BY <1>1, <1>8, <2>1, <2>2 DEF Leave, MainOnly, chain, zookeeper, callback, ChainTypes
<1>9. QED
    BY <1>2, <1>3, <1>5, <1>6, <1>7, <1>8 DEF Loop, Call, Input, Ends, Pcs

\* The steps of the callbacks.
LEMMA CallbackStepTypes == TypeInv /\ Callback => TypeInv'
<1> SUFFICES ASSUME TypeInv, Callback PROVE TypeInv'
    OBVIOUS
<1> USE DEF TypeInv, Goto
<1>1. ASSUME CallbackTypes', SharedTypes', ZooKeeperTypes', pc' = pc \/ pc' = "crashed",
             UNCHANGED <<stage, registered, value, next, listed, address, local, whole,
                         op, asked, result, written, puts>>
      PROVE  TypeInv'
    BY <1>1 DEF ChainTypes, StartTypes, CommandTypes, CommandInv, Pcs
<1>2. events # <<>> => Tail(events) \in Seq({"connected", "lost", "children"})
    BY DEF ZooKeeperTypes
<1>3. CASE client_connection_handler
    <2>1. ZooKeeperTypes'
        BY <1>2, <1>3 DEF client_connection_handler, CallbackOnly, ZooKeeperTypes
    <2>2. QED
        BY <1>1, <1>3, <2>1 DEF client_connection_handler, CallbackOnly, chain, startup, command, callback,
           shared, CallbackTypes, SharedTypes
<1>4. CASE Relist
    <2>1. ZooKeeperTypes'
        BY <1>2, <1>4 DEF Relist, CallbackOnly, ZooKeeperTypes, ChainTypes
    <2>2. registered # {} => Min(registered) \in Servers /\ Max(registered) \in Servers
        BY LeastServer, GreatestServer DEF ChainTypes
    <2>3. CallbackTypes'
        <3>1. new' \in [Ends -> {None} \union Servers]
            BY <1>4, <2>2 DEF Relist, CallbackTypes, Ends
        <3>2. QED
            BY <1>4, <3>1 DEF Relist, CallbackTypes
    <2>4. QED
        BY <1>1, <1>4, <2>1, <2>3 DEF Relist, CallbackOnly, chain, startup, command, shared, SharedTypes
<1>5. CASE Compare
    <2>1. CallbackTypes' /\ (pc' = pc \/ pc' = "crashed")
        BY <1>5 DEF Compare, CallbackTypes
    <2>2. QED
        BY <1>1, <1>5, <2>1 DEF Compare, CallbackOnly, chain, startup, command, shared, SharedTypes,
           ZooKeeperTypes
<1>6. CASE GetAddress
    <2>1. CallbackTypes'
        BY <1>6, AddressTypes DEF GetAddress, CallbackTypes
    <2>2. QED
        BY <1>1, <1>6, <2>1 DEF GetAddress, CallbackOnly, chain, startup, command, shared, SharedTypes,
           ZooKeeperTypes
<1>7. Current \in Ends
    BY DEF Current, Ends
<1>8. CASE Disconnect
    <2>1. CallbackTypes'
        BY <1>7, <1>8 DEF Disconnect, CallbackTypes
    <2>2. SharedTypes'
        BY <1>7, <1>8, CloseTypes DEF Disconnect, SharedTypes
    <2>3. QED
        BY <1>1, <1>8, <2>1, <2>2 DEF Disconnect, CallbackOnly, chain, startup, command, ZooKeeperTypes
<1>9. CASE Reconnect
    <2>1. UNCHANGED <<fds, connected>> \/ (\E d \in Fds : rtable_connect(Current, addr, d))
             \/ SocketFails(addr) \/ ConnectFails(Current, addr)
        BY <1>9 DEF Reconnect, Crash
    <2>2. SharedTypes'
        <3>1. /\ connected' \in [Ends -> BOOLEAN]
              /\ fds' \in [Fds -> {Closed, Stdin, Unconnected} \union Servers]
            BY <1>7, <2>1, ConnectTypes DEF SharedTypes
        <3>2. path' = path \/ path' = [path EXCEPT ![Current] = new[Current]]
            BY <1>9 DEF Reconnect
        <3>3. QED
            BY <1>7, <3>1, <3>2 DEF SharedTypes, CallbackTypes
    <2>3. CallbackTypes'
        <3>1. global' \in [Ends -> {Null, Freed} \union Fds]
            BY <1>7, <1>9 DEF Reconnect, CallbackTypes
        <3>2. QED
            BY <1>9, <3>1 DEF Reconnect, CallbackTypes
    <2>4. UNCHANGED local /\ (pc' = pc \/ pc' = "crashed")
        BY <1>9 DEF Reconnect, Crash
    <2>5. QED
        BY <1>1, <1>9, <2>2, <2>3, <2>4 DEF Reconnect, chain, startup, command, ZooKeeperTypes
<1>10. QED
    BY <1>3, <1>4, <1>5, <1>6, <1>8, <1>9 DEF Callback, client_watch_children

LEMMA TypesInductive == TypeInv /\ [Next]_vars => TypeInv'
<1>1. TypeInv /\ (Done \/ UNCHANGED vars) => TypeInv'
    BY DEF Done, vars, chain, zookeeper, startup, command, callback, shared, TypeInv, ChainTypes,
       ZooKeeperTypes, StartTypes, CommandTypes, CallbackTypes, SharedTypes, CommandInv
<1>2. QED
    BY <1>1, ChainStepTypes, ZooKeeperStepTypes, StartStepTypes, LoopStepTypes, CallbackStepTypes DEF Next

LEMMA TypesInvariant == Spec => []TypeInv
BY TypesInitially, TypesInductive, PTL DEF Spec

\* Every variable of the client keeps its type, for any number of servers,
\* writes, faults and descriptors.
THEOREM TypeCorrect == Spec => []TypeOK
<1>1. TypeInv => TypeOK
    BY TypesAre DEF TypeInv
<1>2. QED
    BY <1>1, TypesInvariant, PTL

-----------------------------------------------------------------------------
(* The tables of main and of the callback.                                 *)

\* The types the argument needs.
Types == /\ fds \in [Fds -> Int]
         /\ local \in [Ends -> Int]
         /\ global \in [Ends -> Int]

Connecting == {"wait", "list", "calloc", "find_head", "find_tail", "locate_head",
               "locate_tail", "connect_head"}
InLoop == {"check", "input", "send", "receive", "leave_head"}

\* What main knows of its tables by the place it is at.
LocalsInv ==
    /\ pc \in Connecting => local["head"] = Null /\ local["tail"] = Null
    /\ pc = "connect_tail" => local["tail"] = Null /\ local["head"] \in {Null} \union Fds
    /\ pc \in InLoop => local["head"] \in Fds /\ local["tail"] \in Fds

\* The callback connects a table that it has freed, or that was NULL.
GlobalsInv == cb = "connect" => global[Current] \notin Fds

ClientInv == Types /\ LocalsInv /\ GlobalsInv /\ DescriptorsHeld

tables == <<fds, local, global, has>>

-----------------------------------------------------------------------------
LEMMA Initially == Init => ClientInv
<1> SUFFICES ASSUME Init PROVE ClientInv
    OBVIOUS
<1>1. Types
    BY DEF Init, Types, Stdin, Closed, Null
<1>2. LocalsInv
    BY DEF Init, LocalsInv, Connecting, InLoop, Ends
<1>3. GlobalsInv
    BY DEF Init, GlobalsInv
<1>4. DescriptorsHeld
    BY ClientAssumption DEF Init, DescriptorsHeld, Servers, Stdin, Closed, ClientAssumption
<1>5. QED
    BY <1>1, <1>2, <1>3, <1>4 DEF ClientInv

\* A step that changes no table keeps the invariant if main stays where it knows
\* as much of its tables.
LEMMA TablesKept ==
    ASSUME ClientInv, UNCHANGED tables, cb' = "connect" => cb \in {"connect", "disconnect"},
           cb' = "connect" /\ cb = "disconnect" => global[Current] = Null,
           \/ pc' = pc
           \/ pc' \in {"ended", "crashed"}
           \/ pc \in Connecting /\ pc' \in Connecting
           \/ pc \in InLoop /\ pc' \in InLoop
    PROVE  ClientInv'
<1>1. Types' /\ LocalsInv'
    BY DEF ClientInv, Types, LocalsInv, Connecting, InLoop, tables
<1>2. GlobalsInv'
    <2>1. Null \notin Fds
        BY ClientAssumption DEF Null, Fds, ClientAssumption
    <2>2. QED
        BY <2>1 DEF ClientInv, GlobalsInv, Current, tables
<1>3. DescriptorsHeld'
    BY DEF ClientInv, DescriptorsHeld, Held, Over, tables, Connecting, InLoop
<1>4. QED
    BY <1>1, <1>2, <1>3 DEF ClientInv

\* network_close closes at most.
LEMMA Closes ==
    ASSUME NEW e, NEW d, fds \in [Fds -> Int], network_close(e, d)
    PROVE  /\ fds' \in [Fds -> Int]
           /\ \A c \in Fds : fds'[c] \in Servers => fds'[c] = fds[c] /\ c # d
<1>1. fds' = [fds EXCEPT ![d] = Closed]
    BY DEF network_close
<1>2. Closed \in Int /\ Closed \notin Servers
    BY ClientAssumption DEF Closed, Servers, ClientAssumption
<1>3. QED
    BY <1>1, <1>2

LEMMA Fails ==
    ASSUME NEW e, NEW a, fds \in [Fds -> Int], SocketFails(a) \/ ConnectFails(e, a)
    PROVE  /\ fds' \in [Fds -> Int]
           /\ \A c \in Fds : fds'[c] \in Servers => fds'[c] = fds[c]
BY ClientAssumption DEF SocketFails, ConnectFails, Closed, Unconnected, Servers, ClientAssumption

LEMMA Opens ==
    ASSUME NEW e, NEW a, NEW d \in Fds, fds \in [Fds -> Int], rtable_connect(e, a, d)
    PROVE  /\ fds' \in [Fds -> Int]
           /\ \A c \in Fds : c # d => fds'[c] = fds[c]
BY ClientAssumption DEF rtable_connect, Servers, ClientAssumption

\* main connects to one end.
LEMMA Connects ==
    ASSUME ClientInv, NEW e \in Ends, NEW here, NEW there, Connect(e, here, there),
           \/ e = "head" /\ here = "connect_head" /\ there = "connect_tail"
           \/ e = "tail" /\ here = "connect_tail" /\ there = "check"
    PROVE  ClientInv'
<1> USE DEF ClientInv, Types
<1>0. UNCHANGED <<cb, has, global>> /\ local[e] = Null /\ Null \notin Fds /\ Null \in Int /\ Fds \subseteq Int
    BY ClientAssumption DEF Connect, MainOnly, callback, LocalsInv, Connecting, Null, Fds, ClientAssumption
<1>1. GlobalsInv'
    BY <1>0 DEF GlobalsInv, Current
<1>2. CASE address[e] = None /\ Crash
    <2>1. UNCHANGED tables /\ pc' = "crashed" /\ cb' = cb
        BY <1>0, <1>2 DEF Crash, Goto, tables
    <2>2. QED
        BY <2>1, TablesKept
<1>3. ASSUME NEW d \in Fds, rtable_connect(e, address[e], d), local' = [local EXCEPT ![e] = d],
             pc' = (IF local["head"] = Null /\ e = "tail" THEN "ended" ELSE there), pc = here
      PROVE  ClientInv'
    <2>1. Types'
        BY <1>0, <1>3, Opens
    <2>2. LocalsInv'
        BY <1>0, <1>3 DEF LocalsInv, Connecting, InLoop, Ends
    <2>3. DescriptorsHeld'
        <3>1. \A c \in Fds : c # d => fds'[c] = fds[c]
            BY <1>3, Opens
        <3>2. \A c \in Held : c \in Fds => c \in Held'
            BY <1>0, <1>3 DEF Held, Ends
        <3>3. d \in Held'
            BY <1>3 DEF Held
        <3>4. ~Over
            BY <1>3 DEF Over
        <3>5. QED
            BY <3>1, <3>2, <3>3, <3>4 DEF DescriptorsHeld
    <2>4. QED
        BY <2>1, <2>2, <2>3, <1>1
<1>4. ASSUME SocketFails(address[e]) \/ ConnectFails(e, address[e]), UNCHANGED local,
             pc' = (IF e = "tail" THEN "ended" ELSE there), pc = here
      PROVE  ClientInv'
    <2>1. /\ fds' \in [Fds -> Int]
          /\ \A c \in Fds : fds'[c] \in Servers => fds'[c] = fds[c]
        BY <1>4, Fails
    <2>2. Types' /\ LocalsInv'
        BY <1>0, <1>4, <2>1 DEF LocalsInv, Connecting, InLoop
    <2>3. DescriptorsHeld'
        BY <1>0, <1>4, <2>1 DEF DescriptorsHeld, Held, Over
    <2>4. QED
        BY <2>2, <2>3, <1>1
<1>5. QED
    BY <1>2, <1>3, <1>4 DEF Connect, Goto

-----------------------------------------------------------------------------
LEMMA Inductive == ClientInv /\ [Next]_vars => ClientInv'
<1> SUFFICES ASSUME ClientInv, [Next]_vars PROVE ClientInv'
    OBVIOUS
<1> USE DEF Goto, tables
<1>1. CASE ChainStep
    BY <1>1, TablesKept DEF ChainStep, callback, shared
<1>2. CASE ZooKeeperStep
    BY <1>2, TablesKept DEF ZooKeeperStep, callback, shared
<1>3. CASE Start
    <2>1. CASE WaitForZooKeeper
        BY <2>1, TablesKept DEF WaitForZooKeeper, MainOnly, callback, shared, Connecting
    <2>2. CASE ListChildren
        BY <2>2, TablesKept DEF ListChildren, callback, shared, Connecting
    <2>3. CASE CallocPaths
        BY <2>3, TablesKept DEF CallocPaths, MainOnly, callback, Connecting
    <2>4. CASE FindHead
        BY <2>4, TablesKept DEF FindHead, FindEnd, MainOnly, callback, Connecting
    <2>5. CASE FindTail
        BY <2>5, TablesKept DEF FindTail, FindEnd, MainOnly, callback, Connecting
    <2>6. CASE Locate("head", "locate_head", "locate_tail")
        BY <2>6, TablesKept DEF Locate, MainOnly, callback, shared, Connecting
    <2>7. CASE Locate("tail", "locate_tail", "connect_head")
        BY <2>7, TablesKept DEF Locate, MainOnly, callback, shared, Connecting
    <2>8. CASE Connect("head", "connect_head", "connect_tail")
        BY <2>8, Connects DEF Ends
    <2>9. CASE Connect("tail", "connect_tail", "check")
        BY <2>9, Connects DEF Ends
    <2>10. QED
        BY <1>3, <2>1, <2>2, <2>3, <2>4, <2>5, <2>6, <2>7, <2>8, <2>9 DEF Start
<1>4. ASSUME NEW e, NEW d, network_close(e, d), UNCHANGED <<local, global, has, cb>>,
             pc \in InLoop, pc' \in InLoop
      PROVE  ClientInv'
    <2>1. Types' /\ LocalsInv' /\ GlobalsInv'
        BY <1>4, Closes DEF ClientInv, Types, LocalsInv, GlobalsInv, Current, Connecting, InLoop
    <2>2. DescriptorsHeld'
        BY <1>4, Closes DEF ClientInv, Types, DescriptorsHeld, Held, Over, InLoop
    <2>3. QED
        BY <2>1, <2>2 DEF ClientInv
<1>5. ASSUME NEW e \in Ends, network_close(e, local[e]), local' = [local EXCEPT ![e] = Freed],
             UNCHANGED <<global, has, cb>>, pc \notin {"ended", "crashed"},
             pc' \in {"leave_tail", "ended"}
      PROVE  ClientInv'
    <2>1. Types' /\ LocalsInv' /\ GlobalsInv'
        BY <1>5, Closes DEF ClientInv, Types, LocalsInv, GlobalsInv, Current, Connecting, InLoop, Freed
    <2>2. \A c \in Fds : c \in Held /\ c # local[e] => c \in Held'
        BY <1>5 DEF ClientInv, Types, Held, Ends
    <2>3. DescriptorsHeld'
        BY <1>5, <2>2, Closes DEF ClientInv, Types, DescriptorsHeld, Over
    <2>4. QED
        BY <2>1, <2>3 DEF ClientInv
<1>6. CASE Loop
    <2>1. CASE Check
        BY <2>1, TablesKept DEF Check, MainOnly, callback, shared, InLoop
    <2>2. CASE Send
        <3>1. CASE pc' = "receive"
            BY <2>2, <3>1, <1>4, TablesKept DEF Send, MainOnly, callback, shared, InLoop
        <3>2. CASE pc' # "receive"
            BY <2>2, <3>2, <1>4, TablesKept DEF Send, MainOnly, callback, shared, InLoop
        <3>3. QED
            BY <3>1, <3>2
    <2>3. CASE Receive
        BY <2>3, TablesKept DEF Receive, callback, shared, InLoop
    <2>4. CASE ReceiveFails
        BY <2>4, <1>4 DEF ReceiveFails, MainOnly, callback, InLoop
    <2>5. CASE Leave("head", "leave_head", "leave_tail")
        BY <2>5, <1>5 DEF Leave, MainOnly, callback, Ends
    <2>6. CASE Leave("tail", "leave_tail", "ended")
        BY <2>6, <1>5 DEF Leave, MainOnly, callback, Ends
    <2>7. QED
        BY <1>6, <2>1, <2>2, <2>3, <2>4, <2>5, <2>6 DEF Loop, Call
<1>7. CASE Input
    BY <1>7, TablesKept DEF Input, Command, MainOnly, callback, shared, InLoop
<1>8. CASE Callback
    <2>1. CASE client_connection_handler
        BY <2>1, TablesKept DEF client_connection_handler, CallbackOnly, callback, shared
    <2>2. CASE Relist
        BY <2>2, TablesKept DEF Relist, CallbackOnly, shared
    <2>3. CASE Compare
        <3>1. UNCHANGED <<fds, local, global>> /\ cb' # "connect" /\ (pc' = pc \/ pc' = "crashed")
            BY <2>3 DEF Compare, CallbackOnly, shared
        <3>2. Types' /\ LocalsInv' /\ GlobalsInv'
            BY <3>1 DEF ClientInv, Types, LocalsInv, GlobalsInv, Connecting, InLoop
        <3>3. DescriptorsHeld'
            BY <3>1 DEF ClientInv, DescriptorsHeld, Held, Over
        <3>4. QED
            BY <3>2, <3>3 DEF ClientInv
    <2>4. CASE GetAddress
        BY <2>4, TablesKept DEF GetAddress, CallbackOnly, shared
    <2>5. CASE Disconnect
        <3>1. CASE global[Current] = Null
            BY <2>5, <3>1, TablesKept DEF Disconnect, CallbackOnly
        <3>2. CASE global[Current] # Null
            <4>1. /\ network_close(Current, global[Current])
                  /\ global' = [global EXCEPT ![Current] = Freed]
                  /\ UNCHANGED <<local, has, pc>> /\ Current' = Current /\ Current \in Ends
                BY <2>5, <3>2 DEF Disconnect, CallbackOnly, Current, Ends
            <4>2. Freed \notin Fds /\ Freed \in Int
                BY ClientAssumption DEF Freed, Fds, ClientAssumption
            <4>3. Types' /\ LocalsInv' /\ GlobalsInv'
                BY <4>1, <4>2, Closes DEF ClientInv, Types, LocalsInv, GlobalsInv
            <4>4. \A c \in Fds : c \in Held /\ c # global[Current] => c \in Held'
                BY <4>1 DEF ClientInv, Types, Held
            <4>5. DescriptorsHeld'
                BY <4>1, <4>4, Closes DEF ClientInv, Types, DescriptorsHeld, Over
            <4>6. QED
                BY <4>3, <4>5 DEF ClientInv
        <3>3. QED
            BY <3>1, <3>2
    <2>6. CASE Reconnect
        <3>0. /\ UNCHANGED local /\ global[Current] \notin Fds /\ Current \in Ends
              /\ Null \in Int /\ Fds \subseteq Int /\ ~Over
            BY <2>6, ClientAssumption DEF Reconnect, Crash, ClientInv, GlobalsInv, Current, Ends, Null, Fds,
               ClientAssumption
        <3>1. CASE Crash /\ UNCHANGED <<global, path, has, cb>>
            BY <3>1, TablesKept DEF Crash
        <3>2. ASSUME NEW d \in Fds, rtable_connect(Current, addr, d),
                     global' = [global EXCEPT ![Current] = d], cb' # "connect", pc' = pc
              PROVE  ClientInv'
            <4>1. Types' /\ LocalsInv' /\ GlobalsInv'
                BY <3>0, <3>2, Opens DEF ClientInv, Types, LocalsInv, GlobalsInv
            <4>2. /\ \A c \in Fds : c \in Held => c \in Held'
                  /\ d \in Held'
                BY <3>0, <3>2 DEF ClientInv, Types, Held
            <4>3. DescriptorsHeld'
                BY <3>0, <3>2, <4>2, Opens DEF ClientInv, Types, DescriptorsHeld
            <4>4. QED
                BY <4>1, <4>3 DEF ClientInv
        <3>3. ASSUME SocketFails(addr) \/ ConnectFails(Current, addr),
                     global' = [global EXCEPT ![Current] = Null], cb' # "connect", pc' = pc
              PROVE  ClientInv'
            <4>1. Types' /\ LocalsInv' /\ GlobalsInv'
                BY <3>0, <3>3, Fails DEF ClientInv, Types, LocalsInv, GlobalsInv
            <4>2. \A c \in Fds : c \in Held => c \in Held'
                BY <3>0, <3>3 DEF ClientInv, Types, Held
            <4>3. DescriptorsHeld'
                BY <3>0, <3>3, <4>2, Fails DEF ClientInv, Types, DescriptorsHeld
            <4>4. QED
                BY <4>1, <4>3 DEF ClientInv
        <3>4. QED
            BY <2>6, <3>1, <3>2, <3>3 DEF Reconnect
    <2>7. QED
        BY <1>8, <2>1, <2>2, <2>3, <2>4, <2>5, <2>6 DEF Callback, client_watch_children
<1>9. CASE Done
    BY <1>9, TablesKept DEF Done, vars, callback, shared
<1>10. CASE UNCHANGED vars
    BY <1>10, TablesKept DEF vars, callback, shared
<1>11. QED
    BY <1>1, <1>2, <1>3, <1>6, <1>7, <1>8, <1>9, <1>10 DEF Next

LEMMA Invariant == Spec => []ClientInv
BY Initially, Inductive, PTL DEF Spec

\* A command of main never uses a table that the callback has freed: the tables
\* that main declares shadow those the callback replaces (table_client.c:116).
THEOREM LiveTables == Spec => []CommandsUseLiveTable
<1>1. ClientInv => CommandsUseLiveTable
    BY DEF ClientInv, LocalsInv, CommandsUseLiveTable, InLoop, Table, End
<1>2. QED
    BY <1>1, Invariant, PTL

\* Every descriptor that is open on a server is in a table of main or of the
\* callback: no change of the chain loses one (client_callbacks.c:87, :100).
THEOREM NoDescriptorLost == Spec => []DescriptorsHeld
<1>1. ClientInv => DescriptorsHeld
    BY DEF ClientInv
<1>2. QED
    BY <1>1, Invariant, PTL

-----------------------------------------------------------------------------
(* While nobody dies.                                                      *)

NobodyDied == \A s \in Servers : stage[s] # "dead"

Starting == Connecting \union {"connect_tail"}
Working == {"check", "input", "send", "receive"}

\* Servers come up in the order of their nodes, and each is linked to the next
\* one or to none.
Placed(s) ==
    /\ stage[s] = "up" <=> s \in registered
    /\ stage[s] # "down" => \A t \in 1..(s - 1) : stage[t] = "up"
    /\ next[s] # None => next[s] = s + 1 /\ s + 1 \in registered
Growing == NobodyDied => \A s \in Servers : Placed(s)

\* The four tables have descriptors of their own, each open on a server.
Separate ==
    NobodyDied /\ ~Over =>
        /\ \A e \in Ends : local[e] \in Fds => fds[local[e]] \in Servers
        /\ \A e \in Ends : global[e] \in Fds => fds[global[e]] \in Servers
        /\ \A e, f \in Ends : global[e] \in Fds => global[e] # local[f]
        /\ local["head"] \in Fds => local["head"] # local["tail"]
        /\ global["head"] \in Fds => global["head"] # global["tail"]

\* What main knows before it reads the first command.
Untouched ==
    /\ whole => NobodyDied
    /\ address["head"] # Nowhere
    /\ pc \in Starting => /\ \A s \in Servers : value[s] = Absent
                          /\ written = Absent
                          /\ ~whole
    /\ pc = "connect_tail" /\ NobodyDied /\ local["head"] \in Fds
          => fds[local["head"]] = address["head"]

\* main keeps its two connections, a write at one of them reaches the other, and
\* both have what was written last.
Consistent ==
    whole /\ pc \in Working =>
        /\ fds[local["tail"]] \in Reached(fds[local["head"]])
        /\ \A e \in Ends : fds[local[e]] \in Servers /\ value[fds[local[e]]] = written
        /\ pc = "receive" => asked = fds[local[End(op)]]

OwnInv == TypeInv /\ ClientInv /\ Growing /\ Separate /\ Untouched /\ Consistent

-----------------------------------------------------------------------------
LEMMA OwnInitially == Init => OwnInv
<1> SUFFICES ASSUME Init PROVE OwnInv
    OBVIOUS
<1> USE ClientAssumption DEF ClientAssumption
<1>1. Growing
    <2> SUFFICES ASSUME NEW s \in Servers PROVE Placed(s)
        BY DEF Growing
    <2>1. s \in 1..N
        BY DEF Servers
    <2>2. stage[s] = "up" <=> s \in registered
        BY <2>1 DEF Init
    <2>3. stage[s] # "down" => \A t \in 1..(s - 1) : stage[t] = "up"
        <3>1. stage[s] # "down" => s <= Started
            BY <2>1 DEF Init
        <3>2. \A t \in 1..(s - 1) : t \in Servers /\ (s <= Started => t <= Started)
            BY <2>1 DEF Servers
        <3>3. QED
            BY <3>1, <3>2 DEF Init
    <2>4. next[s] # None => next[s] = s + 1 /\ s + 1 \in registered
        BY <2>1 DEF Init, None
    <2>5. QED
        BY <2>2, <2>3, <2>4 DEF Placed
<1>2. Separate
    <2>1. Null \notin Fds
        BY DEF Null, Fds
    <2>2. \A e \in Ends : local[e] = Null /\ global[e] = Null
        BY DEF Init
    <2>3. QED
        BY <2>1, <2>2 DEF Separate, Ends
<1>3. Untouched
    BY DEF Init, Untouched, Starting, Connecting, None, Nowhere, Ends
<1>4. Consistent
    BY DEF Init, Consistent
<1>5. QED
    BY <1>1, <1>2, <1>3, <1>4, Initially, TypesInitially DEF OwnInv

LEMMA Living == ASSUME Separate, NobodyDied, ClientInv, pc \in {"send", "receive"}
                PROVE  Table(End(op)) \in Fds /\ fds[Table(End(op))] \in Servers
                       /\ stage[fds[Table(End(op))]] # "dead"
<1>1. End(op) \in Ends
    BY DEF End, Ends
<1>2. Table(End(op)) \in Fds
    BY <1>1 DEF ClientInv, LocalsInv, InLoop, Table, Ends
<1>3. QED
    BY <1>1, <1>2 DEF Separate, Over, NobodyDied, Table

\* What is not a step of the chain leaves its links alone.
LEMMA Elsewhere ==
    ASSUME [Next]_vars, ~ChainStep
    PROVE  UNCHANGED <<stage, registered, next>>
<1>1. CASE ZooKeeperStep
    BY <1>1 DEF ZooKeeperStep, chain
<1>2. CASE Start
    BY <1>2 DEF Start, WaitForZooKeeper, ListChildren, CallocPaths, FindHead, FindTail, FindEnd, Locate,
       Connect, MainOnly, chain
<1>3. CASE Loop \/ Input
    BY <1>3 DEF Loop, Input, Call, Check, Command, Send, Receive, ReceiveFails, Leave, MainOnly, chain
<1>4. CASE Callback
    BY <1>4 DEF Callback, client_watch_children, client_connection_handler, Relist, Compare, GetAddress,
       Disconnect, Reconnect, CallbackOnly, chain
<1>5. CASE Done \/ UNCHANGED vars
    BY <1>5 DEF Done, vars, chain
<1>6. QED
    BY <1>1, <1>2, <1>3, <1>4, <1>5 DEF Next

\* What is dead stays so.
LEMMA DeathLasts == ASSUME TypeInv, [Next]_vars, NobodyDied' PROVE NobodyDied
<1>1. CASE ChainStep
    BY <1>1 DEF ChainStep, Copy, Register, Link, Die, Expire, NobodyDied, TypeInv, ChainTypes
<1>2. CASE ~ChainStep
    BY <1>2, Elsewhere DEF NobodyDied
<1>3. QED
    BY <1>1, <1>2

LEMMA SuccessorIsNext ==
    ASSUME TypeInv, Growing, NobodyDied, NEW s \in Servers, stage[s] = "up"
    PROVE  /\ Successor(s) # None => Successor(s) = s + 1 /\ s + 1 \in registered
           /\ s + 1 \in registered => Successor(s) = s + 1
<1> DEFINE later == {t \in registered : t > s}
<1>0. registered \in SUBSET Servers /\ Servers \subseteq Nat /\ s \in Nat /\ N \in Nat
    BY ClientAssumption DEF TypeInv, ChainTypes, Servers, ClientAssumption
<1>1. Successor(s) = IF later = {} THEN None ELSE Min(later)
    BY DEF Successor
<1>2. ASSUME later # {} PROVE Min(later) = s + 1 /\ s + 1 \in registered
    <2>1. PICK m : m = Min(later)
        OBVIOUS
    <2>2. m \in later /\ \A t \in later : m <= t
        BY <1>0, <1>2, <2>1, LeastServer
    <2>3. m \in Servers /\ m > s /\ stage[m] = "up"
        BY <1>0, <2>2 DEF Growing, Placed
    <2>4. \A t \in 1..(m - 1) : stage[t] = "up"
        BY <2>3 DEF Growing, Placed
    <2>5. m = s + 1
        <3> SUFFICES ASSUME m # s + 1 PROVE FALSE
            OBVIOUS
        <3>1. s + 1 \in 1..(m - 1) /\ s + 1 \in Servers
            BY <1>0, <2>3 DEF Servers
        <3>2. s + 1 \in later
            BY <1>0, <2>4, <3>1 DEF Growing, Placed
        <3>3. QED
            BY <1>0, <2>2, <3>1, <3>2
    <2>6. QED
        BY <2>1, <2>2, <2>5
<1>3. s + 1 \in registered => later # {}
    BY <1>0
<1>4. QED
    BY <1>1, <1>2, <1>3

LEMMA GrowingKept == ASSUME TypeInv, Growing, [Next]_vars PROVE Growing'
<1>1. CASE ~ChainStep
    BY <1>1, Elsewhere DEF Growing, Placed, NobodyDied
<1>2. CASE ChainStep
    <2> SUFFICES ASSUME NobodyDied', NEW u \in Servers PROVE Placed(u)'
        BY DEF Growing
    <2>0. /\ NobodyDied /\ u \in Nat /\ None \notin Servers
          /\ stage \in [Servers -> {"down", "copied", "up", "dead"}]
          /\ next \in [Servers -> {None} \union Servers]
        BY DeathLasts, ClientAssumption DEF TypeInv, ChainTypes, Servers, None, ClientAssumption
    <2>1. \A s \in Servers : Placed(s)
        BY <2>0 DEF Growing
    <2>2. \A t \in 1..(u - 1) : t \in Servers /\ t # u
        BY ClientAssumption DEF Servers, ClientAssumption
    <2>3. ASSUME NEW s \in Servers, Copy(s) PROVE Placed(u)'
        <3>1. \A t \in 1..(s - 1) : t \in Servers /\ stage[t] = "up"
            BY <2>0, <2>3, ClientAssumption DEF Copy, NobodyDied, Servers, ClientAssumption
        <3>2. QED
            BY <2>0, <2>1, <2>2, <2>3, <3>1 DEF Copy, Placed
    <2>4. ASSUME NEW s \in Servers, Register(s) PROVE Placed(u)'
        BY <2>0, <2>1, <2>2, <2>4 DEF Register, Placed
    <2>5. ASSUME NEW s \in Servers, Link(s) PROVE Placed(u)'
        <3>1. Successor(s) # None => Successor(s) = s + 1 /\ s + 1 \in registered
            BY <2>0, <2>5, SuccessorIsNext DEF Link
        <3>2. next' = [next EXCEPT ![s] = Successor(s)] /\ UNCHANGED <<stage, registered>>
            BY <2>5 DEF Link
        <3>3. QED
            BY <2>0, <2>1, <3>1, <3>2 DEF Placed
    <2>6. ASSUME NEW s \in Servers, Die(s) \/ Expire(s) PROVE FALSE
        BY <2>0, <2>6 DEF Die, Expire, NobodyDied
    <2>7. QED
        BY <1>2, <2>3, <2>4, <2>5, <2>6 DEF ChainStep
<1>3. QED
    BY <1>1, <1>2

\* A server that a write reaches stays so while nobody dies: a link from one
\* server to the next is not changed any more.
LEMMA ReachKept ==
    ASSUME TypeInv, Growing, [Next]_vars, NobodyDied', NEW h \in Servers, NEW t \in Reached(h)
    PROVE  t \in Reached(h)'
<1>0. /\ NobodyDied /\ h \in Nat /\ t \in h..N /\ None \notin Servers /\ h..t \subseteq Servers
      /\ stage \in [Servers -> {"down", "copied", "up", "dead"}]
      /\ next \in [Servers -> {None} \union Servers]
    BY DeathLasts, ClientAssumption DEF TypeInv, ChainTypes, Servers, None, ClientAssumption, Reached
<1>1. PICK S \in SUBSET (h..t) : LinkedOver(h, t, S)
    BY DEF Reached
<1>2. LinkedOver(h, t, S)'
    <2>1. CASE ~ChainStep
        BY <1>1, <2>1, Elsewhere DEF LinkedOver
    <2>2. CASE ChainStep
        <3> SUFFICES ASSUME NEW u \in S PROVE stage'[u] = "up" /\ (u # t => next'[u] \in S)
            BY <1>1 DEF LinkedOver
        <3>1. u \in Servers /\ stage[u] = "up" /\ (u # t => next[u] \in S)
            BY <1>0, <1>1 DEF LinkedOver
        <3>2. ASSUME NEW s \in Servers, Copy(s) \/ Register(s) PROVE stage'[u] = "up" /\ (u # t => next'[u] \in S)
            BY <1>0, <3>1, <3>2 DEF Copy, Register
        <3>3. ASSUME NEW s \in Servers, Link(s) PROVE stage'[u] = "up" /\ (u # t => next'[u] \in S)
            <4>1. /\ stage[s] = "up" /\ next[s] # Successor(s)
                  /\ next' = [next EXCEPT ![s] = Successor(s)] /\ UNCHANGED stage
                BY <3>3 DEF Link
            <4>2. u # t => u # s
                <5> SUFFICES ASSUME u # t, u = s PROVE FALSE
                    OBVIOUS
                <5>1. next[s] # None
                    BY <1>0, <3>1
                <5>2. next[s] = s + 1 /\ s + 1 \in registered
                    BY <1>0, <5>1 DEF Growing, Placed
                <5>3. QED
                    BY <1>0, <4>1, <5>2, SuccessorIsNext
            <4>3. QED
                BY <1>0, <3>1, <4>1, <4>2
        <3>4. ASSUME NEW s \in Servers, Die(s) \/ Expire(s) PROVE FALSE
            BY <1>0, <3>4 DEF Die, Expire, NobodyDied
        <3>5. QED
            BY <2>2, <3>2, <3>3, <3>4 DEF ChainStep
    <2>3. QED
        BY <2>1, <2>2
<1>3. QED
    BY <1>0, <1>1, <1>2 DEF Reached

-----------------------------------------------------------------------------
(* What a step does to the four tables while nobody dies.                  *)

Opened(e, d) ==
    /\ fds[d] = Closed /\ fds'[d] \in Servers
    /\ \A c \in Fds : c # d => fds'[c] = fds[c]
    /\ \/ local[e] \notin Fds /\ local' = [local EXCEPT ![e] = d] /\ UNCHANGED global
       \/ global' = [global EXCEPT ![e] = d] /\ UNCHANGED local

ClosedLocal(e) ==
    /\ \A c \in Fds : c # local[e] => fds'[c] = fds[c]
    /\ local' = [local EXCEPT ![e] = Freed] /\ UNCHANGED global
    /\ pc \in {"leave_head", "leave_tail"}

ClosedGlobal(e) ==
    /\ \A c \in Fds : c # global[e] => fds'[c] = fds[c]
    /\ global' = [global EXCEPT ![e] = Freed] /\ UNCHANGED local

GaveUp(e) == UNCHANGED <<fds, local>> /\ global' = [global EXCEPT ![e] = Null]

TableStep ==
    \/ UNCHANGED <<fds, local, global>>
    \/ \E e \in Ends, d \in Fds : Opened(e, d)
    \/ \E e \in Ends : ClosedLocal(e) \/ ClosedGlobal(e) \/ GaveUp(e)

LEMMA OneCloses ==
    ASSUME TypeInv, NEW e, NEW d, network_close(e, d)
    PROVE  \A c \in Fds : c # d => fds'[c] = fds[c]
BY DEF network_close, TypeInv, SharedTypes

LEMMA OneOpens ==
    ASSUME TypeInv, NEW e, NEW a, NEW d \in Fds, rtable_connect(e, a, d)
    PROVE  /\ fds[d] = Closed /\ fds'[d] = a /\ a \in Servers
           /\ \A c \in Fds : c # d => fds'[c] = fds[c]
BY DEF rtable_connect, Socket, TypeInv, SharedTypes

LEMMA TablesStep ==
    ASSUME TypeInv, ClientInv, Separate, Untouched, NobodyDied, ~Over, ~Over', [Next]_vars
    PROVE  TableStep
<1> USE DEF Goto
<1>1. CASE ChainStep \/ ZooKeeperStep
    BY <1>1 DEF ChainStep, ZooKeeperStep, callback, shared, TableStep
<1>2. CASE Start
    <2>0. Null \notin Fds
        BY ClientAssumption DEF Null, Fds, ClientAssumption
    <2>1. CASE WaitForZooKeeper \/ ListChildren \/ CallocPaths
        BY <2>1 DEF WaitForZooKeeper, ListChildren, CallocPaths, MainOnly, callback, shared, TableStep
    <2>2. CASE FindHead \/ FindTail
        <3>1. UNCHANGED <<fds, local, global>>
            BY <2>2 DEF FindHead, FindTail, FindEnd, MainOnly, callback
        <3>2. QED
            BY <3>1 DEF TableStep
    <2>3. CASE Locate("head", "locate_head", "locate_tail") \/ Locate("tail", "locate_tail", "connect_head")
        BY <2>3 DEF Locate, MainOnly, callback, shared, TableStep
    <2>4. ASSUME NEW e \in Ends, NEW here, NEW there, Connect(e, here, there), local[e] \notin Fds,
                 e = "head" => address[e] # Nowhere
          PROVE  TableStep
        <3>1. UNCHANGED global /\ pc' # "crashed"
            BY <2>4 DEF Connect, MainOnly, callback, Over
        <3>2. ASSUME NEW d \in Fds, rtable_connect(e, address[e], d), local' = [local EXCEPT ![e] = d]
              PROVE  TableStep
            <4>1. Opened(e, d)
                BY <2>4, <3>1, <3>2, OneOpens DEF Opened
            <4>2. QED
                BY <4>1 DEF TableStep
        <3>3. ASSUME UNCHANGED local, SocketFails(address[e])
              PROVE  TableStep
            BY <3>1, <3>3 DEF SocketFails, TableStep
        <3>4. ASSUME ConnectFails(e, address[e]), pc' = IF e = "tail" THEN "ended" ELSE there
              PROVE  FALSE
            <4>1. e = "head"
                BY <2>4, <3>4 DEF Over, Ends
            <4>2. address[e] \in Servers
                BY <2>4, <3>4, <4>1 DEF ConnectFails, TypeInv, StartTypes
            <4>3. QED
                BY <3>4, <4>2 DEF ConnectFails, NobodyDied
        <3>5. QED
            BY <2>4, <3>1, <3>2, <3>3, <3>4 DEF Connect, Crash
    <2>5. CASE Connect("head", "connect_head", "connect_tail")
        <3>1. local["head"] \notin Fds
            BY <2>5, <2>0 DEF Connect, ClientInv, LocalsInv, Connecting
        <3>2. QED
            BY <2>4, <2>5, <3>1 DEF Untouched, Ends
    <2>6. CASE Connect("tail", "connect_tail", "check")
        <3>1. local["tail"] \notin Fds
            BY <2>6, <2>0 DEF Connect, ClientInv, LocalsInv
        <3>2. QED
            BY <2>4, <2>6, <3>1 DEF Ends
    <2>7. QED
        BY <1>2, <2>1, <2>2, <2>3, <2>5, <2>6 DEF Start
<1>3. CASE Loop \/ Input
    <2>1. CASE Check \/ Input
        BY <2>1 DEF Check, Input, Command, MainOnly, callback, shared, TableStep
    <2>2. CASE Send
        <3>1. pc = "send" /\ UNCHANGED <<local, global>>
            BY <2>2 DEF Send, MainOnly, callback
        <3>2. UNCHANGED fds
            BY <2>2, <3>1, Living DEF Send, shared
        <3>3. QED
            BY <3>1, <3>2 DEF TableStep
    <2>3. CASE Receive
        BY <2>3 DEF Receive, callback, shared, TableStep
    <2>4. CASE ReceiveFails
        BY <2>4 DEF ReceiveFails, TypeInv, CommandInv, NobodyDied
    <2>5. ASSUME NEW e \in Ends, NEW here \in {"leave_head", "leave_tail"}, NEW there, Leave(e, here, there)
          PROVE  TableStep
        <3>1. ClosedLocal(e)
            BY <2>5, OneCloses DEF Leave, MainOnly, callback, ClosedLocal
        <3>2. QED
            BY <3>1 DEF TableStep
    <2>6. QED
        BY <1>3, <2>1, <2>2, <2>3, <2>4, <2>5 DEF Loop, Call, Ends
<1>4. CASE Callback
    <2>0. Current \in Ends
        BY DEF Current, Ends
    <2>1. CASE client_connection_handler \/ Relist \/ Compare \/ GetAddress
        BY <2>1 DEF client_connection_handler, Relist, Compare, GetAddress, CallbackOnly, callback, shared,
           TableStep
    <2>2. CASE Disconnect
        <3>1. UNCHANGED local
            BY <2>2 DEF Disconnect, CallbackOnly
        <3>2. UNCHANGED <<fds, global>> \/ ClosedGlobal(Current)
            BY <2>2, <3>1, OneCloses DEF Disconnect, ClosedGlobal
        <3>3. QED
            BY <2>0, <3>1, <3>2 DEF TableStep
    <2>3. CASE Reconnect
        <3>1. UNCHANGED local
            BY <2>3 DEF Reconnect, Crash
        <3>2. ASSUME NEW d \in Fds, rtable_connect(Current, addr, d), global' = [global EXCEPT ![Current] = d]
              PROVE  TableStep
            <4>1. Opened(Current, d)
                BY <3>1, <3>2, OneOpens DEF Opened
            <4>2. QED
                BY <2>0, <4>1 DEF TableStep
        <3>3. ASSUME SocketFails(addr), global' = [global EXCEPT ![Current] = Null]
              PROVE  TableStep
            BY <2>0, <3>1, <3>3 DEF SocketFails, GaveUp, TableStep
        <3>4. ASSUME ConnectFails(Current, addr)
              PROVE  FALSE
            BY <3>4 DEF ConnectFails, TypeInv, CallbackTypes, NobodyDied
        <3>5. CASE Crash
            BY <3>5 DEF Crash, Over
        <3>6. QED
            BY <2>3, <3>2, <3>3, <3>4, <3>5 DEF Reconnect
    <2>4. QED
        BY <1>4, <2>1, <2>2, <2>3 DEF Callback, client_watch_children
<1>5. CASE Done \/ UNCHANGED vars
    BY <1>5 DEF Done, vars, callback, shared, TableStep
<1>6. QED
    BY <1>1, <1>2, <1>3, <1>4, <1>5 DEF Next

LEMMA OverLasts == ASSUME [Next]_vars, Over PROVE UNCHANGED vars
<1> USE DEF Over
<1>1. ~ChainStep /\ ~ZooKeeperStep /\ ~Callback
    BY DEF ChainStep, ZooKeeperStep, Callback, client_watch_children, client_connection_handler, Relist,
       Compare, GetAddress, Disconnect, Reconnect
<1>2. ~Start
    BY DEF Start, WaitForZooKeeper, ListChildren, CallocPaths, FindHead, FindTail, FindEnd, Locate, Connect
<1>3. ~Loop /\ ~Input
    BY DEF Loop, Input, Call, Check, Command, Send, Receive, ReceiveFails, Leave
<1>4. QED
    BY <1>1, <1>2, <1>3 DEF Next, Done

LEMMA NotOverBefore == ASSUME [Next]_vars, ~Over' PROVE ~Over
BY OverLasts DEF Over, vars

LEMMA SeparateKept ==
    ASSUME TypeInv, ClientInv, Separate, Untouched, [Next]_vars
    PROVE  Separate'
<1> SUFFICES ASSUME NobodyDied', ~Over' PROVE Separate'
    BY DEF Separate
<1>1. NobodyDied /\ ~Over /\ TableStep
    BY DeathLasts, NotOverBefore, TablesStep
<1>2. /\ local \in [Ends -> {Null, Freed} \union Fds] /\ global \in [Ends -> {Null, Freed} \union Fds]
      /\ Null \notin Fds /\ Freed \notin Fds /\ Closed \notin Servers
    BY ClientAssumption DEF TypeInv, StartTypes, CallbackTypes, Null, Freed, Closed, Fds, Servers,
       ClientAssumption
<1>3. /\ \A e \in Ends : local[e] \in Fds => fds[local[e]] \in Servers
      /\ \A e \in Ends : global[e] \in Fds => fds[global[e]] \in Servers
      /\ \A e, f \in Ends : global[e] \in Fds => global[e] # local[f]
      /\ local["head"] \in Fds => local["head"] # local["tail"]
      /\ global["head"] \in Fds => global["head"] # global["tail"]
    BY <1>1 DEF Separate
<1>4. CASE UNCHANGED <<fds, local, global>>
    BY <1>3, <1>4 DEF Separate
<1>5. ASSUME NEW e \in Ends, NEW d \in Fds, Opened(e, d) PROVE Separate'
    <2>1. \A x \in Ends : local[x] # d /\ global[x] # d
        BY <1>2, <1>3, <1>5 DEF Opened
    <2>2. QED
        BY <1>2, <1>3, <1>5, <2>1 DEF Opened, Separate, Ends
<1>6. ASSUME NEW e \in Ends, ClosedLocal(e) PROVE Separate'
    BY <1>2, <1>3, <1>6 DEF ClosedLocal, Separate, Ends
<1>7. ASSUME NEW e \in Ends, ClosedGlobal(e) PROVE Separate'
    BY <1>2, <1>3, <1>7 DEF ClosedGlobal, Separate, Ends
<1>8. ASSUME NEW e \in Ends, GaveUp(e) PROVE Separate'
    BY <1>2, <1>3, <1>8 DEF GaveUp, Separate, Ends
<1>9. QED
    BY <1>1, <1>4, <1>5, <1>6, <1>7, <1>8 DEF TableStep

\* The callback never touches a connection of main.
LEMMA MainKeeps ==
    ASSUME TypeInv, ClientInv, Separate, Untouched, [Next]_vars, NobodyDied', ~Over',
           NEW e \in Ends, local[e] \in Fds, pc \notin {"leave_head", "leave_tail"}
    PROVE  local'[e] = local[e] /\ fds'[local[e]] = fds[local[e]]
<1>1. NobodyDied /\ ~Over /\ TableStep
    BY DeathLasts, NotOverBefore, TablesStep
<1>2. /\ local \in [Ends -> {Null, Freed} \union Fds] /\ Closed \notin Servers
      /\ fds[local[e]] \in Servers
      /\ \A f \in Ends : global[f] \in Fds => global[f] # local[e]
    BY <1>1, ClientAssumption DEF TypeInv, StartTypes, Closed, Servers, ClientAssumption, Separate
<1>3. ASSUME NEW f \in Ends, NEW d \in Fds, Opened(f, d)
      PROVE  local'[e] = local[e] /\ fds'[local[e]] = fds[local[e]]
    BY <1>2, <1>3 DEF Opened
<1>4. ASSUME NEW f \in Ends, ClosedGlobal(f) \/ GaveUp(f)
      PROVE  local'[e] = local[e] /\ fds'[local[e]] = fds[local[e]]
    BY <1>2, <1>4 DEF ClosedGlobal, GaveUp
<1>5. QED
    BY <1>1, <1>3, <1>4 DEF TableStep, ClosedLocal

-----------------------------------------------------------------------------
(* What main knows before the first command.                               *)

\* whole is set by main as it enters the loop, and only then.
LEMMA WholeStep ==
    ASSUME [Next]_vars
    PROVE  \/ whole' = whole
           \/ whole' = FALSE
           \/ Connect("tail", "connect_tail", "check")
<1>1. CASE ChainStep \/ ZooKeeperStep
    BY <1>1 DEF ChainStep, ZooKeeperStep
<1>2. CASE Start
    <2>1. CASE Connect("head", "connect_head", "connect_tail")
        BY <2>1 DEF Connect, Crash, Goto
    <2>2. QED
        BY <1>2, <2>1 DEF Start, WaitForZooKeeper, ListChildren, CallocPaths, FindHead, FindTail, FindEnd, Locate
<1>3. CASE Loop \/ Input
    BY <1>3 DEF Loop, Input, Call, Check, Command, Send, Receive, ReceiveFails, Leave
<1>4. CASE Callback
    BY <1>4 DEF Callback, client_watch_children, client_connection_handler, Relist, Compare, GetAddress,
       Disconnect, Reconnect, CallbackOnly
<1>5. CASE Done \/ UNCHANGED vars
    BY <1>5 DEF Done, vars
<1>6. QED
    BY <1>1, <1>2, <1>3, <1>4, <1>5 DEF Next

\* How main comes to the places before the loop.
LEMMA StartingStep ==
    ASSUME TypeInv, [Next]_vars, pc' \in Starting
    PROVE  /\ pc \in Starting
           /\ written' = written
           /\ value' = value \/ \E s \in Servers : Copy(s)
           /\ ~whole => ~whole'
<1> USE DEF Goto
<1>1. CASE ChainStep \/ ZooKeeperStep
    BY <1>1 DEF ChainStep, ZooKeeperStep, command, chain, Register, Link, Die, Expire
<1>2. CASE Start
    <2>1. CASE WaitForZooKeeper \/ ListChildren \/ CallocPaths
        BY <2>1 DEF WaitForZooKeeper, ListChildren, CallocPaths, MainOnly, command, chain, Starting, Connecting
    <2>2. CASE FindHead \/ FindTail
        BY <2>2 DEF FindHead, FindTail, FindEnd, MainOnly, command, chain, Starting, Connecting
    <2>3. CASE Locate("head", "locate_head", "locate_tail") \/ Locate("tail", "locate_tail", "connect_head")
        BY <2>3 DEF Locate, MainOnly, command, chain, Starting, Connecting
    <2>4. CASE Connect("head", "connect_head", "connect_tail")
        BY <2>4 DEF Connect, Crash, MainOnly, command, chain, Starting, Connecting
    <2>5. CASE Connect("tail", "connect_tail", "check")
        BY <2>5 DEF Connect, Crash, MainOnly, command, chain, Starting, Connecting
    <2>6. QED
        BY <1>2, <2>1, <2>2, <2>3, <2>4, <2>5 DEF Start
<1>3. CASE Loop \/ Input
    <2>1. pc' \in InLoop \union {"leave_tail", "ended"}
        BY <1>3 DEF Loop, Input, Call, Check, Command, Send, Receive, ReceiveFails, Leave, InLoop
    <2>2. QED
        BY <2>1 DEF Starting, Connecting, InLoop
<1>4. CASE Callback
    <2>1. pc' = pc \/ pc' = "crashed"
        BY <1>4 DEF Callback, client_watch_children, client_connection_handler, Relist, Compare, GetAddress,
           Disconnect, Reconnect, Crash, CallbackOnly
    <2>2. UNCHANGED <<command, chain, whole>>
        BY <1>4 DEF Callback, client_watch_children, client_connection_handler, Relist, Compare, GetAddress,
           Disconnect, Reconnect, CallbackOnly
    <2>3. QED
        BY <2>1, <2>2 DEF command, chain, Starting, Connecting
<1>5. CASE Done \/ UNCHANGED vars
    BY <1>5 DEF Done, vars, command, chain
<1>6. QED
    BY <1>1, <1>2, <1>3, <1>4, <1>5 DEF Next

\* Nothing but a step of main moves main, except that the process crashes.
LEMMA MainMoves ==
    ASSUME [Next]_vars, ~Start, ~Loop, ~Input
    PROVE  UNCHANGED <<startup, command, local>> /\ (pc' = pc \/ pc' = "crashed")
<1>1. CASE ChainStep \/ ZooKeeperStep
    BY <1>1 DEF ChainStep, ZooKeeperStep
<1>2. CASE Callback
    BY <1>2 DEF Callback, client_watch_children, client_connection_handler, Relist, Compare, GetAddress,
       Disconnect, Reconnect, Crash, CallbackOnly, Goto
<1>3. CASE Done \/ UNCHANGED vars
    BY <1>3 DEF Done, vars
<1>4. QED
    BY <1>1, <1>2, <1>3 DEF Next

LEMMA UntouchedKept ==
    ASSUME TypeInv, ClientInv, Separate, Untouched, [Next]_vars
    PROVE  Untouched'
<1>1. whole' => NobodyDied'
    <2>1. CASE ChainStep
        <3>1. CASE \E s \in Servers : Die(s) /\ whole' = FALSE
            BY <3>1
        <3>2. ASSUME NEW s \in Servers, Copy(s) \/ Register(s) \/ Link(s) \/ Expire(s), UNCHANGED whole
              PROVE  whole' => NobodyDied'
            <4>1. NobodyDied => NobodyDied'
                BY <3>2 DEF NobodyDied, Copy, Register, Link, Expire, TypeInv, ChainTypes
            <4>2. QED
                BY <3>2, <4>1 DEF Untouched
        <3>3. QED
            BY <2>1, <3>1, <3>2 DEF ChainStep
    <2>2. CASE ~ChainStep
        <3>1. UNCHANGED stage
            BY <2>2, Elsewhere
        <3>2. Connect("tail", "connect_tail", "check") => (whole' => NobodyDied)
            BY DEF Connect, NobodyDied
        <3>3. whole' => NobodyDied
            BY <3>2, WholeStep DEF Untouched
        <3>4. QED
            BY <3>1, <3>3 DEF NobodyDied
    <2>3. QED
        BY <2>1, <2>2
<1>2. pc' \in Starting => /\ \A s \in Servers : value'[s] = Absent
                          /\ written' = Absent
                          /\ ~whole'
    <2> SUFFICES ASSUME pc' \in Starting
                 PROVE  (\A s \in Servers : value'[s] = Absent) /\ written' = Absent /\ ~whole'
        OBVIOUS
    <2>1. /\ \A s \in Servers : value[s] = Absent
          /\ written' = Absent
          /\ ~whole'
        BY StartingStep DEF Untouched
    <2>2. ASSUME NEW s \in Servers, Copy(s) PROVE \A t \in Servers : value'[t] = Absent
        <3> DEFINE live == {t \in registered : stage[t] = "up"}
        <3>1. live # {} => value[Max(live)] = Absent
            BY <2>1, GreatestServer DEF TypeInv, ChainTypes
        <3>2. value' = [value EXCEPT ![s] = IF live = {} THEN Absent ELSE value[Max(live)]]
            BY <2>2 DEF Copy
        <3> HIDE DEF live
        <3>3. QED
            BY <2>1, <3>1, <3>2 DEF TypeInv, ChainTypes
    <2>3. QED
        BY <2>1, <2>2, StartingStep
<1>3. address'["head"] # Nowhere
    <2>0. None # Nowhere /\ Nowhere \notin Servers /\ address["head"] # Nowhere
          /\ address \in [Ends -> {None, Nowhere} \union Servers]
        BY ClientAssumption DEF None, Nowhere, Servers, ClientAssumption, Untouched, TypeInv, StartTypes
    <2>1. ASSUME NEW e \in Ends, NEW here, NEW there, Locate(e, here, there)
          PROVE  address'["head"] # Nowhere
        <3>1. PICK a : /\ a = zoo_get(path[e]) \/ e = "tail"
                       /\ address' = [address EXCEPT ![e] = IF zoo_get(path[e]) = None THEN None ELSE a]
            BY <2>1 DEF Locate
        <3>2. zoo_get(path[e]) \in {None} \union Servers
            BY AddressTypes
        <3>3. QED
            BY <2>0, <3>1, <3>2 DEF Ends
    <2>2. ASSUME NEW e \in Ends, NEW here, NEW there, Connect(e, here, there)
          PROVE  address'["head"] # Nowhere
        BY <2>0, <2>2 DEF Connect, Ends
    <2>3. CASE Start
        BY <2>0, <2>1, <2>2, <2>3 DEF Start, WaitForZooKeeper, ListChildren, CallocPaths, FindHead, FindTail,
           FindEnd, startup, Ends
    <2>4. CASE Loop \/ Input
        BY <2>0, <2>4 DEF Loop, Input, Call, Check, Command, Send, Receive, ReceiveFails, Leave, startup
    <2>5. QED
        BY <2>0, <2>3, <2>4, MainMoves DEF startup
<1>4. ASSUME pc' = "connect_tail", NobodyDied', local'["head"] \in Fds
      PROVE  fds'[local'["head"]] = address'["head"]
    <2>0. NobodyDied /\ ~Over' /\ Null \notin Fds /\ "head" \in Ends
        BY <1>4, DeathLasts, ClientAssumption DEF Over, Null, Fds, ClientAssumption, Ends
    <2>1. CASE Connect("head", "connect_head", "connect_tail")
        <3>1. local["head"] = Null /\ address' = address /\ pc' # "crashed"
              /\ local \in [Ends -> Int]
            BY <1>4, <2>1 DEF Connect, ClientInv, LocalsInv, Connecting, Types
        <3>2. PICK d \in Fds : rtable_connect("head", address["head"], d)
                               /\ local' = [local EXCEPT !["head"] = d]
            BY <1>4, <2>0, <2>1, <3>1 DEF Connect, Crash, Goto
        <3>3. fds'[d] = address["head"]
            BY <3>2, OneOpens
        <3>4. QED
            BY <2>0, <3>1, <3>2, <3>3
    <2>2. CASE ~Connect("head", "connect_head", "connect_tail")
        <3>1. UNCHANGED <<address, local, pc>>
            <4>1. ~Loop /\ ~Input
                BY <1>4 DEF Loop, Input, Call, Check, Command, Send, Receive, ReceiveFails, Leave, Goto
            <4>2. ~Start
                BY <1>4, <2>2 DEF Start, WaitForZooKeeper, ListChildren, CallocPaths, FindHead, FindTail,
                   FindEnd, Locate, Connect, Crash, Goto
            <4>3. QED
                BY <1>4, <4>1, <4>2, MainMoves DEF startup
        <3>2. fds'[local["head"]] = fds[local["head"]]
            BY <1>4, <2>0, <3>1, MainKeeps
        <3>3. QED
            BY <1>4, <2>0, <3>1, <3>2 DEF Untouched
    <2>3. QED
        BY <2>1, <2>2
<1>5. QED
    BY <1>1, <1>2, <1>3, <1>4 DEF Untouched

-----------------------------------------------------------------------------
(* The command loop.                                                       *)

\* A server that is up reaches itself.
LEMMA ReachesItself == ASSUME NEW s \in Servers, stage[s] = "up" PROVE s \in Reached(s)
<1>1. s \in s..N /\ {s} \subseteq s..s
    BY ClientAssumption DEF Servers, ClientAssumption
<1>2. LinkedOver(s, s, {s})
    BY DEF LinkedOver
<1>3. QED
    BY <1>1, <1>2 DEF Reached

LEMMA ReachIsUp == ASSUME NEW s, NEW t \in Reached(s) PROVE stage[s] = "up" /\ stage[t] = "up"
BY DEF Reached, LinkedOver

\* What the client returns is what the command should return for the value that
\* the server's table has.
LEMMA ReturnedIsExpected ==
    ASSUME NEW o \in Commands, NEW v \in 0..MaxWrites
    PROVE  Returned(o, Reply(o, v)) = Expected(o, v)
BY DEF Returned, Reply, rtable_put, rtable_del, rtable_get, rtable_size, rtable_get_keys,
   rtable_get_table, rtable_stats, Ok, Error, Commands, Absent, Expected

\* main enters the loop.
LEMMA Enters ==
    ASSUME OwnInv, [Next]_vars, Connect("tail", "connect_tail", "check"), whole', pc' = "check"
    PROVE  Consistent'
<1>0. /\ "head" \in Ends /\ "tail" \in Ends
      /\ NobodyDied /\ ~Over' /\ UNCHANGED <<stage, value, next, written>>
      /\ address["tail"] \in Reached(address["head"])
    BY DEF Connect, NobodyDied, MainOnly, chain, command, Over, Ends
<1>1. NobodyDied'
    BY <1>0 DEF NobodyDied
<1>2. PICK d \in Fds : /\ rtable_connect("tail", address["tail"], d)
                       /\ local' = [local EXCEPT !["tail"] = d]
    BY DEF Connect, Crash, Goto
<1>3. local["head"] \in Fds /\ local \in [Ends -> {Null, Freed} \union Fds]
    <2>1. pc = "connect_tail" /\ local["head"] # Null
        BY DEF Connect, Crash, Goto
    <2>2. QED
        BY <2>1 DEF OwnInv, ClientInv, LocalsInv, TypeInv, StartTypes
<1>4. local'["head"] = local["head"] /\ fds'[local["head"]] = fds[local["head"]]
    BY <1>0, <1>1, <1>3, MainKeeps DEF OwnInv, Connect
<1>5. fds[local["head"]] = address["head"] /\ fds[local["head"]] \in Servers
    BY <1>0, <1>3 DEF OwnInv, Untouched, Separate, Connect, Over
<1>6. fds'[local'["tail"]] = address["tail"] /\ address["tail"] \in Servers
    BY <1>0, <1>2, <1>3, OneOpens DEF OwnInv
<1>7. \A s \in Servers : value[s] = written
    BY DEF OwnInv, Untouched, Starting, Connect
<1>8. \A s, t : t \in Reached(s) => t \in Reached(s)'
    BY <1>0 DEF Reached, LinkedOver
<1>9. QED
    BY <1>0, <1>4, <1>5, <1>6, <1>7, <1>8 DEF Consistent, Ends

\* How main comes to the places of the loop.
LEMMA WorkingStep ==
    ASSUME [Next]_vars, pc' \in Working, ~Connect("tail", "connect_tail", "check")
    PROVE  /\ pc \in Working
           /\ Receive \/ (written' = written /\ (value' = value \/ \E s \in Servers : Copy(s)))
           /\ pc' = "receive" => Send \/ UNCHANGED <<op, asked, pc>>
<1> USE DEF Goto, Working
<1>1. CASE Start
    <2>1. pc' \notin Working
        BY <1>1 DEF Start, WaitForZooKeeper, ListChildren, CallocPaths, FindHead, FindTail, FindEnd, Locate,
           Connect, Crash
    <2>2. QED
        BY <2>1
<1>2. CASE Loop \/ Input
    <2>1. CASE Check \/ Input
        BY <2>1 DEF Check, Input, Command, MainOnly, chain
    <2>2. CASE Send
        BY <2>2 DEF Send, MainOnly, chain
    <2>3. CASE Receive
        BY <2>3 DEF Receive
    <2>4. CASE ReceiveFails
        BY <2>4 DEF ReceiveFails, MainOnly, chain
    <2>5. QED
        BY <1>2, <2>1, <2>2, <2>3, <2>4 DEF Loop, Call, Leave
<1>3. CASE ~Start /\ ~Loop /\ ~Input
    <2>1. UNCHANGED command /\ pc' = pc
        BY <1>3, MainMoves
    <2>2. value' = value \/ \E s \in Servers : Copy(s)
        BY <1>3 DEF Next, ChainStep, Register, Link, Die, Expire, ZooKeeperStep, Callback,
           client_watch_children, client_connection_handler, Relist, Compare, GetAddress, Disconnect,
           Reconnect, CallbackOnly, Done, vars, chain
    <2>3. QED
        BY <2>1, <2>2 DEF command
<1>4. QED
    BY <1>1, <1>2, <1>3

LEMMA ConsistentKept == ASSUME OwnInv, [Next]_vars PROVE Consistent'
<1> SUFFICES ASSUME whole', pc' \in Working PROVE Consistent'
    BY DEF Consistent
<1>1. CASE Connect("tail", "connect_tail", "check")
    <2>1. pc' = "check"
        BY <1>1 DEF Connect, Crash, Goto, Working
    <2>2. QED
        BY <1>1, <2>1, Enters
<1>2. CASE ~Connect("tail", "connect_tail", "check")
    <2>a. PICK h : h = fds[local["head"]]
        OBVIOUS
    <2>b. PICK t : t = fds[local["tail"]]
        OBVIOUS
    <2>0. /\ TypeInv /\ ClientInv /\ Growing /\ Separate /\ Untouched /\ Consistent
          /\ Untouched' /\ whole /\ pc \in Working
        <3>1. whole
            BY <1>2, WholeStep DEF OwnInv, TypeInv, StartTypes
        <3>2. QED
            BY <1>2, <3>1, UntouchedKept, WorkingStep DEF OwnInv
    <2>1. NobodyDied' /\ NobodyDied /\ ~Over'
        BY <2>0, DeathLasts DEF Untouched, Over, Working
    <2>2. /\ t \in Reached(h) /\ h \in Servers /\ t \in Servers
          /\ value[h] = written /\ value[t] = written
          /\ pc = "receive" => asked = fds[local[End(op)]]
        BY <2>0, <2>a, <2>b DEF Consistent, Ends
    <2>3. \A e \in Ends : local'[e] = local[e] /\ fds'[local'[e]] = fds[local[e]]
        <3>1. \A e \in Ends : local[e] \in Fds
            BY <2>0 DEF ClientInv, LocalsInv, InLoop, Working, Ends
        <3>2. pc \notin {"leave_head", "leave_tail"}
            BY <2>0 DEF Working
        <3>3. QED
            BY <2>0, <2>1, <3>1, <3>2, MainKeeps
    <2>4. fds'[local'["head"]] = h /\ fds'[local'["tail"]] = t
        BY <2>3, <2>a, <2>b DEF Ends
    <2>5. t \in Reached(h)'
        BY <2>0, <2>1, <2>2, ReachKept
    <2>6. stage[h] = "up" /\ stage[t] = "up"
        BY <2>2, ReachIsUp
    <2>7. value'[h] = written' /\ value'[t] = written'
        <3>1. CASE Receive
            <4>1. pc = "receive" /\ op \in Commands /\ h \in Reached(h)
                BY <2>0, <2>2, <2>6, <3>1, ReachesItself DEF Receive, TypeInv, CommandInv
            <4>2. CASE op = "PUT"
                <5>1. asked = h /\ End(op) = "head"
                    BY <2>2, <2>a, <4>1, <4>2 DEF End
                <5>2. value' = [u \in Servers |-> IF u \in Reached(h) THEN puts ELSE value[u]]
                      /\ written' = value'[h]
                    BY <3>1, <4>2, <5>1 DEF Receive
                <5>3. QED
                    BY <2>2, <4>1, <5>2
            <4>3. CASE op = "DEL"
                <5>1. asked = h /\ End(op) = "head"
                    BY <2>2, <2>a, <4>1, <4>3 DEF End
                <5>2. value' = [u \in Servers |-> IF u \in Reached(h) THEN Absent ELSE value[u]]
                      /\ written' = value'[h]
                    BY <3>1, <4>3, <5>1 DEF Receive
                <5>3. QED
                    BY <2>2, <4>1, <5>2
            <4>4. CASE op \notin {"PUT", "DEL"}
                <5>1. value' = value /\ End(op) # "head"
                    BY <3>1, <4>4 DEF Receive, End
                <5>2. written' = written
                    BY <3>1, <5>1 DEF Receive
                <5>3. QED
                    BY <2>2, <5>1, <5>2
            <4>5. QED
                BY <4>2, <4>3, <4>4
        <3>2. ASSUME NEW s \in Servers, Copy(s), written' = written PROVE value'[h] = written' /\ value'[t] = written'
            BY <2>2, <2>6, <3>2 DEF Copy, TypeInv
        <3>3. QED
            BY <1>2, <2>2, <3>1, <3>2, WorkingStep
    <2>8. pc' = "receive" => asked' = fds'[local'[End(op')]]
        <3> SUFFICES ASSUME pc' = "receive" PROVE asked' = fds'[local'[End(op')]]
            OBVIOUS
        <3>0. End(op) \in Ends
            BY DEF End, Ends
        <3>1. CASE Send
            <4>1. asked' = fds[local[End(op)]] /\ op' = op
                BY <3>1 DEF Send, Table, Goto
            <4>2. QED
                BY <2>3, <3>0, <4>1
        <3>2. CASE UNCHANGED <<op, asked, pc>>
            BY <2>2, <2>3, <3>0, <3>2
        <3>3. QED
            BY <1>2, <3>1, <3>2, WorkingStep
    <2>9. QED
        BY <2>2, <2>4, <2>5, <2>7, <2>8 DEF Consistent, Ends
<1>3. QED
    BY <1>1, <1>2

LEMMA OwnInductive == OwnInv /\ [Next]_vars => OwnInv'
BY TypesInductive, Inductive, GrowingKept, SeparateKept, UntouchedKept, ConsistentKept DEF OwnInv

LEMMA OwnInvariant == Spec => []OwnInv
BY OwnInitially, OwnInductive, PTL DEF Spec

\* The client reads its own writes while servers join the chain and nobody dies:
\* what any command returns is what it should for the value last written.
THEOREM ReadsOwnWrites == Spec => OwnWritesRead
<1>1. ASSUME OwnInv, [Next]_vars, pc \in {"send", "receive"}, pc' = "check", whole
      PROVE  result' = Expected(op, written)
    <2>0. /\ TypeInv /\ ClientInv /\ Separate /\ NobodyDied /\ Consistent /\ op \in Commands
          /\ written \in 0..MaxWrites
        BY <1>1 DEF OwnInv, Untouched, TypeInv, CommandInv, CommandTypes
    <2>1. Send \/ Receive \/ ReceiveFails
        <3>1. ~Start
            BY <1>1 DEF Start, WaitForZooKeeper, ListChildren, CallocPaths, FindHead, FindTail, FindEnd,
               Locate, Connect
        <3>2. Loop \/ Input
            BY <1>1, <3>1, MainMoves
        <3>3. QED
            BY <1>1, <3>2 DEF Loop, Input, Call, Check, Command, Leave
    <2>2. ~Send
        BY <1>1, <2>0, Living DEF Send, Goto
    <2>3. ~ReceiveFails
        BY <2>0 DEF ReceiveFails, TypeInv, CommandInv, NobodyDied
    <2>4. result' = Returned(op, Reply(op, value[asked])) /\ pc = "receive"
        BY <2>1, <2>2, <2>3 DEF Receive
    <2>5. value[asked] = written
        <3>1. End(op) \in Ends
            BY DEF End, Ends
        <3>2. QED
            BY <1>1, <2>0, <2>4, <3>1 DEF Consistent, Working
    <2>6. QED
        BY <2>0, <2>4, <2>5, ReturnedIsExpected
<1>2. OwnInv /\ [Next]_vars => [(pc \in {"send", "receive"} /\ pc' = "check" /\ whole)
                                   => result' = Expected(op, written)]_vars
    BY <1>1
<1>3. QED
    BY <1>2, OwnInvariant, PTL DEF Spec, OwnWritesRead
=============================================================================
