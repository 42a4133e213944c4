------------------------------- MODULE Client -------------------------------
(***************************************************************************)
(* The client program: main and its command loop (table_client.c), the     *)
(* stub (client_stub.c), the connections (network_client.c) and the        *)
(* callbacks that the ZooKeeper library runs in a thread of its own        *)
(* (client_callbacks.c).                                                   *)
(*                                                                         *)
(* main declares its own rtable_head and rtable_tail.  They shadow the     *)
(* globals of the same names, which only client_watch_children uses, while *)
(* the flags connected_to_head and connected_to_tail, the paths and the    *)
(* descriptors of the process are shared by the two threads.               *)
(*                                                                         *)
(* The chain is here what a client sees of the module Chain: a server      *)
(* copies the table of the tail, then registers, and its predecessor links *)
(* to it later; a write is applied along the links before it is answered.  *)
(* Servers are numbered in the order of their nodes, a restarted one is a  *)
(* new one, and this client is the only one that writes, to one key.       *)
(***************************************************************************)
EXTENDS Integers, Sequences, FiniteSets, FiniteSetsExt

CONSTANTS N,             \* bound: servers that ever run
          Started,       \* of which 1..Started run when the client starts
          MaxWrites,     \* bound: PUTs, the w-th of which puts the value w
          MaxFaults,     \* bound: servers that die, and losses of the connection
                         \* to ZooKeeper
          MaxFd          \* bound: the greatest descriptor

ASSUME ClientAssumption == /\ {N, Started, MaxWrites, MaxFaults, MaxFd} \subseteq Nat
                           /\ Started <= N

Servers == 1..N
Fds == 0..MaxFd
Ends == {"head", "tail"}

None == 0               \* no node: "" as a path, no address
Absent == 0             \* the value of a key that is not in the table
Closed == -1            \* a descriptor that is not open
Stdin == -2             \* ... one that is no socket
Unconnected == -3       \* ... a socket that connect refused
Nowhere == -4           \* an address that was cut short
Null == -5
Freed == -6
NoWatch == {Null}

VARIABLES stage,        \* each server: "down", "copied", "up" or "dead"
          registered,   \* the servers that have a node
          value,        \* what each server's table has for the key
          next,         \* the server each one is linked to, or None
          session,      \* is the client connected to ZooKeeper?
          losses,       \* how often it has lost the connection
          events,       \* the events the library has still to deliver
          watch,        \* the children when the watch was set, or NoWatch
          pc,           \* where main is
          listed,       \* children_list: what each loop of main has yet to look at
          address,      \* head_server_addr and tail_server_addr
          local,        \* main's rtable_head and rtable_tail: their descriptor
          op, asked,    \* the command, and the server that has the request
          result,       \* what the last rtable_* function returned
          cb, new, has, addr,  \* the callback: where it is, its new_head and
                        \* new_tail, the ends it has yet to replace, an address
          global,       \* the globals rtable_head and rtable_tail
          path,         \* head_path and tail_path
          connected,    \* connected_to_head and connected_to_tail
          client_connected_to_zk,
          fds,          \* what each descriptor is open on
          written,      \* the value of the key after the last write
          puts,
          whole         \* history: the chain was linked from the server that is
                        \* local head to the local tail, and none has died since

chain == <<stage, registered, value, next>>
zookeeper == <<session, losses, events, watch>>
startup == <<listed, address>>
command == <<op, asked, result, written, puts>>
callback == <<cb, new, has, addr, global>>
shared == <<path, connected, fds>>
vars == <<chain, zookeeper, startup, command, callback, shared, pc, local,
          client_connected_to_zk, whole>>

Init ==
    /\ stage = [s \in Servers |-> IF s <= Started THEN "up" ELSE "down"]
    /\ registered = 1..Started
    /\ value = [s \in Servers |-> Absent]
    /\ next = [s \in Servers |-> IF s < Started THEN s + 1 ELSE None]
    /\ session = FALSE
    /\ losses = 0
    /\ events = <<>>
    /\ watch = NoWatch
    /\ pc = "wait"
    /\ listed = [e \in Ends |-> {}]
    /\ address = [e \in Ends |-> None]
    /\ local = [e \in Ends |-> Null]
    /\ op = "QUIT" /\ asked = None
    /\ result = [ok |-> FALSE, value |-> 0]
    /\ cb = "idle"
    /\ new = [e \in Ends |-> None]
    /\ has = {}
    /\ addr = None
    /\ global = [e \in Ends |-> Null]
    /\ path = [e \in Ends |-> Null]
    /\ connected = [e \in Ends |-> FALSE]
    /\ client_connected_to_zk = FALSE
    /\ fds = [d \in Fds |-> IF d = 0 THEN Stdin ELSE Closed]
    /\ written = Absent /\ puts = 0
    /\ whole = FALSE

Faults == losses + Cardinality({s \in Servers : stage[s] = "dead"})

Over == pc \in {"ended", "crashed"}
Goto(l) == pc' = l

-----------------------------------------------------------------------------
(* The chain (see Chain).                                                  *)

\* main of a server copies the table of the tail ...
Copy(s) ==
    /\ stage[s] = "down"
    /\ \A t \in 1..(s - 1) : stage[t] \in {"up", "dead"}
    /\ LET live == {t \in registered : stage[t] = "up"}
       IN  value' = [value EXCEPT ![s] = IF live = {} THEN Absent ELSE value[Max(live)]]
    /\ stage' = [stage EXCEPT ![s] = "copied"]
    /\ UNCHANGED <<registered, next>>

\* ... and creates its node.
Register(s) ==
    /\ stage[s] = "copied"
    /\ stage' = [stage EXCEPT ![s] = "up"]
    /\ registered' = registered \union {s}
    /\ UNCHANGED <<value, next>>

Successor(s) ==
    LET later == {t \in registered : t > s} IN IF later = {} THEN None ELSE Min(later)

\* server_watch_children.
Link(s) ==
    /\ stage[s] = "up" /\ s \in registered
    /\ next[s] # Successor(s)
    /\ next' = [next EXCEPT ![s] = Successor(s)]
    /\ UNCHANGED <<stage, registered, value>>

Die(s) ==
    /\ stage[s] = "up"
    /\ Faults < MaxFaults
    /\ stage' = [stage EXCEPT ![s] = "dead"]
    /\ UNCHANGED <<registered, value, next>>

Expire(s) ==
    /\ stage[s] = "dead" /\ s \in registered
    /\ registered' = registered \ {s}
    /\ UNCHANGED <<stage, value, next>>

\* The servers a write that s receives is applied at: s, and on along the links
\* to the first that is dead.
LinkedOver(s, t, S) ==
    /\ {s, t} \subseteq S
    /\ \A u \in S : stage[u] = "up" /\ (u # t => next[u] \in S)
Reached(s) == {t \in s..N : \E S \in SUBSET (s..t) : LinkedOver(s, t, S)}

ChainStep ==
    /\ ~Over
    /\ \/ \E s \in Servers : (Copy(s) \/ Register(s) \/ Link(s) \/ Expire(s)) /\ UNCHANGED whole
       \/ \E s \in Servers : Die(s) /\ whole' = FALSE
    /\ UNCHANGED <<zookeeper, startup, command, callback, shared, pc, local, client_connected_to_zk>>

-----------------------------------------------------------------------------
(* ZooKeeper: the session of the client, and its one-shot watch.           *)

Connected ==
    /\ ~session
    /\ session' = TRUE
    /\ events' = Append(events, "connected")
    /\ UNCHANGED <<losses, watch>>

Lost ==
    /\ session /\ Faults < MaxFaults
    /\ session' = FALSE
    /\ losses' = losses + 1
    /\ events' = Append(events, "lost")
    /\ UNCHANGED watch

Notify ==
    /\ session /\ watch \notin {NoWatch, registered}
    /\ watch' = NoWatch
    /\ events' = Append(events, "children")
    /\ UNCHANGED <<session, losses>>

ZooKeeperStep ==
    /\ ~Over
    /\ Connected \/ Lost \/ Notify
    /\ UNCHANGED <<chain, startup, command, callback, shared, pc, local, client_connected_to_zk, whole>>

\* zoo_get of a node's address: nothing if the call fails.
zoo_get(n) == IF session /\ n \in registered THEN n ELSE None

-----------------------------------------------------------------------------
(* network_client.c and rtable_connect, rtable_disconnect                  *)

\* close of d, which may not be open: then the flag keeps its value.
network_close(e, d) ==
    /\ fds' = [fds EXCEPT ![d] = Closed]
    /\ connected' = IF fds[d] = Closed THEN connected ELSE [connected EXCEPT ![e] = FALSE]

\* socket takes the lowest descriptor that is free.
Socket(d) == fds[d] = Closed /\ \A c \in 0..(d - 1) : fds[c] # Closed

\* The server at address a accepts.
rtable_connect(e, a, d) ==
    /\ Socket(d)
    /\ a \in Servers /\ stage[a] = "up"
    /\ fds' = [fds EXCEPT ![d] = a]
    /\ connected' = [connected EXCEPT ![e] = TRUE]

\* There is no descriptor left ...
SocketFails(a) ==
    /\ a # None
    /\ \A d \in Fds : fds[d] # Closed
    /\ UNCHANGED <<fds, connected>>

\* ... or no server accepts.  The socket is not closed: network_close closes
\* rtable->sockfd, which has no value yet and may be that of any descriptor.
ConnectFails(e, a) ==
    /\ a # None
    /\ a \in Servers => stage[a] = "dead"
    /\ \E n \in Fds : \E d \in Fds \ {n} :
          /\ Socket(n)
          /\ fds' = [fds EXCEPT ![n] = Unconnected, ![d] = Closed]
          /\ connected' = IF fds[d] = Closed THEN connected
                          ELSE [connected EXCEPT ![e] = FALSE]

\* An address without ':' makes rtable_connect read through NULL.
Crash == Goto("crashed") /\ UNCHANGED <<local, fds, connected>>

-----------------------------------------------------------------------------
(* main, up to the command loop                                            *)

MainOnly == UNCHANGED <<chain, zookeeper, callback, client_connected_to_zk>>

WaitForZooKeeper ==
    /\ pc = "wait" /\ client_connected_to_zk
    /\ Goto("list")
    /\ MainOnly
    /\ UNCHANGED <<startup, command, shared, local, whole>>

\* zoo_wget_children lists the children and sets the watch.
ListChildren ==
    /\ pc = "list"
    /\ IF session
         THEN /\ watch' = registered
              /\ listed' = [e \in Ends |-> registered]
              /\ Goto("calloc")
         ELSE Goto("ended") /\ UNCHANGED <<watch, listed>>
    /\ UNCHANGED <<chain, session, losses, events, callback, client_connected_to_zk,
                   address, command, shared, local, whole>>

CallocPaths ==
    /\ pc = "calloc"
    /\ path' = [e \in Ends |-> None]
    /\ Goto("find_head")
    /\ MainOnly
    /\ UNCHANGED <<startup, command, connected, fds, local, whole>>

Beyond(e, n, m) == IF e = "head" THEN n < m ELSE n > m

\* One child of the list is compared with the path as it now is.
FindEnd(e, here, there) ==
    /\ pc = here
    /\ IF listed[e] = {}
         THEN Goto(there) /\ UNCHANGED <<listed, path>>
         ELSE \E n \in listed[e] :
                 /\ listed' = [listed EXCEPT ![e] = @ \ {n}]
                 /\ path' = [path EXCEPT ![e] = IF @ = None \/ Beyond(e, n, @) THEN n ELSE @]
                 /\ UNCHANGED pc
    /\ MainOnly
    /\ UNCHANGED <<address, command, connected, fds, local, whole>>

FindHead == FindEnd("head", "find_head", "find_tail")
FindTail == FindEnd("tail", "find_tail", "locate_head")

\* zoo_get of both.  zoo_data_len, set to the length of the head's address, then
\* limits that of the tail.
Locate(e, here, there) ==
    /\ pc = here
    /\ \E a \in {zoo_get(path[e])} \union
                (IF e = "tail" /\ address["head"] \notin {None, zoo_get(path[e])}
                   THEN {Nowhere} ELSE {}) :
          address' = [address EXCEPT ![e] = IF zoo_get(path[e]) = None THEN None ELSE a]
    /\ Goto(there)
    /\ MainOnly
    /\ UNCHANGED <<listed, command, shared, local, whole>>

\* rtable_connect of both, then main ends unless both have succeeded.
Connect(e, here, there) ==
    /\ pc = here
    /\ \/ address[e] = None /\ Crash
       \/ /\ \E d \in Fds : /\ rtable_connect(e, address[e], d)
                           /\ local' = [local EXCEPT ![e] = d]
          /\ Goto(IF local["head"] = Null /\ e = "tail" THEN "ended" ELSE there)
       \/ /\ SocketFails(address[e]) \/ ConnectFails(e, address[e])
          /\ Goto(IF e = "tail" THEN "ended" ELSE there)
          /\ UNCHANGED local
    /\ whole' = (/\ pc' = "check"
                 /\ address["tail"] \in Reached(address["head"])
                 /\ \A s \in Servers : stage[s] # "dead")
    /\ address' = IF e = "tail" THEN [x \in Ends |-> None] ELSE address
    /\ MainOnly
    /\ UNCHANGED <<listed, command, path>>

Start == \/ WaitForZooKeeper \/ ListChildren \/ CallocPaths \/ FindHead \/ FindTail
         \/ Locate("head", "locate_head", "locate_tail")
         \/ Locate("tail", "locate_tail", "connect_head")
         \/ Connect("head", "connect_head", "connect_tail")
         \/ Connect("tail", "connect_tail", "check")

-----------------------------------------------------------------------------
(* The command loop, and what rtable_* return                              *)

Commands == {"PUT", "DEL", "GET", "SIZE", "GETKEYS", "GETTABLE", "STATS"}
End(o) == IF o \in {"PUT", "DEL"} THEN "head" ELSE "tail"

\* The table that a command of main uses: main's own.
\* (Mutant: there are only the global ones.)
SharedTable(e) == IF global[e] = Null THEN local[e] ELSE global[e]

Table(e) == local[e]

\* What invoke (table_skel.c) answers from a table that has v for the key.  The
\* counters of STATS are left out.
Reply(o, v) ==
    [c_type |-> CASE o = "PUT" -> "CT_NONE"
                  [] o = "DEL" -> IF v = Absent THEN "CT_BAD" ELSE "CT_NONE"
                  [] o = "GET" -> IF v = Absent THEN "CT_KEY" ELSE "CT_VALUE"
                  [] o = "SIZE" -> "CT_RESULT"
                  [] o = "GETKEYS" -> "CT_KEYS"
                  [] o = "GETTABLE" -> "CT_TABLE"
                  [] o = "STATS" -> "CT_STATS",
     data |-> IF o \in {"GET", "GETTABLE"} THEN v
              ELSE IF o \in {"SIZE", "GETKEYS"} /\ v # Absent THEN 1 ELSE 0]

Error == [ok |-> FALSE, value |-> 0]
Ok(v) == [ok |-> TRUE, value |-> v]

\* The replies OP_BAD and OP_ERROR, which these test for too, are never sent:
\* a server that refuses a request closes the connection.
rtable_put(reply) == Ok(0)
rtable_del(reply) == IF reply.c_type = "CT_BAD" THEN Error ELSE Ok(0)
rtable_get(reply) == IF reply.data = Absent THEN Error ELSE Ok(reply.data)
rtable_size(reply) == Ok(reply.data)
rtable_get_keys(reply) == Ok(reply.data)
rtable_get_table(reply) == Ok(reply.data)
rtable_stats(reply) == Ok(reply.data)

Returned(o, reply) ==
    CASE o = "PUT" -> rtable_put(reply)
      [] o = "DEL" -> rtable_del(reply)
      [] o = "GET" -> rtable_get(reply)
      [] o = "SIZE" -> rtable_size(reply)
      [] o = "GETKEYS" -> rtable_get_keys(reply)
      [] o = "GETTABLE" -> rtable_get_table(reply)
      [] o = "STATS" -> rtable_stats(reply)

\* The condition of the loop.  What the last command returned is forgotten.
Check ==
    /\ pc = "check"
    /\ Goto(IF connected["head"] /\ connected["tail"] /\ client_connected_to_zk
              THEN "input" ELSE "leave_head")
    /\ op' = "QUIT" /\ result' = Error
    /\ MainOnly
    /\ UNCHANGED <<startup, shared, local, whole, asked, written, puts>>

\* A line is read: a command, QUIT or an invalid one.
Command(o) ==
    /\ pc = "input"
    /\ o = "PUT" => puts < MaxWrites
    /\ op' = o
    /\ Goto(CASE o \in Commands -> "send" [] o = "QUIT" -> "leave_head" [] OTHER -> "check")
    /\ MainOnly
    /\ UNCHANGED <<startup, shared, local, whole, asked, result, written, puts>>

\* message_send_all.  A client does not ignore SIGPIPE, and dies of a write on a
\* connection that the server has ended; a first write does not show it yet.
Send ==
    /\ pc = "send"
    /\ LET s == fds[Table(End(op))]
       IN  \/ /\ s \in Servers
              /\ Goto("receive") /\ asked' = s
              /\ UNCHANGED <<result, shared>>
           \/ /\ s \in Servers => stage[s] = "dead"
              /\ network_close(End(op), Table(End(op)))
              /\ Goto("check") /\ result' = Error
              /\ UNCHANGED <<asked, path>>
           \/ /\ s \in Servers /\ stage[s] = "dead"
              /\ Goto("ended")
              /\ UNCHANGED <<asked, result, shared>>
    /\ puts' = IF op = "PUT" THEN puts + 1 ELSE puts
    /\ MainOnly
    /\ UNCHANGED <<startup, local, whole, op, written>>

\* The server serves the request, and its answer arrives.
Receive ==
    /\ pc = "receive" /\ stage[asked] = "up"
    /\ value' = CASE op = "PUT" -> [t \in Servers |-> IF t \in Reached(asked) THEN puts ELSE value[t]]
                  [] op = "DEL" -> [t \in Servers |-> IF t \in Reached(asked) THEN Absent ELSE value[t]]
                  [] OTHER -> value
    /\ written' = IF End(op) = "head" THEN value'[asked] ELSE written
    /\ result' = Returned(op, Reply(op, value[asked]))
    /\ asked' = None
    /\ Goto("check")
    /\ UNCHANGED <<stage, registered, next, zookeeper, callback, client_connected_to_zk,
                   startup, shared, local, whole, op, puts>>

\* (Mutant: the request is sent again.)
ReceiveRetries ==
    /\ pc = "receive" /\ stage[asked] = "dead"
    /\ Goto("send")
    /\ puts' = IF op = "PUT" THEN puts - 1 ELSE puts
    /\ MainOnly
    /\ UNCHANGED <<startup, local, whole, shared, op, asked, result, written>>

\* No answer will arrive.
ReceiveFails ==
    /\ pc = "receive" /\ stage[asked] = "dead"
    /\ network_close(End(op), Table(End(op)))
    /\ result' = Error /\ asked' = None
    /\ Goto("check")
    /\ MainOnly
    /\ UNCHANGED <<startup, local, whole, path, op, written, puts>>

\* rtable_disconnect of both: main returns, or calls exit if close fails.
Leave(e, here, there) ==
    /\ pc = here
    /\ network_close(e, local[e])
    /\ Goto(IF fds[local[e]] = Closed THEN "ended" ELSE there)
    /\ local' = [local EXCEPT ![e] = Freed]
    /\ MainOnly
    /\ UNCHANGED <<startup, command, path, whole>>

Call == Send \/ Receive \/ ReceiveFails
Loop == \/ Check \/ Call
        \/ Leave("head", "leave_head", "leave_tail")
        \/ Leave("tail", "leave_tail", "ended")
Input == \E o \in Commands \union {"QUIT", "INVALID"} : Command(o)

-----------------------------------------------------------------------------
(* client_callbacks.c, in the completion thread                            *)

CallbackOnly == UNCHANGED <<chain, session, losses, startup, command, local, whole>>

client_connection_handler ==
    /\ cb = "idle" /\ events # <<>> /\ Head(events) \in {"connected", "lost"} /\ ~Over
    /\ client_connected_to_zk' = (Head(events) = "connected")
    /\ events' = Tail(events)
    /\ CallbackOnly
    /\ UNCHANGED <<watch, callback, shared, pc>>

\* (Mutant: an old watch is thought to last.)
RelistUnwatched ==
    /\ cb = "idle" /\ events # <<>> /\ Head(events) = "children" /\ ~Over
    /\ events' = Tail(events)
    /\ IF session
         THEN /\ new' = IF registered = {} THEN [e \in Ends |-> None]
                        ELSE [head |-> Min(registered), tail |-> Max(registered)]
              /\ cb' = "compare"
         ELSE UNCHANGED <<new, cb>>
    /\ CallbackOnly
    /\ UNCHANGED <<watch, has, addr, global, shared, pc, client_connected_to_zk>>

\* client_watch_children: the watch is set again with the list it returns, and
\* the ends of the chain are looked for.
Relist ==
    /\ cb = "idle" /\ events # <<>> /\ Head(events) = "children" /\ ~Over
    /\ events' = Tail(events)
    /\ IF session
         THEN /\ watch' = registered
              /\ new' = IF registered = {} THEN [e \in Ends |-> None]
                        ELSE [head |-> Min(registered), tail |-> Max(registered)]
              /\ cb' = "compare"
         ELSE UNCHANGED <<watch, new, cb>>
    /\ CallbackOnly
    /\ UNCHANGED <<has, addr, global, shared, pc, client_connected_to_zk>>

\* strcmp of a path that main has not allocated yet ends the process.
Compare ==
    /\ cb = "compare" /\ ~Over
    /\ has' = {e \in Ends : path[e] # new[e]}
    /\ IF path["tail"] = Null
         THEN Goto("crashed") /\ UNCHANGED cb
         ELSE cb' = (IF has' = {} THEN "idle" ELSE "zoo_get") /\ UNCHANGED pc
    /\ CallbackOnly
    /\ UNCHANGED <<events, watch, new, addr, global, shared, client_connected_to_zk>>

\* The end that is being replaced: first the head.
Current == IF "head" \in has THEN "head" ELSE "tail"

\* (Mutant: zoo_data_len is kept from one zoo_get to the next.)
GetAddressCut ==
    /\ cb = "zoo_get" /\ ~Over
    /\ addr' \in {zoo_get(new[Current])} \union
                 (IF addr \notin {None, new[Current]} THEN {Nowhere} ELSE {})
    /\ cb' = "disconnect"
    /\ CallbackOnly
    /\ UNCHANGED <<events, watch, new, has, global, shared, pc, client_connected_to_zk>>

GetAddress ==
    /\ cb = "zoo_get" /\ ~Over
    /\ addr' = zoo_get(new[Current])
    /\ cb' = "disconnect"
    /\ CallbackOnly
    /\ UNCHANGED <<events, watch, new, has, global, shared, pc, client_connected_to_zk>>

\* (Mutant: the old connection is not closed.)
DisconnectForgotten ==
    /\ cb = "disconnect" /\ ~Over
    /\ cb' = "connect"
    /\ CallbackOnly
    /\ UNCHANGED <<events, watch, new, has, addr, global, shared, pc, client_connected_to_zk>>

\* rtable_disconnect of the global, which is NULL before the first change.
Disconnect ==
    /\ cb = "disconnect" /\ ~Over
    /\ IF global[Current] = Null
         THEN UNCHANGED <<fds, connected, global>>
         ELSE /\ network_close(Current, global[Current])
              /\ global' = [global EXCEPT ![Current] = Freed]
    /\ cb' = "connect"
    /\ CallbackOnly
    /\ UNCHANGED <<events, watch, new, has, addr, path, pc, client_connected_to_zk>>

\* rtable_connect, and the new path is recorded.
Reconnect ==
    /\ cb = "connect" /\ ~Over
    /\ \/ addr = None /\ Crash /\ UNCHANGED <<global, path, has, cb>>
       \/ /\ \/ \E d \in Fds : /\ rtable_connect(Current, addr, d)
                              /\ global' = [global EXCEPT ![Current] = d]
             \/ /\ SocketFails(addr) \/ ConnectFails(Current, addr)
                /\ global' = [global EXCEPT ![Current] = Null]
          /\ path' = [path EXCEPT ![Current] = new[Current]]
          /\ has' = has \ {Current}
          /\ cb' = IF has' = {} THEN "idle" ELSE "zoo_get"
          /\ UNCHANGED <<pc, local>>
    /\ UNCHANGED <<chain, session, losses, startup, command, whole, events, watch, new, addr,
                   client_connected_to_zk>>

client_watch_children == Relist \/ Compare \/ GetAddress \/ Disconnect \/ Reconnect
Callback == client_connection_handler \/ client_watch_children

Done == Over /\ UNCHANGED vars

Next == ChainStep \/ ZooKeeperStep \/ Start \/ Loop \/ Input \/ Callback \/ Done

Spec == Init /\ [][Next]_vars

\* Both threads of the client run, servers answer, and ZooKeeper delivers its
\* events while the client is connected to it.
Fairness ==
    /\ WF_vars(Start) /\ WF_vars(Loop) /\ WF_vars(Callback)
    /\ WF_vars(ZooKeeperStep /\ Notify)

FairSpec == Spec /\ Fairness

-----------------------------------------------------------------------------
Pcs == {"wait", "list", "calloc", "find_head", "find_tail", "locate_head",
        "locate_tail", "connect_head", "connect_tail", "check", "input", "send",
        "receive", "leave_head", "leave_tail", "ended", "crashed"}

TypeOK ==
    /\ stage \in [Servers -> {"down", "copied", "up", "dead"}]
    /\ registered \in SUBSET Servers
    /\ value \in [Servers -> 0..MaxWrites]
    /\ next \in [Servers -> {None} \union Servers]
    /\ session \in BOOLEAN /\ losses \in 0..MaxFaults
    /\ events \in Seq({"connected", "lost", "children"})
    /\ watch \in (SUBSET Servers) \union {NoWatch}
    /\ pc \in Pcs
    /\ listed \in [Ends -> SUBSET Servers]
    /\ address \in [Ends -> {None, Nowhere} \union Servers]
    /\ local \in [Ends -> {Null, Freed} \union Fds]
    /\ op \in Commands \union {"QUIT", "INVALID"}
    /\ asked \in {None} \union Servers
    /\ result \in [ok : BOOLEAN, value : 0..MaxWrites]
    /\ cb \in {"idle", "compare", "zoo_get", "disconnect", "connect"}
    /\ new \in [Ends -> {None} \union Servers]
    /\ has \in SUBSET Ends
    /\ addr \in {None} \union Servers
    /\ global \in [Ends -> {Null, Freed} \union Fds]
    /\ path \in [Ends -> {Null, None} \union Servers]
    /\ connected \in [Ends -> BOOLEAN]
    /\ client_connected_to_zk \in BOOLEAN
    /\ fds \in [Fds -> {Closed, Stdin, Unconnected} \union Servers]
    /\ written \in 0..MaxWrites /\ puts \in 0..MaxWrites
    /\ whole \in BOOLEAN

\* A command never uses a table that the callback has freed, though the callback
\* may replace its own while main waits for an answer.
CommandsUseLiveTable == pc \in {"send", "receive"} => Table(End(op)) \in Fds

\* A change of the chain costs no descriptor: one that is open on a server is in
\* one of the four tables.
Held == {local[e] : e \in Ends} \union {global[e] : e \in Ends}
DescriptorsHeld == ~Over => \A d \in Fds : fds[d] \in Servers => d \in Held

\* The client reads its own writes while servers join the chain, if it was linked
\* when main connected and no server dies: main keeps the tail it began with,
\* and the tables of later tails do not matter to it.
Expected(o, v) ==
    CASE o = "DEL" -> [ok |-> v # Absent, value |-> 0]
      [] o = "GET" -> [ok |-> v # Absent, value |-> v]
      [] o = "GETTABLE" -> Ok(v)
      [] o \in {"SIZE", "GETKEYS"} -> Ok(IF v = Absent THEN 0 ELSE 1)
      [] OTHER -> Ok(0)
OwnWritesRead ==
    [][(pc \in {"send", "receive"} /\ pc' = "check" /\ whole)
          => result' = Expected(op, written)]_vars

\* Once the chain and the connection to ZooKeeper are stable, the paths are those
\* of the first and the last server: no change is missed, neither while main
\* starts nor while the callback handles the one before, unless the connection
\* was lost and no watch has been set since.
Follows == path["head"] = Min(registered) /\ path["tail"] = Max(registered)
Unwatched == losses > 0 /\ (~session \/ watch = NoWatch)
FollowsChain ==
    <>[](Over \/ pc = "wait" \/ Unwatched \/ (registered # {} /\ Follows))

\* A command is over at last, whatever has become of the server.
EveryCommandReturns == pc = "send" ~> pc \in {"check", "ended", "crashed"}
=============================================================================
