------------------------------- MODULE Chain -------------------------------
(***************************************************************************)
(* The chain of table servers: how a server copies the table of the tail   *)
(* and registers itself (main and dup_table_from_server, table_server.c),  *)
(* how its ZooKeeper callback links it to its successor                    *)
(* (server_callbacks.c), and how PUT and DEL are forwarded along the links *)
(* while the write lock of the table is held (invoke, table_skel.c).       *)
(*                                                                         *)
(* Each server has its main thread, the completion thread of the ZooKeeper *)
(* library, which runs the callback, and a thread per connection.  One     *)
(* operation at a time is in the write section of a table (TableSkel); it  *)
(* stays there until its successor has answered.  ZooKeeper is external: a *)
(* set of numbered nodes and one-shot watches on it, whose events arrive   *)
(* later.  Reading the tail's table is one step here (TableSkel has its    *)
(* parts).                                                                 *)
(***************************************************************************)
EXTENDS Integers, FiniteSets

CONSTANTS Servers, Keys, Values,
          Absent,          \* what a key without an entry is mapped to
          Client,          \* who the writes come from that no server forwarded
          MaxWrites,       \* bound: PUTs and DELs of the clients
          MaxCrashes,      \* bound: servers that are killed
          MaxEvents,       \* bound: writes and kills together
          Rank,            \* bound: servers of lower rank create their node first
          SortedListing,   \* does ZooKeeper list the children in order?
          PathRecorded     \* does main record its path before the callback runs?

NoLink == "null"         \* rtable_connect failed, or was never called
Freed == "freed"         \* rtable_disconnect freed the structure

ASSUME ChainAssumption == /\ IsFiniteSet(Servers) /\ IsFiniteSet(Keys)
                          /\ Servers \intersect {Client, NoLink, Freed} = {}
                          /\ Absent \notin Values
                          /\ {MaxWrites, MaxCrashes, MaxEvents} \subseteq Nat
                          /\ Rank \in [Servers -> Nat]
                          /\ {SortedListing, PathRecorded} \subseteq BOOLEAN

VARIABLES nodes,      \* ZooKeeper: the number of each server's node, 0 for none
          created,    \* ZooKeeper: how many nodes have been created
          armed,      \* ZooKeeper: the servers whose watch is set
          event,      \* the servers with a watch event to handle
          phase,      \* where the main thread of each server is
          copy,       \* what it has copied from the tail, {} before that
          source,     \* the node it took for the tail, 0 for none
          table,      \* resources.table
          path,       \* resources.this_node_path, 0 for ""
          nextPath,   \* resources.next_server_node_path, 0 for ""
          link,       \* what resources.next_server_rtable is connected to
          callback,   \* the node server_watch_children is linking to, 0 if idle,
          fetched,    \* ... and whether it has its address
          requests,   \* the writes that connections of a server have received
          job,        \* {the write in the write section of its table}, or {}
          writes,     \* how many writes clients have sent
          crashes,    \* how many servers have been killed
          exposed     \* history: a write ran before all servers were linked

zookeeper == <<nodes, created, armed, event>>
joining == <<phase, copy, source>>
successor == <<path, nextPath, link>>
handling == <<callback, fetched>>
work == <<requests, job>>
environment == <<writes, crashes>>
vars == <<zookeeper, joining, table, successor, handling, work, environment, exposed>>

Phases == {"down", "list", "locate", "dup_table", "dup_size", "create", "record",
           "up", "dead"}

Empty == [k \in Keys |-> Absent]
Stored(tab) == {k \in Keys : tab[k] # Absent}
Entries(tab) == {<<k, tab[k]>> : k \in Stored(tab)}

Alive(s) == phase[s] \notin {"down", "dead"}
Numbers == {nodes[s] : s \in Servers} \ {0}
Owner(n) == CHOOSE s \in Servers : nodes[s] = n
Least(S) == CHOOSE n \in S : \A m \in S : n <= m
Greatest(S) == CHOOSE n \in S : \A m \in S : n >= m

Init ==
    /\ nodes = [s \in Servers |-> 0]
    /\ created = 0
    /\ armed = {}
    /\ event = {}
    /\ phase = [s \in Servers |-> "down"]
    /\ copy = [s \in Servers |-> {}]
    /\ source = [s \in Servers |-> 0]
    /\ table = [s \in Servers |-> Empty]
    /\ path = [s \in Servers |-> 0]
    /\ nextPath = [s \in Servers |-> 0]
    /\ link = [s \in Servers |-> NoLink]
    /\ callback = [s \in Servers |-> 0]
    /\ fetched = [s \in Servers |-> FALSE]
    /\ requests = [s \in Servers |-> {}]
    /\ job = [s \in Servers |-> {}]
    /\ writes = 0
    /\ crashes = 0
    /\ exposed = FALSE

\* Every registered server has handled the last change of the chain.
Settled ==
    /\ event = {}
    /\ \A s \in Servers : /\ phase[s] \in {"down", "up", "dead"}
                          /\ phase[s] = "dead" => nodes[s] = 0
                          /\ callback[s] = 0

\* The children of /chain change: the watches that are set fire.
FireWatches == event' = event \union armed /\ armed' = {}

\* The process of s ends.  Its node stays until its session expires.
End(s) ==
    /\ phase' = [phase EXCEPT ![s] = "dead"]
    /\ copy' = [copy EXCEPT ![s] = {}]
    /\ source' = [source EXCEPT ![s] = 0]
    /\ table' = [table EXCEPT ![s] = Empty]
    /\ path' = [path EXCEPT ![s] = 0]
    /\ nextPath' = [nextPath EXCEPT ![s] = 0]
    /\ link' = [link EXCEPT ![s] = NoLink]
    /\ callback' = [callback EXCEPT ![s] = 0]
    /\ fetched' = [fetched EXCEPT ![s] = FALSE]
    /\ requests' = [requests EXCEPT ![s] = {}]
    /\ job' = [job EXCEPT ![s] = {}]
    /\ armed' = armed \ {s}
    /\ event' = event \ {s}
    /\ UNCHANGED <<nodes, created, writes, exposed>>

-----------------------------------------------------------------------------
(* main: copy the table of the tail, then register.                        *)

\* From here on connections to s are accepted, and served once it is up.
Start(s) ==
    /\ phase[s] = "down"
    /\ phase' = [phase EXCEPT ![s] = "list"]
    /\ UNCHANGED <<zookeeper, copy, source, table, successor, handling, work,
                   environment, exposed>>

\* zoo_wget_children sets the watch; the tail is the last node in order.
ListChildren(s) ==
    /\ phase[s] = "list"
    /\ armed' = armed \union {s}
    /\ IF Numbers = {}
         THEN /\ phase' = [phase EXCEPT ![s] = "create"]
              /\ UNCHANGED source
         ELSE /\ phase' = [phase EXCEPT ![s] = "locate"]
              /\ source' = [source EXCEPT ![s] = Greatest(Numbers)]
    /\ UNCHANGED <<nodes, created, event, copy, table, successor, handling, work,
                   environment, exposed>>

\* zoo_get of the tail's address.  If its node has gone, main returns.
LocateTail(s) ==
    /\ phase[s] = "locate"
    /\ source[s] \in Numbers
    /\ phase' = [phase EXCEPT ![s] = "dup_table"]
    /\ UNCHANGED <<zookeeper, copy, source, table, successor, handling, work,
                   environment, exposed>>

TailGone(s) ==
    /\ phase[s] = "locate"
    /\ source[s] \notin Numbers
    /\ End(s)
    /\ UNCHANGED crashes

\* The server whose table s copies, while it has a node.
Tail(s) == {u \in Servers : nodes[u] = source[s]}
TailDead(s) == \A u \in Tail(s) : phase[u] = "dead"

\* rtable_get_table: the tail answers when no write holds its table.
DupTable(s) ==
    /\ phase[s] = "dup_table"
    /\ \E u \in Tail(s) :
          /\ phase[u] = "up"
          /\ job[u] = {}
          /\ copy' = [copy EXCEPT ![s] = Entries(table[u])]
    /\ phase' = [phase EXCEPT ![s] = "dup_size"]
    /\ UNCHANGED <<zookeeper, source, table, successor, handling, work, environment, exposed>>

\* rtable_size, another request: s puts as many of the entries as it returns.
DupSize(s) ==
    /\ phase[s] = "dup_size"
    /\ \E u \in Tail(s), kept \in SUBSET copy[s] :
          /\ phase[u] = "up"
          /\ job[u] = {}
          /\ Cardinality(kept) = Cardinality(Stored(table[u]))
          /\ table' = [table EXCEPT ![s] =
                [k \in Keys |-> IF \E v \in Values : <<k, v>> \in kept
                                  THEN CHOOSE v \in Values : <<k, v>> \in kept
                                  ELSE Absent]]
    /\ phase' = [phase EXCEPT ![s] = "create"]
    /\ UNCHANGED <<zookeeper, copy, source, successor, handling, work, environment, exposed>>

\* The table has grown since it was copied: entries[i] is NULL.
DupOverrun(s) ==
    /\ phase[s] = "dup_size"
    /\ \E u \in Tail(s) : /\ phase[u] = "up"
                          /\ job[u] = {}
                          /\ Cardinality(Stored(table[u])) > Cardinality(copy[s])
    /\ End(s)
    /\ UNCHANGED crashes

\* The tail cannot be reached.  main ignores what dup_table_from_server returns.
DupFails(s) ==
    /\ phase[s] \in {"dup_table", "dup_size"}
    /\ TailDead(s)
    /\ phase' = [phase EXCEPT ![s] = "create"]
    /\ copy' = [copy EXCEPT ![s] = {}]
    /\ UNCHANGED <<zookeeper, source, table, successor, handling, work, environment, exposed>>

\* Servers are alike until they have a node.  Ranks that differ number them in
\* the order of their nodes, which leaves out permutations of servers only.
InOrder(s) == \A u \in Servers : Rank[u] < Rank[s] => nodes[u] # 0 \/ phase[u] = "dead"

\* zoo_create with ZOO_EPHEMERAL | ZOO_SEQUENCE.
CreateNode(s) ==
    /\ phase[s] = "create"
    /\ InOrder(s)
    /\ created' = created + 1
    /\ nodes' = [nodes EXCEPT ![s] = created + 1]
    /\ FireWatches
    /\ copy' = [copy EXCEPT ![s] = {}]
    /\ source' = [source EXCEPT ![s] = 0]
    /\ phase' = [phase EXCEPT ![s] = "record"]
    /\ UNCHANGED <<table, successor, handling, work, environment, exposed>>

\* strcat(resources.this_node_path, created_node_path), then the main loop.
RecordPath(s) ==
    /\ phase[s] = "record"
    /\ path' = [path EXCEPT ![s] = nodes[s]]
    /\ phase' = [phase EXCEPT ![s] = "up"]
    /\ UNCHANGED <<zookeeper, copy, source, table, nextPath, link, handling, work,
                   environment, exposed>>

Join(s) == \/ ListChildren(s) \/ LocateTail(s) \/ TailGone(s)
           \/ DupTable(s) \/ DupSize(s) \/ DupOverrun(s) \/ DupFails(s)
           \/ CreateNode(s) \/ RecordPath(s)

-----------------------------------------------------------------------------
(* server_watch_children, in the completion thread.                        *)

\* Mutant: its own node counts as one after its path.
LaterOrSame(s) == {n \in Numbers : n >= path[s]}

\* The nodes it may take for its successor: the first in the listing that is
\* after its own path, and every node is after "".
Later(s) == {n \in Numbers : n > path[s]}
Chosen(s) == IF Later(s) = {} THEN {0}
             ELSE {n \in Later(s) : SortedListing => \A m \in Later(s) : n <= m}

MayHandle(s) ==
    /\ s \in event
    /\ Alive(s)
    /\ callback[s] = 0
    /\ PathRecorded => path[s] # 0

\* Mutant: the callback lists the children but does not set the watch again.
HandleUnwatched(s) ==
    /\ MayHandle(s)
    /\ event' = event \ {s}
    /\ \E n \in Chosen(s) :
          /\ callback' = [callback EXCEPT ![s] = IF n = nextPath[s] THEN 0 ELSE n]
          /\ nextPath' = [nextPath EXCEPT ![s] = IF n = 0 THEN 0 ELSE @]
          /\ link' = [link EXCEPT ![s] = IF nextPath[s] \notin {0, n} /\ @ # NoLink THEN Freed ELSE @]
    /\ UNCHANGED <<nodes, created, armed, joining, table, path, fetched, work, environment, exposed>>

\* The watch is set again and the children are listed.  If the successor is
\* another one than before, the link is closed; it is replaced in later steps.
HandleEvent(s) ==
    /\ MayHandle(s)
    /\ event' = event \ {s}
    /\ armed' = armed \union {s}
    /\ \E n \in Chosen(s) :
          /\ callback' = [callback EXCEPT ![s] = IF n = nextPath[s] THEN 0 ELSE n]
          /\ nextPath' = [nextPath EXCEPT ![s] = IF n = 0 THEN 0 ELSE @]
          /\ link' = [link EXCEPT ![s] = IF nextPath[s] \notin {0, n} /\ @ # NoLink THEN Freed ELSE @]
    /\ UNCHANGED <<nodes, created, joining, table, path, fetched, work, environment, exposed>>

\* rtable_disconnect of a structure that has been freed before.
DoubleFree(s) ==
    /\ MayHandle(s)
    /\ link[s] = Freed
    /\ \E n \in Chosen(s) : nextPath[s] \notin {0, n}
    /\ End(s)
    /\ UNCHANGED crashes

\* zoo_get of the successor's address; if its node has gone the callback
\* returns, and leaves the path and the freed structure of the old successor.
GetAddress(s) ==
    /\ callback[s] # 0
    /\ ~fetched[s]
    /\ IF callback[s] \in Numbers
         THEN fetched' = [fetched EXCEPT ![s] = TRUE] /\ UNCHANGED callback
         ELSE callback' = [callback EXCEPT ![s] = 0] /\ UNCHANGED fetched
    /\ UNCHANGED <<zookeeper, joining, table, successor, work, environment, exposed>>

\* rtable_connect, which is NULL if the server is dead; the path is set anyway.
Connect(s) ==
    /\ fetched[s]
    /\ link' = [link EXCEPT ![s] =
          IF callback[s] \in Numbers /\ Alive(Owner(callback[s])) THEN Owner(callback[s]) ELSE NoLink]
    /\ nextPath' = [nextPath EXCEPT ![s] = callback[s]]
    /\ callback' = [callback EXCEPT ![s] = 0]
    /\ fetched' = [fetched EXCEPT ![s] = FALSE]
    /\ UNCHANGED <<zookeeper, joining, table, path, work, environment, exposed>>

Watch(s) == HandleEvent(s) \/ DoubleFree(s) \/ GetAddress(s) \/ Connect(s)

-----------------------------------------------------------------------------
(* invoke: PUT and DEL, and their forwarding.                              *)

\* A client sends a write to the head of the chain.
Send(s) ==
    /\ writes < MaxWrites /\ writes + crashes < MaxEvents
    /\ nodes[s] # 0 /\ nodes[s] = Least(Numbers)
    /\ Alive(s)
    /\ writes' = writes + 1
    /\ \E k \in Keys, v \in Values \union {Absent} :
          requests' = [requests EXCEPT ![s] = @ \union
                          {[id |-> writes', key |-> k, value |-> v, from |-> Client]}]
    /\ UNCHANGED <<zookeeper, joining, table, successor, handling, job, crashes, exposed>>

Write(s, r, at) ==
    job' = [job EXCEPT ![s] = @ \union {[id |-> r.id, key |-> r.key, value |-> r.value,
                                           from |-> r.from, to |-> Client, at |-> at]}]

\* Mutant: the table is changed without enter_write.
ApplyUnlocked(s) ==
    /\ phase[s] = "up"
    /\ \E r \in requests[s] :
          /\ requests' = [requests EXCEPT ![s] = @ \ {r}]
          /\ table' = [table EXCEPT ![s][r.key] = r.value]
          /\ Write(s, r, IF nextPath[s] # 0 THEN "forward" ELSE "answer")
    /\ exposed' = (exposed \/ ~Settled)
    /\ UNCHANGED <<zookeeper, joining, successor, handling, environment>>

\* enter_write, table_put or table_remove, and the test for a next server.
Apply(s) ==
    /\ phase[s] = "up"
    /\ job[s] = {}
    /\ \E r \in requests[s] :
          /\ requests' = [requests EXCEPT ![s] = @ \ {r}]
          /\ table' = [table EXCEPT ![s][r.key] = r.value]
          /\ Write(s, r, IF nextPath[s] # 0 THEN "forward" ELSE "answer")
    /\ exposed' = (exposed \/ ~Settled)
    /\ UNCHANGED <<zookeeper, joining, successor, handling, environment>>

At(s, l) == \E j \in job[s] : j.at = l
MoveTo(s, l) == job' = [job EXCEPT ![s] = {[j EXCEPT !.at = l] : j \in @}]

\* Mutant: a removal is not forwarded.
ForwardPutOnly(s) ==
    /\ At(s, "forward")
    /\ link[s] \in Servers
    /\ Alive(link[s])
    /\ IF \E j \in job[s] : j.value = Absent
         THEN MoveTo(s, "answer") /\ UNCHANGED requests
         ELSE \E j \in job[s] :
                 /\ requests' = [requests EXCEPT ![link[s]] = @ \union
                        {[id |-> j.id, key |-> j.key, value |-> j.value, from |-> s]}]
                 /\ job' = [job EXCEPT ![s] = {[j EXCEPT !.at = "wait", !.to = link[s]]}]
    /\ UNCHANGED <<zookeeper, joining, table, successor, handling, environment, exposed>>

\* Mutant: the write is answered without the answer of the next server.
ForwardUnawaited(s) ==
    /\ At(s, "forward")
    /\ link[s] \in Servers
    /\ Alive(link[s])
    /\ \E j \in job[s] :
          requests' = [requests EXCEPT ![link[s]] = @ \union
                 {[id |-> j.id, key |-> j.key, value |-> j.value, from |-> s]}]
    /\ MoveTo(s, "answer")
    /\ UNCHANGED <<zookeeper, joining, table, successor, handling, environment, exposed>>

\* rtable_put or rtable_del: the request is sent to the successor.
Forward(s) ==
    /\ At(s, "forward")
    /\ link[s] \in Servers
    /\ Alive(link[s])
    /\ \E j \in job[s] :
          /\ requests' = [requests EXCEPT ![link[s]] = @ \union
                 {[id |-> j.id, key |-> j.key, value |-> j.value, from |-> s]}]
          /\ job' = [job EXCEPT ![s] = {[j EXCEPT !.at = "wait", !.to = link[s]]}]
    /\ UNCHANGED <<zookeeper, joining, table, successor, handling, environment, exposed>>

\* Mutant: the end of the successor is not noticed while its answer is awaited.
ForwardFailsUnsent(s) ==
    /\ At(s, "forward")
    /\ ~(link[s] \in Servers /\ Alive(link[s]))
    /\ ~(link[s] = NoLink /\ \E j \in job[s] : j.value = Absent)
    /\ MoveTo(s, "answer")
    /\ UNCHANGED <<zookeeper, joining, table, successor, handling, requests, environment, exposed>>

\* rtable_put returns -1 if there is no connection, or it is broken, or the
\* structure has been freed.  invoke ignores it.
ForwardFails(s) ==
    /\ \/ At(s, "forward") /\ ~(link[s] \in Servers /\ Alive(link[s]))
       \/ \E j \in job[s] : j.at = "wait" /\ ~Alive(j.to)
    /\ ~(At(s, "forward") /\ link[s] = NoLink /\ \E j \in job[s] : j.value = Absent)
    /\ MoveTo(s, "answer")
    /\ UNCHANGED <<zookeeper, joining, table, successor, handling, requests, environment, exposed>>

\* rtable_del dereferences its rtable without the test that rtable_put makes,
\* and both of them use one that has been freed.
ForwardDies(s) ==
    /\ \/ At(s, "forward") /\ link[s] = NoLink /\ \E j \in job[s] : j.value = Absent
       \/ link[s] = Freed /\ (At(s, "forward") \/ At(s, "wait"))
    /\ End(s)
    /\ UNCHANGED crashes

\* exit_write; the answer releases the predecessor, if it still waits.
Answer(s) ==
    /\ At(s, "answer")
    /\ \E j \in job[s] :
          job' = [u \in Servers |->
                    IF u = s THEN {}
                    ELSE IF u = j.from THEN {[i EXCEPT !.at = "answer"] : i \in job[u]}
                    ELSE job[u]]
    /\ UNCHANGED <<zookeeper, joining, table, successor, handling, requests, environment, exposed>>

Serve(s) == Apply(s) \/ Forward(s) \/ ForwardFails(s) \/ ForwardDies(s) \/ Answer(s)

-----------------------------------------------------------------------------
\* A server is killed.
Crash(s) ==
    /\ crashes < MaxCrashes /\ writes + crashes < MaxEvents
    /\ Alive(s)
    /\ crashes' = crashes + 1
    /\ End(s)

\* The session of a dead server expires and its ephemeral node goes.
Expire(s) ==
    /\ phase[s] = "dead"
    /\ nodes[s] # 0
    /\ nodes' = [nodes EXCEPT ![s] = 0]
    /\ FireWatches
    /\ UNCHANGED <<created, joining, table, successor, handling, work, environment, exposed>>

Idle == Settled /\ \A s \in Servers : requests[s] = {} /\ job[s] = {}

Done == Idle /\ UNCHANGED vars

Step(s) == Join(s) \/ Watch(s) \/ Serve(s) \/ Expire(s)

Next == \/ \E s \in Servers : Start(s) \/ Send(s) \/ Crash(s) \/ Step(s)
        \/ Done

Spec == Init /\ [][Next]_vars

\* The threads of a server, and ZooKeeper, do run.  Servers need not start or
\* crash, and clients need not send.
Fairness == \A s \in Servers : /\ WF_vars(Join(s))
                               /\ WF_vars(Watch(s))
                               /\ WF_vars(Serve(s))
                               /\ WF_vars(Expire(s))

FairSpec == Spec /\ Fairness

-----------------------------------------------------------------------------
Writes == [id : 1..MaxWrites, key : Keys, value : Values \union {Absent},
           from : Servers \union {Client}]
Jobs == [id : 1..MaxWrites, key : Keys, value : Values \union {Absent},
         from : Servers \union {Client}, to : Servers \union {Client},
         at : {"forward", "wait", "answer"}]

TypeOK ==
    /\ nodes \in [Servers -> 0..created]
    /\ created \in 0..Cardinality(Servers)
    /\ armed \subseteq Servers /\ event \subseteq Servers
    /\ phase \in [Servers -> Phases]
    /\ copy \in [Servers -> SUBSET (Keys \X Values)]
    /\ source \in [Servers -> 0..created]
    /\ table \in [Servers -> [Keys -> Values \union {Absent}]]
    /\ path \in [Servers -> 0..created]
    /\ nextPath \in [Servers -> 0..created]
    /\ link \in [Servers -> Servers \union {NoLink, Freed}]
    /\ callback \in [Servers -> 0..created]
    /\ fetched \in [Servers -> BOOLEAN]
    /\ requests \in [Servers -> SUBSET Writes]
    /\ job \in [Servers -> SUBSET Jobs]
    /\ \A s \in Servers : Cardinality(job[s]) <= 1
    /\ writes \in 0..MaxWrites
    /\ crashes \in 0..MaxCrashes
    /\ exposed \in BOOLEAN

NextNode(s) == LET later == {n \in Numbers : n > nodes[s]}
               IN IF later = {} THEN 0 ELSE Least(later)

\* Once every callback has run, each server is linked to the next one of the
\* chain, and the last one to none, whatever servers have joined or died.
LinkedInOrder ==
    Settled => \A s \in Servers : phase[s] = "up" =>
                  /\ nextPath[s] = NextNode(s)
                  /\ nextPath[s] # 0 => link[s] = Owner(nextPath[s])

\* While no server has died, and no write has run before the servers were
\* linked, a table differs from the next one of the chain only in the key that
\* is being written, until the next server has answered.
ReplicaBehindByOneWrite ==
    (~exposed /\ \A s \in Servers : phase[s] # "dead") =>
        \A s \in Servers : phase[s] = "up" /\ nextPath[s] # 0 =>
            \A k \in Keys : table[s][k] # table[Owner(nextPath[s])][k] =>
                \E j \in job[s] : j.key = k /\ j.at \in {"forward", "wait"}

\* rtable_put and rtable_del return when the next server has answered: a write
\* is answered, to the client or to the server before, only when every later
\* server has stored it, as long as no server has died, and no write has run
\* before the servers were linked.
AnsweredByAll ==
    (~exposed /\ \A s \in Servers : phase[s] # "dead") =>
        \A s, u \in Servers : nodes[u] > nodes[s] =>
            \A j \in job[s] : j.at = "answer" => table[u][j.key] = j.value

\* dup_table_from_server: the copied data is what is put into resources.table,
\* or at least what is put is the table that the tail has by then.
CopyIsPut ==
    [][\A s \in Servers : phase[s] = "dup_size" /\ phase'[s] = "create" /\ ~TailDead(s) =>
          Entries(table'[s]) \in {copy[s]} \union {Entries(table[u]) : u \in Tail(s)}]_vars

\* No server takes itself or an earlier one for its next server, and none waits
\* for the answer of one, with its write lock held: the waiting cannot be a circle.
ForwardsDown ==
    \A s \in Servers :
        /\ link[s] \in Servers /\ Alive(link[s]) => nodes[link[s]] > nodes[s]
        /\ \A j \in job[s] : j.at = "wait" /\ Alive(j.to) => nodes[j.to] > nodes[s]

\* A write that a server has received leaves it again: no servers wait for each
\* other, although each holds its write lock while it waits.
EveryWriteFinishes ==
    \A s \in Servers : requests[s] \union job[s] # {} ~> requests[s] \union job[s] = {}
=============================================================================
