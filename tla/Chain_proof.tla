---------------------------- MODULE Chain_proof ----------------------------
(***************************************************************************)
(* Proofs about Chain, for any set of servers, any writes and any crashes. *)
(* When a server records its path before its callback runs, links and      *)
(* waits lead from a server to a later one only, so that the servers that  *)
(* hold their write lock and wait for each other never form a circle; if   *)
(* ZooKeeper lists its children in order too, the links follow the chain.  *)
(* The types need neither: they are proved at the end.                     *)
(***************************************************************************)
EXTENDS Chain, WellFoundedInduction, FiniteSetTheorems, TLAPS

\* The types the argument needs.
NumbersOK == /\ nodes \in [Servers -> Nat]
             /\ path \in [Servers -> Nat]
             /\ callback \in [Servers -> Nat]
             /\ fetched \in [Servers -> BOOLEAN]
             /\ created \in Nat
             /\ phase \in [Servers -> Phases]
             /\ link \in [Servers -> Servers \union {NoLink, Freed}]

WorkOK == /\ requests \in [Servers -> SUBSET Writes]
          /\ job \in [Servers -> SUBSET Jobs]
          /\ writes \in 0..MaxWrites

Unregistered == {"down", "list", "locate", "dup_table", "dup_size", "create"}

\* A server without a node knows none, and what a server knows of its own node
\* is its number.
PathInv == \A s \in Servers :
    /\ phase[s] \in Unregistered => nodes[s] = 0 /\ path[s] = 0
    /\ Alive(s) /\ path[s] # 0 => path[s] = nodes[s]

\* The callback runs in a server that knows its path, and links it to a later
\* node; before that the server has no link, and waits for none.
CallbackInv == \A s \in Servers :
    /\ fetched[s] => callback[s] # 0
    /\ callback[s] # 0 => Alive(s) /\ path[s] # 0 /\ callback[s] > path[s]
    /\ path[s] = 0 => link[s] = NoLink /\ \A j \in job[s] : j.at # "wait"

\* The servers that s is linked to, and that it waits for.
Targets(s) == ({link[s]} \intersect Servers) \union {j.to : j \in {i \in job[s] : i.at = "wait"}}

\* They had a node, and while they are alive it is a later one.
TargetsInv == \A s \in Servers : \A u \in Targets(s) :
    /\ u \in Servers
    /\ phase[u] \notin Unregistered
    /\ Alive(u) => nodes[u] > nodes[s]

ChainInv == NumbersOK /\ WorkOK /\ PathInv /\ CallbackInv /\ TargetsInv

-----------------------------------------------------------------------------
LEMMA Initially == Init => ChainInv
<1> SUFFICES ASSUME Init PROVE ChainInv
    OBVIOUS
<1>1. NumbersOK
    BY DEF Init, NumbersOK, Phases
<1>2. WorkOK
    BY ChainAssumption DEF Init, WorkOK, ChainAssumption
<1>3. PathInv
    BY DEF Init, PathInv
<1>4. CallbackInv
    BY DEF Init, CallbackInv
<1>5. TargetsInv
    BY ChainAssumption DEF Init, TargetsInv, Targets, ChainAssumption
<1> QED
    BY <1>1, <1>2, <1>3, <1>4, <1>5 DEF ChainInv

\* Links and waits lead down.
LEMMA Down == ChainInv => ForwardsDown
BY DEF ChainInv, TargetsInv, Targets, ForwardsDown

\* The process of a server ends, for whatever reason.
LEMMA EndStep == ASSUME ChainInv, NEW s \in Servers, End(s) PROVE ChainInv'
<1> USE DEF ChainInv, End
<1>1. NumbersOK'
    BY DEF NumbersOK, Phases
<1>2. WorkOK'
    BY DEF WorkOK
<1>3. PathInv'
    BY DEF NumbersOK, PathInv, Alive, Unregistered
<1>4. CallbackInv'
    BY DEF NumbersOK, WorkOK, CallbackInv, Alive
<1>5. TargetsInv'
  <2> SUFFICES ASSUME NEW u \in Servers, NEW v \in Targets(u)'
               PROVE  (v \in Servers /\ phase[v] \notin Unregistered /\ (Alive(v) => nodes[v] > nodes[u]))'
      BY DEF TargetsInv
  <2>1. u # s
      BY ChainAssumption DEF Targets, NumbersOK, WorkOK, ChainAssumption
  <2>2. v \in Targets(u)
      BY <2>1 DEF Targets, NumbersOK, WorkOK
  <2> QED
      BY <2>2 DEF TargetsInv, NumbersOK, Alive, Unregistered
<1> QED
    BY <1>1, <1>2, <1>3, <1>4, <1>5

\* A server that has no node yet lists the chain and copies a table.
Preparing(s) ==
    /\ UNCHANGED <<nodes, created, path, link, callback, fetched, requests, job, writes>>
    /\ phase[s] \in Unregistered
    /\ \E l \in Unregistered : phase' = [phase EXCEPT ![s] = l]

LEMMA PreparingActions ==
    ASSUME NEW s \in Servers,
           Start(s) \/ ListChildren(s) \/ LocateTail(s) \/ DupTable(s) \/ DupSize(s) \/ DupFails(s)
    PROVE  Preparing(s)
BY DEF Preparing, Unregistered, Start, ListChildren, LocateTail, DupTable, DupSize, DupFails,
       zookeeper, successor, handling, work, environment

LEMMA PreparingStep == ASSUME ChainInv, NEW s \in Servers, Preparing(s) PROVE ChainInv'
<1> USE DEF ChainInv, Preparing
<1>1. NumbersOK'
    BY DEF NumbersOK, Phases, Unregistered
<1>2. WorkOK'
    BY DEF WorkOK
<1>3. PathInv'
    BY DEF NumbersOK, PathInv, Alive, Unregistered
<1>4. CallbackInv'
    BY DEF NumbersOK, CallbackInv, PathInv, Alive, Unregistered
<1>5. TargetsInv'
  <2> SUFFICES ASSUME NEW u \in Servers, NEW v \in Targets(u)
               PROVE  (v \in Servers /\ phase[v] \notin Unregistered /\ (Alive(v) => nodes[v] > nodes[u]))'
      BY DEF TargetsInv, Targets
  <2> QED
      BY DEF TargetsInv, NumbersOK, Alive, Unregistered
<1> QED
    BY <1>1, <1>2, <1>3, <1>4, <1>5

LEMMA CreateStep == ASSUME ChainInv, NEW s \in Servers, CreateNode(s) PROVE ChainInv'
<1> USE DEF ChainInv, CreateNode, successor, handling, work, environment
<1>1. NumbersOK'
    BY DEF NumbersOK, Phases
<1>2. WorkOK'
    BY DEF WorkOK
<1>3. PathInv'
    BY DEF NumbersOK, PathInv, Alive, Unregistered
<1>4. CallbackInv'
    BY DEF NumbersOK, CallbackInv, Alive
<1>5. TargetsInv'
  <2> SUFFICES ASSUME NEW u \in Servers, NEW v \in Targets(u)
               PROVE  (v \in Servers /\ phase[v] \notin Unregistered /\ (Alive(v) => nodes[v] > nodes[u]))'
      BY DEF TargetsInv, Targets
  <2>1. phase[s] \in Unregistered /\ path[s] = 0
      BY DEF PathInv, Unregistered
  <2>2. Targets(s) = {}
      BY <2>1, ChainAssumption DEF CallbackInv, Targets, ChainAssumption
  <2>3. u # s /\ v # s
      BY <2>1, <2>2 DEF TargetsInv
  <2> QED
      BY <2>3 DEF TargetsInv, NumbersOK, Alive, Unregistered
<1> QED
    BY <1>1, <1>2, <1>3, <1>4, <1>5

LEMMA RecordStep == ASSUME ChainInv, NEW s \in Servers, RecordPath(s) PROVE ChainInv'
<1> USE DEF ChainInv, RecordPath, zookeeper, handling, work, environment
<1>1. NumbersOK'
    BY DEF NumbersOK, Phases
<1>2. WorkOK'
    BY DEF WorkOK
<1>3. PathInv'
    BY DEF NumbersOK, PathInv, Alive, Unregistered
<1>4. CallbackInv'
    BY DEF NumbersOK, PathInv, CallbackInv, Alive
<1>5. TargetsInv'
  <2> SUFFICES ASSUME NEW u \in Servers, NEW v \in Targets(u)
               PROVE  (v \in Servers /\ phase[v] \notin Unregistered /\ (Alive(v) => nodes[v] > nodes[u]))'
      BY DEF TargetsInv, Targets
  <2> QED
      BY DEF TargetsInv, NumbersOK, Alive, Unregistered
<1> QED
    BY <1>1, <1>2, <1>3, <1>4, <1>5

-----------------------------------------------------------------------------
\* What one step of the callback does: it sets, or clears, the node to link to,
\* and connects to it in the end.
LEMMA HandleStep ==
    ASSUME PathRecorded, ChainInv, NEW s \in Servers, HandleEvent(s)
    PROVE  ChainInv'
<1> USE DEF ChainInv
<1>1. /\ path[s] # 0 /\ Alive(s)
      /\ UNCHANGED <<nodes, created, phase, path, fetched, requests, job, writes>>
    BY DEF HandleEvent, MayHandle, joining, work, environment
<1>2. PICK n \in Chosen(s) :
         /\ callback' = [callback EXCEPT ![s] = IF n = nextPath[s] THEN 0 ELSE n]
         /\ link' = [link EXCEPT ![s] = IF nextPath[s] \notin {0, n} /\ @ # NoLink THEN Freed ELSE @]
    BY DEF HandleEvent
<1>3. n \in Nat /\ (n # 0 => n > path[s])
    BY DEF Chosen, Later, Numbers, NumbersOK
<1>4. NumbersOK'
    BY <1>1, <1>2, <1>3 DEF NumbersOK
<1>5. WorkOK'
    BY <1>1 DEF WorkOK
<1>6. PathInv'
    BY <1>1 DEF PathInv, Alive
<1>7. CallbackInv'
  <2>1. ~fetched[s]
      BY DEF HandleEvent, MayHandle, CallbackInv
  <2> QED
      BY <2>1, <1>1, <1>2, <1>3 DEF NumbersOK, CallbackInv, Alive
<1>8. TargetsInv'
  <2>1. \A u \in Servers : Targets(u)' \subseteq Targets(u)
      BY <1>1, <1>2, ChainAssumption DEF Targets, NumbersOK, ChainAssumption
  <2> QED
      BY <2>1, <1>1 DEF TargetsInv, Alive
<1> QED
    BY <1>4, <1>5, <1>6, <1>7, <1>8

LEMMA GetAddressStep == ASSUME ChainInv, NEW s \in Servers, GetAddress(s) PROVE ChainInv'
<1> USE DEF ChainInv, GetAddress, zookeeper, joining, successor, work, environment
<1>1. NumbersOK'
  <2>1. callback' \in [Servers -> Nat]
      BY DEF NumbersOK
  <2>2. fetched' \in [Servers -> BOOLEAN]
    <3>1. CASE fetched' = [fetched EXCEPT ![s] = TRUE]
        BY <3>1 DEF NumbersOK
    <3>2. CASE fetched' = fetched
        BY <3>2 DEF NumbersOK
    <3> QED
        BY <3>1, <3>2
  <2> QED
      BY <2>1, <2>2 DEF NumbersOK
<1>2. WorkOK'
    BY DEF WorkOK
<1>3. PathInv'
    BY DEF PathInv, Alive
<1>4. CallbackInv'
    BY DEF NumbersOK, CallbackInv, Alive
<1>5. TargetsInv'
    BY DEF TargetsInv, Targets, Alive
<1> QED
    BY <1>1, <1>2, <1>3, <1>4, <1>5

LEMMA ConnectStep ==
    ASSUME ChainInv, NEW s \in Servers, Connect(s)
    PROVE  ChainInv'
<1> USE DEF ChainInv
<1>1. /\ callback[s] # 0 /\ Alive(s) /\ path[s] # 0 /\ callback[s] > nodes[s]
      /\ UNCHANGED <<nodes, created, phase, path, requests, job, writes>>
      /\ callback' = [callback EXCEPT ![s] = 0]
      /\ fetched' = [fetched EXCEPT ![s] = FALSE]
    BY DEF Connect, CallbackInv, PathInv, zookeeper, joining, work, environment
<1>2. PICK l : link' = [link EXCEPT ![s] = l]
                /\ (\/ l = NoLink
                    \/ l \in Servers /\ nodes[l] = callback[s])
  <2>1. callback[s] \in Numbers => Owner(callback[s]) \in Servers /\ nodes[Owner(callback[s])] = callback[s]
      BY DEF Numbers, Owner
  <2> QED
      BY <2>1 DEF Connect
<1>3. NumbersOK'
    BY <1>1, <1>2 DEF NumbersOK
<1>4. WorkOK'
    BY <1>1 DEF WorkOK
<1>5. PathInv'
    BY <1>1 DEF PathInv, Alive
<1>6. CallbackInv'
    BY <1>1, <1>2 DEF NumbersOK, CallbackInv, Alive
<1>7. TargetsInv'
  <2>1. ASSUME NEW u \in Servers, NEW v \in Targets(u)', v \notin Targets(u)
        PROVE  u = s /\ v \in Servers /\ nodes[v] = callback[s]
      BY <2>1, <1>1, <1>2, ChainAssumption DEF Targets, NumbersOK, ChainAssumption
  <2>2. \A v \in Servers : nodes[v] = callback[s] => phase[v] \notin Unregistered
      BY <1>1 DEF PathInv
  <2> QED
      BY <2>1, <2>2, <1>1 DEF TargetsInv, Alive
<1> QED
    BY <1>3, <1>4, <1>5, <1>6, <1>7

-----------------------------------------------------------------------------
\* A step of a write, in server s: only requests and jobs change, and a job
\* waits for the server it has been sent to.
Working(s) ==
    /\ UNCHANGED <<nodes, created, phase, path, callback, fetched, link>>
    /\ WorkOK'
    /\ \A u \in Servers : \A j \in job'[u] : j.at = "wait" =>
          \/ j \in job[u]
          \/ u = s /\ j.to = link[s] /\ link[s] \in Servers

LEMMA WorkingStep == ASSUME ChainInv, NEW s \in Servers, Working(s) PROVE ChainInv'
<1> USE DEF ChainInv, Working
<1>1. NumbersOK'
    BY DEF NumbersOK
<1>2. PathInv'
    BY DEF PathInv, Alive
<1>3. CallbackInv'
    BY ChainAssumption DEF CallbackInv, Alive, ChainAssumption
<1>4. TargetsInv'
  <2>1. \A u \in Servers : Targets(u)' \subseteq Targets(u)
      BY DEF Targets
  <2> QED
      BY <2>1 DEF TargetsInv, Alive
<1> QED
    BY <1>1, <1>2, <1>3, <1>4

LEMMA SendWorks == ASSUME ChainInv, NEW s \in Servers, Send(s) PROVE Working(s)
<1> USE DEF ChainInv, Send, zookeeper, joining, successor, handling
<1>1. PICK k \in Keys, v \in Values \union {Absent} :
         requests' = [requests EXCEPT ![s] = @ \union
                         {[id |-> writes', key |-> k, value |-> v, from |-> Client]}]
    OBVIOUS
<1>2. writes' \in 1..MaxWrites
    BY ChainAssumption DEF WorkOK, ChainAssumption
<1>3. WorkOK'
    BY <1>1, <1>2 DEF WorkOK, Writes
<1> QED
    BY <1>3 DEF Working

LEMMA ApplyWorks == ASSUME ChainInv, NEW s \in Servers, Apply(s) PROVE Working(s)
<1> USE DEF ChainInv
<1>1. PICK r \in requests[s] :
         /\ requests' = [requests EXCEPT ![s] = @ \ {r}]
         /\ Write(s, r, IF nextPath[s] # 0 THEN "forward" ELSE "answer")
    BY DEF Apply
<1>2. UNCHANGED <<nodes, created, phase, path, callback, fetched, link, writes>>
    BY DEF Apply, zookeeper, joining, successor, handling, environment
<1>3. r \in Writes
    BY DEF WorkOK
<1>4. PICK at \in {"forward", "answer"} :
         job' = [job EXCEPT ![s] = @ \union {[id |-> r.id, key |-> r.key, value |-> r.value,
                                               from |-> r.from, to |-> Client, at |-> at]}]
    BY <1>1 DEF Write
<1>5. [id |-> r.id, key |-> r.key, value |-> r.value, from |-> r.from, to |-> Client, at |-> at] \in Jobs
    BY <1>3 DEF Writes, Jobs
<1>6. WorkOK'
    BY <1>1, <1>2, <1>4, <1>5 DEF WorkOK
<1>7. \A u \in Servers : \A j \in job'[u] : j.at = "wait" => j \in job[u]
    BY <1>4 DEF WorkOK
<1> QED
    BY <1>2, <1>6, <1>7 DEF Working

LEMMA ForwardWorks == ASSUME ChainInv, NEW s \in Servers, Forward(s) PROVE Working(s)
<1> USE DEF ChainInv
<1>1. /\ link[s] \in Servers
      /\ UNCHANGED <<nodes, created, phase, path, callback, fetched, link, writes>>
    BY DEF Forward, zookeeper, joining, successor, handling, environment
<1>2. PICK j \in job[s] :
         /\ requests' = [requests EXCEPT ![link[s]] = @ \union
                {[id |-> j.id, key |-> j.key, value |-> j.value, from |-> s]}]
         /\ job' = [job EXCEPT ![s] = {[j EXCEPT !.at = "wait", !.to = link[s]]}]
    BY DEF Forward
<1>3. j \in Jobs
    BY DEF WorkOK
<1>4. [id |-> j.id, key |-> j.key, value |-> j.value, from |-> s] \in Writes
    BY <1>3 DEF Writes, Jobs
<1>5. /\ [j EXCEPT !.at = "wait", !.to = link[s]] \in Jobs
      /\ [j EXCEPT !.at = "wait", !.to = link[s]].to = link[s]
    BY <1>1, <1>3 DEF Jobs
<1>6. WorkOK'
    BY <1>1, <1>2, <1>4, <1>5 DEF WorkOK
<1>7. \A u \in Servers : \A i \in job'[u] : i \in job[u] \/ (u = s /\ i.to = link[s])
    BY <1>2, <1>5 DEF WorkOK
<1> QED
    BY <1>1, <1>6, <1>7 DEF Working

\* The job of a server moves on to its answer.
LEMMA Answering ==
    ASSUME WorkOK, NEW u \in Servers
    PROVE  \A i \in {[j EXCEPT !.at = "answer"] : j \in job[u]} : i \in Jobs /\ i.at = "answer"
BY DEF WorkOK, Jobs

LEMMA ForwardFailsWorks == ASSUME ChainInv, NEW s \in Servers, ForwardFails(s) PROVE Working(s)
<1> USE DEF ChainInv
<1>1. /\ job' = [job EXCEPT ![s] = {[j EXCEPT !.at = "answer"] : j \in @}]
      /\ UNCHANGED <<nodes, created, phase, path, callback, fetched, link, requests, writes>>
    BY DEF ForwardFails, MoveTo, zookeeper, joining, successor, handling, environment
<1>2. WorkOK'
    BY <1>1, Answering DEF WorkOK
<1>3. \A u \in Servers : \A j \in job'[u] : j.at = "wait" => j \in job[u]
    BY <1>1, Answering DEF WorkOK
<1> QED
    BY <1>1, <1>2, <1>3 DEF Working

LEMMA AnswerWorks == ASSUME ChainInv, NEW s \in Servers, Answer(s) PROVE Working(s)
<1> USE DEF ChainInv
<1>1. UNCHANGED <<nodes, created, phase, path, callback, fetched, link, requests, writes>>
    BY DEF Answer, zookeeper, joining, successor, handling, environment
<1>2. PICK j \in job[s] :
         job' = [u \in Servers |->
                    IF u = s THEN {}
                    ELSE IF u = j.from THEN {[i EXCEPT !.at = "answer"] : i \in job[u]}
                    ELSE job[u]]
    BY DEF Answer
<1>3. WorkOK'
    BY <1>1, <1>2, Answering DEF WorkOK
<1>4. \A u \in Servers : \A i \in job'[u] : i.at = "wait" => i \in job[u]
    BY <1>2, Answering DEF WorkOK
<1> QED
    BY <1>1, <1>3, <1>4 DEF Working

LEMMA ExpireStep == ASSUME ChainInv, NEW s \in Servers, Expire(s) PROVE ChainInv'
<1> USE DEF ChainInv, Expire, joining, successor, handling, work, environment
<1>1. NumbersOK'
    BY DEF NumbersOK
<1>2. WorkOK'
    BY DEF WorkOK
<1>3. PathInv'
    BY DEF NumbersOK, PathInv, Alive, Unregistered
<1>4. CallbackInv'
    BY DEF CallbackInv, Alive
<1>5. TargetsInv'
  <2> SUFFICES ASSUME NEW u \in Servers, NEW v \in Targets(u)
               PROVE  (v \in Servers /\ phase[v] \notin Unregistered /\ (Alive(v) => nodes[v] > nodes[u]))'
      BY DEF TargetsInv, Targets
  <2> QED
      BY DEF TargetsInv, NumbersOK, Alive
<1> QED
    BY <1>1, <1>2, <1>3, <1>4, <1>5

-----------------------------------------------------------------------------
\* Every step, when main has recorded its path before the callback runs.
LEMMA Inductive == ASSUME PathRecorded PROVE ChainInv /\ [Next]_vars => ChainInv'
<1> SUFFICES ASSUME ChainInv, [Next]_vars PROVE ChainInv'
    OBVIOUS
<1>1. ASSUME NEW s \in Servers, Start(s) PROVE ChainInv'
    BY <1>1, PreparingActions, PreparingStep
<1>2. ASSUME NEW s \in Servers, Send(s) PROVE ChainInv'
    BY <1>2, SendWorks, WorkingStep
<1>3. ASSUME NEW s \in Servers, Crash(s) PROVE ChainInv'
    BY <1>3, EndStep DEF Crash
<1>4. ASSUME NEW s \in Servers, Join(s) PROVE ChainInv'
  <2>1. CASE TailGone(s) \/ DupOverrun(s)
      BY <2>1, EndStep DEF TailGone, DupOverrun
  <2>2. CASE CreateNode(s)
      BY <2>2, CreateStep
  <2>3. CASE RecordPath(s)
      BY <2>3, RecordStep
  <2> QED
      BY <1>4, <2>1, <2>2, <2>3, PreparingActions, PreparingStep DEF Join
<1>5. ASSUME NEW s \in Servers, Watch(s) PROVE ChainInv'
  <2>1. CASE HandleEvent(s)
      BY <2>1, HandleStep
  <2>2. CASE DoubleFree(s)
      BY <2>2, EndStep DEF DoubleFree
  <2>3. CASE GetAddress(s)
      BY <2>3, GetAddressStep
  <2>4. CASE Connect(s)
      BY <2>4, ConnectStep
  <2> QED
      BY <1>5, <2>1, <2>2, <2>3, <2>4 DEF Watch
<1>6. ASSUME NEW s \in Servers, Serve(s) PROVE ChainInv'
  <2>1. CASE ForwardDies(s)
      BY <2>1, EndStep DEF ForwardDies
  <2>2. CASE Apply(s) \/ Forward(s) \/ ForwardFails(s) \/ Answer(s)
      BY <2>2, ApplyWorks, ForwardWorks, ForwardFailsWorks, AnswerWorks, WorkingStep
  <2> QED
      BY <1>6, <2>1, <2>2 DEF Serve
<1>7. ASSUME NEW s \in Servers, Expire(s) PROVE ChainInv'
    BY <1>7, ExpireStep
<1>8. CASE UNCHANGED vars
    BY <1>8 DEF vars, zookeeper, joining, successor, handling, work, environment,
       ChainInv, NumbersOK, WorkOK, PathInv, CallbackInv, TargetsInv, Targets, Alive
<1>9. CASE Done
    BY <1>8, <1>9 DEF Done
<1> QED
    BY <1>1, <1>2, <1>3, <1>4, <1>5, <1>6, <1>7, <1>8, <1>9 DEF Next, Step

\* Whatever servers join and die, when no callback runs before its server knows
\* its own path (table_server.c:144, server_callbacks.c:52): a link, and a wait
\* with the write lock held, lead to a later server, so that no circle of
\* servers waits for itself.
THEOREM WaitsLeadDown == ASSUME PathRecorded PROVE Spec => []ForwardsDown
<1>1. ChainInv /\ [Next]_vars => ChainInv'
    BY Inductive
<1>2. Spec => []ChainInv
    BY <1>1, Initially, PTL DEF Spec
<1> QED
    BY <1>2, Down, PTL

-----------------------------------------------------------------------------
(* The links follow the order of the chain.  The callback of a server      *)
(* either has a change of the chain to handle, or has set out from the     *)
(* chain as it is.                                                         *)

\* The numbers that servers have are different, and not greater than the last.
NumbersDiffer ==
    /\ nextPath \in [Servers -> Nat]
    /\ \A s \in Servers : nodes[s] <= created
    /\ \A s, u \in Servers : nodes[s] = nodes[u] /\ nodes[s] # 0 => s = u

\* A server has its watch set or an event to handle, once it has listed the
\* chain; an event it has until it knows its path.
Watched(s) ==
    /\ Alive(s) /\ phase[s] # "list" => s \in armed \union event
    /\ Alive(s) /\ nodes[s] # 0 /\ path[s] = 0 => s \in event
    /\ phase[s] = "record" => nodes[s] # 0 /\ path[s] = 0
    /\ phase[s] = "up" => nodes[s] # 0 /\ path[s] # 0

\* No node has come between s and node p, and p is the next one still.
Nearest(s, p) == /\ path[s] < p /\ p <= created
                 /\ \A u \in Servers : nodes[u] > path[s] => nodes[u] >= p
Follows(s, p) == IF p = 0 THEN \A u \in Servers : nodes[u] <= path[s]
                 ELSE \E u \in Servers : nodes[u] = p

Linked(s) ==
    /\ nextPath[s] # 0 => Alive(s) /\ path[s] # 0 /\ Nearest(s, nextPath[s])
    /\ callback[s] # 0 => Nearest(s, callback[s])
    /\ callback[s] # 0 /\ nextPath[s] # 0 => \A u \in Servers : nodes[u] # nextPath[s]
    /\ callback[s] = 0 /\ nextPath[s] # 0 =>
          \A u \in Servers : nodes[u] = nextPath[s] => link[s] = u \/ phase[u] = "dead"
    /\ phase[s] = "up" /\ s \notin event =>
          Follows(s, IF callback[s] = 0 THEN nextPath[s] ELSE callback[s])

LinkInv == /\ ChainInv /\ NumbersDiffer
           /\ \A s \in Servers : Watched(s) /\ Linked(s)

-----------------------------------------------------------------------------
\* A set of naturals has a least element.
LEMMA LeastIsLeast ==
    ASSUME NEW S \in SUBSET Nat, S # {}
    PROVE  Least(S) \in S /\ \A m \in S : Least(S) <= m
<1>1. PICK n \in S : \A m \in S : ~(<<m, n>> \in OpToRel(<, Nat))
    BY NatLessThanWellFounded, WFMin
<1>2. \A m \in S : n <= m
    <2> TAKE m \in S
    <2>1. <<m, n>> \in Nat \X Nat /\ ~(m < n)
        BY <1>1 DEF OpToRel
    <2> QED
        BY <2>1
<1> QED
    BY <1>2 DEF Least

\* The main thread or a connection of s goes on, and sets at most a watch.
Unlinking(s) ==
    /\ UNCHANGED <<nodes, created, event, path, nextPath, link, callback>>
    /\ armed \subseteq armed'
    /\ \/ UNCHANGED phase
       \/ /\ phase[s] \in Unregistered
          /\ \/ phase' = [phase EXCEPT ![s] = "list"]
             \/ \E l \in Unregistered \ {"down"} :
                    /\ phase[s] # "down"
                    /\ phase' = [phase EXCEPT ![s] = l]
                    /\ phase[s] = "list" => s \in armed'

LEMMA UnlinkingActions ==
    ASSUME NEW s \in Servers,
           \/ Start(s) \/ ListChildren(s) \/ LocateTail(s) \/ DupTable(s) \/ DupSize(s) \/ DupFails(s)
           \/ Send(s) \/ Apply(s) \/ Forward(s) \/ ForwardFails(s) \/ Answer(s)
    PROVE  Unlinking(s)
<1>1. CASE Start(s) \/ ListChildren(s) \/ LocateTail(s) \/ DupTable(s) \/ DupSize(s) \/ DupFails(s)
    BY <1>1 DEF Unlinking, Unregistered, Start, ListChildren, LocateTail, DupTable, DupSize, DupFails,
                zookeeper, successor, handling
<1>2. CASE Send(s) \/ Apply(s) \/ Forward(s) \/ ForwardFails(s) \/ Answer(s)
    BY <1>2 DEF Unlinking, Send, Apply, Forward, ForwardFails, Answer, zookeeper, joining, successor, handling
<1> QED
    BY <1>1, <1>2

LEMMA UnlinkingLinks ==
    ASSUME LinkInv, NEW s \in Servers, Unlinking(s), ChainInv'
    PROVE  LinkInv'
<1> USE DEF LinkInv, ChainInv, Unlinking
<1>1. NumbersDiffer'
    BY DEF NumbersDiffer
<1>2. \A u \in Servers : /\ phase[u] = "dead" => phase'[u] = "dead"
                         /\ Alive(u) => Alive(u)'
                         /\ phase'[u] = "up" => phase[u] = "up"
                         /\ phase'[u] = "record" => phase[u] = "record"
  <2> TAKE u \in Servers
  <2>1. CASE phase'[u] = phase[u]
      BY <2>1 DEF Alive
  <2>2. CASE phase'[u] # phase[u]
    <3>1. PICK l \in Unregistered \ {"down"} : phase' = [phase EXCEPT ![s] = l]
        BY <2>2 DEF Unregistered
    <3>2. u = s /\ phase'[u] = l /\ phase[s] \in Unregistered
        BY <2>2, <3>1 DEF NumbersOK
    <3> QED
        BY <3>1, <3>2 DEF Alive, Unregistered
  <2> QED
      BY <2>1, <2>2
<1>3. \A u \in Servers : Watched(u)'
  <2> TAKE u \in Servers
  <2>1. CASE phase'[u] = phase[u]
      BY <2>1 DEF Watched, Alive
  <2>2. CASE phase'[u] # phase[u]
    <3>1. u = s /\ phase[s] \in Unregistered /\ phase'[s] \in Unregistered /\ nodes[s] = 0
        BY <2>2 DEF NumbersOK, PathInv, Unregistered
    <3>2. phase'[s] = "list" \/ s \in armed' \union event'
        BY <2>2, <3>1 DEF NumbersOK, Watched, Alive, Unregistered
    <3> QED
        BY <3>1, <3>2 DEF Watched, Unregistered
  <2> QED
      BY <2>1, <2>2
<1>4. \A u \in Servers : Linked(u)'
    BY <1>2 DEF Linked, Nearest, Follows
<1> QED
    BY <1>1, <1>3, <1>4

LEMMA EndLinks == ASSUME LinkInv, NEW s \in Servers, End(s), ChainInv' PROVE LinkInv'
<1> USE DEF LinkInv, ChainInv, End
<1>1. NumbersDiffer'
    BY DEF NumbersDiffer
<1>2. ASSUME NEW u \in Servers PROVE Watched(u)' /\ Linked(u)'
  <2>1. CASE u = s
      BY <2>1 DEF Watched, Linked, NumbersOK, NumbersDiffer, Alive
  <2>2. CASE u # s
    <3>1. /\ phase'[u] = phase[u] /\ path'[u] = path[u] /\ nextPath'[u] = nextPath[u]
          /\ link'[u] = link[u] /\ callback'[u] = callback[u]
          /\ (u \in armed' <=> u \in armed) /\ (u \in event' <=> u \in event)
          /\ \A v \in Servers : phase[v] = "dead" => phase'[v] = "dead"
        BY <2>2 DEF NumbersOK, NumbersDiffer
    <3> QED
        BY <3>1 DEF Watched, Linked, Nearest, Follows, Alive
  <2> QED
      BY <2>1, <2>2
<1> QED
    BY <1>1, <1>2

LEMMA CreateLinks == ASSUME LinkInv, NEW s \in Servers, CreateNode(s), ChainInv' PROVE LinkInv'
<1> USE DEF LinkInv, ChainInv
<1>1. /\ phase[s] = "create" /\ created' = created + 1
      /\ nodes' = [nodes EXCEPT ![s] = created + 1]
      /\ event' = event \union armed
      /\ phase' = [phase EXCEPT ![s] = "record"]
      /\ UNCHANGED <<path, nextPath, link, callback>>
    BY DEF CreateNode, FireWatches, successor, handling
<1>2. /\ nodes[s] = 0 /\ path[s] = 0 /\ s \in event'
      /\ nodes \in [Servers -> Nat] /\ created \in Nat
    BY <1>1 DEF PathInv, NumbersOK, Unregistered, Watched, Alive
<1>3. NumbersDiffer'
    BY <1>1, <1>2 DEF NumbersDiffer, NumbersOK
<1>4. ASSUME NEW u \in Servers PROVE Watched(u)'
    BY <1>1, <1>2 DEF Watched, NumbersOK, Alive
<1>5. ASSUME NEW u \in Servers, NEW p \in Nat, Nearest(u, p) PROVE Nearest(u, p)'
    BY <1>1, <1>2, <1>5 DEF Nearest, NumbersOK
<1>6. ASSUME NEW u \in Servers PROVE Linked(u)'
  <2>1. phase'[u] = "up" => u \in event'
      BY <1>1, <1>2 DEF Watched, NumbersOK, Alive
  <2>2. nextPath[u] \in Nat /\ callback[u] \in Nat
      BY DEF NumbersDiffer, NumbersOK
  <2>3. nextPath[u] # 0 => nextPath[u] <= created
      BY DEF Linked, Nearest
  <2>4. Alive(u) => Alive(u)'
      BY <1>1 DEF Alive, NumbersOK
  <2>5. \A v \in Servers : /\ phase[v] = "dead" => phase'[v] = "dead"
                           /\ nodes'[v] = nextPath[u] /\ nextPath[u] # 0 => nodes[v] = nextPath[u]
      BY <1>1, <1>2, <2>2, <2>3 DEF NumbersOK
  <2> QED
      BY <1>1, <1>5, <2>1, <2>2, <2>4, <2>5 DEF Linked
<1> QED
    BY <1>3, <1>4, <1>6

LEMMA ExpireLinks == ASSUME LinkInv, NEW s \in Servers, Expire(s), ChainInv' PROVE LinkInv'
<1> USE DEF LinkInv, ChainInv
<1>1. /\ phase[s] = "dead"
      /\ nodes' = [nodes EXCEPT ![s] = 0]
      /\ event' = event \union armed
      /\ UNCHANGED <<created, phase, path, nextPath, link, callback>>
    BY DEF Expire, FireWatches, joining, successor, handling
<1>2. nodes \in [Servers -> Nat] /\ created \in Nat
    BY DEF NumbersOK
<1>3. NumbersDiffer'
    BY <1>1, <1>2 DEF NumbersDiffer
<1>4. ASSUME NEW u \in Servers PROVE Watched(u)'
    BY <1>1, <1>2 DEF Watched, Alive
<1>5. ASSUME NEW u \in Servers, NEW p \in Nat, Nearest(u, p) PROVE Nearest(u, p)'
    BY <1>1, <1>2, <1>5 DEF Nearest, NumbersOK
<1>6. ASSUME NEW u \in Servers PROVE Linked(u)'
  <2>1. phase'[u] = "up" => u \in event'
      BY <1>1, <1>2 DEF Watched, Alive
  <2>2. nextPath[u] \in Nat /\ callback[u] \in Nat
      BY DEF NumbersDiffer, NumbersOK
  <2>3. \A v \in Servers : nodes'[v] = nextPath[u] /\ nextPath[u] # 0 => nodes[v] = nextPath[u]
      BY <1>1, <1>2
  <2> QED
      BY <1>1, <1>5, <2>1, <2>2, <2>3 DEF Linked, Alive
<1> QED
    BY <1>3, <1>4, <1>6

LEMMA RecordLinks == ASSUME LinkInv, NEW s \in Servers, RecordPath(s), ChainInv' PROVE LinkInv'
<1> USE DEF LinkInv, ChainInv
<1>1. /\ phase[s] = "record"
      /\ path' = [path EXCEPT ![s] = nodes[s]]
      /\ phase' = [phase EXCEPT ![s] = "up"]
      /\ UNCHANGED <<nodes, created, armed, event, nextPath, link, callback>>
    BY DEF RecordPath, zookeeper, handling
<1>2. nodes[s] # 0 /\ path[s] = 0 /\ s \in event /\ callback[s] = 0 /\ nextPath[s] = 0
    BY <1>1 DEF Watched, Linked, CallbackInv, Alive
<1>3. NumbersDiffer'
    BY <1>1 DEF NumbersDiffer
<1>4. ASSUME NEW u \in Servers PROVE Watched(u)'
    BY <1>1, <1>2 DEF Watched, NumbersOK, Alive
<1>5. ASSUME NEW u \in Servers PROVE Linked(u)'
  <2>1. CASE path'[u] = path[u] /\ u # s
      BY <1>1, <2>1 DEF Linked, Nearest, Follows, NumbersOK, Alive
  <2>2. CASE u = s
      BY <1>1, <1>2, <2>2 DEF Linked, NumbersOK, Alive
  <2> QED
      BY <1>1, <2>1, <2>2 DEF NumbersOK
<1> QED
    BY <1>3, <1>4, <1>5

\* The callback takes the first of the nodes after its own.
LEMMA ChosenIs ==
    ASSUME SortedListing, LinkInv, NEW s \in Servers, NEW n \in Chosen(s)
    PROVE  /\ n \in Nat
           /\ n = 0 => \A u \in Servers : nodes[u] <= path[s]
           /\ n # 0 => /\ \E u \in Servers : nodes[u] = n
                       /\ Nearest(s, n)
<1> USE DEF LinkInv, ChainInv, NumbersOK
<1>1. \A u \in Servers : nodes[u] \in Nat /\ path[s] \in Nat /\ (nodes[u] > path[s] <=> nodes[u] \in Later(s))
    BY DEF Later, Numbers
<1>2. CASE Later(s) = {}
    BY <1>1, <1>2 DEF Chosen
<1>3. CASE Later(s) # {}
  <2>1. n \in Later(s) /\ \A m \in Later(s) : n <= m
      BY <1>3 DEF Chosen
  <2>2. PICK u \in Servers : nodes[u] = n /\ n > path[s] /\ n # 0
      BY <2>1 DEF Later, Numbers
  <2> QED
      BY <1>1, <2>1, <2>2 DEF Nearest, NumbersDiffer
<1> QED
    BY <1>2, <1>3

LEMMA HandleLinks ==
    ASSUME PathRecorded, SortedListing, LinkInv, NEW s \in Servers, HandleEvent(s), ChainInv'
    PROVE  LinkInv'
<1> USE DEF LinkInv, ChainInv
<1>1. PICK n \in Chosen(s) :
         /\ callback' = [callback EXCEPT ![s] = IF n = nextPath[s] THEN 0 ELSE n]
         /\ nextPath' = [nextPath EXCEPT ![s] = IF n = 0 THEN 0 ELSE @]
         /\ link' = [link EXCEPT ![s] = IF nextPath[s] \notin {0, n} /\ @ # NoLink THEN Freed ELSE @]
    BY DEF HandleEvent
<1>2. /\ path[s] # 0 /\ Alive(s) /\ callback[s] = 0
      /\ event' = event \ {s} /\ armed' = armed \union {s}
      /\ UNCHANGED <<nodes, created, phase, path>>
    BY DEF HandleEvent, MayHandle, joining
<1>3. NumbersDiffer'
    BY <1>1, <1>2, ChosenIs DEF NumbersDiffer, NumbersOK
<1>4. ASSUME NEW u \in Servers PROVE Watched(u)'
    BY <1>2 DEF Watched, Alive
<1>5. ASSUME NEW u \in Servers, u # s PROVE Linked(u)'
    BY <1>1, <1>2, <1>5 DEF Linked, Nearest, Follows, NumbersOK, NumbersDiffer, Alive
<1>6. Linked(s)'
  <2> DEFINE p == nextPath[s]
  <2>1. /\ callback'[s] = (IF n = p THEN 0 ELSE n)
        /\ nextPath'[s] = (IF n = 0 THEN 0 ELSE p)
        /\ p \in {0, n} => link'[s] = link[s]
        /\ p \in Nat /\ path[s] \in Nat /\ \A u \in Servers : nodes[u] \in Nat
      BY <1>1 DEF NumbersOK, NumbersDiffer
  <2>2. CASE n = 0
      BY <1>2, <2>1, <2>2, ChosenIs DEF Linked, Follows
  <2>3. CASE n # 0 /\ n = p
      BY <1>2, <2>1, <2>3, ChosenIs DEF Linked, Nearest, Follows, Alive
  <2>4. CASE n # 0 /\ n # p
    <3>1. Nearest(s, n) /\ \E u \in Servers : nodes[u] = n
        BY <2>4, ChosenIs
    <3>2. p # 0 => \A u \in Servers : nodes[u] # p
        BY <2>1, <2>4, <3>1 DEF Linked, Nearest
    <3> QED
        BY <1>2, <2>1, <2>4, <3>1, <3>2 DEF Linked, Nearest, Follows, Alive
  <2> QED
      BY <2>2, <2>3, <2>4
<1> QED
    BY <1>3, <1>4, <1>5, <1>6

LEMMA GetAddressLinks == ASSUME LinkInv, NEW s \in Servers, GetAddress(s), ChainInv' PROVE LinkInv'
<1> USE DEF LinkInv, ChainInv
<1>1. /\ callback[s] # 0
      /\ \/ UNCHANGED callback
         \/ callback[s] \notin Numbers /\ callback' = [callback EXCEPT ![s] = 0]
      /\ UNCHANGED <<nodes, created, armed, event, phase, path, nextPath, link>>
    BY DEF GetAddress, zookeeper, joining, successor
<1>2. NumbersDiffer'
    BY <1>1 DEF NumbersDiffer
<1>3. ASSUME NEW u \in Servers PROVE Watched(u)'
    BY <1>1 DEF Watched, Alive
<1>4. ASSUME NEW u \in Servers PROVE Linked(u)'
  <2>1. CASE callback'[u] = callback[u]
      BY <1>1, <2>1 DEF Linked, Nearest, Follows, Alive
  <2>2. CASE callback'[u] # callback[u]
    <3>1. u = s /\ callback[u] # 0 /\ callback'[u] = 0 /\ \A v \in Servers : nodes[v] # callback[u]
        BY <1>1, <2>2 DEF NumbersOK, Numbers
    <3> QED
        BY <1>1, <3>1 DEF Linked, Nearest, Follows, Alive
  <2> QED
      BY <2>1, <2>2
<1> QED
    BY <1>2, <1>3, <1>4

LEMMA OwnerIs ==
    ASSUME NumbersDiffer, NEW u \in Servers, nodes[u] # 0
    PROVE  Owner(nodes[u]) = u
BY DEF NumbersDiffer, Owner

LEMMA ConnectLinks == ASSUME LinkInv, NEW s \in Servers, Connect(s), ChainInv' PROVE LinkInv'
<1> USE DEF LinkInv, ChainInv
<1>1. /\ callback[s] # 0 /\ Alive(s) /\ path[s] # 0
      /\ link' = [link EXCEPT ![s] =
            IF callback[s] \in Numbers /\ Alive(Owner(callback[s])) THEN Owner(callback[s]) ELSE NoLink]
      /\ nextPath' = [nextPath EXCEPT ![s] = callback[s]]
      /\ callback' = [callback EXCEPT ![s] = 0]
      /\ UNCHANGED <<nodes, created, armed, event, phase, path>>
    BY DEF Connect, CallbackInv, zookeeper, joining
<1>2. NumbersDiffer'
    BY <1>1 DEF NumbersDiffer, NumbersOK
<1>3. ASSUME NEW u \in Servers PROVE Watched(u)'
    BY <1>1 DEF Watched, Alive
<1>4. ASSUME NEW u \in Servers, u # s PROVE Linked(u)'
    BY <1>1, <1>4 DEF Linked, Nearest, Follows, NumbersOK, NumbersDiffer, Alive
<1>5. Linked(s)'
  <2>1. callback'[s] = 0 /\ nextPath'[s] = callback[s]
      BY <1>1 DEF NumbersOK, NumbersDiffer
  <2>2. ASSUME NEW u \in Servers, nodes[u] = callback[s] PROVE link'[s] = u \/ phase[u] = "dead"
    <3>1. Owner(callback[s]) = u /\ callback[s] \in Numbers
        BY <1>1, <2>2, OwnerIs DEF Numbers
    <3>2. phase[u] # "down"
        BY <1>1, <2>2 DEF PathInv, Unregistered
    <3>3. link'[s] = IF Alive(u) THEN u ELSE NoLink
        BY <1>1, <3>1 DEF NumbersOK
    <3> QED
        BY <3>2, <3>3 DEF Alive
  <2> QED
      BY <1>1, <2>1, <2>2 DEF Linked, Nearest, Follows, Alive
<1> QED
    BY <1>2, <1>3, <1>4, <1>5

-----------------------------------------------------------------------------
LEMMA LinksInitial == Init => LinkInv
<1>1. Init => NumbersDiffer /\ \A s \in Servers : Watched(s) /\ Linked(s)
    BY DEF Init, NumbersDiffer, Watched, Linked, Alive
<1> QED
    BY <1>1, Initially DEF LinkInv

LEMMA LinksInductive ==
    ASSUME PathRecorded, SortedListing
    PROVE  LinkInv /\ [Next]_vars => LinkInv'
<1> SUFFICES ASSUME LinkInv, [Next]_vars PROVE LinkInv'
    OBVIOUS
<1> ChainInv'
    BY Inductive DEF LinkInv
<1>1. ASSUME NEW s \in Servers, Start(s) \/ Send(s) PROVE LinkInv'
    BY <1>1, UnlinkingActions, UnlinkingLinks
<1>2. ASSUME NEW s \in Servers, Crash(s) PROVE LinkInv'
    BY <1>2, EndLinks DEF Crash
<1>3. ASSUME NEW s \in Servers, Join(s) PROVE LinkInv'
  <2>1. CASE ListChildren(s) \/ LocateTail(s) \/ DupTable(s) \/ DupSize(s) \/ DupFails(s)
      BY <2>1, UnlinkingActions, UnlinkingLinks
  <2>2. CASE TailGone(s) \/ DupOverrun(s)
      BY <2>2, EndLinks DEF TailGone, DupOverrun
  <2>3. CASE CreateNode(s) \/ RecordPath(s)
      BY <2>3, CreateLinks, RecordLinks
  <2> QED
      BY <1>3, <2>1, <2>2, <2>3 DEF Join
<1>4. ASSUME NEW s \in Servers, Watch(s) PROVE LinkInv'
  <2>1. CASE DoubleFree(s)
      BY <2>1, EndLinks DEF DoubleFree
  <2> QED
      BY <1>4, <2>1, HandleLinks, GetAddressLinks, ConnectLinks DEF Watch
<1>5. ASSUME NEW s \in Servers, Serve(s) PROVE LinkInv'
  <2>1. CASE ForwardDies(s)
      BY <2>1, EndLinks DEF ForwardDies
  <2>2. CASE Apply(s) \/ Forward(s) \/ ForwardFails(s) \/ Answer(s)
      BY <2>2, UnlinkingActions, UnlinkingLinks
  <2> QED
      BY <1>5, <2>1, <2>2 DEF Serve
<1>6. ASSUME NEW s \in Servers, Expire(s) PROVE LinkInv'
    BY <1>6, ExpireLinks
<1>7. CASE UNCHANGED vars
    BY <1>7 DEF vars, zookeeper, joining, successor, handling, LinkInv, NumbersDiffer, Watched, Linked,
                Nearest, Follows, Alive
<1> QED
    BY <1>1, <1>2, <1>3, <1>4, <1>5, <1>6, <1>7 DEF Next, Step, Done

LEMMA LinksOrdered == ASSUME LinkInv PROVE LinkedInOrder
<1> USE DEF LinkInv, ChainInv
<1> SUFFICES ASSUME Settled, NEW s \in Servers, phase[s] = "up"
             PROVE  /\ nextPath[s] = NextNode(s)
                    /\ nextPath[s] # 0 => link[s] = Owner(nextPath[s])
    BY DEF LinkedInOrder
<1> DEFINE p == nextPath[s]
           later == {n \in Numbers : n > nodes[s]}
<1>1. /\ p \in Nat /\ \A u \in Servers : nodes[u] \in Nat
      /\ path[s] = nodes[s] /\ s \notin event /\ callback[s] = 0
      /\ Follows(s, p)
      /\ p # 0 => Nearest(s, p)
    BY DEF Settled, NumbersOK, NumbersDiffer, PathInv, Watched, Linked, Alive
<1>2. CASE p = 0
  <2>1. later = {}
      BY <1>1, <1>2 DEF Follows, Numbers
  <2> QED
      BY <1>2, <2>1 DEF NextNode
<1>3. CASE p # 0
  <2>1. PICK u \in Servers : nodes[u] = p
      BY <1>1, <1>3 DEF Follows
  <2>2. p \in later /\ \A n \in later : p <= n
      BY <1>1, <1>3, <2>1 DEF Nearest, Numbers
  <2>3. later \in SUBSET Nat
      BY <1>1 DEF Numbers
  <2>4. Least(later) = p
      BY <2>2, <2>3, LeastIsLeast
  <2>5. Owner(p) = u
      BY <1>3, <2>1, OwnerIs
  <2>6. link[s] = u
      BY <1>1, <1>3, <2>1 DEF Linked, Settled
  <2> QED
      BY <2>2, <2>4, <2>5, <2>6 DEF NextNode
<1> QED
    BY <1>2, <1>3

\* Once every callback has run, each server is linked to the next one of the
\* chain, if ZooKeeper lists the children in order and main has recorded its path
\* before the callback of server_watch_children runs.
THEOREM LinksFollowChain ==
    ASSUME PathRecorded, SortedListing
    PROVE  Spec => []LinkedInOrder
<1>1. LinkInv /\ [Next]_vars => LinkInv'
    BY LinksInductive
<1>2. Spec => []LinkInv
    BY <1>1, LinksInitial, PTL DEF Spec
<1> QED
    BY <1>2, LinksOrdered, PTL

-----------------------------------------------------------------------------
(* Types, with no assumption on the order of the listing or on the path.   *)

ZooKeeperTypes ==
    /\ created \in Nat
    /\ nodes \in [Servers -> 0..created]
    /\ armed \in SUBSET Servers /\ event \in SUBSET Servers

PlaceTypes ==
    /\ phase \in [Servers -> Phases]
    /\ source \in [Servers -> 0..created]
    /\ path \in [Servers -> 0..created]
    /\ nextPath \in [Servers -> 0..created]
    /\ link \in [Servers -> Servers \union {NoLink, Freed}]
    /\ callback \in [Servers -> 0..created]
    /\ fetched \in [Servers -> BOOLEAN]

TableTypes ==
    /\ copy \in [Servers -> SUBSET (Keys \X Values)]
    /\ table \in [Servers -> [Keys -> Values \union {Absent}]]

WorkTypes ==
    /\ requests \in [Servers -> SUBSET Writes]
    /\ job \in [Servers -> SUBSET Jobs]
    /\ writes \in 0..MaxWrites
    /\ crashes \in 0..MaxCrashes
    /\ exposed \in BOOLEAN

\* The write section of a table has at most one operation.
OneJob == \A s \in Servers : \A i, j \in job[s] : i = j

\* A server creates one node at most.
HaveCreated == {s \in Servers : phase[s] \in {"record", "up", "dead"}}
NodesCounted == created <= Cardinality(HaveCreated)

TypeInv == ZooKeeperTypes /\ PlaceTypes /\ TableTypes /\ WorkTypes /\ OneJob /\ NodesCounted

LEMMA AtMostOne == ASSUME NEW S, \A i, j \in S : i = j PROVE Cardinality(S) <= 1
<1>1. CASE S = {}
    BY <1>1, FS_EmptySet
<1>2. CASE S # {}
    <2>1. PICK x \in S : TRUE
        BY <1>2
    <2>2. S = {x}
        BY <2>1
    <2>3. QED
        BY <2>2, FS_Singleton
<1>3. QED
    BY <1>1, <1>2

LEMMA TypesMean == TypeInv => TypeOK
<1> SUFFICES ASSUME TypeInv PROVE TypeOK
    OBVIOUS
<1>1. created \in 0..Cardinality(Servers)
    <2>1. HaveCreated \in SUBSET Servers /\ IsFiniteSet(Servers)
        BY ChainAssumption DEF HaveCreated, ChainAssumption
    <2>2. Cardinality(HaveCreated) \in Nat /\ Cardinality(Servers) \in Nat
          /\ Cardinality(HaveCreated) <= Cardinality(Servers)
        BY <2>1, FS_Subset, FS_CardinalityType
    <2>3. QED
        BY <2>2 DEF TypeInv, NodesCounted, ZooKeeperTypes
<1>2. \A s \in Servers : Cardinality(job[s]) <= 1
    BY AtMostOne DEF TypeInv, OneJob
<1>3. QED
    BY <1>1, <1>2 DEF TypeOK, TypeInv, ZooKeeperTypes, PlaceTypes, TableTypes, WorkTypes

LEMMA TypesInitially == Init => TypeInv
<1> SUFFICES ASSUME Init PROVE TypeInv
    OBVIOUS
<1>1. ZooKeeperTypes
    BY DEF Init, ZooKeeperTypes
<1>2. PlaceTypes
    BY DEF Init, PlaceTypes, Phases
<1>3. TableTypes
    BY DEF Init, TableTypes, Empty
<1>4. WorkTypes
    <2>1. {MaxWrites, MaxCrashes} \subseteq Nat
        BY ChainAssumption DEF ChainAssumption
    <2>2. 0 \in 0..MaxWrites /\ 0 \in 0..MaxCrashes
        BY <2>1
    <2>3. QED
        BY <2>2 DEF Init, WorkTypes
<1>5. OneJob
    BY DEF Init, OneJob
<1>6. NodesCounted
    <2>1. HaveCreated = {}
        BY DEF Init, HaveCreated
    <2>2. QED
        BY <2>1, FS_EmptySet DEF Init, NodesCounted
<1>7. QED
    BY <1>1, <1>2, <1>3, <1>4, <1>5, <1>6 DEF TypeInv

\* The greatest of the nodes, and the owner of one.
LEMMA GreatestNode ==
    ASSUME TypeInv, Numbers # {}
    PROVE  Greatest(Numbers) \in Numbers
<1> DEFINE below == {created - n : n \in Numbers}
<1>1. \A n \in Numbers : n \in 0..created
    BY DEF Numbers, TypeInv, ZooKeeperTypes
<1>2. below \subseteq Nat /\ below # {} /\ created \in Nat
    BY <1>1 DEF TypeInv, ZooKeeperTypes
<1>3. PICK b \in below : \A m \in below : ~(<<m, b>> \in OpToRel(<, Nat))
    BY <1>2, NatLessThanWellFounded, WFMin
<1>4. PICK n \in Numbers : b = created - n
    BY <1>3
<1>5. ASSUME NEW m \in Numbers PROVE n >= m
    <2>1. created - m \in Nat /\ created - n \in Nat /\ created - m \in below
        BY <1>1, <1>2
    <2>2. <<created - m, b>> \in Nat \X Nat /\ ~(<<created - m, b>> \in OpToRel(<, Nat))
        BY <1>3, <1>4, <2>1
    <2>3. ~(created - m < b)
        BY <2>1, <2>2, <1>4 DEF OpToRel
    <2>4. QED
        BY <1>1, <1>2, <1>4, <2>1, <2>3
<1>6. QED
    BY <1>4, <1>5 DEF Greatest

LEMMA NumbersTypes == ASSUME TypeInv PROVE \A n \in Numbers : n \in 0..created
BY DEF Numbers, TypeInv, ZooKeeperTypes

LEMMA OwnerTypes == ASSUME NEW n \in Numbers PROVE Owner(n) \in Servers
BY DEF Owner, Numbers

\* More servers have created a node, or as many.
LEMMA CountKept ==
    ASSUME TypeInv, created' = created, HaveCreated \subseteq HaveCreated'
    PROVE  NodesCounted'
<1>1. HaveCreated' \subseteq Servers /\ IsFiniteSet(Servers)
    BY ChainAssumption DEF HaveCreated, ChainAssumption
<1>2. IsFiniteSet(HaveCreated')
    BY <1>1, FS_Subset
<1>3. /\ Cardinality(HaveCreated) <= Cardinality(HaveCreated')
      /\ Cardinality(HaveCreated') \in Nat /\ Cardinality(HaveCreated) \in Nat
    BY <1>2, FS_Subset, FS_CardinalityType
<1>4. QED
    BY <1>3 DEF TypeInv, NodesCounted, ZooKeeperTypes

-----------------------------------------------------------------------------
LEMMA EndTypes ==
    ASSUME TypeInv, NEW s \in Servers, End(s), crashes' \in 0..MaxCrashes
    PROVE  TypeInv'
<1> USE DEF TypeInv, End
<1>1. ZooKeeperTypes'
    BY DEF ZooKeeperTypes
<1>2. PlaceTypes'
    BY DEF ZooKeeperTypes, PlaceTypes, Phases
<1>3. TableTypes'
    BY DEF TableTypes, Empty
<1>4. WorkTypes' /\ OneJob'
    BY DEF WorkTypes, OneJob
<1>5. NodesCounted'
    <2>1. HaveCreated \subseteq HaveCreated'
        BY DEF HaveCreated, PlaceTypes
    <2>2. QED
        BY <2>1, CountKept
<1>6. QED
    BY <1>1, <1>2, <1>3, <1>4, <1>5

\* A step that changes the types of nothing but what it sets.
LEMMA OtherTypes ==
    ASSUME TypeInv, UNCHANGED <<nodes, created>>, HaveCreated \subseteq HaveCreated',
           armed' \subseteq Servers, event' \subseteq Servers,
           PlaceTypes', TableTypes', WorkTypes', OneJob'
    PROVE  TypeInv'
<1>1. ZooKeeperTypes'
    BY DEF TypeInv, ZooKeeperTypes
<1>2. QED
    BY <1>1, CountKept DEF TypeInv

LEMMA JoinTypes == ASSUME TypeInv, NEW s \in Servers, Start(s) \/ Join(s) PROVE TypeInv'
<1> USE DEF TypeInv
<1>0. /\ created \in Nat /\ armed \subseteq Servers /\ event \subseteq Servers
      /\ crashes \in 0..MaxCrashes
      /\ phase \in [Servers -> Phases]
    BY DEF ZooKeeperTypes, WorkTypes, PlaceTypes
<1>1. ASSUME UNCHANGED <<requests, job, writes, crashes, exposed>> PROVE WorkTypes' /\ OneJob'
    BY <1>1 DEF WorkTypes, OneJob
<1>2. ASSUME NEW l \in Phases, phase[s] \notin {"record", "up", "dead"} \/ l = "up",
             phase' = [phase EXCEPT ![s] = l]
      PROVE  HaveCreated \subseteq HaveCreated'
    BY <1>0, <1>2 DEF HaveCreated
<1>3. CASE Start(s) \/ LocateTail(s)
    <2>1. HaveCreated \subseteq HaveCreated'
        BY <1>2, <1>3 DEF Start, LocateTail, Phases
    <2>2. PlaceTypes' /\ TableTypes' /\ WorkTypes' /\ OneJob'
        BY <1>1, <1>3 DEF Start, LocateTail, zookeeper, successor, handling, work, environment,
           PlaceTypes, TableTypes, Phases
    <2>3. QED
        BY <1>0, <1>3, <2>1, <2>2, OtherTypes DEF Start, LocateTail, zookeeper
<1>4. CASE ListChildren(s)
    <2>1. HaveCreated \subseteq HaveCreated'
        BY <1>2, <1>4 DEF ListChildren, Phases
    <2>2. source' \in [Servers -> 0..created]
        BY <1>4, GreatestNode, NumbersTypes DEF ListChildren, PlaceTypes
    <2>3. PlaceTypes' /\ TableTypes' /\ WorkTypes' /\ OneJob'
        BY <1>1, <1>4, <2>2 DEF ListChildren, successor, handling, work, environment,
           PlaceTypes, TableTypes, Phases
    <2>4. QED
        BY <1>0, <1>4, <2>1, <2>3, OtherTypes DEF ListChildren
<1>5. CASE TailGone(s) \/ DupOverrun(s)
    BY <1>0, <1>5, EndTypes DEF TailGone, DupOverrun
<1>6. CASE DupTable(s)
    <2>1. HaveCreated \subseteq HaveCreated'
        BY <1>2, <1>6 DEF DupTable, Phases
    <2>2. \A u \in Servers : Entries(table[u]) \subseteq Keys \X Values
        <3> SUFFICES ASSUME NEW u \in Servers, NEW k \in Stored(table[u])
                     PROVE  <<k, table[u][k]>> \in Keys \X Values
            BY DEF Entries
        <3>1. QED
            BY DEF Stored, TableTypes
    <2>3. PlaceTypes' /\ TableTypes' /\ WorkTypes' /\ OneJob'
        BY <1>1, <1>6, <2>2 DEF DupTable, Tail, zookeeper, successor, handling, work, environment,
           PlaceTypes, TableTypes, Phases
    <2>4. QED
        BY <1>0, <1>6, <2>1, <2>3, OtherTypes DEF DupTable, zookeeper
<1>7. CASE DupSize(s)
    <2>1. HaveCreated \subseteq HaveCreated'
        BY <1>2, <1>7 DEF DupSize, Phases
    <2>2. PICK kept :
             table' = [table EXCEPT ![s] =
                 [k \in Keys |-> IF \E v \in Values : <<k, v>> \in kept
                                   THEN CHOOSE v \in Values : <<k, v>> \in kept
                                   ELSE Absent]]
        BY <1>7 DEF DupSize
    <2>3. [k \in Keys |-> IF \E v \in Values : <<k, v>> \in kept
                            THEN CHOOSE v \in Values : <<k, v>> \in kept
                            ELSE Absent] \in [Keys -> Values \union {Absent}]
        OBVIOUS
    <2>4. TableTypes'
        BY <1>7, <2>2, <2>3 DEF DupSize, TableTypes
    <2>5. PlaceTypes' /\ WorkTypes' /\ OneJob'
        BY <1>1, <1>7 DEF DupSize, zookeeper, successor, handling, work, environment, PlaceTypes, Phases
    <2>6. QED
        BY <1>0, <1>7, <2>1, <2>4, <2>5, OtherTypes DEF DupSize, zookeeper
<1>8. CASE DupFails(s)
    <2>1. HaveCreated \subseteq HaveCreated'
        BY <1>2, <1>8 DEF DupFails, Phases
    <2>2. PlaceTypes' /\ TableTypes' /\ WorkTypes' /\ OneJob'
        BY <1>1, <1>8 DEF DupFails, zookeeper, successor, handling, work, environment,
           PlaceTypes, TableTypes, Phases
    <2>3. QED
        BY <1>0, <1>8, <2>1, <2>2, OtherTypes DEF DupFails, zookeeper
<1>9. CASE CreateNode(s)
    <2>1. created' = created + 1
        BY <1>9 DEF CreateNode
    <2>2. ZooKeeperTypes'
        BY <1>0, <1>9 DEF CreateNode, FireWatches, ZooKeeperTypes
    <2>3. PlaceTypes'
        BY <1>0, <1>9, <2>1 DEF CreateNode, successor, handling, PlaceTypes, Phases
    <2>4. TableTypes' /\ WorkTypes' /\ OneJob'
        BY <1>1, <1>9 DEF CreateNode, work, environment, TableTypes
    <2>5. NodesCounted'
        <3>1. HaveCreated' = HaveCreated \union {s} /\ s \notin HaveCreated
            BY <1>0, <1>9 DEF CreateNode, HaveCreated
        <3>2. IsFiniteSet(HaveCreated)
            <4>1. HaveCreated \in SUBSET Servers /\ IsFiniteSet(Servers)
                BY ChainAssumption DEF HaveCreated, ChainAssumption
            <4>2. QED
                BY <4>1, FS_Subset
        <3>3. Cardinality(HaveCreated') = Cardinality(HaveCreated) + 1 /\ Cardinality(HaveCreated) \in Nat
            BY <3>1, <3>2, FS_AddElement, FS_CardinalityType
        <3>4. QED
            BY <1>0, <2>1, <3>3 DEF NodesCounted
    <2>6. QED
        BY <2>2, <2>3, <2>4, <2>5
<1>10. CASE RecordPath(s)
    <2>1. HaveCreated \subseteq HaveCreated'
        BY <1>2, <1>10 DEF RecordPath, Phases
    <2>2. PlaceTypes' /\ TableTypes' /\ WorkTypes' /\ OneJob'
        BY <1>1, <1>10 DEF RecordPath, zookeeper, handling, work, environment, ZooKeeperTypes,
           PlaceTypes, TableTypes, Phases
    <2>3. QED
        BY <1>0, <1>10, <2>1, <2>2, OtherTypes DEF RecordPath, zookeeper
<1>11. QED
    BY <1>3, <1>4, <1>5, <1>6, <1>7, <1>8, <1>9, <1>10 DEF Join

LEMMA WatchTypes == ASSUME TypeInv, NEW s \in Servers, Watch(s) PROVE TypeInv'
<1> USE DEF TypeInv
<1>0. /\ created \in Nat /\ armed \subseteq Servers /\ event \subseteq Servers
      /\ crashes \in 0..MaxCrashes
    BY DEF ZooKeeperTypes, WorkTypes
<1>1. ASSUME UNCHANGED <<nodes, created, phase, copy, source, table, path, requests, job, writes, crashes,
                         exposed>>,
             armed' \subseteq Servers, event' \subseteq Servers,
             nextPath' \in [Servers -> 0..created],
             link' \in [Servers -> Servers \union {NoLink, Freed}],
             callback' \in [Servers -> 0..created], fetched' \in [Servers -> BOOLEAN]
      PROVE  TypeInv'
    <2>1. PlaceTypes' /\ TableTypes' /\ WorkTypes' /\ OneJob' /\ HaveCreated' = HaveCreated
        BY <1>1 DEF PlaceTypes, TableTypes, WorkTypes, OneJob, HaveCreated
    <2>2. QED
        BY <1>1, <2>1, OtherTypes
<1>2. CASE HandleEvent(s)
    <2>1. PICK n \in Chosen(s) :
          /\ callback' = [callback EXCEPT ![s] = IF n = nextPath[s] THEN 0 ELSE n]
          /\ nextPath' = [nextPath EXCEPT ![s] = IF n = 0 THEN 0 ELSE @]
          /\ link' = [link EXCEPT ![s] = IF nextPath[s] \notin {0, n} /\ @ # NoLink THEN Freed ELSE @]
        BY <1>2 DEF HandleEvent
    <2>2. n \in 0..created
        BY <1>0, NumbersTypes DEF Chosen, Later
    <2>3. /\ callback' \in [Servers -> 0..created] /\ nextPath' \in [Servers -> 0..created]
          /\ link' \in [Servers -> Servers \union {NoLink, Freed}]
        BY <1>0, <2>1, <2>2 DEF PlaceTypes
    <2>4. QED
        BY <1>0, <1>1, <1>2, <2>3 DEF HandleEvent, joining, work, environment, PlaceTypes
<1>3. CASE DoubleFree(s)
    BY <1>0, <1>3, EndTypes DEF DoubleFree
<1>4. CASE GetAddress(s)
    <2>1. callback' \in [Servers -> 0..created] /\ fetched' \in [Servers -> BOOLEAN]
        <3>1. CASE callback[s] \in Numbers
            BY <1>4, <3>1 DEF GetAddress, PlaceTypes
        <3>2. CASE callback[s] \notin Numbers
            BY <1>0, <1>4, <3>2 DEF GetAddress, PlaceTypes
        <3>3. QED
            BY <3>1, <3>2
    <2>2. QED
        BY <1>0, <1>1, <1>4, <2>1 DEF GetAddress, zookeeper, joining, successor, work, environment, PlaceTypes
<1>5. CASE Connect(s)
    <2>1. link' \in [Servers -> Servers \union {NoLink, Freed}]
        BY <1>5, OwnerTypes DEF Connect, PlaceTypes
    <2>2. QED
        BY <1>0, <1>1, <1>5, <2>1 DEF Connect, zookeeper, joining, work, environment, PlaceTypes
<1>6. QED
    BY <1>2, <1>3, <1>4, <1>5 DEF Watch

LEMMA ServeTypes == ASSUME TypeInv, NEW s \in Servers, Send(s) \/ Serve(s) PROVE TypeInv'
<1> USE DEF TypeInv
<1>0. /\ armed \subseteq Servers /\ event \subseteq Servers
      /\ crashes \in 0..MaxCrashes
    BY DEF ZooKeeperTypes, WorkTypes
<1>1. ASSUME UNCHANGED <<zookeeper, phase, copy, source, successor, handling, crashes>>,
             table' \in [Servers -> [Keys -> Values \union {Absent}]],
             requests' \in [Servers -> SUBSET Writes], job' \in [Servers -> SUBSET Jobs], OneJob',
             writes' \in 0..MaxWrites, exposed' \in BOOLEAN
      PROVE  TypeInv'
    <2>1. PlaceTypes' /\ TableTypes' /\ WorkTypes' /\ HaveCreated' = HaveCreated
        BY <1>1 DEF zookeeper, successor, handling, PlaceTypes, TableTypes, WorkTypes, HaveCreated
    <2>2. QED
        BY <1>0, <1>1, <2>1, OtherTypes DEF zookeeper
<1>2. CASE Send(s)
    <2>1. PICK k \in Keys, v \in Values \union {Absent} :
             requests' = [requests EXCEPT ![s] = @ \union
                              {[id |-> writes', key |-> k, value |-> v, from |-> Client]}]
        BY <1>2 DEF Send
    <2>2. writes' \in 1..MaxWrites
        BY <1>2, ChainAssumption DEF Send, WorkTypes, ChainAssumption
    <2>3. [id |-> writes', key |-> k, value |-> v, from |-> Client] \in Writes
        BY <2>2 DEF Writes
    <2>4. requests' \in [Servers -> SUBSET Writes]
        BY <2>1, <2>3 DEF WorkTypes
    <2>5. OneJob' /\ writes' \in 0..MaxWrites
        BY <1>2, <2>2 DEF Send, OneJob
    <2>6. QED
        BY <1>1, <1>2, <2>4, <2>5 DEF Send, joining, WorkTypes, TableTypes
<1>3. CASE Apply(s)
    <2>1. PICK r \in requests[s] :
             /\ requests' = [requests EXCEPT ![s] = @ \ {r}]
             /\ table' = [table EXCEPT ![s][r.key] = r.value]
             /\ Write(s, r, IF nextPath[s] # 0 THEN "forward" ELSE "answer")
        BY <1>3 DEF Apply
    <2>2. r \in Writes
        BY <2>1 DEF WorkTypes
    <2>3. PICK j \in Jobs : job' = [job EXCEPT ![s] = @ \union {j}]
        <3> DEFINE at == IF nextPath[s] # 0 THEN "forward" ELSE "answer"
                   j == [id |-> r.id, key |-> r.key, value |-> r.value,
                         from |-> r.from, to |-> Client, at |-> at]
        <3>1. j \in Jobs
            BY <2>2 DEF Writes, Jobs
        <3>2. job' = [job EXCEPT ![s] = @ \union {j}]
            BY <2>1 DEF Write
        <3>3. QED
            BY <3>1, <3>2
    <2>4. job[s] = {}
        BY <1>3 DEF Apply
    <2>5. job' \in [Servers -> SUBSET Jobs] /\ OneJob'
        BY <2>3, <2>4 DEF WorkTypes, OneJob
    <2>6. table' \in [Servers -> [Keys -> Values \union {Absent}]]
        BY <2>1, <2>2 DEF TableTypes, Writes
    <2>7. requests' \in [Servers -> SUBSET Writes] /\ exposed' \in BOOLEAN
        BY <1>3, <2>1 DEF Apply, Settled, WorkTypes
    <2>8. QED
        BY <1>1, <1>3, <2>5, <2>6, <2>7 DEF Apply, joining, environment, WorkTypes
<1>4. CASE Forward(s)
    <2>1. PICK j \in job[s] :
             /\ requests' = [requests EXCEPT ![link[s]] = @ \union
                    {[id |-> j.id, key |-> j.key, value |-> j.value, from |-> s]}]
             /\ job' = [job EXCEPT ![s] = {[j EXCEPT !.at = "wait", !.to = link[s]]}]
        BY <1>4 DEF Forward
    <2>2. j \in Jobs /\ link[s] \in Servers
        BY <1>4, <2>1 DEF Forward, WorkTypes
    <2>3. [id |-> j.id, key |-> j.key, value |-> j.value, from |-> s] \in Writes
        BY <2>2 DEF Jobs, Writes
    <2>4. [j EXCEPT !.at = "wait", !.to = link[s]] \in Jobs
        BY <2>2 DEF Jobs
    <2>5. requests' \in [Servers -> SUBSET Writes]
        BY <2>1, <2>2, <2>3 DEF WorkTypes
    <2>6. job' \in [Servers -> SUBSET Jobs] /\ OneJob'
        BY <2>1, <2>4 DEF WorkTypes, OneJob
    <2>7. QED
        BY <1>1, <1>4, <2>5, <2>6 DEF Forward, joining, environment, WorkTypes, TableTypes
<1>5. \A j \in Jobs : [j EXCEPT !.at = "answer"] \in Jobs
    BY DEF Jobs
<1>6. CASE ForwardFails(s)
    <2>1. job' = [job EXCEPT ![s] = {[j EXCEPT !.at = "answer"] : j \in job[s]}]
        BY <1>6 DEF ForwardFails, MoveTo
    <2>2. job' \in [Servers -> SUBSET Jobs]
        BY <1>5, <2>1 DEF WorkTypes
    <2>3. OneJob'
        BY <2>1 DEF OneJob, WorkTypes
    <2>4. QED
        BY <1>1, <1>6, <2>2, <2>3 DEF ForwardFails, joining, environment, WorkTypes, TableTypes
<1>7. CASE ForwardDies(s)
    BY <1>0, <1>7, EndTypes DEF ForwardDies
<1>8. CASE Answer(s)
    <2>1. PICK j \in job[s] :
             job' = [u \in Servers |->
                        IF u = s THEN {}
                        ELSE IF u = j.from THEN {[i EXCEPT !.at = "answer"] : i \in job[u]}
                        ELSE job[u]]
        BY <1>8 DEF Answer
    <2>2. job' \in [Servers -> SUBSET Jobs]
        BY <1>5, <2>1 DEF WorkTypes
    <2>3. OneJob'
        BY <2>1 DEF OneJob, WorkTypes
    <2>4. QED
        BY <1>1, <1>8, <2>2, <2>3 DEF Answer, joining, environment, WorkTypes, TableTypes
<1>9. QED
    BY <1>2, <1>3, <1>4, <1>6, <1>7, <1>8 DEF Serve

LEMMA TypesInductive == TypeInv /\ [Next]_vars => TypeInv'
<1> SUFFICES ASSUME TypeInv, [Next]_vars PROVE TypeInv'
    OBVIOUS
<1>1. ASSUME NEW s \in Servers, Start(s) \/ Join(s) PROVE TypeInv'
    BY <1>1, JoinTypes
<1>2. ASSUME NEW s \in Servers, Watch(s) PROVE TypeInv'
    BY <1>2, WatchTypes
<1>3. ASSUME NEW s \in Servers, Send(s) \/ Serve(s) PROVE TypeInv'
    BY <1>3, ServeTypes
<1>4. ASSUME NEW s \in Servers, Crash(s) PROVE TypeInv'
    <2>1. crashes' \in 0..MaxCrashes
        BY <1>4, ChainAssumption DEF Crash, TypeInv, WorkTypes, ChainAssumption
    <2>2. QED
        BY <1>4, <2>1, EndTypes DEF Crash
<1>5. ASSUME NEW s \in Servers, Expire(s) PROVE TypeInv'
    <2>1. ZooKeeperTypes'
        BY <1>5 DEF Expire, FireWatches, TypeInv, ZooKeeperTypes
    <2>2. PlaceTypes' /\ TableTypes' /\ WorkTypes' /\ OneJob' /\ HaveCreated' = HaveCreated
        BY <1>5 DEF Expire, joining, successor, handling, work, environment, TypeInv, PlaceTypes,
           TableTypes, WorkTypes, OneJob, HaveCreated
    <2>3. NodesCounted'
        BY <1>5, <2>2, CountKept DEF Expire
    <2>4. QED
        BY <2>1, <2>2, <2>3 DEF TypeInv
<1>6. CASE UNCHANGED vars
    BY <1>6 DEF vars, zookeeper, joining, successor, handling, work, environment, TypeInv, ZooKeeperTypes,
       PlaceTypes, TableTypes, WorkTypes, OneJob, NodesCounted, HaveCreated
<1>7. QED
    BY <1>1, <1>2, <1>3, <1>4, <1>5, <1>6 DEF Next, Step, Done

\* Every variable of the chain keeps its type, for any servers, writes and kills,
\* whatever the listing's order and whenever the callback runs: a server creates
\* one node at most (table_server.c:134), and a table has one write at a time in
\* its write section (table_skel.c:63, :133).
THEOREM ChainTypeCorrect == Spec => []TypeOK
<1>1. Spec => []TypeInv
    BY TypesInitially, TypesInductive, PTL DEF Spec
<1>2. QED
    BY <1>1, TypesMean, PTL
=============================================================================
