------------------------- MODULE ChainReplicas_proof -------------------------
(***************************************************************************)
(* Proof that neighbouring tables of Chain differ only in the key that is  *)
(* being written, for any servers, keys and writes, as long as no server   *)
(* has died and no write has run before all servers were linked.  Then the *)
(* nodes are numbered without a gap, a write that has been handed on waits *)
(* for one request or for one job of the next server, and a server that    *)
(* joins has, or will copy, the table that the last one has.               *)
(* It follows that a write which is answered has reached every later       *)
(* server: whoever waits for nobody has left nothing to do below.          *)
(***************************************************************************)
EXTENDS Chain_proof, FiniteSetTheorems

Tables == /\ table \in [Servers -> [Keys -> Values \union {Absent}]]
          /\ copy \in [Servers -> SUBSET (Keys \X Values)]
          /\ source \in [Servers -> Nat]

\* What ReplicaBehindByOneWrite assumes.
Calm == ~exposed /\ \A s \in Servers : phase[s] # "dead"

\* The nodes are numbered without a gap, in the order of the chain.
Dense == \A n \in 1..created : \E u \in Servers : nodes[u] = n
Before(s, u) == nodes[s] # 0 /\ nodes[u] = nodes[s] + 1

\* The last server of the chain has this table.
TailHas(tab) == \A u \in Servers : nodes[u] = created /\ created # 0 => table[u] = tab

\* What a server that joins has copied, or will copy, is the table of the last.
Joining(s) ==
    /\ phase[s] \in {"down", "list"} => table[s] = Empty
    /\ phase[s] \in {"locate", "dup_table", "dup_size"} =>
          \E u \in Tail(s) : /\ source[s] # 0 /\ TailHas(table[u])
                             /\ phase[s] = "dup_size" => copy[s] = Entries(table[u])
    /\ phase[s] = "create" => TailHas(table[s]) /\ (created = 0 => table[s] = Empty)

\* Server p waits for s to answer the write x, a request or a job of s.
Waits(p, s, x) ==
    /\ p \in Servers /\ Before(p, s)
    /\ \E i \in job[p] : i.at = "wait" /\ i.to = s /\ i.key = x.key /\ i.value = x.value

\* A server has one job, which its table has, and which it hands on to the next
\* server; the one before it waits, and has no other request there.  The first
\* server alone has the writes of the clients.
JobsOK(s) ==
    /\ \A i, j \in job[s] : i = j
    /\ \A j \in job[s] :
          /\ table[s][j.key] = j.value /\ phase[s] = "up"
          /\ j.at = "forward" => nextPath[s] # 0
          /\ j.at = "wait" => Before(s, j.to)
          /\ j.from # Client => Waits(j.from, s, j) /\ \A r \in requests[s] : r.from # j.from
          /\ j.from = Client => nodes[s] = 1

RequestsOK(s) ==
    \A r \in requests[s] :
        /\ r.from # Client => Waits(r.from, s, r) /\ \A q \in requests[s] : q.from = r.from => q = r
        /\ r.from = Client => nodes[s] = 1

\* The tables differ in the key of a write that the second has still to receive.
Behind(s, u) ==
    \A k \in Keys : table[s][k] # table[u][k] =>
        \E j \in job[s] : /\ j.key = k /\ j.at \in {"forward", "wait"}
                          /\ j.at = "wait" => \E r \in requests[u] : r.from = s

Agreeing ==
    /\ Dense
    /\ \A s \in Servers : Joining(s) /\ JobsOK(s) /\ RequestsOK(s)
    /\ \A s, u \in Servers : Before(s, u) => Behind(s, u)

ReplicaInv == LinkInv /\ Tables /\ (Calm => Agreeing)

-----------------------------------------------------------------------------
\* Who is next, and who is before, is unique.
LEMMA OneNeighbour ==
    ASSUME LinkInv, NEW p \in Servers, NEW s \in Servers, Before(p, s)
    PROVE  /\ p # s
           /\ \A q \in Servers : Before(q, s) => q = p
           /\ \A q \in Servers : Before(p, q) => q = s
BY DEF LinkInv, ChainInv, NumbersOK, NumbersDiffer, Before

LEMMA AliveIfNumbered ==
    ASSUME LinkInv, Calm, NEW s \in Servers, nodes[s] # 0
    PROVE  Alive(s)
BY DEF LinkInv, ChainInv, PathInv, Calm, Alive, Unregistered

\* The link of a server leads to the next one.
LEMMA LinkedToNext ==
    ASSUME LinkInv, Calm, Dense, NEW s \in Servers, nextPath[s] # 0
    PROVE  link[s] \in Servers /\ Before(s, link[s]) /\ nodes[link[s]] = nextPath[s] /\ callback[s] = 0
<1> USE DEF LinkInv, ChainInv
<1>1. /\ path[s] = nodes[s] /\ nodes[s] # 0 /\ Nearest(s, nextPath[s])
      /\ nextPath[s] \in Nat /\ created \in Nat /\ \A u \in Servers : nodes[u] \in Nat
    BY DEF Linked, PathInv, NumbersOK, NumbersDiffer
<1>2. PICK u \in Servers : nodes[u] = nextPath[s]
    <2>1. nextPath[s] \in 1..created
        BY <1>1 DEF Nearest
    <2> QED
        BY <2>1 DEF Dense
<1>3. nextPath[s] = nodes[s] + 1
    <2>1. nodes[s] + 1 \in 1..created
        BY <1>1 DEF Nearest
    <2>2. PICK v \in Servers : nodes[v] = nodes[s] + 1
        BY <2>1 DEF Dense
    <2> QED
        BY <1>1, <2>2 DEF Nearest
<1>4. callback[s] = 0 /\ link[s] = u
    BY <1>2 DEF Linked, Calm
<1> QED
    BY <1>1, <1>2, <1>3, <1>4 DEF Before

\* One who joins keeps its promise by what it does itself; the others keep
\* theirs as long as the chain, and the tables in it, stay as they are.
LEMMA Steady ==
    ASSUME ReplicaInv, Calm, NEW s \in Servers, Joining(s)',
           UNCHANGED <<nodes, created, requests, job>>,
           \A u \in Servers : nextPath[u] # 0 => nextPath'[u] # 0,
           \A u \in Servers : phase[u] = "up" => phase'[u] = "up",
           \A u \in Servers : nodes[u] # 0 => table'[u] = table[u],
           \A u \in Servers \ {s} : /\ phase'[u] = phase[u] /\ table'[u] = table[u]
                                    /\ copy'[u] = copy[u] /\ source'[u] = source[u]
    PROVE  Agreeing'
<1> USE DEF ReplicaInv, LinkInv, ChainInv
<1>1. Dense'
    BY DEF Agreeing, Dense
<1>2. \A tab : TailHas(tab) => TailHas(tab)'
    BY DEF TailHas
<1>3. ASSUME NEW t \in Servers PROVE Joining(t)'
    <2>1. CASE t # s
        <3>1. Tail(t)' = Tail(t) /\ Empty' = Empty
            BY <2>1 DEF Tail, Empty
        <3>2. source[t] # 0 => \A u \in Tail(t) : table'[u] = table[u]
            BY DEF Tail
        <3>3. \A u \in Tail(t) : Entries(table[u])' = Entries(table'[u])
            BY DEF Entries, Stored
        <3> QED
            BY <1>2, <2>1, <3>1, <3>2, <3>3 DEF Agreeing, Joining, Entries, Stored
    <2> QED
        BY <2>1
<1>4. ASSUME NEW t \in Servers PROVE JobsOK(t)'
    <2>1. job[t] # {} => nodes[t] # 0
        BY DEF Agreeing, JobsOK, Watched
    <2> QED
        BY <2>1 DEF Agreeing, JobsOK, Waits, Before
<1>5. ASSUME NEW t \in Servers PROVE RequestsOK(t)'
    BY DEF Agreeing, RequestsOK, Waits, Before
<1>6. ASSUME NEW t \in Servers, NEW u \in Servers, Before(t, u)' PROVE Behind(t, u)'
    <2>1. nodes[t] # 0 /\ nodes[u] # 0 /\ Before(t, u)
        BY <1>6 DEF Before, NumbersOK
    <2> QED
        BY <2>1 DEF Agreeing, Behind
<1> QED
    BY <1>1, <1>3, <1>4, <1>5, <1>6 DEF Agreeing

-----------------------------------------------------------------------------
(* main: the server joins.                                                 *)

\* A copy of a table, of which as many entries are kept as the table has.
LEMMA EntriesCounted ==
    ASSUME NEW tab \in [Keys -> Values \union {Absent}]
    PROVE  IsFiniteSet(Entries(tab)) /\ Cardinality(Entries(tab)) = Cardinality(Stored(tab))
<1> DEFINE f == [k \in Stored(tab) |-> <<k, tab[k]>>]
<1>1. IsFiniteSet(Stored(tab))
    BY FS_Subset, ChainAssumption DEF ChainAssumption, Stored
<1>2. f \in Bijection(Stored(tab), Entries(tab))
    BY DEF Bijection, Injection, IsInjective, Surjection, Entries
<1>3. ExistsBijection(Stored(tab), Entries(tab))
    BY <1>2 DEF ExistsBijection
<1> QED
    BY <1>1, <1>3, FS_Bijection

LEMMA WholeCopy ==
    ASSUME NEW tab \in [Keys -> Values \union {Absent}], NEW kept \in SUBSET Entries(tab),
           Cardinality(kept) = Cardinality(Stored(tab))
    PROVE  [k \in Keys |-> IF \E v \in Values : <<k, v>> \in kept
                             THEN CHOOSE v \in Values : <<k, v>> \in kept
                             ELSE Absent] = tab
<1>1. kept = Entries(tab)
    BY EntriesCounted, FS_Subset
<1>2. ASSUME NEW k \in Keys
      PROVE  tab[k] = IF \E v \in Values : <<k, v>> \in kept
                        THEN CHOOSE v \in Values : <<k, v>> \in kept
                        ELSE Absent
    <2>1. \A v \in Values : <<k, v>> \in kept <=> v = tab[k]
        BY <1>1, ChainAssumption DEF Entries, Stored, ChainAssumption
    <2>2. tab[k] \in Values \/ tab[k] = Absent
        OBVIOUS
    <2>3. CASE tab[k] \in Values
        BY <2>1, <2>3
    <2>4. CASE tab[k] = Absent
        BY <2>1, <2>4, ChainAssumption DEF ChainAssumption
    <2> QED
        BY <2>2, <2>3, <2>4
<1> QED
    BY <1>2

\* The last server of the chain, when nobody has died.
LEMMA TailIs ==
    ASSUME LinkInv, Dense
    PROVE  /\ created # 0 => \E u \in Servers : nodes[u] = created
           /\ created # 0 => Numbers # {} /\ Greatest(Numbers) = created
           /\ created = 0 => Numbers = {}
<1> USE DEF LinkInv, ChainInv, NumbersOK, NumbersDiffer
<1>1. created # 0 => created \in 1..created
    OBVIOUS
<1>2. created # 0 => created \in Numbers
    BY <1>1 DEF Dense, Numbers
<1>3. \A n \in Numbers : n \in Nat /\ n # 0 /\ n <= created
    BY DEF Numbers
<1>4. created # 0 => Greatest(Numbers) = created
    BY <1>2, <1>3 DEF Greatest
<1> QED
    BY <1>2, <1>3, <1>4 DEF Numbers

LEMMA JoiningStep ==
    ASSUME ReplicaInv, Calm, NEW s \in Servers,
           \/ Start(s) \/ ListChildren(s) \/ LocateTail(s) \/ DupTable(s) \/ DupSize(s) \/ DupFails(s)
           \/ RecordPath(s)
    PROVE  Agreeing'
<1> USE DEF ReplicaInv, LinkInv, ChainInv
<1>1. /\ UNCHANGED <<nodes, created, requests, job, nextPath>>
      /\ phase[s] # "up"
      /\ \A u \in Servers \ {s} : /\ phase'[u] = phase[u] /\ table'[u] = table[u]
                                  /\ copy'[u] = copy[u] /\ source'[u] = source[u]
      /\ phase[s] = "record" \/ nodes[s] = 0
      /\ table' = table \/ phase[s] = "dup_size"
    <2> USE DEF NumbersOK, PathInv, Unregistered, Tables
    <2>1. CASE Start(s)
        BY <2>1 DEF Start, zookeeper, successor, work
    <2>2. CASE ListChildren(s)
        <3>1. \A u \in Servers \ {s} : phase'[u] = phase[u] /\ source'[u] = source[u]
            <4>1. CASE Numbers = {}
                BY <2>2, <4>1 DEF ListChildren
            <4>2. CASE Numbers # {}
                BY <2>2, <4>2 DEF ListChildren
            <4> QED
                BY <4>1, <4>2
        <3> QED
            BY <2>2, <3>1 DEF ListChildren, successor, work
    <2>3. CASE LocateTail(s)
        BY <2>3 DEF LocateTail, zookeeper, successor, work
    <2>4. CASE DupTable(s)
        BY <2>4 DEF DupTable, zookeeper, successor, work
    <2>5. CASE DupSize(s)
        BY <2>5 DEF DupSize, zookeeper, successor, work
    <2>6. CASE DupFails(s)
        BY <2>6 DEF DupFails, zookeeper, successor, work
    <2>7. CASE RecordPath(s)
        BY <2>7 DEF RecordPath, zookeeper, work
    <2> QED
        BY <2>1, <2>2, <2>3, <2>4, <2>5, <2>6, <2>7
<1>2. \A u \in Servers : nodes[u] # 0 => table'[u] = table[u]
    BY <1>1
<1>3. \A tab : TailHas(tab) => TailHas(tab)'
    BY <1>1, <1>2 DEF TailHas
<1>4. Agreeing /\ Joining(s)
    BY DEF Agreeing
<1>5. Joining(s)'
    <2>1. CASE Start(s)
        BY <1>4, <2>1 DEF Start, Joining, NumbersOK, Empty
    <2>2. CASE ListChildren(s)
        <3>1. phase[s] = "list" /\ table' = table /\ table[s] = Empty
            BY <1>4, <2>2 DEF ListChildren, Joining
        <3>2. CASE Numbers = {}
            <4>1. created = 0 /\ phase'[s] = "create" /\ table'[s] = Empty
                BY <1>4, <2>2, <3>1, <3>2, TailIs DEF ListChildren, NumbersOK, Agreeing
            <4> QED
                BY <1>1, <4>1 DEF Joining, TailHas, Empty
        <3>3. CASE Numbers # {}
            <4>1. created # 0 /\ phase'[s] = "locate" /\ source' = [source EXCEPT ![s] = created]
                BY <1>4, <2>2, <3>3, TailIs DEF ListChildren, NumbersOK, Agreeing
            <4>2. PICK u \in Servers : nodes[u] = created
                BY <1>4, <4>1, TailIs DEF Agreeing
            <4>3. TailHas(table[u])
                BY <4>1, <4>2 DEF TailHas, NumbersDiffer
            <4>4. source'[s] = created
                BY <4>1 DEF Tables
            <4>5. u \in Tail(s)' /\ TailHas(table[u])' /\ source'[s] # 0
                BY <1>1, <1>3, <3>1, <4>1, <4>2, <4>3, <4>4 DEF Tail
            <4> QED
                BY <4>1, <4>5 DEF Joining
        <3> QED
            BY <3>2, <3>3
    <2>3. CASE LocateTail(s)
        <3>1. /\ phase[s] = "locate" /\ phase'[s] = "dup_table" /\ source' = source /\ table' = table
            BY <2>3 DEF LocateTail, NumbersOK
        <3>2. PICK u \in Tail(s) : source[s] # 0 /\ TailHas(table[u])
            BY <1>4, <3>1 DEF Joining
        <3>3. u \in Tail(s)' /\ TailHas(table[u])'
            BY <1>1, <1>3, <3>1, <3>2 DEF Tail
        <3> QED
            BY <3>1, <3>2, <3>3 DEF Joining
    <2>4. CASE DupTable(s)
        <3>1. /\ phase[s] = "dup_table" /\ phase'[s] = "dup_size" /\ source' = source /\ table' = table
            BY <2>4 DEF DupTable, NumbersOK
        <3>2. PICK u \in Tail(s) : source[s] # 0 /\ TailHas(table[u])
            BY <1>4, <3>1 DEF Joining
        <3>3. Tail(s) = {u}
            BY <3>2 DEF Tail, NumbersDiffer
        <3>4. copy'[s] = Entries(table[u])
            BY <2>4, <3>3 DEF DupTable, Tables
        <3>5. u \in Tail(s)' /\ TailHas(table[u])' /\ Entries(table[u]) = Entries(table[u])'
            BY <1>1, <1>3, <3>1, <3>2 DEF Tail, Entries, Stored
        <3> QED
            BY <3>1, <3>2, <3>4, <3>5 DEF Joining
    <2>5. CASE DupSize(s)
        <3>1. phase[s] = "dup_size" /\ phase'[s] = "create"
            BY <2>5 DEF DupSize, NumbersOK
        <3>2. PICK u \in Tail(s) : /\ source[s] # 0 /\ TailHas(table[u])
                                   /\ copy[s] = Entries(table[u])
            BY <1>4, <3>1 DEF Joining
        <3>3. Tail(s) = {u}
            BY <3>2 DEF Tail, NumbersDiffer
        <3>4. PICK kept \in SUBSET copy[s] :
                 /\ Cardinality(kept) = Cardinality(Stored(table[u]))
                 /\ table' = [table EXCEPT ![s] =
                       [k \in Keys |-> IF \E v \in Values : <<k, v>> \in kept
                                         THEN CHOOSE v \in Values : <<k, v>> \in kept
                                         ELSE Absent]]
            BY <2>5, <3>3 DEF DupSize
        <3>5. u \in Servers /\ table[u] \in [Keys -> Values \union {Absent}]
            BY <3>2 DEF Tail, Tables
        <3>6. [k \in Keys |-> IF \E v \in Values : <<k, v>> \in kept
                                THEN CHOOSE v \in Values : <<k, v>> \in kept
                                ELSE Absent] = table[u]
            BY <3>2, <3>4, <3>5, WholeCopy
        <3>7. table'[s] = table[u]
            BY <3>4, <3>6 DEF Tables
        <3>8. created # 0
            BY <3>2, <3>5 DEF Tail, NumbersOK, NumbersDiffer
        <3> QED
            BY <1>1, <1>3, <3>1, <3>2, <3>7, <3>8 DEF Joining
    <2>6. CASE DupFails(s)
        <3>1. phase[s] \in {"dup_table", "dup_size"} /\ \A u \in Tail(s) : phase[u] = "dead"
            BY <2>6 DEF DupFails, TailDead
        <3>2. PICK u \in Tail(s) : source[s] # 0
            BY <1>4, <3>1 DEF Joining
        <3> QED
            BY <3>1, <3>2 DEF Tail, Calm
    <2>7. CASE RecordPath(s)
        BY <2>7 DEF RecordPath, Joining, NumbersOK
    <2> QED
        BY <2>1, <2>2, <2>3, <2>4, <2>5, <2>6, <2>7
<1> QED
    BY <1>1, <1>2, <1>5, Steady

\* A new last server has the table of the one before it.
LEMMA CreateInStep == ASSUME ReplicaInv, Calm, NEW s \in Servers, CreateNode(s) PROVE Agreeing'
<1> USE DEF ReplicaInv, LinkInv, ChainInv, NumbersOK, NumbersDiffer
<1>1. /\ phase[s] = "create" /\ nodes[s] = 0
      /\ created' = created + 1 /\ nodes' = [nodes EXCEPT ![s] = created']
      /\ phase' = [phase EXCEPT ![s] = "record"]
      /\ \A t \in Servers \ {s} : copy'[t] = copy[t] /\ source'[t] = source[t]
      /\ UNCHANGED <<table, requests, job, nextPath>>
    BY DEF CreateNode, successor, work, PathInv, Unregistered, Tables
<1>2. Agreeing /\ TailHas(table[s]) /\ (created = 0 => table[s] = Empty)
    BY <1>1 DEF Agreeing, Joining
<1>3. \A t \in Servers \ {s} : nodes'[t] = nodes[t] /\ phase'[t] = phase[t]
    BY <1>1
<1>4. job[s] = {} /\ requests[s] = {}
  <2>1. job[s] = {}
      BY <1>1, <1>2 DEF Agreeing, JobsOK
  <2>2. ASSUME NEW r \in requests[s] PROVE FALSE
      BY <1>1, <1>2 DEF Agreeing, RequestsOK, Waits, Before
  <2> QED
      BY <2>1, <2>2
<1>5. \A t, u \in Servers : Before(t, u) => /\ t # s /\ u # s /\ Before(t, u)'
    BY <1>1, <1>3 DEF Before
<1>6. Dense'
  <2> SUFFICES ASSUME NEW n \in 1..(created + 1) PROVE \E u \in Servers : nodes'[u] = n
      BY <1>1 DEF Dense
  <2>1. CASE n = created + 1
      BY <1>1, <2>1
  <2>2. CASE n # created + 1
      <3>1. PICK u \in Servers : nodes[u] = n
          BY <1>2, <2>2 DEF Agreeing, Dense
      <3> QED
          BY <1>1, <1>3, <3>1
  <2> QED
      BY <2>1, <2>2
<1>7. \A tab : TailHas(tab) /\ created # 0 => TailHas(tab)'
  <2> TAKE tab
  <2> HAVE TailHas(tab) /\ created # 0
  <2>1. PICK w \in Servers : nodes[w] = created
      BY <1>2, TailIs DEF Agreeing
  <2>2. table[s] = tab
      BY <1>2, <2>1 DEF TailHas
  <2>3. \A u \in Servers : nodes'[u] = created' => u = s
      BY <1>1, <1>3
  <2> QED
      BY <1>1, <2>2, <2>3 DEF TailHas
<1>8. ASSUME NEW t \in Servers PROVE Joining(t)'
  <2>1. CASE t = s
      BY <1>1, <2>1 DEF Joining
  <2>2. CASE t # s
    <3>1. Joining(t) /\ phase'[t] = phase[t] /\ source'[t] = source[t] /\ copy'[t] = copy[t]
          /\ table' = table
        BY <1>1, <1>2, <1>3, <2>2 DEF Agreeing
    <3>2. CASE phase[t] \in {"locate", "dup_table", "dup_size"}
      <4>1. PICK u \in Tail(t) : /\ source[t] # 0 /\ TailHas(table[u])
                                 /\ phase[t] = "dup_size" => copy[t] = Entries(table[u])
          BY <3>1, <3>2 DEF Joining
      <4>2. u \in Servers /\ u # s /\ nodes[u] = source[t] /\ created # 0
          BY <1>1, <4>1 DEF Tail
      <4>3. u \in Tail(t)' /\ TailHas(table[u])'
          BY <1>3, <1>7, <3>1, <4>1, <4>2 DEF Tail
      <4>4. Entries(table[u])' = Entries(table[u])
          BY <3>1 DEF Entries, Stored
      <4> QED
          BY <3>1, <3>2, <4>1, <4>3, <4>4 DEF Joining
    <3>3. CASE phase[t] = "create"
      <4>1. CASE created = 0
        <5>1. table[t] = table[s]
            BY <1>2, <3>1, <3>3, <4>1 DEF Joining
        <5>2. \A u \in Servers : nodes'[u] = created' => u = s
            BY <1>1, <1>3
        <5> QED
            BY <1>1, <3>1, <3>3, <5>1, <5>2 DEF Joining, TailHas
      <4>2. CASE created # 0
          BY <1>1, <1>7, <3>1, <3>3, <4>2 DEF Joining
      <4> QED
          BY <4>1, <4>2
    <3> QED
        BY <3>1, <3>2, <3>3 DEF Joining, Empty
  <2> QED
      BY <2>1, <2>2
<1>9. ASSUME NEW t \in Servers PROVE JobsOK(t)'
  <2>1. CASE t = s
      BY <1>1, <1>4, <2>1 DEF JobsOK
  <2>2. CASE t # s
    <3>1. \A j \in job[t] : j.at = "wait" => j.to \in Servers
        BY DEF TargetsInv, Targets
    <3> QED
        BY <1>1, <1>2, <1>3, <1>5, <2>2, <3>1 DEF Agreeing, JobsOK, Waits
  <2> QED
      BY <2>1, <2>2
<1>10. ASSUME NEW t \in Servers PROVE RequestsOK(t)'
    BY <1>1, <1>2, <1>3, <1>4, <1>5 DEF Agreeing, RequestsOK, Waits
<1>11. ASSUME NEW t \in Servers, NEW u \in Servers, Before(t, u)' PROVE Behind(t, u)'
  <2>1. t # s
      BY <1>1, <1>3, <1>11 DEF Before
  <2>2. CASE u = s
    <3>1. nodes[t] = created /\ created # 0
        BY <1>1, <1>3, <1>11, <2>1, <2>2 DEF Before
    <3>2. table[t] = table[s]
        BY <1>2, <3>1 DEF TailHas
    <3> QED
        BY <1>1, <2>2, <3>2 DEF Behind
  <2>3. CASE u # s
      BY <1>1, <1>2, <1>3, <1>11, <2>1, <2>3 DEF Agreeing, Behind, Before
  <2> QED
      BY <2>2, <2>3
<1> QED
    BY <1>6, <1>8, <1>9, <1>10, <1>11 DEF Agreeing

\* The callback of a server that has a successor does not lose it.
LEMMA WatchInStep ==
    ASSUME ReplicaInv, Calm, NEW s \in Servers, HandleEvent(s) \/ GetAddress(s) \/ Connect(s)
    PROVE  Agreeing'
<1> USE DEF ReplicaInv, LinkInv, ChainInv
<1>1. UNCHANGED <<nodes, created, phase, copy, source, table, requests, job>>
  <2>1. CASE HandleEvent(s)
      BY <2>1 DEF HandleEvent, joining, work
  <2>2. CASE GetAddress(s)
      BY <2>2 DEF GetAddress, zookeeper, joining, work
  <2>3. CASE Connect(s)
      BY <2>3 DEF Connect, zookeeper, joining, work
  <2> QED
      BY <2>1, <2>2, <2>3
<1>2. \A u \in Servers : nextPath[u] # 0 => nextPath'[u] # 0
  <2>1. CASE HandleEvent(s)
    <3>1. PICK n \in Chosen(s) : nextPath' = [nextPath EXCEPT ![s] = IF n = 0 THEN 0 ELSE @]
        BY <2>1 DEF HandleEvent
    <3>2. ASSUME nextPath[s] # 0 PROVE n # 0
      <4>1. PICK u \in Servers : nodes[u] = nextPath[s]
          BY <3>2, LinkedToNext DEF Agreeing
      <4>2. nodes[u] \in Later(s)
          BY <3>2, <4>1 DEF Later, Numbers, Linked, Nearest, NumbersOK
      <4>3. n > path[s] /\ path[s] \in Nat
          BY <4>2 DEF Chosen, Later, NumbersOK
      <4> QED
          BY <4>3
    <3> QED
        BY <3>1, <3>2 DEF NumbersDiffer
  <2>2. CASE GetAddress(s)
      BY <2>2 DEF GetAddress, successor
  <2>3. CASE Connect(s)
      BY <2>3 DEF Connect, CallbackInv, NumbersDiffer
  <2> QED
      BY <2>1, <2>2, <2>3
<1>3. Joining(s)'
  <2>1. Joining(s)
      BY DEF Agreeing
  <2> QED
      BY <1>1, <2>1 DEF Joining, Tail, TailHas, Entries, Stored, Empty
<1> QED
    BY <1>1, <1>2, <1>3, Steady

-----------------------------------------------------------------------------
(* A write goes down the chain, and its answers come back.                 *)

\* Joining depends on the chain and the tables only.
LEMMA StillJoining ==
    ASSUME Agreeing, UNCHANGED <<nodes, created, phase, copy, source, table>>
    PROVE  Dense' /\ \A t \in Servers : Joining(t)'
<1>1. Dense'
    BY DEF Agreeing, Dense
<1>2. ASSUME NEW t \in Servers PROVE Joining(t)'
  <2>1. Joining(t)
      BY DEF Agreeing
  <2> QED
      BY <2>1 DEF Joining, Tail, TailHas, Entries, Stored, Empty
<1> QED
    BY <1>1, <1>2

LEMMA SendInStep == ASSUME ReplicaInv, Calm, NEW s \in Servers, Send(s) PROVE Agreeing'
<1> USE DEF ReplicaInv, LinkInv, ChainInv
<1>1. UNCHANGED <<nodes, created, phase, copy, source, table, job, nextPath>>
    BY DEF Send, zookeeper, joining, successor
<1>2. nodes[s] = 1
  <2>1. nodes[s] # 0 /\ nodes[s] = Least(Numbers) /\ nodes[s] \in Nat /\ nodes[s] <= created
      BY DEF Send, NumbersOK, NumbersDiffer
  <2>2. 1 \in Numbers /\ Numbers \subseteq Nat
      BY <2>1 DEF Agreeing, Dense, Numbers, NumbersOK
  <2>3. Least(Numbers) <= 1
      BY <2>2, LeastIsLeast
  <2> QED
      BY <2>1, <2>3
<1>3. PICK k \in Keys, v \in Values \union {Absent} :
         requests' = [requests EXCEPT ![s] = @ \union
                         {[id |-> writes', key |-> k, value |-> v, from |-> Client]}]
    BY DEF Send
<1>4. \A t \in Servers : \A r \in requests'[t] : r \in requests[t] \/ (r.from = Client /\ nodes[t] = 1)
    BY <1>2, <1>3 DEF WorkOK
<1>5. \A t \in Servers : requests[t] \subseteq requests'[t]
    BY <1>3 DEF WorkOK
<1>6. ASSUME NEW t \in Servers PROVE JobsOK(t)'
    BY <1>1, <1>4 DEF Agreeing, JobsOK, Waits, Before
<1>7. ASSUME NEW t \in Servers PROVE RequestsOK(t)'
    BY <1>1, <1>4 DEF Agreeing, RequestsOK, Waits, Before
<1>8. ASSUME NEW t \in Servers, NEW u \in Servers, Before(t, u)' PROVE Behind(t, u)'
  <2>1. Behind(t, u)
      BY <1>1, <1>8 DEF Agreeing, Before
  <2> QED
      BY <1>1, <1>5, <2>1 DEF Behind
<1> QED
    BY <1>1, <1>6, <1>7, <1>8, StillJoining DEF Agreeing

\* When every server is linked, the one that writes has its next server.
LEMMA ApplyInStep ==
    ASSUME ReplicaInv, Calm, NEW s \in Servers, Apply(s), Calm'
    PROVE  Agreeing'
<1> USE DEF ReplicaInv, LinkInv, ChainInv
<1>1. /\ UNCHANGED <<nodes, created, phase, copy, source, nextPath>>
      /\ phase[s] = "up" /\ job[s] = {} /\ Settled
    BY DEF Apply, zookeeper, joining, successor, Calm
<1>2. PICK r \in requests[s] :
         /\ requests' = [requests EXCEPT ![s] = @ \ {r}]
         /\ table' = [table EXCEPT ![s][r.key] = r.value]
         /\ Write(s, r, IF nextPath[s] # 0 THEN "forward" ELSE "answer")
    BY DEF Apply
<1> DEFINE at == IF nextPath[s] # 0 THEN "forward" ELSE "answer"
           new == [id |-> r.id, key |-> r.key, value |-> r.value,
                   from |-> r.from, to |-> Client, at |-> at]
<1>3. job'[s] = {new} /\ \A t \in Servers \ {s} : job'[t] = job[t]
    BY <1>1, <1>2 DEF Write, WorkOK
<1>4. requests'[s] = requests[s] \ {r} /\ \A t \in Servers \ {s} : requests'[t] = requests[t]
    BY <1>2 DEF WorkOK
<1>5. /\ r.key \in Keys /\ table'[s][r.key] = r.value
      /\ \A k \in Keys \ {r.key} : table'[s][k] = table[s][k]
      /\ \A t \in Servers \ {s} : table'[t] = table[t]
    BY <1>2 DEF Tables, WorkOK, Writes
<1>6. \A p, t, x : Waits(p, t, x) => p \in Servers \ {s} /\ Waits(p, t, x)'
    BY <1>1, <1>3 DEF Waits, Before
<1>7. Dense'
    BY <1>1 DEF Agreeing, Dense
<1>8. ASSUME NEW t \in Servers PROVE Joining(t)'
  <2>1. phase[t] \in {"down", "up"}
      BY <1>1 DEF Settled, Calm
  <2>2. phase[t] = "down" => table[t] = Empty /\ t # s
      BY <1>1 DEF Agreeing, Joining
  <2> QED
      BY <1>1, <1>5, <2>1, <2>2 DEF Joining, Empty
<1>9. ASSUME NEW t \in Servers PROVE JobsOK(t)'
  <2>1. CASE t = s
    <3>1. r.from # Client => /\ Waits(r.from, s, r)
                             /\ \A q \in requests[s] : q.from = r.from => q = r
        BY DEF Agreeing, RequestsOK
    <3>2. r.from # Client => Waits(r.from, s, new)'
        BY <1>6, <3>1 DEF Waits
    <3>3. r.from = Client => nodes'[s] = 1
        BY <1>1 DEF Agreeing, RequestsOK
    <3> QED
        BY <1>1, <1>3, <1>4, <1>5, <2>1, <3>1, <3>2, <3>3 DEF JobsOK
  <2>2. CASE t # s
    <3>1. JobsOK(t)
        BY DEF Agreeing
    <3> QED
        BY <1>1, <1>3, <1>4, <1>5, <1>6, <2>2, <3>1 DEF JobsOK, Before
  <2> QED
      BY <2>1, <2>2
<1>10. ASSUME NEW t \in Servers PROVE RequestsOK(t)'
  <2>1. RequestsOK(t) /\ requests'[t] \subseteq requests[t]
      BY <1>4 DEF Agreeing
  <2> QED
      BY <1>1, <1>6, <2>1 DEF RequestsOK
<1>11. ASSUME NEW t \in Servers, NEW u \in Servers, Before(t, u)' PROVE Behind(t, u)'
  <2>1. Before(t, u) /\ Behind(t, u) /\ t # u
      BY <1>1, <1>11, OneNeighbour DEF Agreeing, Before
  <2>2. CASE t = s
    <3>1. nextPath[s] # 0
      <4>1. nextPath[s] = NextNode(s)
          BY <1>1, LinksOrdered DEF LinkedInOrder
      <4>2. nodes[u] \in {n \in Numbers : n > nodes[s]}
          BY <2>1, <2>2 DEF Before, Numbers, NumbersOK
      <4>3. {n \in Numbers : n > nodes[s]} \subseteq Nat \ {0}
          BY DEF Numbers, NumbersOK
      <4> QED
          BY <4>1, <4>2, <4>3, LeastIsLeast DEF NextNode
    <3>2. \A k \in Keys : table[s][k] = table[u][k]
        BY <1>1, <2>1, <2>2 DEF Behind
    <3>3. new \in job'[s] /\ new.key = r.key /\ new.at = "forward"
        BY <1>3, <3>1
    <3> HIDE DEF new
    <3>4. \A k \in Keys : table'[s][k] # table'[u][k] => k = r.key
        BY <1>5, <2>1, <2>2, <3>2
    <3> QED
        BY <2>2, <3>3, <3>4 DEF Behind
  <2>3. CASE u = s
    <3> SUFFICES ASSUME NEW k \in Keys, table[t][k] # table'[s][k]
                 PROVE  \E j \in job[t] : /\ j.key = k /\ j.at \in {"forward", "wait"}
                                          /\ j.at = "wait" => \E q \in requests'[s] : q.from = t
        BY <1>3, <1>5, <2>1, <2>3 DEF Behind
    <3>1. JobsOK(t) /\ RequestsOK(s)
        BY DEF Agreeing
    <3>2. r.from = t => \E i \in job[t] : i.at = "wait" /\ i.key = r.key /\ i.value = r.value
      <4>1. t # Client
          BY ChainAssumption DEF ChainAssumption
      <4> QED
          BY <3>1, <4>1 DEF RequestsOK, Waits
    <3>3. r.from = t \/ k # r.key
      <4>1. r.from # Client
          BY <2>1, <2>3, <3>1 DEF RequestsOK, Before, NumbersOK
      <4>2. r.from = t
          BY <2>1, <2>3, <3>1, <4>1, OneNeighbour DEF RequestsOK, Waits
      <4> QED
          BY <4>2
    <3>4. k # r.key
        BY <1>5, <3>1, <3>2, <3>3 DEF JobsOK
    <3>5. PICK j \in job[t] : /\ j.key = k /\ j.at \in {"forward", "wait"}
                              /\ j.at = "wait" => \E q \in requests[s] : q.from = t
        BY <1>5, <2>1, <2>3, <3>4 DEF Behind
    <3>6. r.from # t
        BY <3>1, <3>2, <3>4, <3>5 DEF JobsOK
    <3> QED
        BY <1>4, <3>5, <3>6
  <2>4. CASE t # s /\ u # s
      BY <1>3, <1>4, <1>5, <2>1, <2>4 DEF Behind
  <2> QED
      BY <2>2, <2>3, <2>4
<1> QED
    BY <1>7, <1>8, <1>9, <1>10, <1>11 DEF Agreeing

\* A write is handed on to the next server, which has no other one of s.
LEMMA ForwardInStep == ASSUME ReplicaInv, Calm, NEW s \in Servers, Forward(s) PROVE Agreeing'
<1> USE DEF ReplicaInv, LinkInv, ChainInv
<1>1. UNCHANGED <<nodes, created, phase, copy, source, table, nextPath>>
    BY DEF Forward, zookeeper, joining, successor
<1>2. JobsOK(s)
    BY DEF Agreeing
<1>3. PICK j \in job[s] :
         /\ requests' = [requests EXCEPT ![link[s]] = @ \union
                {[id |-> j.id, key |-> j.key, value |-> j.value, from |-> s]}]
         /\ job' = [job EXCEPT ![s] = {[j EXCEPT !.at = "wait", !.to = link[s]]}]
    BY DEF Forward
<1>4. job[s] = {j} /\ j.at = "forward" /\ nextPath[s] # 0 /\ j \in Jobs
    BY <1>2, <1>3 DEF Forward, At, JobsOK, WorkOK
<1>5. PICK u \in Servers : u = link[s] /\ Before(s, u) /\ u # s
    BY <1>4, LinkedToNext, OneNeighbour DEF Agreeing
<1>6. PICK sent : sent = [j EXCEPT !.at = "wait", !.to = u]
    OBVIOUS
<1>7. PICK new : new = [id |-> j.id, key |-> j.key, value |-> j.value, from |-> s]
    OBVIOUS
<1>8. /\ sent.at = "wait" /\ sent.to = u
      /\ sent.key = j.key /\ sent.value = j.value /\ sent.from = j.from
      /\ new.key = j.key /\ new.value = j.value /\ new.from = s
    BY <1>4, <1>6, <1>7 DEF Jobs
<1>9. job'[s] = {sent} /\ \A t \in Servers \ {s} : job'[t] = job[t]
    BY <1>3, <1>5, <1>6 DEF WorkOK
<1>10. requests'[u] = requests[u] \union {new} /\ \A t \in Servers \ {u} : requests'[t] = requests[t]
    BY <1>3, <1>5, <1>7 DEF WorkOK
<1>11. \A p, t, x : Waits(p, t, x) => p \in Servers \ {s} /\ Waits(p, t, x)'
    BY <1>1, <1>4, <1>9 DEF Waits, Before
<1>12. ASSUME NEW t \in Servers PROVE JobsOK(t)'
  <2>1. CASE t = s
    <3>1. j.from # Client => Waits(j.from, s, sent)'
        BY <1>2, <1>4, <1>8, <1>11 DEF JobsOK, Waits
    <3> QED
        BY <1>1, <1>2, <1>4, <1>5, <1>8, <1>9, <1>10, <2>1, <3>1 DEF JobsOK, Before
  <2>2. CASE t # s
    <3>1. JobsOK(t) /\ job'[t] = job[t]
        BY <1>9, <2>2 DEF Agreeing
    <3>2. \A i \in job[t] : i.from # Client => /\ Waits(i.from, t, i)'
                                               /\ \A r \in requests'[t] : r.from # i.from
      <4> TAKE i \in job[t]
      <4> HAVE i.from # Client
      <4>1. Waits(i.from, t, i)' /\ i.from # s
          BY <1>11, <3>1 DEF JobsOK
      <4> QED
          BY <1>8, <1>10, <3>1, <4>1 DEF JobsOK
    <3> QED
        BY <1>1, <3>1, <3>2 DEF JobsOK, Before
  <2> QED
      BY <2>1, <2>2
<1>13. ASSUME NEW t \in Servers PROVE RequestsOK(t)'
  <2>1. RequestsOK(t)
      BY DEF Agreeing
  <2>2. ASSUME NEW r \in requests[t]
        PROVE  r.from # s /\ (r.from # Client => Waits(r.from, t, r)')
    <3>1. s # Client
        BY ChainAssumption DEF ChainAssumption
    <3> QED
        BY <1>11, <2>1, <3>1 DEF RequestsOK
  <2>3. CASE t = u
    <3>1. Waits(s, u, new)'
        BY <1>1, <1>5, <1>8, <1>9, <1>10 DEF Waits, Before
    <3>2. new.from = s /\ s # Client
        BY <1>8, ChainAssumption DEF ChainAssumption
    <3> QED
        BY <1>1, <1>10, <2>1, <2>2, <2>3, <3>1, <3>2 DEF RequestsOK
  <2>4. CASE t # u
      BY <1>1, <1>10, <2>1, <2>2, <2>4 DEF RequestsOK
  <2> QED
      BY <2>3, <2>4
<1>14. ASSUME NEW t \in Servers, NEW v \in Servers, Before(t, v)' PROVE Behind(t, v)'
  <2>1. Before(t, v) /\ Behind(t, v)
      BY <1>1, <1>14 DEF Agreeing, Before
  <2>2. CASE t = s
    <3>1. v = u
        BY <1>5, <2>1, <2>2, OneNeighbour
    <3>2. \A k \in Keys : table[s][k] # table[u][k] => j.key = k
        BY <1>4, <2>1, <2>2, <3>1 DEF Behind
    <3>3. new \in requests'[u] /\ new.from = s
        BY <1>8, <1>10
    <3> QED
        BY <1>1, <1>8, <1>9, <2>2, <3>1, <3>2, <3>3 DEF Behind
  <2>3. CASE t # s
      BY <1>1, <1>9, <1>10, <2>1, <2>3 DEF Behind
  <2> QED
      BY <2>2, <2>3
<1> QED
    BY <1>1, <1>12, <1>13, <1>14, StillJoining DEF Agreeing

\* Forwarding does not fail.
LEMMA NoneFails == ASSUME ReplicaInv, Calm, NEW s \in Servers PROVE ~ForwardFails(s)
<1> USE DEF ReplicaInv, LinkInv, ChainInv
<1>1. JobsOK(s)
    BY DEF Agreeing
<1>2. ASSUME At(s, "forward") PROVE link[s] \in Servers /\ Alive(link[s])
  <2>1. nextPath[s] # 0
      BY <1>1, <1>2 DEF At, JobsOK
  <2>2. link[s] \in Servers /\ nodes[link[s]] # 0
      BY <2>1, LinkedToNext DEF Agreeing, Before, NumbersOK
  <2> QED
      BY <2>2, AliveIfNumbered
<1>3. ASSUME NEW j \in job[s], j.at = "wait" PROVE Alive(j.to)
  <2>1. j.to \in Servers /\ Before(s, j.to)
      BY <1>1, <1>3 DEF JobsOK, TargetsInv, Targets
  <2>2. nodes[j.to] # 0
      BY <2>1 DEF Before, NumbersOK
  <2> QED
      BY <2>1, <2>2, AliveIfNumbered
<1> QED
    BY <1>2, <1>3 DEF ForwardFails

\* The answer of s releases the server before it, whose table s has by now.
LEMMA AnswerInStep == ASSUME ReplicaInv, Calm, NEW s \in Servers, Answer(s) PROVE Agreeing'
<1> USE DEF ReplicaInv, LinkInv, ChainInv
<1>1. UNCHANGED <<nodes, created, phase, copy, source, table, nextPath, requests>>
    BY DEF Answer, zookeeper, joining, successor
<1>2. \A t \in Servers : JobsOK(t) /\ RequestsOK(t)
    BY DEF Agreeing
<1>3. PICK j \in job[s] :
         job' = [t \in Servers |->
                    IF t = s THEN {}
                    ELSE IF t = j.from THEN {[i EXCEPT !.at = "answer"] : i \in job[t]}
                    ELSE job[t]]
    BY DEF Answer
<1> DEFINE p == j.from
<1>4. job[s] = {j} /\ j.at = "answer"
    BY <1>2, <1>3 DEF Answer, At, JobsOK
<1>5. p # Client => Waits(p, s, j) /\ p # s /\ \A r \in requests[s] : r.from # p
    BY <1>2, OneNeighbour DEF JobsOK, Waits
<1> HIDE DEF p
<1>6. /\ job'[s] = {} /\ \A t \in Servers \ {s, p} : job'[t] = job[t]
      /\ \A t \in Servers \ {s} : t = p => job'[t] = {[i EXCEPT !.at = "answer"] : i \in job[t]}
    BY <1>3 DEF p
<1>7. ASSUME NEW q, NEW t \in Servers, NEW x, Waits(q, t, x), t # s
      PROVE  Waits(q, t, x)'
  <2>1. q \in Servers /\ Before(q, t) /\ q # s
      BY <1>4, <1>7 DEF Waits
  <2>2. q # p
    <3>1. p # Client => Before(p, s) /\ p \in Servers
        BY <1>5 DEF Waits
    <3>2. q # Client
        BY <2>1, ChainAssumption DEF ChainAssumption
    <3> QED
        BY <1>7, <2>1, <3>1, <3>2, OneNeighbour
  <2> QED
      BY <1>1, <1>6, <1>7, <2>1, <2>2 DEF Waits, Before
<1>8. ASSUME NEW q, NEW x, Waits(q, s, x), q # p
      PROVE  Waits(q, s, x)'
  <2>1. q \in Servers \ {s}
      BY <1>4, <1>8 DEF Waits
  <2> QED
      BY <1>1, <1>6, <1>8, <2>1 DEF Waits, Before
<1>9. ASSUME NEW t \in Servers PROVE JobsOK(t)'
  <2>1. CASE t = s
      BY <1>6, <2>1 DEF JobsOK
  <2>2. CASE t # s /\ t # p
      BY <1>1, <1>2, <1>6, <1>7, <2>2 DEF JobsOK, Before
  <2>3. CASE t # s /\ t = p
    <3>1. PICK i \in job[t] : i \in Jobs /\ job[t] = {i}
        BY <1>2, <1>5, <2>3, ChainAssumption DEF Waits, JobsOK, WorkOK, ChainAssumption
    <3> DEFINE told == [i EXCEPT !.at = "answer"]
    <3>2. job'[t] = {told}
        BY <1>6, <2>3, <3>1
    <3>3. told.at = "answer" /\ told.key = i.key /\ told.value = i.value /\ told.from = i.from
        BY <3>1 DEF Jobs
    <3> HIDE DEF told
    <3>4. i.from # Client => Waits(i.from, t, told)'
      <4>1. ASSUME i.from # Client PROVE Waits(i.from, t, told)
          BY <1>2, <3>1, <3>3, <4>1 DEF JobsOK, Waits
      <4> QED
          BY <1>7, <2>3, <4>1
    <3> QED
        BY <1>1, <1>2, <3>1, <3>2, <3>3, <3>4 DEF JobsOK
  <2> QED
      BY <2>1, <2>2, <2>3
<1>10. ASSUME NEW t \in Servers PROVE RequestsOK(t)'
  <2>1. ASSUME NEW r \in requests[t], r.from # Client PROVE Waits(r.from, t, r)'
    <3>1. Waits(r.from, t, r)
        BY <1>2, <2>1 DEF RequestsOK
    <3>2. t = s => r.from # p
        BY <1>5, <2>1
    <3> QED
        BY <1>7, <1>8, <3>1, <3>2
  <2> QED
      BY <1>1, <1>2, <2>1 DEF RequestsOK
<1>11. ASSUME NEW t \in Servers, NEW v \in Servers, Before(t, v)' PROVE Behind(t, v)'
  <2>1. Before(t, v) /\ Behind(t, v)
      BY <1>1, <1>11 DEF Agreeing, Before
  <2>2. CASE t = s
      BY <1>1, <1>4, <2>1, <2>2 DEF Behind
  <2>3. CASE t # s /\ t = p
    <3>1. p # Client /\ Waits(p, s, j) /\ \A r \in requests[s] : r.from # p
        BY <1>5, <2>3, ChainAssumption DEF ChainAssumption
    <3>2. v = s
        BY <2>1, <2>3, <3>1, OneNeighbour DEF Waits
    <3>3. PICK i \in job[t] : job[t] = {i} /\ i.at = "wait"
        BY <1>2, <2>3, <3>1 DEF Waits, JobsOK
    <3>4. \A k \in Keys : table[t][k] = table[v][k]
        BY <2>1, <2>3, <3>1, <3>2, <3>3 DEF Behind
    <3> QED
        BY <1>1, <3>4 DEF Behind
  <2>4. CASE t # s /\ t # p
      BY <1>1, <1>6, <2>1, <2>4 DEF Behind
  <2> QED
      BY <2>2, <2>3, <2>4
<1> QED
    BY <1>1, <1>9, <1>10, <1>11, StillJoining DEF Agreeing

-----------------------------------------------------------------------------
(* All steps, and what follows from the invariant.                         *)

LEMMA GreatestIs == ASSUME NumbersOK, NumbersDiffer, Numbers # {} PROVE Greatest(Numbers) \in Nat
<1> DEFINE below == {created - n : n \in Numbers}
<1>1. \A n \in Numbers : n \in Nat /\ n <= created
    BY DEF Numbers, NumbersOK, NumbersDiffer
<1>2. below \in SUBSET Nat /\ below # {}
    BY <1>1 DEF NumbersOK
<1>3. Least(below) \in below /\ \A m \in below : Least(below) <= m
    BY <1>2, LeastIsLeast
<1>4. PICK n \in Numbers : Least(below) = created - n
    BY <1>3
<1>5. ASSUME NEW m \in Numbers PROVE n >= m
  <2>1. created - n <= created - m
      BY <1>3, <1>4
  <2> QED
      BY <1>1, <2>1 DEF NumbersOK
<1> QED
    BY <1>1, <1>5 DEF Greatest

LEMMA TablesKept == ASSUME ReplicaInv, [Next]_vars PROVE Tables'
<1> USE DEF ReplicaInv, LinkInv, ChainInv, Tables
<1> DEFINE Same == UNCHANGED <<table, copy, source>>
<1>1. ASSUME NEW s \in Servers, End(s) PROVE Tables'
    BY <1>1 DEF End, Empty
<1>2. ASSUME NEW s \in Servers, ListChildren(s) PROVE Tables'
  <2>1. source' \in [Servers -> Nat]
    <3>1. CASE Numbers = {}
        BY <1>2, <3>1 DEF ListChildren
    <3>2. CASE Numbers # {}
        BY <1>2, <3>2, GreatestIs DEF ListChildren
    <3> QED
        BY <3>1, <3>2
  <2> QED
      BY <1>2, <2>1 DEF ListChildren
<1>3. ASSUME NEW s \in Servers, DupTable(s) PROVE Tables'
  <2>1. \A u \in Servers : Entries(table[u]) \subseteq Keys \X Values
    <3> SUFFICES ASSUME NEW u \in Servers, NEW k \in Stored(table[u])
                 PROVE  <<k, table[u][k]>> \in Keys \X Values
        BY DEF Entries
    <3> QED
        BY DEF Stored
  <2> QED
      BY <1>3, <2>1 DEF DupTable, Tail
<1>4. ASSUME NEW s \in Servers, DupSize(s) PROVE Tables'
  <2>1. PICK kept \in SUBSET copy[s] :
           table' = [table EXCEPT ![s] =
               [k \in Keys |-> IF \E v \in Values : <<k, v>> \in kept
                                 THEN CHOOSE v \in Values : <<k, v>> \in kept
                                 ELSE Absent]]
      BY <1>4 DEF DupSize
  <2>2. [k \in Keys |-> IF \E v \in Values : <<k, v>> \in kept
                          THEN CHOOSE v \in Values : <<k, v>> \in kept
                          ELSE Absent] \in [Keys -> Values \union {Absent}]
      OBVIOUS
  <2> QED
      BY <1>4, <2>1, <2>2 DEF DupSize
<1>5. ASSUME NEW s \in Servers, DupFails(s) \/ CreateNode(s) PROVE Tables'
    BY <1>5 DEF DupFails, CreateNode
<1>6. ASSUME NEW s \in Servers, Apply(s) PROVE Tables'
  <2>1. PICK r \in requests[s] : table' = [table EXCEPT ![s][r.key] = r.value]
      BY <1>6 DEF Apply
  <2>2. r.key \in Keys /\ r.value \in Values \union {Absent}
      BY DEF WorkOK, Writes
  <2> QED
      BY <1>6, <2>1, <2>2 DEF Apply, joining
<1>7. ASSUME NEW s \in Servers,
             \/ Start(s) \/ LocateTail(s) \/ RecordPath(s)
             \/ HandleEvent(s) \/ GetAddress(s) \/ Connect(s)
             \/ Send(s) \/ Forward(s) \/ ForwardFails(s) \/ Answer(s) \/ Expire(s)
      PROVE  Same
  <2>1. CASE Start(s) \/ LocateTail(s) \/ RecordPath(s)
      BY <2>1 DEF Start, LocateTail, RecordPath, joining
  <2>2. CASE HandleEvent(s) \/ GetAddress(s) \/ Connect(s)
      BY <2>2 DEF HandleEvent, GetAddress, Connect, joining
  <2>3. CASE Send(s) \/ Forward(s) \/ ForwardFails(s) \/ Answer(s) \/ Expire(s)
      BY <2>3 DEF Send, Forward, ForwardFails, Answer, Expire, joining
  <2> QED
      BY <1>7, <2>1, <2>2, <2>3
<1>8. CASE UNCHANGED vars
    BY <1>8 DEF vars, joining
<1>9. ASSUME NEW s \in Servers, Crash(s) \/ TailGone(s) \/ DupOverrun(s) \/ DoubleFree(s) \/ ForwardDies(s)
      PROVE  End(s)
    BY <1>9 DEF Crash, TailGone, DupOverrun, DoubleFree, ForwardDies
<1>10. Same => Tables'
    OBVIOUS
<1> HIDE DEF Same, Tables
<1> QED
    BY <1>1, <1>2, <1>3, <1>4, <1>5, <1>6, <1>7, <1>8, <1>9, <1>10
       DEF Next, Step, Join, Watch, Serve, Done

\* No server has died, and none dies in this step.
LEMMA StillInStep == ASSUME ReplicaInv, Calm, Calm', [Next]_vars PROVE Agreeing'
<1>1. ASSUME NEW s \in Servers PROVE ~End(s) /\ ~Expire(s)
    BY DEF End, Expire, Calm, ReplicaInv, LinkInv, ChainInv, NumbersOK
<1>2. ASSUME NEW s \in Servers, Join(s) \/ Start(s) PROVE Agreeing'
    BY <1>1, <1>2, JoiningStep, CreateInStep DEF Join, TailGone, DupOverrun
<1>3. ASSUME NEW s \in Servers, Watch(s) PROVE Agreeing'
    BY <1>1, <1>3, WatchInStep DEF Watch, DoubleFree
<1>4. ASSUME NEW s \in Servers, Serve(s) PROVE Agreeing'
    BY <1>1, <1>4, ApplyInStep, ForwardInStep, NoneFails, AnswerInStep DEF Serve, ForwardDies
<1>5. ASSUME NEW s \in Servers, Send(s) PROVE Agreeing'
    BY <1>5, SendInStep
<1>6. CASE UNCHANGED vars
  <2>1. UNCHANGED <<nodes, created, phase, copy, source, table, nextPath, requests, job>>
      BY <1>6 DEF vars, zookeeper, joining, successor, work
  <2>2. Agreeing
      BY DEF ReplicaInv
  <2>3. \A s, u \in Servers : Before(s, u)' => Before(s, u) /\ Behind(s, u)'
      BY <2>1, <2>2 DEF Agreeing, Before, Behind
  <2>4. \A s \in Servers : JobsOK(s)' /\ RequestsOK(s)'
      BY <2>1, <2>2 DEF Agreeing, JobsOK, RequestsOK, Waits, Before
  <2> QED
      BY <2>1, <2>2, <2>3, <2>4, StillJoining DEF Agreeing
<1> QED
    BY <1>1, <1>2, <1>3, <1>4, <1>5, <1>6 DEF Next, Step, Done, Crash

\* Who has died stays dead, and what has happened has happened.
LEMMA NotCalmAgain == ASSUME ReplicaInv, [Next]_vars, Calm' PROVE Calm
<1> USE DEF ReplicaInv, LinkInv, ChainInv, NumbersOK
<1> DEFINE Past == (exposed => exposed') /\ \A t \in Servers : phase[t] = "dead" => phase'[t] = "dead"
<1>1. ASSUME NEW s \in Servers,
             \/ Start(s) \/ ListChildren(s) \/ LocateTail(s) \/ DupTable(s) \/ DupSize(s) \/ DupFails(s)
             \/ Send(s) \/ Apply(s) \/ Forward(s) \/ ForwardFails(s) \/ Answer(s)
      PROVE  Past
  <2>1. \A t \in Servers : phase[t] = "dead" => phase'[t] = "dead"
      BY <1>1, UnlinkingActions DEF Unlinking, Unregistered
  <2>2. exposed => exposed'
      BY <1>1 DEF Start, ListChildren, LocateTail, DupTable, DupSize, DupFails,
                  Send, Apply, Forward, ForwardFails, Answer
  <2> QED
      BY <2>1, <2>2
<1>2. ASSUME NEW s \in Servers, CreateNode(s) \/ RecordPath(s) PROVE Past
    BY <1>2 DEF CreateNode, RecordPath
<1>3. ASSUME NEW s \in Servers, HandleEvent(s) \/ GetAddress(s) \/ Connect(s) \/ Expire(s) PROVE Past
    BY <1>3 DEF HandleEvent, GetAddress, Connect, Expire, joining
<1>4. ASSUME NEW s \in Servers, Crash(s) \/ TailGone(s) \/ DupOverrun(s) \/ DoubleFree(s) \/ ForwardDies(s)
      PROVE  FALSE
    BY <1>4 DEF Crash, TailGone, DupOverrun, DoubleFree, ForwardDies, End, Calm
<1>5. ASSUME UNCHANGED vars PROVE Past
    BY <1>5 DEF vars, joining
<1>6. Past
  <2> HIDE DEF Past, ReplicaInv, LinkInv, ChainInv, NumbersOK
  <2>1. ASSUME NEW s \in Servers, Start(s) \/ Send(s) \/ Crash(s) PROVE Past
      BY <1>1, <1>4, <2>1
  <2>2. ASSUME NEW s \in Servers, Join(s) \/ Expire(s) PROVE Past
      BY <1>1, <1>2, <1>3, <1>4, <2>2 DEF Join
  <2>3. ASSUME NEW s \in Servers, Watch(s) \/ Serve(s) PROVE Past
      BY <1>1, <1>3, <1>4, <2>3 DEF Watch, Serve
  <2> QED
      BY <1>5, <2>1, <2>2, <2>3 DEF Next, Step, Done
<1> QED
    BY <1>6 DEF Calm

LEMMA ReplicasInductive ==
    ASSUME PathRecorded, SortedListing
    PROVE  ReplicaInv /\ [Next]_vars => ReplicaInv'
<1> SUFFICES ASSUME ReplicaInv, [Next]_vars PROVE ReplicaInv'
    OBVIOUS
<1>1. LinkInv'
    BY LinksInductive DEF ReplicaInv
<1> QED
    BY <1>1, TablesKept, StillInStep, NotCalmAgain DEF ReplicaInv

LEMMA ReplicasInitial == Init => ReplicaInv
<1> SUFFICES ASSUME Init PROVE ReplicaInv
    OBVIOUS
<1>1. LinkInv
    BY LinksInitial
<1>2. Tables
    BY DEF Init, Tables, Empty
<1>3. Dense
    BY DEF Init, Dense
<1>4. \A s \in Servers : Joining(s)
    BY DEF Init, Joining
<1>5. \A s \in Servers : JobsOK(s) /\ RequestsOK(s)
    BY DEF Init, JobsOK, RequestsOK
<1>6. \A s, u \in Servers : ~Before(s, u)
    BY DEF Init, Before
<1> QED
    BY <1>1, <1>2, <1>3, <1>4, <1>5, <1>6 DEF ReplicaInv, Agreeing

LEMMA OneBehind == ASSUME ReplicaInv PROVE ReplicaBehindByOneWrite
<1> USE DEF ReplicaInv
<1> SUFFICES ASSUME Calm, NEW s \in Servers, nextPath[s] # 0, NEW k \in Keys,
                    table[s][k] # table[Owner(nextPath[s])][k]
             PROVE  \E j \in job[s] : j.key = k /\ j.at \in {"forward", "wait"}
    BY DEF ReplicaBehindByOneWrite, Calm
<1>1. link[s] \in Servers /\ Before(s, link[s]) /\ nodes[link[s]] = nextPath[s]
    BY LinkedToNext DEF Agreeing
<1>2. Owner(nextPath[s]) = link[s]
    BY <1>1, OwnerIs DEF LinkInv
<1>3. Behind(s, link[s])
    BY <1>1 DEF Agreeing
<1> QED
    BY <1>2, <1>3 DEF Behind

\* A table differs from the next one of the chain only in the key that is being
\* written, which the next server answers for: what invoke of table_skel.c keeps
\* by forwarding under the write lock, and dup_table_from_server by copying the
\* last table, as long as no server dies and no write runs before all servers
\* are linked.
THEOREM ReplicasFollow ==
    ASSUME PathRecorded, SortedListing
    PROVE  Spec => []ReplicaBehindByOneWrite
<1>1. ReplicaInv /\ [Next]_vars => ReplicaInv'
    BY ReplicasInductive
<1>2. Spec => []ReplicaInv
    BY <1>1, ReplicasInitial, PTL DEF Spec
<1> QED
    BY <1>2, OneBehind, PTL

-----------------------------------------------------------------------------
(* What is answered has reached the end of the chain.                      *)

\* A server that waits for nobody has left the next one nothing to do, and the
\* next table is the same.
LEMMA NothingHandedOn ==
    ASSUME ReplicaInv, Calm, NEW s \in Servers, NEW u \in Servers, Before(s, u),
           \A j \in job[s] : j.at = "answer"
    PROVE  job[u] = {} /\ requests[u] = {} /\ \A k \in Keys : table[u][k] = table[s][k]
<1> USE DEF ReplicaInv, LinkInv, ChainInv
<1>1. nodes[u] # 1
    BY DEF Before, NumbersOK
<1>2. ASSUME NEW x, x.from # Client, Waits(x.from, u, x) PROVE FALSE
    BY <1>2, OneNeighbour DEF Waits
<1>3. job[u] = {}
    BY <1>1, <1>2 DEF Agreeing, JobsOK
<1>4. requests[u] = {}
    BY <1>1, <1>2 DEF Agreeing, RequestsOK
<1>5. Behind(s, u)
    BY DEF Agreeing
<1> QED
    BY <1>3, <1>4, <1>5 DEF Behind

\* From one server of the chain to the next, down to the last: the least number
\* that it does not reach would be the number after one that it does reach.
LEMMA NothingBelow ==
    ASSUME ReplicaInv, Calm, NEW s \in Servers, nodes[s] # 0, \A j \in job[s] : j.at = "answer"
    PROVE  \A u \in Servers : nodes[u] > nodes[s] =>
               job[u] = {} /\ requests[u] = {} /\ \A k \in Keys : table[u][k] = table[s][k]
<1> USE DEF ReplicaInv, LinkInv, ChainInv, NumbersOK, NumbersDiffer
<1> DEFINE Quiet(u) == job[u] = {} /\ requests[u] = {} /\ \A k \in Keys : table[u][k] = table[s][k]
           Unlike == {n \in Nat : n > nodes[s] /\ \E u \in Servers : nodes[u] = n /\ ~Quiet(u)}
<1>1. CASE Unlike = {}
    BY <1>1
<1>2. CASE Unlike # {}
  <2>1. Unlike \in SUBSET Nat
      OBVIOUS
  <2>2. PICK n \in Unlike : \A m \in Unlike : n <= m
      BY <1>2, <2>1, LeastIsLeast
  <2>3. PICK u \in Servers : nodes[u] = n /\ ~Quiet(u)
      BY <2>2
  <2>4. PICK v \in Servers : nodes[v] = n - 1
    <3>1. n - 1 \in 1..created
        BY <2>2, <2>3
    <3> QED
        BY <3>1 DEF Agreeing, Dense
  <2>5. Before(v, u)
      BY <2>2, <2>3, <2>4 DEF Before
  <2>6. v = s \/ Quiet(v)
      BY <2>2, <2>4
  <2>7. (\A j \in job[v] : j.at = "answer") /\ \A k \in Keys : table[v][k] = table[s][k]
      BY <2>6
  <2> QED
      BY <2>3, <2>5, <2>7, NothingHandedOn
<1> QED
    BY <1>1, <1>2

LEMMA AnsweredBelow == ASSUME ReplicaInv PROVE AnsweredByAll
<1> USE DEF ReplicaInv
<1> SUFFICES ASSUME Calm, NEW s \in Servers, NEW u \in Servers, nodes[u] > nodes[s],
                    NEW j \in job[s], j.at = "answer"
             PROVE  table[u][j.key] = j.value
    BY DEF AnsweredByAll, Calm
<1>1. JobsOK(s) /\ j.key \in Keys
    BY DEF Agreeing, LinkInv, ChainInv, WorkOK, Jobs
<1>2. nodes[s] # 0 /\ table[s][j.key] = j.value /\ \A i \in job[s] : i = j
    BY <1>1 DEF JobsOK, LinkInv, Watched
<1> QED
    BY <1>1, <1>2, NothingBelow

\* A write is answered, to the client or to the server before, only when every
\* later server of the chain has stored it: what rtable_put and rtable_del give
\* invoke by waiting for the answer of the next server, as long as no server
\* dies and no write runs before all servers are linked.
THEOREM AnswersAreStored ==
    ASSUME PathRecorded, SortedListing
    PROVE  Spec => []AnsweredByAll
<1>1. ReplicaInv /\ [Next]_vars => ReplicaInv'
    BY ReplicasInductive
<1>2. Spec => []ReplicaInv
    BY <1>1, ReplicasInitial, PTL DEF Spec
<1> QED
    BY <1>2, AnsweredBelow, PTL
=============================================================================
