------------------------------- MODULE Table -------------------------------
(***************************************************************************)
(* The table of a server: a hash table (table.c) of sorted linked lists    *)
(* (list.c) of entries (entry.c).  The requests run one at a time; that    *)
(* they may is for TableSkel to show.  The module checks that the lists    *)
(* behave as the function from keys to values that KVStore, TableSkel and  *)
(* Chain take the table for.                                               *)
(*                                                                         *)
(* A key is the sequence of its characters, as the signed chars that       *)
(* hash_code adds up; memory allocation does not fail.                     *)
(***************************************************************************)
EXTENDS Integers, FiniteSets, SequencesExt

CONSTANTS NLists,        \* n_lists, the argument of the server
          Keys, Values,
          Absent,        \* what a key without an entry is mapped to
          IntBits        \* width of an int (32 in the code)

ASSUME TableAssumption ==
    /\ NLists \in Nat \ {0}
    /\ IntBits \in Nat \ {0}
    /\ Keys \subseteq Seq((-128..127) \ {0})
    /\ Absent \notin Values

VARIABLES lists,    \* table->lists: the entries of each list, from its head
          size,     \* list->size, which list_get_keys allocates by
          answer    \* what the last request returned

vars == <<lists, size, answer>>

Rows == 0..(NLists - 1)
Least(S) == CHOOSE n \in S : \A m \in S : n <= m

-----------------------------------------------------------------------------
(* hash_code.                                                              *)

\* result = result * 31 + key[i]: of the unsigned long long only the bits of
\* an int count in the end.
Code(key) ==
    LET result[n \in 0..Len(key)] ==
            IF n = 0 THEN 7 ELSE (result[n - 1] * 31 + key[n]) % 2^IntBits
    IN result[Len(key)]

\* (int) result
ToInt(c) == IF c >= 2^(IntBits - 1) THEN c - 2^IntBits ELSE c

\* % of C, which truncates towards zero.
Rem(a, n) == IF a >= 0 THEN a % n ELSE -((-a) % n)

\* Mutant: the sign of the remainder is kept.
HashSigned(key) == Rem(ToInt(Code(key)), NLists)

hash_code(key) ==
    LET r == Rem(ToInt(Code(key)), NLists) IN IF r >= 0 THEN r ELSE -r

-----------------------------------------------------------------------------
(* list.c and entry.c.                                                     *)

\* strcmp compares unsigned chars.
Byte(c) == c % 256

\* entry_compare(a, b) = -1
Lesser(a, b) ==
    \/ IsStrictPrefix(a, b)
    \/ \E n \in (1..Len(a)) \intersect (1..Len(b)) :
          /\ \A m \in 1..(n - 1) : a[m] = b[m]
          /\ Byte(a[n]) < Byte(b[n])

\* The node at which list_add stops: the first that is not before the key.
Stop(list, key) ==
    Least({n \in 1..Len(list) : ~Lesser(list[n].key, key)} \union {Len(list) + 1})

\* The nodes with the key; list_get and list_remove take the first.
Nodes(list, key) == {n \in 1..Len(list) : list[n].key = key}

list_size(list) == Len(list)
list_get_keys(list) == [n \in 1..Len(list) |-> list[n].key]

-----------------------------------------------------------------------------
(* table.c.                                                                *)

Init ==
    /\ lists = [r \in Rows |-> <<>>]
    /\ size = [r \in Rows |-> 0]
    /\ answer = <<"READY">>

\* list_add meets an entry with the key, and takes the new one in its place.
Replace(k, v) ==
    LET r == hash_code(k)
        at == Stop(lists[r], k)
    IN /\ at \in Nodes(lists[r], k)
       /\ lists' = [lists EXCEPT ![r][at] = [key |-> k, value |-> v]]
       /\ answer' = <<"PUT">>
       /\ UNCHANGED size

\* Mutant: the new entry goes to the end of the list.
AppendEntry(k, v) ==
    LET r == hash_code(k)
        at == Stop(lists[r], k)
    IN /\ at \notin Nodes(lists[r], k)
       /\ lists' = [lists EXCEPT ![r] = Append(@, [key |-> k, value |-> v])]
       /\ size' = [size EXCEPT ![r] = @ + 1]
       /\ answer' = <<"PUT">>

\* list_add meets a later entry, or the end of the list.
Insert(k, v) ==
    LET r == hash_code(k)
        at == Stop(lists[r], k)
    IN /\ at \notin Nodes(lists[r], k)
       /\ lists' = [lists EXCEPT ![r] = InsertAt(@, at, [key |-> k, value |-> v])]
       /\ size' = [size EXCEPT ![r] = @ + 1]
       /\ answer' = <<"PUT">>

table_put(k, v) == Replace(k, v) \/ Insert(k, v)

\* list_get and data_dup.
table_get(k) ==
    LET list == lists[hash_code(k)]
        found == Nodes(list, k)
    IN /\ answer' = <<"GET", IF found = {} THEN Absent ELSE list[Least(found)].value>>
       /\ UNCHANGED <<lists, size>>

\* Mutant: list_remove leaves the head of the list where it is.
RemoveAfterHead(k) ==
    LET r == hash_code(k)
        found == Nodes(lists[r], k) \ {1}
    IN IF found = {}
         THEN /\ answer' = <<"DEL", FALSE>>
              /\ UNCHANGED <<lists, size>>
         ELSE /\ answer' = <<"DEL", TRUE>>
              /\ lists' = [lists EXCEPT ![r] = RemoveAt(@, Least(found))]
              /\ size' = [size EXCEPT ![r] = @ - 1]

\* list_remove
table_remove(k) ==
    LET r == hash_code(k)
        found == Nodes(lists[r], k)
    IN IF found = {}
         THEN /\ answer' = <<"DEL", FALSE>>
              /\ UNCHANGED <<lists, size>>
         ELSE /\ answer' = <<"DEL", TRUE>>
              /\ lists' = [lists EXCEPT ![r] = RemoveAt(@, Least(found))]
              /\ size' = [size EXCEPT ![r] = @ - 1]

\* The entries of the lists, one list after the other.
AllEntries == FlattenSeq([r \in 1..NLists |-> lists[r - 1]])

\* table_size walks the lists; it does not read list->size.
table_size ==
    /\ answer' = <<"SIZE", Len(AllEntries)>>
    /\ UNCHANGED <<lists, size>>

\* Mutant: the walk over the copied keys ends one key early.
KeysButLast ==
    /\ answer' = <<"GETKEYS",
          FlattenSeq([r \in 1..NLists |->
              SubSeq(list_get_keys(lists[r - 1]), 1, list_size(lists[r - 1]) - 1)])>>
    /\ UNCHANGED <<lists, size>>

table_get_keys ==
    /\ answer' = <<"GETKEYS",
          FlattenSeq([r \in 1..NLists |->
              SubSeq(list_get_keys(lists[r - 1]), 1, list_size(lists[r - 1]))])>>
    /\ UNCHANGED <<lists, size>>

table_get_entries ==
    /\ answer' = <<"GETTABLE", AllEntries>>
    /\ UNCHANGED <<lists, size>>

Next == \/ \E k \in Keys : \/ \E v \in Values : table_put(k, v)
                           \/ table_get(k)
                           \/ table_remove(k)
        \/ table_size \/ table_get_keys \/ table_get_entries

Spec == Init /\ [][Next]_vars

-----------------------------------------------------------------------------
Entries == [key : Keys, value : Values]

\* A key's list exists, for whatever value and sign its hash code has.
TypeOK ==
    /\ \A k \in Keys : hash_code(k) \in Rows
    /\ lists \in [Rows -> Seq(Entries)]
    /\ size \in [Rows -> Nat]

\* The function from keys to values that the lists stand for.
Bound(k) == {e \in UNION {ToSet(lists[r]) : r \in Rows} : e.key = k}
Map == [k \in Keys |-> IF Bound(k) = {} THEN Absent ELSE (CHOOSE e \in Bound(k) : TRUE).value]

\* Every list is sorted, without a key twice, holds only keys that hash to it,
\* and has as many nodes as its size says: list_get_keys writes one key for
\* each node into an array that was allocated by the size.
ListsWellFormed ==
    \A r \in Rows :
        /\ \A m, n \in 1..Len(lists[r]) : m < n => Lesser(lists[r][m].key, lists[r][n].key)
        /\ \A n \in 1..Len(lists[r]) : hash_code(lists[r][n].key) = r
        /\ size[r] = Len(lists[r])

KV == INSTANCE KVStore WITH Threads <- {}, store <- Map, request <- <<>>, answer <- <<>>

\* Each operation changes the table, and answers, as KVStore says of the
\* function that the lists stand for.
OperationsCorrect ==
    [][/\ \A k \in Keys :
             /\ \A v \in Values : table_put(k, v) => /\ Map' = KV!Effect(Map, <<"PUT", k, v>>)
                                                     /\ answer' = KV!Result(Map, <<"PUT", k, v>>)
             /\ table_get(k) => /\ Map' = KV!Effect(Map, <<"GET", k>>)
                                /\ answer' = KV!Result(Map, <<"GET", k>>)
             /\ table_remove(k) => /\ Map' = KV!Effect(Map, <<"DEL", k>>)
                                   /\ answer' = KV!Result(Map, <<"DEL", k>>)
       /\ table_size => /\ Map' = KV!Effect(Map, <<"SIZE">>)
                        /\ answer' = KV!Result(Map, <<"SIZE">>)]_vars

\* A copy of the keys, or of the entries, has each stored key once and the
\* value that belongs to it.
CopiesComplete ==
    /\ answer[1] = "GETKEYS" => /\ IsInjective(answer[2])
                                /\ ToSet(answer[2]) = KV!Stored(Map)
    /\ answer[1] = "GETTABLE" => /\ IsInjective(answer[2])
                                 /\ ToSet(answer[2]) = {[key |-> k, value |-> Map[k]] : k \in KV!Stored(Map)}
=============================================================================
