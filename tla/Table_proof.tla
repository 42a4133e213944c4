---------------------------- MODULE Table_proof ----------------------------
(***************************************************************************)
(* Proofs about Table, for any keys, values and number of lists: the lists *)
(* stay sorted and counted, they are a function from keys to values, as    *)
(* KVStore has it, and a copy of them is complete.  It all rests on        *)
(* entry_compare being a strict total order of the keys (strcmp by unsigned *)
(* chars, a prefix first) and on hash_code numbering one list for each key. *)
(***************************************************************************)
EXTENDS Table, SequenceTheorems, FiniteSetTheorems, WellFoundedInduction, TLAPS

Chars == (-128..127) \ {0}

\* A set of naturals has a least element.
LEMMA LeastIsLeast ==
    ASSUME NEW S \in SUBSET Nat, S # {}
    PROVE  Least(S) \in S /\ \A m \in S : Least(S) <= m
<1>1. PICK n \in S : \A m \in S : ~(<<m, n>> \in OpToRel(<, Nat))
    BY NatLessThanWellFounded, WFMin
<1>2. \A m \in S : n <= m
    <2> TAKE m \in S
    <2>1. <<m, n>> \in Nat \X Nat /\ ~(m < n)
        BY <1>1 DEF OpToRel
    <2> QED
        BY <2>1
<1> QED
    BY <1>2 DEF Least

\* Different characters are different bytes.
LEMMA ByteOf == ASSUME NEW c \in Chars PROVE Byte(c) = IF c < 0 THEN c + 256 ELSE c
<1>1. c \in -128..127
    BY DEF Chars
<1> QED
    BY <1>1 DEF Byte

LEMMA BytesDiffer ==
    ASSUME NEW c \in Chars, NEW d \in Chars, c # d
    PROVE  Byte(c) < Byte(d) \/ Byte(d) < Byte(c)
<1>1. c \in -128..127 /\ d \in -128..127
    BY DEF Chars
<1> QED
    BY <1>1, ByteOf

\* A strict prefix, character by character.
LEMMA StrictPrefixIs ==
    ASSUME NEW a \in Seq(Chars), NEW b \in Seq(Chars)
    PROVE  IsStrictPrefix(a, b) <=> Len(a) < Len(b) /\ \A n \in 1..Len(a) : a[n] = b[n]
<1>1. Len(a) \in Nat /\ Len(b) \in Nat
    OBVIOUS
<1>2. SubSeq(a, 1, Len(a)) = a
    BY SubSeqFull
<1>3. ASSUME Len(a) <= Len(b) PROVE (a = SubSeq(b, 1, Len(a))) <=> \A n \in 1..Len(a) : a[n] = b[n]
    <2>1. \A n \in 1..Len(a) : b[n] \in Chars
        BY <1>1, <1>3, ElementOfSeq
    <2>2. /\ SubSeq(b, 1, Len(a)) \in Seq(Chars)
          /\ Len(SubSeq(b, 1, Len(a))) = Len(a)
          /\ \A n \in 1..Len(a) : SubSeq(b, 1, Len(a))[n] = b[n]
        BY <1>1, <2>1, SubSeqProperties
    <2> QED
        BY <2>2, SeqEqual
<1>4. ASSUME Len(a) = Len(b), \A n \in 1..Len(a) : a[n] = b[n] PROVE a = b
    BY <1>4, SeqEqual
<1> QED
    BY <1>1, <1>2, <1>3, <1>4 DEF IsStrictPrefix, IsPrefix

\* entry_compare orders the keys.
LEMMA LesserTransitive ==
    ASSUME NEW a \in Seq(Chars), NEW b \in Seq(Chars), NEW c \in Seq(Chars), Lesser(a, b), Lesser(b, c)
    PROVE  Lesser(a, c)
<1> DEFINE Differ(x, y, n) == /\ n \in (1..Len(x)) \intersect (1..Len(y))
                              /\ \A m \in 1..(n - 1) : x[m] = y[m]
                              /\ Byte(x[n]) < Byte(y[n])
<1>0. /\ Len(a) \in Nat /\ Len(b) \in Nat /\ Len(c) \in Nat
      /\ \A n \in 1..Len(a) : Byte(a[n]) \in Int
      /\ \A n \in 1..Len(b) : Byte(b[n]) \in Int
      /\ \A n \in 1..Len(c) : Byte(c[n]) \in Int
    <2>1. ASSUME NEW d \in Chars PROVE Byte(d) \in Int
        BY <2>1, ByteOf DEF Chars
    <2> QED
        BY <2>1, ElementOfSeq
<1>1. CASE IsStrictPrefix(a, b) /\ IsStrictPrefix(b, c)
    BY <1>0, <1>1, StrictPrefixIs DEF Lesser
<1>2. ASSUME IsStrictPrefix(a, b), NEW n, Differ(b, c, n) PROVE Lesser(a, c)
    <2>1. CASE n \in 1..Len(a)
        <3>1. Differ(a, c, n)
            BY <1>0, <1>2, <2>1, StrictPrefixIs
        <3> QED
            BY <3>1 DEF Lesser
    <2>2. CASE n \notin 1..Len(a)
        BY <1>0, <1>2, <2>2, StrictPrefixIs DEF Lesser
    <2> QED
        BY <2>1, <2>2
<1>3. ASSUME IsStrictPrefix(b, c), NEW n, Differ(a, b, n) PROVE Lesser(a, c)
    <2>1. Differ(a, c, n)
        BY <1>0, <1>3, StrictPrefixIs
    <2> QED
        BY <2>1 DEF Lesser
<1>4. ASSUME NEW n, Differ(a, b, n), NEW p, Differ(b, c, p) PROVE Lesser(a, c)
    <2>1. CASE n <= p
        <3>1. Differ(a, c, n)
            BY <1>0, <1>4, <2>1
        <3> QED
            BY <3>1 DEF Lesser
    <2>2. CASE p < n
        <3>1. Differ(a, c, p)
            BY <1>0, <1>4, <2>2
        <3> QED
            BY <3>1 DEF Lesser
    <2> QED
        BY <1>0, <1>4, <2>1, <2>2
<1> QED
    BY <1>1, <1>2, <1>3, <1>4 DEF Lesser

LEMMA LesserTotal ==
    ASSUME NEW a \in Seq(Chars), NEW b \in Seq(Chars), a # b, ~Lesser(a, b)
    PROVE  Lesser(b, a)
<1> DEFINE D == {n \in (1..Len(a)) \intersect (1..Len(b)) : a[n] # b[n]}
<1>0. Len(a) \in Nat /\ Len(b) \in Nat
    OBVIOUS
<1>1. CASE D = {}
    <2>1. Len(a) # Len(b)
        BY <1>0, <1>1, SeqEqual
    <2>2. Len(b) < Len(a)
        BY <1>0, <1>1, <2>1, StrictPrefixIs DEF Lesser
    <2> QED
        BY <1>0, <1>1, <2>2, StrictPrefixIs DEF Lesser
<1>2. CASE D # {}
    <2> DEFINE n == Least(D)
    <2>1. D \in SUBSET Nat
        BY <1>0
    <2>2. n \in D /\ \A m \in D : n <= m
        BY <1>2, <2>1, LeastIsLeast
    <2> HIDE DEF n
    <2>3. \A m \in 1..(n - 1) : a[m] = b[m]
        BY <1>0, <2>2
    <2>4. a[n] \in Chars /\ b[n] \in Chars /\ a[n] # b[n]
        BY <2>2, ElementOfSeq
    <2>5. Byte(a[n]) < Byte(b[n]) \/ Byte(b[n]) < Byte(a[n])
        BY <2>4, BytesDiffer
    <2> QED
        BY <2>2, <2>3, <2>5 DEF Lesser
<1> QED
    BY <1>1, <1>2

-----------------------------------------------------------------------------
(* One list.                                                               *)

Sorted(list) == \A m, n \in 1..Len(list) : m < n => Lesser(list[m].key, list[n].key)

LEMMA StopIs ==
    ASSUME NEW list \in Seq(Entries), NEW k
    PROVE  /\ Stop(list, k) \in 1..(Len(list) + 1)
           /\ \A n \in 1..(Stop(list, k) - 1) : Lesser(list[n].key, k)
           /\ Stop(list, k) \in 1..Len(list) => ~Lesser(list[Stop(list, k)].key, k)
<1> DEFINE S == {n \in 1..Len(list) : ~Lesser(list[n].key, k)} \union {Len(list) + 1}
           at == Least(S)
<1>1. Len(list) \in Nat
    OBVIOUS
<1>2. S \in SUBSET Nat /\ S # {}
    BY <1>1
<1>3. at \in S /\ \A m \in S : at <= m
    BY <1>2, LeastIsLeast
<1>4. Stop(list, k) = at
    BY DEF Stop
<1> HIDE DEF at
<1>5. at \in 1..(Len(list) + 1)
    BY <1>1, <1>3
<1>6. ASSUME NEW n \in 1..(at - 1) PROVE Lesser(list[n].key, k)
    <2>1. n \notin S /\ n \in 1..Len(list)
        BY <1>1, <1>3, <1>5
    <2> QED
        BY <2>1
<1>7. at \in 1..Len(list) => ~Lesser(list[at].key, k)
    BY <1>1, <1>3
<1> QED
    BY <1>4, <1>5, <1>6, <1>7

\* InsertAt and RemoveAt, element by element.
LEMMA InsertIs ==
    ASSUME NEW list \in Seq(Entries), NEW at \in 1..(Len(list) + 1), NEW e \in Entries
    PROVE  /\ InsertAt(list, at, e) \in Seq(Entries)
           /\ Len(InsertAt(list, at, e)) = Len(list) + 1
           /\ \A n \in 1..(Len(list) + 1) :
                  InsertAt(list, at, e)[n] = IF n < at THEN list[n]
                                             ELSE IF n = at THEN e ELSE list[n - 1]
<1> DEFINE front == SubSeq(list, 1, at - 1)
           back == SubSeq(list, at, Len(list))
<1>1. Len(list) \in Nat /\ \A n \in 1..Len(list) : list[n] \in Entries
    BY ElementOfSeq
<1>2. /\ front \in Seq(Entries) /\ Len(front) = at - 1
      /\ \A n \in 1..(at - 1) : front[n] = list[n]
    BY <1>1, SubSeqProperties
<1>3. /\ back \in Seq(Entries) /\ Len(back) = Len(list) - at + 1
      /\ \A n \in 1..(Len(list) - at + 1) : back[n] = list[at + n - 1]
    BY <1>1, SubSeqProperties
<1> HIDE DEF front, back
<1>4. <<e>> \in Seq(Entries) /\ Len(<<e>>) = 1 /\ <<e>>[1] = e
    OBVIOUS
<1>5. /\ front \o <<e>> \in Seq(Entries) /\ Len(front \o <<e>>) = at
      /\ \A n \in 1..at : (front \o <<e>>)[n] = IF n < at THEN list[n] ELSE e
    <2>1. /\ front \o <<e>> \in Seq(Entries) /\ Len(front \o <<e>>) = Len(front) + Len(<<e>>)
          /\ \A n \in 1..(Len(front) + Len(<<e>>)) :
                 (front \o <<e>>)[n] = IF n <= Len(front) THEN front[n] ELSE <<e>>[n - Len(front)]
        BY <1>2, <1>4, ConcatProperties
    <2>2. Len(front) = at - 1 /\ Len(front) + Len(<<e>>) = at
        BY <1>1, <1>2, <1>4
    <2>3. ASSUME NEW n \in 1..at PROVE (front \o <<e>>)[n] = IF n < at THEN list[n] ELSE e
        <3>1. CASE n < at
            <4>1. n \in 1..(at - 1) /\ n <= at - 1 /\ n \in 1..at
                BY <1>1, <3>1
            <4> QED
                BY <1>2, <2>1, <2>2, <3>1, <4>1
        <3>2. CASE n = at
            <4>1. ~(n <= at - 1) /\ n - (at - 1) = 1
                BY <1>1, <3>2
            <4> QED
                BY <1>4, <2>1, <2>2, <3>2, <4>1
        <3>3. n < at \/ n = at
            OBVIOUS
        <3> QED
            BY <3>1, <3>2, <3>3
    <2> QED
        BY <2>1, <2>2, <2>3
<1>6. /\ (front \o <<e>>) \o back \in Seq(Entries)
      /\ Len((front \o <<e>>) \o back) = Len(list) + 1
      /\ \A n \in 1..(Len(list) + 1) : ((front \o <<e>>) \o back)[n] =
             IF n <= at THEN (front \o <<e>>)[n] ELSE back[n - at]
    <2> DEFINE some == front \o <<e>>
    <2>1. some \in Seq(Entries) /\ Len(some) = at
        BY <1>5
    <2> HIDE DEF some
    <2>2. /\ some \o back \in Seq(Entries) /\ Len(some \o back) = Len(some) + Len(back)
          /\ \A n \in 1..(Len(some) + Len(back)) :
                 (some \o back)[n] = IF n <= Len(some) THEN some[n] ELSE back[n - Len(some)]
        BY <1>3, <2>1, ConcatProperties
    <2>3. Len(some) + Len(back) = Len(list) + 1
        BY <1>1, <1>3, <2>1
    <2> QED
        BY <2>1, <2>2, <2>3 DEF some
<1>7. \A n \in (at + 1)..(Len(list) + 1) : back[n - at] = list[n - 1]
    BY <1>1, <1>3
<1>8. InsertAt(list, at, e) = (front \o <<e>>) \o back
    BY DEF InsertAt, front, back
<1> QED
    BY <1>1, <1>5, <1>6, <1>7, <1>8

LEMMA RemoveIs ==
    ASSUME NEW list \in Seq(Entries), NEW at \in 1..Len(list)
    PROVE  /\ RemoveAt(list, at) \in Seq(Entries)
           /\ Len(RemoveAt(list, at)) = Len(list) - 1
           /\ \A n \in 1..(Len(list) - 1) :
                  RemoveAt(list, at)[n] = IF n < at THEN list[n] ELSE list[n + 1]
<1> DEFINE front == SubSeq(list, 1, at - 1)
           back == SubSeq(list, at + 1, Len(list))
<1>1. Len(list) \in Nat /\ \A n \in 1..Len(list) : list[n] \in Entries
    BY ElementOfSeq
<1>2. /\ front \in Seq(Entries) /\ Len(front) = at - 1
      /\ \A n \in 1..(at - 1) : front[n] = list[n]
    BY <1>1, SubSeqProperties
<1>3. /\ back \in Seq(Entries) /\ Len(back) = Len(list) - at
      /\ \A n \in 1..(Len(list) - at) : back[n] = list[at + n]
    BY <1>1, SubSeqProperties
<1> HIDE DEF front, back
<1>4. /\ front \o back \in Seq(Entries) /\ Len(front \o back) = Len(list) - 1
      /\ \A n \in 1..(Len(list) - 1) :
             (front \o back)[n] = IF n <= at - 1 THEN front[n] ELSE back[n - (at - 1)]
    <2>1. /\ front \o back \in Seq(Entries) /\ Len(front \o back) = Len(front) + Len(back)
          /\ \A n \in 1..(Len(front) + Len(back)) :
                 (front \o back)[n] = IF n <= Len(front) THEN front[n] ELSE back[n - Len(front)]
        BY <1>2, <1>3, ConcatProperties
    <2>2. Len(front) = at - 1 /\ Len(front) + Len(back) = Len(list) - 1
        BY <1>1, <1>2, <1>3
    <2> QED
        BY <2>1, <2>2
<1>5. RemoveAt(list, at) = front \o back
    BY DEF RemoveAt, front, back
<1>6. \A n \in at..(Len(list) - 1) : back[n - (at - 1)] = list[n + 1]
    BY <1>1, <1>3
<1>7. ASSUME NEW n \in 1..(Len(list) - 1)
      PROVE  (front \o back)[n] = IF n < at THEN list[n] ELSE list[n + 1]
    <2>1. CASE n < at
        <3>1. n <= at - 1 /\ n \in 1..(at - 1)
            BY <1>1, <2>1
        <3> QED
            BY <1>2, <1>4, <2>1, <3>1
    <2>2. CASE ~(n < at)
        <3>1. ~(n <= at - 1) /\ n \in at..(Len(list) - 1)
            BY <1>1, <2>2
        <3> QED
            BY <1>4, <1>6, <2>2, <3>1
    <2> QED
        BY <2>1, <2>2
<1> QED
    BY <1>4, <1>5, <1>7

\* The keys of a list are keys.
LEMMA KeysOfList == ASSUME NEW list \in Seq(Entries), NEW n \in 1..Len(list) PROVE list[n].key \in Keys
<1>1. list[n] \in Entries
    BY ElementOfSeq
<1> QED
    BY <1>1 DEF Entries

LEMMA KeysOrdered ==
    ASSUME NEW a \in Keys, NEW b \in Keys
    PROVE  /\ a # b /\ ~Lesser(a, b) => Lesser(b, a)
           /\ \A c \in Keys : Lesser(a, b) /\ Lesser(b, c) => Lesser(a, c)
<1>1. Keys \subseteq Seq(Chars)
    BY TableAssumption DEF TableAssumption, Chars
<1> QED
    BY <1>1, LesserTotal, LesserTransitive

\* list_add keeps a list sorted when it puts a new entry where its walk stops,
\* and list_remove when it takes one out.
LEMMA InsertSorted ==
    ASSUME NEW list \in Seq(Entries), Sorted(list), NEW e \in Entries,
           Stop(list, e.key) \notin Nodes(list, e.key)
    PROVE  Sorted(InsertAt(list, Stop(list, e.key), e))
<1> DEFINE at == Stop(list, e.key)
           new == InsertAt(list, at, e)
<1> HIDE DEF at, new
<1>1. Len(list) \in Nat /\ \A n \in 1..Len(list) : list[n].key \in Keys
    BY KeysOfList
<1>2. e.key \in Keys
    BY DEF Entries
<1>3. /\ at \in 1..(Len(list) + 1)
      /\ \A n \in 1..(at - 1) : Lesser(list[n].key, e.key)
      /\ at \in 1..Len(list) => ~Lesser(list[at].key, e.key)
    BY StopIs DEF at
<1>4. /\ Len(new) = Len(list) + 1
      /\ \A n \in 1..(Len(list) + 1) : new[n] = IF n < at THEN list[n]
                                                ELSE IF n = at THEN e ELSE list[n - 1]
    <2>1. at \in 1..(Len(list) + 1)
        BY <1>3
    <2> QED
        BY <2>1, InsertIs, ZenonT(30) DEF new
<1>5. at \in 1..Len(list) => Lesser(e.key, list[at].key)
    <2>1. at \in 1..Len(list) => list[at].key # e.key
        BY DEF Nodes, at
    <2> QED
        BY <1>1, <1>2, <1>3, <2>1, KeysOrdered
<1>6. \A n \in at..Len(list) : Lesser(e.key, list[n].key)
    <2> TAKE n \in at..Len(list)
    <2>1. CASE n = at
        BY <1>1, <1>3, <1>5, <2>1
    <2>2. CASE n > at
        <3>1. at \in 1..Len(list) /\ n \in 1..Len(list) /\ Lesser(list[at].key, list[n].key)
            BY <1>1, <1>3, <2>2 DEF Sorted
        <3> QED
            BY <1>1, <1>2, <1>5, <3>1, KeysOrdered
    <2> QED
        BY <1>1, <1>3, <2>1, <2>2
<1>7. ASSUME NEW m \in 1..(Len(list) + 1), NEW n \in 1..(Len(list) + 1), m < n
      PROVE  Lesser(new[m].key, new[n].key)
    <2>1. CASE n < at
        <3>1. new[m] = list[m] /\ new[n] = list[n] /\ m \in 1..Len(list) /\ n \in 1..Len(list)
            BY <1>1, <1>3, <1>4, <1>7, <2>1
        <3> QED
            BY <1>7, <3>1 DEF Sorted
    <2>2. CASE n = at
        BY <1>1, <1>3, <1>4, <1>7, <2>2
    <2>3. CASE m < at /\ at < n
        <3>1. new[m] = list[m] /\ new[n] = list[n - 1] /\ m \in 1..Len(list) /\ n - 1 \in 1..Len(list) /\ m < n - 1
            BY <1>1, <1>3, <1>4, <1>7, <2>3
        <3> QED
            BY <3>1 DEF Sorted
    <2>4. CASE m = at
        <3>1. new[m] = e /\ new[n] = list[n - 1] /\ n - 1 \in at..Len(list)
            BY <1>1, <1>3, <1>4, <1>7, <2>4
        <3> QED
            BY <3>1, <1>6
    <2>5. CASE m > at
        <3>1. new[m] = list[m - 1] /\ new[n] = list[n - 1] /\ m - 1 \in 1..Len(list) /\ n - 1 \in 1..Len(list) /\ m - 1 < n - 1
            BY <1>1, <1>3, <1>4, <1>7, <2>5
        <3> QED
            BY <3>1 DEF Sorted
    <2> QED
        BY <1>3, <1>7, <2>1, <2>2, <2>3, <2>4, <2>5
<1>8. Sorted(new)
    BY <1>4, <1>7 DEF Sorted
<1> QED
    BY <1>8 DEF new, at

LEMMA RemoveSorted ==
    ASSUME NEW list \in Seq(Entries), Sorted(list), NEW at \in 1..Len(list)
    PROVE  Sorted(RemoveAt(list, at))
<1>1. Len(list) \in Nat
    OBVIOUS
<1> SUFFICES ASSUME NEW m \in 1..(Len(list) - 1), NEW n \in 1..(Len(list) - 1), m < n
             PROVE  Lesser(RemoveAt(list, at)[m].key, RemoveAt(list, at)[n].key)
    BY RemoveIs DEF Sorted
<1>2. PICK i \in 1..Len(list), j \in 1..Len(list) :
          RemoveAt(list, at)[m] = list[i] /\ RemoveAt(list, at)[n] = list[j] /\ i < j
    <2>1. RemoveAt(list, at)[m] = (IF m < at THEN list[m] ELSE list[m + 1])
        BY RemoveIs
    <2>2. RemoveAt(list, at)[n] = (IF n < at THEN list[n] ELSE list[n + 1])
        BY RemoveIs
    <2> QED
        BY <1>1, <2>1, <2>2
<1> QED
    BY <1>2 DEF Sorted

-----------------------------------------------------------------------------
(* The table.                                                              *)

WellFormed(r, list) ==
    /\ Sorted(list)
    /\ \A n \in 1..Len(list) : hash_code(list[n].key) = r

TableInv ==
    /\ lists \in [Rows -> Seq(Entries)]
    /\ size \in [Rows -> Nat]
    /\ \A r \in Rows : WellFormed(r, lists[r]) /\ size[r] = Len(lists[r])

\* An operation on one list.
LEMMA OneList ==
    ASSUME TableInv, NEW r, NEW list, lists' = [lists EXCEPT ![r] = list],
           r \in Rows => /\ list \in Seq(Entries)
                         /\ WellFormed(r, list)
                         /\ size' = [size EXCEPT ![r] = Len(list)],
           r \notin Rows => UNCHANGED size
    PROVE  TableInv'
<1>1. CASE r \notin Rows
    <2>1. UNCHANGED lists
        BY <1>1 DEF TableInv
    <2> QED
        BY <1>1, <2>1 DEF TableInv, WellFormed, Sorted
<1>2. CASE r \in Rows
    <2>1. Len(list) \in Nat
        BY <1>2
    <2>2. lists' \in [Rows -> Seq(Entries)] /\ size' \in [Rows -> Nat]
        BY <1>2, <2>1 DEF TableInv
    <2>3. \A q \in Rows : /\ lists'[q] = IF q = r THEN list ELSE lists[q]
                          /\ size'[q] = IF q = r THEN Len(list) ELSE size[q]
        BY <1>2 DEF TableInv
    <2>4. \A q \in Rows : WellFormed(q, lists'[q]) /\ size'[q] = Len(lists'[q])
        BY <1>2, <2>3 DEF TableInv
    <2> QED
        BY <2>2, <2>4 DEF TableInv, WellFormed, Sorted
<1> QED
    BY <1>1, <1>2

LEMMA Replacing ==
    ASSUME TableInv, NEW k \in Keys, NEW v \in Values, Replace(k, v)
    PROVE  TableInv'
<1> DEFINE r == hash_code(k)
           at == Stop(lists[r], k)
           e == [key |-> k, value |-> v]
           new == [lists[r] EXCEPT ![at] = e]
<1>1. lists' = [lists EXCEPT ![r] = new] /\ UNCHANGED size /\ at \in Nodes(lists[r], k)
    BY DEF Replace
<1> HIDE DEF r
<1>2. ASSUME r \in Rows PROVE /\ new \in Seq(Entries) /\ WellFormed(r, new)
                              /\ size' = [size EXCEPT ![r] = Len(new)]
    <2>1. lists[r] \in Seq(Entries) /\ Len(lists[r]) \in Nat /\ e \in Entries
        BY <1>2 DEF TableInv, Entries
    <2>2. at \in 1..Len(lists[r]) /\ lists[r][at].key = k
        BY <1>1 DEF Nodes
    <2> HIDE DEF at
    <2>3. /\ new \in Seq(Entries) /\ Len(new) = Len(lists[r])
          /\ \A n \in 1..Len(lists[r]) : new[n] = IF n = at THEN e ELSE lists[r][n]
        BY <2>1, <2>2, ExceptSeq
    <2>4. e.key = k
        OBVIOUS
    <2> HIDE DEF new, e
    <2>5. \A n \in 1..Len(lists[r]) : new[n].key = lists[r][n].key
        BY <2>2, <2>3, <2>4
    <2>6. WellFormed(r, lists[r]) /\ size[r] = Len(lists[r])
        BY <1>2 DEF TableInv
    <2>7. WellFormed(r, new)
        BY <2>3, <2>5, <2>6 DEF WellFormed, Sorted
    <2>8. size' = [size EXCEPT ![r] = Len(new)]
        BY <1>1, <2>3, <2>6 DEF TableInv
    <2> QED
        BY <2>3, <2>7, <2>8
<1> HIDE DEF new
<1> QED
    BY <1>1, <1>2, OneList

LEMMA Inserting ==
    ASSUME TableInv, NEW k \in Keys, NEW v \in Values, Insert(k, v)
    PROVE  TableInv'
<1> DEFINE r == hash_code(k)
           at == Stop(lists[r], k)
           e == [key |-> k, value |-> v]
           new == InsertAt(lists[r], at, e)
<1>1. /\ lists' = [lists EXCEPT ![r] = new]
      /\ size' = [size EXCEPT ![r] = @ + 1]
      /\ at \notin Nodes(lists[r], k)
    BY DEF Insert
<1>2. e \in Entries /\ e.key = k
    BY DEF Entries
<1>3. r = hash_code(k)
    OBVIOUS
<1> HIDE DEF r, e
<1>4. ASSUME r \in Rows PROVE /\ new \in Seq(Entries) /\ WellFormed(r, new)
                              /\ size' = [size EXCEPT ![r] = Len(new)]
    <2>1. lists[r] \in Seq(Entries) /\ Len(lists[r]) \in Nat
        BY <1>4 DEF TableInv
    <2>2. WellFormed(r, lists[r]) /\ size[r] = Len(lists[r])
        BY <1>4 DEF TableInv
    <2>3. Sorted(new)
        BY <1>1, <1>2, <2>1, <2>2, InsertSorted DEF WellFormed
    <2>4. at \in 1..(Len(lists[r]) + 1)
        BY <2>1, StopIs
    <2> HIDE DEF at
    <2>5. /\ new \in Seq(Entries) /\ Len(new) = Len(lists[r]) + 1
          /\ \A n \in 1..(Len(lists[r]) + 1) :
                 new[n] = IF n < at THEN lists[r][n] ELSE IF n = at THEN e ELSE lists[r][n - 1]
        BY <1>2, <2>1, <2>4, InsertIs, ZenonT(30)
    <2> HIDE DEF new
    <2>6. ASSUME NEW n \in 1..Len(new) PROVE hash_code(new[n].key) = r
        <3>1. CASE n < at
            <4>1. new[n] = lists[r][n] /\ n \in 1..Len(lists[r])
                BY <2>1, <2>4, <2>5, <2>6, <3>1
            <4> QED
                BY <2>2, <4>1 DEF WellFormed
        <3>2. CASE n = at
            BY <1>2, <1>3, <2>4, <2>5, <3>2
        <3>3. CASE n > at
            <4>1. new[n] = lists[r][n - 1] /\ n - 1 \in 1..Len(lists[r])
                BY <2>1, <2>4, <2>5, <2>6, <3>3
            <4> QED
                BY <2>2, <4>1 DEF WellFormed
        <3> QED
            BY <2>1, <2>4, <2>5, <2>6, <3>1, <3>2, <3>3
    <2>7. size' = [size EXCEPT ![r] = Len(new)]
        BY <1>1, <2>2, <2>5
    <2> QED
        BY <2>3, <2>5, <2>6, <2>7 DEF WellFormed
<1> HIDE DEF new
<1>5. r \notin Rows => UNCHANGED size
    BY <1>1 DEF TableInv
<1> QED
    BY <1>1, <1>4, <1>5, OneList

LEMMA Removing ==
    ASSUME TableInv, NEW k \in Keys, table_remove(k)
    PROVE  TableInv'
<1> DEFINE r == hash_code(k)
           found == Nodes(lists[r], k)
           at == Least(found)
           new == RemoveAt(lists[r], at)
<1>1. CASE UNCHANGED <<lists, size>>
    BY <1>1 DEF TableInv, WellFormed, Sorted
<1>2. CASE ~UNCHANGED <<lists, size>>
    <2>1. /\ lists' = [lists EXCEPT ![r] = new]
          /\ size' = [size EXCEPT ![r] = @ - 1]
          /\ found # {}
        BY <1>2 DEF table_remove
    <2> HIDE DEF r
    <2>2. ASSUME r \in Rows PROVE /\ new \in Seq(Entries) /\ WellFormed(r, new)
                                  /\ size' = [size EXCEPT ![r] = Len(new)]
        <3>1. lists[r] \in Seq(Entries) /\ Len(lists[r]) \in Nat
            BY <2>2 DEF TableInv
        <3>2. WellFormed(r, lists[r]) /\ size[r] = Len(lists[r])
            BY <2>2 DEF TableInv
        <3>3. found \in SUBSET (1..Len(lists[r]))
            BY DEF Nodes
        <3>4. at \in 1..Len(lists[r])
            <4>1. found # {}
                BY <2>1
            <4> HIDE DEF found
            <4>2. found \in SUBSET Nat
                BY <3>1, <3>3
            <4>3. at \in found
                BY <4>1, <4>2, LeastIsLeast, Zenon
            <4> QED
                BY <3>3, <4>3
        <3> HIDE DEF at
        <3>5. Sorted(new)
            BY <3>1, <3>2, <3>4, RemoveSorted DEF WellFormed
        <3>6. /\ new \in Seq(Entries) /\ Len(new) = Len(lists[r]) - 1
              /\ \A n \in 1..(Len(lists[r]) - 1) :
                     new[n] = IF n < at THEN lists[r][n] ELSE lists[r][n + 1]
            BY <3>1, <3>4, RemoveIs, Zenon
        <3> HIDE DEF new
        <3>7. ASSUME NEW n \in 1..Len(new) PROVE hash_code(new[n].key) = r
            <4>1. \E m \in 1..Len(lists[r]) : new[n] = lists[r][m]
                <5>1. n \in 1..(Len(lists[r]) - 1)
                    BY <3>6, <3>7
                <5>2. n \in 1..Len(lists[r]) /\ n + 1 \in 1..Len(lists[r])
                    BY <3>1, <5>1
                <5>3. new[n] = lists[r][n] \/ new[n] = lists[r][n + 1]
                    BY <3>6, <5>1
                <5> QED
                    BY <5>2, <5>3
            <4> QED
                BY <3>2, <4>1 DEF WellFormed
        <3>8. size' = [size EXCEPT ![r] = Len(new)]
            BY <2>1, <3>2, <3>6
        <3> QED
            BY <3>5, <3>6, <3>7, <3>8 DEF WellFormed
    <2>3. r \notin Rows => UNCHANGED size
        BY <2>1 DEF TableInv
    <2> HIDE DEF new
    <2> QED
        BY <2>1, <2>2, <2>3, OneList
<1> QED
    BY <1>1, <1>2

\* The lists hold entries, sorted, counted and by hash code: an invariant that
\* every step keeps.
LEMMA TableInvariant ==
    /\ Init => TableInv
    /\ TableInv /\ [Next]_vars => TableInv'
<1>1. Init => TableInv
    <2> SUFFICES ASSUME Init PROVE TableInv
        OBVIOUS
    <2>1. <<>> \in Seq(Entries) /\ Len(<<>>) = 0
        OBVIOUS
    <2> QED
        BY <2>1 DEF Init, TableInv, WellFormed, Sorted
<1>2. TableInv /\ [Next]_vars => TableInv'
    <2> SUFFICES ASSUME TableInv, [Next]_vars PROVE TableInv'
        OBVIOUS
    <2>1. CASE UNCHANGED <<lists, size>>
        BY <2>1 DEF TableInv, WellFormed, Sorted
    <2> QED
        BY <2>1, Replacing, Inserting, Removing
           DEF Next, table_put, table_get, table_size, table_get_keys, table_get_entries, vars
<1> QED
    BY <1>1, <1>2

\* Every list stays sorted by entry_compare, without a key twice and with the
\* length its size says, for any keys and any number of lists: list_add
\* (list.c:82) and list_remove (list.c:149) keep it so.
THEOREM ListsStayWellFormed == Spec => []ListsWellFormed
<1>1. TableInv => ListsWellFormed
    BY DEF TableInv, WellFormed, Sorted, ListsWellFormed
<1> QED
    BY <1>1, TableInvariant, PTL DEF Spec

-----------------------------------------------------------------------------
(* Recursive functions on an interval: hash_code's loop and FlattenSeq.    *)

\* A set of naturals that holds a and the successor of each that it holds,
\* as far as b, holds all of a..b.
LEMMA Induction ==
    ASSUME NEW a \in Nat, NEW b \in Nat, NEW S, a \in S,
           \A n \in a..b : n # a /\ n - 1 \in S => n \in S
    PROVE  \A n \in a..b : n \in S
<1> DEFINE Out == (a..b) \ S
           m == Least(Out)
<1>1. CASE Out = {}
    BY <1>1
<1>2. CASE Out # {}
    <2>1. Out \in SUBSET Nat
        OBVIOUS
    <2>2. m \in Out /\ \A n \in Out : m <= n
        BY <1>2, <2>1, LeastIsLeast
    <2> HIDE DEF m
    <2>3. m # a /\ m - 1 \in a..b /\ m - 1 \notin Out
        BY <2>2
    <2> QED
        BY <2>2, <2>3
<1> QED
    BY <1>1, <1>2

\* A power of two is positive: it counts the subsets of a set.
LEMMA PowerOfTwo == ASSUME NEW n \in Nat PROVE 2^n \in Nat \ {0}
<1>1. IsFiniteSet(1..n) /\ Cardinality(1..n) = n
    BY FS_Interval
<1>2. /\ IsFiniteSet(SUBSET (1..n))
      /\ Cardinality(SUBSET (1..n)) = 2^n
    BY <1>1, FS_SUBSET
<1>3. SUBSET (1..n) # {}
    OBVIOUS
<1> QED
    BY <1>2, <1>3, FS_CardinalityType, FS_EmptySet

-----------------------------------------------------------------------------
(* hash_code.                                                              *)

\* The result of hash_code's loop after n characters, from the one before.
Result(key, f, n) == IF n = 0 THEN 7 ELSE (f[n - 1] * 31 + key[n]) % 2^IntBits

LEMMA ResultExists ==
    ASSUME NEW key, NEW N \in Nat
    PROVE  \E f : f = [n \in 0..N |-> Result(key, f, n)]
<1> DEFINE S == {m \in Nat : \E f : f = [n \in 0..m |-> Result(key, f, n)]}
<1>1. 0 \in S
    <2>1. [n \in 0..0 |-> 7] = [n \in 0..0 |-> Result(key, [p \in 0..0 |-> 7], n)]
        BY DEF Result
    <2> QED
        BY <2>1
<1>2. ASSUME NEW m \in 0..N, m # 0, m - 1 \in S PROVE m \in S
    <2>1. PICK f : f = [n \in 0..(m - 1) |-> Result(key, f, n)]
        BY <1>2
    <2> DEFINE g == [n \in 0..m |-> IF n = m THEN Result(key, f, m) ELSE f[n]]
    <2>2. \A n \in 0..m : n # 0 => n - 1 \in 0..(m - 1) /\ g[n - 1] = f[n - 1]
        BY <1>2
    <2>3. g = [n \in 0..m |-> g[n]] /\ \A n \in 0..m : g[n] = IF n = m THEN Result(key, f, m) ELSE f[n]
        OBVIOUS
    <2> HIDE DEF g
    <2>4. ASSUME NEW n \in 0..m PROVE g[n] = Result(key, g, n)
        <3>1. Result(key, g, n) = Result(key, f, n)
            BY <2>2 DEF Result
        <3>2. CASE n = m
            BY <2>3, <3>1, <3>2
        <3>3. CASE n # m
            <4>1. n \in 0..(m - 1)
                BY <1>2, <3>3
            <4>2. f[n] = Result(key, f, n)
                BY <2>1, <4>1
            <4> QED
                BY <2>3, <3>1, <3>3, <4>2
        <3> QED
            BY <3>2, <3>3
    <2>5. g = [n \in 0..m |-> Result(key, g, n)]
        BY <2>3, <2>4
    <2> QED
        BY <1>2, <2>5
<1> HIDE DEF S
<1>3. N \in S
    BY <1>1, <1>2, Induction
<1> QED
    BY <1>3 DEF S

LEMMA CharsAreIntegers == \A c \in Chars : c \in Int
<1> TAKE c \in Chars
<1>1. c \in -128..127
    BY DEF Chars
<1> QED
    BY <1>1

\* The code of a key is an integer.
LEMMA CodeType ==
    ASSUME NEW key \in Seq(Chars)
    PROVE  Code(key) \in Int
<1> DEFINE N == Len(key)
           f == CHOOSE f : f = [n \in 0..N |-> Result(key, f, n)]
<1>0. N \in Nat
    OBVIOUS
<1>1. ASSUME NEW n \in 1..N PROVE key[n] \in Int
    <2>1. key[n] \in Chars
        BY ElementOfSeq
    <2> QED
        BY <2>1, CharsAreIntegers
<1>2. f = [n \in 0..N |-> Result(key, f, n)]
    BY <1>0, ResultExists
<1>3. Code(key) = f[N]
    BY DEF Code, Result
<1> HIDE DEF f, N
<1> DEFINE S == {n \in 0..N : f[n] \in Int}
<1>4. 0 \in S
    <2>1. f[0] = 7
        BY <1>0, <1>2 DEF Result
    <2> QED
        BY <1>0, <2>1
<1>5. ASSUME NEW n \in 0..N, n # 0, n - 1 \in S PROVE n \in S
    <2>1. 2^IntBits \in Nat \ {0}
        BY PowerOfTwo, TableAssumption DEF TableAssumption
    <2>2. f[n] = (f[n - 1] * 31 + key[n]) % 2^IntBits
        BY <1>0, <1>2, <1>5 DEF Result
    <2>3. f[n - 1] \in Int /\ key[n] \in Int
        BY <1>0, <1>1, <1>5
    <2>4. f[n - 1] * 31 + key[n] \in Int
        BY <2>3
    <2>5. f[n] \in Int
        BY <2>1, <2>2, <2>4
    <2> QED
        BY <2>5
<1> HIDE DEF S
<1>6. \A n \in 0..N : n \in S
    BY <1>0, <1>4, <1>5, Induction
<1> QED
    BY <1>0, <1>3, <1>6 DEF S

\* hash_code numbers one of the lists, whatever the value and the sign of the
\* code: a key is never looked for outside the table.
LEMMA HashType == ASSUME NEW k \in Keys PROVE hash_code(k) \in Rows
<1> DEFINE a == ToInt(Code(k))
           r == Rem(a, NLists)
<1>1. NLists \in Nat \ {0} /\ IntBits \in Nat \ {0} /\ k \in Seq(Chars)
    BY TableAssumption DEF TableAssumption, Chars
<1>2. 2^IntBits \in Int /\ 2^(IntBits - 1) \in Int
    BY <1>1, PowerOfTwo
<1>3. Code(k) \in Int
    BY <1>1, CodeType
<1>4. a \in Int
    BY <1>2, <1>3 DEF ToInt
<1>5. hash_code(k) = IF r >= 0 THEN r ELSE -r
    BY DEF hash_code
<1> HIDE DEF a
<1>6. r \in Int /\ r < NLists /\ -r < NLists
    <2>1. CASE a >= 0
        BY <1>1, <1>4, <2>1 DEF Rem
    <2>2. CASE ~(a >= 0)
        <3>1. (-a) \in Int /\ (-a) % NLists \in 0..(NLists - 1)
            BY <1>1, <1>4
        <3> QED
            BY <1>1, <2>2, <3>1 DEF Rem
    <2> QED
        BY <2>1, <2>2
<1> HIDE DEF r
<1> QED
    BY <1>1, <1>5, <1>6 DEF Rows

\* The list that hash_code (table.c:63) numbers exists for every key, whatever
\* the characters, the width of an int and the number of lists: neither the
\* overflow of the code nor the remainder of a negative one leads outside
\* table->lists.
THEOREM TableTypeCorrect == Spec => []TypeOK
<1>1. TableInv => TypeOK
    BY HashType DEF TableInv, TypeOK
<1> QED
    BY <1>1, TableInvariant, PTL DEF Spec

-----------------------------------------------------------------------------
(* The function that the lists stand for.                                  *)

Good(L) == /\ L \in [Rows -> Seq(Entries)]
           /\ \A r \in Rows : WellFormed(r, L[r])

\* Bound and Map, of any lists L.
Holding(L, k) == {e \in UNION {ToSet(L[r]) : r \in Rows} : e.key = k}
MapOf(L) == [k \in Keys |-> IF Holding(L, k) = {} THEN Absent
                            ELSE (CHOOSE e \in Holding(L, k) : TRUE).value]

LEMMA NotLesserThanItself == ASSUME NEW a \in Keys PROVE ~Lesser(a, a)
<1>1. a \in Seq(Chars)
    BY TableAssumption DEF TableAssumption, Chars
<1>2. ~IsStrictPrefix(a, a)
    BY <1>1, StrictPrefixIs
<1>3. \A n \in 1..Len(a) : Byte(a[n]) \in Int
    <2> TAKE n \in 1..Len(a)
    <2>1. a[n] \in Chars
        BY <1>1, ElementOfSeq
    <2>2. a[n] \in Int
        BY <2>1, CharsAreIntegers
    <2> QED
        BY <2>1, <2>2, ByteOf
<1> QED
    BY <1>2, <1>3 DEF Lesser

\* No two entries of a sorted list have the same key.
LEMMA KeyOnce ==
    ASSUME NEW list \in Seq(Entries), Sorted(list),
           NEW m \in 1..Len(list), NEW n \in 1..Len(list), list[m].key = list[n].key
    PROVE  m = n
<1>1. list[m].key \in Keys
    BY KeysOfList
<1>2. ~(m < n) /\ ~(n < m)
    BY <1>1, NotLesserThanItself DEF Sorted
<1>3. Len(list) \in Nat
    OBVIOUS
<1> QED
    BY <1>2, <1>3

LEMMA ListIs ==
    ASSUME NEW list \in Seq(Entries)
    PROVE  /\ Len(list) \in Nat
           /\ ToSet(list) = {list[n] : n \in 1..Len(list)}
           /\ \A e \in ToSet(list) : e \in Entries
<1>1. Len(list) \in Nat /\ DOMAIN list = 1..Len(list)
    OBVIOUS
<1>2. ToSet(list) = {list[n] : n \in 1..Len(list)}
    BY <1>1 DEF ToSet
<1> QED
    BY <1>1, <1>2, ElementOfSeq

\* The entries with a key are in the list of the key.
LEMMA HoldingIs ==
    ASSUME NEW L, Good(L), NEW k \in Keys
    PROVE  /\ L[hash_code(k)] \in Seq(Entries)
           /\ WellFormed(hash_code(k), L[hash_code(k)])
           /\ Holding(L, k) = {e \in ToSet(L[hash_code(k)]) : e.key = k}
<1>1. hash_code(k) \in Rows
    BY HashType
<1>2. ASSUME NEW r \in Rows, NEW e \in ToSet(L[r]), e.key = k PROVE r = hash_code(k)
    <2>1. L[r] \in Seq(Entries) /\ WellFormed(r, L[r])
        BY DEF Good
    <2>2. PICK n \in 1..Len(L[r]) : e = L[r][n]
        BY <2>1, ListIs
    <2> QED
        BY <1>2, <2>1, <2>2 DEF WellFormed
<1> QED
    BY <1>1, <1>2 DEF Good, Holding

\* The value of a key is that of its entry; without an entry it is Absent.
LEMMA MapIs ==
    ASSUME NEW L, Good(L), NEW k \in Keys
    PROVE  /\ \A n \in 1..Len(L[hash_code(k)]) :
                  L[hash_code(k)][n].key = k => MapOf(L)[k] = L[hash_code(k)][n].value
           /\ (\A n \in 1..Len(L[hash_code(k)]) : L[hash_code(k)][n].key # k) => MapOf(L)[k] = Absent
<1> DEFINE list == L[hash_code(k)]
<1>1. /\ list \in Seq(Entries) /\ WellFormed(hash_code(k), list)
      /\ Holding(L, k) = {e \in ToSet(list) : e.key = k}
    BY HoldingIs
<1> HIDE DEF list
<1>2. ToSet(list) = {list[n] : n \in 1..Len(list)}
    BY <1>1, ListIs
<1>3. ASSUME NEW n \in 1..Len(list), list[n].key = k PROVE MapOf(L)[k] = list[n].value
    <2>1. Holding(L, k) = {list[n]}
        <3>1. ASSUME NEW m \in 1..Len(list), list[m].key = k PROVE m = n
            BY <1>1, <1>3, <3>1, KeyOnce DEF WellFormed
        <3> QED
            BY <1>1, <1>2, <1>3, <3>1
    <2> QED
        BY <2>1 DEF MapOf
<1>4. ASSUME \A n \in 1..Len(list) : list[n].key # k PROVE MapOf(L)[k] = Absent
    <2>1. Holding(L, k) = {}
        BY <1>1, <1>2, <1>4
    <2> QED
        BY <2>1 DEF MapOf
<1> QED
    BY <1>3, <1>4 DEF list

\* An operation on the list of a key that keeps the entries of the other keys
\* changes the function at that key alone.
Keeps(list, new, k) ==
    \A n \in 1..Len(list) : list[n].key # k => \E m \in 1..Len(new) : new[m] = list[n]

LEMMA OneKeyChanges ==
    ASSUME NEW L, Good(L), NEW M, Good(M), NEW k \in Keys, NEW v, MapOf(M)[k] = v,
           \A q \in Rows : q # hash_code(k) => M[q] = L[q],
           Keeps(L[hash_code(k)], M[hash_code(k)], k), Keeps(M[hash_code(k)], L[hash_code(k)], k)
    PROVE  MapOf(M) = [MapOf(L) EXCEPT ![k] = v]
<1> DEFINE F == MapOf(M)
           G == MapOf(L)
<1>1. ASSUME NEW j \in Keys, j # k PROVE F[j] = G[j]
    <2> DEFINE old == L[hash_code(j)]
               new == M[hash_code(j)]
    <2>1. /\ hash_code(j) \in Rows /\ old \in Seq(Entries) /\ new \in Seq(Entries)
          /\ Holding(M, j) = {e \in ToSet(new) : e.key = j}
          /\ Holding(L, j) = {e \in ToSet(old) : e.key = j}
        BY HashType, HoldingIs
    <2>2. old = new \/ (Keeps(old, new, k) /\ Keeps(new, old, k))
        BY <2>1
    <2> HIDE DEF old, new
    <2>3. /\ ToSet(old) = {old[n] : n \in 1..Len(old)}
          /\ ToSet(new) = {new[n] : n \in 1..Len(new)}
        BY <2>1, ListIs
    <2>4. CASE Keeps(old, new, k) /\ Keeps(new, old, k)
        <3>1. ASSUME NEW e \in Holding(L, j) PROVE e \in Holding(M, j)
            <4>1. PICK n \in 1..Len(old) : old[n] = e /\ e.key = j
                BY <2>1, <2>3
            <4>2. \E m \in 1..Len(new) : new[m] = e
                BY <1>1, <2>4, <4>1 DEF Keeps
            <4> QED
                BY <2>1, <2>3, <4>1, <4>2
        <3>2. ASSUME NEW e \in Holding(M, j) PROVE e \in Holding(L, j)
            <4>1. PICK n \in 1..Len(new) : new[n] = e /\ e.key = j
                BY <2>1, <2>3
            <4>2. \E m \in 1..Len(old) : old[m] = e
                BY <1>1, <2>4, <4>1 DEF Keeps
            <4> QED
                BY <2>1, <2>3, <4>1, <4>2
        <3>3. Holding(M, j) = Holding(L, j)
            BY <3>1, <3>2
        <3> QED
            BY <3>3 DEF MapOf
    <2>5. CASE old = new
        <3>1. Holding(M, j) = Holding(L, j)
            BY <2>1, <2>5
        <3> QED
            BY <3>1 DEF MapOf
    <2> QED
        BY <2>2, <2>4, <2>5
<1>2. F = [j \in Keys |-> F[j]] /\ G = [j \in Keys |-> G[j]]
    BY DEF MapOf
<1>3. F[k] = v
    OBVIOUS
<1> HIDE DEF F, G
<1>4. F = [G EXCEPT ![k] = v]
    BY <1>1, <1>2, <1>3
<1> QED
    BY <1>4 DEF F, G

LEMMA ReplaceMaps ==
    ASSUME TableInv, TableInv', NEW k \in Keys, NEW v \in Values, Replace(k, v)
    PROVE  MapOf(lists') = [MapOf(lists) EXCEPT ![k] = v]
<1> DEFINE r == hash_code(k)
           at == Stop(lists[r], k)
           e == [key |-> k, value |-> v]
           new == [lists[r] EXCEPT ![at] = e]
<1>1. lists' = [lists EXCEPT ![r] = new] /\ at \in 1..Len(lists[r]) /\ lists[r][at].key = k
    BY DEF Replace, Nodes
<1>2. Good(lists) /\ Good(lists')
    BY DEF TableInv, Good, WellFormed, Sorted
<1>3. r \in Rows
    BY HashType
<1>4. lists[r] \in Seq(Entries) /\ e \in Entries /\ e.key = k /\ e.value = v
    BY <1>3 DEF TableInv, Entries
<1>5. r = hash_code(k)
    OBVIOUS
<1> HIDE DEF at, e, r
<1>6. /\ new \in Seq(Entries) /\ Len(new) = Len(lists[r])
      /\ \A n \in 1..Len(lists[r]) : new[n] = IF n = at THEN e ELSE lists[r][n]
    BY <1>1, <1>4, ExceptSeq
<1> HIDE DEF new
<1>7. lists'[r] = new /\ \A q \in Rows : q # r => lists'[q] = lists[q]
    BY <1>1, <1>2, <1>3 DEF Good
<1>8. Keeps(lists[r], new, k) /\ Keeps(new, lists[r], k)
    <2>1. \A n \in 1..Len(lists[r]) : lists[r][n].key # k => n \in 1..Len(new) /\ new[n] = lists[r][n]
        BY <1>1, <1>6
    <2>2. \A n \in 1..Len(new) : new[n].key # k => n \in 1..Len(lists[r]) /\ lists[r][n] = new[n]
        BY <1>4, <1>6
    <2> QED
        BY <2>1, <2>2 DEF Keeps
<1>9. MapOf(lists')[k] = v
    <2>1. at \in 1..Len(new) /\ new[at] = e
        BY <1>1, <1>6
    <2> QED
        BY <1>2, <1>4, <1>5, <1>7, <2>1, MapIs
<1> QED
    BY <1>2, <1>5, <1>7, <1>8, <1>9, OneKeyChanges

LEMMA InsertMaps ==
    ASSUME TableInv, TableInv', NEW k \in Keys, NEW v \in Values, Insert(k, v)
    PROVE  MapOf(lists') = [MapOf(lists) EXCEPT ![k] = v]
<1> DEFINE r == hash_code(k)
           at == Stop(lists[r], k)
           e == [key |-> k, value |-> v]
           new == InsertAt(lists[r], at, e)
<1>1. lists' = [lists EXCEPT ![r] = new]
    BY DEF Insert
<1>2. Good(lists) /\ Good(lists')
    BY DEF TableInv, Good, WellFormed, Sorted
<1>3. r \in Rows
    BY HashType
<1>4. lists[r] \in Seq(Entries) /\ Len(lists[r]) \in Nat /\ e \in Entries /\ e.key = k /\ e.value = v
    BY <1>3 DEF TableInv, Entries
<1>5. r = hash_code(k)
    OBVIOUS
<1> HIDE DEF e, r
<1>6. at \in 1..(Len(lists[r]) + 1)
    BY <1>4, StopIs
<1> HIDE DEF at
<1>7. /\ new \in Seq(Entries) /\ Len(new) = Len(lists[r]) + 1
      /\ \A n \in 1..(Len(lists[r]) + 1) :
             new[n] = IF n < at THEN lists[r][n] ELSE IF n = at THEN e ELSE lists[r][n - 1]
    BY <1>4, <1>6, InsertIs, ZenonT(30)
<1> HIDE DEF new
<1>8. lists'[r] = new /\ \A q \in Rows : q # r => lists'[q] = lists[q]
    BY <1>1, <1>2, <1>3 DEF Good
<1>9. at \in 1..Len(new) /\ new[at] = e
    BY <1>4, <1>6, <1>7
<1>10. Keeps(lists[r], new, k) /\ Keeps(new, lists[r], k)
    <2>1. ASSUME NEW n \in 1..Len(lists[r]) PROVE \E m \in 1..Len(new) : new[m] = lists[r][n]
        <3>1. CASE n < at
            <4>1. n \in 1..Len(new) /\ new[n] = lists[r][n]
                BY <1>4, <1>6, <1>7, <3>1
            <4> QED
                BY <4>1
        <3>2. CASE ~(n < at)
            <4>1. n + 1 \in 1..Len(new) /\ ~(n + 1 < at) /\ n + 1 # at /\ (n + 1) - 1 = n
                BY <1>4, <1>6, <1>7, <3>2
            <4>2. new[n + 1] = lists[r][n]
                BY <1>7, <4>1
            <4> QED
                BY <4>1, <4>2
        <3> QED
            BY <3>1, <3>2
    <2>2. ASSUME NEW n \in 1..Len(new), new[n].key # k PROVE \E m \in 1..Len(lists[r]) : lists[r][m] = new[n]
        <3>1. CASE n < at
            <4>1. n \in 1..Len(lists[r]) /\ new[n] = lists[r][n]
                BY <1>4, <1>6, <1>7, <3>1
            <4> QED
                BY <4>1
        <3>2. CASE ~(n < at)
            <4>1. n # at
                BY <1>4, <1>9, <2>2
            <4>2. n - 1 \in 1..Len(lists[r]) /\ new[n] = lists[r][n - 1]
                BY <1>4, <1>6, <1>7, <3>2, <4>1
            <4> QED
                BY <4>2
        <3> QED
            BY <3>1, <3>2
    <2> QED
        BY <2>1, <2>2 DEF Keeps
<1>11. MapOf(lists')[k] = v
    BY <1>2, <1>4, <1>5, <1>8, <1>9, MapIs
<1> QED
    BY <1>2, <1>5, <1>8, <1>10, <1>11, OneKeyChanges

\* The node that list_get reads and list_remove takes out.
LEMMA FoundIs ==
    ASSUME NEW list \in Seq(Entries), NEW k, Nodes(list, k) # {}
    PROVE  Least(Nodes(list, k)) \in 1..Len(list) /\ list[Least(Nodes(list, k))].key = k
<1>1. Nodes(list, k) \in SUBSET Nat
    <2>1. Len(list) \in Nat
        OBVIOUS
    <2> QED
        BY <2>1 DEF Nodes
<1>2. Least(Nodes(list, k)) \in Nodes(list, k)
    BY <1>1, LeastIsLeast
<1> QED
    BY <1>2 DEF Nodes

LEMMA GetReads ==
    ASSUME TableInv, NEW k \in Keys, table_get(k)
    PROVE  answer' = <<"GET", MapOf(lists)[k]>>
<1> DEFINE list == lists[hash_code(k)]
           found == Nodes(list, k)
<1>1. answer' = <<"GET", IF found = {} THEN Absent ELSE list[Least(found)].value>>
    BY DEF table_get
<1>2. Good(lists)
    BY DEF TableInv, Good
<1>3. list \in Seq(Entries)
    BY <1>2, HoldingIs
<1>4. CASE found = {}
    <2>1. \A n \in 1..Len(list) : list[n].key # k
        BY <1>4 DEF Nodes
    <2>2. MapOf(lists)[k] = Absent
        BY <1>2, <2>1, MapIs
    <2> QED
        BY <1>1, <1>4, <2>2
<1>5. CASE found # {}
    <2>1. Least(found) \in 1..Len(list) /\ list[Least(found)].key = k
        BY <1>3, <1>5, FoundIs
    <2>2. MapOf(lists)[k] = list[Least(found)].value
        BY <1>2, <2>1, MapIs
    <2> QED
        BY <1>1, <1>5, <2>2
<1> QED
    BY <1>4, <1>5

LEMMA RemoveMaps ==
    ASSUME TableInv, TableInv', NEW k \in Keys, table_remove(k)
    PROVE  /\ MapOf(lists') = [MapOf(lists) EXCEPT ![k] = Absent]
           /\ answer' = <<"DEL", MapOf(lists)[k] # Absent>>
<1> DEFINE r == hash_code(k)
           found == Nodes(lists[r], k)
           at == Least(found)
           new == RemoveAt(lists[r], at)
<1>1. r = hash_code(k) /\ r \in Rows
    BY HashType
<1>2. Good(lists) /\ Good(lists')
    BY DEF TableInv, Good, WellFormed, Sorted
<1>3. /\ lists[r] \in Seq(Entries) /\ Len(lists[r]) \in Nat
      /\ WellFormed(r, lists[r])
    BY <1>1, <1>2 DEF Good
<1>4. CASE found = {}
    <2>1. answer' = <<"DEL", FALSE>> /\ lists' = lists
        BY <1>4 DEF table_remove
    <2>2. \A n \in 1..Len(lists[r]) : lists[r][n].key # k
        BY <1>4 DEF Nodes
    <2>3. MapOf(lists)[k] = Absent
        BY <1>2, <2>2, MapIs
    <2>4. \A q \in Rows : lists'[q] = lists[q]
        BY <2>1
    <2>5. Keeps(lists'[r], lists[r], k) /\ Keeps(lists[r], lists'[r], k)
        BY <1>1, <2>4 DEF Keeps
    <2>6. MapOf(lists')[k] = Absent
        BY <2>1, <2>3
    <2>7. MapOf(lists') = [MapOf(lists) EXCEPT ![k] = Absent]
        BY <1>1, <1>2, <2>4, <2>5, <2>6, OneKeyChanges
    <2> QED
        BY <2>1, <2>3, <2>7
<1>5. CASE found # {}
    <2>1. answer' = <<"DEL", TRUE>> /\ lists' = [lists EXCEPT ![r] = new]
        BY <1>5 DEF table_remove
    <2>2. at \in 1..Len(lists[r]) /\ lists[r][at].key = k
        BY <1>3, <1>5, FoundIs
    <2>3. MapOf(lists)[k] # Absent
        <3>1. MapOf(lists)[k] = lists[r][at].value
            BY <1>2, <2>2, MapIs
        <3>2. lists[r][at] \in Entries
            BY <1>3, <2>2, ElementOfSeq
        <3> QED
            BY <3>1, <3>2, TableAssumption DEF Entries, TableAssumption
    <2> HIDE DEF at, r
    <2>4. /\ new \in Seq(Entries) /\ Len(new) = Len(lists[r]) - 1
          /\ \A n \in 1..(Len(lists[r]) - 1) :
                 new[n] = IF n < at THEN lists[r][n] ELSE lists[r][n + 1]
        BY <1>3, <2>2, RemoveIs, Zenon
    <2> HIDE DEF new
    <2>5. lists'[r] = new /\ \A q \in Rows : q # r => lists'[q] = lists[q]
        BY <1>1, <1>2, <2>1 DEF Good
    <2>6. ASSUME NEW n \in 1..Len(lists[r]), n # at PROVE \E m \in 1..Len(new) : new[m] = lists[r][n]
        <3>1. CASE n < at
            <4>1. n \in 1..Len(new) /\ new[n] = lists[r][n]
                BY <1>3, <2>2, <2>4, <3>1
            <4> QED
                BY <4>1
        <3>2. CASE ~(n < at)
            <4>1. n - 1 \in 1..Len(new) /\ ~(n - 1 < at) /\ (n - 1) + 1 = n
                BY <1>3, <2>2, <2>4, <2>6, <3>2
            <4>2. new[n - 1] = lists[r][n]
                BY <2>4, <4>1
            <4> QED
                BY <4>1, <4>2
        <3> QED
            BY <3>1, <3>2
    <2>7. ASSUME NEW n \in 1..Len(new) PROVE \E m \in 1..Len(lists[r]) : m # at /\ lists[r][m] = new[n]
        <3>1. CASE n < at
            <4>1. n \in 1..Len(lists[r]) /\ n # at /\ new[n] = lists[r][n]
                BY <1>3, <2>2, <2>4, <3>1
            <4> QED
                BY <4>1
        <3>2. CASE ~(n < at)
            <4>1. n + 1 \in 1..Len(lists[r]) /\ n + 1 # at /\ new[n] = lists[r][n + 1]
                BY <1>3, <2>2, <2>4, <3>2
            <4> QED
                BY <4>1
        <3> QED
            BY <3>1, <3>2
    <2>8. Keeps(lists[r], new, k) /\ Keeps(new, lists[r], k)
        BY <2>2, <2>6, <2>7 DEF Keeps
    <2>9. MapOf(lists')[k] = Absent
        <3>1. ASSUME NEW n \in 1..Len(new) PROVE new[n].key # k
            <4>1. PICK m \in 1..Len(lists[r]) : m # at /\ lists[r][m] = new[n]
                BY <2>7
            <4> QED
                BY <1>3, <2>2, <4>1, KeyOnce DEF WellFormed
        <3> QED
            BY <1>1, <1>2, <2>5, <3>1, MapIs
    <2>10. MapOf(lists') = [MapOf(lists) EXCEPT ![k] = Absent]
        BY <1>1, <1>2, <2>5, <2>8, <2>9, OneKeyChanges
    <2> QED
        BY <2>1, <2>3, <2>10
<1> QED
    BY <1>4, <1>5

-----------------------------------------------------------------------------
(* The copies: one list after the other.                                   *)

\* The copy of the first i lists, from that of one list less.
Copied(seqs, f, i) == IF i = 1 THEN seqs[i] ELSE f[i - 1] \o seqs[i]

LEMMA CopyExists ==
    ASSUME NEW seqs, NEW N \in Nat \ {0}
    PROVE  \E f : f = [i \in 1..N |-> Copied(seqs, f, i)]
<1> DEFINE S == {m \in Nat : \E f : f = [i \in 1..m |-> Copied(seqs, f, i)]}
<1>1. 1 \in S
    <2>1. [i \in 1..1 |-> seqs[i]] = [i \in 1..1 |-> Copied(seqs, [j \in 1..1 |-> seqs[j]], i)]
        BY DEF Copied
    <2> QED
        BY <2>1
<1>2. ASSUME NEW m \in 1..N, m # 1, m - 1 \in S PROVE m \in S
    <2>1. PICK f : f = [i \in 1..(m - 1) |-> Copied(seqs, f, i)]
        BY <1>2
    <2> DEFINE g == [i \in 1..m |-> IF i = m THEN Copied(seqs, f, m) ELSE f[i]]
    <2>2. \A i \in 1..m : i # 1 => i - 1 \in 1..(m - 1) /\ g[i - 1] = f[i - 1]
        BY <1>2
    <2>3. g = [i \in 1..m |-> g[i]] /\ \A i \in 1..m : g[i] = IF i = m THEN Copied(seqs, f, m) ELSE f[i]
        OBVIOUS
    <2> HIDE DEF g
    <2>4. ASSUME NEW i \in 1..m PROVE g[i] = Copied(seqs, g, i)
        <3>1. Copied(seqs, g, i) = Copied(seqs, f, i)
            BY <2>2 DEF Copied
        <3>2. CASE i = m
            BY <2>3, <3>1, <3>2
        <3>3. CASE i # m
            <4>1. i \in 1..(m - 1)
                BY <1>2, <3>3
            <4>2. f[i] = Copied(seqs, f, i)
                BY <2>1, <4>1
            <4> QED
                BY <2>3, <3>1, <3>3, <4>2
        <3> QED
            BY <3>2, <3>3
    <2>5. g = [i \in 1..m |-> Copied(seqs, g, i)]
        BY <2>3, <2>4
    <2> QED
        BY <1>2, <2>5
<1> HIDE DEF S
<1>3. \A m \in 1..N : m \in S
    BY <1>1, <1>2, Induction
<1> QED
    BY <1>3 DEF S

\* A sequence of elements of T, none of them twice, and which they are.
Once(s, T) == /\ s \in Seq(T)
              /\ \A m, n \in 1..Len(s) : s[m] = s[n] => m = n
Elements(s) == {s[n] : n \in 1..Len(s)}
Joined(s, t) == Elements(s) \union Elements(t)
Apart(s, t) == Elements(s) \intersect Elements(t) = {}

LEMMA ConcatOnce ==
    ASSUME NEW T, NEW s, NEW t, Once(s, T), Once(t, T), Apart(s, t)
    PROVE  Once(s \o t, T) /\ Elements(s \o t) = Joined(s, t)
<1> DEFINE c == s \o t
<1>1. s \in Seq(T) /\ t \in Seq(T) /\ Len(s) \in Nat /\ Len(t) \in Nat
    BY DEF Once
<1>2. /\ c \in Seq(T) /\ Len(c) = Len(s) + Len(t)
      /\ \A n \in 1..(Len(s) + Len(t)) : c[n] = IF n <= Len(s) THEN s[n] ELSE t[n - Len(s)]
    BY <1>1, ConcatProperties
<1> HIDE DEF c
<1>3. ASSUME NEW n \in 1..Len(c)
      PROVE  \/ n \in 1..Len(s) /\ c[n] = s[n]
             \/ n - Len(s) \in 1..Len(t) /\ n > Len(s) /\ c[n] = t[n - Len(s)]
    BY <1>1, <1>2
<1>4. ASSUME NEW m \in 1..Len(c), NEW n \in 1..Len(c), c[m] = c[n] PROVE m = n
    <2>0. m \in Int /\ n \in Int
        BY <1>1, <1>2
    <2>1. CASE m \in 1..Len(s) /\ c[m] = s[m] /\ n \in 1..Len(s) /\ c[n] = s[n]
        BY <1>4, <2>1 DEF Once
    <2>2. ASSUME m - Len(s) \in 1..Len(t), c[m] = t[m - Len(s)], n - Len(s) \in 1..Len(t), c[n] = t[n - Len(s)]
          PROVE  m = n
        <3>1. m - Len(s) = n - Len(s)
            BY <1>4, <2>2 DEF Once
        <3> QED
            BY <1>1, <2>0, <3>1
    <2>3. ASSUME m \in 1..Len(s), c[m] = s[m], n - Len(s) \in 1..Len(t), c[n] = t[n - Len(s)] PROVE FALSE
        BY <1>4, <2>3 DEF Elements, Apart
    <2>4. ASSUME n \in 1..Len(s), c[n] = s[n], m - Len(s) \in 1..Len(t), c[m] = t[m - Len(s)] PROVE FALSE
        BY <1>4, <2>4 DEF Elements, Apart
    <2>5. \/ m \in 1..Len(s) /\ c[m] = s[m]
          \/ m - Len(s) \in 1..Len(t) /\ c[m] = t[m - Len(s)]
        BY <1>3
    <2>6. \/ n \in 1..Len(s) /\ c[n] = s[n]
          \/ n - Len(s) \in 1..Len(t) /\ c[n] = t[n - Len(s)]
        BY <1>3
    <2> QED
        BY <2>1, <2>2, <2>3, <2>4, <2>5, <2>6
<1>5. ASSUME NEW n \in 1..Len(s) PROVE s[n] \in Elements(c)
    <2>1. n \in 1..Len(c) /\ c[n] = s[n]
        BY <1>1, <1>2
    <2> QED
        BY <2>1 DEF Elements
<1>6. ASSUME NEW n \in 1..Len(t) PROVE t[n] \in Elements(c)
    <2>1. n + Len(s) \in 1..Len(c) /\ ~(n + Len(s) <= Len(s)) /\ (n + Len(s)) - Len(s) = n
        BY <1>1, <1>2
    <2>2. c[n + Len(s)] = t[n]
        BY <1>2, <2>1
    <2> QED
        BY <2>1, <2>2 DEF Elements
<1>7. Elements(c) = Elements(s) \union Elements(t)
    <2>1. \A e \in Elements(c) : e \in Elements(s) \union Elements(t)
        BY <1>3 DEF Elements
    <2>2. \A e \in Elements(s) \union Elements(t) : e \in Elements(c)
        BY <1>5, <1>6 DEF Elements
    <2> QED
        BY <2>1, <2>2
<1> QED
    BY <1>2, <1>4, <1>7 DEF Once, Joined, c

\* What FlattenSeq returns for lists without an element twice.
LEMMA FlattenOnce ==
    ASSUME NEW T, NEW seqs, NEW N \in Nat \ {0}, Len(seqs) = N,
           \A i \in 1..N : Once(seqs[i], T),
           \A i, j \in 1..N : i # j => Apart(seqs[i], seqs[j])
    PROVE  /\ Once(FlattenSeq(seqs), T)
           /\ Elements(FlattenSeq(seqs)) = UNION {Elements(seqs[i]) : i \in 1..N}
<1> DEFINE f == CHOOSE f : f = [i \in 1..N |-> Copied(seqs, f, i)]
           First(i) == UNION {Elements(seqs[j]) : j \in 1..i}
           S == {i \in 1..N : Once(f[i], T) /\ Elements(f[i]) = First(i)}
<1>1. f = [i \in 1..N |-> Copied(seqs, f, i)]
    BY CopyExists
<1>2. FlattenSeq(seqs) = f[N]
    BY DEF FlattenSeq, Copied
<1> HIDE DEF f
<1>3. 1 \in S
    <2>1. f[1] = seqs[1]
        BY <1>1 DEF Copied
    <2>2. First(1) = Elements(seqs[1])
        OBVIOUS
    <2> QED
        BY <2>1, <2>2
<1>4. ASSUME NEW i \in 1..N, i # 1, i - 1 \in S PROVE i \in S
    <2>1. f[i] = f[i - 1] \o seqs[i]
        BY <1>1, <1>4 DEF Copied
    <2>2. Once(f[i - 1], T) /\ Elements(f[i - 1]) = First(i - 1) /\ Once(seqs[i], T)
        BY <1>4
    <2>3. Apart(f[i - 1], seqs[i])
        <3>1. \A j \in 1..(i - 1) : j \in 1..N /\ j # i
            OBVIOUS
        <3> QED
            BY <2>2, <3>1 DEF Apart
    <2>4. Once(f[i], T) /\ Elements(f[i]) = First(i - 1) \union Elements(seqs[i])
        <3> DEFINE front == f[i - 1]
                   next == seqs[i]
        <3>1. /\ Once(front, T) /\ Once(next, T) /\ Elements(front) = First(i - 1)
              /\ Apart(front, next)
              /\ f[i] = front \o next
            BY <2>1, <2>2, <2>3
        <3> HIDE DEF front, next
        <3>2. Once(front \o next, T) /\ Elements(front \o next) = Joined(front, next)
            BY <3>1, ConcatOnce, ZenonT(30)
        <3> HIDE DEF First
        <3>3. Once(f[i], T) /\ Elements(f[i]) = First(i - 1) \union Elements(next)
            BY <3>1, <3>2 DEF Joined
        <3> QED
            BY <3>3 DEF next
    <2>5. First(i) = First(i - 1) \union Elements(seqs[i])
        <3>1. 1..i = (1..(i - 1)) \union {i}
            OBVIOUS
        <3> QED
            BY <3>1
    <2> QED
        BY <2>4, <2>5
<1> HIDE DEF S
<1>5. \A i \in 1..N : i \in S
    BY <1>3, <1>4, Induction
<1>6. N \in S
    BY <1>5
<1> QED
    BY <1>2, <1>6 DEF S

\* The keys with an entry.
StoredKeys(L) == {k \in Keys : MapOf(L)[k] # Absent}

\* The entries of the lists are those of the function.
LEMMA EntryIs ==
    ASSUME NEW L, Good(L), NEW r \in Rows, NEW n \in 1..Len(L[r])
    PROVE  /\ L[r][n].key \in StoredKeys(L)
           /\ hash_code(L[r][n].key) = r
           /\ L[r][n] = [key |-> L[r][n].key, value |-> MapOf(L)[L[r][n].key]]
<1>1. L[r] \in Seq(Entries) /\ WellFormed(r, L[r])
    BY DEF Good
<1>2. L[r][n] \in Entries
    BY <1>1, ElementOfSeq
<1>3. hash_code(L[r][n].key) = r
    BY <1>1 DEF WellFormed
<1> DEFINE k == L[r][n].key
<1>4. k \in Keys
    BY <1>2 DEF Entries
<1>5. MapOf(L)[k] = L[r][n].value
    BY <1>3, <1>4, MapIs
<1>6. L[r][n].value # Absent
    BY <1>2, TableAssumption DEF Entries, TableAssumption
<1> QED
    BY <1>2, <1>3, <1>4, <1>5, <1>6 DEF StoredKeys, Entries

LEMMA StoredIs ==
    ASSUME NEW L, Good(L), NEW k \in StoredKeys(L)
    PROVE  /\ hash_code(k) \in Rows
           /\ \E n \in 1..Len(L[hash_code(k)]) : L[hash_code(k)][n].key = k
<1>1. k \in Keys /\ MapOf(L)[k] # Absent
    BY DEF StoredKeys
<1> QED
    BY <1>1, HashType, MapIs

\* A list has no entry twice, and shares none, and no key, with another.
LEMMA ListsApart ==
    ASSUME NEW L, Good(L)
    PROVE  /\ \A r \in Rows : /\ Once(L[r], Entries)
                              /\ Once(list_get_keys(L[r]), Keys)
           /\ \A q, r \in Rows : q # r => /\ Apart(L[q], L[r])
                                          /\ Apart(list_get_keys(L[q]), list_get_keys(L[r]))
<1>1. ASSUME NEW r \in Rows PROVE /\ Once(L[r], Entries)
                                  /\ Once(list_get_keys(L[r]), Keys)
    <2> DEFINE list == L[r]
    <2>1. list \in Seq(Entries) /\ Sorted(list)
        BY DEF Good, WellFormed
    <2> HIDE DEF list
    <2>2. \A n \in 1..Len(list) : list[n].key \in Keys
        BY <2>1, KeysOfList
    <2>3. Len(list) \in Nat
        BY <2>1
    <2>4. /\ list_get_keys(list) \in Seq(Keys)
          /\ Len(list_get_keys(list)) = Len(list)
          /\ \A n \in 1..Len(list) : list_get_keys(list)[n] = list[n].key
        BY <2>2, <2>3 DEF list_get_keys
    <2>5. Once(list, Entries) /\ Once(list_get_keys(list), Keys)
        BY <2>1, <2>4, KeyOnce DEF Once
    <2> QED
        BY <2>5 DEF list
<1>2. ASSUME NEW q \in Rows, NEW r \in Rows, q # r
      PROVE  /\ Apart(L[q], L[r])
             /\ Apart(list_get_keys(L[q]), list_get_keys(L[r]))
    <2>1. \A n \in 1..Len(L[q]) : hash_code(L[q][n].key) = q
        BY DEF Good, WellFormed
    <2>2. \A n \in 1..Len(L[r]) : hash_code(L[r][n].key) = r
        BY DEF Good, WellFormed
    <2>3. \A m \in 1..Len(L[q]), n \in 1..Len(L[r]) : L[q][m].key # L[r][n].key
        BY <1>2, <2>1, <2>2
    <2>4. Apart(L[q], L[r])
        BY <2>3 DEF Apart, Elements
    <2>5. ASSUME NEW s \in Rows PROVE Elements(list_get_keys(L[s])) = {L[s][n].key : n \in 1..Len(L[s])}
        <3>1. Len(L[s]) \in Nat
            BY DEF Good
        <3>2. /\ Len(list_get_keys(L[s])) = Len(L[s])
              /\ \A n \in 1..Len(L[s]) : list_get_keys(L[s])[n] = L[s][n].key
            BY <3>1 DEF list_get_keys
        <3> QED
            BY <3>2 DEF Elements
    <2>6. Apart(list_get_keys(L[q]), list_get_keys(L[r]))
        <3>1. ASSUME NEW k \in Elements(list_get_keys(L[q])), k \in Elements(list_get_keys(L[r])) PROVE FALSE
            <4>1. PICK m \in 1..Len(L[q]) : k = L[q][m].key
                BY <2>5
            <4>2. PICK n \in 1..Len(L[r]) : k = L[r][n].key
                BY <2>5, <3>1
            <4> QED
                BY <2>3, <4>1, <4>2
        <3> QED
            BY <3>1 DEF Apart
    <2> QED
        BY <2>4, <2>6
<1> QED
    BY <1>1, <1>2

\* The copies that table_get_entries and table_get_keys make of lists L.
CopyOf(L) == FlattenSeq([i \in 1..NLists |-> L[i - 1]])
KeysOf(L) == FlattenSeq([i \in 1..NLists |-> SubSeq(list_get_keys(L[i - 1]), 1, list_size(L[i - 1]))])

\* table_get_entries copies each entry once.
LEMMA EntriesCopied ==
    ASSUME NEW L, Good(L)
    PROVE  /\ Once(CopyOf(L), Entries)
           /\ Elements(CopyOf(L)) = {[key |-> k, value |-> MapOf(L)[k]] : k \in StoredKeys(L)}
<1> DEFINE seqs == [i \in 1..NLists |-> L[i - 1]]
           Stored == {[key |-> k, value |-> MapOf(L)[k]] : k \in StoredKeys(L)}
<1>1. NLists \in Nat \ {0}
    BY TableAssumption DEF TableAssumption
<1>2. Len(seqs) = NLists /\ \A i \in 1..NLists : seqs[i] = L[i - 1] /\ i - 1 \in Rows
    BY <1>1 DEF Rows
<1>3. CopyOf(L) = FlattenSeq(seqs)
    BY DEF CopyOf
<1> HIDE DEF seqs
<1>4. \A i \in 1..NLists : Once(seqs[i], Entries)
    BY <1>2, ListsApart
<1>5. \A i, j \in 1..NLists : i # j => Apart(seqs[i], seqs[j])
    <2> TAKE i, j \in 1..NLists
    <2>1. i # j => i - 1 # j - 1
        BY <1>1
    <2> QED
        BY <1>2, <2>1, ListsApart
<1>6. /\ Once(FlattenSeq(seqs), Entries)
      /\ Elements(FlattenSeq(seqs)) = UNION {Elements(seqs[i]) : i \in 1..NLists}
    BY <1>1, <1>2, <1>4, <1>5, FlattenOnce
<1>7. ASSUME NEW i \in 1..NLists, NEW e \in Elements(seqs[i]) PROVE e \in Stored
    <2>1. PICK r \in Rows : seqs[i] = L[r]
        BY <1>2
    <2>2. PICK n \in 1..Len(L[r]) : e = L[r][n]
        BY <2>1 DEF Elements
    <2>3. L[r][n].key \in StoredKeys(L) /\ e = [key |-> L[r][n].key, value |-> MapOf(L)[L[r][n].key]]
        BY <2>2, EntryIs
    <2> QED
        BY <2>3
<1>8. ASSUME NEW k \in StoredKeys(L)
      PROVE  \E i \in 1..NLists : [key |-> k, value |-> MapOf(L)[k]] \in Elements(seqs[i])
    <2> DEFINE r == hash_code(k)
    <2>1. r \in Rows /\ \E n \in 1..Len(L[r]) : L[r][n].key = k
        BY StoredIs
    <2> HIDE DEF r
    <2>2. PICK n \in 1..Len(L[r]) : L[r][n].key = k
        BY <2>1
    <2>3. L[r][n] = [key |-> k, value |-> MapOf(L)[k]]
        BY <2>1, <2>2, EntryIs
    <2>4. r + 1 \in 1..NLists /\ (r + 1) - 1 = r
        BY <1>1, <2>1 DEF Rows
    <2>5. seqs[r + 1] = L[r]
        BY <1>2, <2>4
    <2> QED
        BY <2>2, <2>3, <2>4, <2>5 DEF Elements
<1>9. Elements(CopyOf(L)) = Stored
    <2>1. \A e \in Elements(CopyOf(L)) : e \in Stored
        BY <1>3, <1>6, <1>7
    <2>2. \A e \in Stored : e \in Elements(CopyOf(L))
        BY <1>3, <1>6, <1>8
    <2> QED
        BY <2>1, <2>2
<1> QED
    BY <1>3, <1>6, <1>9

\* table_get_keys copies each stored key once.
LEMMA KeysCopied ==
    ASSUME NEW L, Good(L)
    PROVE  /\ Once(KeysOf(L), Keys)
           /\ Elements(KeysOf(L)) = StoredKeys(L)
<1> DEFINE seqs == [i \in 1..NLists |-> SubSeq(list_get_keys(L[i - 1]), 1, list_size(L[i - 1]))]
<1>1. NLists \in Nat \ {0}
    BY TableAssumption DEF TableAssumption
<1>2. /\ Len(seqs) = NLists
      /\ \A i \in 1..NLists : /\ i - 1 \in Rows
                              /\ seqs[i] = SubSeq(list_get_keys(L[i - 1]), 1, list_size(L[i - 1]))
    <2>1. \A i \in 1..NLists : i - 1 \in Rows
        BY <1>1 DEF Rows
    <2>2. Len(seqs) = NLists
        BY <1>1
    <2> QED
        BY <2>1, <2>2
<1>3. KeysOf(L) = FlattenSeq(seqs)
    BY DEF KeysOf
<1> HIDE DEF seqs
<1>4. ASSUME NEW r \in Rows
      PROVE  /\ SubSeq(list_get_keys(L[r]), 1, list_size(L[r])) = list_get_keys(L[r])
             /\ Elements(list_get_keys(L[r])) = {L[r][n].key : n \in 1..Len(L[r])}
    <2>1. Len(L[r]) \in Nat
        BY DEF Good
    <2>2. list_get_keys(L[r]) \in Seq(Keys)
        BY ListsApart DEF Once
    <2>3. /\ Len(list_get_keys(L[r])) = Len(L[r])
          /\ \A n \in 1..Len(L[r]) : list_get_keys(L[r])[n] = L[r][n].key
        BY <2>1 DEF list_get_keys
    <2>4. SubSeq(list_get_keys(L[r]), 1, Len(list_get_keys(L[r]))) = list_get_keys(L[r])
        BY <2>2, SubSeqFull
    <2> QED
        BY <2>3, <2>4 DEF Elements, list_size
<1>5. \A i \in 1..NLists : seqs[i] = list_get_keys(L[i - 1])
    BY <1>2, <1>4
<1>6. \A i \in 1..NLists : Once(seqs[i], Keys)
    BY <1>2, <1>5, ListsApart
<1>7. \A i, j \in 1..NLists : i # j => Apart(seqs[i], seqs[j])
    <2> TAKE i, j \in 1..NLists
    <2>1. i # j => i - 1 # j - 1
        BY <1>1
    <2> QED
        BY <1>2, <1>5, <2>1, ListsApart
<1>8. /\ Once(FlattenSeq(seqs), Keys)
      /\ Elements(FlattenSeq(seqs)) = UNION {Elements(seqs[i]) : i \in 1..NLists}
    BY <1>1, <1>2, <1>6, <1>7, FlattenOnce
<1>9. ASSUME NEW i \in 1..NLists, NEW k \in Elements(seqs[i]) PROVE k \in StoredKeys(L)
    <2>1. PICK r \in Rows : seqs[i] = list_get_keys(L[r])
        BY <1>2, <1>5
    <2>2. PICK n \in 1..Len(L[r]) : k = L[r][n].key
        BY <1>4, <2>1
    <2> QED
        BY <2>2, EntryIs
<1>10. ASSUME NEW k \in StoredKeys(L) PROVE \E i \in 1..NLists : k \in Elements(seqs[i])
    <2> DEFINE r == hash_code(k)
    <2>1. r \in Rows /\ \E n \in 1..Len(L[r]) : L[r][n].key = k
        BY StoredIs
    <2> HIDE DEF r
    <2>2. k \in Elements(list_get_keys(L[r]))
        BY <1>4, <2>1
    <2>3. r + 1 \in 1..NLists /\ (r + 1) - 1 = r
        BY <1>1, <2>1 DEF Rows
    <2>4. seqs[r + 1] = list_get_keys(L[r])
        BY <1>5, <2>3
    <2> QED
        BY <2>2, <2>3, <2>4
<1>11. Elements(KeysOf(L)) = StoredKeys(L)
    <2>1. \A k \in Elements(KeysOf(L)) : k \in StoredKeys(L)
        BY <1>3, <1>8, <1>9
    <2>2. \A k \in StoredKeys(L) : k \in Elements(KeysOf(L))
        BY <1>3, <1>8, <1>10
    <2> QED
        BY <2>1, <2>2
<1> QED
    BY <1>3, <1>8, <1>11

-----------------------------------------------------------------------------
(* The theorems about the function and the copies.                         *)

\* The function of the lists, now and after a step.
LEMMA MapNow ==
    /\ Map = MapOf(lists) /\ Map' = MapOf(lists')
    /\ TableInv => Good(lists)
    /\ TableInv' => Good(lists')
    /\ KV!Stored(Map) = StoredKeys(lists)
<1>1. Map = MapOf(lists) /\ Map' = MapOf(lists')
    BY DEF Map, Bound, MapOf, Holding
<1>2. (TableInv => Good(lists)) /\ (TableInv' => Good(lists'))
    BY DEF TableInv, Good, WellFormed, Sorted
<1>3. KV!Stored(Map) = StoredKeys(lists)
    BY <1>1 DEF KV!Stored, StoredKeys
<1> QED
    BY <1>1, <1>2, <1>3

\* table_size counts the stored keys.
LEMMA SizeIs ==
    ASSUME NEW L, Good(L)
    PROVE  Len(CopyOf(L)) = Cardinality(StoredKeys(L))
<1> DEFINE E == CopyOf(L)
           f == [n \in 1..Len(E) |-> E[n].key]
<1>1. Once(E, Entries) /\ Elements(E) = {[key |-> k, value |-> MapOf(L)[k]] : k \in StoredKeys(L)}
    BY EntriesCopied
<1> HIDE DEF E
<1>2. Len(E) \in Nat
    BY <1>1 DEF Once
<1>3. ASSUME NEW n \in 1..Len(E)
      PROVE  E[n].key \in StoredKeys(L) /\ E[n] = [key |-> E[n].key, value |-> MapOf(L)[E[n].key]]
    <2>1. E[n] \in Elements(E)
        BY DEF Elements
    <2>2. PICK k \in StoredKeys(L) : E[n] = [key |-> k, value |-> MapOf(L)[k]]
        BY <1>1, <2>1
    <2> QED
        BY <2>2
<1>4. f \in Injection(1..Len(E), StoredKeys(L))
    <2>1. f \in [1..Len(E) -> StoredKeys(L)]
        BY <1>3
    <2>2. ASSUME NEW m \in 1..Len(E), NEW n \in 1..Len(E), f[m] = f[n] PROVE m = n
        <3>1. E[m].key = E[n].key
            BY <2>2
        <3>2. E[m] = E[n]
            BY <1>3, <3>1
        <3> QED
            BY <1>1, <3>2 DEF Once
    <2>3. DOMAIN f = 1..Len(E)
        OBVIOUS
    <2> HIDE DEF f
    <2> QED
        BY <2>1, <2>2, <2>3 DEF Injection, IsInjective
<1>5. f \in Surjection(1..Len(E), StoredKeys(L))
    <2>1. f \in [1..Len(E) -> StoredKeys(L)]
        BY <1>3
    <2>2. ASSUME NEW k \in StoredKeys(L) PROVE \E n \in 1..Len(E) : f[n] = k
        <3>1. [key |-> k, value |-> MapOf(L)[k]] \in Elements(E)
            BY <1>1
        <3>2. PICK n \in 1..Len(E) : E[n] = [key |-> k, value |-> MapOf(L)[k]]
            BY <3>1 DEF Elements
        <3>3. f[n] = k
            BY <3>2
        <3> QED
            BY <3>3
    <2> HIDE DEF f
    <2> QED
        BY <2>1, <2>2 DEF Surjection
<1>6. ExistsBijection(1..Len(E), StoredKeys(L))
    BY <1>4, <1>5 DEF ExistsBijection, Bijection
<1>7. IsFiniteSet(1..Len(E)) /\ Cardinality(1..Len(E)) = Len(E)
    <2> DEFINE N == Len(E)
    <2>1. N \in Int /\ N >= 0
        BY <1>2
    <2> HIDE DEF N
    <2>2. IsFiniteSet(1..N) /\ Cardinality(1..N) = N
        BY <2>1, FS_Interval
    <2> QED
        BY <2>2 DEF N
<1>8. Cardinality(StoredKeys(L)) = Len(E)
    BY <1>6, <1>7, FS_Bijection
<1> QED
    BY <1>8 DEF E

\* put, get, remove and size change the table, and answer, as KVStore says of
\* the function that the lists stand for (table.c:86-142, list.c:82-209): the
\* sorted lists behind hash_code are that function, whatever the keys and
\* however many lists there are.
THEOREM TableIsAFunction == Spec => OperationsCorrect
<1> DEFINE PutRight(k, v) == table_put(k, v) => /\ Map' = KV!Effect(Map, <<"PUT", k, v>>)
                                                /\ answer' = KV!Result(Map, <<"PUT", k, v>>)
           GetRight(k) == table_get(k) => /\ Map' = KV!Effect(Map, <<"GET", k>>)
                                          /\ answer' = KV!Result(Map, <<"GET", k>>)
           RemoveRight(k) == table_remove(k) => /\ Map' = KV!Effect(Map, <<"DEL", k>>)
                                                /\ answer' = KV!Result(Map, <<"DEL", k>>)
           SizeRight == table_size => /\ Map' = KV!Effect(Map, <<"SIZE">>)
                                      /\ answer' = KV!Result(Map, <<"SIZE">>)
           Right == /\ \A k \in Keys : /\ \A v \in Values : PutRight(k, v)
                                       /\ GetRight(k)
                                       /\ RemoveRight(k)
                    /\ SizeRight
<1>1. TableInv /\ TableInv' => Right
    <2> SUFFICES ASSUME TableInv, TableInv' PROVE Right
        OBVIOUS
    <2>1. Map = MapOf(lists) /\ Map' = MapOf(lists') /\ Good(lists)
        BY MapNow
    <2>2. ASSUME NEW k \in Keys, NEW v \in Values PROVE PutRight(k, v)
        <3> SUFFICES ASSUME table_put(k, v)
                     PROVE  /\ Map' = KV!Effect(Map, <<"PUT", k, v>>)
                            /\ answer' = KV!Result(Map, <<"PUT", k, v>>)
            OBVIOUS
        <3>1. MapOf(lists') = [MapOf(lists) EXCEPT ![k] = v]
            BY ReplaceMaps, InsertMaps DEF table_put
        <3>2. answer' = <<"PUT">>
            BY DEF table_put, Replace, Insert
        <3>3. /\ KV!Effect(Map, <<"PUT", k, v>>) = [Map EXCEPT ![k] = v]
              /\ KV!Result(Map, <<"PUT", k, v>>) = <<"PUT">>
            BY DEF KV!Effect, KV!Result
        <3> QED
            BY <2>1, <3>1, <3>2, <3>3
    <2>3. ASSUME NEW k \in Keys PROVE GetRight(k)
        <3> SUFFICES ASSUME table_get(k)
                     PROVE  /\ Map' = KV!Effect(Map, <<"GET", k>>)
                            /\ answer' = KV!Result(Map, <<"GET", k>>)
            OBVIOUS
        <3>1. answer' = <<"GET", MapOf(lists)[k]>>
            BY GetReads
        <3>2. lists' = lists
            BY DEF table_get
        <3>3. /\ KV!Effect(Map, <<"GET", k>>) = Map
              /\ KV!Result(Map, <<"GET", k>>) = <<"GET", Map[k]>>
            BY DEF KV!Effect, KV!Result
        <3> QED
            BY <2>1, <3>1, <3>2, <3>3
    <2>4. ASSUME NEW k \in Keys PROVE RemoveRight(k)
        <3> SUFFICES ASSUME table_remove(k)
                     PROVE  /\ Map' = KV!Effect(Map, <<"DEL", k>>)
                            /\ answer' = KV!Result(Map, <<"DEL", k>>)
            OBVIOUS
        <3>1. /\ MapOf(lists') = [MapOf(lists) EXCEPT ![k] = Absent]
              /\ answer' = <<"DEL", MapOf(lists)[k] # Absent>>
            BY RemoveMaps
        <3>2. KV!Effect(Map, <<"DEL", k>>) = [Map EXCEPT ![k] = Absent]
            BY DEF KV!Effect
        <3>3. KV!Result(Map, <<"DEL", k>>) = <<"DEL", k \in KV!Stored(Map)>>
            BY DEF KV!Result
        <3>4. (k \in KV!Stored(Map)) = (Map[k] # Absent)
            BY DEF KV!Stored
        <3> QED
            BY <2>1, <3>1, <3>2, <3>3, <3>4
    <2>5. SizeRight
        <3> SUFFICES ASSUME table_size
                     PROVE  /\ Map' = KV!Effect(Map, <<"SIZE">>)
                            /\ answer' = KV!Result(Map, <<"SIZE">>)
            OBVIOUS
        <3>1. answer' = <<"SIZE", Len(CopyOf(lists))>> /\ lists' = lists
            BY DEF table_size, AllEntries, CopyOf
        <3>2. /\ KV!Effect(Map, <<"SIZE">>) = Map
              /\ KV!Result(Map, <<"SIZE">>) = <<"SIZE", KV!Cardinality(KV!Stored(Map))>>
            BY DEF KV!Effect, KV!Result
        <3>3. Len(CopyOf(lists)) = Cardinality(KV!Stored(Map))
            BY <2>1, MapNow, SizeIs
        <3>4. KV!Cardinality(KV!Stored(Map)) = Cardinality(KV!Stored(Map))
            BY DEF KV!Cardinality, Cardinality
        <3> QED
            BY <2>1, <3>1, <3>2, <3>3, <3>4
    <2> QED
        BY <2>2, <2>3, <2>4, <2>5
<1>2. OperationsCorrect <=> [][Right]_vars
    BY DEF OperationsCorrect
<1> HIDE DEF Right
<1> QED
    BY <1>1, <1>2, TableInvariant, PTL DEF Spec

LEMMA OnceIs ==
    ASSUME NEW T, NEW s, Once(s, T)
    PROVE  IsInjective(s) /\ ToSet(s) = Elements(s)
<1>1. DOMAIN s = 1..Len(s)
    BY DEF Once
<1> QED
    BY <1>1 DEF Once, IsInjective, ToSet, Elements

\* A copy of the keys or of the entries has each stored key once, and with it
\* its own value, for any keys and any number of lists (table_get_keys and
\* table_get_entries, table.c:149-202): the walk over the lists meets no key
\* twice, since a key is in the list of its hash code only.
THEOREM CopiesStayComplete == Spec => []CopiesComplete
<1>1. Init => CopiesComplete
    BY DEF Init, CopiesComplete
<1>2. TableInv /\ TableInv' /\ CopiesComplete /\ [Next]_vars => CopiesComplete'
    <2> SUFFICES ASSUME TableInv, TableInv', CopiesComplete, [Next]_vars PROVE CopiesComplete'
        OBVIOUS
    <2>1. CASE UNCHANGED vars
        <3>1. lists' = lists /\ answer' = answer
            BY <2>1 DEF vars
        <3>2. Map' = Map
            BY <3>1, MapNow
        <3>3. KV!Stored(Map)' = KV!Stored(Map)
            BY <3>2 DEF KV!Stored
        <3> QED
            BY <3>1, <3>2, <3>3 DEF CopiesComplete
    <2>2. CASE table_get_keys
        <3>1. answer' = <<"GETKEYS", KeysOf(lists)>> /\ lists' = lists
            BY <2>2 DEF table_get_keys, KeysOf
        <3>2. Once(KeysOf(lists), Keys) /\ Elements(KeysOf(lists)) = KV!Stored(Map)
            BY KeysCopied, MapNow
        <3>3. KV!Stored(Map)' = KV!Stored(Map)
            BY <3>1, MapNow DEF KV!Stored
        <3>4. IsInjective(KeysOf(lists)) /\ ToSet(KeysOf(lists)) = KV!Stored(Map)
            BY <3>2, OnceIs
        <3> QED
            BY <3>1, <3>3, <3>4 DEF CopiesComplete
    <2>3. CASE table_get_entries
        <3>1. answer' = <<"GETTABLE", CopyOf(lists)>> /\ lists' = lists
            BY <2>3 DEF table_get_entries, AllEntries, CopyOf
        <3>2. /\ Once(CopyOf(lists), Entries)
              /\ Elements(CopyOf(lists)) = {[key |-> k, value |-> Map[k]] : k \in KV!Stored(Map)}
            BY EntriesCopied, MapNow
        <3>3. KV!Stored(Map)' = KV!Stored(Map) /\ Map' = Map
            BY <3>1, MapNow DEF KV!Stored
        <3>4. /\ IsInjective(CopyOf(lists))
              /\ ToSet(CopyOf(lists)) = {[key |-> k, value |-> Map[k]] : k \in KV!Stored(Map)}
            BY <3>2, OnceIs
        <3> QED
            BY <3>1, <3>3, <3>4 DEF CopiesComplete
    <2>4. CASE answer'[1] \in {"PUT", "GET", "DEL", "SIZE"}
        BY <2>4 DEF CopiesComplete
    <2>5. CASE \E k \in Keys : \/ \E v \in Values : table_put(k, v)
                               \/ table_get(k)
                               \/ table_remove(k)
        <3>1. answer'[1] \in {"PUT", "GET", "DEL"}
            <4> PICK k \in Keys : \/ \E v \in Values : table_put(k, v)
                                  \/ table_get(k)
                                  \/ table_remove(k)
                BY <2>5
            <4>1. CASE \E v \in Values : table_put(k, v)
                BY <4>1 DEF table_put, Replace, Insert
            <4>2. CASE table_get(k)
                <5>1. \E v : answer' = <<"GET", v>>
                    BY <4>2 DEF table_get
                <5> QED
                    BY <5>1
            <4>3. CASE table_remove(k)
                <5>1. \E v : answer' = <<"DEL", v>>
                    BY <4>3 DEF table_remove
                <5> QED
                    BY <5>1
            <4> QED
                BY <4>1, <4>2, <4>3
        <3> QED
            BY <2>4, <3>1
    <2>6. CASE table_size
        BY <2>4, <2>6 DEF table_size
    <2> QED
        BY <2>1, <2>2, <2>3, <2>5, <2>6 DEF Next
<1> QED
    BY <1>1, <1>2, TableInvariant, PTL DEF Spec
=============================================================================
