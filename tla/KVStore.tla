------------------------------ MODULE KVStore ------------------------------
(***************************************************************************)
(* What the server promises on each connection for the requests that read  *)
(* and write single keys or the size of the table: a request takes effect  *)
(* at one instant between its arrival and its answer (linearizability).    *)
(* A malformed request changes nothing and is refused, which closes the    *)
(* connection; a connection may also be lost before the answer is sent.    *)
(* TableSkel implements this specification.                                *)
(***************************************************************************)
EXTENDS FiniteSets

CONSTANTS Threads,      \* the connections
          Keys, Values,
          Absent        \* what a key without an entry is mapped to

VARIABLES store,        \* the entry of each key
          request,      \* the request each connection is being served, or {}
          answer        \* its answer, once it has taken effect, or {}

vars == <<store, request, answer>>

\* The requests, and the answers, as tuples headed by their opcode.
Requests == ({"PUT"} \X Keys \X Values) \union ({"GET", "DEL"} \X Keys)
              \union {<<"SIZE">>, <<"BAD">>}

Stored(s) == {k \in Keys : s[k] # Absent}

Result(s, r) ==
    CASE r[1] = "PUT"  -> <<"PUT">>
      [] r[1] = "GET"  -> <<"GET", s[r[2]]>>
      [] r[1] = "DEL"  -> <<"DEL", r[2] \in Stored(s)>>
      [] r[1] = "SIZE" -> <<"SIZE", Cardinality(Stored(s))>>

Effect(s, r) ==
    CASE r[1] = "PUT" -> [s EXCEPT ![r[2]] = r[3]]
      [] r[1] = "DEL" -> [s EXCEPT ![r[2]] = Absent]
      [] OTHER        -> s

Init ==
    /\ store = [k \in Keys |-> Absent]
    /\ request = [t \in Threads |-> {}]
    /\ answer = [t \in Threads |-> {}]

\* A request is a singleton, so that {} can stand for none.
Arrive(t) ==
    /\ request[t] = {}
    /\ \E r \in Requests : request' = [request EXCEPT ![t] = {r}]
    /\ UNCHANGED <<store, answer>>

TakeEffect(t) ==
    \E r \in request[t] :
        /\ r[1] # "BAD"
        /\ answer[t] = {}
        /\ store' = Effect(store, r)
        /\ answer' = [answer EXCEPT ![t] = {Result(store, r)}]
        /\ UNCHANGED request

Finish(t) ==
    /\ answer[t] # {} \/ <<"BAD">> \in request[t]
    /\ request' = [request EXCEPT ![t] = {}]
    /\ answer' = [answer EXCEPT ![t] = {}]
    /\ UNCHANGED store

Next == \E t \in Threads : Arrive(t) \/ TakeEffect(t) \/ Finish(t)

Spec == Init /\ [][Next]_vars
=============================================================================
