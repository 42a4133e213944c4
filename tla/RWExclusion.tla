---------------------------- MODULE RWExclusion ----------------------------
(***************************************************************************)
(* What the four calls of mutex.c promise their callers: a thread that has *)
(* returned from enter_read or enter_write and not yet called the matching *)
(* exit is inside, any number of readers may be inside together, and a     *)
(* writer is inside alone.  How a thread is made to wait, and who goes     *)
(* first, is left to the implementation (RWLock).  Every module that uses  *)
(* one of the server's two locks instantiates this specification.          *)
(***************************************************************************)
CONSTANT Threads          \* the threads that share the lock

VARIABLES readers,        \* threads between enter_read and exit_read
          writers         \* threads between enter_write and exit_write

vars == <<readers, writers>>

Init == readers = {} /\ writers = {}

\* A thread is never inside twice: no caller in the source nests a lock.
BeginRead(t) ==
    /\ t \notin readers
    /\ writers = {}
    /\ readers' = readers \union {t}
    /\ UNCHANGED writers

EndRead(t) ==
    /\ t \in readers
    /\ readers' = readers \ {t}
    /\ UNCHANGED writers

BeginWrite(t) ==
    /\ readers = {}
    /\ writers = {}
    /\ writers' = {t}
    /\ UNCHANGED readers

EndWrite(t) ==
    /\ t \in writers
    /\ writers' = writers \ {t}
    /\ UNCHANGED readers

Next == \E t \in Threads :
            BeginRead(t) \/ EndRead(t) \/ BeginWrite(t) \/ EndWrite(t)

Spec == Init /\ [][Next]_vars

TypeOK == readers \subseteq Threads /\ writers \subseteq Threads

\* A writer is inside alone.
Exclusive ==
    /\ \A t, u \in writers : t = u
    /\ writers # {} => readers = {}
=============================================================================
