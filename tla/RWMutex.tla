------------------------------- MODULE RWMutex -------------------------------
(***************************************************************************)
(* Go's sync.RWMutex, for a set of locks.  PackageManager.packagesLock and *)
(* LibrariesManager.librariesLock are two of them.  A writer announces     *)
(* itself first and then waits for the active readers to drain; from its   *)
(* announcement on, new readers queue behind it, and its Unlock admits all *)
(* of them before the next writer.  A read lock taken while a writer       *)
(* is announced therefore blocks even though only readers hold the lock.   *)
(***************************************************************************)
CONSTANTS Locks,   \* the mutexes
          Calls,   \* the goroutines that use them
          Nobody   \* no goroutine: the writer of a mutex nobody has called Lock on

VARIABLES readers, \* readers[lk]: the goroutines that hold a read lock
          waiting, \* waiting[lk]: the goroutines parked in RLock
          writer   \* writer[lk]: the goroutine that announced itself in Lock

LockTypeOK == /\ readers \in [Locks -> SUBSET Calls]
              /\ waiting \in [Locks -> SUBSET Calls]
              /\ writer  \in [Locks -> Calls \cup {Nobody}]

LockInit == /\ readers = [lk \in Locks |-> {}]
            /\ waiting = [lk \in Locks |-> {}]
            /\ writer  = [lk \in Locks |-> Nobody]

-----------------------------------------------------------------------------
HoldsRead(lk, c)  == c \in readers[lk]
HoldsWrite(lk, c) == writer[lk] = c /\ readers[lk] = {}

\* The first half of RLock: enter, or park behind the announced writer.
RLock(lk, c) ==
    /\ \/ /\ writer[lk] = Nobody
          /\ readers' = [readers EXCEPT ![lk] = @ \cup {c}]
          /\ UNCHANGED waiting
       \/ /\ writer[lk] # Nobody
          /\ waiting' = [waiting EXCEPT ![lk] = @ \cup {c}]
          /\ UNCHANGED readers
    /\ UNCHANGED writer

RUnlock(lk, c) == /\ readers' = [readers EXCEPT ![lk] = @ \ {c}]
                  /\ UNCHANGED <<waiting, writer>>

\* The first half of Lock: announce the writer; HoldsWrite says it has entered.
Lock(lk, c) == /\ writer[lk] = Nobody
               /\ writer' = [writer EXCEPT ![lk] = c]
               /\ UNCHANGED <<readers, waiting>>

\* The parked readers enter together, before another writer can.
Unlock(lk, c) == /\ readers' = [readers EXCEPT ![lk] = waiting[lk]]
                 /\ waiting' = [waiting EXCEPT ![lk] = {}]
                 /\ writer'  = [writer EXCEPT ![lk] = Nobody]

\* The process ends, and its mutexes with it.
LocksVanish == /\ readers' = [lk \in Locks |-> {}]
               /\ waiting' = [lk \in Locks |-> {}]
               /\ writer'  = [lk \in Locks |-> Nobody]
=============================================================================
