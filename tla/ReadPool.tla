------------------------------- MODULE ReadPool --------------------------------
(***************************************************************************)
(* The gRPC service's connections (service.rs): reads run on a bounded     *)
(* pool of read-only connections, writes share one connection behind a     *)
(* mutex.  Connections may fail to open and every operation may panic.     *)
(*                                                                         *)
(* Abstractions.  What a read or a write does with its connection is one   *)
(* step (see Listing and ArchiveStore).  The idle list is locked within    *)
(* one step: to pop, to open a connection while it is empty, or to push.   *)
(* A poisoned lock is what std::sync::Mutex makes of a panic of its        *)
(* holder; the semaphore serves its waiters in order (tokio).  The archive *)
(* in memory, whose reads use the writer's connection, is left out.        *)
(***************************************************************************)
EXTENDS Integers, Sequences, FiniteSets

CONSTANTS
  Readers,     \* clients of list, show, search, ...
  Writers,     \* clients of ingest
  Permits,     \* size of the semaphore: available_parallelism within 2 .. 8
  MaxIdle,     \* MAX_READ_CONNECTIONS
  MaxFaults    \* bound: panics and connections that cannot be opened

ASSUME ReadPoolAssumption ==
  /\ IsFiniteSet(Readers)
  /\ Permits \in 2 .. MaxIdle /\ MaxIdle \in Nat
  /\ MaxFaults \in Nat
  /\ {"free", "poisoned"} \cap Writers = {}

VARIABLES
  reader,    \* reader[r]: how far r's call is
  queue,     \* readers that wait for a permit, first come first served
  permits,   \* free permits of the semaphore
  idle,      \* read-only connections in the idle list
  poolLock,  \* the mutex of the idle list: "sound" or "poisoned"
  writer,    \* writer[w]: "idle", "waiting" or "writing"
  database,  \* the writer mutex: "free", "poisoned" or the writer inside
  faults     \* panics and failed opens so far

poolVars == <<reader, queue, permits, idle, poolLock, writer, database, faults>>

writing == <<writer, database>>

PoolInit ==
  /\ reader = [r \in Readers |-> "idle"]
  /\ queue = <<>>
  /\ permits = Permits
  /\ idle = 0
  /\ poolLock = "sound"
  /\ writer = [w \in Writers |-> "idle"]
  /\ database = "free"
  /\ faults = 0

Move(r, from, to) == reader[r] = from /\ reader' = [reader EXCEPT ![r] = to]

Fault == faults < MaxFaults /\ faults' = faults + 1

(***************************************************************************)
(* A read: ReadPool::run                                                   *)
(***************************************************************************)
CallRead(r) ==
  /\ Move(r, "idle", "queued")
  /\ queue' = Append(queue, r)
  /\ UNCHANGED <<permits, idle, poolLock, writing, faults>>

\* The caller goes away while it waits: the future is dropped.
Withdraw(r) ==
  /\ Move(r, "queued", "idle")
  /\ \E i \in 1 .. Len(queue) :
       /\ queue[i] = r
       /\ queue' = SubSeq(queue, 1, i - 1) \o SubSeq(queue, i + 1, Len(queue))
  /\ UNCHANGED <<permits, idle, poolLock, writing, faults>>

Admit(r) ==
  /\ queue # <<>> /\ Head(queue) = r
  /\ permits > 0
  /\ Move(r, "queued", "admitted")
  /\ queue' = Tail(queue)
  /\ permits' = permits - 1
  /\ UNCHANGED <<idle, poolLock, writing, faults>>

\* A connection is popped from the idle list, or opened while the list is empty.
TakeConnection(r) ==
  /\ Move(r, "admitted", "reading")
  /\ poolLock = "sound"
  /\ idle' = IF idle > 0 THEN idle - 1 ELSE 0
  /\ UNCHANGED <<queue, permits, poolLock, writing, faults>>

\* The lock is poisoned, the archive cannot be opened, or opening it panics
\* while the lock is held.  The worker ends and its permit is dropped.
TakeFails(r) ==
  /\ Move(r, "admitted", "idle")
  /\ \/ poolLock = "poisoned" /\ UNCHANGED <<poolLock, faults>>
     \/ poolLock = "sound" /\ idle = 0 /\ Fault /\ poolLock' \in {"sound", "poisoned"}
  /\ permits' = permits + 1
  /\ UNCHANGED <<queue, idle, writing>>

\* The operation has returned, with a result or an error: the connection goes
\* back, unless the list is full or its lock poisoned.
ReturnConnection(r) ==
  /\ Move(r, "reading", "done")
  /\ idle' = IF poolLock = "sound" /\ idle < MaxIdle THEN idle + 1 ELSE idle
  /\ UNCHANGED <<queue, permits, poolLock, writing, faults>>

\* drop(permit), and the answer.
Release(r) ==
  /\ Move(r, "done", "idle")
  /\ permits' = permits + 1
  /\ UNCHANGED <<queue, idle, poolLock, writing, faults>>

\* Mutated form: the permit is not owned by the closure that unwinds.
UnwindKeepsPermit(r) ==
  /\ Move(r, "reading", "idle")
  /\ Fault
  /\ UNCHANGED <<queue, permits, idle, poolLock, writing>>

\* The operation panics: its connection and its permit are dropped.
Unwind(r) ==
  /\ Move(r, "reading", "idle")
  /\ Fault
  /\ permits' = permits + 1
  /\ UNCHANGED <<queue, idle, poolLock, writing>>

(***************************************************************************)
(* A write: TraceDbGrpc::write                                             *)
(***************************************************************************)
CallWrite(w) ==
  /\ writer[w] = "idle"
  /\ writer' = [writer EXCEPT ![w] = "waiting"]
  /\ UNCHANGED <<reader, queue, permits, idle, poolLock, database, faults>>

\* lock(): exclusive, and refused for good once poisoned.
LockWriter(w) ==
  /\ writer[w] = "waiting"
  /\ \/ /\ database = "free"
        /\ database' = w
        /\ writer' = [writer EXCEPT ![w] = "writing"]
     \/ /\ database = "poisoned"
        /\ writer' = [writer EXCEPT ![w] = "idle"]
        /\ UNCHANGED database
  /\ UNCHANGED <<reader, queue, permits, idle, poolLock, faults>>

FinishWrite(w) ==
  /\ writer[w] = "writing"
  /\ database' = "free"
  /\ writer' = [writer EXCEPT ![w] = "idle"]
  /\ UNCHANGED <<reader, queue, permits, idle, poolLock, faults>>

\* The operation panics with the mutex held.
WriterPanics(w) ==
  /\ writer[w] = "writing"
  /\ Fault
  /\ database' = "poisoned"
  /\ writer' = [writer EXCEPT ![w] = "idle"]
  /\ UNCHANGED <<reader, queue, permits, idle, poolLock>>

\* What the runtime does for a call.
ServeRead(r) ==
  \/ Admit(r)
  \/ TakeConnection(r)
  \/ TakeFails(r)
  \/ ReturnConnection(r)
  \/ Release(r)
  \/ Unwind(r)

ServeWrite(w) ==
  \/ LockWriter(w)
  \/ FinishWrite(w)
  \/ WriterPanics(w)

PoolNext ==
  \/ \E r \in Readers : CallRead(r)
  \/ \E r \in Readers : Withdraw(r)
  \/ \E r \in Readers : ServeRead(r)
  \/ \E w \in Writers : CallWrite(w)
  \/ \E w \in Writers : ServeWrite(w)

PoolSpec == PoolInit /\ [][PoolNext]_poolVars

\* The runtime works on every read it has been given, and an operation comes to
\* its end; nothing is assumed of the order in which the mutex serves writers.
FairSpec == PoolSpec /\ \A r \in Readers : WF_poolVars(ServeRead(r))

(***************************************************************************)
(* Properties                                                              *)
(***************************************************************************)
PoolTypeOK ==
  /\ reader \in [Readers -> {"idle", "queued", "admitted", "reading", "done"}]
  /\ queue \in Seq(Readers)
  /\ permits \in 0 .. Permits
  /\ idle \in Nat
  /\ poolLock \in {"sound", "poisoned"}
  /\ writer \in [Writers -> {"idle", "waiting", "writing"}]
  /\ database \in {"free", "poisoned"} \cup Writers
  /\ faults \in 0 .. MaxFaults

Holding(places) == Cardinality({r \in Readers : reader[r] \in places})

\* The variables keep their types, and whatever panics, fails or goes away, no
\* permit is lost or made up and there are never more connections than permits:
\* MAX_READ_CONNECTIONS bounds what the pool keeps open although its own check
\* looks at the idle list only.
PoolAccounted ==
  /\ PoolTypeOK
  /\ permits + Holding({"admitted", "reading", "done"}) = Permits
  /\ idle + Holding({"reading"}) <= Permits

\* Every read that was called is answered, also while a write runs or waits and
\* after the writer or the pool was poisoned.
ReadsAnswered == \A r \in Readers : reader[r] # "idle" ~> reader[r] = "idle"
=============================================================================
