------------------------------ MODULE WaitSink ------------------------------
(***************************************************************************)
(* WaitSink (scheduler/pool.rs): the time a file's thread has spent parked *)
(* in Pool::acquire.  The thread parks and unparks; its watchdogs read the *)
(* two fields one after the other, without a lock around both.  `parked`   *)
(* is a history variable, the time the thread has really been parked.      *)
(***************************************************************************)
EXTENDS Integers

\* The watchdogs that read the sink: the file's and the test's
Kinds == {"file", "test"}

VARIABLES
    now,            \* Instant::now()
    parkedSince,    \* WaitSink.parked_since, -1 for None
    settled,        \* WaitSink.settled_ns
    parked,         \* history: time the thread has really spent parked
    waited          \* of each watchdog: what its call of waited() has added up

sink == <<parkedSince, settled, parked>>

NewSink == parkedSince = -1 /\ settled = 0 /\ parked = 0

SinkPark ==
    /\ parkedSince' = now
    /\ UNCHANGED <<settled, parked>>

\* `take` and `fetch_add` under the sink's lock
SinkUnpark ==
    /\ settled' = settled + (now - parkedSince)
    /\ parkedSince' = -1
    /\ UNCHANGED parked

\* The two halves of `waited`: settled_ns.load, then the live park under the lock
AddSettled(k) == waited' = [waited EXCEPT ![k] = @ + settled]
AddLive(k) == waited' = [waited EXCEPT ![k] = IF parkedSince >= 0 THEN @ + (now - parkedSince) ELSE @]

-----------------------------------------------------------------------------
\* WaitSink never counts a park twice: what `waited` returns, whenever the
\* thread unparks between its two reads, is at most the time really parked.  A
\* sink that over-counts would keep a hung file alive past its deadline.
WaitedIsSound == \A k \in Kinds : waited[k] <= parked

=============================================================================
