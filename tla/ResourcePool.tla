---------------------------- MODULE ResourcePool ----------------------------
(***************************************************************************)
(* The resource pool of provium-host/src/scheduler/pool.rs: a memory/cpu   *)
(* budget guarded by one mutex and one condition variable, from which test *)
(* files reserve what they boot, and the hold-and-wait verdict it takes.   *)
(*                                                                         *)
(* Every method body runs under the mutex, so each is one atomic step; the *)
(* only place a thread lets go of the mutex inside a method is             *)
(* `cond.wait`, and a thread blocked there is in `asleep` until a          *)
(* notification or a spurious wake-up takes it out.                        *)
(*                                                                         *)
(* A file is one thread and one owner (dispatch.rs mints the owner with    *)
(* the file's lab and runs the file's chunk on one thread).  Strays are    *)
(* the callers of the anonymous `acquire`.  An owner without an entry in   *)
(* the code's `owners` map is one whose entry here is idle, which is what  *)
(* `prune` and `owner_mut` make of it.                                     *)
(***************************************************************************)
EXTENDS ResourceAmounts

CONSTANTS
    Files,      \* attributed callers, one per test file
    Strays,     \* anonymous callers
    Slots,      \* bound: how many live reservations one caller may have
    Total,      \* the pool's capacity
    Requests,   \* the sizes callers ask for
    Watched     \* files whose watchdog may drop their reservations (lab.shutdown)

Threads == Files \cup Strays

ASSUME PoolAssumption ==
    /\ IsFiniteSet(Files) /\ IsFiniteSet(Strays) /\ Files \cap Strays = {}
    /\ IsFiniteSet(Slots)
    /\ Total \in Amount /\ FitsIn(Total, Limit)
    /\ Requests \subseteq Amount
    /\ Watched \subseteq Files

VARIABLES
    available,      \* PoolState.available
    held,           \* OwnerState.held of every file
    ownerWaiting,   \* OwnerState.waiting of every file
    waiting,        \* the threads with a ticket in PoolState.waiting
    request,        \* the amount of a thread's acquire (its ticket's value)
    asleep,         \* the threads blocked in cond.wait and not yet notified
    resv,           \* live Reservations: resv[<<t, s>>], Zero for a slot not in use
    finished        \* threads whose program has ended; they only drop

vars == <<available, held, ownerWaiting, waiting, request, asleep, resv, finished>>

Init ==
    /\ available = Total
    /\ held = [f \in Files |-> Zero]
    /\ ownerWaiting = [f \in Files |-> 0]
    /\ waiting = {}
    /\ request = [t \in Threads |-> Zero]
    /\ asleep = {}
    /\ resv = [c \in Threads \X Slots |-> Zero]
    /\ finished = {}

-----------------------------------------------------------------------------
(***************************************************************************)
(* PoolState::deadlock, over the tickets ws, the requests rq behind them   *)
(* and the per-owner counts ow the caller has just installed.              *)
(***************************************************************************)
SumHeld(x) == Units(Files, held, x, Total[x])

\* Mutation of Deadlock: anonymous reservations are not ruled out first
DeadlockIgnoringStrays(ws, rq, ow) ==
    /\ \A f \in Files : ~IsZero(held[f]) => ow[f] # 0
    /\ \E f \in Files : ~IsZero(held[f])
    /\ \A t \in ws : ~FitsIn(rq[t], available)

Deadlock(ws, rq, ow) ==
    /\ \A x \in Axes : SumHeld(x) = SaturatingSub(Total, available)[x]
    /\ \A f \in Files : ~IsZero(held[f]) => ow[f] # 0
    /\ \E f \in Files : ~IsZero(held[f])
    /\ \A t \in ws : ~FitsIn(rq[t], available)

\* owner.waiting += 1 / saturating_sub(1), for an attributed caller
CountIn(t) == [f \in Files |-> IF f = t THEN ownerWaiting[f] + 1 ELSE ownerWaiting[f]]

CountOut(t) ==
    [f \in Files |-> IF f = t /\ ownerWaiting[f] > 0 THEN ownerWaiting[f] - 1
                                                     ELSE ownerWaiting[f]]

\* The caller is running its program: it is in no acquire and has not ended
Running(t) == t \notin waiting /\ t \notin finished

-----------------------------------------------------------------------------
\* Mutation of Charge: the owner is not booked
ChargeUnbooked(t, s, a) ==
    /\ available' = SaturatingSub(available, a)
    /\ held' = held
    /\ resv' = [resv EXCEPT ![<<t, s>>] = a]

\* The tail of acquire_inner and of try_acquire_inner: charge the amount and
\* hand out the reservation
Charge(t, s, a) ==
    /\ available' = SaturatingSub(available, a)
    /\ held' = [f \in Files |-> IF f = t THEN SaturatingAdd(held[f], a) ELSE held[f]]
    /\ resv' = [resv EXCEPT ![<<t, s>>] = a]

\* acquire / acquire_for: a request beyond the total is refused at once
AcquireExceedsTotal(t, a) ==
    /\ Running(t)
    /\ ~FitsIn(a, Total)
    /\ UNCHANGED vars

\* ... one that fits is granted without ever being counted as waiting
AcquireAtOnce(t, s, a) ==
    /\ Running(t)
    /\ IsZero(resv[<<t, s>>])
    /\ FitsIn(a, Total) /\ FitsIn(a, available)
    /\ Charge(t, s, a)
    /\ UNCHANGED <<ownerWaiting, waiting, request, asleep, finished>>

\* ... one that does not fit takes a ticket and sleeps, unless the caller is
\* attributed and its ticket completes a deadlock
AcquirePark(t, a) ==
    /\ Running(t)
    /\ \E s \in Slots : IsZero(resv[<<t, s>>])
    /\ FitsIn(a, Total) /\ ~FitsIn(a, available)
    /\ ~(t \in Files /\ Deadlock(waiting \cup {t}, [request EXCEPT ![t] = a], CountIn(t)))
    /\ waiting' = waiting \cup {t}
    /\ request' = [request EXCEPT ![t] = a]
    /\ ownerWaiting' = CountIn(t)
    /\ asleep' = asleep \cup {t}
    /\ UNCHANGED <<available, held, resv, finished>>

\* ... in which case the ticket is withdrawn again and the acquire fails
AcquireDeadlock(t, a) ==
    /\ Running(t) /\ t \in Files
    /\ \E s \in Slots : IsZero(resv[<<t, s>>])
    /\ FitsIn(a, Total) /\ ~FitsIn(a, available)
    /\ Deadlock(waiting \cup {t}, [request EXCEPT ![t] = a], CountIn(t))
    /\ UNCHANGED vars

(***************************************************************************)
(* A thread back from cond.wait goes round the loop of acquire_inner: it   *)
(* is granted, fails with the verdict, or sleeps again.                    *)
(***************************************************************************)
Woken(t) == t \in waiting /\ t \notin asleep

Withdraw(t) ==
    /\ waiting' = waiting \ {t}
    /\ ownerWaiting' = CountOut(t)
    /\ request' = [request EXCEPT ![t] = Zero]

WakeGrant(t, s) ==
    /\ Woken(t)
    /\ IsZero(resv[<<t, s>>])
    /\ FitsIn(request[t], available)
    /\ Withdraw(t)
    /\ Charge(t, s, request[t])
    /\ UNCHANGED <<asleep, finished>>

\* Mutation of WakeDeadlock: the verdict is taken and nobody is told
WakeDeadlockSpins(t) ==
    /\ Woken(t) /\ t \in Files
    /\ ~FitsIn(request[t], available)
    /\ Deadlock(waiting, request, ownerWaiting)
    /\ UNCHANGED vars

WakeDeadlock(t) ==
    /\ Woken(t) /\ t \in Files
    /\ ~FitsIn(request[t], available)
    /\ Deadlock(waiting, request, ownerWaiting)
    /\ Withdraw(t)
    /\ UNCHANGED <<available, held, asleep, resv, finished>>

\* Mutation of WakeSleep: the verdict is taken on the way in only
WakeSleepUnchecked(t) ==
    /\ Woken(t)
    /\ ~FitsIn(request[t], available)
    /\ asleep' = asleep \cup {t}
    /\ UNCHANGED <<available, held, ownerWaiting, waiting, request, resv, finished>>

WakeSleep(t) ==
    /\ Woken(t)
    /\ ~FitsIn(request[t], available)
    /\ ~(t \in Files /\ Deadlock(waiting, request, ownerWaiting))
    /\ asleep' = asleep \cup {t}
    /\ UNCHANGED <<available, held, ownerWaiting, waiting, request, resv, finished>>

\* Condvar::wait may return without a notification
SpuriousWakeup(t) ==
    /\ t \in asleep
    /\ asleep' = asleep \ {t}
    /\ UNCHANGED <<available, held, ownerWaiting, waiting, request, resv, finished>>

\* try_acquire / try_acquire_for: never waits, and changes nothing when it
\* would have to
TryAcquire(t, s, a) ==
    /\ Running(t)
    /\ IsZero(resv[<<t, s>>])
    /\ FitsIn(a, available)
    /\ Charge(t, s, a)
    /\ UNCHANGED <<ownerWaiting, waiting, request, asleep, finished>>

\* Mutation of Release: only one sleeper is notified
ReleaseNotifyOne(t, s) ==
    LET a == resv[<<t, s>>]
        back == SaturatingAdd(available, a)
    IN  /\ ~IsZero(a)
        /\ t \notin waiting \/ t \in Watched \cup Strays
        /\ available' = IF FitsIn(back, Total) THEN back ELSE Total
        /\ held' = [f \in Files |-> IF f = t THEN SaturatingSub(held[f], a) ELSE held[f]]
        /\ resv' = [resv EXCEPT ![<<t, s>>] = Zero]
        /\ IF asleep = {} THEN asleep' = {} ELSE \E u \in asleep : asleep' = asleep \ {u}
        /\ UNCHANGED <<ownerWaiting, waiting, request, finished>>

\* release, from the Drop of a Reservation: give back, cap at the total,
\* notify every waiter
Release(t, s) ==
    LET a == resv[<<t, s>>]
        back == SaturatingAdd(available, a)
    IN  /\ ~IsZero(a)
        /\ t \notin waiting \/ t \in Watched \cup Strays
        /\ available' = IF FitsIn(back, Total) THEN back ELSE Total
        /\ held' = [f \in Files |-> IF f = t THEN SaturatingSub(held[f], a) ELSE held[f]]
        /\ resv' = [resv EXCEPT ![<<t, s>>] = Zero]
        /\ asleep' = {}
        /\ UNCHANGED <<ownerWaiting, waiting, request, finished>>

\* The caller's program ends; what it still holds goes with it, drop by drop
Finish(t) ==
    /\ Running(t)
    /\ finished' = finished \cup {t}
    /\ UNCHANGED <<available, held, ownerWaiting, waiting, request, asleep, resv>>

AllDone ==
    /\ finished = Threads
    /\ \A c \in Threads \X Slots : IsZero(resv[c])
    /\ UNCHANGED vars

Next ==
    \/ \E t \in Threads, a \in Requests : AcquireExceedsTotal(t, a)
    \/ \E t \in Threads, s \in Slots, a \in Requests : AcquireAtOnce(t, s, a)
    \/ \E t \in Threads, a \in Requests : AcquirePark(t, a)
    \/ \E t \in Threads, a \in Requests : AcquireDeadlock(t, a)
    \/ \E t \in Threads, s \in Slots : WakeGrant(t, s)
    \/ \E t \in Threads : WakeDeadlock(t)
    \/ \E t \in Threads : WakeSleep(t)
    \/ \E t \in Threads : SpuriousWakeup(t)
    \/ \E t \in Threads, s \in Slots, a \in Requests : TryAcquire(t, s, a)
    \/ \E t \in Threads, s \in Slots : Release(t, s)
    \/ \E t \in Threads : Finish(t)
    \/ AllDone

Spec == Init /\ [][Next]_vars

(***************************************************************************)
(* Scheduling.  A woken thread gets the mutex; a file's program ends (its  *)
(* chunk returns, raises, or is torn down by its watchdog) however often   *)
(* it has to queue first; the drops of an ended program are executed.      *)
(***************************************************************************)
Wake(t) == (\E s \in Slots : WakeGrant(t, s)) \/ WakeDeadlock(t) \/ WakeSleep(t)

Fairness ==
    \A t \in Threads :
        /\ WF_vars(Wake(t))
        /\ SF_vars(Finish(t))
        /\ \A s \in Slots : WF_vars(t \in finished /\ Release(t, s))

FairSpec == Spec /\ Fairness

-----------------------------------------------------------------------------
\* The state has the shape of PoolState; only a thread with a ticket sleeps.
TypeOK ==
    /\ available \in Amount
    /\ held \in [Files -> Amount]
    /\ ownerWaiting \in [Files -> {0, 1}]
    /\ waiting \subseteq Threads
    /\ request \in [Threads -> Amount]
    /\ asleep \subseteq waiting
    /\ resv \in [Threads \X Slots -> Amount]
    /\ finished \subseteq Threads \ waiting

\* Units reserved by the callers in S, from the live reservations themselves
Reserved(S, x) == Units(S \X Slots, resv, x, Total[x])

\* "Both hard-gated": on both axes, what is available and what the live
\* reservations cover add up to the total, so the cap in `release` and the
\* saturating arithmetic never hide a lost or doubled reservation; and what an
\* owner is booked as holding is the sum of its own live reservations.
Conservation ==
    \A x \in Axes :
        /\ available[x] + Reserved(Threads, x) = Total[x]
        /\ \A f \in Files : held[f][x] = Reserved({f}, x)

\* No lost wake-up: a thread still blocked in cond.wait is one whose request
\* does not fit, whatever was acquired and released since it went to sleep.
NoLostWakeup == \A t \in asleep : ~FitsIn(request[t], available)

\* The ground truth behind the verdict, read off the live reservations and the
\* threads inside an acquire: something is held, every holder is a file inside
\* an acquire, and no request in flight fits in what is not reserved.
Wedged(ws, rq) ==
    /\ \E c \in Threads \X Slots : ~IsZero(resv[c])
    /\ \A t \in Threads, s \in Slots : ~IsZero(resv[<<t, s>>]) => t \in Files \cap ws
    /\ \A t \in ws : \E x \in Axes : rq[t][x] > Total[x] - Reserved(Threads, x)

\* `PoolState::deadlock` decides the ground truth, and nothing else: for the
\* tickets that are out, and for those plus the ticket of any file about to
\* park.  An anonymous reservation, a holder that still runs, or a request
\* that fits each rule the verdict out; nothing else does.
VerdictIsExact ==
    /\ Deadlock(waiting, request, ownerWaiting) <=> Wedged(waiting, request)
    /\ \A f \in Files \ waiting, a \in Requests :
          LET rq == [request EXCEPT ![f] = a]
          IN  Deadlock(waiting \cup {f}, rq, CountIn(f)) <=> Wedged(waiting \cup {f}, rq)

\* The pool is never wedged in silence: whenever the files hold the pool and
\* all wait, every waiting file is awake and about to take the verdict, however
\* the wedge came about (an anonymous reservation dropped, a watchdog's
\* release that freed too little, a failed acquire withdrawing its ticket).
NoSilentWedge ==
    Deadlock(waiting, request, ownerWaiting) => waiting \cap Files \cap asleep = {}

\* An anonymous caller's own code may hold and wait, and no verdict ends that:
\* deadlock() counts files only
StraysServed == \A a \in Strays : []<>(a \notin waiting)

\* Every file gets through: no acquire blocks for ever, whatever order the
\* waiters wake in, as long as the anonymous callers are served.
EveryFileEnds == StraysServed => \A t \in Threads : <>(t \in finished)

=============================================================================
