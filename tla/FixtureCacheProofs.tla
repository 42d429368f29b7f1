------------------------- MODULE FixtureCacheProofs -------------------------
(***************************************************************************)
(* The fixture cache for any processes, any fixtures and any depth of      *)
(* fixtures built from fixtures.                                           *)
(*                                                                         *)
(* None of the three properties is inductive.  A step of a caller is one   *)
(* of five shapes: its innermost call goes on, ends, asks for a fixture,   *)
(* starts or dies (Moves).  By shape, the calls below the innermost one    *)
(* are builds, and hold their locks (Stacks); the locks exclude each other *)
(* as long as a call takes one only when it is free (Exclusive); and a     *)
(* file is written by those whose innermost call is at the stage that      *)
(* writes it (Writers).  That nobody waits in a circle is shown by the     *)
(* waiting call of least rank: what it waits for is held by a build, and   *)
(* the innermost call of that caller has a smaller rank.                   *)
(***************************************************************************)
EXTENDS FixtureCache, WellFoundedInduction, TLAPS

(* Stacks *)

\* A stack of calls, the innermost first
IsStack(s) == \E S : s \in Seq(S)

\* A call on top of a stack.
LEMMA StackCons ==
    ASSUME NEW t, IsStack(t), NEW f
    PROVE  LET s == <<f>> \o t
           IN  /\ IsStack(s) /\ s # <<>> /\ Head(s) = f /\ Tail(s) = t
               /\ Len(s) = Len(t) + 1 /\ Len(t) \in Nat
               /\ s[1] = f /\ \A i \in 1 .. Len(t) : s[i + 1] = t[i]
<1>1. PICK S : t \in Seq(S)
  BY DEF IsStack
<1>2. t \in Seq(S \cup {f})
  BY <1>1
<1>3. <<f>> \in Seq(S \cup {f})
  OBVIOUS
<1>4. QED
  BY <1>2, <1>3 DEF IsStack

\* A stack without its top.
LEMMA StackTail ==
    ASSUME NEW s, IsStack(s), s # <<>>
    PROVE  /\ IsStack(Tail(s)) /\ Len(s) \in Nat /\ Len(Tail(s)) \in Nat
           /\ Len(s) = Len(Tail(s)) + 1
           /\ Head(s) = s[1] /\ \A i \in 1 .. Len(Tail(s)) : s[i + 1] = Tail(s)[i]
<1>1. PICK S : s \in Seq(S)
  BY DEF IsStack
<1>2. Tail(s) \in Seq(S)
  BY <1>1
<1>3. QED
  BY <1>1, <1>2 DEF IsStack

\* The calls of a stack: its top and the calls below.
LEMMA CallsOfCons ==
    ASSUME NEW t, IsStack(t), NEW f
    PROVE  Calls(<<f>> \o t) = {f} \cup Calls(t)
<1> DEFINE s == <<f>> \o t
<1>1. /\ Len(s) = Len(t) + 1 /\ Len(t) \in Nat
      /\ s[1] = f /\ \A i \in 1 .. Len(t) : s[i + 1] = t[i]
  BY StackCons
<1> HIDE DEF s
<1>2. ASSUME NEW x \in Calls(s) PROVE x \in {f} \cup Calls(t)
  <2>1. PICK i \in 1 .. Len(s) : x = s[i]
    BY <1>2 DEF Calls
  <2>2. CASE i = 1
    BY <2>1, <2>2, <1>1
  <2>3. CASE i # 1
    <3>1. i - 1 \in 1 .. Len(t) /\ i = (i - 1) + 1
      BY <2>1, <2>3, <1>1
    <3>2. x = t[i - 1]
      BY <3>1, <2>1, <1>1
    <3>3. QED
      BY <3>1, <3>2 DEF Calls
  <2>4. QED
    BY <2>2, <2>3
<1>3. ASSUME NEW x \in {f} \cup Calls(t) PROVE x \in Calls(s)
  <2>1. CASE x = f
    <3>1. 1 \in 1 .. Len(s)
      BY <1>1
    <3>2. QED
      BY <3>1, <2>1, <1>1 DEF Calls
  <2>2. CASE x \in Calls(t)
    <3>1. PICK i \in 1 .. Len(t) : x = t[i]
      BY <2>2 DEF Calls
    <3>2. i + 1 \in 1 .. Len(s) /\ s[i + 1] = x
      BY <3>1, <1>1
    <3>3. QED
      BY <3>2 DEF Calls
  <2>3. QED
    BY <1>3, <2>1, <2>2
<1>4. QED
  BY <1>2, <1>3 DEF s

\* The calls of a stack that is not empty.
LEMMA CallsOfTail ==
    ASSUME NEW s, IsStack(s), s # <<>>
    PROVE  Calls(s) = {Head(s)} \cup Calls(Tail(s))
<1>1. s = <<Head(s)>> \o Tail(s)
  <2>1. PICK S : s \in Seq(S)
    BY DEF IsStack
  <2>2. QED
    BY <2>1
<1>2. IsStack(Tail(s))
  BY StackTail
<1>3. QED
  BY <1>1, <1>2, CallsOfCons

-----------------------------------------------------------------------------
(* Calls *)

\* What a caller is after, the stages of a call, and those after `started`
Ops == {"call", "build", "rebuild"}
Stages ==
    {"lookup", "evict", "unlink", "open", "flock", "restored", "recheck", "build",
     "compressing", "copying", "install", "restore"}
Building == {"build", "compressing", "copying", "install"}
CallFields == {"key", "op", "pc", "fd", "corrupt", "todo", "ev"}

\* A call as it can be: one that builds has said so, and what its chunk has
\* still to ask for are fixtures that the chunk depends on
IsCall(f) ==
    /\ DOMAIN f = CallFields
    /\ f.key \in Keys /\ f.op \in Ops /\ f.pc \in Stages
    /\ f.corrupt \in BOOLEAN
    /\ f.todo \subseteq Deps[f.key]
    /\ f.ev \in {"none", "waiting", "started", "done"}
    /\ f.pc \in Building => f.ev = "started"

\* The calls below the innermost one: each is a build that asked for the next
Asking(t) == IsStack(t) /\ \A f \in Calls(t) : IsCall(f) /\ f.pc = "build"

\* An idle caller, or a call and the builds that led to it
Sound(s) == IsStack(s) /\ (s # <<>> => IsCall(Head(s)) /\ Asking(Tail(s)))

\* The ways a step of c changes its stack: the innermost call goes on, holding a
\* lock that nobody held if it held none before; it ends; it asks for a fixture
Continues(c, f) ==
    /\ stack[c] # <<>>
    /\ stack' = [stack EXCEPT ![c] = <<f>> \o Tail(stack[c])]
    /\ IsCall(f) /\ f.key = Top(c).key /\ f.op = Top(c).op
    /\ Holds(f) => f.fd = Top(c).fd /\ (Holds(Top(c)) \/ ~Locked(Top(c)))
Ends(c) == stack[c] # <<>> /\ stack' = [stack EXCEPT ![c] = Tail(stack[c])]
Asks(c, f, g) ==
    /\ stack[c] # <<>>
    /\ stack' = [stack EXCEPT ![c] = <<f>> \o (<<g>> \o Tail(stack[c]))]
    /\ IsCall(f) /\ ~Holds(f) /\ f.key \in Deps[g.key]
    /\ IsCall(g) /\ g.pc = "build" /\ Holds(Top(c))
    /\ g.key = Top(c).key /\ g.op = Top(c).op /\ g.fd = Top(c).fd
\* A caller without a call starts one, or its process is killed
Starts(c, f) ==
    stack[c] = <<>> /\ stack' = [stack EXCEPT ![c] = <<f>>] /\ IsCall(f) /\ ~Holds(f)
\* The process is killed: every call of it is gone
Dies(c) == stack' = [stack EXCEPT ![c] = <<>>]
\* What a step of the cache is to the calls of a caller
Moves(c) ==
    \/ \E f : Starts(c, f)
    \/ Dies(c)
    \/ \E f : Continues(c, f)
    \/ Ends(c)
    \/ \E f, g : Asks(c, f, g)
    \/ UNCHANGED stack

\* The stages at which a call holds its lock.
LEMMA HoldsAt ==
    ASSUME NEW f, f.pc \in Building \cup {"restored", "recheck", "restore"}
    PROVE  Holds(f)
BY DEF Building, Holds

\* A new call is a call.
LEMMA NewCallIsCall ==
    ASSUME NEW k \in Keys, NEW op \in Ops
    PROVE  IsCall(NewCall(k, op)) /\ ~Holds(NewCall(k, op)) /\ NewCall(k, op).key = k
BY CacheAssumption DEF NewCall, IsCall, CallFields, Ops, Stages, Building, Holds

\* A call that moves to another stage of its work.
LEMMA CallAt ==
    ASSUME NEW f, IsCall(f), NEW p \in Stages, p \in Building => f.ev = "started"
    PROVE  LET g == [f EXCEPT !.pc = p]
           IN  IsCall(g) /\ g.key = f.key /\ g.op = f.op /\ g.fd = f.fd /\ g.pc = p
BY DEF IsCall, CallFields

\* Every caller's stack is well formed
Stacks == DOMAIN stack = Callers /\ \A c \in Callers : Sound(stack[c])

\* Every step of a call changes its caller's stack in one of those ways.
LEMMA CallMoves ==
    ASSUME Stacks, NEW c \in Callers, CallStep(c)
    PROVE  Moves(c)
<1> DEFINE f == Top(c)
<1>0. stack[c] # <<>> => IsCall(f)
  BY DEF Stacks, Sound, Top
<1>a. ASSUME NEW p \in Stages, stack[c] # <<>>, p \in Building => f.ev = "started",
             Step(c, p),
             Holds([f EXCEPT !.pc = p]) => Holds(f) \/ ~Locked(f)
      PROVE  Moves(c)
  <2> DEFINE g == [f EXCEPT !.pc = p]
  <2>1. IsCall(g) /\ g.key = f.key /\ g.op = f.op /\ g.fd = f.fd
    BY <1>0, <1>a, CallAt
  <2>2. stack' = [stack EXCEPT ![c] = <<g>> \o Tail(stack[c])]
    BY <1>a DEF Step, GoesOn, Becomes
  <2>3. Continues(c, g)
    BY <2>1, <2>2, <1>a DEF Continues
  <2>4. QED
    BY <2>3 DEF Moves
<1>b. ASSUME Return(c), stack[c] # <<>> PROVE Moves(c)
  BY <1>b DEF Return, Leaves, Ends, Moves
<1>c. ASSUME NEW g, stack[c] # <<>>, GoesOn(c, g), IsCall(g), g.key = f.key, g.op = f.op,
             g.fd = f.fd, Holds(g) => Holds(f) \/ ~Locked(f)
      PROVE  Moves(c)
  <2>1. Continues(c, g)
    BY <1>c DEF Continues, GoesOn, Becomes
  <2>2. QED
    BY <2>1 DEF Moves
<1>d. ASSUME stack[c] # <<>>, f.ev = "started", InPlace(c), Holds(f) PROVE Moves(c)
  <2>1. CASE f.op = "call"
    <3> DEFINE g == [Emit(f, "done") EXCEPT !.pc = "restore"]
    <3>1. IsCall(g) /\ g.key = f.key /\ g.op = f.op /\ g.fd = f.fd
      BY <1>0, <1>d DEF IsCall, CallFields, Stages, Building, Emit
    <3>2. GoesOn(c, g)
      BY <1>d, <2>1 DEF InPlace
    <3> HIDE DEF g
    <3>3. QED
      BY <3>1, <3>2, <1>c, <1>d
  <2>2. CASE f.op # "call"
    BY <2>2, <1>d, <1>b DEF InPlace
  <2>3. QED
    BY <2>1, <2>2
<1>e. ASSUME stack[c] # <<>>, f.pc \in Building PROVE f.ev = "started" /\ Holds(f)
  BY <1>0, <1>e, HoldsAt DEF IsCall
<1>1. CASE Hit(c) \/ Built(c) \/ Recovers(c) \/ BuildFails(c) \/ Restore(c)
  BY <1>1, <1>b DEF Hit, Built, Recovers, BuildFails, Restore, Doing
<1>2. CASE HitFails(c)
  <2> DEFINE g == [f EXCEPT !.pc = IF f.key \in LabKeys THEN "open" ELSE "evict",
                            !.corrupt = f.key \in LabKeys]
  <2>1. stack[c] # <<>> /\ GoesOn(c, g)
    BY <1>2 DEF HitFails, Doing
  <2>2. IsCall(g) /\ g.key = f.key /\ g.op = f.op /\ g.fd = f.fd /\ ~Holds(g)
    BY <1>0, <2>1 DEF IsCall, CallFields, Stages, Building, Holds
  <2> HIDE DEF g
  <2>3. QED
    BY <2>1, <2>2, <1>c
<1>3. CASE Miss(c)
  <2>1. stack[c] # <<>> /\ Step(c, "open")
    BY <1>3 DEF Miss, Doing
  <2>2. ~Holds([f EXCEPT !.pc = "open"])
    BY <1>0, <2>1 DEF IsCall, CallFields, Holds
  <2>3. QED
    BY <2>1, <2>2, <1>a DEF Stages, Building
<1>4. CASE RemoveEntry(c)
  <2>1. stack[c] # <<>> /\ Step(c, "unlink")
    BY <1>4 DEF RemoveEntry, Doing
  <2>2. ~Holds([f EXCEPT !.pc = "unlink"])
    BY <1>0, <2>1 DEF IsCall, CallFields, Holds
  <2>3. QED
    BY <2>1, <2>2, <1>a DEF Stages, Building
<1>5. CASE RemoveLock(c)
  <2> DEFINE g == [f EXCEPT !.pc = "open"]
  <2>1. stack[c] # <<>> /\ Becomes(c, g)
    BY <1>5 DEF RemoveLock, Doing
  <2>2. IsCall(g) /\ g.key = f.key /\ g.op = f.op /\ ~Holds(g)
    BY <1>0, <2>1 DEF IsCall, CallFields, Stages, Building, Holds
  <2>3. Continues(c, g)
    BY <2>1, <2>2 DEF Continues, Becomes
  <2>4. QED
    BY <2>3 DEF Moves
<1>6. CASE OpenLock(c)
  <2>1. PICK i : stack[c] # <<>> /\ Becomes(c, [f EXCEPT !.pc = "flock", !.fd = i])
    BY <1>6 DEF OpenLock, Doing
  <2> DEFINE g == [f EXCEPT !.pc = "flock", !.fd = i]
  <2>2. IsCall(g) /\ g.key = f.key /\ g.op = f.op /\ ~Holds(g)
    BY <1>0, <2>1 DEF IsCall, CallFields, Stages, Building, Holds
  <2>3. Continues(c, g)
    BY <2>1, <2>2 DEF Continues, Becomes
  <2>4. QED
    BY <2>3 DEF Moves
<1>7. CASE FlockFree(c)
  <2> DEFINE g == [f EXCEPT !.pc = IF f.corrupt THEN "restored" ELSE "recheck",
                            !.corrupt = FALSE]
  <2>1. stack[c] # <<>> /\ GoesOn(c, g) /\ ~Locked(f)
    BY <1>7 DEF FlockFree, Doing
  <2>2. IsCall(g) /\ g.key = f.key /\ g.op = f.op /\ g.fd = f.fd
    BY <1>0, <2>1 DEF IsCall, CallFields, Stages, Building
  <2> HIDE DEF g
  <2>3. QED
    BY <2>1, <2>2, <1>c
<1>8. CASE FlockWaits(c)
  <2> DEFINE g == Emit(f, "waiting")
  <2>1. stack[c] # <<>> /\ GoesOn(c, g) /\ f.pc = "flock"
    BY <1>8 DEF FlockWaits, Doing
  <2>2. IsCall(g) /\ g.key = f.key /\ g.op = f.op /\ g.fd = f.fd /\ g.pc = "flock"
    BY <1>0, <2>1 DEF IsCall, CallFields, Stages, Building, Emit
  <2>3. ~Holds(g)
    BY <2>2 DEF Holds
  <2> HIDE DEF g
  <2>4. QED
    BY <2>1, <2>2, <2>3, <1>c
<1>9. CASE RemoveCorrupt(c)
  <2>1. stack[c] # <<>> /\ Step(c, "recheck") /\ f.pc = "restored"
    BY <1>9 DEF RemoveCorrupt, Doing
  <2>2. Holds(f)
    BY <2>1, HoldsAt
  <2>3. QED
    BY <2>1, <2>2, <1>a DEF Stages, Building
<1>10. CASE RecheckHit(c)
  <2>1. stack[c] # <<>> /\ f.pc = "recheck"
    BY <1>10 DEF RecheckHit, Doing
  <2>2. Holds(f)
    BY <2>1, HoldsAt
  <2>3. CASE f.op # "call"
    BY <2>1, <2>3, <1>10, <1>b DEF RecheckHit
  <2>4. CASE f.op = "call" /\ Contended(f)
    <3> DEFINE g == [Emit(f, "done") EXCEPT !.pc = "restore"]
    <3>1. GoesOn(c, g)
      BY <2>4, <1>10 DEF RecheckHit
    <3>2. IsCall(g) /\ g.key = f.key /\ g.op = f.op /\ g.fd = f.fd
      BY <1>0, <2>1, <2>4 DEF IsCall, CallFields, Stages, Building, Emit, Contended
    <3> HIDE DEF g
    <3>3. QED
      BY <3>1, <3>2, <2>1, <2>2, <1>c
  <2>5. CASE f.op = "call" /\ ~Contended(f)
    <3>1. Step(c, "restore")
      BY <2>5, <1>10 DEF RecheckHit, Step
    <3>2. QED
      BY <3>1, <2>1, <2>2, <1>a DEF Stages, Building
  <2>6. QED
    BY <2>3, <2>4, <2>5
<1>11. CASE RecheckMiss(c)
  <2>1. stack[c] # <<>> /\ f.pc = "recheck"
    BY <1>11 DEF RecheckMiss, Doing
  <2> DEFINE g == [Emit(f, "started") EXCEPT !.pc = "build", !.todo = Deps[f.key]]
  <2>2. GoesOn(c, g)
    BY <1>11 DEF RecheckMiss
  <2>3. IsCall(g) /\ g.key = f.key /\ g.op = f.op /\ g.fd = f.fd
    BY <1>0, <2>1 DEF IsCall, CallFields, Stages, Building, Emit
  <2>4. Holds(f)
    BY <2>1, HoldsAt
  <2> HIDE DEF g
  <2>5. QED
    BY <2>1, <2>2, <2>3, <2>4, <1>c
<1>12. ASSUME NEW d \in Keys, BuildAsks(c, d) PROVE Moves(c)
  <2> DEFINE g == [f EXCEPT !.todo = @ \ {d}]
             n == NewCall(d, "call")
  <2>1. stack[c] # <<>> /\ f.pc = "build" /\ d \in f.todo
    BY <1>12 DEF BuildAsks, Doing
  <2>2. IsCall(f) /\ Holds(f)
    BY <2>1, <1>0, <1>e DEF Building
  <2>3. IsCall(g) /\ g.pc = "build" /\ g.key = f.key /\ g.op = f.op /\ g.fd = f.fd
    BY <2>1, <2>2 DEF IsCall, CallFields
  <2>4. IsCall(n) /\ ~Holds(n) /\ n.key = d
    BY NewCallIsCall DEF Ops
  <2>5. d \in Deps[f.key]
    BY <2>1, <2>2 DEF IsCall
  <2>6. <<n, g>> \o Tail(stack[c]) = <<n>> \o (<<g>> \o Tail(stack[c]))
    <3>1. IsStack(stack[c])
      BY DEF Stacks, Sound
    <3>2. PICK S : stack[c] \in Seq(S)
      BY <3>1 DEF IsStack
    <3>3. Tail(stack[c]) \in Seq(S \cup {n, g})
      BY <3>2, <2>1
    <3> HIDE DEF n, g
    <3>4. QED
      BY <3>3
  <2>7. stack' = [stack EXCEPT ![c] = <<n, g>> \o Tail(stack[c])]
    BY <1>12 DEF BuildAsks
  <2> HIDE DEF n, g
  <2>8. Asks(c, n, g)
    BY <2>1, <2>2, <2>3, <2>4, <2>5, <2>6, <2>7 DEF Asks
  <2>9. QED
    BY <2>8 DEF Moves
<1>13. CASE BuildEnds(c)
  <2>1. /\ stack[c] # <<>> /\ f.pc = "build"
        /\ Step(c, "install") \/ Step(c, "compressing")
    BY <1>13 DEF BuildEnds, Doing
  <2>2. f.ev = "started" /\ Holds(f)
    BY <2>1, <1>e DEF Building
  <2>3. QED
    BY <2>1, <2>2, <1>a DEF Stages
<1>14. CASE CompressEnds(c)
  <2>1. stack[c] # <<>> /\ f.pc = "compressing" /\ InPlace(c)
    BY <1>14 DEF CompressEnds, Doing
  <2>2. QED
    BY <2>1, <1>d, <1>e DEF Building
<1>15. CASE CompressFails(c)
  <2>1. stack[c] # <<>> /\ f.pc = "compressing" /\ (InPlace(c) \/ Step(c, "copying"))
    BY <1>15 DEF CompressFails, Doing
  <2>2. f.ev = "started" /\ Holds(f)
    BY <2>1, <1>e DEF Building
  <2>3. QED
    BY <2>1, <2>2, <1>a, <1>d DEF Stages
<1>16. CASE CopyEnds(c)
  <2>1. stack[c] # <<>> /\ f.pc = "copying" /\ (InPlace(c) \/ Return(c))
    BY <1>16 DEF CopyEnds, Doing
  <2>2. QED
    BY <2>1, <1>b, <1>d, <1>e DEF Building
<1>17. CASE Install(c)
  <2>1. stack[c] # <<>> /\ f.pc = "install" /\ (InPlace(c) \/ Return(c))
    BY <1>17 DEF Install, Doing
  <2>2. QED
    BY <2>1, <1>b, <1>d, <1>e DEF Building
<1>18. CASE InstallAside(c)
  BY <1>18 DEF InstallAside, Moves
<1>19. QED
  BY <1>1, <1>2, <1>3, <1>4, <1>5, <1>6, <1>7, <1>8, <1>9, <1>10, <1>11, <1>12, <1>13, <1>14,
     <1>15, <1>16, <1>17, <1>18 DEF CallStep, Flock

\* The stacks of the others are as they were.
LEMMA OthersKept ==
    ASSUME Stacks, NEW c \in Callers, Moves(c), NEW d \in Callers, d # c
    PROVE  stack'[d] = stack[d]
BY Zenon DEF Stacks, Moves, Starts, Dies, Continues, Ends, Asks

\* A stack whose innermost call has ended.
LEMMA SoundEnds ==
    ASSUME NEW t, Asking(t)
    PROVE  Sound(t)
<1>1. SUFFICES ASSUME t # <<>> PROVE IsCall(Head(t)) /\ Asking(Tail(t))
  BY DEF Sound, Asking
<1>2. Calls(t) = {Head(t)} \cup Calls(Tail(t)) /\ IsStack(Tail(t))
  BY <1>1, CallsOfTail, StackTail DEF Asking
<1>3. QED
  BY <1>2 DEF Asking

\* A stack with a call on top of others that ask.
LEMMA SoundCons ==
    ASSUME NEW t, Asking(t), NEW f, IsCall(f)
    PROVE  Sound(<<f>> \o t) /\ (f.pc = "build" => Asking(<<f>> \o t))
<1>1. LET s == <<f>> \o t IN IsStack(s) /\ Head(s) = f /\ Tail(s) = t
  BY StackCons DEF Asking
<1>2. Calls(<<f>> \o t) = {f} \cup Calls(t)
  BY CallsOfCons DEF Asking
<1>3. QED
  BY <1>1, <1>2 DEF Sound, Asking

\* Nobody calls.
LEMMA EmptyStack ==
    IsStack(<<>>) /\ Calls(<<>>) = {} /\ Asking(<<>>) /\ Sound(<<>>)
<1>1. <<>> \in Seq({}) /\ Len(<<>>) = 0
  OBVIOUS
<1>2. IsStack(<<>>)
  BY <1>1 DEF IsStack
<1>3. Calls(<<>>) = {}
  BY <1>1 DEF Calls
<1>4. QED
  BY <1>2, <1>3 DEF Asking, Sound

\* One call.
LEMMA OneCall ==
    ASSUME NEW f, IsCall(f)
    PROVE  <<f>> = <<f>> \o <<>>
OBVIOUS

\* The stacks stay sound, whatever a caller does.
LEMMA StacksStep ==
    ASSUME Stacks, NEW c \in Callers, Moves(c)
    PROVE  Stacks'
<1>1. DOMAIN stack' = Callers
  BY Zenon DEF Stacks, Moves, Starts, Dies, Continues, Ends, Asks
<1>2. Sound(stack'[c])
  <2>0. stack[c] # <<>> => Asking(Tail(stack[c]))
    BY DEF Stacks, Sound
  <2>1. ASSUME NEW f, Starts(c, f) PROVE Sound(stack'[c])
    <3>1. stack'[c] = <<f>> \o <<>>
      BY <2>1, OneCall DEF Starts, Stacks
    <3>2. IsCall(f)
      BY <2>1 DEF Starts
    <3>3. QED
      BY <3>1, <3>2, SoundCons, EmptyStack
  <2>2. CASE Dies(c)
    BY <2>2, EmptyStack DEF Dies, Stacks
  <2>3. ASSUME NEW f, Continues(c, f) PROVE Sound(stack'[c])
    <3>1. stack'[c] = <<f>> \o Tail(stack[c])
      BY <2>3 DEF Continues, Stacks
    <3>2. QED
      BY <3>1, <2>0, <2>3, SoundCons DEF Continues
  <2>4. CASE Ends(c)
    BY <2>4, <2>0, SoundEnds DEF Ends, Stacks
  <2>5. ASSUME NEW f, NEW g, Asks(c, f, g) PROVE Sound(stack'[c])
    <3>1. stack'[c] = <<f>> \o (<<g>> \o Tail(stack[c]))
      BY <2>5 DEF Asks, Stacks
    <3>2. Asking(<<g>> \o Tail(stack[c]))
      BY <2>0, <2>5, SoundCons DEF Asks
    <3>3. QED
      BY <3>1, <3>2, <2>5, SoundCons DEF Asks
  <2>6. CASE UNCHANGED stack
    BY <2>6 DEF Stacks
  <2>7. QED
    BY <2>1, <2>2, <2>3, <2>4, <2>5, <2>6 DEF Moves
<1>3. QED
  BY <1>1, <1>2, OthersKept, Zenon DEF Stacks

\* The calls of a caller after it moved: calls it had, calls that hold no lock, and
\* calls that hold the lock its innermost call held or has just taken.
LEMMA CallsMoved ==
    ASSUME Stacks, NEW c \in Callers, Moves(c), NEW f \in Frames(c)'
    PROVE  \/ f \in Frames(c)
           \/ ~Holds(f)
           \/ /\ Top(c) \in Frames(c) /\ SameFile(f, Top(c))
              /\ Holds(Top(c)) \/ ~Locked(Top(c))
<1>0. ASSUME stack[c] # <<>>
      PROVE  /\ Frames(c) = {Top(c)} \cup Calls(Tail(stack[c]))
             /\ IsStack(Tail(stack[c]))
  BY <1>0, CallsOfTail, StackTail DEF Stacks, Sound, Frames, Top
<1>00. f \in Calls(stack'[c])
  BY DEF Frames
<1>1. ASSUME NEW g, Starts(c, g) PROVE ~Holds(f)
  <2>1. stack'[c] = <<g>> \o <<>>
    BY <1>1, OneCall DEF Starts, Stacks
  <2>2. Calls(stack'[c]) = {g}
    BY <2>1, CallsOfCons, EmptyStack
  <2>3. QED
    BY <2>2, <1>00, <1>1 DEF Starts
<1>2. CASE Dies(c)
  BY <1>2, <1>00, EmptyStack DEF Dies, Stacks
<1>3. ASSUME NEW g, Continues(c, g)
      PROVE  \/ f \in Frames(c)
             \/ ~Holds(f)
             \/ /\ Top(c) \in Frames(c) /\ SameFile(f, Top(c))
                /\ Holds(Top(c)) \/ ~Locked(Top(c))
  <2>1. stack'[c] = <<g>> \o Tail(stack[c]) /\ stack[c] # <<>>
    BY <1>3 DEF Continues, Stacks
  <2>2. Calls(stack'[c]) = {g} \cup Calls(Tail(stack[c]))
    BY <2>1, <1>0, CallsOfCons
  <2>3. CASE f = g
    BY <2>1, <1>0, <2>3, <1>3 DEF Continues, SameFile
  <2>4. QED
    BY <2>1, <2>2, <2>3, <1>0, <1>00
<1>4. CASE Ends(c)
  BY <1>4, <1>0, <1>00 DEF Ends, Stacks
<1>5. ASSUME NEW g, NEW h, Asks(c, g, h)
      PROVE  \/ f \in Frames(c)
             \/ ~Holds(f)
             \/ /\ Top(c) \in Frames(c) /\ SameFile(f, Top(c))
                /\ Holds(Top(c)) \/ ~Locked(Top(c))
  <2>1. stack'[c] = <<g>> \o (<<h>> \o Tail(stack[c])) /\ stack[c] # <<>>
    BY <1>5 DEF Asks, Stacks
  <2>2. IsStack(<<h>> \o Tail(stack[c]))
    BY <2>1, <1>0, StackCons
  <2>3. Calls(stack'[c]) = {g} \cup ({h} \cup Calls(Tail(stack[c])))
    BY <2>1, <2>2, <1>0, CallsOfCons
  <2>4. CASE f = g
    BY <2>4, <1>5 DEF Asks
  <2>5. CASE f = h
    BY <2>1, <1>0, <2>5, <1>5 DEF Asks, SameFile
  <2>6. QED
    BY <2>1, <2>3, <2>4, <2>5, <1>0, <1>00
<1>6. CASE UNCHANGED stack
  BY <1>6, <1>00 DEF Frames
<1>7. QED
  BY <1>1, <1>2, <1>3, <1>4, <1>5, <1>6 DEF Moves

\* The calls of two callers never hold one file locked at once.
Exclusive ==
    \A c, d \in Callers : c # d =>
        \A f \in Frames(c), g \in Frames(d) : Holds(f) /\ Holds(g) => ~SameFile(f, g)

\* Exclusion is kept, since flock is granted on a file that nobody has locked.
LEMMA ExclusiveStep ==
    ASSUME Stacks, Exclusive, NEW c \in Callers, Moves(c)
    PROVE  Exclusive'
<1>1. ASSUME NEW d \in Callers, d # c PROVE Frames(d)' = Frames(d)
  BY <1>1, OthersKept DEF Frames
<1>2. ASSUME NEW d \in Callers, d # c, NEW f \in Frames(c)', NEW g \in Frames(d),
             Holds(f), Holds(g)
      PROVE  ~SameFile(f, g) /\ ~SameFile(g, f)
  <2>1. CASE f \in Frames(c)
    BY <2>1, <1>2 DEF Exclusive
  <2>2. CASE /\ Top(c) \in Frames(c) /\ SameFile(f, Top(c))
             /\ Holds(Top(c)) \/ ~Locked(Top(c))
    <3>1. ASSUME SameFile(f, g) \/ SameFile(g, f) PROVE SameFile(Top(c), g) /\ SameFile(g, Top(c))
      BY <3>1, <2>2, Zenon DEF SameFile
    <3>2. CASE Holds(Top(c))
      BY <3>1, <3>2, <2>2, <1>2, Zenon DEF Exclusive
    <3>3. CASE ~Locked(Top(c))
      BY <3>1, <3>3, <1>2, Zenon DEF Locked, Holding
    <3>4. QED
      BY <2>2, <3>2, <3>3
  <2>3. QED
    BY <2>1, <2>2, <1>2, CallsMoved
<1>3. QED
  <2>1. SUFFICES ASSUME NEW a \in Callers, NEW b \in Callers, a # b,
                        NEW f \in Frames(a)', NEW g \in Frames(b)', Holds(f), Holds(g)
                 PROVE  ~SameFile(f, g)
    BY Zenon DEF Exclusive
  <2>2. CASE a = c
    BY <2>1, <2>2, <1>1, <1>2, Zenon
  <2>3. CASE b = c
    BY <2>1, <2>3, <1>1, <1>2, Zenon
  <2>4. CASE a # c /\ b # c
    BY <2>1, <2>4, <1>1, Zenon DEF Exclusive
  <2>5. QED
    BY <2>2, <2>3, <2>4

-----------------------------------------------------------------------------
(* Writers *)

\* A file of the cache and those who write it; all of them
IsFile(x) == DOMAIN x = {"st", "w"} /\ x.w \subseteq Callers
Files ==
    /\ DOMAIN entry = Keys /\ DOMAIN zst = Keys
    /\ \A k \in Keys : IsFile(entry[k]) /\ IsFile(zst[k])

\* The innermost call of c has key k, at one of the stages ps
WorksAt(c, k, ps) == stack[c] # <<>> /\ Top(c).key = k /\ Top(c).pc \in ps

\* Whoever writes to a file is at the stage that writes it
Writers ==
    \A k \in Keys :
        /\ \A c \in zst[k].w : WorksAt(c, k, {"compressing"})
        /\ \A c \in entry[k].w : WorksAt(c, k, {"compressing", "copying"})

\* A step of c adds no writer but c; <key>.snap.zst with its writers may become the
\* entry
OnlyWriter(c) ==
    \A k \in Keys : zst'[k].w \subseteq zst[k].w \cup {c}
                    /\ entry'[k].w \subseteq entry[k].w \cup zst[k].w \cup {c}

\* The files that steps write are files.
LEMMA FileOps ==
    ASSUME NEW x, IsFile(x), NEW c \in Callers
    PROVE  /\ IsFile(Absent) /\ IsFile(Whole) /\ Absent.w = {} /\ Whole.w = {}
           /\ IsFile(Truncate(x, c)) /\ Truncate(x, c).w = x.w \cup {c}
           /\ IsFile(Finish(x, c)) /\ Finish(x, c).w = x.w \ {c}
           /\ IsFile(Abandon(x, c)) /\ Abandon(x, c).w = x.w \ {c}
           /\ IsFile(AbandonZst(x, c)) /\ AbandonZst(x, c).w = x.w \ {c}
<1>1. IsFile(Absent) /\ IsFile(Whole) /\ Absent.w = {} /\ Whole.w = {}
  BY DEF IsFile, Absent, Whole
<1>2. IsFile(Truncate(x, c)) /\ Truncate(x, c).w = x.w \cup {c}
  BY DEF IsFile, Truncate
<1>3. IsFile(Finish(x, c)) /\ Finish(x, c).w = x.w \ {c}
  BY DEF IsFile, Finish
<1>4. IsFile(Abandon(x, c)) /\ Abandon(x, c).w = x.w \ {c}
  BY DEF IsFile, Abandon
<1>5. IsFile(AbandonZst(x, c)) /\ AbandonZst(x, c).w = x.w \ {c}
  BY <1>1, <1>4 DEF AbandonZst
<1>6. QED
  BY <1>1, <1>2, <1>3, <1>4, <1>5

\* The writers after a step of c.
LEMMA WritersStep ==
    ASSUME Stacks, Writers, NEW c \in Callers, Moves(c), OnlyWriter(c), Files,
           \A k \in Keys : /\ c \in zst'[k].w => WorksAt(c, k, {"compressing"})'
                           /\ c \in entry'[k].w => WorksAt(c, k, {"compressing", "copying"})'
    PROVE  Writers'
<1>1. SUFFICES ASSUME NEW k \in Keys, NEW d \in zst'[k].w \cup entry'[k].w
               PROVE  /\ d \in zst'[k].w => WorksAt(d, k, {"compressing"})'
                      /\ d \in entry'[k].w => WorksAt(d, k, {"compressing", "copying"})'
  BY Zenon DEF Writers
<1>2. CASE d = c
  BY <1>2, Zenon
<1>3. CASE d # c
  <2>1. d \in entry[k].w \cup zst[k].w /\ (d \in zst'[k].w => d \in zst[k].w)
    BY <1>1, <1>3, Zenon DEF OnlyWriter
  <2>2. d \in Callers
    BY <2>1 DEF Files, IsFile
  <2>3. stack'[d] = stack[d]
    BY <2>2, <1>3, OthersKept
  <2>4. /\ d \in zst'[k].w => WorksAt(d, k, {"compressing"})
        /\ WorksAt(d, k, {"compressing", "copying"})
    <3>1. \A e \in zst[k].w : WorksAt(e, k, {"compressing"})
      BY DEF Writers
    <3>2. \A e \in entry[k].w : WorksAt(e, k, {"compressing", "copying"})
      BY DEF Writers
    <3>3. WorksAt(d, k, {"compressing"}) => WorksAt(d, k, {"compressing", "copying"})
      BY DEF WorksAt
    <3>4. QED
      BY <2>1, <3>1, <3>2, <3>3, Zenon
  <2>5. QED
    BY <2>3, <2>4 DEF WorksAt, Top
<1>4. QED
  BY <1>2, <1>3

\* A step that opens no file, of a caller that writes to none.
LEMMA WritersQuiet ==
    ASSUME Stacks, Writers, Files, NEW c \in Callers, Moves(c),
           stack[c] = <<>> \/ Top(c).pc \notin {"compressing", "copying"},
           \A k \in Keys : zst'[k].w \subseteq zst[k].w
                           /\ entry'[k].w \subseteq entry[k].w \cup zst[k].w
    PROVE  Writers'
<1>1. ASSUME NEW k \in Keys PROVE c \notin zst[k].w /\ c \notin entry[k].w
  BY DEF Writers, WorksAt
<1>2. OnlyWriter(c)
  BY DEF OnlyWriter
<1>3. \A k \in Keys : c \notin zst'[k].w /\ c \notin entry'[k].w
  BY <1>1, Zenon
<1>4. QED
  BY <1>2, <1>3, WritersStep, Zenon

\* One file of a kind is written, and stays a file.
LEMMA FileWritten ==
    ASSUME NEW m, DOMAIN m = Keys, \A k \in Keys : IsFile(m[k]),
           NEW k \in Keys, NEW x, IsFile(x), NEW mm, mm = [m EXCEPT ![k] = x]
    PROVE  /\ DOMAIN mm = Keys /\ \A l \in Keys : IsFile(mm[l])
           /\ mm[k] = x /\ \A l \in Keys \ {k} : mm[l] = m[l]
OBVIOUS

\* The innermost call after it went on.
LEMMA TopAfter ==
    ASSUME Stacks, NEW c \in Callers, stack[c] # <<>>, NEW p \in Stages, Step(c, p),
           NEW k, k = Top(c).key
    PROVE  WorksAt(c, k, {p})'
<1> DEFINE g == [Top(c) EXCEPT !.pc = p]
<1>1. stack'[c] = <<g>> \o Tail(stack[c])
  BY DEF Stacks, Step, GoesOn, Becomes
<1>2. g.key = Top(c).key /\ g.pc = p
  BY DEF Stacks, Sound, IsCall, CallFields, Top
<1>3. stack'[c] # <<>> /\ Head(stack'[c]) = g
  <2>1. IsStack(Tail(stack[c]))
    BY DEF Stacks, Sound, Asking
  <2> HIDE DEF g
  <2>2. QED
    BY <1>1, <2>1, StackCons
<1>4. QED
  BY <1>2, <1>3 DEF WorksAt, Top

\* What a call does to the files of the cache.
LEMMA FilesStep ==
    ASSUME Stacks, Files, Writers, NEW c \in Callers, CallStep(c)
    PROVE  Files' /\ Writers'
<1> DEFINE k == Top(c).key
           Idle == stack[c] # <<>> /\ Top(c).pc \notin {"compressing", "copying"}
<1>0. Moves(c)
  BY CallMoves
<1>00. stack[c] # <<>> => k \in Keys
  BY DEF Stacks, Sound, IsCall, Top
<1>000. ASSUME NEW x \in Keys PROVE c \in zst[x].w \cup entry[x].w => k = x
  BY DEF Writers, WorksAt
<1>a. ASSUME Idle, UNCHANGED <<entry, zst>> PROVE Files' /\ Writers'
  <2>1. Files'
    BY <1>a DEF Files
  <2>2. QED
    BY <2>1, <1>0, <1>a, WritersQuiet
<1>b. ASSUME Idle, UNCHANGED zst, NEW x \in {Absent, Whole}, entry' = [entry EXCEPT ![k] = x]
      PROVE  Files' /\ Writers'
  <2>0. PICK l \in Keys : l = k
    BY <1>b, <1>00
  <2>1. IsFile(x) /\ x.w = {}
    BY <1>b, FileOps DEF Files
  <2>2. /\ DOMAIN entry' = Keys /\ \A y \in Keys : IsFile(entry'[y])
        /\ entry'[l] = x /\ \A y \in Keys \ {l} : entry'[y] = entry[y]
    BY <2>0, <2>1, <1>b DEF Files
  <2>3. Files'
    BY <2>2, <1>b DEF Files
  <2>4. \A y \in Keys : zst'[y].w \subseteq zst[y].w /\ entry'[y].w \subseteq entry[y].w \cup zst[y].w
    BY <2>1, <2>2, <1>b
  <2>5. QED
    BY <2>3, <2>4, <1>0, <1>b, WritersQuiet
<1>1. CASE Hit(c) \/ Built(c) \/ Recovers(c) \/ BuildFails(c) \/ Restore(c)
  BY <1>1, <1>a DEF Hit, Built, Recovers, BuildFails, Restore, Doing
<1>2. CASE HitFails(c) \/ Miss(c) \/ RemoveLock(c) \/ OpenLock(c) \/ Flock(c)
  BY <1>2, <1>a DEF HitFails, Miss, RemoveLock, OpenLock, Flock, FlockFree, FlockWaits, Doing
<1>3. CASE RecheckHit(c) \/ RecheckMiss(c)
  BY <1>3, <1>a DEF RecheckHit, RecheckMiss, Doing
<1>4. CASE \E d \in Keys : BuildAsks(c, d)
  BY <1>4, <1>a DEF BuildAsks, Doing
<1>5. CASE RemoveEntry(c) \/ RemoveCorrupt(c) \/ InstallAside(c)
  BY <1>5, <1>b DEF RemoveEntry, RemoveCorrupt, InstallAside, Doing
<1>6. CASE Install(c)
  BY <1>6, <1>a, <1>b DEF Install, Doing
<1>7. CASE BuildEnds(c) /\ k \in LabKeys
  BY <1>7, <1>a DEF BuildEnds, Doing, Step, GoesOn
<1>8. CASE BuildEnds(c) /\ k \notin LabKeys
  <2>1. /\ stack[c] # <<>> /\ Top(c).pc = "build" /\ Step(c, "compressing")
        /\ entry' = entry /\ zst' = [zst EXCEPT ![k] = Truncate(zst[k], c)]
    BY <1>8 DEF BuildEnds, Doing
  <2>0. PICK l \in Keys : l = k
    BY <2>1, <1>00
  <2>2. IsFile(Truncate(zst[l], c)) /\ Truncate(zst[l], c).w = zst[l].w \cup {c}
    BY FileOps DEF Files
  <2>3. /\ DOMAIN zst' = Keys /\ \A y \in Keys : IsFile(zst'[y])
        /\ zst'[l].w = zst[l].w \cup {c} /\ \A y \in Keys \ {l} : zst'[y] = zst[y]
    BY <2>0, <2>1, <2>2 DEF Files
  <2>4. Files'
    BY <2>1, <2>3 DEF Files
  <2>5. OnlyWriter(c)
    BY <2>1, <2>3 DEF OnlyWriter
  <2>6. WorksAt(c, l, {"compressing"})'
    <3>1. "compressing" \in Stages
      BY DEF Stages
    <3>2. QED
      BY <3>1, <2>0, <2>1, TopAfter
  <2>7. \A y \in Keys : c \notin entry[y].w /\ c \notin zst[y].w
    BY <2>1 DEF Writers, WorksAt
  <2>8. \A y \in Keys : /\ c \in zst'[y].w => WorksAt(c, y, {"compressing"})'
                        /\ c \in entry'[y].w => WorksAt(c, y, {"compressing", "copying"})'
    BY <2>1, <2>3, <2>6, <2>7
  <2>9. QED
    BY <2>4, <2>5, <2>8, <1>0, WritersStep
<1>9. CASE CompressEnds(c)
  <2> DEFINE x == CASE zst[k].st # "none" ->
                          IF c \in zst[k].w THEN Finish(zst[k], c) ELSE zst[k]
                    [] zst[k].st = "none" /\ c \in entry[k].w -> Finish(entry[k], c)
                    [] OTHER -> entry[k]
  <2>1. /\ stack[c] # <<>>
        /\ entry' = [entry EXCEPT ![k] = x] /\ zst' = [zst EXCEPT ![k] = Absent]
    BY <1>9 DEF CompressEnds, Doing
  <2>0. PICK l \in Keys : l = k
    BY <2>1, <1>00
  <2>2. /\ IsFile(zst[l]) /\ IsFile(entry[l]) /\ IsFile(Absent) /\ Absent.w = {}
        /\ IsFile(Finish(zst[l], c)) /\ Finish(zst[l], c).w = zst[l].w \ {c}
        /\ IsFile(Finish(entry[l], c)) /\ Finish(entry[l], c).w = entry[l].w \ {c}
    BY FileOps DEF Files
  <2>3. IsFile(x) /\ x.w \subseteq (entry[l].w \cup zst[l].w) \ {c}
    BY <2>0, <2>2
  <2> HIDE DEF x
  <2>4. /\ DOMAIN zst' = Keys /\ \A y \in Keys : IsFile(zst'[y])
        /\ zst'[l].w = {} /\ \A y \in Keys \ {l} : zst'[y] = zst[y]
    BY <2>0, <2>1, <2>2 DEF Files
  <2>5. /\ DOMAIN entry' = Keys /\ \A y \in Keys : IsFile(entry'[y])
        /\ entry'[l] = x /\ \A y \in Keys \ {l} : entry'[y] = entry[y]
    BY <2>0, <2>1, <2>3 DEF Files
  <2>6. Files'
    BY <2>4, <2>5 DEF Files
  <2>7. OnlyWriter(c)
    BY <2>3, <2>4, <2>5 DEF OnlyWriter
  <2>8. \A y \in Keys : c \notin zst'[y].w /\ c \notin entry'[y].w
    BY <2>0, <2>3, <2>4, <2>5, <1>000
  <2>9. QED
    BY <2>6, <2>7, <2>8, <1>0, WritersStep
<1>10. CASE CompressFails(c)
  <2>1. /\ stack[c] # <<>> /\ zst' = [zst EXCEPT ![k] = AbandonZst(zst[k], c)]
        /\ \/ entry' = [entry EXCEPT ![k] = Whole]
           \/ /\ entry' = [entry EXCEPT ![k] = Truncate(Abandon(entry[k], c), c)]
              /\ Step(c, "copying")
    BY <1>10 DEF CompressFails, Doing
  <2>0. PICK l \in Keys : l = k
    BY <2>1, <1>00
  <2>2. /\ IsFile(AbandonZst(zst[l], c)) /\ AbandonZst(zst[l], c).w = zst[l].w \ {c}
        /\ IsFile(Abandon(entry[l], c)) /\ Abandon(entry[l], c).w = entry[l].w \ {c}
        /\ IsFile(Whole) /\ Whole.w = {}
    BY FileOps DEF Files
  <2>3. LET t == Truncate(Abandon(entry[l], c), c)
        IN  IsFile(t) /\ t.w = entry[l].w \cup {c}
    <3>1. LET t == Truncate(Abandon(entry[l], c), c)
          IN  IsFile(t) /\ t.w = (entry[l].w \ {c}) \cup {c}
      BY <2>2, FileOps
    <3>2. QED
      BY <3>1
  <2>4. /\ DOMAIN zst' = Keys /\ \A y \in Keys : IsFile(zst'[y])
        /\ zst'[l].w = zst[l].w \ {c} /\ \A y \in Keys \ {l} : zst'[y] = zst[y]
    BY <2>0, <2>1, <2>2 DEF Files
  <2>5. /\ DOMAIN entry' = Keys /\ \A y \in Keys : IsFile(entry'[y])
        /\ \A y \in Keys \ {l} : entry'[y] = entry[y]
        /\ entry'[l].w = {} \/ (entry'[l].w = entry[l].w \cup {c} /\ Step(c, "copying"))
    <3> DEFINE t == Truncate(Abandon(entry[l], c), c)
    <3>1. IsFile(t) /\ t.w = entry[l].w \cup {c}
      BY <2>3
    <3>2. \/ entry' = [entry EXCEPT ![l] = Whole]
          \/ entry' = [entry EXCEPT ![l] = t] /\ Step(c, "copying")
      BY <2>0, <2>1
    <3> HIDE DEF t
    <3>3. QED
      BY <2>2, <3>1, <3>2 DEF Files
  <2>6. Files'
    BY <2>4, <2>5 DEF Files
  <2>7. OnlyWriter(c)
    BY <2>4, <2>5 DEF OnlyWriter
  <2>8. \A y \in Keys : c \notin zst'[y].w
    BY <2>0, <2>4, <1>000
  <2>9. Step(c, "copying") => WorksAt(c, l, {"compressing", "copying"})'
    <3>1. ASSUME Step(c, "copying") PROVE WorksAt(c, l, {"copying"})'
      <4>1. "copying" \in Stages
        BY DEF Stages
      <4>2. QED
        BY <4>1, <3>1, <2>0, <2>1, TopAfter
    <3>2. QED
      BY <3>1 DEF WorksAt
  <2>10. \A y \in Keys : c \in entry'[y].w => WorksAt(c, y, {"compressing", "copying"})'
    BY <2>0, <2>5, <2>9, <1>000
  <2>11. QED
    BY <2>6, <2>7, <2>8, <2>10, <1>0, WritersStep
<1>11. CASE CopyEnds(c)
  <2>1. /\ stack[c] # <<>> /\ Top(c).pc = "copying" /\ zst' = zst
        /\ \/ entry' = [entry EXCEPT ![k] = IF c \in entry[k].w THEN Finish(entry[k], c) ELSE entry[k]]
           \/ entry' = [entry EXCEPT ![k] = Abandon(entry[k], c)]
    BY <1>11 DEF CopyEnds, Doing
  <2>0. PICK l \in Keys : l = k
    BY <2>1, <1>00
  <2>2. /\ IsFile(entry[l])
        /\ IsFile(Finish(entry[l], c)) /\ Finish(entry[l], c).w = entry[l].w \ {c}
        /\ IsFile(Abandon(entry[l], c)) /\ Abandon(entry[l], c).w = entry[l].w \ {c}
    BY FileOps DEF Files
  <2>3. PICK x : IsFile(x) /\ x.w = entry[l].w \ {c} /\ entry' = [entry EXCEPT ![l] = x]
    BY <2>0, <2>1, <2>2
  <2>4. /\ DOMAIN entry' = Keys /\ \A y \in Keys : IsFile(entry'[y])
        /\ entry'[l] = x /\ \A y \in Keys \ {l} : entry'[y] = entry[y]
    BY <2>3 DEF Files
  <2>5. Files'
    BY <2>1, <2>4 DEF Files
  <2>6. OnlyWriter(c)
    BY <2>1, <2>3, <2>4 DEF OnlyWriter
  <2>7. \A y \in Keys : c \notin zst'[y].w /\ c \notin entry'[y].w
    <3>1. \A y \in Keys : c \notin zst[y].w
      BY <2>1 DEF Writers, WorksAt
    <3>2. QED
      BY <3>1, <2>0, <2>1, <2>3, <2>4, <1>000
  <2>8. QED
    BY <2>5, <2>6, <2>7, <1>0, WritersStep
<1>12. QED
  BY <1>1, <1>2, <1>3, <1>4, <1>5, <1>6, <1>7, <1>8, <1>9, <1>10, <1>11 DEF CallStep

-----------------------------------------------------------------------------
(* The cache *)

\* The inductive invariant
CacheInv == Stacks /\ Files /\ Exclusive /\ Writers

\* Nobody calls, and there are no files.
LEMMA CacheInvInit == CacheInit => CacheInv
<1>1. SUFFICES ASSUME CacheInit PROVE CacheInv
  OBVIOUS
<1>2. Stacks
  BY <1>1, EmptyStack DEF CacheInit, Stacks
<1>3. IsFile(Absent) /\ Absent.w = {}
  BY DEF IsFile, Absent
<1>4. Files /\ Writers
  BY <1>1, <1>3 DEF CacheInit, Files, Writers
<1>5. Exclusive
  BY <1>1, EmptyStack DEF CacheInit, Exclusive, Frames
<1>6. QED
  BY <1>2, <1>4, <1>5 DEF CacheInv

\* A killed process writes no more.
LEMMA CrashStep ==
    ASSUME Stacks, Files, Writers, NEW c \in Callers, Crash(c)
    PROVE  Files' /\ Writers' /\ Moves(c)
<1>1. Moves(c)
  BY DEF Crash, Leaves, Moves, Dies
<1>2. \A k \in Keys : /\ IsFile(Abandon(entry[k], c)) /\ Abandon(entry[k], c).w = entry[k].w \ {c}
                      /\ IsFile(AbandonZst(zst[k], c)) /\ AbandonZst(zst[k], c).w = zst[k].w \ {c}
  BY FileOps DEF Files
<1>3. /\ DOMAIN entry' = Keys /\ DOMAIN zst' = Keys
      /\ \A k \in Keys : entry'[k] = Abandon(entry[k], c) /\ zst'[k] = AbandonZst(zst[k], c)
  BY DEF Crash
<1>4. Files'
  BY <1>2, <1>3 DEF Files
<1>5. OnlyWriter(c)
  BY <1>2, <1>3 DEF OnlyWriter
<1>6. \A k \in Keys : c \notin zst'[k].w /\ c \notin entry'[k].w
  BY <1>2, <1>3
<1>7. QED
  BY <1>1, <1>4, <1>5, <1>6, WritersStep

\* Others that clear the cache remove files, and nobody's call.
LEMMA ClearStep ==
    ASSUME CacheInv,
           (\E k \in Keys : Evict(k) \/ Clean(k)) \/ (\E n \in Names : EvictLock(n))
    PROVE  CacheInv' /\ UNCHANGED stack
<1>1. IsFile(Absent) /\ Absent.w = {}
  BY DEF IsFile, Absent
<1>2. UNCHANGED stack
  BY DEF Evict, Clean, EvictLock
<1>3. ASSUME NEW k \in Keys, Evict(k) PROVE Files' /\ Writers'
  <2>1. /\ DOMAIN entry' = Keys /\ entry'[k] = Absent /\ \A y \in Keys \ {k} : entry'[y] = entry[y]
        /\ zst' = zst
    BY <1>3 DEF Evict, CacheInv, Files
  <2>2. Files'
    BY <1>1, <2>1 DEF CacheInv, Files
  <2>3. Writers'
    BY <1>1, <1>2, <2>1 DEF CacheInv, Writers, WorksAt, Top
  <2>4. QED
    BY <2>2, <2>3
<1>4. ASSUME NEW k \in Keys, Clean(k) PROVE Files' /\ Writers'
  <2>1. /\ DOMAIN zst' = Keys /\ zst'[k] = Absent /\ \A y \in Keys \ {k} : zst'[y] = zst[y]
        /\ entry' = entry
    BY <1>4 DEF Clean, CacheInv, Files
  <2>2. Files'
    BY <1>1, <2>1 DEF CacheInv, Files
  <2>3. Writers'
    BY <1>1, <1>2, <2>1 DEF CacheInv, Writers, WorksAt, Top
  <2>4. QED
    BY <2>2, <2>3
<1>5. ASSUME NEW n \in Names, EvictLock(n) PROVE Files' /\ Writers'
  BY <1>5 DEF EvictLock, CacheInv, Files, Writers, WorksAt, Top
<1>6. Stacks' /\ Exclusive'
  BY <1>2 DEF CacheInv, Stacks, Exclusive, Frames
<1>7. QED
  BY <1>2, <1>3, <1>4, <1>5, <1>6 DEF CacheInv

\* A call starts.
LEMMA StartStep ==
    ASSUME Stacks, Files, Writers, NEW c \in Callers, NEW k \in Keys, NEW op \in Ops, Call(c, k, op)
    PROVE  Files' /\ Writers' /\ Moves(c)
<1>1. IsCall(NewCall(k, op)) /\ ~Holds(NewCall(k, op))
  BY NewCallIsCall
<1>2. Starts(c, NewCall(k, op))
  BY <1>1 DEF Call, Starts
<1>3. Moves(c)
  BY <1>2 DEF Moves
<1>4. Files' /\ entry' = entry /\ zst' = zst /\ stack[c] = <<>>
  BY DEF Call, Files
<1>5. QED
  BY <1>3, <1>4, WritersQuiet

\* What a step of the cache is: somebody's move, or files that are removed.
LEMMA CacheMoves ==
    ASSUME CacheInv, CacheNext
    PROVE  \/ \E c \in Callers : Moves(c) /\ Files' /\ Writers'
           \/ CacheInv' /\ UNCHANGED stack
<1>1. ASSUME NEW c \in Callers, NEW k \in Keys, NEW op \in {"call", "build", "rebuild"}, Call(c, k, op)
      PROVE  Moves(c) /\ Files' /\ Writers'
  BY <1>1, StartStep DEF CacheInv, Ops
<1>2. ASSUME NEW c \in Callers, CallStep(c)
      PROVE  Moves(c) /\ Files' /\ Writers'
  BY <1>2, CallMoves, FilesStep DEF CacheInv
<1>3. ASSUME NEW c \in Callers, Crash(c)
      PROVE  Moves(c) /\ Files' /\ Writers'
  BY <1>3, CrashStep DEF CacheInv
<1>4. QED
  BY <1>1, <1>2, <1>3, ClearStep, Zenon DEF CacheNext

\* Every step keeps the invariant.
LEMMA CacheInvStep == CacheInv /\ [CacheNext]_cacheVars => CacheInv'
<1>1. SUFFICES ASSUME CacheInv, [CacheNext]_cacheVars PROVE CacheInv'
  OBVIOUS
<1>2. ASSUME NEW c \in Callers, Moves(c), Files', Writers' PROVE CacheInv'
  BY <1>1, <1>2, StacksStep, ExclusiveStep DEF CacheInv
<1>3. CASE CacheNext
  BY <1>1, <1>2, <1>3, CacheMoves
<1>4. CASE UNCHANGED cacheVars
  BY <1>1, <1>4 DEF cacheVars, CacheInv, Stacks, Files, Exclusive, Frames, Writers, WorksAt, Top
<1>5. QED
  BY <1>1, <1>3, <1>4

\* The invariant holds of every behaviour of the cache.
LEMMA CacheInvHolds == CacheSpec => []CacheInv
BY CacheInvInit, CacheInvStep, PTL DEF CacheSpec

\* For any callers, fixtures and dependencies: two callers write to a vm's entry at
\* once only when each holds a lock file of its own.
THEOREM TornOnlyByRemoval == CacheSpec => []NoTornEntry
<1>1. CacheInv => NoTornEntry
  <2>1. SUFFICES ASSUME CacheInv, NEW k \in Keys \ LabKeys,
                        NEW c \in entry[k].w \cup zst[k].w,
                        NEW d \in entry[k].w \cup zst[k].w, c # d
                 PROVE  \E f \in Frames(c), g \in Frames(d) :
                            /\ f.key = k /\ g.key = k /\ LockName(k, f.op) = LockName(k, g.op)
                            /\ f.fd # g.fd
    BY Zenon DEF NoTornEntry
  <2>2. ASSUME NEW e \in entry[k].w \cup zst[k].w
        PROVE  e \in Callers /\ Top(e) \in Frames(e) /\ Top(e).key = k /\ Holds(Top(e))
    <3>1. e \in Callers
      BY <2>1 DEF CacheInv, Files, IsFile
    <3>2. WorksAt(e, k, {"compressing", "copying"})
      BY <2>1 DEF CacheInv, Writers, WorksAt
    <3>3. Top(e) \in Frames(e)
      BY <2>1, <3>1, <3>2, CallsOfTail DEF CacheInv, Stacks, Sound, WorksAt, Top, Frames
    <3>4. Holds(Top(e))
      BY <3>2 DEF WorksAt, Holds
    <3>5. QED
      BY <3>1, <3>2, <3>3, <3>4 DEF WorksAt
  <2>3. LockName(k, Top(c).op) = LockName(k, Top(d).op)
    BY DEF LockName
  <2>4. ~SameFile(Top(c), Top(d))
    BY <2>1, <2>2, Zenon DEF CacheInv, Exclusive
  <2>5. Top(c).fd # Top(d).fd
    BY <2>2, <2>3, <2>4 DEF SameFile
  <2>6. QED
    BY <2>2, <2>3, <2>5
<1>2. QED
  BY <1>1, CacheInvHolds, PTL

\* For any callers, fixtures and dependencies: no call emits a second Done, or one
\* that answers neither a Waiting nor a Started.
THEOREM DoneAlwaysPaired == CacheSpec => []DoneIsPaired
<1>1. CacheInv => DoneIsPaired
  <2>1. SUFFICES ASSUME CacheInv, NEW c \in Callers, NEW f \in Frames(c) PROVE f.ev # "stray"
    BY DEF DoneIsPaired
  <2>2. stack[c] # <<>>
    BY EmptyStack DEF Frames
  <2>3. IsCall(f)
    BY <2>1, <2>2, CallsOfTail, Zenon DEF CacheInv, Stacks, Sound, Asking, Frames
  <2>4. QED
    BY <2>3 DEF IsCall
<1>2. QED
  BY <1>1, CacheInvHolds, PTL

-----------------------------------------------------------------------------
(* Waiting.  That fixtures do not depend on themselves is that they can be  *)
(* ranked: a fixture has a greater rank than those its chunk asks for.      *)

\* No fixture is built from itself: a fixture ranks above those it depends on
IsRank(rank) ==
    rank \in [Keys -> Nat] /\ \A k \in Keys : \A d \in Deps[k] : rank[d] < rank[k]

\* The ranks decrease towards the innermost call
Ranked(rank, s) ==
    \A i, j \in 1 .. Len(s) : i < j => rank[s[i].key] < rank[s[j].key]

\* The innermost call has a smaller rank than the calls below it.
LEMMA RankedTail ==
    ASSUME NEW rank, NEW s, IsStack(s), s # <<>>, Ranked(rank, s)
    PROVE  /\ Ranked(rank, Tail(s))
           /\ \A f \in Calls(Tail(s)) : rank[Head(s).key] < rank[f.key]
<1>1. /\ Len(s) \in Nat /\ Len(Tail(s)) \in Nat /\ Len(s) = Len(Tail(s)) + 1
      /\ Head(s) = s[1] /\ \A i \in 1 .. Len(Tail(s)) : s[i + 1] = Tail(s)[i]
  BY StackTail
<1>2. ASSUME NEW i \in 1 .. Len(Tail(s)), NEW j \in 1 .. Len(Tail(s)), i < j
      PROVE  rank[Tail(s)[i].key] < rank[Tail(s)[j].key]
  <2>1. i + 1 \in 1 .. Len(s) /\ j + 1 \in 1 .. Len(s) /\ i + 1 < j + 1
    BY <1>1, <1>2
  <2>2. rank[s[i + 1].key] < rank[s[j + 1].key]
    BY <2>1 DEF Ranked
  <2>3. QED
    BY <2>2, <1>1
<1>3. ASSUME NEW i \in 1 .. Len(Tail(s))
      PROVE  rank[Head(s).key] < rank[Tail(s)[i].key]
  <2>1. 1 \in 1 .. Len(s) /\ i + 1 \in 1 .. Len(s) /\ 1 < i + 1
    BY <1>1, <1>3
  <2>2. rank[s[1].key] < rank[s[i + 1].key]
    BY <2>1 DEF Ranked
  <2>3. QED
    BY <2>2, <1>1
<1>4. QED
  BY <1>2, <1>3 DEF Ranked, Calls

\* A call of a smaller rank goes on top.
LEMMA RankedCons ==
    ASSUME NEW rank, NEW t, IsStack(t), Ranked(rank, t), NEW f,
           \A g \in Calls(t) : rank[f.key] < rank[g.key]
    PROVE  Ranked(rank, <<f>> \o t)
<1> DEFINE s == <<f>> \o t
<1>1. /\ Len(s) = Len(t) + 1 /\ Len(t) \in Nat
      /\ s[1] = f /\ \A i \in 1 .. Len(t) : s[i + 1] = t[i]
  BY StackCons
<1> HIDE DEF s
<1>2. SUFFICES ASSUME NEW i \in 1 .. Len(s), NEW j \in 1 .. Len(s), i < j
               PROVE  rank[s[i].key] < rank[s[j].key]
  BY DEF Ranked, s
<1>3. j - 1 \in 1 .. Len(t) /\ j = (j - 1) + 1
  BY <1>1, <1>2
<1>4. s[j] = t[j - 1]
  BY <1>1, <1>3
<1>5. CASE i = 1
  <2>1. t[j - 1] \in Calls(t)
    BY <1>3 DEF Calls
  <2>2. QED
    BY <2>1, <1>1, <1>4, <1>5
<1>6. CASE i # 1
  <2>1. i - 1 \in 1 .. Len(t) /\ i = (i - 1) + 1 /\ i - 1 < j - 1
    BY <1>1, <1>2, <1>6
  <2>2. s[i] = t[i - 1]
    BY <1>1, <2>1
  <2>3. QED
    BY <1>3, <1>4, <2>1, <2>2 DEF Ranked
<1>7. QED
  BY <1>5, <1>6

\* The ranks go on decreasing: a chunk asks for what it depends on.
LEMMA RankedStep ==
    ASSUME NEW rank, IsRank(rank), Stacks, \A c \in Callers : Ranked(rank, stack[c]),
           NEW c \in Callers, Moves(c)
    PROVE  \A d \in Callers : Ranked(rank, stack'[d])
<1>0. ASSUME stack[c] # <<>>
      PROVE  /\ IsStack(Tail(stack[c])) /\ Ranked(rank, Tail(stack[c]))
             /\ \A g \in Calls(Tail(stack[c])) : IsCall(g) /\ rank[Top(c).key] < rank[g.key]
             /\ IsCall(Top(c))
  <2>1. IsStack(stack[c]) /\ Asking(Tail(stack[c])) /\ IsCall(Top(c))
    BY <1>0 DEF Stacks, Sound, Top
  <2>2. /\ Ranked(rank, Tail(stack[c]))
        /\ \A g \in Calls(Tail(stack[c])) : rank[Head(stack[c]).key] < rank[g.key]
    BY <2>1, <1>0, RankedTail
  <2>3. QED
    BY <2>1, <2>2 DEF Asking, Top
<1>e. Ranked(rank, <<>>)
  BY DEF Ranked
<1>1. ASSUME NEW f, Starts(c, f) PROVE Ranked(rank, stack'[c])
  <2>1. stack'[c] = <<f>> \o <<>>
    BY <1>1, OneCall DEF Starts, Stacks
  <2>2. QED
    BY <2>1, <1>e, EmptyStack, RankedCons
<1>2. CASE Dies(c)
  BY <1>2, <1>e DEF Dies, Stacks
<1>3. ASSUME NEW f, Continues(c, f) PROVE Ranked(rank, stack'[c])
  <2>1. stack'[c] = <<f>> \o Tail(stack[c]) /\ stack[c] # <<>> /\ f.key = Top(c).key
    BY <1>3 DEF Continues, Stacks
  <2>2. QED
    BY <2>1, <1>0, RankedCons
<1>4. CASE Ends(c)
  BY <1>4, <1>0 DEF Ends, Stacks
<1>5. ASSUME NEW f, NEW g, Asks(c, f, g) PROVE Ranked(rank, stack'[c])
  <2>1. /\ stack'[c] = <<f>> \o (<<g>> \o Tail(stack[c])) /\ stack[c] # <<>>
        /\ g.key = Top(c).key /\ f.key \in Deps[g.key] /\ f.key \in Keys /\ g.key \in Keys
    BY <1>5 DEF Asks, Stacks, IsCall
  <2> DEFINE t == <<g>> \o Tail(stack[c])
  <2>2. Ranked(rank, t)
    BY <2>1, <1>0, RankedCons
  <2>3. IsStack(t) /\ Calls(t) = {g} \cup Calls(Tail(stack[c]))
    BY <2>1, <1>0, StackCons, CallsOfCons
  <2>4. rank[f.key] < rank[g.key] /\ rank[f.key] \in Nat /\ rank[g.key] \in Nat
    BY <2>1 DEF IsRank
  <2>5. ASSUME NEW h \in Calls(t) PROVE rank[f.key] < rank[h.key]
    <3>1. CASE h = g
      BY <3>1, <2>4
    <3>2. CASE h \in Calls(Tail(stack[c]))
      <4>1. rank[g.key] < rank[h.key] /\ h.key \in Keys
        BY <3>2, <2>1, <1>0 DEF IsCall
      <4>2. rank[h.key] \in Nat
        BY <4>1 DEF IsRank
      <4>3. QED
        BY <4>1, <4>2, <2>4
    <3>3. QED
      BY <3>1, <3>2, <2>3
  <2> HIDE DEF t
  <2>6. Ranked(rank, <<f>> \o t)
    BY <2>2, <2>3, <2>5, RankedCons
  <2>7. QED
    BY <2>1, <2>6 DEF t
<1>6. CASE UNCHANGED stack
  BY <1>6
<1>7. Ranked(rank, stack'[c])
  BY <1>1, <1>2, <1>3, <1>4, <1>5, <1>6 DEF Moves
<1>8. QED
  BY <1>7, OthersKept

\* Of a set of naturals that is not empty one is the least.
LEMMA LeastNat ==
    ASSUME NEW T, T \subseteq Nat, T # {}
    PROVE  \E x \in T : \A y \in T : x <= y
<1>1. PICK x \in T : \A y \in T : ~(<<y, x>> \in OpToRel(<, Nat))
  BY NatLessThanWellFounded, WFMin
<1>2. ASSUME NEW y \in T PROVE x <= y
  <2>1. ~(y < x)
    BY <1>1, <1>2 DEF OpToRel
  <2>2. QED
    BY <2>1
<1>3. QED
  BY <1>2

\* Whoever waits for a lock waits for a caller whose call has the same fixture.
LEMMA HolderHasKey ==
    ASSUME NEW f, NEW g, SameFile(f, g)
    PROVE  f.key = g.key
BY DEF SameFile, LockName

\* When the stacks are ranked, some holder runs.
LEMMA SomeHolderRuns ==
    ASSUME NEW rank, IsRank(rank), CacheInv, \A c \in Callers : Ranked(rank, stack[c])
    PROVE  NoStuckWaiter
<1> DEFINE waiting == {c \in Callers : Waits(c)}
           R == {rank[Top(c).key] : c \in waiting}
<1>1. SUFFICES ASSUME waiting # {} PROVE \E c \in waiting : HolderOf(c) \ waiting # {}
  BY DEF NoStuckWaiter
<1>2. \A c \in waiting : stack[c] # <<>> /\ IsCall(Top(c)) /\ Top(c).pc = "flock"
  BY DEF Waits, Doing, CacheInv, Stacks, Sound, Top
<1>3. R \subseteq Nat /\ R # {}
  BY <1>1, <1>2 DEF IsCall, IsRank
<1>4. PICK m \in R : \A y \in R : m <= y
  BY <1>3, LeastNat
<1>5. PICK c \in waiting : m = rank[Top(c).key]
  BY <1>4
<1>6. PICK d \in Callers : Holding(d, Top(c))
  BY <1>5 DEF Waits, Locked
<1>7. PICK f \in Frames(d) : Holds(f) /\ SameFile(f, Top(c))
  BY <1>6 DEF Holding
<1>8. f.key = Top(c).key
  BY <1>7, HolderHasKey
<1>9. ASSUME d \in waiting PROVE FALSE
  <2>1. stack[d] # <<>> /\ IsCall(Top(d)) /\ Top(d).pc = "flock" /\ IsStack(stack[d])
    BY <1>9, <1>2 DEF CacheInv, Stacks, Sound
  <2>2. f # Top(d)
    BY <2>1, <1>7 DEF Holds
  <2>3. f \in Calls(Tail(stack[d]))
    BY <2>1, <2>2, <1>7, CallsOfTail DEF Frames, Top
  <2>4. rank[Top(d).key] < rank[f.key]
    BY <2>1, <2>3, RankedTail DEF Top
  <2>5. rank[Top(d).key] \in R /\ rank[Top(d).key] \in Nat
    BY <1>9, <1>3
  <2>6. QED
    BY <2>4, <2>5, <1>3, <1>4, <1>5, <1>8
<1>10. QED
  BY <1>5, <1>6, <1>9 DEF HolderOf

\* For any callers and fixtures, and whatever the depth of their dependencies: when
\* fixtures do not depend on themselves, callers that wait never wait for each other
\* only, however locks are removed and builders are killed.
THEOREM WaitersAreServed ==
    ASSUME NEW rank, IsRank(rank)
    PROVE  CacheSpec => []NoStuckWaiter
<1> DEFINE Down == \A c \in Callers : Ranked(rank, stack[c])
<1>1. CacheInit => Down
  <2>1. Ranked(rank, <<>>)
    BY DEF Ranked
  <2>2. QED
    BY <2>1 DEF CacheInit
<1>2. CacheInv /\ Down /\ [CacheNext]_cacheVars => Down'
  <2>1. SUFFICES ASSUME CacheInv, Down, [CacheNext]_cacheVars PROVE Down'
    OBVIOUS
  <2>2. ASSUME NEW c \in Callers, Moves(c) PROVE Down'
    BY <2>1, <2>2, RankedStep DEF CacheInv
  <2>3. CASE UNCHANGED stack
    BY <2>1, <2>3
  <2>4. QED
    BY <2>1, <2>2, <2>3, CacheMoves DEF cacheVars
<1>3. CacheInv /\ Down => NoStuckWaiter
  BY SomeHolderRuns
<1>4. QED
  BY <1>1, <1>2, <1>3, CacheInvHolds, PTL DEF CacheSpec

=============================================================================
