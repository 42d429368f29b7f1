-------------------------- MODULE GuestAgentProofs --------------------------
(***************************************************************************)
(* The four invariants of the guest's agent, for any number of             *)
(* connections, workers and processes and any amount of output.            *)
(*                                                                         *)
(* Three inductive invariants: ProcInv of the processes and of the threads *)
(* that work on one, TableInv of the locks of the process tables, and      *)
(* RelayInv of the mutexes of the workers' connections and of what is on   *)
(* the control sockets.                                                    *)
(***************************************************************************)
EXTENDS GuestAgent, TLAPS

Fields == {"op", "st", "p", "w", "cap", "ok", "by", "sent"}

Homes == Workers \cup {Root}

ProcType ==
    [slot : {"unused", "table", "taken", "collected", "lost"}, home : Homes,
     child : {"running", "zombie", "reaped"},
     kids : {"none", "group", "escaped"}, stdin : {"open", "full", "closed"},
     left : Nat, pipe : Nat, buf : Nat, drain : {"reading", "done"}]

\* What the steps rely on the variables to be
Types ==
    /\ DOMAIN job = Threads /\ \A t \in Threads : DOMAIN job[t] = Fields
    /\ proc \in [Procs -> ProcType]
    /\ DOMAIN tlock = Homes
    /\ registry \subseteq Workers
    /\ DOMAIN worker = Workers
    /\ \A w \in Workers : DOMAIN worker[w] = {"state", "sock", "async"}
    /\ DOMAIN wlock = Workers
    /\ DOMAIN request = Workers /\ \A w \in Workers : DOMAIN request[w] = Fields
    /\ DOMAIN answer = Workers /\ \A w \in Workers : DOMAIN answer[w] = Fields

-----------------------------------------------------------------------------
(* The processes.                                                          *)

\* The output of a process is nowhere twice; a drain thread that is done has
\* left nothing and nobody who could write; what is collected was reaped,
\* drained and handed over
ProcWhole(p) ==
    /\ proc[p].left + proc[p].pipe + proc[p].buf <= MaxOut
    /\ proc[p].drain = "done" => ~Writers(p) /\ proc[p].pipe = 0
    /\ proc[p].slot = "collected" =>
        proc[p].child = "reaped" /\ proc[p].drain = "done" /\ proc[p].buf = 0

\* A thread that waits for a process or streams it works on one that its own
\* agent has spawned, so that no worker's end takes it away; it drains a
\* child that is reaped, and has sent no more than was written
Uses(t) ==
    /\ job[t].st \in {"recv", "killed", "reap", "drain", "stream"} =>
        job[t].p \in Procs /\ proc[job[t].p].slot # "unused" /\ proc[job[t].p].home = Home(t)
    /\ job[t].st = "drain" => proc[job[t].p].child = "reaped"
    /\ job[t].st = "stream" => job[t].sent \in Nat /\ job[t].sent + proc[job[t].p].left <= MaxOut

ProcInv ==
    /\ \A p \in Procs : ProcWhole(p)
    /\ \A t \in Threads : Uses(t)

-----------------------------------------------------------------------------
(* The locks of the process tables.                                        *)

\* A table is held by a thread of its own agent, inside a write
TableInv ==
    \A h \in Homes : tlock[h] # None =>
        tlock[h] \in Threads /\ Home(tlock[h]) = h /\ job[tlock[h]].st = "stdin"

-----------------------------------------------------------------------------
(* The control sockets.                                                    *)

\* Whoever holds the mutex reads from this worker, or reaps it
Holder(w) ==
    wlock[w] # None =>
        wlock[w] \in Conns /\ job[wlock[w]].st \in {"read", "reaping"} /\ job[wlock[w]].w = w

\* What is under way to, in or from a worker is the request of the holder
Owned(j, w) == wlock[w] \in Conns /\ job[wlock[w]].st = "read" /\ j.by = wlock[w]

OneAtATime(w) ==
    \/ request[w] = Idle /\ job[w] = Idle /\ answer[w] = Idle
    \/ request[w].st = "op" /\ Owned(request[w], w) /\ job[w] = Idle /\ answer[w] = Idle
    \/ request[w] = Idle /\ job[w].st # "idle" /\ Owned(job[w], w) /\ answer[w] = Idle
    \/ request[w] = Idle /\ job[w] = Idle /\ Owned(answer[w], w)

\* Only a live worker has anything to do
DeadIsIdle(w) == worker[w].state # "live" => request[w] = Idle /\ job[w] = Idle

\* The handler at the other end: it queues for a worker, it holds the mutex
\* while it reads or reaps, and it is answered as long as the worker lives
Handler(c) ==
    LET w == job[c].w IN
    /\ job[c].st \in {"lock", "read", "reaping"} => w \in Workers /\ worker[w].state # "unused"
    /\ job[c].st \in {"read", "reaping"} => wlock[w] = c
    /\ job[c].st = "read" =>
        \/ worker[w].state # "live"
        \/ request[w].by = c \/ job[w].by = c \/ answer[w].by = c
    /\ job[c].st = "reaping" => worker[w].sock = "shut"

RelayInv ==
    /\ \A w \in registry : worker[w].state # "unused"
    /\ \A w \in Workers : Holder(w) /\ OneAtATime(w) /\ DeadIsIdle(w)
    /\ \A c \in Conns : Handler(c)

IInv == Types /\ ProcInv /\ TableInv /\ RelayInv

-----------------------------------------------------------------------------
(* What a step does to the processes.                                      *)

\* A process that was spawned stays so, where it is; a child that is reaped
\* stays reaped, and no output comes back
Gentle ==
    \A p \in Procs : proc[p].slot # "unused" =>
        /\ proc'[p].slot # "unused" /\ proc'[p].home = proc[p].home
        /\ proc[p].child = "reaped" => proc'[p].child = "reaped"
        /\ proc'[p].left <= proc[p].left

ProcKept == proc' \in [Procs -> ProcType] /\ Gentle /\ \A p \in Procs : ProcWhole(p)'

\* Nothing happens to the processes.
LEMMA ProcSame ==
  ASSUME Types, ProcInv, UNCHANGED proc
  PROVE  ProcKept
BY DEF Types, ProcInv, ProcType, ProcKept, Gentle, ProcWhole, Writers

\* It is enough to look at the process that changes.
LEMMA ProcOne ==
  ASSUME Types, ProcInv, NEW p \in Procs, NEW r \in ProcType,
         proc' = [proc EXCEPT ![p] = r],
         proc[p].slot # "unused" =>
            /\ r.slot # "unused" /\ r.home = proc[p].home
            /\ proc[p].child = "reaped" => r.child = "reaped"
            /\ r.left <= proc[p].left,
         r.left + r.pipe + r.buf <= MaxOut,
         r.drain = "done" => r.child # "running" /\ r.kids = "none" /\ r.pipe = 0,
         r.slot = "collected" => r.child = "reaped" /\ r.drain = "done" /\ r.buf = 0
  PROVE  ProcKept
<1>1. proc \in [Procs -> ProcType] /\ proc'[p] = r /\ \A q \in Procs \ {p} : proc'[q] = proc[q]
  BY DEF Types, ProcType
<1>2. proc' \in [Procs -> ProcType]
  BY <1>1
<1>3. Gentle
  <2>. SUFFICES ASSUME NEW q \in Procs, proc[q].slot # "unused"
                PROVE  /\ proc'[q].slot # "unused" /\ proc'[q].home = proc[q].home
                       /\ proc[q].child = "reaped" => proc'[q].child = "reaped"
                       /\ proc'[q].left <= proc[q].left
    BY DEF Gentle
  <2>1. CASE q = p
    BY <1>1, <2>1
  <2>2. CASE q # p
    BY <1>1, <2>2 DEF ProcType
  <2>. QED BY <2>1, <2>2
<1>4. ASSUME NEW q \in Procs PROVE ProcWhole(q)'
  <2>1. CASE q = p
    BY <1>1, <2>1 DEF ProcWhole, Writers
  <2>2. CASE q # p
    <3>1. ProcWhole(q)
      BY DEF ProcInv
    <3>. QED BY <1>1, <2>2, <3>1 DEF ProcWhole, Writers
  <2>. QED BY <2>1, <2>2
<1>. QED BY <1>2, <1>3, <1>4 DEF ProcKept

\* A child is spawned into a slot that was never used.
LEMMA SpawnKeeps ==
  ASSUME Types, ProcInv, NEW t \in Threads, NEW p \in Procs, NEW slot \in {"table", "taken"},
         SpawnChild(t, p, slot)
  PROVE  ProcKept /\ proc'[p].slot # "unused" /\ proc'[p].home = Home(t)
<1>. DEFINE r == [Unused EXCEPT !.slot = slot, !.home = Home(t)]
<1>1. Home(t) \in Homes /\ MaxOut \in Nat
  BY AgentAssumption DEF Homes, Home
<1>2. /\ r \in ProcType /\ r.slot = slot /\ r.home = Home(t) /\ r.child = "running"
      /\ r.left = MaxOut /\ r.pipe = 0 /\ r.buf = 0 /\ r.drain = "reading"
  BY Zenon, <1>1 DEF Unused, ProcType
<1>3. proc' = [proc EXCEPT ![p] = r] /\ proc[p].slot = "unused" /\ proc'[p] = r
  BY DEF SpawnChild, Types
<1>. HIDE DEF r
<1>4. r.left + r.pipe + r.buf <= MaxOut
  BY <1>2, AgentAssumption
<1>5. ProcKept
  BY Zenon, <1>2, <1>3, <1>4, ProcOne
<1>. QED BY <1>2, <1>3, <1>5

\* A child exits or is reaped: nothing brings it back.
LEMMA ChildKeeps ==
  ASSUME Types, ProcInv, NEW p \in Procs, NEW c \in {"running", "zombie", "reaped"},
         c = "running" => proc[p].child = "running", proc[p].child = "reaped" => c = "reaped",
         proc' = [proc EXCEPT ![p].child = c]
  PROVE  ProcKept
<1>. DEFINE r == [proc[p] EXCEPT !.child = c]
<1>1. proc[p] \in ProcType /\ ProcWhole(p)
  BY DEF Types, ProcInv
<1>2. /\ r \in ProcType /\ r.slot = proc[p].slot /\ r.home = proc[p].home /\ r.child = c
      /\ r.kids = proc[p].kids /\ r.left = proc[p].left /\ r.pipe = proc[p].pipe
      /\ r.buf = proc[p].buf /\ r.drain = proc[p].drain
  BY <1>1 DEF ProcType
<1>3. proc' = [proc EXCEPT ![p] = r]
  BY DEF Types
<1>. HIDE DEF r
<1>4. /\ proc[p].slot # "unused" =>
            /\ r.slot # "unused" /\ r.home = proc[p].home
            /\ proc[p].child = "reaped" => r.child = "reaped"
            /\ r.left <= proc[p].left
      /\ r.left + r.pipe + r.buf <= MaxOut
      /\ r.drain = "done" => r.child # "running" /\ r.kids = "none" /\ r.pipe = 0
      /\ r.slot = "collected" => r.child = "reaped" /\ r.drain = "done" /\ r.buf = 0
  BY <1>1, <1>2 DEF ProcWhole, Writers, ProcType
<1>. QED BY Zenon, <1>2, <1>3, <1>4, ProcOne

\* The process group is killed, but for who left it.
LEMMA KillKeeps ==
  ASSUME Types, ProcInv, NEW p \in Procs, KillGroup(p)
  PROVE  ProcKept
<1>. DEFINE r == [proc[p] EXCEPT !.child = IF @ = "running" THEN "zombie" ELSE @,
                                 !.kids = IF @ = "group" THEN "none" ELSE @]
<1>1. proc[p] \in ProcType /\ ProcWhole(p)
  BY DEF Types, ProcType, ProcInv
<1>2. /\ r \in ProcType /\ r.child # "running" /\ (proc[p].child = "reaped" => r.child = "reaped")
      /\ r.slot = proc[p].slot /\ r.home = proc[p].home
      /\ (proc[p].kids = "none" => r.kids = "none") /\ r.left = proc[p].left
      /\ r.pipe = proc[p].pipe /\ r.buf = proc[p].buf /\ r.drain = proc[p].drain
  BY Zenon, <1>1 DEF ProcType
<1>3. proc' = [proc EXCEPT ![p] = r]
  BY Zenon DEF Types, KillGroup
<1>. HIDE DEF r
<1>4. /\ proc[p].slot # "unused" =>
            /\ r.slot # "unused" /\ r.home = proc[p].home
            /\ proc[p].child = "reaped" => r.child = "reaped"
            /\ r.left <= proc[p].left
      /\ r.left + r.pipe + r.buf <= MaxOut
      /\ r.drain = "done" => r.child # "running" /\ r.kids = "none" /\ r.pipe = 0
      /\ r.slot = "collected" => r.child = "reaped" /\ r.drain = "done" /\ r.buf = 0
  BY <1>1, <1>2 DEF ProcWhole, Writers, ProcType
<1>. QED BY Zenon, <1>2, <1>3, <1>4, ProcOne

\* The pipe to the child fills, empties or is closed.
LEMMA StdinKeeps ==
  ASSUME Types, ProcInv, NEW p \in Procs, NEW s \in {"open", "full", "closed"},
         proc' = [proc EXCEPT ![p].stdin = s]
  PROVE  ProcKept
<1>. DEFINE r == [proc[p] EXCEPT !.stdin = s]
<1>1. proc[p] \in ProcType /\ ProcWhole(p)
  BY DEF Types, ProcInv
<1>2. /\ r \in ProcType /\ r.slot = proc[p].slot /\ r.home = proc[p].home /\ r.child = proc[p].child
      /\ r.kids = proc[p].kids /\ r.left = proc[p].left /\ r.pipe = proc[p].pipe
      /\ r.buf = proc[p].buf /\ r.drain = proc[p].drain
  BY <1>1 DEF ProcType
<1>3. proc' = [proc EXCEPT ![p] = r]
  BY DEF Types
<1>. HIDE DEF r
<1>4. /\ proc[p].slot # "unused" =>
            /\ r.slot # "unused" /\ r.home = proc[p].home
            /\ proc[p].child = "reaped" => r.child = "reaped"
            /\ r.left <= proc[p].left
      /\ r.left + r.pipe + r.buf <= MaxOut
      /\ r.drain = "done" => r.child # "running" /\ r.kids = "none" /\ r.pipe = 0
      /\ r.slot = "collected" => r.child = "reaped" /\ r.drain = "done" /\ r.buf = 0
  BY <1>1, <1>2 DEF ProcWhole, Writers, ProcType
<1>. QED BY Zenon, <1>2, <1>3, <1>4, ProcOne

\* A wait takes the process out of its table.
LEMMA TakeKeeps ==
  ASSUME Types, ProcInv, NEW p \in Procs,
         proc[p].slot # "collected",
         proc' = [proc EXCEPT ![p].slot = "taken"]
  PROVE  ProcKept
<1>. DEFINE r == [proc[p] EXCEPT !.slot = "taken"]
<1>1. proc[p] \in ProcType /\ ProcWhole(p)
  BY DEF Types, ProcInv
<1>2. /\ r \in ProcType /\ r.slot = "taken" /\ r.home = proc[p].home /\ r.child = proc[p].child
      /\ r.kids = proc[p].kids /\ r.left = proc[p].left /\ r.pipe = proc[p].pipe
      /\ r.buf = proc[p].buf /\ r.drain = proc[p].drain
  BY <1>1 DEF ProcType
<1>3. proc' = [proc EXCEPT ![p] = r]
  BY DEF Types
<1>. HIDE DEF r
<1>4. /\ proc[p].slot # "unused" =>
            /\ r.slot # "unused" /\ r.home = proc[p].home
            /\ proc[p].child = "reaped" => r.child = "reaped"
            /\ r.left <= proc[p].left
      /\ r.left + r.pipe + r.buf <= MaxOut
      /\ r.drain = "done" => r.child # "running" /\ r.kids = "none" /\ r.pipe = 0
      /\ r.slot = "collected" => r.child = "reaped" /\ r.drain = "done" /\ r.buf = 0
  BY <1>1, <1>2 DEF ProcWhole, Writers, ProcType
<1>. QED BY Zenon, <1>2, <1>3, <1>4, ProcOne

\* The thread that drains a reaped child hands over what was drained.
LEMMA CollectKeeps ==
  ASSUME Types, ProcInv, NEW p \in Procs,
         proc[p].slot # "unused", proc[p].child = "reaped", proc[p].drain = "done",
         proc' = [proc EXCEPT ![p].slot = "collected", ![p].buf = 0, ![p].stdin = "closed"]
  PROVE  ProcKept
<1>. DEFINE r == [proc[p] EXCEPT !.slot = "collected", !.buf = 0, !.stdin = "closed"]
<1>1. proc[p] \in ProcType /\ ProcWhole(p)
  BY DEF Types, ProcInv
<1>2. proc[p].left \in Nat /\ proc[p].pipe \in Nat /\ proc[p].buf \in Nat /\ MaxOut \in Nat
  BY <1>1, AgentAssumption DEF ProcType
<1>3. /\ r \in ProcType /\ r.slot = "collected" /\ r.home = proc[p].home /\ r.child = proc[p].child
      /\ r.kids = proc[p].kids /\ r.left = proc[p].left /\ r.pipe = proc[p].pipe
      /\ r.buf = 0 /\ r.drain = proc[p].drain
  BY Zenon, <1>1 DEF ProcType
<1>4. proc' = [proc EXCEPT ![p] = r]
  BY Zenon DEF Types
<1>. HIDE DEF r
<1>5. /\ proc[p].slot # "unused" =>
            /\ r.slot # "unused" /\ r.home = proc[p].home
            /\ proc[p].child = "reaped" => r.child = "reaped"
            /\ r.left <= proc[p].left
      /\ r.left + r.pipe + r.buf <= MaxOut
      /\ r.drain = "done" => r.child # "running" /\ r.kids = "none" /\ r.pipe = 0
      /\ r.slot = "collected" => r.child = "reaped" /\ r.drain = "done" /\ r.buf = 0
  BY <1>2, <1>1, <1>3 DEF ProcWhole, Writers
<1>. QED BY Zenon, <1>3, <1>4, <1>5, ProcOne

\* Only a running child forks.
LEMMA ForkKeeps ==
  ASSUME Types, ProcInv, NEW p \in Procs, NEW k \in {"none", "group", "escaped"},
         k # "none" => proc[p].child = "running",
         proc' = [proc EXCEPT ![p].kids = k]
  PROVE  ProcKept
<1>. DEFINE r == [proc[p] EXCEPT !.kids = k]
<1>1. proc[p] \in ProcType /\ ProcWhole(p)
  BY DEF Types, ProcInv
<1>2. /\ r \in ProcType /\ r.slot = proc[p].slot /\ r.home = proc[p].home /\ r.child = proc[p].child
      /\ r.kids = k /\ r.left = proc[p].left /\ r.pipe = proc[p].pipe
      /\ r.buf = proc[p].buf /\ r.drain = proc[p].drain
  BY <1>1 DEF ProcType
<1>3. proc' = [proc EXCEPT ![p] = r]
  BY DEF Types
<1>. HIDE DEF r
<1>4. /\ proc[p].slot # "unused" =>
            /\ r.slot # "unused" /\ r.home = proc[p].home
            /\ proc[p].child = "reaped" => r.child = "reaped"
            /\ r.left <= proc[p].left
      /\ r.left + r.pipe + r.buf <= MaxOut
      /\ r.drain = "done" => r.child # "running" /\ r.kids = "none" /\ r.pipe = 0
      /\ r.slot = "collected" => r.child = "reaped" /\ r.drain = "done" /\ r.buf = 0
  BY <1>1, <1>2 DEF ProcWhole, Writers, ProcType
<1>. QED BY Zenon, <1>2, <1>3, <1>4, ProcOne

\* A chunk goes from the writer to the pipe.
LEMMA WriteKeeps ==
  ASSUME Types, ProcInv, NEW p \in Procs,
         Writers(p), proc[p].left > 0,
         proc' = [proc EXCEPT ![p].left = @ - 1, ![p].pipe = @ + 1]
  PROVE  ProcKept
<1>. DEFINE r == [proc[p] EXCEPT !.left = @ - 1, !.pipe = @ + 1]
<1>1. proc[p] \in ProcType /\ ProcWhole(p)
  BY DEF Types, ProcInv
<1>2. proc[p].left \in Nat /\ proc[p].pipe \in Nat /\ proc[p].buf \in Nat /\ MaxOut \in Nat
  BY <1>1, AgentAssumption DEF ProcType
<1>3. proc[p].left - 1 \in Nat /\ proc[p].pipe + 1 \in Nat
  BY <1>2
<1>4. /\ r \in ProcType /\ r.slot = proc[p].slot /\ r.home = proc[p].home /\ r.child = proc[p].child
      /\ r.kids = proc[p].kids /\ r.left = proc[p].left - 1 /\ r.pipe = proc[p].pipe + 1
      /\ r.buf = proc[p].buf /\ r.drain = proc[p].drain
  BY Zenon, <1>1, <1>3 DEF ProcType
<1>5. proc' = [proc EXCEPT ![p] = r]
  BY Zenon DEF Types
<1>. HIDE DEF r
<1>6. /\ proc[p].slot # "unused" =>
            /\ r.slot # "unused" /\ r.home = proc[p].home
            /\ proc[p].child = "reaped" => r.child = "reaped"
            /\ r.left <= proc[p].left
      /\ r.left + r.pipe + r.buf <= MaxOut
      /\ r.drain = "done" => r.child # "running" /\ r.kids = "none" /\ r.pipe = 0
      /\ r.slot = "collected" => r.child = "reaped" /\ r.drain = "done" /\ r.buf = 0
  BY <1>2, <1>1, <1>4 DEF ProcWhole, Writers
<1>. QED BY Zenon, <1>4, <1>5, <1>6, ProcOne

\* The drain thread takes what the pipe holds.
LEMMA DrainKeeps ==
  ASSUME Types, ProcInv, NEW p \in Procs,
         proc[p].drain = "reading",
         proc' = [proc EXCEPT ![p].buf = @ + proc[p].pipe, ![p].pipe = 0]
  PROVE  ProcKept
<1>. DEFINE r == [proc[p] EXCEPT !.buf = @ + proc[p].pipe, !.pipe = 0]
<1>1. proc[p] \in ProcType /\ ProcWhole(p)
  BY DEF Types, ProcInv
<1>2. proc[p].left \in Nat /\ proc[p].pipe \in Nat /\ proc[p].buf \in Nat /\ MaxOut \in Nat
  BY <1>1, AgentAssumption DEF ProcType
<1>3. proc[p].buf + proc[p].pipe \in Nat
  BY <1>2
<1>4. /\ r \in ProcType /\ r.slot = proc[p].slot /\ r.home = proc[p].home /\ r.child = proc[p].child
      /\ r.kids = proc[p].kids /\ r.left = proc[p].left /\ r.pipe = 0
      /\ r.buf = proc[p].buf + proc[p].pipe /\ r.drain = proc[p].drain
  BY Zenon, <1>1, <1>3 DEF ProcType
<1>5. proc' = [proc EXCEPT ![p] = r]
  BY Zenon DEF Types
<1>. HIDE DEF r
<1>6. /\ proc[p].slot # "unused" =>
            /\ r.slot # "unused" /\ r.home = proc[p].home
            /\ proc[p].child = "reaped" => r.child = "reaped"
            /\ r.left <= proc[p].left
      /\ r.left + r.pipe + r.buf <= MaxOut
      /\ r.drain = "done" => r.child # "running" /\ r.kids = "none" /\ r.pipe = 0
      /\ r.slot = "collected" => r.child = "reaped" /\ r.drain = "done" /\ r.buf = 0
  BY <1>2, <1>1, <1>4 DEF ProcWhole, Writers
<1>. QED BY Zenon, <1>4, <1>5, <1>6, ProcOne

\* It is done when the pipe is empty and nobody can write to it.
LEMMA DoneKeeps ==
  ASSUME Types, ProcInv, NEW p \in Procs,
         proc[p].pipe = 0, ~Writers(p),
         proc' = [proc EXCEPT ![p].drain = "done"]
  PROVE  ProcKept
<1>. DEFINE r == [proc[p] EXCEPT !.drain = "done"]
<1>1. proc[p] \in ProcType /\ ProcWhole(p)
  BY DEF Types, ProcInv
<1>2. /\ r \in ProcType /\ r.slot = proc[p].slot /\ r.home = proc[p].home /\ r.child = proc[p].child
      /\ r.kids = proc[p].kids /\ r.left = proc[p].left /\ r.pipe = proc[p].pipe
      /\ r.buf = proc[p].buf /\ r.drain = "done"
  BY <1>1 DEF ProcType
<1>3. proc' = [proc EXCEPT ![p] = r]
  BY DEF Types
<1>. HIDE DEF r
<1>4. /\ proc[p].slot # "unused" =>
            /\ r.slot # "unused" /\ r.home = proc[p].home
            /\ proc[p].child = "reaped" => r.child = "reaped"
            /\ r.left <= proc[p].left
      /\ r.left + r.pipe + r.buf <= MaxOut
      /\ r.drain = "done" => r.child # "running" /\ r.kids = "none" /\ r.pipe = 0
      /\ r.slot = "collected" => r.child = "reaped" /\ r.drain = "done" /\ r.buf = 0
  BY <1>1, <1>2 DEF ProcWhole, Writers, ProcType
<1>. QED BY Zenon, <1>2, <1>3, <1>4, ProcOne

-----------------------------------------------------------------------------
(* What a thread that works on a process does to its job.                  *)

Moves(t) ==
    /\ DOMAIN job' = Threads /\ DOMAIN job'[t] = Fields
    /\ \A u \in Threads \ {t} : job'[u] = job[u]

\* Neither the mutex of a worker nor what is on a control socket is touched
Quiet(t) ==
    /\ Moves(t)
    /\ t \in Conns =>
        job[t].st \notin {"read", "reaping"} /\ job'[t].st \notin {"lock", "read", "reaping"}
    /\ t \in Workers => job[t].st # "idle" /\ job'[t].st # "idle" /\ job'[t].by = job[t].by

\* A thread takes its own table only while it writes
TableStep(t) ==
    \/ UNCHANGED tlock /\ job[t].st # "stdin"
    \/ tlock[Home(t)] = None /\ tlock' = [tlock EXCEPT ![Home(t)] = t] /\ job'[t].st = "stdin"
    \/ tlock' = [tlock EXCEPT ![Home(t)] = None]

\* The fields of Idle.
LEMMA IdleIs ==
  /\ DOMAIN Idle = Fields /\ Idle.op = "idle" /\ Idle.st = "idle" /\ Idle.p = None
  /\ Idle.w = None /\ Idle.by = None /\ Idle.sent = 0
BY DEF Idle, Fields

\* The thread goes on to its next stage.
LEMMA StepIs ==
  ASSUME Types, NEW t \in Threads, NEW op, NEW st, NEW p, NEW cap, Step(t, op, st, p, cap)
  PROVE  /\ Moves(t) /\ job'[t].st = st /\ job'[t].p = p
         /\ job'[t].by = job[t].by /\ job'[t].w = job[t].w /\ job'[t].sent = job[t].sent
<1>. DEFINE j == [job[t] EXCEPT !.op = op, !.st = st, !.p = p, !.cap = cap]
<1>1. DOMAIN job = Threads /\ DOMAIN job[t] = Fields
  BY DEF Types
<1>2. /\ DOMAIN j = Fields /\ j.st = st /\ j.p = p
      /\ j.by = job[t].by /\ j.w = job[t].w /\ j.sent = job[t].sent
  BY <1>1 DEF Fields
<1>3. job' = [job EXCEPT ![t] = j]
  BY DEF Step
<1>. HIDE DEF j
<1>. QED BY <1>1, <1>2, <1>3 DEF Moves

\* The reply of a worker is to the request it had.
LEMMA ReplyIs ==
  ASSUME NEW w, NEW p, NEW ok
  PROVE  /\ DOMAIN Reply(w, p, ok) = Fields /\ Reply(w, p, ok).st = "reply"
         /\ Reply(w, p, ok).by = job[w].by
BY IdleIs DEF Reply, Fields, Idle

\* A connection is done, a worker replies.
LEMMA EndIs ==
  ASSUME Types, NEW t \in Threads, NEW p, NEW ok,
         job' = [job EXCEPT ![t] = IF t \in Conns THEN Idle ELSE Reply(t, p, ok)]
  PROVE  /\ Moves(t) /\ job'[t].st \in {"idle", "reply"}
         /\ t \in Workers => job'[t].st = "reply" /\ job'[t].by = job[t].by
<1>1. DOMAIN job = Threads
  BY DEF Types
<1>2. CASE t \in Conns
  <2>1. job' = [job EXCEPT ![t] = Idle] /\ t \notin Workers
    BY <1>2, AgentAssumption
  <2>. QED BY <1>1, <2>1, IdleIs DEF Moves
<1>3. CASE t \notin Conns
  <2>1. job' = [job EXCEPT ![t] = Reply(t, p, ok)]
    BY <1>3
  <2>. QED BY <1>1, <2>1, ReplyIs DEF Moves
<1>. QED BY <1>2, <1>3

\* The same, as the handlers return.
LEMMA ReturnIs ==
  ASSUME Types, NEW t \in Threads, NEW ok, Return(t, ok)
  PROVE  /\ Moves(t) /\ job'[t].st \in {"idle", "reply"}
         /\ t \in Workers => job'[t].st = "reply" /\ job'[t].by = job[t].by
BY Zenon, EndIs DEF Return

\* What a step of thread t on a process keeps
Kept(t) == Quiet(t) /\ TableStep(t) /\ ProcKept /\ Uses(t)'

\* The operation begins on a connection that does nothing, or in a worker.
LEMMA CalledIs ==
  ASSUME Types, NEW t \in Threads, NEW op, NEW p, NEW cap, Called(t, op, p, cap)
  PROVE  /\ t \in Conns => job[t] = Idle /\ job[t].st = "idle" /\ job[t].sent = 0
         /\ t \in Workers => job[t].st = "op" /\ t \notin Conns
BY IdleIs, AgentAssumption DEF Called, HandleConnection

\* A handler that returns leaves its process to nobody.
LEMMA ReturnKeeps ==
  ASSUME Types, NEW t \in Threads, NEW ok, Return(t, ok), ProcKept,
         job[t].st \notin {"read", "reaping"}, t \in Workers => job[t].st # "idle",
         (UNCHANGED tlock /\ job[t].st # "stdin") \/ tlock' = [tlock EXCEPT ![Home(t)] = None]
  PROVE  Kept(t)
BY ReturnIs DEF Kept, Quiet, TableStep, Uses

\* A handler that has just been called and returns at once.
LEMMA CalledReturns ==
  ASSUME Types, NEW t \in Threads, NEW op, NEW p, NEW cap, Called(t, op, p, cap),
         NEW ok, Return(t, ok), ProcKept, UNCHANGED tlock
  PROVE  Kept(t)
<1>1. /\ job[t].st \notin {"read", "reaping", "stdin"}
      /\ t \in Workers => job[t].st # "idle"
  BY CalledIs DEF Threads
<1>. QED BY <1>1, ReturnKeeps

\* run_async: the new process goes to the table of the thread's agent.
LEMMA RunAsyncKeeps ==
  ASSUME Types, ProcInv, NEW t \in Threads, RunAsync(t)
  PROVE  Kept(t)
<1>1. Called(t, "run_async", None, FALSE) /\ UNCHANGED tlock
  BY Zenon DEF RunAsync
<1>2. ASSUME NEW p \in Procs, SpawnChild(t, p, "table"),
             job' = [job EXCEPT ![t] = IF t \in Conns THEN Idle ELSE Reply(t, p, TRUE)]
      PROVE  Kept(t)
  <2>1. ProcKept
    BY <1>2, SpawnKeeps
  <2>2. /\ Moves(t) /\ job'[t].st \in {"idle", "reply"}
        /\ t \in Workers => job'[t].st = "reply" /\ job'[t].by = job[t].by
    BY Zenon, <1>2, EndIs
  <2>3. /\ job[t].st \notin {"read", "reaping", "stdin"}
        /\ t \in Workers => job[t].st # "idle"
    BY Zenon, <1>1, CalledIs DEF Threads
  <2>. QED BY <1>1, <2>1, <2>2, <2>3 DEF Kept, Quiet, TableStep, Uses
<1>3. CASE UNCHANGED proc /\ Return(t, FALSE)
  BY Zenon, <1>1, <1>3, ProcSame, CalledReturns
<1>. QED BY Zenon, <1>2, <1>3 DEF RunAsync

\* A new stage of the handler that has just been called.
LEMMA CalledSteps ==
  ASSUME Types, NEW t \in Threads, NEW op, NEW q, NEW cap, Called(t, op, q, cap),
         NEW st \in {"recv", "reap", "signal", "stdin", "stream"}, NEW p, Step(t, op, st, p, cap)
  PROVE  /\ Quiet(t) /\ job[t].st # "stdin" /\ job'[t].st = st /\ job'[t].p = p
         /\ t \in Conns => job'[t].sent = 0
<1>1. /\ job[t].st \notin {"read", "reaping", "stdin"}
      /\ t \in Workers => job[t].st # "idle"
      /\ t \in Conns => job[t].sent = 0
  BY CalledIs DEF Threads
<1>. QED BY <1>1, StepIs DEF Quiet

\* exec: the child is the handler's own.
LEMMA ExecKeeps ==
  ASSUME Types, ProcInv, NEW t \in Threads, NEW cap, Exec(t, cap)
  PROVE  Kept(t)
<1>1. Called(t, "exec", None, cap) /\ UNCHANGED tlock
  BY DEF Exec
<1>2. ASSUME NEW p \in Procs, SpawnChild(t, p, "taken"), Step(t, "exec", "recv", p, cap)
      PROVE  Kept(t)
  <2>1. ProcKept /\ proc'[p].slot # "unused" /\ proc'[p].home = Home(t)
    BY <1>2, SpawnKeeps
  <2>2. Quiet(t) /\ job[t].st # "stdin" /\ job'[t].st = "recv" /\ job'[t].p = p
    BY <1>1, <1>2, CalledSteps
  <2>3. Uses(t)'
    BY <2>1, <2>2 DEF Uses
  <2>. QED BY <1>1, <2>1, <2>2, <2>3 DEF Kept, TableStep
<1>3. CASE UNCHANGED proc /\ Return(t, FALSE)
  BY Zenon, <1>1, <1>3, ProcSame, CalledReturns
<1>. QED BY Zenon, <1>2, <1>3 DEF Exec

\* A thread that goes on with the process it has.
LEMMA GoesOn ==
  ASSUME Types, ProcInv, NEW t \in Threads, ProcKept, UNCHANGED tlock,
         job[t].st \in {"recv", "killed", "reap"},
         NEW op, NEW st \in {"killed", "reap", "drain"}, NEW cap,
         Step(t, op, st, job[t].p, cap), st = "drain" => proc'[job[t].p].child = "reaped"
  PROVE  Kept(t)
<1>1. /\ job[t].p \in Procs
      /\ proc'[job[t].p].slot # "unused" /\ proc'[job[t].p].home = Home(t)
  BY DEF ProcInv, Uses, ProcKept, Gentle
<1>2. Moves(t) /\ job'[t].st = st /\ job'[t].p = job[t].p /\ job'[t].by = job[t].by
  BY StepIs
<1>3. Quiet(t)
  BY <1>2 DEF Quiet
<1>4. Uses(t)'
  BY <1>1, <1>2 DEF Uses
<1>. QED BY <1>3, <1>4 DEF Kept, TableStep

\* exec waits for the waiter thread, with or without a timeout.
LEMMA ExecStepKeeps ==
  ASSUME Types, ProcInv, NEW t \in Threads, ExecWaiter(t) \/ ExecTimeout(t) \/ ExecRecv(t)
  PROVE  Kept(t)
<1>. DEFINE p == job[t].p
<1>1. job[t].st \in {"recv", "killed"} /\ UNCHANGED tlock
  BY Zenon DEF ExecWaiter, ExecTimeout, ExecRecv
<1>2. p \in Procs
  BY <1>1 DEF ProcInv, Uses
<1>3. CASE ExecWaiter(t)
  <2>1. proc[p].child = "zombie" /\ proc' = [proc EXCEPT ![p].child = "reaped"] /\ UNCHANGED job
    BY <1>3 DEF ExecWaiter
  <2>2. ProcKept
    BY Zenon, <1>2, <2>1, ChildKeeps
  <2>3. Quiet(t)
    BY <1>1, <2>1 DEF Quiet, Moves, Types
  <2>4. proc'[p].slot # "unused" /\ proc'[p].home = Home(t)
    BY <1>1, <1>2, <2>2 DEF ProcInv, Uses, ProcKept, Gentle
  <2>5. Uses(t)'
    BY <1>1, <1>2, <2>1, <2>4 DEF Uses
  <2>. QED BY <1>1, <2>2, <2>3, <2>5 DEF Kept, TableStep
<1>4. CASE ExecTimeout(t)
  <2>1. KillGroup(p) /\ Step(t, "exec", "killed", p, TRUE)
    BY Zenon, <1>4 DEF ExecTimeout
  <2>2. ProcKept
    BY <1>2, <2>1, KillKeeps
  <2>. QED BY Zenon, <1>1, <2>1, <2>2, GoesOn
<1>5. CASE ExecRecv(t)
  <2>1. proc[p].child = "reaped" /\ Step(t, "exec", "drain", p, job[t].cap) /\ UNCHANGED proc
    BY <1>5 DEF ExecRecv
  <2>2. ProcKept
    BY <2>1, ProcSame
  <2>. QED BY <1>1, <2>1, <2>2, GoesOn
<1>. QED BY <1>3, <1>4, <1>5

\* wait takes the process out of the table of its own agent.
LEMMA WaitKeeps ==
  ASSUME Types, ProcInv, NEW t \in Threads, NEW p \in Procs, NEW cap, Wait(t, p, cap)
  PROVE  Kept(t)
<1>1. Called(t, "wait", p, cap) /\ UNCHANGED tlock
  BY DEF Wait
<1>2. CASE /\ Tabled(t, p)
           /\ proc' = [proc EXCEPT ![p].slot = "taken"]
           /\ Step(t, "wait", "reap", p, cap)
  <2>1. proc[p].slot = "table" /\ proc[p].home = Home(t)
    BY <1>2 DEF Tabled
  <2>2. ProcKept
    BY Zenon, <1>2, <2>1, TakeKeeps
  <2>3. Quiet(t) /\ job[t].st # "stdin" /\ job'[t].st = "reap" /\ job'[t].p = p
    BY <1>1, <1>2, CalledSteps
  <2>4. proc'[p].slot # "unused" /\ proc'[p].home = Home(t)
    BY <2>1, <2>2 DEF ProcKept, Gentle
  <2>5. Uses(t)'
    BY <2>3, <2>4 DEF Uses
  <2>. QED BY <1>1, <2>2, <2>3, <2>5 DEF Kept, TableStep
<1>3. CASE UNCHANGED proc /\ Return(t, FALSE)
  BY Zenon, <1>1, <1>3, ProcSame, CalledReturns
<1>. QED BY Zenon, <1>2, <1>3 DEF Wait

\* wait reaps the child, which a timeout may have killed.
LEMMA WaitStepKeeps ==
  ASSUME Types, ProcInv, NEW t \in Threads, WaitReap(t) \/ WaitTimeout(t)
  PROVE  Kept(t)
<1>. DEFINE p == job[t].p
<1>1. job[t].st = "reap" /\ UNCHANGED tlock
  BY Zenon DEF WaitReap, WaitTimeout
<1>2. p \in Procs
  BY <1>1 DEF ProcInv, Uses
<1>3. CASE WaitReap(t)
  <2>1. /\ proc[p].child \in {"zombie", "reaped"} /\ proc' = [proc EXCEPT ![p].child = "reaped"]
        /\ Step(t, "wait", "drain", p, job[t].cap)
    BY <1>3 DEF WaitReap
  <2>2. ProcKept
    BY Zenon, <1>2, <2>1, ChildKeeps
  <2>3. proc'[p].child = "reaped"
    BY <1>2, <2>1 DEF Types, ProcType
  <2>. QED BY Zenon, <1>1, <2>1, <2>2, <2>3, GoesOn
<1>4. CASE WaitTimeout(t)
  <2>1. KillGroup(p) /\ Step(t, "wait", "reap", p, FALSE)
    BY Zenon, <1>4 DEF WaitTimeout
  <2>2. ProcKept
    BY <1>2, <2>1, KillKeeps
  <2>. QED BY Zenon, <1>1, <2>1, <2>2, GoesOn
<1>. QED BY <1>3, <1>4

\* Collect finds a reaped child and drain threads that are done.
LEMMA CollectIsWhole ==
  ASSUME Types, ProcInv, NEW t \in Threads, Collect(t)
  PROVE  Kept(t)
<1>. DEFINE p == job[t].p
<1>1. /\ job[t].st = "drain" /\ proc[p].drain = "done" /\ UNCHANGED tlock /\ Return(t, TRUE)
      /\ proc' = [proc EXCEPT ![p].slot = "collected", ![p].buf = 0, ![p].stdin = "closed"]
  BY Zenon DEF Collect
<1>2. p \in Procs /\ proc[p].slot # "unused" /\ proc[p].child = "reaped"
  BY <1>1 DEF ProcInv, Uses
<1>3. ProcKept
  BY Zenon, <1>1, <1>2, CollectKeeps
<1>. QED BY Zenon, <1>1, <1>3, ReturnKeeps

\* kill signals a pid it read before: a reaped child stays reaped.
LEMMA SignalKeeps ==
  ASSUME Types, ProcInv, NEW t \in Threads, Signal(t)
  PROVE  Kept(t)
<1>. DEFINE p == job[t].p
<1>1. job[t].st = "signal" /\ UNCHANGED tlock /\ Return(t, TRUE)
  BY Zenon DEF Signal
<1>2. PICK c \in {"zombie", proc[p].child} :
        proc' = [proc EXCEPT ![p].child = IF @ = "running" THEN c ELSE @]
  BY Zenon DEF Signal
<1>3. CASE p \in Procs
  <2>1. PICK d \in {"running", "zombie", "reaped"} :
            /\ d = (IF proc[p].child = "running" THEN c ELSE proc[p].child)
            /\ d = "running" => proc[p].child = "running"
            /\ proc[p].child = "reaped" => d = "reaped"
    BY <1>2, <1>3 DEF Types, ProcType
  <2>2. proc' = [proc EXCEPT ![p].child = d]
    BY <1>2, <2>1
  <2>. QED BY Zenon, <1>1, <1>3, <2>1, <2>2, ChildKeeps, ReturnKeeps
<1>4. CASE p \notin Procs
  <2>1. UNCHANGED proc
    BY <1>2, <1>4 DEF Types
  <2>. QED BY Zenon, <1>1, <2>1, ProcSame, ReturnKeeps
<1>. QED BY <1>3, <1>4

\* kill and get_pid look the process up.
LEMMA KillPidKeeps ==
  ASSUME Types, ProcInv, NEW t \in Threads, NEW p \in Procs, Kill(t, p) \/ GetPid(t, p)
  PROVE  Kept(t)
<1>1. UNCHANGED proc /\ UNCHANGED tlock
  BY Zenon DEF Kill, GetPid, table
<1>2. CASE Called(t, "kill", p, FALSE) /\ Step(t, "kill", "signal", p, FALSE)
  <2>1. Quiet(t) /\ job[t].st # "stdin" /\ job'[t].st = "signal"
    BY Zenon, <1>2, CalledSteps
  <2>2. Uses(t)'
    BY <2>1 DEF Uses
  <2>. QED BY <1>1, <2>1, <2>2, ProcSame DEF Kept, TableStep
<1>3. ASSUME NEW op, Called(t, op, p, FALSE), NEW ok, Return(t, ok)
      PROVE  Kept(t)
  BY Zenon, <1>1, <1>3, ProcSame, CalledReturns
<1>. QED BY Zenon, <1>2, <1>3 DEF Kill, GetPid

\* proc_status may reap.
LEMMA StatusKeeps ==
  ASSUME Types, ProcInv, NEW t \in Threads, NEW p \in Procs, ProcStatus(t, p)
  PROVE  Kept(t)
<1>1. Called(t, "status", p, FALSE) /\ UNCHANGED tlock
  BY Zenon DEF ProcStatus
<1>2. PICK d \in {"running", "zombie", "reaped"} :
          /\ d = (IF Tabled(t, p) /\ proc[p].child = "zombie" THEN "reaped" ELSE proc[p].child)
          /\ d = "running" => proc[p].child = "running"
          /\ proc[p].child = "reaped" => d = "reaped"
  BY DEF Types, ProcType
<1>3. proc' = [proc EXCEPT ![p].child = d]
  BY <1>2 DEF ProcStatus
<1>4. ProcKept
  BY Zenon, <1>2, <1>3, ChildKeeps
<1>. QED BY Zenon, <1>1, <1>4, CalledReturns DEF ProcStatus

\* A write to stdin blocks with the table held, or is done at once.
LEMMA StdinWriteKeeps ==
  ASSUME Types, ProcInv, NEW t \in Threads, NEW p \in Procs, ProcStdinWrite(t, p)
  PROVE  Kept(t)
<1>1. Called(t, "stdin", p, FALSE) /\ tlock[Home(t)] = None
  BY Zenon DEF ProcStdinWrite
<1>2. CASE /\ tlock' = [tlock EXCEPT ![Home(t)] = t]
           /\ Step(t, "stdin", "stdin", p, FALSE) /\ UNCHANGED proc
  <2>1. Quiet(t) /\ job'[t].st = "stdin"
    BY Zenon, <1>1, <1>2, CalledSteps
  <2>2. Uses(t)'
    BY <2>1 DEF Uses
  <2>. QED BY <1>1, <1>2, <2>1, <2>2, ProcSame DEF Kept, TableStep
<1>3. CASE /\ proc' = [proc EXCEPT ![p].stdin = IF @ = "open" /\ Writers(p) THEN "full" ELSE @]
           /\ Return(t, TRUE) /\ UNCHANGED tlock
  <2>1. PICK s \in {"open", "full", "closed"} :
            s = (IF proc[p].stdin = "open" /\ Writers(p) THEN "full" ELSE proc[p].stdin)
    BY DEF Types, ProcType
  <2>2. proc' = [proc EXCEPT ![p].stdin = s]
    BY <1>3, <2>1
  <2>3. ProcKept
    BY Zenon, <2>2, StdinKeeps
  <2>. QED BY Zenon, <1>1, <1>3, <2>3, CalledReturns
<1>4. CASE Return(t, FALSE) /\ UNCHANGED table
  BY Zenon, <1>1, <1>4, ProcSame, CalledReturns DEF table
<1>. QED BY Zenon, <1>2, <1>3, <1>4 DEF ProcStdinWrite

\* The write that blocked gives the table back.
LEMMA StdinWrittenKeeps ==
  ASSUME Types, ProcInv, NEW t \in Threads, ProcStdinWritten(t)
  PROVE  Kept(t)
<1>1. /\ job[t].st = "stdin" /\ tlock' = [tlock EXCEPT ![Home(t)] = None]
      /\ Return(t, TRUE) /\ UNCHANGED proc
  BY Zenon DEF ProcStdinWritten
<1>. QED BY Zenon, <1>1, ProcSame, ReturnKeeps

\* The write end is closed.
LEMMA StdinCloseKeeps ==
  ASSUME Types, ProcInv, NEW t \in Threads, NEW p \in Procs, ProcStdinClose(t, p)
  PROVE  Kept(t)
<1>1. Called(t, "close", p, FALSE) /\ UNCHANGED tlock
  BY Zenon DEF ProcStdinClose
<1>2. PICK s \in {"open", "full", "closed"} :
          s = (IF Tabled(t, p) THEN "closed" ELSE proc[p].stdin)
  BY DEF Types, ProcType
<1>3. proc' = [proc EXCEPT ![p].stdin = s]
  BY <1>2 DEF ProcStdinClose
<1>4. ProcKept
  BY Zenon, <1>3, StdinKeeps
<1>. QED BY Zenon, <1>1, <1>4, CalledReturns DEF ProcStdinClose

\* A stream begins with nothing sent, on a process of the root agent.
LEMMA StreamKeeps ==
  ASSUME Types, ProcInv, NEW t \in Threads, NEW p \in Procs, ProcStream(t, p)
  PROVE  Kept(t)
<1>1. t \in Conns /\ Called(t, "stream", p, FALSE) /\ UNCHANGED proc /\ UNCHANGED tlock
  BY Zenon DEF ProcStream, table
<1>2. CASE Tabled(t, p) /\ Step(t, "stream", "stream", p, FALSE)
  <2>1. /\ Quiet(t) /\ job[t].st # "stdin" /\ job'[t].st = "stream" /\ job'[t].p = p
        /\ job'[t].sent = 0
    BY Zenon, <1>1, <1>2, CalledSteps
  <2>2. proc[p].left \in Nat /\ proc[p].left <= MaxOut /\ MaxOut \in Nat
    BY AgentAssumption DEF Types, ProcType, ProcInv, ProcWhole
  <2>3. Uses(t)'
    BY <1>1, <1>2, <2>1, <2>2 DEF Uses, Tabled
  <2>. QED BY <1>1, <2>1, <2>3, ProcSame DEF Kept, TableStep
<1>3. CASE Return(t, FALSE)
  BY Zenon, <1>1, <1>3, ProcSame, CalledReturns
<1>. QED BY Zenon, <1>2, <1>3 DEF ProcStream

\* What is sent is what the buffer holds, and what is still to be written was
\* never in it.
LEMMA StreamStepKeeps ==
  ASSUME Types, ProcInv, NEW t \in Threads, StreamFrame(t) \/ StreamEnd(t)
  PROVE  Kept(t)
<1>. DEFINE p == job[t].p
            j == [job[t] EXCEPT !.sent = proc[p].buf]
<1>1. job[t].st = "stream" /\ UNCHANGED proc /\ UNCHANGED tlock
  BY Zenon DEF StreamFrame, StreamEnd, table
<1>2. CASE job' = [job EXCEPT ![t] = j]
  <2>1. DOMAIN job = Threads /\ DOMAIN job[t] = Fields
    BY DEF Types
  <2>2. /\ DOMAIN j = Fields /\ j.st = "stream" /\ j.p = p /\ j.by = job[t].by
        /\ j.sent = proc[p].buf
    BY <1>1, <2>1 DEF Fields
  <2>3. Moves(t) /\ job'[t] = j
    BY <1>2, <2>1, <2>2 DEF Moves
  <2>4. p \in Procs /\ proc[p].slot # "unused" /\ proc[p].home = Home(t)
    BY <1>1 DEF ProcInv, Uses
  <2>5. proc[p].left \in Nat /\ proc[p].pipe \in Nat /\ proc[p].buf \in Nat
    BY <2>4 DEF Types, ProcType
  <2>6. proc[p].buf + proc[p].left <= MaxOut
    BY <2>4, <2>5, AgentAssumption DEF ProcInv, ProcWhole
  <2>. HIDE DEF j
  <2>7. Quiet(t)
    BY <1>1, <2>2, <2>3 DEF Quiet
  <2>8. Uses(t)'
    BY <1>1, <2>2, <2>3, <2>4, <2>5, <2>6 DEF Uses
  <2>. QED BY <1>1, <2>7, <2>8, ProcSame DEF Kept, TableStep
<1>3. ASSUME NEW ok, Return(t, ok) PROVE Kept(t)
  BY <1>1, <1>3, ProcSame, ReturnKeeps
<1>4. (\E ok : Return(t, ok)) \/ job' = [job EXCEPT ![t].sent = proc[p].buf]
  BY Zenon DEF StreamFrame, StreamEnd
<1>5. job' = [job EXCEPT ![t].sent = proc[p].buf] => job' = [job EXCEPT ![t] = j]
  OBVIOUS
<1>. QED BY <1>2, <1>3, <1>4, <1>5

\* Every step of a thread on a process.
LEMMA ThreadKeeps ==
  ASSUME Types, ProcInv, NEW t \in Threads, ProcessStep(t)
  PROVE  Kept(t)
<1>1. ASSUME NEW cap \in BOOLEAN, Exec(t, cap) \/ \E p \in Procs : Wait(t, p, cap)
      PROVE  Kept(t)
  BY <1>1, ExecKeeps, WaitKeeps
<1>2. ASSUME NEW p \in Procs, Kill(t, p) \/ GetPid(t, p) \/ ProcStatus(t, p)
      PROVE  Kept(t)
  BY <1>2, KillPidKeeps, StatusKeeps
<1>3. ASSUME NEW p \in Procs, ProcStdinWrite(t, p) \/ ProcStdinClose(t, p) \/ ProcStream(t, p)
      PROVE  Kept(t)
  BY <1>3, StdinWriteKeeps, StdinCloseKeeps, StreamKeeps
<1>4. CASE RunAsync(t) \/ ExecWaiter(t) \/ ExecTimeout(t) \/ ExecRecv(t)
  BY <1>4, RunAsyncKeeps, ExecStepKeeps
<1>5. CASE WaitReap(t) \/ WaitTimeout(t) \/ Collect(t) \/ Signal(t)
  BY <1>5, WaitStepKeeps, CollectIsWhole, SignalKeeps
<1>6. CASE ProcStdinWritten(t) \/ StreamFrame(t) \/ StreamEnd(t)
  BY <1>6, StdinWrittenKeeps, StreamStepKeeps
<1>. QED BY <1>1, <1>2, <1>3, <1>4, <1>5, <1>6 DEF ProcessStep

-----------------------------------------------------------------------------
(* From the thread that moves to the whole invariant.                      *)

\* Threads that do not move keep their process.
LEMMA OthersUse ==
  ASSUME Types, ProcInv, ProcKept, NEW u \in Threads, job'[u] = job[u]
  PROVE  Uses(u)'
<1>1. Uses(u)
  BY DEF ProcInv
<1>2. job[u].st \in {"recv", "killed", "reap", "drain", "stream"} =>
        /\ proc'[job[u].p].slot # "unused" /\ proc'[job[u].p].home = Home(u)
        /\ proc[job[u].p].child = "reaped" => proc'[job[u].p].child = "reaped"
        /\ proc'[job[u].p].left <= proc[job[u].p].left
        /\ proc'[job[u].p].left \in Nat /\ proc[job[u].p].left \in Nat
  BY <1>1 DEF ProcKept, Gentle, Uses, Types, ProcType
<1>3. job[u].st = "stream" =>
        job[u].sent \in Nat /\ job[u].sent + proc'[job[u].p].left <= MaxOut
  BY <1>1, <1>2, AgentAssumption DEF Uses
<1>. QED BY <1>1, <1>2, <1>3 DEF Uses

\* The table's lock is with a thread that writes.
LEMMA TableKeeps ==
  ASSUME Types, TableInv, NEW t \in Threads, Moves(t), TableStep(t)
  PROVE  TableInv' /\ DOMAIN tlock' = Homes
<1>1. Home(t) \in Homes /\ DOMAIN tlock = Homes
  BY DEF Types, Home, Homes
<1>2. CASE UNCHANGED tlock /\ job[t].st # "stdin"
  BY <1>1, <1>2 DEF TableInv, Moves
<1>3. CASE tlock' = [tlock EXCEPT ![Home(t)] = t] /\ job'[t].st = "stdin"
  <2>1. ASSUME NEW h \in Homes, tlock'[h] # None
        PROVE  tlock'[h] \in Threads /\ Home(tlock'[h]) = h /\ job'[tlock'[h]].st = "stdin"
    <3>1. CASE h = Home(t)
      BY <1>1, <1>3, <3>1
    <3>2. CASE h # Home(t)
      <4>1. tlock'[h] = tlock[h]
        BY <1>1, <1>3, <3>2
      <4>2. tlock[h] \in Threads /\ Home(tlock[h]) = h /\ job[tlock[h]].st = "stdin"
        BY <2>1, <4>1 DEF TableInv
      <4>. QED BY <3>2, <4>1, <4>2 DEF Moves
    <3>. QED BY <3>1, <3>2
  <2>. QED BY <1>1, <1>3, <2>1 DEF TableInv
<1>4. CASE tlock' = [tlock EXCEPT ![Home(t)] = None]
  <2>1. ASSUME NEW h \in Homes, tlock'[h] # None
        PROVE  tlock'[h] \in Threads /\ Home(tlock'[h]) = h /\ job'[tlock'[h]].st = "stdin"
    <3>1. h # Home(t) /\ tlock'[h] = tlock[h]
      BY <1>1, <1>4, <2>1
    <3>2. tlock[h] \in Threads /\ Home(tlock[h]) = h /\ job[tlock[h]].st = "stdin"
      BY <2>1, <3>1 DEF TableInv
    <3>. QED BY <3>1, <3>2 DEF Moves
  <2>. QED BY <1>1, <1>4, <2>1 DEF TableInv
<1>. QED BY <1>2, <1>3, <1>4 DEF TableStep

\* A thread that works on a process leaves the control sockets as they are.
LEMMA QuietKeeps ==
  ASSUME Types, RelayInv, NEW t \in Threads, Quiet(t), UNCHANGED workers
  PROVE  RelayInv'
<1>1. UNCHANGED <<registry, worker, wlock, request, answer>>
  BY DEF workers
<1>2. \A u \in Threads \ {t} : job'[u] = job[u]
  BY DEF Quiet, Moves
<1>3. ASSUME NEW w \in Workers PROVE Holder(w)' /\ OneAtATime(w)' /\ DeadIsIdle(w)'
  <2>1. Holder(w) /\ OneAtATime(w) /\ DeadIsIdle(w) /\ w \in Threads
    BY DEF RelayInv, Threads
  <2>2. wlock[w] # None => job'[wlock[w]] = job[wlock[w]]
    BY <1>2, <2>1, AgentAssumption DEF Holder, Quiet, Threads
  <2>3. Holder(w)'
    BY <1>1, <2>1, <2>2 DEF Holder
  <2>4. CASE t # w
    <3>1. job'[w] = job[w]
      BY <1>2, <2>1, <2>4
    <3>. QED BY <1>1, <2>1, <2>2, <2>3, <3>1, AgentAssumption DEF OneAtATime, Owned, DeadIsIdle
  <2>5. CASE t = w
    <3>1. job[w].st # "idle" /\ job'[w].st # "idle" /\ job'[w].by = job[w].by
      BY <2>5 DEF Quiet
    <3>2. job[w] # Idle
      BY <3>1, IdleIs
    <3>3. request[w] = Idle /\ Owned(job[w], w) /\ answer[w] = Idle /\ worker[w].state = "live"
      BY <2>1, <3>2 DEF OneAtATime, DeadIsIdle
    <3>4. Owned(job[w], w)'
      BY <1>1, <2>2, <3>1, <3>3, AgentAssumption DEF Owned
    <3>. QED BY <1>1, <2>3, <3>1, <3>3, <3>4 DEF OneAtATime, DeadIsIdle
  <2>. QED BY <2>4, <2>5
<1>4. ASSUME NEW c \in Conns PROVE Handler(c)'
  <2>1. Handler(c) /\ c \in Threads
    BY DEF RelayInv, Threads
  <2>2. CASE t = c
    BY <2>2 DEF Quiet, Handler
  <2>3. CASE t # c
    <3>1. job'[c] = job[c]
      BY <1>2, <2>1, <2>3
    <3>2. job[c].w \in Workers => job'[job[c].w].by = job[job[c].w].by
      BY <1>2 DEF Quiet, Threads
    <3>. QED BY <1>1, <2>1, <3>1, <3>2 DEF Handler
  <2>. QED BY <2>2, <2>3
<1>5. \A w \in registry' : worker'[w].state # "unused"
  BY <1>1 DEF RelayInv
<1>. QED BY <1>3, <1>4, <1>5 DEF RelayInv

\* A handler that queues, or stops to queue, for a mutex changes nothing else.
LEMMA QueueKeeps ==
  ASSUME Types, RelayInv, NEW c \in Conns, Moves(c),
         job[c].st \notin {"read", "reaping"}, job'[c].st \notin {"read", "reaping"},
         job'[c].st = "lock" => job'[c].w \in Workers /\ worker[job'[c].w].state # "unused",
         registry' \subseteq registry, UNCHANGED <<worker, wlock, request, answer>>
  PROVE  RelayInv'
<1>1. \A u \in Threads \ {c} : job'[u] = job[u]
  BY DEF Moves
<1>2. ASSUME NEW w \in Workers PROVE Holder(w)' /\ OneAtATime(w)' /\ DeadIsIdle(w)'
  <2>1. Holder(w) /\ OneAtATime(w) /\ DeadIsIdle(w)
    BY DEF RelayInv
  <2>2. wlock[w] # None => job'[wlock[w]] = job[wlock[w]]
    BY <1>1, <2>1 DEF Holder, Threads
  <2>3. job'[w] = job[w]
    BY <1>1, AgentAssumption DEF Threads
  <2>. QED BY <2>1, <2>2, <2>3, AgentAssumption DEF Holder, OneAtATime, Owned, DeadIsIdle
<1>3. ASSUME NEW d \in Conns PROVE Handler(d)'
  <2>1. Handler(d) /\ d \in Threads
    BY DEF RelayInv, Threads
  <2>2. CASE d = c
    BY <2>2 DEF Handler
  <2>3. CASE d # c
    <3>1. job'[d] = job[d]
      BY <1>1, <2>1, <2>3
    <3>2. job[d].w \in Workers => job'[job[d].w] = job[job[d].w]
      BY <1>1, AgentAssumption DEF Threads
    <3>. QED BY <2>1, <3>1, <3>2 DEF Handler
  <2>. QED BY <2>2, <2>3
<1>4. \A w \in registry' : worker'[w].state # "unused"
  BY DEF RelayInv
<1>. QED BY <1>2, <1>3, <1>4 DEF RelayInv

\* A step at worker w: it is enough to look at w, at the handlers that move
\* and at the one that holds its mutex.
LEMMA AtWorker ==
  ASSUME Types, RelayInv, NEW w \in Workers, NEW C \in SUBSET Conns,
         \A u \in Threads \ (C \cup {w}) : job'[u] = job[u],
         \A v \in Workers \ {w} :
            /\ wlock'[v] = wlock[v] /\ wlock[v] \notin C /\ worker'[v] = worker[v]
            /\ request'[v] = request[v] /\ answer'[v] = answer[v],
         Holder(w)', OneAtATime(w)', DeadIsIdle(w)',
         \A d \in Conns : d \in C \/ wlock[w] = d => Handler(d)',
         registry' \subseteq registry \cup {w}, worker'[w].state # "unused"
  PROVE  RelayInv'
<1>1. ASSUME NEW v \in Workers \ {w} PROVE Holder(v)' /\ OneAtATime(v)' /\ DeadIsIdle(v)'
  <2>1. Holder(v) /\ OneAtATime(v) /\ DeadIsIdle(v)
    BY Zenon DEF RelayInv
  <2>2. wlock[v] # None => job'[wlock[v]] = job[wlock[v]]
    BY <2>1, AgentAssumption DEF Holder, Threads
  <2>3. job'[v] = job[v]
    BY Zenon, AgentAssumption DEF Threads
  <2>. QED BY <2>1, <2>2, <2>3, AgentAssumption DEF Holder, OneAtATime, Owned, DeadIsIdle
<1>2. ASSUME NEW d \in Conns, ~(d \in C \/ wlock[w] = d) PROVE Handler(d)'
  <2>1. Handler(d)
    BY DEF RelayInv
  <2>2. job'[d] = job[d]
    BY <1>2, AgentAssumption DEF Threads
  <2>3. CASE job[d].st \notin {"lock", "read", "reaping"}
    BY <2>2, <2>3 DEF Handler
  <2>4. CASE job[d].w = w /\ job[d].st = "lock"
    BY Zenon, <2>2, <2>4 DEF Handler
  <2>5. CASE job[d].w # w /\ job[d].st \in {"lock", "read", "reaping"}
    <3>1. job[d].w \in Workers \ {w} /\ job'[job[d].w] = job[job[d].w]
      BY Zenon, <2>1, <2>5, AgentAssumption DEF Handler, Threads
    <3>. QED BY <2>1, <2>2, <2>5, <3>1 DEF Handler
  <2>6. ~(job[d].w = w /\ job[d].st \in {"read", "reaping"})
    BY Zenon, <1>2, <2>1 DEF Handler
  <2>. QED BY <2>3, <2>4, <2>5, <2>6
<1>3. \A v \in registry' : worker'[v].state # "unused"
  BY DEF RelayInv, Types
<1>. QED BY Zenon, <1>1, <1>2, <1>3 DEF RelayInv

\* A step that touches neither a process nor a table.
LEMMA OutsideKeeps ==
  ASSUME Types, ProcInv, TableInv, NEW t \in Threads, Moves(t), UNCHANGED table,
         job[t].st # "stdin",
         job'[t].st \notin {"recv", "killed", "reap", "drain", "stream"}
  PROVE  ProcInv' /\ TableInv' /\ proc' \in [Procs -> ProcType] /\ DOMAIN tlock' = Homes
<1>1. UNCHANGED proc /\ UNCHANGED tlock
  BY DEF table
<1>2. ProcKept
  BY <1>1, ProcSame
<1>3. Uses(t)'
  BY DEF Uses
<1>4. \A u \in Threads : Uses(u)'
  BY <1>2, <1>3, OthersUse DEF Moves
<1>5. TableInv' /\ DOMAIN tlock' = Homes
  BY <1>1, TableKeeps DEF TableStep
<1>. QED BY <1>2, <1>4, <1>5 DEF ProcInv, ProcKept

\* The types of the jobs when one of them moves.
LEMMA MovesTyped ==
  ASSUME Types, NEW t \in Threads, Moves(t)
  PROVE  DOMAIN job' = Threads /\ \A u \in Threads : DOMAIN job'[u] = Fields
BY DEF Types, Moves

\* A step of a thread on a process keeps the invariant.
LEMMA ThreadStep ==
  ASSUME IInv, NEW t \in Threads, ProcessStep(t), UNCHANGED workers
  PROVE  IInv'
<1>1. Kept(t)
  BY ThreadKeeps DEF IInv
<1>2. Moves(t)
  BY <1>1 DEF Kept, Quiet
<1>3. ProcInv'
  BY <1>1, <1>2, OthersUse DEF IInv, ProcInv, Kept, ProcKept, Moves
<1>4. TableInv' /\ DOMAIN tlock' = Homes
  BY <1>1, <1>2, TableKeeps DEF IInv, Kept
<1>5. RelayInv'
  BY <1>1, QuietKeeps DEF IInv, Kept
<1>6. Types'
  BY <1>1, <1>2, <1>4, MovesTyped DEF IInv, Types, Kept, ProcKept, workers
<1>. QED BY <1>3, <1>4, <1>5, <1>6 DEF IInv

\* A step of a child, of a descendant or of a drain thread.
LEMMA GuestKeeps ==
  ASSUME Types, ProcInv, NEW p \in Procs, GuestStep(p) \/ DrainInto(p)
  PROVE  ProcKept /\ UNCHANGED <<job, tlock>>
<1>1. UNCHANGED <<job, tlock>>
  BY DEF GuestStep, DrainInto, ChildExits, Forks, DescendantExits, Writes, ReadsStdin
<1>2. ChildExits(p) => ProcKept
  BY Zenon, ChildKeeps DEF ChildExits
<1>3. Forks(p) \/ DescendantExits(p) => ProcKept
  BY ForkKeeps DEF Forks, DescendantExits
<1>4. Writes(p) => ProcKept
  BY Zenon, WriteKeeps DEF Writes
<1>5. ReadsStdin(p) => ProcKept
  BY Zenon, StdinKeeps DEF ReadsStdin
<1>6. DrainInto(p) => ProcKept
  BY DrainKeeps, DoneKeeps DEF DrainInto
<1>. QED BY <1>1, <1>2, <1>3, <1>4, <1>5, <1>6 DEF GuestStep

\* They keep the whole invariant: no job and no lock changes.
LEMMA GuestKeepsAll ==
  ASSUME IInv, NEW p \in Procs, GuestStep(p) \/ DrainInto(p), UNCHANGED workers
  PROVE  IInv'
<1>1. ProcKept /\ UNCHANGED <<job, tlock>> /\ UNCHANGED <<registry, worker, wlock, request, answer>>
  BY GuestKeeps DEF IInv, workers
<1>2. ProcInv'
  BY <1>1, OthersUse DEF IInv, ProcInv, ProcKept
<1>3. TableInv'
  BY <1>1 DEF IInv, TableInv
<1>4. RelayInv'
  BY <1>1 DEF IInv, RelayInv, Holder, OneAtATime, Owned, DeadIsIdle, Handler
<1>5. Types'
  BY Zenon, <1>1 DEF IInv, Types, ProcKept
<1>. QED BY <1>2, <1>3, <1>4, <1>5 DEF IInv

-----------------------------------------------------------------------------
(* The handlers that talk to workers.                                      *)

\* A handler that queues for a mutex, or is told that there is none.
LEMMA QueueStep ==
  ASSUME IInv, NEW c \in Conns, Moves(c), UNCHANGED table,
         job[c].st \in {"idle", "lock"}, job'[c].st \in {"idle", "lock"},
         job'[c].st = "lock" => job'[c].w \in Workers /\ worker[job'[c].w].state # "unused",
         registry' \subseteq registry, UNCHANGED <<worker, wlock, request, answer>>
  PROVE  IInv'
<1>1. c \in Threads
  BY Zenon DEF Threads
<1>2. ProcInv' /\ TableInv' /\ proc' \in [Procs -> ProcType] /\ DOMAIN tlock' = Homes
  BY Zenon, <1>1, OutsideKeeps DEF IInv
<1>3. RelayInv'
  BY QueueKeeps DEF IInv
<1>4. Types'
  BY Zenon, <1>1, <1>2, MovesTyped DEF IInv, Types
<1>. QED BY <1>2, <1>3, <1>4 DEF IInv

\* The handler of a connection returns.
LEMMA ConnReturns ==
  ASSUME Types, NEW c \in Conns, NEW ok, Return(c, ok)
  PROVE  Moves(c) /\ job'[c] = Idle
<1>1. c \in Threads /\ DOMAIN job = Threads
  BY DEF Types, Threads
<1>2. job' = [job EXCEPT ![c] = Idle]
  BY DEF Return
<1>. QED BY <1>1, <1>2, IdleIs DEF Moves

\* It begins to queue.
LEMMA ConnQueues ==
  ASSUME Types, NEW c \in Conns, NEW j,
         job' = [job EXCEPT ![c] = j], DOMAIN j = Fields
  PROVE  Moves(c) /\ job'[c] = j
BY DEF Types, Moves, Threads

\* An operation on a worker that is registered, and so was spawned.
LEMMA WorkerOpStep ==
  ASSUME IInv, NEW c \in Conns, NEW w \in Workers, NEW op, NEW cap, WorkerOp(c, w, op, cap)
  PROVE  IInv'
<1>. DEFINE j == [job[c] EXCEPT !.op = op, !.st = "lock", !.w = w, !.cap = cap]
<1>1. /\ job[c] = Idle /\ w \in registry /\ job' = [job EXCEPT ![c] = j]
      /\ UNCHANGED table /\ UNCHANGED <<registry, worker, wlock, request, answer>>
  BY DEF WorkerOp, HandleConnection, workers
<1>2. DOMAIN j = Fields /\ j.st = "lock" /\ j.w = w
  BY <1>1, IdleIs DEF Fields
<1>. HIDE DEF j
<1>3. Moves(c) /\ job'[c] = j
  BY Zenon, <1>1, <1>2, ConnQueues DEF IInv
<1>4. job[c].st = "idle" /\ worker[w].state # "unused"
  BY <1>1, IdleIs DEF IInv, RelayInv
<1>. QED BY <1>1, <1>2, <1>3, <1>4, QueueStep

\* An operation on a process of a worker, registered or not.
LEMMA RelayProcessOpStep ==
  ASSUME IInv, NEW c \in Conns, NEW p \in Procs, NEW op, NEW cap, RelayProcessOp(c, p, op, cap)
  PROVE  IInv'
<1>. DEFINE w == proc[p].home
            j == [job[c] EXCEPT !.op = op, !.st = "lock", !.p = p, !.w = w, !.cap = cap]
<1>1. job[c] = Idle /\ UNCHANGED table /\ UNCHANGED <<registry, worker, wlock, request, answer>>
  BY DEF RelayProcessOp, HandleConnection, workers
<1>2. job[c].st = "idle"
  BY Zenon, <1>1, IdleIs
<1>3. CASE w \in registry /\ job' = [job EXCEPT ![c] = j]
  <2>1. DOMAIN j = Fields /\ j.st = "lock" /\ j.w = w
    BY <1>1, IdleIs DEF Fields
  <2>2. w \in Workers /\ worker[w].state # "unused"
    BY <1>3 DEF IInv, RelayInv, Types
  <2>. HIDE DEF j, w
  <2>3. Moves(c) /\ job'[c] = j
    BY Zenon, <1>3, <2>1, ConnQueues DEF IInv
  <2>. QED BY <1>1, <1>2, <2>1, <2>2, <2>3, QueueStep
<1>4. CASE Return(c, FALSE)
  <2>1. Moves(c) /\ job'[c].st = "idle"
    BY Zenon, <1>4, ConnReturns, IdleIs DEF IInv
  <2>. QED BY <1>1, <1>2, <2>1, QueueStep
<1>. QED BY Zenon, <1>3, <1>4 DEF RelayProcessOp

\* A join takes the worker out of the registry and queues.
LEMMA WorkerJoinStep ==
  ASSUME IInv, NEW c \in Conns, NEW w \in Workers, WorkerJoin(c, w)
  PROVE  IInv'
<1>. DEFINE j == [job[c] EXCEPT !.op = "join", !.st = "lock", !.w = w]
<1>1. /\ job[c] = Idle /\ w \in registry /\ job' = [job EXCEPT ![c] = j]
      /\ UNCHANGED table /\ UNCHANGED <<worker, wlock, request, answer>>
      /\ registry' \subseteq registry
  BY DEF WorkerJoin, HandleConnection
<1>2. DOMAIN j = Fields /\ j.st = "lock" /\ j.w = w
  BY <1>1, IdleIs DEF Fields
<1>. HIDE DEF j
<1>3. Moves(c) /\ job'[c] = j
  BY Zenon, <1>1, <1>2, ConnQueues DEF IInv
<1>4. job[c].st = "idle" /\ worker[w].state # "unused"
  BY <1>1, IdleIs DEF IInv, RelayInv
<1>. QED BY <1>1, <1>2, <1>3, <1>4, QueueStep

\* Nobody holds the mutex: nothing is under way.
LEMMA FreeWorker ==
  ASSUME RelayInv, NEW w \in Workers, wlock[w] = None
  PROVE  request[w] = Idle /\ job[w] = Idle /\ answer[w] = Idle
<1>1. OneAtATime(w) /\ wlock[w] \notin Conns
  BY AgentAssumption DEF RelayInv
<1>. QED BY <1>1 DEF OneAtATime, Owned

\* A handler holds the mutex of the one worker it reads from or reaps.
LEMMA HoldsOne ==
  ASSUME RelayInv, NEW c \in Conns, NEW v \in Workers, wlock[v] = c
  PROVE  job[c].st \in {"read", "reaping"} /\ job[c].w = v
BY AgentAssumption DEF RelayInv, Holder

SocketTypes ==
    /\ DOMAIN worker = Workers /\ \A w \in Workers : DOMAIN worker[w] = {"state", "sock", "async"}
    /\ DOMAIN wlock = Workers
    /\ DOMAIN request = Workers /\ \A w \in Workers : DOMAIN request[w] = Fields
    /\ DOMAIN answer = Workers /\ \A w \in Workers : DOMAIN answer[w] = Fields

\* A step of handler c at worker w, whose mutex nobody else holds.
LEMMA AtHandler ==
  ASSUME IInv, NEW c \in Conns, NEW w \in Workers, Moves(c), UNCHANGED table,
         job[c].st # "stdin", job'[c].st \in {"idle", "lock", "read", "reaping"},
         job[c].st \in {"read", "reaping"} => job[c].w = w,
         wlock[w] \in {None, c}, SocketTypes', registry' \subseteq registry \cup {w},
         \A v \in Workers \ {w} :
            /\ wlock'[v] = wlock[v] /\ worker'[v] = worker[v]
            /\ request'[v] = request[v] /\ answer'[v] = answer[v],
         Holder(w)', OneAtATime(w)', DeadIsIdle(w)', Handler(c)', worker'[w].state # "unused"
  PROVE  IInv'
<1>1. c \in Threads
  BY Zenon DEF Threads
<1>2. ProcInv' /\ TableInv' /\ proc' \in [Procs -> ProcType] /\ DOMAIN tlock' = Homes
  BY Zenon, <1>1, OutsideKeeps DEF IInv
<1>3. \A v \in Workers \ {w} : wlock[v] \notin {c}
  BY HoldsOne DEF IInv
<1>4. \A d \in Conns : d \in {c} \/ wlock[w] = d => Handler(d)'
  BY Zenon, AgentAssumption
<1>5. \A u \in Threads \ ({c} \cup {w}) : job'[u] = job[u]
  BY Zenon DEF Moves
<1>6. {c} \in SUBSET Conns
  OBVIOUS
<1>7. RelayInv'
  BY Zenon, <1>3, <1>4, <1>5, <1>6, AtWorker DEF IInv
<1>8. registry' \subseteq Workers
  BY DEF IInv, Types
<1>9. Types'
  BY Zenon, <1>1, <1>2, <1>8, MovesTyped DEF IInv, Types, SocketTypes
<1>. QED BY Zenon, <1>2, <1>7, <1>9 DEF IInv

\* A new worker: nobody has its handle yet.
LEMMA SpawnStep ==
  ASSUME IInv, NEW c \in Conns, NEW w \in Workers, Spawn(c, w)
  PROVE  IInv'
<1>1. /\ job[c] = Idle /\ worker[w].state = "unused" /\ Return(c, TRUE)
      /\ worker' = [worker EXCEPT ![w].state = "live"] /\ registry' = registry \cup {w}
      /\ UNCHANGED table /\ UNCHANGED <<wlock, request, answer>>
  BY Zenon DEF Spawn, HandleConnection
<1>2. Moves(c) /\ job'[c] = Idle
  BY Zenon, <1>1, ConnReturns DEF IInv
<1>3. wlock[w] = None
  <2>1. ASSUME wlock[w] # None PROVE FALSE
    <3>1. wlock[w] \in Conns /\ job[wlock[w]].st \in {"read", "reaping"} /\ job[wlock[w]].w = w
      BY <2>1 DEF IInv, RelayInv, Holder
    <3>2. Handler(wlock[w])
      BY <3>1 DEF IInv, RelayInv
    <3>. QED BY <1>1, <3>1, <3>2 DEF Handler
  <2>. QED BY <2>1
<1>4. request[w] = Idle /\ job[w] = Idle /\ answer[w] = Idle
  BY <1>3, FreeWorker DEF IInv
<1>5. job'[w] = Idle
  BY <1>2, <1>4, AgentAssumption DEF Moves, Threads
<1>6. /\ worker'[w].state = "live" /\ \A v \in Workers \ {w} : worker'[v] = worker[v]
      /\ SocketTypes'
  BY <1>1 DEF IInv, Types, SocketTypes
<1>7. Holder(w)' /\ OneAtATime(w)' /\ DeadIsIdle(w)' /\ Handler(c)'
  BY <1>1, <1>2, <1>3, <1>4, <1>5, <1>6, IdleIs DEF Holder, OneAtATime, DeadIsIdle, Handler
<1>. QED BY <1>1, <1>2, <1>3, <1>6, <1>7, IdleIs, AtHandler

\* What the handler keeps of its request.
LEMMA SentIs ==
  ASSUME NEW j, DOMAIN j = Fields
  PROVE  DOMAIN Sent(j) = Fields /\ Sent(j).st = "read" /\ Sent(j).w = j.w
<1>1. CASE j.op \in {"poll", "collect"}
  BY <1>1 DEF Sent, Fields
<1>2. CASE j.op \notin {"poll", "collect"} /\ j.op = "run_async"
  BY Zenon, <1>2 DEF Sent, Fields, Idle
<1>3. CASE j.op \notin {"poll", "collect"} /\ j.op # "run_async"
  BY <1>3 DEF Sent, Fields, Idle
<1>. QED BY <1>1, <1>2, <1>3

\* The request goes to a worker that has nothing else to do.
LEMMA RelayStep ==
  ASSUME IInv, NEW c \in Conns, Relay(c)
  PROVE  IInv'
<1>1. job[c].st = "lock" /\ UNCHANGED table /\ UNCHANGED <<registry, worker, answer>>
  BY DEF Relay
<1>2. PICK w \in Workers : w = job[c].w /\ worker[w].state # "unused"
  BY <1>1 DEF IInv, RelayInv, Handler
<1>3. wlock[w] = None /\ c \in Threads
  BY <1>2 DEF Relay, Threads
<1>. DEFINE r == [job[c] EXCEPT !.st = "op", !.by = c]
<1>4. CASE /\ worker[w].state = "live"
           /\ wlock' = [wlock EXCEPT ![w] = c]
           /\ request' = [request EXCEPT ![w] = r]
           /\ job' = [job EXCEPT ![c] = Sent(@)]
  <2>1. DOMAIN job[c] = Fields
    BY <1>3 DEF IInv, Types
  <2>2. DOMAIN r = Fields /\ r.st = "op" /\ r.by = c
    BY <2>1 DEF Fields
  <2>. HIDE DEF r
  <2>3. Moves(c) /\ job'[c] = Sent(job[c])
    BY Zenon, <1>4, <2>1, SentIs, ConnQueues DEF IInv
  <2>4. job'[c].st = "read" /\ job'[c].w = w
    BY <1>2, <2>1, <2>3, SentIs
  <2>5. job[w] = Idle /\ answer[w] = Idle
    BY <1>3, FreeWorker DEF IInv
  <2>6. job'[w] = Idle
    BY Zenon, <2>3, <2>5, AgentAssumption DEF Moves, Threads
  <2>7. /\ SocketTypes' /\ wlock'[w] = c /\ request'[w] = r
        /\ \A v \in Workers \ {w} : wlock'[v] = wlock[v] /\ request'[v] = request[v]
    BY Zenon, <1>1, <1>4, <2>2 DEF IInv, Types, SocketTypes
  <2>8. Holder(w)' /\ DeadIsIdle(w)' /\ Handler(c)'
    BY Zenon, <1>1, <1>2, <1>4, <2>2, <2>4, <2>7 DEF Holder, DeadIsIdle, Handler
  <2>9. OneAtATime(w)'
    BY Zenon, <1>1, <2>2, <2>4, <2>5, <2>6, <2>7 DEF OneAtATime, Owned
  <2>. QED BY Zenon, <1>1, <1>2, <1>3, <2>3, <2>4, <2>7, <2>8, <2>9, AtHandler
<1>5. CASE Return(c, FALSE) /\ UNCHANGED <<wlock, request>>
  <2>1. Moves(c) /\ job'[c].st = "idle"
    BY Zenon, <1>5, ConnReturns, IdleIs DEF IInv
  <2>. QED BY <1>1, <1>5, <2>1, QueueStep
<1>. QED BY Zenon, <1>2, <1>4, <1>5 DEF Relay

\* The handler that reads or reaps lets the mutex go.
LEMMA UnlockIs ==
  ASSUME IInv, NEW c \in Conns, NEW w \in Workers, w = job[c].w,
         job[c].st \in {"read", "reaping"}, Unlock(c)
  PROVE  /\ wlock[w] = c /\ wlock'[w] = None /\ DOMAIN wlock' = Workers
         /\ \A v \in Workers \ {w} : wlock'[v] = wlock[v]
BY Zenon DEF IInv, RelayInv, Handler, Unlock, Types

\* When it has read its answer, or the worker is dead, nothing is left behind.
LEMMA LetGo ==
  ASSUME IInv, NEW c \in Conns, NEW w \in Workers, w = job[c].w,
         job[c].st \in {"read", "reaping"}, Unlock(c), Moves(c), UNCHANGED table,
         job'[c].st \in {"idle", "lock"}, job'[c].st = "lock" => job'[c].w = w,
         request[w] = Idle, job[w] = Idle, answer'[w] = Idle, UNCHANGED <<registry, request>>,
         SocketTypes', worker'[w].state # "unused",
         \A v \in Workers \ {w} : worker'[v] = worker[v] /\ answer'[v] = answer[v]
  PROVE  IInv'
<1>1. /\ wlock[w] = c /\ wlock'[w] = None /\ \A v \in Workers \ {w} : wlock'[v] = wlock[v]
  BY Zenon, UnlockIs
<1>2. job'[w] = Idle
  BY Zenon, AgentAssumption DEF Moves, Threads
<1>3. Holder(w)' /\ OneAtATime(w)' /\ DeadIsIdle(w)' /\ Handler(c)'
  BY Zenon, <1>1, <1>2 DEF Holder, OneAtATime, DeadIsIdle, Handler
<1>. QED BY Zenon, <1>1, <1>3, AtHandler

\* The answer that was read was the handler's own, and the only thing there.
LEMMA RelayReturnsStep ==
  ASSUME IInv, NEW c \in Conns, RelayReturns(c)
  PROVE  IInv'
<1>1. /\ job[c].st = "read" /\ answer[job[c].w] # Idle /\ Unlock(c)
      /\ answer' = [answer EXCEPT ![job[c].w] = Idle]
      /\ UNCHANGED table /\ UNCHANGED <<registry, worker, request>>
  BY Zenon DEF RelayReturns
<1>2. PICK w \in Workers : w = job[c].w /\ worker[w].state # "unused"
  BY <1>1 DEF IInv, RelayInv, Handler
<1>3. OneAtATime(w) /\ c \in Threads
  BY Zenon DEF IInv, RelayInv, Threads
<1>4. request[w] = Idle /\ job[w] = Idle
  BY Zenon, <1>1, <1>2, <1>3 DEF OneAtATime
<1>5. /\ answer'[w] = Idle /\ \A v \in Workers \ {w} : answer'[v] = answer[v]
      /\ DOMAIN answer' = Workers /\ \A v \in Workers : DOMAIN answer'[v] = Fields
  BY Zenon, <1>1, <1>2, IdleIs DEF IInv, Types
<1>6. SocketTypes'
  BY Zenon, <1>1, <1>2, <1>5, UnlockIs DEF IInv, Types, SocketTypes
<1>7. DOMAIN job[c] = Fields
  BY <1>3 DEF IInv, Types
<1>8. ASSUME NEW j, job' = [job EXCEPT ![c] = j], DOMAIN j = Fields, j.st = "lock", j.w = w
      PROVE  IInv'
  <2>1. Moves(c) /\ job'[c] = j
    BY Zenon, <1>8, ConnQueues DEF IInv
  <2>. QED BY Zenon, <1>1, <1>2, <1>4, <1>5, <1>6, <1>8, <2>1, LetGo
<1>9. CASE AfterPoll(c, answer[w].ok)
  <2>. DEFINE j1 == [job[c] EXCEPT !.op = "collect", !.st = "lock", !.cap = FALSE]
              j2 == [job[c] EXCEPT !.st = "lock"]
              j3 == [job[c] EXCEPT !.op = "collect", !.st = "lock"]
  <2>1. DOMAIN j1 = Fields /\ j1.st = "lock" /\ j1.w = w
    BY <1>2, <1>7 DEF Fields
  <2>2. DOMAIN j2 = Fields /\ j2.st = "lock" /\ j2.w = w
    BY <1>2, <1>7 DEF Fields
  <2>3. DOMAIN j3 = Fields /\ j3.st = "lock" /\ j3.w = w
    BY <1>2, <1>7 DEF Fields
  <2>4. \/ job' = [job EXCEPT ![c] = j1]
        \/ job' = [job EXCEPT ![c] = j2]
        \/ job' = [job EXCEPT ![c] = j3]
    BY <1>9 DEF AfterPoll
  <2>. HIDE DEF j1, j2, j3
  <2>. QED BY <1>8, <2>1, <2>2, <2>3, <2>4
<1>10. CASE Return(c, answer[w].ok)
  <2>1. Moves(c) /\ job'[c].st = "idle"
    BY Zenon, <1>10, ConnReturns, IdleIs DEF IInv
  <2>. QED BY Zenon, <1>1, <1>2, <1>4, <1>5, <1>6, <2>1, LetGo
<1>. QED BY <1>2, <1>9, <1>10 DEF RelayReturns

\* The worker is dead: neither a request nor a job is left behind.
LEMMA RelayFailsStep ==
  ASSUME IInv, NEW c \in Conns, RelayFails(c)
  PROVE  IInv'
<1>1. /\ job[c].st = "read" /\ answer[job[c].w] = Idle /\ worker[job[c].w].state # "live"
      /\ Unlock(c) /\ Return(c, FALSE)
      /\ UNCHANGED table /\ UNCHANGED <<registry, worker, request, answer>>
  BY Zenon DEF RelayFails
<1>2. PICK w \in Workers : w = job[c].w /\ worker[w].state # "unused"
  BY Zenon, <1>1 DEF IInv, RelayInv, Handler
<1>3. request[w] = Idle /\ job[w] = Idle
  BY <1>1, <1>2 DEF IInv, RelayInv, DeadIsIdle
<1>4. Moves(c) /\ job'[c].st = "idle"
  BY Zenon, <1>1, ConnReturns, IdleIs DEF IInv
<1>5. SocketTypes'
  BY Zenon, <1>1, <1>2, UnlockIs DEF IInv, Types, SocketTypes
<1>. QED BY Zenon, <1>1, <1>2, <1>3, <1>4, <1>5, LetGo

\* Whoever reaps has shut the socket.
LEMMA ReapWorkerStep ==
  ASSUME IInv, NEW c \in Conns, ReapWorker(c)
  PROVE  IInv'
<1>1. /\ job[c].st = "lock" /\ UNCHANGED table /\ UNCHANGED <<registry, request, answer>>
      /\ job' = [job EXCEPT ![c].st = "reaping"]
  BY DEF ReapWorker
<1>2. PICK w \in Workers : w = job[c].w /\ worker[w].state # "unused"
  BY <1>1 DEF IInv, RelayInv, Handler
<1>3. /\ wlock[w] = None /\ c \in Threads /\ wlock' = [wlock EXCEPT ![w] = c]
      /\ worker' = [worker EXCEPT ![w].sock = "shut"]
  BY <1>2 DEF ReapWorker, Threads
<1>4. DOMAIN job[c] = Fields
  BY <1>3 DEF IInv, Types
<1>. DEFINE j == [job[c] EXCEPT !.st = "reaping"]
<1>5. DOMAIN j = Fields /\ j.st = "reaping" /\ j.w = w
  BY <1>2, <1>4 DEF Fields
<1>6. job' = [job EXCEPT ![c] = j]
  BY <1>1
<1>. HIDE DEF j
<1>7. Moves(c) /\ job'[c] = j
  BY Zenon, <1>5, <1>6, ConnQueues DEF IInv
<1>8. request[w] = Idle /\ job[w] = Idle /\ answer[w] = Idle
  BY <1>3, FreeWorker DEF IInv
<1>9. job'[w] = Idle
  BY <1>7, <1>8, AgentAssumption DEF Moves, Threads
<1>10. /\ SocketTypes' /\ wlock'[w] = c /\ worker'[w].sock = "shut"
       /\ worker'[w].state = worker[w].state
       /\ \A v \in Workers \ {w} : wlock'[v] = wlock[v] /\ worker'[v] = worker[v]
  BY <1>1, <1>3 DEF IInv, Types, SocketTypes
<1>11. Holder(w)' /\ OneAtATime(w)' /\ DeadIsIdle(w)' /\ Handler(c)'
  BY <1>1, <1>2, <1>5, <1>7, <1>8, <1>9, <1>10 DEF Holder, OneAtATime, DeadIsIdle, Handler
<1>. QED BY <1>1, <1>2, <1>3, <1>5, <1>7, <1>10, <1>11, AtHandler

\* The worker has exited and nothing is on its socket.
LEMMA WorkerReapedStep ==
  ASSUME IInv, NEW c \in Conns, WorkerReaped(c)
  PROVE  IInv'
<1>1. /\ job[c].st = "reaping" /\ worker[job[c].w].state = "exited" /\ Unlock(c) /\ Return(c, TRUE)
      /\ worker' = [worker EXCEPT ![job[c].w].state = "reaped"]
      /\ UNCHANGED table /\ UNCHANGED <<registry, request, answer>>
  BY Zenon DEF WorkerReaped
<1>2. PICK w \in Workers : w = job[c].w
  BY <1>1 DEF IInv, RelayInv, Handler
<1>3. OneAtATime(w) /\ wlock[w] = c
  BY <1>1, <1>2, UnlockIs DEF IInv, RelayInv
<1>4. request[w] = Idle /\ job[w] = Idle /\ answer[w] = Idle
  BY <1>1, <1>3 DEF OneAtATime, Owned
<1>5. Moves(c) /\ job'[c].st = "idle"
  BY Zenon, <1>1, ConnReturns, IdleIs DEF IInv
<1>6. /\ SocketTypes' /\ worker'[w].state = "reaped"
      /\ \A v \in Workers \ {w} : worker'[v] = worker[v]
  BY <1>1, <1>2, UnlockIs DEF IInv, Types, SocketTypes
<1>. QED BY <1>1, <1>2, <1>4, <1>5, <1>6, LetGo

-----------------------------------------------------------------------------
(* The end of a worker.                                                    *)

\* Its processes are nobody's, its table is free, and the handler that reads
\* from it will read the end of the file.
LEMMA GoneStep ==
  ASSUME IInv, NEW w \in Workers, worker[w].state = "live", Gone(w),
         NEW C \in SUBSET Conns, \A c \in C : job[c].st = "lock" /\ job'[c] = Idle,
         DOMAIN job' = Threads, job'[w] = Idle,
         \A u \in Threads \ (C \cup {w}) : job'[u] = job[u],
         UNCHANGED <<registry, wlock, answer>>
  PROVE  IInv'
<1>1. /\ worker' = [worker EXCEPT ![w].state = "exited", ![w].async = "none"]
      /\ request' = [request EXCEPT ![w] = Idle]
      /\ tlock' = [tlock EXCEPT ![w] = None]
      /\ proc' = [p \in Procs |-> IF proc[p].home = w
                                  THEN [Unused EXCEPT !.slot = "lost", !.home = w] ELSE proc[p]]
  BY DEF Gone
<1>2. \A u \in Threads \ {w} : Home(u) # w
  BY AgentAssumption DEF Home
<1>3. ASSUME NEW p \in Procs
      PROVE  /\ proc'[p] \in ProcType /\ ProcWhole(p)'
             /\ proc[p].home # w => proc'[p] = proc[p]
  <2>1. CASE proc[p].home # w
    <3>1. proc'[p] = proc[p] /\ proc[p] \in ProcType /\ ProcWhole(p)
      BY Zenon, <1>1, <2>1 DEF IInv, Types, ProcInv
    <3>. QED BY <3>1 DEF ProcWhole, Writers
  <2>2. CASE proc[p].home = w
    <3>. DEFINE r == [Unused EXCEPT !.slot = "lost", !.home = w]
    <3>1. MaxOut \in Nat /\ w \in Homes
      BY AgentAssumption DEF Homes
    <3>2. /\ r \in ProcType /\ r.slot = "lost" /\ r.left = MaxOut /\ r.pipe = 0 /\ r.buf = 0
          /\ r.drain = "reading"
      BY Zenon, <3>1 DEF Unused, ProcType
    <3>3. proc'[p] = r
      BY <1>1, <2>2
    <3>. HIDE DEF r
    <3>. QED BY <2>2, <3>1, <3>2, <3>3 DEF ProcWhole
  <2>. QED BY Zenon, <2>1, <2>2
<1>4. proc' \in [Procs -> ProcType]
  BY Zenon, <1>1, <1>3
<1>5. ASSUME NEW u \in Threads PROVE Uses(u)'
  <2>1. CASE u \in C \cup {w}
    BY Zenon, <2>1, IdleIs DEF Uses
  <2>2. CASE u \notin C \cup {w}
    <3>1. job'[u] = job[u] /\ Uses(u) /\ Home(u) # w
      BY <1>2, <2>2 DEF IInv, ProcInv
    <3>. QED BY Zenon, <1>3, <3>1 DEF Uses
  <2>. QED BY <2>1, <2>2
<1>6. ProcInv'
  BY <1>3, <1>5 DEF ProcInv
<1>7. TableInv' /\ DOMAIN tlock' = Homes
  <2>1. DOMAIN tlock = Homes /\ w \in Homes
    BY DEF IInv, Types, Homes
  <2>2. ASSUME NEW h \in Homes, tlock'[h] # None
        PROVE  tlock'[h] \in Threads /\ Home(tlock'[h]) = h /\ job'[tlock'[h]].st = "stdin"
    <3>1. h # w /\ tlock'[h] = tlock[h]
      BY Zenon, <1>1, <2>1, <2>2
    <3>2. tlock[h] \in Threads /\ Home(tlock[h]) = h /\ job[tlock[h]].st = "stdin"
      BY Zenon, <2>2, <3>1 DEF IInv, TableInv
    <3>3. tlock[h] # w
      BY <3>1, <3>2 DEF Home
    <3>. QED BY <3>1, <3>2, <3>3
  <2>. QED BY Zenon, <1>1, <2>1, <2>2 DEF TableInv
<1>8. /\ SocketTypes' /\ worker'[w].state = "exited" /\ worker'[w].sock = worker[w].sock
      /\ request'[w] = Idle
      /\ \A v \in Workers \ {w} : worker'[v] = worker[v] /\ request'[v] = request[v]
  BY <1>1, IdleIs DEF IInv, Types, SocketTypes
<1>9. \A v \in Workers : wlock[v] \notin C
  BY Zenon, HoldsOne DEF IInv
<1>10. wlock[w] # None => wlock[w] \in Conns /\ job'[wlock[w]] = job[wlock[w]]
  BY <1>9, AgentAssumption DEF IInv, RelayInv, Holder, Threads
<1>11. Holder(w)' /\ DeadIsIdle(w)'
  <2>1. Holder(w)
    BY Zenon DEF IInv, RelayInv
  <2>. QED BY Zenon, <1>8, <1>10, <2>1 DEF Holder, DeadIsIdle
<1>12. OneAtATime(w)'
  <2>1. OneAtATime(w)
    BY Zenon DEF IInv, RelayInv
  <2>2. answer[w] = Idle \/ Owned(answer[w], w)
    BY <2>1 DEF OneAtATime
  <2>3. Owned(answer[w], w) => Owned(answer[w], w)'
    BY <1>10, AgentAssumption DEF Owned
  <2>. QED BY <1>8, <2>2, <2>3 DEF OneAtATime
<1>13. ASSUME NEW d \in Conns, d \in C \/ wlock[w] = d PROVE Handler(d)'
  <2>1. CASE d \in C
    BY Zenon, <2>1, IdleIs DEF Handler
  <2>2. CASE wlock[w] = d /\ d \notin C
    <3>1. job'[d] = job[d] /\ job[d].w = w /\ Handler(d)
      BY Zenon, <1>10, <2>2, HoldsOne, AgentAssumption DEF IInv, RelayInv
    <3>. QED BY Zenon, <1>8, <2>2, <3>1 DEF Handler
  <2>. QED BY Zenon, <1>13, <2>1, <2>2
<1>14. RelayInv'
  BY Zenon, <1>8, <1>9, <1>11, <1>12, <1>13, AtWorker DEF IInv
<1>15. \A u \in Threads : DOMAIN job'[u] = Fields
  BY Zenon, IdleIs DEF IInv, Types, Threads
<1>16. Types'
  BY <1>4, <1>7, <1>8, <1>15 DEF IInv, Types, SocketTypes
<1>. QED BY <1>6, <1>7, <1>14, <1>16 DEF IInv

\* The signal kills the worker, or is handled.
LEMMA WorkerKillStep ==
  ASSUME IInv, NEW c \in Conns, WorkerKill(c)
  PROVE  IInv'
<1>1. job[c].st = "lock" /\ UNCHANGED <<registry, wlock, answer>>
  BY DEF WorkerKill
<1>2. PICK w \in Workers : w = job[c].w
  BY Zenon, <1>1 DEF IInv, RelayInv, Handler
<1>3. CASE worker[w].state = "live" /\ Gone(w) /\ job' = [job EXCEPT ![c] = Idle, ![w] = Idle]
  <2>1. DOMAIN job = Threads /\ c \in Threads /\ w \in Threads /\ {c} \in SUBSET Conns
    BY DEF IInv, Types, Threads
  <2>2. /\ DOMAIN job' = Threads /\ job'[w] = Idle /\ job'[c] = Idle
        /\ \A u \in Threads \ ({c} \cup {w}) : job'[u] = job[u]
    BY <1>3, <2>1
  <2>3. \A d \in {c} : job[d].st = "lock" /\ job'[d] = Idle
    BY <1>1, <2>2
  <2>. QED BY Zenon, <1>1, <1>3, <2>1, <2>2, <2>3, GoneStep
<1>4. CASE Return(c, TRUE) /\ UNCHANGED <<proc, tlock, worker, request>>
  <2>1. Moves(c) /\ job'[c].st = "idle"
    BY Zenon, <1>4, ConnReturns, IdleIs DEF IInv
  <2>. QED BY Zenon, <1>1, <1>4, <2>1, QueueStep DEF table
<1>. QED BY Zenon, <1>2, <1>3, <1>4 DEF WorkerKill

\* The worker ends of itself, or because its socket was shut.
LEMMA WorkerEndStep ==
  ASSUME IInv, NEW w \in Workers, ServeEof(w) \/ WorkerDies(w)
  PROVE  IInv'
<1>1. worker[w].state = "live" /\ Gone(w) /\ UNCHANGED <<registry, wlock, answer>>
  BY Zenon DEF ServeEof, WorkerDies, Serving
<1>2. /\ DOMAIN job' = Threads /\ job'[w] = Idle /\ {} \in SUBSET Conns
      /\ \A u \in Threads \ ({} \cup {w}) : job'[u] = job[u]
  BY DEF IInv, Types, Threads, ServeEof, WorkerDies
<1>. QED BY Zenon, <1>1, <1>2, GoneStep

-----------------------------------------------------------------------------
(* The worker that serves.                                                 *)

\* A step of worker w at its end of the control socket.
LEMMA AtServer ==
  ASSUME IInv, NEW w \in Workers, Moves(w), UNCHANGED table, UNCHANGED <<registry, wlock>>,
         job[w].st # "stdin", job'[w].st \in {"idle", "op", "reply"},
         worker[w].state = "live", worker'[w].state = "live", worker'[w].sock = worker[w].sock,
         SocketTypes', OneAtATime(w)',
         \A v \in Workers \ {w} :
            worker'[v] = worker[v] /\ request'[v] = request[v] /\ answer'[v] = answer[v],
         wlock[w] \in Conns /\ job[wlock[w]].st = "read" =>
            \/ request'[w].by = wlock[w] \/ job'[w].by = wlock[w] \/ answer'[w].by = wlock[w]
  PROVE  IInv'
<1>1. w \in Threads /\ {} \in SUBSET Conns
  BY DEF Threads
<1>2. ProcInv' /\ TableInv' /\ proc' \in [Procs -> ProcType] /\ DOMAIN tlock' = Homes
  BY Zenon, <1>1, OutsideKeeps DEF IInv
<1>3. wlock[w] # None => wlock[w] \in Conns /\ job'[wlock[w]] = job[wlock[w]]
  BY Zenon, AgentAssumption DEF IInv, RelayInv, Holder, Moves, Threads
<1>4. Holder(w)' /\ DeadIsIdle(w)'
  BY <1>3 DEF IInv, RelayInv, Holder, DeadIsIdle
<1>5. ASSUME NEW d \in Conns, d \in {} \/ wlock[w] = d PROVE Handler(d)'
  <2>1. job'[d] = job[d] /\ job[d].w = w /\ Handler(d)
    BY <1>3, <1>5, HoldsOne, AgentAssumption DEF IInv, RelayInv
  <2>. QED BY Zenon, <1>5, <2>1 DEF Handler
<1>6. \A u \in Threads \ ({} \cup {w}) : job'[u] = job[u]
  BY Zenon DEF Moves
<1>7. RelayInv'
  BY Zenon, <1>1, <1>4, <1>5, <1>6, AtWorker DEF IInv
<1>8. Types'
  BY Zenon, <1>1, <1>2, MovesTyped DEF IInv, Types, SocketTypes
<1>. QED BY Zenon, <1>2, <1>7, <1>8 DEF IInv

\* The request is the holder's.
LEMMA ServeRequestStep ==
  ASSUME IInv, NEW w \in Workers, ServeRequest(w)
  PROVE  IInv'
<1>. DEFINE r == request[w]
            j == [r EXCEPT !.op = ServedAs(@), !.cap = @ /\ r.op # "poll"]
<1>1. /\ worker[w].state = "live" /\ job[w] = Idle /\ r # Idle
      /\ job' = [job EXCEPT ![w] = j] /\ request' = [request EXCEPT ![w] = Idle]
      /\ UNCHANGED table /\ UNCHANGED <<registry, worker, wlock, answer>>
  BY DEF ServeRequest, Serving
<1>2. DOMAIN r = Fields /\ w \in Threads
  BY Zenon DEF IInv, Types, Threads
<1>3. r.st = "op" /\ Owned(r, w) /\ answer[w] = Idle
  BY <1>1 DEF IInv, RelayInv, OneAtATime
<1>4. DOMAIN j = Fields /\ j.st = "op" /\ j.by = r.by
  BY Zenon, <1>2, <1>3 DEF Fields
<1>. HIDE DEF j
<1>5. Moves(w) /\ job'[w] = j
  BY Zenon, <1>1, <1>2, <1>4 DEF IInv, Types, Moves
<1>6. SocketTypes' /\ request'[w] = Idle /\ \A v \in Workers \ {w} : request'[v] = request[v]
  BY Zenon, <1>1, IdleIs DEF IInv, Types, SocketTypes
<1>7. wlock[w] \in Conns /\ job'[wlock[w]] = job[wlock[w]]
  BY Zenon, <1>3, <1>5, AgentAssumption DEF Owned, Moves, Threads
<1>8. OneAtATime(w)'
  BY <1>1, <1>3, <1>4, <1>5, <1>6, <1>7 DEF OneAtATime, Owned
<1>9. job'[w].by = wlock[w]
  BY <1>3, <1>4, <1>5 DEF Owned
<1>. QED BY Zenon, <1>1, <1>4, <1>5, <1>6, <1>8, <1>9, IdleIs, AtServer

\* What it does goes on until there is a reply.
LEMMA ServeStays ==
  ASSUME IInv, NEW w \in Workers, worker[w].state = "live", NEW op, Called(w, op, None, FALSE),
         NEW ok, Return(w, ok), UNCHANGED table, UNCHANGED <<registry, wlock, request, answer>>,
         DOMAIN worker' = Workers, \A v \in Workers \ {w} : worker'[v] = worker[v],
         DOMAIN worker'[w] = {"state", "sock", "async"},
         worker'[w].state = "live", worker'[w].sock = worker[w].sock
  PROVE  IInv'
<1>1. w \in Threads /\ job[w].st = "op"
  BY Zenon, CalledIs DEF IInv, Threads
<1>2. Moves(w) /\ job'[w].st = "reply" /\ job'[w].by = job[w].by
  BY Zenon, <1>1, ReturnIs DEF IInv
<1>3. request[w] = Idle /\ Owned(job[w], w) /\ answer[w] = Idle
  BY <1>1, IdleIs DEF IInv, RelayInv, OneAtATime
<1>4. wlock[w] \in Conns /\ job'[wlock[w]] = job[wlock[w]]
  BY Zenon, <1>2, <1>3, AgentAssumption DEF Owned, Moves, Threads
<1>5. OneAtATime(w)'
  BY Zenon, <1>2, <1>3, <1>4 DEF OneAtATime, Owned
<1>6. job'[w].by = wlock[w]
  BY Zenon, <1>2, <1>3 DEF Owned
<1>7. SocketTypes'
  BY DEF IInv, Types, SocketTypes
<1>. QED BY Zenon, <1>1, <1>2, <1>5, <1>6, <1>7, AtServer

\* Only the syscall under way changes.
LEMMA AsyncIs ==
  ASSUME IInv, NEW w \in Workers, NEW a, worker' = [worker EXCEPT ![w].async = a]
  PROVE  /\ DOMAIN worker' = Workers /\ \A v \in Workers \ {w} : worker'[v] = worker[v]
         /\ DOMAIN worker'[w] = {"state", "sock", "async"}
         /\ worker'[w].state = worker[w].state /\ worker'[w].sock = worker[w].sock
<1>1. DOMAIN worker = Workers /\ DOMAIN worker[w] = {"state", "sock", "async"}
  BY DEF IInv, Types
<1>. QED BY <1>1

\* The operations of the serve loop itself.
LEMMA ServeCallStep ==
  ASSUME IInv, NEW w \in Workers, ServeSyscall(w) \/ ServeBegin(w) \/ ServeAwait(w)
  PROVE  IInv'
<1>1. worker[w].state = "live" /\ UNCHANGED table /\ UNCHANGED <<registry, wlock, request, answer>>
  BY Zenon DEF ServeSyscall, ServeBegin, ServeAwait, Serving, workers
<1>2. CASE ServeSyscall(w)
  <2>1. UNCHANGED worker /\ Called(w, "syscall", None, FALSE) /\ Return(w, TRUE)
    BY Zenon, <1>2 DEF ServeSyscall, workers
  <2>2. DOMAIN worker = Workers /\ DOMAIN worker[w] = {"state", "sock", "async"}
    BY DEF IInv, Types
  <2>. QED BY Zenon, <1>1, <2>1, <2>2, ServeStays
<1>3. CASE ServeBegin(w)
  <2>. DEFINE a == IF worker[w].async = "none" THEN "running" ELSE worker[w].async
  <2>1. worker' = [worker EXCEPT ![w].async = a] /\ Called(w, "begin", None, FALSE) /\ Return(w, TRUE)
    BY Zenon, <1>3 DEF ServeBegin
  <2>. HIDE DEF a
  <2>. QED BY Zenon, <1>1, <2>1, AsyncIs, ServeStays
<1>4. CASE ServeAwait(w)
  <2>1. /\ worker' = [worker EXCEPT ![w].async = "none"] /\ Called(w, "await", None, FALSE)
        /\ Return(w, worker[w].async = "done")
    BY Zenon, <1>4 DEF ServeAwait
  <2>. QED BY Zenon, <1>1, <2>1, AsyncIs, ServeStays
<1>. QED BY <1>2, <1>3, <1>4

\* A syscall that was begun ends.
LEMMA SyscallReturnsStep ==
  ASSUME IInv, NEW w \in Workers, SyscallReturns(w)
  PROVE  IInv'
<1>1. /\ UNCHANGED job /\ UNCHANGED table /\ UNCHANGED <<registry, wlock, request, answer>>
      /\ worker' = [worker EXCEPT ![w].async = "done"]
  BY DEF SyscallReturns
<1>2. /\ DOMAIN worker' = Workers /\ \A v \in Workers : DOMAIN worker'[v] = {"state", "sock", "async"}
      /\ \A v \in Workers : worker'[v].state = worker[v].state /\ worker'[v].sock = worker[v].sock
  BY Zenon, <1>1, AsyncIs DEF IInv, Types
<1>3. Types' /\ ProcInv' /\ TableInv'
  BY <1>1, <1>2 DEF IInv, Types, ProcInv, ProcWhole, Writers, Uses, TableInv, table
<1>4. \A v \in Workers : Holder(v)' /\ OneAtATime(v)' /\ DeadIsIdle(v)'
  BY <1>1, <1>2 DEF IInv, RelayInv, Holder, OneAtATime, Owned, DeadIsIdle
<1>5. \A c \in Conns : Handler(c)'
  BY <1>1, <1>2 DEF IInv, RelayInv, Handler
<1>6. \A v \in registry' : worker'[v].state # "unused"
  BY Zenon, <1>1, <1>2 DEF IInv, RelayInv, Types
<1>. QED BY <1>3, <1>4, <1>5, <1>6 DEF IInv, RelayInv

\* The reply goes to the holder of the mutex.
LEMMA ServeReplyStep ==
  ASSUME IInv, NEW w \in Workers, ServeReply(w)
  PROVE  IInv'
<1>1. /\ worker[w].state = "live" /\ job[w].st = "reply"
      /\ answer' = [answer EXCEPT ![w] = job[w]] /\ job' = [job EXCEPT ![w] = Idle]
      /\ UNCHANGED table /\ UNCHANGED <<registry, worker, wlock, request>>
  BY DEF ServeReply, Serving
<1>2. w \in Threads /\ DOMAIN job[w] = Fields
  BY Zenon DEF IInv, Types, Threads
<1>3. request[w] = Idle /\ Owned(job[w], w)
  BY Zenon, <1>1, IdleIs DEF IInv, RelayInv, OneAtATime
<1>4. Moves(w) /\ job'[w] = Idle
  BY Zenon, <1>1, <1>2, IdleIs DEF IInv, Types, Moves
<1>5. SocketTypes' /\ answer'[w] = job[w] /\ \A v \in Workers \ {w} : answer'[v] = answer[v]
  BY Zenon, <1>1, <1>2 DEF IInv, Types, SocketTypes
<1>6. wlock[w] \in Conns /\ job'[wlock[w]] = job[wlock[w]]
  BY Zenon, <1>3, <1>4, AgentAssumption DEF Owned, Moves, Threads
<1>7. OneAtATime(w)'
  BY <1>1, <1>3, <1>4, <1>5, <1>6 DEF OneAtATime, Owned
<1>8. answer'[w].by = wlock[w]
  BY <1>3, <1>5 DEF Owned
<1>. QED BY Zenon, <1>1, <1>4, <1>5, <1>7, <1>8, IdleIs, AtServer

-----------------------------------------------------------------------------
(* The theorems.                                                           *)

\* Before the first connection nothing is under way.
LEMMA IInvInit == Init => IInv
<1>. SUFFICES ASSUME Init PROVE IInv
  OBVIOUS
<1>1. Unused \in ProcType
  BY AgentAssumption DEF Unused, ProcType, Homes
<1>2. DOMAIN NoWorker = {"state", "sock", "async"}
  BY Zenon DEF NoWorker
<1>3. Types
  BY <1>1, <1>2, IdleIs DEF Init, Types, Homes
<1>4. ProcInv
  <2>1. ASSUME NEW p \in Procs PROVE ProcWhole(p)
    BY AgentAssumption DEF Init, ProcWhole, Unused
  <2>2. ASSUME NEW t \in Threads PROVE Uses(t)
    BY IdleIs DEF Init, Uses
  <2>. QED BY Zenon, <2>1, <2>2 DEF ProcInv
<1>5. TableInv
  BY DEF Init, TableInv, Homes
<1>6. RelayInv
  <2>1. ASSUME NEW w \in Workers PROVE Holder(w) /\ OneAtATime(w) /\ DeadIsIdle(w)
    BY DEF Init, Holder, OneAtATime, DeadIsIdle, Threads
  <2>2. ASSUME NEW c \in Conns PROVE Handler(c)
    BY IdleIs DEF Init, Handler, Threads
  <2>. QED BY <2>1, <2>2 DEF RelayInv, Init
<1>. QED BY <1>3, <1>4, <1>5, <1>6 DEF IInv

\* Every step of the agent, its workers and its processes keeps the invariant.
LEMMA IInvStep == IInv /\ [Next]_vars => IInv'
<1>. SUFFICES ASSUME IInv, [Next]_vars PROVE IInv'
  OBVIOUS
<1>1. ASSUME NEW t \in Threads, ProcessStep(t), UNCHANGED workers PROVE IInv'
  BY <1>1, ThreadStep
<1>2. ASSUME NEW p \in Procs, GuestStep(p) \/ DrainInto(p), UNCHANGED workers PROVE IInv'
  BY <1>2, GuestKeepsAll
<1>3. ASSUME NEW c \in Conns, ConnStep(c) PROVE IInv'
  <2>1. CASE Relay(c) \/ RelayReturns(c) \/ RelayFails(c)
    BY <2>1, RelayStep, RelayReturnsStep, RelayFailsStep
  <2>2. CASE WorkerKill(c) \/ ReapWorker(c) \/ WorkerReaped(c)
    BY <2>2, WorkerKillStep, ReapWorkerStep, WorkerReapedStep
  <2>3. ASSUME NEW w \in Workers, Spawn(c, w) \/ WorkerJoin(c, w) PROVE IInv'
    BY <2>3, SpawnStep, WorkerJoinStep
  <2>4. ASSUME NEW w \in Workers, NEW op \in WorkerOps, WorkerOp(c, w, op, FALSE) PROVE IInv'
    BY Zenon, <2>4, WorkerOpStep
  <2>5. ASSUME NEW w \in Workers, WorkerOp(c, w, "exec", TRUE) PROVE IInv'
    BY Zenon, <2>5, WorkerOpStep
  <2>6. ASSUME NEW p \in Procs, NEW op \in ProcessOps, RelayProcessOp(c, p, op, FALSE) PROVE IInv'
    BY Zenon, <2>6, RelayProcessOpStep
  <2>7. ASSUME NEW p \in Procs, RelayProcessOp(c, p, "poll", TRUE) PROVE IInv'
    BY Zenon, <2>7, RelayProcessOpStep
  <2>. QED BY Zenon, <1>3, <2>1, <2>2, <2>3, <2>4, <2>5, <2>6, <2>7 DEF ConnStep
<1>4. ASSUME NEW w \in Workers, ServeStep(w) \/ SyscallReturns(w) \/ WorkerDies(w) PROVE IInv'
  BY <1>4, ServeRequestStep, ServeCallStep, ServeReplyStep, SyscallReturnsStep, WorkerEndStep
     DEF ServeStep
<1>5. CASE UNCHANGED vars
  <2>1. /\ UNCHANGED <<job, proc, tlock>> /\ UNCHANGED <<registry, worker, wlock, request, answer>>
    BY <1>5 DEF vars
  <2>2. Types' /\ ProcInv' /\ TableInv'
    BY Zenon, <2>1 DEF IInv, Types, ProcInv, ProcWhole, Writers, Uses, TableInv
  <2>3. RelayInv'
    BY Zenon, <2>1 DEF IInv, RelayInv, Holder, OneAtATime, Owned, DeadIsIdle, Handler
  <2>. QED BY <2>2, <2>3 DEF IInv
<1>. QED BY <1>1, <1>2, <1>3, <1>4, <1>5 DEF Next

\* The inductive invariant holds.
LEMMA IInvHolds == Spec => []IInv
BY IInvInit, IInvStep, PTL DEF Spec

\* wait and exec answer with all the output of a reaped child, whatever a
\* timeout, a kill, a status query or a descendant does meanwhile.
THEOREM WaitHolds == Spec => []WaitIsWhole
<1>1. IInv => WaitIsWhole
  BY Zenon DEF IInv, ProcInv, ProcWhole, WaitIsWhole
<1>. QED BY Zenon, <1>1, IInvHolds, PTL

\* A handler never reads the reply to another handler's request, however many
\* connections relay to however many workers.
THEOREM AnswerHolds == Spec => []AnswerIsOwn
<1>1. ASSUME IInv, NEW c \in Conns, job[c].st = "read", answer[job[c].w] # Idle
      PROVE  answer[job[c].w].by = c
  <2>1. PICK w \in Workers : w = job[c].w /\ wlock[w] = c
    BY <1>1 DEF IInv, RelayInv, Handler
  <2>2. OneAtATime(w)
    BY <1>1 DEF IInv, RelayInv
  <2>. QED BY Zenon, <1>1, <2>1, <2>2 DEF OneAtATime, Owned
<1>2. IInv => AnswerIsOwn
  BY Zenon, <1>1 DEF AnswerIsOwn
<1>. QED BY <1>2, IInvHolds, PTL

\* A stream sends no chunk twice, for any amount of output.
THEOREM StreamHolds == Spec => []StreamSendsOnce
<1>1. IInv => StreamSendsOnce
  BY Zenon DEF IInv, ProcInv, Uses, StreamSendsOnce, Threads
<1>. QED BY <1>1, IInvHolds, PTL

\* No handler waits for a mutex, an answer, an exit or a table that nothing
\* under way will give it.
THEOREM NoStuckHolds == Spec => []NoStuckWait
<1>1. ASSUME IInv, NEW w \in Workers, wlock[w] # None
      PROVE  job[wlock[w]].st \in {"read", "reaping"}
  BY <1>1 DEF IInv, RelayInv, Holder
<1>2. ASSUME IInv, NEW h \in Workers \cup {Root}, tlock[h] # None PROVE job[tlock[h]].st = "stdin"
  BY Zenon, <1>2 DEF IInv, TableInv, Homes
<1>3. ASSUME IInv, NEW c \in Conns PROVE Handler(c)
  BY <1>3 DEF IInv, RelayInv
<1>4. IInv => NoStuckWait
  BY Zenon, <1>1, <1>2, <1>3 DEF NoStuckWait, Handler
<1>. QED BY <1>4, IInvHolds, PTL
=============================================================================
