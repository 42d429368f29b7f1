--------------------------- MODULE AgentProcesses ---------------------------
(***************************************************************************)
(* The processes an agent runs for the host (ops/process.rs, ops/exec.rs,  *)
(* ops/stream.rs and the process table of state.rs).  Every connection has *)
(* a thread of its own, and so does every worker, which is an agent with a *)
(* process table of its own; Home names the table a thread works on.       *)
(*                                                                         *)
(* A child may fork a descendant that keeps its pipes open, inside the     *)
(* child's process group or out of it.  Output is counted in chunks: in    *)
(* the pipe, in the buffer of the drain thread, and still to be written.   *)
(* One pipe stands for stdout and stderr.  Clocks are not modelled: where  *)
(* the caller gave a timeout it may strike at any moment.                  *)
(***************************************************************************)
EXTENDS Naturals, FiniteSets

CONSTANTS
    Conns,      \* connections the agent serves, a handler thread each
    Workers,    \* handles of workers
    Procs,      \* handles of processes
    MaxOut,     \* chunks a process writes
    Root, None

ASSUME AgentAssumption ==
    /\ MaxOut \in Nat
    /\ Conns \cap Workers = {}
    /\ Root \notin Workers
    /\ None \notin Conns \cup Workers \cup Procs

Threads == Conns \cup Workers
Home(t) == IF t \in Workers THEN t ELSE Root

VARIABLES
    job,        \* what each thread is doing
    proc,       \* the processes, in whatever table they are
    tlock,      \* who sits on a process table: Home -> thread or None
    mapped      \* worker_processes: handles that stand for a worker's process

table == <<proc, tlock>>

Idle == [op |-> "idle", st |-> "idle", p |-> None, w |-> None, cap |-> FALSE,
         ok |-> FALSE, by |-> None, sent |-> 0]

Unused == [slot |-> "unused", home |-> Root, child |-> "running", kids |-> "none",
           stdin |-> "open", left |-> MaxOut, pipe |-> 0, buf |-> 0, drain |-> "reading"]

\* handle_connection: a thread per accept, a Hello that names this version,
\* and then one operation; with any other Hello there is none
HandleConnection(c) == job[c] = Idle

\* A connection may ask for anything, a worker does what it was sent
Called(t, op, p, cap) ==
    IF t \in Conns THEN HandleConnection(t)
    ELSE job[t].st = "op" /\ job[t].op = op /\ job[t].p = p /\ job[t].cap = cap

Step(t, op, st, p, cap) ==
    job' = [job EXCEPT ![t] = [@ EXCEPT !.op = op, !.st = st, !.p = p, !.cap = cap]]

Reply(w, p, ok) == [Idle EXCEPT !.st = "reply", !.by = job[w].by, !.p = p, !.ok = ok]

\* The handler returns: the thread of a connection ends, a worker replies
Return(t, ok) ==
    job' = [job EXCEPT ![t] =
                IF t \in Conns THEN Idle ELSE Reply(t, None, ok)]

\* The handle is in the table of the thread's agent
Tabled(t, p) == proc[p].slot = "table" /\ proc[p].home = Home(t)

\* The handle stands for a process of a worker: the operation is relayed
Relayed(t, p) == t \in Conns /\ p \in mapped

\* It was given out, and names nothing any more
Unknown(t, p) == ~Tabled(t, p) /\ ~Relayed(t, p) /\ proc[p].slot # "unused"

\* Somebody still holds the writing ends of the pipes
Writers(p) == proc[p].child = "running" \/ proc[p].kids # "none"

-----------------------------------------------------------------------------
(* run_async and exec                                                       *)

\* spawn with pipes and a process group of its own; it may fail
SpawnChild(t, p, slot) ==
    /\ proc[p].slot = "unused"
    /\ proc' = [proc EXCEPT ![p] = [Unused EXCEPT !.slot = slot, !.home = Home(t)]]

RunAsync(t) ==
    /\ Called(t, "run_async", None, FALSE) /\ tlock[Home(t)] = None
    /\ \/ \E p \in Procs :
            /\ SpawnChild(t, p, "table")
            /\ job' = [job EXCEPT ![t] = IF t \in Conns THEN Idle ELSE Reply(t, p, TRUE)]
       \/ UNCHANGED proc /\ Return(t, FALSE)
    /\ UNCHANGED <<tlock, mapped>>

\* The child is nobody's but the handler's: no table holds it
Exec(t, cap) ==
    /\ Called(t, "exec", None, cap)
    /\ \/ \E p \in Procs : SpawnChild(t, p, "taken") /\ Step(t, "exec", "recv", p, cap)
       \/ UNCHANGED proc /\ Return(t, FALSE)
    /\ UNCHANGED <<tlock, mapped>>

\* The waiter thread of exec reaps the child as soon as it has exited
ExecWaiter(t) ==
    /\ job[t].st \in {"recv", "killed"} /\ proc[job[t].p].child = "zombie"
    /\ proc' = [proc EXCEPT ![job[t].p].child = "reaped"]
    /\ UNCHANGED <<job, tlock, mapped>>

\* kill_process_group: the group and the child, not who left the group
KillGroup(p) ==
    proc' = [proc EXCEPT ![p].child = IF @ = "running" THEN "zombie" ELSE @,
                         ![p].kids = IF @ = "group" THEN "none" ELSE @]

\* recv_timeout ran out, which the waiter may overtake before the kill
ExecTimeout(t) ==
    /\ job[t].st = "recv" /\ job[t].cap
    /\ KillGroup(job[t].p)
    /\ Step(t, "exec", "killed", job[t].p, TRUE)
    /\ UNCHANGED <<tlock, mapped>>

ExecRecv(t) ==
    /\ job[t].st \in {"recv", "killed"} /\ proc[job[t].p].child = "reaped"
    /\ Step(t, "exec", "drain", job[t].p, job[t].cap)
    /\ UNCHANGED <<proc, tlock, mapped>>

-----------------------------------------------------------------------------
(* wait                                                                     *)

\* take_process removes the slot before the thread blocks
Wait(t, p, cap) ==
    /\ Called(t, "wait", p, cap) /\ tlock[Home(t)] = None
    /\ \/ /\ Tabled(t, p)
          /\ proc' = [proc EXCEPT ![p].slot = "taken"]
          /\ Step(t, "wait", "reap", p, cap)
       \/ /\ Unknown(t, p)
          /\ UNCHANGED proc /\ Return(t, FALSE)
    /\ UNCHANGED <<tlock, mapped>>

\* child.wait, or a try_wait that finds the child gone
WaitReap(t) ==
    /\ job[t].st = "reap" /\ proc[job[t].p].child \in {"zombie", "reaped"}
    /\ proc' = [proc EXCEPT ![job[t].p].child = "reaped"]
    /\ Step(t, "wait", "drain", job[t].p, job[t].cap)
    /\ UNCHANGED <<tlock, mapped>>

\* try_wait found it running and the deadline has passed
WaitTimeout(t) ==
    /\ job[t].st = "reap" /\ job[t].cap /\ proc[job[t].p].child = "running"
    /\ KillGroup(job[t].p)
    /\ Step(t, "wait", "reap", job[t].p, FALSE)
    /\ UNCHANGED <<tlock, mapped>>

\* Mutation: the answer does not wait for the drain threads
CollectEarly(t) ==
    /\ job[t].st = "drain"
    /\ proc' = [proc EXCEPT ![job[t].p].slot = "collected", ![job[t].p].buf = 0,
                            ![job[t].p].stdin = "closed"]
    /\ Return(t, TRUE)
    /\ UNCHANGED <<tlock, mapped>>

\* The drain threads are joined, the buffers taken, and the answer is given
Collect(t) ==
    /\ job[t].st = "drain" /\ proc[job[t].p].drain = "done"
    /\ proc' = [proc EXCEPT ![job[t].p].slot = "collected", ![job[t].p].buf = 0,
                            ![job[t].p].stdin = "closed"]
    /\ Return(t, TRUE)
    /\ UNCHANGED <<tlock, mapped>>

-----------------------------------------------------------------------------
(* kill, get_pid and proc_status, stdin                                     *)

\* The pid is read under the lock and signalled after it
Kill(t, p) ==
    /\ Called(t, "kill", p, FALSE) /\ tlock[Home(t)] = None
    /\ \/ Tabled(t, p) /\ Step(t, "kill", "signal", p, FALSE)
       \/ Unknown(t, p) /\ Return(t, FALSE)
    /\ UNCHANGED <<table, mapped>>

\* The child dies of the signal or handles it; ESRCH is an Ok
Signal(t) ==
    /\ job[t].st = "signal"
    /\ \E c \in {"zombie", proc[job[t].p].child} :
        proc' = [proc EXCEPT ![job[t].p].child = IF @ = "running" THEN c ELSE @]
    /\ Return(t, TRUE)
    /\ UNCHANGED <<tlock, mapped>>

GetPid(t, p) ==
    /\ Called(t, "pid", p, FALSE) /\ tlock[Home(t)] = None
    /\ Tabled(t, p) \/ Unknown(t, p)
    /\ Return(t, Tabled(t, p))
    /\ UNCHANGED <<table, mapped>>

\* proc_status asks try_wait, which reaps a child that has exited; it
\* answers Running, or Exited, or Unknown for a handle not in the table
ProcStatus(t, p) ==
    /\ Called(t, "status", p, FALSE) /\ tlock[Home(t)] = None
    /\ Tabled(t, p) \/ Unknown(t, p)
    /\ proc' = [proc EXCEPT ![p].child =
                    IF Tabled(t, p) /\ @ = "zombie" THEN "reaped" ELSE @]
    /\ Return(t, ~(Tabled(t, p) /\ proc[p].child = "running"))
    /\ UNCHANGED <<tlock, mapped>>

\* The write happens under the lock of the table, and blocks on a full pipe
\* that somebody could still read
StdinBlocks(p) == proc[p].stdin = "full" /\ Writers(p)

ProcStdinWrite(t, p) ==
    /\ Called(t, "stdin", p, FALSE) /\ tlock[Home(t)] = None
    /\ \/ /\ Tabled(t, p) /\ StdinBlocks(p)
          /\ tlock' = [tlock EXCEPT ![Home(t)] = t]
          /\ Step(t, "stdin", "stdin", p, FALSE) /\ UNCHANGED proc
       \/ /\ Tabled(t, p) /\ ~StdinBlocks(p)
          /\ proc' = [proc EXCEPT ![p].stdin = IF @ = "open" /\ Writers(p) THEN "full" ELSE @]
          /\ Return(t, TRUE) /\ UNCHANGED tlock
       \/ /\ Unknown(t, p)
          /\ Return(t, FALSE) /\ UNCHANGED table
    /\ UNCHANGED mapped

ProcStdinWritten(t) ==
    /\ job[t].st = "stdin" /\ ~StdinBlocks(job[t].p)
    /\ tlock' = [tlock EXCEPT ![Home(t)] = None]
    /\ Return(t, TRUE)
    /\ UNCHANGED <<proc, mapped>>

ProcStdinClose(t, p) ==
    /\ Called(t, "close", p, FALSE) /\ tlock[Home(t)] = None
    /\ Tabled(t, p) \/ Unknown(t, p)
    /\ proc' = [proc EXCEPT ![p].stdin = IF Tabled(t, p) THEN "closed" ELSE @]
    /\ Return(t, Tabled(t, p))
    /\ UNCHANGED <<tlock, mapped>>

-----------------------------------------------------------------------------
(* proc_stream: it owns its connection, and is not relayed to workers       *)

ProcStream(t, p) ==
    /\ t \in Conns /\ Called(t, "stream", p, FALSE) /\ proc[p].slot # "unused"
    /\ Relayed(t, p) \/ tlock[Root] = None
    /\ IF Tabled(t, p) THEN Step(t, "stream", "stream", p, FALSE) ELSE Return(t, FALSE)
    /\ UNCHANGED <<table, mapped>>

\* Mutation: the offset is not moved past what was sent
StreamFrameAgain(t) ==
    /\ job[t].st = "stream" /\ proc[job[t].p].buf > 0 /\ job[t].sent <= MaxOut
    /\ job' = [job EXCEPT ![t].sent = @ + proc[job[t].p].buf]
    /\ UNCHANGED <<table, mapped>>

\* What the buffer holds past the offset goes out as one frame, unless the
\* host has closed the connection
StreamFrame(t) ==
    /\ job[t].st = "stream" /\ proc[job[t].p].buf > job[t].sent
    /\ \/ job' = [job EXCEPT ![t].sent = proc[job[t].p].buf]
       \/ Return(t, FALSE)
    /\ UNCHANGED <<table, mapped>>

\* Nothing new, and no slot in the table: the end of the stream
StreamEnd(t) ==
    /\ job[t].st = "stream" /\ proc[job[t].p].buf <= job[t].sent
    /\ tlock[Root] = None /\ ~Tabled(t, job[t].p)
    /\ Return(t, TRUE)
    /\ UNCHANGED <<table, mapped>>

-----------------------------------------------------------------------------
(* The guest's own steps, and the drain threads                             *)

Live(p) == proc[p].slot \notin {"unused", "lost"}

ChildExits(p) ==
    /\ Live(p) /\ proc[p].child = "running"
    /\ proc' = [proc EXCEPT ![p].child = "zombie"]
    /\ UNCHANGED <<job, tlock, mapped>>

Forks(p) ==
    /\ Live(p) /\ proc[p].child = "running" /\ proc[p].kids = "none"
    /\ \E k \in {"group", "escaped"} : proc' = [proc EXCEPT ![p].kids = k]
    /\ UNCHANGED <<job, tlock, mapped>>

DescendantExits(p) ==
    /\ Live(p) /\ proc[p].kids # "none"
    /\ proc' = [proc EXCEPT ![p].kids = "none"]
    /\ UNCHANGED <<job, tlock, mapped>>

Writes(p) ==
    /\ Live(p) /\ Writers(p) /\ proc[p].left > 0
    /\ proc' = [proc EXCEPT ![p].left = @ - 1, ![p].pipe = @ + 1]
    /\ UNCHANGED <<job, tlock, mapped>>

ReadsStdin(p) ==
    /\ Live(p) /\ Writers(p) /\ proc[p].stdin = "full"
    /\ proc' = [proc EXCEPT ![p].stdin = "open"]
    /\ UNCHANGED <<job, tlock, mapped>>

\* drain_into: what the pipe holds, and the end once nobody can write
DrainInto(p) ==
    /\ Live(p) /\ proc[p].drain = "reading"
    /\ \/ /\ proc[p].pipe > 0
          /\ proc' = [proc EXCEPT ![p].buf = @ + proc[p].pipe, ![p].pipe = 0]
       \/ /\ proc[p].pipe = 0 /\ ~Writers(p)
          /\ proc' = [proc EXCEPT ![p].drain = "done"]
    /\ UNCHANGED <<job, tlock, mapped>>

=============================================================================
