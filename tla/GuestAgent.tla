----------------------------- MODULE GuestAgent -----------------------------
(***************************************************************************)
(* The guest's agent: the connections it accepts (main.rs, connection.rs), *)
(* its processes (AgentProcesses), and its workers (ops/worker.rs), which  *)
(* are processes of their own that serve one operation at a time over a    *)
(* control socket.  An operation on a worker, and one on a process that a  *)
(* worker started, is relayed: the handler's thread takes the mutex of the *)
(* worker's connection, writes the request and reads the reply.            *)
(***************************************************************************)
EXTENDS AgentProcesses

VARIABLES
    registry,   \* workers: the handles that can be found
    worker,     \* the worker processes
    wlock,      \* the mutex of each worker's connection
    request,    \* what is written to a control socket and not yet read
    answer      \* the reply on it

workers == <<registry, worker, wlock, request, answer>>
vars == <<job, proc, tlock, mapped, registry, worker, wlock, request, answer>>

\* async: the syscall that WorkerSyscallBegin started, if any.  One is followed
\* at a time: a begin before its await is taken to be the same
NoWorker == [state |-> "unused", sock |-> "open", async |-> "none"]

Init ==
    /\ job = [t \in Threads |-> Idle]
    /\ proc = [p \in Procs |-> Unused]
    /\ tlock = [h \in Workers \cup {Root} |-> None]
    /\ mapped = {} /\ registry = {}
    /\ worker = [w \in Workers |-> NoWorker]
    /\ wlock = [w \in Workers |-> None]
    /\ request = [w \in Workers |-> Idle] /\ answer = [w \in Workers |-> Idle]

-----------------------------------------------------------------------------
(* Workers: the agent's side                                                *)

Spawn(c, w) ==
    /\ HandleConnection(c) /\ worker[w].state = "unused"
    /\ worker' = [worker EXCEPT ![w].state = "live"]
    /\ registry' = registry \cup {w}
    /\ Return(c, TRUE)
    /\ UNCHANGED <<table, mapped, wlock, request, answer>>

\* The operations relayed to a worker by its handle
WorkerOps == {"syscall", "begin", "await", "exec", "run_async", "signal"}

\* The process operations that are; a wait begins with a poll
ProcessOps == {"poll", "kill", "pid", "status", "stdin", "close"}

\* worker_conn: the handler has a reference, and queues for the mutex
WorkerOp(c, w, op, cap) ==
    /\ HandleConnection(c) /\ w \in registry
    /\ job' = [job EXCEPT ![c] = [@ EXCEPT !.op = op, !.st = "lock", !.w = w, !.cap = cap]]
    /\ UNCHANGED <<table, mapped, workers>>

\* A process operation whose handle stands for a worker's process; a worker
\* that has been joined is not found, and a wait then forgets the handle
RelayProcessOp(c, p, op, cap) ==
    /\ HandleConnection(c) /\ Relayed(c, p)
    /\ LET w == proc[p].home IN
       \/ /\ w \in registry
          /\ job' = [job EXCEPT ![c] = [@ EXCEPT !.op = op, !.st = "lock", !.p = p,
                                                 !.w = w, !.cap = cap]]
          /\ UNCHANGED mapped
       \/ /\ w \notin registry /\ Return(c, FALSE)
          /\ mapped' = IF op = "poll" THEN mapped \ {p} ELSE mapped
    /\ UNCHANGED <<table, workers>>

\* What the handler still needs to know once it has written its request
Sent(j) ==
    CASE j.op \in {"poll", "collect"} -> [j EXCEPT !.st = "read"]
      [] j.op = "run_async" -> [Idle EXCEPT !.st = "read", !.w = j.w, !.op = j.op]
      [] OTHER -> [Idle EXCEPT !.st = "read", !.w = j.w]

\* Mutation: the mutex is given back between the write and the read
RelayUnlocked(c) ==
    LET j == job[c] w == job[c].w IN
    /\ j.st = "lock" /\ j.op # "signal" /\ j.op # "join" /\ wlock[w] = None
    /\ worker[w].sock = "open" /\ worker[w].state = "live" /\ request[w] = Idle
    /\ request' = [request EXCEPT ![w] = [j EXCEPT !.st = "op", !.by = c]]
    /\ job' = [job EXCEPT ![c] = Sent(@)]
    /\ UNCHANGED <<table, mapped, registry, worker, wlock, answer>>

\* relay takes the mutex and writes; it fails on a socket shut down or left
Relay(c) ==
    LET j == job[c] w == job[c].w IN
    /\ j.st = "lock" /\ j.op # "signal" /\ j.op # "join" /\ wlock[w] = None
    /\ \/ /\ worker[w].sock = "open" /\ worker[w].state = "live"
          /\ wlock' = [wlock EXCEPT ![w] = c]
          /\ request' = [request EXCEPT ![w] = [j EXCEPT !.st = "op", !.by = c]]
          /\ job' = [job EXCEPT ![c] = Sent(@)]
          /\ UNCHANGED mapped
       \/ /\ worker[w].sock = "shut" \/ worker[w].state # "live"
          /\ mapped' = IF j.op = "collect" THEN mapped \ {j.p} ELSE mapped
          /\ Return(c, FALSE)
          /\ UNCHANGED <<wlock, request>>
    /\ UNCHANGED <<table, registry, worker, answer>>

Unlock(c) == wlock' = [wlock EXCEPT ![job[c].w] = IF @ = c THEN None ELSE @]

\* Poll of worker_wait: again, or collect with or without a cap of zero
AfterPoll(c, exited) ==
    \/ /\ exited
       /\ job' = [job EXCEPT ![c] = [@ EXCEPT !.op = "collect", !.st = "lock", !.cap = FALSE]]
    \/ /\ ~exited
       /\ job' = [job EXCEPT ![c] = [@ EXCEPT !.st = "lock"]]
    \/ /\ ~exited /\ job[c].cap
       /\ job' = [job EXCEPT ![c] = [@ EXCEPT !.op = "collect", !.st = "lock"]]

\* The reply is read and the mutex given back; then the handler goes on
RelayReturns(c) ==
    LET j == job[c] w == job[c].w a == answer[job[c].w] IN
    /\ j.st = "read" /\ a # Idle
    /\ answer' = [answer EXCEPT ![w] = Idle]
    /\ Unlock(c)
    /\ IF j.op = "poll" THEN AfterPoll(c, a.ok) ELSE Return(c, a.ok)
    /\ mapped' = CASE j.op = "run_async" /\ a.ok -> mapped \cup {a.p}
                   [] j.op = "collect" -> mapped \ {j.p}
                   [] OTHER -> mapped
    /\ UNCHANGED <<table, registry, worker, request>>

\* The worker died before it replied: end of file
RelayFails(c) ==
    LET j == job[c] w == job[c].w IN
    /\ j.st = "read" /\ answer[w] = Idle /\ worker[w].state # "live"
    /\ Unlock(c)
    /\ mapped' = IF j.op = "collect" THEN mapped \ {j.p} ELSE mapped
    /\ Return(c, FALSE)
    /\ UNCHANGED <<table, registry, worker, request, answer>>

\* The worker goes, with its table, and what it ran is orphaned
Gone(w) ==
    /\ worker' = [worker EXCEPT ![w].state = "exited", ![w].async = "none"]
    /\ proc' = [p \in Procs |-> IF proc[p].home = w
                                THEN [Unused EXCEPT !.slot = "lost", !.home = w] ELSE proc[p]]
    /\ request' = [request EXCEPT ![w] = Idle]
    /\ tlock' = [tlock EXCEPT ![w] = None]

\* worker_kill needs the mutex to read the pid; the signal may be handled
WorkerKill(c) ==
    LET w == job[c].w IN
    /\ job[c].st = "lock" /\ job[c].op = "signal" /\ wlock[w] = None
    /\ \/ /\ worker[w].state = "live" /\ Gone(w)
          /\ job' = [job EXCEPT ![c] = Idle, ![w] = Idle]
       \/ Return(c, TRUE) /\ UNCHANGED <<proc, tlock, worker, request>>
    /\ UNCHANGED <<mapped, registry, wlock, answer>>

\* worker_join: out of the registry, with its processes; then the mutex
WorkerJoin(c, w) ==
    /\ HandleConnection(c) /\ w \in registry
    /\ registry' = registry \ {w}
    /\ mapped' = {p \in mapped : proc[p].home # w}
    /\ job' = [job EXCEPT ![c] = [@ EXCEPT !.op = "join", !.st = "lock", !.w = w]]
    /\ UNCHANGED <<table, worker, wlock, request, answer>>

\* Mutation: the socket is left open, and the worker waits for an operation
ReapWorkerOpen(c) ==
    /\ job[c].st = "lock" /\ job[c].op = "join" /\ wlock[job[c].w] = None
    /\ wlock' = [wlock EXCEPT ![job[c].w] = c]
    /\ job' = [job EXCEPT ![c].st = "reaping"]
    /\ UNCHANGED <<table, mapped, registry, worker, request, answer>>

\* reap_worker shuts the socket down, so that the serve loop ends
ReapWorker(c) ==
    /\ job[c].st = "lock" /\ job[c].op = "join" /\ wlock[job[c].w] = None
    /\ wlock' = [wlock EXCEPT ![job[c].w] = c]
    /\ worker' = [worker EXCEPT ![job[c].w].sock = "shut"]
    /\ job' = [job EXCEPT ![c].st = "reaping"]
    /\ UNCHANGED <<table, mapped, registry, request, answer>>

WorkerReaped(c) ==
    /\ job[c].st = "reaping" /\ worker[job[c].w].state = "exited"
    /\ worker' = [worker EXCEPT ![job[c].w].state = "reaped"]
    /\ Unlock(c)
    /\ Return(c, TRUE)
    /\ UNCHANGED <<table, mapped, registry, request, answer>>

-----------------------------------------------------------------------------
(* Workers: serve_worker_child                                              *)

Serving(w) == worker[w].state = "live"

\* What a relayed operation is to the worker that serves it
ServedAs(op) == CASE op = "poll" -> "status" [] op = "collect" -> "wait" [] OTHER -> op

ServeRequest(w) ==
    /\ Serving(w) /\ job[w] = Idle /\ request[w] # Idle
    /\ job' = [job EXCEPT ![w] = [request[w] EXCEPT !.op = ServedAs(@),
                                                    !.cap = @ /\ request[w].op # "poll"]]
    /\ request' = [request EXCEPT ![w] = Idle]
    /\ UNCHANGED <<table, mapped, registry, worker, wlock, answer>>

\* A syscall runs in the loop; begin runs it on a thread of its own
ServeSyscall(w) ==
    /\ Serving(w) /\ Called(w, "syscall", None, FALSE)
    /\ Return(w, TRUE)
    /\ UNCHANGED <<table, mapped, workers>>

ServeBegin(w) ==
    /\ Serving(w) /\ Called(w, "begin", None, FALSE)
    /\ worker' = [worker EXCEPT ![w].async = IF @ = "none" THEN "running" ELSE @]
    /\ Return(w, TRUE)
    /\ UNCHANGED <<table, mapped, registry, wlock, request, answer>>

\* await joins the thread, with the loop and the mutex held
ServeAwait(w) ==
    /\ Serving(w) /\ Called(w, "await", None, FALSE) /\ worker[w].async # "running"
    /\ worker' = [worker EXCEPT ![w].async = "none"]
    /\ Return(w, worker[w].async = "done")
    /\ UNCHANGED <<table, mapped, registry, wlock, request, answer>>

SyscallReturns(w) ==
    /\ Serving(w) /\ worker[w].async = "running"
    /\ worker' = [worker EXCEPT ![w].async = "done"]
    /\ UNCHANGED <<job, table, mapped, registry, wlock, request, answer>>

ServeReply(w) ==
    /\ Serving(w) /\ job[w].st = "reply"
    /\ answer' = [answer EXCEPT ![w] = job[w]]
    /\ job' = [job EXCEPT ![w] = Idle]
    /\ UNCHANGED <<table, mapped, registry, worker, wlock, request>>

\* A read that fails is the end: the process exits, whatever still runs
ServeEof(w) ==
    /\ Serving(w) /\ job[w] = Idle /\ worker[w].sock = "shut"
    /\ Gone(w)
    /\ UNCHANGED <<job, mapped, registry, wlock, answer>>

\* It may also die of its own accord, with an operation in hand
WorkerDies(w) ==
    /\ Serving(w) /\ Gone(w)
    /\ job' = [job EXCEPT ![w] = Idle]
    /\ UNCHANGED <<mapped, registry, wlock, answer>>

-----------------------------------------------------------------------------
ProcessStep(t) ==
    \/ RunAsync(t) \/ ExecWaiter(t) \/ ExecTimeout(t) \/ ExecRecv(t)
    \/ WaitReap(t) \/ WaitTimeout(t) \/ Collect(t) \/ Signal(t) \/ ProcStdinWritten(t)
    \/ StreamFrame(t) \/ StreamEnd(t)
    \/ \E cap \in BOOLEAN : Exec(t, cap) \/ \E p \in Procs : Wait(t, p, cap)
    \/ \E p \in Procs :
        Kill(t, p) \/ GetPid(t, p) \/ ProcStatus(t, p) \/ ProcStdinWrite(t, p)
        \/ ProcStdinClose(t, p) \/ ProcStream(t, p)

GuestStep(p) ==
    ChildExits(p) \/ Forks(p) \/ DescendantExits(p) \/ Writes(p) \/ ReadsStdin(p)

ConnStep(c) ==
    \/ Relay(c) \/ RelayReturns(c) \/ RelayFails(c)
    \/ WorkerKill(c) \/ ReapWorker(c) \/ WorkerReaped(c)
    \/ \E w \in Workers : Spawn(c, w) \/ WorkerJoin(c, w)
                          \/ \E op \in WorkerOps : WorkerOp(c, w, op, FALSE)
                          \/ WorkerOp(c, w, "exec", TRUE)
    \/ \E p \in Procs :
        \/ \E op \in ProcessOps : RelayProcessOp(c, p, op, FALSE)
        \/ RelayProcessOp(c, p, "poll", TRUE)

ServeStep(w) ==
    ServeRequest(w) \/ ServeSyscall(w) \/ ServeBegin(w) \/ ServeAwait(w) \/ ServeReply(w)
    \/ ServeEof(w)

Next ==
    \/ \E t \in Threads : ProcessStep(t) /\ UNCHANGED workers
    \/ \E p \in Procs : (GuestStep(p) \/ DrainInto(p)) /\ UNCHANGED workers
    \/ \E c \in Conns : ConnStep(c)
    \/ \E w \in Workers : ServeStep(w) \/ SyscallReturns(w) \/ WorkerDies(w)

Spec == Init /\ [][Next]_vars

-----------------------------------------------------------------------------
\* What wait and exec answer is all there is: when a process has been
\* collected its child is reaped, nobody can write to its pipes any more
\* and nothing is left in them (process.rs:114-123, exec.rs:114-117)
WaitIsWhole ==
    \A p \in Procs : proc[p].slot = "collected" =>
        proc[p].child = "reaped" /\ ~Writers(p) /\ proc[p].pipe = 0 /\ proc[p].buf = 0

\* The reply on a control socket is read by the handler whose request it
\* answers: it holds the mutex from its write to its read (state.rs:43-46)
AnswerIsOwn ==
    \A c \in Conns : job[c].st = "read" /\ answer[job[c].w] # Idle => answer[job[c].w].by = c

\* A stream sends no chunk twice, although wait empties the buffer it
\* reads from while it runs (stream.rs:165-183, process.rs:122)
StreamSendsOnce ==
    \A c \in Conns : job[c].st = "stream" => job[c].sent + proc[job[c].p].left <= MaxOut

\* Whoever waits is waited for by nobody it waits on: a handler that queues
\* for a worker's mutex has before it one that reads or reaps; one that
\* reads has its request, the worker at work on it, the reply or the end of
\* the file before it; one that reaps has shut the socket its worker reads
\* (worker.rs:380-403); a table is held only by a write to a full pipe
NoStuckWait ==
    /\ \A w \in Workers : wlock[w] # None => job[wlock[w]].st \in {"read", "reaping"}
    /\ \A h \in Workers \cup {Root} : tlock[h] # None => job[tlock[h]].st = "stdin"
    /\ \A c \in Conns : LET w == job[c].w IN
        /\ job[c].st = "read" =>
            \/ worker[w].state # "live"
            \/ request[w].by = c \/ job[w].by = c \/ answer[w].by = c
        /\ job[c].st = "reaping" => worker[w].sock = "shut" \/ worker[w].state = "exited"

=============================================================================
