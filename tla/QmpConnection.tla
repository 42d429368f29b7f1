--------------------------- MODULE QmpConnection ---------------------------
(***************************************************************************)
(* One connection to a QEMU monitor (provium-qmp, connection.rs and        *)
(* deadline.rs) and the snapshot that the VMM takes over it (vmm/qemu.rs). *)
(*                                                                         *)
(* Threads: the callers of `execute` and `wait_event`, who share the       *)
(* connection by reference, and the reader.  Every critical section of     *)
(* the three mutexes (writer slot, pending table, event log) is one step,  *)
(* and so is every notify, send on a channel and socket call outside them. *)
(* A Budget may be found spent at any of the points that ask for what      *)
(* remains of it; a call never goes on once it has found it spent.  QEMU   *)
(* is external: it serves the command lines in order, runs one migration   *)
(* at a time, emits events, and may go away.  Lines that handle_line skips *)
(* (not JSON, no id) leave no trace and are not modelled.                  *)
(***************************************************************************)
EXTENDS Integers, Sequences, FiniteSets

CONSTANTS
    Callers,        \* threads that hold the Qmp by reference
    Snapshotters,   \* those that take snapshots, one at a time under the VMM's lock;
                    \* the others execute commands that no event follows
    Owner,          \* the caller that ends up owning the Qmp, and closes or drops it
    MaxCalls        \* bound: commands sent, the `quit` of close() included

Reader == "reader"
Threads == Callers \cup {Reader}
Ids == 1..MaxCalls

ASSUME QmpAssumption ==
    /\ MaxCalls \in Nat
    /\ Snapshotters \subseteq Callers /\ Owner \in Callers
    /\ Reader \notin Callers

VARIABLES
    phase,          \* the line the handshake waits for, then "up", "closing" or "failed"
    severed,        \* shutdown_stream.shutdown(Both) has been called
    writer,         \* WriterSlot: [stream, busy, closed]
    writerWait,     \* callers asleep on writer_cond
    pending,        \* ids in the pending table
    chan,           \* the one-shot channel of every id
    log,            \* EventLog.events
    logClosed,      \* EventLog.closed
    logWait,        \* callers asleep on log_cond
    nextId,         \* next_id
    call,           \* locals of every caller
    reader,         \* where the reader is, and the reply it has taken up
    step,           \* position of a thread in Inner::shutdown; 0: not in it
    drained,        \* its local `drained`
    qemu,           \* external: the monitor's side
    result,         \* history: how the call with each id ended
    snap            \* history: was a snapshot given up, was one renamed half-written

conn == <<severed, writer, writerWait>>
table == <<pending, chan>>
events == <<log, logClosed, logWait>>
shut == <<step, drained>>
history == <<result, snap>>
vars == <<phase, conn, table, events, nextId, call, reader, shut, qemu, history>>

Idle ==
    [pc |-> "idle", op |-> "none", id |-> 0, failed |-> FALSE, mark |-> 0, next |-> 0]

NoReply == [id |-> 0, answer |-> "none"]

Init ==
    /\ phase = "greeting"
    /\ severed = FALSE
    /\ writer = [stream |-> TRUE, busy |-> FALSE, closed |-> FALSE]
    /\ writerWait = {} /\ pending = {}
    /\ chan = [i \in Ids |-> "none"]
    /\ log = <<>> /\ logClosed = FALSE /\ logWait = {}
    /\ nextId = 1
    /\ call = [c \in Callers |-> Idle]
    /\ reader = [at |-> "read", reply |-> NoReply]
    /\ step = [t \in Threads |-> 0]
    /\ drained = [t \in Threads |-> {}]
    /\ qemu = [out |-> <<>>, torn |-> FALSE, wire |-> <<>>,
               active |-> 0, did |-> [i \in Ids |-> "no"]]
    /\ result = [i \in Ids |-> "new"]
    /\ snap = [partial |-> FALSE, abandoned |-> FALSE]

Up == phase \in {"up", "closing"}

-----------------------------------------------------------------------------
(***************************************************************************)
(* Connecting.  The greeting and the two capability replies are read in    *)
(* line, within one budget; the next line must be the one expected, and    *)
(* an event or an error in its place fails the handshake.                  *)
(***************************************************************************)
AfterLine == [greeting |-> "capabilities", capabilities |-> "events", events |-> "up"]

HandshakeLine ==
    /\ phase \in DOMAIN AfterLine
    /\ phase' = AfterLine[phase]
    /\ UNCHANGED <<conn, table, events, nextId, call, reader, shut, qemu, history>>

HandshakeFails ==
    /\ phase \in DOMAIN AfterLine
    /\ phase' = "failed"
    /\ UNCHANGED <<conn, table, events, nextId, call, reader, shut, qemu, history>>

-----------------------------------------------------------------------------
(***************************************************************************)
(* Inner::shutdown, run by the reader, by a caller whose send failed and   *)
(* by close() or drop; two threads may be in it at once.                   *)
(***************************************************************************)
\* Mutation of ShutdownBody: the socket is not severed
BodyLeavesSocket == <<"writer", "log", "drain", "answer">>

ShutdownBody == <<"sever", "writer", "log", "drain", "answer">>

Stage(t) == IF step[t] = 0 THEN "none" ELSE ShutdownBody[step[t]]

Proceed(t) ==
    step' = [step EXCEPT ![t] = IF @ = Len(ShutdownBody) THEN 0 ELSE @ + 1]

\* Whatever QEMU does after this, nothing of it comes back
Sever(t) ==
    /\ Stage(t) = "sever" /\ Proceed(t)
    /\ severed' = TRUE
    /\ qemu' = [qemu EXCEPT !.out = <<>>]
    /\ UNCHANGED <<phase, writer, writerWait, table, events, nextId, call, reader, drained, history>>

\* Each notify follows its unlock at once: nobody falls asleep in between, the
\* flag being set, and a sleeper not yet notified is one not yet scheduled
CloseWriter(t) ==
    /\ Stage(t) = "writer" /\ Proceed(t)
    /\ writer' = [writer EXCEPT !.closed = TRUE, !.stream = FALSE]
    /\ writerWait' = {}
    /\ UNCHANGED <<phase, severed, table, events, nextId, call, reader, drained, qemu, history>>

CloseLog(t) ==
    /\ Stage(t) = "log" /\ Proceed(t)
    /\ logClosed' = TRUE
    /\ logWait' = {}
    /\ UNCHANGED <<phase, conn, table, log, nextId, call, reader, drained, qemu, history>>

Drain(t) ==
    /\ Stage(t) = "drain" /\ Proceed(t)
    /\ drained' = [drained EXCEPT ![t] = pending]
    /\ pending' = {}
    /\ UNCHANGED <<phase, conn, chan, events, nextId, call, reader, qemu, history>>

\* A send on a channel that still holds a message would block; one whose
\* receiver has given up is ignored
CanSend(i) == chan[i] \in {"none", "dropped"}

Send(i, r) == chan' = [chan EXCEPT ![i] = IF @ = "none" THEN r ELSE @]

AnswerDrained(t) ==
    /\ Stage(t) = "answer"
    /\ \E i \in drained[t] :
        /\ CanSend(i) /\ Send(i, "closed")
        /\ drained' = [drained EXCEPT ![t] = @ \ {i}]
    /\ UNCHANGED <<phase, conn, pending, events, nextId, call, reader, step, qemu, history>>

AllAnswered(t) ==
    /\ Stage(t) = "answer" /\ drained[t] = {} /\ Proceed(t)
    /\ UNCHANGED <<phase, conn, table, events, nextId, call, reader, drained, qemu, history>>

Shutdown(t) ==
    \/ Sever(t) \/ CloseWriter(t) \/ CloseLog(t)
    \/ Drain(t) \/ AnswerDrained(t) \/ AllAnswered(t)

-----------------------------------------------------------------------------
(***************************************************************************)
(* The callers: execute_timeout and, for a snapshot, wait_event after it.  *)
(***************************************************************************)
Free(c, at) == call[c].pc = at /\ step[c] = 0

Goto(c, at) == call' = [call EXCEPT ![c].pc = at]

\* Mutation of BeginSnapshot: every event of the connection's life is considered
BeginSnapshotUnmarked(c) ==
    /\ phase = "up" /\ nextId <= MaxCalls /\ call[c].pc = "idle"
    /\ c \in Snapshotters /\ \A d \in Callers : call[d].op # "migrate"
    /\ call' = [call EXCEPT ![c].pc = "insert", ![c].op = "migrate", ![c].mark = 0]
    /\ UNCHANGED <<phase, conn, table, events, nextId, reader, shut, qemu, history>>

\* Backend::snapshot: event_mark, then migrate; powerdown_and_wait has this shape
BeginSnapshot(c) ==
    /\ phase = "up" /\ nextId <= MaxCalls /\ call[c].pc = "idle"
    /\ c \in Snapshotters /\ \A d \in Callers : call[d].op # "migrate"
    /\ call' = [call EXCEPT ![c].pc = "insert", ![c].op = "migrate", ![c].mark = Len(log)]
    /\ UNCHANGED <<phase, conn, table, events, nextId, reader, shut, qemu, history>>

\* execute, for a command without an event
BeginExecute(c) ==
    /\ phase = "up" /\ nextId <= MaxCalls /\ call[c].pc = "idle" /\ c \notin Snapshotters
    /\ call' = [call EXCEPT ![c].pc = "insert", ![c].op = "execute"]
    /\ UNCHANGED <<phase, conn, table, events, nextId, reader, shut, qemu, history>>

\* close(self) and drop own the Qmp, so no call is under way; a close of a
\* connection that is not closed yet sends `quit` first
Unshared == phase = "up" /\ \A d \in Callers : call[d].pc = "idle"

BeginClose ==
    /\ Unshared /\ ~logClosed /\ nextId <= MaxCalls
    /\ phase' = "closing"
    /\ call' = [call EXCEPT ![Owner].pc = "insert", ![Owner].op = "quit"]
    /\ UNCHANGED <<conn, table, events, nextId, reader, shut, qemu, history>>

BeginDrop ==
    /\ Unshared
    /\ phase' = "closing"
    /\ call' = [call EXCEPT ![Owner].pc = "join", ![Owner].op = "quit"]
    /\ step' = [step EXCEPT ![Owner] = 1]
    /\ UNCHANGED <<conn, table, events, nextId, reader, drained, qemu, history>>

\* What follows execute_timeout when it returns r
After(c, r) ==
    LET op == call[c].op IN
    /\ call' = [call EXCEPT ![c] =
                   IF op = "quit" THEN [Idle EXCEPT !.pc = "join", !.op = "quit"]
                   ELSE IF op = "migrate" /\ r = "return"
                   THEN [@ EXCEPT !.pc = "scan", !.next = call[c].mark]
                   ELSE Idle]
    /\ step' = IF op = "quit" THEN [step EXCEPT ![c] = 1] ELSE step
    /\ snap' = [snap EXCEPT !.abandoned = @ \/ (op = "migrate" /\ r \in {"closed", "failed"})]

\* The budget is spent before the call has an id
Refused(c) ==
    /\ Free(c, "insert")
    /\ After(c, "refused")
    /\ UNCHANGED <<phase, conn, table, events, nextId, reader, drained, qemu, result>>

Insert(c) ==
    /\ Free(c, "insert") /\ nextId <= MaxCalls
    /\ call' = [call EXCEPT ![c].id = nextId, ![c].pc = "permit"]
    /\ nextId' = nextId + 1
    /\ pending' = pending \cup {nextId}
    /\ result' = [result EXCEPT ![nextId] = "open"]
    /\ UNCHANGED <<phase, conn, chan, events, reader, shut, qemu, snap>>

\* The call fails before it has an answer: Timeout, Closed or Io
Failing(c) == call' = [call EXCEPT ![c].pc = "forget"]

\* Inner::send, up to the writer permit.  A caller asleep on writer_cond
\* re-tests when it is notified or when its budget is spent.
SleepOnWriter(c) ==
    /\ Free(c, "permit") /\ c \notin writerWait
    /\ writer.busy /\ ~writer.closed
    /\ writerWait' = writerWait \cup {c}
    /\ UNCHANGED <<phase, severed, writer, table, events, nextId, call, reader, shut, qemu, history>>

\* The slot is closed, or the budget is spent
NoPermit(c) ==
    /\ Free(c, "permit")
    /\ Failing(c)
    /\ writerWait' = writerWait \ {c}
    /\ UNCHANGED <<phase, severed, writer, table, events, nextId, reader, shut, qemu, history>>

TakePermit(c) ==
    /\ Free(c, "permit") /\ c \notin writerWait
    /\ ~writer.busy /\ ~writer.closed
    /\ writer' = [writer EXCEPT !.stream = FALSE, !.busy = TRUE]
    /\ Goto(c, "write")
    /\ UNCHANGED <<phase, severed, writerWait, table, events, nextId, reader, shut, qemu, history>>

\* deadline::send: the whole line within the budget, or an error.  The error may
\* leave the line torn, or come after its last byte, when the budget is found
\* spent.  A failed send shuts the connection down.
Line(c) == [id |-> call[c].id, op |-> call[c].op]

Write(c) ==
    /\ Free(c, "write")
    /\ ~severed
    /\ qemu' = [qemu EXCEPT !.out = Append(@, Line(c))]
    /\ Goto(c, "release")
    /\ UNCHANGED <<phase, conn, table, events, nextId, reader, shut, history>>

WriteFails(c) ==
    /\ Free(c, "write")
    /\ \/ qemu' = [qemu EXCEPT !.torn = TRUE]
       \/ ~severed /\ qemu' = [qemu EXCEPT !.out = Append(@, Line(c))]
    /\ call' = [call EXCEPT ![c].pc = "release", ![c].failed = TRUE]
    /\ step' = [step EXCEPT ![c] = 1]
    /\ UNCHANGED <<phase, conn, table, events, nextId, reader, drained, history>>

\* Back in execute_timeout: a sent command finds its budget spent or waits
Sent(c) ==
    Failing(c) \/ (~call[c].failed /\ Goto(c, "recv"))

Release(c) ==
    /\ Free(c, "release")
    /\ writer' = [writer EXCEPT !.stream = @ \/ ~writer.closed, !.busy = FALSE]
    /\ writerWait' = {}
    /\ Sent(c)
    /\ UNCHANGED <<phase, severed, table, events, nextId, reader, shut, qemu, history>>

\* The call returns, and its receiver with it
Return(c, r) ==
    /\ result' = [result EXCEPT ![call[c].id] = IF r = "closed" THEN "failed" ELSE r]
    /\ chan' = [chan EXCEPT ![call[c].id] = "dropped"]
    /\ After(c, r)

Receive(c) ==
    /\ Free(c, "recv") /\ chan[call[c].id] # "none"
    /\ Return(c, chan[call[c].id])
    /\ UNCHANGED <<phase, conn, pending, events, nextId, reader, drained, qemu>>

ReceiveTimesOut(c) ==
    /\ Free(c, "recv") /\ chan[call[c].id] = "none"
    /\ Failing(c)
    /\ UNCHANGED <<phase, conn, table, events, nextId, reader, shut, qemu, history>>

\* pending.remove on every failing path, then the error is returned
Forget(c) ==
    /\ Free(c, "forget")
    /\ pending' = pending \ {call[c].id}
    /\ Return(c, "failed")
    /\ UNCHANGED <<phase, conn, events, nextId, reader, drained, qemu>>

-----------------------------------------------------------------------------
(***************************************************************************)
(* wait_event, for the end of a migration, and the rename of the snapshot. *)
(***************************************************************************)
Matches(from) == {k \in (from + 1)..Len(log) : log[k].kind = "ended"}

\* The first match decides; the file is renamed into place when it is a success
Found(c) ==
    /\ \E k \in Matches(call[c].next) :
        /\ \A j \in Matches(call[c].next) : k <= j
        /\ snap' = [snap EXCEPT !.partial = @ \/ (log[k].answer = "return" /\ qemu.active = call[c].id)]
    /\ call' = [call EXCEPT ![c] = Idle]
    /\ logWait' = logWait \ {c}
    /\ UNCHANGED <<phase, conn, table, log, logClosed, nextId, reader, shut, qemu, result>>

Abandon(c) ==
    /\ call' = [call EXCEPT ![c] = Idle]
    /\ logWait' = logWait \ {c}
    /\ snap' = [snap EXCEPT !.abandoned = TRUE]
    /\ UNCHANGED <<phase, conn, table, log, logClosed, nextId, reader, shut, qemu, result>>

\* One round of the loop, under the log's lock; the wait has a budget of its own
ScanFinds(c) == Free(c, "scan") /\ Found(c)

ScanGivesUp(c) ==
    /\ Free(c, "scan") /\ Matches(call[c].next) = {}
    /\ Abandon(c)

SleepOnLog(c) ==
    /\ Free(c, "scan") /\ Matches(call[c].next) = {}
    /\ ~logClosed
    /\ call' = [call EXCEPT ![c].pc = "asleep",
                            ![c].next = IF @ >= Len(log) THEN @ ELSE Len(log)]
    /\ logWait' = logWait \cup {c}
    /\ UNCHANGED <<phase, conn, table, log, logClosed, nextId, reader, shut, qemu, history>>

Woken(c) ==
    /\ Free(c, "asleep") /\ c \notin logWait
    /\ Goto(c, "scan")
    /\ UNCHANGED <<phase, conn, table, events, nextId, reader, shut, qemu, history>>

\* wait_result.timed_out(): one more pass, then Timeout
WaitTimesOut(c) ==
    /\ Free(c, "asleep")
    /\ \/ Found(c)
       \/ Matches(call[c].next) = {} /\ Abandon(c)

\* join_reader
Join(c) ==
    /\ Free(c, "join")
    /\ reader.at = "exited" /\ step[Reader] = 0
    /\ Goto(c, "gone")
    /\ UNCHANGED <<phase, conn, table, events, nextId, reader, shut, qemu, history>>

Begin == BeginClose \/ BeginDrop \/ \E c \in Callers : BeginSnapshot(c) \/ BeginExecute(c)

Caller(c) ==
    \/ Refused(c) \/ Insert(c) \/ SleepOnWriter(c) \/ NoPermit(c) \/ TakePermit(c)
    \/ Write(c) \/ WriteFails(c) \/ Release(c) \/ Receive(c)
    \/ ReceiveTimesOut(c) \/ Forget(c) \/ ScanFinds(c) \/ ScanGivesUp(c)
    \/ SleepOnLog(c) \/ Woken(c) \/ WaitTimesOut(c) \/ Join(c)

-----------------------------------------------------------------------------
(***************************************************************************)
(* reader_loop and handle_line.  Lines already received are read before    *)
(* the end of a severed or abandoned stream is seen.                       *)
(***************************************************************************)
Reads == Up /\ reader.at = "read" /\ step[Reader] = 0

Incoming(kinds) == Reads /\ qemu.wire # <<>> /\ Head(qemu.wire).kind \in kinds

TakeLine == qemu' = [qemu EXCEPT !.wire = Tail(@)]

\* The push and the notify are under the log's lock
ReadEvent ==
    /\ Incoming({"ended", "other"}) /\ TakeLine
    /\ log' = Append(log, Head(qemu.wire))
    /\ logWait' = {}
    /\ UNCHANGED <<phase, conn, table, logClosed, nextId, call, reader, shut, history>>

\* Mutation of ReadReply: the reply goes to whichever command is waiting
ReadReplyToAnyone ==
    LET l == Head(qemu.wire) IN
    /\ Incoming({"reply"}) /\ pending # {} /\ TakeLine
    /\ \E i \in pending :
        /\ pending' = pending \ {i}
        /\ reader' = [at |-> "deliver", reply |-> [id |-> i, answer |-> l.answer]]
    /\ UNCHANGED <<phase, conn, chan, events, nextId, call, shut, history>>

ReadReply ==
    LET l == Head(qemu.wire) IN
    /\ Incoming({"reply"}) /\ l.id \in pending /\ TakeLine
    /\ pending' = pending \ {l.id}
    /\ reader' = [at |-> "deliver", reply |-> [id |-> l.id, answer |-> l.answer]]
    /\ UNCHANGED <<phase, conn, chan, events, nextId, call, shut, history>>

\* A late reply is dropped
ReadLate ==
    /\ Incoming({"reply"}) /\ TakeLine
    /\ Head(qemu.wire).id \notin pending
    /\ UNCHANGED <<phase, conn, table, events, nextId, call, reader, shut, history>>

Deliver ==
    /\ reader.at = "deliver" /\ CanSend(reader.reply.id)
    /\ Send(reader.reply.id, reader.reply.answer)
    /\ reader' = [at |-> "read", reply |-> NoReply]
    /\ UNCHANGED <<phase, conn, pending, events, nextId, call, shut, qemu, history>>

\* reader_loop returns: its buffer goes with it
ReaderExits ==
    /\ reader' = [reader EXCEPT !.at = "exited"]
    /\ step' = [step EXCEPT ![Reader] = 1]
    /\ qemu' = [qemu EXCEPT !.wire = <<>>]
    /\ UNCHANGED <<phase, conn, table, events, nextId, call, drained, history>>

ReadEnd == Reads /\ qemu.wire = <<>> /\ severed /\ ReaderExits

\* QEMU has closed its end or died, or a line is not UTF-8
ReadError == Reads /\ ReaderExits

ReaderStep == ReadEvent \/ ReadReply \/ ReadLate \/ Deliver \/ ReadEnd

-----------------------------------------------------------------------------
(***************************************************************************)
(* External: QEMU.  A migration it accepts announces itself with a         *)
(* MIGRATION event of another status before it ends.  What it does once    *)
(* the socket is severed is left out: it cannot be told.  That it goes     *)
(* away shows in ReadError and WriteFails only.                            *)
(***************************************************************************)
Told(lines) == IF reader.at = "exited" THEN qemu.wire ELSE qemu.wire \o lines

Serve ==
    LET cmd == Head(qemu.out) IN
    /\ Up /\ ~severed /\ qemu.out # <<>>
    /\ \E r \in {"return", "error"} :
        LET starts == cmd.op = "migrate" /\ r = "return"
            reply == [kind |-> "reply", id |-> cmd.id, answer |-> r]
            active == [kind |-> "other", id |-> cmd.id, answer |-> "none"] IN
        /\ starts => qemu.active = 0
        /\ qemu' = [qemu EXCEPT !.out = Tail(@),
                                !.wire = Told(IF starts THEN <<reply, active>> ELSE <<reply>>),
                                !.active = IF starts THEN cmd.id ELSE @,
                                !.did[cmd.id] = r]
    /\ UNCHANGED <<phase, conn, table, events, nextId, call, reader, shut, history>>

MigrationEnds ==
    /\ Up /\ ~severed /\ qemu.active # 0
    /\ \E r \in {"return", "error"} :
        qemu' = [qemu EXCEPT !.active = 0,
                             !.wire = Told(<<[kind |-> "ended", id |-> qemu.active, answer |-> r]>>)]
    /\ UNCHANGED <<phase, conn, table, events, nextId, call, reader, shut, history>>

Qemu == Serve \/ MigrationEnds

Finished ==
    /\ phase = "failed" \/ \E c \in Callers : call[c].pc = "gone"
    /\ UNCHANGED vars

Next ==
    \/ HandshakeLine \/ HandshakeFails
    \/ Begin
    \/ \E c \in Callers : Caller(c) \/ Shutdown(c)
    \/ ReaderStep \/ Shutdown(Reader) \/ ReadError
    \/ Qemu \/ Finished

Spec == Init /\ [][Next]_vars

\* Threads are scheduled and budgets run out; QEMU may stop at any point
FairSpec ==
    /\ Spec
    /\ \A c \in Callers : WF_vars(Caller(c) \/ Shutdown(c))
    /\ WF_vars(ReaderStep \/ Shutdown(Reader))

-----------------------------------------------------------------------------
\* A snapshot is renamed into place only after its own migration has ended, as
\* long as no earlier snapshot of the VM was given up while QEMU may still have
\* been writing it.
SnapshotIsWhole == snap.partial => snap.abandoned

\* The connection keeps the contract of MonitorCalls.
Contract == INSTANCE MonitorCalls WITH Calls <- Ids, status <- result, did <- qemu.did
KeepsContract == Contract!Spec

\* Every call returns within its budget, and close() joins the reader, whether
\* or not QEMU ever reads or answers.
CallReturns == \A c \in Callers : call[c].pc # "idle" ~> call[c].pc \in {"idle", "gone"}

=============================================================================
