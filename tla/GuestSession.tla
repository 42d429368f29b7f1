---------------------------- MODULE GuestSession ----------------------------
(***************************************************************************)
(* One test that holds files, processes, workers and a stream on one VM.   *)
(* The module composes the agent (AgentFiles), the host's registry and     *)
(* handles (VmHandles), the connection of a stream (StreamWire) and the    *)
(* objects the test uses (LuaStreams).                                     *)
(*                                                                         *)
(* A test is one Lua thread: while a method of a stream blocks it makes no *)
(* other call.  The guest, the agent's stream thread, the console and      *)
(* tcpdump move on their own, and the guest may be reset by the test, be   *)
(* paused, or die.                                                         *)
(***************************************************************************)
EXTENDS StreamWire, VmHandles, LuaStreams

CONSTANTS
    MaxCalls,   \* calls the test makes, faults of the guest included
    MaxBytes,   \* bytes written in a behaviour
    MaxMade,    \* handles made in a behaviour
    Batches     \* the batches the test makes, sequences of BatchItems

ASSUME BatchAssumption == Batches \subseteq Seq(BatchItems)

VARIABLES
    vm,         \* the host's view: "Booted", "Paused" or "Dead"
    guest,      \* [up, boot]: whether the guest is there, and which boot it is
    data,       \* the guest file
    agent,      \* the agent's tables
    th,         \* its stream thread
    wire, part, \* the stream's connection, see StreamWire
    link,       \* "none", "up", "gone": the source of the stream
    reg,        \* the VM's resource registry
    lua,        \* [files, procs, workers]: the handles given to the test
    u,          \* the test's stream object
    hist        \* what the properties need to know, see Init

vars == <<vm, guest, data, agent, th, wire, part, link, reg, lua, u, hist>>

Init ==
    /\ vm = "Booted"
    /\ guest = [up |-> TRUE, boot |-> 1]
    /\ data = <<>>
    /\ agent = FreshAgent
    /\ th = NoThread
    /\ wire = <<>> /\ part = 0 /\ link = "none"
    /\ reg = EmptyRegistry
    /\ lua = [files |-> <<>>, procs |-> <<>>, workers |-> <<>>]
    /\ u = NoStream
    /\ hist = [calls |-> 0,         \* calls made
               wrote |-> 0,         \* bytes written: the last one's name
               made |-> 0,          \* handles made: the last one's serial
               sent |-> <<>>,       \* the bytes put on the wire, in order
               broken |-> FALSE,    \* a read of the stream was reset
               oversized |-> FALSE, \* an answer did not fit a frame
               stranded |-> {}]     \* closed here, never closed in the agent

-----------------------------------------------------------------------------
(* The test makes a call.                                                  *)

Call ==
    /\ u.op = "idle"
    /\ hist.calls < MaxCalls

Called == [hist EXCEPT !.calls = @ + 1]

Reached == Reaches(vm, guest.up)

UNCHANGEDStream == UNCHANGED <<th, wire, part, link, u>>

Outcome(table, h) ==
    IF guest.up THEN Answer(h \in DOMAIN agent[table]) ELSE "connect"

(* The agent that served the streams and the handles is no more.           *)
AgentLost(cut) ==
    /\ agent' = FreshAgent /\ th' = NoThread
    /\ link' = IF u.st = "open" /\ u.kind \in cut THEN "gone" ELSE link
    /\ UNCHANGED <<reg, lua, wire, part, u>>

(* A call that leaves nothing open is answered.  One that does not touch   *)
(* the file changes nothing here.                                          *)
Answered(call) ==
    /\ Call /\ Reached /\ hist.wrote < MaxBytes
    /\ data' = Effect(call, data, hist.wrote + 1) /\ data' # data
    /\ hist' = [Called EXCEPT !.wrote = @ + 1]
    /\ UNCHANGED <<vm, guest, agent, reg, lua>> /\ UNCHANGEDStream

Batch(items) ==
    /\ Call /\ Reached /\ hist.wrote < MaxBytes
    /\ data' = BatchEffect(items, data, hist.wrote + 1)
    /\ hist' = [Called EXCEPT !.wrote = @ + 1]
    /\ UNCHANGED <<vm, guest, agent, reg, lua>> /\ UNCHANGEDStream

(* Nobody is there.                                                        *)
Missed ==
    /\ Call /\ vm = "Booted" /\ \E outcome \in Handshake(guest.up) \ {"ok"} :
                                    vm' = Marked(vm, outcome)
    /\ hist' = Called
    /\ UNCHANGED <<guest, data, agent, reg, lua>> /\ UNCHANGEDStream

(* The guest dies before the answer is through.                            *)
CutShort ==
    /\ Call /\ Reached
    /\ \E outcome \in CutOff : vm' = Marked(vm, outcome)
    /\ guest' = [guest EXCEPT !.up = FALSE]
    /\ AgentLost({"tail", "console"})
    /\ hist' = Called
    /\ UNCHANGED data

(* The answer does not fit a frame, and the connection ends without one.   *)
Oversized(call) ==
    /\ Call /\ Reached /\ call \in Oversizable
    /\ vm' = Marked(vm, "eof")
    /\ hist' = [Called EXCEPT !.oversized = TRUE]
    /\ UNCHANGED <<guest, data, agent, reg, lua>> /\ UNCHANGEDStream

-----------------------------------------------------------------------------
(* Files.                                                                  *)

OpenFile(mode) ==
    /\ Call /\ Reached /\ hist.made < MaxMade
    /\ LET serial == hist.made + 1
           h == alloc_id(agent)
       IN  /\ agent' = insert_file(agent, serial, mode)
           /\ lua' = [lua EXCEPT !.files = Append(@, NewFile(h, serial, guest.boot))]
           /\ reg' = FileOpened(reg, h)
           /\ hist' = [Called EXCEPT !.made = serial]
    /\ data' = OpenedData(data, mode)
    /\ UNCHANGED <<vm, guest>> /\ UNCHANGEDStream

Usable(i) == lua.files[i].open /\ Reached /\ Known(agent, lua.files[i].h)

(* read and read_all move the cached cursor by what came back.             *)
FileRead(i, n) ==
    /\ Call /\ Usable(i)
    /\ LET h == lua.files[i].h
           bytes == read(agent, data, h, n)
       IN  /\ bytes # <<>>
           /\ agent' = Advance(agent, h, Len(bytes))
           /\ lua' = [lua EXCEPT !.files[i].cursor = @ + Len(bytes)]
    /\ hist' = Called
    /\ UNCHANGED <<vm, guest, data, reg>> /\ UNCHANGEDStream

FileWrite(i) ==
    /\ Call /\ Usable(i) /\ hist.wrote < MaxBytes
    /\ LET h == lua.files[i].h
       IN  /\ data' = write(agent, data, h, hist.wrote + 1)
           /\ agent' = AfterWrite(agent, data, h)
    /\ lua' = [lua EXCEPT !.files[i].cursor = @ + 1]
    /\ hist' = [Called EXCEPT !.wrote = @ + 1]
    /\ UNCHANGED <<vm, guest, reg>> /\ UNCHANGEDStream

(* seek, and tell, which is a seek by zero: the cursor is the agent's      *)
(* answer.                                                                 *)
FileSeek(i, whence) ==
    /\ Call /\ Usable(i)
    /\ LET h == lua.files[i].h
       IN  /\ agent' = seek(agent, data, h, whence)
           /\ lua' = [lua EXCEPT !.files[i].cursor = agent'.files[h].pos]
    /\ <<agent', lua'>> # <<agent, lua>>
    /\ hist' = Called
    /\ UNCHANGED <<vm, guest, data, reg>> /\ UNCHANGEDStream

(* A handle from before a reset, which the new agent does not know.        *)
StaleCall(i) ==
    /\ Call /\ lua.files[i].open /\ Reached /\ ~Known(agent, lua.files[i].h)
    /\ vm' = Marked(vm, Outcome("files", lua.files[i].h))
    /\ hist' = Called
    /\ UNCHANGED <<guest, data, agent, reg, lua>> /\ UNCHANGEDStream

(* close takes the handle away from the object first.                      *)
FileClose(i) ==
    /\ Call /\ lua.files[i].open
    /\ LET f == lua.files[i]
           told == Reached /\ Known(agent, f.h)
       IN  /\ agent' = IF told THEN close(agent, f.h) ELSE agent
           /\ reg' = FileClosed(reg, f.h, told)
           /\ hist' = [Called EXCEPT !.stranded = IF Reached THEN @ ELSE @ \cup {f.serial}]
    /\ lua' = [lua EXCEPT !.files[i].open = FALSE]
    /\ vm' = Marked(vm, Outcome("files", lua.files[i].h))
    /\ UNCHANGED <<guest, data>> /\ UNCHANGEDStream

-----------------------------------------------------------------------------
(* Processes and workers.                                                  *)

RunAsync ==
    /\ Call /\ Reached /\ hist.made < MaxMade
    /\ LET serial == hist.made + 1
       IN  /\ agent' = insert_process(agent, serial)
           /\ lua' = [lua EXCEPT !.procs =
                        Append(@, NewProcess(alloc_id(agent), serial, guest.boot, 0))]
           /\ hist' = [Called EXCEPT !.made = serial]
    /\ UNCHANGED <<vm, guest, data, reg>> /\ UNCHANGEDStream

(* proc:wait, and proc:close, which kills and then waits, both best        *)
(* effort: the agent takes the process out of its table.                   *)
ProcWait(i) ==
    /\ Call /\ lua.procs[i].held /\ WaitAllowed(lua.procs[i])
    /\ LET h == lua.procs[i].h
           outcome == Outcome("procs", h)
       IN  /\ agent' = IF Reached THEN take_process(agent, h) ELSE agent
           /\ lua' = [lua EXCEPT !.procs[i] = WaitEnds(@, Reached /\ outcome = "ok")]
           /\ vm' = Marked(vm, outcome)
    /\ hist' = Called
    /\ UNCHANGED <<guest, data, reg>> /\ UNCHANGEDStream

(* Lua collects the object.                                                *)
ProcDrop(i) ==
    /\ u.op = "idle" /\ lua.procs[i].held
    /\ LET p == lua.procs[i]
       IN  /\ agent' = IF DropReaps(p) /\ Reached THEN take_process(agent, p.h) ELSE agent
           /\ vm' = IF DropReaps(p) THEN Marked(vm, Outcome("procs", p.h)) ELSE vm
           /\ hist' = [hist EXCEPT !.stranded =
                        IF DropReaps(p) /\ ~Reached THEN @ \cup {p.serial} ELSE @]
    /\ lua' = [lua EXCEPT !.procs[i].held = FALSE]
    /\ UNCHANGED <<guest, data, reg>> /\ UNCHANGEDStream

SpawnWorker ==
    /\ Call /\ Reached /\ hist.made < MaxMade
    /\ LET serial == hist.made + 1
       IN  /\ agent' = insert_worker(agent, serial)
           /\ lua' = [lua EXCEPT !.workers =
                        Append(@, NewWorker(alloc_id(agent), serial, guest.boot))]
           /\ hist' = [Called EXCEPT !.made = serial]
    /\ UNCHANGED <<vm, guest, data, reg>> /\ UNCHANGEDStream

WorkerRunAsync(i) ==
    /\ Call /\ Reached /\ hist.made < MaxMade
    /\ LET w == lua.workers[i]
           serial == hist.made + 1
       IN  /\ w.held /\ w.h \in DOMAIN agent.workers
           /\ agent' = insert_worker_process(agent, serial, w.h)
           /\ lua' = [lua EXCEPT !.procs =
                        Append(@, NewProcess(alloc_id(agent), serial, guest.boot, w.serial))]
           /\ hist' = [Called EXCEPT !.made = serial]
    /\ UNCHANGED <<vm, guest, data, reg>> /\ UNCHANGEDStream

(* worker:join, and worker:close, which kills and then joins.              *)
WorkerJoin(i) ==
    /\ Call /\ lua.workers[i].held
    /\ LET h == lua.workers[i].h
           outcome == Outcome("workers", h)
       IN  /\ agent' = IF Reached THEN take_worker(agent, h) ELSE agent
           /\ lua' = [lua EXCEPT !.workers[i] = WaitEnds(@, Reached /\ outcome = "ok")]
           /\ vm' = Marked(vm, outcome)
    /\ <<agent', lua', vm'>> # <<agent, lua, vm>>
    /\ hist' = Called
    /\ UNCHANGED <<guest, data, reg>> /\ UNCHANGEDStream

WorkerDrop(i) ==
    /\ u.op = "idle" /\ lua.workers[i].held
    /\ ~DropJoins(lua.workers[i])
    /\ hist' = [hist EXCEPT !.stranded =
                    IF lua.workers[i].consumed THEN @ ELSE @ \cup {lua.workers[i].serial}]
    /\ lua' = [lua EXCEPT !.workers[i].held = FALSE]
    /\ UNCHANGED <<vm, guest, data, agent, reg>> /\ UNCHANGEDStream

-----------------------------------------------------------------------------
(* Opening a stream.                                                       *)

Opens(kind) ==
    /\ Call /\ u.kind = "none"
    /\ u' = NewStream(kind) /\ link' = "up" /\ wire' = <<>> /\ part' = 0
    /\ hist' = Called
    /\ UNCHANGED <<vm, guest, data, agent, lua>>

OpenTail(start) ==
    /\ Reached
    /\ Opens("tail")
    /\ th' = TailThread(StartOf(data, start, 0))
    /\ reg' = wrap_tail_session(reg)

(* file:tail_stream follows the path from the cached cursor.               *)
FileTailStream(i) ==
    /\ Reached
    /\ Opens("tail")
    /\ th' = TailThread(StartOf(data, "offset", lua.files[i].cursor))
    /\ reg' = wrap_tail_session(reg)

OpenFdStream(i) ==
    /\ Usable(i)
    /\ Opens("tail")
    /\ th' = FdThread(lua.files[i].h)
    /\ reg' = wrap_tail_session(reg)

OpenConsole ==
    /\ guest.up
    /\ Opens("console")
    /\ reg' = register_console_stream(reg)
    /\ UNCHANGED th

OpenCapture ==
    /\ Opens("capture")
    /\ reg' = register_capture(reg)
    /\ UNCHANGED th

-----------------------------------------------------------------------------
(* The methods of the stream.  A call that returns at once is one step; one *)
(* that blocks leaves u.op set and goes on with the reads below.            *)

Method(result) ==
    /\ Call
    /\ u' = result /\ u' # u
    /\ hist' = Called
    /\ UNCHANGED <<vm, guest, data, agent, th, wire, part, link, reg, lua>>

Next_(timeout) ==
    \/ u.kind = "tail" /\ Method(TailNext(u, timeout))
    \/ u.kind = "console" /\ timeout = "some" /\ Method(ConsoleNext(u))
    \/ u.kind = "capture" /\ timeout = "some" /\ Method(CaptureNext(u))

ReadUntil ==
    \/ u.kind = "tail" /\ Method(TailReadUntil(u, "read_until"))
    \/ u.kind = "console" /\ Method(ConsoleReadUntil(u, "read_until"))
    \/ u.kind = "capture" /\ Method(CaptureReadUntil(u, "read_until"))

Expect ==
    \/ u.kind = "tail" /\ Method(TailExpect(u))
    \/ u.kind = "console" /\ Method(ConsoleExpect(u))
    \/ u.kind = "capture" /\ Method(CaptureExpect(u))

Drain ==
    \/ u.kind = "tail" /\ Method(TailDrain(u))
    \/ u.kind = "console" /\ Method(ConsoleDrain(u))
    \/ u.kind = "capture" /\ Method(CaptureDrain(u))

(* Closing a Tail takes it off the books at once; the other two keep their  *)
(* guard until the object is collected.  What was on the way is gone.       *)
CloseStream ==
    /\ Call /\ u.st = "open"
    /\ \/ u.kind = "tail" /\ u' = TailClose(u) /\ reg' = GuardDropped(reg)
       \/ u.kind = "console" /\ u' = ConsoleClose(u) /\ UNCHANGED reg
       \/ u.kind = "capture" /\ u' = CaptureClose(u) /\ UNCHANGED reg
    /\ wire' = <<>> /\ part' = 0 /\ link' = "none"
    /\ hist' = Called
    /\ UNCHANGED <<vm, guest, data, agent, th, lua>>

(* Lua collects the stream object.                                          *)
CollectStream ==
    /\ u.op = "idle" /\ u.kind \in {"tail", "console", "capture"}
    /\ u' = [u EXCEPT !.kind = "collected", !.st = "closed", !.pending = <<>>]
    /\ reg' = GuardDropped(reg)
    /\ wire' = <<>> /\ part' = 0 /\ link' = "none"
    /\ UNCHANGED <<vm, guest, data, agent, th, lua, hist>>

-----------------------------------------------------------------------------
(* A blocked method reads.                                                  *)

Reads(kinds) == u.kind \in kinds /\ u.op # "idle"

Lates == {"no", "yes", "zero"}

ReadsOn == UNCHANGED <<vm, guest, data, agent, th, link, reg, lua>>

TailReads ==
    /\ Reads({"tail"}) /\ HasFrame(part, wire)
    /\ LET msg == FrameOf(part, wire)
           r == next_frame(msg)
           e == [u EXCEPT !.eof = r.eof]
       IN  \/ r.gives = "bytes" /\ \E late \in Lates : u' = TailBytes(u, msg.bytes, late)
           \/ r.gives = "end" /\ u' = TailEnd(e)
           \/ r.gives = "error" /\ u' = TailError(e)
    /\ wire' = AfterFrame(part, wire) /\ part' = 0
    /\ UNCHANGED hist /\ ReadsOn

TailTimesOut ==
    /\ Reads({"tail"}) /\ ~HasFrame(part, wire)
    /\ u.tmo = "set" /\ link = "up"
    /\ \E late \in Lates : u' = TailTimeout(u, late)
    /\ part' = Partial(part, wire) /\ wire' = <<>>
    /\ UNCHANGED hist /\ ReadsOn

(* The agent is gone.  Between two messages that is the end of the stream,  *)
(* inside one an error.                                                     *)
TailPeerGone ==
    /\ Reads({"tail"}) /\ ~HasFrame(part, wire) /\ link = "gone"
    /\ \/ /\ CleanEnd(part, wire)
          /\ u' = TailEnd([u EXCEPT !.eof = TRUE])
       \/ /\ Torn(part, wire)
          /\ u' = TailError(u)
    /\ part' = Partial(part, wire) /\ wire' = <<>>
    /\ UNCHANGED hist /\ ReadsOn

(* A reset connection may answer with an error before it gives out what     *)
(* had arrived.                                                             *)
TailReset ==
    /\ Reads({"tail"}) /\ link = "gone" /\ ~hist.broken
    /\ u' = TailError(u)
    /\ wire' = <<>> /\ UNCHANGED part
    /\ hist' = [hist EXCEPT !.broken = TRUE]
    /\ ReadsOn

(* The console socket and tcpdump's pipe carry bare bytes: a read takes     *)
(* what there is.                                                           *)
RawReads ==
    /\ Reads({"console", "capture"}) /\ wire # <<>>
    /\ \E late \in Lates :
          \/ u.kind = "console" /\ u' = ConsoleBytes(u, Waiting(wire), late)
          \/ u.kind = "capture" /\ u' = CaptureBytes(u, Waiting(wire), late)
    /\ wire' = <<>>
    /\ UNCHANGED <<part, hist>> /\ ReadsOn

RawTimesOut ==
    /\ Reads({"console", "capture"}) /\ wire = <<>> /\ link = "up"
    /\ \/ u.kind = "console" /\ \E late \in Lates : u' = ConsoleTimeout(u, late)
       \/ u.kind = "capture" /\ u' = CaptureTimeout(u)
    /\ UNCHANGED <<wire, part, hist>> /\ ReadsOn

RawEnds ==
    /\ Reads({"console", "capture"}) /\ wire = <<>> /\ link = "gone"
    /\ \/ u.kind = "console" /\ u' \in {ConsoleEnd(u), ConsoleError(u)}
       \/ u.kind = "capture" /\ u' = CaptureEnd(u)
    /\ UNCHANGED <<wire, part, hist>> /\ ReadsOn

-----------------------------------------------------------------------------
(* The other side.                                                          *)

GuestRuns == guest.up /\ vm # "Paused"

(* A thread of the agent takes its next turn when its last message is out.  *)
ThreadReads ==
    /\ GuestRuns /\ th.of # "none" /\ th.out = <<>>
    /\ \/ th.of = "tail" /\ th' = TailTurn(th, data) /\ UNCHANGED agent
       \/ /\ th.of = "fd"
          /\ th' = FdTurn(th, agent, data)
          /\ agent' = IF FdChunk(th, agent, data) = <<>>
                      THEN agent
                      ELSE Advance(agent, th.h, Len(FdChunk(th, agent, data)))
       \/ th' = FailedTurn(th) /\ UNCHANGED agent
    /\ th' # th
    /\ UNCHANGED <<vm, guest, data, wire, part, link, reg, lua, u, hist>>

(* It writes a piece; when nobody reads the connection any more the write   *)
(* fails and the thread ends.                                               *)
ThreadWrites ==
    /\ GuestRuns /\ th.out # <<>>
    /\ \/ /\ link = "up"
          /\ wire' = Append(wire, Head(th.out))
          /\ th' = Written(th)
          /\ hist' = [hist EXCEPT !.sent = IF Head(th.out).last THEN @ ELSE @ \o Head(th.out).msg.bytes]
       \/ /\ link # "up"
          /\ th' = NoThread
          /\ UNCHANGED <<wire, hist>>
    /\ UNCHANGED <<vm, guest, data, agent, part, link, reg, lua, u>>

(* The console prints, a packet passes.                                     *)
Emit ==
    /\ u.kind \in {"console", "capture"} /\ link = "up" /\ hist.wrote < MaxBytes
    /\ u.kind = "console" => GuestRuns
    /\ LET byte == hist.wrote + 1
       IN  /\ wire' = Append(wire, [msg |-> Data(<<byte>>), last |-> TRUE])
           /\ hist' = [hist EXCEPT !.wrote = byte, !.sent = Append(@, byte)]
    /\ UNCHANGED <<vm, guest, data, agent, th, part, link, reg, lua, u>>

CaptureExits ==
    /\ u.kind = "capture" /\ link = "up" /\ hist.calls < MaxCalls
    /\ link' = "gone" /\ hist' = Called
    /\ UNCHANGED <<vm, guest, data, agent, th, wire, part, reg, lua, u>>

(* A program in the guest appends to the file, or truncates it.             *)
GuestAppends ==
    /\ GuestRuns /\ hist.wrote < MaxBytes
    /\ data' = Append(data, hist.wrote + 1)
    /\ hist' = [hist EXCEPT !.wrote = @ + 1]
    /\ UNCHANGED <<vm, guest, agent, reg, lua>> /\ UNCHANGEDStream

GuestTruncates ==
    /\ GuestRuns /\ data # <<>> /\ hist.calls < MaxCalls
    /\ data' = <<>> /\ hist' = Called
    /\ UNCHANGED <<vm, guest, agent, reg, lua>> /\ UNCHANGEDStream

-----------------------------------------------------------------------------
(* The VM under the test's feet.                                            *)

Pause ==
    /\ Call /\ vm = "Booted" /\ guest.up
    /\ vm' = "Paused" /\ hist' = Called
    /\ UNCHANGED <<guest, data, agent, reg, lua>> /\ UNCHANGEDStream

Resume ==
    /\ Call /\ vm = "Paused" /\ guest.up
    /\ vm' = "Booted" /\ hist' = Called
    /\ UNCHANGED <<guest, data, agent, reg, lua>> /\ UNCHANGEDStream

(* reset waits for the new agent: it is there, or it has not come back in   *)
(* time, and then the VM still counts as Booted.  Neither the registry nor  *)
(* the handles are touched.                                                 *)
Reset ==
    /\ Call /\ vm = "Booted" /\ guest.up
    /\ guest' \in [up : BOOLEAN, boot : {guest.boot + 1}]
    /\ data' \in {data, <<>>}
    /\ AgentLost({"tail"})
    /\ hist' = Called
    /\ UNCHANGED vm

GuestDies ==
    /\ guest.up /\ hist.calls < MaxCalls
    /\ guest' = [guest EXCEPT !.up = FALSE]
    /\ AgentLost({"tail", "console"})
    /\ hist' = Called
    /\ UNCHANGED <<vm, data>>

-----------------------------------------------------------------------------
FileStep ==
    \/ \E mode \in {"plain", "append", "trunc"} : OpenFile(mode)
    \/ \E i \in DOMAIN lua.files :
          \/ \E n \in {1, MaxBytes} : FileRead(i, n)
          \/ FileWrite(i)
          \/ \E whence \in {"set", "cur", "end"} : FileSeek(i, whence)
          \/ StaleCall(i)
          \/ FileClose(i)
          \/ FileTailStream(i)
          \/ OpenFdStream(i)

HandleStep ==
    \/ RunAsync
    \/ \E i \in DOMAIN lua.procs : ProcWait(i) \/ ProcDrop(i)
    \/ SpawnWorker
    \/ \E i \in DOMAIN lua.workers : WorkerRunAsync(i) \/ WorkerJoin(i) \/ WorkerDrop(i)

StreamStep ==
    \/ \E start \in {"beginning", "end"} : OpenTail(start)
    \/ OpenConsole \/ OpenCapture
    \/ \E timeout \in {"none", "zero", "some"} : Next_(timeout)
    \/ ReadUntil \/ Expect \/ Drain \/ CloseStream \/ CollectStream
    \/ TailReads \/ TailTimesOut \/ TailPeerGone \/ TailReset
    \/ RawReads \/ RawTimesOut \/ RawEnds

OtherSide ==
    \/ ThreadReads \/ ThreadWrites \/ Emit \/ CaptureExits
    \/ GuestAppends \/ GuestTruncates

CallStep ==
    \/ \E call \in ShortCalls : Answered(call) \/ Oversized(call)
    \/ \E items \in Batches : Batch(items)
    \/ Missed
    \/ CutShort

VmStep == Pause \/ Resume \/ Reset \/ GuestDies

Next == CallStep \/ FileStep \/ HandleStep \/ StreamStep \/ OtherSide \/ VmStep

Spec == Init /\ [][Next]_vars

-----------------------------------------------------------------------------
(* What the host has of the stream, in order: given out, held by the call   *)
(* under way, kept for the next call.                                       *)
BytesSeen == [i \in DOMAIN u.seen |-> u.seen[i].byte]

HostHas == BytesSeen \o u.acc \o u.pending

(* Between the agent and the host: whole messages, and the one whose second *)
(* piece the agent still has to write.                                      *)
OnTheWay == Waiting(wire) \o (IF Len(th.out) = 1 THEN th.out[1].msg.bytes ELSE <<>>)

(* No byte of a stream is skipped, doubled or moved, however a message is   *)
(* split, wherever a read times out, and wherever a match ends inside what  *)
(* was read: what the host has and what is on the way is what was sent      *)
(* (FrameReader::read, the three read_until/expect/drain/next).  A console  *)
(* search never throws away what it read.                                   *)
StreamIsWhole ==
    /\ u.st = "open" /\ link = "up" => HostHas \o OnTheWay = hist.sent
    /\ IsPrefix(HostHas, hist.sent)
    /\ u.kind = "console" => \A i \in DOMAIN u.seen : u.seen[i].how # "lost"

(* A stream that reports its end has delivered everything that was put on   *)
(* the wire: a guest that dies inside a message is an error, not an end     *)
(* (FrameReader::read, TailFileSession::next_frame).                        *)
EofIsHonest ==
    u.st = "open" /\ u.eof /\ ~hist.broken => HostHas = hist.sent

(* The registry is what the test really holds, so a snapshot is refused     *)
(* while a file or a stream is open and is possible again once they are     *)
(* closed (Vm::snapshot, open_file, close, wrap_tail_session).  After a     *)
(* reset a handle number may stand for an old and a new file.               *)
RegistryIsExact ==
    LET open == {lua.files[i].h : i \in {j \in DOMAIN lua.files : lua.files[j].open}}
        guarded == u.kind = "console" \/ (u.kind = "tail" /\ u.st = "open")
    IN  /\ reg.files \subseteq open
        /\ reg.streams <=> guarded
        /\ vm \in {"Booted", "Paused"} /\ guest.boot = 1 =>
              (SnapshotAllowed(reg, vm) <=> open = {} /\ ~guarded)

(* Every entry of the agent's tables belongs to the object that made it, or *)
(* was given up by the host; and until the first reset, every object the    *)
(* test can still use has its own entry (AgentState::alloc_id, insert_*,    *)
(* take_*, Process::wait, ProcessDropGuard).                                *)
Entries(table) == {<<h, agent[table][h].serial>> : h \in DOMAIN agent[table]}

Held(handles, live(_)) ==
    {<<handles[i].h, handles[i].serial>> :
        i \in {j \in DOMAIN handles : live(handles[j]) /\ handles[j].boot = guest.boot}}

(* A worker that is joined takes its processes with it.                     *)
Orphaned(p) == \E i \in DOMAIN lua.workers : lua.workers[i].serial = p.via /\ lua.workers[i].consumed

Pairs(table) ==
    CASE table = "files" -> Held(lua.files, LAMBDA f : f.open)
      [] table = "procs" -> Held(lua.procs, LAMBDA p : p.held /\ ~p.consumed /\ ~Orphaned(p))
      [] table = "workers" -> Held(lua.workers, LAMBDA w : w.held /\ ~w.consumed)

HandleIsOwn ==
    guest.up => \A table \in {"files", "procs", "workers"} :
        /\ \A e \in Entries(table) \ Pairs(table) : e[2] \in hist.stranded
        /\ guest.boot = 1 => Pairs(table) \subseteq Entries(table)

(* The host gives a guest up only when it is gone, whatever errors its      *)
(* calls end in: a handle the agent does not know, a stale handle after a   *)
(* reset, an OS error (Vm::with_client, is_dead_signal).  The one exception *)
(* is an answer too large for a frame: the agent closes the connection, and *)
(* that looks like death.                                                   *)
DeadIsReal == vm = "Dead" => ~guest.up \/ hist.oversized
=============================================================================
