----------------------------- MODULE AgentFiles -----------------------------
(***************************************************************************)
(* What the guest agent keeps for a test that holds handles on the guest:  *)
(* its handle tables (provium-agent/src/state.rs), the operations on open  *)
(* files (ops/file.rs) and the threads that stream a path or an open file  *)
(* to the host (ops/stream.rs).                                            *)
(*                                                                         *)
(* An agent is a record of its handle counter and its three tables; a      *)
(* table entry carries `serial', the call that created it, so that two     *)
(* resources which meet under one handle can be told apart.  The guest has *)
(* one file, `data', a sequence of bytes; a byte is a number no other byte *)
(* of the behaviour has, or Hole where a write left a gap.  What a process *)
(* or a worker does is the business of AgentProcesses and GuestAgent: here *)
(* it is only an entry of its table.                                       *)
(***************************************************************************)
EXTENDS Naturals, Sequences, SequencesExt, FiniteSets, TLC

CONSTANT
    Chunk       \* the bytes one read of a stream thread takes at most

ASSUME ChunkAssumption == Chunk \in Nat \ {0}

Hole == 0

-----------------------------------------------------------------------------
(* The handle tables.                                                      *)

FreshAgent == [next |-> 1, files |-> <<>>, procs |-> <<>>, workers |-> <<>>]

(* A plausible slip: number a handle by how many are in use.               *)
alloc_id_reused(a) ==
    1 + Cardinality(DOMAIN a.files \cup DOMAIN a.procs \cup DOMAIN a.workers)

(* A freed handle is not given out again: one counter serves the three     *)
(* tables and only grows.                                                  *)
alloc_id(a) == a.next

Insert(a, table, entry) ==
    [a EXCEPT !.next = @ + 1, ![table] = (alloc_id(a) :> entry) @@ @]

Drop(a, table, h) == [a EXCEPT ![table] = Restrict(@, DOMAIN @ \ {h})]

insert_file(a, serial, mode) ==
    Insert(a, "files", [serial |-> serial, pos |-> 0, append |-> mode = "append"])
take_file(a, h) == Drop(a, "files", h)
insert_process(a, serial) == Insert(a, "procs", [serial |-> serial, via |-> 0])
take_process(a, h) == Drop(a, "procs", h)
insert_worker(a, serial) == Insert(a, "workers", [serial |-> serial])

(* A process that a worker runs is filed with the handle of that worker,   *)
(* and forgotten with it.                                                  *)
insert_worker_process(a, serial, w) == Insert(a, "procs", [serial |-> serial, via |-> w])
remove_worker_processes_of(a, w) ==
    [a EXCEPT !.procs = Restrict(@, {h \in DOMAIN @ : @[h].via # w})]
take_worker(a, w) == Drop(remove_worker_processes_of(a, w), "workers", w)

-----------------------------------------------------------------------------
(* Operations on an open file.  Each is refused with EBADF when the handle *)
(* is not in the table; the callers below test that.                       *)

Known(a, h) == h \in DOMAIN a.files

(* open_file: opening for truncation empties the file.                     *)
OpenedData(data, mode) == IF mode = "trunc" THEN <<>> ELSE data

(* read: at most n bytes from the file's offset, which moves past them.    *)
read(a, data, h, n) ==
    SubSeq(data, a.files[h].pos + 1, a.files[h].pos + Min({n, Len(data) - a.files[h].pos}))

Advance(a, h, n) == [a EXCEPT !.files[h].pos = @ + n]

(* write: at the offset, or at the end of a file opened for append; a      *)
(* write beyond the end leaves a hole.                                     *)
WriteAt(a, data, h) == IF a.files[h].append THEN Len(data) ELSE a.files[h].pos

write(a, data, h, byte) ==
    LET at == WriteAt(a, data, h)
    IN  [i \in 1..Max({Len(data), at + 1}) |->
            IF i = at + 1 THEN byte ELSE IF i <= Len(data) THEN data[i] ELSE Hole]

AfterWrite(a, data, h) == [a EXCEPT !.files[h].pos = WriteAt(a, data, h) + 1]

(* seek: from the start, from the offset or from the end.                  *)
seek(a, data, h, whence) ==
    [a EXCEPT !.files[h].pos =
        CASE whence = "set" -> 0 [] whence = "cur" -> @ [] whence = "end" -> Len(data)]

close(a, h) == take_file(a, h)

-----------------------------------------------------------------------------
(* A stream thread: what it follows, how far it has read, and the message  *)
(* it is writing.  A message goes out in two pieces, since one write may   *)
(* reach the other side in parts.                                          *)

NoThread == [of |-> "none", pos |-> 0, h |-> 0, out |-> <<>>]

Pieces(msg) == << [msg |-> msg, last |-> FALSE], [msg |-> msg, last |-> TRUE] >>

Data(bytes) == [is |-> "frame", bytes |-> bytes]
End == [is |-> "end", bytes |-> <<>>]
EndInError == [is |-> "error", bytes |-> <<>>]

(* tail_file opens the path itself and seeks to where the host asked.      *)
TailThread(pos) == [NoThread EXCEPT !.of = "tail", !.pos = pos]

StartOf(data, start, cursor) ==
    CASE start = "beginning" -> 0 [] start = "end" -> Len(data) [] start = "offset" -> cursor

(* fd_stream shares the offset of the handle it follows.                   *)
FdThread(h) == [NoThread EXCEPT !.of = "fd", !.h = h]

(* tail_file, one turn of its loop: the next chunk, or the end of the      *)
(* stream when the file has become shorter than what was read of it, or a  *)
(* pause.                                                                  *)
TailChunk(th, data) ==
    SubSeq(data, th.pos + 1, th.pos + Min({Chunk, Len(data) - th.pos}))

TailTurn(th, data) ==
    CASE th.pos < Len(data) ->
            [th EXCEPT !.pos = @ + Len(TailChunk(th, data)),
                       !.out = Pieces(Data(TailChunk(th, data)))]
      [] th.pos > Len(data) -> [th EXCEPT !.out = Pieces(End)]
      [] OTHER -> th

(* fd_stream, one turn: the next chunk of the shared handle, or, once the  *)
(* handle is gone, the end of the stream.                                  *)
FdChunk(th, a, data) == IF Known(a, th.h) THEN read(a, data, th.h, Chunk) ELSE <<>>

FdTurn(th, a, data) ==
    CASE FdChunk(th, a, data) # <<>> -> [th EXCEPT !.out = Pieces(Data(FdChunk(th, a, data)))]
      [] ~Known(a, th.h) -> [th EXCEPT !.out = Pieces(End)]
      [] OTHER -> th

(* Either loop ends with an error message when its read fails.             *)
FailedTurn(th) == [th EXCEPT !.out = Pieces(EndInError)]

(* A message has been written: the thread stops after an end message.      *)
Written(th) ==
    IF Len(th.out) = 1 /\ th.out[1].msg.is # "frame"
    THEN NoThread
    ELSE [th EXCEPT !.out = Tail(@)]
=============================================================================
