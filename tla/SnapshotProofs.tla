-------------------------- MODULE SnapshotProofs --------------------------
(***************************************************************************)
(* A snapshot that follows no abandoned one is whole, for any callers and  *)
(* any number of commands on a connection (QmpConnection).                 *)
(*                                                                         *)
(* While no snapshot has been given up, the one under way is the only      *)
(* migration there is a trace of: its command in the queue, then the       *)
(* migration in QEMU, its end on the wire, its end in the log.             *)
(***************************************************************************)
EXTENDS QmpProofs

Migrating(c) == call[c].op = "migrate"
Asked(c) == call[c].pc \in {"release", "recv", "forget"}
Flying(c) == call[c].pc \in {"release", "recv", "forget", "scan", "asleep"}

\* One snapshot at a time; wait_event scans from the mark on
Shape ==
    /\ \A c \in Callers :
        /\ Migrating(c) => call[c].pc \in {"insert", "permit", "write"} \/ Flying(c)
        /\ call[c].pc \in {"scan", "asleep"} =>
            Migrating(c) /\ call[c].id \in Ids /\ call[c].mark <= call[c].next
    /\ \A c, d \in Callers : Migrating(c) /\ Migrating(d) => c = d

SnapTypes == snap \in [partial : BOOLEAN, abandoned : BOOLEAN]

\* The command of the snapshot under way was carried out
Mine(i) == \E c \in Callers :
    Migrating(c) /\ Flying(c) /\ call[c].id = i /\ qemu.did[i] = "return"

Ended(s, k) == s[k].kind = "ended"

Queued == \A k \in 1..Len(qemu.out) : qemu.out[k].op = "migrate" =>
    \E c \in Callers : Migrating(c) /\ Asked(c) /\ call[c].id = qemu.out[k].id

Active == qemu.active # 0 => Mine(qemu.active)

OnTheWire == \A k \in 1..Len(qemu.wire) : Ended(qemu.wire, k) =>
    /\ Mine(qemu.wire[k].id) /\ qemu.active = 0
    /\ \A j \in 1..Len(qemu.wire) : Ended(qemu.wire, j) => j = k

Logged == \A c \in Callers : Migrating(c) =>
    \A k \in 1..Len(log) : k > call[c].mark /\ Ended(log, k) =>
        /\ Flying(c) /\ qemu.did[call[c].id] = "return" /\ qemu.active = 0
        /\ \A j \in 1..Len(qemu.wire) : ~Ended(qemu.wire, j)

Traces == Queued /\ Active /\ OnTheWire /\ Logged

SInv == Shape /\ SnapTypes /\ SnapshotIsWhole /\ (~snap.abandoned => Traces)

\* There is no trace of a migration with QEMU or on the wire
Still ==
    /\ \A k \in 1..Len(qemu.out) : qemu.out[k].op # "migrate"
    /\ qemu.active = 0
    /\ \A k \in 1..Len(qemu.wire) : ~Ended(qemu.wire, k)

\* Without a snapshot past its command there is no trace.
LEMMA NobodyStill ==
  ASSUME Traces, \A c \in Callers : ~(Migrating(c) /\ Flying(c))
  PROVE  Still
BY DEF Traces, Queued, Active, OnTheWire, Mine, Still, Asked, Flying

\* What most steps do for the snapshot under way
SnapshotKept == \A c \in Callers :
    /\ Migrating(c)' => Migrating(c) /\ call'[c].mark = call[c].mark
    /\ Migrating(c) /\ Flying(c) => Migrating(c)' /\ Flying(c)' /\ call'[c].id = call[c].id

AskedKept == \A c \in Callers : Migrating(c) /\ Asked(c) => Asked(c)'

\* A step that keeps it, and what there is of QEMU's side, keeps the traces.
LEMMA TracesKept ==
  ASSUME Traces, SnapshotKept, UNCHANGED log,
         qemu'.did = qemu.did, qemu'.active = qemu.active,
         Queued' \/ (AskedKept /\ (qemu'.out = qemu.out \/ Len(qemu'.out) = 0)),
         qemu'.wire = qemu.wire \/ Len(qemu'.wire) = 0
  PROVE  Traces'
<1>1. \A i : Mine(i) => Mine(i)'
  BY Zenon DEF Mine, SnapshotKept
<1>2. Queued'
  BY DEF Traces, Queued, SnapshotKept, AskedKept, Asked, Flying
<1>3. Active'
  BY <1>1 DEF Traces, Active
<1>4. OnTheWire'
  BY <1>1 DEF Traces, OnTheWire, Ended
<1>5. Logged'
  BY DEF Traces, Logged, SnapshotKept, Ended
<1>. QED BY <1>2, <1>3, <1>4, <1>5 DEF Traces

\* A snapshot that leaves no trace behind may end.
LEMMA TracesEnd ==
  ASSUME Shape, NEW c \in Callers, Migrating(c), Still, UNCHANGED qemu, ~Migrating(c)',
         \A d \in Callers : d # c => call'[d] = call[d]
  PROVE  Traces'
<1>1. \A d \in Callers : ~Migrating(d)'
  BY DEF Shape, Migrating
<1>. QED BY <1>1 DEF Traces, Queued, Active, OnTheWire, Logged, Still, Mine, Ended

\* What a step does to one call decides whether the calls keep their shape.
LEMMA ShapeOf ==
  ASSUME Shape, NEW c \in Callers, \A d \in Callers : d # c => call'[d] = call[d],
         Migrating(c)' => Migrating(c) \/ \A d \in Callers : ~Migrating(d),
         Migrating(c)' => call'[c].pc \in {"insert", "permit", "write"} \/ Flying(c)',
         call'[c].pc \in {"scan", "asleep"} =>
            Migrating(c)' /\ call'[c].id \in Ids /\ call'[c].mark <= call'[c].next
  PROVE  Shape'
BY DEF Shape, Migrating, Flying

\* The steps that leave the calls, the snapshots and the log alone.
LEMMA OutsideStep ==
  ASSUME CInv, SInv, UNCHANGED <<call, snap, log>>,
         qemu'.did = qemu.did, qemu'.active = qemu.active,
         qemu'.out = qemu.out \/ Len(qemu'.out) = 0,
         qemu'.wire = qemu.wire \/ Len(qemu'.wire) = 0
  PROVE  SInv'
<1>1. Shape' /\ SnapTypes' /\ SnapshotIsWhole'
  BY DEF SInv, Shape, SnapTypes, SnapshotIsWhole, Migrating, Flying
<1>2. SnapshotKept /\ AskedKept
  BY DEF SnapshotKept, AskedKept, Migrating, Flying, Asked
<1>3. ~snap.abandoned => Traces'
  BY <1>2, TracesKept DEF SInv
<1>. QED BY <1>1, <1>3 DEF SInv

\* The reader takes a line off the wire: a reply changes nothing, and the end of a
\* migration goes from the wire to the log.
LEMMA TakeStep ==
  ASSUME CInv, SInv, ReadEvent \/ ReadReply \/ ReadLate
  PROVE  SInv'
<1>1. UNCHANGED <<call, snap>>
  BY DEF ReadEvent, ReadReply, ReadLate, history
<1>2. Shape' /\ SnapTypes' /\ SnapshotIsWhole'
  BY <1>1 DEF SInv, Shape, SnapTypes, SnapshotIsWhole, Migrating, Flying
<1>. SUFFICES ASSUME Traces PROVE Traces'
  BY <1>1, <1>2 DEF SInv
<1>3. qemu.wire \in Seq(Message) /\ qemu.wire # <<>> /\ qemu' = [qemu EXCEPT !.wire = Tail(qemu.wire)]
  BY DEF CInv, QemuTypes, Monitor, ReadEvent, ReadReply, ReadLate, Incoming, TakeLine
<1>4. /\ qemu'.did = qemu.did /\ qemu'.out = qemu.out /\ qemu'.active = qemu.active
      /\ qemu'.wire = Tail(qemu.wire)
  BY <1>3 DEF CInv, QemuTypes, Monitor
<1>5. /\ Len(qemu'.wire) = Len(qemu.wire) - 1 /\ Len(qemu.wire) \in Nat
      /\ \A k \in 1..Len(qemu'.wire) : qemu'.wire[k] = qemu.wire[k + 1]
  BY <1>3, <1>4, SeqTail, SeqLen
<1>6. 1 \in 1..Len(qemu.wire) /\ Head(qemu.wire) = qemu.wire[1]
  BY <1>3, SeqEmpty, SeqLen
<1>7. \A k \in 1..Len(qemu'.wire) : k + 1 \in 1..Len(qemu.wire) /\ k + 1 # 1
  BY <1>5
<1>8. Queued'
  BY <1>1, <1>4 DEF Traces, Queued, Migrating, Asked
<1>9. Active'
  BY <1>1, <1>4 DEF Traces, Active, Mine, Migrating, Flying
<1>10. OnTheWire'
  <2>. SUFFICES ASSUME NEW k \in 1..Len(qemu'.wire), Ended(qemu'.wire, k)
                PROVE  /\ Mine(qemu.wire[k].id)' /\ qemu'.active = 0
                       /\ \A j \in 1..Len(qemu'.wire) : Ended(qemu'.wire, j) => j = k
    BY DEF OnTheWire, Ended
  <2>1. k + 1 \in 1..Len(qemu.wire) /\ Ended(qemu.wire, k + 1) /\ qemu'.wire[k] = qemu.wire[k + 1]
    BY <1>5, <1>7 DEF Ended
  <2>2. /\ Mine(qemu.wire[k + 1].id) /\ qemu.active = 0
        /\ \A j \in 1..Len(qemu.wire) : Ended(qemu.wire, j) => j = k + 1
    BY <2>1 DEF Traces, OnTheWire
  <2>3. ASSUME NEW j \in 1..Len(qemu'.wire), Ended(qemu'.wire, j) PROVE j = k
    <3>1. j + 1 = k + 1
      BY <1>5, <1>7, <2>2, <2>3 DEF Ended
    <3>. QED BY <3>1
  <2>4. Mine(qemu.wire[k].id)'
    BY <1>1, <1>4, <2>1, <2>2 DEF Mine, Migrating, Flying
  <2>. QED BY <1>4, <2>2, <2>3, <2>4
<1>11. ASSUME UNCHANGED log PROVE Logged'
  BY <1>1, <1>4, <1>5, <1>7, <1>11 DEF Traces, Logged, Migrating, Flying, Ended
<1>12. CASE ReadEvent
  <2>1. log' = Append(log, Head(qemu.wire)) /\ log \in Seq(Message) /\ Head(qemu.wire) \in Message
    BY <1>3, <1>12, SeqTail DEF ReadEvent, CInv, Types
  <2>2. /\ Len(log') = Len(log) + 1 /\ Len(log) \in Nat
        /\ \A k \in 1..Len(log) : log'[k] = log[k]
        /\ log'[Len(log) + 1] = qemu.wire[1]
    BY <1>6, <2>1, SeqAppend, SeqLen
  <2>. SUFFICES ASSUME NEW c \in Callers, Migrating(c), NEW k \in 1..Len(log'),
                       k > call[c].mark, Ended(log', k)
                PROVE  /\ Flying(c) /\ qemu.did[call[c].id] = "return" /\ qemu.active = 0
                       /\ \A j \in 1..Len(qemu'.wire) : ~Ended(qemu'.wire, j)
    <3>1. Logged'
      BY <1>1, <1>4 DEF Logged, Migrating, Flying, Ended
    <3>. QED BY <1>8, <1>9, <1>10, <3>1 DEF Traces
  <2>3. CASE k \in 1..Len(log)
    <3>1. Ended(log, k)
      BY <2>2, <2>3 DEF Ended
    <3>2. /\ Flying(c) /\ qemu.did[call[c].id] = "return" /\ qemu.active = 0
          /\ \A j \in 1..Len(qemu.wire) : ~Ended(qemu.wire, j)
      BY <2>3, <3>1 DEF Traces, Logged
    <3>. QED BY Zenon, <1>5, <1>7, <3>2 DEF Ended
  <2>4. CASE k = Len(log) + 1
    <3>1. Ended(qemu.wire, 1)
      BY <2>2, <2>4 DEF Ended
    <3>2. /\ Mine(qemu.wire[1].id) /\ qemu.active = 0
          /\ \A j \in 1..Len(qemu.wire) : Ended(qemu.wire, j) => j = 1
      BY <1>6, <3>1 DEF Traces, OnTheWire
    <3>3. Flying(c) /\ qemu.did[call[c].id] = "return"
      BY <3>2 DEF Mine, SInv, Shape
    <3>4. \A j \in 1..Len(qemu'.wire) : ~Ended(qemu'.wire, j)
      BY Zenon, <1>5, <1>7, <3>2 DEF Ended
    <3>. QED BY <3>2, <3>3, <3>4
  <2>. QED BY <2>2, <2>3, <2>4
<1>13. CASE ~ReadEvent
  <2>1. UNCHANGED log
    BY <1>13 DEF ReadReply, ReadLate, events
  <2>. QED BY <1>8, <1>9, <1>10, <1>11, <2>1 DEF Traces
<1>. QED BY <1>12, <1>13

\* A snapshot past its command has an id.
LEMMA FlyingId ==
  ASSUME CInv, Shape, NEW c \in Callers, Flying(c)
  PROVE  call[c].id \in Ids /\ call[c].id # 0
BY QmpAssumption DEF CInv, Ours, Live, Shape, Flying, Ids

\* QEMU starts a migration for the snapshot under way, when its command comes up.
LEMMA ServeTraces ==
  ASSUME CInv, SInv, Traces, Serve
  PROVE  Traces'
<1>0. PICK cmd \in Lines, r \in Answered, t \in Seq(Message) : Serves(cmd, r, t)
  BY ServeIs DEF CInv
<1>1. UNCHANGED <<call, log>> /\ Shape
  BY DEF Serve, events, SInv
<1>2. /\ cmd.id \in Ids /\ qemu.did[cmd.id] = "no"
      /\ qemu'.did[cmd.id] = r /\ \A i \in Ids : i # cmd.id => qemu'.did[i] = qemu.did[i]
  BY <1>0 DEF Serves
<1>3. \A k \in 1..Len(qemu'.wire) : Ended(qemu'.wire, k) =>
        k \in 1..Len(qemu.wire) /\ qemu'.wire[k] = qemu.wire[k] /\ Ended(qemu.wire, k)
  <2>1. qemu'.wire = Told(t) /\ \A n \in 1..Len(t) : t[n].kind # "ended"
    BY <1>0 DEF Serves
  <2>2. QemuTypes
    BY DEF CInv
  <2>3. ASSUME NEW k \in 1..Len(qemu'.wire), Ended(qemu'.wire, k)
        PROVE  k \in 1..Len(qemu.wire) /\ qemu'.wire[k] = qemu.wire[k] /\ Ended(qemu.wire, k)
    <3>1. \/ k \in 1..Len(qemu.wire) /\ Told(t)[k] = qemu.wire[k]
          \/ \E j \in 1..Len(t) : k = Len(qemu.wire) + j /\ Told(t)[k] = t[j]
      BY <2>1, <2>2, ToldIs
    <3>. QED BY <2>1, <2>3, <3>1 DEF Ended
  <2>. QED BY <2>3
<1>4. ASSUME NEW i, Mine(i) PROVE i \in Ids /\ i # cmd.id /\ i # 0 /\ qemu'.did[i] = "return"
  BY <1>1, <1>2, <1>4, FlyingId DEF Mine
<1>5. ASSUME NEW i, Mine(i) PROVE \E c \in Callers :
        Migrating(c)' /\ Flying(c)' /\ call'[c].id = i /\ qemu'.did[i] = "return"
  BY <1>1, <1>4, <1>5 DEF Mine, Migrating, Flying
<1>6. CASE cmd.op = "migrate" /\ r = "return"
  <2>1. PICK c \in Callers : Migrating(c) /\ Asked(c) /\ call[c].id = cmd.id
    BY <1>0, <1>6 DEF Serves, Traces, Queued
  <2>2. qemu.active = 0 /\ qemu'.active = cmd.id
    BY <1>0, <1>6 DEF Serves
  <2>3. \A i : ~Mine(i)
    BY <1>1, <1>2, <2>1 DEF Mine, Shape
  <2>4. Queued'
    BY <1>0, <1>1 DEF Traces, Queued, Serves, Migrating, Asked
  <2>5. Active'
    BY <1>1, <1>2, <1>6, <2>1, <2>2 DEF Active, Mine, Migrating, Flying, Asked
  <2>6. OnTheWire'
    BY <1>3, <2>3 DEF Traces, OnTheWire, Ended
  <2>7. Logged'
    <3>1. ASSUME NEW d \in Callers, Migrating(d), NEW k \in 1..Len(log), k > call[d].mark, Ended(log, k)
          PROVE  FALSE
      BY Zenon, <1>1, <1>2, <2>1, <3>1 DEF Traces, Logged, Shape
    <3>. QED BY <1>1, <3>1 DEF Logged, Migrating, Ended
  <2>. QED BY <2>4, <2>5, <2>6, <2>7 DEF Traces
<1>7. CASE ~(cmd.op = "migrate" /\ r = "return")
  <2>1. qemu'.active = qemu.active
    BY <1>0, <1>7 DEF Serves
  <2>2. Queued'
    BY <1>0, <1>1 DEF Traces, Queued, Serves, Migrating, Asked
  <2>3. Active'
    BY Zenon, <1>5, <2>1 DEF Traces, Active, Mine
  <2>4. OnTheWire'
    <3>. SUFFICES ASSUME NEW k \in 1..Len(qemu'.wire), Ended(qemu'.wire, k)
                  PROVE  /\ Mine(qemu.wire[k].id)' /\ qemu'.active = 0
                         /\ \A j \in 1..Len(qemu'.wire) : Ended(qemu'.wire, j) => j = k
      BY DEF OnTheWire, Ended
    <3>1. k \in 1..Len(qemu.wire) /\ qemu'.wire[k] = qemu.wire[k] /\ Ended(qemu.wire, k)
      BY <1>3
    <3>2. /\ Mine(qemu.wire[k].id) /\ qemu.active = 0
          /\ \A j \in 1..Len(qemu.wire) : Ended(qemu.wire, j) => j = k
      BY <3>1 DEF Traces, OnTheWire
    <3>3. Mine(qemu.wire[k].id)'
      BY Zenon, <1>5, <3>1, <3>2 DEF Mine
    <3>. QED BY <1>3, <2>1, <3>2, <3>3
  <2>5. Logged'
    <3>1. ASSUME NEW d \in Callers, Migrating(d), NEW k \in 1..Len(log), k > call[d].mark, Ended(log, k)
          PROVE  /\ Flying(d) /\ qemu'.did[call[d].id] = "return" /\ qemu'.active = 0
                 /\ \A j \in 1..Len(qemu'.wire) : ~Ended(qemu'.wire, j)
      <4>1. /\ Flying(d) /\ qemu.did[call[d].id] = "return" /\ qemu.active = 0
            /\ \A j \in 1..Len(qemu.wire) : ~Ended(qemu.wire, j)
        BY <3>1 DEF Traces, Logged
      <4>2. Mine(call[d].id)
        BY <3>1, <4>1 DEF Mine
      <4>. QED BY <1>3, <1>4, <2>1, <4>1, <4>2
    <3>. QED BY <1>1, <3>1 DEF Logged, Migrating, Flying, Ended
  <2>. QED BY <2>2, <2>3, <2>4, <2>5 DEF Traces
<1>. QED BY <1>6, <1>7

\* The migration under way ends: its end goes onto the wire, unless the reader has
\* gone.
LEMMA MigrationEndsTraces ==
  ASSUME CInv, SInv, Traces, MigrationEnds
  PROVE  Traces'
<1>1. UNCHANGED <<call, log>> /\ qemu.active # 0
  BY DEF MigrationEnds, events
<1>2. qemu.active \in Nat /\ QemuTypes
  BY DEF CInv, QemuTypes, Monitor
<1>3. PICK r \in {"return", "error"} :
        qemu' = [qemu EXCEPT !.active = 0,
                             !.wire = Told(<<[kind |-> "ended", id |-> qemu.active, answer |-> r]>>)]
  BY Zenon DEF MigrationEnds
<1>. DEFINE t == <<[kind |-> "ended", id |-> qemu.active, answer |-> r]>>
<1>4. t \in Seq(Message) /\ Len(t) = 1 /\ t[1].id = qemu.active
  <2>1. t \in Seq(Message)
    BY Zenon, <1>2, ServeSays
  <2>. QED BY <2>1
<1>5. qemu'.out = qemu.out /\ qemu'.wire = Told(t) /\ qemu'.did = qemu.did /\ qemu'.active = 0
  BY <1>3 DEF CInv, QemuTypes, Monitor
<1>. HIDE DEF t
<1>6. \A k \in 1..Len(qemu.wire) : ~Ended(qemu.wire, k)
  BY <1>1 DEF Traces, OnTheWire
<1>7. ASSUME NEW k \in 1..Len(qemu'.wire), Ended(qemu'.wire, k)
      PROVE  k = Len(qemu.wire) + 1 /\ qemu'.wire[k].id = qemu.active
  <2>1. \/ k \in 1..Len(qemu.wire) /\ Told(t)[k] = qemu.wire[k]
        \/ \E j \in 1..Len(t) : k = Len(qemu.wire) + j /\ Told(t)[k] = t[j]
    <3>1. QemuTypes /\ t \in Seq(Message) /\ k \in 1..Len(Told(t))
      BY Zenon, <1>2, <1>4, <1>5, <1>7 DEF CInv
    <3>. QED BY Zenon, <3>1, ToldIs
  <2>. QED BY <1>4, <1>5, <1>6, <1>7, <2>1 DEF Ended
<1>8. Queued' /\ Active'
  BY <1>1, <1>5 DEF Traces, Queued, Active, Migrating, Asked
<1>9. OnTheWire'
  <2>1. PICK c \in Callers : Migrating(c) /\ Flying(c) /\ call[c].id = qemu.active /\ qemu.did[qemu.active] = "return"
    BY <1>1 DEF Traces, Active, Mine
  <2>. QED BY <1>1, <1>5, <1>7, <2>1 DEF OnTheWire, Mine, Migrating, Flying, Ended
<1>10. Logged'
  <2>1. ASSUME NEW d \in Callers, Migrating(d), NEW k \in 1..Len(log), k > call[d].mark, Ended(log, k)
        PROVE  FALSE
    BY <1>1, <2>1 DEF Traces, Logged
  <2>. QED BY <1>1, <2>1 DEF Logged, Migrating, Ended
<1>. QED BY <1>8, <1>9, <1>10 DEF Traces

\* What a step may do to one call on its way to the end of a snapshot
Onward(c) ==
    /\ \A d \in Callers : d # c => call'[d] = call[d]
    /\ call'[c].op = call[c].op /\ call'[c].mark = call[c].mark
    /\ Migrating(c) => call'[c].pc \in {"insert", "permit", "write"} \/ Flying(c)'
    /\ Flying(c) /\ Migrating(c) => Flying(c)' /\ call'[c].id = call[c].id
    /\ Asked(c) /\ Migrating(c) => Asked(c)'
    /\ call'[c].pc \in {"scan", "asleep"} =>
        /\ call[c].pc \in {"scan", "asleep"} /\ call'[c].id = call[c].id
        /\ call'[c].mark <= call'[c].next

\* Such a step keeps the shape of the calls, and the snapshot under way.
LEMMA OnwardKeeps ==
  ASSUME Shape, NEW c \in Callers, Onward(c)
  PROVE  Shape' /\ SnapshotKept /\ AskedKept
<1>1. Shape'
  BY Zenon, ShapeOf DEF Onward, Shape, Migrating
<1>2. SnapshotKept /\ AskedKept
  BY DEF Onward, SnapshotKept, AskedKept, Migrating, Flying, Asked
<1>. QED BY <1>1, <1>2

\* The steps of a call between its first and its last.
LEMMA OnwardIs ==
  ASSUME CInv, Shape, NEW c \in Callers,
         \/ Insert(c) \/ NoPermit(c) \/ TakePermit(c) \/ Write(c) \/ WriteFails(c) \/ Release(c)
         \/ ReceiveTimesOut(c) \/ SleepOnLog(c) \/ Woken(c) \/ Join(c)
  PROVE  Onward(c)
<1>. USE DEF CInv
<1>0. /\ call[c].mark \in Nat /\ call[c].next \in Nat /\ Len(log) \in Nat
      /\ call[c].pc \in {"scan", "asleep"} => call[c].mark <= call[c].next
  BY SeqLen DEF CallTypes, Call, Types, Shape
<1>1. \A d \in Callers : d # c => call'[d] = call[d]
  BY DEF Insert, NoPermit, TakePermit, Write, WriteFails, Release, Sent, ReceiveTimesOut, SleepOnLog,
     Woken, Join, Failing, Goto, CallTypes
<1>2. CASE Insert(c)
  <2>1. call[c].pc = "insert" /\ call'[c].pc = "permit" /\ call'[c].op = call[c].op /\ call'[c].mark = call[c].mark
    BY <1>2 DEF Insert, Free, CallTypes, Call
  <2>. QED BY Zenon, <1>1, <2>1 DEF Onward, Flying, Asked
<1>3. ASSUME NEW p, call' = [call EXCEPT ![c].pc = p]
      PROVE  /\ call'[c].pc = p /\ call'[c].op = call[c].op /\ call'[c].mark = call[c].mark
             /\ call'[c].id = call[c].id /\ call'[c].next = call[c].next
  BY <1>3 DEF CallTypes, Call
<1>4. CASE NoPermit(c) \/ TakePermit(c) \/ Write(c) \/ Release(c) \/ ReceiveTimesOut(c)
  <2>1. \/ Failing(c) /\ call[c].pc \in {"permit", "release", "recv"}
        \/ Goto(c, "write") /\ call[c].pc = "permit"
        \/ Goto(c, "release") /\ call[c].pc = "write"
        \/ Goto(c, "recv") /\ call[c].pc = "release"
    BY <1>4 DEF NoPermit, TakePermit, Write, Release, Sent, ReceiveTimesOut, Free
  <2>2. \/ call'[c].pc = "forget" /\ call[c].pc \in {"permit", "release", "recv"}
        \/ call'[c].pc = "write" /\ call[c].pc = "permit"
        \/ call'[c].pc = "release" /\ call[c].pc = "write"
        \/ call'[c].pc = "recv" /\ call[c].pc = "release"
    BY <1>3, <2>1 DEF Failing, Goto
  <2>3. /\ call'[c].op = call[c].op /\ call'[c].mark = call[c].mark
        /\ call'[c].id = call[c].id
    BY <1>3, <2>1 DEF Failing, Goto
  <2>. QED BY Zenon, <1>1, <2>2, <2>3 DEF Onward, Flying, Asked
<1>5. CASE WriteFails(c)
  <2>1. call' = [call EXCEPT ![c].pc = "release", ![c].failed = TRUE] /\ call[c].pc = "write"
    BY <1>5, Zenon DEF WriteFails, Free
  <2>2. /\ call'[c].pc = "release" /\ call'[c].op = call[c].op /\ call'[c].mark = call[c].mark
        /\ call'[c].id = call[c].id
    BY <2>1 DEF CallTypes, Call
  <2>. QED BY Zenon, <1>1, <2>1, <2>2 DEF Onward, Flying, Asked
<1>6. CASE SleepOnLog(c)
  <2>1. /\ call[c].pc = "scan" /\ call'[c].pc = "asleep" /\ call'[c].op = call[c].op
        /\ call'[c].mark = call[c].mark /\ call'[c].id = call[c].id
        /\ call'[c].next = IF call[c].next >= Len(log) THEN call[c].next ELSE Len(log)
    BY <1>6 DEF SleepOnLog, Free, CallTypes, Call
  <2>2. call'[c].mark <= call'[c].next
    BY <1>0, <2>1
  <2>. QED BY Zenon, <1>1, <2>1, <2>2 DEF Onward, Flying, Asked
<1>7. CASE Woken(c)
  <2>1. /\ call[c].pc = "asleep" /\ call'[c].pc = "scan" /\ call'[c].op = call[c].op
        /\ call'[c].mark = call[c].mark /\ call'[c].id = call[c].id /\ call'[c].next = call[c].next
    BY Zenon, <1>3, <1>7 DEF Woken, Free, Goto
  <2>. QED BY Zenon, <1>0, <1>1, <2>1 DEF Onward, Flying, Asked
<1>8. CASE Join(c)
  <2>1. /\ call[c].pc = "join" /\ call'[c].pc = "gone" /\ call'[c].op = call[c].op
        /\ call'[c].mark = call[c].mark
    BY Zenon, <1>3, <1>8 DEF Join, Free, Goto
  <2>. QED BY Zenon, <1>1, <2>1 DEF Onward, Flying, Asked, Shape
<1>. QED BY <1>2, <1>4, <1>5, <1>6, <1>7, <1>8

\* They keep the invariant of the snapshots; a command written is that of its caller.
LEMMA OnwardStep ==
  ASSUME CInv, SInv, NEW c \in Callers,
         \/ Insert(c) \/ NoPermit(c) \/ TakePermit(c) \/ Write(c) \/ WriteFails(c) \/ Release(c)
         \/ ReceiveTimesOut(c) \/ SleepOnLog(c) \/ Woken(c) \/ Join(c)
  PROVE  SInv'
<1>1. Onward(c) /\ Shape' /\ SnapshotKept /\ AskedKept
  BY OnwardIs, OnwardKeeps DEF SInv
<1>2. UNCHANGED <<snap, log>>
  BY DEF Insert, NoPermit, TakePermit, Write, WriteFails, Release, ReceiveTimesOut, SleepOnLog,
     Woken, Join, history, events
<1>3. SnapTypes' /\ SnapshotIsWhole'
  BY <1>2 DEF SInv, SnapTypes, SnapshotIsWhole
<1>. SUFFICES ASSUME Traces PROVE Traces'
  BY <1>1, <1>2, <1>3 DEF SInv
<1>4. CASE UNCHANGED qemu
  BY <1>1, <1>2, <1>4, TracesKept
<1>5. CASE qemu' = [qemu EXCEPT !.torn = TRUE]
  <2>1. /\ qemu'.did = qemu.did /\ qemu'.active = qemu.active
        /\ qemu'.out = qemu.out /\ qemu'.wire = qemu.wire
    BY <1>5 DEF CInv, QemuTypes, Monitor
  <2>. QED BY Zenon, <1>1, <1>2, <2>1, TracesKept
<1>6. CASE qemu' = [qemu EXCEPT !.out = Append(qemu.out, Line(c))] /\ (Write(c) \/ WriteFails(c))
  <2>1. /\ qemu'.did = qemu.did /\ qemu'.active = qemu.active
        /\ qemu'.out = Append(qemu.out, Line(c)) /\ qemu'.wire = qemu.wire
    BY <1>6 DEF CInv, QemuTypes, Monitor
  <2>2. call[c].pc = "write" /\ call'[c].pc = "release" /\ call'[c].id = call[c].id /\ call'[c].op = call[c].op
    BY <1>6 DEF Write, WriteFails, Goto, Free, CInv, CallTypes, Call
  <2>3. Line(c) \in Lines /\ qemu.out \in Seq(Lines)
    BY Zenon, <2>2, OutIds DEF CInv, Ours, Live, Line, Lines, CallTypes, Call
  <2>4. /\ Len(qemu'.out) = Len(qemu.out) + 1 /\ Len(qemu.out) \in Nat
        /\ \A k \in 1..Len(qemu.out) : qemu'.out[k] = qemu.out[k]
        /\ qemu'.out[Len(qemu.out) + 1] = Line(c)
    BY <2>1, <2>3, SeqAppend, SeqLen
  <2>5. Queued'
    <3>. SUFFICES ASSUME NEW k \in 1..Len(qemu'.out), qemu'.out[k].op = "migrate"
                  PROVE  \E d \in Callers : Migrating(d)' /\ Asked(d)' /\ call'[d].id = qemu'.out[k].id
      BY Zenon DEF Queued
    <3>1. CASE k \in 1..Len(qemu.out)
      <4>1. PICK d \in Callers : Migrating(d) /\ Asked(d) /\ call[d].id = qemu.out[k].id
        BY Zenon, <2>4, <3>1 DEF Traces, Queued
      <4>2. Migrating(d)' /\ Asked(d)' /\ call'[d].id = qemu.out[k].id
        BY Zenon, <1>1, <4>1 DEF SnapshotKept, AskedKept, Asked, Flying
      <4>. QED BY <2>4, <3>1, <4>2
    <3>2. CASE k = Len(qemu.out) + 1
      BY <2>2, <2>4, <3>2 DEF Line, Migrating, Asked
    <3>. QED BY <2>4, <3>1, <3>2
  <2>. QED BY Zenon, <1>1, <1>2, <2>1, <2>5, TracesKept
<1>7. \/ UNCHANGED qemu \/ qemu' = [qemu EXCEPT !.torn = TRUE]
      \/ qemu' = [qemu EXCEPT !.out = Append(qemu.out, Line(c))] /\ (Write(c) \/ WriteFails(c))
  BY Zenon DEF Insert, NoPermit, TakePermit, Write, WriteFails, Release, ReceiveTimesOut, SleepOnLog,
     Woken, Join
<1>. QED BY <1>4, <1>5, <1>6, <1>7

\* What the history of the snapshots becomes when one is given up, and when not.
LEMMA SnapIs ==
  ASSUME SnapTypes, NEW b \in BOOLEAN,
         snap' = [snap EXCEPT !.abandoned = @ \/ b] \/ snap' = [snap EXCEPT !.partial = @ \/ b]
  PROVE  /\ SnapTypes' /\ (~b => snap' = snap)
         /\ snap' = [snap EXCEPT !.abandoned = @ \/ b] => (b => snap'.abandoned)
         /\ snap' = [snap EXCEPT !.partial = @ \/ b] => snap'.abandoned = snap.abandoned
<1>1. snap.abandoned \in BOOLEAN /\ snap.partial \in BOOLEAN
  BY DEF SnapTypes
<1>2. (snap.abandoned \/ b) \in BOOLEAN /\ (snap.partial \/ b) \in BOOLEAN
  BY <1>1
<1>3. SnapTypes'
  BY <1>1, <1>2 DEF SnapTypes
<1>4. ASSUME ~b PROVE snap' = snap
  <2>1. (snap.abandoned \/ b) = snap.abandoned /\ (snap.partial \/ b) = snap.partial
    BY <1>1, <1>4
  <2>. QED BY <2>1 DEF SnapTypes
<1>5. ASSUME snap' = [snap EXCEPT !.abandoned = @ \/ b] PROVE b => snap'.abandoned
  BY Zenon, <1>2, <1>5 DEF SnapTypes
<1>6. ASSUME snap' = [snap EXCEPT !.partial = @ \/ b] PROVE snap'.abandoned = snap.abandoned
  BY <1>6 DEF SnapTypes
<1>. QED BY <1>3, <1>4, <1>5, <1>6

\* A snapshot whose command was not carried out, or not written, leaves no trace.
LEMMA UndoneStill ==
  ASSUME CInv, Shape, Traces, NEW c \in Callers, Migrating(c),
         ~Flying(c) \/ qemu.did[call[c].id] = "error"
  PROVE  Still
<1>1. \A d \in Callers : Migrating(d) => d = c
  BY DEF Shape
<1>2. CASE ~Flying(c)
  BY <1>1, <1>2, NobodyStill
<1>3. CASE qemu.did[call[c].id] = "error"
  <2>1. \A i : ~Mine(i)
    BY <1>1, <1>3 DEF Mine
  <2>2. \A k \in 1..Len(qemu.out) : qemu.out[k].op # "migrate"
    BY <1>1, <1>3 DEF Traces, Queued, CInv, Queue
  <2>. QED BY <2>1, <2>2 DEF Traces, Active, OnTheWire, Still
<1>. QED BY <1>2, <1>3

\* What After leaves of the call.
LEMMA AfterCall ==
  ASSUME CallTypes, NEW c \in Callers, NEW r, After(c, r)
  PROVE  /\ \A d \in Callers : d # c => call'[d] = call[d]
         /\ Migrating(c) /\ r = "return" =>
              /\ call'[c].pc = "scan" /\ call'[c].op = "migrate" /\ call'[c].id = call[c].id
              /\ call'[c].mark = call[c].mark /\ call'[c].next = call[c].mark
         /\ ~(Migrating(c) /\ r = "return") => ~Migrating(c)' /\ call'[c].pc \in {"idle", "join"}
<1>1. \A d \in Callers : d # c => call'[d] = call[d]
  BY DEF After, CallTypes
<1>2. ASSUME Migrating(c), r = "return"
      PROVE  /\ call'[c].pc = "scan" /\ call'[c].op = "migrate" /\ call'[c].id = call[c].id
             /\ call'[c].mark = call[c].mark /\ call'[c].next = call[c].mark
  <2>1. call' = [call EXCEPT ![c] = [call[c] EXCEPT !.pc = "scan", !.next = call[c].mark]]
    BY <1>2 DEF After, Migrating, CallTypes
  <2>2. call'[c] = [call[c] EXCEPT !.pc = "scan", !.next = call[c].mark]
    BY <2>1 DEF CallTypes
  <2>3. call[c] \in Call
    BY DEF CallTypes
  <2>. QED BY <1>2, <2>2, <2>3 DEF Call, Migrating
<1>3. ASSUME ~(Migrating(c) /\ r = "return")
      PROVE  ~Migrating(c)' /\ call'[c].pc \in {"idle", "join"}
  <2>1. call'[c] = Idle \/ call'[c] = [Idle EXCEPT !.pc = "join", !.op = "quit"]
    BY <1>3 DEF After, Migrating, CallTypes
  <2>2. Idle \in Call /\ Idle.pc = "idle" /\ Idle.op = "none"
    BY Names DEF Idle, Call
  <2>3. LET v == [Idle EXCEPT !.pc = "join", !.op = "quit"] IN v.pc = "join" /\ v.op = "quit"
    BY <2>2 DEF Call
  <2>. QED BY Zenon, <2>1, <2>2, <2>3 DEF Migrating
<1>. QED BY Zenon, <1>1, <1>2, <1>3

\* A call returns.  A snapshot goes on when its command was carried out, is given up
\* when there was no answer, and is over when the command was refused.
LEMMA AfterStep ==
  ASSUME CInv, SInv, NEW c \in Callers, NEW r, After(c, r), UNCHANGED <<qemu, log>>,
         Migrating(c) /\ r = "return" => Flying(c) /\ call[c].id \in Ids /\ qemu.did[call[c].id] = "return",
         Migrating(c) /\ r \notin {"return", "closed", "failed"} =>
            ~Flying(c) \/ qemu.did[call[c].id] = "error"
  PROVE  SInv'
<1>. DEFINE b == Migrating(c) /\ r \in {"closed", "failed"}
<1>1. /\ \A d \in Callers : d # c => call'[d] = call[d]
      /\ Migrating(c) /\ r = "return" =>
            /\ call'[c].pc = "scan" /\ call'[c].op = "migrate" /\ call'[c].id = call[c].id
            /\ call'[c].mark = call[c].mark /\ call'[c].next = call[c].mark
      /\ ~(Migrating(c) /\ r = "return") => ~Migrating(c)' /\ call'[c].pc \in {"idle", "join"}
  BY Zenon, AfterCall DEF CInv
<1>2. snap' = [snap EXCEPT !.abandoned = @ \/ b] /\ b \in BOOLEAN
  BY Zenon DEF After, Migrating
<1>3. SnapTypes' /\ (~b => snap' = snap) /\ (b => snap'.abandoned)
  <2>. HIDE DEF b
  <2>. QED BY Zenon, <1>2, SnapIs DEF SInv
<1>4. Shape'
  <2>1. call[c].mark \in Nat
    BY Zenon DEF CInv, CallTypes, Call
  <2>. QED BY <1>1, <2>1, ShapeOf DEF SInv, Flying, Migrating
<1>5. SnapshotIsWhole'
  BY <1>3 DEF SInv, SnapshotIsWhole
<1>. SUFFICES ASSUME ~b, Traces PROVE Traces'
  BY Zenon, <1>3, <1>4, <1>5 DEF SInv
<1>6. CASE ~Migrating(c)
  <2>1. SnapshotKept /\ AskedKept
    BY <1>1, <1>6 DEF SnapshotKept, AskedKept, Migrating, Flying, Asked
  <2>. QED BY <2>1, TracesKept
<1>7. CASE Migrating(c) /\ r = "return"
  <2>1. SnapshotKept
    BY Zenon, <1>1, <1>7 DEF SnapshotKept, Migrating, Flying
  <2>2. \A k \in 1..Len(qemu.out) : qemu.out[k].op # "migrate"
    BY Zenon, <1>7 DEF Traces, Queued, SInv, Shape, CInv, Queue
  <2>3. Queued'
    BY Zenon, <2>2 DEF Queued
  <2>. QED BY <2>1, <2>3, TracesKept
<1>8. CASE Migrating(c) /\ r \notin {"return", "closed", "failed"}
  <2>1. Still
    BY Zenon, <1>8, UndoneStill DEF SInv
  <2>. QED BY <1>1, <1>8, <2>1, TracesEnd DEF SInv
<1>. QED BY <1>6, <1>7, <1>8

\* The end that wait_event finds is that of this snapshot, so QEMU is no longer
\* writing the file that is renamed.
LEMMA FoundStep ==
  ASSUME CInv, SInv, NEW c \in Callers, call[c].pc \in {"scan", "asleep"}, Found(c)
  PROVE  SInv'
<1>1. PICK k \in Matches(call[c].next) :
        snap' = [snap EXCEPT !.partial = @ \/ (log[k].answer = "return" /\ qemu.active = call[c].id)]
  BY DEF Found
<1>. DEFINE b == log[k].answer = "return" /\ qemu.active = call[c].id
<1>2. SnapTypes' /\ (~b => snap' = snap) /\ snap'.abandoned = snap.abandoned
  <2>1. b \in BOOLEAN /\ snap' = [snap EXCEPT !.partial = @ \/ b]
    BY <1>1
  <2>. HIDE DEF b
  <2>. QED BY Zenon, <2>1, SnapIs DEF SInv
<1>3. call'[c] = Idle /\ (\A d \in Callers : d # c => call'[d] = call[d]) /\ UNCHANGED qemu
  BY DEF Found, CInv, CallTypes
<1>4. ~Migrating(c)' /\ call'[c].pc = "idle"
  BY <1>3 DEF Idle, Migrating
<1>5. Shape'
  BY <1>3, <1>4, ShapeOf DEF SInv
<1>6. CASE snap.abandoned
  BY Zenon, <1>2, <1>5, <1>6 DEF SInv, SnapshotIsWhole
<1>7. CASE ~snap.abandoned
  <2>1. Migrating(c) /\ call[c].id \in Ids /\ call[c].mark <= call[c].next
    BY DEF SInv, Shape
  <2>2. k \in 1..Len(log) /\ k > call[c].mark /\ Ended(log, k)
    <3>1. Len(log) \in Nat /\ call[c].mark \in Nat /\ call[c].next \in Nat
      BY Zenon, SeqLen DEF CInv, Types, CallTypes, Call
    <3>. QED BY <2>1, <3>1 DEF Matches, Ended
  <2>3. qemu.active = 0 /\ \A j \in 1..Len(qemu.wire) : ~Ended(qemu.wire, j)
    BY Zenon, <1>7, <2>1, <2>2 DEF SInv, Traces, Logged
  <2>4. Still
    BY Zenon, <1>7, <2>1, <2>3 DEF SInv, Traces, Queued, Shape, Asked, Still
  <2>5. ~b
    BY <2>1, <2>3, QmpAssumption DEF Ids
  <2>6. Traces'
    BY <1>3, <1>4, <2>1, <2>4, TracesEnd DEF SInv
  <2>. QED BY <1>2, <1>5, <2>5, <2>6 DEF SInv, SnapshotIsWhole
<1>. QED BY <1>6, <1>7

\* A snapshot that is given up while it waits may leave a migration behind.
LEMMA AbandonStep ==
  ASSUME CInv, SInv, NEW c \in Callers, Abandon(c)
  PROVE  SInv'
<1>1. call'[c] = Idle /\ \A d \in Callers : d # c => call'[d] = call[d]
  BY DEF Abandon, CInv, CallTypes
<1>2. ~Migrating(c)' /\ call'[c].pc = "idle"
  BY <1>1 DEF Idle, Migrating
<1>3. Shape'
  BY Zenon, <1>1, <1>2, ShapeOf DEF SInv
<1>4. snap' = [snap EXCEPT !.abandoned = TRUE]
  BY Zenon DEF Abandon
<1>5. SnapTypes' /\ snap'.abandoned
  BY Zenon, <1>4 DEF SInv, SnapTypes
<1>. QED BY <1>3, <1>5 DEF SInv, SnapshotIsWhole

\* A snapshot begins when there is none, with no trace of one and nothing in the log
\* past its mark; the other calls begin without touching it.
LEMMA BeginStep ==
  ASSUME CInv, SInv, Begin
  PROVE  SInv'
<1>1. UNCHANGED <<snap, log, qemu>>
  BY Zenon DEF Begin, BeginClose, BeginDrop, BeginSnapshot, BeginExecute, history, events
<1>2. SnapTypes' /\ SnapshotIsWhole'
  BY <1>1 DEF SInv, SnapTypes, SnapshotIsWhole
<1>3. ASSUME NEW c \in Callers, call[c].pc = "idle", ~Migrating(c)', call'[c].pc \in {"insert", "join"},
             \A d \in Callers : d # c => call'[d] = call[d]
      PROVE  SInv'
  <2>1. Shape'
    BY <1>3, ShapeOf DEF SInv
  <2>2. SnapshotKept /\ AskedKept
    BY <1>3 DEF SnapshotKept, AskedKept, Flying, Asked, Migrating
  <2>3. Traces => Traces'
    BY <1>1, <2>2, TracesKept
  <2>. QED BY <1>1, <1>2, <2>1, <2>3 DEF SInv
<1>4. CASE BeginClose \/ BeginDrop
  <2>1. Owner \in Callers /\ call[Owner].pc = "idle"
    BY <1>4, QmpAssumption DEF BeginClose, BeginDrop, Unshared
  <2>2. /\ call'[Owner].pc \in {"insert", "join"} /\ call'[Owner].op = "quit"
        /\ \A d \in Callers : d # Owner => call'[d] = call[d]
    BY <1>4, <2>1 DEF CInv, BeginClose, BeginDrop, CallTypes, Call
  <2>. QED BY <1>3, <2>1, <2>2 DEF Migrating
<1>5. ASSUME NEW c \in Callers, BeginExecute(c) PROVE SInv'
  <2>1. /\ call[c].pc = "idle" /\ call'[c].pc = "insert" /\ call'[c].op = "execute"
        /\ \A d \in Callers : d # c => call'[d] = call[d]
    BY <1>5 DEF CInv, BeginExecute, CallTypes, Call
  <2>. QED BY <1>3, <2>1 DEF Migrating
<1>6. ASSUME NEW c \in Callers, BeginSnapshot(c) PROVE SInv'
  <2>1. /\ call'[c].pc = "insert" /\ call'[c].op = "migrate" /\ call'[c].mark = Len(log)
        /\ \A d \in Callers : d # c => call'[d] = call[d]
    BY <1>6 DEF CInv, BeginSnapshot, CallTypes, Call
  <2>2. \A d \in Callers : ~Migrating(d)
    BY <1>6 DEF BeginSnapshot, Migrating
  <2>3. Shape'
    BY <2>1, <2>2, ShapeOf DEF SInv
  <2>4. ASSUME Traces PROVE Traces'
    <3>1. Still
      BY <2>2, <2>4, NobodyStill
    <3>2. Queued' /\ Active' /\ OnTheWire'
      BY Zenon, <1>1, <3>1 DEF Still, Queued, Active, OnTheWire, Ended
    <3>3. Logged'
      <4>1. Len(log) \in Nat
        BY SeqLen DEF CInv, Types
      <4>2. \A d \in Callers : Migrating(d)' => d = c
        BY <2>1, <2>2 DEF Migrating
      <4>. QED BY <1>1, <2>1, <4>1, <4>2 DEF Logged
    <3>. QED BY <3>2, <3>3 DEF Traces
  <2>. QED BY <1>1, <1>2, <2>3, <2>4 DEF SInv
<1>. QED BY <1>4, <1>5, <1>6 DEF Begin

\* A call that returns from execute_timeout tells what QEMU did with its command, or
\* that nobody knows.
LEMMA ReturnSnapshot ==
  ASSUME CInv, SInv, NEW c \in Callers, Refused(c) \/ Receive(c) \/ Forget(c)
  PROVE  SInv'
<1>1. UNCHANGED <<qemu, log>>
  BY Zenon DEF Refused, Receive, Forget, events
<1>2. CASE Refused(c)
  <2>1. After(c, "refused") /\ ~Flying(c)
    BY Zenon, <1>2 DEF Refused, Free, Flying
  <2>. QED BY <1>1, <2>1, AfterStep
<1>3. CASE Receive(c)
  <2>1. After(c, chan[call[c].id]) /\ call[c].pc = "recv" /\ chan[call[c].id] # "none"
    BY Zenon, <1>3 DEF Receive, Return, Free
  <2>2. call[c].id \in Ids /\ chan[call[c].id] \in {"return", "error", "closed"}
    BY Zenon, <2>1 DEF CInv, Types, Ours, Live
  <2>3. chan[call[c].id] \in Answered => qemu.did[call[c].id] = chan[call[c].id]
    BY Zenon, <2>2 DEF CInv, Honest
  <2>. QED BY <1>1, <2>1, <2>2, <2>3, AfterStep DEF Answered, Flying
<1>4. CASE Forget(c)
  <2>1. After(c, "failed")
    BY <1>4 DEF Forget, Return
  <2>. QED BY <1>1, <2>1, AfterStep
<1>. QED BY Zenon, <1>2, <1>3, <1>4

\* Every step keeps the invariant of the snapshots.
LEMMA SInvStep == CInv /\ SInv /\ [Next]_vars => SInv'
<1>. SUFFICES ASSUME CInv, SInv, [Next]_vars PROVE SInv'
  OBVIOUS
<1>1. CASE UNCHANGED <<call, snap, log, qemu>>
  BY <1>1, OutsideStep
<1>2. CASE HandshakeLine \/ HandshakeFails \/ Deliver \/ Finished
  <2>1. (HandshakeLine \/ HandshakeFails) => UNCHANGED <<call, snap, log, qemu>>
    BY DEF HandshakeLine, HandshakeFails, events, history
  <2>2. Deliver => UNCHANGED <<call, snap, log, qemu>>
    BY DEF Deliver, events, history
  <2>3. Finished => UNCHANGED <<call, snap, log, qemu>>
    BY DEF Finished, vars, events, history
  <2>. QED BY <1>1, <1>2, <2>1, <2>2, <2>3
<1>3. CASE Begin
  BY <1>3, BeginStep
<1>4. ASSUME NEW c \in Callers, Caller(c) PROVE SInv'
  <2>1. CASE SleepOnWriter(c)
    <3>1. UNCHANGED <<call, snap, log, qemu>>
      BY <2>1 DEF SleepOnWriter, events, history
    <3>. QED BY <1>1, <3>1
  <2>2. CASE ScanFinds(c) \/ ScanGivesUp(c) \/ WaitTimesOut(c)
    BY Zenon, <2>2, FoundStep, AbandonStep DEF ScanFinds, ScanGivesUp, WaitTimesOut, Free
  <2>3. CASE Refused(c) \/ Receive(c) \/ Forget(c)
    BY <2>3, ReturnSnapshot
  <2>. QED BY <1>4, <2>1, <2>2, <2>3, OnwardStep DEF Caller
<1>5. ASSUME NEW t \in Threads, Shutdown(t) PROVE SInv'
  <2>1. UNCHANGED <<call, snap, log>>
    BY <1>5 DEF Shutdown, Sever, CloseWriter, CloseLog, Drain, AnswerDrained, AllAnswered, events, history
  <2>2. CASE Sever(t)
    <3>1. /\ qemu'.did = qemu.did /\ qemu'.active = qemu.active
          /\ Len(qemu'.out) = 0 /\ qemu'.wire = qemu.wire
      BY <2>2 DEF Sever, CInv, QemuTypes, Monitor
    <3>. QED BY <2>1, <3>1, OutsideStep
  <2>3. CASE ~Sever(t)
    <3>1. UNCHANGED qemu
      BY <1>5, <2>3 DEF Shutdown, CloseWriter, CloseLog, Drain, AnswerDrained, AllAnswered
    <3>. QED BY <1>1, <2>1, <3>1
  <2>. QED BY <2>2, <2>3
<1>6. CASE ReadEvent \/ ReadReply \/ ReadLate
  BY <1>6, TakeStep
<1>7. CASE Serve \/ MigrationEnds
  <2>1. UNCHANGED <<call, snap>>
    BY <1>7 DEF Serve, MigrationEnds, history
  <2>2. Shape' /\ SnapTypes' /\ SnapshotIsWhole'
    BY <2>1 DEF SInv, Shape, SnapTypes, SnapshotIsWhole, Migrating, Flying
  <2>3. Traces => Traces'
    BY <1>7, ServeTraces, MigrationEndsTraces
  <2>. QED BY <2>1, <2>2, <2>3 DEF SInv
<1>8. CASE ReadEnd \/ ReadError
  <2>1. ReaderExits
    BY <1>8 DEF ReadEnd, ReadError
  <2>2. UNCHANGED <<call, snap, log>>
    BY <2>1 DEF ReaderExits, events, history
  <2>3. qemu' = [qemu EXCEPT !.wire = <<>>]
    BY <2>1 DEF ReaderExits
  <2>4. /\ qemu'.did = qemu.did /\ qemu'.active = qemu.active
        /\ qemu'.out = qemu.out /\ Len(qemu'.wire) = 0
    BY <2>3 DEF CInv, QemuTypes, Monitor
  <2>. QED BY <2>2, <2>4, OutsideStep
<1>9. CASE UNCHANGED vars
  BY <1>1, <1>9 DEF vars, events, history
<1>. QED
  BY <1>2, <1>3, <1>4, <1>5, <1>6, <1>7, <1>8, <1>9 DEF Next, ReaderStep, Qemu, Threads

\* Backend::snapshot renames no file that QEMU is still writing, for any callers and
\* any number of commands, as long as no snapshot on the connection was given up
\* before its end was known.
THEOREM SnapshotHolds == Spec => []SnapshotIsWhole
<1>1. Init => CInv /\ Given /\ SInv
  <2>1. Init => Given
    BY QmpAssumption DEF Init, Given, Ids
  <2>2. ASSUME Init PROVE Shape /\ SnapTypes /\ SnapshotIsWhole
    BY Zenon, <2>2 DEF Init, Shape, SnapTypes, SnapshotIsWhole, Migrating, Idle
  <2>3. ASSUME Init PROVE Traces
    BY <2>3 DEF Init, Traces, Queued, Active, OnTheWire, Logged, Migrating, Idle
  <2>. QED BY Zenon, <2>1, <2>2, <2>3, CInvInit DEF SInv
<1>2. CInv /\ Given /\ SInv /\ [Next]_vars => (CInv /\ Given /\ SInv)'
  BY CInvStep, GivenStep, SInvStep DEF CInv
<1>3. SInv => SnapshotIsWhole
  BY DEF SInv
<1>. QED BY <1>1, <1>2, <1>3, PTL DEF Spec
=============================================================================
