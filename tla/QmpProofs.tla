----------------------------- MODULE QmpProofs -----------------------------
(***************************************************************************)
(* QmpConnection implements MonitorCalls, for any callers and any number   *)
(* of commands.                                                            *)
(***************************************************************************)
EXTENDS QmpConnection, TLAPS

\* The length and the domain of a sequence.
LEMMA SeqLen ==
  ASSUME NEW S, NEW s \in Seq(S)
  PROVE  Len(s) \in Nat /\ DOMAIN s = 1..Len(s)
OBVIOUS

\* The elements of a sequence.
LEMMA SeqElement ==
  ASSUME NEW S, NEW s \in Seq(S), NEW n \in 1..Len(s)
  PROVE  s[n] \in S
OBVIOUS

\* The empty sequence, and the others.
LEMMA SeqEmpty ==
  ASSUME NEW S
  PROVE  /\ <<>> \in Seq(S) /\ Len(<<>>) = 0
         /\ \A s \in Seq(S) : s # <<>> => Len(s) \in Nat \ {0}
OBVIOUS

\* What Append adds and keeps.
LEMMA SeqAppend ==
  ASSUME NEW S, NEW s \in Seq(S), NEW e \in S
  PROVE  /\ Append(s, e) \in Seq(S) /\ Len(Append(s, e)) = Len(s) + 1
         /\ \A n \in 1..Len(s) : Append(s, e)[n] = s[n]
         /\ Append(s, e)[Len(s) + 1] = e
OBVIOUS

\* The head and the tail of a queue.
LEMMA SeqTail ==
  ASSUME NEW S, NEW s \in Seq(S), s # <<>>
  PROVE  /\ Head(s) \in S /\ Tail(s) \in Seq(S) /\ Len(Tail(s)) = Len(s) - 1
         /\ \A n \in 1..Len(Tail(s)) : Tail(s)[n] = s[n + 1]
OBVIOUS

\* The elements of a concatenation.
LEMMA SeqConcat ==
  ASSUME NEW S, NEW s \in Seq(S), NEW t \in Seq(S)
  PROVE  /\ s \o t \in Seq(S) /\ Len(s \o t) = Len(s) + Len(t)
         /\ \A n \in 1..(Len(s) + Len(t)) :
                (s \o t)[n] = IF n <= Len(s) THEN s[n] ELSE t[n - Len(s)]
OBVIOUS

-----------------------------------------------------------------------------
(***************************************************************************)
(* The invariant behind the contract.                                      *)
(***************************************************************************)
Answered == {"return", "error"}
Pcs == {"idle", "insert", "permit", "write", "release", "recv", "forget",
        "scan", "asleep", "join", "gone"}
Ops == {"none", "execute", "migrate", "quit"}
Call == [pc : Pcs, op : Ops, id : Nat, failed : BOOLEAN, mark : Nat, next : Nat]
Message == [kind : {"reply", "ended", "other"}, id : Nat,
            answer : {"none", "return", "error"}]
Lines == [id : Ids, op : Ops]
Monitor == [out : Seq(Lines), torn : BOOLEAN, wire : Seq(Message), active : Nat,
            did : [Ids -> {"no", "return", "error"}]]

\* The types of what the contract and the snapshot depend on
CallTypes == call \in [Callers -> Call]

QemuTypes == qemu \in Monitor

Types ==
    /\ pending \subseteq Ids
    /\ chan \in [Ids -> {"none", "return", "error", "closed", "dropped"}]
    /\ log \in Seq(Message)
    /\ nextId \in Nat \ {0}
    /\ reader \in [at : {"read", "deliver", "exited"},
                   reply : [id : Nat, answer : {"none", "return", "error"}]]
    /\ drained \in [Threads -> SUBSET Ids]
    /\ result \in [Ids -> {"new", "open", "return", "error", "failed"}]

\* execute_timeout has an id and has not returned
Live(c) == call[c].pc \in {"permit", "write", "release", "recv", "forget"}

\* An id not yet given out has left no trace
Fresh == \A i \in Ids : i >= nextId =>
    result[i] = "new" /\ qemu.did[i] = "no" /\ chan[i] = "none"

\* A call under way has an id to itself, and its receiver
Ours == \A c \in Callers : Live(c) =>
    /\ call[c].id \in Ids /\ call[c].id < nextId
    /\ result[call[c].id] = "open" /\ chan[call[c].id] # "dropped"
    /\ \A d \in Callers : Live(d) /\ call[d].id = call[c].id => d = c

\* A command not yet written is not with QEMU
Unsent == \A c \in Callers : call[c].pc \in {"permit", "write"} =>
    /\ qemu.did[call[c].id] = "no"
    /\ \A k \in 1..Len(qemu.out) : qemu.out[k].id # call[c].id

\* A command is written once, and not yet carried out while it is queued
Queue == \A k \in 1..Len(qemu.out) :
    /\ qemu.out[k].id < nextId /\ qemu.did[qemu.out[k].id] = "no"
    /\ \A j \in 1..Len(qemu.out) : qemu.out[j].id = qemu.out[k].id => j = k

\* A reply on the wire, in the reader's hands or in a channel is what QEMU did
\* with the command of that id
Honest ==
    /\ \A k \in 1..Len(qemu.wire) : qemu.wire[k].kind = "reply" =>
        /\ qemu.wire[k].id \in Ids /\ qemu.wire[k].answer \in Answered
        /\ qemu.did[qemu.wire[k].id] = qemu.wire[k].answer
    /\ reader.at = "deliver" =>
        /\ reader.reply.id \in Ids /\ reader.reply.answer \in Answered
        /\ qemu.did[reader.reply.id] = reader.reply.answer
    /\ \A i \in Ids : chan[i] \in Answered => qemu.did[i] = chan[i]

CInv == CallTypes /\ QemuTypes /\ Types /\ Fresh /\ Ours /\ Unsent /\ Queue /\ Honest

-----------------------------------------------------------------------------
\* What Told and Serve put at the end of a sequence is all that is new in it.
LEMMA Appended ==
  ASSUME NEW S, NEW s \in Seq(S), NEW t \in Seq(S)
  PROVE  /\ s \o t \in Seq(S)
         /\ Len(s \o t) = Len(s) + Len(t)
         /\ \A k \in 1..Len(s) : (s \o t)[k] = s[k]
         /\ \A k \in 1..Len(s \o t) :
                \/ k \in 1..Len(s)
                \/ \E j \in 1..Len(t) : k = Len(s) + j /\ (s \o t)[k] = t[j]
<1>1. /\ s \o t \in Seq(S)
      /\ Len(s \o t) = Len(s) + Len(t)
      /\ \A k \in 1..Len(s) + Len(t) :
            (s \o t)[k] = IF k <= Len(s) THEN s[k] ELSE t[k - Len(s)]
  BY SeqConcat
<1>2. Len(s) \in Nat /\ Len(t) \in Nat
  BY SeqLen
<1>3. ASSUME NEW k \in 1..Len(s \o t), k \notin 1..Len(s)
      PROVE  \E j \in 1..Len(t) : k = Len(s) + j /\ (s \o t)[k] = t[j]
  <2>1. k - Len(s) \in 1..Len(t) /\ k = Len(s) + (k - Len(s)) /\ (s \o t)[k] = t[k - Len(s)]
    BY <1>1, <1>2, <1>3
  <2>. QED BY <2>1
<1>. QED BY <1>1, <1>2, <1>3

\* The connection starts with no command given out.
LEMMA CInvInit == Init => CInv
<1>. SUFFICES ASSUME Init PROVE CInv
  OBVIOUS
<1>1. CallTypes /\ QemuTypes /\ Types
  BY QmpAssumption DEF Init, CallTypes, QemuTypes, Types, Call, Idle, NoReply, Monitor, Pcs, Ops,
         Message, Lines, Ids
<1>2. Fresh /\ Ours /\ Unsent
  BY DEF Init, Fresh, Ours, Unsent, Live, Idle
<1>3. Queue /\ Honest
  BY DEF Init, Queue, Honest, NoReply, Answered
<1>. QED BY <1>1, <1>2, <1>3 DEF CInv

-----------------------------------------------------------------------------
\* The places of a call and the commands, one by one.
LEMMA Names ==
  /\ "idle" \in Pcs /\ "insert" \in Pcs /\ "permit" \in Pcs /\ "write" \in Pcs
  /\ "release" \in Pcs /\ "recv" \in Pcs /\ "forget" \in Pcs /\ "scan" \in Pcs
  /\ "asleep" \in Pcs /\ "join" \in Pcs /\ "gone" \in Pcs
  /\ "none" \in Ops /\ "execute" \in Ops /\ "migrate" \in Ops /\ "quit" \in Ops
BY DEF Pcs, Ops

\* Every step keeps the types of the calls.
LEMMA CallTypesStep == CallTypes /\ Types /\ [Next]_vars => CallTypes'
<1>. SUFFICES ASSUME CallTypes, Types, [Next]_vars PROVE CallTypes'
  OBVIOUS
<1>0. Len(log) \in Nat /\ nextId \in Nat
  BY SeqLen DEF Types
<1>. USE QmpAssumption, Names DEF CallTypes
<1>1. CASE UNCHANGED call
  BY <1>1
<1>2. CASE BeginClose \/ BeginDrop
  BY <1>2 DEF BeginClose, BeginDrop, Call
<1>3. ASSUME NEW c \in Callers, BeginSnapshot(c) \/ BeginExecute(c) PROVE CallTypes'
  <2>1. ASSUME NEW n \in Nat
        PROVE  [call EXCEPT ![c].pc = "insert", ![c].op = "migrate", ![c].mark = n] \in [Callers -> Call]
    BY ZenonT(30) DEF Call
  <2>2. CASE BeginSnapshot(c)
    BY Zenon, <1>0, <2>1, <2>2 DEF BeginSnapshot
  <2>3. CASE BeginExecute(c)
    BY Zenon, <2>3 DEF BeginExecute, Call
  <2>. QED BY <1>3, <2>2, <2>3
<1>4. ASSUME NEW c \in Callers, Caller(c) PROVE CallTypes'
  <2>1. Idle \in Call /\ [Idle EXCEPT !.pc = "join", !.op = "quit"] \in Call
    BY Zenon DEF Idle, Call
  <2>2. ASSUME NEW r, After(c, r) PROVE CallTypes'
    <3>1. [call[c] EXCEPT !.pc = "scan", !.next = call[c].mark] \in Call
      BY Zenon DEF Call
    <3>. QED BY <2>1, <2>2, <3>1 DEF After
  <2>3. CASE Insert(c)
    BY Zenon, <1>0, <2>3 DEF Insert, Call
  <2>4. CASE Write(c) \/ WriteFails(c) \/ Release(c)
    <3>1. ASSUME NEW p \in Pcs
          PROVE  /\ [call EXCEPT ![c].pc = p] \in [Callers -> Call]
                 /\ [call EXCEPT ![c].pc = p, ![c].failed = TRUE] \in [Callers -> Call]
      BY Zenon DEF Call
    <3>2. CASE Write(c) \/ Release(c)
      <4>1. PICK p \in Pcs : call' = [call EXCEPT ![c].pc = p]
        BY <3>2, Zenon DEF Write, Release, Sent, Failing, Goto
      <4>. QED BY <3>1, <4>1, Zenon
    <3>3. CASE WriteFails(c)
      <4>1. call' = [call EXCEPT ![c].pc = "release", ![c].failed = TRUE]
        BY <3>3, Zenon DEF WriteFails
      <4>. QED BY <3>1, <4>1, Zenon
    <3>. QED BY <2>4, <3>2, <3>3
  <2>5. CASE NoPermit(c) \/ TakePermit(c) \/ ReceiveTimesOut(c) \/ Woken(c) \/ Join(c)
    BY <2>5 DEF NoPermit, TakePermit, ReceiveTimesOut, Woken, Join, Failing, Goto, Call
  <2>6. CASE ScanFinds(c) \/ ScanGivesUp(c) \/ WaitTimesOut(c)
    BY <2>1, <2>6 DEF ScanFinds, ScanGivesUp, WaitTimesOut, Found, Abandon
  <2>7. CASE SleepOnLog(c)
    BY Zenon, <1>0, <2>7 DEF SleepOnLog, Call
  <2>8. CASE SleepOnWriter(c)
    BY <1>1, <2>8 DEF SleepOnWriter
  <2>. QED BY <1>4, <2>2, <2>3, <2>4, <2>5, <2>6, <2>7, <2>8
           DEF Caller, Refused, Receive, Forget, Return
<1>5. ASSUME NEW t \in Threads, Shutdown(t) PROVE UNCHANGED call
  BY <1>5 DEF Shutdown, Sever, CloseWriter, CloseLog, Drain, AnswerDrained, AllAnswered
<1>6. CASE HandshakeLine \/ HandshakeFails \/ ReaderStep \/ ReadError \/ Qemu \/ Finished
  <2>1. UNCHANGED call
    BY <1>6 DEF HandshakeLine, HandshakeFails, ReaderStep, ReadEvent, ReadReply, ReadLate,
         Deliver, ReadEnd, ReadError, ReaderExits, Qemu, Serve, MigrationEnds, Finished, vars
  <2>. QED BY <1>1, <2>1
<1>. QED
  BY <1>1, <1>2, <1>3, <1>4, <1>5, <1>6 DEF Next, Begin, Threads, vars

\* A record of the monitor's side stays one when a field is replaced.
LEMMA MonitorFields ==
  ASSUME NEW q \in Monitor
  PROVE  /\ [q EXCEPT !.torn = TRUE] \in Monitor
         /\ \A o \in Seq(Lines) : [q EXCEPT !.out = o] \in Monitor
         /\ \A w \in Seq(Message) : [q EXCEPT !.wire = w] \in Monitor
         /\ \A w \in Seq(Message), a \in Nat : [q EXCEPT !.active = a, !.wire = w] \in Monitor
         /\ \A o \in Seq(Lines), w \in Seq(Message), a \in Nat, i \in Ids, r \in {"return", "error"} :
                [q EXCEPT !.out = o, !.wire = w, !.active = a, !.did[i] = r] \in Monitor
BY Zenon DEF Monitor

\* A caller with an id sends a line that QEMU understands.
LEMMA LineIsOne ==
  ASSUME CallTypes, Ours, NEW c \in Callers, call[c].pc = "write"
  PROVE  Line(c) \in Lines /\ Line(c).id = call[c].id /\ Line(c).op = call[c].op
BY DEF CallTypes, Ours, Live, Line, Lines, Call

\* What Serve and MigrationEnds say to the host are messages.
LEMMA ServeSays ==
  ASSUME NEW i \in Nat, NEW r \in {"return", "error"}
  PROVE  /\ <<[kind |-> "reply", id |-> i, answer |-> r]>> \in Seq(Message)
         /\ <<[kind |-> "ended", id |-> i, answer |-> r]>> \in Seq(Message)
         /\ <<[kind |-> "reply", id |-> i, answer |-> r],
              [kind |-> "other", id |-> i, answer |-> "none"]>> \in Seq(Message)
<1>1. /\ [kind |-> "reply", id |-> i, answer |-> r] \in Message
      /\ [kind |-> "ended", id |-> i, answer |-> r] \in Message
      /\ [kind |-> "other", id |-> i, answer |-> "none"] \in Message
  BY DEF Message
<1>. QED BY <1>1

\* The lines Serve writes tell what it did, and no end of a migration.
LEMMA ServeTells ==
  ASSUME NEW i, NEW r, NEW s,
         LET reply == [kind |-> "reply", id |-> i, answer |-> r]
             active == [kind |-> "other", id |-> i, answer |-> "none"]
         IN  s = <<reply>> \/ s = <<reply, active>>
  PROVE  \A n \in 1..Len(s) :
            /\ s[n].kind = "reply" => s[n].id = i /\ s[n].answer = r
            /\ s[n].kind # "ended"
OBVIOUS

\* They come at the end of the wire.
LEMMA ToldIs ==
  ASSUME QemuTypes, NEW t \in Seq(Message)
  PROVE  /\ Told(t) \in Seq(Message)
         /\ \A k \in 1..Len(Told(t)) :
                \/ k \in 1..Len(qemu.wire) /\ Told(t)[k] = qemu.wire[k]
                \/ \E j \in 1..Len(t) : k = Len(qemu.wire) + j /\ Told(t)[k] = t[j]
<1>1. qemu.wire \in Seq(Message)
  BY DEF QemuTypes, Monitor
<1>2. CASE reader.at = "exited"
  BY <1>1, <1>2 DEF Told
<1>3. CASE reader.at # "exited"
  <2>1. Told(t) = qemu.wire \o t
    BY Zenon, <1>3 DEF Told
  <2>2. PICK w \in Seq(Message) : w = qemu.wire
    BY Zenon, <1>1
  <2>3. /\ w \o t \in Seq(Message)
        /\ \A k \in 1..Len(w) : (w \o t)[k] = w[k]
        /\ \A k \in 1..Len(w \o t) :
                \/ k \in 1..Len(w)
                \/ \E j \in 1..Len(t) : k = Len(w) + j /\ (w \o t)[k] = t[j]
    BY Appended
  <2>. QED BY Zenon, <2>1, <2>2, <2>3
<1>. QED BY <1>2, <1>3

\* Every step keeps the types of the monitor's side.
LEMMA QemuTypesStep == CallTypes /\ QemuTypes /\ Ours /\ Types /\ [Next]_vars => QemuTypes'
<1>. SUFFICES ASSUME CallTypes, QemuTypes, Ours, Types, [Next]_vars PROVE QemuTypes'
  OBVIOUS
<1>0. qemu.out \in Seq(Lines) /\ qemu.wire \in Seq(Message) /\ qemu.active \in Nat
  BY DEF QemuTypes, Monitor
<1>. USE DEF QemuTypes
<1>1. CASE UNCHANGED qemu
  BY <1>1
<1>2. ASSUME NEW t \in Threads, Sever(t) PROVE QemuTypes'
  <2>1. <<>> \in Seq(Lines)
    OBVIOUS
  <2>. QED BY Zenon, <1>2, <2>1, MonitorFields DEF Sever
<1>3. ASSUME NEW c \in Callers, Write(c) \/ WriteFails(c) PROVE QemuTypes'
  <2>1. Append(qemu.out, Line(c)) \in Seq(Lines)
    BY <1>0, <1>3, LineIsOne, SeqAppend DEF Write, WriteFails, Free
  <2>2. qemu' = [qemu EXCEPT !.torn = TRUE] \/ qemu' = [qemu EXCEPT !.out = Append(qemu.out, Line(c))]
    BY <1>3, Zenon DEF Write, WriteFails
  <2>. QED BY Zenon, <2>1, <2>2, MonitorFields
<1>4. CASE ReadEvent \/ ReadReply \/ ReadLate
  <2>1. qemu' = [qemu EXCEPT !.wire = Tail(qemu.wire)] /\ qemu.wire # <<>>
    BY <1>4 DEF ReadEvent, ReadReply, ReadLate, Incoming, TakeLine
  <2>2. Tail(qemu.wire) \in Seq(Message)
    BY <1>0, <2>1, SeqTail
  <2>. QED BY Zenon, <2>1, <2>2, MonitorFields
<1>5. CASE ReadEnd \/ ReadError
  <2>1. qemu' = [qemu EXCEPT !.wire = <<>>]
    BY <1>5 DEF ReadEnd, ReadError, ReaderExits
  <2>2. <<>> \in Seq(Message)
    OBVIOUS
  <2>. QED BY Zenon, <2>1, <2>2, MonitorFields
<1>6. CASE Serve
  <2>. DEFINE cmd == Head(qemu.out)
  <2>1. qemu.out # <<>>
    BY <1>6 DEF Serve
  <2>2. cmd \in Lines /\ Tail(qemu.out) \in Seq(Lines)
    BY <1>0, <2>1, SeqTail
  <2>3. cmd.id \in Ids /\ cmd.id \in Nat
    BY <2>2, QmpAssumption DEF Lines, Ids
  <2>4. PICK r \in {"return", "error"}, t \in Seq(Message), a \in Nat :
            qemu' = [qemu EXCEPT !.out = Tail(qemu.out), !.wire = Told(t), !.active = a,
                                 !.did[cmd.id] = r]
    BY Zenon, <1>0, <1>6, <2>3, ServeSays DEF Serve
  <2>5. Told(t) \in Seq(Message)
    BY ToldIs
  <2>. QED BY Zenon, <2>2, <2>3, <2>4, <2>5, MonitorFields
<1>7. CASE MigrationEnds
  <2>1. PICK t \in Seq(Message) : qemu' = [qemu EXCEPT !.active = 0, !.wire = Told(t)]
    BY Zenon, <1>0, <1>7, ServeSays DEF MigrationEnds
  <2>2. Told(t) \in Seq(Message)
    BY ToldIs
  <2>. QED BY Zenon, <2>1, <2>2, MonitorFields
<1>8. ASSUME NEW c \in Callers, Caller(c), ~Write(c), ~WriteFails(c) PROVE UNCHANGED qemu
  BY <1>8 DEF Caller, Refused, Insert, SleepOnWriter, NoPermit, TakePermit, Release, Receive,
       ReceiveTimesOut, Forget, ScanFinds, ScanGivesUp, SleepOnLog, Woken, WaitTimesOut, Join,
       Found, Abandon
<1>9. ASSUME NEW t \in Threads, Shutdown(t), ~Sever(t) PROVE UNCHANGED qemu
  BY <1>9 DEF Shutdown, CloseWriter, CloseLog, Drain, AnswerDrained, AllAnswered
<1>10. CASE HandshakeLine \/ HandshakeFails \/ Begin \/ Deliver \/ Finished
  BY Zenon, <1>1, <1>10 DEF HandshakeLine, HandshakeFails, Begin, BeginClose, BeginDrop, BeginSnapshot,
       BeginExecute, Deliver, Finished, vars
<1>. QED
  BY <1>1, <1>2, <1>3, <1>4, <1>5, <1>6, <1>7, <1>8, <1>9, <1>10
     DEF Next, ReaderStep, Qemu, Threads, vars

\* Every step keeps the types of the rest.
LEMMA TypesStep == CallTypes /\ QemuTypes /\ Types /\ Ours /\ [Next]_vars => Types'
<1>. SUFFICES ASSUME CallTypes, QemuTypes, Types, Ours, [Next]_vars PROVE Types'
  OBVIOUS
<1>. USE QmpAssumption DEF Types
<1>0. CASE UNCHANGED <<pending, chan, log, nextId, reader, drained, result>>
  BY <1>0
<1>1. CASE HandshakeLine \/ HandshakeFails \/ Begin \/ Qemu \/ Finished
  BY Zenon, <1>0, <1>1 DEF HandshakeLine, HandshakeFails, Begin, BeginClose, BeginDrop, BeginSnapshot,
       BeginExecute, Qemu, Serve, MigrationEnds, Finished, vars, table, events, shut, history
<1>2. ASSUME NEW t \in Threads, Shutdown(t) PROVE Types'
  <2>1. CASE Sever(t) \/ CloseWriter(t) \/ CloseLog(t) \/ AllAnswered(t)
    BY <1>0, <2>1 DEF Sever, CloseWriter, CloseLog, AllAnswered, table, events, history
  <2>2. CASE Drain(t)
    BY <2>2 DEF Drain, events, history
  <2>3. CASE AnswerDrained(t)
    BY <2>3 DEF AnswerDrained, Send, events, history
  <2>. QED BY <1>2, <2>1, <2>2, <2>3 DEF Shutdown
<1>3. ASSUME NEW c \in Callers, Caller(c) PROVE Types'
  <2>1. CASE Insert(c)
    BY <2>1 DEF Insert, Ids, events, shut
  <2>2. CASE Receive(c)
    <3>1. call[c].id \in Ids /\ chan[call[c].id] # "dropped" /\ chan[call[c].id] # "none"
      BY <2>2 DEF Receive, Free, Ours, Live
    <3>. QED BY <2>2, <3>1 DEF Receive, Return, events
  <2>3. CASE Forget(c)
    <3>1. call[c].id \in Ids
      BY <2>3 DEF Forget, Free, Ours, Live
    <3>. QED BY <2>3, <3>1 DEF Forget, Return, events
  <2>4. CASE ~(Insert(c) \/ Receive(c) \/ Forget(c))
    <3>1. UNCHANGED <<pending, chan, log, nextId, reader, drained, result>>
      BY Zenon, <1>3, <2>4 DEF Caller, Refused, SleepOnWriter, NoPermit, TakePermit, Write, WriteFails,
           Release, ReceiveTimesOut, ScanFinds, ScanGivesUp, SleepOnLog, Woken, WaitTimesOut,
           Join, Found, Abandon, table, events, shut, history
    <3>. QED BY <1>0, <3>1
  <2>. QED BY <2>1, <2>2, <2>3, <2>4
<1>4. CASE ReadEvent \/ ReadReply \/ ReadLate
  <2>1. qemu.wire \in Seq(Message) /\ qemu.wire # <<>>
    BY <1>4 DEF QemuTypes, Monitor, ReadEvent, ReadReply, ReadLate, Incoming
  <2>2. Head(qemu.wire) \in Message
    BY <2>1, SeqTail
  <2>3. CASE ReadEvent
    <3>1. Append(log, Head(qemu.wire)) \in Seq(Message)
      BY <2>2, SeqAppend
    <3>. QED BY <2>3, <3>1 DEF ReadEvent, table, shut, history
  <2>4. CASE ReadReply
    BY <2>2, <2>4 DEF ReadReply, Message, events, shut, history
  <2>5. CASE ReadLate
    BY <1>0, <2>5 DEF ReadLate, table, events, shut, history
  <2>. QED BY <1>4, <2>3, <2>4, <2>5
<1>5. CASE Deliver
  BY Zenon, <1>5 DEF Deliver, Send, NoReply, events, shut, history
<1>6. CASE ReadEnd \/ ReadError
  BY <1>6 DEF ReadEnd, ReadError, ReaderExits, table, events, history
<1>. QED
  BY <1>0, <1>1, <1>2, <1>3, <1>4, <1>5, <1>6 DEF Next, ReaderStep, Threads, vars, table, events,
     shut, history

-----------------------------------------------------------------------------
\* What most steps do to the calls: no call gets an id, and one not yet written
\* was not written before
CallsKept == \A c \in Callers : Live(c)' =>
    /\ Live(c) /\ call'[c].id = call[c].id
    /\ call'[c].pc \in {"permit", "write"} => call[c].pc \in {"permit", "write"}

\* A step that takes a call from one place to the next keeps the calls.
LEMMA MovesOn ==
  ASSUME CallTypes, NEW c \in Callers,
         \/ \E p \in Pcs :
              /\ call' = [call EXCEPT ![c].pc = p]
              /\ \/ p \notin {"permit", "write", "release", "recv", "forget"}
                 \/ Live(c) /\ p # "permit" /\ (p = "write" => call[c].pc = "permit")
         \/ \E v \in Call : call' = [call EXCEPT ![c] = v] /\ v.pc \in {"idle", "scan", "join"}
  PROVE  CallsKept
<1>1. CASE \E p \in Pcs :
              /\ call' = [call EXCEPT ![c].pc = p]
              /\ \/ p \notin {"permit", "write", "release", "recv", "forget"}
                 \/ Live(c) /\ p # "permit" /\ (p = "write" => call[c].pc = "permit")
  <2>1. PICK p \in Pcs :
              /\ call' = [call EXCEPT ![c].pc = p]
              /\ \/ p \notin {"permit", "write", "release", "recv", "forget"}
                 \/ Live(c) /\ p # "permit" /\ (p = "write" => call[c].pc = "permit")
    BY Zenon, <1>1
  <2>2. call'[c].pc = p /\ call'[c].id = call[c].id
    BY <2>1 DEF CallTypes, Call
  <2>3. \A d \in Callers : d # c => call'[d] = call[d]
    BY <2>1 DEF CallTypes
  <2>. QED BY <2>1, <2>2, <2>3 DEF CallsKept, Live
<1>2. CASE \E v \in Call : call' = [call EXCEPT ![c] = v] /\ v.pc \in {"idle", "scan", "join"}
  <2>1. call'[c].pc \in {"idle", "scan", "join"}
    BY <1>2 DEF CallTypes
  <2>2. \A d \in Callers : d # c => call'[d] = call[d]
    BY <1>2 DEF CallTypes
  <2>. QED BY <2>1, <2>2 DEF CallsKept, Live
<1>. QED BY <1>1, <1>2

\* A step that keeps the calls, and of what is said of them only takes lines from
\* the wire, keeps the invariant.
LEMMA Frame ==
  ASSUME CInv, CallTypes', QemuTypes', Types', CallsKept,
         UNCHANGED <<chan, nextId, result>>,
         qemu'.did = qemu.did, qemu'.out = qemu.out,
         \A k \in 1..Len(qemu'.wire) : \E j \in 1..Len(qemu.wire) : qemu'.wire[k] = qemu.wire[j],
         reader'.at = "deliver" => UNCHANGED reader
  PROVE  CInv'
<1>1. Fresh'
  BY DEF CInv, Fresh
<1>2. Ours'
  BY DEF CInv, Ours, CallsKept, Live
<1>3. Unsent'
  BY DEF CInv, Unsent, CallsKept, Live
<1>4. Queue'
  BY DEF CInv, Queue
<1>5. Honest'
  BY DEF CInv, Honest
<1>. QED BY <1>1, <1>2, <1>3, <1>4, <1>5 DEF CInv

\* The steps of a call that neither take an id nor return nor write.
LEMMA CallerMoves ==
  ASSUME CInv, NEW c \in Callers, Caller(c),
         ~Insert(c), ~Write(c), ~WriteFails(c), ~Receive(c), ~Forget(c)
  PROVE  CallsKept /\ UNCHANGED <<chan, nextId, result, qemu, reader>>
<1>. USE Names DEF CInv
<1>1. UNCHANGED <<chan, nextId, result, qemu, reader>>
  BY DEF Caller, Refused, SleepOnWriter, NoPermit, TakePermit, Release, ReceiveTimesOut, ScanFinds,
     ScanGivesUp, SleepOnLog, Woken, WaitTimesOut, Join, Found, Abandon, table, history
<1>2. Idle \in Call /\ Idle.pc = "idle"
  BY DEF Idle, Call
<1>3. CASE Refused(c)
  <2>1. \E v \in Call : call' = [call EXCEPT ![c] = v] /\ v.pc \in {"idle", "scan", "join"}
    <3>1. [Idle EXCEPT !.pc = "join", !.op = "quit"] \in Call
      BY Zenon, <1>2 DEF Call
    <3>2. [Idle EXCEPT !.pc = "join", !.op = "quit"].pc = "join"
      BY <1>2 DEF Call
    <3>3. call' = [call EXCEPT ![c] = Idle] \/ call' = [call EXCEPT ![c] = [Idle EXCEPT !.pc = "join", !.op = "quit"]]
      BY Zenon, <1>3 DEF Refused, After
    <3>. QED BY Zenon, <1>2, <3>1, <3>2, <3>3
  <2>. QED BY Zenon, <1>1, <2>1, MovesOn
<1>4. CASE SleepOnWriter(c)
  BY <1>1, <1>4 DEF SleepOnWriter, CallsKept, Live
<1>5. CASE NoPermit(c) \/ TakePermit(c) \/ Release(c) \/ ReceiveTimesOut(c) \/ Woken(c) \/ Join(c)
  <2>1. \E p \in Pcs :
          /\ call' = [call EXCEPT ![c].pc = p]
          /\ \/ p \notin {"permit", "write", "release", "recv", "forget"}
             \/ Live(c) /\ p # "permit" /\ (p = "write" => call[c].pc = "permit")
    BY <1>5 DEF NoPermit, TakePermit, Release, Sent, ReceiveTimesOut, Woken, Join, Failing, Goto, Free, Live
  <2>. QED BY Zenon, <1>1, <2>1, MovesOn
<1>6. CASE ScanFinds(c) \/ ScanGivesUp(c) \/ WaitTimesOut(c)
  <2>1. call' = [call EXCEPT ![c] = Idle]
    BY <1>6 DEF ScanFinds, ScanGivesUp, WaitTimesOut, Found, Abandon
  <2>. QED BY Zenon, <1>1, <1>2, <2>1, MovesOn
<1>7. CASE SleepOnLog(c)
  <2>1. call'[c].pc = "asleep"
    BY <1>7 DEF SleepOnLog, CallTypes, Call
  <2>2. \A d \in Callers : d # c => call'[d] = call[d]
    BY <1>7 DEF SleepOnLog, CallTypes
  <2>. QED BY <1>1, <2>1, <2>2 DEF CallsKept, Live
<1>. QED BY <1>3, <1>4, <1>5, <1>6, <1>7 DEF Caller

\* A call takes an id that has left no trace.
LEMMA InsertStep ==
  ASSUME CInv, CallTypes', QemuTypes', Types', NEW c \in Callers, Insert(c)
  PROVE  CInv'
<1>. USE QmpAssumption DEF CInv
<1>1. /\ nextId \in Ids /\ nextId' = nextId + 1 /\ UNCHANGED <<chan, qemu, reader>>
      /\ result' = [result EXCEPT ![nextId] = "open"]
  BY DEF Insert, Types, Ids
<1>2. call'[c].pc = "permit" /\ call'[c].id = nextId
  BY DEF Insert, CallTypes, Call
<1>3. \A d \in Callers : d # c => call'[d] = call[d]
  BY DEF Insert, CallTypes
<1>4. result[nextId] = "new" /\ qemu.did[nextId] = "no" /\ chan[nextId] = "none"
  BY <1>1 DEF Fresh, Types, Ids
<1>5. Fresh'
  BY <1>1 DEF Fresh, Types, Ids
<1>6. Ours'
  <2>1. ASSUME NEW d \in Callers, d # c, Live(d)'
        PROVE  /\ call'[d].id \in Ids /\ call'[d].id < nextId /\ call'[d].id # nextId
               /\ result'[call'[d].id] = "open" /\ chan'[call'[d].id] # "dropped" /\ Live(d)
    <3>1. Live(d) /\ call'[d] = call[d]
      BY <1>3, <2>1 DEF Live
    <3>2. call[d].id \in Ids /\ call[d].id < nextId /\ result[call[d].id] = "open" /\ chan[call[d].id] # "dropped"
      BY <3>1 DEF Ours
    <3>3. call[d].id # nextId
      BY <1>1, <3>2 DEF Ids
    <3>. QED BY <1>1, <3>1, <3>2, <3>3 DEF Types
  <2>2. nextId < nextId' /\ \A i \in Ids : i < nextId => i < nextId'
    BY <1>1 DEF Ids
  <2>3. result'[nextId] = "open" /\ chan'[nextId] # "dropped"
    BY <1>1, <1>4 DEF Types
  <2>4. ASSUME NEW d \in Callers, Live(d)', NEW e \in Callers, Live(e)', call'[e].id = call'[d].id
        PROVE  e = d
    BY <1>2, <1>3, <2>1, <2>4 DEF Ours
  <2>. QED BY <1>1, <1>2, <2>1, <2>2, <2>3, <2>4 DEF Ours
<1>7. \A k \in 1..Len(qemu.out) : qemu.out[k].id \in Ids /\ qemu.out[k].id \in Nat
  <2>1. \A k \in 1..Len(qemu.out) : qemu.out[k] \in Lines
    BY SeqElement DEF QemuTypes, Monitor
  <2>. QED BY <2>1 DEF Lines, Ids
<1>8. Unsent' /\ Queue'
  <2>1. \A k \in 1..Len(qemu.out) : qemu.out[k].id # nextId /\ qemu.out[k].id < nextId + 1
    BY <1>1, <1>7 DEF Queue, Types
  <2>2. Unsent'
    BY <1>1, <1>2, <1>3, <1>4, <2>1 DEF Unsent
  <2>3. Queue'
    BY <1>1, <2>1 DEF Queue
  <2>. QED BY <2>2, <2>3
<1>9. Honest'
  BY <1>1 DEF Honest
<1>. QED BY <1>5, <1>6, <1>7, <1>8, <1>9

\* The line of a command joins the queue once, or a part of it does and counts
\* for nothing.
LEMMA WriteStep ==
  ASSUME CInv, CallTypes', QemuTypes', Types', NEW c \in Callers, Write(c) \/ WriteFails(c)
  PROVE  CInv'
<1>. USE DEF CInv
<1>1. call[c].pc = "write" /\ UNCHANGED <<chan, nextId, result, reader>>
  BY DEF Write, WriteFails, Free, table, history
<1>2. call'[c].pc = "release" /\ call'[c].id = call[c].id
  <2>1. CASE Write(c)
    BY <2>1 DEF Write, Goto, CallTypes, Call
  <2>2. CASE WriteFails(c)
    <3>1. call' = [call EXCEPT ![c].pc = "release", ![c].failed = TRUE]
      BY <2>2, Zenon DEF WriteFails
    <3>. QED BY <3>1 DEF CallTypes, Call
  <2>. QED BY <2>1, <2>2
<1>3. \A d \in Callers : d # c => call'[d] = call[d]
  BY DEF Write, WriteFails, Goto, CallTypes
<1>4. CallsKept
  BY <1>1, <1>2, <1>3 DEF CallsKept, Live
<1>5. CASE qemu' = [qemu EXCEPT !.torn = TRUE]
  <2>1. qemu'.did = qemu.did /\ qemu'.out = qemu.out /\ qemu'.wire = qemu.wire
    BY <1>5 DEF QemuTypes, Monitor
  <2>. QED BY <1>1, <1>4, <2>1, Frame
<1>6. CASE qemu' = [qemu EXCEPT !.out = Append(qemu.out, Line(c))]
  <2>1. qemu'.did = qemu.did /\ qemu'.out = Append(qemu.out, Line(c)) /\ qemu'.wire = qemu.wire
    BY <1>6 DEF QemuTypes, Monitor
  <2>2. qemu.out \in Seq(Lines) /\ Line(c) \in Lines /\ Line(c).id = call[c].id
    BY <1>1, LineIsOne DEF QemuTypes, Monitor
  <2>3. /\ Len(qemu'.out) = Len(qemu.out) + 1 /\ Len(qemu.out) \in Nat
        /\ \A k \in 1..Len(qemu.out) : qemu'.out[k] = qemu.out[k]
        /\ qemu'.out[Len(qemu.out) + 1] = Line(c)
    BY <2>1, <2>2, SeqAppend, SeqLen
  <2>4. /\ call[c].id < nextId /\ qemu.did[call[c].id] = "no"
        /\ \A k \in 1..Len(qemu.out) : qemu.out[k].id # call[c].id
    BY <1>1 DEF Ours, Live, Unsent
  <2>5. \A k \in 1..Len(qemu'.out) : k \in 1..Len(qemu.out) \/ k = Len(qemu.out) + 1
    BY <2>3
  <2>6. Fresh' /\ Honest'
    BY <1>1, <2>1 DEF Fresh, Honest
  <2>7. Ours'
    BY <1>1, <1>4 DEF Ours, CallsKept, Live
  <2>8. Unsent'
    <3>. SUFFICES ASSUME NEW d \in Callers, call'[d].pc \in {"permit", "write"}
                  PROVE  /\ qemu'.did[call'[d].id] = "no"
                         /\ \A k \in 1..Len(qemu'.out) : qemu'.out[k].id # call'[d].id
      BY DEF Unsent
    <3>1. d # c /\ call'[d] = call[d]
      BY <1>2, <1>3
    <3>2. call[d].id # call[c].id
      BY <1>1, <3>1 DEF Ours, Live
    <3>. QED BY <2>1, <2>2, <2>3, <2>5, <3>1, <3>2 DEF Unsent
  <2>9. Queue'
    BY <1>1, <2>1, <2>2, <2>3, <2>4, <2>5 DEF Queue
  <2>. QED BY <2>6, <2>7, <2>8, <2>9
<1>. QED BY <1>5, <1>6, Zenon DEF Write, WriteFails

\* The lines queued for QEMU have ids of commands.
LEMMA OutIds ==
  ASSUME QemuTypes
  PROVE  /\ qemu.out \in Seq(Lines)
         /\ \A k \in 1..Len(qemu.out) : qemu.out[k].id \in Ids /\ qemu.out[k].id \in Nat
<1>1. qemu.out \in Seq(Lines)
  BY DEF QemuTypes, Monitor
<1>2. \A k \in 1..Len(qemu.out) : qemu.out[k] \in Lines
  BY <1>1, SeqElement
<1>. QED BY <1>1, <1>2, QmpAssumption DEF Lines, Ids

\* After a return the call has no id, and no other call is touched.
LEMMA AfterIs ==
  ASSUME CallTypes, NEW c \in Callers, NEW r, After(c, r)
  PROVE  CallsKept /\ ~Live(c)'
<1>. USE Names
<1>1. Idle \in Call /\ Idle.pc = "idle"
  BY DEF Idle, Call
<1>2. [Idle EXCEPT !.pc = "join", !.op = "quit"] \in Call /\ [Idle EXCEPT !.pc = "join", !.op = "quit"].pc = "join"
  BY Zenon, <1>1 DEF Call
<1>3. LET v == [call[c] EXCEPT !.pc = "scan", !.next = call[c].mark] IN v \in Call /\ v.pc = "scan"
  BY Zenon DEF CallTypes, Call
<1>4. PICK v \in Call : call' = [call EXCEPT ![c] = v] /\ v.pc \in {"idle", "scan", "join"}
  BY Zenon, <1>1, <1>2, <1>3 DEF After
<1>5. CallsKept
  BY Zenon, <1>4, MovesOn
<1>6. ~Live(c)'
  BY <1>4 DEF Live, CallTypes
<1>. QED BY <1>5, <1>6

\* A call returns: its id is its own, so nobody else's receiver is dropped.
LEMMA ReturnStep ==
  ASSUME CInv, CallTypes', QemuTypes', Types', NEW c \in Callers, Receive(c) \/ Forget(c)
  PROVE  CInv'
<1>. USE DEF CInv
<1>1. PICK r : After(c, r)
  BY DEF Receive, Forget, Return
<1>2. Live(c) /\ CallsKept /\ ~Live(c)'
  BY <1>1, AfterIs DEF Receive, Forget, Free, Live
<1>3. UNCHANGED <<nextId, qemu, reader>> /\ chan' = [chan EXCEPT ![call[c].id] = "dropped"]
  BY DEF Receive, Forget, Return
<1>4. \A i \in Ids : i # call[c].id => result'[i] = result[i] /\ chan'[i] = chan[i]
  BY DEF Receive, Forget, Return, Types
<1>5. call[c].id \in Ids /\ call[c].id < nextId /\ chan'[call[c].id] = "dropped"
  BY Zenon, <1>2, <1>3 DEF Ours, Types
<1>6. Fresh'
  <2>1. \A i \in Ids : i >= nextId => i # call[c].id
    BY <1>5, QmpAssumption DEF Ids, Types
  <2>. QED BY Zenon, <1>3, <1>4, <2>1 DEF Fresh
<1>7. Ours'
  <2>1. ASSUME NEW d \in Callers, Live(d)'
        PROVE  Live(d) /\ call'[d].id = call[d].id /\ call[d].id # call[c].id
    BY Zenon, <1>2, <2>1 DEF CallsKept, Ours
  <2>. QED BY <1>3, <1>4, <2>1 DEF Ours
<1>8. Unsent' /\ Queue'
  <2>1. Unsent'
    BY <1>2, <1>3 DEF Unsent, CallsKept, Live
  <2>2. Queue'
    BY Zenon, <1>3 DEF Queue
  <2>. QED BY Zenon, <2>1, <2>2
<1>9. Honest'
  BY Zenon, <1>3, <1>4, <1>5 DEF Honest, Answered
<1>. QED BY <1>6, <1>7, <1>8, <1>9

\* A message put into a channel is of one that had been given out, and an answer
\* that is QEMU's.
LEMMA SendStep ==
  ASSUME CInv, CallTypes', QemuTypes', Types', NEW i \in Ids, NEW r, Send(i, r), CanSend(i),
         UNCHANGED <<call, nextId, result, qemu>>,
         i < nextId, r # "dropped", r \in Answered => qemu.did[i] = r,
         reader'.at = "deliver" => UNCHANGED reader
  PROVE  CInv'
<1>. USE DEF CInv
<1>1. /\ \A j \in Ids : j # i => chan'[j] = chan[j]
      /\ chan'[i] = IF chan[i] = "none" THEN r ELSE chan[i]
  BY DEF Send, Types
<1>2. Fresh'
  BY <1>1, QmpAssumption DEF Fresh, Ids, Types
<1>3. Ours'
  <2>1. call' = call /\ nextId' = nextId /\ result' = result
    OBVIOUS
  <2>2. \A c \in Callers : Live(c)' <=> Live(c)
    BY Zenon, <2>1 DEF Live
  <2>3. \A j \in Ids : chan[j] # "dropped" => chan'[j] # "dropped"
    BY Zenon, <1>1
  <2>. QED BY Zenon, <2>1, <2>2, <2>3 DEF Ours
<1>4. Unsent' /\ Queue'
  BY DEF Unsent, Queue
<1>5. Honest'
  BY <1>1 DEF Honest
<1>. QED BY <1>2, <1>3, <1>4, <1>5

\* What waits in the table, or was drained from it, has been given out, and an id
\* that was given out is that of a call
Given == \A i \in Ids :
    /\ i >= nextId => i \notin pending /\ \A t \in Threads : i \notin drained[t]
    /\ result[i] = "new" => i >= nextId

\* Every step keeps that.
LEMMA GivenStep == Types /\ Ours /\ Given /\ [Next]_vars => Given'
<1>. SUFFICES ASSUME Types, Ours, Given, [Next]_vars PROVE Given'
  OBVIOUS
<1>. USE DEF Given
<1>1. CASE pending' \subseteq pending /\ UNCHANGED <<nextId, drained, result>>
  BY <1>1
<1>2. ASSUME NEW t \in Threads, Drain(t) \/ AnswerDrained(t) PROVE Given'
  BY <1>2 DEF Drain, AnswerDrained, Types, history
<1>3. ASSUME NEW c \in Callers, Insert(c) PROVE Given'
  BY <1>3, QmpAssumption DEF Insert, shut, Types, Ids
<1>4. ASSUME NEW t \in Threads, Shutdown(t), ~Drain(t), ~AnswerDrained(t)
      PROVE  UNCHANGED <<pending, nextId, drained, result>>
  BY <1>4 DEF Shutdown, Sever, CloseWriter, CloseLog, AllAnswered, table, history
<1>5. ASSUME NEW c \in Callers, Caller(c), ~Insert(c), ~Receive(c), ~Forget(c)
      PROVE  pending' \subseteq pending /\ UNCHANGED <<nextId, drained, result>>
  BY <1>5 DEF Caller, Refused, SleepOnWriter, NoPermit, TakePermit, Write, WriteFails, Release,
       ReceiveTimesOut, ScanFinds, ScanGivesUp, SleepOnLog, Woken, WaitTimesOut, Join, Found,
       Abandon, table, shut, history
<1>7. ASSUME NEW c \in Callers, Receive(c) \/ Forget(c) PROVE Given'
  <2>1. call[c].id \in Ids
    BY <1>7 DEF Receive, Forget, Free, Ours, Live
  <2>2. pending' \subseteq pending /\ UNCHANGED <<nextId, drained>>
    BY <1>7 DEF Receive, Forget
  <2>3. \E r : r # "new" /\ result' = [result EXCEPT ![call[c].id] = r]
    BY Zenon, <1>7, <2>1 DEF Receive, Forget, Return, Types
  <2>. QED BY <2>1, <2>2, <2>3 DEF Types
<1>6. CASE HandshakeLine \/ HandshakeFails \/ Begin \/ ReaderStep \/ ReadError \/ Qemu \/ Finished
  <2>1. pending' \subseteq pending /\ UNCHANGED <<nextId, drained, result>>
    BY Zenon, <1>6 DEF HandshakeLine, HandshakeFails, Begin, BeginClose, BeginDrop, BeginSnapshot,
         BeginExecute, ReaderStep, ReadEvent, ReadReply, ReadLate, Deliver, ReadEnd, ReadError,
         ReaderExits, Qemu, Serve, MigrationEnds, Finished, vars, table, shut,
         history
  <2>. QED BY <1>1, <2>1
<1>. QED
  BY Zenon, <1>1, <1>2, <1>3, <1>4, <1>5, <1>6, <1>7 DEF Next, Threads, vars, table, shut, history

\* What Serve does: the command at the head of the queue has not been carried out
\* before; it is answered, and a migration it starts is the only one
Serves(cmd, r, t) ==
    /\ 1 \in 1..Len(qemu.out) /\ cmd = qemu.out[1]
    /\ cmd.id \in Ids /\ cmd.id < nextId /\ qemu.did[cmd.id] = "no"
    /\ \A k \in 1..Len(qemu'.out) :
        k + 1 \in 1..Len(qemu.out) /\ qemu'.out[k] = qemu.out[k + 1] /\ qemu'.out[k].id # cmd.id
    /\ qemu'.did[cmd.id] = r /\ \A i \in Ids : i # cmd.id => qemu'.did[i] = qemu.did[i]
    /\ qemu'.wire = Told(t)
    /\ \A n \in 1..Len(t) :
        /\ t[n].kind = "reply" => t[n].id = cmd.id /\ t[n].answer = r
        /\ t[n].kind # "ended"
    /\ IF cmd.op = "migrate" /\ r = "return"
       THEN qemu.active = 0 /\ qemu'.active = cmd.id ELSE qemu'.active = qemu.active

\* It does that.
LEMMA ServeIs ==
  ASSUME QemuTypes, Queue, Serve
  PROVE  \E cmd \in Lines, r \in Answered, t \in Seq(Message) : Serves(cmd, r, t)
<1>. DEFINE cmd == Head(qemu.out)
<1>1. /\ qemu.out \in Seq(Lines) /\ qemu.out # <<>>
      /\ cmd.id \in Ids /\ cmd.id \in Nat /\ cmd = qemu.out[1] /\ 1 \in 1..Len(qemu.out)
  <2>1. qemu.out \in Seq(Lines) /\ qemu.out # <<>>
    BY OutIds DEF Serve
  <2>2. 1 \in 1..Len(qemu.out) /\ cmd = qemu.out[1]
    BY <2>1, SeqEmpty, SeqLen
  <2>. QED BY <2>1, <2>2, OutIds
<1>2. cmd \in Lines
  BY <1>1, SeqTail
<1>3. PICK r \in Answered :
        LET starts == cmd.op = "migrate" /\ r = "return"
            reply == [kind |-> "reply", id |-> cmd.id, answer |-> r]
            active == [kind |-> "other", id |-> cmd.id, answer |-> "none"] IN
        /\ starts => qemu.active = 0
        /\ qemu' = [qemu EXCEPT !.out = Tail(@),
                                !.wire = Told(IF starts THEN <<reply, active>> ELSE <<reply>>),
                                !.active = IF starts THEN cmd.id ELSE @,
                                !.did[cmd.id] = r]
  BY Zenon DEF Serve, Answered
<1>. DEFINE starts == cmd.op = "migrate" /\ r = "return"
            reply == [kind |-> "reply", id |-> cmd.id, answer |-> r]
            active == [kind |-> "other", id |-> cmd.id, answer |-> "none"]
            t == IF starts THEN <<reply, active>> ELSE <<reply>>
<1>4. t \in Seq(Message)
  BY Zenon, <1>1, ServeSays DEF Answered
<1>5. \A n \in 1..Len(t) :
        /\ t[n].kind = "reply" => t[n].id = cmd.id /\ t[n].answer = r
        /\ t[n].kind # "ended"
  <2>1. t = <<reply>> \/ t = <<reply, active>>
    BY Zenon
  <2>2. PICK i : i = cmd.id
    OBVIOUS
  <2>. HIDE DEF t, cmd
  <2>. QED BY <2>1, <2>2, ServeTells
<1>6. /\ qemu'.out = Tail(qemu.out) /\ qemu'.wire = Told(t)
      /\ qemu'.active = IF starts THEN cmd.id ELSE qemu.active
      /\ qemu'.did = [qemu.did EXCEPT ![cmd.id] = r]
  <2>. HIDE DEF t
  <2>1. qemu' = [qemu EXCEPT !.out = Tail(qemu.out), !.wire = Told(t),
                             !.active = IF starts THEN cmd.id ELSE qemu.active, !.did[cmd.id] = r]
    BY <1>3 DEF t
  <2>. QED BY <1>1, <2>1 DEF QemuTypes, Monitor
<1>. HIDE DEF t
<1>7. /\ qemu'.did[cmd.id] = r /\ \A i \in Ids : i # cmd.id => qemu'.did[i] = qemu.did[i]
      /\ qemu.did[cmd.id] = "no" /\ cmd.id < nextId
  BY <1>1, <1>6 DEF QemuTypes, Monitor, Queue
<1>8. \A k \in 1..Len(qemu'.out) :
        k + 1 \in 1..Len(qemu.out) /\ qemu'.out[k] = qemu.out[k + 1] /\ qemu'.out[k].id # cmd.id
  <2>1. /\ Len(qemu'.out) = Len(qemu.out) - 1 /\ Len(qemu.out) \in Nat
        /\ \A k \in 1..Len(qemu'.out) : qemu'.out[k] = qemu.out[k + 1]
    BY <1>1, <1>6, SeqTail, SeqLen
  <2>2. \A k \in 1..Len(qemu'.out) : k + 1 \in 1..Len(qemu.out) /\ k + 1 # 1
    BY <2>1
  <2>. QED BY <1>1, <2>1, <2>2 DEF Queue
<1>9. IF starts THEN qemu.active = 0 /\ qemu'.active = cmd.id ELSE qemu'.active = qemu.active
  BY <1>3, <1>6
<1>. HIDE DEF cmd
<1>10. Serves(cmd, r, t)
  BY <1>1, <1>5, <1>6, <1>7, <1>8, <1>9 DEF Serves
<1>. QED BY <1>2, <1>4, <1>10

\* QEMU carries out the command at the head of the queue.
LEMMA ServeStep ==
  ASSUME CInv, CallTypes', QemuTypes', Types', Serve
  PROVE  CInv'
<1>. USE DEF CInv
<1>0. PICK cmd \in Lines, r \in Answered, t \in Seq(Message) : Serves(cmd, r, t)
  BY ServeIs
<1>1. /\ cmd.id \in Ids /\ cmd.id < nextId /\ qemu.did[cmd.id] = "no"
      /\ qemu'.did[cmd.id] = r /\ \A i \in Ids : i # cmd.id => qemu'.did[i] = qemu.did[i]
      /\ 1 \in 1..Len(qemu.out) /\ cmd = qemu.out[1]
      /\ \A k \in 1..Len(qemu'.out) :
          k + 1 \in 1..Len(qemu.out) /\ qemu'.out[k] = qemu.out[k + 1] /\ qemu'.out[k].id # cmd.id
  BY <1>0 DEF Serves
<1>2. UNCHANGED <<chan, nextId, call, reader, result>>
  BY DEF Serve, table, history
<1>3. Fresh'
  <2>1. \A i \in Ids : i >= nextId => i # cmd.id
    BY <1>1, QmpAssumption DEF Ids, Types
  <2>. QED BY Zenon, <1>2, <1>1, <2>1 DEF Fresh
<1>4. Ours'
  BY <1>2 DEF Ours, Live
<1>5. Unsent'
  <2>. SUFFICES ASSUME NEW d \in Callers, call[d].pc \in {"permit", "write"}
                PROVE  /\ qemu'.did[call[d].id] = "no"
                       /\ \A k \in 1..Len(qemu'.out) : qemu'.out[k].id # call[d].id
    BY <1>2 DEF Unsent
  <2>1. call[d].id \in Ids
    BY DEF Ours, Live
  <2>2. qemu.did[call[d].id] = "no" /\ \A k \in 1..Len(qemu.out) : qemu.out[k].id # call[d].id
    BY DEF Unsent
  <2>. QED BY <1>1, <2>1, <2>2
<1>6. Queue'
  <2>1. \A k \in 1..Len(qemu'.out) : qemu'.out[k].id \in Ids
    BY Zenon, <1>1, OutIds
  <2>2. \A j, k \in 1..Len(qemu'.out) : j + 1 = k + 1 => j = k
    OBVIOUS
  <2>3. ASSUME NEW k \in 1..Len(qemu'.out), NEW j \in 1..Len(qemu'.out), qemu'.out[j].id = qemu'.out[k].id
        PROVE  j = k
    <3>1. /\ j + 1 \in 1..Len(qemu.out) /\ k + 1 \in 1..Len(qemu.out)
          /\ qemu.out[j + 1].id = qemu.out[k + 1].id
      BY Zenon, <1>1, <2>3
    <3>2. j + 1 = k + 1
      BY <3>1 DEF Queue
    <3>. QED BY <2>2, <3>2
  <2>4. ASSUME NEW k \in 1..Len(qemu'.out)
        PROVE  qemu'.out[k].id < nextId /\ qemu'.did[qemu'.out[k].id] = "no"
    <3>1. k + 1 \in 1..Len(qemu.out) /\ qemu'.out[k] = qemu.out[k + 1] /\ qemu'.out[k].id # cmd.id
      BY <1>1
    <3>2. qemu.out[k + 1].id < nextId /\ qemu.did[qemu.out[k + 1].id] = "no"
      BY Zenon, <3>1 DEF Queue
    <3>. QED BY <1>1, <2>1, <3>1, <3>2
  <2>. QED BY <1>2, <2>3, <2>4 DEF Queue
<1>7. Honest'
  <2>1. ASSUME NEW k \in 1..Len(qemu'.wire), qemu'.wire[k].kind = "reply"
        PROVE  /\ qemu'.wire[k].id \in Ids /\ qemu'.wire[k].answer \in Answered
               /\ qemu'.did[qemu'.wire[k].id] = qemu'.wire[k].answer
    <3>1. CASE k \in 1..Len(qemu.wire) /\ qemu'.wire[k] = qemu.wire[k]
      <4>1. /\ qemu.wire[k].id \in Ids /\ qemu.wire[k].answer \in Answered
            /\ qemu.did[qemu.wire[k].id] = qemu.wire[k].answer
        BY <2>1, <3>1 DEF Honest
      <4>. QED BY Zenon, <1>1, <3>1, <4>1 DEF Answered
    <3>2. CASE \E n \in 1..Len(t) : qemu'.wire[k] = t[n]
      <4>1. qemu'.wire[k].id = cmd.id /\ qemu'.wire[k].answer = r
        BY <1>0, <2>1, <3>2 DEF Serves
      <4>. QED BY Zenon, <1>1, <4>1
    <3>3. qemu'.wire = Told(t)
      BY <1>0 DEF Serves
    <3>. QED BY <3>1, <3>2, <3>3, ToldIs
  <2>2. \A i \in Ids : qemu.did[i] \in Answered => qemu'.did[i] = qemu.did[i]
    BY <1>1 DEF Answered
  <2>. QED BY Zenon, <1>2, <2>1, <2>2 DEF Honest
<1>. QED BY <1>3, <1>4, <1>5, <1>6, <1>7

\* A migration ends; that says nothing of commands.
LEMMA MigrationEndsStep ==
  ASSUME CInv, CallTypes', QemuTypes', Types', MigrationEnds
  PROVE  CInv'
<1>. USE DEF CInv
<1>1. UNCHANGED <<chan, nextId, call, reader, result>>
  BY DEF MigrationEnds, table, history
<1>2. qemu.active \in Nat
  BY DEF QemuTypes, Monitor
<1>3. PICK r \in {"return", "error"} :
        qemu' = [qemu EXCEPT !.active = 0,
                             !.wire = Told(<<[kind |-> "ended", id |-> qemu.active, answer |-> r]>>)]
  BY Zenon DEF MigrationEnds
<1>. DEFINE t == <<[kind |-> "ended", id |-> qemu.active, answer |-> r]>>
<1>4. t \in Seq(Message) /\ \A j \in 1..Len(t) : t[j].kind # "reply"
  <2>1. t \in Seq(Message)
    BY Zenon, <1>2, ServeSays
  <2>2. \A j \in 1..Len(t) : t[j].kind # "reply"
    OBVIOUS
  <2>. QED BY <2>1, <2>2
<1>5. qemu'.out = qemu.out /\ qemu'.wire = Told(t) /\ qemu'.did = qemu.did
  BY Zenon, <1>3 DEF QemuTypes, Monitor
<1>6. Fresh' /\ Ours'
  BY Zenon, <1>1, <1>5 DEF Fresh, Ours, Live
<1>7. Unsent' /\ Queue'
  BY <1>1, <1>5 DEF Unsent, Queue
<1>8. ASSUME NEW k \in 1..Len(qemu'.wire), qemu'.wire[k].kind = "reply"
      PROVE  k \in 1..Len(qemu.wire) /\ qemu'.wire[k] = qemu.wire[k]
  <2>. HIDE DEF t
  <2>1. \/ k \in 1..Len(qemu.wire) /\ Told(t)[k] = qemu.wire[k]
        \/ \E j \in 1..Len(t) : Told(t)[k] = t[j]
    <3>1. t \in Seq(Message) /\ k \in 1..Len(Told(t))
      BY Zenon, <1>4, <1>5, <1>8
    <3>. QED BY Zenon, <3>1, ToldIs
  <2>. QED BY <1>4, <1>5, <1>8, <2>1
<1>9. Honest'
  BY Zenon, <1>1, <1>5, <1>8 DEF Honest
<1>. QED BY <1>6, <1>7, <1>9

\* The reader takes a line from the wire, and a reply from the table.
LEMMA ReadStep ==
  ASSUME CInv, CallTypes', QemuTypes', Types', ReadEvent \/ ReadReply \/ ReadLate \/ ReadEnd \/ ReadError
  PROVE  CInv'
<1>. USE DEF CInv
<1>1. UNCHANGED <<chan, nextId, call, result>>
  BY DEF ReadEvent, ReadReply, ReadLate, ReadEnd, ReadError, ReaderExits, table, history
<1>2. CallsKept
  BY <1>1 DEF CallsKept, Live
<1>3. qemu.wire \in Seq(Message)
  BY DEF QemuTypes, Monitor
<1>4. /\ qemu'.did = qemu.did /\ qemu'.out = qemu.out
      /\ \A k \in 1..Len(qemu'.wire) : \E j \in 1..Len(qemu.wire) : qemu'.wire[k] = qemu.wire[j]
  <2>1. CASE ReadEvent \/ ReadReply \/ ReadLate
    <3>1. qemu' = [qemu EXCEPT !.wire = Tail(qemu.wire)] /\ qemu.wire # <<>>
      BY <2>1 DEF ReadEvent, ReadReply, ReadLate, Incoming, TakeLine
    <3>2. qemu'.did = qemu.did /\ qemu'.out = qemu.out /\ qemu'.wire = Tail(qemu.wire)
      BY <3>1 DEF QemuTypes, Monitor
    <3>3. /\ Len(qemu'.wire) = Len(qemu.wire) - 1 /\ Len(qemu.wire) \in Nat
          /\ \A k \in 1..Len(qemu'.wire) : qemu'.wire[k] = qemu.wire[k + 1]
      BY <1>3, <3>1, <3>2, SeqTail, SeqLen
    <3>4. \A k \in 1..Len(qemu'.wire) : k + 1 \in 1..Len(qemu.wire)
      BY <3>3
    <3>. QED BY <3>2, <3>3, <3>4
  <2>2. CASE ReadEnd \/ ReadError
    <3>1. qemu' = [qemu EXCEPT !.wire = <<>>]
      BY <2>2 DEF ReadEnd, ReadError, ReaderExits
    <3>2. qemu'.did = qemu.did /\ qemu'.out = qemu.out /\ qemu'.wire = <<>>
      BY <3>1 DEF QemuTypes, Monitor
    <3>. QED BY <3>2
  <2>. QED BY Zenon, <2>1, <2>2
<1>5. CASE ReadReply
  <2>1. /\ qemu.wire # <<>> /\ Head(qemu.wire).kind = "reply"
        /\ reader' = [at |-> "deliver", reply |-> [id |-> Head(qemu.wire).id, answer |-> Head(qemu.wire).answer]]
    BY <1>5 DEF ReadReply, Incoming
  <2>2. Head(qemu.wire) = qemu.wire[1] /\ 1 \in 1..Len(qemu.wire)
    BY <1>3, <2>1, SeqEmpty, SeqLen
  <2>3. /\ reader'.reply.id \in Ids /\ reader'.reply.answer \in Answered
        /\ qemu.did[reader'.reply.id] = reader'.reply.answer
    BY Zenon, <2>1, <2>2 DEF Honest
  <2>4. Fresh' /\ Ours'
    BY <1>1, <1>4 DEF Fresh, Ours, Live
  <2>5. Unsent' /\ Queue'
    BY <1>1, <1>4 DEF Unsent, Queue
  <2>6. Honest'
    BY <1>1, <1>4, <2>3 DEF Honest
  <2>. QED BY <2>4, <2>5, <2>6
<1>6. CASE ~ReadReply
  <2>1. reader'.at = "deliver" => UNCHANGED reader
    BY <1>6 DEF ReadEvent, ReadLate, ReadEnd, ReadError, ReaderExits, Types
  <2>. QED BY <1>1, <1>2, <1>4, <2>1, Frame
<1>. QED BY <1>5, <1>6

\* Every step keeps the invariant behind the contract.
LEMMA CInvStep == CInv /\ Given /\ [Next]_vars => CInv'
<1>. SUFFICES ASSUME CInv, Given, [Next]_vars PROVE CInv'
  OBVIOUS
<1>0. CallTypes' /\ QemuTypes' /\ Types'
  BY CallTypesStep, QemuTypesStep, TypesStep DEF CInv
<1>1. ASSUME CallsKept, UNCHANGED <<chan, nextId, result, qemu, reader>> PROVE CInv'
  BY <1>0, <1>1, Frame
<1>2. CASE UNCHANGED vars
  BY Zenon, <1>1, <1>2 DEF vars, table, history, CallsKept, Live
<1>3. CASE HandshakeLine \/ HandshakeFails \/ Finished
  BY <1>1, <1>3 DEF HandshakeLine, HandshakeFails, Finished, vars, table, history, CallsKept, Live
<1>4. CASE Begin
  <2>1. UNCHANGED <<chan, nextId, result, qemu, reader>>
    BY Zenon, <1>4 DEF Begin, BeginClose, BeginDrop, BeginSnapshot, BeginExecute, table, history
  <2>2. ASSUME NEW c \in Callers, NEW p \in {"insert", "join"}, call'[c].pc = p,
               \A d \in Callers : d # c => call'[d] = call[d]
        PROVE  CallsKept
    BY <2>2 DEF CallsKept, Live
  <2>3. CASE BeginClose \/ BeginDrop
    <3>1. call'[Owner].pc \in {"insert", "join"} /\ \A d \in Callers : d # Owner => call'[d] = call[d]
      BY <2>3, QmpAssumption DEF CInv, BeginClose, BeginDrop, CallTypes, Call
    <3>. QED BY <1>1, <2>1, <2>2, <3>1, QmpAssumption
  <2>4. ASSUME NEW c \in Callers, BeginSnapshot(c) \/ BeginExecute(c) PROVE CInv'
    <3>1. call'[c].pc = "insert"
      BY <2>4 DEF CInv, BeginSnapshot, BeginExecute, CallTypes, Call
    <3>2. \A d \in Callers : d # c => call'[d] = call[d]
      BY <2>4 DEF CInv, BeginSnapshot, BeginExecute, CallTypes
    <3>. QED BY <1>1, <2>1, <2>2, <3>1, <3>2
  <2>. QED BY <1>4, <2>3, <2>4 DEF Begin
<1>5. ASSUME NEW c \in Callers, Caller(c) PROVE CInv'
  BY <1>0, <1>1, <1>5, CallerMoves, InsertStep, WriteStep, ReturnStep
<1>6. ASSUME NEW t \in Threads, Shutdown(t) PROVE CInv'
  <2>1. CASE Sever(t)
    <3>1. UNCHANGED <<chan, nextId, call, reader, result>> /\ qemu' = [qemu EXCEPT !.out = <<>>]
      BY <2>1 DEF Sever, table, history
    <3>2. qemu'.out = <<>> /\ qemu'.wire = qemu.wire /\ qemu'.did = qemu.did
      BY <3>1 DEF CInv, QemuTypes, Monitor
    <3>3. Fresh' /\ Ours'
      BY <3>1, <3>2 DEF CInv, Fresh, Ours, Live
    <3>4. Unsent' /\ Queue'
      BY <3>1, <3>2 DEF CInv, Unsent, Queue
    <3>5. Honest'
      BY <3>1, <3>2 DEF CInv, Honest
    <3>. QED BY <1>0, <3>3, <3>4, <3>5 DEF CInv
  <2>2. CASE AnswerDrained(t)
    <3>1. PICK i \in drained[t] : CanSend(i) /\ Send(i, "closed")
      BY <2>2 DEF AnswerDrained
    <3>2. i \in Ids /\ i < nextId
      <4>1. i \in Ids /\ nextId \in Nat
        BY DEF CInv, Types
      <4>2. ~(i >= nextId)
        BY <4>1 DEF Given
      <4>. QED BY <4>1, <4>2, QmpAssumption DEF Ids
    <3>3. UNCHANGED <<call, nextId, result, qemu, reader>>
      BY <2>2 DEF AnswerDrained, history
    <3>. QED BY <1>0, <3>1, <3>2, <3>3, SendStep DEF Answered
  <2>3. CASE ~Sever(t) /\ ~AnswerDrained(t)
    <3>1. UNCHANGED <<call, chan, nextId, result, qemu, reader>>
      BY Zenon, <1>6, <2>3 DEF Shutdown, CloseWriter, CloseLog, Drain, AllAnswered, table, history
    <3>. QED BY <1>1, <3>1 DEF CallsKept, Live
  <2>. QED BY <2>1, <2>2, <2>3
<1>7. CASE Deliver
  <2>1. /\ reader.reply.id \in Ids /\ reader.reply.answer \in Answered
        /\ qemu.did[reader.reply.id] = reader.reply.answer
    BY Zenon, <1>7 DEF CInv, Honest, Deliver
  <2>2. reader.reply.id < nextId
    <3>1. ~(reader.reply.id >= nextId)
      BY <2>1 DEF CInv, Fresh, Answered
    <3>. QED BY <2>1, <3>1, QmpAssumption DEF CInv, Types, Ids
  <2>3. /\ UNCHANGED <<call, nextId, result, qemu>> /\ reader'.at # "deliver"
        /\ CanSend(reader.reply.id) /\ Send(reader.reply.id, reader.reply.answer)
    BY <1>7 DEF Deliver, history
  <2>. QED BY Zenon, <1>0, <2>1, <2>2, <2>3, SendStep DEF Answered
<1>8. CASE Qemu \/ (ReaderStep /\ ~Deliver) \/ ReadError
  BY <1>0, <1>8, ServeStep, MigrationEndsStep, ReadStep DEF Qemu, ReaderStep
<1>. QED
  BY <1>2, <1>3, <1>4, <1>5, <1>6, <1>7, <1>8 DEF Next, Threads

-----------------------------------------------------------------------------
\* Every step of the connection is a step of the contract, or none.
LEMMA ContractStep == CInv /\ Given /\ [Next]_vars => [Contract!Next]_(Contract!vars)
<1>. SUFFICES ASSUME CInv, Given, [Next]_vars PROVE [Contract!Next]_(Contract!vars)
  OBVIOUS
<1>1. CASE UNCHANGED <<result, qemu>>
  BY <1>1 DEF Contract!vars
<1>2. ASSUME NEW c \in Callers, Insert(c) PROVE Contract!Next
  <2>1. nextId \in Ids
    BY <1>2, QmpAssumption DEF Insert, CInv, Types, Ids
  <2>2. Contract!Open(nextId)
    BY <1>2, <2>1 DEF Insert, CInv, Fresh, Types, Ids, Contract!Open
  <2>. QED BY <2>1, <2>2 DEF Contract!Next
<1>3. ASSUME NEW c \in Callers, Receive(c) \/ Forget(c) PROVE Contract!Next
  <2>1. call[c].id \in Ids /\ result[call[c].id] = "open" /\ UNCHANGED qemu
    BY Zenon, <1>3 DEF CInv, Ours, Live, Receive, Forget, Free
  <2>2. CASE result' = [result EXCEPT ![call[c].id] = "failed"]
    BY Zenon, <2>1, <2>2 DEF Contract!Next, Contract!Fail
  <2>3. CASE Receive(c) /\ chan[call[c].id] # "closed"
    <3>1. chan[call[c].id] \in Answered /\ result' = [result EXCEPT ![call[c].id] = chan[call[c].id]]
      BY Zenon, <2>1, <2>3 DEF CInv, Types, Ours, Live, Receive, Free, Return, Answered
    <3>2. qemu.did[call[c].id] = chan[call[c].id] /\ qemu.did[call[c].id] # "no"
      BY Zenon, <2>1, <3>1 DEF CInv, Honest, Answered
    <3>. QED BY Zenon, <2>1, <3>1, <3>2 DEF Contract!Next, Contract!Answer
  <2>. QED BY <1>3, <2>2, <2>3 DEF Receive, Forget, Return
<1>4. CASE Serve
  <2>. DEFINE cmd == Head(qemu.out)
  <2>1. qemu.out \in Seq(Lines) /\ qemu.out # <<>>
    BY <1>4, OutIds DEF Serve, CInv
  <2>2. 1 \in 1..Len(qemu.out) /\ cmd = qemu.out[1]
    BY <2>1, SeqEmpty, SeqLen
  <2>3. cmd.id \in Ids /\ cmd.id < nextId /\ qemu.did[cmd.id] = "no"
    BY Zenon, <2>2, OutIds DEF CInv, Queue
  <2>4. \E r \in {"return", "error"} : qemu'.did = [qemu.did EXCEPT ![cmd.id] = r]
    BY <1>4, <2>3 DEF Serve, CInv, QemuTypes, Monitor
  <2>5. UNCHANGED result
    BY <1>4 DEF Serve, history
  <2>6. result[cmd.id] # "new"
    BY <2>3, QmpAssumption DEF CInv, Types, Given, Ids
  <2>. QED BY Zenon, <2>3, <2>4, <2>5, <2>6 DEF Contract!Next, Contract!CarryOut, Contract!Answers
<1>5. ASSUME NEW c \in Callers, Caller(c), ~Insert(c), ~Receive(c), ~Forget(c)
      PROVE  UNCHANGED <<result, qemu.did>>
  <2>1. CASE Write(c) \/ WriteFails(c)
    <3>1. qemu' = [qemu EXCEPT !.torn = TRUE] \/ qemu' = [qemu EXCEPT !.out = Append(qemu.out, Line(c))]
      BY <2>1, Zenon DEF Write, WriteFails
    <3>. QED BY <2>1, <3>1 DEF Write, WriteFails, history, CInv, QemuTypes, Monitor
  <2>2. CASE ~Write(c) /\ ~WriteFails(c)
    BY <1>5, <2>2, CallerMoves
  <2>. QED BY <2>1, <2>2
<1>6. ASSUME NEW t \in Threads, Shutdown(t) PROVE UNCHANGED <<result, qemu.did>>
  BY <1>6 DEF Shutdown, Sever, CloseWriter, CloseLog, Drain, AnswerDrained, AllAnswered, history,
     CInv, QemuTypes, Monitor
<1>7. CASE MigrationEnds \/ ReaderStep \/ ReadError
  <2>1. UNCHANGED <<result, qemu.did>>
    BY Zenon, <1>7 DEF MigrationEnds, ReaderStep, ReadEvent, ReadReply, ReadLate, Deliver, ReadEnd,
         ReadError, ReaderExits, TakeLine, history, CInv, QemuTypes, Monitor
  <2>. QED BY <2>1 DEF Contract!vars
<1>8. CASE HandshakeLine \/ HandshakeFails \/ Begin \/ Finished
  BY Zenon, <1>1, <1>8 DEF HandshakeLine, HandshakeFails, Begin, BeginClose, BeginDrop, BeginSnapshot,
     BeginExecute, Finished, vars, history
<1>. QED
  BY <1>1, <1>2, <1>3, <1>4, <1>5, <1>6, <1>7, <1>8
     DEF Next, Qemu, Threads, vars, history, Contract!vars

\* The connection keeps the contract of MonitorCalls, whatever its callers do and
\* however many commands they send: an answer execute_timeout returns is what QEMU
\* did with that command, not with one given up before it, and a command ends once.
THEOREM ContractHolds == Spec => KeepsContract
<1>1. Init => CInv /\ Given /\ Contract!Init
  <2>1. Init => Given
    BY QmpAssumption DEF Init, Given, Ids
  <2>2. Init => Contract!Init
    BY DEF Init, Contract!Init
  <2>. QED BY Zenon, <2>1, <2>2, CInvInit
<1>2. CInv /\ Given /\ [Next]_vars => (CInv /\ Given)'
  BY CInvStep, GivenStep DEF CInv
<1>3. CInv /\ Given /\ [Next]_vars => [Contract!Next]_(Contract!vars)
  BY ContractStep
<1>. QED BY <1>1, <1>2, <1>3, PTL DEF Spec, KeepsContract, Contract!Spec

=============================================================================
