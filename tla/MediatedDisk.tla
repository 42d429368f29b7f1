---------------------------- MODULE MediatedDisk ----------------------------
(***************************************************************************)
(* The NBD server between a guest and its disk (nbd.rs).  One thread       *)
(* accepts a connection, negotiates, and serves commands one at a time:    *)
(* it consults the fault policy, and then works on the disk under the lock *)
(* of DiskState.  The test's thread cuts the power, arms a policy in two   *)
(* stores, and drops the server.  The units of the disk stand for bytes,   *)
(* SectorSize of them to a sector; an image need not be a whole number of  *)
(* sectors.  The host's own I/O may fail at every read, write and sync.    *)
(***************************************************************************)
EXTENDS Integers, FiniteSets

CONSTANTS
    SectorSize,
    Size,           \* units in the image
    Cap,            \* sectors the overlay may hold (OVERLAY_CAP_BYTES)
    Values,
    Images,         \* the images a disk may start from
    Commands,       \* the commands the guest may send
    Policies,       \* [reads, writes, after, range, delay]; after = 0 is None
    MaxCommands, MaxArms, MaxSessions

ASSUME SizeAssumption ==
    /\ SectorSize \in Nat \ {0} /\ Size \in Nat /\ Cap \in Nat
    /\ Images \subseteq [0 .. Size - 1 -> Values]
    /\ MaxCommands \in Nat /\ MaxArms \in Nat /\ MaxSessions \in Nat

Addrs == 0 .. Size - 1
SectorOf(a) == a \div SectorSize
Sectors == {SectorOf(a) : a \in Addrs}
Units == 0 .. SectorSize - 1
Unit(s, i) == s * SectorSize + i
Whole == {s \in Sectors : \A i \in Units : Unit(s, i) \in Addrs}

NoPolicy == [reads |-> FALSE, writes |-> FALSE, after |-> 0, range |-> {}, delay |-> FALSE]
Nothing == [op |-> "none"]
Ok(data) == [ok |-> TRUE, data |-> data]
Error == [ok |-> FALSE, data |-> <<>>]
NoSectors == [s \in {} |-> {}]

\* A FLUSH carries no bytes
ASSUME CommandsAssumption ==
    /\ Commands \subseteq [op : {"read", "write", "flush", "disconnect", "other"},
                           at : SUBSET Nat, value : Values, durable : BOOLEAN]
    /\ \A c \in Commands : c.op = "flush" => c.at = {}

ASSUME PoliciesAssumption ==
    Policies \subseteq [reads : BOOLEAN, writes : BOOLEAN, after : Nat,
                        range : SUBSET Nat, delay : BOOLEAN]

VARIABLES
    file, overlay,          \* DiskState
    policy, ioCount,        \* the armed policy and the commands seen under it
    shutdown, current,      \* the flag; whether the connection is published
    conn,                   \* the client's connection
    server,                 \* where the thread "provium-nbd" is
    command, clone,         \* its command, and the policy it consults for it
    answer,                 \* the last answer it gave
    handle,                 \* where the test's thread is
    used,                   \* commands, armings and sessions so far
    since                   \* history: see FailsInTime

disk == <<file, overlay>>
faults == <<policy, ioCount, since>>
link == <<shutdown, current, conn>>
serverVars == <<file, overlay, policy, ioCount, shutdown, current, conn, server, command,
          clone, answer, handle, used, since>>

ServerTypeOK ==
    /\ file \in [Addrs -> Values]
    /\ DOMAIN overlay \subseteq Whole
    /\ overlay \in [DOMAIN overlay -> [Units -> Values]]
    /\ policy \in Policies \cup {NoPolicy} /\ clone \in Policies \cup {NoPolicy}
    /\ ioCount \in 0 .. MaxCommands
    /\ shutdown \in BOOLEAN /\ current \in BOOLEAN
    /\ conn \in {"none", "waiting", "open", "broken"}
    /\ server \in {"accept", "accepted", "handshake", "loop", "read", "consult", "count",
                   "serve", "end", "exited"}
    /\ command \in Commands \cup {Nothing}
    /\ handle \in {"idle", "arming", "dropping", "join", "dropped"}
    /\ used \in [commands : 0 .. MaxCommands, arms : 0 .. MaxArms, sessions : 0 .. MaxSessions]
    /\ since \in [count : 0 .. MaxCommands, fresh : BOOLEAN]

ServerInit ==
    /\ file \in Images /\ overlay = NoSectors
    /\ policy = NoPolicy /\ clone = NoPolicy /\ ioCount = 0
    /\ shutdown = FALSE /\ current = FALSE /\ conn = "none"
    /\ server = "accept" /\ command = Nothing /\ answer = Error /\ handle = "idle"
    /\ used = [commands |-> 0, arms |-> 0, sessions |-> 0]
    /\ since = [count |-> 0, fresh |-> FALSE]

-----------------------------------------------------------------------------
(* DiskState.  An outcome is what a call leaves and what it returns.        *)

\* What the guest sees of a unit: the overlay's sector, or else the file
Seen(a) ==
    IF SectorOf(a) \in DOMAIN overlay THEN overlay[SectorOf(a)][a % SectorSize] ELSE file[a]

ReadOutcomes(at) ==
    IF at \subseteq Addrs
    THEN {Ok([a \in at |-> Seen(a)])} \cup {Error : a \in at}
    ELSE {Error}

Outcome(f, o, ok) == [file |-> f, overlay |-> o, ok |-> ok]

\* The file with the overlay's sectors in W written to it
Written(f, o, W) ==
    [a \in Addrs |-> IF SectorOf(a) \in W THEN o[SectorOf(a)][a % SectorSize] ELSE f[a]]

\* The overlay is emptied first; a sector or the sync may then fail
flush(f, o) ==
    {Outcome(Written(f, o, DOMAIN o), NoSectors, TRUE)} \cup
    {Outcome(Written(f, o, {s \in DOMAIN o : s < k}), NoSectors, FALSE) :
        k \in Sectors \cup {Size}}

\* Mutation: a sector not held yet starts from zeros
OverlaidOnZeros(f, o, at, v, W) ==
    [s \in DOMAIN o \cup W |->
        [i \in Units |->
            IF s \in W /\ Unit(s, i) \in at THEN v ELSE IF s \in DOMAIN o THEN o[s][i] ELSE 0]]

\* The overlay once the write has reached the sectors W
Overlaid(f, o, at, v, W) ==
    [s \in DOMAIN o \cup W |->
        [i \in Units |->
            IF s \in W /\ Unit(s, i) \in at THEN v
            ELSE IF s \in DOMAIN o THEN o[s][i] ELSE f[Unit(s, i)]]]

\* A sector not held yet is read from the file, which may fail, and does so
\* for a sector the image ends in; the sectors before it stay written
write(f, o, at, v) ==
    LET T == {SectorOf(a) : a \in at}
        stuck == {Outcome(f, Overlaid(f, o, at, v, {t \in T : t < s}), FALSE) :
                    s \in {s \in T \ DOMAIN o :
                        \A t \in T \ DOMAIN o : t < s => t \in Whole}}
        all == Overlaid(f, o, at, v, T)
    IN  IF ~(at \subseteq Addrs) THEN {Outcome(f, o, FALSE)}
        ELSE stuck \cup
             IF ~(T \subseteq Whole) THEN {}
             ELSE IF T # {} /\ Cardinality(DOMAIN all) > Cap THEN flush(f, all)
             ELSE {Outcome(f, all, TRUE)}

WriteOutcomes(c) ==
    LET done == write(file, overlay, c.at, c.value)
    IN  IF ~c.durable THEN done
        ELSE {d \in done : ~d.ok} \cup
             UNION {flush(d.file, d.overlay) : d \in {d \in done : d.ok}}
-----------------------------------------------------------------------------
(* The serving thread: accept_loop, handshake, transmission.                *)

\* accept() gave a connection; a stream that cannot be made blocking is let go
Accept ==
    /\ server = "accept" /\ ~shutdown /\ conn = "waiting"
    /\ \/ server' = "accepted" /\ conn' = "open"
       \/ server' = "accept" /\ conn' = "none"
    /\ UNCHANGED <<disk, faults, shutdown, current, command, clone, answer, handle, used>>

\* Any error of accept() but WouldBlock ends the thread, and so does the flag
StopAccepting ==
    /\ server = "accept"
    /\ server' = "exited" /\ conn' = "none"
    /\ UNCHANGED <<disk, faults, shutdown, current, command, clone, answer, handle, used>>

NoticeShutdown == shutdown /\ StopAccepting
AcceptFails == ~shutdown /\ StopAccepting

\* The clone that is published may fail
Publish ==
    /\ server = "accepted"
    /\ server' = "handshake" /\ current' \in BOOLEAN
    /\ UNCHANGED <<disk, faults, shutdown, conn, command, clone, answer, handle, used>>

\* The client asks for the export, gives up, or breaks the protocol
Negotiate ==
    /\ server = "handshake" /\ conn = "open"
    /\ server' \in {"loop", "end"}
    /\ UNCHANGED <<disk, faults, link, command, clone, answer, handle, used>>

CheckShutdown ==
    /\ server = "loop"
    /\ server' = IF shutdown THEN "end" ELSE "read"
    /\ UNCHANGED <<disk, faults, link, command, clone, answer, handle, used>>

ReadCommand(c) ==
    /\ server = "read" /\ conn = "open" /\ used.commands < MaxCommands
    /\ used' = [used EXCEPT !.commands = @ + 1]
    /\ command' = c /\ answer' = Error
    /\ server' = IF c.op \in {"read", "write", "flush"} THEN "consult" ELSE "serve"
    /\ UNCHANGED <<disk, faults, link, clone, handle>>

\* A stream that has ended, or was broken, ends the session
ReadFails ==
    /\ server \in {"handshake", "read"} /\ conn = "broken"
    /\ server' = "end"
    /\ UNCHANGED <<disk, faults, link, command, clone, answer, handle, used>>

\* consult, up to its delay
Consult ==
    /\ server = "consult"
    /\ clone' = policy
    /\ server' = IF policy = NoPolicy THEN "serve" ELSE "count"
    /\ since' = [since EXCEPT !.fresh = handle # "arming"]
    /\ UNCHANGED <<disk, policy, ioCount, link, command, answer, handle, used>>

\* Mutation: only the nth command fails, not those after it
RefusedOnce(c, p, seen) ==
    \/ p.after > 0 /\ seen = p.after
    \/ c.op = "read" /\ p.reads
    \/ c.op = "write" /\ p.writes
    \/ \E a \in c.at : SectorOf(a) \in p.range

Refused(c, p, seen) ==
    \/ p.after > 0 /\ seen >= p.after
    \/ c.op = "read" /\ p.reads
    \/ c.op = "write" /\ p.writes
    \/ \E a \in c.at : SectorOf(a) \in p.range

\* consult, after its delay: the command is counted, and judged
Count ==
    /\ server = "count"
    /\ ioCount' = ioCount + 1 /\ clone' = NoPolicy
    /\ since' = [count |-> IF since.fresh THEN since.count + 1 ELSE since.count,
                 fresh |-> FALSE]
    /\ IF Refused(command, clone, ioCount')
       THEN server' = "loop" /\ command' = Nothing /\ answer' = Error
       ELSE server' = "serve" /\ UNCHANGED <<command, answer>>
    /\ UNCHANGED <<disk, policy, link, handle, used>>

Reply(a) ==
    /\ server' = "loop" /\ command' = Nothing /\ answer' = a
    /\ UNCHANGED <<faults, link, clone, handle, used>>

Apply(outcomes) ==
    \E d \in outcomes :
        /\ file' = d.file /\ overlay' = d.overlay
        /\ Reply(IF d.ok THEN Ok(<<>>) ELSE Error)

ServeRead ==
    /\ server = "serve" /\ command.op = "read"
    /\ \E r \in ReadOutcomes(command.at) : Reply(r)
    /\ UNCHANGED disk

ServeWrite ==
    /\ server = "serve" /\ command.op = "write"
    /\ Apply(WriteOutcomes(command))

ServeFlush ==
    /\ server = "serve" /\ command.op = "flush"
    /\ Apply(flush(file, overlay))

ServeUnknown ==
    /\ server = "serve" /\ command.op = "other"
    /\ Reply(Error)
    /\ UNCHANGED disk

ServeDisconnect ==
    /\ server = "serve" /\ command.op = "disconnect"
    /\ server' = "end" /\ command' = Nothing
    /\ UNCHANGED <<disk, faults, link, clone, answer, handle, used>>

\* serve has returned: nothing is published, and the stream is closed
EndSession ==
    /\ server = "end"
    /\ server' = "accept" /\ current' = FALSE /\ conn' = "none"
    /\ UNCHANGED <<disk, faults, shutdown, command, clone, answer, handle, used>>
-----------------------------------------------------------------------------
(* The client: QEMU.                                                        *)

Connect ==
    /\ conn = "none" /\ server = "accept" /\ used.sessions < MaxSessions
    /\ conn' = "waiting" /\ used' = [used EXCEPT !.sessions = @ + 1]
    /\ UNCHANGED <<disk, faults, shutdown, current, server, command, clone, answer, handle>>

Leave ==
    /\ conn = "open"
    /\ conn' = "broken"
    /\ UNCHANGED <<disk, faults, shutdown, current, server, command, clone, answer, handle, used>>
-----------------------------------------------------------------------------
(* The test's thread.                                                       *)

power_cut ==
    /\ handle = "idle"
    /\ overlay' = NoSectors
    /\ UNCHANGED <<file, faults, link, server, command, clone, answer, handle, used>>

\* set_policy: the policy is stored, and the counter after it
StorePolicy(p) ==
    /\ handle = "idle" /\ used.arms < MaxArms
    /\ handle' = "arming" /\ policy' = p
    /\ used' = [used EXCEPT !.arms = @ + 1]
    /\ since' = [count |-> 0, fresh |-> FALSE]
    /\ UNCHANGED <<disk, ioCount, link, server, command, clone, answer>>

ResetCount ==
    /\ handle = "arming"
    /\ handle' = "idle" /\ ioCount' = 0
    /\ UNCHANGED <<disk, policy, link, server, command, clone, answer, used, since>>

\* Drop: the flag, the published connection, the join and the socket
RaiseFlag ==
    /\ handle = "idle"
    /\ handle' = "dropping" /\ shutdown' = TRUE
    /\ UNCHANGED <<disk, faults, current, conn, server, command, clone, answer, used>>

\* Mutation: Drop goes straight to the join
JoinOnly ==
    /\ handle = "dropping"
    /\ handle' = "join"
    /\ UNCHANGED <<disk, faults, link, server, command, clone, answer, used>>

BreakConnection ==
    /\ handle = "dropping"
    /\ handle' = "join"
    /\ conn' = IF current /\ conn = "open" THEN "broken" ELSE conn
    /\ UNCHANGED <<disk, faults, shutdown, current, server, command, clone, answer, used>>

Join ==
    /\ handle = "join" /\ server = "exited"
    /\ handle' = "dropped"
    /\ UNCHANGED <<disk, faults, link, server, command, clone, answer, used>>

Finished ==
    /\ handle = "dropped"
    /\ UNCHANGED serverVars

ServerStep ==
    \/ Accept \/ NoticeShutdown \/ Publish \/ CheckShutdown \/ ReadFails
    \/ Consult \/ Count \/ ServeRead \/ ServeWrite \/ ServeFlush \/ ServeUnknown
    \/ ServeDisconnect \/ EndSession

DropDisk == BreakConnection \/ Join

ServerNext ==
    \/ ServerStep \/ AcceptFails \/ Negotiate \/ (\E c \in Commands : ReadCommand(c))
    \/ Connect \/ Leave
    \/ power_cut \/ (\E p \in Policies \cup {NoPolicy} : StorePolicy(p)) \/ ResetCount
    \/ RaiseFlag \/ DropDisk \/ Finished

ServerSpec == ServerInit /\ [][ServerNext]_serverVars

\* The threads run; nothing is assumed of the client
ServerFairSpec == ServerSpec /\ WF_serverVars(ServerStep) /\ WF_serverVars(DropDisk)
-----------------------------------------------------------------------------
(* Properties.                                                              *)

Cache == INSTANCE WriteCache WITH
    view <- [a \in Addrs |-> Seen(a)], durable <- file

\* The server is a disk with a write cache: the guest reads its own writes,
\* an acknowledged flush or FUA write leaves everything durable, a power cut
\* leaves the file, and what a partial write leaves beside it is untouched
KeepsCache == Cache!Spec

\* `fail_after = n` fails the nth command consulted since set_policy returned
\* and every one after it, however the arming and a command in hand interleave
FailsInTime ==
    [][Count /\ since.fresh /\ clone.after > 0 /\ since.count + 1 >= clone.after
        => server' = "loop"]_serverVars

\* Dropping the server ends its thread and returns, whatever the client does,
\* unless the connection is open and not published when the flag is up: then
\* Drop finds nothing to break, and waits for the client to leave
DropReturns ==
    (handle = "dropping" /\ (conn = "open" => current)) ~> (handle = "dropped")

=============================================================================
