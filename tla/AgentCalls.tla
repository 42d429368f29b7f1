----------------------------- MODULE AgentCalls -----------------------------
(***************************************************************************)
(* One call to the guest agent: the client (agent_client/mod.rs) opens a   *)
(* connection, shakes hands, sends one request, reads one answer; the VM   *)
(* (vm.rs, with_client) decides from the outcome whether it still counts   *)
(* the guest as alive.                                                     *)
(*                                                                         *)
(* A call is its name.  What it asks the guest to do matters here only as  *)
(* far as it changes the file of AgentFiles; directories, clocks, system   *)
(* calls and the life of processes are left to the guest.                  *)
(***************************************************************************)
EXTENDS AgentFiles

-----------------------------------------------------------------------------
(* The calls that leave nothing open, by the object they belong to.        *)

PathCalls == {"listdir", "mkdir", "unlink", "rename", "ioctl"}

SyscallCalls == {"syscall", "read_mem", "begin_syscall", "run"}

BatchCalls == {"batch_run", "batch_op"}

WholeFileCalls == {"read_file", "write_file", "stat"}

ClockCalls == {"clock_get", "clock_set", "clock_sleep", "clock_advance"}

ProcessCalls == {"kill", "status", "stdin_write", "close_stdin", "pid"}

WorkerCalls == {"worker_syscall", "worker_syscall_begin", "worker_kill", "worker_syscall_await"}

ShortCalls ==
    PathCalls \cup SyscallCalls \cup BatchCalls \cup WholeFileCalls \cup ClockCalls
        \cup ProcessCalls \cup WorkerCalls

(* What a batch may be made of; open_file is not among them, so a batch    *)
(* leaves nothing open either.                                             *)
BatchItems ==
    {"run", "read_file", "write_file", "stat", "listdir", "mkdir", "unlink", "rename", "syscall"}

(* write_file replaces the contents, a command may append to them.         *)
Effect(call, data, byte) ==
    CASE call = "write_file" -> <<byte>>
      [] call = "run" -> Append(data, byte)
      [] OTHER -> data

(* The agent runs the items of a batch in order.                           *)
BatchEffect(items, data, byte) ==
    FoldLeft(LAMBDA d, item : Effect(item, d, byte), data, items)

-----------------------------------------------------------------------------
(* The outcome of a call.  "ok" is any answer to the request, also one     *)
(* that reports an OS error; the others are errors of the client.          *)

(* open_with_handshake: nobody there, or an agent.  The version was        *)
(* checked when the VM came up.                                            *)
Handshake(up) == IF up THEN {"ok"} ELSE {"connect"}

(* The guest goes away while the host waits for the answer: before its     *)
(* first byte, inside it, or with a reset.                                 *)
CutOff == {"eof", "torn", "io"}

(* The agent answers, or refuses a handle it does not know.                *)
Answer(known) == IF known THEN "ok" ELSE "agent"

(* read_file asks for the size first and refuses a file whose contents do  *)
(* not fit a frame.  The other calls do not ask; an answer that does not   *)
(* fit cannot be written, and the agent closes the connection.             *)
Oversizable == {"batch_op", "batch_run", "run"}

(* A plausible slip: every error of the client.                            *)
is_dead_signal_any(outcome) == outcome # "ok"

(* is_dead_signal: which outcomes with_client takes for a dead guest.  A   *)
(* connection that ends inside an answer is not one of them.               *)
is_dead_signal(outcome) == outcome \in {"connect", "eof", "io"}

(* with_client: a call goes out on a Booted VM only.                       *)
Reaches(vm, up) == vm = "Booted" /\ up

Marked(vm, outcome) == IF vm = "Booted" /\ is_dead_signal(outcome) THEN "Dead" ELSE vm

=============================================================================
