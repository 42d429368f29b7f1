----------------------------- MODULE TestSuite ------------------------------
(***************************************************************************)
(* A run of the suite: the command line of bin/provium.rs from discovery   *)
(* to the exit code and the rerun state, and the dispatcher                *)
(* (scheduler/dispatch.rs) with its thread per file, the --fail-fast flag, *)
(* the pressure gate (scheduler/psi.rs) and the wait for the pool.         *)
(* TestRunner is what a file's thread does in between.                     *)
(*                                                                         *)
(* The pool is seen as Slots: how many per-file overheads fit.  A path is  *)
(* written as it is found under an absolute or a relative root; the rerun  *)
(* state has canonical, absolute ones.                                     *)
(***************************************************************************)
EXTENDS TestRunner, FiniteSets

CONSTANTS
    Slots,          \* per-file overheads that fit the pool
    FailFast,       \* --fail-fast
    Filters,        \* the test filters of the command line
    MaxRuns         \* bound: invocations of the command

ASSUME SuiteAssumption ==
    IsFiniteSet(Files) /\ Slots \in Nat /\ FailFast \in BOOLEAN /\ MaxRuns \in Nat

VARIABLES
    cli,            \* the command: pc, the files it dispatches, the exit code
    stop,           \* the flag of --fail-fast
    pressured,      \* PressureFlag
    saved,          \* rerun.json: canonical paths
    runs            \* invocations so far

vars == <<file, filter, cli, stop, pressured, saved, runs>>

Idle == [pc |-> "idle", paths |-> {}, want |-> {}, code |-> 0]

Init ==
    /\ file = [f \in Files |-> NewFile] /\ filter \in Filters
    /\ cli = Idle /\ stop = FALSE /\ pressured = FALSE /\ saved = {} /\ runs = 0

\* What a scan of the roots finds, and how it spells the paths
Found(D, spelling) == {<<spelling, f>> : f \in D}

\* --rerun-failed: keep the paths the state file has
Retain(found, rerun) == IF rerun THEN found \cap Found(saved, "absolute") ELSE found

\* run() up to the dispatch.  Nothing to run is success.
Invoke(D, spelling, rerun) ==
    LET kept == {p[2] : p \in Retain(Found(D, spelling), rerun)}
        want == IF rerun THEN D \cap saved ELSE D
    IN  /\ cli.pc = "idle" /\ runs < MaxRuns /\ runs' = runs + 1
        /\ file' = [f \in Files |-> NewFile] /\ stop' = FALSE /\ filter' \in Filters
        /\ cli' = [pc |-> IF kept = {} THEN "exit" ELSE "dispatch",
                   paths |-> kept, want |-> want, code |-> 0]
        /\ UNCHANGED <<pressured, saved>>

Pressure ==
    /\ cli.pc = "dispatch" /\ pressured' = ~pressured
    /\ UNCHANGED <<file, filter, cli, stop, saved, runs>>

-----------------------------------------------------------------------------
(* The thread of a file                                                    *)

Threaded(f) == cli.pc = "dispatch" /\ f \in cli.paths

Result(f, change) ==
    /\ Threaded(f) /\ Becomes(f, change) /\ UNCHANGED <<filter, cli, pressured, saved, runs>>

\* The flag is looked at once, when the thread starts.
SkipFailFastQuietly(f) ==
    /\ At(f, "start") /\ stop
    /\ Result(f, [pc |-> "done"]) /\ UNCHANGED stop

SkipFailFast(f) ==
    /\ At(f, "start") /\ stop
    /\ Result(f, [pc |-> "done", error |-> TRUE]) /\ UNCHANGED stop

Begin(f) ==
    /\ At(f, "start") /\ ~stop
    /\ Result(f, [pc |-> "psi"]) /\ UNCHANGED stop

\* 0. Wait for the pressure to drop
Unthrottled(f) ==
    /\ At(f, "psi") /\ ~pressured
    /\ Result(f, [pc |-> "reserve"]) /\ UNCHANGED stop

Holding == {f \in cli.paths : file[f].pc \notin {"start", "psi", "reserve", "queued", "done"}}
Room == Cardinality(Holding) < Slots

\* 2. The overhead, at once or after a wait

Reserve(f) ==
    /\ At(f, "reserve")
    /\ \/ Room /\ Result(f, [pc |-> "run"])
       \/ ~Room /\ Result(f, [pc |-> "queued"])
    /\ UNCHANGED stop

Granted(f) ==
    /\ At(f, "queued") /\ Room
    /\ Result(f, [pc |-> "run"]) /\ UNCHANGED stop

\* acquire_for answers an error: the overhead exceeds the pool, or a deadlock
Refused(f) ==
    /\ At(f, "queued")
    /\ Result(f, [pc |-> "done", error |-> TRUE])
    /\ stop' = (stop \/ FailFast)

\* 4. Between "run" and "ran"
Run(f) ==
    /\ Threaded(f) /\ RunnerStep(f)
    /\ UNCHANGED <<filter, cli, stop, pressured, saved, runs>>

\* run_file_full panics, or answers an error of the Lua state
RunnerPanics(f) ==
    /\ file[f].pc \in {"run", "loop"}
    /\ Result(f, [pc |-> "ran", error |-> TRUE, out |-> <<>>]) /\ UNCHANGED stop

\* FileOutcome::all_succeeded, DispatchedFile::passed
AllSucceeded(r) == ~r.error /\ "failed" \notin Range(r.out)
Passed(r) == ~r.timedOut /\ AllSucceeded(r)

\* 5. to 8.: the file's watchdog has fired or not, the lab goes down, the outcome is
\* built; then the flag.  Of the outcome the record keeps what the report looks at.
Wind(f) ==
    \E late \in BOOLEAN :
        LET r == [file[f] EXCEPT !.timedOut = late]
        IN  /\ At(f, "ran")
            /\ Result(f, [NewFile EXCEPT
                              !.pc = "done", !.timedOut = late, !.ran = TRUE, !.error = r.error,
                              !.out = IF "failed" \in Range(r.out) THEN <<"failed">> ELSE <<>>])
            /\ stop' = (stop \/ (FailFast /\ ~Passed(r)))

-----------------------------------------------------------------------------
(* The end of the run                                                      *)

FailedPaths == {f \in cli.paths : ~Passed(file[f])}

\* Every thread joined: render, count, and keep the failed paths if there are any;
\* then provium-coverage, whose failure is the exit code
Render ==
    /\ cli.pc = "dispatch" /\ \A f \in cli.paths : At(f, "done")
    /\ \E coverage \in {0, 1} :
        cli' = [cli EXCEPT !.pc = "exit",
                           !.code = IF FailedPaths = {} THEN coverage ELSE 1]
    /\ saved' = IF FailedPaths = {} THEN saved ELSE FailedPaths
    /\ UNCHANGED <<file, filter, stop, pressured, runs>>

Exit ==
    /\ cli.pc = "exit" /\ cli' = Idle
    /\ file' = [f \in Files |-> NewFile]
    /\ UNCHANGED <<filter, stop, pressured, saved, runs>>

FileStep(f) ==
    \/ SkipFailFast(f) \/ Begin(f) \/ Unthrottled(f)
    \/ Reserve(f) \/ Granted(f) \/ Refused(f) \/ Run(f) \/ RunnerPanics(f) \/ Wind(f)

Over == cli.pc = "idle" /\ runs = MaxRuns /\ UNCHANGED vars

Next ==
    \/ \E D \in (SUBSET Files) \ {{}}, s \in {"absolute", "relative"}, r \in BOOLEAN : Invoke(D, s, r)
    \/ \E f \in Files : FileStep(f)
    \/ Pressure \/ Render \/ Exit \/ Over

Spec == Init /\ [][Next]_vars

-----------------------------------------------------------------------------
\* Every test of a file that ran to its end has one outcome, in the order of
\* registration, and the event stream tells it: a skip by filter or todo() is one
\* event, any other test is started and then ends as its outcome says.  Only from a
\* test that panicked on is the stream silent.  (runner.rs:316-345, 356-376,
\* 435-445, 501-534, 604-641)
EventsTellOutcomes ==
    \A f \in Files : At(f, "ran") /\ ~file[f].error =>
        LET r == file[f]
        IN  /\ Len(r.out) = Tests[f]
            /\ \A i \in DOMAIN r.out :
                \/ /\ i <= Len(r.ev)
                   /\ r.ev[i] \in {<<"started", r.out[i]>>, <<"skipped">>}
                   /\ r.ev[i] = <<"skipped">> => r.out[i] = "skipped"
                \/ /\ r.out[i] = "failed" /\ i >= Len(r.ev)
                   /\ i = Len(r.ev) => r.ev[i] = <<"started">>

\* A test is reported passed only if no assertion of it failed (swallowed by a pcall
\* or not), its body did not raise and its watchdog did not fire.
\* (runner.rs:536-601, test_framework.rs _mark_fail)
PassIsEarned ==
    \A f \in Files : LET r == file[f] IN At(f, "close") /\ r.out[Len(r.out)] = "passed" => ~r.bad

\* The command exits with 0 only if each file it was to run was dispatched, came to
\* its end and passed; and what did not pass is in the rerun state.  Under
\* --rerun-failed, "was to run" is what the state file lists of the files scanned;
\* this needs the scan to spell paths as the state file does (absolute roots).
\* (provium.rs:748-761, 1025-1071, dispatch.rs:218-236)
NoFalseGreen ==
    LET Good == {f \in cli.want : At(f, "done") /\ file[f].ran /\ Passed(file[f])}
    IN  cli.pc = "exit" /\ cli.paths = cli.want =>
            /\ cli.code = 0 => Good = cli.want
            /\ cli.want \ Good \subseteq saved

=============================================================================
