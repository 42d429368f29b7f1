----------------------------- MODULE TestRunner -----------------------------
(***************************************************************************)
(* run_file_full (lua/runner.rs): the chunk of a test file, its baseline   *)
(* snapshot, and the loop over its registered tests, with the Lua half of  *)
(* the loop (lua/test_framework.rs): the t object whose flags decide a     *)
(* test's status, and the two registries of resources that are closed when *)
(* a test and when the file ends.                                          *)
(*                                                                         *)
(* A file is one thread plus the watchdog of the test under way.  Its lab  *)
(* is one file-scope VM; a test may boot another in its own scope lab.     *)
(* When a watchdog's deadline is right is Watchdogs' subject: here it may  *)
(* fire at any time until it is stopped.  The dispatcher around this       *)
(* (TestSuite) takes the file at "run" and gets it back at "ran".          *)
(***************************************************************************)
EXTENDS Integers, Sequences, Functions

CONSTANTS
    Files,          \* the test files
    Metas,          \* the meta table of each test that a file registers
    ResetBetween    \* the files that set provium.reset_between_tests

ASSUME RunnerAssumption ==
    /\ \A f \in Files : Metas[f] \in Seq([skip : BOOLEAN, slow : BOOLEAN, pairs : SUBSET (STRING \X STRING)])
    /\ ResetBetween \subseteq Files

VARIABLES
    file,           \* what the thread of each file and its lab are at
    filter          \* PROVIUM_TEST_FILTER

\* How many tests f registers
Tests == [f \in Files |-> Len(Metas[f])]

\* A t object nothing has happened to
NewT == [failed |-> FALSE, skip |-> FALSE, raised |-> FALSE]

NewFile ==
    [ pc       |-> "start",
      out      |-> <<>>,        \* TestOutcome, one per test
      ev       |-> <<>>,        \* the events of each test
      error    |-> FALSE,       \* FileOutcome.chunk_error
      timedOut |-> FALSE,
      ran      |-> FALSE,       \* history: run_file_full has returned
      t        |-> NewT,
      dog      |-> "none",      \* the watchdog of the test under way
      testRes  |-> {},          \* open in the test: registered handles, VMs of its scope
      fileRes  |-> {},          \* _file_scope_resources
      rootVm   |-> "none",      \* the VM of the file's lab
      baseline |-> "none",      \* what the baseline snapshot holds
      touched  |-> FALSE,       \* a test has changed the file's VM since
      bad      |-> FALSE ]      \* history: the test under way has gone wrong

At(f, pc) == file[f].pc = pc

\* The record r with the fields of change
With(r, change) == [x \in DOMAIN r |-> IF x \in DOMAIN change THEN change[x] ELSE r[x]]
Becomes(f, change) == file' = [file EXCEPT ![f] = With(@, change)]

\* The test under way, and the loop's next
Current(f) == Len(file[f].out) + 1

Down(state) == IF state = "up" THEN "down" ELSE state

\* 1. The chunk: it may raise, boot the file's VM and open a stream on it.
ChunkFails(f) ==
    /\ At(f, "run")
    /\ Becomes(f, [pc |-> "ran", error |-> TRUE])

ChunkRuns(f) ==
    /\ At(f, "run")
    /\ \E state \in {"none", "up"}, open \in SUBSET {"stream"} :
        /\ open # {} => state = "up"
        /\ Becomes(f, [pc |-> "baseline", rootVm |-> state, fileRes |-> open])

\* 1.5. reset_between_tests: refused over an open stream, else a snapshot of the lab
Baseline(f) ==
    /\ At(f, "baseline")
    /\ \/ f \notin ResetBetween /\ Becomes(f, [pc |-> "todo"])
       \/ /\ f \in ResetBetween /\ "stream" \notin file[f].fileRes
          /\ Becomes(f, [pc |-> "todo", baseline |-> file[f].rootVm])
       \/ /\ f \in ResetBetween
          /\ Becomes(f, [pc |-> "ran", error |-> TRUE])

\* todo(): every test skipped and no body run; the function returns here
Todo(f) ==
    /\ At(f, "todo")
    /\ \/ Becomes(f, [pc |-> "loop"])
       \/ Becomes(f, [pc |-> "ran",
                      out |-> [i \in 1..Tests[f] |-> "skipped"],
                      ev  |-> [i \in 1..Tests[f] |-> <<"skipped">>]])

\* meta_field_contains and collect_tags: a field is a string or an array of strings,
\* here the pairs <<field, string>>; the tags are the field "tags".
Tags(meta) == {p[2] : p \in {q \in meta.pairs : q[1] = "tags"}}

\* TestFilter::should_skip.  The pairs of --tag-meta are alternatives within a key,
\* and every key must match.
ShouldSkip(meta) ==
    \/ meta.skip
    \/ meta.slow /\ ~filter.includeSlow
    \/ Tags(meta) \cap filter.noTag # {}
    \/ filter.tag # {} /\ Tags(meta) \cap filter.tag = {}
    \/ meta.pairs \cap filter.noTagMeta # {}
    \/ \E p \in filter.tagMeta : \A q \in filter.tagMeta : q[1] = p[1] => q \notin meta.pairs

Filterable(f) == At(f, "loop") /\ Current(f) <= Tests[f] /\ ShouldSkip(Metas[f][Current(f)])

\* 2. Each registered test: the filter first
FilteredSilently(f) ==
    /\ Filterable(f)
    /\ Becomes(f, [out |-> Append(file[f].out, "skipped")])

Filtered(f) ==
    /\ Filterable(f)
    /\ Becomes(f, [out |-> Append(file[f].out, "skipped"),
                   ev  |-> Append(file[f].ev, <<"skipped">>)])

\* The watchdog, the fresh t, TestStarted and the scope lab
StartTest(f) ==
    /\ At(f, "loop") /\ Current(f) <= Tests[f] /\ ~Filterable(f)
    /\ \E deadline \in BOOLEAN :
        Becomes(f, [pc |-> "body", t |-> NewT, bad |-> FALSE,
                    dog |-> IF deadline THEN "armed" ELSE "none",
                    ev |-> Append(file[f].ev, <<"started">>)])

-----------------------------------------------------------------------------
(* The body of a test                                                      *)

\* A handle registers itself in the scope; a VM is made in the scope lab.
Open(f, what) ==
    /\ At(f, "body") /\ what \notin file[f].testRes
    /\ Becomes(f, [testRes |-> file[f].testRes \cup {what}])

\* Only for the files of ResetBetween does anything depend on it.
Touch(f) ==
    /\ At(f, "body") /\ file[f].rootVm = "up" /\ ~file[f].touched /\ f \in ResetBetween
    /\ Becomes(f, [touched |-> TRUE])

\* An assertion that does not hold: _mark_fail, then error(), which a pcall of
\* the test may catch.  (The pcall of assert_raises puts the flags back, and so
\* is no step at all.)
AssertFailsLoudly(f) ==
    /\ At(f, "body") /\ ~file[f].t.failed
    /\ \E caught \in BOOLEAN :
        Becomes(f, [pc |-> IF caught THEN "body" ELSE "ended",
                    t |-> [file[f].t EXCEPT !.failed = ~caught, !.raised = ~caught],
                    bad |-> TRUE])

AssertFails(f) ==
    /\ At(f, "body") /\ ~file[f].t.failed
    /\ \E caught \in BOOLEAN :
        Becomes(f, [pc |-> IF caught THEN "body" ELSE "ended",
                    t |-> [file[f].t EXCEPT !.failed = TRUE, !.raised = ~caught],
                    bad |-> TRUE])

\* t:skip(), likewise
Skip(f) ==
    /\ At(f, "body") /\ ~file[f].t.skip
    /\ \E caught \in BOOLEAN :
        Becomes(f, [pc |-> IF caught THEN "body" ELSE "ended",
                    t |-> [file[f].t EXCEPT !.skip = TRUE, !.raised = ~caught]])

BodyReturns(f) ==
    /\ At(f, "body") /\ Becomes(f, [pc |-> "ended"])

BodyRaises(f) ==
    /\ At(f, "body")
    /\ Becomes(f, [pc |-> "ended", bad |-> TRUE,
                   t |-> [file[f].t EXCEPT !.raised = TRUE]])

\* A Rust panic: this test and all that follow failed, the scope lab shut down,
\* no event; the registries stay and the watchdog is not stopped
BodyPanics(f) ==
    /\ At(f, "body")
    /\ Becomes(f, [pc |-> "end", testRes |-> file[f].testRes \ {"vm"}, t |-> NewT,
                   out |-> file[f].out \o [i \in 1..(Tests[f] - Len(file[f].out)) |-> "failed"]])

\* The watchdog's lab.shutdown(): of the file's lab, not of the scope lab
DogFires(f) ==
    /\ file[f].dog = "armed"
    /\ Becomes(f, [dog |-> "fired", bad |-> TRUE, rootVm |-> Down(file[f].rootVm)])

-----------------------------------------------------------------------------
(* The end of a test                                                       *)

\* The status of a test from what its body did and what the watchdog did
Classify(t, fired) ==
    IF fired THEN "failed"
    ELSE IF t.skip THEN "skipped"
    ELSE IF t.raised \/ t.failed THEN "failed"
    ELSE "passed"

\* The watchdog is stopped and joined, the status decided, reported and kept
FinishTest(f) ==
    LET status == Classify(file[f].t, file[f].dog = "fired")
    IN  /\ At(f, "ended")
        /\ Becomes(f, [pc |-> "close", dog |-> "none", t |-> NewT,
                       out |-> Append(file[f].out, status),
                       ev |-> [file[f].ev EXCEPT ![Current(f)] = Append(@, status)]])

\* _provium_close_test_scope, and the scope lab's shutdown
CloseTestScope(f) ==
    /\ At(f, "close")
    /\ Becomes(f, [pc |-> "reset", testRes |-> {}, bad |-> FALSE])

\* lab_restore refuses a baseline with the name of a VM that the lab has
RestoreRefused(f) == file[f].baseline # "none" /\ file[f].rootVm # "none"

\* The auto-restore, whose failure is a line on stderr
ResetLab(f) ==
    /\ At(f, "reset")
    /\ Becomes(f, [pc |-> "loop",
                   touched |-> file[f].touched /\ (f \notin ResetBetween \/ RestoreRefused(f))])

\* The loop is over: _provium_close_file_scope
EndFile(f) ==
    /\ At(f, "end") \/ (At(f, "loop") /\ Current(f) > Tests[f])
    /\ Becomes(f, [pc |-> "ran", testRes |-> {}, fileRes |-> {}])

RunnerStep(f) ==
    \/ ChunkFails(f) \/ ChunkRuns(f) \/ Baseline(f) \/ Todo(f)
    \/ Filtered(f) \/ StartTest(f)
    \/ Touch(f) \/ AssertFails(f) \/ Skip(f)
    \/ BodyReturns(f) \/ BodyRaises(f) \/ BodyPanics(f) \/ DogFires(f)
    \/ FinishTest(f) \/ CloseTestScope(f) \/ ResetLab(f) \/ EndFile(f)
    \/ \E what \in {"handle", "vm"} : Open(f, what)
=============================================================================
