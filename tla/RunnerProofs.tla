---------------------------- MODULE RunnerProofs ----------------------------
(***************************************************************************)
(* The test runner: what a run of the suite reports (TestSuite), and the   *)
(* books of one file's claim on the resources (FileRun).                   *)
(***************************************************************************)
EXTENDS TestSuite, FileRun, FiniteSetTheorems, TLAPS

(***************************************************************************)
(* What a run of the suite reports is what happened, for any files, tests, *)
(* filters, pool and number of runs.                                       *)
(*                                                                         *)
(* The properties look at a file when a test or the file has ended.  What  *)
(* makes them inductive is what holds in between: the events are one ahead *)
(* of the outcomes exactly while a test runs, and whatever has gone wrong  *)
(* in it is still in its flags, where Classify will look for it.           *)
(***************************************************************************)

Fields == {"pc", "out", "ev", "error", "timedOut", "ran", "t", "dog", "testRes", "fileRes",
           "rootVm", "baseline", "touched", "bad"}

\* Before the first test
Early == {"start", "psi", "reserve", "queued", "run", "baseline", "todo"}

Statuses == {"passed", "failed", "skipped"}

\* The events of one test
Entries == {<<"skipped">>, <<"started">>} \cup {<<"started", s>> : s \in Statuses}

Typed(r) ==
    /\ DOMAIN r = Fields /\ DOMAIN r.t = {"failed", "skip", "raised"}
    /\ r.out \in Seq(Statuses)
    /\ r.ev \in Seq(Entries)

\* The ith outcome of r is the one its events tell
Told(r, i) ==
    /\ r.ev[i] \in {<<"started", r.out[i]>>, <<"skipped">>}
    /\ r.ev[i] = <<"skipped">> => r.out[i] = "skipped"

\* The events and the outcomes of a file with n tests, at every point of its run
Reported(r, n) ==
    /\ r.pc \in Early => r.out = <<>> /\ r.ev = <<>>
    /\ r.pc \in {"loop", "close", "reset"} =>
        /\ Len(r.ev) = Len(r.out) /\ Len(r.out) <= n
        /\ \A i \in 1..Len(r.out) : Told(r, i)
    /\ r.pc \in {"body", "ended"} =>
        /\ Len(r.ev) = Len(r.out) + 1 /\ Len(r.out) < n /\ r.ev[Len(r.ev)] = <<"started">>
        /\ \A i \in 1..Len(r.out) : Told(r, i)
    /\ r.pc = "end" \/ (r.pc = "ran" /\ ~r.error) =>
        /\ Len(r.out) = n
        /\ \A i \in 1..Len(r.out) :
            \/ i <= Len(r.ev) /\ Told(r, i)
            \/ /\ r.out[i] = "failed" /\ i >= Len(r.ev)
               /\ i = Len(r.ev) => r.ev[i] = <<"started">>

\* A test that has gone wrong still shows it
Blamed(r) ==
    /\ r.pc = "body" /\ r.bad => r.t.failed \/ r.dog = "fired"
    /\ r.pc = "ended" /\ r.bad => r.t.failed \/ r.t.raised \/ r.dog = "fired"
    /\ r.pc \in Early \cup {"close", "reset", "loop"} => r.dog = "none"
    /\ r.pc = "close" /\ r.out[Len(r.out)] = "passed" => ~r.bad

\* What is true of the record r of a file with n tests
FileInv(r, n) ==
    /\ Typed(r) /\ Reported(r, n) /\ Blamed(r)
    /\ r.pc = "done" /\ ~r.ran => r.error

IInv ==
    /\ DOMAIN file = Files /\ DOMAIN cli = {"pc", "paths", "want", "code"}
    /\ \A f \in Files : FileInv(file[f], Tests[f])
    /\ cli.paths \in SUBSET Files
    /\ NoFalseGreen

-----------------------------------------------------------------------------
(***************************************************************************)
(* Changes of a file's record.                                             *)
(***************************************************************************)
\* What Append adds and keeps.
LEMMA SeqAppend ==
    ASSUME NEW S, NEW s \in Seq(S), NEW e \in S
    PROVE  /\ Append(s, e) \in Seq(S) /\ Len(Append(s, e)) = Len(s) + 1
           /\ \A n \in 1..Len(s) : Append(s, e)[n] = s[n]
           /\ Append(s, e)[Len(s) + 1] = e
  OBVIOUS

\* Two sequences with the same elements.
LEMMA SeqSame ==
    ASSUME NEW S, NEW s \in Seq(S), NEW t \in Seq(S), Len(s) = Len(t),
           \A n \in 1..Len(s) : s[n] = t[n]
    PROVE  s = t
  OBVIOUS

\* How many tests a file has is a number.
LEMMA TestsType ==
    ASSUME NEW f \in Files
    PROVE  Tests[f] \in Nat
<1>1. Metas[f] \in Seq([skip : BOOLEAN, slow : BOOLEAN, pairs : SUBSET (STRING \X STRING)])
  BY RunnerAssumption
<1>2. Len(Metas[f]) \in Nat
  BY <1>1
<1>. QED BY <1>2 DEF Tests

\* A change that names only fields of the record keeps the others.
LEMMA Overlaid ==
    ASSUME NEW r, NEW c, DOMAIN r = Fields, DOMAIN c \in SUBSET Fields
    PROVE  /\ DOMAIN With(r, c) = Fields
           /\ \A x \in Fields : With(r, c)[x] = IF x \in DOMAIN c THEN c[x] ELSE r[x]
BY DEF With

\* A step of one file leaves the records of the others alone.
LEMMA BecomesIs ==
    ASSUME DOMAIN file = Files, NEW f \in Files, NEW c, Becomes(f, c)
    PROVE  /\ DOMAIN file' = Files
           /\ file'[f] = With(file[f], c)
           /\ \A g \in Files : g # f => file'[g] = file[g]
BY DEF Becomes

\* The record of a file after a step of it.
LEMMA Changed ==
    ASSUME IInv, NEW f \in Files, NEW c, Becomes(f, c), DOMAIN c \in SUBSET Fields
    PROVE  /\ DOMAIN file'[f] = Fields
           /\ \A x \in DOMAIN c : file'[f][x] = c[x]
           /\ \A x \in Fields \ DOMAIN c : file'[f][x] = file[f][x]
<1>1. DOMAIN file = Files /\ DOMAIN file[f] = Fields
  BY Zenon DEF IInv, FileInv, Typed
<1>2. file'[f] = With(file[f], c)
  BY Zenon, <1>1, BecomesIs
<1>3. /\ DOMAIN With(file[f], c) = Fields
      /\ \A x \in Fields : With(file[f], c)[x] = IF x \in DOMAIN c THEN c[x] ELSE file[f][x]
  BY ZenonT(30), <1>1, Overlaid
<1>. QED BY <1>2, <1>3

\* A file that has not got to its tests goes on, or ends with an error.
LEMMA EarlyStep ==
    ASSUME IInv, NEW f \in Files, NEW c, Becomes(f, c), file[f].pc \in Early,
           DOMAIN c \in SUBSET (Fields \ {"out", "ev", "t", "dog"}), "pc" \in DOMAIN c,
           c.pc \in Early \/ (c.pc \in {"ran", "done"} /\ "error" \in DOMAIN c /\ c.error)
    PROVE  FileInv(file'[f], Tests[f])
<1> DEFINE r == file[f]
           s == file'[f]
<1>1. FileInv(r, Tests[f]) /\ Tests[f] \in Nat
  BY Zenon, TestsType DEF IInv
<1>2. /\ DOMAIN s = Fields /\ s.out = r.out /\ s.ev = r.ev /\ s.t = r.t /\ s.dog = r.dog
      /\ s.pc \in Early \/ (s.pc \in {"ran", "done"} /\ s.error)
  BY Changed DEF Fields
<1>. HIDE DEF r, s
<1>3. Typed(s)
  BY <1>1, <1>2 DEF FileInv, Typed
<1>4. Reported(s, Tests[f])
  BY <1>1, <1>2 DEF FileInv, Reported, Early, r
<1>5. Blamed(s) /\ (s.pc = "done" /\ ~s.ran => s.error)
  BY <1>1, <1>2 DEF FileInv, Blamed, Early, r
<1>6. FileInv(s, Tests[f])
  BY Zenon, <1>3, <1>4, <1>5 DEF FileInv
<1>. QED BY Zenon, <1>6 DEF s

\* So for a step that only moves on,
LEMMA MovesOn ==
    ASSUME IInv, NEW f \in Files, file[f].pc \in Early, NEW p \in Early, Becomes(f, [pc |-> p])
    PROVE  FileInv(file'[f], Tests[f])
<1> DEFINE c == [pc |-> p]
<1>1. Becomes(f, c)
  BY Zenon
<1>2. DOMAIN c \in SUBSET (Fields \ {"out", "ev", "t", "dog"}) /\ "pc" \in DOMAIN c /\ c.pc \in Early
  BY DEF Fields
<1>. HIDE DEF c
<1>. QED BY Zenon, <1>1, <1>2, EarlyStep

\* and for one that gives up.
LEMMA GivesUp ==
    ASSUME IInv, NEW f \in Files, file[f].pc \in Early, NEW p \in {"ran", "done"},
           Becomes(f, [pc |-> p, error |-> TRUE])
    PROVE  FileInv(file'[f], Tests[f])
<1> DEFINE c == [pc |-> p, error |-> TRUE]
<1>1. Becomes(f, c)
  BY Zenon
<1>2. /\ DOMAIN c \in SUBSET (Fields \ {"out", "ev", "t", "dog"}) /\ "pc" \in DOMAIN c
      /\ c.pc \in {"ran", "done"} /\ "error" \in DOMAIN c /\ c.error
  BY DEF Fields
<1>. HIDE DEF c
<1>. QED BY Zenon, <1>1, <1>2, EarlyStep

\* The chunk.
LEMMA ChunkStep ==
    ASSUME IInv, NEW f \in Files, ChunkFails(f) \/ ChunkRuns(f)
    PROVE  FileInv(file'[f], Tests[f])
<1>1. file[f].pc \in Early /\ "ran" \in {"ran", "done"}
  BY DEF ChunkFails, ChunkRuns, At, Early
<1>2. CASE ChunkFails(f)
  BY Zenon, <1>1, <1>2, GivesUp DEF ChunkFails
<1>3. ASSUME NEW state, NEW open,
             Becomes(f, [pc |-> "baseline", rootVm |-> state, fileRes |-> open])
      PROVE  FileInv(file'[f], Tests[f])
  <2> DEFINE c == [pc |-> "baseline", rootVm |-> state, fileRes |-> open]
  <2>1. Becomes(f, c)
    BY Zenon, <1>3
  <2>2. /\ DOMAIN c \in SUBSET (Fields \ {"out", "ev", "t", "dog"})
        /\ "pc" \in DOMAIN c /\ c.pc \in Early
    BY DEF Fields, Early
  <2>. HIDE DEF c
  <2>. QED BY Zenon, <1>1, <2>1, <2>2, EarlyStep
<1>. QED BY Zenon, <1>2, <1>3 DEF ChunkRuns

\* The baseline snapshot, taken, not asked for or refused.
LEMMA BaselineStep ==
    ASSUME IInv, NEW f \in Files, Baseline(f)
    PROVE  FileInv(file'[f], Tests[f])
<1>1. file[f].pc \in Early /\ "todo" \in Early /\ "ran" \in {"ran", "done"}
  BY DEF Baseline, At, Early
<1>2. CASE Becomes(f, [pc |-> "todo"])
  BY Zenon, <1>1, <1>2, MovesOn
<1>3. CASE Becomes(f, [pc |-> "todo", baseline |-> file[f].rootVm])
  <2> DEFINE c == [pc |-> "todo", baseline |-> file[f].rootVm]
  <2>1. Becomes(f, c)
    BY Zenon, <1>3
  <2>2. DOMAIN c \in SUBSET (Fields \ {"out", "ev", "t", "dog"}) /\ "pc" \in DOMAIN c /\ c.pc \in Early
    BY DEF Fields, Early
  <2>. HIDE DEF c
  <2>. QED BY Zenon, <1>1, <2>1, <2>2, EarlyStep
<1>4. CASE Becomes(f, [pc |-> "ran", error |-> TRUE])
  BY Zenon, <1>1, <1>4, GivesUp
<1>. QED BY Zenon, <1>2, <1>3, <1>4 DEF Baseline

\* todo() ends the file with every test skipped; else the loop begins.
LEMMA TodoStep ==
    ASSUME IInv, NEW f \in Files, Todo(f)
    PROVE  FileInv(file'[f], Tests[f])
<1> DEFINE r == file[f]
           s == file'[f]
           n == Tests[f]
<1>1. FileInv(r, n) /\ n \in Nat /\ r.pc = "todo"
  BY Zenon, TestsType DEF IInv, Todo, At
<1>2. r.out = <<>> /\ r.ev = <<>> /\ r.dog = "none" /\ DOMAIN r.t = {"failed", "skip", "raised"}
  BY <1>1 DEF FileInv, Typed, Reported, Blamed, Early
<1>3. CASE Becomes(f, [pc |-> "loop"])
  <2>1. /\ DOMAIN s = Fields /\ s.pc = "loop" /\ s.out = r.out /\ s.ev = r.ev /\ s.t = r.t
        /\ s.dog = r.dog
    <3> DEFINE c == [pc |-> "loop"]
    <3>1. Becomes(f, c) /\ DOMAIN c \in SUBSET Fields
      BY <1>3 DEF Fields
    <3>. QED BY <3>1, Changed DEF Fields
  <2>. HIDE DEF r, s, n
  <2>2. Typed(s)
    BY <1>2, <2>1 DEF Typed, Statuses
  <2>3. Reported(s, n) /\ Blamed(s) /\ (s.pc = "done" /\ ~s.ran => s.error)
    BY <1>1, <1>2, <2>1 DEF Reported, Blamed, Early
  <2>. QED BY Zenon, <2>2, <2>3 DEF FileInv, s, n
<1>4. CASE Becomes(f, [pc |-> "ran", out |-> [i \in 1..n |-> "skipped"],
                       ev |-> [i \in 1..n |-> <<"skipped">>]])
  <2>1. /\ DOMAIN s = Fields /\ s.pc = "ran" /\ s.t = r.t /\ s.dog = r.dog
        /\ s.out = [i \in 1..n |-> "skipped"] /\ s.ev = [i \in 1..n |-> <<"skipped">>]
    <3> DEFINE c == [pc |-> "ran", out |-> [i \in 1..n |-> "skipped"],
                     ev |-> [i \in 1..n |-> <<"skipped">>]]
    <3>1. Becomes(f, c)
      BY Zenon, <1>4
    <3>2. /\ DOMAIN c = {"pc", "out", "ev"} /\ c.pc = "ran"
          /\ c.out = [i \in 1..n |-> "skipped"] /\ c.ev = [i \in 1..n |-> <<"skipped">>]
      OBVIOUS
    <3>. HIDE DEF c
    <3>3. DOMAIN c \in SUBSET Fields
      BY <3>2 DEF Fields
    <3>4. /\ DOMAIN s = Fields
          /\ \A x \in DOMAIN c : s[x] = c[x]
          /\ \A x \in Fields \ DOMAIN c : s[x] = r[x]
      BY Zenon, <3>1, <3>3, Changed
    <3>. QED BY Zenon, <3>2, <3>4 DEF Fields
  <2>. HIDE DEF r, s, n
  <2>2. s.out \in Seq(Statuses) /\ Len(s.out) = n /\ \A i \in 1..n : s.out[i] = "skipped"
    BY <1>1, <2>1 DEF Statuses
  <2>3. s.ev \in Seq({<<"skipped">>}) /\ Len(s.ev) = n /\ \A i \in 1..n : s.ev[i] = <<"skipped">>
    BY <1>1, <2>1
  <2>4. s.ev \in Seq(Entries)
    BY <2>3 DEF Entries
  <2>5. Typed(s)
    BY <1>2, <2>1, <2>2, <2>4 DEF Typed
  <2>6. \A i \in 1..n : i <= Len(s.ev) /\ Told(s, i)
    BY <1>1, <2>2, <2>3 DEF Told
  <2>7. Reported(s, n) /\ Blamed(s) /\ (s.pc = "done" /\ ~s.ran => s.error)
    BY <1>1, <2>1, <2>2, <2>6 DEF Reported, Blamed, Early
  <2>. QED BY Zenon, <2>5, <2>7 DEF FileInv, s, n
<1>. QED BY Zenon, <1>3, <1>4 DEF Todo

-----------------------------------------------------------------------------
(***************************************************************************)
(* The loop over the tests.                                                *)
(***************************************************************************)
\* A test the filter excludes: one outcome and one event.
LEMMA FilteredStep ==
    ASSUME IInv, NEW f \in Files, Filtered(f)
    PROVE  FileInv(file'[f], Tests[f])
<1> DEFINE r == file[f]
           s == file'[f]
           n == Tests[f]
           c == [out |-> Append(r.out, "skipped"), ev |-> Append(r.ev, <<"skipped">>)]
<1>1. FileInv(r, n) /\ n \in Nat /\ r.pc = "loop" /\ Len(r.out) + 1 <= n
  BY Zenon, TestsType DEF IInv, Filtered, Filterable, At, Current
<1>2. /\ r.out \in Seq(Statuses) /\ DOMAIN r.t = {"failed", "skip", "raised"}
      /\ r.ev \in Seq(Entries)
      /\ Len(r.ev) = Len(r.out) /\ (\A i \in 1..Len(r.out) : Told(r, i)) /\ r.dog = "none"
  BY <1>1 DEF FileInv, Typed, Reported, Blamed
<1>3. /\ DOMAIN s = Fields /\ s.pc = "loop" /\ s.t = r.t /\ s.dog = r.dog
      /\ s.out = Append(r.out, "skipped") /\ s.ev = Append(r.ev, <<"skipped">>)
  <2>1. Becomes(f, c)
    BY Zenon DEF Filtered
  <2>2. DOMAIN c = {"out", "ev"} /\ c.out = Append(r.out, "skipped") /\ c.ev = Append(r.ev, <<"skipped">>)
    BY Zenon
  <2>. HIDE DEF c
  <2>3. DOMAIN c \in SUBSET Fields
    BY <2>2 DEF Fields
  <2>4. /\ DOMAIN s = Fields
        /\ \A x \in DOMAIN c : s[x] = c[x]
        /\ \A x \in Fields \ DOMAIN c : s[x] = r[x]
    BY Zenon, <2>1, <2>3, Changed
  <2>. QED BY <1>1, <2>2, <2>4 DEF Fields
<1>. HIDE DEF r, s, n, c
<1>4. /\ Len(s.out) = Len(r.out) + 1 /\ s.out[Len(r.out) + 1] = "skipped"
      /\ (\A i \in 1..Len(r.out) : s.out[i] = r.out[i]) /\ s.out \in Seq(Statuses)
  BY <1>2, <1>3 DEF Statuses
<1>5. /\ Len(s.ev) = Len(r.out) + 1 /\ s.ev[Len(r.out) + 1] = <<"skipped">>
      /\ \A i \in 1..Len(r.out) : s.ev[i] = r.ev[i]
  BY <1>2, <1>3
<1>6. s.ev \in Seq(Entries)
  <2>1. <<"skipped">> \in Entries
    BY DEF Entries
  <2>. QED BY <1>2, <1>3, <2>1
<1>7. Typed(s)
  BY <1>2, <1>3, <1>4, <1>6 DEF Typed
<1>8. \A i \in 1..Len(s.out) : Told(s, i)
  <2>1. \A i \in 1..Len(r.out) : Told(s, i)
    BY <1>2, <1>4, <1>5 DEF Told
  <2>2. Told(s, Len(r.out) + 1)
    BY <1>4, <1>5 DEF Told
  <2>. QED BY <1>2, <1>4, <2>1, <2>2
<1>9. Reported(s, n)
  BY <1>1, <1>3, <1>4, <1>5, <1>8 DEF Reported, Early
<1>10. Blamed(s) /\ (s.pc = "done" /\ ~s.ran => s.error)
  BY <1>2, <1>3 DEF Blamed
<1>. QED BY Zenon, <1>7, <1>9, <1>10 DEF FileInv, s, n

\* A test starts with a fresh t and its first event.
LEMMA StartTestStep ==
    ASSUME IInv, NEW f \in Files, StartTest(f)
    PROVE  FileInv(file'[f], Tests[f])
<1> DEFINE r == file[f]
           s == file'[f]
           n == Tests[f]
<1>1. FileInv(r, n) /\ n \in Nat /\ r.pc = "loop" /\ Len(r.out) + 1 <= n
  BY Zenon, TestsType DEF IInv, StartTest, At, Current
<1>2. /\ r.out \in Seq(Statuses)
      /\ r.ev \in Seq(Entries)
      /\ Len(r.ev) = Len(r.out) /\ (\A i \in 1..Len(r.out) : Told(r, i))
  BY <1>1 DEF FileInv, Typed, Reported
<1>3. /\ DOMAIN s = Fields /\ s.pc = "body" /\ s.t = NewT /\ s.bad = FALSE
      /\ s.out = r.out /\ s.ev = Append(r.ev, <<"started">>)
  <2>1. PICK d : Becomes(f, [pc |-> "body", t |-> NewT, bad |-> FALSE, dog |-> d,
                             ev |-> Append(r.ev, <<"started">>)])
    BY Zenon DEF StartTest
  <2> DEFINE c == [pc |-> "body", t |-> NewT, bad |-> FALSE, dog |-> d,
                   ev |-> Append(r.ev, <<"started">>)]
  <2>2. /\ DOMAIN c = {"pc", "t", "bad", "dog", "ev"} /\ c.pc = "body" /\ c.t = NewT
        /\ c.bad = FALSE /\ c.ev = Append(r.ev, <<"started">>) /\ Becomes(f, c)
    BY <2>1
  <2>. HIDE DEF c
  <2>3. DOMAIN c \in SUBSET Fields
    BY <2>2 DEF Fields
  <2>4. /\ DOMAIN s = Fields
        /\ \A x \in DOMAIN c : s[x] = c[x]
        /\ \A x \in Fields \ DOMAIN c : s[x] = r[x]
    BY Zenon, <2>2, <2>3, Changed
  <2>. QED BY <1>1, <2>2, <2>4 DEF Fields
<1>. HIDE DEF r, s, n
<1>4. /\ Len(s.ev) = Len(r.out) + 1 /\ s.ev[Len(r.out) + 1] = <<"started">>
      /\ \A i \in 1..Len(r.out) : s.ev[i] = r.ev[i]
  BY <1>2, <1>3
<1>5. s.ev \in Seq(Entries)
  <2>1. <<"started">> \in Entries
    BY DEF Entries
  <2>. QED BY <1>2, <1>3, <2>1
<1>6. Typed(s)
  BY <1>2, <1>3, <1>5 DEF Typed, NewT
<1>7. \A i \in 1..Len(s.out) : Told(s, i)
  BY <1>2, <1>3, <1>4 DEF Told
<1>8. Reported(s, n)
  BY <1>1, <1>2, <1>3, <1>4, <1>7 DEF Reported, Early
<1>9. Blamed(s) /\ (s.pc = "done" /\ ~s.ran => s.error)
  BY <1>3 DEF Blamed, Early
<1>. QED BY Zenon, <1>6, <1>8, <1>9 DEF FileInv, s, n

-----------------------------------------------------------------------------
(***************************************************************************)
(* The body of a test.                                                     *)
(***************************************************************************)
\* What a body does to flags keeps the invariant if the blame stays visible.
LEMMA BodyStep ==
    ASSUME IInv, NEW f \in Files, file[f].pc = "body", NEW c, Becomes(f, c),
           DOMAIN c \in SUBSET (Fields \ {"out", "ev", "dog"}),
           "pc" \in DOMAIN c => c.pc \in {"body", "ended"},
           DOMAIN file'[f].t = {"failed", "skip", "raised"},
           file'[f].bad => \/ file'[f].t.failed \/ file[f].dog = "fired"
                           \/ file'[f].pc = "ended" /\ file'[f].t.raised
    PROVE  FileInv(file'[f], Tests[f])
<1> DEFINE r == file[f]
           s == file'[f]
           n == Tests[f]
<1>1. FileInv(r, n) /\ n \in Nat
  BY Zenon, TestsType DEF IInv
<1>2. /\ DOMAIN s = Fields /\ s.out = r.out /\ s.ev = r.ev /\ s.dog = r.dog
      /\ s.pc \in {"body", "ended"}
  <2>1. DOMAIN c \in SUBSET Fields
    OBVIOUS
  <2>2. /\ DOMAIN s = Fields
        /\ \A x \in DOMAIN c : s[x] = c[x]
        /\ \A x \in Fields \ DOMAIN c : s[x] = r[x]
    BY Zenon, <2>1, Changed
  <2>. QED BY <2>2 DEF Fields
<1>3. /\ r.pc = "body" /\ DOMAIN s.t = {"failed", "skip", "raised"}
      /\ s.bad => \/ s.t.failed \/ s.dog = "fired"
                  \/ s.pc = "ended" /\ s.t.raised
  BY Zenon, <1>2
<1>. HIDE DEF r, s, n
<1>4. Typed(s)
  BY <1>1, <1>2, <1>3 DEF FileInv, Typed
<1>5. Reported(s, n)
  BY <1>1, <1>2, <1>3 DEF FileInv, Reported, Early, Told
<1>6. Blamed(s) /\ (s.pc = "done" /\ ~s.ran => s.error)
  BY <1>2, <1>3 DEF Blamed, Early
<1>. QED BY Zenon, <1>4, <1>5, <1>6 DEF FileInv, s, n

\* A failed assertion is in t.failed, swallowed or not.
LEMMA AssertFailsStep ==
    ASSUME IInv, NEW f \in Files, AssertFails(f)
    PROVE  FileInv(file'[f], Tests[f])
<1>1. file[f].pc = "body" /\ DOMAIN file[f].t = {"failed", "skip", "raised"}
  BY Zenon DEF IInv, FileInv, Typed, AssertFails, At
<1>2. PICK p \in {"body", "ended"}, b \in BOOLEAN :
        Becomes(f, [pc |-> p, t |-> [file[f].t EXCEPT !.failed = TRUE, !.raised = b], bad |-> TRUE])
  BY DEF AssertFails
<1> DEFINE c == [pc |-> p, t |-> [file[f].t EXCEPT !.failed = TRUE, !.raised = b], bad |-> TRUE]
<1>3. /\ DOMAIN c = {"pc", "t", "bad"} /\ c.pc \in {"body", "ended"} /\ c.t.failed
      /\ DOMAIN c.t = {"failed", "skip", "raised"}
  BY Zenon, <1>1
<1>4. Becomes(f, c)
  BY Zenon, <1>2
<1>. HIDE DEF c
<1>5. DOMAIN c \in SUBSET Fields /\ DOMAIN c \in SUBSET (Fields \ {"out", "ev", "dog"})
  BY <1>3 DEF Fields
<1>6. file'[f].t = c.t
  BY <1>3, <1>4, <1>5, Changed
<1>7. DOMAIN file'[f].t = {"failed", "skip", "raised"} /\ file'[f].t.failed
  BY Zenon, <1>3, <1>6
<1>. QED BY Zenon, <1>1, <1>3, <1>4, <1>5, <1>7, BodyStep

\* t:skip() changes nothing of what went wrong before.
LEMMA SkipStep ==
    ASSUME IInv, NEW f \in Files, Skip(f)
    PROVE  FileInv(file'[f], Tests[f])
<1>1. /\ file[f].pc = "body" /\ DOMAIN file[f].t = {"failed", "skip", "raised"}
      /\ file[f].bad => file[f].t.failed \/ file[f].dog = "fired"
  BY Zenon DEF IInv, FileInv, Typed, Blamed, Skip, At
<1>2. PICK p \in {"body", "ended"}, b \in BOOLEAN :
        Becomes(f, [pc |-> p, t |-> [file[f].t EXCEPT !.skip = TRUE, !.raised = b]])
  BY DEF Skip
<1> DEFINE c == [pc |-> p, t |-> [file[f].t EXCEPT !.skip = TRUE, !.raised = b]]
<1>3. /\ DOMAIN c = {"pc", "t"} /\ c.pc \in {"body", "ended"} /\ c.t.failed = file[f].t.failed
      /\ DOMAIN c.t = {"failed", "skip", "raised"}
  BY Zenon, <1>1
<1>4. Becomes(f, c)
  BY Zenon, <1>2
<1>. HIDE DEF c
<1>5. DOMAIN c \in SUBSET Fields /\ DOMAIN c \in SUBSET (Fields \ {"out", "ev", "dog"})
  BY <1>3 DEF Fields
<1>6. file'[f].t = c.t /\ file'[f].bad = file[f].bad
  BY <1>3, <1>4, <1>5, Changed DEF Fields
<1>7. /\ DOMAIN file'[f].t = {"failed", "skip", "raised"}
      /\ file'[f].bad => file'[f].t.failed \/ file[f].dog = "fired"
  BY Zenon, <1>1, <1>3, <1>6
<1>. QED BY Zenon, <1>1, <1>3, <1>4, <1>5, <1>7, BodyStep

\* The body returns or raises.
LEMMA BodyEndsStep ==
    ASSUME IInv, NEW f \in Files, BodyReturns(f) \/ BodyRaises(f)
    PROVE  FileInv(file'[f], Tests[f])
<1>1. /\ file[f].pc = "body" /\ DOMAIN file[f].t = {"failed", "skip", "raised"}
      /\ file[f].bad => file[f].t.failed \/ file[f].dog = "fired"
  BY Zenon DEF IInv, FileInv, Typed, Blamed, BodyReturns, BodyRaises, At
<1>2. CASE BodyReturns(f)
  <2> DEFINE c == [pc |-> "ended"]
  <2>1. Becomes(f, c)
    BY Zenon, <1>2 DEF BodyReturns
  <2>2. DOMAIN c = {"pc"} /\ c.pc \in {"body", "ended"}
    OBVIOUS
  <2>. HIDE DEF c
  <2>3. DOMAIN c \in SUBSET Fields /\ DOMAIN c \in SUBSET (Fields \ {"out", "ev", "dog"})
    BY <2>2 DEF Fields
  <2>4. file'[f].t = file[f].t /\ file'[f].bad = file[f].bad
    BY <2>1, <2>2, <2>3, Changed DEF Fields
  <2>5. /\ DOMAIN file'[f].t = {"failed", "skip", "raised"}
        /\ file'[f].bad => file'[f].t.failed \/ file[f].dog = "fired"
    BY Zenon, <1>1, <2>4
  <2>. QED BY Zenon, <1>1, <2>1, <2>2, <2>3, <2>5, BodyStep
<1>3. CASE BodyRaises(f)
  <2> DEFINE c == [pc |-> "ended", bad |-> TRUE, t |-> [file[f].t EXCEPT !.raised = TRUE]]
  <2>1. Becomes(f, c)
    BY Zenon, <1>3 DEF BodyRaises
  <2>2. /\ DOMAIN c = {"pc", "t", "bad"} /\ c.pc = "ended" /\ c.t.raised
        /\ DOMAIN c.t = {"failed", "skip", "raised"}
    BY <1>1
  <2>. HIDE DEF c
  <2>3. DOMAIN c \in SUBSET Fields /\ DOMAIN c \in SUBSET (Fields \ {"out", "ev", "dog"})
    BY <2>2 DEF Fields
  <2>4. file'[f].t = c.t /\ file'[f].pc = "ended" /\ c.pc \in {"body", "ended"}
    BY <2>1, <2>2, <2>3, Changed
  <2>5. /\ DOMAIN file'[f].t = {"failed", "skip", "raised"}
        /\ file'[f].pc = "ended" /\ file'[f].t.raised
    BY Zenon, <2>2, <2>4
  <2>. QED BY Zenon, <1>1, <2>1, <2>3, <2>4, <2>5, BodyStep
<1>. QED BY Zenon, <1>2, <1>3

\* What a body opens or touches is nothing the report depends on.
LEMMA AsideStep ==
    ASSUME IInv, NEW f \in Files, Touch(f) \/ \E what \in {"handle", "vm"} : Open(f, what)
    PROVE  FileInv(file'[f], Tests[f])
<1>1. /\ file[f].pc = "body" /\ DOMAIN file[f].t = {"failed", "skip", "raised"}
      /\ file[f].bad => file[f].t.failed \/ file[f].dog = "fired"
  BY Zenon DEF IInv, FileInv, Typed, Blamed, Touch, Open, At
<1>2. ASSUME NEW c, Becomes(f, c), DOMAIN c \in SUBSET {"touched", "testRes"}
      PROVE  FileInv(file'[f], Tests[f])
  <2>1. /\ DOMAIN c \in SUBSET Fields /\ DOMAIN c \in SUBSET (Fields \ {"out", "ev", "dog"})
        /\ "pc" \notin DOMAIN c
    BY <1>2 DEF Fields
  <2>2. file'[f].t = file[f].t /\ file'[f].bad = file[f].bad
    BY <1>2, <2>1, Changed DEF Fields
  <2>3. /\ DOMAIN file'[f].t = {"failed", "skip", "raised"}
        /\ file'[f].bad => file'[f].t.failed \/ file[f].dog = "fired"
    BY Zenon, <1>1, <2>2
  <2>. QED BY Zenon, <1>1, <1>2, <2>1, <2>3, BodyStep
<1>3. CASE Touch(f)
  <2> DEFINE c == [touched |-> TRUE]
  <2>1. Becomes(f, c)
    BY Zenon, <1>3 DEF Touch
  <2>2. DOMAIN c \in SUBSET {"touched", "testRes"}
    OBVIOUS
  <2>. QED BY Zenon, <1>2, <2>1, <2>2
<1>4. ASSUME NEW what, Open(f, what) PROVE FileInv(file'[f], Tests[f])
  <2> DEFINE c == [testRes |-> file[f].testRes \cup {what}]
  <2>1. Becomes(f, c)
    BY Zenon, <1>4 DEF Open
  <2>2. DOMAIN c \in SUBSET {"touched", "testRes"}
    OBVIOUS
  <2>. QED BY Zenon, <1>2, <2>1, <2>2
<1>. QED BY Zenon, <1>3, <1>4

\* Outcomes filled up with failures.
LEMMA Padded ==
    ASSUME NEW a \in Seq(Statuses), NEW n \in Nat, Len(a) < n
    PROVE  LET o == a \o [i \in 1..(n - Len(a)) |-> "failed"]
           IN  /\ o \in Seq(Statuses) /\ Len(o) = n
               /\ \A i \in 1..n : o[i] = IF i <= Len(a) THEN a[i] ELSE "failed"
<1> DEFINE rest == [i \in 1..(n - Len(a)) |-> "failed"]
           o == a \o rest
<1>1. n - Len(a) \in Nat
  OBVIOUS
<1>2. /\ rest \in Seq(Statuses) /\ Len(rest) = n - Len(a)
      /\ \A i \in 1..(n - Len(a)) : rest[i] = "failed"
  BY <1>1 DEF Statuses
<1>. HIDE DEF rest
<1>3. o \in Seq(Statuses) /\ Len(o) = n
  BY <1>1, <1>2
<1>4. ASSUME NEW i \in 1..n PROVE o[i] = IF i <= Len(a) THEN a[i] ELSE "failed"
  <2>1. CASE i <= Len(a)
    BY <1>2, <2>1
  <2>2. CASE ~(i <= Len(a))
    <3>1. i - Len(a) \in 1..(n - Len(a))
      BY <2>2
    <3>2. o[i] = rest[i - Len(a)]
      BY <1>2, <2>2
    <3>. QED BY <1>2, <2>2, <3>1, <3>2
  <2>. QED BY Zenon, <2>1, <2>2
<1>. QED BY Zenon, <1>3, <1>4 DEF rest

\* A panic fails this test and all that follow, without another event.
LEMMA BodyPanicsStep ==
    ASSUME IInv, NEW f \in Files, BodyPanics(f)
    PROVE  FileInv(file'[f], Tests[f])
<1> DEFINE r == file[f]
           s == file'[f]
           n == Tests[f]
           rest == [i \in 1..(n - Len(r.out)) |-> "failed"]
           c == [pc |-> "end", testRes |-> r.testRes \ {"vm"}, t |-> NewT, out |-> r.out \o rest]
<1>1. FileInv(r, n) /\ n \in Nat /\ r.pc = "body"
  BY Zenon, TestsType DEF IInv, BodyPanics, At
<1>2. /\ r.out \in Seq(Statuses) /\ r.ev \in Seq(Entries) /\ Len(r.ev) = Len(r.out) + 1
      /\ Len(r.out) < n /\ r.ev[Len(r.ev)] = <<"started">> /\ \A i \in 1..Len(r.out) : Told(r, i)
  BY <1>1 DEF FileInv, Typed, Reported
<1>3. DOMAIN s = Fields /\ s.pc = "end" /\ s.t = NewT /\ s.out = r.out \o rest /\ s.ev = r.ev
  <2>1. Becomes(f, c)
    BY Zenon DEF BodyPanics
  <2>2. /\ DOMAIN c = {"pc", "testRes", "t", "out"} /\ c.pc = "end" /\ c.t = NewT
        /\ c.out = r.out \o rest
    BY Zenon
  <2>. HIDE DEF c, rest
  <2>3. DOMAIN c \in SUBSET Fields
    BY <2>2 DEF Fields
  <2>4. /\ DOMAIN s = Fields
        /\ \A x \in DOMAIN c : s[x] = c[x]
        /\ \A x \in Fields \ DOMAIN c : s[x] = r[x]
    BY Zenon, <2>1, <2>3, Changed
  <2>. QED BY <2>2, <2>4 DEF Fields
<1>. HIDE DEF r, s, n, c, rest
<1>4. s.out \in Seq(Statuses) /\ Len(s.out) = n
  BY Zenon, <1>1, <1>2, <1>3, Padded DEF rest
<1>5. \A i \in 1..n : s.out[i] = IF i <= Len(r.out) THEN r.out[i] ELSE "failed"
  <2>1. \A i \in 1..n : (r.out \o rest)[i] = IF i <= Len(r.out) THEN r.out[i] ELSE "failed"
    BY <1>1, <1>2, Padded DEF rest
  <2>. QED BY Zenon, <1>3, <2>1
<1>6. Typed(s)
  BY <1>2, <1>3, <1>4 DEF Typed, NewT
<1>7. Len(r.out) \in Nat
  BY <1>2
<1>8. ASSUME NEW i \in 1..n
      PROVE  \/ i <= Len(s.ev) /\ Told(s, i)
             \/ /\ s.out[i] = "failed" /\ i >= Len(s.ev)
                /\ i = Len(s.ev) => s.ev[i] = <<"started">>
  <2>1. CASE i <= Len(r.out)
    <3>1. i \in 1..Len(r.out) /\ i <= Len(s.ev)
      BY <1>1, <1>2, <1>3, <1>7, <2>1
    <3>2. Told(r, i) /\ s.out[i] = r.out[i]
      BY <1>2, <1>5, <2>1, <3>1
    <3>3. Told(s, i)
      BY Zenon, <1>3, <3>2 DEF Told
    <3>. QED BY Zenon, <3>1, <3>3
  <2>2. CASE ~(i <= Len(r.out))
    <3>1. s.out[i] = "failed"
      BY Zenon, <1>5, <2>2
    <3>2. i >= Len(s.ev)
      BY <1>1, <1>2, <1>3, <1>7, <2>2
    <3>3. i = Len(s.ev) => s.ev[i] = <<"started">>
      BY Zenon, <1>2, <1>3
    <3>. QED BY Zenon, <3>1, <3>2, <3>3
  <2>. QED BY Zenon, <2>1, <2>2
<1>9. Reported(s, n)
  BY <1>3, <1>4, <1>8 DEF Reported, Early
<1>10. Blamed(s) /\ (s.pc = "done" /\ ~s.ran => s.error)
  BY <1>3 DEF Blamed, Early
<1>. QED BY Zenon, <1>6, <1>9, <1>10 DEF FileInv, s, n

\* The watchdog of the test under way fires.
LEMMA DogFiresStep ==
    ASSUME IInv, NEW f \in Files, DogFires(f)
    PROVE  FileInv(file'[f], Tests[f])
<1> DEFINE r == file[f]
           s == file'[f]
           n == Tests[f]
           c == [dog |-> "fired", bad |-> TRUE, rootVm |-> Down(r.rootVm)]
<1>1. FileInv(r, n) /\ n \in Nat /\ r.dog = "armed"
  BY Zenon, TestsType DEF IInv, DogFires
<1>2. /\ DOMAIN s = Fields /\ s.dog = "fired" /\ s.pc = r.pc /\ s.t = r.t /\ s.out = r.out
      /\ s.ev = r.ev /\ s.error = r.error /\ s.ran = r.ran
  <2>1. Becomes(f, c)
    BY Zenon DEF DogFires
  <2>2. DOMAIN c = {"dog", "bad", "rootVm"} /\ c.dog = "fired"
    OBVIOUS
  <2>. HIDE DEF c
  <2>3. DOMAIN c \in SUBSET Fields
    BY <2>2 DEF Fields
  <2>4. /\ DOMAIN s = Fields
        /\ \A x \in DOMAIN c : s[x] = c[x]
        /\ \A x \in Fields \ DOMAIN c : s[x] = r[x]
    BY Zenon, <2>1, <2>3, Changed
  <2>. QED BY <2>2, <2>4 DEF Fields
<1>. HIDE DEF r, s, n, c
<1>3. Typed(s)
  BY <1>1, <1>2 DEF FileInv, Typed
<1>4. Reported(s, n)
  BY <1>1, <1>2 DEF FileInv, Reported, Told
<1>5. Blamed(s)
  BY <1>1, <1>2 DEF FileInv, Blamed
<1>6. s.pc = "done" /\ ~s.ran => s.error
  BY Zenon, <1>1, <1>2 DEF FileInv
<1>. QED BY Zenon, <1>3, <1>4, <1>5, <1>6 DEF FileInv, s, n

-----------------------------------------------------------------------------
(***************************************************************************)
(* The end of a test and of the file.                                      *)
(***************************************************************************)
\* A sequence with one of its elements replaced.
LEMMA Replaced ==
    ASSUME NEW S, NEW q \in Seq(S), NEW k \in 1..Len(q), NEW x \in S
    PROVE  LET p == [q EXCEPT ![k] = x]
           IN  /\ p \in Seq(S) /\ Len(p) = Len(q) /\ p[k] = x
               /\ \A i \in 1..Len(q) : i # k => p[i] = q[i]
OBVIOUS

\* Two events of a test.
LEMMA Pair ==
    ASSUME NEW S, NEW a \in S, NEW x \in S
    PROVE  Append(<<a>>, x) = <<a, x>>
<1> DEFINE t == Append(<<a>>, x)
           u == <<a, x>>
<1>1. <<a>> \in Seq(S) /\ Len(<<a>>) = 1 /\ <<a>>[1] = a
  OBVIOUS
<1>2. u \in Seq(S) /\ Len(u) = 2 /\ u[1] = a /\ u[2] = x
  OBVIOUS
<1>3. t \in Seq(S) /\ Len(t) = 2 /\ t[1] = a /\ t[2] = x
  BY <1>1, SeqAppend
<1>. HIDE DEF t, u
<1>4. \A i \in 1..Len(t) : t[i] = u[i]
  BY <1>2, <1>3
<1>. QED BY Zenon, <1>2, <1>3, <1>4, SeqSame DEF t, u

\* The status is decided from the flags, reported and kept.
LEMMA FinishTestStep ==
    ASSUME IInv, NEW f \in Files, FinishTest(f)
    PROVE  FileInv(file'[f], Tests[f])
<1> DEFINE r == file[f]
           s == file'[f]
           n == Tests[f]
           m == Len(r.out)
           status == Classify(r.t, r.dog = "fired")
           told == [r.ev EXCEPT ![m + 1] = Append(@, status)]
           c == [pc |-> "close", dog |-> "none", t |-> NewT, out |-> Append(r.out, status),
                 ev |-> told]
<1>1. FileInv(r, n) /\ n \in Nat /\ r.pc = "ended"
  BY Zenon, TestsType DEF IInv, FinishTest, At
<1>2. /\ r.out \in Seq(Statuses) /\ r.ev \in Seq(Entries) /\ Len(r.ev) = m + 1
      /\ m < n /\ r.ev[m + 1] = <<"started">> /\ \A i \in 1..m : Told(r, i)
  BY <1>1 DEF FileInv, Typed, Reported
<1>3. status \in Statuses /\ (status = "passed" => ~r.bad)
  <2>1. r.bad => r.t.failed \/ r.t.raised \/ r.dog = "fired"
    BY Zenon, <1>1 DEF FileInv, Blamed
  <2>2. status \in Statuses
    BY DEF Classify, Statuses
  <2>3. status = "passed" => ~(r.dog = "fired") /\ ~r.t.raised /\ ~r.t.failed
    BY DEF Classify
  <2>. QED BY Zenon, <2>1, <2>2, <2>3
<1>4. /\ DOMAIN s = Fields /\ s.pc = "close" /\ s.dog = "none" /\ s.t = NewT
      /\ s.out = Append(r.out, status) /\ s.ev = told /\ s.bad = r.bad
  <2>1. Becomes(f, c)
    BY Zenon DEF FinishTest, Current
  <2>2. /\ DOMAIN c = {"pc", "dog", "t", "out", "ev"} /\ c.pc = "close" /\ c.dog = "none"
        /\ c.t = NewT /\ c.out = Append(r.out, status) /\ c.ev = told
    OBVIOUS
  <2>. HIDE DEF c, told, status
  <2>3. DOMAIN c \in SUBSET Fields
    BY <2>2 DEF Fields
  <2>4. /\ DOMAIN s = Fields
        /\ \A x \in DOMAIN c : s[x] = c[x]
        /\ \A x \in Fields \ DOMAIN c : s[x] = r[x]
    BY Zenon, <2>1, <2>3, Changed
  <2>. QED BY <2>2, <2>4 DEF Fields
<1>. HIDE DEF r, s, n, c, status
<1>5. m \in Nat /\ m + 1 \in 1..Len(r.ev)
  BY <1>2
<1>6. told = [r.ev EXCEPT ![m + 1] = <<"started", status>>]
  <2>1. "started" \in Statuses \cup {"started"} /\ status \in Statuses \cup {"started"}
    BY <1>3
  <2>2. Append(<<"started">>, status) = <<"started", status>>
    BY Zenon, <2>1, Pair
  <2>3. Append(r.ev[m + 1], status) = <<"started", status>>
    BY Zenon, <1>2, <2>2
  <2>. QED BY Zenon, <2>3
<1>7. <<"started", status>> \in Entries
  BY <1>3 DEF Entries
<1>8. /\ s.ev \in Seq(Entries) /\ Len(s.ev) = m + 1 /\ s.ev[m + 1] = <<"started", status>>
      /\ \A i \in 1..(m + 1) : i # m + 1 => s.ev[i] = r.ev[i]
  <2>. HIDE DEF told, m
  <2>. QED BY <1>2, <1>4, <1>5, <1>6, <1>7, Replaced
<1>9. /\ s.out \in Seq(Statuses) /\ Len(s.out) = m + 1 /\ s.out[m + 1] = status
      /\ \A i \in 1..m : s.out[i] = r.out[i]
  <2>. HIDE DEF told
  <2>. QED BY <1>2, <1>3, <1>4
<1>. HIDE DEF told, m
<1>10. Typed(s)
  BY <1>4, <1>8, <1>9 DEF Typed, NewT
<1>11. ASSUME NEW i \in 1..(m + 1) PROVE Told(s, i)
  <2>1. CASE i = m + 1
    <3>1. s.ev[i] = <<"started", status>> /\ s.out[i] = status /\ s.ev[i] # <<"skipped">>
      BY <1>8, <1>9, <2>1
    <3>. QED BY <3>1 DEF Told
  <2>2. CASE i # m + 1
    <3>1. i \in 1..m
      BY <1>5, <2>2
    <3>2. s.ev[i] = r.ev[i] /\ s.out[i] = r.out[i] /\ Told(r, i)
      BY <1>2, <1>8, <1>9, <2>2, <3>1
    <3>. QED BY Zenon, <3>2 DEF Told
  <2>. QED BY Zenon, <2>1, <2>2
<1>12. Reported(s, n)
  BY <1>1, <1>2, <1>4, <1>5, <1>8, <1>9, <1>11 DEF Reported, Early
<1>13. Blamed(s) /\ (s.pc = "done" /\ ~s.ran => s.error)
  BY <1>3, <1>4, <1>9 DEF Blamed, Early
<1>. QED BY Zenon, <1>10, <1>12, <1>13 DEF FileInv, s, n

\* The scopes are closed and the lab put back.
LEMMA BetweenStep ==
    ASSUME IInv, NEW f \in Files, CloseTestScope(f) \/ ResetLab(f)
    PROVE  FileInv(file'[f], Tests[f])
<1> DEFINE r == file[f]
           s == file'[f]
           n == Tests[f]
<1>1. FileInv(r, n) /\ n \in Nat /\ r.pc \in {"close", "reset"}
  BY TestsType DEF IInv, CloseTestScope, ResetLab, At
<1>2. /\ DOMAIN s = Fields /\ s.pc \in {"reset", "loop"} /\ s.t = r.t /\ s.dog = r.dog
      /\ s.out = r.out /\ s.ev = r.ev
  <2>1. ASSUME NEW c, Becomes(f, c), DOMAIN c \in SUBSET {"pc", "testRes", "bad", "touched"},
               "pc" \in DOMAIN c, c.pc \in {"reset", "loop"}
        PROVE  /\ DOMAIN s = Fields /\ s.pc \in {"reset", "loop"} /\ s.t = r.t /\ s.dog = r.dog
               /\ s.out = r.out /\ s.ev = r.ev
    <3>1. DOMAIN c \in SUBSET Fields
      BY <2>1 DEF Fields
    <3>. QED BY <2>1, <3>1, Changed DEF Fields
  <2>2. CASE CloseTestScope(f)
    <3> DEFINE c == [pc |-> "reset", testRes |-> {}, bad |-> FALSE]
    <3>1. Becomes(f, c)
      BY Zenon, <2>2 DEF CloseTestScope
    <3>2. /\ DOMAIN c \in SUBSET {"pc", "testRes", "bad", "touched"}
          /\ "pc" \in DOMAIN c /\ c.pc \in {"reset", "loop"}
      OBVIOUS
    <3>. HIDE DEF c, s, r
    <3>. QED BY Zenon, <2>1, <3>1, <3>2
  <2>3. CASE ResetLab(f)
    <3> DEFINE b == file[f].touched /\ (f \notin ResetBetween \/ RestoreRefused(f))
               c == [pc |-> "loop", touched |-> b]
    <3>1. Becomes(f, c)
      BY Zenon, <2>3 DEF ResetLab
    <3>2. /\ DOMAIN c \in SUBSET {"pc", "testRes", "bad", "touched"}
          /\ "pc" \in DOMAIN c /\ c.pc \in {"reset", "loop"}
      OBVIOUS
    <3>. HIDE DEF c, s, r
    <3>. QED BY Zenon, <2>1, <3>1, <3>2
  <2>. QED BY Zenon, <2>2, <2>3
<1>. HIDE DEF r, s, n
<1>3. Typed(s)
  BY <1>1, <1>2 DEF FileInv, Typed
<1>4. Reported(s, n)
  BY <1>1, <1>2 DEF FileInv, Reported, Told, Early
<1>5. Blamed(s) /\ (s.pc = "done" /\ ~s.ran => s.error)
  BY <1>1, <1>2 DEF FileInv, Blamed
<1>. QED BY Zenon, <1>3, <1>4, <1>5 DEF FileInv, s, n

\* The loop is over, or given up.
LEMMA EndFileStep ==
    ASSUME IInv, NEW f \in Files, EndFile(f)
    PROVE  FileInv(file'[f], Tests[f])
<1> DEFINE r == file[f]
           s == file'[f]
           n == Tests[f]
           c == [pc |-> "ran", testRes |-> {}, fileRes |-> {}]
<1>1. FileInv(r, n) /\ n \in Nat /\ (r.pc = "end" \/ (r.pc = "loop" /\ Len(r.out) + 1 > n))
  BY Zenon, TestsType DEF IInv, EndFile, At, Current
<1>2. /\ DOMAIN s = Fields /\ s.pc = "ran" /\ s.t = r.t /\ s.out = r.out /\ s.ev = r.ev
  <2>1. Becomes(f, c)
    BY Zenon DEF EndFile
  <2>2. DOMAIN c = {"pc", "testRes", "fileRes"} /\ c.pc = "ran"
    OBVIOUS
  <2>. HIDE DEF c
  <2>3. DOMAIN c \in SUBSET Fields
    BY <2>2 DEF Fields
  <2>4. /\ DOMAIN s = Fields
        /\ \A x \in DOMAIN c : s[x] = c[x]
        /\ \A x \in Fields \ DOMAIN c : s[x] = r[x]
    BY Zenon, <2>1, <2>3, Changed
  <2>. QED BY <2>2, <2>4 DEF Fields
<1>. HIDE DEF r, s, n, c
<1>3. Typed(s)
  BY <1>1, <1>2 DEF FileInv, Typed
<1>4. Reported(s, n)
  <2>1. CASE r.pc = "end"
    BY <1>1, <1>2, <2>1 DEF FileInv, Reported, Told, Early
  <2>2. CASE r.pc = "loop" /\ Len(r.out) + 1 > n
    <3>1. /\ Len(r.ev) = Len(r.out) /\ Len(r.out) <= n /\ Len(r.out) \in Nat
          /\ \A i \in 1..Len(r.out) : Told(r, i)
      BY <1>1, <2>2 DEF FileInv, Reported, Typed
    <3>2. Len(s.out) = n /\ \A i \in 1..Len(s.out) : i <= Len(s.ev) /\ Told(s, i)
      BY <1>1, <1>2, <2>2, <3>1 DEF Told
    <3>. QED BY <1>2, <3>2 DEF Reported, Early
  <2>. QED BY Zenon, <1>1, <2>1, <2>2
<1>5. Blamed(s) /\ (s.pc = "done" /\ ~s.ran => s.error)
  BY <1>2 DEF Blamed, Early
<1>. QED BY Zenon, <1>3, <1>4, <1>5 DEF FileInv, s, n

-----------------------------------------------------------------------------
(***************************************************************************)
(* The dispatcher and the command.                                         *)
(***************************************************************************)
\* The steps of a file's thread before its run.
LEMMA DispatchStep ==
    ASSUME IInv, NEW f \in Files,
           SkipFailFast(f) \/ Begin(f) \/ Unthrottled(f) \/ Reserve(f) \/ Granted(f) \/ Refused(f)
    PROVE  FileInv(file'[f], Tests[f])
<1>1. /\ {"start", "psi", "reserve", "queued", "run"} \in SUBSET Early
      /\ "done" \in {"ran", "done"} /\ "psi" \in Early /\ "reserve" \in Early
      /\ "queued" \in Early /\ "run" \in Early /\ "start" \in Early
  BY DEF Early
<1>2. CASE SkipFailFast(f)
  BY Zenon, <1>1, <1>2, GivesUp DEF SkipFailFast, Result, At
<1>3. CASE Refused(f)
  BY Zenon, <1>1, <1>3, GivesUp DEF Refused, Result, At
<1>4. CASE Begin(f)
  BY Zenon, <1>1, <1>4, MovesOn DEF Begin, Result, At
<1>5. CASE Unthrottled(f)
  BY Zenon, <1>1, <1>5, MovesOn DEF Unthrottled, Result, At
<1>6. CASE Reserve(f)
  BY Zenon, <1>1, <1>6, MovesOn DEF Reserve, Result, At
<1>7. CASE Granted(f)
  BY Zenon, <1>1, <1>7, MovesOn DEF Granted, Result, At
<1>. QED BY Zenon, <1>2, <1>3, <1>4, <1>5, <1>6, <1>7

\* A panic of the runner ends the file with an error.
LEMMA RunnerPanicsStep ==
    ASSUME IInv, NEW f \in Files, RunnerPanics(f)
    PROVE  FileInv(file'[f], Tests[f])
<1> DEFINE r == file[f]
           s == file'[f]
           n == Tests[f]
           c == [pc |-> "ran", error |-> TRUE, out |-> <<>>]
<1>1. FileInv(r, n)
  BY Zenon DEF IInv
<1>2. /\ DOMAIN s = Fields /\ s.pc = "ran" /\ s.error /\ s.out = <<>> /\ s.t = r.t /\ s.ev = r.ev
  <2>1. Becomes(f, c)
    BY Zenon DEF RunnerPanics, Result
  <2>2. DOMAIN c = {"pc", "error", "out"} /\ c.pc = "ran" /\ c.error /\ c.out = <<>>
    OBVIOUS
  <2>. HIDE DEF c
  <2>3. DOMAIN c \in SUBSET Fields
    BY <2>2 DEF Fields
  <2>4. /\ DOMAIN s = Fields
        /\ \A x \in DOMAIN c : s[x] = c[x]
        /\ \A x \in Fields \ DOMAIN c : s[x] = r[x]
    BY Zenon, <2>1, <2>3, Changed
  <2>. QED BY <2>2, <2>4 DEF Fields
<1>. HIDE DEF r, s, n, c
<1>3. Typed(s)
  BY <1>1, <1>2 DEF FileInv, Typed, Statuses
<1>4. Reported(s, n)
  BY <1>2 DEF Reported, Early
<1>5. Blamed(s) /\ (s.pc = "done" /\ ~s.ran => s.error)
  BY <1>2 DEF Blamed, Early
<1>. QED BY Zenon, <1>3, <1>4, <1>5 DEF FileInv, s, n

\* A record that is done and ran is in order.
LEMMA DoneIs ==
    ASSUME NEW s, NEW n, DOMAIN s = Fields, s.pc = "done", s.ran, s.t = NewT, s.ev = <<>>,
           s.out \in Seq(Statuses)
    PROVE  FileInv(s, n)
<1>1. Typed(s)
  BY DEF Typed, NewT, Entries
<1>2. Reported(s, n)
  BY DEF Reported, Early
<1>3. Blamed(s)
  BY DEF Blamed, Early
<1>. QED BY Zenon, <1>1, <1>2, <1>3 DEF FileInv

\* The file is wound up; what the report looks at is kept.
LEMMA WindStep ==
    ASSUME IInv, NEW f \in Files, Wind(f)
    PROVE  FileInv(file'[f], Tests[f])
<1> DEFINE r == file[f]
           s == file'[f]
<1>1. PICK late, e, o :
        /\ o \in {<<"failed">>, <<>>}
        /\ Becomes(f, [NewFile EXCEPT !.pc = "done", !.timedOut = late, !.ran = TRUE, !.error = e,
                                      !.out = o])
  BY DEF Wind, Result
<1> DEFINE c == [NewFile EXCEPT !.pc = "done", !.timedOut = late, !.ran = TRUE, !.error = e,
                                !.out = o]
<1>2. Becomes(f, c)
  BY Zenon, <1>1
<1>3. /\ DOMAIN c = Fields /\ c.pc = "done" /\ c.ran /\ c.t = NewT /\ c.ev = <<>> /\ c.out = o
  BY DEF NewFile, Fields
<1>. HIDE DEF c
<1>4. DOMAIN c \in SUBSET Fields
  BY <1>3
<1>5. DOMAIN s = Fields /\ \A x \in DOMAIN c : s[x] = c[x]
  BY Zenon, <1>2, <1>4, Changed
<1>6. /\ DOMAIN s = Fields /\ s.pc = "done" /\ s.ran /\ s.t = NewT /\ s.ev = <<>> /\ s.out = o
  BY <1>3, <1>5 DEF Fields
<1>7. o \in Seq(Statuses)
  <2>1. "failed" \in Statuses
    BY DEF Statuses
  <2>2. <<"failed">> \in Seq(Statuses)
    BY <2>1
  <2>3. <<>> \in Seq(Statuses)
    OBVIOUS
  <2>. QED BY Zenon, <1>1, <2>2, <2>3
<1>. HIDE DEF s
<1>8. FileInv(s, Tests[f])
  BY Zenon, <1>6, <1>7, DoneIs
<1>. QED BY Zenon, <1>8 DEF s

\* The steps of the runner.
LEMMA RunStep ==
    ASSUME IInv, NEW f \in Files, RunnerStep(f)
    PROVE  FileInv(file'[f], Tests[f])
<1>1. CASE ChunkFails(f) \/ ChunkRuns(f) \/ Baseline(f) \/ Todo(f)
  BY Zenon, <1>1, ChunkStep, BaselineStep, TodoStep
<1>2. CASE Filtered(f) \/ StartTest(f)
  BY Zenon, <1>2, FilteredStep, StartTestStep
<1>3. CASE Touch(f) \/ \E what \in {"handle", "vm"} : Open(f, what)
  BY Zenon, <1>3, AsideStep
<1>4. CASE AssertFails(f) \/ Skip(f) \/ BodyReturns(f) \/ BodyRaises(f)
  BY Zenon, <1>4, AssertFailsStep, SkipStep, BodyEndsStep
<1>5. CASE BodyPanics(f) \/ DogFires(f) \/ FinishTest(f)
  BY Zenon, <1>5, BodyPanicsStep, DogFiresStep, FinishTestStep
<1>6. CASE CloseTestScope(f) \/ ResetLab(f) \/ EndFile(f)
  BY Zenon, <1>6, BetweenStep, EndFileStep
<1>. QED BY Zenon, <1>1, <1>2, <1>3, <1>4, <1>5, <1>6 DEF RunnerStep

\* A step of a file changes its record only, while the command is dispatching.
LEMMA OneFile ==
    ASSUME NEW f \in Files, FileStep(f)
    PROVE  cli.pc = "dispatch" /\ UNCHANGED cli /\ \E c : Becomes(f, c)
<1>1. CASE \E c : Result(f, c)
  BY Zenon, <1>1 DEF Result, Threaded
<1>2. CASE Run(f)
  <2>1. RunnerStep(f) => \E c : Becomes(f, c)
    <3>1. ChunkFails(f) \/ ChunkRuns(f) \/ Baseline(f) \/ Todo(f) => \E c : Becomes(f, c)
      BY Zenon DEF ChunkFails, ChunkRuns, Baseline, Todo
    <3>2. Filtered(f) \/ StartTest(f) \/ Touch(f) => \E c : Becomes(f, c)
      BY Zenon DEF Filtered, StartTest, Touch
    <3>3. (\E what \in {"handle", "vm"} : Open(f, what)) => \E c : Becomes(f, c)
      BY Zenon DEF Open
    <3>4. AssertFails(f) \/ Skip(f) \/ BodyReturns(f) \/ BodyRaises(f) => \E c : Becomes(f, c)
      BY Zenon DEF AssertFails, Skip, BodyReturns, BodyRaises
    <3>5. BodyPanics(f) \/ DogFires(f) \/ FinishTest(f) => \E c : Becomes(f, c)
      BY Zenon DEF BodyPanics, DogFires, FinishTest
    <3>6. CloseTestScope(f) \/ ResetLab(f) \/ EndFile(f) => \E c : Becomes(f, c)
      BY Zenon DEF CloseTestScope, ResetLab, EndFile
    <3>. QED BY Zenon, <3>1, <3>2, <3>3, <3>4, <3>5, <3>6 DEF RunnerStep
  <2>. QED BY Zenon, <1>2, <2>1 DEF Run, Threaded
<1>3. CASE SkipFailFast(f) \/ Begin(f) \/ Unthrottled(f) \/ Reserve(f)
  BY Zenon, <1>1, <1>3 DEF SkipFailFast, Begin, Unthrottled, Reserve
<1>4. CASE Granted(f) \/ Refused(f) \/ RunnerPanics(f) \/ Wind(f)
  BY Zenon, <1>1, <1>4 DEF Granted, Refused, RunnerPanics, Wind
<1>. QED BY Zenon, <1>2, <1>3, <1>4 DEF FileStep

\* A step of a file keeps the invariant.
LEMMA FileStepKeeps ==
    ASSUME IInv, NEW f \in Files, FileStep(f)
    PROVE  IInv'
<1>1. FileInv(file'[f], Tests[f])
  BY Zenon, DispatchStep, RunStep, RunnerPanicsStep, WindStep DEF FileStep, Run
<1>2. PICK c : Becomes(f, c)
  BY Zenon, OneFile
<1>3. cli.pc = "dispatch" /\ UNCHANGED cli
  BY Zenon, OneFile
<1>4. DOMAIN file = Files /\ DOMAIN cli = {"pc", "paths", "want", "code"} /\ cli.paths \in SUBSET Files
  BY Zenon DEF IInv
<1>5. DOMAIN file' = Files /\ \A g \in Files : g # f => file'[g] = file[g]
  BY Zenon, <1>2, <1>4, BecomesIs
<1>6. \A g \in Files : FileInv(file'[g], Tests[g])
  BY Zenon, <1>1, <1>5 DEF IInv
<1>7. NoFalseGreen'
  <2>1. cli'.pc # "exit"
    BY <1>3
  <2>. QED BY Zenon, <2>1 DEF NoFalseGreen
<1>. QED BY Zenon, <1>3, <1>4, <1>5, <1>6, <1>7 DEF IInv

\* A file that has not started is in order.
LEMMA FreshIs ==
    ASSUME NEW n \in Nat
    PROVE  FileInv(NewFile, n)
<1> DEFINE s == NewFile
<1>1. /\ DOMAIN s = Fields /\ s.pc = "start" /\ s.t = NewT /\ s.ev = <<>> /\ s.out = <<>>
      /\ s.dog = "none"
  BY DEF NewFile, Fields
<1>. HIDE DEF s
<1>2. Typed(s)
  BY <1>1 DEF Typed, NewT, Statuses, Entries
<1>3. Reported(s, n)
  BY <1>1 DEF Reported, Early
<1>4. Blamed(s) /\ (s.pc = "done" /\ ~s.ran => s.error)
  BY <1>1 DEF Blamed, Early
<1>. QED BY Zenon, <1>2, <1>3, <1>4 DEF FileInv, s

\* All the files of a command that begins or ends are fresh.
LEMMA AllFresh ==
    ASSUME file' = [f \in Files |-> NewFile]
    PROVE  DOMAIN file' = Files /\ \A f \in Files : FileInv(file'[f], Tests[f])
<1>1. DOMAIN file' = Files /\ \A f \in Files : file'[f] = NewFile
  OBVIOUS
<1>. QED BY Zenon, <1>1, FreshIs, TestsType

\* The command starts, with the files that are left of what it was given.
LEMMA InvokeStep ==
    ASSUME IInv, NEW D \in SUBSET Files, NEW s, NEW rerun, Invoke(D, s, rerun)
    PROVE  IInv'
<1> DEFINE kept == {p[2] : p \in Retain(Found(D, s), rerun)}
           want == IF rerun THEN D \cap saved ELSE D
<1>1. file' = [f \in Files |-> NewFile]
  BY Zenon DEF Invoke
<1>2. cli' = [pc |-> IF kept = {} THEN "exit" ELSE "dispatch",
              paths |-> kept, want |-> want, code |-> 0]
  BY Zenon DEF Invoke
<1>3. kept \in SUBSET Files
  <2>1. Retain(Found(D, s), rerun) \in SUBSET Found(D, s)
    BY DEF Retain
  <2>2. \A p \in Found(D, s) : p[2] \in D
    BY DEF Found
  <2>. QED BY <2>1, <2>2
<1>. HIDE DEF kept, want
<1>4. /\ DOMAIN cli' = {"pc", "paths", "want", "code"} /\ cli'.paths \in SUBSET Files
      /\ cli'.pc = "exit" => cli'.paths = {}
  BY <1>2, <1>3
<1>5. DOMAIN file' = Files /\ \A f \in Files : FileInv(file'[f], Tests[f])
  BY Zenon, <1>1, AllFresh
<1>6. NoFalseGreen'
  <2> SUFFICES ASSUME cli'.pc = "exit", cli'.paths = cli'.want PROVE NoFalseGreen'
    BY Zenon DEF NoFalseGreen
  <2>1. cli'.want = {}
    BY Zenon, <1>4
  <2>. QED BY <2>1 DEF NoFalseGreen
<1>. QED BY Zenon, <1>4, <1>5, <1>6 DEF IInv

\* Every thread is joined: the exit code and the rerun state tell what happened.
LEMMA RenderStep ==
    ASSUME IInv, Render
    PROVE  IInv'
<1>1. /\ \A f \in cli.paths : file[f].pc = "done"
      /\ saved' = (IF FailedPaths = {} THEN saved ELSE FailedPaths)
      /\ UNCHANGED file
  BY Zenon DEF Render, At
<1>2. PICK k \in {0, 1} : cli' = [cli EXCEPT !.pc = "exit", !.code = IF FailedPaths = {} THEN k ELSE 1]
  BY Zenon DEF Render
<1>3. DOMAIN cli = {"pc", "paths", "want", "code"} /\ cli.paths \in SUBSET Files
  BY Zenon DEF IInv
<1>4. /\ DOMAIN cli' = {"pc", "paths", "want", "code"} /\ cli'.paths = cli.paths
      /\ cli'.want = cli.want /\ (cli'.code = 0 => FailedPaths = {})
  BY <1>2, <1>3
<1>5. ASSUME NEW f \in cli.paths, Passed(file[f]) PROVE file[f].ran
  <2>1. ~file[f].error
    BY Zenon, <1>5 DEF Passed, AllSucceeded
  <2>2. file[f].pc = "done" /\ (file[f].pc = "done" /\ ~file[f].ran => file[f].error)
    BY Zenon, <1>1, <1>3 DEF IInv, FileInv
  <2>. QED BY Zenon, <2>1, <2>2
<1>6. NoFalseGreen'
  <2> DEFINE Good == {f \in cli.want : At(f, "done") /\ file[f].ran /\ Passed(file[f])}
  <2>1. ASSUME cli.paths = cli.want PROVE Good = cli.want \ FailedPaths
    BY Zenon, <1>1, <1>5, <2>1 DEF FailedPaths, At
  <2>2. ASSUME cli.paths = cli.want
        PROVE  (cli'.code = 0 => Good = cli.want) /\ cli.want \ Good \subseteq saved'
    <3>. HIDE DEF Good
    <3>1. cli.want \ Good \subseteq FailedPaths /\ (FailedPaths = {} => Good = cli.want)
      BY <2>1, <2>2
    <3>2. cli.want \ Good \subseteq saved'
      BY <1>1, <3>1
    <3>. QED BY Zenon, <1>4, <3>1, <3>2
  <2>3. Good' = Good
    BY Zenon, <1>1, <1>4 DEF At, Passed, AllSucceeded
  <2>. QED BY Zenon, <1>4, <2>2, <2>3 DEF NoFalseGreen
<1>. QED BY Zenon, <1>1, <1>3, <1>4, <1>6 DEF IInv

\* The invariant depends on nothing but the files, the command and the rerun state.
LEMMA SameKeeps ==
    ASSUME IInv, UNCHANGED <<file, cli, saved>>
    PROVE  IInv'
<1>1. file' = file /\ cli' = cli /\ saved' = saved
  OBVIOUS
<1>2. NoFalseGreen'
  BY Zenon, <1>1 DEF IInv, NoFalseGreen, At, Passed, AllSucceeded
<1>. QED BY Zenon, <1>1, <1>2 DEF IInv

\* The command is over.
LEMMA ExitStep ==
    ASSUME IInv, Exit
    PROVE  IInv'
<1>1. /\ DOMAIN cli' = {"pc", "paths", "want", "code"} /\ cli'.paths \in SUBSET Files
      /\ cli'.pc # "exit"
  BY DEF Exit, Idle
<1>2. DOMAIN file' = Files /\ \A f \in Files : FileInv(file'[f], Tests[f])
  BY Zenon, AllFresh DEF Exit
<1>3. NoFalseGreen'
  BY Zenon, <1>1 DEF NoFalseGreen
<1>. QED BY Zenon, <1>1, <1>2, <1>3 DEF IInv

\* No run has begun.
LEMMA IInvInit ==
    ASSUME Init
    PROVE  IInv
<1>1. DOMAIN file = Files /\ \A f \in Files : file[f] = NewFile
  BY DEF Init
<1>2. /\ DOMAIN cli = {"pc", "paths", "want", "code"} /\ cli.paths \in SUBSET Files
      /\ cli.pc # "exit"
  BY DEF Init, Idle
<1>3. \A f \in Files : FileInv(file[f], Tests[f])
  BY Zenon, <1>1, FreshIs, TestsType
<1>4. NoFalseGreen
  BY Zenon, <1>2 DEF NoFalseGreen
<1>. QED BY Zenon, <1>1, <1>2, <1>3, <1>4 DEF IInv

\* Every step keeps the invariant.
LEMMA IInvStep ==
    ASSUME IInv, [Next]_vars
    PROVE  IInv'
<1>1. CASE \E D \in (SUBSET Files) \ {{}}, s \in {"absolute", "relative"}, r \in BOOLEAN : Invoke(D, s, r)
  <2>1. PICK D \in SUBSET Files, s \in {"absolute", "relative"}, r \in BOOLEAN : Invoke(D, s, r)
    BY Zenon, <1>1
  <2>. QED BY Zenon, <2>1, InvokeStep
<1>2. CASE \E f \in Files : FileStep(f)
  BY Zenon, <1>2, FileStepKeeps
<1>3. CASE Pressure
  <2>1. UNCHANGED <<file, cli, saved>>
    BY <1>3 DEF Pressure
  <2>. QED BY Zenon, <2>1, SameKeeps
<1>4. CASE Render
  BY Zenon, <1>4, RenderStep
<1>5. CASE Exit
  BY Zenon, <1>5, ExitStep
<1>6. CASE Over \/ UNCHANGED vars
  <2>1. UNCHANGED <<file, cli, saved>>
    BY <1>6 DEF Over, vars
  <2>. QED BY Zenon, <2>1, SameKeeps
<1>. QED BY Zenon, <1>1, <1>2, <1>3, <1>4, <1>5, <1>6 DEF Next

\* The invariant holds in every state of every run of the suite.
THEOREM IInvHolds == Spec => []IInv
<1>. QED BY IInvInit, IInvStep, PTL DEF Spec

\* The event stream of a file that ran to its end tells the outcome of each of its
\* tests, whatever its tests did, in whatever order the files ran.  (runner.rs:316-641)
THEOREM EventsHold == Spec => []EventsTellOutcomes
<1>1. ASSUME IInv PROVE EventsTellOutcomes
  <2> SUFFICES ASSUME NEW f \in Files, At(f, "ran"), ~file[f].error
               PROVE  LET r == file[f]
                      IN  /\ Len(r.out) = Tests[f]
                          /\ \A i \in DOMAIN r.out :
                              \/ /\ i <= Len(r.ev)
                                 /\ r.ev[i] \in {<<"started", r.out[i]>>, <<"skipped">>}
                                 /\ r.ev[i] = <<"skipped">> => r.out[i] = "skipped"
                              \/ /\ r.out[i] = "failed" /\ i >= Len(r.ev)
                                 /\ i = Len(r.ev) => r.ev[i] = <<"started">>
    BY Zenon DEF EventsTellOutcomes
  <2>1. PICK r : r = file[f]
    OBVIOUS
  <2>2. Typed(r) /\ Reported(r, Tests[f]) /\ r.pc = "ran" /\ ~r.error
    BY Zenon, <1>1, <2>1 DEF IInv, FileInv, At
  <2>3. DOMAIN r.out = 1..Len(r.out)
    BY <2>2 DEF Typed
  <2>. QED BY Zenon, <2>1, <2>2, <2>3 DEF Reported, Told
<1>. QED BY <1>1, IInvHolds, PTL

\* A test reported passed had no failed assertion, did not raise and was not timed
\* out, even where its own pcall swallowed the failure.  (runner.rs:536-601)
THEOREM PassHolds == Spec => []PassIsEarned
<1>1. ASSUME IInv PROVE PassIsEarned
  BY Zenon, <1>1 DEF PassIsEarned, IInv, FileInv, Blamed, At
<1>. QED BY <1>1, IInvHolds, PTL

\* Exit code 0 is earned by every file of the run, and a file that did not earn it is
\* in the rerun state.  (provium.rs:748-761, 1025-1071, dispatch.rs:218-236)
THEOREM NoFalseGreenHolds == Spec => []NoFalseGreen
<1>1. ASSUME IInv PROVE NoFalseGreen
  BY Zenon, <1>1 DEF IInv
<1>. QED BY <1>1, IInvHolds, PTL

(***************************************************************************)
(* The books of a file's claim, and what the file still holds when it is   *)
(* over, for any VMs, costs and claims.                                    *)
(*                                                                         *)
(* UsedIsLent is not inductive.  A slice is given back by its price, so    *)
(* that the books stay true only if no VM is covered by two slices: a VM   *)
(* is paid for by its own hold, by one joint hold or by the boot under     *)
(* way, never by two of them.  That in turn holds because only a VM still  *)
(* Created is reserved for, and a kept hold covers none that is.           *)
(***************************************************************************)

BudgetType ==
    DOMAIN budget = {"held", "total", "used"} /\ budget.total \in Nat /\ budget.used \in Nat

Types ==
    /\ BudgetType
    /\ vm \in [Vms -> {"Created", "Booted", "Off"}]
    /\ hold \in [Vms -> {"none", "pool", "claim"}]
    /\ joint \in SUBSET Holds /\ pending \in Holds
    /\ pc \in {"run", "solo", "batch", "join", "shutdown", "done"}

\* No VM is paid for twice, and what is kept covers no VM that may be booted
PaidOnce ==
    /\ \A v \in Vms : hold[v] # "none" => vm[v] # "Created"
    /\ \A v \in pending.members : hold[v] = "none"
    /\ \A j \in joint : \A v \in j.members :
        hold[v] = "none" /\ vm[v] # "Created" /\ v \notin pending.members
    /\ \A j, k \in joint : \A v \in j.members : v \in k.members => j = k

\* What the call under way has in its hands, and what is over for good
Control ==
    /\ pc \notin {"solo", "batch"} => pending = NoHold
    /\ pc = "solo" => target \in Vms /\ pending.members = {target}
    /\ pc = "batch" /\ ~failed => \A v \in pending.members : v \in todo \/ vm[v] # "Created"
    /\ pc \in {"shutdown", "done"} => dog = "returned" /\ ~budget.held
    /\ pc = "done" => joint = {} /\ \A v \in Vms : vm[v] = "Off" /\ hold[v] = "none"

\* The VMs that slices of the claim cover
Covered == Lent(Vms) \cup LentBy(joint) \cup LentBy({pending})

Books ==
    /\ budget.held => taken /\ budget.used = Price(Covered) /\ budget.used <= budget.total
    /\ ~taken => Covered = {}

BooksInv == Types /\ PaidOnce /\ Control /\ Books

-----------------------------------------------------------------------------
(***************************************************************************)
(* What a set of VMs costs.                                                *)
(***************************************************************************)
\* The units of one VM are as many as it costs.
LEMMA UnitsOf ==
    ASSUME NEW v \in Vms
    PROVE  IsFiniteSet({v} \X (1..Cost[v])) /\ Cardinality({v} \X (1..Cost[v])) = Cost[v]
<1>1. Cost[v] \in Nat
  BY FileAssumption
<1>2. IsFiniteSet({v}) /\ Cardinality({v}) = 1
  BY FS_Singleton
<1>3. IsFiniteSet(1..Cost[v]) /\ Cardinality(1..Cost[v]) = Cost[v]
  BY <1>1, FS_Interval
<1>4. /\ IsFiniteSet({v} \X (1..Cost[v]))
      /\ Cardinality({v} \X (1..Cost[v])) = Cardinality({v}) * Cardinality(1..Cost[v])
  BY <1>2, <1>3, FS_Product, Zenon
<1>. QED BY <1>1, <1>2, <1>3, <1>4

\* The units of any of the file's VMs can be counted.
LEMMA UnitsFinite ==
    ASSUME NEW S \in SUBSET Vms
    PROVE  IsFiniteSet(UNION {{v} \X (1..Cost[v]) : v \in S})
<1> DEFINE T == {{v} \X (1..Cost[v]) : v \in S}
           f == [v \in S |-> {v} \X (1..Cost[v])]
<1>1. IsFiniteSet(S)
  BY FS_Subset, FileAssumption
<1>2. f \in Surjection(S, T)
  BY Zenon DEF Surjection
<1>3. IsFiniteSet(T)
  <2>. HIDE DEF f, T
  <2>. QED BY Zenon, <1>1, <1>2, FS_Surjection
<1>4. \A t \in T : IsFiniteSet(t)
  BY Zenon, UnitsOf
<1>. QED
  <2>. HIDE DEF T
  <2>1. IsFiniteSet(UNION T)
    BY Zenon, <1>3, <1>4, FS_UNION
  <2>. QED BY <2>1 DEF T

\* A price is a natural number.
LEMMA PriceType ==
    ASSUME NEW S \in SUBSET Vms
    PROVE  Price(S) \in Nat
BY UnitsFinite, FS_CardinalityType, Zenon DEF Price

\* Nothing costs nothing.
LEMMA PriceOfNone == Price({}) = 0
<1>1. UNION {{v} \X (1..Cost[v]) : v \in {}} = {}
  OBVIOUS
<1>. QED BY <1>1, FS_EmptySet, Zenon DEF Price

\* One VM costs what Cost says.
LEMMA PriceOfOne ==
    ASSUME NEW v \in Vms
    PROVE  Price({v}) = Cost[v]
<1>1. UNION {{u} \X (1..Cost[u]) : u \in {v}} = {v} \X (1..Cost[v])
  OBVIOUS
<1>. QED BY <1>1, UnitsOf, Zenon DEF Price

\* VMs of two disjoint sets cost what the one and the other cost.
LEMMA PriceAdds ==
    ASSUME NEW S \in SUBSET Vms, NEW T \in SUBSET Vms, S \cap T = {}
    PROVE  Price(S \cup T) = Price(S) + Price(T)
<1> DEFINE U(X) == UNION {{v} \X (1..Cost[v]) : v \in X}
<1>1. U(S \cup T) = U(S) \cup U(T)
  OBVIOUS
<1>2. U(S) \cap U(T) = {}
  OBVIOUS
<1>3. IsFiniteSet(U(S)) /\ IsFiniteSet(U(T))
  BY UnitsFinite, Zenon
<1>4. Cardinality(U(S)) \in Nat /\ Cardinality(U(T)) \in Nat
  <2>. HIDE DEF U
  <2>. QED BY <1>3, FS_CardinalityType, Zenon
<1>5. Cardinality(U(S) \cup U(T)) = Cardinality(U(S)) + Cardinality(U(T)) - Cardinality(U(S) \cap U(T))
  <2>. HIDE DEF U
  <2>. QED BY <1>3, FS_Union, Zenon
<1>6. Cardinality(U(S) \cap U(T)) = 0
  BY <1>2, FS_EmptySet, Zenon
<1>7. Price(S) = Cardinality(U(S)) /\ Price(T) = Cardinality(U(T))
  BY Zenon DEF Price
<1>8. Price(S \cup T) = Cardinality(U(S) \cup U(T))
  BY Zenon, <1>1 DEF Price
<1>. QED
  <2>. HIDE DEF U
  <2>. QED BY <1>4, <1>5, <1>6, <1>7, <1>8

\* What is left of a set of VMs costs what the rest does not.
LEMMA PriceLess ==
    ASSUME NEW S \in SUBSET Vms, NEW R \in SUBSET S
    PROVE  Price(R) <= Price(S) /\ Price(S \ R) = Price(S) - Price(R)
<1>1. R \in SUBSET Vms /\ S \ R \in SUBSET Vms /\ R \cap (S \ R) = {} /\ R \cup (S \ R) = S
  OBVIOUS
<1>2. Price(S) = Price(R) + Price(S \ R)
  <2>1. Price(R \cup (S \ R)) = Price(R) + Price(S \ R)
    BY Zenon, <1>1, PriceAdds
  <2>. QED BY Zenon, <1>1, <2>1
<1>3. Price(R) \in Nat /\ Price(S \ R) \in Nat
  BY Zenon, <1>1, PriceType
<1>. QED BY <1>2, <1>3

-----------------------------------------------------------------------------
(***************************************************************************)
(* The slices.                                                             *)
(***************************************************************************)
\* The members of joint holds are covered when the hold is a slice.
LEMMA LentByIs ==
    ASSUME NEW J, NEW v
    PROVE  v \in LentBy(J) <=> \E j \in J : j.src = "claim" /\ v \in j.members
BY DEF LentBy

\* A VM is covered by its own hold, by a joint one or by the boot under way.
LEMMA CoveredIs ==
    ASSUME NEW v
    PROVE  v \in Covered <=> \/ v \in Vms /\ hold[v] = "claim"
                             \/ \E j \in joint : j.src = "claim" /\ v \in j.members
                             \/ pending.src = "claim" /\ v \in pending.members
<1>1. v \in LentBy({pending}) <=> pending.src = "claim" /\ v \in pending.members
  BY LentByIs
<1>. QED BY <1>1, LentByIs DEF Covered, Lent

\* So is it after a step.
LEMMA CoveredWillBe ==
    ASSUME NEW v
    PROVE  v \in Covered' <=> \/ v \in Vms /\ hold'[v] = "claim"
                              \/ \E j \in joint' : j.src = "claim" /\ v \in j.members
                              \/ pending'.src = "claim" /\ v \in pending'.members
<1>1. v \in LentBy({pending})' <=> pending'.src = "claim" /\ v \in pending'.members
  BY DEF LentBy
<1>2. v \in LentBy(joint)' <=> \E j \in joint' : j.src = "claim" /\ v \in j.members
  BY DEF LentBy
<1>. QED BY <1>1, <1>2 DEF Covered, Lent

\* Slices cover VMs of the file.
LEMMA CoveredVms ==
    ASSUME Types
    PROVE  Covered \in SUBSET Vms
BY CoveredIs DEF Types, Holds

\* What UsedIsLent counts is what the slices cover.
LEMMA CoveredIsLent == LentBy(AllHolds) = Covered
<1> DEFINE Solo(u) == [src |-> hold[u], lab |-> "vm", members |-> {u}]
<1>1. ASSUME NEW v PROVE v \in LentBy(AllHolds) <=> v \in Covered
  <2>1. \A j : j \in AllHolds <=> j \in joint \/ j = pending \/ \E u \in Vms : j = Solo(u)
    BY DEF AllHolds
  <2>2. \A u : Solo(u).src = hold[u] /\ (v \in Solo(u).members <=> v = u)
    OBVIOUS
  <2>3. v \in LentBy(AllHolds) <=>
            \/ \E j \in joint : j.src = "claim" /\ v \in j.members
            \/ pending.src = "claim" /\ v \in pending.members
            \/ \E u \in Vms : Solo(u).src = "claim" /\ v \in Solo(u).members
    <3>. HIDE DEF Solo
    <3>. QED BY <2>1, LentByIs
  <2>4. v \in LentBy(AllHolds) <=>
            \/ \E j \in joint : j.src = "claim" /\ v \in j.members
            \/ pending.src = "claim" /\ v \in pending.members
            \/ v \in Vms /\ hold[v] = "claim"
    <3>. HIDE DEF Solo
    <3>. QED BY <2>2, <2>3
  <2>. QED BY <2>4, CoveredIs
<1>. QED BY <1>1

\* A slice that is dropped gives back what it covers, no more and no less.
LEMMA DropStep ==
    ASSUME Types, Books, NEW R \in SUBSET Covered, Dropped(R), Covered' = Covered \ R,
           UNCHANGED taken
    PROVE  BudgetType' /\ Books' /\ budget'.held = budget.held
<1>1. BudgetType /\ Covered \in SUBSET Vms
  BY CoveredVms DEF Types
<1>2. Price(R) \in Nat /\ Price(Covered) \in Nat
  BY <1>1, PriceType
<1>3. Price(R) <= Price(Covered) /\ Price(Covered \ R) = Price(Covered) - Price(R)
  BY Zenon, <1>1, PriceLess
<1>4. Price(Covered)' = Price(Covered \ R)
  BY Zenon DEF Price
<1>5. CASE budget.held
  <2>1. budget.used = Price(Covered) /\ budget.used <= budget.total /\ taken
    BY Zenon, <1>5 DEF Books
  <2>2. budget' = [budget EXCEPT !.used = IF budget.used > Price(R)
                                          THEN budget.used - Price(R) ELSE 0]
    BY Zenon, <1>5 DEF Dropped
  <2>3. /\ budget'.held = budget.held /\ budget'.total = budget.total
        /\ DOMAIN budget' = {"held", "total", "used"}
    BY <1>1, <2>2 DEF BudgetType
  <2>4. budget'.used = budget.used - Price(R) /\ budget'.used \in Nat
    BY <1>1, <1>2, <1>3, <2>1, <2>2 DEF BudgetType
  <2>5. budget'.used = Price(Covered)' /\ budget'.used <= budget'.total
    BY <1>1, <1>2, <1>3, <1>4, <2>1, <2>3, <2>4 DEF BudgetType
  <2>. QED BY <1>1, <2>1, <2>3, <2>4, <2>5 DEF Books, BudgetType
<1>6. CASE ~budget.held
  <2>1. budget' = budget
    BY Zenon, <1>6 DEF Dropped
  <2>2. BudgetType' /\ ~budget'.held
    BY <1>1, <1>6, <2>1 DEF BudgetType
  <2>3. ~taken => Covered' = {}
    BY DEF Books
  <2>. QED BY Zenon, <2>1, <2>2, <2>3 DEF Books
<1>. QED BY Zenon, <1>5, <1>6

\* A slice that is lent is booked with what it covers, and within the claim.
LEMMA LendStep ==
    ASSUME Types, Books, NEW S \in SUBSET Vms, S \cap Covered = {}, NEW src,
           ReserveFor(Price(S), src),
           Covered' = Covered \cup (IF src = "claim" THEN S ELSE {}), UNCHANGED taken
    PROVE  BudgetType' /\ Books' /\ budget'.held = budget.held
<1>1. BudgetType /\ Covered \in SUBSET Vms
  BY CoveredVms DEF Types
<1>2. Price(S) \in Nat /\ Price(Covered) \in Nat
  BY <1>1, PriceType
<1>3. CASE src = "claim" /\ Slice(Price(S))
  <2>1. budget.held /\ budget.used + Price(S) <= budget.total
    BY Zenon, <1>3 DEF Slice
  <2>2. budget' = [budget EXCEPT !.used = budget.used + Price(S)]
    BY Zenon, <1>3 DEF Slice
  <2>3. /\ budget'.held = budget.held /\ budget'.total = budget.total
        /\ budget'.used = budget.used + Price(S)
        /\ DOMAIN budget' = {"held", "total", "used"}
    BY <1>1, <2>2 DEF BudgetType
  <2>4. taken /\ budget.used = Price(Covered)
    BY Zenon, <2>1 DEF Books
  <2>5. Covered' = Covered \cup S /\ Covered \cap S = {}
    BY <1>3
  <2>6. Price(Covered \cup S) = Price(Covered) + Price(S)
    BY Zenon, <1>1, <2>5, PriceAdds
  <2>7. Price(Covered)' = Price(Covered \cup S)
    BY Zenon, <2>5 DEF Price
  <2>8. budget'.used = Price(Covered)' /\ budget'.used <= budget'.total /\ budget'.used \in Nat
    BY <1>1, <1>2, <2>1, <2>3, <2>4, <2>6, <2>7 DEF BudgetType
  <2>. QED BY <1>1, <2>3, <2>4, <2>8 DEF Books, BudgetType
<1>4. CASE src = "pool" /\ UNCHANGED budget
  <2>1. Covered' = Covered
    BY <1>4
  <2>2. Price(Covered)' = Price(Covered)
    BY Zenon, <2>1 DEF Price
  <2>3. BudgetType'
    BY <1>1, <1>4 DEF BudgetType
  <2>. QED BY Zenon, <1>4, <2>1, <2>2, <2>3 DEF Books
<1>. QED BY Zenon, <1>3, <1>4 DEF ReserveFor

\* What leaves the account and the slices alone keeps the books.
LEMMA BooksKept ==
    ASSUME Types, Books, UNCHANGED <<taken, budget>>, Covered' = Covered
    PROVE  BudgetType' /\ Books'
<1>1. Price(Covered)' = Price(Covered)
  BY Zenon DEF Price
<1>2. BudgetType'
  BY DEF Types, BudgetType
<1>. QED BY Zenon, <1>1, <1>2 DEF Books

-----------------------------------------------------------------------------
(***************************************************************************)
(* Every step keeps the invariant.                                         *)
(***************************************************************************)
\* A shutdown gives back the slices of its VMs and of its joint holds, once each.
LEMMA TakeDownStep ==
    ASSUME Types, PaidOnce, Books, NEW S \in SUBSET Vms, NEW J \in SUBSET joint,
           TakeDown(S, J), UNCHANGED <<pending, pc, taken>>
    PROVE  /\ Types' /\ PaidOnce' /\ Books'
           /\ budget'.held = budget.held
           /\ \A v \in Vms : vm[v] # "Created" => vm'[v] # "Created"
<1> DEFINE R == Lent(S) \cup LentBy(J)
<1>1. /\ vm' = [v \in Vms |-> IF v \in S THEN "Off" ELSE vm[v]]
      /\ hold' = [v \in Vms |-> IF v \in S THEN "none" ELSE hold[v]]
      /\ joint' = joint \ J
      /\ Dropped(R)
  BY Zenon DEF TakeDown
<1>2. ASSUME NEW v PROVE v \in R <=> \/ v \in S /\ hold[v] = "claim"
                                     \/ \E j \in J : j.src = "claim" /\ v \in j.members
  BY LentByIs DEF Lent
<1>3. R \in SUBSET Covered
  <2>. HIDE DEF R
  <2>. QED BY <1>2, CoveredIs
<1>4. Covered' = Covered \ R
  <2>1. ASSUME NEW v, v \in Covered' PROVE v \in Covered /\ v \notin R
    <3>1. CASE v \in Vms /\ hold'[v] = "claim"
      <4>1. v \notin S /\ hold[v] = "claim"
        BY <1>1, <3>1
      <4>2. \A j \in joint : v \notin j.members
        BY <4>1 DEF PaidOnce
      <4>. HIDE DEF R
      <4>. QED BY <1>2, <3>1, <4>1, <4>2, CoveredIs
    <3>2. ASSUME NEW j \in joint', j.src = "claim", v \in j.members PROVE v \in Covered /\ v \notin R
      <4>1. j \in joint /\ j \notin J
        BY <1>1, <3>2
      <4>2. hold[v] = "none" /\ \A k \in joint : v \in k.members => j = k
        BY <3>2, <4>1 DEF PaidOnce
      <4>. HIDE DEF R
      <4>. QED BY <1>2, <3>2, <4>1, <4>2, CoveredIs
    <3>3. CASE pending.src = "claim" /\ v \in pending.members
      <4>1. hold[v] = "none" /\ \A j \in joint : v \notin j.members
        BY <3>3 DEF PaidOnce
      <4>. HIDE DEF R
      <4>. QED BY <1>2, <3>3, <4>1, CoveredIs
    <3>. HIDE DEF R
    <3>. QED BY <2>1, <3>1, <3>2, <3>3, CoveredWillBe
  <2>2. ASSUME NEW v, v \in Covered, v \notin R PROVE v \in Covered'
    <3>1. CASE v \in Vms /\ hold[v] = "claim"
      <4>1. v \notin S
        BY <1>2, <2>2, <3>1
      <4>2. hold'[v] = "claim"
        BY <1>1, <3>1, <4>1
      <4>. QED BY <3>1, <4>2, CoveredWillBe
    <3>2. ASSUME NEW j \in joint, j.src = "claim", v \in j.members PROVE v \in Covered'
      <4>1. j \notin J
        BY <1>2, <2>2, <3>2
      <4>2. j \in joint'
        BY <1>1, <4>1
      <4>. QED BY <3>2, <4>2, CoveredWillBe
    <3>3. CASE pending.src = "claim" /\ v \in pending.members
      BY <3>3, CoveredWillBe
    <3>. QED BY <2>2, <3>1, <3>2, <3>3, CoveredIs
  <2>. HIDE DEF R
  <2>. QED BY <2>1, <2>2
<1>5. BudgetType' /\ Books' /\ budget'.held = budget.held
  <2>. HIDE DEF R
  <2>. QED BY Zenon, <1>1, <1>3, <1>4, DropStep
<1>6. \A v \in Vms : vm[v] # "Created" => vm'[v] # "Created"
  BY <1>1
<1>7. Types'
  BY <1>1, <1>5 DEF Types
<1>8. PaidOnce'
  <2>1. \A v \in Vms : hold'[v] # "none" => vm'[v] # "Created"
    BY <1>1 DEF PaidOnce, Types
  <2>2. \A v \in Vms : hold[v] = "none" => hold'[v] = "none"
    BY <1>1
  <2>3. pending.members \in SUBSET Vms /\ \A j \in joint : j.members \in SUBSET Vms
    BY DEF Types, Holds
  <2>. QED BY <1>1, <1>6, <2>1, <2>2, <2>3 DEF PaidOnce
<1>. QED BY Zenon, <1>5, <1>6, <1>7, <1>8

\* A claim is booked with nothing: nothing was lent before.
LEMMA ClaimStep ==
    ASSUME BooksInv, NEW a \in Claims, Claim(a)
    PROVE  BooksInv'
<1>1. /\ pc = "run" /\ ~taken /\ taken' /\ budget' = [held |-> TRUE, total |-> a, used |-> 0]
      /\ UNCHANGED <<vm, hold, joint, pc, target, pending, todo, failed, dog>>
  BY Zenon DEF Claim, batch
<1>2. a \in Nat
  BY FileAssumption
<1>3. Covered' = {}
  <2>1. Covered' = Covered
    BY Zenon, <1>1 DEF Covered, Lent, LentBy
  <2>. QED BY Zenon, <1>1, <2>1 DEF BooksInv, Books
<1>4. Price(Covered)' = 0
  BY Zenon, <1>3, PriceOfNone DEF Price
<1>5. Types'
  BY <1>1, <1>2 DEF BooksInv, Types, BudgetType
<1>6. PaidOnce'
  BY Zenon, <1>1 DEF BooksInv, PaidOnce
<1>7. Control'
  BY <1>1 DEF BooksInv, Control
<1>8. Books'
  BY <1>1, <1>2, <1>4 DEF Books
<1>. QED BY Zenon, <1>5, <1>6, <1>7, <1>8 DEF BooksInv

\* A boot reserves for VMs that nothing pays for yet.
LEMMA OpenStep ==
    ASSUME BooksInv, NEW S \in SUBSET Vms, \A v \in S : vm[v] = "Created",
           NEW src \in {"none", "pool", "claim"}, NEW l \in Labs \cup {"vm"},
           pending = NoHold, pending' = [src |-> src, lab |-> l, members |-> S],
           ReserveFor(Price(S), src) \/ (src = "none" /\ UNCHANGED budget),
           UNCHANGED <<vm, hold, joint, taken>>, pc' \in {"solo", "batch"}
    PROVE  Types' /\ PaidOnce' /\ Books' /\ budget'.held = budget.held
<1>1. Types /\ PaidOnce /\ Books
  BY Zenon DEF BooksInv
<1>2. pending'.src = src /\ pending'.members = S /\ pending.src = "none" /\ pending.members = {}
  BY DEF NoHold
<1>3. ASSUME NEW v \in S PROVE hold[v] = "none" /\ \A j \in joint : v \notin j.members
  BY <1>1 DEF PaidOnce
<1>4. S \cap Covered = {}
  BY <1>2, <1>3, CoveredIs
<1>5. Covered' = Covered \cup (IF src = "claim" THEN S ELSE {})
  <2>1. \A v : v \in Covered <=> \/ v \in Vms /\ hold[v] = "claim"
                                 \/ \E j \in joint : j.src = "claim" /\ v \in j.members
    BY <1>2, CoveredIs
  <2>2. \A v : v \in Covered' <=> \/ v \in Vms /\ hold[v] = "claim"
                                  \/ \E j \in joint : j.src = "claim" /\ v \in j.members
                                  \/ src = "claim" /\ v \in S
    BY Zenon, <1>2, CoveredWillBe
  <2>. QED BY <2>1, <2>2
<1>6. BudgetType' /\ Books' /\ budget'.held = budget.held
  <2>1. CASE ReserveFor(Price(S), src)
    BY Zenon, <1>1, <1>4, <1>5, <2>1, LendStep
  <2>2. CASE src = "none" /\ UNCHANGED budget
    <3>1. Covered' = Covered
      BY <1>5, <2>2
    <3>. QED BY Zenon, <1>1, <2>2, <3>1, BooksKept
  <2>. QED BY Zenon, <2>1, <2>2
<1>7. Types'
  BY <1>1, <1>6 DEF Types, Holds
<1>8. PaidOnce'
  BY <1>1, <1>2, <1>3 DEF PaidOnce
<1>. QED BY Zenon, <1>6, <1>7, <1>8

\* A boot that fails drops its hold and gives back what it was lent.
LEMMA GiveUpStep ==
    ASSUME BooksInv, Dropped(LentBy({pending})), pending' = NoHold, pc' = "run",
           UNCHANGED <<vm, hold, joint, taken>>
    PROVE  Types' /\ PaidOnce' /\ Books'
<1>1. Types /\ PaidOnce /\ Books
  BY Zenon DEF BooksInv
<1>2. pending'.src = "none" /\ pending'.members = {} /\ NoHold \in Holds
  BY DEF NoHold, Holds
<1>3. \A v : v \in LentBy({pending}) <=> pending.src = "claim" /\ v \in pending.members
  BY LentByIs
<1>4. LentBy({pending}) \in SUBSET Covered
  BY <1>3, CoveredIs
<1>5. Covered' = Covered \ LentBy({pending})
  <2>1. \A v : v \in Covered' <=> \/ v \in Vms /\ hold[v] = "claim"
                                  \/ \E j \in joint : j.src = "claim" /\ v \in j.members
    BY <1>2, CoveredWillBe
  <2>2. ASSUME NEW v \in pending.members PROVE hold[v] = "none" /\ \A j \in joint : v \notin j.members
    BY <1>1 DEF PaidOnce
  <2>. QED BY <1>3, <2>1, <2>2, CoveredIs
<1>6. BudgetType' /\ Books'
  BY Zenon, <1>1, <1>4, <1>5, DropStep
<1>7. Types'
  BY <1>1, <1>2, <1>6 DEF Types
<1>8. PaidOnce'
  BY <1>1, <1>2 DEF PaidOnce
<1>. QED BY Zenon, <1>6, <1>7, <1>8

\* The reservation of a solo boot.
LEMMA SoloReserveStep ==
    ASSUME BooksInv, NEW v \in Vms, SoloReserve(v)
    PROVE  BooksInv'
<1>1. /\ pc = "run" /\ vm[v] = "Created" /\ pc' = "solo" /\ target' = v
      /\ UNCHANGED <<vm, hold, joint, taken, dog>>
  BY Zenon DEF SoloReserve
<1>2. PICK src \in {"none", "pool", "claim"} :
        /\ IF Home[v] = "root" THEN ReserveFor(Cost[v], src) ELSE src = "none" /\ UNCHANGED budget
        /\ pending' = [src |-> src, lab |-> "vm", members |-> {v}]
  BY Zenon DEF SoloReserve
<1>3. ReserveFor(Price({v}), src) \/ (src = "none" /\ UNCHANGED budget)
  BY Zenon, <1>2, PriceOfOne
<1>4. pending = NoHold
  BY <1>1 DEF BooksInv, Control
<1>5. Types' /\ PaidOnce' /\ Books'
  <2>1. {v} \in SUBSET Vms /\ (\A u \in {v} : vm[u] = "Created") /\ "vm" \in Labs \cup {"vm"}
    BY <1>1
  <2>2. pc' \in {"solo", "batch"}
    BY <1>1
  <2>. QED BY Zenon, <1>1, <1>2, <1>3, <1>4, <2>1, <2>2, OpenStep
<1>6. Control'
  BY <1>1, <1>2 DEF Control
<1>. QED BY Zenon, <1>5, <1>6 DEF BooksInv

\* The launch of a solo boot returns: its hold becomes the VM's, or is dropped.
LEMMA SoloInstallStep ==
    ASSUME BooksInv, SoloInstall
    PROVE  BooksInv'
<1>1. pc = "solo" /\ pc' = "run" /\ pending' = NoHold /\ UNCHANGED <<taken, joint, dog>>
  BY Zenon DEF SoloInstall
<1>2. Control'
  BY <1>1 DEF Control
<1>3. Types /\ PaidOnce /\ Books /\ target \in Vms /\ pending.members = {target}
  BY <1>1 DEF BooksInv, Control
<1>4. CASE /\ vm[target] = "Created" /\ vm' = [vm EXCEPT ![target] = "Booted"]
           /\ hold' = [hold EXCEPT ![target] = pending.src] /\ UNCHANGED budget
  <2>1. pending'.src = "none" /\ pending'.members = {} /\ NoHold \in Holds
    BY <1>1 DEF NoHold, Holds
  <2>2. hold[target] = "none" /\ \A j \in joint : target \notin j.members
    BY <1>3 DEF PaidOnce
  <2>3. \A v \in Vms : hold'[v] = IF v = target THEN pending.src ELSE hold[v]
    BY <1>3, <1>4 DEF Types
  <2>4. \A v \in Vms : vm[v] # "Created" => vm'[v] # "Created"
    BY <1>3, <1>4 DEF Types
  <2>5. vm'[target] = "Booted"
    BY <1>3, <1>4 DEF Types
  <2>6. Covered' = Covered
    <3>1. ASSUME NEW v PROVE v \in Covered' <=> v \in Covered
      BY <1>1, <1>3, <2>1, <2>2, <2>3, CoveredIs, CoveredWillBe
    <3>. QED BY <3>1
  <2>7. BudgetType' /\ Books'
    BY Zenon, <1>1, <1>3, <1>4, <2>6, BooksKept
  <2>8. Types'
    BY <1>1, <1>3, <1>4, <2>1, <2>7 DEF Types, Holds
  <2>9. PaidOnce'
    <3>1. \A j \in joint : j.members \in SUBSET Vms
      BY <1>3 DEF Types, Holds
    <3>2. \A v \in Vms : hold'[v] # "none" => vm'[v] # "Created"
      BY <1>3, <1>4, <2>3, <2>4, <2>5 DEF PaidOnce
    <3>3. \A j \in joint : \A v \in j.members : hold'[v] = "none" /\ vm'[v] # "Created"
      BY <1>3, <2>2, <2>3, <2>4, <3>1 DEF PaidOnce
    <3>. QED BY <1>1, <1>3, <2>1, <3>2, <3>3 DEF PaidOnce
  <2>. QED BY Zenon, <1>2, <2>7, <2>8, <2>9 DEF BooksInv
<1>5. CASE Dropped(LentBy({pending})) /\ UNCHANGED <<vm, hold>>
  <2>1. Types' /\ PaidOnce' /\ Books'
    BY Zenon, <1>1, <1>5, GiveUpStep
  <2>. QED BY Zenon, <1>2, <2>1 DEF BooksInv
<1>. QED BY Zenon, <1>4, <1>5 DEF SoloInstall

\* The joint reservation of lab:boot().
LEMMA LabBootStep ==
    ASSUME BooksInv, NEW l \in Labs, LabBoot(l)
    PROVE  BooksInv'
<1> DEFINE fresh == {v \in Subtree(l) : vm[v] = "Created"}
<1>1. /\ pc = "run" /\ pc' = "batch" /\ todo' = Subtree(l) /\ failed' = FALSE
      /\ UNCHANGED <<vm, hold, joint, taken, dog>>
  BY Zenon DEF LabBoot
<1>2. pending = NoHold
  BY <1>1 DEF BooksInv, Control
<1>3. /\ fresh \in SUBSET Vms /\ fresh \in SUBSET Subtree(l)
      /\ \A v \in fresh : vm[v] = "Created"
  BY DEF Subtree
<1>4. pc' \in {"solo", "batch"}
  BY <1>1
<1>5. /\ Types' /\ PaidOnce' /\ Books'
      /\ pending'.members \in SUBSET Subtree(l)
  <2>1. CASE fresh = {} /\ pending' = NoHold /\ UNCHANGED budget
    <3>1. /\ {} \in SUBSET Vms /\ (\A v \in {} : vm[v] = "Created")
          /\ "none" \in {"none", "pool", "claim"} /\ "vm" \in Labs \cup {"vm"}
          /\ pending' = [src |-> "none", lab |-> "vm", members |-> {}]
      BY <2>1 DEF NoHold
    <3>2. Types' /\ PaidOnce' /\ Books'
      BY Zenon, <1>1, <1>2, <1>4, <2>1, <3>1, OpenStep
    <3>. QED BY <3>1, <3>2
  <2>2. ASSUME NEW src \in {"pool", "claim"}, ReserveFor(Price(fresh), src),
               pending' = [src |-> src, lab |-> l, members |-> fresh]
        PROVE  Types' /\ PaidOnce' /\ Books' /\ pending'.members \in SUBSET Subtree(l)
    <3>1. src \in {"none", "pool", "claim"} /\ l \in Labs \cup {"vm"}
      OBVIOUS
    <3>2. pending'.members \in SUBSET Subtree(l)
      BY <1>3, <2>2
    <3>3. Types' /\ PaidOnce' /\ Books'
      <4>. HIDE DEF fresh
      <4>. QED BY Zenon, <1>1, <1>2, <1>3, <1>4, <2>2, <3>1, OpenStep
    <3>. QED BY Zenon, <3>2, <3>3
  <2>. QED BY Zenon, <2>1, <2>2 DEF LabBoot
<1>6. Control'
  BY <1>1, <1>5 DEF Control
<1>. QED BY Zenon, <1>5, <1>6 DEF BooksInv

\* The thread of one member of the batch.
LEMMA MemberBootStep ==
    ASSUME BooksInv, NEW v \in Vms, MemberBoot(v)
    PROVE  BooksInv'
<1>1. /\ pc = "batch" /\ v \in todo /\ todo' = todo \ {v}
      /\ UNCHANGED <<taken, budget, hold, joint, pc, pending, dog>>
  BY Zenon DEF MemberBoot, account
<1>2. Types /\ PaidOnce /\ Books /\ Control
  BY Zenon DEF BooksInv
<1>3. Covered' = Covered
  BY Zenon, <1>1 DEF Covered, Lent, LentBy
<1>4. BudgetType' /\ Books'
  BY Zenon, <1>1, <1>2, <1>3, BooksKept
<1>5. pending.members \in SUBSET Vms /\ \A j \in joint : j.members \in SUBSET Vms
  BY <1>2 DEF Types, Holds
<1>6. CASE vm[v] = "Created" /\ vm' = [vm EXCEPT ![v] = "Booted"] /\ UNCHANGED failed
  <2>1. \A u \in Vms : vm'[u] = IF u = v THEN "Booted" ELSE vm[u]
    BY <1>2, <1>6 DEF Types
  <2>2. Types'
    BY <1>1, <1>2, <1>4, <1>6 DEF Types
  <2>3. PaidOnce'
    BY <1>1, <1>2, <1>5, <2>1 DEF PaidOnce
  <2>4. Control'
    BY <1>1, <1>2, <1>5, <1>6, <2>1 DEF Control
  <2>. QED BY Zenon, <1>4, <2>2, <2>3, <2>4 DEF BooksInv
<1>7. CASE failed' = TRUE /\ UNCHANGED vm
  <2>1. Types'
    BY <1>1, <1>2, <1>4, <1>7 DEF Types
  <2>2. PaidOnce'
    BY Zenon, <1>1, <1>2, <1>7 DEF PaidOnce
  <2>3. Control'
    BY <1>1, <1>2, <1>7 DEF Control
  <2>. QED BY Zenon, <1>4, <2>1, <2>2, <2>3 DEF BooksInv
<1>. QED BY Zenon, <1>6, <1>7 DEF MemberBoot

\* The batch is joined: its hold is the lab's if all members run, or is dropped.
LEMMA LabBootedStep ==
    ASSUME BooksInv, LabBooted
    PROVE  BooksInv'
<1>1. /\ pc = "batch" /\ todo = {} /\ pc' = "run" /\ pending' = NoHold
      /\ UNCHANGED <<vm, taken, hold, dog>>
  BY Zenon DEF LabBooted
<1>2. Control'
  BY <1>1 DEF Control
<1>3. Types /\ PaidOnce /\ Books /\ Control
  BY Zenon DEF BooksInv
<1>4. CASE failed
  <2>1. Dropped(LentBy({pending})) /\ UNCHANGED joint
    BY Zenon, <1>4 DEF LabBooted
  <2>2. Types' /\ PaidOnce' /\ Books'
    BY Zenon, <1>1, <2>1, GiveUpStep
  <2>. QED BY Zenon, <1>2, <2>2 DEF BooksInv
<1>5. CASE ~failed
  <2>1. UNCHANGED budget /\ joint' = IF pending = NoHold THEN joint ELSE joint \cup {pending}
    BY Zenon, <1>5 DEF LabBooted
  <2>2. NoHold.src = "none" /\ NoHold.members = {} /\ NoHold \in Holds
    BY DEF NoHold, Holds
  <2>3. \A v \in pending.members : vm[v] # "Created"
    BY <1>1, <1>3, <1>5 DEF Control
  <2>4. Covered' = Covered
    <3>1. ASSUME NEW v PROVE v \in Covered' <=> v \in Covered
      BY <1>1, <2>1, <2>2, CoveredIs, CoveredWillBe
    <3>. QED BY <3>1
  <2>5. BudgetType' /\ Books'
    BY Zenon, <1>1, <1>3, <2>1, <2>4, BooksKept
  <2>6. Types'
    BY <1>1, <1>3, <2>1, <2>2, <2>5 DEF Types
  <2>7. PaidOnce'
    BY <1>1, <1>3, <2>1, <2>2, <2>3 DEF PaidOnce
  <2>. QED BY Zenon, <1>2, <2>5, <2>6, <2>7 DEF BooksInv
<1>. QED BY Zenon, <1>4, <1>5

\* A restore starts a VM that nothing pays for.
LEMMA RestoreStep ==
    ASSUME BooksInv, NEW v \in Vms, Restore(v)
    PROVE  BooksInv'
<1>1. /\ pc = "run" /\ vm[v] = "Created" /\ vm' = [vm EXCEPT ![v] = "Booted"]
      /\ UNCHANGED <<taken, budget, hold, joint, pc, target, pending, todo, failed, dog>>
  BY Zenon DEF Restore, account, batch
<1>2. Types /\ PaidOnce /\ Books /\ Control
  BY Zenon DEF BooksInv
<1>3. Covered' = Covered
  BY Zenon, <1>1 DEF Covered, Lent, LentBy
<1>4. BudgetType' /\ Books'
  BY Zenon, <1>1, <1>2, <1>3, BooksKept
<1>5. \A j \in joint : j.members \in SUBSET Vms
  BY <1>2 DEF Types, Holds
<1>6. \A u \in Vms : vm'[u] = IF u = v THEN "Booted" ELSE vm[u]
  BY <1>1, <1>2 DEF Types
<1>7. Types'
  BY <1>1, <1>2, <1>4 DEF Types
<1>8. PaidOnce'
  BY <1>1, <1>2, <1>5, <1>6 DEF PaidOnce
<1>9. Control'
  BY <1>1, <1>2 DEF Control
<1>. QED BY Zenon, <1>4, <1>7, <1>8, <1>9 DEF BooksInv

\* A shutdown of a VM or a lab, by the file or by its watchdog.
LEMMA ShutdownStep ==
    ASSUME BooksInv, NEW S \in SUBSET Vms, NEW J \in SUBSET joint, TakeDown(S, J),
           pc \notin {"shutdown", "done"}, UNCHANGED <<taken, pc, target, pending, todo, failed>>
    PROVE  BooksInv'
<1>1. Types /\ PaidOnce /\ Books /\ Control
  BY Zenon DEF BooksInv
<1>2. /\ Types' /\ PaidOnce' /\ Books'
      /\ \A v \in Vms : vm[v] # "Created" => vm'[v] # "Created"
  BY Zenon, <1>1, TakeDownStep
<1>3. pending.members \in SUBSET Vms
  BY <1>1 DEF Types, Holds
<1>4. Control'
  BY <1>1, <1>2, <1>3 DEF Control
<1>. QED BY Zenon, <1>2, <1>4 DEF BooksInv

\* The invariant holds when the file starts.
LEMMA BooksInvInit == FileInit => BooksInv
<1> SUFFICES ASSUME FileInit PROVE BooksInv
  OBVIOUS
<1>1. NoHold.src = "none" /\ NoHold.members = {} /\ NoHold \in Holds
  BY DEF NoHold, Holds
<1>2. Types
  BY <1>1 DEF FileInit, Types, BudgetType
<1>3. PaidOnce
  BY <1>1 DEF FileInit, PaidOnce
<1>4. Control
  BY DEF FileInit, Control
<1>5. Covered = {}
  <2>1. \A v : v \notin Covered
    BY <1>1, CoveredIs DEF FileInit
  <2>. QED BY <2>1
<1>6. Books
  BY Zenon, <1>5 DEF FileInit, Books
<1>. QED BY Zenon, <1>2, <1>3, <1>4, <1>6 DEF BooksInv

\* The end of the file: the claim goes first, then every VM and every hold.
LEMMA WindDownStep ==
    ASSUME BooksInv, ReleaseClaim \/ FinalShutdown
    PROVE  BooksInv'
<1>1. Types /\ PaidOnce /\ Books /\ Control
  BY Zenon DEF BooksInv
<1>2. CASE ReleaseClaim
  <2>1. /\ pc = "join" /\ dog' = "returned" /\ pc' = "shutdown"
        /\ budget' = [budget EXCEPT !.held = FALSE]
        /\ UNCHANGED <<vm, taken, hold, joint, pending>>
    BY Zenon, <1>2 DEF ReleaseClaim, batch
  <2>2. BudgetType' /\ ~budget'.held
    BY <1>1, <2>1 DEF Types, BudgetType
  <2>3. Types'
    BY <1>1, <2>1, <2>2 DEF Types
  <2>4. PaidOnce'
    BY Zenon, <1>1, <2>1 DEF PaidOnce
  <2>5. Control'
    BY <1>1, <2>1, <2>2 DEF Control
  <2>6. Covered' = Covered
    BY Zenon, <2>1 DEF Covered, Lent, LentBy
  <2>7. Books'
    BY Zenon, <1>1, <2>1, <2>2, <2>6 DEF Books
  <2>. QED BY Zenon, <2>3, <2>4, <2>5, <2>7 DEF BooksInv
<1>3. CASE FinalShutdown
  <2>1. /\ pc = "shutdown" /\ pc' = "done" /\ TakeDown(Vms, joint)
        /\ UNCHANGED <<taken, target, pending, todo, failed, dog>>
    BY Zenon, <1>3 DEF FinalShutdown, batch
  <2>2. /\ pending = NoHold /\ dog = "returned" /\ ~budget.held
    BY <1>1, <2>1 DEF Control
  <2>3. /\ vm' = [v \in Vms |-> IF v \in Vms THEN "Off" ELSE vm[v]]
        /\ hold' = [v \in Vms |-> IF v \in Vms THEN "none" ELSE hold[v]]
        /\ joint' = joint \ joint /\ budget' = budget
    BY Zenon, <2>1, <2>2 DEF TakeDown, Dropped
  <2>4. joint' = {} /\ (\A v \in Vms : vm'[v] = "Off" /\ hold'[v] = "none")
    BY <2>3
  <2>5. pending'.members = {} /\ pending'.src = "none" /\ pending' = NoHold
    BY <2>1, <2>2 DEF NoHold
  <2>6. Types'
    BY <1>1, <2>1, <2>3, <2>4 DEF Types, BudgetType
  <2>7. PaidOnce'
    BY <2>4, <2>5 DEF PaidOnce
  <2>8. Control'
    BY <2>1, <2>2, <2>3, <2>4, <2>5 DEF Control
  <2>9. Covered' = {}
    <3>1. \A v : v \notin Covered'
      BY <2>4, <2>5, CoveredWillBe
    <3>. QED BY <3>1
  <2>10. Books'
    BY Zenon, <2>2, <2>3, <2>9 DEF Books
  <2>. QED BY Zenon, <2>6, <2>7, <2>8, <2>10 DEF BooksInv
<1>. QED BY Zenon, <1>2, <1>3

\* The steps that touch neither VMs nor holds nor the account.
LEMMA QuietStep ==
    ASSUME BooksInv, UNCHANGED <<vm, taken, budget, hold, joint, target, pending, todo, failed>>,
           \/ UNCHANGED <<pc, dog>>
           \/ pc \in {"run", "solo", "batch", "join"} /\ UNCHANGED pc
           \/ pc = "run" /\ pc' = "join" /\ UNCHANGED dog
    PROVE  BooksInv'
<1>1. Types /\ PaidOnce /\ Books /\ Control
  BY Zenon DEF BooksInv
<1>2. Covered' = Covered
  BY Zenon DEF Covered, Lent, LentBy
<1>3. BudgetType' /\ Books'
  BY Zenon, <1>1, <1>2, BooksKept
<1>4. Types'
  BY <1>1, <1>3 DEF Types
<1>5. PaidOnce'
  BY Zenon, <1>1 DEF PaidOnce
<1>6. Control'
  BY <1>1 DEF Control
<1>. QED BY Zenon, <1>3, <1>4, <1>5, <1>6 DEF BooksInv

\* Every step keeps the invariant.
LEMMA BooksInvStep == BooksInv /\ [FileNext]_fileVars => BooksInv'
<1> SUFFICES ASSUME BooksInv, [FileNext]_fileVars PROVE BooksInv'
  OBVIOUS
<1>1. ASSUME NEW a \in Claims, Claim(a) PROVE BooksInv'
  BY Zenon, <1>1, ClaimStep
<1>2. ASSUME NEW v \in Vms, SoloReserve(v) \/ MemberBoot(v) \/ Restore(v) PROVE BooksInv'
  BY Zenon, <1>2, SoloReserveStep, MemberBootStep, RestoreStep
<1>3. ASSUME NEW v \in Vms, VmShutdown(v) \/ DogShuts(v) PROVE BooksInv'
  <2>1. /\ TakeDown({v}, {}) /\ UNCHANGED <<taken, pc, target, pending, todo, failed>>
        /\ pc = "run" \/ dog = "batch"
    BY Zenon, <1>3 DEF VmShutdown, DogShuts, batch
  <2>2. pc \notin {"shutdown", "done"}
    BY <2>1 DEF BooksInv, Control
  <2>3. {v} \in SUBSET Vms /\ {} \in SUBSET joint
    OBVIOUS
  <2>. QED BY Zenon, <2>1, <2>2, <2>3, ShutdownStep
<1>4. ASSUME NEW l \in Labs, LabBoot(l) PROVE BooksInv'
  BY Zenon, <1>4, LabBootStep
<1>5. ASSUME NEW l \in Labs, LabShutdown(l) PROVE BooksInv'
  <2>1. /\ TakeDown(Subtree(l), Own(l)) /\ UNCHANGED <<taken, pc, target, pending, todo, failed>>
        /\ pc = "run"
    BY Zenon, <1>5 DEF LabShutdown, batch
  <2>2. Subtree(l) \in SUBSET Vms /\ Own(l) \in SUBSET joint /\ pc \notin {"shutdown", "done"}
    BY <2>1 DEF Subtree, Own
  <2>. QED BY Zenon, <2>1, <2>2, ShutdownStep
<1>6. CASE SoloInstall \/ LabBooted
  BY Zenon, <1>6, SoloInstallStep, LabBootedStep
<1>7. CASE WatchdogFires \/ Complete \/ Ended \/ UNCHANGED fileVars
  <2>1. /\ UNCHANGED <<vm, taken, budget, hold, joint, target, pending, todo, failed>>
        /\ \/ UNCHANGED <<pc, dog>>
           \/ pc \in {"run", "solo", "batch", "join"} /\ UNCHANGED pc
           \/ pc = "run" /\ pc' = "join" /\ UNCHANGED dog
    BY <1>7 DEF WatchdogFires, Complete, Ended, fileVars, account, batch
  <2>. QED BY Zenon, <2>1, QuietStep
<1>8. CASE DogReturns
  <2>1. /\ TakeDown({}, Own("root")) /\ UNCHANGED <<taken, pc, target, pending, todo, failed>>
        /\ dog = "batch"
    BY Zenon, <1>8 DEF DogReturns, batch
  <2>2. {} \in SUBSET Vms /\ Own("root") \in SUBSET joint /\ pc \notin {"shutdown", "done"}
    BY <2>1 DEF Own, BooksInv, Control
  <2>. QED BY Zenon, <2>1, <2>2, ShutdownStep
<1>9. CASE ReleaseClaim \/ FinalShutdown
  BY Zenon, <1>9, WindDownStep
<1>. QED BY Zenon, <1>1, <1>2, <1>3, <1>4, <1>5, <1>6, <1>7, <1>8, <1>9 DEF FileNext

\* The inductive invariant holds.
LEMMA BooksInvHolds == FileSpec => []BooksInv
BY BooksInvInit, BooksInvStep, PTL DEF FileSpec

-----------------------------------------------------------------------------
\* Account and ClaimSlice: `used` is always what the live slices add up to and
\* never more than the claim, for any VMs, costs, lab tree and order of failures,
\* shutdowns and watchdog.
THEOREM UsedHolds == FileSpec => []UsedIsLent
<1>1. BooksInv => UsedIsLent
  BY Zenon, CoveredIsLent DEF BooksInv, Books, UsedIsLent
<1>. QED BY <1>1, BooksInvHolds, PTL

\* run_one_file: when it returns, no VM of the file runs and nothing is reserved.
THEOREM AllReturned == FileSpec => []AllIsReturned
<1>1. BooksInv => AllIsReturned
  <2> SUFFICES ASSUME BooksInv, pc = "done"
               PROVE  /\ \A v \in Vms : vm[v] # "Booted"
                      /\ \A h \in AllHolds : h.src = "none"
                      /\ ~budget.held
    BY DEF AllIsReturned
  <2>1. /\ pending = NoHold /\ ~budget.held /\ joint = {}
        /\ \A v \in Vms : vm[v] = "Off" /\ hold[v] = "none"
    BY DEF BooksInv, Control
  <2>2. \A h \in AllHolds : h.src = "none"
    BY <2>1 DEF AllHolds, NoHold
  <2>. QED BY <2>1, <2>2
<1>. QED BY <1>1, BooksInvHolds, PTL


=============================================================================
