----------------------------- MODULE FixtureKeys -----------------------------
(***************************************************************************)
(* The cache key of a fixture (fixture.rs, and resolve_dep_keys and        *)
(* collect_external_deps of lua/lab_ud.rs): a digest of the fixture's      *)
(* source, of the sources it refers to, of the kernels and initrds of the  *)
(* profiles and of the host files it pushes.                               *)
(*                                                                         *)
(* A source is its revision, the references the scans find in it and the   *)
(* host files it names; a reference is a fixture or a required helper, and *)
(* tells the file.  A host file, a kernel or an initrd is what the key     *)
(* takes of it, its size and mtime.  The digest is taken to be free of     *)
(* collisions: it is the tuple of what is fed to it.                       *)
(***************************************************************************)
EXTENDS Integers, SequencesExt

CONSTANTS
    Refs,           \* the fixtures and helpers a source may refer to
    Bodies,         \* what a source may refer to: sequences of Refs
    HostFiles,      \* the files vm:push_file and lab:depends_on_file may name
    Stats,          \* the sizes and mtimes of a file on the host
    Missing,        \* a file that is not there
    Samples         \* bound: the disks that are edited

VARIABLE now        \* the disk as it is

Sources == [rev : {1, 2}, refs : Bodies, files : {<<>>} \cup {<<x>> : x \in HostFiles}]

\* A state of the disk, as seen from one fixture: its own source, the files its
\* references are located as, the host files and the images of the profiles
Disks == [source : Sources, at : [Refs -> Sources \cup {Missing}],
          stat : [HostFiles -> Stats \cup {Missing}], image : Stats]

ASSUME SampleAssumption == Samples \subseteq Disks

\* External: one file of the disk is written, appears or is removed
Edits(disk) ==
    {[disk EXCEPT !.source = s] : s \in Sources}
        \cup {[disk EXCEPT !.at[r] = s] : r \in Refs, s \in Sources \cup {Missing}}
        \cup {[disk EXCEPT !.stat[x] = t] : x \in HostFiles, t \in Stats \cup {Missing}}
        \cup {[disk EXCEPT !.image = i] : i \in Stats}

Edit == now' \in Edits(now) \cap Samples

\* What compute_key_with_deps digests
compute_key(source, dep_keys) == <<source, dep_keys>>

\* Mutation of resolve_dep_keys: a reference is digested without its own ones
resolve_dep_keys_flat(disk, source, seen) ==
    FoldLeft(LAMBDA acc, ref :
        IF ref \in acc.seen \/ disk.at[ref] = Missing THEN acc
        ELSE [keys |-> Append(acc.keys, compute_key(disk.at[ref], <<>>)),
              seen |-> acc.seen \cup {ref}],
        [keys |-> <<>>, seen |-> seen], source.refs)

\* Depth first, with one `seen` for the whole walk: a reference met before gives no
\* key here, as its key is in the digest of the source that met it first
RECURSIVE resolve_dep_keys(_, _, _)
resolve_dep_keys(disk, source, seen) ==
    FoldLeft(LAMBDA acc, ref :
        IF ref \in acc.seen THEN acc
        ELSE IF disk.at[ref] = Missing THEN [acc EXCEPT !.seen = @ \cup {ref}]
        ELSE LET nested == resolve_dep_keys(disk, disk.at[ref], acc.seen \cup {ref})
             IN  [keys |-> Append(acc.keys, compute_key(disk.at[ref], nested.keys)),
                  seen |-> nested.seen],
        [keys |-> <<>>, seen |-> seen], source.refs)

\* The host files, by the same walk; resolve_external_deps_pub drops repetitions
RECURSIVE collect_external_deps(_, _, _)
collect_external_deps(disk, source, seen) ==
    FoldLeft(LAMBDA acc, ref :
        IF ref \in acc.seen THEN acc
        ELSE IF disk.at[ref] = Missing THEN [acc EXCEPT !.seen = @ \cup {ref}]
        ELSE LET nested == collect_external_deps(disk, disk.at[ref], acc.seen \cup {ref})
             IN  [out |-> acc.out \o nested.out, seen |-> nested.seen],
        [out |-> source.files, seen |-> seen], source.refs)

\* A file that is not there is folded by its path alone
resolve_external_deps(disk) ==
    LET found == collect_external_deps(disk, disk.source, {}).out
        First(i) == \A j \in 1 .. i - 1 : found[j] # found[i]
        Fold(acc, i) == IF First(i) THEN Append(acc, <<found[i], disk.stat[found[i]]>>) ELSE acc
    IN  FoldLeft(Fold, <<>>, [i \in DOMAIN found |-> i])

\* compute_key_with_deps_kernels_and_externals
KeyOf(disk) ==
    <<compute_key(disk.source, resolve_dep_keys(disk, disk.source, {}).keys),
      disk.image, resolve_external_deps(disk)>>

-----------------------------------------------------------------------------
\* What a build reads, from the meaning of the sources: the references reachable
\* from the fixture, and the host files their sources and its own name
RECURSIVE Closure(_, _)
Closure(disk, S) ==
    LET T == S \cup UNION {Range(disk.at[r].refs) : r \in {q \in S : disk.at[q] # Missing}}
    IN  IF T = S THEN S ELSE Closure(disk, T)

Reached(disk) == Closure(disk, Range(disk.source.refs))

Pushed(disk) ==
    Range(disk.source.files)
        \cup UNION {Range(disk.at[r].files) : r \in {q \in Reached(disk) : disk.at[q] # Missing}}

\* What the build reads of the disk
Read(disk) ==
    <<disk.source, [r \in Reached(disk) |-> disk.at[r]],
      [x \in Pushed(disk) |-> disk.stat[x]], disk.image>>

\* An edit of one file of the disk changes the key exactly when the build reads
\* that file, through however many fixtures and helpers, in whatever order and
\* with whatever repetitions and cycles among them
EditRekeys == [][KeyOf(now') # KeyOf(now) <=> Read(now') # Read(now)]_now

=============================================================================
