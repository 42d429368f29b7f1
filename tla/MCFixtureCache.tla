--------------------------- MODULE MCFixtureCache ---------------------------
(***************************************************************************)
(* Instance of FixtureCache for TLC, and of FixtureKeys: the key of a      *)
(* fixture that refers to g and h, which refer to each other and           *)
(* themselves in every way MCBodies has, and push a host file or not.      *)
(***************************************************************************)
EXTENDS FixtureCache, FixtureKeys

CONSTANTS c1, c2, base, net, g, h, tool

\* A lab fixture whose chunk starts from a vm fixture
MCDeps == [k \in Keys |-> IF k = net THEN {base} ELSE {}]

Symmetry == Permutations(Callers)

MCBodies == {<<>>, <<h>>, <<g, h>>, <<h, g, h>>}

MCSamples ==
    [source : {s \in Sources : s.rev = 1}, at : [Refs -> Sources \cup {Missing}],
     stat : [HostFiles -> {1, Missing}], image : Stats]

\* The cache knows a fixture by its key and does not look at the disk again, so the
\* disk is edited before the first call only, and the calls start from one disk
Plain == [source |-> [rev |-> 1, refs |-> <<>>, files |-> <<>>],
          at |-> [r \in Refs |-> Missing], stat |-> [x \in HostFiles |-> Missing], image |-> 1]

MCInit == CacheInit /\ now = Plain

MCNext ==
    \/ CacheNext /\ now = Plain /\ UNCHANGED now
    \/ CacheInit /\ Edit /\ UNCHANGED cacheVars

MCSpec == MCInit /\ [][MCNext]_<<cacheVars, now>>

=============================================================================
